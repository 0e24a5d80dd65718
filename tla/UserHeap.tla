------------------------------ MODULE UserHeap ------------------------------
(***************************************************************************)
(* The heap of a user program: the break that the library keeps (brk, sbrk,*)
(* Brk, init_heap and grow_heap of yuserlib/yuser/libc.c) on top of the    *)
(* one that the kernel keeps (KernelBrk in syscalls.c).                    *)
(*                                                                         *)
(* The library counts bytes and calls the kernel only when the break moves *)
(* to another page; the kernel counts pages.  Addresses are bytes, pages   *)
(* are numbered from the base of region 1.  malloc itself is not part of   *)
(* the repository: it calls init_heap once and grow_heap when it needs     *)
(* more.  Other processes take and return page frames at any time.  The    *)
(* stack does not grow here (module Memory has that).  The names of the    *)
(* specification begin with U, because HeapProofs has this module beside   *)
(* KernelHeap.                                                             *)
(***************************************************************************)
EXTENDS Integers, Sequences, FiniteSets

CONSTANTS
  PAGESIZE,
  BasePage,         \* VMEM_1_BASE in pages
  data_index,       \* the program's first page of data
  stack_index,      \* the first page of its stack
  EndOfProgram,     \* the address &_end
  PRE_STARTUP_HEAPSIZE,
  HeaderSize,       \* sizeof(mblock_t)
  NumFrames,        \* frames for this process and the others
  Lens,             \* the arguments of grow_heap that are tried
  Increments,       \* the arguments of sbrk that the program itself tries
  Addrs             \* the arguments of Brk that the program itself tries

ASSUME HeapAssumption ==
  /\ PAGESIZE \in Nat \ {0} /\ PAGESIZE % 8 = 0
  /\ {BasePage, data_index, stack_index, NumFrames} \subseteq Nat
  /\ {EndOfProgram, PRE_STARTUP_HEAPSIZE, HeaderSize} \subseteq Nat
  /\ HeaderSize <= PRE_STARTUP_HEAPSIZE
  /\ Lens \cup Addrs \subseteq Nat /\ Increments \subseteq Int \ {0}

\* x rounded up to a multiple of m.
Up(x, m) == ((x + m - 1) \div m) * m

UP_TO_PAGE(x) == Up(x, PAGESIZE)

\* The first page that is not below the address.
PageOf(addr) == UP_TO_PAGE(addr) \div PAGESIZE - BasePage

ASSUME LayoutAssumption ==
  /\ data_index < PageOf(EndOfProgram) /\ PageOf(EndOfProgram) < stack_index
  /\ PageOf(EndOfProgram) - data_index <= NumFrames

VARIABLES
  mem,          \* the break and what the kernel knows, see UTypeOK
  heap_start, heap_end,
  ready,        \* init_heap has been called
  odd,          \* history: init_heap did not get its memory, or the program has
                \* moved the break below the end of malloc's heap
  blocks        \* the blocks that init_heap and grow_heap have made

uvars == <<mem, heap_start, heap_end, ready, odd, blocks>>

UTypeOK ==
  /\ mem \in [current_break : Nat,          \* the library's break
              heap_index : 0 .. stack_index, \* user_heap_pt_index
              valid : SUBSET (data_index .. stack_index - 1),
              free : 0 .. NumFrames,        \* length of pfn_list
              ok : BOOLEAN]                 \* the last call returned 0
  /\ heap_start \in Nat /\ heap_end \in Nat
  /\ ready \in BOOLEAN /\ odd \in BOOLEAN
  /\ blocks \in Seq([at : Nat, size : Int, len : Nat])

\* LoadProgram has mapped the pages up to the end of the program.
UInit ==
  /\ mem = [current_break |-> EndOfProgram,
            heap_index |-> PageOf(EndOfProgram),
            valid |-> data_index .. PageOf(EndOfProgram) - 1,
            free |-> NumFrames - (PageOf(EndOfProgram) - data_index),
            ok |-> TRUE]
  /\ heap_start = 0 /\ heap_end = 0
  /\ ready = FALSE /\ odd = FALSE
  /\ blocks = <<>>

-----------------------------------------------------------------------------
(* KernelBrk.                                                              *)

ERROR(m) == [m EXCEPT !.ok = FALSE]

\* There are frames for n pages.
Enough(m, n) == n <= m.free

\* The heap grows over the pages m.heap_index .. target - 1.  Frames may run
\* out on the way; the pages mapped so far stay.
Grow(m, target) ==
  LET new == m.heap_index .. target - 1
      n   == target - m.heap_index
  IN  IF new \cap m.valid # {} THEN ERROR(m)
      ELSE IF Enough(m, n)
      THEN [m EXCEPT !.heap_index = target, !.valid = @ \cup new,
                     !.free = @ - n, !.ok = TRUE]
      ELSE [m EXCEPT !.valid = @ \cup m.heap_index .. m.heap_index + m.free - 1,
                     !.free = 0, !.ok = FALSE]

\* The heap shrinks to the page target.
Shrink(m, target) ==
  LET old == target .. m.heap_index - 1
  IN  IF ~(old \subseteq m.valid) THEN ERROR(m)
      ELSE [m EXCEPT !.heap_index = target, !.valid = @ \ old,
                     !.free = @ + Cardinality(old), !.ok = TRUE]

KernelBrk(m, addr) ==
  LET target == PageOf(addr)
  IN  IF addr = 0 \/ target >= stack_index \/ target <= data_index
      THEN ERROR(m)
      ELSE IF target > m.heap_index THEN Grow(m, target) ELSE Shrink(m, target)

-----------------------------------------------------------------------------
(* The library.                                                            *)

\* Mutant of brk_unlocked: the break moves although the kernel refuses.
brk_unlocked_Regardless(m, addr) ==
  LET a == Up(addr, 8)
      s == KernelBrk(m, UP_TO_PAGE(a))
  IN  IF UP_TO_PAGE(a) = UP_TO_PAGE(m.current_break)
      THEN [m EXCEPT !.current_break = a, !.ok = TRUE]
      ELSE [s EXCEPT !.current_break = a]

brk_unlocked(m, addr) ==
  LET a == Up(addr, 8)
      s == KernelBrk(m, UP_TO_PAGE(a))
  IN  IF UP_TO_PAGE(a) = UP_TO_PAGE(m.current_break)
      THEN [m EXCEPT !.current_break = a, !.ok = TRUE]
      ELSE IF s.ok THEN [s EXCEPT !.current_break = a] ELSE s

\* The first call of malloc.  The first block is made of whatever there is.
init_heap ==
  LET m == brk_unlocked(mem, mem.current_break + PRE_STARTUP_HEAPSIZE)
  IN
  /\ ~ready
  /\ mem' = m
  /\ heap_start' = mem.current_break
  /\ heap_end' = m.current_break
  /\ blocks' = <<[at |-> heap_start', size |-> heap_end' - heap_start' - HeaderSize,
                  len |-> 0]>>
  /\ ready' = TRUE
  /\ odd' = ~m.ok

\* Mutant of Request: the header of the new block is forgotten.
Request_NoHeader(len) == UP_TO_PAGE(heap_end + len)

\* Where grow_heap wants the break to be.
Request(len) == UP_TO_PAGE(heap_end + len + HeaderSize)

\* malloc needs len more bytes.
grow_heap(len) ==
  LET m == brk_unlocked(mem, Request(len))
      new_end == m.current_break
  IN
  /\ ready
  /\ mem' = m
  /\ IF m.ok /\ new_end >= Request(len)
     THEN /\ blocks' = Append(blocks, [at |-> heap_end, len |-> len,
                                       size |-> new_end - heap_end - HeaderSize])
          /\ heap_end' = new_end
     ELSE UNCHANGED <<blocks, heap_end>>
  /\ UNCHANGED <<heap_start, ready, odd>>

\* The program moves the break itself.
Moves(m) ==
  /\ mem' = m
  /\ odd' = (odd \/ (ready /\ m.current_break < heap_end))
  /\ UNCHANGED <<heap_start, heap_end, ready, blocks>>

sbrk(incr) == Moves(brk_unlocked(mem, mem.current_break + incr))

Brk(addr) ==
  LET s == KernelBrk(mem, addr)
  IN  Moves(IF s.ok THEN [s EXCEPT !.current_break = addr] ELSE s)

\* Frames that this process does not hold come and go.
OthersTakeFrames ==
  /\ \E n \in 0 .. NumFrames - Cardinality(mem.valid) :
       mem' = [mem EXCEPT !.free = n]
  /\ UNCHANGED <<heap_start, heap_end, ready, odd, blocks>>

UNext ==
  \/ init_heap
  \/ \E len \in Lens : grow_heap(len)
  \/ \E incr \in Increments : sbrk(incr)
  \/ \E addr \in Addrs : Brk(addr)
  \/ OthersTakeFrames

USpec == UInit /\ [][UNext]_uvars

-----------------------------------------------------------------------------
(* Properties.                                                             *)

\* The break of the library and that of the kernel never part, whatever
\* succeeds, fails or fails half way: the kernel's heap ends at the page of
\* current_break, and every page below it is mapped.
BreaksAgree ==
  /\ UTypeOK
  /\ mem.heap_index = PageOf(mem.current_break)
  /\ data_index .. mem.heap_index - 1 \subseteq mem.valid

\* The blocks that malloc works on lie one after the other between
\* heap_start and heap_end, have room for what was asked, and are mapped,
\* also when a failed grow_heap came in between or the program has moved the
\* break itself, as long as it has not moved it below heap_end.
BlocksTile ==
  ready /\ ~odd =>
    /\ heap_end <= (mem.heap_index + BasePage) * PAGESIZE
    /\ blocks[1].at = heap_start
    /\ \A i \in DOMAIN blocks :
         LET b == blocks[i]
         IN  /\ b.size >= b.len
             /\ b.at + HeaderSize + b.size =
                  IF i = Len(blocks) THEN heap_end ELSE blocks[i + 1].at

=============================================================================
