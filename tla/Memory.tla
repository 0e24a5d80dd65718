------------------------------- MODULE Memory -------------------------------
(***************************************************************************)
(* Page frames: the list of free frames (pfn_list), the region 1 page      *)
(* table and the kernel stack of every process, and the operations that    *)
(* allocate and free frames: Fork (init_process, CopyUPT), Exec            *)
(* (LoadProgram), Exit (free_addr_space), Brk and the growth of the stack  *)
(* in TrapMemoryHandler.  Frames run out.                                  *)
(*                                                                         *)
(* Each operation is a system call or trap that runs to its end, so any    *)
(* live process may be the one that makes it; who runs when is the subject *)
(* of module Process.  The idle program, loaded first and never freed, is  *)
(* left out: NumFrames counts the frames that remain.                      *)
(***************************************************************************)
EXTENDS QueueOps

CONSTANTS
  NumFrames,    \* page frames, numbered from 1; 0 is a kernel frame
  NumPages,     \* USER_PT_SIZE: pages of region 1, numbered from 1
  KStackSize,   \* KERNEL_STACK_SIZE
  KernelPages,  \* invalid pages of region 0 below the kernel stack
  MaxProc,      \* bound: processes ever made
  Programs      \* executables: pages of text, of data and of initial stack

ASSUME SizeAssumption ==
  /\ {NumFrames, NumPages, KStackSize, KernelPages, MaxProc} \subseteq Nat \ {0}
  /\ Programs \subseteq [text : Nat \ {0}, data : Nat \ {0}, stack : Nat \ {0}]

Proc  == 1 .. MaxProc
Page  == 1 .. NumPages
Frame == 1 .. NumFrames

\* A page table entry: the frame of a page whose valid bit is set (0 in one
\* that LoadProgram marked valid and found no frame for), or INVALID_FRAME.
INVALID_FRAME == -1
Entries == {INVALID_FRAME, 0} \cup Frame

VARIABLES
  pfn_list,       \* the free frames; list_add and list_pop work on its end
  page_table,     \* PCB field user_page_table
  kernel_stack,   \* the frames in PCB field kernel_stack_pt
  data_index,     \* PCB field user_data_pt_index: the first page of data
  heap_index,     \* PCB field user_heap_pt_index: the first page above heap
  stack_index,    \* PCB field user_stack_pt_index: first page of initial stack
  state,          \* what became of a process
  reserved,       \* pages of region 0 free for Fork to copy through
  crashed,        \* the kernel dereferenced NULL
  mishaps         \* history: what has gone wrong so far

layout == <<data_index, heap_index, stack_index>>
vars   == <<pfn_list, page_table, kernel_stack, layout, state, reserved,
            crashed, mishaps>>

\* "none": not made yet.  "live".  "dead": its frames have been freed.
\* "faulted": aborted by TrapMath or TrapIllegal.  "stillborn": Fork failed.
States == {"none", "live", "dead", "faulted", "stillborn"}

Mishaps == {"fork", "exec", "brk", "stack", "fault"}

TypeOK ==
  /\ pfn_list \in Seq({0} \cup Frame)
  /\ page_table \in [Proc -> [Page -> Entries]]
  /\ kernel_stack \in [Proc -> Seq(Frame)]
  /\ data_index \in [Proc -> Nat]
  /\ heap_index \in [Proc -> Nat]
  /\ stack_index \in [Proc -> Nat]
  /\ state \in [Proc -> States]
  /\ reserved \in 0 .. KernelPages
  /\ crashed \in BOOLEAN
  /\ mishaps \subseteq Mishaps

-----------------------------------------------------------------------------
(* AllocatePFN pops the end of pfn_list.  It reports ERROR on an empty     *)
(* list, and also when the frame it popped is 0, which is then gone.       *)

\* How many calls of AllocatePFN succeed.
Usable(l) == LET zeros == {i \in DOMAIN l : l[i] = 0}
             IN  Cardinality({i \in DOMAIN l : \A z \in zeros : z < i})

\* pfn_list after a loop that wants n frames and stops at the first ERROR.
Drawn(l, n) == SubSeq(l, 1, IF n <= Usable(l) THEN Len(l) - n
                                              ELSE Len(l) - Usable(l) - 1)

\* The k-th frame that the loop gets.
Got(l, k) == l[Len(l) + 1 - k]

\* Page table t after such a loop over the pages S, from low to high.
Mapped(t, S, l) ==
  [i \in Page |-> IF i \in S /\ Rank(S, i) <= Usable(l)
                  THEN Got(l, Rank(S, i)) ELSE t[i]]

\* The frames of the valid pages in a table, from low to high.
FramesIn(t) == Keep(t, Entries \ {INVALID_FRAME})

\* DeallocatePFN for one frame after the other.
DeallocateAll(l, frames) == l \o frames

\* Mutant of free_addr_space: the kernel stack is forgotten.
free_addr_space_UserOnly(l, t, k) == DeallocateAll(l, FramesIn(t))

\* What it adds to pfn_list: first the kernel stack, then the user pages.
free_addr_space(l, t, k) == DeallocateAll(l, k \o FramesIn(t))

Valid(p) == {i \in Page : page_table[p][i] # INVALID_FRAME}

EmptyTable == [i \in Page |-> INVALID_FRAME]

-----------------------------------------------------------------------------
(* LoadProgram.                                                            *)

Text(prog)  == 1 .. prog.text
Data(prog)  == prog.text + 1 .. prog.text + prog.data
Stack(prog) == NumPages - prog.stack + 1 .. NumPages

\* At least one page is left between heap and stack.
Fits(prog) == prog.stack + prog.text + prog.data < NumPages

Pages(prog) == Text(prog) \cup Data(prog) \cup Stack(prog)

SetLayout(p, prog) ==
  /\ data_index' = [data_index EXCEPT ![p] = prog.text + 1]
  /\ heap_index' = [heap_index EXCEPT ![p] = prog.text + prog.data + 1]
  /\ stack_index' = [stack_index EXCEPT ![p] = NumPages - prog.stack + 1]

\* pfn_list when the kernel starts, the lowest frame at its end.
BootFrames == [i \in 1 .. NumFrames |-> NumFrames + 1 - i]

(* KernelStart has made the first process: init_process took the frames of *)
(* its kernel stack, LoadProgram those of the program.                     *)
Init ==
  LET l == Drawn(BootFrames, KStackSize)
  IN
  /\ KStackSize <= NumFrames
  /\ \E prog \in Programs :
       /\ Fits(prog) /\ Cardinality(Pages(prog)) <= Usable(l)
       /\ pfn_list = Drawn(l, Cardinality(Pages(prog)))
       /\ page_table = [p \in Proc |-> IF p = 1 THEN Mapped(EmptyTable, Pages(prog), l)
                                                ELSE EmptyTable]
       /\ data_index = [p \in Proc |-> IF p = 1 THEN prog.text + 1 ELSE 0]
       /\ heap_index = [p \in Proc |-> IF p = 1 THEN prog.text + prog.data + 1 ELSE 0]
       /\ stack_index = [p \in Proc |-> IF p = 1 THEN NumPages - prog.stack + 1 ELSE 0]
  /\ kernel_stack = [p \in Proc |-> IF p = 1 THEN [k \in 1 .. KStackSize |-> k] ELSE <<>>]
  /\ state = [p \in Proc |-> IF p = 1 THEN "live" ELSE "none"]
  /\ reserved = KernelPages
  /\ crashed = FALSE
  /\ mishaps = {}

Runs(p) == state[p] = "live" /\ ~crashed

Blame(what) == mishaps' = mishaps \cup {what}

-----------------------------------------------------------------------------
(* Exit and the traps that end a process.                                  *)

KernelExit(p) ==
  /\ Runs(p)
  /\ pfn_list' = free_addr_space(pfn_list, page_table[p], kernel_stack[p])
  /\ state' = [state EXCEPT ![p] = "dead"]
  /\ UNCHANGED <<page_table, kernel_stack, layout, reserved, crashed, mishaps>>

\* TrapMathHandler, TrapIllegalHandler: no frame is freed, now or later.
TrapFault(p) ==
  /\ Runs(p)
  /\ state' = [state EXCEPT ![p] = "faulted"]
  /\ Blame("fault")
  /\ UNCHANGED <<pfn_list, page_table, kernel_stack, layout, reserved, crashed>>

-----------------------------------------------------------------------------
(* Exec.                                                                   *)

\* The program cannot be opened, is not an executable for Yalnix or does not
\* fit: nothing has been changed when TrapKernelHandler calls KernelExit.
KernelExecRefused(p) == KernelExit(p)

\* pfn_list once the old address space is thrown away.
Cleared(p) == DeallocateAll(pfn_list, FramesIn(page_table[p]))

KernelExec(p, prog) ==
  LET l == Cleared(p)
      n == Cardinality(Pages(prog))
  IN
  /\ Runs(p)
  /\ Fits(prog)
  /\ n <= Usable(l)
  /\ pfn_list' = Drawn(l, n)
  /\ page_table' = [page_table EXCEPT ![p] = Mapped(EmptyTable, Pages(prog), l)]
  /\ SetLayout(p, prog)
  /\ UNCHANGED <<kernel_stack, state, reserved, crashed, mishaps>>

\* No frame for one of the pages, which is already marked valid and has pfn
\* 0: LoadProgram calls free_addr_space and returns ERROR, and for that
\* TrapKernelHandler calls KernelExit, which calls free_addr_space again.
\* (The layout of a process that is gone is not followed further.)
KernelExecError(p, prog) ==
  LET l == Cleared(p)
      S == Pages(prog)
      t == [i \in Page |->
              IF i \in S /\ Rank(S, i) = Usable(l) + 1 THEN 0
              ELSE Mapped(EmptyTable, S, l)[i]]
      freed == free_addr_space(Drawn(l, Cardinality(S)), t, kernel_stack[p])
  IN
  /\ Runs(p)
  /\ Fits(prog)
  /\ Cardinality(S) > Usable(l)
  /\ pfn_list' = free_addr_space(freed, t, kernel_stack[p])
  /\ page_table' = [page_table EXCEPT ![p] = t]
  /\ state' = [state EXCEPT ![p] = "dead"]
  /\ Blame("exec")
  /\ UNCHANGED <<kernel_stack, layout, reserved, crashed>>

-----------------------------------------------------------------------------
(* Fork: KStackSize frames in init_process, one page of region 0 to copy   *)
(* through, then a frame for every valid page in CopyUPT.                  *)

Unmade(c) == state[c] = "none" /\ \A q \in Proc : q < c => state[q] # "none"

\* The child's kernel stack and what it leaves of pfn_list.
ChildStack == [k \in 1 .. KStackSize |-> Got(pfn_list, k)]
AfterStack == Drawn(pfn_list, KStackSize)

Inherit(p, c) ==
  /\ data_index' = [data_index EXCEPT ![c] = data_index[p]]
  /\ heap_index' = [heap_index EXCEPT ![c] = heap_index[p]]
  /\ stack_index' = [stack_index EXCEPT ![c] = stack_index[p]]

KernelFork(p, c) ==
  LET n == Cardinality(Valid(p))
  IN
  /\ Runs(p) /\ Unmade(c)
  /\ KStackSize <= Usable(pfn_list)
  /\ reserved > 0
  /\ n <= Usable(AfterStack)
  /\ pfn_list' = Drawn(AfterStack, n)
  /\ page_table' = [page_table EXCEPT ![c] = Mapped(EmptyTable, Valid(p), AfterStack)]
  /\ kernel_stack' = [kernel_stack EXCEPT ![c] = ChildStack]
  /\ Inherit(p, c)
  /\ state' = [state EXCEPT ![c] = "live"]
  /\ UNCHANGED <<reserved, crashed, mishaps>>

\* CopyUPT runs out of frames: the child keeps what it got, and the page of
\* region 0 stays marked valid.
KernelForkCopyError(p, c) ==
  LET n == Cardinality(Valid(p))
  IN
  /\ Runs(p) /\ Unmade(c)
  /\ KStackSize <= Usable(pfn_list)
  /\ reserved > 0
  /\ n > Usable(AfterStack)
  /\ pfn_list' = Drawn(AfterStack, n)
  /\ page_table' = [page_table EXCEPT ![c] = Mapped(EmptyTable, Valid(p), AfterStack)]
  /\ kernel_stack' = [kernel_stack EXCEPT ![c] = ChildStack]
  /\ Inherit(p, c)
  /\ state' = [state EXCEPT ![c] = "stillborn"]
  /\ reserved' = reserved - 1
  /\ Blame("fork")
  /\ UNCHANGED crashed

\* No page of region 0 is left to copy through.
KernelForkNoPage(p, c) ==
  /\ Runs(p) /\ Unmade(c)
  /\ KStackSize <= Usable(pfn_list)
  /\ reserved = 0
  /\ pfn_list' = AfterStack
  /\ kernel_stack' = [kernel_stack EXCEPT ![c] = ChildStack]
  /\ Inherit(p, c)
  /\ state' = [state EXCEPT ![c] = "stillborn"]
  /\ Blame("fork")
  /\ UNCHANGED <<page_table, reserved, crashed>>

\* init_process runs out of frames.  The entries of the kernel stack are not
\* marked valid yet, so its free_addr_space frees none of them; KernelFork
\* dereferences the NULL it returns.
KernelForkNull(p, c) ==
  /\ Runs(p) /\ Unmade(c)
  /\ KStackSize > Usable(pfn_list)
  /\ pfn_list' = AfterStack
  /\ kernel_stack' = [kernel_stack EXCEPT
       ![c] = [k \in 1 .. Usable(pfn_list) |-> Got(pfn_list, k)]]
  /\ state' = [state EXCEPT ![c] = "stillborn"]
  /\ crashed' = TRUE
  /\ Blame("fork")
  /\ UNCHANGED <<page_table, layout, reserved>>

-----------------------------------------------------------------------------
(* Brk.  The calls it refuses, with no change, are those whose target is   *)
(* not above data_index and below stack_index, those that would grow into  *)
(* valid pages and those that would shrink over invalid ones.              *)

\* Mutant of BrkGrow: the break moves although the frames ran out.
BrkGrow_MovesAnyway(p, target) ==
  LET S == heap_index[p] .. target - 1
  IN
  /\ Runs(p)
  /\ data_index[p] < target /\ target < stack_index[p]
  /\ heap_index[p] < target
  /\ S \cap Valid(p) = {}
  /\ pfn_list' = Drawn(pfn_list, Cardinality(S))
  /\ page_table' = [page_table EXCEPT ![p] = Mapped(@, S, pfn_list)]
  /\ heap_index' = [heap_index EXCEPT ![p] = target]
  /\ UNCHANGED <<kernel_stack, data_index, stack_index, state, reserved, crashed,
                 mishaps>>

BrkGrow(p, target) ==
  LET S == heap_index[p] .. target - 1
  IN
  /\ Runs(p)
  /\ data_index[p] < target /\ target < stack_index[p]
  /\ heap_index[p] < target
  /\ S \cap Valid(p) = {}
  /\ pfn_list' = Drawn(pfn_list, Cardinality(S))
  /\ page_table' = [page_table EXCEPT ![p] = Mapped(@, S, pfn_list)]
  /\ IF Cardinality(S) <= Usable(pfn_list)
     THEN heap_index' = [heap_index EXCEPT ![p] = target] /\ UNCHANGED mishaps
     ELSE Blame("brk") /\ UNCHANGED heap_index
  /\ UNCHANGED <<kernel_stack, data_index, stack_index, state, reserved, crashed>>

\* Mutant of BrkShrink: the pages that are given up stay valid.
BrkShrink_KeepsMapping(p, target) ==
  LET S == target .. heap_index[p] - 1
  IN
  /\ Runs(p)
  /\ data_index[p] < target /\ target < stack_index[p]
  /\ target < heap_index[p]
  /\ S \subseteq Valid(p)
  /\ pfn_list' = DeallocateAll(pfn_list,
       [k \in 1 .. heap_index[p] - target |-> page_table[p][target + k - 1]])
  /\ heap_index' = [heap_index EXCEPT ![p] = target]
  /\ UNCHANGED <<page_table, kernel_stack, data_index, stack_index, state, reserved,
                 crashed, mishaps>>

BrkShrink(p, target) ==
  LET S == target .. heap_index[p] - 1
  IN
  /\ Runs(p)
  /\ data_index[p] < target /\ target < stack_index[p]
  /\ target < heap_index[p]
  /\ S \subseteq Valid(p)
  /\ pfn_list' = DeallocateAll(pfn_list,
       [k \in 1 .. heap_index[p] - target |-> page_table[p][target + k - 1]])
  /\ page_table' = [page_table EXCEPT
       ![p] = [i \in Page |-> IF i \in S THEN INVALID_FRAME ELSE @[i]]]
  /\ heap_index' = [heap_index EXCEPT ![p] = target]
  /\ UNCHANGED <<kernel_stack, data_index, stack_index, state, reserved,
                 crashed, mishaps>>

(* TrapMemoryHandler: an invalid page is taken for the stack to grow into, *)
(* down to that page; a valid page, or one below region 1, ends the        *)
(* process.  stack_index is never changed.                                 *)
GrowStack(p, target) ==
  LET S == {i \in target .. stack_index[p] - 1 : i \notin Valid(p)}
  IN
  /\ Runs(p)
  /\ target \notin Valid(p)
  /\ pfn_list' = Drawn(pfn_list, Cardinality(S))
  /\ page_table' = [page_table EXCEPT ![p] = Mapped(@, S, pfn_list)]
  /\ mishaps' = IF Cardinality(S) <= Usable(pfn_list) THEN mishaps
                ELSE mishaps \cup {"stack"}
  /\ UNCHANGED <<kernel_stack, layout, state, reserved, crashed>>

-----------------------------------------------------------------------------

\* The operations that make and end processes: at most a few per process.
Lifecycle ==
  \E p \in Proc :
    \/ KernelExit(p) \/ KernelExecRefused(p)
    \/ TrapFault(p)
    \/ \E c \in Proc : \/ KernelFork(p, c) \/ KernelForkCopyError(p, c)
                       \/ KernelForkNoPage(p, c) \/ KernelForkNull(p, c)

\* Those that change an address space, any number of times.
Reshape ==
  \E p \in Proc :
    \/ \E prog \in Programs : KernelExec(p, prog) \/ KernelExecError(p, prog)
    \/ \E target \in Page : \/ BrkGrow(p, target) \/ BrkShrink(p, target)
                            \/ GrowStack(p, target)

Next == Lifecycle \/ Reshape

Spec == Init /\ [][Next]_vars

-----------------------------------------------------------------------------

\* The processes whose page table and kernel stack still hold frames.
Holders == {p \in Proc : state[p] \in {"live", "faulted", "stillborn"}}

\* The places in which frame f is: <<"free", position>>, <<"page", process,
\* page>> or <<"stack", process, position>>.
ListPlaces(f) == {<<"free", i>> : i \in {j \in DOMAIN pfn_list : pfn_list[j] = f}}
PagePlaces(p, f) == {<<"page", p, i>> : i \in {j \in Page : page_table[p][j] = f}}
StackPlaces(p, f) ==
  {<<"stack", p, i>> : i \in {j \in DOMAIN kernel_stack[p] : kernel_stack[p][j] = f}}

Places(f) ==
  ListPlaces(f) \cup (UNION {PagePlaces(p, f) : p \in Holders})
                \cup (UNION {StackPlaces(p, f) : p \in Holders})

\* No frame is shared, and none is free and in use at the same time, until
\* an Exec runs out of frames; running out in Fork, Brk or the growth of the
\* stack never makes two owners.  Every variable has its type throughout.
FramesNotShared ==
  /\ TypeOK
  /\ "exec" \notin mishaps => \A f \in Frame : Cardinality(Places(f)) <= 1

\* No frame is lost while programs end by Exit and Forks and Execs do not run
\* out of frames: every frame is free or belongs to a live process.  A Brk or
\* a growth of the stack that fails half way loses none.
FramesConserved ==
  mishaps \subseteq {"brk", "stack"} =>
    /\ \A f \in Frame : Places(f) # {}
    /\ \A p \in Holders : state[p] = "live"

\* The heap of a live process has no hole: all pages from the first page of
\* data up to heap_index and all pages of the initial stack are mapped, also
\* after a Brk that failed or that shrank the heap.
HeapMapped ==
  \A p \in Proc : state[p] = "live" =>
    /\ data_index[p] .. heap_index[p] - 1 \subseteq Valid(p)
    /\ stack_index[p] .. NumPages \subseteq Valid(p)
    /\ heap_index[p] < stack_index[p]
=============================================================================
