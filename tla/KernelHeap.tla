----------------------------- MODULE KernelHeap -----------------------------
(***************************************************************************)
(* Region 0: the kernel's page table from boot on, SetKernelBrk, and the   *)
(* handlers that borrow an entry of it or change the kernel stack          *)
(* (KernelStart, SetRegion0_pt, SetKernelBrk, KernelFork, CopyUPT, KCCopy, *)
(* KCSwitch, init_process, KernelExit).                                    *)
(*                                                                         *)
(* Pages of region 0 are 0 .. StackBase + StackSize - 1; a page is the     *)
(* frame of the same number until somebody changes that.  An address is    *)
(* the page it lies in.  Which process is scheduled is left open; module   *)
(* Process has the queues.                                                 *)
(***************************************************************************)
EXTENDS Integers, Sequences, FiniteSets, SequencesExt

CONSTANTS
  DataStart, DataEnd,   \* pages of _kernel_data_start and _kernel_data_end
  OrigBrk,              \* page of _kernel_orig_brk
  StackBase, StackSize, \* page of KERNEL_STACK_BASE, KERNEL_STACK_SIZE
  NFrames,              \* num_of_frames
  NProc,                \* bound: processes made by Fork
  UserPages             \* valid region 1 pages of every process

ASSUME KernelHeapAssumption ==
  /\ {DataStart, DataEnd, OrigBrk, StackBase, NFrames, NProc, UserPages} \subseteq Nat
  /\ StackSize \in Nat \ {0}
  /\ DataStart <= DataEnd /\ DataEnd <= OrigBrk /\ OrigBrk < StackBase
  /\ StackBase + StackSize <= NFrames

VARIABLES
  vm,          \* REG_VM_ENABLE, and how far KernelStart has come
  k_pt,        \* region 0 page table: valid, prot and pfn of every page
  kernel_brk,  \* page of the kernel break
  asked,       \* history: page of the last address SetKernelBrk has accepted
  pfn_list,    \* free frames, the next one last
  activePCB,   \* the running process; 0 is idle
  k_stack,     \* kernel_stack_pt of every process that was made
  frames,      \* frames in the user page table of every process
  spoilt       \* history: a Fork failed inside CopyUPT

vars == <<vm, k_pt, kernel_brk, asked, pfn_list, activePCB, k_stack, frames, spoilt>>

Pages == 0 .. StackBase + StackSize - 1
Stack == StackBase .. StackBase + StackSize - 1
VMEM_1 == StackBase + StackSize   \* the first page above region 0

PTE(v, pr, f) == [valid |-> v, prot |-> pr, pfn |-> f]
PTEs == [valid : BOOLEAN, prot : {"rx", "rw", "none"}, pfn : 0 .. NFrames - 1]

TypeOK ==
  /\ vm \in {"off", "filled", "enabled", "on"}
  /\ k_pt \in [Pages -> PTEs]
  /\ kernel_brk \in 0 .. StackBase - 1 /\ asked \in 0 .. StackBase
  /\ pfn_list \in Seq(VMEM_1 .. NFrames - 1)
  /\ activePCB \in 0 .. NProc /\ activePCB \in DOMAIN k_stack
  /\ \A p \in DOMAIN k_stack :
       p \in 0 .. NProc /\ k_stack[p] \in [1 .. StackSize -> PTEs]
  /\ DOMAIN frames = DOMAIN k_stack
  /\ spoilt \in BOOLEAN

-----------------------------------------------------------------------------
(* Boot.                                                                   *)

\* Mutant of SetRegion0_pt: invalid entries have no frame number.
SetRegion0_pt_Zero ==
  [i \in Pages |->
     CASE i < DataStart -> PTE(TRUE, "rx", i)
       [] i \in DataStart .. kernel_brk - 1 \cup Stack -> PTE(TRUE, "rw", i)
       [] OTHER -> PTE(FALSE, "none", 0)]

\* SetRegion0_pt with the break that the mallocs before it left.  An entry
\* outside of the segments is invalid, but has its frame number.
SetRegion0_pt ==
  [i \in Pages |->
     IF i < DataStart
     THEN PTE(TRUE, "rx", i)
     ELSE IF i < DataEnd \/ i < kernel_brk \/ i \in Stack
     THEN PTE(TRUE, "rw", i)
     ELSE PTE(FALSE, "none", i)]

\* Region 0 before SetRegion0_pt is not looked at; idle has not been made.
Init ==
  /\ vm = "off"
  /\ k_pt = [i \in Pages |-> PTE(FALSE, "none", 0)]
  /\ kernel_brk = OrigBrk /\ asked = 0
  /\ pfn_list = <<>>
  /\ activePCB = 0
  /\ k_stack = [p \in {0} |-> [i \in 1 .. StackSize |-> PTE(FALSE, "none", 0)]]
  /\ frames = [p \in {0} |-> {}]
  /\ spoilt = FALSE

\* KernelStart up to the loop that repeats the heap entries.
FillTable ==
  /\ vm = "off"
  /\ vm' = "filled"
  /\ k_pt' = SetRegion0_pt
  /\ UNCHANGED <<kernel_brk, asked, pfn_list, activePCB, k_stack, frames, spoilt>>

\* "CLEAN UP REG0 BEFORE ENABLING VM": the break may have moved.
HeapRepeated ==
  [i \in Pages |-> IF i >= DataEnd /\ i < kernel_brk THEN PTE(TRUE, "rw", i)
                                                     ELSE k_pt[i]]

\* Enabling virtual memory, SetUpGlobals' pfn_list, and idle's init_process
\* and LoadProgram.
EnableVM ==
  /\ vm = "filled"
  /\ vm' = "enabled"
  /\ k_pt' = HeapRepeated
  /\ NFrames - VMEM_1 >= UserPages
  /\ pfn_list' = [i \in 1 .. NFrames - VMEM_1 - UserPages |-> NFrames - i]
  /\ frames' = [frames EXCEPT ![0] = VMEM_1 .. VMEM_1 + UserPages - 1]
  /\ k_stack' = [k_stack EXCEPT ![0] =
       [i \in 1 .. StackSize |-> PTE(TRUE, "rw", k_pt[StackBase + i - 1].pfn)]]
  /\ UNCHANGED <<kernel_brk, asked, activePCB, spoilt>>

-----------------------------------------------------------------------------
(* The kernel heap.                                                        *)

\* Mutant of Opened: the entry of the new break is left out.
Opened_Short(page) ==
  [i \in Pages |-> IF i >= kernel_brk /\ i < page - 1 /\ ~k_pt[i].valid
                   THEN [k_pt[i] EXCEPT !.valid = TRUE, !.prot = "rw"]
                   ELSE k_pt[i]]

\* The entries from the old to the new break; an invalid one becomes valid
\* with the frame number that it has.
Opened(page) ==
  [i \in Pages |-> IF i >= kernel_brk /\ i < page /\ ~k_pt[i].valid
                   THEN [k_pt[i] EXCEPT !.valid = TRUE, !.prot = "rw"]
                   ELSE k_pt[i]]

\* The address lies in the page; NULL and addresses in the stack are refused.
SetKernelBrk(page) ==
  /\ page < StackBase
  /\ IF vm \in {"enabled", "on"}
     THEN k_pt' = Opened(page) /\ kernel_brk' = page
     ELSE /\ kernel_brk' = IF page > kernel_brk THEN page ELSE kernel_brk
          /\ UNCHANGED k_pt
  /\ asked' = page
  /\ UNCHANGED <<vm, pfn_list, activePCB, k_stack, frames, spoilt>>

-----------------------------------------------------------------------------
(* Fork.                                                                   *)

Invalid(pt) == {i \in 0 .. StackBase : ~pt[i].valid}

\* The entry that Fork and KCCopy copy pages through.
Reserved(pt) == CHOOSE i \in Invalid(pt) : \A j \in Invalid(pt) : j <= i

\* The entry is made invalid again, with frame number 0.
GiveBack(pt, i) == [pt EXCEPT ![i] = PTE(FALSE, "none", 0)]

\* Mutant of Rest: the last frame taken stays on the list.
Rest_One(n) == SubSeq(pfn_list, 1, Len(pfn_list) - n + 1)

\* AllocatePFN, n times.
Taken(n) == SubSeq(pfn_list, Len(pfn_list) - n + 1, Len(pfn_list))
Rest(n)  == SubSeq(pfn_list, 1, Len(pfn_list) - n)

\* KCCopy for a child whose kernel stack has the frames in seq: the entries
\* of kernel_stack_pt become valid, unless there is no entry to copy through.
KCCopy(pt, seq) ==
  [i \in 1 .. StackSize |-> PTE(Invalid(pt) # {}, "rw", seq[i])]
AfterKCCopy(pt) == IF Invalid(pt) = {} THEN pt ELSE GiveBack(pt, Reserved(pt))

Calls == vm = "on" /\ activePCB # 0
Make(p) == p \in 1 .. NProc /\ p \notin DOMAIN k_stack
Extend(f, p, x) == [q \in DOMAIN f \cup {p} |-> IF q = p THEN x ELSE f[q]]

\* KernelStart's second init_process and KCCopy, without CopyUPT.
StartProgram(p) ==
  /\ vm = "enabled" /\ vm' = "on"
  /\ Make(p)
  /\ Len(pfn_list) >= StackSize + UserPages
  /\ pfn_list' = Rest(StackSize + UserPages)
  /\ k_stack' = Extend(k_stack, p, KCCopy(k_pt, Reverse(Taken(StackSize))))
  /\ frames' = Extend(frames, p,
       Range(Taken(StackSize + UserPages)) \ Range(Taken(StackSize)))
  /\ k_pt' = AfterKCCopy(k_pt)
  /\ UNCHANGED <<kernel_brk, asked, activePCB, spoilt>>

KernelFork(p) ==
  LET i == Reserved(k_pt)
      pt == GiveBack([k_pt EXCEPT ![i].valid = TRUE, ![i].prot = "rw"], i)
  IN
  /\ Calls
  /\ Make(p)
  /\ Invalid(k_pt) # {}
  /\ Len(pfn_list) >= StackSize + UserPages
  /\ pfn_list' = Rest(StackSize + UserPages)
  /\ k_stack' = Extend(k_stack, p, KCCopy(pt, Reverse(Taken(StackSize))))
  /\ frames' = Extend(frames, p,
       Range(Taken(StackSize + UserPages)) \ Range(Taken(StackSize)))
  /\ k_pt' = AfterKCCopy(pt)
  /\ UNCHANGED <<vm, kernel_brk, asked, activePCB, spoilt>>

\* CopyUPT runs out of frames: the child is forgotten with what it got, and
\* the reserved entry stays valid with the last frame that was copied to.
KernelForkCopyError ==
  LET i == Reserved(k_pt)
  IN
  /\ Calls
  /\ Invalid(k_pt) # {}
  /\ Len(pfn_list) >= StackSize /\ Len(pfn_list) < StackSize + UserPages
  /\ pfn_list' = <<>>
  /\ k_pt' = [k_pt EXCEPT ![i] =
       PTE(TRUE, "rw", IF Len(pfn_list) = StackSize THEN @.pfn ELSE pfn_list[1])]
  /\ spoilt' = TRUE
  /\ UNCHANGED <<vm, kernel_brk, asked, activePCB, k_stack, frames>>

\* No entry is left to copy through: Fork gives ERROR after init_process.
KernelForkNoPage ==
  /\ Calls
  /\ Invalid(k_pt) = {}
  /\ Len(pfn_list) >= StackSize
  /\ pfn_list' = Rest(StackSize)
  /\ UNCHANGED <<vm, k_pt, kernel_brk, asked, activePCB, k_stack, frames, spoilt>>

-----------------------------------------------------------------------------
(* Switching.                                                              *)

\* Mutant of Loaded: the last page of the stack is left out.
Loaded_Short(q) ==
  [i \in Pages |-> IF i \in Stack /\ i # StackBase + StackSize - 1
                   THEN k_stack[q][i - StackBase + 1] ELSE k_pt[i]]

\* KCSwitch puts the stack of the next process into region 0.
Loaded(q) ==
  [i \in Pages |-> IF i \in Stack THEN k_stack[q][i - StackBase + 1] ELSE k_pt[i]]

KCSwitch(q) ==
  /\ vm = "on"
  /\ q \in DOMAIN k_stack /\ q # activePCB
  /\ activePCB' = q
  /\ k_pt' = Loaded(q)
  /\ UNCHANGED <<vm, kernel_brk, asked, pfn_list, k_stack, frames, spoilt>>

Pfns(stack) == [i \in 1 .. StackSize |-> stack[i].pfn]

\* KernelExit: delete_process, then the switch to another process.
KernelExit(q) ==
  /\ Calls
  /\ q \in DOMAIN k_stack \ {activePCB}
  /\ pfn_list' = pfn_list \o Pfns(k_stack[activePCB])
                          \o SetToSeq(frames[activePCB])
  /\ activePCB' = q
  /\ k_pt' = Loaded(q)
  /\ k_stack' = [p \in DOMAIN k_stack \ {activePCB} |-> k_stack[p]]
  /\ frames' = [p \in DOMAIN frames \ {activePCB} |-> frames[p]]
  /\ UNCHANGED <<vm, kernel_brk, asked, spoilt>>

MoveBrk == \E page \in 0 .. StackBase : SetKernelBrk(page)
Fork    == \E p \in 1 .. NProc : KernelFork(p)
Next ==
  \/ FillTable \/ EnableVM \/ MoveBrk
  \/ \E p \in 1 .. NProc : StartProgram(p)
  \/ Fork \/ KernelForkCopyError \/ KernelForkNoPage
  \/ \E q \in 0 .. NProc : KCSwitch(q) \/ KernelExit(q)

Spec == Init /\ [][Next]_vars

-----------------------------------------------------------------------------
(* Properties.                                                             *)

\* Every page below that of the address malloc asked for last is mapped, for
\* reading and writing above the text.
HeapBacked ==
  vm = "on" => \A i \in DataStart .. asked - 1 : k_pt[i].valid /\ k_pt[i].prot = "rw"

\* The running process stands on its own kernel stack, all of which is valid:
\* a Fork that gets to KCCopy always leaves it an entry to copy through.
OwnStack ==
  vm = "on" => \A i \in 1 .. StackSize :
    /\ k_pt[StackBase + i - 1] = k_stack[activePCB][i]
    /\ k_pt[StackBase + i - 1].valid

\* No frame is mapped twice: not by two valid entries of region 0, not by two
\* processes, and none that is mapped is on the free list, until a Fork fails
\* inside CopyUPT: it leaves the entry it copied through valid, and the frame
\* of that entry is mapped by somebody else too.  Every variable has its type
\* throughout.
FramesDistinct ==
  /\ TypeOK
  /\ vm = "on" /\ ~spoilt =>
    LET stacks(p) == Range(Pfns(k_stack[p]))
        own(p) == stacks(p) \cup frames[p]
        below == {k_pt[i].pfn : i \in {j \in 0 .. StackBase - 1 : k_pt[j].valid}}
    IN  /\ \A i, j \in {j \in Pages : k_pt[j].valid} :
             i # j => k_pt[i].pfn # k_pt[j].pfn
        /\ \A p, q \in DOMAIN k_stack : p # q => own(p) \cap own(q) = {}
        /\ \A p \in DOMAIN k_stack :
             own(p) \cap (below \cup Range(pfn_list)) = {}
        /\ below \cap Range(pfn_list) = {}

\* kernel.c:435, "there's still a 1 to 1 correspondence between kernel virtual
\* memory and kernel physical memory": below the break a page is the frame of
\* the same number.  Fork and KCCopy leave frame number 0 in the entry they copy
\* through, which is the one below the stack and never becomes heap, until a
\* Fork fails inside CopyUPT and the next ones have to use lower entries.
IdentityMapped ==
  vm = "on" /\ ~spoilt => \A i \in 0 .. kernel_brk - 1 : k_pt[i].pfn = i

=============================================================================
