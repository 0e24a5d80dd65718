-------------------------------- MODULE Tlb ---------------------------------
(***************************************************************************)
(* The translation lookaside buffer for region 1, with the address spaces  *)
(* of module Memory: which handlers flush it (SwapProcess, LoadProgram)    *)
(* and which change the page table of the running process without doing so *)
(* (KernelBrk, TrapMemoryHandler).                                         *)
(*                                                                         *)
(* The buffer is hardware.  It is modelled as one that never forgets: an   *)
(* entry stays until it is flushed.  Fork flushes region 0 only and leaves *)
(* the parent's page table as it is.                                       *)
(***************************************************************************)
EXTENDS Memory

VARIABLES
  active,   \* activePCB; 0 is idle, whose own pages never change
  tlb,      \* the frame that is cached for a page, or INVALID_FRAME
  given     \* history: pages that Brk took away since the last flush

tvars == <<vars, active, tlb, given>>

Live == {p \in Proc : state[p] = "live"}

NoEntry == [i \in Page |-> INVALID_FRAME]

TInit == Init /\ active = 0 /\ tlb = NoEntry /\ given = {}

\* The running program, or the kernel for it, uses page i.
Touch(i) ==
  /\ active # 0
  /\ i \in Valid(active)
  /\ tlb[i] = INVALID_FRAME
  /\ tlb' = [tlb EXCEPT ![i] = page_table[active][i]]
  /\ UNCHANGED <<vars, active, given>>

\* Mutant of Switched: PTBR1 is written and nothing is flushed.
Switched_NoFlush(q) == active' = q /\ given' = {} /\ UNCHANGED tlb

\* SwapProcess: TLB_FLUSH_1, then PTBR1 is that of the next process.
Switched(q) == active' = q /\ given' = {} /\ tlb' = NoEntry

Switch(q) ==
  /\ ~crashed
  /\ q \in (Live \cup {0}) \ {active}
  /\ Switched(q)
  /\ UNCHANGED vars

\* The running process ends and the next one runs.
End(q) ==
  /\ active # 0
  /\ q \in (Live \cup {0}) \ {active}
  /\ \/ KernelExit(active) \/ KernelExecRefused(active) \/ TrapFault(active)
     \/ \E prog \in Programs : KernelExecError(active, prog)
  /\ Switched(q)

Fork ==
  /\ active # 0
  /\ \E c \in Proc : \/ KernelFork(active, c) \/ KernelForkCopyError(active, c)
                     \/ KernelForkNoPage(active, c) \/ KernelForkNull(active, c)
  /\ UNCHANGED <<active, tlb, given>>

\* LoadProgram flushes region 1 before it throws the old pages away and again
\* when the new ones are mapped.
Exec ==
  /\ active # 0
  /\ \E prog \in Programs : KernelExec(active, prog)
  /\ tlb' = NoEntry /\ given' = {}
  /\ UNCHANGED active

\* Brk and the growth of the stack flush nothing.
Resize ==
  /\ active # 0
  /\ \E target \in Page : \/ BrkGrow(active, target) \/ BrkShrink(active, target)
                          \/ GrowStack(active, target)
  /\ given' = given \cup {i \in Valid(active) : page_table'[active][i] = INVALID_FRAME}
  /\ UNCHANGED <<active, tlb>>

TNext ==
  \/ \E i \in Page : Touch(i)
  \/ \E q \in Proc \cup {0} : Switch(q) \/ End(q)
  \/ Fork \/ Exec \/ Resize

TSpec == TInit /\ [][TNext]_tvars

Stale == {i \in Page : tlb[i] \notin {INVALID_FRAME, page_table[active][i]}}

\* Pages that Brk took away are the only ones for which the running program
\* can reach another frame than its page table says, and only until the next
\* switch or Exec.
StaleOnlyGiven == active # 0 => Stale \subseteq given
=============================================================================
