---------------------------- MODULE DelayTiming -----------------------------
(***************************************************************************)
(* How long a Delay really lasts.  TrapClockHandler swaps first and scans  *)
(* blocked_q after the swap, in the process that was swapped out in an     *)
(* earlier clock trap.  A scan is therefore owed for every process whose   *)
(* kernel context waits in the clock handler, and it is done whenever that *)
(* process is resumed, whoever gives up the CPU.  The history variables    *)
(* here record, for every process in Delay, what it asked for, how many    *)
(* scans were owed at that moment and how many clock interrupts came since.*)
(***************************************************************************)
EXTENDS Process

VARIABLES
  asked,    \* the argument of the Delay
  owed,     \* the scans owed when Delay was called
  elapsed   \* the clock interrupts since

history == <<asked, owed, elapsed>>
dvars   == <<vars, history>>

\* bound on elapsed: more than any process sees while it is blocked
MaxElapsed == MaxDelay + MaxPid + 2

\* The scans that are owed: processes swapped out in the clock handler.
Pending == Cardinality({p \in Pid : pc[p] = "clock"})

DInit ==
  /\ Init
  /\ asked = [p \in Pid |-> 0]
  /\ owed = asked
  /\ elapsed = asked

\* A clock interrupt.
DClock ==
  /\ TrapClock \/ TrapClockIdle
  /\ elapsed' = [p \in Pid |->
       IF pc[p] = "delay" /\ elapsed[p] < MaxElapsed
       THEN elapsed[p] + 1 ELSE elapsed[p]]
  /\ UNCHANGED <<asked, owed>>

\* A call of Delay.
DDelay ==
  \E n \in 0 .. MaxDelay :
    /\ KernelDelay(n)
    /\ asked' = [asked EXCEPT ![activePCB] = n]
    /\ owed' = [owed EXCEPT ![activePCB] = Pending]
    /\ elapsed' = [elapsed EXCEPT ![activePCB] = 0]

\* Its return.
DReturn ==
  /\ ResumeDelay
  /\ asked' = [asked EXCEPT ![activePCB] = 0]
  /\ owed' = [owed EXCEPT ![activePCB] = 0]
  /\ elapsed' = [elapsed EXCEPT ![activePCB] = 0]

DNext == DClock \/ DDelay \/ DReturn \/ (Untimed /\ UNCHANGED history)

DSpec == DInit /\ [][DNext]_dvars

\* The fairness of Process: the history variables take no part in it.
DFairSpec == DSpec /\ Fairness

-----------------------------------------------------------------------------

\* Clock interrupts and scans of blocked_q balance: what a process in Delay
\* has been counted down is the interrupts since its call, plus the scans
\* that were owed at the call, minus those owed now.  No scan is lost or done
\* twice, whatever the order in which contexts are resumed.  A Delay(n) is
\* over only after n+1 scans, so it can be short only by those that were owed
\* when it was called.
ScanLedger ==
  /\ \A p \in Pid : Delaying(p) =>
       asked[p] - clock_ticks[p] + Pending = elapsed[p] + owed[p]
  /\ \A p \in Pid : pc[p] = "delay" /\ p \notin Elems(blocked_q) =>
       elapsed[p] + owed[p] > asked[p]

=============================================================================
