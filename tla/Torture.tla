------------------------------ MODULE Torture -------------------------------
(***************************************************************************)
(* The two programs in progs/torture.c that meet at a condition variable:  *)
(* Bouncer waits for a signal again and again, SonarGal sends them.  main  *)
(* makes the condition variable and the lock first.                        *)
(***************************************************************************)
EXTENDS Sync

CONSTANT MaxSteps    \* bound: how many calls the two programs make

VARIABLES
  at,       \* the next call of each program
  boings,   \* how often Bouncer has printed its message
  pings     \* how often SonarGal has called CvarSignal

tvars == <<vars, at, boings, pings>>

main     == 0
Bouncer  == 1
SonarGal == 2
mutex == MAX_LOCKS - 1
cvar  == MAX_LOCKS + MAX_CVARS

\* main has not been forked from yet: whoever runs makes its calls.
TortureInit ==
  /\ Init
  /\ at = [p \in {main, Bouncer, SonarGal} |->
             IF p = main THEN "cvar" ELSE "acquire"]
  /\ boings = 0 /\ pings = 0

MainGoes(from, to) == at[main] = from /\ at' = [at EXCEPT ![main] = to]

\* Both ids are made, given back and made again.
Main ==
  /\ \/ MainGoes("cvar", "cvar back") /\ KernelCvarInit
     \/ MainGoes("cvar back", "cvar again") /\ KernelReclaim(cvar)
     \/ MainGoes("cvar again", "lock") /\ KernelCvarInit
     \/ MainGoes("lock", "lock back") /\ KernelLockInit
     \/ MainGoes("lock back", "lock again") /\ KernelReclaim(mutex)
     \/ MainGoes("lock again", "forked") /\ KernelLockInit
  /\ UNCHANGED <<boings, pings>>

Made == at[main] = "forked"

Goes(p, from, to) == me = p /\ at[p] = from /\ at' = [at EXCEPT ![p] = to]

BouncerStep ==
  \/ /\ Goes(Bouncer, "acquire", "wait") /\ KernelAcquire(mutex)
     /\ UNCHANGED <<boings, pings>>
  \/ /\ Goes(Bouncer, "wait", "release") /\ KernelCvarWait(cvar, mutex)
     /\ UNCHANGED <<boings, pings>>
  \/ /\ Goes(Bouncer, "release", "print") /\ KernelRelease(mutex)
     /\ UNCHANGED <<boings, pings>>
  \/ /\ Goes(Bouncer, "print", "acquire") /\ Calls
     /\ boings + pings < MaxSteps /\ boings' = boings + 1
     /\ UNCHANGED <<vars, pings>>

SonarGalStep ==
  \/ /\ Goes(SonarGal, "acquire", "signal") /\ KernelAcquire(mutex)
     /\ UNCHANGED <<boings, pings>>
  \/ /\ Goes(SonarGal, "signal", "release") /\ KernelCvarSignal(cvar)
     /\ boings + pings < MaxSteps /\ pings' = pings + 1
     /\ UNCHANGED boings
  \/ /\ Goes(SonarGal, "release", "acquire") /\ KernelRelease(mutex)
     /\ UNCHANGED <<boings, pings>>

Kernel ==
  /\ Scheduling \/ ResumeAcquire \/ ResumeCvarWait
  /\ UNCHANGED <<at, boings, pings>>

Programs == Made /\ (BouncerStep \/ SonarGalStep)

TortureNext == Main \/ Programs \/ Kernel

TortureSpec == TortureInit /\ [][TortureNext]_tvars

\* progs/torture.c:8, "Waits for a cvar signal, prints a message": Bouncer
\* has not printed more messages than there were signals.
PrintsAfterSignal == boings <= pings
=============================================================================
