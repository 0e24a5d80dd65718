----------------------------- MODULE LifeCycle ------------------------------
(***************************************************************************)
(* What Fork, Exit and Wait promise to programs, without queues, contexts  *)
(* and scheduling.  A process is born once, runs, and dies with a code.    *)
(* If it dies by Exit its code goes to its parent: at once when the parent *)
(* is in Wait, else it is kept until the parent calls Wait or exits.  Only *)
(* a parent gets the code of a child, of each child at most once, and a    *)
(* Wait gets the code of one.                                              *)
(***************************************************************************)
EXTENDS Integers

CONSTANTS Pids, Codes, ERROR

VARIABLES
  stage,    \* "unborn", "alive", "dead", "gone"; "lost": the Fork failed,
            \* but the parent counts the child
  parent,   \* 0: none
  code,     \* what a process died with
  waiting,  \* the processes in Wait
  answer    \* the code that the Wait of a process is about to return, if any

vars == <<stage, parent, code, waiting, answer>>

Init ==
  /\ stage = [p \in Pids |-> IF p \in {0, 1} THEN "alive" ELSE "unborn"]
  /\ parent = [p \in Pids |-> 0]
  /\ code = [p \in Pids |-> 0]
  /\ waiting = {}
  /\ answer = [p \in Pids |-> {}]

\* The program of p makes system calls: it is not inside one.  Process 0 makes
\* none.
Runs(p) == p # 0 /\ stage[p] = "alive" /\ p \notin waiting /\ answer[p] = {}

Children(p, st) == {c \in Pids : parent[c] = p /\ stage[c] \in st}

\* A new process gets the first pid that was never used.
Fork(p) ==
  /\ Runs(p)
  /\ \E c \in Pids, st \in {"alive", "lost"} :
       /\ \A d \in Pids : stage[d] = "unborn" <=> d >= c
       /\ stage' = [stage EXCEPT ![c] = st]
       /\ parent' = [parent EXCEPT ![c] = p]
  /\ UNCHANGED <<code, waiting, answer>>

\* Where the code goes: to the parent's Wait, or into safe-keeping, if there
\* is a parent to ask for it.
Told(p) == parent[p] \in waiting
Kept(p) == parent[p] # 0 /\ stage[parent[p]] = "alive" /\ ~Told(p)

\* Children that live become orphans; the codes of dead ones are dropped.
Exit(p, x) ==
  /\ Runs(p)
  /\ code' = [code EXCEPT ![p] = x]
  /\ parent' = [c \in Pids |-> IF c \in Children(p, {"alive"}) THEN 0 ELSE parent[c]]
  /\ stage' = [c \in Pids |->
       IF c = p THEN (IF Kept(p) THEN "dead" ELSE "gone")
       ELSE IF c \in Children(p, {"dead"}) THEN "gone" ELSE stage[c]]
  /\ waiting' = waiting \ (IF Told(p) THEN {parent[p]} ELSE {})
  /\ answer' = [c \in Pids |-> IF Told(p) /\ c = parent[p] THEN {x} ELSE answer[c]]

\* An aborted process is kept whoever its parent is, and nobody is told.
Fault(p) ==
  /\ Runs(p)
  /\ code' = [code EXCEPT ![p] = ERROR]
  /\ stage' = [stage EXCEPT ![p] = "dead"]
  /\ UNCHANGED <<parent, waiting, answer>>

\* Wait with a dead child returns its code.
Collect(p) ==
  /\ Runs(p)
  /\ \E c \in Children(p, {"dead"}) : stage' = [stage EXCEPT ![c] = "gone"]
  /\ UNCHANGED <<parent, code, waiting, answer>>

\* Wait with none blocks.
Block(p) ==
  /\ Runs(p)
  /\ Children(p, {"dead"}) = {} /\ Children(p, {"alive", "lost"}) # {}
  /\ waiting' = waiting \cup {p}
  /\ UNCHANGED <<stage, parent, code, answer>>

\* Wait returns.
Return(p) ==
  /\ answer[p] # {}
  /\ answer' = [answer EXCEPT ![p] = {}]
  /\ UNCHANGED <<stage, parent, code, waiting>>

Next ==
  \E p \in Pids :
    \/ Fork(p)
    \/ \E x \in Codes : Exit(p, x)
    \/ Fault(p)
    \/ Collect(p)
    \/ Block(p)
    \/ Return(p)

Spec == Init /\ [][Next]_vars
=============================================================================
