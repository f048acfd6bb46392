------------------------------ MODULE TaskBoard ------------------------------
(***************************************************************************)
(* What the queue and the run engine promise of a task, without leases,    *)
(* runs, recovery or the two halves of a status update: a task belongs to  *)
(* at most one worker, only its owner changes its status, an active task   *)
(* that lost its owner is handed back, and completed is final.             *)
(***************************************************************************)
EXTENDS Policy

CONSTANTS Workers, Tasks, None

VARIABLES
  status,  \* Tasks -> TaskStatus
  owner    \* Tasks -> Workers, or None

Init ==
  /\ status = [t \in Tasks |-> "pending"]
  /\ owner = [t \in Tasks |-> None]

\* A worker takes a waiting task nobody works on.
Claim(t, w) ==
  /\ status[t] = "pending" /\ owner[t] = None
  /\ owner' = [owner EXCEPT ![t] = w]
  /\ UNCHANGED status

\* The owner moves the task along a valid transition.
Advance(t, s) ==
  /\ owner[t] # None
  /\ s \in ValidTaskTransitions[status[t]]
  /\ status' = [status EXCEPT ![t] = s]
  /\ UNCHANGED owner

\* The owner is done with the task, or dies; the status stays as it is.
Leave(t) ==
  /\ owner[t] # None
  /\ owner' = [owner EXCEPT ![t] = None]
  /\ UNCHANGED status

\* Active tasks nobody owns any more go back to the queue.
HandBack(S) ==
  /\ S # {}
  /\ \A t \in S : status[t] = "active" /\ owner[t] = None
  /\ status' = [t \in Tasks |-> IF t \in S THEN "pending" ELSE status[t]]
  /\ UNCHANGED owner

\* An operator gives a failed task another chance.
Reopen(t) ==
  /\ status[t] = "failed"
  /\ status' = [status EXCEPT ![t] = "pending"]
  /\ UNCHANGED owner

Next ==
  \/ \E t \in Tasks :
       \/ \E w \in Workers : Claim(t, w)
       \/ \E s \in TaskStatus : Advance(t, s)
       \/ Leave(t)
       \/ Reopen(t)
  \/ \E S \in SUBSET Tasks : HandBack(S)

Spec == Init /\ [][Next]_<<status, owner>>
=============================================================================
