--------------------------- MODULE MCControlPlane ---------------------------
(* Instances of ControlPlane for TLC. *)
EXTENDS ControlPlane

CONSTANTS op, s1, s2, wa

\* A system that was switched on, and nothing since; then one that was frozen.
Healthy == [state |-> "healthy", switch |-> TRUE]
Frozen  == [state |-> "frozen", switch |-> TRUE]

\* Where a behaviour starts, and how many commands and kills it has left.
Starts ==
  {[system |-> Blank,   lanes |-> "paused",  commands |-> 0, crashes |-> 0],
   [system |-> Healthy, lanes |-> "running", commands |-> 1, crashes |-> 0],
   [system |-> Healthy, lanes |-> "running", commands |-> 0, crashes |-> 1],
   [system |-> Frozen,  lanes |-> "paused",  commands |-> 1, crashes |-> 0]}

InitFrom(s) ==
  /\ system = s.system
  /\ lane = [l \in Lanes |-> s.lanes]
  /\ elapsed = {}
  /\ used = 0
  /\ pc = [p \in Processes |-> "idle"]
  /\ cmd = [p \in Processes |-> "status"]
  /\ target = [p \in Processes |-> "worker"]
  /\ copy = [p \in Processes |-> Blank]
  /\ expected = [p \in Processes |-> "off"]
  /\ todo = [p \in Processes |-> {}]
  /\ final = [p \in Processes |-> FALSE]
  /\ work = [p \in Processes |-> "free"]
  /\ commands = MaxCommands - s.commands
  /\ crashes = MaxCrashes - s.crashes

\* Bound: the processes that are inside a method at a time.
TwoOverlap == Cardinality({p \in Processes : pc'[p] # "idle"}) <= 2

OverlapSpec == (\E s \in Starts : InitFrom(s)) /\ [][Next /\ TwoOverlap]_vars /\ Fairness

=============================================================================
