------------------------------ MODULE MCHarness ------------------------------
EXTENDS Harness

\* Who acts besides the supervisors that are at work, and on which tasks; the rest of a scene
\* is named where it differs.
Scene(actors, sups, tasks) ==
  [actors |-> actors, sups |-> sups, tasks |-> tasks, runs |-> 0, ref |-> "none", beats |-> {},
   proposals |-> {}, launchers |-> 0, commands |-> 0, faults |-> 0, outages |-> 0, upkeep |-> 0,
   giveups |-> 0, errands |-> 0]

P == "pending"

MCScenes == {
  [Scene({"clock"}, {1}, <<P>>) EXCEPT !.outages = 1, !.upkeep = 1],
  [Scene({"operator", "clock"}, {1}, <<>>) EXCEPT !.commands = 1, !.outages = 1],
  [Scene({}, {1}, <<P>>) EXCEPT !.beats = Projects, !.proposals = Proposals \ HighRisk, !.giveups = 1],
  [Scene({"operator"}, {1, 2}, <<>>) EXCEPT !.commands = 1, !.faults = 1],
  [Scene({}, {1, 2}, <<P>>) EXCEPT !.faults = 1],
  [Scene({"nudge"}, {1}, <<>>) EXCEPT !.errands = 1, !.proposals = HighRisk, !.faults = 1],
  [Scene({"nudge", "stack", "operator"}, {1}, <<>>) EXCEPT !.commands = 1, !.errands = 1],
  [Scene({"stack"}, {1, 2}, <<>>) EXCEPT !.errands = 1, !.faults = 1],
  [Scene({"validator"}, {1}, <<"active">>) EXCEPT !.runs = 1, !.faults = 1],
  [Scene({"brancher"}, {}, <<P>>) EXCEPT !.commands = 1, !.faults = 1],
  [Scene({"stopper"}, {}, <<>>) EXCEPT !.launchers = 1, !.commands = 1, !.faults = 1],
  [Scene({}, {}, <<>>) EXCEPT !.launchers = 2],
  [Scene({"c1", "c2"}, {}, <<>>) EXCEPT !.commands = 3, !.faults = 1],
  [Scene({"c1", "adder"}, {}, <<"completed">>) EXCEPT !.ref = "i1", !.commands = 3]}
=============================================================================
