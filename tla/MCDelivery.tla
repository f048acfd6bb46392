----------------------------- MODULE MCDelivery -----------------------------
EXTENDS Delivery

\* The workspaces of the run and of its remedy, the runs' reports, who is at work, how
\* many promotions and faults there are.  There are Makefiles, with the exceptions below.
Project(mode, first, second, report, actors, promotions, n) ==
  [mode |-> mode, workspace |-> [r \in Runs |-> IF r \in Remedies THEN second ELSE first],
   report |-> [r \in Runs |-> report], makefile |-> Runs, actors |-> actors,
   promotions |-> promotions, faults |-> n]

MCProjects == {
  Project("direct_main", "dirty", "missing", "missing", {"a1", "a2"}, 1, 1),
  Project("direct_main", "dirty", "shared", "missing", {"a1"}, 3, 2),
  Project("direct_main", "dirty", "missing", "clean", {"a1", "objective", "gate"}, 1, 1),
  Project("direct_main", "dirty", "missing", "clean", {"a1", "repair"}, 1, 1),
  [Project("direct_main", "dirty", "missing", "clean", {"a1", "repair"}, 1, 1)
     EXCEPT !.makefile = {}],
  [Project("branch_and_pr", "dirty", "dirty", "clean", {"a1", "gate"}, 2, 0)
     EXCEPT !.makefile = Remedies],
  Project("direct_main", "shared", "missing", "clean", {"repair", "objective"}, 0, 1),
  Project("direct_main", "committed", "committed", "clean", {"a1", "gate"}, 1, 0),
  Project("branch_only", "dirty", "dirty", "concerns", {"a1", "objective"}, 1, 1),
  Project("branch_and_pr", "dirty", "dirty", "clean", {"a1", "watcher"}, 2, 1)}
=============================================================================
