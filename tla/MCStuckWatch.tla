---------------------------- MODULE MCStuckWatch ----------------------------
EXTENDS StuckWatch, Sequences

Work(status) == [NoTask EXCEPT !.status = status]
Failed(kind) == [NoTask EXCEPT !.status = "failed", !.kind = kind, !.run = "ended", !.cat = "c1"]

\* Who is at work on which tasks, what runs write, what the agent does, and the runs,
\* repairs and deaths there can be.
Scene(actors, tasks, writes, agent, runs, repairs, n) ==
  [actors |-> actors, tasks |-> tasks, promotion |-> tasks = <<Work("completed")>>,
   generation |-> IF repairs > 0 THEN "running" ELSE "none", sup |-> "w1",
   writes |-> writes, agent |-> agent, runs |-> runs, repairs |-> repairs, deaths |-> n]

\* A failed task, and n others that are done.
Beside(n) == <<Failed("work")>> \o [i \in 1..n |-> Work("completed")]

MCScenes == {
  Scene({"d1", "d2"}, <<Failed("work")>>, {}, {}, 0, 0, 0),
  Scene({"d1", "worker"}, Beside(4), {}, {}, 1, 0, 0),
  Scene({"d1", "d2", "worker"}, Beside(5), {}, {}, 1, 0, 0),
  Scene({"worker", "watch"}, <<Work("pending")>>, {"heartbeat"}, {}, 1, 0, 0),
  Scene({"worker", "watch"}, <<Work("pending")>>, {}, {"restart", "requeue"}, 1, 0, 1),
  Scene({"worker", "watch"}, <<Work("pending"), Work("pending")>>, {}, {}, 1, 0, 0),
  Scene({"watch"}, <<Work("completed")>>, {}, {}, 0, 0, 1),
  Scene({"watch", "repair"}, <<Failed("legacy")>>, {}, {"resume"}, 0, 1, 0),
  Scene({"worker", "repair"}, <<Failed("legacy")>>, {}, {"resume"}, 3, 1, 0)}
=============================================================================
