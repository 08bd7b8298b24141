--------------------------- MODULE MCWorkerControl ---------------------------
(* Small instances of WorkerControl.  Process ids are interchangeable: they *)
(* are only compared with one another.                                      *)
EXTENDS WorkerControl, TLC

\* The owner of one shop sends requests; the other shop takes part in restoration,
\* capacity and maintenance.
MCOffered == {1} \X Operations

\* The locals of a task without those that are set again before they are next read.
Live(k) ==
    [k EXCEPT !.durable = IF k.pc \in {"local", "orphan", "replace", "replaced", "relogin", "adopt"}
                          THEN @ ELSE NoPid,
              !.local = IF k.pc \in {"local", "orphan"} \/ (k.pc = "confirm" /\ ~k.conf) THEN @ ELSE NoPid,
              !.conf = @ \/ k.pc \notin {"orphan", "confirm", "replaced"},
              !.want = IF k.pc \in {"relogin", "adopt"} THEN @ ELSE "stopped",
              !.already = @ /\ k.pc = "started",
              !.fresh = @ \/ k.pc # "retry",
              !.row = @ \/ (k.op # "enter" /\ k.pc \notin {"relogin", "adopt", "spawn", "retry", "launch"}),
              !.spoilt = @ /\ k.op \in {"stop", "delete"}]

\* While the API does not boot, its two threads are interchangeable: the one with the later
\* operation of the list is taken first.
Second == CHOOSE t \in Threads : t # Boot
Rank == [none |-> 0, start |-> 1, stop |-> 2, pause |-> 3, delete |-> 4, auto |-> 5]
Swapped == task[Boot].op # "restore" /\ Rank[task[Boot].op] < Rank[task[Second].op]
Named(t) ==
    CASE Swapped /\ t = Boot -> Second
      [] Swapped /\ t = Second -> Boot
      [] OTHER -> t

\* Of the recorded state of a worker, which is shown to its owner, a step reads only whether
\* it is degraded; of the locals of a task, those that are live.
View ==
    <<shop, [a \in Accounts |-> [runtime[a] EXCEPT !.state = @ = "degraded"]],
      [a \in Accounts |-> Named(lease[a])], os, reg, trans, [a \in Accounts |-> Named(resv[a])],
      [t \in Tasks |-> Live(task[Named(t)])], marker, entered, up, drained,
      halted, lost, requests, events>>

PidSymmetry == Permutations(Pids)
=============================================================================
