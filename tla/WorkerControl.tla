----------------------------- MODULE WorkerControl -----------------------------
(***************************************************************************)
(* Supervision of the reply workers by the API process: the process        *)
(* registry of backend/bot_manager.py, the worker_runtimes rows and        *)
(* worker-control leases of backend/db.py, and the operations of           *)
(* backend/app.py on them: start, stop, pause for a login, delete,         *)
(* automatic start, restoration at start-up and the drain for an update.   *)
(*                                                                         *)
(* A process id is a number that the system reuses.  A row holds the bare  *)
(* number; the registry holds handles (a child, or a pidfd with its start  *)
(* time) that a reused number does not revive, so a handle is the id while *)
(* its process lives and Gone afterwards.  The generations that the code   *)
(* compares are kept as "unchanged since read" (task.fresh).               *)
(***************************************************************************)
EXTENDS Integers, FiniteSets, FiniteSetsExt

CONSTANTS
    Accounts,     \* shop accounts, numbered as their rows are ordered
    Offered,      \* the requests that owners send: pairs of an account and an operation
    DefaultAccount, \* the account that is disconnected instead of deleted
    Pids,         \* process ids of the host (any values)
    Threads,      \* threads of the API that serve requests; the first one also boots it
    Boot,         \* that thread
    Watcher,      \* the update-maintenance thread
    MaxRunning,   \* max_running_workers
    MaxRequests,  \* requests in all
    Faults,       \* the kinds of event that happen
    MaxEvents     \* faults, reuses, lost connections and maintenance windows in all

Kinds == {"signal", "config", "maintenance", "death", "reuse", "lease", "login", "crash"}
Operations == {"start", "stop", "pause", "delete", "auto", "complete"}

ASSUME WorkerAssumption ==
    /\ Accounts \subseteq Nat \ {0} /\ IsFiniteSet(Accounts)
    /\ Offered \subseteq Accounts \X Operations
    /\ Pids \cap {"none", "gone"} = {}
    /\ Boot \in Threads /\ Watcher \notin Threads
    /\ (Threads \cup {Watcher}) \cap {"none", "dead"} = {}
    /\ Faults \subseteq Kinds
    /\ MaxRunning \in Nat /\ MaxRequests \in Nat /\ MaxEvents \in Nat

VARIABLES
    shop,      \* per account: enabled, connected, must log in again (auth status)
    runtime,   \* worker_runtimes
    lease,     \* owner of worker-control:<account>, or NoTask
    os,        \* what runs under each process id
    reg,       \* _procs: a handle, NoPid or Gone
    trans,     \* _transitions: a process whose stop has not been confirmed
    resv,      \* _start_reservations: the thread that restarts the account's worker
    task,      \* what each thread is doing
    marker,    \* the maintenance marker of a platform update is set
    entered,   \* MaintenanceWatcher: no window entered, this one, or an earlier one
    up,        \* the API process runs
    drained,   \* the drain endpoint said ready in this maintenance window, and no
               \* restoration without its lease has started a worker since
    halted,    \* history: accounts whose owner's last stop was confirmed and has not been
               \* overridden by the owner (a start, a login) or by a restoration or an
               \* automatic start whose lease had run out (Heeds)
    lost,      \* workers that outlived an API without being on record, whose account the
               \* next API passed over because the dead one's lease still held, or whose
               \* record an automatic start overwrote
    requests, events

vars == <<shop, runtime, lease, os, reg, trans, resv, task, marker, entered, up, drained,
          halted, lost, requests, events>>

NoPid == "none"
Gone == "gone"
NoTask == "none"
DeadTask == "dead"
Tasks == Threads \cup {Watcher}
Modes == {"rules", "rules_ai"}
NoTrans == [pid |-> NoPid, terminating |-> FALSE]
Free == [kind |-> "free", account |-> 0, mode |-> "rules"]

\* want and durable are what the row said when it was read; spoilt is a history: while this
\* task worked on the account, a task without its lease failed to end a worker that it had
\* launched, or recorded it.
Idle == [op |-> "none", pc |-> "idle", acct |-> 0, mode |-> "rules", want |-> "stopped",
         durable |-> NoPid, local |-> NoPid, conf |-> TRUE, again |-> FALSE, already |-> FALSE,
         fresh |-> TRUE, row |-> TRUE, undo |-> FALSE, bad |-> FALSE, spoilt |-> FALSE,
         pass |-> 1, todo |-> {}, pending |-> {}]

Spend(fault) == fault \in Faults /\ events > 0 /\ events' = events - 1

Step(t, pc) == task' = [task EXCEPT ![t].pc = pc]

-----------------------------------------------------------------------------
(* The process registry.                                                   *)

IsWorker(p, a) == os[p].kind = "worker" /\ os[p].account = a
Workers == {p \in Pids : os[p].kind = "worker"}

\* process_id.
ProcessId(a) ==
    CASE reg[a] \in Pids -> reg[a]
      [] reg[a] = NoPid /\ trans[a].pid \in Pids -> trans[a].pid
      [] OTHER -> NoPid

\* running_count.
Managed == {a \in Accounts : reg[a] \in Pids \/ trans[a] # NoTrans \/ resv[a] # NoTask}

\* The workers of an account that the registry does not have.
Overlooked(a) == {p \in Workers : IsWorker(p, a) /\ a \notin Managed}

\* A process that ended: its number is free and handles to it are dead.
Killed(p) ==
    /\ os' = [os EXCEPT ![p] = Free]
    /\ lost' = lost \ {p}

Disowned(p) ==
    /\ reg' = [a \in Accounts |-> IF reg[a] = p THEN Gone ELSE reg[a]]
    /\ trans' = [a \in Accounts |-> IF trans[a].pid = p THEN [trans[a] EXCEPT !.pid = Gone] ELSE trans[a]]

\* _terminate_process on a handle; a signal may fail or the process may outlive both.
Terminate(p, ok) ==
    IF ok
    THEN /\ IF p \in Pids THEN Killed(p) ELSE UNCHANGED <<os, lost>>
         /\ UNCHANGED events
    ELSE p \in Pids /\ Spend("signal") /\ UNCHANGED <<os, lost>>

IdentityMutant(p, a) ==
    CASE os[p].kind = "api" -> "pid_reused"
      [] os[p].kind = "worker" -> "worker"
      [] OTHER -> "pid_dead"

\* adopt's and terminate_pid's view of a recorded number.
Identity(p, a) ==
    CASE os[p].kind = "api" -> "pid_reused"
      [] os[p].kind = "free" -> "pid_dead"
      [] IsWorker(p, a) -> "worker"
      [] OTHER -> "pid_mismatch"

\* terminate_pid, and whether _stop_confirmed takes its answer for a stop.
TerminatePid(p, a, ok) ==
    LET id == Identity(p, a) IN
    IF id = "worker"
    THEN /\ Terminate(p, ok)
         /\ IF ok THEN Disowned(p) ELSE UNCHANGED <<reg, trans>>
    ELSE ok = (id # "pid_mismatch") /\ UNCHANGED <<os, lost, events, reg, trans>>

\* Every change of an account's _generations entry is seen by a start that read it, which is
\* one that tries a stop again.
Bumped(a) ==
    [t \in Tasks |-> IF task[t].pc = "retry" /\ task[t].acct = a
                     THEN [task[t] EXCEPT !.fresh = FALSE] ELSE task[t]]

-----------------------------------------------------------------------------
(* Requests: admission by the maintenance gate, then the account lease.    *)

Serving == up /\ task[Boot].op # "restore"

InFlight == \E t \in Threads : task[t].op \notin {"none", "restore"}

\* start_bot, stop_bot, delete_shop_account, _pause_account_worker_for_login_replace and
\* _autostart_account_worker up to _acquire_account_lease and the account's row.
Request(t, op, a, m) ==
    /\ Serving /\ task[t] = Idle /\ ~marker
    /\ lease[a] = NoTask
    /\ op \in {"start", "auto", "pause", "delete"} => shop[a].enabled
    /\ requests > 0 /\ requests' = requests - 1
    /\ lease' = [lease EXCEPT ![a] = t]
    /\ task' = [task EXCEPT ![t] = [Idle EXCEPT !.op = op, !.acct = a, !.mode = m, !.pc =
                   IF op \in {"start", "auto"} THEN "check" ELSE "stop"]]
    /\ halted' = IF op = "start" THEN halted \ {a} ELSE halted
    /\ UNCHANGED <<shop, runtime, os, reg, trans, resv, marker, entered, up, drained, lost, events>>

\* complete_xianyu_login re-arms automatic resumption before it looks at the login, with no lease.
CompleteLogin(a) ==
    /\ Serving /\ ~marker /\ shop[a].enabled
    /\ requests > 0 /\ requests' = requests - 1
    /\ runtime' = [runtime EXCEPT ![a].auto = TRUE]
    /\ halted' = halted \ {a}
    /\ UNCHANGED <<shop, lease, os, reg, trans, resv, task, marker, entered, up, drained, lost,
                   events>>

Owned(t) == lease[task[t].acct] = t

Released(t) == [lease EXCEPT ![task[t].acct] = IF @ = t THEN NoTask ELSE @]

\* A restoration goes on to the next account; a request ends.
Finish(t) ==
    LET k == task[t] IN
    /\ lease' = Released(t)
    /\ task' = [task EXCEPT ![t] =
                  IF k.op = "restore"
                  THEN [Idle EXCEPT !.op = "restore", !.pc = "next", !.pass = k.pass,
                                    !.todo = k.todo, !.pending = k.pending]
                  ELSE Idle]

Persist(a, desired, state, pid) ==
    runtime' = [runtime EXCEPT ![a].desired = desired, ![a].state = state, ![a].pid = pid]

\* _persist_worker_observation with the mode of the operation.
Observe(t, desired, state, pid) ==
    LET a == task[t].acct IN
    runtime' = [runtime EXCEPT ![a].desired = desired, ![a].state = state, ![a].pid = pid,
                               ![a].mode = task[t].mode]

\* A task that lost its lease goes on and writes the row all the same.  What a restoration or
\* an automatic start records as wanted, or any of them as still running, overrides a stop that
\* was confirmed meanwhile; a start of the owner is not to record that it runs.
Heeds(t) ==
    LET row == runtime'[task[t].acct]
        yields == IF row.desired = "running" THEN task[t].op = "start" ELSE row.pid = NoPid
    IN
    halted' = IF Owned(t) \/ yields THEN halted ELSE halted \ {task[t].acct}

\* _persist_restore_runtime: mode and generation are those read under the lease.
PersistRestore(t, desired, state, pid) ==
    IF task[t].row THEN Observe(t, desired, state, pid) ELSE UNCHANGED runtime

host == <<marker, entered, up, drained>>
registry == <<reg, trans, resv>>

-----------------------------------------------------------------------------
(* Stopping: bot_manager.stop, then the recorded process if it is another. *)

\* What follows the local stop.  The undo of a start ends no other process.
AfterLocal(k, durable, local) ==
    IF durable \in {NoPid, local} \/ k.undo THEN "confirm" ELSE "orphan"

\* stop, up to the signal: the handle moves to a transition.  A transition that another
\* thread is ending is waited for.
StopLocal(t) ==
    LET a == task[t].acct IN
    /\ task[t].pc = "stop"
    /\ ~trans[a].terminating
    /\ resv' = [resv EXCEPT ![a] = NoTask]
    /\ LET live == trans[a] # NoTrans \/ reg[a] \in Pids
           p == IF trans[a] # NoTrans THEN trans[a].pid ELSE reg[a]
       IN  /\ trans' = IF live THEN [trans EXCEPT ![a] = [pid |-> p, terminating |-> TRUE]] ELSE trans
           /\ reg' = IF trans[a] = NoTrans THEN [reg EXCEPT ![a] = NoPid] ELSE reg
           /\ task' = [Bumped(a) EXCEPT ![t] =
                         [task[t] EXCEPT !.durable = runtime[a].pid, !.local = ProcessId(a),
                                         !.conf = TRUE,
                                         !.pc = IF live THEN "local"
                                                ELSE AfterLocal(task[t], runtime[a].pid, ProcessId(a))]]
    /\ UNCHANGED <<shop, runtime, lease, os, host, halted, lost, requests, events>>

\* stop, after _terminate_process.
LocalEnd(t, ok) ==
    LET a == task[t].acct
        vain == ~ok /\ task[t].undo /\ ~Owned(t)
    IN
    /\ task[t].pc = "local"
    /\ Terminate(trans[a].pid, ok)
    /\ trans' = [trans EXCEPT ![a] = IF ok THEN NoTrans ELSE [@ EXCEPT !.terminating = FALSE]]
    /\ task' = [s \in Tasks |->
          IF s = t THEN [task[t] EXCEPT !.conf = ok,
                           !.pc = AfterLocal(task[t], task[t].durable, task[t].local)]
          ELSE [task[s] EXCEPT !.spoilt = @ \/ (vain /\ task[s].acct = a)]]
    /\ halted' = IF vain THEN halted \ {a} ELSE halted
    /\ UNCHANGED <<shop, runtime, lease, reg, resv, host, requests>>

\* The recorded process, if it is another than the local one.
StopOrphan(t, ok) ==
    LET d == task[t].durable IN
    /\ task[t].pc = "orphan"
    /\ TerminatePid(d, task[t].acct, ok)
    /\ task' = [task EXCEPT ![t].conf = @ /\ ok, ![t].pc = "confirm", ![t].local = IF ok THEN @ ELSE d]
    /\ UNCHANGED <<shop, runtime, lease, resv, host, halted, requests>>

Survivor(t) == IF task[t].conf THEN NoPid ELSE task[t].local

\* _persist_worker_stopped: what a stop leaves in the row, confirmed or not.
StoppedRow(t) ==
    [runtime[task[t].acct] EXCEPT !.desired = "stopped", !.pid = Survivor(t),
                                  !.state = IF task[t].conf THEN "stopped" ELSE "degraded"]

\* _pause_account_worker_for_login_replace: what was to run still is to run, after the login.
PausedRow(t) ==
    IF runtime[task[t].acct].desired = "running"
    THEN [runtime[task[t].acct] EXCEPT !.pid = Survivor(t),
             !.state = IF task[t].conf THEN "waiting_login" ELSE "degraded"]
    ELSE StoppedRow(t)

\* The end of _stop_account_worker_locked and of its callers.
StopEnd(t) ==
    LET k == task[t]
        a == k.acct
    IN
    /\ k.pc = "confirm" /\ k.op \in {"stop", "delete", "pause"}
    /\ \/ /\ ~Owned(t)
          /\ Finish(t) /\ UNCHANGED <<runtime, shop>>
       \/ /\ Owned(t) /\ k.op = "pause"
          /\ runtime' = [runtime EXCEPT ![a] = PausedRow(t)]
          /\ Finish(t) /\ UNCHANGED shop
       \/ /\ Owned(t) /\ k.op = "stop"
          /\ Finish(t) /\ UNCHANGED shop
          /\ runtime' = [runtime EXCEPT ![a] = [StoppedRow(t) EXCEPT !.auto = @ /\ ~k.conf]]
       \/ /\ Owned(t) /\ k.op = "delete" /\ ~k.conf /\ ~k.again
          /\ runtime' = [runtime EXCEPT ![a] = StoppedRow(t)]
          /\ task' = [task EXCEPT ![t].again = TRUE, ![t].pc = "stop"]
          /\ UNCHANGED <<lease, shop>>
       \/ /\ Owned(t) /\ k.op = "delete" /\ (k.conf \/ k.again)
          /\ Finish(t)
          /\ runtime' = [runtime EXCEPT ![a] = [StoppedRow(t) EXCEPT !.auto = FALSE]]
          /\ shop' = IF ~k.conf THEN shop
                     ELSE [shop EXCEPT ![a] = IF a = DefaultAccount
                                              THEN [@ EXCEPT !.connected = FALSE, !.reauth = FALSE]
                                              ELSE [@ EXCEPT !.enabled = FALSE]]
    /\ halted' = CASE ~Owned(t) -> halted
                   [] Owned(t) /\ ~k.conf -> halted \ {a}
                   [] Owned(t) /\ k.conf /\ k.op # "pause" /\ ~k.spoilt -> halted \cup {a}
                   [] OTHER -> halted
    /\ UNCHANGED <<os, registry, host, lost, requests, events>>

-----------------------------------------------------------------------------
(* Starting: _start_account_worker_locked.                                 *)

\* The outcome of a start that did not reach a process, by caller.
StartFailed(t) ==
    LET k == task[t] IN
    CASE k.op = "start" -> Finish(t) /\ UNCHANGED runtime
      [] k.op = "auto" -> Finish(t) /\ Observe(t, "running", "degraded", ProcessId(k.acct))
      [] OTHER -> IF marker THEN Finish(t) /\ UNCHANGED runtime
                  ELSE task' = [task EXCEPT ![t].pc = "stop", ![t].undo = TRUE] /\ UNCHANGED <<lease, runtime>>

\* The outcome of a start that raised before it looked for a process: an automatic start
\* degrades what is not recorded as degraded yet, and writes the registry's process over
\* the recorded one.
Raised(t) ==
    LET k == task[t] IN
    IF k.op = "start" \/ (runtime[k.acct].desired = "running" /\ runtime[k.acct].state = "degraded")
    THEN Finish(t) /\ UNCHANGED <<runtime, lost>>
    ELSE StartFailed(t) /\ lost' = lost \cup Overlooked(k.acct)

\* _require_account_worker_configuration: the control documents are in order, or not.
Configuration(valid) == IF valid THEN UNCHANGED events ELSE Spend("config")

\* _start_account_worker_locked up to the preparation: an automatic start ends and degrades
\* what it may not start.  Without a connection it writes the registry's process into the
\* row, which is none when the recorded one has not been adopted yet.
StartLocked(t, valid) ==
    LET k == task[t] IN
    CASE ~valid /\ k.op = "start" -> Finish(t) /\ UNCHANGED <<runtime, lost>>
      [] ~valid /\ k.op = "auto" ->
           /\ task' = [task EXCEPT ![t].pc = "stop", ![t].bad = TRUE]
           /\ UNCHANGED <<lease, runtime, lost>>
      [] valid /\ ~shop[k.acct].connected ->
           /\ StartFailed(t)
           /\ lost' = IF k.op = "auto" THEN lost \cup Overlooked(k.acct) ELSE lost
      [] OTHER -> Step(t, "prepare") /\ UNCHANGED <<lease, runtime, lost>>

\* Checks before a start: lease, account, maintenance, and whether an automatic start is
\* wanted, which clears the auth status first.
CheckStart(t, valid) ==
    LET k == task[t]
        a == k.acct
        resumes == runtime[a].desired = "running" \/ runtime[a].auto
    IN
    /\ k.pc = "check" /\ k.op \in {"start", "auto"}
    /\ shop' = IF k.op = "auto" /\ Owned(t) /\ shop[a].enabled /\ ~marker
               THEN [shop EXCEPT ![a].reauth = FALSE] ELSE shop
    /\ Configuration(valid)
    /\ \/ /\ Owned(t) \/ k.op = "start" \/ marker \/ runtime[a].desired = "stopped"
          /\ ~Owned(t) \/ ~shop[a].enabled \/ marker \/ (k.op = "auto" /\ ~resumes)
          /\ valid
          /\ Finish(t) /\ UNCHANGED <<runtime, lost>>
       \/ /\ ~Owned(t) /\ k.op = "auto" /\ ~marker /\ runtime[a].desired = "running"
          /\ valid
          /\ Persist(a, "running", "degraded", ProcessId(a)) /\ Finish(t)
          /\ lost' = lost \cup Overlooked(a)
       \/ /\ Owned(t) /\ shop[a].enabled /\ ~marker /\ (k.op = "auto" => resumes)
          /\ StartLocked(t, valid)
    /\ Heeds(t)
    /\ UNCHANGED <<os, registry, host, requests>>

\* _degrade_invalid_worker_configuration, after both stops.  The row is written even when
\* the lease ran out meanwhile, over the stop of an owner too.
Degrade(t) ==
    /\ task[t].pc = "confirm" /\ task[t].bad
    /\ Observe(t, "running", "degraded", Survivor(t))
    /\ Heeds(t)
    /\ Finish(t)
    /\ UNCHANGED <<shop, os, registry, host, lost, requests, events>>

\* adopt, once the identity is verified.
Adopted(a, p) ==
    IF a \in Managed THEN UNCHANGED <<reg, lost>>
    ELSE reg' = [reg EXCEPT ![a] = p] /\ lost' = lost \ {p}

\* _prepare_account_worker_start_locked up to the end of a recorded process: it is adopted,
\* or it must be replaced.
Prepare(t) ==
    LET k == task[t]
        a == k.acct
        d == runtime[a].pid
        id == IF d = NoPid THEN "pid_dead" ELSE Identity(d, a)
        adoptable == runtime[a].mode = "rules" /\ k.mode = "rules"
        ready == d = NoPid \/ d = ProcessId(a) \/ (adoptable /\ id = "pid_dead")
    IN
    /\ k.pc = "prepare"
    /\ \/ ~Owned(t) /\ Raised(t) /\ UNCHANGED reg
       \/ /\ Owned(t) /\ ready
          /\ Step(t, "spawn") /\ UNCHANGED <<lease, runtime, reg, lost>>
       \/ /\ Owned(t) /\ ~ready /\ adoptable /\ id = "worker"
          /\ Adopted(a, d)
          /\ task' = [Bumped(a) EXCEPT ![t].pc = "spawn"]
          /\ UNCHANGED <<lease, runtime>>
       \/ /\ Owned(t) /\ ~ready /\ adoptable /\ id = "pid_mismatch"
          /\ Raised(t) /\ UNCHANGED reg
       \/ /\ Owned(t) /\ ~ready /\ (~adoptable \/ id = "pid_reused")
          /\ task' = [task EXCEPT ![t].pc = "replace", ![t].durable = d]
          /\ UNCHANGED <<lease, runtime, reg, lost>>
    /\ Heeds(t)
    /\ UNCHANGED <<shop, os, trans, resv, host, requests, events>>

\* The recorded process is ended.
Replace(t, ok) ==
    /\ task[t].pc = "replace"
    /\ TerminatePid(task[t].durable, task[t].acct, ok)
    /\ task' = [task EXCEPT ![t].pc = "replaced", ![t].conf = ok]
    /\ UNCHANGED <<shop, runtime, lease, resv, host, halted, requests>>

\* The rest of it: the lease is looked at again, after the time the process took to end.
Replaced(t) ==
    LET k == task[t]
        a == k.acct
    IN
    /\ k.pc = "replaced"
    /\ \/ ~Owned(t) /\ Raised(t)
       \/ /\ Owned(t)
          /\ runtime' = [runtime EXCEPT ![a].desired = IF k.op = "auto" THEN "running" ELSE "stopped",
                            ![a].state = "degraded", ![a].mode = k.mode,
                            ![a].pid = IF k.conf THEN NoPid ELSE k.durable]
          /\ IF k.conf THEN Step(t, "spawn") /\ UNCHANGED lease ELSE Finish(t)
          /\ UNCHANGED lost
    /\ Heeds(t)
    /\ UNCHANGED <<shop, os, registry, host, requests, events>>

\* _worker_maintenance_lock is held across a start, and while the registry is shut down.
Locked == \E t \in Tasks : task[t].pc \in {"retry", "restart", "launch", "respawn", "shutdown"}

\* bot_start and the first look of bot_manager.start.  Nobody looks at the lease again before
\* the process is there.
BotStart(t) ==
    LET k == task[t]
        a == k.acct
        quiet == trans[a] = NoTrans /\ resv[a] = NoTask
    IN
    /\ k.pc = "spawn" /\ ~Locked
    /\ \/ marker /\ Finish(t) /\ UNCHANGED <<runtime, registry>>
       \/ ~marker /\ (resv[a] # NoTask \/ trans[a].terminating)
          /\ StartFailed(t) /\ UNCHANGED registry
       \/ /\ ~marker /\ quiet /\ reg[a] \in Pids /\ os[reg[a]].mode = k.mode
          /\ task' = [task EXCEPT ![t].pc = "started", ![t].already = TRUE]
          /\ UNCHANGED <<lease, runtime, registry>>
       \/ /\ ~marker /\ resv[a] = NoTask /\ trans[a] # NoTrans /\ ~trans[a].terminating
          /\ task' = [task EXCEPT ![t].pc = "retry", ![t].fresh = TRUE]
          /\ UNCHANGED <<lease, runtime, registry>>
       \/ /\ ~marker /\ quiet /\ reg[a] \in Pids /\ os[reg[a]].mode # k.mode
          /\ resv' = [resv EXCEPT ![a] = t]
          /\ trans' = [trans EXCEPT ![a] = [pid |-> reg[a], terminating |-> TRUE]]
          /\ reg' = [reg EXCEPT ![a] = NoPid]
          /\ task' = [Bumped(a) EXCEPT ![t].pc = "restart"]
          /\ UNCHANGED <<lease, runtime>>
       \/ /\ ~marker /\ quiet /\ reg[a] \notin Pids
          /\ Step(t, "launch") /\ UNCHANGED <<lease, runtime, registry>>
    /\ Heeds(t)
    /\ UNCHANGED <<shop, os, host, lost, requests, events>>

\* start: an unconfirmed stop is tried again.
RetryEnd(t, ok) ==
    LET a == task[t].acct IN
    /\ task[t].pc = "retry"
    /\ Terminate(trans[a].pid, ok)
    /\ trans' = [trans EXCEPT ![a] = IF ok THEN NoTrans ELSE [@ EXCEPT !.terminating = FALSE]]
    /\ IF ok /\ task[t].fresh THEN Step(t, "launch") /\ UNCHANGED <<lease, runtime>> ELSE StartFailed(t)
    /\ Heeds(t)
    /\ UNCHANGED <<shop, reg, resv, host, requests>>

RestartEndMutant(t, ok) ==
    LET a == task[t].acct IN
    /\ task[t].pc = "restart"
    /\ Terminate(trans[a].pid, ok)
    /\ trans' = [trans EXCEPT ![a] = NoTrans]
    /\ Step(t, "respawn")
    /\ UNCHANGED <<shop, lease, runtime, reg, resv, host, halted, requests>>

\* start: the worker of the other mode has been stopped, or not.
RestartEnd(t, ok) ==
    LET a == task[t].acct IN
    /\ task[t].pc = "restart"
    /\ Terminate(trans[a].pid, ok)
    /\ trans' = [trans EXCEPT ![a] = IF ok THEN NoTrans ELSE [@ EXCEPT !.terminating = FALSE]]
    /\ IF ok THEN Step(t, "respawn") /\ UNCHANGED <<lease, runtime, resv>>
       ELSE StartFailed(t) /\ resv' = [resv EXCEPT ![a] = IF @ = t THEN NoTask ELSE @]
    /\ Heeds(t)
    /\ UNCHANGED <<shop, reg, host, requests>>

\* start: the slot limit and _spawn_locked, in one critical section.  A restart whose slot
\* was taken away by a stop is cancelled.
Spawn(t) ==
    LET k == task[t]
        a == k.acct
        mine == k.pc = "respawn"
        free == trans[a] = NoTrans /\ reg[a] \notin Pids /\ (mine => resv[a] = t)
        full == ~mine /\ Cardinality(Managed) >= MaxRunning
    IN
    /\ k.pc \in {"launch", "respawn"}
    /\ resv' = [resv EXCEPT ![a] = IF mine /\ @ = t THEN NoTask ELSE @]
    /\ \/ /\ ~free
          /\ StartFailed(t) /\ UNCHANGED <<os, reg, drained>>
       \/ /\ free /\ full
          /\ IF k.op = "restore"
             THEN PersistRestore(t, "running", "capacity_limited", NoPid) /\ Finish(t)
             ELSE StartFailed(t)
          /\ UNCHANGED <<os, reg, drained>>
       \/ /\ free /\ ~full
          /\ \E p \in Pids :
                /\ os[p] = Free
                /\ os' = [os EXCEPT ![p] = [kind |-> "worker", account |-> a, mode |-> k.mode]]
                /\ reg' = [reg EXCEPT ![a] = p]
          /\ task' = [Bumped(a) EXCEPT ![t] = [k EXCEPT !.pc = "started", !.already = FALSE]]
          /\ drained' = (drained /\ (Owned(t) \/ k.op # "restore"))
          /\ UNCHANGED <<lease, runtime>>
    /\ Heeds(t)
    /\ UNCHANGED <<shop, trans, marker, entered, up, lost, requests, events>>

\* _persist_worker_started, and the end of the operation.
Recorded(t) ==
    LET k == task[t]
        a == k.acct
        done == IF k.op = "restore"
                THEN [Idle EXCEPT !.op = "restore", !.pc = "next", !.pass = k.pass,
                                  !.todo = k.todo, !.pending = k.pending]
                ELSE Idle
    IN
    /\ runtime' = [runtime EXCEPT ![a] =
           [desired |-> "running", state |-> "running", mode |-> k.mode, pid |-> ProcessId(a),
            auto |-> @.auto \/ k.op = "start"]]
    /\ lease' = Released(t)
    /\ task' = [s \in Tasks |-> IF s = t THEN done
                   ELSE [task[s] EXCEPT !.row = @ /\ (task[s].acct # a \/ k.already),
                                        !.spoilt = @ \/ (~Owned(t) /\ task[s].acct = a)]]

StartedMutant(t) ==
    /\ task[t].pc = "started"
    /\ Recorded(t)
    /\ Heeds(t)
    /\ UNCHANGED <<shop, os, registry, host, lost, requests, events>>

\* A start looks at its lease again, and is undone if it was lost meanwhile.  A restoration
\* does not look.
Started(t) ==
    /\ task[t].pc = "started"
    /\ IF Owned(t) \/ task[t].op = "restore"
       THEN Recorded(t)
       ELSE /\ task' = [task EXCEPT ![t].pc = "stop", ![t].undo = TRUE]
            /\ UNCHANGED <<runtime, lease>>
    /\ Heeds(t)
    /\ UNCHANGED <<shop, os, registry, host, lost, requests, events>>

\* The record of a start that was undone.  A restoration looks for the process again.
Undone(t) ==
    LET k == task[t] IN
    /\ k.pc = "confirm" /\ k.undo
    /\ LET left == IF k.conf /\ k.op # "restore" THEN NoPid ELSE ProcessId(k.acct) IN
       IF k.op = "auto" THEN Observe(t, "running", "degraded", left)
       ELSE Persist(k.acct, "stopped", "degraded", left)
    /\ Heeds(t)
    /\ Finish(t)
    /\ UNCHANGED <<shop, os, registry, host, lost, requests, events>>

-----------------------------------------------------------------------------
(* restore_desired_workers: adopt what still runs, then start the rest.    *)

Wanted(a) == runtime[a].desired = "running" \/ runtime[a].auto

Restoring == [Idle EXCEPT !.op = "restore", !.pc = "next", !.todo = Accounts]

\* The next row of the pass; an account whose lease is held is skipped.
RestoreNext(t) ==
    LET k == task[t] IN
    /\ k.op = "restore" /\ k.pc = "next"
    /\ IF k.todo # {}
       THEN LET a == Min(k.todo) IN
            IF (Wanted(a) \/ runtime[a].pid # NoPid) /\ lease[a] = NoTask
            THEN /\ lease' = [lease EXCEPT ![a] = t]
                 /\ task' = [task EXCEPT ![t].todo = @ \ {a}, ![t].acct = a, ![t].row = TRUE,
                                         ![t].pc = "check", ![t].mode = runtime[a].mode]
                 /\ UNCHANGED <<entered, lost>>
            ELSE /\ task' = [task EXCEPT ![t].todo = @ \ {a}]
                 /\ lost' = lost \cup Overlooked(a)
                 /\ UNCHANGED <<lease, entered>>
       ELSE /\ task' = [task EXCEPT ![t] =
                 IF k.pass = 1 /\ k.pending # {} /\ ~marker
                 THEN [Restoring EXCEPT !.pass = 2, !.todo = k.pending] ELSE Idle]
            /\ entered' = IF t = Watcher /\ task'[t] = Idle THEN "no" ELSE entered
            /\ UNCHANGED <<lease, lost>>
    /\ UNCHANGED <<shop, runtime, os, registry, marker, up, drained, halted, requests, events>>

\* The row read again under the lease: what must not run is stopped, what may not start is
\* degraded, and a login that must be renewed is waited for.
RestoreCheck(t, valid) ==
    LET k == task[t]
        a == k.acct
        kept == Wanted(a) /\ shop[a].enabled
    IN
    /\ k.op = "restore" /\ k.pc = "check"
    /\ Configuration(valid)
    /\ \/ /\ marker /\ valid
          /\ Finish(t)
       \/ /\ ~marker /\ ~kept /\ valid
          /\ Step(t, "stop") /\ UNCHANGED lease
       \/ /\ ~marker /\ kept /\ ~valid
          /\ task' = [task EXCEPT ![t].pc = "stop", ![t].bad = TRUE, ![t].mode = runtime[a].mode]
          /\ UNCHANGED lease
       \/ /\ ~marker /\ kept /\ valid
          /\ task' = [task EXCEPT ![t].pc = IF shop[a].reauth THEN "relogin" ELSE "adopt",
                                  ![t].row = TRUE, ![t].durable = runtime[a].pid,
                                  ![t].want = runtime[a].desired, ![t].mode = runtime[a].mode]
          /\ UNCHANGED lease
    /\ UNCHANGED <<shop, runtime, os, registry, host, halted, lost, requests>>

\* The recorded process of the row that was read is ended, if there is one.
EndRecorded(t, ok) ==
    LET k == task[t] IN
    IF k.durable = NoPid THEN ok /\ UNCHANGED <<os, lost, events, reg, trans>>
    ELSE TerminatePid(k.durable, k.acct, ok)

\* The account waits for its owner to log in again, with no worker.
RestoreRelogin(t, ok) ==
    LET k == task[t] IN
    /\ k.pc = "relogin"
    /\ EndRecorded(t, ok)
    /\ PersistRestore(t, k.want, IF ok THEN "waiting_login" ELSE "degraded",
                      IF ok THEN NoPid ELSE k.durable)
    /\ Heeds(t)
    /\ Finish(t)
    /\ UNCHANGED <<shop, resv, host, requests>>

\* A recorded process is adopted, ended if its token is gone, or left alone if it is not ours.
\* What is left to start is kept for the second pass, with no recorded process.
RestoreAdopt(t, ok) ==
    LET k == task[t]
        a == k.acct
        d == k.durable
        id == IF d = NoPid THEN "pid_dead" ELSE Identity(d, a)
        ours == id = "worker" /\ k.mode = "rules"
        retired == id \in {"pid_dead", "pid_reused"} \/ (id = "worker" /\ ~ours /\ ok)
    IN
    /\ k.pc = "adopt"
    /\ \/ /\ ours /\ ok
          /\ Adopted(a, d)
          /\ task' = [IF a \in Managed THEN task ELSE Bumped(a)
                         EXCEPT ![t].pc = "started", ![t].already = TRUE]
          /\ UNCHANGED <<lease, runtime, os, events, trans>>
       \/ /\ ~ours
          /\ EndRecorded(t, ok)
          /\ CASE ~retired -> PersistRestore(t, k.want, "degraded", d) /\ Finish(t)
               [] retired /\ ~shop[a].connected ->
                    PersistRestore(t, k.want, "waiting_login", NoPid) /\ Finish(t)
               [] retired /\ shop[a].connected /\ k.pass = 1 ->
                    /\ IF d = NoPid THEN UNCHANGED runtime ELSE PersistRestore(t, "running", "starting", NoPid)
                    /\ lease' = Released(t)
                    /\ task' = [task EXCEPT ![t] =
                          [Idle EXCEPT !.op = "restore", !.pc = "next", !.todo = k.todo,
                             !.pending = k.pending \cup (IF d = NoPid \/ k.row THEN {a} ELSE {})]]
               [] OTHER -> Step(t, "spawn") /\ UNCHANGED <<lease, runtime>>
    /\ Heeds(t)
    /\ UNCHANGED <<shop, resv, host, requests>>

\* _stop_account_worker_locked without a lease to check.
RestoreStopped(t) ==
    LET k == task[t] IN
    /\ k.op = "restore" /\ k.pc = "confirm" /\ ~k.bad /\ ~k.undo
    /\ Persist(k.acct, "stopped", IF k.conf THEN "stopped" ELSE "degraded", Survivor(t))
    /\ Heeds(t)
    /\ Finish(t)
    /\ UNCHANGED <<shop, os, registry, host, lost, requests, events>>

-----------------------------------------------------------------------------
(* MaintenanceWatcher and the drain of an update.                          *)

Entering == [Idle EXCEPT !.op = "enter", !.pc = "shutdown", !.todo = Managed]

\* poll_once sees the marker: _enter_update_maintenance begins with shutdown_all.
Enter ==
    /\ up /\ task[Watcher] = Idle /\ task[Boot].pc # "boot" /\ marker /\ entered # "this" /\ ~Locked
    /\ task' = [task EXCEPT ![Watcher] = Entering]
    /\ UNCHANGED <<shop, runtime, lease, os, registry, host, halted, lost, requests, events>>

\* shutdown_all: stop of one account, whoever is working on it.
ShutdownOne(a, ok) ==
    LET p == IF trans[a] # NoTrans THEN trans[a].pid ELSE reg[a] IN
    /\ task[Watcher].pc = "shutdown" /\ a \in task[Watcher].todo
    /\ ~trans[a].terminating
    /\ Terminate(p, ok)
    /\ trans' = [trans EXCEPT ![a] = IF ok THEN NoTrans ELSE [pid |-> p, terminating |-> FALSE]]
    /\ reg' = [reg EXCEPT ![a] = NoPid]
    /\ resv' = [resv EXCEPT ![a] = NoTask]
    /\ task' = [Bumped(a) EXCEPT ![Watcher].todo = @ \ {a}]
    /\ UNCHANGED <<shop, runtime, lease, host, halted, requests>>

ShutdownEnd ==
    /\ task[Watcher].pc = "shutdown" /\ task[Watcher].todo = {}
    /\ task' = [task EXCEPT ![Watcher].pc = "orphans",
                            ![Watcher].todo = {a \in Accounts : runtime[a].pid # NoPid}]
    /\ UNCHANGED <<shop, runtime, lease, os, registry, host, halted, lost, requests, events>>

\* Recorded processes are ended too; one that cannot be makes the callback fail.
EnterOrphan(a, ok) ==
    /\ task[Watcher].pc = "orphans" /\ a \in task[Watcher].todo
    /\ IF runtime[a].pid = NoPid THEN ok /\ UNCHANGED <<os, lost, events, reg, trans>>
       ELSE TerminatePid(runtime[a].pid, a, ok)
    /\ task' = [task EXCEPT ![Watcher] = IF ok THEN [task[Watcher] EXCEPT !.todo = @ \ {a}] ELSE Idle]
    /\ UNCHANGED <<shop, runtime, lease, resv, host, halted, requests>>

\* A callback that fails leaves _active as it was, to be retried.
Entered ==
    /\ task[Watcher].pc = "orphans" /\ task[Watcher].todo = {}
    /\ task' = [task EXCEPT ![Watcher] = Idle]
    /\ entered' = IF Managed # {} THEN entered ELSE IF task[Watcher].row THEN "this" ELSE "earlier"
    /\ UNCHANGED <<shop, runtime, lease, os, registry, marker, up, drained, halted, lost, requests, events>>

\* poll_once sees the marker gone: the workers are restored.
Leave ==
    /\ up /\ task[Watcher] = Idle /\ task[Boot].pc # "boot" /\ ~marker /\ entered # "no"
    /\ task' = [task EXCEPT ![Watcher] = Restoring]
    /\ UNCHANGED <<shop, runtime, lease, os, registry, host, halted, lost, requests, events>>

DrainedMutant ==
    /\ \A a \in Accounts : lease[a] = NoTask
    /\ Managed = {}

\* internal_update_drain says ready.
Drained ==
    /\ \A a \in Accounts : lease[a] = NoTask
    /\ ~InFlight
    /\ Managed = {}
    /\ \A a \in Accounts : runtime[a].pid # NoPid => os[runtime[a].pid] = Free
    /\ Workers = {}

Drain ==
    /\ up /\ marker /\ ~drained /\ Drained
    /\ drained' = TRUE
    /\ UNCHANGED <<shop, runtime, lease, os, registry, task, marker, entered, up, halted, lost, requests, events>>

\* The executor of an update sets the marker and removes it, whether it drained or gave up.
Maintain ==
    /\ marker' = ~marker
    /\ IF marker THEN UNCHANGED events ELSE Spend("maintenance")
    /\ drained' = FALSE
    /\ entered' = IF ~marker /\ entered = "this" THEN "earlier" ELSE entered
    /\ task' = IF task[Watcher].op = "enter" THEN [task EXCEPT ![Watcher].row = FALSE] ELSE task
    /\ UNCHANGED <<shop, runtime, lease, os, registry, up, halted, lost, requests>>

-----------------------------------------------------------------------------
(* The host.                                                               *)

\* A worker ends by itself, or an unrelated process takes a free number or gives it back.
WorkerDies(p) ==
    /\ Spend("death") /\ os[p].kind = "worker"
    /\ Killed(p) /\ Disowned(p)
    /\ UNCHANGED <<shop, runtime, lease, resv, task, host, halted, requests>>

OtherProcess(p) ==
    /\ \/ os[p] = Free /\ Spend("reuse") /\ os' = [os EXCEPT ![p].kind = "other"]
       \/ os[p].kind = "other" /\ UNCHANGED events /\ os' = [os EXCEPT ![p] = Free]
    /\ UNCHANGED <<shop, runtime, lease, registry, task, host, halted, lost, requests>>

\* _reaper forgets the handles of dead processes.
Reap ==
    /\ up /\ \E a \in Accounts : reg[a] = Gone
    /\ reg' = [a \in Accounts |-> IF reg[a] = Gone THEN NoPid ELSE reg[a]]
    /\ task' = [t \in Tasks |-> IF task[t].pc = "retry" /\ reg[task[t].acct] = Gone
                                THEN [task[t] EXCEPT !.fresh = FALSE] ELSE task[t]]
    /\ UNCHANGED <<shop, runtime, lease, os, trans, resv, host, halted, lost, requests, events>>

\* A lease runs out.  Its owner died; or it lives and is anywhere in its operation: a request
\* renews its lease every ten seconds and at each check, but a renewal may fail, and a
\* restoration never renews its 45 seconds, while it may end processes and wait for
\* _worker_maintenance_lock.
LeaseExpires(a) ==
    /\ lease[a] # NoTask
    /\ IF lease[a] = DeadTask THEN UNCHANGED events ELSE Spend("lease")
    /\ lease' = [lease EXCEPT ![a] = NoTask]
    /\ UNCHANGED <<shop, runtime, os, registry, task, host, halted, lost, requests>>

\* The shop's login stops working: the worker reports it, or the owner's cookie is cleared.
LoginLost(a) ==
    /\ Spend("login")
    /\ \/ shop[a].connected /\ shop' = [shop EXCEPT ![a].connected = FALSE]
       \/ ~shop[a].reauth /\ Workers # {} /\ shop' = [shop EXCEPT ![a].reauth = TRUE]
    /\ UNCHANGED <<runtime, lease, os, registry, task, host, halted, lost, requests>>

\* A later login connects it again.
Connect(a) ==
    /\ ~shop[a].connected
    /\ shop' = [shop EXCEPT ![a].connected = TRUE]
    /\ UNCHANGED <<runtime, lease, os, registry, task, host, halted, lost, requests, events>>

\* The API ends.  Its service's process group ends with it, or it is killed alone.
ApiDies(group) ==
    /\ up /\ Spend("crash")
    /\ up' = FALSE
    /\ os' = [p \in Pids |-> IF os[p].kind = "api" \/ (group /\ os[p].kind = "worker") THEN Free ELSE os[p]]
    /\ lost' = IF group THEN {}
               ELSE lost \cup {p \in Workers : \A a \in Accounts : IsWorker(p, a) => runtime[a].pid # p}
    /\ reg' = [a \in Accounts |-> NoPid]
    /\ trans' = [a \in Accounts |-> NoTrans]
    /\ resv' = [a \in Accounts |-> NoTask]
    /\ task' = [t \in Tasks |-> Idle]
    /\ entered' = "no"
    /\ lease' = [a \in Accounts |-> IF lease[a] = NoTask THEN NoTask ELSE DeadTask]
    /\ UNCHANGED <<shop, runtime, marker, drained, halted, requests>>

\* start_services up to its first poll of the maintenance marker; the new process may have
\* been given any free number.
ApiStarts(p) ==
    /\ ~up /\ up' = TRUE
    /\ os[p] = Free /\ os' = [os EXCEPT ![p].kind = "api"]
    /\ task' = [task EXCEPT ![Boot] = [Restoring EXCEPT !.pc = "boot"],
                            ![Watcher] = IF marker THEN Entering ELSE Idle]
    /\ UNCHANGED <<shop, runtime, lease, registry, marker, entered, drained, halted, lost, requests, events>>

\* start_services after that poll: the workers are restored unless there is maintenance.
Booted ==
    /\ task[Boot].pc = "boot" /\ task[Watcher].op # "enter"
    /\ task' = [task EXCEPT ![Boot] = IF marker THEN Idle ELSE Restoring]
    /\ UNCHANGED <<shop, runtime, lease, os, registry, host, halted, lost, requests, events>>

-----------------------------------------------------------------------------
Init ==
    /\ shop = [a \in Accounts |-> [enabled |-> TRUE, connected |-> TRUE, reauth |-> FALSE]]
    /\ runtime = [a \in Accounts |-> [desired |-> "running", state |-> "waiting_login", mode |-> "rules",
                                      pid |-> NoPid, auto |-> TRUE]]
    /\ lease = [a \in Accounts |-> NoTask]
    /\ os = [p \in Pids |-> Free]
    /\ reg = [a \in Accounts |-> NoPid]
    /\ trans = [a \in Accounts |-> NoTrans]
    /\ resv = [a \in Accounts |-> NoTask]
    /\ task = [t \in Tasks |-> Idle]
    /\ marker = FALSE /\ entered = "no" /\ up = FALSE /\ drained = FALSE
    /\ halted = {} /\ lost = {}
    /\ requests = MaxRequests /\ events = MaxEvents

ThreadStep(t) ==
    \/ StopLocal(t) \/ StopEnd(t) \/ Degrade(t) \/ Undone(t)
    \/ Prepare(t) \/ Replaced(t) \/ BotStart(t) \/ Spawn(t) \/ Started(t)
    \/ RestoreNext(t) \/ RestoreStopped(t)
    \/ \E ok \in BOOLEAN :
          \/ LocalEnd(t, ok) \/ StopOrphan(t, ok) \/ Replace(t, ok)
          \/ RetryEnd(t, ok) \/ RestartEnd(t, ok)
          \/ RestoreRelogin(t, ok) \/ RestoreAdopt(t, ok)
    \/ \E valid \in BOOLEAN : CheckStart(t, valid) \/ RestoreCheck(t, valid)

WatcherStep ==
    \/ Enter \/ ShutdownEnd \/ Entered \/ Leave
    \/ \E a \in Accounts, ok \in BOOLEAN : ShutdownOne(a, ok) \/ EnterOrphan(a, ok)

Requests ==
    \E t \in Threads, r \in Offered :
        LET a == r[1] IN
        \/ \E m \in Modes : r[2] = "start" /\ Request(t, "start", a, m)
        \/ r[2] \in {"stop", "pause", "delete"} /\ Request(t, r[2], a, "rules")
        \/ r[2] = "auto" /\ Request(t, "auto", a, runtime[a].mode)
        \/ r[2] = "complete" /\ CompleteLogin(a)

Environment ==
    \/ Maintain \/ Drain \/ Reap \/ Booted
    \/ \E p \in Pids : WorkerDies(p) \/ OtherProcess(p) \/ ApiStarts(p)
    \/ \E a \in Accounts : LeaseExpires(a) \/ LoginLost(a) \/ Connect(a)
    \/ \E group \in BOOLEAN : ApiDies(group)

Next == (\E t \in Tasks : ThreadStep(t)) \/ WatcherStep \/ Requests \/ Environment

Spec == Init /\ [][Next]_vars

-----------------------------------------------------------------------------
TypeOK ==
    /\ shop \in [Accounts -> [enabled : BOOLEAN, connected : BOOLEAN, reauth : BOOLEAN]]
    /\ runtime \in [Accounts -> [desired : {"running", "stopped"}, mode : Modes,
                      state : {"running", "stopped", "waiting_login", "degraded", "starting",
                               "capacity_limited"},
                      pid : Pids \cup {NoPid}, auto : BOOLEAN]]
    /\ lease \in [Accounts -> Tasks \cup {NoTask, DeadTask}]
    /\ reg \in [Accounts -> Pids \cup {NoPid, Gone}]
    /\ trans \in [Accounts -> [pid : Pids \cup {NoPid, Gone}, terminating : BOOLEAN]]
    /\ resv \in [Accounts -> Threads \cup {Watcher, NoTask}]
    /\ \A t \in Tasks : task[t].acct \in Accounts \cup {0} /\ task[t].todo \subseteq Accounts
    /\ halted \subseteq Accounts /\ lost \subseteq Workers

\* An account never has two workers: neither adoption, nor a restart in another mode, nor a
\* restoration after a crash, nor a stop that failed leads to a second process beside the first.
\* (A worker whose start the API had not recorded when it was killed alone is beyond its reach.)
OneWorker ==
    \A a \in Accounts : \A p, q \in Workers \ lost : IsWorker(p, a) /\ IsWorker(q, a) => p = q

\* A living worker is in the registry or in its account's row, so that a stop, a drain or a
\* restoration finds it.
NoneForgotten ==
    \A p \in Workers \ lost :
        LET a == os[p].account IN reg[a] = p \/ trans[a].pid = p \/ runtime[a].pid = p

\* A stop that the API confirmed to the owner holds until the owner starts the account or
\* completes a login: not a restart, maintenance or a sync brings a worker back.  The lease of
\* the account carries it, so a task whose lease ran out is excepted as far as the code lets it
\* go: a start ends the worker it launched, a restoration records it, which overrides the stop
\* (Heeds); between the launch and that a worker of the account lives.
StopHolds ==
    \A a \in halted : \A p \in Workers \ lost :
        IsWorker(p, a) => \E t \in Tasks : /\ task[t].acct = a /\ lease[a] # t
                                           /\ task[t].pc = "started" \/ task[t].undo

\* Once the drain has been reported as ready no worker lives until maintenance is over.  (A
\* restoration, which the drain counts by its lease alone, may start one if the lease ran out.)
DrainIsFinal == drained => Workers = {}
=============================================================================
