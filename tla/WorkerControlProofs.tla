-------------------------- MODULE WorkerControlProofs --------------------------
(***************************************************************************)
(* The supervision of the workers for any number of shops, threads,        *)
(* process ids, requests and faults.                                       *)
(*                                                                         *)
(* A worker that the registry does not have (Apart) is the danger: it is   *)
(* known by one number in its shop's row, which every operation writes.    *)
(* Such a worker only appears when the API dies, and until it is adopted   *)
(* or ended the registry has nothing else of the shop (AccountOK), no      *)
(* thread is past the preparation of a start, and every thread that is     *)
(* ending the shop's worker will end this very process or record it again  *)
(* (Guarded).  So no second worker is started beside it.  None of this     *)
(* rests on the leases, which may run out at any time; that a stop holds   *)
(* does, and HaltInv says what a task that lost its lease may still do.    *)
(*                                                                         *)
(* A step of a thread concerns one shop, its own.  StepIsGood says what it *)
(* owes to the others; it is shown for each action.                        *)
(***************************************************************************)
EXTENDS WorkerControl, FiniteSetTheorems, WellFoundedInduction, TLAPS

-----------------------------------------------------------------------------
(* The invariant.                                                          *)

Starting == {"prepare", "replace", "replaced", "relogin", "adopt", "spawn", "retry", "restart",
             "launch", "respawn", "started"}
Stopping == {"local", "orphan", "confirm"}
Pcs == {"idle", "next", "boot", "shutdown", "orphans", "check", "stop"}
           \cup Starting \cup Stopping

\* A task that works on a shop.
AtWork(k) == k.pc \in Starting \cup Stopping \cup {"check", "stop"}

ShopRow == [enabled : BOOLEAN, connected : BOOLEAN, reauth : BOOLEAN]
RuntimeRow == [desired : {"running", "stopped"}, mode : Modes,
               state : {"running", "stopped", "waiting_login", "degraded", "starting",
                        "capacity_limited"},
               pid : Pids \cup {NoPid}, auto : BOOLEAN]
OsRow == [kind : {"free", "api", "other"}, account : {0}, mode : Modes]
            \cup [kind : {"worker"}, account : Accounts, mode : Modes]
TransRow == [pid : Pids \cup {NoPid, Gone}, terminating : BOOLEAN]
TaskRow == [op : {"none", "start", "stop", "pause", "delete", "auto", "restore", "enter"},
            pc : Pcs, acct : Accounts \cup {0}, mode : Modes, want : {"running", "stopped"},
            durable : Pids \cup {NoPid}, local : Pids \cup {NoPid}, conf : BOOLEAN,
            again : BOOLEAN, already : BOOLEAN, fresh : BOOLEAN, row : BOOLEAN,
            undo : BOOLEAN, bad : BOOLEAN, spoilt : BOOLEAN, pass : {1, 2}, todo : SUBSET Accounts,
            pending : SUBSET Accounts]
Leases == [Accounts -> Tasks \cup {NoTask, DeadTask}]
Handles == [Accounts -> Pids \cup {NoPid, Gone}]
Claims == [Accounts -> Tasks \cup {NoTask}]

ControlTypeOK ==
    /\ shop \in [Accounts -> ShopRow]
    /\ runtime \in [Accounts -> RuntimeRow]
    /\ lease \in Leases
    /\ os \in [Pids -> OsRow]
    /\ reg \in Handles
    /\ trans \in [Accounts -> TransRow]
    /\ resv \in Claims
    /\ task \in [Tasks -> TaskRow]
    /\ marker \in BOOLEAN /\ up \in BOOLEAN /\ drained \in BOOLEAN
    /\ entered \in {"no", "this", "earlier"}
    /\ halted \subseteq Accounts /\ lost \subseteq Workers

\* A living worker of the account that is not beyond the API's reach and not in its registry.
Apart(p, a) ==
    /\ IsWorker(p, a) /\ p \notin lost
    /\ reg[a] # p /\ trans[a].pid # p

\* What a task that works on the account knows of such a worker.
Guarded(k, p) ==
    /\ k.pc \notin {"spawn", "retry", "restart", "launch", "respawn", "started", "local"}
    /\ ~k.undo
    /\ k.pc \in {"orphan", "adopt", "relogin", "replace", "replaced"} => k.durable = p
    /\ k.pc = "replaced" => ~k.conf
    /\ k.pc = "confirm" => ~k.conf /\ k.local = p

HandlesOK(a) ==
    /\ reg[a] \in Pids => IsWorker(reg[a], a)
    /\ trans[a].pid \in Pids => IsWorker(trans[a].pid, a)
    /\ trans[a] # NoTrans => reg[a] \notin Pids

AccountOK(a) ==
    /\ HandlesOK(a)
    /\ \A p \in Pids : Apart(p, a) => runtime[a].pid = p /\ a \notin Managed

\* What a task that works on an account has in its locals.
WorkOK(t) ==
    LET k == task[t]
        a == k.acct
    IN  /\ a \in Accounts
        /\ \A p \in Pids : Apart(p, a) => Guarded(k, p)
        /\ k.pc \in Starting => k.op \in {"start", "auto", "restore"}
        /\ k.undo \/ k.bad => k.op \in {"start", "auto", "restore"}
        /\ k.pc \in {"orphan", "replace", "replaced"} => k.durable \in Pids
        /\ k.pc \in {"relogin", "adopt"} => k.op = "restore"
        /\ k.pc \in {"prepare", "replace", "replaced"} => k.op # "restore"
        /\ t = Watcher => k.op = "restore"

\* A task that works on no account has nothing of one, and serves no request.
AtEase(k) == ~AtWork(k) /\ ~k.undo /\ ~k.bad /\ k.op \in {"none", "restore", "enter"}

TaskOK(t) == AtEase(task[t]) \/ (AtWork(task[t]) /\ WorkOK(t))

\* After the drain only a restoration whose lease has run out may start a worker.
DrainOK ==
    drained => /\ marker /\ Workers = {}
               /\ \A t \in Tasks : task[t].pc \in Starting =>
                     task[t].op = "restore" /\ lease[task[t].acct] # t

ControlInv ==
    /\ ControlTypeOK
    /\ \A a \in Accounts : AccountOK(a)
    /\ \A t \in Tasks : TaskOK(t)
    /\ DrainOK

-----------------------------------------------------------------------------
(* What a step of one task on one account owes to the others.              *)

SameWork(s) ==
    /\ task'[s].pc = task[s].pc /\ task'[s].acct = task[s].acct /\ task'[s].op = task[s].op
    /\ task'[s].undo = task[s].undo /\ task'[s].bad = task[s].bad
    /\ task'[s].conf = task[s].conf /\ task'[s].durable = task[s].durable
    /\ task'[s].local = task[s].local

OthersStand(t) == \A s \in Tasks \ {t} : SameWork(s) \/ AtEase(task'[s])

SameRow(b) ==
    /\ reg'[b] = reg[b] /\ trans'[b] = trans[b] /\ resv'[b] = resv[b]
    /\ runtime'[b] = runtime[b] /\ lease'[b] = lease[b]
    /\ \A p \in Pids : /\ IsWorker(p, b)' <=> IsWorker(p, b)
                       /\ IsWorker(p, b) => (p \in lost' <=> p \in lost)

Elsewhere(a) == \A b \in Accounts \ {a} : SameRow(b)

\* No worker leaves the registry alive, and no other task is given the lease.
Here(t, a) ==
    /\ \A p \in Pids : Apart(p, a)' => Apart(p, a)
    /\ \A s \in Tasks \ {t} : lease'[a] = s => lease[a] = s

StepIsGood(t, a) ==
    /\ OthersStand(t)
    /\ Elsewhere(a)
    /\ a \in Accounts => Here(t, a) /\ AccountOK(a)'
    /\ t \in Tasks => TaskOK(t)'

\* An account whose row, handles and workers a step leaves alone stays in order.
LEMMA RestIsUntouched ==
    ASSUME NEW b, SameRow(b)
    PROVE  /\ AccountOK(b) => AccountOK(b)'
           /\ \A p \in Pids : Apart(p, b)' <=> Apart(p, b)
<1>1. \A p \in Pids : Apart(p, b)' <=> Apart(p, b)
  BY DEF SameRow, Apart
<1>2. b \in Managed' <=> b \in Managed
  BY DEF SameRow, Managed, NoTrans
<1>3. HandlesOK(b) => HandlesOK(b)'
  BY DEF SameRow, HandlesOK
<1> QED BY <1>1, <1>2, <1>3 DEF AccountOK, SameRow

\* A step keeps what the tasks it does not belong to rely on.
LEMMA OthersStayGood ==
    ASSUME ControlInv, NEW t, NEW a, OthersStand(t), Elsewhere(a),
           a \in Accounts => Here(t, a), NEW s \in Tasks \ {t}
    PROVE  TaskOK(s)'
<1>1. CASE AtEase(task'[s])
  BY <1>1 DEF TaskOK
<1>2. CASE SameWork(s) /\ AtEase(task[s])
  BY <1>2 DEF SameWork, TaskOK, AtEase, AtWork
<1>3. CASE SameWork(s) /\ AtWork(task[s])
  <2> DEFINE b == task[s].acct
  <2>1. WorkOK(s) /\ b \in Accounts /\ task'[s].acct = b
    BY <1>3 DEF ControlInv, TaskOK, WorkOK, SameWork, AtEase
  <2>2. \A p \in Pids : Apart(p, b)' => Apart(p, b)
    BY <2>1, RestIsUntouched DEF Elsewhere, Here
  <2>3. \A p \in Pids : Guarded(task[s], p) <=> Guarded(task'[s], p)
    BY <1>3 DEF SameWork, Guarded
  <2>4. WorkOK(s)'
    BY <1>3, <2>1, <2>2, <2>3 DEF WorkOK, SameWork
  <2> QED BY <1>3, <2>4 DEF TaskOK, AtWork, SameWork
<1> QED BY <1>1, <1>2, <1>3 DEF OthersStand, ControlInv, TaskOK

\* A good step keeps the invariant of the accounts and of the tasks.
LEMMA GoodSteps ==
    ASSUME ControlInv, NEW t, NEW a, StepIsGood(t, a), ControlTypeOK', DrainOK'
    PROVE  ControlInv'
<1>1. \A b \in Accounts : AccountOK(b)'
  BY RestIsUntouched DEF ControlInv, StepIsGood, Elsewhere
<1>2. \A s \in Tasks : TaskOK(s)'
  BY OthersStayGood DEF StepIsGood
<1> QED BY <1>1, <1>2 DEF ControlInv

-----------------------------------------------------------------------------
(* Tasks and leases.                                                       *)

\* One task goes on, the others stand still.
LEMMA NewTask ==
    ASSUME task \in [Tasks -> TaskRow], NEW t \in Tasks, NEW k \in TaskRow,
           task' = [task EXCEPT ![t] = k]
    PROVE  /\ task' \in [Tasks -> TaskRow] /\ task'[t] = k
           /\ \A s \in Tasks \ {t} : task'[s] = task[s]
           /\ OthersStand(t)
<1> HIDE DEF TaskRow
<1>1. task' \in [Tasks -> TaskRow] /\ task'[t] = k /\ \A s \in Tasks \ {t} : task'[s] = task[s]
  OBVIOUS
<1> QED BY <1>1 DEF OthersStand, SameWork

\* One task goes on while a start that is trying a stop again learns that the
\* registry's generation changed.
LEMMA BumpedTask ==
    ASSUME task \in [Tasks -> TaskRow], NEW t \in Tasks, NEW a, NEW k \in TaskRow,
           task' = [Bumped(a) EXCEPT ![t] = k]
    PROVE  /\ task' \in [Tasks -> TaskRow] /\ task'[t] = k
           /\ OthersStand(t)
<1>1. \A s \in Tasks : [task[s] EXCEPT !.fresh = FALSE] \in TaskRow
  BY DEF TaskRow
<1>2. Bumped(a) \in [Tasks -> TaskRow]
  <2> HIDE DEF TaskRow
  <2> QED BY <1>1 DEF Bumped
<1>3. /\ task' \in [Tasks -> TaskRow] /\ task'[t] = k
      /\ \A s \in Tasks \ {t} : task'[s] = Bumped(a)[s]
  <2> HIDE DEF TaskRow
  <2> QED BY <1>2
<1>4. ASSUME NEW s \in Tasks \ {t} PROVE SameWork(s)
  <2>1. task[s] \in TaskRow
    OBVIOUS
  <2>2. task'[s] = task[s] \/ task'[s] = [task[s] EXCEPT !.fresh = FALSE]
    BY <1>3 DEF Bumped
  <2> QED BY <2>1, <2>2 DEF SameWork, TaskRow
<1> QED BY <1>3, <1>4 DEF OthersStand

\* A start goes on with the same account, or begins while there is no maintenance.
StartsOn(t) ==
    task'[t].pc \in Starting =>
        \/ ~marker
        \/ /\ task[t].pc \in Starting
           /\ task'[t].op = task[t].op /\ task'[t].acct = task[t].acct

\* A task that is not working on an account owes nothing.
LEMMA EaseIsOK ==
    ASSUME NEW t, AtEase(task'[t])
    PROVE  TaskOK(t)' /\ task'[t].pc \notin Starting /\ StartsOn(t)
BY DEF AtEase, AtWork, TaskOK, StartsOn

\* The rows a thread starts from: idle, restoring, entering maintenance.
LEMMA RowsAtEase ==
    /\ Idle \in TaskRow /\ AtEase(Idle)
    /\ Restoring \in TaskRow /\ AtEase(Restoring)
    /\ Entering \in TaskRow /\ AtEase(Entering)
BY DEF Idle, Restoring, Entering, TaskRow, AtEase, AtWork, Starting, Stopping, Pcs, Modes, NoPid,
       Managed

\* The end of a request gives the lease back, if it is still held.
LEMMA FinishIs ==
    ASSUME ControlTypeOK, NEW t \in Tasks, Finish(t), task[t].acct \in Accounts
    PROVE  /\ task' \in [Tasks -> TaskRow] /\ lease' \in Leases
           /\ AtEase(task'[t]) /\ OthersStand(t)
           /\ lease' = Released(t)
<1>1. task[t] \in TaskRow
  BY DEF ControlTypeOK
<1> DEFINE r == [Idle EXCEPT !.op = "restore", !.pc = "next", !.pass = task[t].pass,
                             !.todo = task[t].todo, !.pending = task[t].pending]
<1>a. /\ task[t].pass \in {1, 2} /\ task[t].todo \in SUBSET Accounts
      /\ task[t].pending \in SUBSET Accounts
  BY <1>1 DEF TaskRow
<1>b. r \in TaskRow
  BY <1>a DEF Idle, TaskRow, Pcs, Modes, NoPid
<1>2. r \in TaskRow /\ AtEase(r)
  BY <1>b DEF Idle, AtEase, AtWork, Starting, Stopping
<1>3. task' = [task EXCEPT ![t] = IF task[t].op = "restore" THEN r ELSE Idle]
  BY DEF Finish
<1> HIDE DEF r
<1>4. task' \in [Tasks -> TaskRow] /\ AtEase(task'[t]) /\ OthersStand(t)
  BY <1>2, <1>3, NewTask, RowsAtEase DEF ControlTypeOK
<1>5. lease' \in Leases
  BY DEF Finish, Released, ControlTypeOK, Leases
<1> QED BY <1>4, <1>5 DEF Finish

-----------------------------------------------------------------------------
(* The end of processes.                                                   *)

\* The workers of P have ended; of L the API has no record any more.
Ended(P, L) ==
    /\ os' = [q \in Pids |-> IF q \in P THEN Free ELSE os[q]]
    /\ lost' = (lost \cup L) \ P

Forgotten(P) ==
    /\ reg' = [a \in Accounts |-> IF reg[a] \in P THEN Gone ELSE reg[a]]
    /\ trans' = [a \in Accounts |->
           IF trans[a].pid \in P THEN [trans[a] EXCEPT !.pid = Gone] ELSE trans[a]]

\* What is left of the workers when the processes P ended.
LEMMA EndedIs ==
    ASSUME ControlTypeOK, NEW P \in SUBSET Pids, NEW L \in SUBSET Workers, Ended(P, L)
    PROVE  /\ os' \in [Pids -> OsRow] /\ lost' \subseteq Workers'
           /\ \A q \in Pids : \A b : IsWorker(q, b)' <=> IsWorker(q, b) /\ q \notin P
           /\ Workers' = Workers \ P
<1>1. Free \in OsRow
  BY DEF Free, OsRow, Modes
<1>2. os' \in [Pids -> OsRow]
  BY <1>1 DEF Ended, ControlTypeOK
<1>3. \A q \in Pids : os'[q].kind = "worker" <=> os[q].kind = "worker" /\ q \notin P
  BY DEF Ended, Free
<1>4. Workers' = Workers \ P
  BY <1>3 DEF Workers
<1>5. \A q \in Pids : \A b : IsWorker(q, b)' <=> IsWorker(q, b) /\ q \notin P
  BY DEF Ended, Free, IsWorker
<1> QED BY <1>2, <1>4, <1>5 DEF Ended, ControlTypeOK

\* Leaving the processes alone ends none.
LEMMA NothingEnded ==
    ASSUME ControlTypeOK, UNCHANGED <<os, lost>>
    PROVE  Ended({}, {})
BY DEF ControlTypeOK, Ended

\* A signal that works ends the process it was sent to and no other.
LEMMA TerminateIs ==
    ASSUME ControlTypeOK, NEW p, NEW ok \in BOOLEAN, Terminate(p, ok)
    PROVE  Ended(IF ok /\ p \in Pids THEN {p} ELSE {}, {})
<1>1. CASE ok /\ p \in Pids
  BY <1>1 DEF Terminate, Killed, Ended, ControlTypeOK
<1>2. CASE ~ok \/ p \notin Pids
  BY <1>2, NothingEnded DEF Terminate
<1> QED BY <1>1, <1>2

\* A recorded number ends a worker only if it is the account's own.
LEMMA TerminatePidIs ==
    ASSUME ControlTypeOK, NEW p \in Pids, NEW a \in Accounts, NEW ok \in BOOLEAN,
           TerminatePid(p, a, ok)
    PROVE  LET P == IF ok /\ IsWorker(p, a) THEN {p} ELSE {}
           IN  Ended(P, {}) /\ Forgotten(P)
<1>1. Identity(p, a) = "worker" <=> IsWorker(p, a)
  BY DEF Identity, IsWorker
<1>2. CASE ok /\ IsWorker(p, a)
  <2>1. Ended({p}, {})
    BY <1>1, <1>2, TerminateIs DEF TerminatePid
  <2>2. Forgotten({p})
    BY <1>1, <1>2 DEF TerminatePid, Disowned, Forgotten
  <2> QED BY <1>2, <2>1, <2>2
<1>3. CASE ~(ok /\ IsWorker(p, a))
  <2>1. UNCHANGED <<os, lost, reg, trans>>
    BY <1>1, <1>3 DEF TerminatePid, Terminate
  <2>2. Forgotten({})
    BY <2>1 DEF Forgotten, ControlTypeOK, Handles
  <2> QED BY <1>3, <2>1, <2>2, NothingEnded
<1> QED BY <1>2, <1>3

\* Of the account a, and only of it, a handle may have died.
LEMMA ForgottenIs ==
    ASSUME ControlTypeOK, \A b \in Accounts : HandlesOK(b), NEW a \in Accounts,
           NEW P \in SUBSET Pids, \A p \in P : IsWorker(p, a),
           Forgotten(P), Ended(P, {})
    PROVE  /\ reg' \in Handles /\ trans' \in [Accounts -> TransRow]
           /\ \A b \in Accounts \ {a} : reg'[b] = reg[b] /\ trans'[b] = trans[b]
           /\ HandlesOK(a)'
           /\ reg'[a] = reg[a] \/ (reg'[a] = Gone /\ reg[a] \in P)
           /\ trans'[a].pid = trans[a].pid \/ (trans'[a].pid = Gone /\ trans[a].pid \in P)
           /\ (trans[a] = NoTrans) => trans'[a] = NoTrans
           /\ trans'[a].terminating = trans[a].terminating
<1>1. /\ \A b \in Accounts : reg[b] \in Pids \cup {NoPid, Gone} /\ trans[b] \in TransRow
      /\ NoPid \notin Pids /\ Gone \notin Pids
  BY WorkerAssumption DEF ControlTypeOK, Handles, NoPid, Gone
<1>2. reg' \in Handles
  BY <1>1 DEF Forgotten, Handles
<1>3. \A b \in Accounts : [trans[b] EXCEPT !.pid = Gone] \in TransRow
  BY <1>1 DEF TransRow
<1>4. trans' \in [Accounts -> TransRow]
  BY <1>1, <1>3 DEF Forgotten
<1>5. ASSUME NEW b \in Accounts \ {a} PROVE reg'[b] = reg[b] /\ trans'[b] = trans[b]
  <2>1. reg[b] \notin P /\ trans[b].pid \notin P
    BY DEF HandlesOK, IsWorker
  <2> QED BY <2>1 DEF Forgotten
<1>6. /\ reg'[a] = IF reg[a] \in P THEN Gone ELSE reg[a]
      /\ trans'[a].pid = IF trans[a].pid \in P THEN Gone ELSE trans[a].pid
      /\ trans'[a].terminating = trans[a].terminating
      /\ trans[a].pid \notin P => trans'[a] = trans[a]
  BY <1>1 DEF Forgotten, TransRow
<1>7. trans[a] = NoTrans => trans'[a] = NoTrans
  BY <1>1, <1>6 DEF NoTrans
<1>8. trans'[a] # NoTrans => trans[a] # NoTrans
  BY <1>7
<1>9. HandlesOK(a)
  OBVIOUS
<1>10. HandlesOK(a)'
  <2>1. \A q \in Pids : IsWorker(q, a)' <=> IsWorker(q, a) /\ q \notin P
    <3>1. {} \in SUBSET Workers
      OBVIOUS
    <3> QED BY <3>1, EndedIs
  <2>2. reg'[a] \in Pids => reg'[a] = reg[a] /\ reg[a] \notin P
    BY <1>1, <1>6
  <2>3. trans'[a].pid \in Pids => trans'[a].pid = trans[a].pid /\ trans[a].pid \notin P
    BY <1>1, <1>6
  <2>4. trans'[a] # NoTrans => reg[a] \notin Pids
    BY <1>8, <1>9 DEF HandlesOK
  <2>5. /\ reg[a] \in Pids => IsWorker(reg[a], a)
        /\ trans[a].pid \in Pids => IsWorker(trans[a].pid, a)
    BY <1>9 DEF HandlesOK
  <2>6. /\ \A q \in Pids : reg'[a] = q => IsWorker(q, a)'
        /\ \A q \in Pids : trans'[a].pid = q => IsWorker(q, a)'
        /\ trans'[a] # NoTrans => reg'[a] \notin Pids
    BY <2>1, <2>2, <2>3, <2>4, <2>5
  <2> QED BY <2>6 DEF HandlesOK, IsWorker
<1> QED BY <1>2, <1>4, <1>5, <1>6, <1>7, <1>10

-----------------------------------------------------------------------------
(* A step of a task on its account, in which workers of the account may    *)
(* end but none begins.                                                    *)

\* A step that starts no worker and gives no lease keeps the drain final.
LEMMA DrainRests ==
    ASSUME ControlInv, NEW t, OthersStand(t), drained' = drained, marker' = marker,
           Workers' \subseteq Workers, t \in Tasks => StartsOn(t),
           \A b \in Accounts, s \in Tasks :
              lease'[b] = s /\ task'[s].pc \in Starting => lease[b] = s
    PROVE  DrainOK'
<1> SUFFICES ASSUME drained, marker, NEW s \in Tasks, task'[s].pc \in Starting
             PROVE  /\ task[s].pc \in Starting
                    /\ task'[s].op = task[s].op /\ task'[s].acct = task[s].acct
                    /\ task[s].acct \in Accounts
  BY DEF ControlInv, DrainOK
<1>1. /\ task[s].pc \in Starting
      /\ task'[s].op = task[s].op /\ task'[s].acct = task[s].acct
  <2>1. CASE s = t
    BY <2>1 DEF StartsOn
  <2>2. CASE s # t
    BY <2>2 DEF OthersStand, SameWork, AtEase, AtWork
  <2> QED BY <2>1, <2>2
<1>2. task[s].acct \in Accounts
  BY <1>1 DEF ControlInv, TaskOK, AtEase, AtWork, WorkOK
<1> QED BY <1>1, <1>2

\* The rows of the other accounts.
Beside(a) ==
    \A b \in Accounts \ {a} :
        /\ reg'[b] = reg[b] /\ trans'[b] = trans[b] /\ resv'[b] = resv[b]
        /\ runtime'[b] = runtime[b]

RowsTyped ==
    /\ shop' \in [Accounts -> ShopRow] /\ runtime' \in [Accounts -> RuntimeRow]
    /\ reg' \in Handles /\ trans' \in [Accounts -> TransRow] /\ resv' \in Claims
    /\ halted' \subseteq Accounts

\* The frame of the steps on one account: they end the processes P, pass over L, and keep
\* every living worker they do not end in the registry or in the row.
LEMMA Moves ==
    ASSUME ControlInv, NEW t, NEW a \in Accounts,
           NEW P \in SUBSET Pids, \A p \in P : IsWorker(p, a),
           NEW L \in SUBSET Overlooked(a), Ended(P, L),
           RowsTyped, Beside(a), UNCHANGED host,
           task' \in [Tasks -> TaskRow], OthersStand(t), t \in Tasks => TaskOK(t)',
           lease' = lease \/ lease' = [lease EXCEPT ![a] = IF @ = t THEN NoTask ELSE @],
           t \in Tasks => StartsOn(t),
           \A q \in Pids \ P : q \in {reg[a], trans[a].pid} => q \in {reg'[a], trans'[a].pid},
           HandlesOK(a)',
           \A p \in Pids : Apart(p, a)' => runtime'[a].pid = p /\ a \notin Managed'
    PROVE  ControlInv'
<1>1. ControlTypeOK /\ NoTask \notin Tasks
  BY WorkerAssumption DEF ControlInv, Tasks, NoTask
<1>2. L \subseteq Workers /\ \A p \in L : IsWorker(p, a)
  BY DEF Overlooked
<1>3. /\ os' \in [Pids -> OsRow] /\ lost' \subseteq Workers'
      /\ \A q \in Pids : \A b : IsWorker(q, b)' <=> IsWorker(q, b) /\ q \notin P
      /\ Workers' \subseteq Workers
  BY <1>1, <1>2, EndedIs
<1>4. /\ lease' \in Leases
      /\ \A b \in Accounts \ {a} : lease'[b] = lease[b]
      /\ lease'[a] = lease[a] \/ (lease[a] = t /\ lease'[a] = NoTask)
  BY <1>1 DEF ControlTypeOK, Leases
<1>5. Elsewhere(a)
  <2> SUFFICES ASSUME NEW b \in Accounts \ {a} PROVE SameRow(b)
    BY DEF Elsewhere
  <2>1. \A q \in Pids : IsWorker(q, b) => ~IsWorker(q, a)
    BY DEF IsWorker
  <2>2. \A q \in Pids : IsWorker(q, b)' <=> IsWorker(q, b)
    BY <1>3, <2>1
  <2>3. \A q \in Pids : IsWorker(q, b) => (q \in lost' <=> q \in lost)
    BY <1>2, <2>1 DEF Ended
  <2> QED BY <1>4, <2>2, <2>3 DEF SameRow, Beside
<1>6. Here(t, a)
  <2>1. ASSUME NEW p \in Pids, Apart(p, a)' PROVE Apart(p, a)
    <3>1. IsWorker(p, a) /\ p \notin P
      BY <1>3, <2>1 DEF Apart
    <3>2. p \notin lost
      BY <2>1, <3>1 DEF Apart, Ended
    <3> QED BY <2>1, <3>1, <3>2 DEF Apart
  <2>2. \A s \in Tasks \ {t} : lease'[a] = s => lease[a] = s
    BY <1>1, <1>4
  <2> QED BY <2>1, <2>2 DEF Here
<1>7. ControlTypeOK'
  BY <1>1, <1>3, <1>4 DEF ControlTypeOK, RowsTyped, host
<1>8. DrainOK'
  <2>1. \A b \in Accounts, s \in Tasks : lease'[b] = s => lease[b] = s
    BY <1>1, <1>4
  <2> QED BY <1>3, <2>1, DrainRests DEF host
<1>9. StepIsGood(t, a)
  BY <1>5, <1>6 DEF StepIsGood, AccountOK
<1> QED BY <1>7, <1>8, <1>9, GoodSteps

\* No handle of the account is dropped while its process lives.
Kept(a, P) ==
    \A q \in Pids \ P : q \in {reg[a], trans[a].pid} => q \in {reg'[a], trans'[a].pid}

\* No worker comes to stand apart when the handles of those that live are kept.
LEMMA ApartStays ==
    ASSUME ControlTypeOK, NEW a \in Accounts, NEW P \in SUBSET Pids, NEW L \in SUBSET Workers,
           Ended(P, L), Kept(a, P)
    PROVE  \A p \in Pids : Apart(p, a)' => Apart(p, a) /\ p \notin P /\ p \notin L
<1> SUFFICES ASSUME NEW p \in Pids, Apart(p, a)'
             PROVE  Apart(p, a) /\ p \notin P /\ p \notin L
  OBVIOUS
<1>1. IsWorker(p, a) /\ p \notin P
  BY EndedIs DEF Apart
<1> QED BY <1>1 DEF Apart, Ended, Kept

\* What is known while a task works on an account.
LEMMA AtWorkIs ==
    ASSUME ControlInv, NEW t \in Tasks, AtWork(task[t]), NEW a, a = task[t].acct
    PROVE  /\ a \in Accounts /\ task[t] \in TaskRow
           /\ WorkOK(t) /\ AccountOK(a) /\ ControlTypeOK
           /\ runtime[a] \in RuntimeRow /\ shop[a] \in ShopRow
           /\ trans[a] \in TransRow /\ reg[a] \in Pids \cup {NoPid, Gone}
           /\ resv[a] \in Tasks \cup {NoTask} /\ lease[a] \in Tasks \cup {NoTask, DeadTask}
           /\ NoPid \notin Pids /\ Gone \notin Pids /\ NoPid # Gone
           /\ NoTask \notin Tasks /\ DeadTask \notin Tasks
<1>1. ControlTypeOK /\ TaskOK(t)
  BY DEF ControlInv
<1>2. WorkOK(t) /\ a \in Accounts
  BY <1>1 DEF TaskOK, WorkOK, AtEase
<1> QED
  BY <1>1, <1>2, WorkerAssumption
  DEF ControlInv, ControlTypeOK, TaskOK, Handles, Claims, Leases, NoPid, Gone, NoTask,
      DeadTask, Tasks

\* A step that writes the rows of an account, and perhaps gives up a reservation, or what the
\* registry overlooks.
LEMMA ClaimMoves ==
    ASSUME ControlInv, NEW t, NEW a \in Accounts,
           UNCHANGED <<os, reg, trans, host>>, resv' \in Claims, resv'[a] \in {resv[a], NoTask},
           \A b \in Accounts \ {a} : resv'[b] = resv[b],
           shop' \in [Accounts -> ShopRow], runtime' \in [Accounts -> RuntimeRow],
           \A b \in Accounts \ {a} : runtime'[b] = runtime[b],
           halted' \subseteq Accounts,
           \/ lost' = lost /\ \A p \in Pids : Apart(p, a) => runtime'[a].pid = p
           \/ lost' = lost \cup Overlooked(a),
           task' \in [Tasks -> TaskRow], OthersStand(t), t \in Tasks => TaskOK(t)',
           lease' = lease \/ lease' = [lease EXCEPT ![a] = IF @ = t THEN NoTask ELSE @],
           t \in Tasks => StartsOn(t)
    PROVE  ControlInv'
<1>1. ControlTypeOK /\ AccountOK(a)
  BY DEF ControlInv
<1>2. UNCHANGED <<reg, trans>> /\ resv'[a] \in {resv[a], NoTask}
  OBVIOUS
<1>3. RowsTyped /\ Beside(a)
  BY <1>1, <1>2 DEF ControlTypeOK, RowsTyped, Beside
<1>5. HandlesOK(a)'
  BY <1>1, <1>2 DEF AccountOK, HandlesOK, IsWorker
<1>6. PICK L \in SUBSET Overlooked(a) :
           lost' = lost \cup L /\ \A p \in Pids : Apart(p, a) /\ p \notin L => runtime'[a].pid = p
  <2>1. CASE lost' = lost /\ \A p \in Pids : Apart(p, a) => runtime'[a].pid = p
    <3>1. {} \in SUBSET Overlooked(a) /\ lost' = lost \cup {}
      BY <1>1, <2>1 DEF ControlTypeOK
    <3> QED BY <2>1, <3>1
  <2>2. CASE lost' = lost \cup Overlooked(a)
    <3>1. \A p \in Pids : Apart(p, a) => p \in Overlooked(a)
      BY <1>1 DEF AccountOK, Overlooked, Apart, Workers, IsWorker
    <3> QED BY <2>2, <3>1
  <2> QED BY <2>1, <2>2
<1>7. Ended({}, L) /\ L \in SUBSET Workers
  BY <1>1, <1>6 DEF Ended, ControlTypeOK, Overlooked
<1>8. Kept(a, {})
  BY <1>2 DEF Kept
<1>9. ASSUME NEW p \in Pids, Apart(p, a)' PROVE runtime'[a].pid = p /\ a \notin Managed'
  <2>1. Apart(p, a) /\ p \notin L
    BY <1>1, <1>7, <1>8, <1>9, ApartStays
  <2> QED BY <1>1, <1>2, <1>6, <2>1 DEF AccountOK, Managed
<1> QED BY <1>2, <1>3, <1>5, <1>7, <1>9, Moves

\* A step that writes only rows and tasks.
LEMMA PaperMoves ==
    ASSUME ControlInv, NEW t, NEW a \in Accounts,
           UNCHANGED <<os, registry, host>>,
           shop' \in [Accounts -> ShopRow], runtime' \in [Accounts -> RuntimeRow],
           \A b \in Accounts \ {a} : runtime'[b] = runtime[b],
           halted' \subseteq Accounts,
           \/ lost' = lost /\ \A p \in Pids : Apart(p, a) => runtime'[a].pid = p
           \/ lost' = lost \cup Overlooked(a),
           task' \in [Tasks -> TaskRow], OthersStand(t), t \in Tasks => TaskOK(t)',
           lease' = lease \/ lease' = [lease EXCEPT ![a] = IF @ = t THEN NoTask ELSE @],
           t \in Tasks => StartsOn(t)
    PROVE  ControlInv'
<1>1. UNCHANGED <<reg, trans, resv>> /\ resv \in Claims
  BY DEF registry, ControlInv, ControlTypeOK
<1> QED BY <1>1, ClaimMoves

\* A request that ends by writing only rows.
LEMMA FinishMoves ==
    ASSUME ControlInv, NEW t \in Tasks, NEW a \in Accounts, a = task[t].acct,
           UNCHANGED <<os, registry, host>>,
           shop' \in [Accounts -> ShopRow], runtime' \in [Accounts -> RuntimeRow],
           \A b \in Accounts \ {a} : runtime'[b] = runtime[b],
           halted' \subseteq Accounts,
           \/ lost' = lost /\ \A p \in Pids : Apart(p, a) => runtime'[a].pid = p
           \/ lost' = lost \cup Overlooked(a),
           Finish(t)
    PROVE  ControlInv'
BY FinishIs, EaseIsOK, PaperMoves DEF ControlInv, Released

\* Writing the row of one account.
LEMMA RowWritten ==
    ASSUME ControlTypeOK, NEW a \in Accounts, NEW r \in RuntimeRow,
           runtime' = [runtime EXCEPT ![a] = r]
    PROVE  /\ runtime' \in [Accounts -> RuntimeRow] /\ runtime'[a] = r
           /\ \A b \in Accounts \ {a} : runtime'[b] = runtime[b]
BY DEF ControlTypeOK

-----------------------------------------------------------------------------
(* Stops.                                                                  *)

\* stop moves the registry's handle to a transition before it signals.
LEMMA StopLocalKeeps ==
    ASSUME ControlInv, NEW t \in Tasks, NEW a, a = task[t].acct, StopLocal(t)
    PROVE  ControlInv'
<1> DEFINE live == trans[a] # NoTrans \/ reg[a] \in Pids
           p == IF trans[a] # NoTrans THEN trans[a].pid ELSE reg[a]
           next == IF live THEN "local" ELSE AfterLocal(task[t], runtime[a].pid, ProcessId(a))
           k == [task[t] EXCEPT !.durable = runtime[a].pid, !.local = ProcessId(a),
                                !.conf = TRUE, !.pc = next]
<1>1. AtWork(task[t])
  BY DEF StopLocal, AtWork
<1>2. /\ a \in Accounts /\ task[t] \in TaskRow
      /\ WorkOK(t) /\ AccountOK(a) /\ ControlTypeOK
      /\ runtime[a] \in RuntimeRow /\ trans[a] \in TransRow
      /\ reg[a] \in Pids \cup {NoPid, Gone}
      /\ NoPid \notin Pids /\ Gone \notin Pids
  BY <1>1, AtWorkIs
<1>3. /\ trans' = IF live THEN [trans EXCEPT ![a] = [pid |-> p, terminating |-> TRUE]] ELSE trans
      /\ reg' = IF trans[a] = NoTrans THEN [reg EXCEPT ![a] = NoPid] ELSE reg
      /\ resv' = [resv EXCEPT ![a] = NoTask]
      /\ task' = [Bumped(a) EXCEPT ![t] = k]
      /\ UNCHANGED <<shop, runtime, lease, os, host, halted, lost>>
  BY DEF StopLocal
<1>4. ProcessId(a) \in Pids \cup {NoPid} /\ next \in Stopping
  BY <1>2 DEF ProcessId, AfterLocal, Stopping
<1>a. next \in Pcs /\ runtime[a].pid \in Pids \cup {NoPid}
  BY <1>2, <1>4 DEF RuntimeRow, Pcs
<1> HIDE DEF next, live, p
<1>5. k \in TaskRow
  BY <1>2, <1>4, <1>a DEF TaskRow
<1>6. /\ k.pc = next /\ k.acct = a /\ k.conf /\ k.durable = runtime[a].pid
      /\ k.local = ProcessId(a) /\ k.op = task[t].op /\ k.undo = task[t].undo
      /\ k.bad = task[t].bad
  BY <1>2 DEF TaskRow
<1>7. /\ trans'[a] = IF live THEN [pid |-> p, terminating |-> TRUE] ELSE trans[a]
      /\ reg'[a] = IF trans[a] = NoTrans THEN NoPid ELSE reg[a]
      /\ resv'[a] = NoTask
      /\ Beside(a) /\ RowsTyped
  BY <1>2, <1>3 DEF live, p, ControlTypeOK, Handles, Claims, TransRow, Beside, RowsTyped
<1> HIDE DEF k
<1>8. task' \in [Tasks -> TaskRow] /\ task'[t] = k /\ OthersStand(t)
  BY <1>2, <1>3, <1>5, BumpedTask DEF ControlTypeOK
<1>9. Ended({}, {})
  BY <1>2, <1>3, NothingEnded
<1>10. Kept(a, {})
  BY <1>2, <1>7 DEF Kept, NoTrans, live, p
<1>11. HandlesOK(a)'
  BY <1>2, <1>3, <1>7 DEF AccountOK, HandlesOK, IsWorker, NoTrans, live, p
<1>13. \A q \in Pids : Apart(q, a)' =>
          /\ Apart(q, a) /\ runtime[a].pid = q /\ ~live /\ Guarded(task[t], q)
          /\ resv[a] = NoTask
  BY <1>2, <1>9, <1>10, ApartStays DEF AccountOK, Managed, WorkOK, live
<1>14. \A q \in Pids : Apart(q, a)' => runtime'[a].pid = q /\ a \notin Managed'
  BY <1>2, <1>3, <1>7, <1>13 DEF Managed, NoTrans, live
<1>15. \A q \in Pids : Apart(q, a)' => Guarded(k, q)
  <2>1. ASSUME NEW q \in Pids, Apart(q, a)'
        PROVE  next = "orphan" /\ runtime[a].pid = q /\ ~task[t].undo
    <3>1. ~live /\ runtime[a].pid = q /\ ~task[t].undo
      BY <1>13, <2>1 DEF Guarded
    <3>2. ProcessId(a) = NoPid
      BY <1>2, <3>1 DEF ProcessId, live, NoTrans
    <3> QED BY <1>2, <3>1, <3>2 DEF next, AfterLocal
  <2> QED BY <1>6, <2>1 DEF Guarded
<1>16. WorkOK(t)'
  <2>1. next = "orphan" => runtime[a].pid \in Pids
    BY <1>a DEF next, AfterLocal
  <2> QED
    BY <1>2, <1>3, <1>4, <1>6, <1>7, <1>8, <1>15, <2>1
    DEF WorkOK, Starting, Stopping
<1>17. TaskOK(t)'
  BY <1>2, <1>4, <1>6, <1>8, <1>16 DEF TaskOK, AtWork, Starting, Stopping
<1>18. StartsOn(t)
  BY <1>4, <1>6, <1>8 DEF StartsOn, Starting, Stopping
<1>20. \A q \in Pids \ {} : q \in {reg[a], trans[a].pid} => q \in {reg'[a], trans'[a].pid}
  BY <1>10 DEF Kept
<1>21. /\ lease' = lease /\ UNCHANGED host
      /\ {} \in SUBSET Pids /\ {} \in SUBSET Overlooked(a)
  BY <1>3
<1> QED
  BY <1>2, <1>7, <1>8, <1>9, <1>11, <1>14, <1>17, <1>18, <1>20, <1>21, Moves

\* What a stop that ends knows of the process that may live on.
LEMMA SurvivorIs ==
    ASSUME ControlInv, NEW t \in Tasks, task[t].pc = "confirm", NEW a, a = task[t].acct
    PROVE  /\ Survivor(t) \in Pids \cup {NoPid}
           /\ \A p \in Pids : Apart(p, a) => Survivor(t) = p /\ ~task[t].undo /\ ~task[t].conf
<1>1. AtWork(task[t])
  BY DEF AtWork, Stopping
<1>2. task[t] \in TaskRow /\ WorkOK(t) /\ NoPid \notin Pids
  BY <1>1, AtWorkIs
<1>3. Survivor(t) \in Pids \cup {NoPid}
  BY <1>2 DEF Survivor, TaskRow
<1>4. \A p \in Pids : Apart(p, a) => Survivor(t) = p /\ ~task[t].undo /\ ~task[t].conf
  BY <1>2 DEF WorkOK, Guarded, Survivor
<1> QED BY <1>3, <1>4

\* The rows that a stop and a pause leave.
LEMMA StoppedRowIs ==
    ASSUME ControlInv, NEW t \in Tasks, task[t].pc = "confirm", NEW a, a = task[t].acct
    PROVE  /\ StoppedRow(t) \in RuntimeRow /\ PausedRow(t) \in RuntimeRow
           /\ StoppedRow(t).desired = "stopped" /\ StoppedRow(t).pid = Survivor(t)
           /\ StoppedRow(t).auto = runtime[a].auto /\ PausedRow(t).auto = runtime[a].auto
           /\ PausedRow(t).desired = runtime[a].desired /\ PausedRow(t).pid = Survivor(t)
<1>1. AtWork(task[t])
  BY DEF AtWork, Stopping
<1>2. runtime[a] \in RuntimeRow
  BY <1>1, AtWorkIs
<1> QED BY <1>2, SurvivorIs DEF StoppedRow, PausedRow, RuntimeRow

\* The end of a stop, a pause or a delete.
LEMMA StopEndKeeps ==
    ASSUME ControlInv, NEW t \in Tasks, NEW a, a = task[t].acct, StopEnd(t)
    PROVE  ControlInv'
<1>1. AtWork(task[t]) /\ task[t].pc = "confirm"
  BY DEF StopEnd, AtWork, Stopping
<1>2. /\ a \in Accounts /\ task[t] \in TaskRow
      /\ WorkOK(t) /\ AccountOK(a) /\ ControlTypeOK
      /\ runtime[a] \in RuntimeRow /\ shop[a] \in ShopRow
  BY <1>1, AtWorkIs
<1>3. UNCHANGED <<os, reg, trans, resv, registry, host, lost>>
  BY DEF StopEnd, registry
<1> DEFINE r == [StoppedRow(t) EXCEPT !.auto = @ /\ ~task[t].conf]
           q == [StoppedRow(t) EXCEPT !.auto = FALSE]
<1>4. /\ StoppedRow(t) \in RuntimeRow /\ PausedRow(t) \in RuntimeRow
      /\ StoppedRow(t).pid = Survivor(t) /\ PausedRow(t).pid = Survivor(t)
  BY <1>1, StoppedRowIs
<1>5. \A p \in Pids : Apart(p, a) => Survivor(t) = p /\ ~task[t].undo /\ ~task[t].conf
  BY <1>1, SurvivorIs
<1>6. /\ r \in RuntimeRow /\ r.pid = Survivor(t)
      /\ q \in RuntimeRow /\ q.pid = Survivor(t)
  BY <1>2, <1>4 DEF RuntimeRow, TaskRow
<1> HIDE DEF r, q
<1>7. halted' \subseteq Accounts
  <2>1. halted' \in {halted, halted \ {a}, halted \cup {a}}
    BY DEF StopEnd
  <2> QED BY <1>2, <2>1 DEF ControlTypeOK
<1>8. shop' \in [Accounts -> ShopRow]
  <2>1. /\ [shop[a] EXCEPT !.connected = FALSE, !.reauth = FALSE] \in ShopRow
        /\ [shop[a] EXCEPT !.enabled = FALSE] \in ShopRow
    BY <1>2 DEF ShopRow
  <2> QED BY <1>2, <2>1 DEF StopEnd, ControlTypeOK
<1>9. CASE Finish(t) /\ UNCHANGED runtime
  <2>1. \A p \in Pids : Apart(p, a) => runtime'[a].pid = p
    BY <1>2, <1>9 DEF AccountOK
  <2> QED BY <1>2, <1>3, <1>7, <1>8, <1>9, <2>1, FinishMoves DEF ControlTypeOK
<1>10. ASSUME NEW row \in {r, q, PausedRow(t)}, runtime' = [runtime EXCEPT ![a] = row], Finish(t)
       PROVE  ControlInv'
  <2>1. row \in RuntimeRow /\ row.pid = Survivor(t)
    BY <1>4, <1>6
  <2>2. /\ runtime' \in [Accounts -> RuntimeRow] /\ runtime'[a] = row
        /\ \A b \in Accounts \ {a} : runtime'[b] = runtime[b]
    BY <1>2, <1>10, <2>1, RowWritten
  <2> QED BY <1>2, <1>3, <1>5, <1>7, <1>8, <1>10, <2>1, <2>2, FinishMoves
<1>12. CASE /\ task[t].op = "delete"
            /\ runtime' = [runtime EXCEPT ![a] = StoppedRow(t)]
            /\ task' = [task EXCEPT ![t].again = TRUE, ![t].pc = "stop"]
            /\ UNCHANGED <<lease, shop>>
  <2> DEFINE k == [task[t] EXCEPT !.again = TRUE, !.pc = "stop"]
  <2>1. /\ runtime' \in [Accounts -> RuntimeRow] /\ runtime'[a] = StoppedRow(t)
        /\ \A b \in Accounts \ {a} : runtime'[b] = runtime[b]
    BY <1>2, <1>4, <1>12, RowWritten
  <2>3. /\ k \in TaskRow /\ k.pc = "stop" /\ k.acct = a /\ k.op = "delete"
        /\ k.undo = task[t].undo /\ k.bad = task[t].bad
    BY <1>2, <1>12 DEF TaskRow, Pcs
  <2>4. task' = [task EXCEPT ![t] = k]
    BY <1>2, <1>12 DEF ControlTypeOK
  <2> HIDE DEF k
  <2>5. task' \in [Tasks -> TaskRow] /\ task'[t] = k /\ OthersStand(t)
    BY <1>2, <2>3, <2>4, NewTask DEF ControlTypeOK
  <2>6. \A p \in Pids : Apart(p, a)' => Apart(p, a)
    BY <1>3 DEF Apart, IsWorker
  <2>7. WorkOK(t)'
    BY <1>2, <1>5, <1>12, <2>3, <2>5, <2>6 DEF WorkOK, Guarded, Starting
  <2>8. TaskOK(t)' /\ StartsOn(t)
    BY <2>3, <2>5, <2>7 DEF TaskOK, AtWork, Starting, StartsOn
  <2> QED BY <1>2, <1>3, <1>4, <1>5, <1>7, <1>8, <1>12, <2>1, <2>5, <2>8, PaperMoves
<1> QED BY <1>9, <1>10, <1>12 DEF StopEnd, r, q

\* The end of the process that an account's transition holds, or of the attempt.
HandleEnds(a, ok) ==
    /\ Terminate(trans[a].pid, ok)
    /\ trans' = [trans EXCEPT ![a] = IF ok THEN NoTrans ELSE [@ EXCEPT !.terminating = FALSE]]
    /\ reg' = reg

\* A handle that is signalled either ends its process or is kept.
LEMMA HandleEndsIs ==
    ASSUME ControlInv, NEW a \in Accounts, NEW ok \in BOOLEAN, HandleEnds(a, ok)
    PROVE  /\ trans' \in [Accounts -> TransRow]
           /\ \A b \in Accounts \ {a} : trans'[b] = trans[b]
           /\ \E P \in SUBSET Pids : /\ \A q \in P : IsWorker(q, a)
                                     /\ Ended(P, {}) /\ Kept(a, P)
           /\ trans'[a].pid \in Pids => trans[a].pid \in Pids /\ ~ok
           /\ trans[a] = NoTrans => trans'[a] = NoTrans
           /\ HandlesOK(a)'
<1> DEFINE p == trans[a].pid
           P == IF ok /\ p \in Pids THEN {p} ELSE {}
<1>1. /\ AccountOK(a) /\ ControlTypeOK /\ HandlesOK(a)
      /\ trans[a] \in TransRow /\ NoPid \notin Pids
  BY WorkerAssumption DEF ControlInv, AccountOK, ControlTypeOK, NoPid
<1>2. /\ trans' = [trans EXCEPT ![a] = IF ok THEN NoTrans ELSE [@ EXCEPT !.terminating = FALSE]]
      /\ reg' = reg /\ (ok \/ p \in Pids)
  BY DEF HandleEnds, Terminate
<1>3. NoTrans \in TransRow /\ [trans[a] EXCEPT !.terminating = FALSE] \in TransRow
  BY <1>1 DEF NoTrans, TransRow
<1>4. trans' \in [Accounts -> TransRow] /\ \A b \in Accounts \ {a} : trans'[b] = trans[b]
  BY <1>1, <1>2, <1>3 DEF ControlTypeOK
<1>5. /\ P \in SUBSET Pids /\ \A q \in P : IsWorker(q, a)
      /\ Ended(P, {})
  BY <1>1, TerminateIs DEF HandleEnds, HandlesOK
<1> HIDE DEF P
<1>6. /\ trans'[a].pid \in Pids => trans'[a].pid = p /\ ~ok
      /\ trans'[a] # NoTrans => ~ok
      /\ ~ok => trans'[a].pid = p
  BY <1>1, <1>2 DEF ControlTypeOK, NoTrans, TransRow
<1>7. Kept(a, P)
  BY <1>1, <1>2, <1>6 DEF Kept, P
<1>8. \A q \in Pids : IsWorker(q, a)' <=> IsWorker(q, a) /\ q \notin P
  BY <1>1, <1>5, EndedIs
<1>9. p \in Pids => reg[a] \notin Pids /\ trans[a] # NoTrans
  BY <1>1 DEF HandlesOK, NoTrans
<1>10. (reg[a] \in Pids => IsWorker(reg[a], a))'
  BY <1>1, <1>2, <1>8, <1>9 DEF HandlesOK, P
<1>11. (trans[a].pid \in Pids => IsWorker(trans[a].pid, a))'
  BY <1>1, <1>6, <1>8 DEF HandlesOK, P
<1>12. HandlesOK(a)'
  BY <1>2, <1>6, <1>9, <1>10, <1>11 DEF HandlesOK
<1> QED BY <1>2, <1>4, <1>5, <1>6, <1>7, <1>9, <1>12

\* The frame of the steps that signal a handle and no recorded number.
LEMMA HandleEndMoves ==
    ASSUME ControlInv, NEW t \in Tasks, NEW a \in Accounts, NEW ok \in BOOLEAN,
           HandleEnds(a, ok), \A p \in Pids : ~Apart(p, a),
           UNCHANGED <<shop, host>>, halted' \subseteq Accounts, resv' \in Claims,
           \A b \in Accounts \ {a} : resv'[b] = resv[b] /\ runtime'[b] = runtime[b],
           runtime' \in [Accounts -> RuntimeRow],
           task' \in [Tasks -> TaskRow], OthersStand(t),
           (\A p \in Pids : ~Apart(p, a)') => TaskOK(t)',
           lease' = lease \/ lease' = [lease EXCEPT ![a] = IF @ = t THEN NoTask ELSE @],
           StartsOn(t)
    PROVE  ControlInv'
<1>1. ControlTypeOK /\ AccountOK(a)
  BY DEF ControlInv
<1>2. /\ trans' \in [Accounts -> TransRow]
      /\ \A b \in Accounts \ {a} : trans'[b] = trans[b]
      /\ trans'[a].pid \in Pids => trans[a].pid \in Pids
      /\ HandlesOK(a)'
  BY HandleEndsIs
<1>3. PICK P \in SUBSET Pids : /\ \A q \in P : IsWorker(q, a)
                               /\ Ended(P, {}) /\ Kept(a, P)
  BY HandleEndsIs
<1>4. reg' = reg
  BY DEF HandleEnds
<1>5. RowsTyped /\ Beside(a)
  BY <1>1, <1>2, <1>4 DEF RowsTyped, Beside, ControlTypeOK
<1>6. \A q \in Pids : ~Apart(q, a)'
  BY <1>1, <1>3, ApartStays
<1> QED BY <1>1, <1>2, <1>3, <1>4, <1>5, <1>6, Moves DEF Kept

\* The end of the signal to the registry's own process.
LEMMA LocalEndKeeps ==
    ASSUME ControlInv, NEW t \in Tasks, NEW a, a = task[t].acct, NEW ok \in BOOLEAN,
           LocalEnd(t, ok)
    PROVE  ControlInv'
<1> DEFINE next == AfterLocal(task[t], task[t].durable, task[t].local)
           k == [task[t] EXCEPT !.conf = ok, !.pc = next]
           vain == ~ok /\ task[t].undo /\ ~Owned(t)
           seen(s) == [task[s] EXCEPT !.spoilt = @ \/ (vain /\ task[s].acct = a)]
<1>1. AtWork(task[t]) /\ task[t].pc = "local"
  BY DEF LocalEnd, AtWork, Stopping
<1>2. /\ a \in Accounts /\ task[t] \in TaskRow
      /\ WorkOK(t) /\ AccountOK(a) /\ ControlTypeOK
  BY <1>1, AtWorkIs
<1>3. /\ HandleEnds(a, ok) /\ UNCHANGED <<shop, runtime, lease, reg, resv, host>>
      /\ halted' = IF vain THEN halted \ {a} ELSE halted
      /\ task' = [s \in Tasks |-> IF s = t THEN k ELSE seen(s)]
  BY DEF LocalEnd, HandleEnds
<1>4. next \in {"confirm", "orphan"} /\ (next = "orphan" => task[t].durable \in Pids)
  BY <1>2 DEF AfterLocal, TaskRow
<1> HIDE DEF next
<1>6. /\ k \in TaskRow /\ k.pc = next /\ k.acct = a /\ k.conf = ok /\ k.durable = task[t].durable
      /\ k.op = task[t].op /\ k.undo = task[t].undo /\ k.bad = task[t].bad
  <2>1. next \in Pcs
    BY <1>4 DEF Pcs, Stopping
  <2>2. k \in TaskRow
    BY <1>2, <2>1 DEF TaskRow
  <2>3. /\ k.pc = next /\ k.conf = ok /\ k.acct = task[t].acct /\ k.durable = task[t].durable
        /\ k.op = task[t].op /\ k.undo = task[t].undo /\ k.bad = task[t].bad
    BY <1>2 DEF TaskRow
  <2> QED BY <2>2, <2>3
<1> HIDE DEF k
<1>a. halted' \subseteq Accounts
  BY <1>2, <1>3 DEF ControlTypeOK
<1>5. ASSUME NEW s \in Tasks
      PROVE  /\ seen(s) \in TaskRow
             /\ seen(s).pc = task[s].pc /\ seen(s).acct = task[s].acct /\ seen(s).op = task[s].op
             /\ seen(s).undo = task[s].undo /\ seen(s).bad = task[s].bad
             /\ seen(s).conf = task[s].conf /\ seen(s).durable = task[s].durable
             /\ seen(s).local = task[s].local
  <2>1. task[s] \in TaskRow
    BY <1>2 DEF ControlTypeOK
  <2>2. (task[s].spoilt \/ (vain /\ task[s].acct = a)) \in BOOLEAN
    OBVIOUS
  <2> HIDE DEF vain
  <2> QED BY <2>1, <2>2 DEF TaskRow
<1> HIDE DEF seen
<1>7. task' \in [Tasks -> TaskRow] /\ task'[t] = k /\ OthersStand(t)
  <2>1. task' \in [Tasks -> TaskRow] /\ task'[t] = k /\ \A s \in Tasks \ {t} : task'[s] = seen(s)
    <3> HIDE DEF TaskRow
    <3> QED BY <1>3, <1>5, <1>6
  <2> QED BY <1>5, <2>1 DEF OthersStand, SameWork
<1>8. (\A p \in Pids : ~Apart(p, a)') => WorkOK(t)'
  BY <1>1, <1>2, <1>4, <1>6, <1>7 DEF WorkOK, Starting
<1>9. ((\A p \in Pids : ~Apart(p, a)') => TaskOK(t)') /\ StartsOn(t)
  BY <1>4, <1>6, <1>7, <1>8 DEF TaskOK, AtWork, Starting, Stopping, StartsOn
<1>10. \A p \in Pids : ~Apart(p, a)
  BY <1>1, <1>2 DEF WorkOK, Guarded
<1>11. resv' \in Claims /\ runtime' \in [Accounts -> RuntimeRow]
  BY <1>2, <1>3 DEF ControlTypeOK
<1> QED BY <1>2, <1>3, <1>a, <1>7, <1>9, <1>10, <1>11, HandleEndMoves

\* What terminate_pid leaves of the account's handles.
LEMMA TerminatePidLeaves ==
    ASSUME ControlInv, NEW a \in Accounts, NEW p \in Pids, NEW ok \in BOOLEAN,
           TerminatePid(p, a, ok)
    PROVE  /\ reg'[a] \in Pids => reg[a] \in Pids
           /\ trans'[a].pid \in Pids => trans[a].pid \in Pids
           /\ \A q \in Pids : Apart(q, a)' => Apart(q, a) /\ ~(ok /\ q = p)
           /\ \A q \in Pids : IsWorker(q, a)' <=> IsWorker(q, a) /\ ~(ok /\ q = p)
           /\ trans[a] = NoTrans => trans'[a] = NoTrans
<1> DEFINE P == IF ok /\ IsWorker(p, a) THEN {p} ELSE {}
<1>1. ControlTypeOK /\ Gone \notin Pids /\ \A b \in Accounts : HandlesOK(b)
  BY WorkerAssumption DEF ControlInv, Gone, AccountOK
<1>2. P \in SUBSET Pids /\ Ended(P, {}) /\ Forgotten(P) /\ \A q \in P : IsWorker(q, a)
  BY <1>1, TerminatePidIs
<1> HIDE DEF P
<1>3. /\ reg'[a] = reg[a] \/ (reg'[a] = Gone /\ reg[a] \in P)
      /\ trans'[a].pid = trans[a].pid \/ (trans'[a].pid = Gone /\ trans[a].pid \in P)
      /\ trans[a] = NoTrans => trans'[a] = NoTrans
  BY <1>1, <1>2, ForgottenIs
<1>4. Kept(a, P)
  BY <1>3 DEF Kept
<1>5. /\ \A q \in Pids : Apart(q, a)' => Apart(q, a) /\ q \notin P
      /\ \A q \in Pids : IsWorker(q, a)' <=> IsWorker(q, a) /\ q \notin P
  BY <1>1, <1>2, <1>4, ApartStays, EndedIs
<1> QED BY <1>1, <1>3, <1>5 DEF P, Apart

\* The frame of the steps that end a recorded process.
LEMMA TerminatePidMoves ==
    ASSUME ControlInv, NEW t \in Tasks, NEW a \in Accounts, NEW p \in Pids,
           NEW ok \in BOOLEAN, TerminatePid(p, a, ok), UNCHANGED <<resv, host>>,
           shop' \in [Accounts -> ShopRow], runtime' \in [Accounts -> RuntimeRow],
           \A b \in Accounts \ {a} : runtime'[b] = runtime[b],
           halted' \subseteq Accounts,
           \A q \in Pids : Apart(q, a) /\ ~(ok /\ q = p) => runtime'[a].pid = q,
           task' \in [Tasks -> TaskRow], OthersStand(t), TaskOK(t)',
           lease' = lease \/ lease' = [lease EXCEPT ![a] = IF @ = t THEN NoTask ELSE @],
           StartsOn(t)
    PROVE  ControlInv'
<1> DEFINE P == IF ok /\ IsWorker(p, a) THEN {p} ELSE {}
<1>1. ControlTypeOK /\ AccountOK(a) /\ Gone \notin Pids /\ \A b \in Accounts : HandlesOK(b)
  BY WorkerAssumption DEF ControlInv, Gone, AccountOK
<1>2. P \in SUBSET Pids /\ Ended(P, {}) /\ Forgotten(P) /\ \A q \in P : IsWorker(q, a)
  BY <1>1, TerminatePidIs
<1> HIDE DEF P
<1>3. /\ reg' \in Handles /\ trans' \in [Accounts -> TransRow] /\ HandlesOK(a)'
      /\ \A b \in Accounts \ {a} : reg'[b] = reg[b] /\ trans'[b] = trans[b]
      /\ reg'[a] = reg[a] \/ (reg'[a] = Gone /\ reg[a] \in P)
      /\ trans'[a].pid = trans[a].pid \/ (trans'[a].pid = Gone /\ trans[a].pid \in P)
      /\ trans[a] = NoTrans => trans'[a] = NoTrans
  BY <1>1, <1>2, ForgottenIs
<1>4. RowsTyped /\ Beside(a)
  BY <1>1, <1>3 DEF RowsTyped, Beside, ControlTypeOK
<1>6. Kept(a, P)
  BY <1>3 DEF Kept
<1>7. ASSUME NEW q \in Pids, Apart(q, a)' PROVE runtime'[a].pid = q /\ a \notin Managed'
  <2>1. Apart(q, a) /\ ~(ok /\ q = p)
    BY <1>7, TerminatePidLeaves
  <2>2. a \notin Managed
    BY <1>1, <2>1 DEF AccountOK
  <2> QED BY <1>1, <1>3, <2>1, <2>2 DEF Managed
<1> QED BY <1>1, <1>2, <1>3, <1>4, <1>6, <1>7, Moves DEF Kept

\* A stop ends the recorded process when the registry does not have it.
LEMMA StopOrphanKeeps ==
    ASSUME ControlInv, NEW t \in Tasks, NEW a, a = task[t].acct, NEW ok \in BOOLEAN,
           StopOrphan(t, ok)
    PROVE  ControlInv'
<1> DEFINE d == task[t].durable
           c == task[t].conf /\ ok
           l == IF ok THEN task[t].local ELSE d
           k == [task[t] EXCEPT !.conf = c, !.pc = "confirm", !.local = l]
<1>1. AtWork(task[t]) /\ task[t].pc = "orphan"
  BY DEF StopOrphan, AtWork, Stopping
<1>2. /\ a \in Accounts /\ task[t] \in TaskRow
      /\ WorkOK(t) /\ AccountOK(a) /\ ControlTypeOK
  BY <1>1, AtWorkIs
<1>3. /\ d \in Pids /\ TerminatePid(d, a, ok)
      /\ UNCHANGED <<shop, runtime, lease, resv, host, halted>>
      /\ task' = [task EXCEPT ![t] = k]
  BY <1>1, <1>2 DEF StopOrphan, WorkOK, ControlTypeOK
<1>4. /\ k \in TaskRow /\ k.pc = "confirm" /\ k.acct = a /\ k.conf = (task[t].conf /\ ok)
      /\ k.op = task[t].op /\ k.undo = task[t].undo /\ k.bad = task[t].bad
      /\ ~ok => k.local = d
  <2>1. c \in BOOLEAN /\ l \in Pids \cup {NoPid} /\ "confirm" \in Pcs
    <3>1. task[t].conf \in BOOLEAN /\ task[t].local \in Pids \cup {NoPid}
      BY <1>2 DEF TaskRow
    <3> QED BY <1>3, <3>1 DEF Pcs, Stopping
  <2>2. c = (task[t].conf /\ ok) /\ (~ok => l = d)
    OBVIOUS
  <2> HIDE DEF c, l, d
  <2>3. k \in TaskRow
    BY <1>2, <2>1 DEF TaskRow
  <2>4. /\ k.pc = "confirm" /\ k.conf = c /\ k.local = l
        /\ k.acct = task[t].acct /\ k.op = task[t].op
        /\ k.undo = task[t].undo /\ k.bad = task[t].bad
    BY <1>2 DEF TaskRow
  <2> QED BY <2>2, <2>3, <2>4
<1> HIDE DEF k, c, l
<1>5. task' \in [Tasks -> TaskRow] /\ task'[t] = k /\ OthersStand(t)
  BY <1>2, <1>3, <1>4, NewTask DEF ControlTypeOK
<1>6. /\ reg'[a] \in Pids => reg[a] \in Pids
      /\ trans'[a].pid \in Pids => trans[a].pid \in Pids
      /\ \A q \in Pids : Apart(q, a)' => Apart(q, a) /\ ~(ok /\ q = d)
  BY <1>2, <1>3, TerminatePidLeaves
<1>7. \A q \in Pids : Apart(q, a)' => Guarded(k, q)
  BY <1>1, <1>2, <1>4, <1>6 DEF WorkOK, Guarded
<1>8. WorkOK(t)'
  BY <1>1, <1>2, <1>4, <1>5, <1>7 DEF WorkOK, Starting
<1>9. TaskOK(t)' /\ StartsOn(t)
  BY <1>4, <1>5, <1>8 DEF TaskOK, AtWork, Starting, Stopping, StartsOn
<1> QED
  BY <1>2, <1>3, <1>5, <1>9, TerminatePidMoves DEF AccountOK, ControlTypeOK

-----------------------------------------------------------------------------
(* Starts.                                                                 *)

\* A task whose row changes in its place in the operation only.
LEMMA StepIs ==
    ASSUME ControlTypeOK, NEW t \in Tasks, NEW pc \in Pcs, Step(t, pc)
    PROVE  /\ task' \in [Tasks -> TaskRow] /\ OthersStand(t)
           /\ task'[t] \in TaskRow /\ task'[t] = [task[t] EXCEPT !.pc = pc]
<1> DEFINE k == [task[t] EXCEPT !.pc = pc]
<1>1. task[t] \in TaskRow
  BY DEF ControlTypeOK
<1>2. k \in TaskRow
  BY <1>1 DEF TaskRow
<1>3. task' = [task EXCEPT ![t] = k]
  BY DEF Step
<1> HIDE DEF k
<1>4. task' \in [Tasks -> TaskRow] /\ task'[t] = k /\ OthersStand(t)
  BY <1>2, <1>3, NewTask DEF ControlTypeOK
<1> QED BY <1>2, <1>4 DEF k

\* Writing the desired state, the state and the number of an account's row.
LEMMA PersistIs ==
    ASSUME ControlTypeOK, NEW a \in Accounts, NEW desired \in {"running", "stopped"},
           NEW state \in {"running", "stopped", "waiting_login", "degraded", "starting",
                          "capacity_limited"},
           NEW pid \in Pids \cup {NoPid}, Persist(a, desired, state, pid)
    PROVE  /\ runtime' \in [Accounts -> RuntimeRow]
           /\ \A b \in Accounts \ {a} : runtime'[b] = runtime[b]
           /\ runtime'[a].pid = pid /\ runtime'[a].desired = desired
           /\ runtime'[a].auto = runtime[a].auto
<1> DEFINE r == [runtime[a] EXCEPT !.desired = desired, !.state = state, !.pid = pid]
<1>1. runtime[a] \in RuntimeRow
  BY DEF ControlTypeOK
<1>2. r \in RuntimeRow /\ r.pid = pid /\ r.desired = desired /\ r.auto = runtime[a].auto
  BY <1>1 DEF RuntimeRow
<1>3. runtime' = [runtime EXCEPT ![a] = r]
  BY DEF Persist, ControlTypeOK
<1> HIDE DEF r
<1> QED BY <1>2, <1>3, RowWritten

\* The same with the mode of the operation.
LEMMA ObserveIs ==
    ASSUME ControlTypeOK, NEW t \in Tasks, NEW a \in Accounts, a = task[t].acct,
           NEW desired \in {"running", "stopped"},
           NEW state \in {"running", "stopped", "waiting_login", "degraded", "starting",
                          "capacity_limited"},
           NEW pid \in Pids \cup {NoPid}, Observe(t, desired, state, pid)
    PROVE  /\ runtime' \in [Accounts -> RuntimeRow]
           /\ \A b \in Accounts \ {a} : runtime'[b] = runtime[b]
           /\ runtime'[a].pid = pid /\ runtime'[a].desired = desired
           /\ runtime'[a].auto = runtime[a].auto
<1> DEFINE r == [runtime[a] EXCEPT !.desired = desired, !.state = state, !.pid = pid,
                                   !.mode = task[t].mode]
<1>1. runtime[a] \in RuntimeRow /\ task[t].mode \in Modes
  BY DEF ControlTypeOK, TaskRow
<1>2. r \in RuntimeRow /\ r.pid = pid /\ r.desired = desired /\ r.auto = runtime[a].auto
  BY <1>1 DEF RuntimeRow
<1>3. runtime' = [runtime EXCEPT ![a] = r]
  BY DEF Observe, ControlTypeOK
<1> HIDE DEF r
<1> QED BY <1>2, <1>3, RowWritten

\* What a task writes of an account may override its owner's stop, never feign one.
LEMMA HeedsIs ==
    ASSUME ControlTypeOK, NEW t, Heeds(t)
    PROVE  halted' \subseteq Accounts
BY DEF Heeds, ControlTypeOK

\* process_id answers a number or none.
LEMMA ProcessIdIs ==
    ASSUME NEW a
    PROVE  ProcessId(a) \in Pids \cup {NoPid}
BY DEF ProcessId

\* A start that reached no process, by caller.
LEMMA StartFailedIs ==
    ASSUME ControlInv, NEW t \in Tasks, NEW a, a = task[t].acct, AtWork(task[t]),
           task[t].op \in {"start", "auto", "restore"}, StartFailed(t)
    PROVE  /\ task' \in [Tasks -> TaskRow] /\ OthersStand(t) /\ StartsOn(t)
           /\ lease' = lease \/ lease' = [lease EXCEPT ![a] = IF @ = t THEN NoTask ELSE @]
           /\ runtime' \in [Accounts -> RuntimeRow]
           /\ \A b \in Accounts \ {a} : runtime'[b] = runtime[b]
           /\ \/ runtime' = runtime
              \/ task[t].op = "auto" /\ runtime'[a].pid = ProcessId(a)
           /\ task[t].op # "restore" => TaskOK(t)'
           /\ (\A p \in Pids : ~Apart(p, a)') => TaskOK(t)'
<1>1. /\ a \in Accounts /\ task[t] \in TaskRow /\ WorkOK(t) /\ ControlTypeOK
  BY AtWorkIs
<1>2. CASE Finish(t) /\ UNCHANGED runtime
  BY <1>1, <1>2, FinishIs, EaseIsOK DEF ControlTypeOK, Released
<1>3. CASE task[t].op = "auto" /\ Finish(t) /\ Observe(t, "running", "degraded", ProcessId(a))
  BY <1>1, <1>3, FinishIs, EaseIsOK, ProcessIdIs, ObserveIs DEF Released
<1>4. CASE /\ task[t].op = "restore" /\ UNCHANGED <<lease, runtime>>
           /\ task' = [task EXCEPT ![t].pc = "stop", ![t].undo = TRUE]
  <2> DEFINE k == [task[t] EXCEPT !.pc = "stop", !.undo = TRUE]
  <2>1. k \in TaskRow /\ k.pc = "stop" /\ k.op = "restore" /\ k.acct = a /\ k.bad = task[t].bad
    BY <1>1, <1>4 DEF TaskRow, Pcs
  <2>2. task' = [task EXCEPT ![t] = k]
    BY <1>4
  <2> HIDE DEF k
  <2>3. task' \in [Tasks -> TaskRow] /\ task'[t] = k /\ OthersStand(t)
    BY <1>1, <2>1, <2>2, NewTask DEF ControlTypeOK
  <2>4. (\A p \in Pids : ~Apart(p, a)') => WorkOK(t)'
    BY <1>1, <1>4, <2>1, <2>3 DEF WorkOK, Starting
  <2>5. (\A p \in Pids : ~Apart(p, a)') => TaskOK(t)'
    BY <2>1, <2>3, <2>4 DEF TaskOK, AtWork, Starting, Stopping
  <2>6. StartsOn(t)
    BY <2>1, <2>3 DEF StartsOn, Starting
  <2> QED BY <1>1, <1>4, <2>3, <2>5, <2>6 DEF ControlTypeOK
<1> QED BY <1>2, <1>3, <1>4 DEF StartFailed

\* A start that raised before it looked for a process passes over what the registry overlooks,
\* or leaves the row alone.
LEMMA RaisedMoves ==
    ASSUME ControlInv, NEW t \in Tasks, NEW a, a = task[t].acct, AtWork(task[t]),
           task[t].op \in {"start", "auto"}, Raised(t),
           UNCHANGED <<os, registry, host, shop>>, halted' \subseteq Accounts
    PROVE  ControlInv'
<1>1. a \in Accounts /\ ControlTypeOK /\ AccountOK(a)
  BY AtWorkIs
<1>2. CASE Finish(t) /\ UNCHANGED <<runtime, lost>>
  BY <1>1, <1>2, FinishMoves DEF ControlTypeOK, AccountOK
<1>3. CASE StartFailed(t) /\ lost' = lost \cup Overlooked(a)
  BY <1>1, <1>3, StartFailedIs, PaperMoves DEF ControlTypeOK
<1> QED BY <1>2, <1>3 DEF Raised

\* The checks before a start, and the automatic start that records no process.
LEMMA CheckStartKeeps ==
    ASSUME ControlInv, NEW t \in Tasks, NEW a, a = task[t].acct, NEW valid \in BOOLEAN,
           CheckStart(t, valid)
    PROVE  ControlInv'
<1>1. AtWork(task[t]) /\ task[t].pc = "check" /\ task[t].op \in {"start", "auto"}
  BY DEF CheckStart, AtWork
<1>2. /\ a \in Accounts /\ task[t] \in TaskRow
      /\ WorkOK(t) /\ AccountOK(a) /\ ControlTypeOK
      /\ runtime[a] \in RuntimeRow /\ shop[a] \in ShopRow
  BY <1>1, AtWorkIs
<1>3. UNCHANGED <<os, registry, host>> /\ halted' \subseteq Accounts
  BY <1>2, HeedsIs DEF CheckStart
<1>4. shop' \in [Accounts -> ShopRow]
  <2>1. [shop[a] EXCEPT !.reauth = FALSE] \in ShopRow
    BY <1>2 DEF ShopRow
  <2> QED BY <1>2, <2>1 DEF CheckStart, ControlTypeOK
<1>5. \A p \in Pids : Apart(p, a) => runtime[a].pid = p
  BY <1>2 DEF AccountOK
<1>6. CASE Finish(t) /\ UNCHANGED <<runtime, lost>>
  BY <1>2, <1>3, <1>4, <1>5, <1>6, FinishMoves DEF ControlTypeOK
<1>7. CASE /\ Persist(a, "running", "degraded", ProcessId(a)) /\ Finish(t)
           /\ lost' = lost \cup Overlooked(a)
  <2>1. /\ runtime' \in [Accounts -> RuntimeRow]
        /\ \A b \in Accounts \ {a} : runtime'[b] = runtime[b]
    BY <1>2, <1>7, ProcessIdIs, PersistIs
  <2> QED BY <1>2, <1>3, <1>4, <1>7, <2>1, FinishMoves
<1>8. CASE ~marker /\ StartLocked(t, valid)
  <2>3. CASE /\ task[t].op = "auto" /\ UNCHANGED <<lease, runtime, lost>>
             /\ task' = [task EXCEPT ![t].pc = "stop", ![t].bad = TRUE]
    <3> DEFINE k == [task[t] EXCEPT !.pc = "stop", !.bad = TRUE]
    <3>1. k \in TaskRow /\ k.pc = "stop" /\ k.op = "auto" /\ k.acct = a /\ k.undo = task[t].undo
      BY <1>2, <2>3 DEF TaskRow, Pcs
    <3>2. task' = [task EXCEPT ![t] = k]
      BY <2>3
    <3> HIDE DEF k
    <3>3. task' \in [Tasks -> TaskRow] /\ task'[t] = k /\ OthersStand(t)
      BY <1>2, <3>1, <3>2, NewTask DEF ControlTypeOK
    <3>4. \A p \in Pids : Apart(p, a)' => Apart(p, a)
      BY <1>3, <2>3 DEF Apart, IsWorker, registry
    <3>5. WorkOK(t)'
      BY <1>1, <1>2, <2>3, <3>1, <3>3, <3>4 DEF WorkOK, Guarded, Starting
    <3>6. TaskOK(t)' /\ StartsOn(t)
      BY <3>1, <3>3, <3>5 DEF TaskOK, AtWork, Starting, Stopping, StartsOn
    <3> QED BY <1>2, <1>3, <1>4, <1>5, <2>3, <3>3, <3>6, PaperMoves DEF ControlTypeOK
  <2>4. CASE /\ StartFailed(t)
             /\ lost' = IF task[t].op = "auto" THEN lost \cup Overlooked(a) ELSE lost
    <3>1. /\ task' \in [Tasks -> TaskRow] /\ OthersStand(t) /\ StartsOn(t)
          /\ lease' = lease \/ lease' = [lease EXCEPT ![a] = IF @ = t THEN NoTask ELSE @]
          /\ runtime' \in [Accounts -> RuntimeRow]
          /\ \A b \in Accounts \ {a} : runtime'[b] = runtime[b]
          /\ task[t].op # "auto" => runtime' = runtime
          /\ TaskOK(t)'
      BY <1>1, <2>4, StartFailedIs
    <3>2. \/ lost' = lost /\ \A p \in Pids : Apart(p, a) => runtime'[a].pid = p
          \/ lost' = lost \cup Overlooked(a)
      BY <1>5, <2>4, <3>1
    <3> QED BY <1>2, <1>3, <1>4, <3>1, <3>2, PaperMoves
  <2>5. CASE Step(t, "prepare") /\ UNCHANGED <<lease, runtime, lost>>
    <3>1. /\ task' \in [Tasks -> TaskRow] /\ OthersStand(t)
          /\ task'[t] = [task[t] EXCEPT !.pc = "prepare"]
      BY <1>2, <2>5, StepIs DEF Pcs, Starting
    <3>2. /\ task'[t].pc = "prepare" /\ task'[t].acct = a /\ task'[t].op = task[t].op
          /\ task'[t].undo = task[t].undo /\ task'[t].bad = task[t].bad
      BY <1>2, <3>1 DEF TaskRow
    <3>3. \A p \in Pids : Apart(p, a)' => Apart(p, a)
      BY <1>3, <2>5 DEF Apart, IsWorker, registry
    <3>4. WorkOK(t)'
      BY <1>1, <1>2, <3>2, <3>3 DEF WorkOK, Guarded
    <3>5. TaskOK(t)' /\ StartsOn(t)
      BY <1>8, <3>2, <3>4 DEF TaskOK, AtWork, Starting, StartsOn
    <3> QED BY <1>2, <1>3, <1>4, <1>5, <2>5, <3>1, <3>5, PaperMoves DEF ControlTypeOK
  <2> QED BY <1>6, <1>8, <2>3, <2>4, <2>5 DEF StartLocked
<1> QED BY <1>6, <1>7, <1>8 DEF CheckStart

\* The row of an account whose configuration is invalid is written after its stops, with
\* the lease or without.
LEMMA DegradeKeeps ==
    ASSUME ControlInv, NEW t \in Tasks, NEW a, a = task[t].acct, Degrade(t)
    PROVE  ControlInv'
<1>1. AtWork(task[t]) /\ task[t].pc = "confirm"
  BY DEF Degrade, AtWork, Stopping
<1>2. a \in Accounts /\ ControlTypeOK
  BY <1>1, AtWorkIs
<1>3. /\ UNCHANGED <<os, registry, host, shop, lost>> /\ Finish(t)
      /\ Observe(t, "running", "degraded", Survivor(t)) /\ halted' \subseteq Accounts
  BY <1>2, HeedsIs DEF Degrade
<1>4. /\ Survivor(t) \in Pids \cup {NoPid}
      /\ \A p \in Pids : Apart(p, a) => Survivor(t) = p
  BY <1>1, SurvivorIs
<1>5. /\ runtime' \in [Accounts -> RuntimeRow] /\ runtime'[a].pid = Survivor(t)
      /\ \A b \in Accounts \ {a} : runtime'[b] = runtime[b]
  BY <1>2, <1>3, <1>4, ObserveIs
<1> QED BY <1>2, <1>3, <1>4, <1>5, FinishMoves DEF ControlTypeOK

\* The record of a start that was undone.
LEMMA UndoneKeeps ==
    ASSUME ControlInv, NEW t \in Tasks, NEW a, a = task[t].acct, Undone(t)
    PROVE  ControlInv'
<1> DEFINE left == IF task[t].conf /\ task[t].op # "restore" THEN NoPid ELSE ProcessId(a)
<1>1. AtWork(task[t]) /\ task[t].pc = "confirm" /\ task[t].undo
  BY DEF Undone, AtWork, Stopping
<1>2. a \in Accounts /\ ControlTypeOK
  BY <1>1, AtWorkIs
<1>3. /\ UNCHANGED <<os, registry, host, shop, lost>> /\ Finish(t) /\ halted' \subseteq Accounts
      /\ \/ Observe(t, "running", "degraded", left)
         \/ Persist(a, "stopped", "degraded", left)
  BY <1>2, HeedsIs DEF Undone
<1>4. left \in Pids \cup {NoPid} /\ \A p \in Pids : ~Apart(p, a)
  BY <1>1, ProcessIdIs, SurvivorIs
<1> HIDE DEF left
<1>5. /\ runtime' \in [Accounts -> RuntimeRow]
      /\ \A b \in Accounts \ {a} : runtime'[b] = runtime[b]
  BY <1>2, <1>3, <1>4, PersistIs, ObserveIs
<1> QED BY <1>2, <1>3, <1>4, <1>5, FinishMoves DEF ControlTypeOK

\* The record of an account that a restoration stopped.
LEMMA RestoreStoppedKeeps ==
    ASSUME ControlInv, NEW t \in Tasks, NEW a, a = task[t].acct, RestoreStopped(t)
    PROVE  ControlInv'
<1>1. AtWork(task[t]) /\ task[t].pc = "confirm"
  BY DEF RestoreStopped, AtWork, Stopping
<1>2. a \in Accounts /\ ControlTypeOK
  BY <1>1, AtWorkIs
<1>3. /\ UNCHANGED <<os, registry, host, shop, lost>> /\ Finish(t) /\ halted' \subseteq Accounts
      /\ Persist(a, "stopped", IF task[t].conf THEN "stopped" ELSE "degraded", Survivor(t))
  BY <1>2, HeedsIs DEF RestoreStopped
<1>4. /\ Survivor(t) \in Pids \cup {NoPid}
      /\ \A p \in Pids : Apart(p, a) => Survivor(t) = p
  BY <1>1, SurvivorIs
<1>5. /\ runtime' \in [Accounts -> RuntimeRow] /\ runtime'[a].pid = Survivor(t)
      /\ \A b \in Accounts \ {a} : runtime'[b] = runtime[b]
  BY <1>2, <1>3, <1>4, PersistIs
<1> QED BY <1>2, <1>3, <1>4, <1>5, FinishMoves DEF ControlTypeOK

\* The record of a start, whether or not it still has its lease.
LEMMA RecordedKeeps ==
    ASSUME ControlInv, NEW t \in Tasks, NEW a, a = task[t].acct, task[t].pc = "started",
           Recorded(t), UNCHANGED <<os, registry, host, shop, lost>>, halted' \subseteq Accounts
    PROVE  ControlInv'
<1> DEFINE done == IF task[t].op = "restore"
                   THEN [Idle EXCEPT !.op = "restore", !.pc = "next", !.pass = task[t].pass,
                                     !.todo = task[t].todo, !.pending = task[t].pending]
                   ELSE Idle
           seen(s) == [task[s] EXCEPT !.row = @ /\ (task[s].acct # a \/ task[t].already),
                                      !.spoilt = @ \/ (~Owned(t) /\ task[s].acct = a)]
           r == [desired |-> "running", state |-> "running", mode |-> task[t].mode,
                 pid |-> ProcessId(a), auto |-> runtime[a].auto \/ task[t].op = "start"]
<1>1. AtWork(task[t])
  BY DEF AtWork, Starting
<1>2. /\ a \in Accounts /\ task[t] \in TaskRow /\ WorkOK(t) /\ ControlTypeOK
      /\ runtime[a] \in RuntimeRow
  BY <1>1, AtWorkIs
<1>3. \A p \in Pids : ~Apart(p, a)
  BY <1>2 DEF WorkOK, Guarded
<1>4. /\ runtime' = [runtime EXCEPT ![a] = r]
      /\ lease' = [lease EXCEPT ![a] = IF @ = t THEN NoTask ELSE @]
      /\ task' = [s \in Tasks |-> IF s = t THEN done ELSE seen(s)]
  BY <1>2 DEF Recorded, Released, ControlTypeOK
<1>5. r \in RuntimeRow
  BY <1>2, ProcessIdIs DEF RuntimeRow, TaskRow
<1>6. done \in TaskRow /\ AtEase(done)
  <2>1. /\ task[t].pass \in {1, 2} /\ task[t].todo \in SUBSET Accounts
        /\ task[t].pending \in SUBSET Accounts
    BY <1>2 DEF TaskRow
  <2>2. done \in TaskRow
    BY <2>1 DEF Idle, TaskRow, Pcs, Modes, NoPid
  <2> QED BY <2>2 DEF Idle, AtEase, AtWork, Starting, Stopping
<1> HIDE DEF done, r
<1>7. ASSUME NEW s \in Tasks
      PROVE  /\ seen(s) \in TaskRow
             /\ seen(s).pc = task[s].pc /\ seen(s).acct = task[s].acct /\ seen(s).op = task[s].op
             /\ seen(s).undo = task[s].undo /\ seen(s).bad = task[s].bad
             /\ seen(s).conf = task[s].conf /\ seen(s).durable = task[s].durable
             /\ seen(s).local = task[s].local
  <2> DEFINE known == task[s].row /\ (task[s].acct # a \/ task[t].already)
             marred == task[s].spoilt \/ (~Owned(t) /\ task[s].acct = a)
  <2>1. task[s] \in TaskRow
    BY <1>2 DEF ControlTypeOK
  <2>2. known \in BOOLEAN /\ marred \in BOOLEAN
    OBVIOUS
  <2>3. seen(s) = [task[s] EXCEPT !.row = known, !.spoilt = marred]
    BY <2>1 DEF TaskRow
  <2> HIDE DEF known, marred, seen
  <2>4. seen(s) \in TaskRow
    BY <2>1, <2>2, <2>3 DEF TaskRow
  <2> QED BY <2>1, <2>3, <2>4 DEF TaskRow
<1> HIDE DEF seen
<1>8. task' \in [Tasks -> TaskRow] /\ task'[t] = done /\ OthersStand(t)
  <2>1. task' \in [Tasks -> TaskRow] /\ task'[t] = done /\ \A s \in Tasks \ {t} : task'[s] = seen(s)
    <3> HIDE DEF TaskRow
    <3> QED BY <1>4, <1>6, <1>7
  <2> QED BY <1>7, <2>1 DEF OthersStand, SameWork
<1>9. TaskOK(t)' /\ StartsOn(t)
  BY <1>6, <1>8, EaseIsOK
<1>10. /\ runtime' \in [Accounts -> RuntimeRow]
       /\ \A b \in Accounts \ {a} : runtime'[b] = runtime[b]
  BY <1>2, <1>4, <1>5, RowWritten
<1> QED BY <1>2, <1>3, <1>4, <1>8, <1>9, <1>10, PaperMoves DEF ControlTypeOK

\* A start is recorded, or it is undone when its lease was lost.
LEMMA StartedKeeps ==
    ASSUME ControlInv, NEW t \in Tasks, NEW a, a = task[t].acct, Started(t)
    PROVE  ControlInv'
<1>1. AtWork(task[t]) /\ task[t].pc = "started"
  BY DEF Started, AtWork, Starting
<1>2. a \in Accounts /\ task[t] \in TaskRow /\ WorkOK(t) /\ ControlTypeOK
  BY <1>1, AtWorkIs
<1>3. UNCHANGED <<os, registry, host, shop, lost>> /\ halted' \subseteq Accounts
  BY <1>2, HeedsIs DEF Started
<1>4. CASE Recorded(t)
  BY <1>1, <1>3, <1>4, RecordedKeeps
<1>5. CASE /\ task' = [task EXCEPT ![t].pc = "stop", ![t].undo = TRUE]
           /\ UNCHANGED <<runtime, lease>>
  <2> DEFINE k == [task[t] EXCEPT !.pc = "stop", !.undo = TRUE]
  <2>1. k \in TaskRow /\ k.pc = "stop" /\ k.op = task[t].op /\ k.acct = a /\ k.bad = task[t].bad
    BY <1>2 DEF TaskRow, Pcs
  <2>2. task' = [task EXCEPT ![t] = k]
    BY <1>5
  <2> HIDE DEF k
  <2>3. task' \in [Tasks -> TaskRow] /\ task'[t] = k /\ OthersStand(t)
    BY <1>2, <2>1, <2>2, NewTask DEF ControlTypeOK
  <2>4. \A p \in Pids : ~Apart(p, a)
    BY <1>1, <1>2 DEF WorkOK, Guarded
  <2>5. \A p \in Pids : ~Apart(p, a)'
    BY <1>3, <2>4 DEF registry, Apart, IsWorker
  <2>6. WorkOK(t)'
    BY <1>1, <1>2, <2>1, <2>3, <2>5 DEF WorkOK, Starting
  <2>7. TaskOK(t)' /\ StartsOn(t)
    BY <2>1, <2>3, <2>6 DEF TaskOK, AtWork, Starting, StartsOn
  <2> QED BY <1>2, <1>3, <1>5, <2>3, <2>4, <2>7, PaperMoves DEF ControlTypeOK
<1> QED BY <1>4, <1>5 DEF Started

\* A start that goes on, with no worker apart.
LEMMA StartGoesOn ==
    ASSUME ControlInv, NEW t \in Tasks, NEW a, a = task[t].acct, task[t].pc \in Starting,
           task'[t].pc \in {"spawn", "retry", "restart", "launch", "respawn", "started"},
           task'[t].acct = a, task'[t].op = task[t].op,
           task'[t].undo = task[t].undo, task'[t].bad = task[t].bad
    PROVE  /\ (\A p \in Pids : ~Apart(p, a)') => TaskOK(t)'
           /\ StartsOn(t) /\ task'[t].pc \in Starting
<1>1. AtWork(task[t])
  BY DEF AtWork
<1>2. WorkOK(t) /\ a \in Accounts
  BY <1>1, AtWorkIs
<1>3. (\A p \in Pids : ~Apart(p, a)') => WorkOK(t)'
  BY <1>2 DEF WorkOK
<1> QED BY <1>2, <1>3 DEF TaskOK, AtWork, Starting, StartsOn

\* The first look of bot_manager.start at the registry.
LEMMA BotStartKeeps ==
    ASSUME ControlInv, NEW t \in Tasks, NEW a, a = task[t].acct, BotStart(t)
    PROVE  ControlInv'
<1>1. AtWork(task[t]) /\ task[t].pc = "spawn" /\ task[t].pc \in Starting
  BY DEF BotStart, AtWork, Starting
<1>2. /\ a \in Accounts /\ task[t] \in TaskRow
      /\ WorkOK(t) /\ AccountOK(a) /\ ControlTypeOK
      /\ NoPid \notin Pids /\ reg[a] \in Pids \cup {NoPid, Gone}
  BY <1>1, AtWorkIs
<1>3. /\ task[t].op \in {"start", "auto", "restore"}
      /\ \A p \in Pids : ~Apart(p, a)
  BY <1>1, <1>2 DEF WorkOK, Guarded
<1>4. UNCHANGED <<shop, os, host, lost>> /\ halted' \subseteq Accounts
  BY <1>2, HeedsIs DEF BotStart
<1>6. CASE Finish(t) /\ UNCHANGED <<runtime, registry>>
  BY <1>2, <1>3, <1>4, <1>6, FinishMoves DEF ControlTypeOK
<1>7. CASE StartFailed(t) /\ UNCHANGED registry
  <2>1. \A p \in Pids : ~Apart(p, a)'
    BY <1>3, <1>4, <1>7 DEF registry, Apart, IsWorker
  <2> QED
    BY <1>1, <1>2, <1>3, <1>4, <1>7, <2>1, StartFailedIs, PaperMoves DEF ControlTypeOK
<1>8. ASSUME NEW k \in TaskRow, task' = [task EXCEPT ![t] = k], k.acct = a,
             k.pc \in {"started", "retry", "launch"},
             k.op = task[t].op, k.undo = task[t].undo, k.bad = task[t].bad,
             UNCHANGED <<lease, runtime, registry>>
      PROVE  ControlInv'
  <2>1. task' \in [Tasks -> TaskRow] /\ task'[t] = k /\ OthersStand(t)
    BY <1>2, <1>8, NewTask DEF ControlTypeOK
  <2>2. \A p \in Pids : ~Apart(p, a)'
    BY <1>3, <1>4, <1>8 DEF registry, Apart, IsWorker
  <2>3. TaskOK(t)' /\ StartsOn(t)
    BY <1>1, <1>8, <2>1, <2>2, StartGoesOn
  <2> QED
    BY <1>2, <1>3, <1>4, <1>8, <2>1, <2>3, PaperMoves DEF ControlTypeOK
<1>9. CASE /\ task' = [task EXCEPT ![t].pc = "started", ![t].already = TRUE]
           /\ UNCHANGED <<lease, runtime, registry>>
  <2> DEFINE k == [task[t] EXCEPT !.pc = "started", !.already = TRUE]
  <2>1. /\ k \in TaskRow /\ k.pc = "started" /\ k.acct = a /\ k.op = task[t].op
        /\ k.undo = task[t].undo /\ k.bad = task[t].bad
    BY <1>2 DEF TaskRow, Pcs, Starting
  <2>2. task' = [task EXCEPT ![t] = k]
    BY <1>9
  <2> HIDE DEF k
  <2> QED BY <1>8, <1>9, <2>1, <2>2
<1>10. CASE /\ task' = [task EXCEPT ![t].pc = "retry", ![t].fresh = TRUE]
            /\ UNCHANGED <<lease, runtime, registry>>
  <2> DEFINE k == [task[t] EXCEPT !.pc = "retry", !.fresh = TRUE]
  <2>1. /\ k \in TaskRow /\ k.pc = "retry" /\ k.acct = a /\ k.op = task[t].op
        /\ k.undo = task[t].undo /\ k.bad = task[t].bad
    BY <1>2 DEF TaskRow, Pcs, Starting
  <2>2. task' = [task EXCEPT ![t] = k]
    BY <1>10
  <2> HIDE DEF k
  <2> QED BY <1>8, <1>10, <2>1, <2>2
<1>11. CASE Step(t, "launch") /\ UNCHANGED <<lease, runtime, registry>>
  <2> DEFINE k == [task[t] EXCEPT !.pc = "launch"]
  <2>1. /\ k \in TaskRow /\ k.pc = "launch" /\ k.acct = a /\ k.op = task[t].op
        /\ k.undo = task[t].undo /\ k.bad = task[t].bad
    BY <1>2 DEF TaskRow, Pcs, Starting
  <2>2. task' = [task EXCEPT ![t] = k]
    BY <1>11 DEF Step
  <2> HIDE DEF k
  <2> QED BY <1>8, <1>11, <2>1, <2>2
<1>12. CASE /\ trans[a] = NoTrans /\ reg[a] \in Pids
            /\ resv' = [resv EXCEPT ![a] = t]
            /\ trans' = [trans EXCEPT ![a] = [pid |-> reg[a], terminating |-> TRUE]]
            /\ reg' = [reg EXCEPT ![a] = NoPid]
            /\ task' = [Bumped(a) EXCEPT ![t].pc = "restart"]
            /\ UNCHANGED <<lease, runtime>>
  <2> DEFINE k == [Bumped(a)[t] EXCEPT !.pc = "restart"]
  <2>1. Bumped(a)[t] = task[t]
    BY <1>1 DEF Bumped
  <2>2. /\ k \in TaskRow /\ k.pc = "restart" /\ k.acct = a /\ k.op = task[t].op
        /\ k.undo = task[t].undo /\ k.bad = task[t].bad
    BY <1>2, <2>1 DEF TaskRow, Pcs, Starting
  <2>3. task' = [Bumped(a) EXCEPT ![t] = k]
    BY <1>12
  <2> HIDE DEF k
  <2>4. task' \in [Tasks -> TaskRow] /\ task'[t] = k /\ OthersStand(t)
    BY <1>2, <2>2, <2>3, BumpedTask DEF ControlTypeOK
  <2>5. /\ reg'[a] = NoPid /\ trans'[a] = [pid |-> reg[a], terminating |-> TRUE]
        /\ RowsTyped /\ Beside(a)
    BY <1>2, <1>4, <1>12
    DEF RowsTyped, Beside, ControlTypeOK, Handles, Claims, TransRow, Tasks
  <2>6. Ended({}, {})
    BY <1>2, <1>4, NothingEnded
  <2>7. Kept(a, {})
    BY <1>2, <1>12, <2>5 DEF Kept, NoTrans
  <2>8. \A p \in Pids : ~Apart(p, a)'
    BY <1>2, <1>3, <2>6, <2>7, ApartStays
  <2>9. HandlesOK(a)'
    BY <1>2, <1>4, <1>12, <2>5 DEF AccountOK, HandlesOK, IsWorker
  <2>10. TaskOK(t)' /\ StartsOn(t)
    BY <1>1, <2>2, <2>4, <2>8, StartGoesOn
  <2> QED
    BY <1>2, <1>4, <1>12, <2>4, <2>5, <2>6, <2>7, <2>8, <2>9, <2>10, Moves
    DEF Kept
<1> QED BY <1>6, <1>7, <1>9, <1>10, <1>11, <1>12 DEF BotStart

\* A thread that waits for a process to end in the middle of a start.
LEMMA StartWaits ==
    ASSUME ControlInv, NEW t \in Tasks, NEW a, a = task[t].acct, NEW ok \in BOOLEAN,
           task[t].pc \in {"retry", "restart"}, HandleEnds(a, ok),
           UNCHANGED <<shop, host>>, halted' \subseteq Accounts, resv' \in Claims,
           \A b \in Accounts \ {a} : resv'[b] = resv[b],
           NEW pc \in {"launch", "respawn"},
           \/ Step(t, pc) /\ UNCHANGED <<lease, runtime>>
           \/ StartFailed(t)
    PROVE  ControlInv'
<1>1. AtWork(task[t]) /\ task[t].pc \in Starting
  BY DEF AtWork, Starting
<1>2. a \in Accounts /\ task[t] \in TaskRow /\ WorkOK(t) /\ ControlTypeOK
  BY <1>1, AtWorkIs
<1>3. /\ task[t].op \in {"start", "auto", "restore"}
      /\ \A p \in Pids : ~Apart(p, a)
  BY <1>1, <1>2 DEF WorkOK, Guarded
<1>4. CASE Step(t, pc) /\ UNCHANGED <<lease, runtime>>
  <2>1. /\ task' \in [Tasks -> TaskRow] /\ OthersStand(t)
        /\ task'[t] = [task[t] EXCEPT !.pc = pc]
    BY <1>2, <1>4, StepIs DEF Pcs, Starting
  <2>2. /\ task'[t].pc = pc /\ task'[t].acct = a /\ task'[t].op = task[t].op
        /\ task'[t].undo = task[t].undo /\ task'[t].bad = task[t].bad
    BY <1>2, <2>1 DEF TaskRow
  <2>3. ((\A p \in Pids : ~Apart(p, a)') => TaskOK(t)') /\ StartsOn(t)
    BY <1>1, <2>2, StartGoesOn
  <2> QED BY <1>2, <1>3, <1>4, <2>1, <2>3, HandleEndMoves DEF ControlTypeOK
<1>5. CASE StartFailed(t)
  <2>1. /\ task' \in [Tasks -> TaskRow] /\ OthersStand(t) /\ StartsOn(t)
        /\ lease' = lease \/ lease' = [lease EXCEPT ![a] = IF @ = t THEN NoTask ELSE @]
        /\ runtime' \in [Accounts -> RuntimeRow]
        /\ \A b \in Accounts \ {a} : runtime'[b] = runtime[b]
        /\ (\A p \in Pids : ~Apart(p, a)') => TaskOK(t)'
    BY <1>1, <1>3, <1>5, StartFailedIs
  <2> QED BY <1>2, <1>3, <2>1, HandleEndMoves
<1> QED BY <1>4, <1>5

\* start tries an unconfirmed stop again.
LEMMA RetryEndKeeps ==
    ASSUME ControlInv, NEW t \in Tasks, NEW a, a = task[t].acct, NEW ok \in BOOLEAN,
           RetryEnd(t, ok)
    PROVE  ControlInv'
<1>1. HandleEnds(a, ok) /\ UNCHANGED <<shop, host, resv>> /\ task[t].pc = "retry"
  BY DEF RetryEnd, HandleEnds
<1>2. resv' \in Claims /\ halted' \subseteq Accounts
  BY <1>1, HeedsIs DEF RetryEnd, ControlInv, ControlTypeOK
<1>3. \/ Step(t, "launch") /\ UNCHANGED <<lease, runtime>>
      \/ StartFailed(t)
  BY DEF RetryEnd
<1> QED BY <1>1, <1>2, <1>3, StartWaits

\* start ends the worker of the other mode.
LEMMA RestartEndKeeps ==
    ASSUME ControlInv, NEW t \in Tasks, NEW a, a = task[t].acct, NEW ok \in BOOLEAN,
           RestartEnd(t, ok)
    PROVE  ControlInv'
<1>1. HandleEnds(a, ok) /\ UNCHANGED <<shop, host>> /\ task[t].pc = "restart"
  BY DEF RestartEnd, HandleEnds
<1>2. /\ resv' \in Claims /\ \A b \in Accounts \ {a} : resv'[b] = resv[b]
      /\ halted' \subseteq Accounts
  BY HeedsIs DEF RestartEnd, ControlInv, ControlTypeOK, Claims
<1>3. \/ Step(t, "respawn") /\ UNCHANGED <<lease, runtime>>
      \/ StartFailed(t)
  BY DEF RestartEnd
<1> QED BY <1>1, <1>2, <1>3, StartWaits

\* A worker is spawned only where the registry has none and no worker stands apart.
LEMMA SpawnKeeps ==
    ASSUME ControlInv, NEW t \in Tasks, NEW a, a = task[t].acct, Spawn(t)
    PROVE  ControlInv'
<1>1. AtWork(task[t]) /\ task[t].pc \in {"launch", "respawn"} /\ task[t].pc \in Starting
  BY DEF Spawn, AtWork, Starting
<1>2. /\ a \in Accounts /\ task[t] \in TaskRow
      /\ WorkOK(t) /\ AccountOK(a) /\ ControlTypeOK
      /\ NoPid \notin Pids /\ NoTask \notin Tasks
  BY <1>1, AtWorkIs
<1>3. /\ task[t].op \in {"start", "auto", "restore"}
      /\ \A p \in Pids : ~Apart(p, a)
  BY <1>1, <1>2 DEF WorkOK, Guarded
<1>4. /\ UNCHANGED <<shop, trans, marker, entered, up, lost>> /\ halted' \subseteq Accounts
      /\ resv' \in Claims /\ resv'[a] \in {resv[a], NoTask}
      /\ \A b \in Accounts \ {a} : resv'[b] = resv[b]
  BY <1>2, HeedsIs DEF Spawn, ControlTypeOK, Claims
<1>5. UNCHANGED drained => UNCHANGED host
  BY <1>4 DEF host
<1>6. CASE StartFailed(t) /\ UNCHANGED <<os, reg, drained>>
  <2>1. \A p \in Pids : ~Apart(p, a)'
    BY <1>3, <1>4, <1>6 DEF Apart, IsWorker
  <2>2. /\ task' \in [Tasks -> TaskRow] /\ OthersStand(t) /\ StartsOn(t)
        /\ lease' = lease \/ lease' = [lease EXCEPT ![a] = IF @ = t THEN NoTask ELSE @]
        /\ runtime' \in [Accounts -> RuntimeRow]
        /\ \A b \in Accounts \ {a} : runtime'[b] = runtime[b]
        /\ TaskOK(t)'
    BY <1>1, <1>3, <1>4, <1>6, <2>1, StartFailedIs
  <2> QED
    BY <1>2, <1>3, <1>4, <1>5, <1>6, <2>2, ClaimMoves DEF ControlTypeOK
<1>7. CASE /\ PersistRestore(t, "running", "capacity_limited", NoPid) /\ Finish(t)
           /\ UNCHANGED <<os, reg, drained>>
  <2>1. /\ runtime' \in [Accounts -> RuntimeRow]
        /\ \A b \in Accounts \ {a} : runtime'[b] = runtime[b]
    <3>1. CASE task[t].row
      BY <1>2, <1>7, <3>1, ObserveIs DEF PersistRestore
    <3>2. CASE ~task[t].row
      BY <1>2, <1>7, <3>2 DEF PersistRestore, ControlTypeOK
    <3> QED BY <3>1, <3>2
  <2>2. /\ task' \in [Tasks -> TaskRow] /\ OthersStand(t) /\ StartsOn(t)
        /\ lease' = [lease EXCEPT ![a] = IF @ = t THEN NoTask ELSE @] /\ TaskOK(t)'
    BY <1>2, <1>7, FinishIs, EaseIsOK DEF Released
  <2> QED
    BY <1>2, <1>3, <1>4, <1>5, <1>7, <2>1, <2>2, ClaimMoves DEF ControlTypeOK
<1>8. ASSUME trans[a] = NoTrans, reg[a] \notin Pids, NEW p \in Pids, os[p] = Free,
             os' = [os EXCEPT ![p] = [kind |-> "worker", account |-> a, mode |-> task[t].mode]],
             reg' = [reg EXCEPT ![a] = p],
             task' = [Bumped(a) EXCEPT ![t] = [task[t] EXCEPT !.pc = "started", !.already = FALSE]],
             drained' = (drained /\ (Owned(t) \/ task[t].op # "restore")),
             UNCHANGED <<lease, runtime>>
      PROVE  ControlInv'
  <2> DEFINE k == [task[t] EXCEPT !.pc = "started", !.already = FALSE]
             r == [kind |-> "worker", account |-> a, mode |-> task[t].mode]
  <2>1. /\ k \in TaskRow /\ k.pc = "started" /\ k.acct = a /\ k.op = task[t].op
        /\ k.undo = task[t].undo /\ k.bad = task[t].bad
    BY <1>2 DEF TaskRow, Pcs, Starting
  <2>2. r \in OsRow /\ r.kind = "worker" /\ r.account = a
    BY <1>2 DEF TaskRow, OsRow
  <2>3. task' = [Bumped(a) EXCEPT ![t] = k] /\ os' = [os EXCEPT ![p] = r]
    BY <1>8
  <2> HIDE DEF k, r
  <2>4. task' \in [Tasks -> TaskRow] /\ task'[t] = k /\ OthersStand(t)
    BY <1>2, <2>1, <2>3, BumpedTask DEF ControlTypeOK
  <2>5. /\ os' \in [Pids -> OsRow] /\ os'[p] = r /\ \A q \in Pids \ {p} : os'[q] = os[q]
        /\ reg' \in Handles /\ reg'[a] = p /\ \A b \in Accounts \ {a} : reg'[b] = reg[b]
    BY <1>2, <1>8, <2>2, <2>3 DEF ControlTypeOK, Handles
  <2>6. /\ ~IsWorker(p, a) /\ p \notin Workers
        /\ \A b : ~IsWorker(p, b)
    BY <1>8 DEF IsWorker, Workers, Free
  <2>7. /\ IsWorker(p, a)'
        /\ \A q \in Pids \ {p} : \A b : IsWorker(q, b)' <=> IsWorker(q, b)
        /\ \A b : b # a => ~IsWorker(p, b)'
        /\ Workers' = Workers \cup {p}
    BY <2>2, <2>5 DEF IsWorker, Workers
  <2>8. \A q \in Pids : ~Apart(q, a)'
    BY <1>3, <1>4, <1>8, <2>5, <2>7 DEF Apart
  <2>9. HandlesOK(a)'
    BY <1>2, <1>4, <1>8, <2>5, <2>7 DEF HandlesOK, NoTrans
  <2>10. AccountOK(a)'
    BY <2>8, <2>9 DEF AccountOK
  <2>11. TaskOK(t)'
    BY <1>1, <2>1, <2>4, <2>8, StartGoesOn
  <2>12. Elsewhere(a)
    <3> SUFFICES ASSUME NEW b \in Accounts \ {a} PROVE SameRow(b)
      BY DEF Elsewhere
    <3>1. \A q \in Pids : IsWorker(q, b)' <=> IsWorker(q, b)
      BY <2>6, <2>7
    <3> QED BY <1>4, <1>8, <2>5, <3>1 DEF SameRow
  <2>13. Here(t, a)
    BY <1>3, <1>4, <1>8, <2>8 DEF Here
  <2>14. ControlTypeOK'
    BY <1>2, <1>4, <1>8, <2>4, <2>5, <2>7 DEF ControlTypeOK
  <2>15. DrainOK'
    <3>1. drained => task[t].op = "restore" /\ lease[a] # t
      BY <1>1 DEF ControlInv, DrainOK
    <3>2. ~drained'
      BY <1>8, <3>1 DEF Owned
    <3> QED BY <3>2 DEF DrainOK
  <2>16. StepIsGood(t, a)
    BY <2>4, <2>10, <2>11, <2>12, <2>13 DEF StepIsGood
  <2> QED BY <2>14, <2>15, <2>16, GoodSteps
<1> QED BY <1>6, <1>7, <1>8 DEF Spawn

-----------------------------------------------------------------------------
(* Adoption.                                                               *)

\* After an adoption no worker of the account stands apart.
LEMMA AdoptedLeaves ==
    ASSUME ControlInv, NEW a \in Accounts, NEW d \in Pids, IsWorker(d, a),
           \A p \in Pids : Apart(p, a) => p = d, Adopted(a, d), UNCHANGED <<os, trans>>
    PROVE  \A p \in Pids : ~Apart(p, a)'
<1> SUFFICES ASSUME NEW p \in Pids, Apart(p, a)' PROVE FALSE
  OBVIOUS
<1>1. AccountOK(a) /\ ControlTypeOK
  BY DEF ControlInv
<1>2. CASE a \in Managed
  <2>1. Apart(p, a)
    BY <1>2 DEF Adopted, Apart, IsWorker
  <2> QED BY <1>1, <1>2, <2>1 DEF AccountOK
<1>3. CASE a \notin Managed
  <2>1. reg'[a] = d /\ lost' = lost \ {d} /\ reg[a] \notin Pids
    BY <1>1, <1>3 DEF Adopted, ControlTypeOK, Handles, Managed
  <2>2. p # d /\ Apart(p, a)
    BY <2>1 DEF Apart, IsWorker
  <2> QED BY <2>2
<1> QED BY <1>2, <1>3

\* The frame of the steps that adopt the recorded worker.
LEMMA AdoptMoves ==
    ASSUME ControlInv, NEW t \in Tasks, NEW a \in Accounts, NEW d \in Pids,
           IsWorker(d, a), \A p \in Pids : Apart(p, a) => p = d, Adopted(a, d),
           UNCHANGED <<os, trans, resv, host, shop>>, halted' \subseteq Accounts,
           runtime' \in [Accounts -> RuntimeRow],
           \A b \in Accounts \ {a} : runtime'[b] = runtime[b],
           task' \in [Tasks -> TaskRow], OthersStand(t),
           (\A p \in Pids : ~Apart(p, a)') => TaskOK(t)',
           lease' = lease \/ lease' = [lease EXCEPT ![a] = IF @ = t THEN NoTask ELSE @],
           StartsOn(t)
    PROVE  ControlInv'
<1>1. ControlTypeOK /\ AccountOK(a) /\ HandlesOK(a) /\ NoTask \notin Tasks /\ NoPid \notin Pids
  BY WorkerAssumption DEF ControlInv, Tasks, NoTask, NoPid, AccountOK
<1>2. \A p \in Pids : ~Apart(p, a)'
  BY AdoptedLeaves
<1>3. /\ reg' \in Handles /\ \A b \in Accounts \ {a} : reg'[b] = reg[b]
      /\ lost' \in {lost, lost \ {d}}
      /\ a \in Managed => reg'[a] = reg[a]
      /\ a \notin Managed => reg'[a] = d
  BY <1>1 DEF Adopted, ControlTypeOK, Handles
<1>4. /\ \A p \in Pids : \A b : IsWorker(p, b)' <=> IsWorker(p, b)
      /\ Workers' = Workers
  BY DEF IsWorker, Workers
<1>5. HandlesOK(a)'
  <2>1. CASE a \in Managed
    BY <1>1, <1>3, <2>1 DEF HandlesOK, IsWorker
  <2>2. CASE a \notin Managed
    <3>1. trans[a] = NoTrans
      BY <2>2 DEF Managed
    <3> QED BY <1>1, <1>3, <2>2, <3>1 DEF HandlesOK, IsWorker, NoTrans
  <2> QED BY <2>1, <2>2
<1>6. AccountOK(a)'
  BY <1>2, <1>5 DEF AccountOK
<1>7. /\ lease' \in Leases
      /\ \A b \in Accounts \ {a} : lease'[b] = lease[b]
      /\ lease'[a] = lease[a] \/ (lease[a] = t /\ lease'[a] = NoTask)
  BY <1>1 DEF ControlTypeOK, Leases
<1>8. Elsewhere(a)
  <2> SUFFICES ASSUME NEW b \in Accounts \ {a} PROVE SameRow(b)
    BY DEF Elsewhere
  <2>1. ~IsWorker(d, b)
    BY DEF IsWorker
  <2> QED BY <1>3, <1>4, <1>7, <2>1 DEF SameRow
<1>9. Here(t, a)
  <2>1. \A s \in Tasks \ {t} : /\ lease'[a] = s => lease[a] = s
                               /\ lease[a] = s => lease'[a] = s
    BY <1>1, <1>7
  <2> QED BY <1>2, <1>3, <2>1 DEF Here
<1>10. ControlTypeOK'
  BY <1>1, <1>3, <1>4, <1>7 DEF ControlTypeOK, host
<1>11. DrainOK'
  <2>1. \A b \in Accounts, s \in Tasks : lease'[b] = s => lease[b] = s
    BY <1>1, <1>7
  <2> QED BY <1>4, <2>1, DrainRests DEF host
<1>12. StepIsGood(t, a)
  BY <1>2, <1>6, <1>8, <1>9 DEF StepIsGood
<1> QED BY <1>10, <1>11, <1>12, GoodSteps

\* The process that a row named has been ended, or there was none; or it lives on.
RecordedEnds(a, d, ok) ==
    IF d = NoPid THEN ok /\ UNCHANGED <<os, lost, reg, trans>> ELSE TerminatePid(d, a, ok)

\* The frame of the steps that end the recorded worker, or keep it recorded.
LEMMA RecordedMoves ==
    ASSUME ControlInv, NEW t \in Tasks, NEW a \in Accounts, NEW ok \in BOOLEAN,
           NEW d \in Pids \cup {NoPid}, \A p \in Pids : Apart(p, a) => d = p,
           RecordedEnds(a, d, ok), UNCHANGED <<resv, host, shop>>, halted' \subseteq Accounts,
           runtime' \in [Accounts -> RuntimeRow],
           \A b \in Accounts \ {a} : runtime'[b] = runtime[b],
           ok \/ \A p \in Pids : Apart(p, a) => runtime'[a].pid = p,
           task' \in [Tasks -> TaskRow], OthersStand(t),
           (ok => \A p \in Pids : ~Apart(p, a)') => TaskOK(t)',
           lease' = lease \/ lease' = [lease EXCEPT ![a] = IF @ = t THEN NoTask ELSE @],
           StartsOn(t)
    PROVE  ControlInv'
<1>1. ControlTypeOK /\ NoPid \notin Pids
  BY WorkerAssumption DEF ControlInv, NoPid
<1>2. shop' \in [Accounts -> ShopRow]
  BY <1>1, Zenon DEF ControlTypeOK
<1>3. CASE d = NoPid
  <2>1. UNCHANGED <<os, lost, reg, trans, registry>> /\ ok
    BY <1>3 DEF RecordedEnds, registry
  <2>2. \A p \in Pids : ~Apart(p, a)
    BY <1>1, <1>3
  <2>3. \A p \in Pids : ~Apart(p, a)'
    BY <2>1, <2>2 DEF Apart, IsWorker
  <2> QED BY <1>2, <2>1, <2>2, <2>3, PaperMoves
<1>4. CASE d # NoPid
  <2>1. d \in Pids /\ TerminatePid(d, a, ok)
    BY <1>4 DEF RecordedEnds
  <2>2. \A q \in Pids : Apart(q, a) /\ ~(ok /\ q = d) => runtime'[a].pid = q
    OBVIOUS
  <2>3. \A q \in Pids : Apart(q, a)' => Apart(q, a) /\ ~(ok /\ q = d)
    BY <2>1, TerminatePidLeaves
  <2>4. ok => \A q \in Pids : ~Apart(q, a)'
    BY <2>3
  <2> QED BY <1>2, <2>1, <2>2, <2>4, TerminatePidMoves
<1> QED BY <1>3, <1>4

\* A step towards the process goes on where no worker stands apart.
LEMMA SpawnFollows ==
    ASSUME ControlInv, NEW t \in Tasks, NEW a, a = task[t].acct, task[t].pc \in Starting,
           Step(t, "spawn")
    PROVE  /\ task' \in [Tasks -> TaskRow] /\ OthersStand(t) /\ StartsOn(t)
           /\ (\A p \in Pids : ~Apart(p, a)') => TaskOK(t)'
<1>1. task[t] \in TaskRow /\ ControlTypeOK
  BY DEF ControlInv, ControlTypeOK
<1>2. /\ task' \in [Tasks -> TaskRow] /\ OthersStand(t)
      /\ task'[t] = [task[t] EXCEPT !.pc = "spawn"]
  BY <1>1, StepIs DEF Pcs, Starting
<1>3. /\ task'[t].pc = "spawn" /\ task'[t].acct = a /\ task'[t].op = task[t].op
      /\ task'[t].undo = task[t].undo /\ task'[t].bad = task[t].bad
  BY <1>1, <1>2 DEF TaskRow
<1> QED BY <1>2, <1>3, StartGoesOn

\* Before a start the recorded process is adopted, or it is found that it must be ended.
LEMMA PrepareKeeps ==
    ASSUME ControlInv, NEW t \in Tasks, NEW a, a = task[t].acct, Prepare(t)
    PROVE  ControlInv'
<1> DEFINE d == runtime[a].pid
           id == IF d = NoPid THEN "pid_dead" ELSE Identity(d, a)
<1>1. AtWork(task[t]) /\ task[t].pc = "prepare" /\ task[t].pc \in Starting
  BY Zenon DEF Prepare, AtWork, Starting
<1>2. /\ a \in Accounts /\ task[t] \in TaskRow
      /\ WorkOK(t) /\ AccountOK(a) /\ ControlTypeOK
      /\ runtime[a] \in RuntimeRow /\ NoPid \notin Pids
  BY <1>1, AtWorkIs
<1>3. task[t].op \in {"start", "auto"}
  BY <1>1, <1>2 DEF WorkOK
<1>4. /\ UNCHANGED <<shop, os, trans, resv, host>> /\ halted' \subseteq Accounts
      /\ d \in Pids \cup {NoPid}
  <2>1. UNCHANGED <<shop, os, trans, resv, host>> /\ Heeds(t)
    BY Zenon DEF Prepare
  <2> QED BY <1>2, <2>1, HeedsIs DEF RuntimeRow
<1>5. \A p \in Pids : Apart(p, a) =>
         d = p /\ a \notin Managed /\ IsWorker(d, a) /\ ProcessId(a) = NoPid
  <2>1. ASSUME a \notin Managed PROVE ProcessId(a) = NoPid
    <3>1. reg[a] \notin Pids /\ trans[a].pid \notin Pids
      BY <1>2, <2>1 DEF Managed, NoTrans
    <3> QED BY <3>1 DEF ProcessId
  <2>2. \A p \in Pids : Apart(p, a) => d = p /\ a \notin Managed /\ IsWorker(d, a)
    BY <1>2 DEF AccountOK, Apart
  <2> QED BY <2>1, <2>2
<1>6. CASE Raised(t) /\ UNCHANGED reg
  <2>1. UNCHANGED registry
    BY <1>4, <1>6 DEF registry
  <2> QED BY <1>1, <1>3, <1>4, <1>6, <2>1, RaisedMoves
<1>7. CASE /\ d = NoPid \/ d = ProcessId(a) \/ id = "pid_dead"
           /\ Step(t, "spawn") /\ UNCHANGED <<lease, runtime, reg, lost>>
  <2>1. id = "pid_dead" => ~IsWorker(d, a) \/ d = NoPid
    BY DEF Identity, IsWorker
  <2>2. \A p \in Pids : ~Apart(p, a)
    BY <1>2, <1>5, <1>7, <2>1
  <2>3. (\A p \in Pids : ~Apart(p, a)') /\ UNCHANGED registry
    BY <1>4, <1>7, <2>2 DEF Apart, IsWorker, registry
  <2>4. /\ task' \in [Tasks -> TaskRow] /\ OthersStand(t) /\ StartsOn(t) /\ TaskOK(t)'
    BY <1>1, <1>7, <2>3, SpawnFollows
  <2> QED BY <1>2, <1>4, <1>7, <2>2, <2>3, <2>4, PaperMoves DEF ControlTypeOK
<1>8. CASE /\ id = "worker" /\ Adopted(a, d)
           /\ task' = [Bumped(a) EXCEPT ![t].pc = "spawn"]
           /\ UNCHANGED <<lease, runtime>>
  <2> DEFINE k == [Bumped(a)[t] EXCEPT !.pc = "spawn"]
  <2>1. Bumped(a)[t] = task[t]
    BY <1>1 DEF Bumped
  <2>2. /\ k \in TaskRow /\ k.pc = "spawn" /\ k.acct = a /\ k.op = task[t].op
        /\ k.undo = task[t].undo /\ k.bad = task[t].bad
    BY <1>2, <2>1 DEF TaskRow, Pcs, Starting
  <2>3. task' = [Bumped(a) EXCEPT ![t] = k]
    BY <1>8
  <2> HIDE DEF k
  <2>4. task' \in [Tasks -> TaskRow] /\ task'[t] = k /\ OthersStand(t)
    BY <1>2, <2>2, <2>3, BumpedTask DEF ControlTypeOK
  <2>5. ((\A p \in Pids : ~Apart(p, a)') => TaskOK(t)') /\ StartsOn(t)
    BY <1>1, <2>2, <2>4, StartGoesOn
  <2>6. d \in Pids /\ IsWorker(d, a)
    BY <1>4, <1>8 DEF Identity, IsWorker
  <2>7. \A p \in Pids : Apart(p, a) => p = d
    BY <1>5
  <2> QED
    BY <1>2, <1>4, <1>8, <2>4, <2>5, <2>6, <2>7, AdoptMoves DEF ControlTypeOK
<1>9. CASE /\ d # NoPid
           /\ task' = [task EXCEPT ![t].pc = "replace", ![t].durable = d]
           /\ UNCHANGED <<lease, runtime, reg, lost>>
  <2> DEFINE k == [task[t] EXCEPT !.pc = "replace", !.durable = d]
  <2>1. task' = [task EXCEPT ![t] = k] /\ d \in Pids
    BY <1>4, <1>9
  <2>2. /\ k \in TaskRow /\ k.pc = "replace" /\ k.acct = a /\ k.op = task[t].op
        /\ k.undo = task[t].undo /\ k.bad = task[t].bad /\ k.durable = d
    <3> HIDE DEF d
    <3> QED BY <1>2, <2>1 DEF TaskRow, Pcs, Starting
  <2> HIDE DEF k
  <2>3. task' \in [Tasks -> TaskRow] /\ task'[t] = k /\ OthersStand(t)
    BY <1>2, <2>1, <2>2, NewTask DEF ControlTypeOK
  <2>4. (\A p \in Pids : Apart(p, a)' => Apart(p, a)) /\ UNCHANGED registry
    BY <1>4, <1>9 DEF Apart, IsWorker, registry
  <2>5. \A p \in Pids : Apart(p, a)' => Guarded(k, p)
    BY <1>1, <1>2, <1>5, <2>2, <2>4 DEF WorkOK, Guarded
  <2>6. WorkOK(t)'
    BY <1>2, <1>3, <2>1, <2>2, <2>3, <2>5 DEF WorkOK
  <2>7. TaskOK(t)' /\ StartsOn(t)
    BY <1>1, <2>2, <2>3, <2>6 DEF TaskOK, AtWork, Starting, StartsOn
  <2> QED BY <1>2, <1>4, <1>5, <1>9, <2>3, <2>4, <2>7, PaperMoves DEF ControlTypeOK
<1>10. \/ Raised(t) /\ UNCHANGED reg
       \/ /\ d = NoPid \/ d = ProcessId(a) \/ id = "pid_dead"
          /\ Step(t, "spawn") /\ UNCHANGED <<lease, runtime, reg, lost>>
       \/ /\ id = "worker" /\ Adopted(a, d)
          /\ task' = [Bumped(a) EXCEPT ![t].pc = "spawn"]
          /\ UNCHANGED <<lease, runtime>>
       \/ /\ d # NoPid
          /\ task' = [task EXCEPT ![t].pc = "replace", ![t].durable = d]
          /\ UNCHANGED <<lease, runtime, reg, lost>>
  BY Zenon DEF Prepare
<1> QED BY <1>6, <1>7, <1>8, <1>9, <1>10, Zenon

\* The recorded process has been ended, or it stays recorded.
LEMMA ReplaceKeeps ==
    ASSUME ControlInv, NEW t \in Tasks, NEW a, a = task[t].acct, NEW ok \in BOOLEAN,
           Replace(t, ok)
    PROVE  ControlInv'
<1> DEFINE d == task[t].durable
           k == [task[t] EXCEPT !.pc = "replaced", !.conf = ok]
<1>1. AtWork(task[t]) /\ task[t].pc = "replace" /\ task[t].pc \in Starting
  BY DEF Replace, AtWork, Starting
<1>2. /\ a \in Accounts /\ task[t] \in TaskRow
      /\ WorkOK(t) /\ AccountOK(a) /\ ControlTypeOK
  BY <1>1, AtWorkIs
<1>3. /\ d \in Pids /\ TerminatePid(d, a, ok)
      /\ UNCHANGED <<shop, runtime, lease, resv, host, halted>>
      /\ task' = [task EXCEPT ![t] = k]
  BY <1>1, <1>2 DEF Replace, WorkOK, ControlTypeOK
<1>4. /\ k \in TaskRow /\ k.pc = "replaced" /\ k.acct = a /\ k.conf = ok /\ k.durable = d
      /\ k.op = task[t].op /\ k.undo = task[t].undo /\ k.bad = task[t].bad
  <2>1. "replaced" \in Pcs
    BY DEF Pcs, Starting
  <2> QED BY <1>2, <2>1 DEF TaskRow
<1> HIDE DEF k
<1>5. task' \in [Tasks -> TaskRow] /\ task'[t] = k /\ OthersStand(t)
  BY <1>2, <1>3, <1>4, NewTask DEF ControlTypeOK
<1>6. \A q \in Pids : Apart(q, a)' => Apart(q, a) /\ ~(ok /\ q = d)
  BY <1>2, <1>3, TerminatePidLeaves
<1>7. \A q \in Pids : Apart(q, a)' => Guarded(k, q)
  BY <1>1, <1>2, <1>4, <1>6 DEF WorkOK, Guarded
<1>8. WorkOK(t)'
  BY <1>1, <1>2, <1>3, <1>4, <1>5, <1>7 DEF WorkOK, Starting
<1>9. TaskOK(t)' /\ StartsOn(t)
  BY <1>1, <1>4, <1>5, <1>8 DEF TaskOK, AtWork, Starting, StartsOn
<1> QED
  BY <1>2, <1>3, <1>5, <1>9, TerminatePidMoves DEF AccountOK, ControlTypeOK

\* The lease is looked at again when the recorded process has been ended, or has not.
LEMMA ReplacedKeeps ==
    ASSUME ControlInv, NEW t \in Tasks, NEW a, a = task[t].acct, Replaced(t)
    PROVE  ControlInv'
<1> DEFINE desired == IF task[t].op = "auto" THEN "running" ELSE "stopped"
           left == IF task[t].conf THEN NoPid ELSE task[t].durable
           r == [runtime[a] EXCEPT !.desired = desired, !.state = "degraded",
                                   !.mode = task[t].mode, !.pid = left]
<1>1. AtWork(task[t]) /\ task[t].pc = "replaced" /\ task[t].pc \in Starting
  BY DEF Replaced, AtWork, Starting
<1>2. /\ a \in Accounts /\ task[t] \in TaskRow
      /\ WorkOK(t) /\ AccountOK(a) /\ ControlTypeOK
      /\ runtime[a] \in RuntimeRow
  BY <1>1, AtWorkIs
<1>3. task[t].op \in {"start", "auto"}
  BY <1>1, <1>2 DEF WorkOK
<1>4. UNCHANGED <<shop, os, registry, host>> /\ halted' \subseteq Accounts
  BY <1>2, HeedsIs DEF Replaced
<1>5. CASE Raised(t)
  BY <1>1, <1>3, <1>4, <1>5, RaisedMoves
<1>6. CASE /\ runtime' = [runtime EXCEPT ![a].desired = desired, ![a].state = "degraded",
                              ![a].mode = task[t].mode, ![a].pid = left]
           /\ IF task[t].conf THEN Step(t, "spawn") /\ UNCHANGED lease ELSE Finish(t)
           /\ UNCHANGED lost
  <2>1. /\ left \in Pids \cup {NoPid} /\ desired \in {"running", "stopped"}
        /\ task[t].mode \in Modes
    BY <1>2 DEF TaskRow
  <2>2. \A p \in Pids : Apart(p, a) => ~task[t].conf /\ left = p
    BY <1>1, <1>2 DEF WorkOK, Guarded
  <2> HIDE DEF left, desired
  <2>3. r \in RuntimeRow /\ r.pid = left
    BY <1>2, <2>1 DEF RuntimeRow
  <2>4. runtime' = [runtime EXCEPT ![a] = r]
    BY <1>2, <1>6 DEF ControlTypeOK
  <2> HIDE DEF r
  <2>5. /\ runtime' \in [Accounts -> RuntimeRow] /\ runtime'[a] = r
        /\ \A b \in Accounts \ {a} : runtime'[b] = runtime[b]
    BY <1>2, <2>3, <2>4, RowWritten
  <2>6. \A p \in Pids : Apart(p, a) => runtime'[a].pid = p
    BY <2>2, <2>3, <2>5
  <2>7. CASE task[t].conf
    <3>1. Step(t, "spawn") /\ UNCHANGED lease
      BY <1>6, <2>7
    <3>2. \A p \in Pids : ~Apart(p, a)'
      BY <1>4, <1>6, <2>2, <2>7 DEF Apart, IsWorker, registry
    <3>3. task' \in [Tasks -> TaskRow] /\ OthersStand(t) /\ StartsOn(t) /\ TaskOK(t)'
      BY <1>1, <3>1, <3>2, SpawnFollows
    <3> QED BY <1>2, <1>4, <1>6, <2>5, <2>6, <3>1, <3>3, PaperMoves DEF ControlTypeOK
  <2>8. CASE ~task[t].conf
    <3>1. Finish(t)
      BY <1>6, <2>8
    <3> QED BY <1>2, <1>4, <1>6, <2>5, <2>6, <3>1, FinishMoves DEF ControlTypeOK
  <2> QED BY <2>7, <2>8
<1> QED BY <1>5, <1>6 DEF Replaced

-----------------------------------------------------------------------------
(* Restoration.                                                            *)

\* A restoration writes the row, unless a start wrote it since it was read.
LEMMA PersistRestoreIs ==
    ASSUME ControlTypeOK, NEW t \in Tasks, NEW a \in Accounts, a = task[t].acct,
           NEW desired \in {"running", "stopped"},
           NEW state \in {"running", "stopped", "waiting_login", "degraded", "starting",
                          "capacity_limited"},
           NEW pid \in Pids \cup {NoPid}, PersistRestore(t, desired, state, pid)
    PROVE  /\ runtime' \in [Accounts -> RuntimeRow]
           /\ \A b \in Accounts \ {a} : runtime'[b] = runtime[b]
           /\ runtime'[a].pid \in {pid, runtime[a].pid}
<1>1. CASE task[t].row
  BY <1>1, ObserveIs DEF PersistRestore
<1>2. CASE ~task[t].row
  BY <1>2 DEF PersistRestore, ControlTypeOK
<1> QED BY <1>1, <1>2

\* A restoration reads the row again under the lease.
LEMMA RestoreCheckKeeps ==
    ASSUME ControlInv, NEW t \in Tasks, NEW a, a = task[t].acct, NEW valid \in BOOLEAN,
           RestoreCheck(t, valid)
    PROVE  ControlInv'
<1>1. AtWork(task[t]) /\ task[t].pc = "check" /\ task[t].op = "restore"
  BY DEF RestoreCheck, AtWork
<1>2. /\ a \in Accounts /\ task[t] \in TaskRow
      /\ WorkOK(t) /\ AccountOK(a) /\ ControlTypeOK
      /\ runtime[a] \in RuntimeRow
  BY <1>1, AtWorkIs
<1>3. UNCHANGED <<shop, runtime, os, registry, reg, trans, resv, host, halted, lost>>
  BY DEF RestoreCheck, registry
<1>4. \A p \in Pids : Apart(p, a) => runtime[a].pid = p
  BY <1>2 DEF AccountOK
<1>5. \A p \in Pids : Apart(p, a)' => Apart(p, a)
  BY <1>3 DEF Apart, IsWorker
<1>6. ASSUME NEW k \in TaskRow, task' = [task EXCEPT ![t] = k], UNCHANGED lease,
             k.acct = a, k.op = "restore", k.undo = task[t].undo,
             \/ k.pc = "stop"
             \/ k.pc \in {"relogin", "adopt"} /\ k.durable = runtime[a].pid /\ ~marker
      PROVE  ControlInv'
  <2>1. task' \in [Tasks -> TaskRow] /\ task'[t] = k /\ OthersStand(t)
    BY <1>2, <1>6, NewTask DEF ControlTypeOK
  <2>2. \A p \in Pids : Apart(p, a)' => Guarded(k, p)
    BY <1>1, <1>2, <1>4, <1>5, <1>6 DEF WorkOK, Guarded
  <2>3. WorkOK(t)'
    BY <1>1, <1>2, <1>6, <2>1, <2>2 DEF WorkOK
  <2>4. TaskOK(t)' /\ StartsOn(t)
    BY <1>6, <2>1, <2>3 DEF TaskOK, AtWork, Starting, Stopping, StartsOn
  <2> QED BY <1>2, <1>3, <1>4, <1>6, <2>1, <2>4, PaperMoves DEF ControlTypeOK
<1>7. CASE Finish(t)
  BY <1>2, <1>3, <1>4, <1>7, FinishMoves DEF ControlTypeOK
<1>8. CASE Step(t, "stop") /\ UNCHANGED lease
  <2> DEFINE k == [task[t] EXCEPT !.pc = "stop"]
  <2>1. /\ k \in TaskRow /\ k.pc = "stop" /\ k.op = "restore" /\ k.acct = a
        /\ k.undo = task[t].undo
    BY <1>1, <1>2 DEF TaskRow, Pcs
  <2>2. task' = [task EXCEPT ![t] = k]
    BY <1>8 DEF Step
  <2> HIDE DEF k
  <2> QED BY <1>6, <1>8, <2>1, <2>2
<1>9. CASE /\ task' = [task EXCEPT ![t].pc = "stop", ![t].bad = TRUE, ![t].mode = runtime[a].mode]
           /\ UNCHANGED lease
  <2> DEFINE k == [task[t] EXCEPT !.pc = "stop", !.bad = TRUE, !.mode = runtime[a].mode]
  <2>1. runtime[a].mode \in Modes
    BY <1>2 DEF RuntimeRow
  <2>2. /\ k \in TaskRow /\ k.pc = "stop" /\ k.op = "restore" /\ k.acct = a
        /\ k.undo = task[t].undo
    BY <1>1, <1>2, <2>1 DEF TaskRow, Pcs
  <2>3. task' = [task EXCEPT ![t] = k]
    BY <1>9
  <2> HIDE DEF k
  <2> QED BY <1>6, <1>9, <2>2, <2>3
<1>10. CASE /\ ~marker /\ UNCHANGED lease
            /\ task' = [task EXCEPT ![t].pc = IF shop[a].reauth THEN "relogin" ELSE "adopt",
                                    ![t].row = TRUE, ![t].durable = runtime[a].pid,
                                    ![t].want = runtime[a].desired, ![t].mode = runtime[a].mode]
  <2> DEFINE place == IF shop[a].reauth THEN "relogin" ELSE "adopt"
             d == runtime[a].pid
             w == runtime[a].desired
             m == runtime[a].mode
             k == [task[t] EXCEPT !.pc = place, !.row = TRUE, !.durable = d, !.want = w, !.mode = m]
  <2>1. m \in Modes /\ d \in Pids \cup {NoPid} /\ w \in {"running", "stopped"}
    BY <1>2 DEF RuntimeRow
  <2>2. task' = [task EXCEPT ![t] = k] /\ place \in {"relogin", "adopt"} /\ d = runtime[a].pid
    BY <1>10
  <2>3. {"relogin", "adopt"} \subseteq Pcs
    BY DEF Pcs, Starting
  <2> HIDE DEF place, d, w, m
  <2>4. k \in TaskRow
    BY <1>2, <2>1, <2>2, <2>3 DEF TaskRow
  <2>5. /\ k.pc = place /\ k.op = "restore" /\ k.acct = a /\ k.undo = task[t].undo
        /\ k.durable = d
    BY <1>1, <1>2 DEF TaskRow
  <2> HIDE DEF k
  <2> QED BY <1>6, <1>10, <2>2, <2>4, <2>5
<1> QED BY <1>7, <1>8, <1>9, <1>10 DEF RestoreCheck

\* The end of the process that the row named when it was read.
LEMMA EndRecordedIs ==
    ASSUME NEW t, NEW ok, EndRecorded(t, ok)
    PROVE  RecordedEnds(task[t].acct, task[t].durable, ok)
BY DEF EndRecorded, RecordedEnds

\* An account that waits for a login has its recorded process ended, or keeps it recorded.
LEMMA RestoreReloginKeeps ==
    ASSUME ControlInv, NEW t \in Tasks, NEW a, a = task[t].acct, NEW ok \in BOOLEAN,
           RestoreRelogin(t, ok)
    PROVE  ControlInv'
<1> DEFINE d == task[t].durable
           state == IF ok THEN "waiting_login" ELSE "degraded"
           left == IF ok THEN NoPid ELSE d
<1>1. AtWork(task[t]) /\ task[t].pc = "relogin"
  BY DEF RestoreRelogin, AtWork, Starting
<1>2. /\ a \in Accounts /\ task[t] \in TaskRow
      /\ WorkOK(t) /\ AccountOK(a) /\ ControlTypeOK
  BY <1>1, AtWorkIs
<1>3. /\ UNCHANGED <<shop, resv, host>> /\ halted' \subseteq Accounts
      /\ RecordedEnds(a, d, ok) /\ Finish(t)
      /\ PersistRestore(t, task[t].want, state, left)
  BY <1>2, HeedsIs, EndRecordedIs DEF RestoreRelogin
<1>4. /\ d \in Pids \cup {NoPid} /\ left \in Pids \cup {NoPid}
      /\ task[t].want \in {"running", "stopped"}
      /\ state \in {"waiting_login", "degraded"}
  BY <1>2 DEF TaskRow
<1>5. \A p \in Pids : Apart(p, a) => d = p /\ runtime[a].pid = p
  BY <1>1, <1>2 DEF WorkOK, Guarded, AccountOK
<1>6. ~ok => left = d
  OBVIOUS
<1> HIDE DEF d, state, left
<1>7. /\ runtime' \in [Accounts -> RuntimeRow]
      /\ \A b \in Accounts \ {a} : runtime'[b] = runtime[b]
      /\ runtime'[a].pid \in {left, runtime[a].pid}
  BY <1>2, <1>3, <1>4, PersistRestoreIs
<1>8. /\ task' \in [Tasks -> TaskRow] /\ OthersStand(t) /\ StartsOn(t) /\ TaskOK(t)'
      /\ lease' = [lease EXCEPT ![a] = IF @ = t THEN NoTask ELSE @]
  BY <1>2, <1>3, FinishIs, EaseIsOK DEF Released
<1>9. ok \/ \A p \in Pids : Apart(p, a) => runtime'[a].pid = p
  BY <1>5, <1>6, <1>7
<1>10. \A p \in Pids : Apart(p, a) => d = p
  BY <1>5
<1>11. /\ UNCHANGED <<resv, host, shop>> /\ halted' \subseteq Accounts /\ RecordedEnds(a, d, ok)
       /\ a \in Accounts /\ d \in Pids \cup {NoPid}
  BY <1>2, <1>3, <1>4
<1>12. /\ runtime' \in [Accounts -> RuntimeRow]
       /\ \A b \in Accounts \ {a} : runtime'[b] = runtime[b]
       /\ (ok => \A p \in Pids : ~Apart(p, a)') => TaskOK(t)'
  BY <1>7, <1>8
<1>13. CASE ok
  BY <1>8, <1>10, <1>11, <1>12, <1>13, RecordedMoves
<1>14. CASE ~ok
  <2>1. d \in Pids /\ TerminatePid(d, a, ok) /\ shop' \in [Accounts -> ShopRow]
    BY <1>2, <1>11, <1>14 DEF RecordedEnds, ControlTypeOK
  <2>2. \A p \in Pids : Apart(p, a) /\ ~(ok /\ p = d) => runtime'[a].pid = p
    BY <1>9, <1>14
  <2> QED BY <1>8, <1>11, <1>12, <2>1, <2>2, TerminatePidMoves
<1> QED BY <1>13, <1>14

\* A restoration adopts or ends the recorded process.
LEMMA RestoreAdoptKeeps ==
    ASSUME ControlInv, NEW t \in Tasks, NEW a, a = task[t].acct, NEW ok \in BOOLEAN,
           RestoreAdopt(t, ok)
    PROVE  ControlInv'
<1> DEFINE k == task[t]
           d == k.durable
           id == IF d = NoPid THEN "pid_dead" ELSE Identity(d, a)
           ours == id = "worker" /\ k.mode = "rules"
           retired == id \in {"pid_dead", "pid_reused"} \/ (id = "worker" /\ ~ours /\ ok)
           later == [Idle EXCEPT !.op = "restore", !.pc = "next", !.todo = k.todo,
                             !.pending = k.pending \cup (IF d = NoPid \/ k.row THEN {a} ELSE {})]
<1>1. AtWork(task[t]) /\ task[t].pc = "adopt" /\ task[t].pc \in Starting
  BY Zenon DEF RestoreAdopt, AtWork, Starting
<1>2. /\ a \in Accounts /\ task[t] \in TaskRow
      /\ WorkOK(t) /\ AccountOK(a) /\ ControlTypeOK
      /\ NoPid \notin Pids
  BY <1>1, AtWorkIs
<1>3. /\ UNCHANGED <<shop, resv, host>> /\ halted' \subseteq Accounts
      /\ d \in Pids \cup {NoPid} /\ k.want \in {"running", "stopped"}
  <2>1. UNCHANGED <<shop, resv, host>> /\ Heeds(t)
    BY Zenon DEF RestoreAdopt
  <2> QED BY <1>2, <2>1, HeedsIs DEF TaskRow
<1>4. \A p \in Pids : Apart(p, a) => d = p /\ runtime[a].pid = p
  BY <1>1, <1>2 DEF WorkOK, Guarded, AccountOK
<1>5. EndRecorded(t, ok) => RecordedEnds(a, d, ok)
  BY EndRecordedIs
<1>6. Finish(t) => /\ task' \in [Tasks -> TaskRow] /\ OthersStand(t) /\ StartsOn(t) /\ TaskOK(t)'
                   /\ lease' = [lease EXCEPT ![a] = IF @ = t THEN NoTask ELSE @]
  BY <1>2, FinishIs, EaseIsOK, Zenon DEF Released
<1>7. CASE /\ ours /\ Adopted(a, d)
           /\ task' = [IF a \in Managed THEN task ELSE Bumped(a)
                          EXCEPT ![t].pc = "started", ![t].already = TRUE]
           /\ UNCHANGED <<lease, runtime, os, trans>>
  <2> DEFINE r == [k EXCEPT !.pc = "started", !.already = TRUE]
  <2>1. d \in Pids /\ IsWorker(d, a)
    BY <1>3, <1>7, Zenon DEF Identity, IsWorker
  <2>2. /\ r \in TaskRow /\ r.pc = "started" /\ r.acct = a /\ r.op = k.op
        /\ r.undo = k.undo /\ r.bad = k.bad
    BY <1>2 DEF TaskRow, Pcs, Starting
  <2>3. task' = [task EXCEPT ![t] = r] \/ task' = [Bumped(a) EXCEPT ![t] = r]
    <3>1. Bumped(a)[t] = task[t]
      BY <1>1 DEF Bumped
    <3> QED BY <1>7, <3>1
  <2> HIDE DEF r
  <2>4. task' \in [Tasks -> TaskRow] /\ task'[t] = r /\ OthersStand(t)
    BY <1>2, <2>2, <2>3, NewTask, BumpedTask DEF ControlTypeOK
  <2>5. ((\A p \in Pids : ~Apart(p, a)') => TaskOK(t)') /\ StartsOn(t)
    BY <1>1, <2>2, <2>4, StartGoesOn
  <2> QED BY <1>2, <1>3, <1>4, <1>7, <2>1, <2>4, <2>5, AdoptMoves DEF ControlTypeOK
<1>8. retired /\ EndRecorded(t, ok) => ok
  <2>1. CASE d = NoPid
    BY <2>1 DEF EndRecorded
  <2>2. CASE d # NoPid
    BY <2>2 DEF EndRecorded, TerminatePid
  <2> QED BY <2>1, <2>2
<1>9. CASE ~retired /\ RecordedEnds(a, d, ok) /\ Finish(t) /\ PersistRestore(t, k.want, "degraded", d)
  <2>1. /\ runtime' \in [Accounts -> RuntimeRow]
        /\ \A b \in Accounts \ {a} : runtime'[b] = runtime[b]
        /\ runtime'[a].pid \in {d, runtime[a].pid}
    BY <1>2, <1>3, <1>9, PersistRestoreIs
  <2>2. \A p \in Pids : Apart(p, a) => runtime'[a].pid = p
    BY <1>4, <2>1
  <2> QED BY <1>2, <1>3, <1>4, <1>6, <1>9, <2>1, <2>2, RecordedMoves
<1>10. CASE ok /\ RecordedEnds(a, d, ok) /\ Finish(t) /\ PersistRestore(t, k.want, "waiting_login", NoPid)
  <2>1. /\ runtime' \in [Accounts -> RuntimeRow]
        /\ \A b \in Accounts \ {a} : runtime'[b] = runtime[b]
    BY <1>2, <1>3, <1>10, PersistRestoreIs
  <2>2. \A p \in Pids : Apart(p, a) => d = p
    BY <1>4
  <2>3. /\ task' \in [Tasks -> TaskRow] /\ OthersStand(t) /\ StartsOn(t) /\ TaskOK(t)'
        /\ lease' = [lease EXCEPT ![a] = IF @ = t THEN NoTask ELSE @]
    BY <1>6, <1>10
  <2> HIDE DEF d
  <2> QED BY <1>2, <1>3, <1>10, <2>1, <2>2, <2>3, RecordedMoves
<1>11. CASE /\ ok /\ RecordedEnds(a, d, ok)
            /\ IF d = NoPid THEN UNCHANGED runtime
               ELSE PersistRestore(t, "running", "starting", NoPid)
            /\ lease' = Released(t)
            /\ task' = [task EXCEPT ![t] = later]
  <2>1. /\ runtime' \in [Accounts -> RuntimeRow]
        /\ \A b \in Accounts \ {a} : runtime'[b] = runtime[b]
    <3>1. CASE d = NoPid
      BY <1>2, <1>11, <3>1 DEF ControlTypeOK
    <3>2. CASE d # NoPid
      BY <1>2, <1>3, <1>11, <3>2, PersistRestoreIs
    <3> QED BY <3>1, <3>2
  <2>2. later \in TaskRow
    <3>1. /\ k.todo \in SUBSET Accounts
          /\ k.pending \cup (IF d = NoPid \/ k.row THEN {a} ELSE {}) \in SUBSET Accounts
      BY <1>2 DEF TaskRow
    <3> QED BY <3>1 DEF Idle, TaskRow, Pcs, Modes, NoPid
  <2>3. AtEase(later)
    BY DEF Idle, AtEase, AtWork, Starting, Stopping
  <2> HIDE DEF later
  <2>4. task' \in [Tasks -> TaskRow] /\ task'[t] = later /\ OthersStand(t)
    BY <1>2, <1>11, <2>2, NewTask DEF ControlTypeOK
  <2>5. TaskOK(t)' /\ StartsOn(t)
    BY <2>3, <2>4, EaseIsOK
  <2>6. lease' = [lease EXCEPT ![a] = IF @ = t THEN NoTask ELSE @]
    BY <1>11 DEF Released
  <2>7. \A p \in Pids : Apart(p, a) => d = p
    BY <1>4
  <2> HIDE DEF d
  <2> QED BY <1>2, <1>3, <1>11, <2>1, <2>4, <2>5, <2>6, <2>7, RecordedMoves
<1>12. CASE ok /\ RecordedEnds(a, d, ok) /\ Step(t, "spawn") /\ UNCHANGED <<lease, runtime>>
  <2>1. /\ task' \in [Tasks -> TaskRow] /\ OthersStand(t) /\ StartsOn(t)
        /\ (\A p \in Pids : ~Apart(p, a)') => TaskOK(t)'
    BY <1>1, <1>12, SpawnFollows
  <2> QED BY <1>2, <1>3, <1>4, <1>12, <2>1, RecordedMoves DEF ControlTypeOK
<1> QED BY <1>5, <1>7, <1>8, <1>9, <1>10, <1>11, <1>12, Zenon DEF RestoreAdopt

\* A step that leaves the processes, the registry and the rows of the accounts alone.
LEMMA CalmMoves ==
    ASSUME ControlInv, NEW t, OthersStand(t),
           UNCHANGED <<runtime, trans, resv, lease, lost>>, up' \in BOOLEAN,
           reg' \in Handles,
           \A b \in Accounts : reg'[b] = reg[b] \/ (reg[b] = Gone /\ reg'[b] = NoPid),
           os' \in [Pids -> OsRow],
           \A p \in Pids : os'[p] = os[p] \/ (os[p].kind # "worker" /\ os'[p].kind # "worker"),
           halted' \subseteq Accounts, shop' \in [Accounts -> ShopRow],
           task' \in [Tasks -> TaskRow], entered' \in {"no", "this", "earlier"},
           marker' \in BOOLEAN, drained' \in BOOLEAN, DrainOK',
           t \in Tasks => AtEase(task'[t])
    PROVE  ControlInv'
<1>1. ControlTypeOK /\ NoPid \notin Pids /\ Gone \notin Pids
  BY WorkerAssumption DEF ControlInv, NoPid, Gone
<1>2. Workers' = Workers /\ \A p \in Pids : \A b : IsWorker(p, b)' <=> IsWorker(p, b)
  BY DEF Workers, IsWorker
<1>3. \A p \in Pids, b \in Accounts : Apart(p, b)' <=> Apart(p, b)
  BY <1>1, <1>2 DEF Apart
<1>a. ControlTypeOK'
  BY <1>1, <1>2 DEF ControlTypeOK
<1>4. ASSUME NEW b \in Accounts PROVE AccountOK(b)'
  <2>1. AccountOK(b)
    BY DEF ControlInv
  <2>2. HandlesOK(b)'
    BY <1>1, <1>2, <2>1 DEF AccountOK, HandlesOK, IsWorker
  <2>3. b \in Managed' <=> b \in Managed
    BY <1>1 DEF Managed
  <2> QED BY <1>3, <2>1, <2>2, <2>3 DEF AccountOK
<1>5. ASSUME NEW s \in Tasks PROVE TaskOK(s)'
  <2>1. CASE AtEase(task'[s])
    BY <2>1, EaseIsOK
  <2>2. CASE s # t /\ SameWork(s) /\ AtWork(task[s])
    <3>1. WorkOK(s) /\ TaskOK(s)
      BY <2>2 DEF ControlInv, TaskOK, AtEase
    <3>2. \A p \in Pids : Guarded(task[s], p) <=> Guarded(task'[s], p)
      BY <2>2 DEF SameWork, Guarded
    <3>3. WorkOK(s)'
      BY <1>1, <1>3, <2>2, <3>1, <3>2 DEF WorkOK, SameWork
    <3> QED BY <2>2, <3>1, <3>3 DEF TaskOK, AtWork, SameWork
  <2>3. CASE s # t /\ SameWork(s) /\ ~AtWork(task[s])
    BY <2>3 DEF ControlInv, TaskOK, AtEase, AtWork, SameWork
  <2> QED BY <2>1, <2>2, <2>3 DEF OthersStand
<1> QED BY <1>a, <1>4, <1>5 DEF ControlInv

\* The next row of a pass is one of its rows.
LEMMA MinIsIn ==
    ASSUME NEW S, S \subseteq Nat, IsFiniteSet(S), S # {}
    PROVE  Min(S) \in S
<1> DEFINE below(x) == {y \in S : y < x}
           F == {below(x) : x \in S}
<1>1. IsWellFoundedOn(StrictSubsetOrdering(S), SUBSET S)
  BY FS_StrictSubsetOrderingWellFounded, FS_FiniteSubsetsOfFinite
<1>2. F \subseteq SUBSET S /\ F # {}
  OBVIOUS
<1>3. PICK X \in F : \A Y \in F : <<Y, X>> \notin StrictSubsetOrdering(S)
  <2> HIDE DEF F
  <2> QED BY <1>1, <1>2, WFMin
<1>4. PICK x \in S : X = below(x)
  BY <1>3
<1>5. ASSUME NEW y \in S, y < x PROVE FALSE
  <2>1. y \in Nat /\ x \in Nat
    OBVIOUS
  <2>2. y \in X /\ y \notin below(y)
    BY <1>4, <1>5, <2>1
  <2>3. ASSUME NEW z \in S, z < y PROVE z < x
    BY <1>5, <2>1, <2>3
  <2>4. below(y) \subseteq X /\ y \in X /\ y \notin below(y)
    BY <1>4, <2>2, <2>3
  <2>5. <<below(y), X>> \in StrictSubsetOrdering(S)
    BY <1>2, <1>4, <2>4 DEF StrictSubsetOrdering
  <2> QED BY <1>3, <2>5
<1>6. \A y \in S : x =< y
  BY <1>5
<1> QED BY <1>6 DEF Min

\* A task that takes up an account.
LEMMA LeaseTaken ==
    ASSUME ControlInv, NEW t \in Tasks, NEW a \in Accounts, lease[a] = NoTask,
           NEW k \in TaskRow, k.pc \in {"check", "stop"}, k.acct = a, ~k.undo, ~k.bad,
           task' = [task EXCEPT ![t] = k], lease' = [lease EXCEPT ![a] = t],
           UNCHANGED <<shop, runtime, os, reg, trans, resv, lost, marker, entered, up, drained>>,
           halted' \subseteq Accounts, t = Watcher => k.op = "restore"
    PROVE  ControlInv'
<1>1. ControlTypeOK /\ AccountOK(a) /\ NoTask \notin Tasks
  BY WorkerAssumption DEF ControlInv, Tasks, NoTask
<1>2. /\ Workers' = Workers
      /\ \A p \in Pids : \A b : /\ IsWorker(p, b)' <=> IsWorker(p, b)
                                /\ Apart(p, b)' <=> Apart(p, b)
  BY DEF Workers, IsWorker, Apart
<1>3. task' \in [Tasks -> TaskRow] /\ task'[t] = k /\ OthersStand(t)
  BY <1>1, NewTask DEF ControlTypeOK
<1>4. lease' \in Leases /\ lease'[a] = t /\ \A b \in Accounts \ {a} : lease'[b] = lease[b]
  BY <1>1 DEF ControlTypeOK, Leases
<1>5. Elsewhere(a)
  BY <1>2, <1>4 DEF Elsewhere, SameRow
<1>6. AccountOK(a)'
  <2>1. a \in Managed' <=> a \in Managed
    BY DEF Managed
  <2>2. HandlesOK(a)'
    BY <1>1, <1>2 DEF AccountOK, HandlesOK, IsWorker
  <2> QED BY <1>1, <1>2, <2>1, <2>2 DEF AccountOK
<1>7. Here(t, a)
  BY <1>1, <1>2, <1>4 DEF Here
<1>8. WorkOK(t)'
  BY <1>3, <1>4 DEF WorkOK, Guarded, Starting, Stopping
<1>9. TaskOK(t)' /\ task'[t].pc \notin Starting /\ StartsOn(t)
  BY <1>3, <1>8 DEF TaskOK, AtWork, Starting, StartsOn
<1>10. ControlTypeOK'
  BY <1>1, <1>2, <1>3, <1>4 DEF ControlTypeOK
<1>11. DrainOK'
  <2>1. \A b \in Accounts, s \in Tasks :
           lease'[b] = s /\ task'[s].pc \in Starting => lease[b] = s
    BY <1>4, <1>9
  <2> QED BY <1>2, <1>3, <1>9, <2>1, DrainRests
<1>12. StepIsGood(t, a)
  BY <1>3, <1>5, <1>6, <1>7, <1>9 DEF StepIsGood
<1> QED BY <1>10, <1>11, <1>12, GoodSteps

\* A restoration takes the next account, or passes over it.
LEMMA RestoreNextKeeps ==
    ASSUME ControlInv, NEW t \in Tasks, NEW a, a = Min(task[t].todo), RestoreNext(t)
    PROVE  ControlInv'
<1>1. /\ ControlTypeOK /\ task[t] \in TaskRow /\ TaskOK(t) /\ NoTask \notin Tasks
      /\ task[t].op = "restore" /\ task[t].pc = "next"
      /\ UNCHANGED <<shop, runtime, os, registry, marker, up, drained, halted>>
      /\ UNCHANGED <<reg, trans, resv>>
  BY WorkerAssumption DEF RestoreNext, ControlInv, ControlTypeOK, Tasks, NoTask, registry
<1>2. ~task[t].undo /\ ~task[t].bad
  BY <1>1 DEF TaskOK, AtEase, AtWork, Starting, Stopping
<1>3. task[t].todo # {} => a \in task[t].todo /\ a \in Accounts
  <2> SUFFICES ASSUME task[t].todo # {} PROVE a \in task[t].todo /\ a \in Accounts
    OBVIOUS
  <2>1. task[t].todo \subseteq Accounts
    BY <1>1 DEF TaskRow
  <2>2. task[t].todo \subseteq Nat /\ IsFiniteSet(task[t].todo)
    BY <2>1, WorkerAssumption, FS_Subset
  <2> QED BY <2>1, <2>2, MinIsIn
<1>4. /\ \A p \in Pids : \A b : IsWorker(p, b)' <=> IsWorker(p, b)
      /\ Workers' = Workers
  BY <1>1 DEF IsWorker, Workers
<1>5. CASE /\ task[t].todo # {} /\ lease[a] = NoTask
           /\ lease' = [lease EXCEPT ![a] = t]
           /\ task' = [task EXCEPT ![t].todo = @ \ {a}, ![t].acct = a, ![t].row = TRUE,
                                   ![t].pc = "check", ![t].mode = runtime[a].mode]
           /\ UNCHANGED <<entered, lost>>
  <2> DEFINE k == [task[t] EXCEPT !.todo = @ \ {a}, !.acct = a, !.row = TRUE,
                                  !.pc = "check", !.mode = runtime[a].mode]
  <2>1. runtime[a].mode \in Modes /\ a \in Accounts
    BY <1>1, <1>3, <1>5 DEF ControlTypeOK, RuntimeRow
  <2>2. /\ k \in TaskRow /\ k.pc = "check" /\ k.op = "restore" /\ k.acct = a
        /\ ~k.undo /\ ~k.bad
    BY <1>1, <1>2, <2>1 DEF TaskRow, Pcs
  <2>3. task' = [task EXCEPT ![t] = k]
    BY <1>5
  <2> HIDE DEF k
  <2>4. halted' \subseteq Accounts
    BY <1>1 DEF ControlTypeOK
  <2> QED BY <1>1, <1>5, <2>1, <2>2, <2>3, <2>4, LeaseTaken
<1>6. CASE /\ task[t].todo # {}
           /\ task' = [task EXCEPT ![t].todo = @ \ {a}]
           /\ lost' = lost \cup Overlooked(a)
           /\ UNCHANGED <<lease, entered>>
  <2> DEFINE k == [task[t] EXCEPT !.todo = @ \ {a}]
  <2>1. a \in Accounts
    BY <1>3, <1>6
  <2>2. k \in TaskRow /\ k.pc = "next" /\ k.op = "restore" /\ ~k.undo /\ ~k.bad
    BY <1>1, <1>2 DEF TaskRow
  <2>3. AtEase(k)
    BY <2>2 DEF AtEase, AtWork, Starting, Stopping
  <2>4. task' = [task EXCEPT ![t] = k]
    BY <1>6
  <2> HIDE DEF k
  <2>5. task' \in [Tasks -> TaskRow] /\ task'[t] = k /\ OthersStand(t)
    BY <1>1, <2>2, <2>4, NewTask DEF ControlTypeOK
  <2>6. TaskOK(t)' /\ StartsOn(t)
    BY <2>3, <2>5, EaseIsOK
  <2> QED
    BY <1>1, <1>6, <2>1, <2>5, <2>6, PaperMoves DEF ControlTypeOK, host
<1>7. CASE /\ UNCHANGED <<lease, lost>>
           /\ entered' \in {entered, "no"}
           /\ task' = [task EXCEPT ![t] =
                 IF task[t].pass = 1 /\ task[t].pending # {} /\ ~marker
                 THEN [Restoring EXCEPT !.pass = 2, !.todo = task[t].pending] ELSE Idle]
  <2> DEFINE k == [Restoring EXCEPT !.pass = 2, !.todo = task[t].pending]
  <2>1. task[t].pending \in SUBSET Accounts
    BY <1>1 DEF TaskRow
  <2>2. k \in TaskRow /\ AtEase(k)
    BY <2>1 DEF Restoring, Idle, TaskRow, Pcs, Modes, NoPid, AtEase, AtWork, Starting, Stopping
  <2>3. PICK r \in {k, Idle} : task' = [task EXCEPT ![t] = r]
    BY <1>7
  <2>4. r \in TaskRow /\ AtEase(r)
    BY <2>2, RowsAtEase
  <2> HIDE DEF k
  <2>5. task' \in [Tasks -> TaskRow] /\ task'[t] = r /\ OthersStand(t)
    BY <1>1, <2>3, <2>4, NewTask DEF ControlTypeOK
  <2>6. DrainOK'
    <3>1. StartsOn(t)
      BY <2>4, <2>5, EaseIsOK
    <3>2. lease' = lease
      BY <1>7
    <3> QED BY <1>1, <1>4, <2>5, <3>1, <3>2, DrainRests
  <2> QED
    BY <1>1, <1>7, <2>4, <2>5, <2>6, CalmMoves DEF ControlTypeOK
<1> QED BY <1>5, <1>6, <1>7 DEF RestoreNext

-----------------------------------------------------------------------------
(* Requests.                                                               *)

\* A request is admitted with the account's lease.
LEMMA RequestKeeps ==
    ASSUME ControlInv, NEW t \in Threads, NEW a \in Accounts, NEW m \in Modes,
           NEW op \in {"start", "stop", "pause", "delete", "auto"}, Request(t, op, a, m)
    PROVE  ControlInv'
<1> DEFINE k == [Idle EXCEPT !.op = op, !.acct = a, !.mode = m, !.pc =
                    IF op \in {"start", "auto"} THEN "check" ELSE "stop"]
<1>1. /\ k \in TaskRow /\ k.pc \in {"check", "stop"} /\ k.acct = a /\ ~k.undo /\ ~k.bad
      /\ k.op = op
  BY DEF Idle, TaskRow, Pcs, Modes, NoPid
<1>2. /\ task' = [task EXCEPT ![t] = k] /\ lease' = [lease EXCEPT ![a] = t]
      /\ UNCHANGED <<shop, runtime, os, reg, trans, resv, lost, marker, entered, up, drained>>
      /\ lease[a] = NoTask /\ halted' = IF op = "start" THEN halted \ {a} ELSE halted
  BY DEF Request
<1> HIDE DEF k
<1>3. t \in Tasks /\ t # Watcher /\ halted' \subseteq Accounts
  BY <1>2, WorkerAssumption DEF Tasks, ControlInv, ControlTypeOK
<1> QED BY <1>1, <1>2, <1>3, LeaseTaken

\* A completed login re-arms the account without its lease.
LEMMA CompleteLoginKeeps ==
    ASSUME ControlInv, NEW a \in Accounts, CompleteLogin(a)
    PROVE  ControlInv'
<1> DEFINE r == [runtime[a] EXCEPT !.auto = TRUE]
<1>1. ControlTypeOK /\ AccountOK(a) /\ runtime[a] \in RuntimeRow /\ NoTask \notin Tasks
  BY WorkerAssumption DEF ControlInv, ControlTypeOK, Tasks, NoTask
<1>2. r \in RuntimeRow /\ r.pid = runtime[a].pid
  BY <1>1 DEF RuntimeRow
<1>3. /\ runtime' = [runtime EXCEPT ![a] = r] /\ halted' = halted \ {a}
      /\ UNCHANGED <<shop, lease, os, reg, trans, resv, task, marker, entered, up, drained, lost>>
  BY DEF CompleteLogin
<1> HIDE DEF r
<1>4. /\ runtime' \in [Accounts -> RuntimeRow] /\ runtime'[a] = r
      /\ \A b \in Accounts \ {a} : runtime'[b] = runtime[b]
  BY <1>1, <1>2, <1>3, RowWritten
<1>5. halted' \subseteq Accounts
  BY <1>1, <1>3 DEF ControlTypeOK
<1>6. \A p \in Pids : Apart(p, a) => runtime'[a].pid = p
  BY <1>1, <1>2, <1>4 DEF AccountOK
<1>7. OthersStand(NoTask)
  BY <1>3 DEF OthersStand, SameWork
<1> QED
  BY <1>1, <1>3, <1>4, <1>5, <1>6, <1>7, PaperMoves DEF ControlTypeOK, host, registry

-----------------------------------------------------------------------------
(* The maintenance watcher and the drain.                                  *)

\* A step that gives a task a row at ease and changes nothing else of the state.
LEMMA TaskSettles ==
    ASSUME ControlInv, NEW t \in Tasks, NEW k \in TaskRow, AtEase(k),
           task' = [task EXCEPT ![t] = k],
           UNCHANGED <<shop, runtime, lease, os, registry, marker, up, drained, halted, lost>>,
           entered' \in {"no", "this", "earlier"}
    PROVE  ControlInv'
<1>1. ControlTypeOK /\ UNCHANGED <<reg, trans, resv>>
  BY DEF ControlInv, registry
<1>2. task' \in [Tasks -> TaskRow] /\ task'[t] = k /\ OthersStand(t)
  BY <1>1, NewTask DEF ControlTypeOK
<1>3. Workers' = Workers
  BY DEF Workers
<1>4. DrainOK'
  BY <1>2, <1>3, DrainRests, EaseIsOK DEF host
<1> QED BY <1>1, <1>2, <1>4, CalmMoves DEF ControlTypeOK

\* A task between accounts works on none.
LEMMA WatcherAtEase ==
    ASSUME ControlInv, NEW t \in Tasks,
           task[t].pc \in {"shutdown", "orphans", "boot", "idle", "next"},
           NEW k, k.pc \in {"shutdown", "orphans", "boot", "idle", "next"},
           k.undo = task[t].undo, k.bad = task[t].bad, k.op = task[t].op
    PROVE  AtEase(k)
BY DEF ControlInv, TaskOK, AtEase, AtWork, Starting, Stopping

\* The watcher enters maintenance.
LEMMA EnterKeeps ==
    ASSUME ControlInv, Enter
    PROVE  ControlInv'
<1>1. Watcher \in Tasks
  BY DEF Tasks
<1> QED BY <1>1, RowsAtEase, TaskSettles DEF Enter, host, ControlInv, ControlTypeOK

\* The watcher restores the workers after maintenance.
LEMMA LeaveKeeps ==
    ASSUME ControlInv, Leave
    PROVE  ControlInv'
<1>1. Watcher \in Tasks
  BY DEF Tasks
<1> QED BY <1>1, RowsAtEase, TaskSettles DEF Leave, host, ControlInv, ControlTypeOK

\* The callback of a window ends.
LEMMA EnteredKeeps ==
    ASSUME ControlInv, Entered
    PROVE  ControlInv'
<1>1. Watcher \in Tasks
  BY DEF Tasks
<1>2. entered' \in {"no", "this", "earlier"}
  BY DEF Entered, ControlInv, ControlTypeOK
<1> QED BY <1>1, <1>2, RowsAtEase, TaskSettles DEF Entered

\* shutdown_all is through; the recorded processes follow.
LEMMA ShutdownEndKeeps ==
    ASSUME ControlInv, ShutdownEnd
    PROVE  ControlInv'
<1> DEFINE recorded == {a \in Accounts : runtime[a].pid # NoPid}
           k == [task[Watcher] EXCEPT !.pc = "orphans", !.todo = recorded]
<1>1. Watcher \in Tasks /\ task[Watcher] \in TaskRow /\ task[Watcher].pc = "shutdown"
  BY DEF Tasks, ShutdownEnd, ControlInv, ControlTypeOK
<1>2. recorded \in SUBSET Accounts
  OBVIOUS
<1> HIDE DEF recorded
<1>3. /\ k \in TaskRow /\ k.pc = "orphans" /\ k.undo = task[Watcher].undo
      /\ k.bad = task[Watcher].bad /\ k.op = task[Watcher].op
  BY <1>1, <1>2 DEF TaskRow, Pcs
<1>4. task' = [task EXCEPT ![Watcher] = k]
  BY DEF ShutdownEnd, recorded
<1> HIDE DEF k
<1>5. AtEase(k)
  BY <1>1, <1>3, WatcherAtEase
<1> QED
  BY <1>1, <1>3, <1>4, <1>5, TaskSettles DEF ShutdownEnd, host, ControlInv, ControlTypeOK

\* shutdown_all ends the worker of an account whoever is working on it.
LEMMA ShutdownOneKeeps ==
    ASSUME ControlInv, NEW a \in Accounts, NEW ok \in BOOLEAN, ShutdownOne(a, ok)
    PROVE  ControlInv'
<1> DEFINE p == IF trans[a] # NoTrans THEN trans[a].pid ELSE reg[a]
           P == IF ok /\ p \in Pids THEN {p} ELSE {}
           k == [Bumped(a)[Watcher] EXCEPT !.todo = @ \ {a}]
<1>1. /\ Watcher \in Tasks /\ task[Watcher] \in TaskRow /\ task[Watcher].pc = "shutdown"
      /\ ControlTypeOK /\ AccountOK(a) /\ HandlesOK(a) /\ NoPid \notin Pids /\ Gone \notin Pids
      /\ trans[a] \in TransRow /\ reg[a] \in Pids \cup {NoPid, Gone}
  BY WorkerAssumption
  DEF Tasks, ShutdownOne, ControlInv, AccountOK, ControlTypeOK, NoPid, Gone, Handles
<1>2. /\ Terminate(p, ok) /\ (ok \/ p \in Pids)
      /\ trans' = [trans EXCEPT ![a] = IF ok THEN NoTrans ELSE [pid |-> p, terminating |-> FALSE]]
      /\ reg' = [reg EXCEPT ![a] = NoPid]
      /\ resv' = [resv EXCEPT ![a] = NoTask]
      /\ task' = [Bumped(a) EXCEPT ![Watcher] = k]
      /\ UNCHANGED <<shop, runtime, lease, host, halted>>
  BY DEF ShutdownOne, Terminate
<1>3. Bumped(a)[Watcher] = task[Watcher]
  BY <1>1 DEF Bumped
<1>4. /\ k \in TaskRow /\ k.pc = "shutdown" /\ k.undo = task[Watcher].undo
      /\ k.bad = task[Watcher].bad /\ k.op = task[Watcher].op
  BY <1>1, <1>3 DEF TaskRow
<1> HIDE DEF k
<1>5. task' \in [Tasks -> TaskRow] /\ task'[Watcher] = k /\ OthersStand(Watcher)
  BY <1>1, <1>2, <1>4, BumpedTask DEF ControlTypeOK
<1>6. TaskOK(Watcher)' /\ StartsOn(Watcher)
  BY <1>1, <1>4, <1>5, WatcherAtEase, EaseIsOK
<1>7. p \in Pids => IsWorker(p, a) /\ a \in Managed
  BY <1>1 DEF HandlesOK, Managed, NoTrans
<1>8. P \in SUBSET Pids /\ (\A q \in P : IsWorker(q, a)) /\ Ended(P, {})
  BY <1>1, <1>2, <1>7, TerminateIs
<1>9. /\ trans'[a] = IF ok THEN NoTrans ELSE [pid |-> p, terminating |-> FALSE]
      /\ reg'[a] = NoPid /\ resv'[a] = NoTask /\ Beside(a) /\ RowsTyped
  BY <1>1, <1>2
  DEF ControlTypeOK, Handles, Claims, TransRow, NoTrans, Beside, RowsTyped
<1>10. /\ trans'[a].pid = IF ok THEN NoPid ELSE p
       /\ trans'[a].pid \in Pids => trans[a].pid \in Pids \/ reg[a] \in Pids
  BY <1>1, <1>2, <1>9 DEF NoTrans
<1> HIDE DEF P
<1>11. Kept(a, P)
  BY <1>1, <1>2, <1>9, <1>10 DEF Kept, P, NoTrans, HandlesOK
<1>12. \A q \in Pids : IsWorker(q, a)' <=> IsWorker(q, a) /\ q \notin P
  BY <1>1, <1>8, EndedIs
<1>13. HandlesOK(a)'
  BY <1>1, <1>7, <1>9, <1>10, <1>12 DEF HandlesOK, P
<1>14. ASSUME NEW q \in Pids, Apart(q, a)' PROVE runtime'[a].pid = q /\ a \notin Managed'
  <2>1. Apart(q, a)
    BY <1>1, <1>8, <1>11, <1>14, ApartStays
  <2>2. a \notin Managed /\ ok
    BY <1>1, <1>2, <1>7, <2>1 DEF AccountOK
  <2> QED BY <1>1, <1>2, <1>9, <2>1, <2>2 DEF AccountOK, Managed
<1> QED
  BY <1>1, <1>2, <1>5, <1>6, <1>8, <1>9, <1>10, <1>11, <1>13, <1>14, Moves DEF Kept

\* Maintenance ends the worker recorded in a row.
LEMMA EnterOrphanKeeps ==
    ASSUME ControlInv, NEW a \in Accounts, NEW ok \in BOOLEAN, EnterOrphan(a, ok)
    PROVE  ControlInv'
<1> DEFINE k == [task[Watcher] EXCEPT !.todo = @ \ {a}]
<1>1. /\ Watcher \in Tasks /\ task[Watcher] \in TaskRow /\ task[Watcher].pc = "orphans"
      /\ ControlTypeOK /\ AccountOK(a)
  BY DEF Tasks, EnterOrphan, ControlInv, ControlTypeOK
<1>2. /\ k \in TaskRow /\ k.pc = "orphans" /\ k.undo = task[Watcher].undo
      /\ k.bad = task[Watcher].bad /\ k.op = task[Watcher].op
  BY <1>1 DEF TaskRow
<1>a. task' = [task EXCEPT ![Watcher] = IF ok THEN k ELSE Idle]
  BY DEF EnterOrphan
<1>b. task' = [task EXCEPT ![Watcher] = k] \/ task' = [task EXCEPT ![Watcher] = Idle]
  BY <1>a
<1> HIDE DEF k
<1>3. PICK r \in {k, Idle} : task' = [task EXCEPT ![Watcher] = r]
  BY <1>b
<1>4. r \in TaskRow /\ AtEase(r)
  BY <1>1, <1>2, WatcherAtEase, RowsAtEase
<1>5. task' \in [Tasks -> TaskRow] /\ task'[Watcher] = r /\ OthersStand(Watcher)
  BY <1>1, <1>3, <1>4, NewTask DEF ControlTypeOK
<1>6. TaskOK(Watcher)' /\ StartsOn(Watcher)
  BY <1>4, <1>5, EaseIsOK
<1>7. PICK d : d = runtime[a].pid
  OBVIOUS
<1>8. RecordedEnds(a, d, ok) /\ UNCHANGED <<shop, runtime, lease, resv, host, halted>>
  BY <1>7 DEF EnterOrphan, RecordedEnds
<1>9. /\ d \in Pids \cup {NoPid} /\ runtime' \in [Accounts -> RuntimeRow]
      /\ \A b \in Accounts \ {a} : runtime'[b] = runtime[b]
      /\ halted' \subseteq Accounts
  BY <1>1, <1>7, <1>8 DEF ControlTypeOK, RuntimeRow
<1>10. \A p \in Pids : Apart(p, a) => d = p /\ runtime'[a].pid = p
  BY <1>1, <1>7, <1>8 DEF AccountOK
<1> QED
  BY <1>1, <1>5, <1>6, <1>8, <1>9, <1>10, RecordedMoves

\* The maintenance marker is set or cleared, which takes back the drain's answer.
LEMMA MaintainKeeps ==
    ASSUME ControlInv, Maintain
    PROVE  ControlInv'
<1> DEFINE k == [task[Watcher] EXCEPT !.row = FALSE]
<1>1. /\ ControlTypeOK /\ NoTask \notin Tasks /\ Watcher \in Tasks
      /\ task[Watcher] \in TaskRow
      /\ UNCHANGED <<shop, runtime, lease, os, reg, trans, resv, up, halted, lost>>
      /\ ~drained' /\ drained' \in BOOLEAN /\ marker' \in BOOLEAN
      /\ entered' \in {"no", "this", "earlier"}
      /\ task' = task \/ task' = [task EXCEPT ![Watcher] = k]
  BY WorkerAssumption DEF ControlInv, ControlTypeOK, Tasks, NoTask, Maintain, registry
<1>2. /\ k \in TaskRow /\ k.pc = task[Watcher].pc /\ k.acct = task[Watcher].acct
      /\ k.op = task[Watcher].op
      /\ k.undo = task[Watcher].undo /\ k.bad = task[Watcher].bad
      /\ k.conf = task[Watcher].conf /\ k.durable = task[Watcher].durable
      /\ k.local = task[Watcher].local
  BY <1>1 DEF TaskRow
<1> HIDE DEF k
<1>3. task' \in [Tasks -> TaskRow] /\ OthersStand(NoTask)
  <2>1. CASE task' = task
    BY <1>1, <2>1 DEF OthersStand, SameWork, ControlTypeOK
  <2>2. CASE task' = [task EXCEPT ![Watcher] = k]
    <3>1. /\ task' \in [Tasks -> TaskRow] /\ task'[Watcher] = k
          /\ \A s \in Tasks \ {Watcher} : task'[s] = task[s]
      BY <1>1, <1>2, <2>2, NewTask DEF ControlTypeOK
    <3> QED BY <1>2, <3>1 DEF OthersStand, SameWork
  <2> QED BY <1>1, <2>1, <2>2
<1>4. DrainOK'
  BY <1>1 DEF DrainOK
<1> QED BY <1>1, <1>3, <1>4, CalmMoves DEF ControlTypeOK

\* The drain endpoint answers ready only when nothing runs and nothing may start.
LEMMA DrainKeeps ==
    ASSUME ControlInv, Drain
    PROVE  ControlInv'
<1>1. /\ ControlTypeOK /\ NoTask \notin Tasks /\ marker
      /\ UNCHANGED <<shop, runtime, lease, os, reg, trans, resv, task, marker, entered, up,
                     halted, lost>>
      /\ drained' = TRUE /\ Workers = {} /\ \A a \in Accounts : lease[a] = NoTask
  BY WorkerAssumption DEF ControlInv, Tasks, NoTask, Drain, Drained, registry
<1>2. OthersStand(NoTask)
  BY <1>1 DEF OthersStand, SameWork
<1>3. ASSUME NEW t \in Tasks, task[t].pc \in Starting
      PROVE  task[t].op = "restore" /\ lease[task[t].acct] # t
  <2>1. WorkOK(t)
    BY <1>3 DEF ControlInv, TaskOK, AtEase, AtWork
  <2>2. t \in Threads => task[t].op \in {"none", "restore"}
    BY DEF Drain, Drained, InFlight
  <2> QED BY <1>1, <1>3, <2>1, <2>2 DEF WorkOK, Tasks
<1>4. DrainOK'
  BY <1>1, <1>3 DEF DrainOK, Workers
<1> QED BY <1>1, <1>2, <1>4, CalmMoves DEF ControlTypeOK

-----------------------------------------------------------------------------
(* The host.                                                               *)

\* The handle of a process that ended is dropped.
LEMMA ReapKeeps ==
    ASSUME ControlInv, Reap
    PROVE  ControlInv'
<1> DEFINE seen(s) == [task[s] EXCEPT !.fresh = FALSE]
<1>1. /\ ControlTypeOK /\ NoTask \notin Tasks
      /\ reg' = [a \in Accounts |-> IF reg[a] = Gone THEN NoPid ELSE reg[a]]
      /\ task' = [t \in Tasks |-> IF task[t].pc = "retry" /\ reg[task[t].acct] = Gone
                                  THEN seen(t) ELSE task[t]]
      /\ UNCHANGED <<shop, runtime, lease, os, trans, resv, marker, entered, up, drained,
                     halted, lost>>
  BY WorkerAssumption DEF ControlInv, Tasks, NoTask, Reap, host
<1>2. /\ reg' \in Handles
      /\ \A b \in Accounts : reg'[b] = reg[b] \/ (reg[b] = Gone /\ reg'[b] = NoPid)
  BY <1>1 DEF ControlTypeOK, Handles
<1>3. ASSUME NEW s \in Tasks
      PROVE  /\ task[s] \in TaskRow /\ seen(s) \in TaskRow
             /\ seen(s).pc = task[s].pc /\ seen(s).acct = task[s].acct /\ seen(s).op = task[s].op
             /\ seen(s).undo = task[s].undo /\ seen(s).bad = task[s].bad
             /\ seen(s).conf = task[s].conf /\ seen(s).durable = task[s].durable
             /\ seen(s).local = task[s].local
  <2>1. task[s] \in TaskRow
    BY <1>1 DEF ControlTypeOK
  <2> QED BY <2>1 DEF TaskRow
<1> HIDE DEF seen
<1>4. task' \in [Tasks -> TaskRow] /\ \A s \in Tasks : task'[s] \in {task[s], seen(s)}
  <2> HIDE DEF TaskRow
  <2> QED BY <1>1, <1>3
<1>5. OthersStand(NoTask)
  BY <1>3, <1>4 DEF OthersStand, SameWork
<1>6. Workers' = Workers
  BY <1>1 DEF Workers
<1>7. DrainOK'
  BY <1>1, <1>5, <1>6, DrainRests
<1> QED BY <1>1, <1>2, <1>4, <1>5, <1>7, CalmMoves DEF ControlTypeOK

\* The services start.
LEMMA BootedKeeps ==
    ASSUME ControlInv, Booted
    PROVE  ControlInv'
<1>1. Boot \in Tasks
  BY WorkerAssumption DEF Tasks
<1>2. PICK k \in {Idle, Restoring} : task' = [task EXCEPT ![Boot] = k]
  BY DEF Booted
<1>3. k \in TaskRow /\ AtEase(k)
  BY RowsAtEase
<1> QED BY <1>1, <1>2, <1>3, TaskSettles DEF Booted, host, ControlInv, ControlTypeOK

\* A worker that dies leaves dead handles.
LEMMA WorkerDiesKeeps ==
    ASSUME ControlInv, NEW p \in Pids, WorkerDies(p)
    PROVE  ControlInv'
<1>1. /\ ControlTypeOK /\ (\A b \in Accounts : HandlesOK(b)) /\ Gone \notin Pids
      /\ NoTask \notin Tasks
  BY WorkerAssumption DEF ControlInv, AccountOK, Gone, Tasks, NoTask
<1>2. PICK a \in Accounts : IsWorker(p, a)
  BY <1>1 DEF WorkerDies, ControlTypeOK, OsRow, IsWorker
<1>3. AccountOK(a)
  BY DEF ControlInv
<1>4. /\ UNCHANGED <<shop, runtime, lease, resv, task, host, halted>>
      /\ Ended({p}, {}) /\ Forgotten({p})
  BY <1>1 DEF WorkerDies, Killed, Disowned, Ended, Forgotten, ControlTypeOK
<1>5. /\ reg' \in Handles /\ trans' \in [Accounts -> TransRow] /\ HandlesOK(a)'
      /\ \A b \in Accounts \ {a} : reg'[b] = reg[b] /\ trans'[b] = trans[b]
      /\ reg'[a] = reg[a] \/ (reg'[a] = Gone /\ reg[a] \in {p})
      /\ trans'[a].pid = trans[a].pid \/ (trans'[a].pid = Gone /\ trans[a].pid \in {p})
      /\ trans[a] = NoTrans => trans'[a] = NoTrans
  BY <1>1, <1>2, <1>4, ForgottenIs
<1>6. RowsTyped /\ Beside(a)
  BY <1>1, <1>4, <1>5 DEF RowsTyped, Beside, ControlTypeOK
<1>7. Kept(a, {p})
  BY <1>5 DEF Kept
<1>8. ASSUME NEW q \in Pids, Apart(q, a)' PROVE runtime'[a].pid = q /\ a \notin Managed'
  <2>1. Apart(q, a)
    BY <1>1, <1>4, <1>7, <1>8, ApartStays
  <2>2. a \notin Managed /\ runtime[a].pid = q
    BY <1>3, <2>1 DEF AccountOK
  <2> QED BY <1>1, <1>4, <1>5, <2>2 DEF Managed
<1>9. OthersStand(NoTask)
  BY <1>4 DEF OthersStand, SameWork
<1> QED
  BY <1>1, <1>2, <1>4, <1>5, <1>6, <1>7, <1>8, <1>9, Moves DEF Kept, ControlTypeOK

\* Another program takes or frees a process id.
LEMMA OtherProcessKeeps ==
    ASSUME ControlInv, NEW p \in Pids, OtherProcess(p)
    PROVE  ControlInv'
<1>1. /\ ControlTypeOK /\ NoTask \notin Tasks /\ os[p] \in OsRow
      /\ UNCHANGED <<shop, runtime, lease, reg, trans, resv, task, marker, entered, up, drained,
                     halted, lost>>
  BY WorkerAssumption
  DEF ControlInv, ControlTypeOK, Tasks, NoTask, OtherProcess, host, registry
<1>2. /\ os[p].kind # "worker"
      /\ os' = [os EXCEPT ![p].kind = "other"] \/ os' = [os EXCEPT ![p] = Free]
  BY DEF OtherProcess, Free
<1>3. /\ [os[p] EXCEPT !.kind = "other"] \in OsRow /\ Free \in OsRow
      /\ [os[p] EXCEPT !.kind = "other"].kind = "other" /\ Free.kind = "free"
  BY <1>1, <1>2 DEF OsRow, Free, Modes
<1>4. PICK r \in OsRow : os' = [os EXCEPT ![p] = r] /\ r.kind # "worker"
  BY <1>2, <1>3
<1>5. /\ os' \in [Pids -> OsRow]
      /\ \A q \in Pids : os'[q] = os[q] \/ (os[q].kind # "worker" /\ os'[q].kind # "worker")
  BY <1>1, <1>2, <1>4 DEF ControlTypeOK
<1>6. OthersStand(NoTask)
  BY <1>1 DEF OthersStand, SameWork
<1>7. Workers' = Workers
  BY <1>5 DEF Workers
<1>8. DrainOK'
  BY <1>1, <1>6, <1>7, DrainRests
<1> QED BY <1>1, <1>5, <1>6, <1>8, CalmMoves DEF ControlTypeOK

\* The API starts with an empty registry.
LEMMA ApiStartsKeeps ==
    ASSUME ControlInv, NEW p \in Pids, ApiStarts(p)
    PROVE  ControlInv'
<1> DEFINE b == [Restoring EXCEPT !.pc = "boot"]
           w == IF marker THEN Entering ELSE Idle
           r == [os[p] EXCEPT !.kind = "api"]
<1>1. /\ ControlTypeOK /\ NoTask \notin Tasks /\ os[p] \in OsRow
      /\ Boot \in Tasks /\ Watcher \in Tasks /\ Boot # Watcher
      /\ UNCHANGED <<shop, runtime, lease, reg, trans, resv, marker, entered, drained,
                     halted, lost>>
      /\ up' = TRUE /\ os[p] = Free
      /\ task' = [task EXCEPT ![Boot] = b, ![Watcher] = w]
      /\ os' = [os EXCEPT ![p] = r]
  BY WorkerAssumption
  DEF ControlInv, ControlTypeOK, Tasks, NoTask, ApiStarts, registry
<1>2. b \in TaskRow /\ AtEase(b) /\ w \in TaskRow /\ AtEase(w)
  <2>1. /\ Restoring \in TaskRow /\ b = [Restoring EXCEPT !.pc = "boot"]
        /\ ~Restoring.undo /\ ~Restoring.bad /\ "boot" \in Pcs
        /\ Restoring.op \in {"none", "restore", "enter"}
    BY RowsAtEase DEF AtEase, Pcs
  <2>2. /\ b \in TaskRow /\ b.pc = "boot" /\ ~b.undo /\ ~b.bad
        /\ b.op \in {"none", "restore", "enter"}
    BY <2>1 DEF TaskRow
  <2>3. AtEase(b)
    BY <2>2 DEF AtEase, AtWork, Starting, Stopping
  <2>4. w \in TaskRow /\ AtEase(w)
    BY RowsAtEase
  <2> QED BY <2>2, <2>3, <2>4
<1>3. r \in OsRow /\ r.kind = "api" /\ os[p].kind = "free"
  BY <1>1 DEF OsRow, Free
<1> HIDE DEF b, w, r
<1>4. /\ task' \in [Tasks -> TaskRow]
      /\ \A s \in Tasks : task'[s] = task[s] \/ AtEase(task'[s])
  <2>1. \A s \in Tasks : task[s] \in TaskRow
    BY <1>1 DEF ControlTypeOK
  <2> HIDE DEF TaskRow
  <2> QED BY <1>1, <1>2, <2>1 DEF ControlTypeOK
<1>5. OthersStand(NoTask)
  BY <1>4 DEF OthersStand, SameWork
<1>6. /\ os' \in [Pids -> OsRow]
      /\ \A q \in Pids : os'[q] = os[q] \/ (os[q].kind # "worker" /\ os'[q].kind # "worker")
  BY <1>1, <1>3 DEF ControlTypeOK
<1>7. Workers' = Workers
  BY <1>6 DEF Workers
<1>8. DrainOK'
  BY <1>1, <1>5, <1>7, DrainRests
<1> QED BY <1>1, <1>4, <1>5, <1>6, <1>8, CalmMoves DEF ControlTypeOK

\* A lease runs out, whatever its owner is doing, and nothing is given to another.
LEMMA LeaseExpiresKeeps ==
    ASSUME ControlInv, NEW a \in Accounts, LeaseExpires(a)
    PROVE  ControlInv'
<1>1. /\ ControlTypeOK /\ NoTask \notin Tasks
      /\ UNCHANGED <<shop, runtime, os, reg, trans, resv, task, marker, entered, up, drained,
                     halted, lost>>
      /\ lease' = [lease EXCEPT ![a] = NoTask]
  BY WorkerAssumption
  DEF ControlInv, Tasks, NoTask, LeaseExpires, host, registry
<1>2. /\ Workers' = Workers
      /\ \A p \in Pids : \A b : /\ IsWorker(p, b)' <=> IsWorker(p, b)
                                /\ Apart(p, b)' <=> Apart(p, b)
  BY <1>1 DEF Workers, IsWorker, Apart
<1>3. lease' \in Leases /\ lease'[a] = NoTask /\ \A b \in Accounts \ {a} : lease'[b] = lease[b]
  BY <1>1 DEF ControlTypeOK, Leases
<1>4. OthersStand(NoTask)
  BY <1>1 DEF OthersStand, SameWork
<1>5. Elsewhere(a)
  BY <1>1, <1>2, <1>3 DEF Elsewhere, SameRow
<1>6. AccountOK(a)'
  <2>1. AccountOK(a) /\ (a \in Managed' <=> a \in Managed)
    BY <1>1 DEF ControlInv, Managed
  <2>2. HandlesOK(a)'
    BY <1>1, <1>2, <2>1 DEF AccountOK, HandlesOK, IsWorker
  <2> QED BY <1>1, <1>2, <2>1, <2>2 DEF AccountOK
<1>7. Here(NoTask, a)
  BY <1>1, <1>2, <1>3 DEF Here
<1>8. ControlTypeOK'
  BY <1>1, <1>2, <1>3 DEF ControlTypeOK
<1>9. DrainOK'
  <2>1. \A b \in Accounts, s \in Tasks : lease'[b] = s => lease[b] = s
    BY <1>1, <1>3
  <2> QED BY <1>1, <1>2, <1>4, <2>1, DrainRests
<1>10. StepIsGood(NoTask, a)
  BY <1>1, <1>4, <1>5, <1>6, <1>7 DEF StepIsGood
<1> QED BY <1>8, <1>9, <1>10, GoodSteps

\* A login is lost or a shop connected.
LEMMA ShopMoves ==
    ASSUME ControlInv, NEW a \in Accounts, LoginLost(a) \/ Connect(a)
    PROVE  ControlInv'
<1>1. /\ ControlTypeOK /\ NoTask \notin Tasks /\ shop[a] \in ShopRow
      /\ UNCHANGED <<runtime, lease, os, reg, trans, resv, task, marker, entered, up, drained,
                     halted, lost>>
  BY WorkerAssumption
  DEF ControlInv, ControlTypeOK, Tasks, NoTask, LoginLost, Connect, host, registry
<1>2. /\ [shop[a] EXCEPT !.connected = FALSE] \in ShopRow
      /\ [shop[a] EXCEPT !.connected = TRUE] \in ShopRow
      /\ [shop[a] EXCEPT !.reauth = TRUE] \in ShopRow
  BY <1>1 DEF ShopRow
<1>3. shop' \in [Accounts -> ShopRow]
  BY <1>1, <1>2 DEF LoginLost, Connect, ControlTypeOK
<1>4. OthersStand(NoTask) /\ Workers' = Workers
  BY <1>1 DEF OthersStand, SameWork, Workers
<1>5. DrainOK'
  BY <1>1, <1>4, DrainRests
<1> QED BY <1>1, <1>3, <1>4, <1>5, CalmMoves DEF ControlTypeOK

\* A worker that outlives the API is in its account's row, or beyond the next API's reach.
LEMMA ApiDiesKeeps ==
    ASSUME ControlInv, NEW group \in BOOLEAN, ApiDies(group)
    PROVE  ControlInv'
<1>1. /\ ControlTypeOK /\ NoPid \notin Pids
      /\ UNCHANGED <<shop, runtime, marker, drained, halted>>
      /\ up' = FALSE /\ entered' = "no"
  BY WorkerAssumption DEF ControlInv, NoPid, ApiDies
<1>2. /\ reg' = [b \in Accounts |-> NoPid] /\ trans' = [b \in Accounts |-> NoTrans]
      /\ resv' = [b \in Accounts |-> NoTask] /\ task' = [s \in Tasks |-> Idle]
      /\ lease' = [b \in Accounts |-> IF lease[b] = NoTask THEN NoTask ELSE DeadTask]
      /\ os' = [p \in Pids |-> IF os[p].kind = "api" \/ (group /\ os[p].kind = "worker")
                               THEN Free ELSE os[p]]
  BY DEF ApiDies
<1>3. /\ reg' \in Handles /\ trans' \in [Accounts -> TransRow] /\ resv' \in Claims
      /\ lease' \in Leases
  BY <1>2 DEF Handles, TransRow, NoTrans, Claims, Leases
<1>4. task' \in [Tasks -> TaskRow] /\ \A s \in Tasks : AtEase(task'[s])
  <2> HIDE DEF TaskRow
  <2> QED BY <1>2, RowsAtEase
<1>5. Free \in OsRow
  BY DEF Free, OsRow, Modes
<1>6. /\ os' \in [Pids -> OsRow]
      /\ \A p \in Pids : \A b : IsWorker(p, b)' <=> IsWorker(p, b) /\ ~group
      /\ Workers' = IF group THEN {} ELSE Workers
  BY <1>1, <1>2, <1>5 DEF ControlTypeOK, IsWorker, Workers, Free
<1>7. lost' = IF group THEN {}
              ELSE lost \cup {p \in Workers :
                                \A b \in Accounts : IsWorker(p, b) => runtime[b].pid # p}
  BY DEF ApiDies
<1>8. lost' \subseteq Workers' /\ (~group => lost \subseteq lost')
  BY <1>1, <1>6, <1>7 DEF ControlTypeOK
<1>9. ControlTypeOK'
  BY <1>1, <1>3, <1>4, <1>6, <1>8 DEF ControlTypeOK
<1>10. ASSUME NEW b \in Accounts PROVE AccountOK(b)'
  <2>1. reg'[b] = NoPid /\ trans'[b] = NoTrans /\ resv'[b] = NoTask
    BY <1>2
  <2>2. HandlesOK(b)'
    BY <1>1, <2>1 DEF HandlesOK, NoTrans
  <2>3. AccountOK(b)
    BY DEF ControlInv
  <2>4. ASSUME NEW p \in Pids, Apart(p, b)' PROVE runtime'[b].pid = p /\ b \notin Managed'
    <3>1. IsWorker(p, b) /\ ~group /\ p \in Workers /\ p \notin lost'
      BY <1>6, <2>4 DEF Apart, IsWorker, Workers
    <3>2. PICK c \in Accounts : IsWorker(p, c) /\ runtime[c].pid = p
      BY <1>7, <3>1
    <3>3. c = b
      BY <3>1, <3>2 DEF IsWorker
    <3>4. b \notin Managed'
      BY <1>1, <2>1 DEF Managed
    <3> QED BY <1>1, <3>2, <3>3, <3>4
  <2> QED BY <2>2, <2>4 DEF AccountOK
<1>11. \A s \in Tasks : TaskOK(s)' /\ task'[s].pc \notin Starting
  BY <1>4, EaseIsOK
<1>12. DrainOK'
  BY <1>1, <1>6, <1>11 DEF ControlInv, DrainOK
<1> QED BY <1>9, <1>10, <1>11, <1>12 DEF ControlInv

-----------------------------------------------------------------------------
(* Stops.  The lease of an account carries them: whoever works on it with  *)
(* the lease and may start a worker knows that the account is not halted,  *)
(* and whoever stops it with the lease finds what is left to another.  A   *)
(* task whose lease ran out may still have launched a worker; until it has *)
(* ended or recorded it, it is the excuse for it.                          *)

Lapsed(s, a) == task[s].acct = a /\ lease[a] # s

\* Such a task, before it ends the worker, and while it does.
Ending(s, a) == Lapsed(s, a) /\ (task[s].pc = "started" \/ (task[s].undo /\ task[s].pc = "stop"))

Parting(s, a) ==
    Lapsed(s, a) /\ (task[s].pc = "started" \/ (task[s].undo /\ task[s].pc \in {"stop", "local"}))

RegOK(a) == reg[a] \in Pids => \E s \in Tasks : Ending(s, a)

TransOK(a) == trans[a].pid \in Pids => \E s \in Tasks : Parting(s, a)

\* The row of an account that is to stay stopped.
Resting(a) == runtime[a].desired = "stopped" /\ ~runtime[a].auto /\ runtime[a].pid = NoPid

HaltOK(a) == a \in halted => Resting(a) /\ RegOK(a) /\ TransOK(a)

\* An operation that may start a worker.
Resumes(k) == k.op \in {"start", "restore"} \/ (k.op = "auto" /\ k.pc # "check")

Wakes(t) == Resumes(task[t]) \/ task[t].acct \notin halted

\* A stop in which every process has been ended so far.
Confirms(k) == k.pc \in Stopping /\ (k.conf \/ k.pc = "local") /\ ~k.spoilt

\* The owner of a lease.
OwnerOK(t) ==
    LET k == task[t]
        a == k.acct
    IN  /\ k.bad => k.op # "start"
        /\ AtWork(k) /\ lease[a] = t =>
              /\ Resumes(k) => a \notin halted
              /\ Confirms(k) => RegOK(a) /\ (k.pc # "local" => TransOK(a))

HaltInv ==
    /\ \A a \in Accounts : HaltOK(a)
    /\ \A t \in Tasks : OwnerOK(t)

\* No thread works while the API is down.
UpOK == up \/ \A t \in Tasks : task[t].pc = "idle"

-----------------------------------------------------------------------------
(* What a step of one task owes to stops.                                  *)

Stands(s) == SameWork(s) /\ (task[s].spoilt => task'[s].spoilt)

OthersGo(t) == \A s \in Tasks \ {t} : Stands(s)

\* No handle appears, but one may go from the registry into a transition.
NoneNew(b) ==
    /\ reg'[b] \in Pids => reg'[b] = reg[b]
    /\ trans'[b].pid \in Pids => trans'[b].pid \in {trans[b].pid, reg[b]}

\* The handles of an account still have their excuses.
Spares(a) == (RegOK(a) => RegOK(a)') /\ (RegOK(a) /\ TransOK(a) => TransOK(a)')

\* Excuses go with their handles, and a handle on its way from the registry into a transition
\* keeps its excuse.
LEMMA SparedIs ==
    ASSUME NEW t, NEW a, OthersGo(t),
           \A s \in Tasks \ {t} : lease'[a] = s => lease[a] = s,
           reg'[a] \in Pids => reg'[a] = reg[a] \/ (t \in Tasks /\ Ending(t, a)'),
           trans'[a].pid \in Pids => trans'[a].pid \in {trans[a].pid, reg[a]},
           t \in Tasks /\ Ending(t, a) => Ending(t, a)' \/ reg'[a] \notin Pids,
           t \in Tasks /\ Parting(t, a) => Parting(t, a)' \/ trans'[a].pid \notin Pids
    PROVE  Spares(a)
<1>1. ASSUME NEW s \in Tasks \ {t}
      PROVE  (Ending(s, a) => Ending(s, a)') /\ (Parting(s, a) => Parting(s, a)')
  BY DEF OthersGo, Stands, SameWork, Ending, Parting, Lapsed
<1>2. RegOK(a) => RegOK(a)'
  <2> SUFFICES ASSUME RegOK(a), reg'[a] \in Pids PROVE \E s \in Tasks : Ending(s, a)'
    BY DEF RegOK
  <2>1. CASE t \in Tasks /\ Ending(t, a)'
    BY <2>1
  <2>2. CASE reg'[a] = reg[a]
    BY <1>1, <2>2 DEF RegOK
  <2> QED BY <2>1, <2>2
<1>3. RegOK(a) /\ TransOK(a) => TransOK(a)'
  <2> SUFFICES ASSUME RegOK(a), TransOK(a), trans'[a].pid \in Pids
               PROVE  \E s \in Tasks : Parting(s, a)'
    BY DEF TransOK
  <2>1. PICK s \in Tasks : Parting(s, a)
    BY DEF RegOK, TransOK, Ending, Parting
  <2> QED BY <1>1, <2>1
<1> QED BY <1>2, <1>3 DEF Spares

\* The frame of the steps that concern one account.
LEMMA HaltMoves ==
    ASSUME ControlInv, HaltInv, NEW t, NEW a \in Accounts, OthersGo(t),
           \A s \in Tasks \ {t}, b \in Accounts : lease'[b] = s => lease[b] = s,
           t \in Tasks => OwnerOK(t)' /\ \A b \in Accounts \ {a} : ~Parting(t, b),
           \A b \in Accounts \ {a} : runtime'[b] = runtime[b] /\ NoneNew(b),
           halted' \subseteq halted \cup {a},
           a \in halted' => Resting(a)' /\ RegOK(a)' /\ TransOK(a)',
           \/ Spares(a) /\ halted' \subseteq halted
           \/ \A s \in Tasks \ {t} : lease'[a] = s /\ task'[s].acct = a =>
                 task'[s].spoilt /\ a \notin halted'
    PROVE  HaltInv'
<1>1. ASSUME NEW b \in Accounts \ {a} PROVE Spares(b)
  <2>1. t \in Tasks => ~Parting(t, b) /\ ~Ending(t, b)
    BY DEF Parting, Ending
  <2> QED BY <2>1, SparedIs DEF NoneNew
<1>2. ASSUME NEW b \in Accounts PROVE HaltOK(b)'
  <2>1. CASE b = a
    BY <2>1 DEF HaltOK
  <2>2. CASE b # a
    BY <1>1, <2>2 DEF HaltOK, HaltInv, Spares, Resting
  <2> QED BY <2>1, <2>2
<1>3. ASSUME NEW s \in Tasks \ {t} PROVE OwnerOK(s)'
  <2> DEFINE b == task[s].acct
  <2>1. Stands(s) /\ SameWork(s) /\ OwnerOK(s)
    BY DEF OthersGo, Stands, HaltInv
  <2>2. /\ task'[s].acct = b /\ (AtWork(task'[s]) <=> AtWork(task[s]))
        /\ (Resumes(task'[s]) <=> Resumes(task[s]))
        /\ (Confirms(task'[s]) => Confirms(task[s]) /\ ~task'[s].spoilt)
        /\ task'[s].pc = task[s].pc
    BY <2>1 DEF Stands, SameWork, AtWork, Resumes, Confirms
  <2>3. CASE ~(AtWork(task'[s]) /\ lease'[b] = s)
    BY <2>1, <2>2, <2>3 DEF OwnerOK, SameWork
  <2>4. CASE AtWork(task'[s]) /\ lease'[b] = s
    <3>1. b \in Accounts
      BY <2>2, <2>4, AtWorkIs
    <3>2. /\ Resumes(task[s]) => b \notin halted
          /\ Confirms(task[s]) => RegOK(b) /\ (task[s].pc # "local" => TransOK(b))
          /\ task[s].bad => task[s].op # "start"
      BY <2>1, <2>2, <2>4, <3>1 DEF OwnerOK
    <3>3. CASE Spares(b) /\ (b \in halted' => b \in halted)
      BY <2>1, <2>2, <3>2, <3>3 DEF OwnerOK, Spares, SameWork
    <3>4. CASE b = a /\ task'[s].spoilt /\ a \notin halted'
      BY <2>1, <2>2, <3>2, <3>4 DEF OwnerOK, SameWork
    <3> QED BY <1>1, <2>2, <2>4, <3>1, <3>3, <3>4
  <2> QED BY <2>3, <2>4
<1> QED BY <1>2, <1>3 DEF HaltInv

\* The frame of a thread's steps in which it is no excuse and no handle appears.
LEMMA ThreadHalts ==
    ASSUME ControlInv, HaltInv, NEW t \in Tasks, NEW a \in Accounts, a = task[t].acct,
           ~Parting(t, a), OthersGo(t), OwnerOK(t)',
           lease' = lease \/ lease' = Released(t),
           \A b \in Accounts \ {a} : runtime'[b] = runtime[b],
           \A b \in Accounts : NoneNew(b),
           halted' \subseteq halted, a \in halted' => Resting(a)'
    PROVE  HaltInv'
<1>1. \A s \in Tasks, b \in Accounts : lease'[b] = s => lease[b] = s
  BY WorkerAssumption DEF Released, ControlInv, ControlTypeOK, Leases, Tasks, NoTask
<1>2. \A b \in Accounts \ {a} : ~Parting(t, b)
  BY DEF Parting, Lapsed
<1>3. Spares(a)
  <2>1. ~Ending(t, a)
    BY DEF Parting, Ending
  <2> QED BY <1>1, <2>1, SparedIs DEF NoneNew
<1>4. a \in halted' => RegOK(a)' /\ TransOK(a)'
  BY <1>3 DEF Spares, HaltInv, HaltOK
<1> QED BY <1>1, <1>2, <1>3, <1>4, HaltMoves

\* One task goes on; the others learn at most that a generation changed.
LEMMA OthersGoOn ==
    ASSUME ControlTypeOK, NEW t \in Tasks, NEW a, NEW k,
           task' = [task EXCEPT ![t] = k] \/ task' = [Bumped(a) EXCEPT ![t] = k]
    PROVE  task'[t] = k /\ OthersGo(t)
<1> DEFINE seen(s) == [task[s] EXCEPT !.fresh = FALSE]
<1>1. \A s \in Tasks : task[s] \in TaskRow
  BY DEF ControlTypeOK
<1>2. ASSUME NEW s \in Tasks
      PROVE  /\ seen(s).pc = task[s].pc /\ seen(s).acct = task[s].acct /\ seen(s).op = task[s].op
             /\ seen(s).undo = task[s].undo /\ seen(s).bad = task[s].bad
             /\ seen(s).conf = task[s].conf /\ seen(s).durable = task[s].durable
             /\ seen(s).local = task[s].local /\ seen(s).spoilt = task[s].spoilt
  BY <1>1 DEF TaskRow
<1>3. \A s \in Tasks : Bumped(a)[s] = task[s] \/ Bumped(a)[s] = seen(s)
  BY DEF Bumped
<1> HIDE DEF seen
<1>4. task'[t] = k /\ \A s \in Tasks \ {t} : task'[s] = task[s] \/ task'[s] = seen(s)
  <2>1. DOMAIN task = Tasks /\ DOMAIN Bumped(a) = Tasks
    BY DEF ControlTypeOK, Bumped
  <2> QED BY <1>3, <2>1
<1> QED BY <1>2, <1>4 DEF OthersGo, Stands, SameWork

\* A task that works on nothing owes nothing.
LEMMA OwnerEases ==
    ASSUME NEW t, AtEase(task'[t])
    PROVE  OwnerOK(t)'
BY DEF AtEase, AtWork, OwnerOK

\* The end of an operation gives the lease back.
LEMMA FinishGoes ==
    ASSUME ControlTypeOK, NEW t \in Tasks, Finish(t), task[t].acct \in Accounts
    PROVE  OthersGo(t) /\ OwnerOK(t)' /\ lease' = Released(t)
<1>1. PICK k : task' = [task EXCEPT ![t] = k]
  BY DEF Finish
<1> QED BY <1>1, OthersGoOn, FinishIs, OwnerEases

\* An operation that may start a worker goes on.
LEMMA OwnerGoesOn ==
    ASSUME HaltInv, NEW t \in Tasks, AtWork(task[t]), Wakes(t), halted' \subseteq halted,
           task'[t].acct = task[t].acct, task'[t].op = task[t].op,
           \A b \in Accounts : lease'[b] = t => lease[b] = t, task[t].acct \in Accounts,
           task'[t].bad => task[t].op # "start",
           task'[t].pc \notin Stopping
    PROVE  OwnerOK(t)'
BY DEF OwnerOK, HaltInv, Confirms, Wakes

\* What an operation that may start a worker writes of a halted account leaves it halted, or is
\* one without its lease and takes it out of those that hold.
LEMMA HeedsRest ==
    ASSUME ControlInv, HaltInv, NEW t \in Tasks, NEW a, a = task[t].acct, AtWork(task[t]),
           Wakes(t), Heeds(t), runtime' \in [Accounts -> RuntimeRow],
           runtime'[a].auto = runtime[a].auto,
           task[t].op = "start" => runtime'[a].desired \in {runtime[a].desired, "stopped"}
    PROVE  halted' \subseteq halted /\ (a \in halted' => Resting(a)')
<1>1. a \in Accounts
  BY AtWorkIs
<1>2. halted' \subseteq halted
  BY DEF Heeds
<1>3. ASSUME a \in halted' PROVE Resting(a)'
  <2>1. a \in halted /\ Resting(a)
    BY <1>1, <1>2, <1>3 DEF HaltInv, HaltOK
  <2>2. ~Owned(t)
    BY <2>1 DEF Owned, HaltInv, OwnerOK, Wakes
  <2>3. IF runtime'[a].desired = "running" THEN task[t].op = "start" ELSE runtime'[a].pid = NoPid
    BY <1>3, <2>1, <2>2 DEF Heeds
  <2>4. runtime'[a] \in RuntimeRow
    BY <1>1
  <2> QED BY <2>1, <2>3, <2>4 DEF Resting, RuntimeRow
<1> QED BY <1>2, <1>3

\* The row when nothing of it was written.
LEMMA RowStays ==
    ASSUME ControlInv, UNCHANGED runtime
    PROVE  runtime' \in [Accounts -> RuntimeRow]
BY DEF ControlInv, ControlTypeOK

\* It ends.
LEMMA EndHalts ==
    ASSUME ControlInv, HaltInv, NEW t \in Tasks, NEW a, a = task[t].acct, AtWork(task[t]),
           Wakes(t), task[t].pc \notin {"started", "stop", "local"},
           Finish(t), runtime' \in [Accounts -> RuntimeRow],
           \A b \in Accounts \ {a} : runtime'[b] = runtime[b],
           runtime'[a].auto = runtime[a].auto,
           task[t].op = "start" => runtime'[a].desired \in {runtime[a].desired, "stopped"},
           Heeds(t), \A b \in Accounts : NoneNew(b)
    PROVE  HaltInv'
<1>1. a \in Accounts /\ ControlTypeOK
  BY AtWorkIs
<1>2. ~Parting(t, a)
  BY DEF Parting
<1>3. halted' \subseteq halted /\ (a \in halted' => Resting(a)')
  BY HeedsRest
<1> QED BY <1>1, <1>2, <1>3, FinishGoes, ThreadHalts

\* A start that reached no process.
LEMMA FailedHalts ==
    ASSUME ControlInv, HaltInv, NEW t \in Tasks, NEW a, a = task[t].acct, AtWork(task[t]),
           Wakes(t), task[t].pc \notin {"started", "stop", "local"},
           task[t].op \in {"start", "auto", "restore"},
           StartFailed(t) \/ (Finish(t) /\ UNCHANGED runtime),
           Heeds(t), \A b \in Accounts : NoneNew(b)
    PROVE  HaltInv'
<1>1. a \in Accounts /\ task[t] \in TaskRow /\ ControlTypeOK
  BY AtWorkIs
<1>2. ~Parting(t, a)
  BY DEF Parting
<1>3. CASE Finish(t) /\ UNCHANGED runtime
  BY <1>1, <1>3, RowStays, EndHalts
<1>4. CASE task[t].op = "auto" /\ Finish(t) /\ Observe(t, "running", "degraded", ProcessId(a))
  <2>1. /\ runtime' \in [Accounts -> RuntimeRow]
        /\ \A b \in Accounts \ {a} : runtime'[b] = runtime[b]
        /\ runtime'[a].auto = runtime[a].auto
    BY <1>1, <1>4, ProcessIdIs, ObserveIs
  <2> QED BY <1>4, <2>1, EndHalts
<1>5. CASE /\ task[t].op = "restore" /\ UNCHANGED <<lease, runtime>>
           /\ task' = [task EXCEPT ![t].pc = "stop", ![t].undo = TRUE]
  <2> DEFINE k == [task[t] EXCEPT !.pc = "stop", !.undo = TRUE]
  <2>1. k.acct = a /\ k.op = "restore" /\ k.pc = "stop"
    BY <1>1, <1>5 DEF TaskRow
  <2>2. task' = [task EXCEPT ![t] = k]
    BY <1>5
  <2> HIDE DEF k
  <2>3. task'[t] = k /\ OthersGo(t)
    BY <1>1, <2>2, OthersGoOn
  <2>4. halted' \subseteq halted /\ (a \in halted' => Resting(a)')
    BY <1>5, HeedsRest, RowStays
  <2>5. OwnerOK(t)'
    BY <1>1, <1>5, <2>1, <2>3, <2>4, OwnerGoesOn DEF Stopping
  <2> QED BY <1>1, <1>2, <1>5, <2>3, <2>4, <2>5, ThreadHalts
<1> QED BY <1>3, <1>4, <1>5 DEF StartFailed

\* An operation that may start a worker takes its next step.
LEMMA StepHalts ==
    ASSUME ControlInv, HaltInv, NEW t \in Tasks, NEW a, a = task[t].acct, AtWork(task[t]),
           Wakes(t), task[t].pc \notin {"started", "stop", "local"},
           NEW k \in TaskRow, k.acct = a, k.op = task[t].op, k.pc \notin Stopping,
           k.bad => task[t].op # "start",
           task' = [task EXCEPT ![t] = k] \/ task' = [Bumped(a) EXCEPT ![t] = k],
           lease' = lease, runtime' \in [Accounts -> RuntimeRow],
           \A b \in Accounts \ {a} : runtime'[b] = runtime[b],
           runtime'[a].auto = runtime[a].auto,
           task[t].op = "start" => runtime'[a].desired \in {runtime[a].desired, "stopped"},
           Heeds(t), \A b \in Accounts : NoneNew(b)
    PROVE  HaltInv'
<1>1. a \in Accounts /\ ControlTypeOK
  BY AtWorkIs
<1>2. ~Parting(t, a)
  BY DEF Parting
<1>3. task'[t] = k /\ OthersGo(t)
  BY <1>1, OthersGoOn
<1>4. halted' \subseteq halted /\ (a \in halted' => Resting(a)')
  BY HeedsRest
<1>5. OwnerOK(t)'
  BY <1>1, <1>3, <1>4, OwnerGoesOn
<1> QED BY <1>1, <1>2, <1>3, <1>4, <1>5, ThreadHalts

\* A step of the owner on an account that is not halted.
LEMMA OwnedHalts ==
    ASSUME ControlInv, HaltInv, NEW t \in Tasks, NEW a \in Accounts, a = task[t].acct,
           Owned(t), a \notin halted, halted' \subseteq halted, OthersGo(t), OwnerOK(t)',
           lease' = lease \/ lease' = Released(t),
           \A b \in Accounts \ {a} : runtime'[b] = runtime[b] /\ NoneNew(b)
    PROVE  HaltInv'
<1>1. \A s \in Tasks, b \in Accounts : lease'[b] = s => lease[b] = s
  BY WorkerAssumption DEF Released, ControlInv, ControlTypeOK, Leases, Tasks, NoTask
<1>2. \A b \in Accounts \ {a} : ~Parting(t, b)
  BY DEF Parting, Lapsed
<1>3. \A s \in Tasks \ {t} : lease'[a] # s
  BY <1>1 DEF Owned
<1> QED BY <1>1, <1>2, <1>3, HaltMoves

\* A worker is launched, or found: with the lease the account is not halted, and without it
\* the task is the excuse for the worker.
LEMMA LaunchHalts ==
    ASSUME ControlInv, HaltInv, NEW t \in Tasks, NEW a, a = task[t].acct, AtWork(task[t]),
           Resumes(task[t]), task[t].pc \notin {"started", "stop", "local"},
           NEW k \in TaskRow, k.acct = a, k.op = task[t].op, k.pc = "started",
           k.bad = task[t].bad,
           task' = [task EXCEPT ![t] = k] \/ task' = [Bumped(a) EXCEPT ![t] = k],
           UNCHANGED <<lease, runtime, trans>>, Heeds(t),
           \A b \in Accounts \ {a} : NoneNew(b)
    PROVE  HaltInv'
<1>1. a \in Accounts /\ ControlTypeOK
  BY AtWorkIs
<1>2. ~Parting(t, a) /\ ~Ending(t, a) /\ \A b \in Accounts \ {a} : ~Parting(t, b)
  BY DEF Parting, Ending, Lapsed
<1>3. task'[t] = k /\ OthersGo(t)
  BY <1>1, OthersGoOn
<1>4. halted' \subseteq halted /\ (a \in halted' => Resting(a)')
  BY HeedsRest, RowStays DEF Wakes
<1>5. OwnerOK(t)'
  <2>1. k.bad => k.op # "start"
    BY DEF HaltInv, OwnerOK
  <2> QED BY <1>1, <1>3, <1>4, <2>1, OwnerGoesOn DEF Wakes, Stopping
<1>6. CASE Owned(t)
  <2>1. a \notin halted
    BY <1>6 DEF HaltInv, OwnerOK, Owned
  <2> QED BY <1>1, <1>3, <1>4, <1>5, <1>6, <2>1, OwnedHalts
<1>7. CASE ~Owned(t)
  <2>1. Ending(t, a)'
    BY <1>3, <1>7 DEF Ending, Lapsed, Owned
  <2>2. Spares(a)
    BY <1>2, <1>3, <2>1, SparedIs
  <2>3. a \in halted' => RegOK(a)' /\ TransOK(a)'
    BY <1>1, <1>4, <2>2 DEF Spares, HaltInv, HaltOK
  <2> QED BY <1>1, <1>2, <1>3, <1>4, <1>5, <2>2, <2>3, HaltMoves
<1> QED BY <1>6, <1>7

\* Ending a recorded process takes handles away.
LEMMA TerminatePidTakes ==
    ASSUME NEW p, NEW a, NEW ok, TerminatePid(p, a, ok), ControlTypeOK
    PROVE  \A b \in Accounts : NoneNew(b)
<1>1. CASE UNCHANGED <<reg, trans>>
  BY <1>1 DEF NoneNew
<1>2. CASE Disowned(p)
  <2>1. Gone \notin Pids /\ \A b \in Accounts : trans[b] \in TransRow
    BY WorkerAssumption DEF Gone, ControlTypeOK
  <2>2. \A b \in Accounts : trans'[b] = trans[b] \/ trans'[b].pid = Gone
    BY <1>2, <2>1 DEF Disowned, TransRow
  <2>3. \A b \in Accounts : reg'[b] = reg[b] \/ reg'[b] = Gone
    BY <1>2 DEF Disowned
  <2> QED BY <2>1, <2>2, <2>3 DEF NoneNew
<1> QED BY <1>1, <1>2 DEF TerminatePid

\* A transition that is tried again keeps its process or is over.
LEMMA TransEnds ==
    ASSUME ControlTypeOK, NEW a \in Accounts, NEW ok,
           trans' = [trans EXCEPT ![a] = IF ok THEN NoTrans ELSE [@ EXCEPT !.terminating = FALSE]],
           UNCHANGED reg
    PROVE  \A b \in Accounts : NoneNew(b)
<1>1. NoPid \notin Pids /\ \A b \in Accounts : trans[b] \in TransRow
  BY WorkerAssumption DEF NoPid, ControlTypeOK
<1>2. ASSUME NEW b \in Accounts PROVE trans'[b].pid \in {trans[b].pid, NoPid}
  <2>1. [trans[b] EXCEPT !.terminating = FALSE].pid = trans[b].pid
    BY <1>1 DEF TransRow
  <2> QED BY <1>1, <2>1 DEF NoTrans, ControlTypeOK
<1> QED BY <1>1, <1>2 DEF NoneNew

\* The checks before a start.
LEMMA CheckStartHalts ==
    ASSUME ControlInv, HaltInv, NEW t \in Tasks, NEW a, a = task[t].acct, NEW valid \in BOOLEAN,
           CheckStart(t, valid)
    PROVE  HaltInv'
<1>1. /\ AtWork(task[t]) /\ task[t].pc = "check" /\ task[t].op \in {"start", "auto"}
      /\ UNCHANGED <<reg, trans>> /\ Heeds(t)
  BY DEF CheckStart, AtWork, registry
<1>2. a \in Accounts /\ task[t] \in TaskRow /\ ControlTypeOK
  BY <1>1, AtWorkIs
<1>3. \A b \in Accounts : NoneNew(b)
  BY <1>1 DEF NoneNew
<1>4. halted' \subseteq halted /\ ~Parting(t, a)
  BY <1>1 DEF Heeds, Parting
<1>5. CASE Finish(t) /\ UNCHANGED runtime
  <2>1. a \in halted' => Resting(a)'
    BY <1>2, <1>4, <1>5 DEF HaltInv, HaltOK, Resting
  <2> QED BY <1>2, <1>3, <1>4, <1>5, <2>1, FinishGoes, ThreadHalts
<1>6. CASE /\ runtime[a].desired = "running" /\ Finish(t)
           /\ Persist(a, "running", "degraded", ProcessId(a))
  <2>1. a \notin halted'
    BY <1>2, <1>4, <1>6 DEF HaltInv, HaltOK, Resting
  <2>2. \A b \in Accounts \ {a} : runtime'[b] = runtime[b]
    BY <1>2, <1>6, ProcessIdIs, PersistIs
  <2> QED BY <1>2, <1>3, <1>4, <1>6, <2>1, <2>2, FinishGoes, ThreadHalts
<1>7. CASE /\ Owned(t) /\ (task[t].op = "auto" => runtime[a].desired = "running" \/ runtime[a].auto)
           /\ StartLocked(t, valid)
  <2>1. a \notin halted
    BY <1>1, <1>2, <1>7 DEF HaltInv, HaltOK, Resting, OwnerOK, Owned, Resumes
  <2>2. Wakes(t)
    BY <2>1 DEF Wakes
  <2>3. CASE Finish(t) /\ UNCHANGED runtime
    BY <1>5, <2>3
  <2>4. CASE StartFailed(t)
    BY <1>1, <1>3, <2>2, <2>4, FailedHalts
  <2>5. CASE /\ task' = [task EXCEPT ![t].pc = "stop", ![t].bad = TRUE]
             /\ task[t].op = "auto" /\ UNCHANGED <<lease, runtime>>
    <3> DEFINE k == [task[t] EXCEPT !.pc = "stop", !.bad = TRUE]
    <3>1. k \in TaskRow /\ k.acct = a /\ k.op = "auto" /\ k.pc = "stop"
      BY <1>2, <2>5 DEF TaskRow, Pcs
    <3>2. task' = [task EXCEPT ![t] = k]
      BY <2>5
    <3> HIDE DEF k
    <3> QED BY <1>1, <1>2, <1>3, <2>2, <2>5, <3>1, <3>2, StepHalts, RowStays DEF Stopping
  <2>6. CASE Step(t, "prepare") /\ UNCHANGED <<lease, runtime>>
    <3> DEFINE k == [task[t] EXCEPT !.pc = "prepare"]
    <3>1. /\ k \in TaskRow /\ k.acct = a /\ k.op = task[t].op /\ k.pc = "prepare"
          /\ k.bad = task[t].bad
      BY <1>2 DEF TaskRow, Pcs, Starting
    <3>2. task' = [task EXCEPT ![t] = k]
      BY <2>6 DEF Step
    <3>3. task[t].bad => task[t].op # "start"
      BY DEF HaltInv, OwnerOK
    <3> HIDE DEF k
    <3> QED BY <1>1, <1>2, <1>3, <2>2, <2>6, <3>1, <3>2, <3>3, StepHalts, RowStays DEF Stopping
  <2> QED BY <1>1, <1>7, <2>3, <2>4, <2>5, <2>6 DEF StartLocked
<1> QED BY <1>5, <1>6, <1>7 DEF CheckStart

\* A start goes on with an account that its lease, or its lack of one, lets it start.
LEMMA StartHalts ==
    ASSUME ControlInv, HaltInv, NEW t \in Tasks, NEW a, a = task[t].acct,
           task[t].pc \in Starting \ {"started"}, NEW pc \in Starting, pc # "started",
           Step(t, pc), UNCHANGED lease, runtime' \in [Accounts -> RuntimeRow],
           \A b \in Accounts \ {a} : runtime'[b] = runtime[b],
           runtime'[a].auto = runtime[a].auto,
           task[t].op = "start" => runtime'[a].desired \in {runtime[a].desired, "stopped"},
           Heeds(t), \A b \in Accounts : NoneNew(b)
    PROVE  HaltInv'
<1> DEFINE k == [task[t] EXCEPT !.pc = pc]
<1>1. AtWork(task[t]) /\ pc \in Pcs /\ pc \notin Stopping
  BY DEF AtWork, Pcs, Starting, Stopping
<1>2. task[t] \in TaskRow /\ WorkOK(t)
  BY <1>1, AtWorkIs
<1>3. Wakes(t) /\ task[t].pc \notin {"started", "stop", "local"}
  BY <1>2 DEF WorkOK, Wakes, Resumes, Starting
<1>4. k \in TaskRow /\ k.acct = a /\ k.op = task[t].op /\ k.pc = pc /\ k.bad = task[t].bad
  BY <1>1, <1>2 DEF TaskRow
<1>5. task' = [task EXCEPT ![t] = k]
  BY DEF Step
<1>6. task[t].bad => task[t].op # "start"
  BY DEF HaltInv, OwnerOK
<1> HIDE DEF k
<1> QED BY <1>1, <1>3, <1>4, <1>5, <1>6, StepHalts

\* A start that raised.
LEMMA RaisedHalts ==
    ASSUME ControlInv, HaltInv, NEW t \in Tasks, NEW a, a = task[t].acct,
           task[t].pc \in Starting \ {"started"}, Raised(t),
           Heeds(t), \A b \in Accounts : NoneNew(b)
    PROVE  HaltInv'
<1>1. AtWork(task[t]) /\ task[t].pc \notin {"started", "stop", "local", "check"}
  BY DEF AtWork, Starting
<1>2. task[t].op \in {"start", "auto", "restore"}
  BY <1>1, AtWorkIs DEF WorkOK
<1>3. Wakes(t)
  BY <1>1, <1>2 DEF Wakes, Resumes
<1> QED BY <1>1, <1>2, <1>3, FailedHalts DEF Raised

\* What an operation knows that may start a worker and is past its checks.
LEMMA StartingIs ==
    ASSUME ControlInv, NEW t \in Tasks, task[t].pc \in Starting
    PROVE  /\ AtWork(task[t]) /\ Resumes(task[t]) /\ Wakes(t)
           /\ task[t].op \in {"start", "auto", "restore"}
           /\ task[t].acct \in Accounts /\ task[t] \in TaskRow /\ ControlTypeOK
           /\ task[t].pc \notin {"stop", "local", "check"}
<1>1. AtWork(task[t]) /\ task[t].pc \notin {"stop", "local", "check"}
  BY DEF AtWork, Starting
<1>2. /\ task[t].op \in {"start", "auto", "restore"} /\ task[t].acct \in Accounts
      /\ task[t] \in TaskRow /\ ControlTypeOK
  BY <1>1, AtWorkIs DEF WorkOK
<1> QED BY <1>1, <1>2 DEF Resumes, Wakes

\* An adoption concerns one account.
LEMMA AdoptedAlone ==
    ASSUME ControlTypeOK, NEW a, NEW p, Adopted(a, p), UNCHANGED trans
    PROVE  \A b \in Accounts \ {a} : NoneNew(b)
<1>1. \A b \in Accounts \ {a} : reg'[b] = reg[b]
  BY DEF Adopted, ControlTypeOK, Handles
<1> QED BY <1>1 DEF NoneNew

\* The preparation of a start.
LEMMA PrepareHalts ==
    ASSUME ControlInv, HaltInv, NEW t \in Tasks, NEW a, a = task[t].acct, Prepare(t)
    PROVE  HaltInv'
<1> DEFINE d == runtime[a].pid
<1>1. /\ task[t].pc = "prepare" /\ task[t].pc \in Starting \ {"started"}
      /\ UNCHANGED trans /\ Heeds(t)
  BY Zenon DEF Prepare, Starting
<1>2. /\ AtWork(task[t]) /\ Resumes(task[t]) /\ Wakes(t) /\ a \in Accounts
      /\ task[t] \in TaskRow /\ ControlTypeOK
      /\ task[t].pc \notin {"started", "stop", "local"}
  BY <1>1, StartingIs
<1>3. task[t].bad => task[t].op # "start"
  BY DEF HaltInv, OwnerOK
<1>4. reg' = reg => \A b \in Accounts : NoneNew(b)
  BY <1>1 DEF NoneNew
<1>5. CASE Raised(t) /\ UNCHANGED reg
  BY <1>1, <1>4, <1>5, RaisedHalts
<1>6. CASE Step(t, "spawn") /\ UNCHANGED <<lease, runtime, reg>>
  <2>1. "spawn" \in Starting
    BY DEF Starting
  <2> QED BY <1>1, <1>4, <1>6, <2>1, StartHalts, RowStays
<1>7. CASE /\ Owned(t) /\ Adopted(a, d) /\ task' = [Bumped(a) EXCEPT ![t].pc = "spawn"]
           /\ UNCHANGED <<lease, runtime>>
  <2> DEFINE k == [task[t] EXCEPT !.pc = "spawn"]
  <2>1. Bumped(a)[t] = task[t]
    BY <1>1 DEF Bumped
  <2>2. /\ k.acct = a /\ k.op = task[t].op /\ k.pc = "spawn" /\ k.bad = task[t].bad
    BY <1>2 DEF TaskRow
  <2>3. task' = [Bumped(a) EXCEPT ![t] = k]
    BY <1>7, <2>1
  <2> HIDE DEF k
  <2>4. task'[t] = k /\ OthersGo(t)
    BY <1>2, <2>3, OthersGoOn
  <2>5. halted' \subseteq halted
    BY <1>1 DEF Heeds
  <2>6. OwnerOK(t)'
    BY <1>2, <1>3, <1>7, <2>2, <2>4, <2>5, OwnerGoesOn DEF Stopping
  <2>7. a \notin halted
    BY <1>2, <1>7 DEF HaltInv, OwnerOK, Owned
  <2>8. \A b \in Accounts \ {a} : NoneNew(b)
    BY <1>1, <1>2, <1>7, AdoptedAlone
  <2> QED BY <1>2, <1>7, <2>4, <2>5, <2>6, <2>7, <2>8, OwnedHalts
<1>8. CASE /\ task' = [task EXCEPT ![t].pc = "replace", ![t].durable = d]
           /\ UNCHANGED <<lease, runtime, reg>>
  <2> DEFINE k == [task[t] EXCEPT !.pc = "replace", !.durable = d]
  <2>1. d \in Pids \cup {NoPid}
    BY <1>2 DEF ControlTypeOK, RuntimeRow
  <2>2. task' = [task EXCEPT ![t] = k]
    BY <1>8
  <2> HIDE DEF d
  <2>3. /\ k \in TaskRow /\ k.acct = a /\ k.op = task[t].op /\ k.pc = "replace"
        /\ k.bad = task[t].bad
    BY <1>2, <2>1 DEF TaskRow, Pcs, Starting
  <2> HIDE DEF k
  <2> QED BY <1>1, <1>2, <1>3, <1>4, <1>8, <2>2, <2>3, StepHalts, RowStays DEF Stopping
<1> QED BY <1>5, <1>6, <1>7, <1>8, Zenon DEF Prepare

\* The recorded process is ended.
LEMMA ReplaceHalts ==
    ASSUME ControlInv, HaltInv, NEW t \in Tasks, NEW a, a = task[t].acct, NEW ok \in BOOLEAN,
           Replace(t, ok)
    PROVE  HaltInv'
<1> DEFINE k == [task[t] EXCEPT !.pc = "replaced", !.conf = ok]
<1>1. /\ task[t].pc = "replace" /\ task[t].pc \in Starting
      /\ UNCHANGED <<runtime, lease, halted>> /\ TerminatePid(task[t].durable, a, ok)
      /\ task' = [task EXCEPT ![t] = k]
  BY DEF Replace, Starting
<1>2. /\ AtWork(task[t]) /\ Wakes(t) /\ a \in Accounts
      /\ task[t] \in TaskRow /\ ControlTypeOK
  BY <1>1, StartingIs
<1>3. task[t].bad => task[t].op # "start"
  BY DEF HaltInv, OwnerOK
<1>4. \A b \in Accounts : NoneNew(b)
  BY <1>1, <1>2, TerminatePidTakes
<1>5. k.acct = a /\ k.op = task[t].op /\ k.pc = "replaced" /\ k.bad = task[t].bad
  BY <1>2 DEF TaskRow
<1> HIDE DEF k
<1>6. task'[t] = k /\ OthersGo(t) /\ ~Parting(t, a)
  BY <1>1, <1>2, OthersGoOn DEF Parting
<1>7. OwnerOK(t)'
  BY <1>1, <1>2, <1>3, <1>5, <1>6, OwnerGoesOn DEF Stopping
<1>8. a \in halted' => Resting(a)'
  BY <1>1, <1>2 DEF HaltInv, HaltOK, Resting
<1> QED BY <1>1, <1>2, <1>4, <1>6, <1>7, <1>8, ThreadHalts

\* The lease is looked at again.
LEMMA ReplacedHalts ==
    ASSUME ControlInv, HaltInv, NEW t \in Tasks, NEW a, a = task[t].acct, Replaced(t)
    PROVE  HaltInv'
<1> DEFINE desired == IF task[t].op = "auto" THEN "running" ELSE "stopped"
           left == IF task[t].conf THEN NoPid ELSE task[t].durable
           r == [runtime[a] EXCEPT !.desired = desired, !.state = "degraded",
                                   !.mode = task[t].mode, !.pid = left]
<1>1. /\ task[t].pc = "replaced" /\ task[t].pc \in Starting \ {"started"}
      /\ UNCHANGED <<reg, trans>> /\ Heeds(t)
  BY DEF Replaced, Starting, registry
<1>2. /\ AtWork(task[t]) /\ Wakes(t) /\ a \in Accounts
      /\ task[t] \in TaskRow /\ ControlTypeOK
      /\ task[t].pc \notin {"started", "stop", "local"}
  BY <1>1, StartingIs
<1>3. \A b \in Accounts : NoneNew(b)
  BY <1>1 DEF NoneNew
<1>4. CASE Raised(t)
  BY <1>1, <1>3, <1>4, RaisedHalts
<1>5. CASE /\ runtime' = [runtime EXCEPT ![a].desired = desired, ![a].state = "degraded",
                              ![a].mode = task[t].mode, ![a].pid = left]
           /\ IF task[t].conf THEN Step(t, "spawn") /\ UNCHANGED lease ELSE Finish(t)
  <2>1. /\ left \in Pids \cup {NoPid} /\ desired \in {"running", "stopped"}
        /\ task[t].mode \in Modes /\ runtime[a] \in RuntimeRow
        /\ task[t].op = "start" => desired = "stopped"
    BY <1>2 DEF TaskRow, ControlTypeOK
  <2>2. runtime' = [runtime EXCEPT ![a] = r]
    BY <1>2, <1>5 DEF ControlTypeOK
  <2> HIDE DEF left, desired
  <2>3. r \in RuntimeRow /\ r.desired = desired /\ r.auto = runtime[a].auto
    BY <1>2, <2>1 DEF RuntimeRow
  <2> HIDE DEF r
  <2>4. /\ runtime' \in [Accounts -> RuntimeRow] /\ runtime'[a] = r
        /\ \A b \in Accounts \ {a} : runtime'[b] = runtime[b]
    BY <1>2, <2>2, <2>3, RowWritten
  <2>5. CASE task[t].conf
    <3>1. Step(t, "spawn") /\ UNCHANGED lease /\ "spawn" \in Starting
      BY <1>5, <2>5 DEF Starting
    <3> QED BY <1>1, <1>3, <2>1, <2>3, <2>4, <3>1, StartHalts
  <2>6. CASE ~task[t].conf
    <3>1. Finish(t)
      BY <1>5, <2>6
    <3> QED BY <1>1, <1>2, <1>3, <2>1, <2>3, <2>4, <3>1, EndHalts
  <2> QED BY <2>5, <2>6
<1> QED BY <1>4, <1>5 DEF Replaced

\* The first look of a start at the registry.
LEMMA BotStartHalts ==
    ASSUME ControlInv, HaltInv, NEW t \in Tasks, NEW a, a = task[t].acct, BotStart(t)
    PROVE  HaltInv'
<1>1. /\ task[t].pc = "spawn" /\ task[t].pc \in Starting \ {"started"} /\ Heeds(t)
  BY Zenon DEF BotStart, Starting
<1>2. /\ AtWork(task[t]) /\ Resumes(task[t]) /\ Wakes(t) /\ a \in Accounts
      /\ task[t].op \in {"start", "auto", "restore"}
      /\ task[t] \in TaskRow /\ ControlTypeOK
      /\ task[t].pc \notin {"started", "stop", "local"}
  BY <1>1, StartingIs
<1>3. task[t].bad => task[t].op # "start"
  BY DEF HaltInv, OwnerOK
<1>4. UNCHANGED <<reg, trans>> => \A b \in Accounts : NoneNew(b)
  BY DEF NoneNew
<1>5. CASE ((Finish(t) /\ UNCHANGED runtime) \/ StartFailed(t)) /\ UNCHANGED <<reg, trans>>
  BY <1>1, <1>2, <1>4, <1>5, FailedHalts
<1>6. CASE /\ task' = [task EXCEPT ![t].pc = "started", ![t].already = TRUE]
           /\ UNCHANGED <<lease, runtime, reg, trans>>
  <2> DEFINE k == [task[t] EXCEPT !.pc = "started", !.already = TRUE]
  <2>1. /\ k \in TaskRow /\ k.acct = a /\ k.op = task[t].op /\ k.pc = "started"
        /\ k.bad = task[t].bad
    BY <1>2 DEF TaskRow, Pcs, Starting
  <2>2. task' = [task EXCEPT ![t] = k]
    BY <1>6
  <2> HIDE DEF k
  <2> QED BY <1>1, <1>2, <1>4, <1>6, <2>1, <2>2, LaunchHalts
<1>7. CASE /\ task' = [task EXCEPT ![t].pc = "retry", ![t].fresh = TRUE]
           /\ UNCHANGED <<lease, runtime, reg, trans>>
  <2> DEFINE k == [task[t] EXCEPT !.pc = "retry", !.fresh = TRUE]
  <2>1. /\ k \in TaskRow /\ k.acct = a /\ k.op = task[t].op /\ k.pc = "retry"
        /\ k.bad = task[t].bad
    BY <1>2 DEF TaskRow, Pcs, Starting
  <2>2. task' = [task EXCEPT ![t] = k]
    BY <1>7
  <2> HIDE DEF k
  <2> QED BY <1>1, <1>2, <1>3, <1>4, <1>7, <2>1, <2>2, StepHalts, RowStays DEF Stopping
<1>8. CASE /\ trans' = [trans EXCEPT ![a] = [pid |-> reg[a], terminating |-> TRUE]]
           /\ reg' = [reg EXCEPT ![a] = NoPid]
           /\ task' = [Bumped(a) EXCEPT ![t].pc = "restart"]
           /\ UNCHANGED <<lease, runtime>>
  <2> DEFINE k == [task[t] EXCEPT !.pc = "restart"]
  <2>1. /\ k \in TaskRow /\ k.acct = a /\ k.op = task[t].op /\ k.pc = "restart"
        /\ k.bad = task[t].bad
    BY <1>2 DEF TaskRow, Pcs, Starting
  <2>2. Bumped(a)[t] = task[t]
    BY <1>1 DEF Bumped
  <2>3. task' = [Bumped(a) EXCEPT ![t] = k]
    BY <1>8, <2>2
  <2> HIDE DEF k
  <2>4. \A b \in Accounts : NoneNew(b)
    <3>1. NoPid \notin Pids
      BY WorkerAssumption DEF NoPid
    <3>2. reg'[a] = NoPid /\ \A b \in Accounts \ {a} : reg'[b] = reg[b]
      BY <1>2, <1>8 DEF ControlTypeOK, Handles
    <3>3. trans'[a].pid = reg[a] /\ \A b \in Accounts \ {a} : trans'[b] = trans[b]
      BY <1>2, <1>8 DEF ControlTypeOK
    <3> QED BY <3>1, <3>2, <3>3 DEF NoneNew
  <2> QED BY <1>1, <1>2, <1>3, <1>8, <2>1, <2>3, <2>4, StepHalts, RowStays DEF Stopping
<1>9. CASE Step(t, "launch") /\ UNCHANGED <<lease, runtime, reg, trans>>
  <2>1. "launch" \in Starting
    BY DEF Starting
  <2> QED BY <1>1, <1>4, <1>9, <2>1, StartHalts, RowStays
<1>10. UNCHANGED registry => UNCHANGED <<reg, trans>>
  BY DEF registry
<1> QED BY <1>5, <1>6, <1>7, <1>8, <1>9, <1>10, Zenon DEF BotStart

\* A stop that is tried again, or the stop of the worker of the other mode.
LEMMA RetriesHalt ==
    ASSUME ControlInv, HaltInv, NEW t \in Tasks, NEW a, a = task[t].acct, NEW ok \in BOOLEAN,
           RetryEnd(t, ok) \/ RestartEnd(t, ok)
    PROVE  HaltInv'
<1>1. /\ task[t].pc \in {"retry", "restart"} /\ UNCHANGED reg /\ Heeds(t)
      /\ trans' = [trans EXCEPT ![a] = IF ok THEN NoTrans ELSE [@ EXCEPT !.terminating = FALSE]]
      /\ \/ \E pc \in {"launch", "respawn"} : Step(t, pc) /\ UNCHANGED <<lease, runtime>>
         \/ StartFailed(t)
  BY DEF RetryEnd, RestartEnd
<1>2. /\ task[t].pc \in Starting \ {"started"}
      /\ "launch" \in Starting /\ "respawn" \in Starting
  BY <1>1 DEF Starting
<1>3. /\ AtWork(task[t]) /\ Wakes(t) /\ a \in Accounts /\ ControlTypeOK
      /\ task[t].op \in {"start", "auto", "restore"}
      /\ task[t].pc \notin {"started", "stop", "local"}
  BY <1>2, StartingIs
<1>4. \A b \in Accounts : NoneNew(b)
  BY <1>1, <1>3, TransEnds
<1>5. CASE StartFailed(t)
  BY <1>1, <1>3, <1>4, <1>5, FailedHalts
<1>6. ASSUME NEW pc \in {"launch", "respawn"}, Step(t, pc), UNCHANGED <<lease, runtime>>
      PROVE  HaltInv'
  BY <1>1, <1>2, <1>4, <1>6, StartHalts, RowStays
<1> QED BY <1>1, <1>5, <1>6

\* What a restoration writes leaves automatic resumption as it is.
LEMMA PersistRestoreRests ==
    ASSUME ControlTypeOK, NEW t \in Tasks, NEW a \in Accounts, a = task[t].acct,
           NEW desired \in {"running", "stopped"},
           NEW state \in {"running", "stopped", "waiting_login", "degraded", "starting",
                          "capacity_limited"},
           NEW pid \in Pids \cup {NoPid}, PersistRestore(t, desired, state, pid)
    PROVE  /\ runtime' \in [Accounts -> RuntimeRow]
           /\ \A b \in Accounts \ {a} : runtime'[b] = runtime[b]
           /\ runtime'[a].auto = runtime[a].auto
<1>1. CASE task[t].row
  BY <1>1, ObserveIs DEF PersistRestore
<1>2. CASE ~task[t].row
  BY <1>2 DEF PersistRestore, ControlTypeOK
<1> QED BY <1>1, <1>2

\* The process is launched, or it turns out that there is no place for it.
LEMMA SpawnHalts ==
    ASSUME ControlInv, HaltInv, NEW t \in Tasks, NEW a, a = task[t].acct, Spawn(t)
    PROVE  HaltInv'
<1>1. /\ task[t].pc \in {"launch", "respawn"} /\ UNCHANGED trans /\ Heeds(t)
  BY Zenon DEF Spawn
<1>2. task[t].pc \in Starting \ {"started"}
  BY <1>1 DEF Starting
<1>3. /\ AtWork(task[t]) /\ Resumes(task[t]) /\ Wakes(t) /\ a \in Accounts /\ ControlTypeOK
      /\ task[t].op \in {"start", "auto", "restore"} /\ task[t] \in TaskRow
      /\ task[t].pc \notin {"started", "stop", "local"}
  BY <1>2, StartingIs
<1>4. reg' = reg => \A b \in Accounts : NoneNew(b)
  BY <1>1 DEF NoneNew
<1>5. CASE StartFailed(t) /\ UNCHANGED reg
  BY <1>1, <1>3, <1>4, <1>5, FailedHalts
<1>6. CASE /\ task[t].op = "restore" /\ UNCHANGED reg
           /\ PersistRestore(t, "running", "capacity_limited", NoPid) /\ Finish(t)
  <2>1. /\ runtime' \in [Accounts -> RuntimeRow]
        /\ \A b \in Accounts \ {a} : runtime'[b] = runtime[b]
        /\ runtime'[a].auto = runtime[a].auto
    BY <1>3, <1>6, PersistRestoreRests
  <2> QED BY <1>1, <1>3, <1>4, <1>6, <2>1, EndHalts
<1>7. ASSUME NEW p, reg' = [reg EXCEPT ![a] = p],
             task' = [Bumped(a) EXCEPT ![t] = [task[t] EXCEPT !.pc = "started", !.already = FALSE]],
             UNCHANGED <<lease, runtime>>
      PROVE  HaltInv'
  <2> DEFINE k == [task[t] EXCEPT !.pc = "started", !.already = FALSE]
  <2>1. /\ k \in TaskRow /\ k.acct = a /\ k.op = task[t].op /\ k.pc = "started"
        /\ k.bad = task[t].bad
    BY <1>3 DEF TaskRow, Pcs, Starting
  <2>2. task' = [Bumped(a) EXCEPT ![t] = k]
    BY <1>7
  <2> HIDE DEF k
  <2>3. \A b \in Accounts \ {a} : reg'[b] = reg[b]
    BY <1>3, <1>7 DEF ControlTypeOK, Handles
  <2>4. \A b \in Accounts \ {a} : NoneNew(b)
    BY <1>1, <2>3 DEF NoneNew
  <2> QED BY <1>1, <1>3, <1>7, <2>1, <2>2, <2>4, LaunchHalts
<1>8. \/ StartFailed(t) /\ UNCHANGED reg
      \/ /\ task[t].op = "restore" /\ UNCHANGED reg
         /\ PersistRestore(t, "running", "capacity_limited", NoPid) /\ Finish(t)
      \/ \E p \in Pids :
            /\ reg' = [reg EXCEPT ![a] = p]
            /\ task' = [Bumped(a) EXCEPT ![t] = [task[t] EXCEPT !.pc = "started", !.already = FALSE]]
            /\ UNCHANGED <<lease, runtime>>
  BY Zenon DEF Spawn
<1> QED BY <1>5, <1>6, <1>7, <1>8, Zenon


\* A start is recorded: with the lease the account is not halted, and what a restoration without
\* it records overrides the stop, which whoever has the lease learns.
LEMMA RecordedHalts ==
    ASSUME ControlInv, HaltInv, NEW t \in Tasks, NEW a, a = task[t].acct, task[t].pc = "started",
           Owned(t) \/ task[t].op = "restore", Recorded(t), Heeds(t), UNCHANGED registry
    PROVE  HaltInv'
<1> DEFINE done == IF task[t].op = "restore"
                   THEN [Idle EXCEPT !.op = "restore", !.pc = "next", !.pass = task[t].pass,
                                     !.todo = task[t].todo, !.pending = task[t].pending]
                   ELSE Idle
           seen(s) == [task[s] EXCEPT !.row = @ /\ (task[s].acct # a \/ task[t].already),
                                      !.spoilt = @ \/ (~Owned(t) /\ task[s].acct = a)]
           r == [desired |-> "running", state |-> "running", mode |-> task[t].mode,
                 pid |-> ProcessId(a), auto |-> runtime[a].auto \/ task[t].op = "start"]
<1>1. task[t].pc \in Starting
  BY DEF Starting
<1>2. /\ Resumes(task[t]) /\ a \in Accounts /\ task[t] \in TaskRow /\ ControlTypeOK
  BY <1>1, StartingIs
<1>3. /\ runtime' = [runtime EXCEPT ![a] = r] /\ lease' = Released(t)
      /\ task' = [s \in Tasks |-> IF s = t THEN done ELSE seen(s)]
  BY DEF Recorded
<1>4. /\ r.desired = "running"
      /\ \A b \in Accounts \ {a} : runtime'[b] = runtime[b]
      /\ runtime'[a].desired = "running"
  BY <1>2, <1>3 DEF ControlTypeOK
<1>5. AtEase(done)
  BY DEF Idle, AtEase, AtWork, Starting, Stopping
<1> HIDE DEF done, r
<1>6. ASSUME NEW s \in Tasks
      PROVE  /\ seen(s).pc = task[s].pc /\ seen(s).acct = task[s].acct /\ seen(s).op = task[s].op
             /\ seen(s).undo = task[s].undo /\ seen(s).bad = task[s].bad
             /\ seen(s).conf = task[s].conf /\ seen(s).durable = task[s].durable
             /\ seen(s).local = task[s].local
             /\ seen(s).spoilt <=> task[s].spoilt \/ (~Owned(t) /\ task[s].acct = a)
  <2>1. task[s] \in TaskRow
    BY <1>2 DEF ControlTypeOK
  <2> QED BY <2>1 DEF TaskRow
<1> HIDE DEF seen
<1>7. task'[t] = done /\ OthersGo(t)
  BY <1>3, <1>6 DEF OthersGo, Stands, SameWork
<1>8. OwnerOK(t)'
  BY <1>5, <1>7, OwnerEases
<1>9. \A b \in Accounts : NoneNew(b)
  BY DEF registry, NoneNew
<1>10. halted' \subseteq halted
  BY DEF Heeds
<1>11. CASE Owned(t)
  <2>1. a \notin halted
    BY <1>1, <1>2, <1>11, StartingIs DEF HaltInv, OwnerOK, Owned
  <2> QED BY <1>2, <1>3, <1>4, <1>7, <1>8, <1>9, <1>10, <1>11, <2>1, OwnedHalts
<1>12. CASE ~Owned(t)
  <2>1. halted' = halted \ {a}
    BY <1>4, <1>12 DEF Heeds
  <2>2. \A s \in Tasks \ {t} : task'[s].acct = a => task'[s].spoilt
    BY <1>3, <1>6, <1>12
  <2>3. \A s \in Tasks, b \in Accounts : lease'[b] = s => lease[b] = s
    BY <1>2, <1>3, WorkerAssumption DEF Released, ControlTypeOK, Leases, Tasks, NoTask
  <2>4. \A b \in Accounts \ {a} : ~Parting(t, b)
    BY DEF Parting, Lapsed
  <2> QED BY <1>2, <1>4, <1>7, <1>8, <1>9, <1>10, <2>1, <2>2, <2>3, <2>4, HaltMoves
<1> QED BY <1>11, <1>12

\* A start is recorded, or it is to end the worker it launched.
LEMMA StartedHalts ==
    ASSUME ControlInv, HaltInv, NEW t \in Tasks, NEW a, a = task[t].acct, Started(t)
    PROVE  HaltInv'
<1>1. task[t].pc = "started" /\ task[t].pc \in Starting /\ UNCHANGED registry /\ Heeds(t)
  BY DEF Started, Starting
<1>2. CASE Owned(t) \/ task[t].op = "restore"
  BY <1>1, <1>2, RecordedHalts DEF Started
<1>3. CASE ~(Owned(t) \/ task[t].op = "restore")
  <2> DEFINE k == [task[t] EXCEPT !.pc = "stop", !.undo = TRUE]
  <2>1. /\ AtWork(task[t]) /\ Wakes(t) /\ a \in Accounts /\ task[t] \in TaskRow /\ ControlTypeOK
    BY <1>1, StartingIs
  <2>2. k.acct = a /\ k.op = task[t].op /\ k.pc = "stop" /\ k.undo /\ k.bad = task[t].bad
    BY <2>1 DEF TaskRow
  <2>3. task' = [task EXCEPT ![t] = k] /\ UNCHANGED <<runtime, lease>>
    BY <1>3 DEF Started
  <2> HIDE DEF k
  <2>4. task'[t] = k /\ OthersGo(t)
    BY <2>1, <2>3, OthersGoOn
  <2>5. halted' \subseteq halted /\ (a \in halted' => Resting(a)')
    BY <1>1, <1>3, <2>1, <2>3, HeedsRest, RowStays
  <2>6. task[t].bad => task[t].op # "start"
    BY DEF HaltInv, OwnerOK
  <2>7. OwnerOK(t)'
    BY <2>1, <2>2, <2>3, <2>4, <2>5, <2>6, OwnerGoesOn DEF Stopping
  <2>8. Ending(t, a)' /\ Parting(t, a)'
    BY <1>3, <2>2, <2>3, <2>4 DEF Ending, Parting, Lapsed, Owned
  <2>9. \A b \in Accounts : NoneNew(b)
    BY <1>1 DEF registry, NoneNew
  <2>10. Spares(a)
    BY <1>1, <2>1, <2>3, <2>4, <2>8, SparedIs DEF registry
  <2>11. a \in halted' => RegOK(a)' /\ TransOK(a)'
    BY <2>1, <2>5, <2>10 DEF Spares, HaltInv, HaltOK
  <2>12. \A b \in Accounts \ {a} : ~Parting(t, b)
    BY DEF Parting, Lapsed
  <2> QED BY <2>1, <2>3, <2>4, <2>5, <2>7, <2>9, <2>10, <2>11, <2>12, HaltMoves
<1> QED BY <1>2, <1>3

\* An operation that stops a worker but that it may start again comes to its end.
LEMMA StoppedHalts ==
    ASSUME ControlInv, HaltInv, NEW t \in Tasks, NEW a, a = task[t].acct,
           task[t].pc = "confirm", task[t].op \in {"start", "auto", "restore"},
           NEW desired \in {"running", "stopped"},
           NEW state \in {"running", "stopped", "waiting_login", "degraded", "starting",
                          "capacity_limited"},
           NEW pid \in Pids \cup {NoPid},
           Observe(t, desired, state, pid) \/ Persist(a, desired, state, pid),
           task[t].op = "start" => desired = "stopped",
           Heeds(t), Finish(t), UNCHANGED registry
    PROVE  HaltInv'
<1>1. AtWork(task[t])
  BY DEF AtWork, Stopping
<1>2. a \in Accounts /\ ControlTypeOK
  BY <1>1, AtWorkIs
<1>3. /\ runtime' \in [Accounts -> RuntimeRow] /\ runtime'[a].desired = desired
      /\ \A b \in Accounts \ {a} : runtime'[b] = runtime[b]
      /\ runtime'[a].auto = runtime[a].auto
  BY <1>2, PersistIs, ObserveIs
<1>4. Wakes(t)
  BY DEF Wakes, Resumes
<1>5. \A b \in Accounts : NoneNew(b)
  BY DEF registry, NoneNew
<1> QED BY <1>1, <1>3, <1>4, <1>5, EndHalts

\* What may not be configured is degraded, a start undone, and what is not wanted stopped.
LEMMA DegradesHalt ==
    ASSUME ControlInv, HaltInv, NEW t \in Tasks, NEW a, a = task[t].acct,
           Degrade(t) \/ Undone(t) \/ RestoreStopped(t)
    PROVE  HaltInv'
<1>1. task[t].pc = "confirm" /\ Heeds(t) /\ Finish(t) /\ UNCHANGED registry
  BY Zenon DEF Degrade, Undone, RestoreStopped
<1>2. AtWork(task[t])
  BY <1>1 DEF AtWork, Stopping
<1>3. WorkOK(t)
  BY <1>2, AtWorkIs
<1>4. Survivor(t) \in Pids \cup {NoPid}
  BY <1>1, SurvivorIs
<1>5. CASE Degrade(t)
  <2>1. task[t].op \in {"auto", "restore"} /\ Observe(t, "running", "degraded", Survivor(t))
    BY <1>3, <1>5 DEF Degrade, WorkOK, HaltInv, OwnerOK
  <2> QED BY <1>1, <1>4, <2>1, StoppedHalts
<1>6. CASE Undone(t)
  <2> DEFINE left == IF task[t].conf /\ task[t].op # "restore" THEN NoPid ELSE ProcessId(a)
  <2>1. /\ task[t].op \in {"start", "auto", "restore"}
        /\ \/ task[t].op = "auto" /\ Observe(t, "running", "degraded", left)
           \/ Persist(a, "stopped", "degraded", left)
    BY <1>3, <1>6 DEF Undone, WorkOK
  <2>2. left \in Pids \cup {NoPid}
    BY ProcessIdIs
  <2> HIDE DEF left
  <2>3. CASE task[t].op = "auto" /\ Observe(t, "running", "degraded", left)
    BY <1>1, <2>1, <2>2, <2>3, StoppedHalts
  <2>4. CASE Persist(a, "stopped", "degraded", left)
    BY <1>1, <2>1, <2>2, <2>4, StoppedHalts
  <2> QED BY <2>1, <2>3, <2>4
<1>7. CASE RestoreStopped(t)
  <2> DEFINE state == IF task[t].conf THEN "stopped" ELSE "degraded"
  <2>1. task[t].op = "restore" /\ Persist(a, "stopped", state, Survivor(t))
    BY <1>7 DEF RestoreStopped
  <2>2. state \in {"stopped", "degraded"}
    OBVIOUS
  <2> HIDE DEF state
  <2> QED BY <1>1, <1>4, <2>1, <2>2, StoppedHalts
<1> QED BY <1>5, <1>6, <1>7

\* Whoever writes nothing overrides nothing.
LEMMA NothingHeeded ==
    ASSUME HaltInv, NEW t, task[t].acct \in Accounts, UNCHANGED <<runtime, halted>>
    PROVE  Heeds(t)
BY DEF HaltInv, HaltOK, Resting, Heeds

\* The end of a recorded process takes handles away.
LEMMA EndRecordedTakes ==
    ASSUME ControlTypeOK, NEW t, NEW ok, EndRecorded(t, ok)
    PROVE  \A b \in Accounts : NoneNew(b)
<1>1. CASE UNCHANGED <<reg, trans>>
  BY <1>1 DEF NoneNew
<1>2. CASE TerminatePid(task[t].durable, task[t].acct, ok)
  BY <1>2, TerminatePidTakes
<1> QED BY <1>1, <1>2 DEF EndRecorded

\* The row read again under the lease.
LEMMA RestoreCheckHalts ==
    ASSUME ControlInv, HaltInv, NEW t \in Tasks, NEW a, a = task[t].acct, NEW valid \in BOOLEAN,
           RestoreCheck(t, valid)
    PROVE  HaltInv'
<1>1. /\ AtWork(task[t]) /\ task[t].pc = "check" /\ task[t].op = "restore"
      /\ task[t].pc \notin {"started", "stop", "local"}
  BY DEF RestoreCheck, AtWork
<1>2. a \in Accounts /\ task[t] \in TaskRow /\ ControlTypeOK /\ runtime[a] \in RuntimeRow
  BY <1>1, AtWorkIs
<1>3. UNCHANGED <<runtime, registry, halted>>
  BY DEF RestoreCheck
<1>4. /\ Heeds(t) /\ Wakes(t) /\ \A b \in Accounts : NoneNew(b)
      /\ runtime' \in [Accounts -> RuntimeRow]
  BY <1>1, <1>2, <1>3, NothingHeeded, RowStays DEF Wakes, Resumes, registry, NoneNew
<1>5. ASSUME NEW k \in TaskRow, task' = [task EXCEPT ![t] = k], UNCHANGED lease,
             k.acct = a, k.op = "restore", k.pc \in {"stop", "relogin", "adopt"}
      PROVE  HaltInv'
  BY <1>1, <1>3, <1>4, <1>5, StepHalts DEF Stopping
<1>6. CASE Finish(t)
  BY <1>1, <1>3, <1>4, <1>6, EndHalts
<1>7. CASE Step(t, "stop") /\ UNCHANGED lease
  <2> DEFINE k == [task[t] EXCEPT !.pc = "stop"]
  <2>1. k \in TaskRow /\ k.pc = "stop" /\ k.op = "restore" /\ k.acct = a
    BY <1>1, <1>2 DEF TaskRow, Pcs
  <2>2. task' = [task EXCEPT ![t] = k]
    BY <1>7 DEF Step
  <2> HIDE DEF k
  <2> QED BY <1>5, <1>7, <2>1, <2>2
<1>8. CASE /\ task' = [task EXCEPT ![t].pc = "stop", ![t].bad = TRUE, ![t].mode = runtime[a].mode]
           /\ UNCHANGED lease
  <2> DEFINE k == [task[t] EXCEPT !.pc = "stop", !.bad = TRUE, !.mode = runtime[a].mode]
  <2>1. runtime[a].mode \in Modes
    BY <1>2 DEF RuntimeRow
  <2>2. k \in TaskRow /\ k.pc = "stop" /\ k.op = "restore" /\ k.acct = a
    BY <1>1, <1>2, <2>1 DEF TaskRow, Pcs
  <2>3. task' = [task EXCEPT ![t] = k]
    BY <1>8
  <2> HIDE DEF k
  <2> QED BY <1>5, <1>8, <2>2, <2>3
<1>9. CASE /\ task' = [task EXCEPT ![t].pc = IF shop[a].reauth THEN "relogin" ELSE "adopt",
                                   ![t].row = TRUE, ![t].durable = runtime[a].pid,
                                   ![t].want = runtime[a].desired, ![t].mode = runtime[a].mode]
           /\ UNCHANGED lease
  <2> DEFINE place == IF shop[a].reauth THEN "relogin" ELSE "adopt"
             d == runtime[a].pid
             w == runtime[a].desired
             m == runtime[a].mode
             k == [task[t] EXCEPT !.pc = place, !.row = TRUE, !.durable = d, !.want = w, !.mode = m]
  <2>1. m \in Modes /\ d \in Pids \cup {NoPid} /\ w \in {"running", "stopped"}
    BY <1>2 DEF RuntimeRow
  <2>2. task' = [task EXCEPT ![t] = k] /\ place \in {"relogin", "adopt"}
    BY <1>9
  <2>3. {"relogin", "adopt"} \subseteq Pcs
    BY DEF Pcs, Starting
  <2> HIDE DEF place, d, w, m
  <2>4. k \in TaskRow
    BY <1>2, <2>1, <2>2, <2>3 DEF TaskRow
  <2>5. k.pc = place /\ k.op = "restore" /\ k.acct = a
    BY <1>1, <1>2 DEF TaskRow
  <2> HIDE DEF k
  <2> QED BY <1>5, <1>9, <2>2, <2>4, <2>5
<1> QED BY <1>6, <1>7, <1>8, <1>9 DEF RestoreCheck

\* The account waits for a login.
LEMMA RestoreReloginHalts ==
    ASSUME ControlInv, HaltInv, NEW t \in Tasks, NEW a, a = task[t].acct, NEW ok \in BOOLEAN,
           RestoreRelogin(t, ok)
    PROVE  HaltInv'
<1> DEFINE state == IF ok THEN "waiting_login" ELSE "degraded"
           left == IF ok THEN NoPid ELSE task[t].durable
<1>1. /\ task[t].pc = "relogin" /\ task[t].pc \in Starting
      /\ Heeds(t) /\ Finish(t) /\ EndRecorded(t, ok)
      /\ PersistRestore(t, task[t].want, state, left)
  BY DEF RestoreRelogin, Starting
<1>2. /\ AtWork(task[t]) /\ Wakes(t) /\ a \in Accounts /\ ControlTypeOK /\ task[t] \in TaskRow
      /\ WorkOK(t)
  BY <1>1, StartingIs, AtWorkIs
<1>3. /\ left \in Pids \cup {NoPid} /\ task[t].want \in {"running", "stopped"}
      /\ state \in {"waiting_login", "degraded"} /\ task[t].op = "restore"
  BY <1>1, <1>2 DEF TaskRow, WorkOK
<1> HIDE DEF state, left
<1>4. /\ runtime' \in [Accounts -> RuntimeRow]
      /\ \A b \in Accounts \ {a} : runtime'[b] = runtime[b]
      /\ runtime'[a].auto = runtime[a].auto
  BY <1>1, <1>2, <1>3, PersistRestoreRests
<1>5. \A b \in Accounts : NoneNew(b)
  BY <1>1, <1>2, EndRecordedTakes
<1> QED BY <1>1, <1>2, <1>3, <1>4, <1>5, EndHalts

\* A recorded process is adopted or ended.
LEMMA RestoreAdoptHalts ==
    ASSUME ControlInv, HaltInv, NEW t \in Tasks, NEW a, a = task[t].acct, NEW ok \in BOOLEAN,
           RestoreAdopt(t, ok)
    PROVE  HaltInv'
<1> DEFINE k == task[t]
           d == k.durable
           later == [Idle EXCEPT !.op = "restore", !.pc = "next", !.todo = k.todo,
                             !.pending = k.pending \cup (IF d = NoPid \/ k.row THEN {a} ELSE {})]
<1>1. k.pc = "adopt" /\ k.pc \in Starting \ {"started"} /\ Heeds(t)
  BY Zenon DEF RestoreAdopt, Starting
<1>2. /\ AtWork(k) /\ Resumes(k) /\ Wakes(t) /\ a \in Accounts /\ ControlTypeOK /\ k \in TaskRow
      /\ WorkOK(t) /\ k.pc \notin {"started", "stop", "local"}
  BY <1>1, StartingIs, AtWorkIs
<1>3. d \in Pids \cup {NoPid} /\ k.want \in {"running", "stopped"} /\ k.op = "restore"
  BY <1>1, <1>2 DEF TaskRow, WorkOK
<1>4. CASE /\ Adopted(a, d) /\ UNCHANGED <<lease, runtime, trans>>
           /\ task' = [IF a \in Managed THEN task ELSE Bumped(a)
                          EXCEPT ![t].pc = "started", ![t].already = TRUE]
  <2> DEFINE r == [k EXCEPT !.pc = "started", !.already = TRUE]
  <2>1. r \in TaskRow /\ r.pc = "started" /\ r.acct = a /\ r.op = k.op /\ r.bad = k.bad
    BY <1>2 DEF TaskRow, Pcs, Starting
  <2>2. task' = [task EXCEPT ![t] = r] \/ task' = [Bumped(a) EXCEPT ![t] = r]
    <3>1. Bumped(a)[t] = task[t]
      BY <1>1 DEF Bumped
    <3> QED BY <1>4, <3>1
  <2> HIDE DEF r
  <2>3. \A b \in Accounts \ {a} : NoneNew(b)
    BY <1>2, <1>4, AdoptedAlone
  <2> QED BY <1>1, <1>2, <1>4, <2>1, <2>2, <2>3, LaunchHalts
<1>5. EndRecorded(t, ok) => \A b \in Accounts : NoneNew(b)
  BY <1>2, EndRecordedTakes
<1>6. ASSUME EndRecorded(t, ok), Finish(t), NEW state \in {"degraded", "waiting_login"},
             NEW left \in Pids \cup {NoPid}, PersistRestore(t, k.want, state, left)
      PROVE  HaltInv'
  <2>1. /\ runtime' \in [Accounts -> RuntimeRow]
        /\ \A b \in Accounts \ {a} : runtime'[b] = runtime[b]
        /\ runtime'[a].auto = runtime[a].auto
    BY <1>2, <1>3, <1>6, PersistRestoreRests
  <2> QED BY <1>1, <1>2, <1>3, <1>5, <1>6, <2>1, EndHalts
<1>7. CASE /\ EndRecorded(t, ok)
           /\ IF d = NoPid THEN UNCHANGED runtime
              ELSE PersistRestore(t, "running", "starting", NoPid)
           /\ lease' = Released(t)
           /\ task' = [task EXCEPT ![t] = later]
  <2>1. /\ runtime' \in [Accounts -> RuntimeRow]
        /\ \A b \in Accounts \ {a} : runtime'[b] = runtime[b]
        /\ runtime'[a].auto = runtime[a].auto
    <3>1. CASE d = NoPid
      BY <1>2, <1>7, <3>1 DEF ControlTypeOK
    <3>2. CASE d # NoPid
      BY <1>2, <1>7, <3>2, PersistRestoreRests
    <3> QED BY <3>1, <3>2
  <2>2. AtEase(later)
    BY DEF Idle, AtEase, AtWork, Starting, Stopping
  <2> HIDE DEF later
  <2>3. task'[t] = later /\ OthersGo(t)
    BY <1>2, <1>7, OthersGoOn
  <2>4. OwnerOK(t)' /\ ~Parting(t, a)
    BY <1>2, <2>2, <2>3, OwnerEases DEF Parting
  <2>5. halted' \subseteq halted /\ (a \in halted' => Resting(a)')
    BY <1>1, <1>2, <1>3, <2>1, HeedsRest
  <2> QED BY <1>2, <1>5, <1>7, <2>1, <2>3, <2>4, <2>5, ThreadHalts
<1>8. CASE EndRecorded(t, ok) /\ Step(t, "spawn") /\ UNCHANGED <<lease, runtime>>
  <2>1. "spawn" \in Starting
    BY DEF Starting
  <2> QED BY <1>1, <1>3, <1>5, <1>8, <2>1, StartHalts, RowStays
<1> QED BY <1>3, <1>4, <1>6, <1>7, <1>8, Zenon DEF RestoreAdopt

\* A stop that begins puts the registry's worker into the transition.
LEMMA StopLocalHalts ==
    ASSUME ControlInv, HaltInv, NEW t \in Tasks, NEW a, a = task[t].acct, StopLocal(t)
    PROVE  HaltInv'
<1> DEFINE live == trans[a] # NoTrans \/ reg[a] \in Pids
           p == IF trans[a] # NoTrans THEN trans[a].pid ELSE reg[a]
           next == IF live THEN "local" ELSE AfterLocal(task[t], runtime[a].pid, ProcessId(a))
           k == [task[t] EXCEPT !.durable = runtime[a].pid, !.local = ProcessId(a),
                                !.conf = TRUE, !.pc = next]
<1>1. AtWork(task[t]) /\ task[t].pc = "stop"
  BY DEF StopLocal, AtWork
<1>2. /\ a \in Accounts /\ task[t] \in TaskRow /\ ControlTypeOK /\ HandlesOK(a)
      /\ NoPid \notin Pids
  BY <1>1, AtWorkIs DEF AccountOK
<1>3. /\ trans' = IF live THEN [trans EXCEPT ![a] = [pid |-> p, terminating |-> TRUE]] ELSE trans
      /\ reg' = IF trans[a] = NoTrans THEN [reg EXCEPT ![a] = NoPid] ELSE reg
      /\ task' = [Bumped(a) EXCEPT ![t] = k]
      /\ UNCHANGED <<runtime, lease, halted>>
  BY DEF StopLocal
<1>4. next # "check" /\ (next = "local" <=> live)
  BY DEF AfterLocal
<1>5. /\ reg'[a] \notin Pids
      /\ trans'[a].pid \in Pids => live /\ trans'[a].pid \in {trans[a].pid, reg[a]}
      /\ \A b \in Accounts \ {a} : reg'[b] = reg[b] /\ trans'[b] = trans[b]
  <2>1. \A b \in Accounts \ {a} : reg'[b] = reg[b] /\ trans'[b] = trans[b]
    BY <1>2, <1>3 DEF ControlTypeOK, Handles
  <2>2. reg'[a] \notin Pids
    BY <1>2, <1>3 DEF ControlTypeOK, Handles, HandlesOK
  <2>3. trans'[a].pid \in Pids => live /\ trans'[a].pid \in {trans[a].pid, reg[a]}
    BY <1>2, <1>3 DEF ControlTypeOK, NoTrans
  <2> QED BY <2>1, <2>2, <2>3
<1> HIDE DEF next, live, p
<1>6. /\ k.pc = next /\ k.acct = a /\ k.op = task[t].op /\ k.undo = task[t].undo
      /\ k.bad = task[t].bad /\ k.spoilt = task[t].spoilt
  BY <1>2 DEF TaskRow
<1> HIDE DEF k
<1>7. task'[t] = k /\ OthersGo(t)
  BY <1>2, <1>3, OthersGoOn
<1>8. \A b \in Accounts : NoneNew(b)
  BY <1>5 DEF NoneNew
<1>9. Parting(t, a) => Parting(t, a)' \/ trans'[a].pid \notin Pids
  BY <1>1, <1>3, <1>4, <1>5, <1>6, <1>7 DEF Parting, Lapsed
<1>10. Spares(a)
  BY <1>2, <1>3, <1>5, <1>7, <1>9, SparedIs
<1>11. OwnerOK(t)'
  <2>1. task[t].bad => task[t].op # "start"
    BY DEF HaltInv, OwnerOK
  <2>2. Resumes(k) => Resumes(task[t])
    BY <1>1, <1>6 DEF Resumes
  <2>3. lease[a] = t /\ Resumes(k) => a \notin halted
    BY <1>1, <2>2 DEF HaltInv, OwnerOK
  <2>4. RegOK(a)' /\ (k.pc # "local" => TransOK(a)')
    BY <1>4, <1>5, <1>6 DEF RegOK, TransOK
  <2> QED BY <1>3, <1>6, <1>7, <2>1, <2>3, <2>4 DEF OwnerOK
<1>12. a \in halted' => Resting(a)' /\ RegOK(a)' /\ TransOK(a)'
  BY <1>2, <1>3, <1>10 DEF Spares, HaltInv, HaltOK, Resting
<1>13. \A b \in Accounts \ {a} : ~Parting(t, b)
  BY DEF Parting, Lapsed
<1> QED BY <1>2, <1>3, <1>7, <1>8, <1>10, <1>11, <1>12, <1>13, HaltMoves

\* The transition is over, or its process outlives the signals.  A start without its lease that
\* ends its worker in vain takes the account out of those that are halted.
LEMMA LocalEndHalts ==
    ASSUME ControlInv, HaltInv, NEW t \in Tasks, NEW a, a = task[t].acct, NEW ok \in BOOLEAN,
           LocalEnd(t, ok)
    PROVE  HaltInv'
<1> DEFINE next == AfterLocal(task[t], task[t].durable, task[t].local)
           k == [task[t] EXCEPT !.conf = ok, !.pc = next]
           vain == ~ok /\ task[t].undo /\ ~Owned(t)
           seen(s) == [task[s] EXCEPT !.spoilt = @ \/ (vain /\ task[s].acct = a)]
<1>1. AtWork(task[t]) /\ task[t].pc = "local"
  BY DEF LocalEnd, AtWork, Stopping
<1>2. a \in Accounts /\ task[t] \in TaskRow /\ ControlTypeOK /\ NoPid \notin Pids
  BY <1>1, AtWorkIs
<1>3. /\ trans' = [trans EXCEPT ![a] = IF ok THEN NoTrans ELSE [@ EXCEPT !.terminating = FALSE]]
      /\ UNCHANGED <<runtime, lease, reg>>
      /\ halted' = IF vain THEN halted \ {a} ELSE halted
      /\ task' = [s \in Tasks |-> IF s = t THEN k ELSE seen(s)]
  BY DEF LocalEnd
<1>4. next \in {"confirm", "orphan"}
  BY DEF AfterLocal
<1> HIDE DEF next
<1>5. /\ k.pc = next /\ k.acct = a /\ k.conf = ok /\ k.op = task[t].op
      /\ k.bad = task[t].bad /\ k.spoilt = task[t].spoilt
  BY <1>2 DEF TaskRow
<1>6. ASSUME NEW s \in Tasks
      PROVE  /\ seen(s).pc = task[s].pc /\ seen(s).acct = task[s].acct /\ seen(s).op = task[s].op
             /\ seen(s).undo = task[s].undo /\ seen(s).bad = task[s].bad
             /\ seen(s).conf = task[s].conf /\ seen(s).durable = task[s].durable
             /\ seen(s).local = task[s].local
             /\ seen(s).spoilt <=> task[s].spoilt \/ (vain /\ task[s].acct = a)
  <2>1. task[s] \in TaskRow
    BY <1>2 DEF ControlTypeOK
  <2> HIDE DEF vain
  <2> QED BY <2>1 DEF TaskRow
<1> HIDE DEF k, seen
<1>7. task'[t] = k /\ OthersGo(t)
  BY <1>3, <1>6 DEF OthersGo, Stands, SameWork
<1>8. \A b \in Accounts : NoneNew(b)
  BY <1>2, <1>3, TransEnds
<1>9. task[t].bad => task[t].op # "start"
  BY DEF HaltInv, OwnerOK
<1>10. \A b \in Accounts \ {a} : ~Parting(t, b)
  BY DEF Parting, Lapsed
<1>11. CASE vain
  <2>1. OwnerOK(t)'
    BY <1>3, <1>5, <1>7, <1>9, <1>11 DEF OwnerOK, Owned
  <2>2. \A s \in Tasks \ {t} : task'[s].acct = a => task'[s].spoilt
    BY <1>3, <1>6, <1>11
  <2>3. a \notin halted' /\ halted' \subseteq halted
    BY <1>3, <1>11
  <2> QED BY <1>2, <1>3, <1>7, <1>8, <1>10, <2>1, <2>2, <2>3, HaltMoves
<1>12. CASE ~vain
  <2>1. ~Ending(t, a)
    BY <1>1 DEF Ending
  <2>2. ok => trans'[a].pid \notin Pids
    BY <1>2, <1>3 DEF ControlTypeOK, NoTrans
  <2>3. ~ok => ~Parting(t, a)
    BY <1>1, <1>12 DEF Parting, Lapsed, Owned
  <2>4. Spares(a)
    BY <1>2, <1>3, <1>7, <1>8, <2>1, <2>2, <2>3, SparedIs DEF NoneNew
  <2>5. lease[a] = t /\ Resumes(k) => a \notin halted
    BY <1>1, <1>5 DEF HaltInv, OwnerOK, Resumes
  <2>6. lease[a] = t /\ Confirms(k) => RegOK(a)' /\ TransOK(a)'
    <3> SUFFICES ASSUME lease[a] = t, Confirms(k) PROVE RegOK(a)' /\ TransOK(a)'
      OBVIOUS
    <3>1. ok /\ ~task[t].spoilt
      BY <1>4, <1>5 DEF Confirms
    <3>2. RegOK(a)
      BY <1>1, <3>1 DEF HaltInv, OwnerOK, Confirms, Stopping
    <3> QED BY <2>2, <2>4, <3>1, <3>2 DEF Spares, TransOK
  <2>7. OwnerOK(t)'
    BY <1>3, <1>5, <1>7, <1>9, <1>12, <2>5, <2>6 DEF OwnerOK
  <2>8. a \in halted' => Resting(a)' /\ RegOK(a)' /\ TransOK(a)'
    BY <1>2, <1>3, <1>12, <2>4 DEF Spares, HaltInv, HaltOK, Resting
  <2> QED BY <1>2, <1>3, <1>7, <1>8, <1>10, <1>12, <2>4, <2>7, <2>8, HaltMoves
<1> QED BY <1>11, <1>12

\* The recorded process is ended.
LEMMA StopOrphanHalts ==
    ASSUME ControlInv, HaltInv, NEW t \in Tasks, NEW a, a = task[t].acct, NEW ok \in BOOLEAN,
           StopOrphan(t, ok)
    PROVE  HaltInv'
<1> DEFINE k == [task[t] EXCEPT !.conf = @ /\ ok, !.pc = "confirm",
                                !.local = IF ok THEN @ ELSE task[t].durable]
<1>1. AtWork(task[t]) /\ task[t].pc = "orphan"
  BY DEF StopOrphan, AtWork, Stopping
<1>2. a \in Accounts /\ task[t] \in TaskRow /\ ControlTypeOK
  BY <1>1, AtWorkIs
<1>3. /\ TerminatePid(task[t].durable, a, ok) /\ UNCHANGED <<runtime, lease, halted>>
      /\ task' = [task EXCEPT ![t] = k]
  BY <1>2 DEF StopOrphan, ControlTypeOK
<1>4. /\ k.pc = "confirm" /\ k.acct = a /\ k.op = task[t].op /\ k.bad = task[t].bad
      /\ (k.conf <=> task[t].conf /\ ok) /\ k.spoilt = task[t].spoilt
  BY <1>2 DEF TaskRow
<1> HIDE DEF k
<1>5. task'[t] = k /\ OthersGo(t)
  BY <1>2, <1>3, OthersGoOn
<1>6. \A b \in Accounts : NoneNew(b)
  BY <1>2, <1>3, TerminatePidTakes
<1>7. ~Ending(t, a) /\ ~Parting(t, a)
  BY <1>1 DEF Ending, Parting
<1>8. Spares(a)
  BY <1>2, <1>3, <1>5, <1>6, <1>7, SparedIs DEF NoneNew
<1>9. OwnerOK(t)'
  <2>1. lease[a] = t /\ Resumes(k) => a \notin halted
    BY <1>1, <1>4 DEF HaltInv, OwnerOK, Resumes
  <2>2. lease[a] = t /\ Confirms(k) => RegOK(a) /\ TransOK(a)
    BY <1>1, <1>4 DEF HaltInv, OwnerOK, Confirms, Stopping
  <2>3. task[t].bad => task[t].op # "start"
    BY DEF HaltInv, OwnerOK
  <2> QED BY <1>3, <1>4, <1>5, <1>8, <2>1, <2>2, <2>3 DEF OwnerOK, Spares
<1>10. a \in halted' => Resting(a)'
  BY <1>2, <1>3 DEF HaltInv, HaltOK, Resting
<1> QED BY <1>2, <1>3, <1>5, <1>6, <1>7, <1>9, <1>10, ThreadHalts

\* A stop ends.  With its lease it knows that no process is left but another's without its own.
LEMMA StopEndHalts ==
    ASSUME ControlInv, HaltInv, NEW t \in Tasks, NEW a, a = task[t].acct, StopEnd(t)
    PROVE  HaltInv'
<1> DEFINE r == [StoppedRow(t) EXCEPT !.auto = @ /\ ~task[t].conf]
           q == [StoppedRow(t) EXCEPT !.auto = FALSE]
           k == [task[t] EXCEPT !.again = TRUE, !.pc = "stop"]
<1>1. /\ AtWork(task[t]) /\ task[t].pc = "confirm" /\ task[t].op \in {"stop", "delete", "pause"}
      /\ UNCHANGED registry
  BY DEF StopEnd, AtWork, Stopping
<1>2. /\ a \in Accounts /\ task[t] \in TaskRow /\ ControlTypeOK /\ runtime[a] \in RuntimeRow
  BY <1>1, AtWorkIs
<1>3. /\ StoppedRow(t) \in RuntimeRow /\ PausedRow(t) \in RuntimeRow
      /\ StoppedRow(t).desired = "stopped" /\ StoppedRow(t).pid = Survivor(t)
      /\ PausedRow(t).auto = runtime[a].auto
      /\ PausedRow(t).desired = runtime[a].desired /\ PausedRow(t).pid = Survivor(t)
  BY <1>1, StoppedRowIs
<1>4. /\ r \in RuntimeRow /\ r.desired = "stopped" /\ r.pid = Survivor(t)
      /\ task[t].conf => ~r.auto
      /\ q \in RuntimeRow /\ q.desired = "stopped" /\ q.pid = Survivor(t) /\ ~q.auto
  BY <1>2, <1>3 DEF RuntimeRow, TaskRow
<1>5. task[t].conf => Survivor(t) = NoPid
  BY DEF Survivor
<1>6. /\ \A b \in Accounts : NoneNew(b)
      /\ ~Parting(t, a) /\ ~Ending(t, a) /\ \A b \in Accounts \ {a} : ~Parting(t, b)
  BY <1>1 DEF registry, NoneNew, Parting, Ending, Lapsed
<1>7. /\ ~Owned(t) => halted' = halted
      /\ Owned(t) /\ ~task[t].conf => halted' = halted \ {a}
      /\ Owned(t) /\ task[t].conf /\ ~(task[t].op # "pause" /\ ~task[t].spoilt) => halted' = halted
      /\ Owned(t) /\ task[t].conf /\ task[t].op # "pause" /\ ~task[t].spoilt =>
            halted' = halted \cup {a}
  BY DEF StopEnd
<1> HIDE DEF r, q
<1>8. CASE ~Owned(t) /\ Finish(t) /\ UNCHANGED runtime
  <2>1. a \in halted' => Resting(a)'
    BY <1>2, <1>7, <1>8 DEF HaltInv, HaltOK, Resting
  <2> QED BY <1>2, <1>6, <1>7, <1>8, <2>1, FinishGoes, ThreadHalts
<1>9. ASSUME Owned(t), Finish(t), NEW row \in RuntimeRow, runtime' = [runtime EXCEPT ![a] = row],
             row.pid = Survivor(t),
             task[t].conf /\ (task[t].op = "pause" => a \in halted) =>
                row.desired = "stopped" /\ ~row.auto
      PROVE  HaltInv'
  <2>1. runtime'[a] = row /\ \A b \in Accounts \ {a} : runtime'[b] = runtime[b]
    BY <1>2, <1>9, RowWritten
  <2>2. a \in halted' => Resting(a)'
    BY <1>5, <1>7, <1>9, <2>1 DEF Resting
  <2>3. OthersGo(t) /\ OwnerOK(t)' /\ lease' = Released(t)
    BY <1>2, <1>9, FinishGoes
  <2>4. CASE halted' \subseteq halted
    BY <1>2, <1>6, <2>1, <2>2, <2>3, <2>4, ThreadHalts
  <2>5. CASE task[t].conf /\ ~task[t].spoilt /\ halted' = halted \cup {a}
    <3>1. RegOK(a) /\ TransOK(a)
      BY <1>1, <1>9, <2>5 DEF HaltInv, OwnerOK, Confirms, Stopping, Owned
    <3>2. \A s \in Tasks, b \in Accounts : lease'[b] = s => lease[b] = s
      BY <1>2, <2>3, WorkerAssumption DEF Released, ControlTypeOK, Leases, Tasks, NoTask
    <3>3. Spares(a)
      BY <1>2, <1>6, <2>3, <3>2, SparedIs DEF NoneNew
    <3>4. RegOK(a)' /\ TransOK(a)'
      BY <3>1, <3>3 DEF Spares
    <3>5. \A s \in Tasks \ {t} : lease'[a] # s
      BY <1>2, <1>9, <3>2 DEF Owned
    <3> QED BY <1>2, <1>6, <2>1, <2>2, <2>3, <2>5, <3>2, <3>4, <3>5, HaltMoves
  <2> QED BY <1>7, <1>9, <2>4, <2>5
<1>10. CASE /\ Owned(t) /\ ~task[t].conf /\ task[t].op = "delete"
            /\ runtime' = [runtime EXCEPT ![a] = StoppedRow(t)]
            /\ task' = [task EXCEPT ![t].again = TRUE, ![t].pc = "stop"]
            /\ UNCHANGED lease
  <2>1. \A b \in Accounts \ {a} : runtime'[b] = runtime[b]
    BY <1>2, <1>3, <1>10, RowWritten
  <2>2. k.pc = "stop" /\ k.acct = a /\ k.op = "delete"
    BY <1>2, <1>10 DEF TaskRow
  <2>3. task' = [task EXCEPT ![t] = k]
    BY <1>2, <1>10 DEF ControlTypeOK
  <2> HIDE DEF k
  <2>4. task'[t] = k /\ OthersGo(t)
    BY <1>2, <2>3, OthersGoOn
  <2>5. OwnerOK(t)'
    BY <2>2, <2>4 DEF OwnerOK, Resumes, Confirms, Stopping
  <2>6. a \notin halted' /\ halted' \subseteq halted
    BY <1>7, <1>10
  <2> QED BY <1>2, <1>6, <1>10, <2>1, <2>4, <2>5, <2>6, ThreadHalts
<1>11. CASE Owned(t) /\ task[t].op = "pause" /\ runtime' = [runtime EXCEPT ![a] = PausedRow(t)] /\ Finish(t)
  <2>1. a \in halted => PausedRow(t).desired = "stopped" /\ ~PausedRow(t).auto
    BY <1>2, <1>3 DEF HaltInv, HaltOK, Resting
  <2> QED BY <1>3, <1>9, <1>11, <2>1
<1>12. CASE Owned(t) /\ runtime' = [runtime EXCEPT ![a] = r] /\ Finish(t)
  BY <1>4, <1>9, <1>12
<1>13. CASE Owned(t) /\ runtime' = [runtime EXCEPT ![a] = q] /\ Finish(t)
  BY <1>4, <1>9, <1>13
<1> QED BY <1>8, <1>10, <1>11, <1>12, <1>13 DEF StopEnd, r, q

\* A task that works on nothing is no excuse.
LEMMA EasesExcuse ==
    ASSUME NEW t, AtEase(task[t])
    PROVE  \A b \in Accounts : ~Parting(t, b)
BY DEF AtEase, AtWork, Parting, Starting

\* The frame of the steps that write no row: handles go, and leases lapse or are given to t.
LEMMA CalmHalts ==
    ASSUME ControlInv, HaltInv, NEW t, OthersGo(t), UNCHANGED runtime, halted' \subseteq halted,
           \A s \in Tasks \ {t}, b \in Accounts : lease'[b] = s => lease[b] = s,
           \A b \in Accounts : NoneNew(b),
           t \in Tasks => OwnerOK(t)' /\ \A b \in Accounts : ~Parting(t, b)
    PROVE  HaltInv'
<1>1. CASE Accounts = {}
  <2>1. \A s \in Tasks : ~AtWork(task[s])
    BY <1>1, AtWorkIs
  <2>2. ASSUME NEW s \in Tasks \ {t} PROVE OwnerOK(s)'
    BY <2>1 DEF OthersGo, Stands, SameWork, AtWork, OwnerOK, HaltInv
  <2> QED BY <1>1, <2>2 DEF HaltInv
<1>2. ASSUME NEW a \in Accounts PROVE HaltInv'
  <2>1. t \in Tasks => ~Ending(t, a) /\ ~Parting(t, a)
    BY DEF Parting, Ending
  <2>2. Spares(a)
    BY <2>1, SparedIs DEF NoneNew
  <2>3. a \in halted' => Resting(a)' /\ RegOK(a)' /\ TransOK(a)'
    BY <2>2 DEF Spares, HaltInv, HaltOK, Resting
  <2> QED BY <2>2, <2>3, HaltMoves
<1> QED BY <1>1, <1>2

\* A task ends what it did, or goes on with no account.
LEMMA EaseHalts ==
    ASSUME ControlInv, HaltInv, NEW t \in Tasks, AtEase(task[t]), NEW k, AtEase(k),
           NEW a, task' = [task EXCEPT ![t] = k] \/ task' = [Bumped(a) EXCEPT ![t] = k],
           UNCHANGED <<runtime, lease, halted>>, \A b \in Accounts : NoneNew(b)
    PROVE  HaltInv'
<1>1. ControlTypeOK
  BY DEF ControlInv
<1>2. task'[t] = k /\ OthersGo(t)
  BY <1>1, OthersGoOn
<1>3. OwnerOK(t)'
  BY <1>2, OwnerEases
<1> QED BY <1>2, <1>3, EasesExcuse, CalmHalts

\* A step of no task.
LEMMA StillHalts ==
    ASSUME ControlInv, HaltInv, UNCHANGED <<runtime, task, halted>>,
           \A s \in Tasks, b \in Accounts : lease'[b] = s => lease[b] = s,
           \A b \in Accounts : NoneNew(b)
    PROVE  HaltInv'
<1>1. NoTask \notin Tasks
  BY WorkerAssumption DEF Tasks, NoTask
<1>2. OthersGo(NoTask)
  BY DEF OthersGo, Stands, SameWork
<1> QED BY <1>1, <1>2, CalmHalts

\* A task takes the lease of an account: to stop it, on its owner's word, or because it is not
\* halted.
LEMMA TakenHalts ==
    ASSUME ControlInv, HaltInv, NEW t \in Tasks, AtEase(task[t]), NEW a \in Accounts,
           task'[t].pc \in {"check", "stop"}, task'[t].acct = a, ~task'[t].bad,
           Resumes(task'[t]) => a \notin halted', OthersGo(t),
           lease' = [lease EXCEPT ![a] = t], UNCHANGED <<runtime, reg, trans>>,
           halted' \subseteq halted
    PROVE  HaltInv'
<1>1. ControlTypeOK
  BY DEF ControlInv
<1>3. OwnerOK(t)'
  BY DEF OwnerOK, Confirms, Stopping
<1>4. \A s \in Tasks \ {t}, b \in Accounts : lease'[b] = s => lease[b] = s
  BY <1>1 DEF ControlTypeOK, Leases
<1>5. \A b \in Accounts : NoneNew(b)
  BY DEF NoneNew
<1> QED BY <1>3, <1>4, <1>5, EasesExcuse, CalmHalts

\* A restoration takes only accounts that are not halted.
LEMMA RestoreNextHalts ==
    ASSUME ControlInv, HaltInv, NEW t \in Tasks, NEW a, a = Min(task[t].todo), RestoreNext(t)
    PROVE  HaltInv'
<1>1. /\ ControlTypeOK /\ task[t] \in TaskRow /\ TaskOK(t)
      /\ task[t].op = "restore" /\ task[t].pc = "next"
      /\ UNCHANGED <<runtime, reg, trans, halted>>
  BY DEF RestoreNext, ControlInv, ControlTypeOK, registry
<1>2. AtEase(task[t]) /\ ~task[t].undo /\ ~task[t].bad
  BY <1>1 DEF TaskOK, AtEase, AtWork, Starting, Stopping
<1>3. task[t].todo # {} => a \in Accounts
  <2> SUFFICES ASSUME task[t].todo # {} PROVE a \in Accounts
    OBVIOUS
  <2>1. task[t].todo \subseteq Accounts
    BY <1>1 DEF TaskRow
  <2>2. task[t].todo \subseteq Nat /\ IsFiniteSet(task[t].todo)
    BY <2>1, WorkerAssumption, FS_Subset
  <2> QED BY <2>1, <2>2, MinIsIn
<1>4. \A b \in Accounts : NoneNew(b)
  BY <1>1 DEF NoneNew
<1>5. CASE /\ task[t].todo # {}
           /\ Wanted(a) \/ runtime[a].pid # NoPid
           /\ lease' = [lease EXCEPT ![a] = t]
           /\ task' = [task EXCEPT ![t].todo = @ \ {a}, ![t].acct = a, ![t].row = TRUE,
                                   ![t].pc = "check", ![t].mode = runtime[a].mode]
  <2> DEFINE k == [task[t] EXCEPT !.todo = @ \ {a}, !.acct = a, !.row = TRUE,
                                  !.pc = "check", !.mode = runtime[a].mode]
  <2>1. k.pc = "check" /\ k.acct = a /\ ~k.bad
    BY <1>1, <1>2 DEF TaskRow
  <2>2. task' = [task EXCEPT ![t] = k]
    BY <1>5
  <2> HIDE DEF k
  <2>3. a \in Accounts
    BY <1>3, <1>5
  <2>4. a \notin halted'
    <3>1. HaltOK(a)
      BY <2>3 DEF HaltInv
    <3>2. runtime[a] \in RuntimeRow
      BY <1>1, <2>3 DEF ControlTypeOK
    <3> QED BY <1>1, <1>5, <3>1, <3>2 DEF HaltOK, Resting, Wanted, RuntimeRow
  <2>5. /\ k.pc \in {"check", "stop"} /\ lease' = [lease EXCEPT ![a] = t]
        /\ halted' \subseteq halted /\ UNCHANGED <<runtime, reg, trans>>
    BY <1>1, <1>5, <2>1
  <2>6. task'[t] = k /\ OthersGo(t)
    BY <1>1, <2>2, OthersGoOn
  <2>7. Resumes(task'[t]) => a \notin halted'
    BY <2>4
  <2> QED BY <1>2, <2>1, <2>3, <2>5, <2>6, <2>7, TakenHalts
<1>6. CASE task' = [task EXCEPT ![t].todo = @ \ {a}] /\ UNCHANGED lease
  <2> DEFINE k == [task[t] EXCEPT !.todo = @ \ {a}]
  <2>1. k.pc = "next" /\ k.op = "restore" /\ ~k.undo /\ ~k.bad
    BY <1>1, <1>2 DEF TaskRow
  <2>2. AtEase(k)
    BY <2>1 DEF AtEase, AtWork, Starting, Stopping
  <2>3. task' = [task EXCEPT ![t] = k]
    BY <1>6
  <2> HIDE DEF k
  <2> QED BY <1>1, <1>2, <1>4, <1>6, <2>2, <2>3, EaseHalts
<1>7. CASE /\ UNCHANGED lease
           /\ task' = [task EXCEPT ![t] =
                 IF task[t].pass = 1 /\ task[t].pending # {} /\ ~marker
                 THEN [Restoring EXCEPT !.pass = 2, !.todo = task[t].pending] ELSE Idle]
  <2> DEFINE k == [Restoring EXCEPT !.pass = 2, !.todo = task[t].pending]
  <2>1. AtEase(k)
    BY DEF Restoring, Idle, AtEase, AtWork, Starting, Stopping
  <2>2. PICK r \in {k, Idle} : task' = [task EXCEPT ![t] = r]
    BY <1>7
  <2>3. AtEase(r)
    BY <2>1, RowsAtEase
  <2> HIDE DEF k
  <2> QED BY <1>1, <1>2, <1>4, <1>7, <2>2, <2>3, EaseHalts
<1> QED BY <1>5, <1>6, <1>7 DEF RestoreNext

\* The requests of the owners: a start takes the account out of those that are halted.
LEMMA RequestsHalt ==
    ASSUME ControlInv, HaltInv, Requests
    PROVE  HaltInv'
<1>1. ControlTypeOK
  BY DEF ControlInv
<1>2. ASSUME NEW t \in Threads, NEW a \in Accounts, NEW m,
             NEW op \in {"start", "stop", "pause", "delete", "auto"}, Request(t, op, a, m)
      PROVE  HaltInv'
  <2> DEFINE k == [Idle EXCEPT !.op = op, !.acct = a, !.mode = m, !.pc =
                      IF op \in {"start", "auto"} THEN "check" ELSE "stop"]
  <2>1. /\ k.pc = (IF op \in {"start", "auto"} THEN "check" ELSE "stop")
        /\ k.acct = a /\ ~k.bad /\ k.op = op
    BY DEF Idle
  <2>2. /\ task' = [task EXCEPT ![t] = k] /\ lease' = [lease EXCEPT ![a] = t]
        /\ UNCHANGED <<runtime, reg, trans>> /\ task[t] = Idle
        /\ halted' = IF op = "start" THEN halted \ {a} ELSE halted
    BY <1>2 DEF Request
  <2> HIDE DEF k
  <2>3. t \in Tasks /\ AtEase(task[t]) /\ halted' \subseteq halted
    BY <2>2, RowsAtEase DEF Tasks
  <2>4. Resumes(k) => a \notin halted'
    BY <2>1, <2>2 DEF Resumes
  <2>5. k.pc \in {"check", "stop"}
    BY <2>1
  <2>6. task'[t] = k /\ OthersGo(t)
    BY <1>1, <2>2, <2>3, OthersGoOn
  <2> QED BY <2>1, <2>2, <2>3, <2>4, <2>5, <2>6, TakenHalts
<1>3. ASSUME NEW a \in Accounts, CompleteLogin(a)
      PROVE  HaltInv'
  <2>1. /\ \A b \in Accounts \ {a} : runtime'[b] = runtime[b] /\ NoneNew(b)
        /\ halted' = halted \ {a} /\ UNCHANGED <<lease, task, reg, trans>>
    BY <1>1, <1>3 DEF CompleteLogin, ControlTypeOK, registry, NoneNew
  <2>2. NoTask \notin Tasks /\ OthersGo(NoTask)
    BY <2>1, WorkerAssumption DEF Tasks, NoTask, OthersGo, Stands, SameWork
  <2>3. Spares(a)
    BY <2>1, <2>2, SparedIs
  <2> QED BY <2>1, <2>2, <2>3, HaltMoves
<1>4. \A r \in Offered : r[1] \in Accounts
  BY WorkerAssumption
<1> QED BY <1>2, <1>3, <1>4 DEF Requests

\* The maintenance watcher ends workers and works on no account.
LEMMA WatcherHalts ==
    ASSUME ControlInv, HaltInv, WatcherStep
    PROVE  HaltInv'
<1>1. /\ ControlTypeOK /\ Watcher \in Tasks /\ task[Watcher] \in TaskRow /\ NoPid \notin Pids
  BY WorkerAssumption DEF ControlInv, ControlTypeOK, Tasks, NoPid
<1>2. UNCHANGED <<reg, trans>> => \A b \in Accounts : NoneNew(b)
  BY DEF NoneNew
<1>3. task[Watcher].pc \in {"idle", "shutdown", "orphans"} => AtEase(task[Watcher])
  BY <1>1, WatcherAtEase
<1>4. CASE Enter \/ Leave
  <2>1. /\ task[Watcher] = Idle /\ UNCHANGED <<runtime, lease, reg, trans, halted>>
        /\ \E k \in {Entering, Restoring} : task' = [task EXCEPT ![Watcher] = k]
    BY <1>4 DEF Enter, Leave, registry
  <2> QED BY <1>1, <1>2, <2>1, RowsAtEase, EaseHalts
<1>5. CASE Entered
  <2>1. /\ task[Watcher].pc = "orphans" /\ UNCHANGED <<runtime, lease, reg, trans, halted>>
        /\ task' = [task EXCEPT ![Watcher] = Idle]
    BY <1>5 DEF Entered, registry
  <2> QED BY <1>1, <1>2, <1>3, <2>1, RowsAtEase, EaseHalts
<1>6. CASE ShutdownEnd
  <2> DEFINE todo == {a \in Accounts : runtime[a].pid # NoPid}
             k == [task[Watcher] EXCEPT !.pc = "orphans", !.todo = todo]
  <2>1. /\ task[Watcher].pc = "shutdown" /\ UNCHANGED <<runtime, lease, reg, trans, halted>>
        /\ task' = [task EXCEPT ![Watcher] = k]
    BY <1>6 DEF ShutdownEnd, registry
  <2> HIDE DEF todo
  <2>2. /\ k.pc = "orphans" /\ k.undo = task[Watcher].undo /\ k.bad = task[Watcher].bad
        /\ k.op = task[Watcher].op
    BY <1>1 DEF TaskRow
  <2> HIDE DEF k
  <2>3. AtEase(k)
    BY <1>1, <2>1, <2>2, WatcherAtEase
  <2> QED BY <1>1, <1>2, <1>3, <2>1, <2>3, EaseHalts
<1>7. ASSUME NEW a \in Accounts, NEW ok \in BOOLEAN, ShutdownOne(a, ok)
      PROVE  HaltInv'
  <2> DEFINE p == IF trans[a] # NoTrans THEN trans[a].pid ELSE reg[a]
             k == [task[Watcher] EXCEPT !.todo = @ \ {a}]
  <2>1. /\ task[Watcher].pc = "shutdown" /\ UNCHANGED <<runtime, lease, halted>>
        /\ trans' = [trans EXCEPT ![a] = IF ok THEN NoTrans ELSE [pid |-> p, terminating |-> FALSE]]
        /\ reg' = [reg EXCEPT ![a] = NoPid]
        /\ task' = [Bumped(a) EXCEPT ![Watcher].todo = @ \ {a}]
    BY <1>7 DEF ShutdownOne
  <2>2. Bumped(a)[Watcher] = task[Watcher]
    BY <1>1, <2>1 DEF Bumped
  <2>3. task' = [Bumped(a) EXCEPT ![Watcher] = k]
    BY <2>1, <2>2
  <2>4. /\ k.pc = "shutdown" /\ k.undo = task[Watcher].undo /\ k.bad = task[Watcher].bad
        /\ k.op = task[Watcher].op
    BY <1>1, <2>1 DEF TaskRow
  <2> HIDE DEF k
  <2>5. AtEase(k)
    BY <1>1, <2>1, <2>4, WatcherAtEase
  <2>6. \A b \in Accounts : NoneNew(b)
    <3>1. /\ \A b \in Accounts \ {a} : reg'[b] = reg[b] /\ trans'[b] = trans[b]
          /\ reg'[a] = NoPid /\ trans'[a].pid \in {NoPid, p}
      BY <1>1, <2>1 DEF ControlTypeOK, Handles, NoTrans
    <3> QED BY <1>1, <3>1 DEF NoneNew
  <2> QED BY <1>1, <1>3, <2>1, <2>3, <2>5, <2>6, EaseHalts
<1>8. ASSUME NEW a \in Accounts, NEW ok \in BOOLEAN, EnterOrphan(a, ok)
      PROVE  HaltInv'
  <2> DEFINE k == [task[Watcher] EXCEPT !.todo = @ \ {a}]
  <2>1. /\ task[Watcher].pc = "orphans" /\ UNCHANGED <<runtime, lease, halted>>
        /\ task' = [task EXCEPT ![Watcher] = IF ok THEN k ELSE Idle]
        /\ UNCHANGED <<reg, trans>> \/ TerminatePid(runtime[a].pid, a, ok)
    BY <1>8 DEF EnterOrphan
  <2>2. /\ k.pc = "orphans" /\ k.undo = task[Watcher].undo /\ k.bad = task[Watcher].bad
        /\ k.op = task[Watcher].op
    BY <1>1, <2>1 DEF TaskRow
  <2> HIDE DEF k
  <2>3. AtEase(k) /\ AtEase(Idle)
    BY <1>1, <2>1, <2>2, WatcherAtEase, RowsAtEase
  <2>4. \A b \in Accounts : NoneNew(b)
    BY <1>1, <1>2, <2>1, TerminatePidTakes
  <2>5. task' = [task EXCEPT ![Watcher] = k] \/ task' = [task EXCEPT ![Watcher] = Idle]
    BY <2>1
  <2> QED BY <1>1, <1>3, <2>1, <2>3, <2>4, <2>5, EaseHalts
<1> QED BY <1>4, <1>5, <1>6, <1>7, <1>8 DEF WatcherStep

\* Maintenance, the host's processes, lapses and crashes.
LEMMA EnvironmentHalts ==
    ASSUME ControlInv, HaltInv, UpOK, Environment
    PROVE  HaltInv'
<1>1. /\ ControlTypeOK /\ NoTask \notin Tasks /\ NoPid \notin Pids /\ Gone \notin Pids
      /\ Boot \in Tasks /\ Watcher \in Tasks
  BY WorkerAssumption DEF ControlInv, Tasks, NoTask, NoPid, Gone
<1>2. UNCHANGED <<reg, trans>> => \A b \in Accounts : NoneNew(b)
  BY DEF NoneNew
<1>3. CASE Maintain
  <2> DEFINE k == [task[Watcher] EXCEPT !.row = FALSE]
  <2>1. /\ UNCHANGED <<runtime, lease, reg, trans, halted>>
        /\ \/ UNCHANGED task
           \/ task[Watcher].op = "enter" /\ task' = [task EXCEPT ![Watcher] = k]
    BY <1>3 DEF Maintain, registry
  <2>2. task[Watcher] \in TaskRow /\ TaskOK(Watcher)
    BY <1>1 DEF ControlInv, ControlTypeOK
  <2>3. /\ k.pc = task[Watcher].pc /\ k.undo = task[Watcher].undo /\ k.bad = task[Watcher].bad
        /\ k.op = task[Watcher].op
    BY <2>2 DEF TaskRow
  <2> HIDE DEF k
  <2>4. task[Watcher].op = "enter" => AtEase(task[Watcher]) /\ AtEase(k)
    BY <2>2, <2>3 DEF TaskOK, WorkOK, AtEase, AtWork
  <2>5. CASE UNCHANGED task
    BY <1>2, <2>1, <2>5, StillHalts
  <2>6. CASE task[Watcher].op = "enter" /\ task' = [task EXCEPT ![Watcher] = k]
    BY <1>1, <1>2, <2>1, <2>4, <2>6, EaseHalts
  <2> QED BY <2>1, <2>5, <2>6
<1>4. CASE Drain
  BY <1>2, <1>4, StillHalts DEF Drain, registry
<1>5. CASE Reap
  <2> DEFINE seen(s) == [task[s] EXCEPT !.fresh = FALSE]
  <2>1. /\ UNCHANGED <<runtime, lease, trans, halted>>
        /\ reg' = [b \in Accounts |-> IF reg[b] = Gone THEN NoPid ELSE reg[b]]
        /\ \A s \in Tasks : task'[s] = task[s] \/ task'[s] = seen(s)
    BY <1>5 DEF Reap
  <2>2. ASSUME NEW s \in Tasks
        PROVE  /\ seen(s).pc = task[s].pc /\ seen(s).acct = task[s].acct
               /\ seen(s).op = task[s].op /\ seen(s).undo = task[s].undo
               /\ seen(s).bad = task[s].bad /\ seen(s).conf = task[s].conf
               /\ seen(s).durable = task[s].durable /\ seen(s).local = task[s].local
               /\ seen(s).spoilt = task[s].spoilt
    <3>1. task[s] \in TaskRow
      BY <1>1 DEF ControlTypeOK
    <3> QED BY <3>1 DEF TaskRow
  <2> HIDE DEF seen
  <2>3. OthersGo(NoTask)
    BY <2>1, <2>2 DEF OthersGo, Stands, SameWork
  <2>4. \A b \in Accounts : NoneNew(b)
    BY <1>1, <2>1 DEF NoneNew
  <2> QED BY <1>1, <2>1, <2>3, <2>4, CalmHalts
<1>6. CASE Booted
  <2>1. /\ task[Boot].pc = "boot" /\ UNCHANGED <<runtime, lease, reg, trans, halted>>
        /\ \E k \in {Idle, Restoring} : task' = [task EXCEPT ![Boot] = k]
    BY <1>6 DEF Booted, registry
  <2>2. AtEase(task[Boot])
    BY <1>1, <2>1, WatcherAtEase
  <2> QED BY <1>1, <1>2, <2>1, <2>2, RowsAtEase, EaseHalts
<1>7. ASSUME NEW p \in Pids, WorkerDies(p) PROVE HaltInv'
  <2>1. UNCHANGED <<runtime, lease, task, halted>> /\ Disowned(p)
    BY <1>7 DEF WorkerDies
  <2>2. \A b \in Accounts : NoneNew(b)
    <3>1. \A b \in Accounts : trans[b] \in TransRow
      BY <1>1 DEF ControlTypeOK
    <3>2. \A b \in Accounts : trans'[b] = trans[b] \/ trans'[b].pid = Gone
      BY <2>1, <3>1 DEF Disowned, TransRow
    <3>3. \A b \in Accounts : reg'[b] = reg[b] \/ reg'[b] = Gone
      BY <2>1 DEF Disowned
    <3> QED BY <1>1, <3>2, <3>3 DEF NoneNew
  <2> QED BY <2>1, <2>2, StillHalts
<1>8. ASSUME NEW p \in Pids, OtherProcess(p) PROVE HaltInv'
  BY <1>2, <1>8, StillHalts DEF OtherProcess, registry
<1>9. ASSUME NEW p \in Pids, ApiStarts(p) PROVE HaltInv'
  <2>1. /\ \A s \in Tasks : task[s].pc = "idle"
        /\ UNCHANGED <<runtime, reg, trans, halted>>
        /\ task' = [task EXCEPT ![Boot] = [Restoring EXCEPT !.pc = "boot"],
                                ![Watcher] = IF marker THEN Entering ELSE Idle]
    BY <1>9 DEF ApiStarts, UpOK, registry
  <2>2. \A s \in Tasks : AtEase(task[s])
    BY <2>1 DEF ControlInv, TaskOK, AtWork, Starting, Stopping
  <2>3. AtEase([Restoring EXCEPT !.pc = "boot"])
    BY DEF Restoring, Idle, AtEase, AtWork, Starting, Stopping
  <2>4. \A s \in Tasks : AtEase(task'[s])
    BY <1>1, <2>1, <2>2, <2>3, RowsAtEase DEF ControlTypeOK
  <2>5. \A s \in Tasks : OwnerOK(s)'
    BY <2>4, OwnerEases
  <2>6. \A b \in Accounts : (RegOK(b) => reg[b] \notin Pids) /\ (TransOK(b) => trans[b].pid \notin Pids)
    BY <2>2, EasesExcuse DEF RegOK, TransOK, Ending, Parting
  <2>7. ASSUME NEW b \in Accounts PROVE HaltOK(b)'
    BY <2>1, <2>6 DEF HaltInv, HaltOK, RegOK, TransOK, Resting
  <2> QED BY <2>5, <2>7 DEF HaltInv
<1>10. ASSUME NEW a \in Accounts, LeaseExpires(a) PROVE HaltInv'
  <2>1. UNCHANGED <<runtime, reg, trans, task, halted>> /\ lease' = [lease EXCEPT ![a] = NoTask]
    BY <1>10 DEF LeaseExpires, registry
  <2>2. \A s \in Tasks, b \in Accounts : lease'[b] = s => lease[b] = s
    BY <1>1, <2>1 DEF ControlTypeOK, Leases
  <2> QED BY <1>2, <2>1, <2>2, StillHalts
<1>11. ASSUME NEW a \in Accounts, LoginLost(a) \/ Connect(a) PROVE HaltInv'
  BY <1>2, <1>11, StillHalts DEF LoginLost, Connect, registry
<1>12. ASSUME NEW group \in BOOLEAN, ApiDies(group) PROVE HaltInv'
  <2>1. /\ UNCHANGED <<runtime, halted>> /\ \A s \in Tasks : task'[s] = Idle
        /\ \A b \in Accounts : reg'[b] = NoPid /\ trans'[b] = NoTrans
    BY <1>12 DEF ApiDies
  <2>2. \A s \in Tasks : OwnerOK(s)'
    BY <2>1, RowsAtEase, OwnerEases
  <2>3. \A b \in Accounts : HaltOK(b)'
    BY <1>1, <2>1 DEF HaltInv, HaltOK, RegOK, TransOK, Resting, NoTrans
  <2> QED BY <2>2, <2>3 DEF HaltInv
<1> QED BY <1>3, <1>4, <1>5, <1>6, <1>7, <1>8, <1>9, <1>10, <1>11, <1>12 DEF Environment

\* The steps of a thread.
LEMMA ThreadsHalt ==
    ASSUME ControlInv, HaltInv, NEW t \in Tasks, ThreadStep(t)
    PROVE  HaltInv'
<1>1. PICK a : a = task[t].acct
  OBVIOUS
<1>2. PICK b : b = Min(task[t].todo)
  OBVIOUS
<1>3. CASE StopLocal(t) \/ StopEnd(t) \/ Degrade(t) \/ Undone(t)
  BY <1>1, <1>3, StopLocalHalts, StopEndHalts, DegradesHalt
<1>4. CASE Prepare(t) \/ Replaced(t) \/ BotStart(t) \/ Spawn(t) \/ Started(t)
  BY <1>1, <1>4, PrepareHalts, ReplacedHalts, BotStartHalts, SpawnHalts, StartedHalts
<1>5. CASE RestoreNext(t) \/ RestoreStopped(t)
  BY <1>1, <1>2, <1>5, RestoreNextHalts, DegradesHalt
<1>6. ASSUME NEW ok \in BOOLEAN,
             LocalEnd(t, ok) \/ StopOrphan(t, ok) \/ Replace(t, ok)
      PROVE  HaltInv'
  BY <1>1, <1>6, LocalEndHalts, StopOrphanHalts, ReplaceHalts
<1>7. ASSUME NEW ok \in BOOLEAN,
             \/ RetryEnd(t, ok) \/ RestartEnd(t, ok)
             \/ RestoreRelogin(t, ok) \/ RestoreAdopt(t, ok)
      PROVE  HaltInv'
  BY <1>1, <1>7, RetriesHalt, RestoreReloginHalts, RestoreAdoptHalts
<1>8. ASSUME NEW valid \in BOOLEAN, CheckStart(t, valid) \/ RestoreCheck(t, valid)
      PROVE  HaltInv'
  BY <1>1, <1>8, CheckStartHalts, RestoreCheckHalts
<1> QED BY <1>3, <1>4, <1>5, <1>6, <1>7, <1>8 DEF ThreadStep

\* A thread is at work only while the API is up.
LEMMA UpStays ==
    ASSUME ControlInv, UpOK, [Next]_vars
    PROVE  UpOK'
<1>1. Boot \in Tasks /\ Watcher \in Tasks /\ ControlTypeOK
  BY WorkerAssumption DEF Tasks, ControlInv
<1>2. CASE UNCHANGED <<up, task>>
  BY <1>2 DEF UpOK
<1>3. CASE up /\ up' = up
  BY <1>3 DEF UpOK
<1>4. ASSUME NEW t \in Tasks, ThreadStep(t) PROVE up /\ up' = up
  <2>1. CASE StopLocal(t) \/ StopEnd(t) \/ Degrade(t) \/ Undone(t)
    BY <2>1, Zenon DEF UpOK, StopLocal, StopEnd, Degrade, Undone, host
  <2>2. CASE Prepare(t) \/ Replaced(t) \/ BotStart(t)
    BY <2>2, Zenon DEF UpOK, Prepare, Replaced, BotStart, host
  <2>3. CASE Spawn(t) \/ Started(t)
    BY <2>3 DEF UpOK, Spawn, Started, host
  <2>4. CASE RestoreNext(t) \/ RestoreStopped(t)
    BY <2>4 DEF UpOK, RestoreNext, RestoreStopped, host
  <2>5. ASSUME NEW ok \in BOOLEAN, LocalEnd(t, ok) \/ StopOrphan(t, ok) \/ Replace(t, ok)
        PROVE  up /\ up' = up
    BY <2>5 DEF UpOK, LocalEnd, StopOrphan, Replace, host
  <2>6. ASSUME NEW ok \in BOOLEAN, RetryEnd(t, ok) \/ RestartEnd(t, ok) \/ RestoreRelogin(t, ok)
        PROVE  up /\ up' = up
    BY <2>6 DEF UpOK, RetryEnd, RestartEnd, RestoreRelogin, host
  <2>7. ASSUME NEW ok \in BOOLEAN, RestoreAdopt(t, ok) PROVE up /\ up' = up
    BY <2>7, Zenon DEF UpOK, RestoreAdopt, host
  <2>8. ASSUME NEW valid \in BOOLEAN, CheckStart(t, valid) \/ RestoreCheck(t, valid)
        PROVE  up /\ up' = up
    BY <2>8 DEF UpOK, CheckStart, RestoreCheck, host
  <2> QED BY <1>4, <2>1, <2>2, <2>3, <2>4, <2>5, <2>6, <2>7, <2>8 DEF ThreadStep
<1>5. CASE WatcherStep
  <2>1. CASE Enter \/ Leave
    BY <1>3, <2>1 DEF Enter, Leave, host
  <2>2. CASE Entered \/ ShutdownEnd
    BY <1>1, <1>3, <2>2 DEF UpOK, Entered, ShutdownEnd, host
  <2>3. ASSUME NEW a \in Accounts, NEW ok \in BOOLEAN, ShutdownOne(a, ok) \/ EnterOrphan(a, ok)
        PROVE  up /\ up' = up
    BY <1>1, <2>3 DEF UpOK, ShutdownOne, EnterOrphan, host
  <2> QED BY <1>3, <1>5, <2>1, <2>2, <2>3 DEF WatcherStep
<1>6. CASE Requests
  <2>1. up /\ up' = up
    BY <1>6 DEF Requests, Request, CompleteLogin, Serving
  <2> QED BY <1>3, <2>1
<1>7. CASE Environment
  <2>1. CASE Maintain
    <3> DEFINE k == [task[Watcher] EXCEPT !.row = FALSE]
    <3>1. up' = up /\ (task' = task \/ task' = [task EXCEPT ![Watcher] = k])
      BY <2>1 DEF Maintain
    <3>2. k.pc = task[Watcher].pc
      BY <1>1 DEF ControlTypeOK, TaskRow
    <3> HIDE DEF k
    <3>3. \A s \in Tasks : task'[s].pc = task[s].pc
      BY <1>1, <3>1, <3>2 DEF ControlTypeOK
    <3> QED BY <3>1, <3>3 DEF UpOK
  <2>2. CASE Drain \/ Reap
    BY <1>3, <2>2 DEF Drain, Reap, host
  <2>3. CASE Booted
    BY <1>1, <1>3, <2>3 DEF UpOK, Booted, host
  <2>4. ASSUME NEW p \in Pids, WorkerDies(p) \/ OtherProcess(p) PROVE UpOK'
    BY <1>2, <2>4 DEF WorkerDies, OtherProcess, host
  <2>5. ASSUME NEW p \in Pids, ApiStarts(p) PROVE UpOK'
    BY <2>5 DEF ApiStarts, UpOK
  <2>6. ASSUME NEW a \in Accounts, LeaseExpires(a) \/ LoginLost(a) \/ Connect(a) PROVE UpOK'
    BY <1>2, <2>6 DEF LeaseExpires, LoginLost, Connect, host
  <2>7. ASSUME NEW group \in BOOLEAN, ApiDies(group) PROVE UpOK'
    <3>1. \A s \in Tasks : task'[s] = Idle
      BY <2>7 DEF ApiDies
    <3> QED BY <3>1 DEF UpOK, Idle
  <2> QED BY <1>7, <2>1, <2>2, <2>3, <2>4, <2>5, <2>6, <2>7 DEF Environment
<1>8. CASE UNCHANGED vars
  BY <1>2, <1>8 DEF vars
<1> QED BY <1>3, <1>4, <1>5, <1>6, <1>7, <1>8 DEF Next

\* At first no account is halted and no task works.
LEMMA InitHalts == Init => HaltInv /\ UpOK
<1> SUFFICES ASSUME Init PROVE HaltInv /\ UpOK
  OBVIOUS
<1>1. halted = {} /\ \A t \in Tasks : task[t] = Idle
  BY DEF Init
<1>2. \A t \in Tasks : task[t].pc = "idle" /\ ~task[t].bad /\ ~AtWork(task[t])
  BY <1>1 DEF Idle, AtWork, Starting, Stopping
<1>3. \A t \in Tasks : OwnerOK(t)
  BY <1>2 DEF OwnerOK
<1>4. \A a \in Accounts : HaltOK(a)
  BY <1>1 DEF HaltOK
<1> QED BY <1>2, <1>3, <1>4 DEF HaltInv, UpOK

\* Every step keeps what holds of stops.
LEMMA NextHalts ==
    ASSUME ControlInv, HaltInv, UpOK, [Next]_vars
    PROVE  HaltInv' /\ UpOK'
<1>1. UpOK'
  BY UpStays
<1>2. ASSUME NEW t \in Tasks, ThreadStep(t) PROVE HaltInv'
  BY <1>2, ThreadsHalt
<1>3. CASE UNCHANGED vars
  <2>1. UNCHANGED <<runtime, task, halted, lease, reg, trans>>
    BY <1>3 DEF vars
  <2>2. \A b \in Accounts : NoneNew(b)
    BY <2>1 DEF NoneNew
  <2> QED BY <1>1, <2>1, <2>2, StillHalts
<1> QED BY <1>1, <1>2, <1>3, WatcherHalts, RequestsHalt, EnvironmentHalts DEF Next

\* A worker of a halted account is in the registry or in a transition, so it has its excuse.
LEMMA HaltsHold == ControlInv /\ HaltInv => StopHolds
<1> SUFFICES ASSUME ControlInv, HaltInv, NEW a \in halted, NEW p \in Workers \ lost, IsWorker(p, a)
             PROVE  \E t \in Tasks : /\ task[t].acct = a /\ lease[a] # t
                                     /\ task[t].pc = "started" \/ task[t].undo
  BY DEF StopHolds
<1>1. a \in Accounts /\ p \in Pids /\ NoPid \notin Pids
  BY WorkerAssumption DEF ControlInv, ControlTypeOK, Workers, NoPid
<1>2. AccountOK(a) /\ Resting(a) /\ RegOK(a) /\ TransOK(a)
  BY <1>1 DEF ControlInv, HaltInv, HaltOK
<1>3. reg[a] = p \/ trans[a].pid = p \/ Apart(p, a)
  BY <1>1, <1>2 DEF Apart
<1>4. ~Apart(p, a)
  BY <1>1, <1>2 DEF AccountOK, Resting
<1> QED BY <1>1, <1>2, <1>3, <1>4 DEF RegOK, TransOK, Ending, Parting, Lapsed

-----------------------------------------------------------------------------
(* The theorems.                                                           *)

\* Nothing runs at first.
LEMMA InitIsGood == Init => ControlInv
<1> SUFFICES ASSUME Init PROVE ControlInv
  OBVIOUS
<1>1. /\ shop = [a \in Accounts |-> [enabled |-> TRUE, connected |-> TRUE, reauth |-> FALSE]]
      /\ runtime = [a \in Accounts |-> [desired |-> "running", state |-> "waiting_login",
                                        mode |-> "rules", pid |-> NoPid, auto |-> TRUE]]
      /\ lease = [a \in Accounts |-> NoTask] /\ os = [p \in Pids |-> Free]
      /\ reg = [a \in Accounts |-> NoPid] /\ trans = [a \in Accounts |-> NoTrans]
      /\ resv = [a \in Accounts |-> NoTask] /\ task = [t \in Tasks |-> Idle]
      /\ ~marker /\ marker \in BOOLEAN /\ entered = "no" /\ up \in BOOLEAN
      /\ ~drained /\ drained \in BOOLEAN /\ halted = {} /\ lost = {}
      /\ NoPid \notin Pids
  BY WorkerAssumption DEF Init, NoPid
<1>2. shop \in [Accounts -> ShopRow] /\ runtime \in [Accounts -> RuntimeRow]
  BY <1>1 DEF ShopRow, RuntimeRow, Modes
<1>3. /\ lease \in Leases /\ reg \in Handles /\ trans \in [Accounts -> TransRow]
      /\ resv \in Claims
  BY <1>1 DEF Leases, Handles, TransRow, NoTrans, Claims
<1>4. os \in [Pids -> OsRow] /\ \A p \in Pids : os[p].kind = "free"
  BY <1>1 DEF OsRow, Free, Modes
<1>5. task \in [Tasks -> TaskRow] /\ \A t \in Tasks : AtEase(task[t])
  <2> HIDE DEF TaskRow
  <2> QED BY <1>1, RowsAtEase
<1>6. ControlTypeOK
  BY <1>1, <1>2, <1>3, <1>4, <1>5 DEF ControlTypeOK
<1>7. \A a \in Accounts : AccountOK(a)
  BY <1>1, <1>4 DEF AccountOK, HandlesOK, Apart, IsWorker, NoTrans
<1>8. \A t \in Tasks : TaskOK(t)
  BY <1>5 DEF TaskOK, AtEase
<1> QED BY <1>1, <1>6, <1>7, <1>8 DEF ControlInv, DrainOK

\* A step of something else.
LEMMA RestKeeps ==
    ASSUME ControlInv, UNCHANGED vars
    PROVE  ControlInv'
<1>1. /\ ControlTypeOK /\ NoTask \notin Tasks
      /\ UNCHANGED <<shop, runtime, lease, os, reg, trans, resv, task, marker, entered, up,
                     drained, halted, lost>>
  BY WorkerAssumption DEF ControlInv, Tasks, NoTask, vars
<1>2. OthersStand(NoTask) /\ Workers' = Workers
  BY <1>1 DEF OthersStand, SameWork, Workers
<1>3. DrainOK'
  BY <1>1, <1>2, DrainRests
<1> QED BY <1>1, <1>2, <1>3, CalmMoves DEF ControlTypeOK

\* The steps of a thread.
LEMMA ThreadKeeps ==
    ASSUME ControlInv, NEW t \in Tasks, ThreadStep(t)
    PROVE  ControlInv'
<1>1. PICK a : a = task[t].acct
  OBVIOUS
<1>2. PICK b : b = Min(task[t].todo)
  OBVIOUS
<1>3. CASE StopLocal(t) \/ StopEnd(t) \/ Degrade(t) \/ Undone(t)
  BY <1>1, <1>3, StopLocalKeeps, StopEndKeeps, DegradeKeeps, UndoneKeeps
<1>4. CASE Prepare(t) \/ Replaced(t) \/ BotStart(t) \/ Spawn(t) \/ Started(t)
  BY <1>1, <1>4, PrepareKeeps, ReplacedKeeps, BotStartKeeps, SpawnKeeps, StartedKeeps
<1>5. CASE RestoreNext(t) \/ RestoreStopped(t)
  BY <1>1, <1>2, <1>5, RestoreNextKeeps, RestoreStoppedKeeps
<1>6. ASSUME NEW ok \in BOOLEAN,
             LocalEnd(t, ok) \/ StopOrphan(t, ok) \/ Replace(t, ok)
      PROVE  ControlInv'
  BY <1>1, <1>6, LocalEndKeeps, StopOrphanKeeps, ReplaceKeeps
<1>7. ASSUME NEW ok \in BOOLEAN,
             \/ RetryEnd(t, ok) \/ RestartEnd(t, ok)
             \/ RestoreRelogin(t, ok) \/ RestoreAdopt(t, ok)
      PROVE  ControlInv'
  BY <1>1, <1>7, RetryEndKeeps, RestartEndKeeps, RestoreReloginKeeps, RestoreAdoptKeeps
<1>8. ASSUME NEW valid \in BOOLEAN, CheckStart(t, valid) \/ RestoreCheck(t, valid)
      PROVE  ControlInv'
  BY <1>1, <1>8, CheckStartKeeps, RestoreCheckKeeps
<1> QED BY <1>3, <1>4, <1>5, <1>6, <1>7, <1>8 DEF ThreadStep

\* The steps of the maintenance watcher.
LEMMA WatcherKeeps ==
    ASSUME ControlInv, WatcherStep
    PROVE  ControlInv'
<1>1. CASE Enter \/ ShutdownEnd \/ Entered \/ Leave
  BY <1>1, EnterKeeps, ShutdownEndKeeps, EnteredKeeps, LeaveKeeps
<1>2. ASSUME NEW a \in Accounts, NEW ok \in BOOLEAN, ShutdownOne(a, ok) \/ EnterOrphan(a, ok)
      PROVE  ControlInv'
  BY <1>2, ShutdownOneKeeps, EnterOrphanKeeps
<1> QED BY <1>1, <1>2 DEF WatcherStep

\* The requests of the owners.
LEMMA RequestsKeep ==
    ASSUME ControlInv, Requests
    PROVE  ControlInv'
<1>1. PICK t \in Threads, r \in Offered :
          \/ \E m \in Modes : r[2] = "start" /\ Request(t, "start", r[1], m)
          \/ r[2] \in {"stop", "pause", "delete"} /\ Request(t, r[2], r[1], "rules")
          \/ r[2] = "auto" /\ Request(t, "auto", r[1], runtime[r[1]].mode)
          \/ r[2] = "complete" /\ CompleteLogin(r[1])
  BY DEF Requests
<1>2. r[1] \in Accounts
  BY WorkerAssumption
<1>3. runtime[r[1]].mode \in Modes /\ "rules" \in Modes
  BY <1>2 DEF ControlInv, ControlTypeOK, RuntimeRow, Modes
<1>4. CASE \E m \in Modes : r[2] = "start" /\ Request(t, "start", r[1], m)
  BY <1>2, <1>4, RequestKeeps
<1>5. CASE r[2] \in {"stop", "pause", "delete"} /\ Request(t, r[2], r[1], "rules")
  BY <1>2, <1>3, <1>5, RequestKeeps
<1>6. CASE r[2] = "auto" /\ Request(t, "auto", r[1], runtime[r[1]].mode)
  BY <1>2, <1>3, <1>6, RequestKeeps
<1>7. CASE r[2] = "complete" /\ CompleteLogin(r[1])
  BY <1>2, <1>7, CompleteLoginKeeps
<1> QED BY <1>1, <1>4, <1>5, <1>6, <1>7

\* Maintenance, the host's processes, lapses and crashes.
LEMMA EnvironmentKeeps ==
    ASSUME ControlInv, Environment
    PROVE  ControlInv'
<1>1. CASE Maintain \/ Drain \/ Reap \/ Booted
  BY <1>1, MaintainKeeps, DrainKeeps, ReapKeeps, BootedKeeps
<1>2. ASSUME NEW p \in Pids, WorkerDies(p) \/ OtherProcess(p) \/ ApiStarts(p)
      PROVE  ControlInv'
  BY <1>2, WorkerDiesKeeps, OtherProcessKeeps, ApiStartsKeeps
<1>3. ASSUME NEW a \in Accounts, LeaseExpires(a) \/ LoginLost(a) \/ Connect(a)
      PROVE  ControlInv'
  BY <1>3, LeaseExpiresKeeps, ShopMoves
<1>4. ASSUME NEW group \in BOOLEAN, ApiDies(group) PROVE ControlInv'
  BY <1>4, ApiDiesKeeps
<1> QED BY <1>1, <1>2, <1>3, <1>4 DEF Environment

\* Whatever the threads, the maintenance watcher, the owners, the workers and the host do in
\* whatever order, a worker that the registry does not have is the one in its shop's row, and
\* every thread at work on that shop will end, adopt or record it.
THEOREM ControlIsSafe == Spec => []ControlInv
<1>1. ControlInv /\ [Next]_vars => ControlInv'
  <2> SUFFICES ASSUME ControlInv, [Next]_vars PROVE ControlInv'
    OBVIOUS
  <2>1. CASE \E t \in Tasks : ThreadStep(t)
    BY <2>1, ThreadKeeps
  <2>2. CASE WatcherStep
    BY <2>2, WatcherKeeps
  <2>3. CASE Requests
    BY <2>3, RequestsKeep
  <2>4. CASE Environment
    BY <2>4, EnvironmentKeeps
  <2>5. CASE UNCHANGED vars
    BY <2>5, RestKeeps
  <2> QED BY <2>1, <2>2, <2>3, <2>4, <2>5 DEF Next
<1> QED BY <1>1, InitIsGood, PTL DEF Spec

\* The rows, the registry, the leases and the threads keep their types, and a worker that is
\* out of the API's reach is a living one.
THEOREM TypesHold == Spec => []TypeOK
<1>1. ControlInv => TypeOK
  <2> SUFFICES ASSUME ControlTypeOK PROVE TypeOK
    BY DEF ControlInv
  <2>1. \A t \in Tasks : task[t] \in TaskRow
    BY DEF ControlTypeOK
  <2>2. \A t \in Tasks : task[t].acct \in Accounts \cup {0} /\ task[t].todo \subseteq Accounts
    BY <2>1 DEF TaskRow
  <2> QED
    BY <2>2 DEF ControlTypeOK, TypeOK, ShopRow, RuntimeRow, Leases, Handles, TransRow, Claims, Tasks
<1> QED BY <1>1, ControlIsSafe, PTL

\* No shop has two workers that answer its customers: a start, an adoption, a restart in the
\* other mode, a restoration and an undone start never leave a second process beside the first.
THEOREM NoSecondWorker == Spec => []OneWorker
<1>1. ControlInv => OneWorker
  <2> SUFFICES ASSUME ControlInv, NEW a \in Accounts,
                      NEW p \in Workers \ lost, NEW q \in Workers \ lost,
                      IsWorker(p, a), IsWorker(q, a)
               PROVE  p = q
    BY DEF OneWorker
  <2>1. AccountOK(a) /\ p \in Pids /\ q \in Pids /\ NoPid \notin Pids
    BY WorkerAssumption DEF ControlInv, Workers, NoPid
  <2>2. CASE Apart(p, a)
    BY <2>1, <2>2 DEF AccountOK, Apart, Managed, NoTrans
  <2>3. CASE Apart(q, a)
    BY <2>1, <2>3 DEF AccountOK, Apart, Managed, NoTrans
  <2>4. CASE ~Apart(p, a) /\ ~Apart(q, a)
    BY <2>1, <2>4 DEF AccountOK, HandlesOK, Apart, NoTrans
  <2> QED BY <2>2, <2>3, <2>4
<1> QED BY <1>1, ControlIsSafe, PTL

\* Every living worker is in the registry or recorded in its shop's row, across every crash of
\* the API and every stop that failed, so a later stop, drain or restoration can end it.
THEOREM WorkersAreKnown == Spec => []NoneForgotten
<1>1. ControlInv => NoneForgotten
  <2> SUFFICES ASSUME ControlInv, NEW p \in Workers \ lost, NEW a, a = os[p].account
               PROVE  reg[a] = p \/ trans[a].pid = p \/ runtime[a].pid = p
    BY DEF NoneForgotten
  <2>1. p \in Pids /\ os[p] \in OsRow /\ os[p].kind = "worker"
    BY DEF ControlInv, ControlTypeOK, Workers
  <2>2. a \in Accounts /\ IsWorker(p, a)
    BY <2>1 DEF OsRow, IsWorker
  <2> QED BY <2>1, <2>2 DEF ControlInv, AccountOK, Apart
<1> QED BY <1>1, ControlIsSafe, PTL

\* After the drain endpoint answered ready no worker lives before maintenance is over.
THEOREM DrainsAreFinal == Spec => []DrainIsFinal
<1>1. ControlInv => DrainIsFinal
  BY DEF ControlInv, DrainOK, DrainIsFinal
<1> QED BY <1>1, ControlIsSafe, PTL

\* A stop that the API confirmed holds until the owner starts the account or completes a login,
\* whatever leases run out in between, but for what a task that has lost its lease has launched
\* and not yet recorded or ended.
THEOREM StopsHold == Spec => []StopHolds
<1>1. Init => HaltInv /\ UpOK
  BY InitHalts
<1>2. ControlInv /\ HaltInv /\ UpOK /\ [Next]_vars => HaltInv' /\ UpOK'
  BY NextHalts
<1>3. ControlInv /\ HaltInv => StopHolds
  BY HaltsHold
<1> QED BY <1>1, <1>2, <1>3, ControlIsSafe, PTL DEF Spec
=============================================================================
