------------------------------ MODULE OutcomeProofs ------------------------------
(***************************************************************************)
(* What an update reports is so: OutcomeIsTrue, for each of the three      *)
(* deployments.                                                            *)
(*                                                                         *)
(* UpdateInv says in what state the host is at each step of an executor;   *)
(* it does not say what was promised of the operation.  The truth of a     *)
(* deployment does.  It relates the rows, what is published of them, the   *)
(* journal on disk and the installed version: SystemdTruth, DockerTruth    *)
(* and LauncherTruth, each inductive next to the executor's invariant.     *)
(* What is published of an operation that has ended is so when it is read  *)
(* (Told, Justified), because no other operation can move the host before  *)
(* the API has consumed it (ReportsOK: one row is pending).                *)
(***************************************************************************)
EXTENDS PlatformUpdateProofs

-------------------------------------------------------------------------------
(* What is reported, and what the journal of an executor says of it.       *)

\* The host is as an outcome of o that is reported as `phase` claims.
Justified(o, phase) ==
    /\ phase = "succeeded" => current = row[o].version
    /\ phase = "failed" => current = row[o].expected
    /\ phase = "rolled_back" =>
          current = row[o].expected \/ (row[o].action = "rollback" /\ current = row[o].version)

\* The end of q is published.
Told(q) == public[q].phase \in Settled

\* The rows and what is published of them: one operation is pending, nothing is published
\* of one that was not submitted, and a pending one has not read its outcome.
ReportsOK ==
    /\ \A q \in Ops : row[q].status \in {"none", "staged"} => public[q].phase = "none" /\ request # q
    /\ \A q \in Ops : public[q].phase # "staged"
    /\ \A q \in Ops : Pending(row[q]) /\ public[q].phase \in Terminal => public[q].fresh
    /\ \A o, q \in Ops : Pending(row[o]) /\ Pending(row[q]) => o = q

-----------------------------------------------------------------------------
\* Claimed, and its end is not published.
Unfinished(q) == journal[q].phase # "none" /\ ~Told(q)

\* The phases of a recovery.
GivingUp == {"rolling_back", "recovery_failed"}

\* What a journal of an unfinished operation says of its outcome.
LogTrue(j) ==
    /\ j.old # 0 => j.old = row[j.op].expected
    /\ j.phase \notin Settled /\ ~j.maint => current = row[j.op].expected /\ j.shown = current
    /\ j.phase \in Settled => Justified(j.op, j.phase) /\ j.shown = current
    /\ j.phase \in GivingUp => j.maint
    /\ j.maint \/ j.stopped \/ j.switched => j.admitted
    /\ j.phase # "staged"

\* What the program counter says of the journal in memory, until the end is published.
AtWork(pc, saved, m, gate) ==
    /\ pc \in Known \cup {"identify", "recover"} => m.admitted
    /\ pc = "process" /\ m.phase \notin Settled => m.admitted
    /\ pc \in {"refused", "failing"} => ~m.maint /\ (~saved => m.phase \notin Settled)
    /\ pc = "error" /\ m.phase \in Settled => m.maint
    /\ pc = "r_done" /\ saved => m.phase \in Settled
    /\ pc \in Moved \cup PutBack => m.shown = current
    /\ pc \in Finishing /\ m.phase \notin Settled => gate

\* Where the executor can be after the end of its operation is published.
Ended(pc, stage) ==
    \/ pc \in Finishing \cup {"admit", "process", "prune", "consume"}
    \/ pc \in {"done", "r_done", "failing", "refused"} /\ stage = "gate"

\* What the journals say of the rows and of the host.
LogsTrue ==
    /\ \A q \in Ops : row[q].status \in {"none", "staged"} => journal[q].phase = "none"
    /\ \A q \in Ops : row[q].status \in Settled => Told(q)
    /\ \A q \in Ops : Told(q) =>
          \/ journal[q].phase = public[q].phase
          \/ journal[q].phase = "none" /\ public[q].phase = "failed" /\ request # q
    /\ \A q \in Ops : "recovery_failed" \in {row[q].status, public[q].phase} /\ ~Told(q) =>
          maintenance /\ journal[q].phase \in GivingUp \cup Settled
    /\ \A o, q \in Ops : Unfinished(q) /\ Pending(row[o]) => o = q
    /\ \A o, q \in Ops : Unfinished(q) /\ Unfinished(o) => o = q
    /\ \A q \in Ops : Unfinished(q) =>
          q = PendingOp \/ (PendingOp = NoOp /\ journal[q].phase = "queued")
    /\ \A q \in Ops : Pending(row[q]) /\ Told(q) => Justified(q, public[q].phase)
    /\ \A q \in Ops : Unfinished(q) => LogTrue(journal[q])

\* What the executor knows of its operation.
UnitTrue ==
    unit.pc # "idle" =>
          /\ Told(mem.op) => Ended(unit.pc, unit.stage)
          /\ ~Told(mem.op) => /\ LogTrue(mem)
                              /\ AtWork(unit.pc, unit.stage # "save", mem, maintenance)
                              /\ unit.pc \in Moving \cup Restoring => journal[mem.op].maint
          /\ unit.stage = "gate" \/ unit.pc \in {"f_gate"} \cup Opened =>
                (mem.phase \in Settled => Told(mem.op))

\* The truth of updater.py.
SystemdTruth == ReportsOK /\ LogsTrue /\ UnitTrue

-----------------------------------------------------------------------------
\* What runs when docker_updater.py opens or reopens the gate.
EngineTrue(pc, o) ==
    /\ pc \in {"commit", "open", "opened"} => current = row[o].version
    /\ pc \in {"reopen", "reopened"} => current = row[o].expected

\* The truth of docker_updater.py.
DockerTruth ==
    /\ ReportsOK
    /\ \A q \in Ops : row[q].status \in {"none", "staged"} => record[q].phase = "none"
    /\ \A q \in Ops : row[q].status \in Terminal => record[q].phase \in Terminal
    /\ \A q \in Ops : public[q].phase \in Terminal => record[q].phase = public[q].phase
    /\ \A o, q \in Ops : record[q].phase \notin Settled \cup {"none"} /\ Pending(row[o]) => o = q
    /\ engine.offer # 0 => Active = {} /\ ~Blocked
    /\ \A q \in Ops : Pending(row[q]) /\ record[q].phase = "none" => current = row[q].expected
    /\ \A q \in Ops : Pending(row[q]) /\ record[q].phase \in Settled => Justified(q, record[q].phase)
    /\ \A q \in Active : /\ record[q].phase \notin Critical => current = row[q].expected
                         /\ record[q].phase \in Critical \cup {"preparing"} => record[q].old = row[q].expected
    /\ engine.pc \notin {"idle", "down"} => EngineTrue(engine.pc, op)

-----------------------------------------------------------------------------
\* A switch of launcher.sh is under way.
Underway == {"stop", "port", "switch", "start", "verify", "undo", "relink", "restart", "reverify"}

\* Submitted, and so given to the executor.
Filed(q) == q \in Ops /\ row[q].status \notin {"none", "staged"}

\* A link that resolves to what it names.
Sealed(link) == link \in releases \cup {0}

\* A request that launcher.sh rejects, and one that it finds done.
Gone(q) == row[q].action = "apply" /\ row[q].version \notin releases

Same(q) == row[q].action = "apply" /\ row[q].version = current /\ row[q].version \in releases

\* What launcher.sh knows of the operation k where it is.
KeeperTrue(pc, k) ==
    /\ pc \in Underway => store.op = k /\ k # NoOp
    /\ pc \in {"result", "clear"} /\ store.op = NoOp => k = request
    /\ pc \in Reporting => k # NoOp /\ (store.op # NoOp => store.op = k)
    /\ pc \in Underway \cup Reporting => Filed(k)
    /\ pc \in {"stop", "port", "switch"} /\ Pending(row[k]) => current = row[k].expected
    /\ pc \in {"restart", "reverify"} => current = CodeRoot(store.previous)
    /\ pc = "result" => keeper.outcome \in Settled
    /\ pc = "result" /\ Pending(row[k]) => Justified(k, keeper.outcome)
    /\ pc = "result" /\ store.op = NoOp /\ Pending(row[k]) =>
          (Gone(k) /\ keeper.outcome = "failed") \/ (Same(k) /\ keeper.outcome = "succeeded")
    /\ pc \in {"loop", "boot", "check"} => k = NoOp

\* The truth of launcher.sh, which forgets an operation only when its result is there.
LauncherTruth ==
    /\ ReportsOK
    /\ keeper.ready => keeper.pc = "loop" \/ (keeper.pc \in Reporting /\ keeper.then = "loop")
    /\ current = CodeRoot(store.link)
    /\ request # NoOp /\ (store.op = NoOp \/ keeper.pc = "forget") =>
          Sealed(store.link) /\ (Pending(row[request]) => current = row[request].expected)
    /\ store.op # NoOp =>
          /\ Filed(store.op)
          /\ Sealed(store.previous)
          /\ Pending(row[store.op]) => CodeRoot(store.previous) = row[store.op].expected
    /\ KeeperTrue(keeper.pc, keeper.op)
    /\ \A q \in Ops : Pending(row[q]) /\ Told(q) =>
          /\ store.op \in {NoOp, q}
          /\ keeper.pc = "forget" => request = NoOp
          /\ request \in {NoOp, q} \/ store.op = q
          /\ request = q /\ store.op = NoOp =>
                (Gone(q) /\ public[q].phase = "failed") \/ (Same(q) /\ public[q].phase = "succeeded")
          /\ ~(keeper.pc \in Underway)
          /\ ~(keeper.pc = "result" /\ keeper.then # "boot" /\ store.op # NoOp)
          /\ Justified(q, public[q].phase) \/ (store.op = q /\ keeper.pc \in {"off", "result"})

-----------------------------------------------------------------------------
(* The API.                                                                *)

\* The API moves a row on only as far as it may, reads an outcome once, submits nothing
\* while an operation is pending, and requests what is pending.
Submitted(q) == row[q].status = "staged" /\ row'[q].status = "queued"

Observed(q) == Pending(row[q]) /\ public[q].fresh /\ row'[q].status = public[q].phase

ApiReads ==
    /\ \A q \in Ops : /\ public'[q].phase = public[q].phase
                      /\ public[q].fresh => public'[q].fresh \/ Observed(q)
                      /\ \/ row'[q].status = row[q].status
                         \/ row[q].status = "none" /\ row'[q].status = "staged"
                         \/ Observed(q) \/ Submitted(q)
                      /\ Submitted(q) => /\ ~maintenance /\ row[q].expected = services.api
                                         /\ \A p \in Ops \ {q} : ~Pending(row'[p])
    /\ \/ request' = request
       \/ /\ request = NoOp /\ request' \in Ops
          /\ Pending(row[request']) /\ Pending(row'[request'])
          /\ row[request'].expected = services.api
          /\ \A q \in Ops : Pending(row'[q]) /\ public[q].phase \in Terminal => ~public[q].fresh

\* Reading the executor's status moves the rows that may be read.
LEMMA ReconcileReads ==
    ASSUME RequestsOK, NEW q \in Ops
    PROVE  /\ Merged[q].phase = public[q].phase
           /\ Observable(q) => Pending(row[q]) /\ public[q].fresh /\ Reconciled[q].status = public[q].phase
           /\ ~Observable(q) => Reconciled[q] = row[q] /\ (Merged[q].fresh <=> public[q].fresh)
           /\ Pending(row[q]) /\ public[q].fresh /\ public[q].phase \in Terminal => Observable(q)
<1>1. Observable(q) => Pending(row[q]) /\ public[q].fresh
  BY DEF Observable
<1>2. Merged[q] = [public[q] EXCEPT !.fresh = @ /\ ~Observable(q)]
  BY DEF Merged
<1>3. Merged[q].phase = public[q].phase /\ (~Observable(q) => (Merged[q].fresh <=> public[q].fresh))
  BY <1>2 DEF RequestsOK, IsStatus
<1>4. Observable(q) => Reconciled[q].status = public[q].phase
  BY DEF Reconciled, RequestsOK, IsRow, RowFields
<1>5. ~Observable(q) => Reconciled[q] = row[q]
  BY DEF Reconciled
<1>6. Pending(row[q]) /\ public[q].fresh /\ public[q].phase \in Terminal => Observable(q)
  BY DEF Observable, TransitionAllowed
<1> QED BY <1>1, <1>3, <1>4, <1>5, <1>6

\* What of a row is as it was read, or moved on by the administrator.
LEMMA ReadReads ==
    ASSUME RequestsOK, public' = Merged, UNCHANGED request,
           NEW o \in Ops, \A q \in Ops \ {o} : row'[q] = Reconciled[q],
           \/ row'[o].status = Reconciled[o].status
           \/ row[o].status = "none" /\ row'[o].status = "staged"
           \/ /\ Submitted(o) /\ ~maintenance /\ row[o].expected = services.api
              /\ \A p \in Ops \ {o} : ~Pending(Reconciled[p])
    PROVE  ApiReads
<1>1. ASSUME NEW q \in Ops
      PROVE  /\ public'[q].phase = public[q].phase
             /\ public[q].fresh => public'[q].fresh \/ Observable(q)
             /\ Observable(q) => Pending(row[q]) /\ public[q].fresh /\ Reconciled[q].status = public[q].phase
             /\ ~Observable(q) => Reconciled[q] = row[q]
  BY ReconcileReads
<1>2. ASSUME NEW q \in Ops \ {o}
      PROVE  /\ row'[q].status = row[q].status \/ Observed(q)
             /\ public[q].fresh => public'[q].fresh \/ Observed(q)
             /\ ~Submitted(q)
  <2>1. row'[q].status = row[q].status \/ Observed(q)
    BY <1>1, <1>2 DEF Observed
  <2>2. public[q].fresh => public'[q].fresh \/ Observed(q)
    BY <1>1, <1>2 DEF Observed
  <2> QED BY <2>1, <2>2 DEF Submitted, Observed, Pending
<1>3. /\ row'[o].status = row[o].status \/ Observed(o) \/ Submitted(o)
         \/ (row[o].status = "none" /\ row'[o].status = "staged")
      /\ public[o].fresh => public'[o].fresh \/ Observed(o)
  <2>1. CASE row'[o].status = Reconciled[o].status
    BY <1>1, <2>1 DEF Observed
  <2>2. CASE row'[o].status # Reconciled[o].status
    BY <1>1, <2>2 DEF Submitted, Pending
  <2> QED BY <2>1, <2>2
<1>4. Submitted(o) => /\ ~maintenance /\ row[o].expected = services.api
                      /\ \A p \in Ops \ {o} : ~Pending(row'[p])
  BY <1>1 DEF Submitted, Pending
<1> QED BY <1>1, <1>2, <1>3, <1>4 DEF ApiReads

\* Preparing an operation.
LEMMA PrepareReads ==
    ASSUME RequestsOK, NEW o \in Ops, NEW a, NEW v, PrepareRow(o, a, v)
    PROVE  ApiReads
<1>1. /\ row' = [Reconciled EXCEPT ![o] = [NoRow EXCEPT !.status = "staged", !.action = a,
                                                        !.version = v, !.expected = services.api]]
      /\ public' = Merged /\ UNCHANGED request /\ row[o].status = "none"
  BY DEF PrepareRow
<1>2. row'[o].status = "staged" /\ \A q \in Ops \ {o} : row'[q] = Reconciled[q]
  BY <1>1, ReconcileKeeps DEF NoRow
<1> QED BY <1>1, <1>2, ReadReads

\* Every other step of the API.
LEMMA ApiTells ==
    ASSUME RequestsOK, ApiRequest \/ ApiStep
    PROVE  ApiReads
<1> USE ReconcileKeeps
<1>1. ASSUME NEW o \in Ops, NEW a \in {"apply", "rollback"}, NEW v \in Versions, Prepare(o, a, v)
      PROVE  ApiReads
  BY <1>1, PrepareReads DEF Prepare
<1>2. ASSUME NEW o \in Ops, Confirm(o)
      PROVE  ApiReads
  <2>1. row' = [Reconciled EXCEPT ![o].confirmed = TRUE] /\ public' = Merged /\ UNCHANGED request
    BY <1>2 DEF Confirm
  <2>2. row'[o].status = Reconciled[o].status /\ \A q \in Ops \ {o} : row'[q] = Reconciled[q]
    BY <2>1 DEF IsRow, RowFields
  <2> QED BY <2>1, <2>2, ReadReads
<1>3. ASSUME NEW o \in Ops, Submit(o)
      PROVE  ApiReads
  <2>1. /\ row' = [Reconciled EXCEPT ![o].status = "queued"] /\ public' = Merged /\ UNCHANGED request
        /\ row[o].status = "staged" /\ ~maintenance /\ row[o].expected = services.api
        /\ \A p \in Ops : ~Pending(Reconciled[p])
    BY <1>3 DEF Submit, Available, Valid, QueueFree
  <2>2. row'[o].status = "queued" /\ \A q \in Ops \ {o} : row'[q] = Reconciled[q]
    BY <2>1 DEF IsRow, RowFields
  <2> QED BY <2>1, <2>2, ReadReads DEF Submitted
<1>4. ASSUME NEW o \in Ops, WriteRequest(o)
      PROVE  ApiReads
  <2>1. /\ row' = Reconciled /\ public' = Merged /\ request' = o /\ request \in {NoOp, o}
        /\ Pending(Reconciled[o]) /\ row[o].expected = services.api
    BY <1>4 DEF WriteRequest, Unpublished, Publishable, Valid
  <2>2. \A q \in Ops : /\ public'[q].phase = public[q].phase
                       /\ public[q].fresh => public'[q].fresh \/ Observed(q)
                       /\ row'[q].status = row[q].status \/ Observed(q)
                       /\ Pending(row'[q]) /\ public[q].phase \in Terminal => ~public[q].fresh
    <3> TAKE q \in Ops
    <3>1. CASE Observable(q)
      BY <2>1, <3>1, ReconcileReads DEF Observed, Pending
    <3>2. CASE ~Observable(q)
      BY <2>1, <3>2, ReconcileReads DEF Observed
    <3> QED BY <3>1, <3>2
  <2>3. Pending(row[o]) /\ Pending(row'[o])
    BY <2>1, <2>2 DEF Observed, Pending
  <2>4. \A q \in Ops : ~Submitted(q)
    BY <2>2 DEF Submitted, Observed, Pending
  <2> QED BY <2>1, <2>2, <2>3, <2>4 DEF ApiReads
<1>5. ASSUME row' = Reconciled, public' = Merged, UNCHANGED request, NEW o \in Ops
      PROVE  ApiReads
  BY <1>5, ReadReads
<1>6. CASE Reconcile
  BY <1>5, <1>6 DEF Reconcile
<1>7. ASSUME \A q \in Ops : row'[q].status = row[q].status, UNCHANGED <<public, request>>
      PROVE  ApiReads
  BY <1>7 DEF ApiReads, Submitted, Observed
<1>8. CASE MarkPublished
  <2>1. row' = [row EXCEPT ![publishing].published = TRUE] /\ UNCHANGED <<request, public>>
    BY <1>8 DEF MarkPublished
  <2>2. \A q \in Ops : row'[q].status = row[q].status
    BY <2>1 DEF RequestsOK, IsRow, RowFields
  <2> QED BY <1>7, <2>1, <2>2
<1>9. CASE BeginWrite \/ EndWrite \/ (\E o \in Ops : LoseCandidate(o) \/ Age(o))
  BY <1>7, <1>9 DEF BeginWrite, EndWrite, LoseCandidate, Age, apiVars
<1>10. CASE ApiRequest
  BY <1>1, <1>2, <1>3, <1>4, <1>10, Zenon DEF ApiRequest
<1>11. CASE ApiStep
  BY <1>6, <1>8, <1>9, <1>11, Zenon DEF ApiStep
<1> QED BY <1>10, <1>11

\* Only a request of the administrator submits.
LEMMA StepSubmitsNothing ==
    ASSUME RequestsOK, ApiStep, NEW q \in Ops
    PROVE  ~Submitted(q)
<1>1. CASE Reconcile
  BY <1>1, ReconcileReads DEF Reconcile, Submitted, Pending
<1>2. CASE MarkPublished
  BY <1>2 DEF MarkPublished, Submitted, RequestsOK, IsRow, RowFields
<1>3. CASE UNCHANGED row
  BY <1>3 DEF Submitted
<1> QED BY <1>1, <1>2, <1>3 DEF ApiStep, BeginWrite, EndWrite, LoseCandidate, Age, apiVars

\* What the API reads and submits keeps one operation pending, whose outcome it has not read.
LEMMA ReportsStay ==
    ASSUME UpdateAssumption, RequestsOK, ReportsOK, ApiReads
    PROVE  ReportsOK'
<1>1. \A q \in Ops : row'[q].status \in {"none", "staged"} => public'[q].phase = "none" /\ request' # q
  <2> TAKE q \in Ops
  <2>1. ~(Observed(q) /\ row'[q].status \in {"none", "staged"})
    BY DEF Observed, RequestsOK, ReportsOK
  <2>2. row'[q].status \in {"none", "staged"} => row[q].status \in {"none", "staged"}
    BY <2>1 DEF ApiReads, Submitted
  <2> QED BY <2>2 DEF ApiReads, ReportsOK, Pending
<1>2. \A q \in Ops : public'[q].phase # "staged"
  BY DEF ApiReads, ReportsOK
<1>3. \A q \in Ops : Pending(row'[q]) => Pending(row[q]) \/ Submitted(q)
  BY DEF ApiReads, Observed, Submitted, Pending
<1>4. \A q \in Ops : Pending(row'[q]) /\ public'[q].phase \in Terminal => public'[q].fresh
  <2> TAKE q \in Ops
  <2>1. CASE Submitted(q)
    BY <2>1 DEF ApiReads, Submitted, ReportsOK, Terminal
  <2>2. CASE ~Submitted(q)
    <3>1. Observed(q) /\ public[q].phase \in Terminal => ~Pending(row'[q])
      BY DEF Observed, Pending
    <3> QED BY <1>3, <2>2, <3>1 DEF ApiReads, ReportsOK
  <2> QED BY <2>1, <2>2
<1>5. \A o, q \in Ops : Pending(row'[o]) /\ Pending(row'[q]) => o = q
  BY <1>3 DEF ApiReads, ReportsOK
<1> QED BY <1>1, <1>2, <1>4, <1>5 DEF ReportsOK

-----------------------------------------------------------------------------
(* The Docker executor tells the truth.                                    *)

\* One step of the process on the only active journal.
LEMMA EngineTells ==
    ASSUME UpdateAssumption, DockerInv, DockerTruth, op \in Active, NEW j, j.phase # "none",
           engine'.op = engine.op, engine'.offer = engine.offer,
           record'[op] = j, \A o \in Ops \ {op} : record'[o] = record[o],
           UNCHANGED <<row, request, public>>,
           j.phase \notin Terminal =>
               /\ j.phase \notin Critical => current' = row[op].expected
               /\ j.phase \in Critical \cup {"preparing"} => j.old = row[op].expected,
           j.phase \in Settled => Justified(op, j.phase)',
           engine'.pc \in {"commit", "open", "opened"} => current' = row[op].version,
           engine'.pc \in {"reopen", "reopened"} => current' = row[op].expected
    PROVE  DockerTruth'
<1>1. op' = op /\ op \in Ops /\ record[op].phase \notin Terminal \cup {"none"} /\ engine'.offer = 0
  BY DEF op, Active, DockerTruth
<1>2. ReportsOK'
  BY DEF DockerTruth, ReportsOK
<1>3. \A q \in Ops : row'[q].status \in {"none", "staged"} => record'[q].phase = "none"
  BY <1>1 DEF DockerTruth
<1>4. \A q \in Ops : row'[q].status \in Terminal => record'[q].phase \in Terminal
  BY <1>1 DEF DockerTruth
<1>5. \A q \in Ops : public'[q].phase \in Terminal => record'[q].phase = public'[q].phase
  BY <1>1 DEF DockerTruth
<1>6. \A o \in Ops : Pending(row[o]) => o = op
  BY <1>1 DEF DockerTruth, Settled
<1>7. \A o, q \in Ops : record'[q].phase \notin Settled \cup {"none"} /\ Pending(row'[o]) => o = q
  BY <1>1, <1>6 DEF DockerTruth, Settled
<1>8. \A q \in Ops : /\ Pending(row'[q]) /\ record'[q].phase = "none" => current' = row'[q].expected
                     /\ Pending(row'[q]) /\ record'[q].phase \in Settled => Justified(q, record[q].phase)'
  BY <1>1, <1>6 DEF Settled
<1>9. \A q \in Active' : q = op /\ j.phase \notin Terminal
  BY <1>1 DEF Active, DockerInv, RecordsOK
<1>10. \A q \in Active' : /\ record'[q].phase \notin Critical => current' = row'[q].expected
                          /\ record'[q].phase \in Critical \cup {"preparing"} => record'[q].old = row'[q].expected
  BY <1>9
<1>11. EngineTrue(engine.pc, op)'
  BY <1>1 DEF EngineTrue
<1> QED BY <1>1, <1>2, <1>3, <1>4, <1>5, <1>7, <1>8, <1>10, <1>11 DEF DockerTruth

\* What the process knows of its own operation.
LEMMA EngineSays ==
    ASSUME DockerInv, DockerTruth, engine.pc \notin {"idle", "down"} \cup Written
    PROVE  /\ op \in Active /\ op \in Ops /\ op \in Rows /\ IsRecord(rec) /\ record[op] = rec
           /\ rec.phase \notin Terminal \cup {"none"}
           /\ rec.phase \notin Critical => current = row[op].expected
           /\ rec.phase \in Critical \cup {"preparing"} => rec.old = row[op].expected
           /\ EngineTrue(engine.pc, op)
           /\ PhaseOf(engine.pc, rec.phase)
<1>1. op \in Active /\ record[op] = rec
  BY Engaged
<1> QED BY <1>1, Engaged DEF DockerTruth, EngineAt

\* A save of the next phase.
LEMMA EnterTells ==
    ASSUME UpdateAssumption, DockerInv, DockerTruth, engine.pc \notin {"idle", "down"} \cup Written,
           NEW j, IsRecord(j), NEW phase, NEW next, Phase(j, phase, next), phase # "none",
           UNCHANGED <<row, request, public, current>>,
           phase \notin Terminal =>
               /\ phase \notin Critical => current = row[op].expected
               /\ phase \in Critical \cup {"preparing"} => j.old = row[op].expected,
           phase \in Settled => Justified(op, phase)
    PROVE  DockerTruth'
<1> DEFINE n == [j EXCEPT !.phase = phase]
<1>1. n.phase = phase /\ n.old = j.old
  BY DEF IsRecord, RecordFields
<1>2. /\ record' = [record EXCEPT ![op] = n]
      /\ engine' = [engine EXCEPT !.pc = "project", !.next = next]
  BY DEF Phase
<1> HIDE DEF n
<1>3. engine'.op = engine.op /\ engine'.offer = engine.offer /\ engine'.pc = "project"
  BY <1>2 DEF DockerInv, EngineOK
<1>4. op \in Active /\ op \in Ops
  BY Engaged
<1>5. record'[op] = n /\ \A o \in Ops \ {op} : record'[o] = record[o]
  BY <1>2, <1>4, RecordShape
<1>6. n.phase \in Settled => Justified(op, n.phase)'
  BY <1>1, <1>3 DEF Justified, op
<1> QED BY <1>1, <1>3, <1>4, <1>5, <1>6, EngineTells

\* A step within a phase that notes something in the journal; only a critical one changes
\* what a start of the services runs.
LEMMA NoteTells ==
    ASSUME UpdateAssumption, DockerInv, DockerTruth, engine.pc \notin {"idle", "down"} \cup Written,
           NEW pc, Jump(pc), NEW j, IsRecord(j), j.phase = rec.phase, j.old = rec.old,
           record'[op] = j, \A o \in Ops \ {op} : record'[o] = record[o],
           UNCHANGED <<row, request, public>>, rec.phase \in Critical \/ UNCHANGED current,
           pc \in {"commit", "open", "opened"} => current' = row[op].version,
           pc \in {"reopen", "reopened"} => current' = row[op].expected
    PROVE  DockerTruth'
<1>1. /\ op \in Active /\ op \in Ops /\ rec.phase \notin Terminal \cup {"none"}
      /\ rec.phase \notin Critical => current = row[op].expected
      /\ rec.phase \in Critical \cup {"preparing"} => rec.old = row[op].expected
  BY EngineSays
<1>2. engine'.op = engine.op /\ engine'.offer = engine.offer /\ engine'.pc = pc
  BY DEF Jump, DockerInv, EngineOK
<1>3. j.phase \notin Settled
  BY <1>1 DEF Settled
<1> QED BY <1>1, <1>2, <1>3, EngineTells

\* A step within a phase that notes nothing.
LEMMA JumpTells ==
    ASSUME UpdateAssumption, DockerInv, DockerTruth, engine.pc \notin {"idle", "down"} \cup Written,
           NEW pc, Jump(pc), UNCHANGED <<record, row, request, public, current>>,
           pc \in {"commit", "open", "opened"} => current = row[op].version,
           pc \in {"reopen", "reopened"} => current = row[op].expected
    PROVE  DockerTruth'
<1>1. IsRecord(rec) /\ op \in Ops /\ rec = record[op]
  BY EngineSays
<1>2. record'[op] = rec /\ \A o \in Ops \ {op} : record'[o] = record[o]
  BY <1>1
<1> QED BY <1>1, <1>2, NoteTells

\* The phases of an operation up to the switch.
LEMMA PhaseStepsTell ==
    ASSUME UpdateAssumption, DockerInv, DockerTruth,
           Queued \/ VerifyArtifacts \/ BuildImage \/ PreflightImage \/ PrepareStop
    PROVE  DockerTruth'
<1>1. /\ engine.pc \in Unhurt \cup Closing
      /\ UNCHANGED <<row, request, public, current>>
  BY DEF Queued, VerifyArtifacts, BuildImage, PreflightImage, PrepareStop, Step, Note, Marker, Enter,
         At, Kept, apiVars, hostVars, Unhurt, Closing
<1>2. engine.pc \notin {"idle", "down"} \cup Written
  BY <1>1 DEF Unhurt, Closing, Written
<1>3. /\ IsRecord(rec) /\ op \in Ops /\ rec.phase \in Unhurt
      /\ current = row[op].expected
      /\ engine.pc \in Closing => rec.phase = "preparing"
      /\ engine.pc \in Unhurt => rec.phase = engine.pc
      /\ rec.phase = "preparing" => rec.old = row[op].expected
  BY <1>1, <1>2, EngineSays, Engaged DEF PhaseOf, Unhurt, Closing, Critical, RecordOK
<1>4. ASSUME NEW at, NEW ok, NEW j, NEW phase, Step(at, ok, j, phase), IsRecord(j),
             phase \in {"verifying_package", "building", "preflighting", "preparing"},
             ok /\ phase = "preparing" => j.old = row[op].expected
      PROVE  DockerTruth'
  <2>1. CASE ok /\ Phase(j, phase, "idle")
    BY <1>1, <1>2, <1>3, <1>4, <2>1, EnterTells DEF Critical, Terminal, Settled
  <2>2. CASE Jump("fail") /\ UNCHANGED record
    BY <1>1, <1>2, <1>3, <2>2, JumpTells
  <2> QED BY <1>4, <2>1, <2>2 DEF Step
<1>5. CASE Queued \/ VerifyArtifacts \/ BuildImage
  BY <1>3, <1>4, <1>5 DEF Queued, VerifyArtifacts, BuildImage
<1>6. CASE PreflightImage
  <2>1. IsRecord([rec EXCEPT !.old = image]) /\ [rec EXCEPT !.old = image].old = image
    BY <1>3 DEF IsRecord, RecordFields
  <2> QED BY <1>4, <1>6, <2>1 DEF PreflightImage, TargetIsOurs
<1>7. CASE Note("preparing", [rec EXCEPT !.started = TRUE], "close")
  <2> DEFINE j == [rec EXCEPT !.started = TRUE]
  <2>1. IsRecord(j) /\ j.phase = rec.phase /\ j.old = rec.old
    BY <1>3 DEF IsRecord, RecordFields
  <2>2. record' = [record EXCEPT ![op] = j] /\ Jump("close")
    BY <1>7 DEF Note
  <2> HIDE DEF j
  <2>3. record'[op] = j /\ \A o \in Ops \ {op} : record'[o] = record[o]
    BY <1>3, <2>2, RecordShape
  <2> QED BY <1>1, <1>2, <1>3, <2>1, <2>2, <2>3, NoteTells
<1>8. CASE Marker("close", TRUE, "drain")
  BY <1>1, <1>2, <1>3, <1>8, JumpTells DEF Marker
<1>9. CASE Enter("drain", [rec EXCEPT !.disrupted = TRUE], "stopping", "idle")
  <2> DEFINE j == [rec EXCEPT !.disrupted = TRUE]
  <2>1. IsRecord(j) /\ j.old = rec.old
    BY <1>3 DEF IsRecord, RecordFields
  <2>2. Phase(j, "stopping", "idle") /\ At("drain")
    BY <1>9 DEF Enter
  <2>3. rec.phase = "preparing"
    BY <1>3, <2>2 DEF At, Closing
  <2> HIDE DEF j
  <2> QED BY <1>1, <1>2, <1>3, <2>1, <2>2, <2>3, EnterTells DEF Critical, Terminal, Settled
<1> QED BY <1>5, <1>6, <1>7, <1>8, <1>9 DEF PrepareStop

\* The stop and the switch, both in a critical phase.
LEMMA SwitchStepsTell ==
    ASSUME UpdateAssumption, DockerInv, DockerTruth, StopContainer \/ Switch
    PROVE  DockerTruth'
<1>1. /\ engine.pc \in {"stopping", "stopped", "switching", "up", "upped"}
      /\ UNCHANGED <<row, request, public>>
  BY DEF StopContainer, Switch, Stopped, Enter, Tag, ComposeUp, At, Kept, apiVars, hostVars
<1>2. engine.pc \notin {"idle", "down"} \cup Written
  BY <1>1 DEF Written
<1>3. IsRecord(rec) /\ op \in Ops /\ rec.phase \in {"stopping", "switching"} /\ rec.old = row[op].expected
  BY <1>1, <1>2, EngineSays DEF PhaseOf, Critical
<1>4. rec.phase \in Critical
  BY <1>3 DEF Critical
<1>5. ASSUME Jump("stopped") \/ Jump("upped"), UNCHANGED <<record, current>>
      PROVE  DockerTruth'
  BY <1>1, <1>2, <1>3, <1>5, JumpTells
<1>6. ASSUME NEW at, NEW phase \in {"switching", "verifying"}, Enter(at, rec, phase, "idle")
      PROVE  DockerTruth'
  <2>1. UNCHANGED current /\ Phase(rec, phase, "idle")
    BY <1>6 DEF Enter, hostVars
  <2> QED BY <1>1, <1>2, <1>3, <1>6, <2>1, EnterTells DEF Critical, Terminal, Settled
<1>7. CASE Tag("switching", New, [rec EXCEPT !.upStarted = TRUE], "up")
  <2> DEFINE j == [rec EXCEPT !.upStarted = TRUE]
  <2>1. IsRecord(j) /\ j.phase = rec.phase /\ j.old = rec.old
    BY <1>3 DEF IsRecord, RecordFields
  <2>2. record' = [record EXCEPT ![op] = j] /\ Jump("up")
    BY <1>7 DEF Tag
  <2> HIDE DEF j
  <2>3. record'[op] = j /\ \A o \in Ops \ {op} : record'[o] = record[o]
    BY <1>3, <2>2, RecordShape
  <2> QED BY <1>1, <1>2, <1>3, <1>4, <2>1, <2>2, <2>3, NoteTells
<1>8. CASE StopContainer
  BY <1>5, <1>6, <1>8 DEF StopContainer
<1>9. CASE Switch
  BY <1>5, <1>6, <1>7, <1>9 DEF Switch, ComposeUp
<1> QED BY <1>8, <1>9

\* What is committed is the version the container answers with, and only an operation
\* whose container does ends succeeded, or rolled back as it was asked to.
LEMMA VerifyStepsTell ==
    ASSUME UpdateAssumption, DockerInv, DockerTruth, Verify
    PROVE  DockerTruth'
<1>1. engine.pc \in {"verifying", "commit", "open", "opened"}
      /\ UNCHANGED <<row, request, public, current>>
  BY DEF Verify, Enter, Note, Marker, At, Kept, apiVars, hostVars
<1>2. engine.pc \notin {"idle", "down"} \cup Written
  BY <1>1 DEF Written
<1>3. /\ IsRecord(rec) /\ op \in Ops /\ op \in Rows
      /\ engine.pc \in {"commit", "open", "opened"} => current = row[op].version
  BY <1>1, <1>2, EngineSays DEF EngineTrue
<1>4. CASE At("verifying") /\ Answers(New) /\ Jump("commit") /\ UNCHANGED record
  BY <1>1, <1>2, <1>3, <1>4, JumpTells DEF Answers, New
<1>5. CASE Jump("recover") /\ UNCHANGED record
  BY <1>1, <1>2, <1>3, <1>5, JumpTells
<1>6. CASE Note("commit", [rec EXCEPT !.committed = TRUE], "open")
  <2> DEFINE j == [rec EXCEPT !.committed = TRUE]
  <2>1. IsRecord(j) /\ j.phase = rec.phase /\ j.old = rec.old
    BY <1>3 DEF IsRecord, RecordFields
  <2>2. record' = [record EXCEPT ![op] = j] /\ Jump("open") /\ engine.pc = "commit"
    BY <1>6 DEF Note, At
  <2> HIDE DEF j
  <2>3. record'[op] = j /\ \A o \in Ops \ {op} : record'[o] = record[o]
    BY <1>3, <2>2, RecordShape
  <2> QED BY <1>1, <1>2, <1>3, <2>1, <2>2, <2>3, NoteTells
<1>7. CASE Marker("open", FALSE, "opened")
  BY <1>1, <1>2, <1>3, <1>7, JumpTells DEF Marker, At
<1>8. CASE Enter("opened", rec, IF row[op].action = "apply" THEN "succeeded" ELSE "rolled_back", "idle")
  <2> DEFINE phase == IF row[op].action = "apply" THEN "succeeded" ELSE "rolled_back"
  <2>1. /\ phase \in {"succeeded", "rolled_back"}
        /\ phase = "rolled_back" => row[op].action = "rollback"
    BY <1>3 DEF DockerInv, RequestsOK
  <2>2. Phase(rec, phase, "idle") /\ engine.pc = "opened"
    BY <1>8 DEF Enter, At
  <2> HIDE DEF phase
  <2>3. phase \in Terminal /\ phase # "none" /\ Justified(op, phase)
    BY <1>3, <2>1, <2>2 DEF Terminal, Justified
  <2> QED BY <1>1, <1>2, <1>3, <2>2, <2>3, EnterTells
<1> QED BY <1>4, <1>5, <1>6, <1>7, <1>8 DEF Verify

\* The recovery goes on with what was committed or puts back the version the operation
\* started from.
LEMMA RecoverStepsTell ==
    ASSUME UpdateAssumption, DockerInv, DockerTruth,
           \/ Failed \/ Recover \/ Restored \/ Restore
           \/ Enter("recovery_failed", rec, "recovery_failed", "keep_closed")
    PROVE  DockerTruth'
<1>1. engine.pc \in {"fail", "recover", "restored", "reopen", "reopened", "reclose", "restore",
                     "restore_up", "recovery_failed"}
      /\ UNCHANGED <<row, request, public>>
  BY DEF Failed, Recover, Restored, Restore, Enter, Note, Marker, Tag, ComposeUp, At, Kept, apiVars
<1>2. engine.pc \notin {"idle", "down"} \cup Written
  BY <1>1 DEF Written
<1>3. /\ IsRecord(rec) /\ op \in Ops
      /\ engine.pc = "fail" => rec.phase \notin Critical /\ current = row[op].expected
      /\ engine.pc \in {"restored", "reopen", "reopened", "reclose", "restore", "restore_up"} =>
            rec.phase = "rolling_back" /\ rec.phase \in Critical /\ rec.old = row[op].expected
      /\ engine.pc \in {"reopen", "reopened"} => current = row[op].expected
      /\ engine.pc = "recover" => rec.drift \/ (rec.phase \in Critical /\ rec.old = row[op].expected)
  <2>1. /\ IsRecord(rec) /\ op \in Ops /\ PhaseOf(engine.pc, rec.phase) /\ EngineTrue(engine.pc, op)
        /\ rec.phase \notin Critical => current = row[op].expected
        /\ rec.phase \in Critical => rec.old = row[op].expected
    BY <1>2, EngineSays
  <2>2. engine.pc = "recover" => rec.drift \/ rec.phase \in Critical
    BY <1>2, Engaged DEF EngineAt
  <2> QED BY <2>1, <2>2 DEF PhaseOf, EngineTrue, Critical, Restorable
<1>4. CASE Failed
  <2>1. Phase(rec, "failed", "open_failed") /\ engine.pc = "fail" /\ UNCHANGED current
    BY <1>4 DEF Failed, Enter, At, hostVars
  <2>2. "failed" \in Terminal /\ Justified(op, "failed")
    BY <1>3, <2>1 DEF Terminal, Justified
  <2> QED BY <1>1, <1>2, <1>3, <2>1, <2>2, EnterTells
<1>5. CASE Recover
  <2>1. engine.pc = "recover" /\ UNCHANGED current
    BY <1>5 DEF Recover, At, hostVars
  <2>2. CASE Jump("recovery_failed") /\ UNCHANGED record
    BY <1>1, <1>2, <1>3, <2>1, <2>2, JumpTells
  <2>3. CASE current = New /\ Jump("open") /\ UNCHANGED record
    BY <1>1, <1>2, <1>3, <2>1, <2>3, JumpTells DEF New
  <2>4. CASE ~rec.drift /\ Phase(rec, "rolling_back", "reclose")
    <3>1. rec.old = row[op].expected
      BY <1>3, <2>1, <2>4
    <3> QED BY <1>1, <1>2, <1>3, <2>1, <2>4, <3>1, EnterTells DEF Terminal, Settled, Critical
  <2> QED BY <1>5, <2>2, <2>3, <2>4 DEF Recover
<1>6. CASE Restore
  <2>1. CASE Marker("reclose", TRUE, "restore")
    BY <1>1, <1>2, <1>3, <2>1, JumpTells DEF Marker, hostVars
  <2>2. CASE Tag("restore", rec.old, [rec EXCEPT !.restoring = TRUE], "restore_up")
    <3> DEFINE j == [rec EXCEPT !.restoring = TRUE]
    <3>1. IsRecord(j) /\ j.phase = rec.phase /\ j.old = rec.old
      BY <1>3 DEF IsRecord, RecordFields
    <3>2. record' = [record EXCEPT ![op] = j] /\ Jump("restore_up") /\ rec.phase \in Critical
      BY <1>3, <2>2 DEF Tag, At
    <3> HIDE DEF j
    <3>3. record'[op] = j /\ \A o \in Ops \ {op} : record'[o] = record[o]
      BY <1>3, <3>2, RecordShape
    <3> QED BY <1>1, <1>2, <1>3, <3>1, <3>2, <3>3, NoteTells
  <2>3. CASE Jump("restored") /\ UNCHANGED <<record, current>>
    BY <1>1, <1>2, <1>3, <2>3, JumpTells
  <2> QED BY <1>6, <2>1, <2>2, <2>3 DEF Restore, ComposeUp, hostVars
<1>7. CASE Restored
  <2>1. CASE At("restored") /\ Answers(rec.old) /\ Jump("reopen") /\ UNCHANGED <<record, current>>
    BY <1>1, <1>2, <1>3, <2>1, JumpTells DEF Answers, At
  <2>2. CASE Marker("reopen", FALSE, "reopened")
    BY <1>1, <1>2, <1>3, <2>2, JumpTells DEF Marker, At, hostVars
  <2>3. CASE Enter("reopened", rec, "rolled_back", "idle")
    <3>1. Phase(rec, "rolled_back", "idle") /\ engine.pc = "reopened" /\ UNCHANGED current
      BY <2>3 DEF Enter, At, hostVars
    <3>2. "rolled_back" \in Terminal /\ Justified(op, "rolled_back")
      BY <1>3, <3>1 DEF Terminal, Justified
    <3> QED BY <1>1, <1>2, <1>3, <3>1, <3>2, EnterTells
  <2> QED BY <1>7, <2>1, <2>2, <2>3 DEF Restored
<1>8. CASE Enter("recovery_failed", rec, "recovery_failed", "keep_closed")
  <2>1. Phase(rec, "recovery_failed", "keep_closed") /\ UNCHANGED current
    BY <1>8 DEF Enter, hostVars
  <2> QED BY <1>1, <1>2, <1>3, <2>1, EnterTells DEF Terminal, Settled
<1> QED BY <1>4, <1>5, <1>6, <1>7, <1>8

\* A failing command goes to its handler.
LEMMA EngineFailsTells ==
    ASSUME UpdateAssumption, DockerInv, DockerTruth, EngineFails
    PROVE  DockerTruth'
<1>1. engine.pc \in DockerCommands \cup RestoreCommands /\ UNCHANGED <<row, request, public, current>>
  BY DEF EngineFails
<1>2. engine.pc \notin {"idle", "down"} \cup Written
  BY <1>1 DEF DockerCommands, RestoreCommands, Written
<1>3. IsRecord(rec) /\ op \in Ops
  BY <1>2, EngineSays
<1>4. CASE Jump(Handler(rec)) /\ UNCHANGED record
  <2>1. Handler(rec) \in {"recover", "fail"}
    BY DEF Handler
  <2> QED BY <1>1, <1>2, <1>3, <1>4, <2>1, JumpTells
<1>5. CASE record' = [record EXCEPT ![op].drift = TRUE] /\ Jump("recover")
  <2> DEFINE j == [rec EXCEPT !.drift = TRUE]
  <2>1. IsRecord(j) /\ j.phase = rec.phase /\ j.old = rec.old
    BY <1>3 DEF IsRecord, RecordFields
  <2>2. record' = [record EXCEPT ![op] = j]
    BY <1>5 DEF rec
  <2> HIDE DEF j
  <2>3. record'[op] = j /\ \A o \in Ops \ {op} : record'[o] = record[o]
    BY <1>3, <2>2, RecordShape
  <2> QED BY <1>1, <1>2, <1>3, <1>5, <2>1, <2>2, <2>3, NoteTells
<1>6. CASE Jump("recovery_failed") /\ UNCHANGED record
  BY <1>1, <1>2, <1>3, <1>6, JumpTells
<1> QED BY <1>4, <1>5, <1>6 DEF EngineFails

\* What is published is what the journal says, which the API has yet to read.
LEMMA ProjectTells ==
    ASSUME UpdateAssumption, DockerInv, DockerTruth, UNCHANGED <<row, request, current>>,
           \A q \in Ops : /\ record'[q].phase = record[q].phase /\ record'[q].old = record[q].old
                         /\ \/ public'[q] = public[q]
                            \/ /\ record[q].phase # "none"
                               /\ public'[q].phase = record[q].phase /\ public'[q].fresh,
           engine'.offer # 0 => engine'.offer = engine.offer \/ (Active = {} /\ ~Blocked),
           engine'.pc \notin {"idle", "down"} => EngineTrue(engine.pc, op)'
    PROVE  DockerTruth'
<1>1. Active' = Active /\ (Blocked' <=> Blocked)
  BY DEF Active, Blocked
<1>2. \A q \in Ops : record[q].phase \in Unhurt \cup Critical \cup Terminal \cup {"none"}
  <2>1. ASSUME NEW q \in Ops, record[q].phase \notin Terminal \cup {"none"}
        PROVE  record[q].phase \in Unhurt \cup Critical
    <3>1. q \in Active
      BY <2>1 DEF Active
    <3> QED BY <3>1 DEF DockerInv, RecordsOK, RecordOK
  <2> QED BY <2>1
<1>3. ReportsOK'
  <2>1. ASSUME NEW q \in Ops
        PROVE  /\ row'[q].status \in {"none", "staged"} => public'[q].phase = "none" /\ request' # q
               /\ public'[q].phase # "staged"
               /\ Pending(row'[q]) /\ public'[q].phase \in Terminal => public'[q].fresh
    <3>1. CASE public'[q] = public[q]
      BY <2>1, <3>1 DEF DockerTruth, ReportsOK
    <3>2. CASE public'[q].phase = record[q].phase /\ public'[q].fresh /\ record[q].phase # "none"
      BY <1>2, <2>1, <3>2 DEF DockerTruth, Unhurt, Critical, Terminal
    <3> QED BY <2>1, <3>1, <3>2
  <2>2. \A o, q \in Ops : Pending(row'[o]) /\ Pending(row'[q]) => o = q
    BY DEF DockerTruth, ReportsOK
  <2> QED BY <2>1, <2>2 DEF ReportsOK
<1>4. \A q \in Ops : public'[q].phase \in Terminal => record'[q].phase = public'[q].phase
  <2> TAKE q \in Ops
  <2>1. CASE public'[q] = public[q]
    BY <2>1 DEF DockerTruth
  <2>2. CASE public'[q].phase = record[q].phase
    BY <2>2
  <2> QED BY <2>1, <2>2
<1>5. \A q \in Ops : Justified(q, record[q].phase)' <=> Justified(q, record[q].phase)
  <2> TAKE q \in Ops
  <2>1. record'[q].phase = record[q].phase /\ row'[q] = row[q] /\ current' = current
    OBVIOUS
  <2> QED BY <2>1 DEF Justified
<1>6. \A q \in Ops : /\ row'[q].status \in {"none", "staged"} => record'[q].phase = "none"
                     /\ row'[q].status \in Terminal => record'[q].phase \in Terminal
                     /\ Pending(row'[q]) /\ record'[q].phase = "none" => current' = row'[q].expected
                     /\ Pending(row'[q]) /\ record'[q].phase \in Settled => Justified(q, record[q].phase)'
  BY <1>5 DEF DockerTruth
<1>7. \A o, q \in Ops : record'[q].phase \notin Settled \cup {"none"} /\ Pending(row'[o]) => o = q
  BY DEF DockerTruth
<1>8. \A q \in Active' : /\ record'[q].phase \notin Critical => current' = row'[q].expected
                         /\ record'[q].phase \in Critical \cup {"preparing"} => record'[q].old = row'[q].expected
  <2> TAKE q \in Active'
  <2>1. q \in Active /\ q \in Ops
    BY <1>1 DEF Active
  <2> QED BY <2>1 DEF DockerTruth
<1>9. engine'.offer # 0 => Active' = {} /\ ~Blocked'
  BY <1>1 DEF DockerTruth
<1> QED BY <1>3, <1>4, <1>6, <1>7, <1>8, <1>9 DEF DockerTruth

\* The status is published and the marker of an ended operation is settled.
LEMMA EndStepsTell ==
    ASSUME UpdateAssumption, DockerInv, DockerTruth, Project \/ OpenFailed \/ Marker("keep_closed", TRUE, "idle")
    PROVE  DockerTruth'
<1>1. /\ UNCHANGED <<record, row, request, current>>
      /\ engine.pc \in {"project", "open_failed", "keep_closed"}
  BY DEF Project, OpenFailed, Marker, At, Kept, apiVars, hostVars
<1>2. /\ op \in Ops /\ rec.phase # "none" /\ record[op] = rec
      /\ engine.pc = "project" => engine.next \in {"idle", "open_failed", "reclose", "keep_closed"}
  BY <1>1 DEF DockerInv, EngineOK, EngineAt, rec
<1>3. ASSUME NEW pc \in {"idle", "open_failed", "reclose", "keep_closed"}, Jump(pc)
      PROVE  engine'.offer = engine.offer /\ EngineTrue(engine.pc, op)'
  <2>1. engine'.offer = engine.offer /\ engine'.pc = pc
    BY <1>3 DEF Jump, DockerInv, EngineOK
  <2> QED BY <2>1 DEF EngineTrue
<1>4. CASE Project
  <2>1. /\ public' = [public EXCEPT ![op] = [phase |-> rec.phase, fresh |-> TRUE]]
        /\ Jump(engine.next) /\ engine.pc = "project"
    BY <1>4 DEF Project, At
  <2>2. \A q \in Ops : \/ public'[q] = public[q]
                       \/ record[q].phase # "none" /\ public'[q].phase = record[q].phase /\ public'[q].fresh
    BY <1>2, <2>1 DEF DockerInv, RequestsOK
  <2>3. engine'.offer = engine.offer /\ EngineTrue(engine.pc, op)'
    BY <1>2, <1>3, <2>1
  <2> QED BY <1>1, <2>2, <2>3, ProjectTells
<1>5. CASE OpenFailed \/ Marker("keep_closed", TRUE, "idle")
  <2>1. Jump("idle") /\ UNCHANGED public
    BY <1>5 DEF OpenFailed, Marker
  <2>2. engine'.offer = engine.offer /\ EngineTrue(engine.pc, op)'
    BY <1>3, <2>1
  <2> QED BY <1>1, <2>1, <2>2, ProjectTells
<1> QED BY <1>4, <1>5

\* A crash, a reboot and the start of the process, which publishes every journal.
LEMMA ProcessStepsTell ==
    ASSUME UpdateAssumption, DockerInv, DockerTruth, EngineCrash \/ DockerReboot \/ EngineStart
    PROVE  DockerTruth'
<1>1. UNCHANGED <<row, request, current>>
  BY DEF EngineCrash, DockerReboot, EngineStart, Kept, apiVars, hostVars
<1>2. \A q \in Ops : record'[q].phase = record[q].phase /\ record'[q].old = record[q].old
  BY DEF EngineCrash, DockerReboot, EngineStart, DockerInv, RecordsOK, IsRecord, RecordFields
<1>3. engine'.pc \in {"idle", "down"} /\ engine'.offer = 0
  BY DEF EngineCrash, DockerReboot, EngineStart, IdleEngine
<1>4. \A q \in Ops : \/ public'[q] = public[q]
                     \/ record[q].phase # "none" /\ public'[q].phase = record[q].phase /\ public'[q].fresh
  BY DEF EngineCrash, DockerReboot, EngineStart
<1> QED BY <1>1, <1>2, <1>3, <1>4, ProjectTells

\* The capability, the admission of a request and the next tick.
LEMMA DispatchTells ==
    ASSUME UpdateAssumption, DockerInv, DockerTruth, RefreshCapability \/ AdmitRequest \/ Tick
    PROVE  DockerTruth'
<1>1. /\ engine.pc = "idle" /\ UNCHANGED <<public, row, current>>
      /\ DOMAIN engine = {"pc", "op", "next", "offer"} /\ RecordsOK /\ RequestsOK
  BY DEF RefreshCapability, AdmitRequest, Tick, At, Kept, apiVars, hostVars, DockerInv, EngineOK
<1>2. CASE RefreshCapability
  <2>1. UNCHANGED <<record, request>> /\ Active = {} /\ engine'.pc = "idle"
        /\ (engine'.offer # 0 => ~Blocked)
    BY <1>1, <1>2 DEF RefreshCapability, Kept
  <2> QED BY <1>1, <2>1, ProjectTells
<1>3. CASE Tick
  <2>1. PICK o \in Active :
          /\ engine' = [engine EXCEPT !.op = o, !.offer = 0,
                          !.pc = IF record[o].drift \/ Interrupted(record[o])
                                 THEN "recover" ELSE record[o].phase]
          /\ record' = [record EXCEPT ![o].mine = @ \/ ~(record[o].drift \/ Interrupted(record[o]))]
          /\ UNCHANGED request
    BY <1>3 DEF Tick, Kept
  <2>2. record[o].phase \in Unhurt \cup Critical
    BY <1>1 DEF RecordsOK, RecordOK
  <2>3. \A q \in Ops : record'[q].phase = record[q].phase /\ record'[q].old = record[q].old
    BY <1>1, <2>1 DEF RecordsOK, IsRecord, RecordFields
  <2>4. engine'.offer = 0 /\ engine'.pc \in Unhurt \cup Critical \cup {"recover"}
    BY <1>1, <2>1, <2>2
  <2>5. EngineTrue(engine.pc, op)'
    BY <2>4 DEF EngineTrue, Unhurt, Critical
  <2> QED BY <1>1, <2>1, <2>3, <2>4, <2>5, ProjectTells
<1>4. CASE AdmitRequest
  <2>1. Active = {} /\ ~Blocked /\ request \in Rows /\ request \in Ops /\ request' = NoOp
        /\ services.api = current
    BY <1>1, <1>4 DEF AdmitRequest, RequestsOK, Rows, DockerInv, QuietOK
  <2>2. row[request].status \notin {"none", "staged"}
    BY <2>1 DEF DockerTruth, ReportsOK
  <2>3. ReportsOK'
    BY <1>1, <2>1, OpIsNotNoOp DEF DockerTruth, ReportsOK
  <2>4. CASE UNCHANGED <<record, engine>>
    <3>1. Active' = Active /\ (Blocked' <=> Blocked) /\ op' = op
      BY <2>4 DEF Active, Blocked, op
    <3> QED BY <1>1, <2>3, <2>4, <3>1 DEF DockerTruth, Justified
  <2>5. ASSUME NEW phase \in {"queued", "failed"}, record[request].phase = "none",
               record' = [record EXCEPT ![request] = [NoRecord EXCEPT !.phase = phase, !.mine = TRUE]],
               engine' = [engine EXCEPT !.pc = "project", !.op = request, !.next = "idle", !.offer = 0]
        PROVE  DockerTruth'
    <3>1. /\ record'[request].phase = phase
          /\ \A o \in Ops \ {request} : record'[o] = record[o]
          /\ engine'.pc = "project" /\ engine'.offer = 0
      BY <1>1, <2>1, <2>5 DEF RecordsOK, NoRecord
    <3>2. Pending(row[request]) /\ current = row[request].expected
      BY <2>1, <2>2, <2>5 DEF DockerTruth, Pending, Terminal
    <3>3. \A q \in Ops : Pending(row[q]) => q = request
      BY <2>1, <3>2 DEF DockerTruth, ReportsOK
    <3>4. \A q \in Ops \ {request} : record[q].phase \in Terminal \cup {"none"} /\ record[q].phase # "recovery_failed"
      BY <2>1 DEF Active, Blocked
    <3>5. \A q \in Ops : row'[q].status \in {"none", "staged"} => record'[q].phase = "none"
      BY <1>1, <2>2, <3>1 DEF DockerTruth
    <3>6. \A q \in Ops : row'[q].status \in Terminal => record'[q].phase \in Terminal
      BY <1>1, <3>1, <3>2 DEF DockerTruth, Pending
    <3>7. \A q \in Ops : public'[q].phase \in Terminal => record'[q].phase = public'[q].phase
      BY <1>1, <2>5, <3>1 DEF DockerTruth, Terminal
    <3>8. \A o, q \in Ops : record'[q].phase \notin Settled \cup {"none"} /\ Pending(row'[o]) => o = q
      BY <1>1, <3>1, <3>3, <3>4 DEF Settled
    <3>9. \A q \in Ops : /\ Pending(row'[q]) /\ record'[q].phase = "none" => current' = row'[q].expected
                         /\ Pending(row'[q]) /\ record'[q].phase \in Settled => Justified(q, record[q].phase)'
      BY <1>1, <3>1, <3>2, <3>3 DEF Settled, Justified, Terminal
    <3>10. \A q \in Active' : q = request /\ phase = "queued"
      BY <3>1, <3>4 DEF Active, Terminal
    <3>11. \A q \in Active' : /\ record'[q].phase \notin Critical => current' = row'[q].expected
                              /\ record'[q].phase \in Critical \cup {"preparing"} => record'[q].old = row'[q].expected
      BY <1>1, <3>1, <3>2, <3>10 DEF Critical
    <3>12. EngineTrue(engine.pc, op)'
      BY <3>1 DEF EngineTrue
    <3> QED BY <2>3, <3>1, <3>5, <3>6, <3>7, <3>8, <3>9, <3>11, <3>12 DEF DockerTruth
  <2>6. CASE record[request].phase # "none"
    BY <1>4, <2>4, <2>6 DEF AdmitRequest
  <2>7. CASE record[request].phase = "none" /\ Admittable(request)
    BY <1>4, <2>5, <2>7 DEF AdmitRequest
  <2>8. CASE record[request].phase = "none" /\ ~Admittable(request)
    BY <1>4, <2>5, <2>8 DEF AdmitRequest
  <2> QED BY <2>6, <2>7, <2>8
<1> QED BY <1>2, <1>3, <1>4

\* The API submits an operation only while the executor's offer stands, and it stands only
\* without a journal in progress.
LEMMA ApiTellsDocker ==
    ASSUME UpdateAssumption, DockerInv, DockerTruth, UNCHANGED dockerVars,
           (DockerReady /\ ApiRequest) \/ ApiStep
    PROVE  DockerTruth'
<1>1. /\ RequestsOK /\ ApiReads /\ ApiMoves /\ UNCHANGED <<record, engine>>
      /\ op' = op /\ Active' = Active /\ (Blocked' <=> Blocked) /\ current' = current
  BY ApiTells, ApiKeeps DEF DockerInv, dockerVars, Active, Blocked, op, ApiMoves
<1>2. ReportsOK'
  BY <1>1, ReportsStay DEF DockerTruth
<1>3. ASSUME NEW q \in Ops, Submitted(q)
      PROVE  /\ Active = {} /\ ~Blocked /\ current = row[q].expected /\ row'[q].expected = row[q].expected
             /\ record[q].phase = "none" /\ \A p \in Ops \ {q} : ~Pending(row'[p])
  <2>1. DockerReady
    <3>1. CASE ApiStep
      <4>1. ~Submitted(q)
        BY <1>1, <1>3, <3>1, StepSubmitsNothing
      <4> QED BY <1>3, <4>1
    <3> QED BY <3>1
  <2>2. engine.offer # 0 /\ services.api = engine.offer
    BY <2>1 DEF DockerReady, ApiUp
  <2>3. Active = {} /\ ~Blocked /\ services.api = current
    BY <2>2 DEF DockerTruth, DockerInv, QuietOK
  <2>4. row[q].expected = services.api /\ q \in Rows /\ row[q].status = "staged"
        /\ \A p \in Ops \ {q} : ~Pending(row'[p])
    BY <1>1, <1>3 DEF ApiReads, Submitted, Rows
  <2> QED BY <1>1, <2>3, <2>4 DEF ApiMoves, DockerTruth
<1>4. ASSUME NEW q \in Ops, row[q].status \notin {"none", "staged"}
      PROVE  /\ row'[q].status = row[q].status \/ Observed(q)
             /\ row'[q].expected = row[q].expected /\ row'[q].version = row[q].version
             /\ row'[q].action = row[q].action
  BY <1>1, <1>4 DEF ApiReads, ApiMoves, Submitted, Rows
<1>5. \A q \in Ops : row'[q].status \in {"none", "staged"} => record'[q].phase = "none"
  <2> TAKE q \in Ops
  <2>1. ~(Observed(q) /\ row'[q].status \in {"none", "staged"})
    BY <1>1 DEF Observed, RequestsOK, DockerTruth, ReportsOK
  <2> QED BY <1>1, <1>4, <2>1 DEF DockerTruth
<1>6. \A q \in Ops : row'[q].status \in Terminal => record'[q].phase \in Terminal
  <2> TAKE q \in Ops
  <2>1. CASE row[q].status \in {"none", "staged"}
    BY <1>1, <2>1 DEF ApiReads, Observed, Submitted, Terminal, Pending
  <2>2. CASE row[q].status \notin {"none", "staged"}
    BY <1>1, <1>4, <2>2 DEF DockerTruth, Observed
  <2> QED BY <2>1, <2>2
<1>7. \A q \in Ops : public'[q].phase \in Terminal => record'[q].phase = public'[q].phase
  BY <1>1 DEF DockerTruth, ApiReads
<1>8. \A q \in Ops : Pending(row'[q]) => Pending(row[q]) \/ Submitted(q)
  BY <1>1 DEF ApiReads, Pending, Observed
<1>9. \A o, q \in Ops : record'[q].phase \notin Settled \cup {"none"} /\ Pending(row'[o]) => o = q
  <2> TAKE o, q \in Ops
  <2>1. CASE Submitted(o)
    BY <1>1, <1>3, <2>1 DEF Active, Blocked, Settled
  <2>2. CASE ~Submitted(o)
    BY <1>1, <1>8, <2>2 DEF DockerTruth
  <2> QED BY <2>1, <2>2
<1>10. \A q \in Ops : /\ Pending(row'[q]) /\ record'[q].phase = "none" => current' = row'[q].expected
                      /\ Pending(row'[q]) /\ record'[q].phase \in Settled => Justified(q, record[q].phase)'
  <2> TAKE q \in Ops
  <2>1. CASE Submitted(q)
    BY <1>1, <1>3, <2>1 DEF Settled, Terminal
  <2>2. CASE Pending(row'[q]) /\ ~Submitted(q)
    <3>1. Pending(row[q])
      BY <1>8, <2>2
    <3> QED BY <1>1, <1>4, <3>1 DEF DockerTruth, Justified, Pending
  <2> QED BY <2>1, <2>2
<1>11. \A q \in Active' : /\ record'[q].phase \notin Critical => current' = row'[q].expected
                          /\ record'[q].phase \in Critical \cup {"preparing"} => record'[q].old = row'[q].expected
  <2>1. \A q \in Active : row[q].status \notin {"none", "staged"}
    BY DEF DockerTruth, Active
  <2> QED BY <1>1, <1>4, <2>1 DEF DockerTruth, Active
<1>12. engine'.pc \notin {"idle", "down"} => EngineTrue(engine.pc, op)'
  <2>1. CASE engine.pc \in {"commit", "open", "opened", "reopen", "reopened"}
    <3>1. op \in Active /\ op \in Ops
      BY <2>1, Engaged DEF Written
    <3>2. row[op].status \notin {"none", "staged"}
      BY <3>1 DEF DockerTruth, Active
    <3> QED BY <1>1, <1>4, <2>1, <3>1, <3>2 DEF DockerTruth, EngineTrue
  <2>2. CASE engine.pc \notin {"commit", "open", "opened", "reopen", "reopened"}
    BY <1>1, <2>2 DEF EngineTrue
  <2> QED BY <2>1, <2>2
<1>13. engine'.offer # 0 => Active' = {} /\ ~Blocked'
  BY <1>1 DEF DockerTruth
<1> QED BY <1>2, <1>5, <1>6, <1>7, <1>9, <1>10, <1>11, <1>12, <1>13 DEF DockerTruth

\* Every step of a Docker host.
LEMMA DockerTells ==
    ASSUME UpdateAssumption, DockerInv, DockerTruth, DockerNext
    PROVE  DockerTruth'
<1>1. CASE ((DockerReady /\ ApiRequest) \/ ApiStep) /\ UNCHANGED dockerVars
  BY <1>1, ApiTellsDocker
<1>2. CASE EngineStep
  <2>1. CASE Project \/ OpenFailed
    BY <2>1, EndStepsTell
  <2>2. CASE RefreshCapability \/ AdmitRequest \/ Tick
    BY <2>2, DispatchTells
  <2>3. CASE Queued \/ VerifyArtifacts \/ BuildImage \/ PreflightImage \/ PrepareStop
    BY <2>3, PhaseStepsTell
  <2>4. CASE StopContainer \/ Switch
    BY <2>4, SwitchStepsTell
  <2>5. CASE Verify
    BY <2>5, VerifyStepsTell
  <2>6. CASE Failed \/ Recover \/ Restored \/ Restore
    BY <2>6, RecoverStepsTell
  <2>7. CASE RecoveryFailed
    BY <2>7, RecoverStepsTell, EndStepsTell DEF RecoveryFailed
  <2>8. CASE EngineStart
    BY <2>8, ProcessStepsTell
  <2> QED BY <1>2, <2>1, <2>2, <2>3, <2>4, <2>5, <2>6, <2>7, <2>8 DEF EngineStep
<1>3. CASE EngineFails
  BY <1>3, EngineFailsTells
<1>4. CASE EngineCrash \/ DockerReboot
  BY <1>4, ProcessStepsTell
<1> QED BY <1>1, <1>2, <1>3, <1>4, Zenon DEF DockerNext

\* Before the first request no row and no status says anything.
LEMMA ReportsStart ==
    ASSUME UpdateAssumption, ApiInit
    PROVE  ReportsOK /\ \A q \in Ops : row[q].status = "none" /\ ~Pending(row[q]) /\ public[q].phase = "none"
<1>1. \A q \in Ops : row[q].status = "none" /\ public[q].phase = "none" /\ request # q
  BY DEF ApiInit, NoRow, NoStatus, UpdateAssumption, NoOp
<1> QED BY <1>1 DEF ReportsOK, Pending, Terminal

\* A Docker host starts without a journal.
LEMMA DockerStartsTrue ==
    ASSUME UpdateAssumption, ApiInit, DockerInit
    PROVE  DockerTruth
<1>1. \A q \in Ops : record[q].phase = "none"
  BY DEF DockerInit, NoRecord
<1>2. Active = {} /\ ~Blocked /\ engine.pc = "idle"
  BY <1>1 DEF Active, Blocked, DockerInit, IdleEngine
<1> QED BY <1>1, <1>2, ReportsStart DEF DockerTruth, Terminal, Settled

\* The API reads an outcome only if it is that of the container that answers.
LEMMA DockerReportsTruly ==
    ASSUME UpdateAssumption, DockerInv, DockerTruth, DockerNext, NEW o \in Ops,
           Pending(row[o]), row'[o].status \in Settled
    PROVE  services.api = current /\ Justified(o, row'[o].status) /\ UNCHANGED <<services, current>>
           /\ row'[o].version = row[o].version /\ row'[o].expected = row[o].expected
           /\ row'[o].action = row[o].action
<1>1. CASE (ApiRequest \/ ApiStep) /\ UNCHANGED dockerVars
  <2>1. Observed(o) /\ ApiMoves /\ o \in Rows
    BY <1>1, ApiTells, ApiKeeps DEF DockerInv, ApiReads, Submitted, Pending, Settled, Rows
  <2>2. record[o].phase = row'[o].status /\ record[o].phase \in Settled
    BY <2>1 DEF DockerTruth, Observed, Settled
  <2>3. Justified(o, row'[o].status)
    BY <2>2 DEF DockerTruth
  <2>4. Active = {} /\ ~Blocked
    <3>1. \A q \in Ops : record[q].phase \notin Settled \cup {"none"} => o = q
      BY DEF DockerTruth
    <3> QED BY <2>2, <3>1 DEF Active, Blocked, Settled
  <2> QED BY <2>1, <2>3, <2>4 DEF DockerInv, QuietOK, ApiMoves
<1>2. CASE EngineStep \/ EngineFails \/ EngineCrash \/ DockerReboot
  <2>1. UNCHANGED row
    BY <1>2 DEF EngineStep, EngineFails, EngineCrash, DockerReboot, Project, OpenFailed, RefreshCapability,
       AdmitRequest, Tick, Queued, VerifyArtifacts, BuildImage, PreflightImage, PrepareStop, StopContainer,
       Switch, Verify, Failed, Recover, Restored, Restore, RecoveryFailed, EngineStart, Step, Enter, Note,
       Marker, Tag, ComposeUp, Kept, apiVars
  <2> QED BY <2>1 DEF Pending, Settled
<1> QED BY <1>1, <1>2, Zenon DEF DockerNext

-----------------------------------------------------------------------------
(* The launcher tells the truth.                                           *)

Claimed(q) == Pending(row[q]) /\ Told(q)

\* A step of the launcher that writes neither the link, its state file, the result nor the
\* request.
LEMMA KeeperMoves ==
    ASSUME UpdateAssumption, LauncherTruth, UNCHANGED <<row, releases, request, public, store, current>>,
           keeper'.pc # "forget",
           keeper'.ready => keeper'.pc = "loop" \/ (keeper'.pc \in Reporting /\ keeper'.then = "loop"),
           KeeperTrue(keeper.pc, keeper.op)',
           \A q \in Ops : Claimed(q) =>
               /\ keeper'.pc \notin Underway
               /\ ~(keeper'.pc = "result" /\ keeper'.then # "boot" /\ store.op # NoOp)
               /\ Justified(q, public[q].phase) \/ (store.op = q /\ keeper'.pc \in {"off", "result"})
    PROVE  LauncherTruth'
<1>1. /\ \A link : CodeRoot(link)' = CodeRoot(link) /\ (Sealed(link)' <=> Sealed(link))
      /\ \A q : (Gone(q)' <=> Gone(q)) /\ (Same(q)' <=> Same(q)) /\ (Told(q)' <=> Told(q))
      /\ \A q, phase : Justified(q, phase)' <=> Justified(q, phase)
  BY DEF CodeRoot, Sealed, Gone, Same, Told, Justified
<1>2. ReportsOK'
  BY DEF Filed, LauncherTruth, ReportsOK
<1>3. current' = CodeRoot(store.link)'
  BY <1>1 DEF Filed, LauncherTruth
<1>4. request' # NoOp /\ (store'.op = NoOp \/ keeper'.pc = "forget") =>
          Sealed(store.link)' /\ (Pending(row'[request']) => current' = row'[request'].expected)
  BY <1>1 DEF Filed, LauncherTruth
<1>5. store'.op # NoOp =>
          /\ Filed(store.op)'
          /\ Sealed(store.previous)'
          /\ Pending(row'[store'.op]) => CodeRoot(store.previous)' = row'[store'.op].expected
  BY <1>1 DEF Filed, LauncherTruth
<1>6. ASSUME NEW q \in Ops, Claimed(q)'
      PROVE  /\ store'.op \in {NoOp, q}
             /\ keeper'.pc = "forget" => request' = NoOp
             /\ request' \in {NoOp, q} \/ store'.op = q
             /\ request' = q /\ store'.op = NoOp =>
                   (Gone(q)' /\ public'[q].phase = "failed") \/ (Same(q)' /\ public'[q].phase = "succeeded")
             /\ ~(keeper'.pc \in Underway)
             /\ ~(keeper'.pc = "result" /\ keeper'.then # "boot" /\ store'.op # NoOp)
             /\ Justified(q, public[q].phase)' \/ (store'.op = q /\ keeper'.pc \in {"off", "result"})
  <2>1. Claimed(q)
    BY <1>1, <1>6 DEF Claimed
  <2> QED BY <1>1, <2>1 DEF Filed, LauncherTruth, Claimed
<1> QED BY <1>2, <1>3, <1>4, <1>5, <1>6 DEF Filed, LauncherTruth, Claimed

\* What a step of the launcher leaves of its own state.
LEMMA KeeperFollows ==
    ASSUME LauncherInv
    PROVE  /\ DOMAIN keeper = KeeperFields /\ DOMAIN store = {"link", "op", "previous"}
           /\ \A pc : Proceed(pc) =>
                 /\ keeper'.pc = pc /\ keeper'.op = keeper.op /\ keeper'.ready = keeper.ready
                 /\ keeper'.then = keeper.then /\ keeper'.outcome = keeper.outcome
           /\ \A outcome, next, active, ready : ReportNext(outcome, next, active, ready) =>
                 /\ keeper'.pc = "result" /\ keeper'.op = keeper.op /\ keeper'.ready = ready
                 /\ keeper'.then = next /\ keeper'.outcome = outcome
<1>1. DOMAIN keeper = KeeperFields /\ DOMAIN store = {"link", "op", "previous"}
  BY DEF LauncherInv, StoreOK, KeeperFields
<1>2. ASSUME NEW pc, Proceed(pc)
      PROVE  /\ keeper'.pc = pc /\ keeper'.op = keeper.op /\ keeper'.ready = keeper.ready
             /\ keeper'.then = keeper.then /\ keeper'.outcome = keeper.outcome
  BY <1>1, <1>2 DEF Proceed, KeeperFields
<1>3. ASSUME NEW outcome, NEW next, NEW active, NEW ready, ReportNext(outcome, next, active, ready)
      PROVE  /\ keeper'.pc = "result" /\ keeper'.op = keeper.op /\ keeper'.ready = ready
             /\ keeper'.then = next /\ keeper'.outcome = outcome
  BY <1>1, <1>3 DEF ReportNext, KeeperFields
<1> QED BY <1>1, <1>2, <1>3

\* A switch on its way: while it lasts no pending operation is told an outcome, and the
\* outcome it comes to is the version that runs.
LEMMA SwitchMovesTell ==
    ASSUME UpdateAssumption, LauncherInv, LauncherTruth, UNCHANGED unchangedByKeeper,
           \/ StopChildren \/ AwaitPort \/ StartSwitched \/ VerifySwitched
           \/ StopUnhealthy \/ RestartPrevious \/ VerifyRestored
    PROVE  LauncherTruth'
<1>1. /\ UNCHANGED <<row, releases, request, public, store, current>>
      /\ keeper.pc \in Underway
  BY DEF unchangedByKeeper, StopChildren, AwaitPort, StartSwitched, VerifySwitched, StopUnhealthy,
         RestartPrevious, VerifyRestored, StopAll, StartChildren, untouched, Underway
<1>2. /\ store.op = keeper.op /\ keeper.op # NoOp /\ Filed(keeper.op)
      /\ keeper.pc \in {"stop", "port"} /\ Pending(row[keeper.op]) => current = row[keeper.op].expected
      /\ keeper.pc = "reverify" => current = CodeRoot(store.previous)
      /\ Pending(row[keeper.op]) => CodeRoot(store.previous) = row[keeper.op].expected
      /\ ~keeper.ready
      /\ keeper.pc = "verify" => services.api = current
  BY <1>1 DEF Filed, LauncherTruth, KeeperTrue, Underway, Reporting, LauncherInv, StoreOK
<1>3. \A q \in Ops : ~Claimed(q)
  BY <1>1 DEF Filed, LauncherTruth, Claimed
<1>4. \A link : CodeRoot(link)' = CodeRoot(link)
  BY <1>1 DEF CodeRoot
<1>5. ASSUME NEW pc \in Underway, keeper.pc # "switch", Proceed(pc),
             pc = "switch" => keeper.pc = "port", pc = "port" => keeper.pc = "stop", pc # "stop", pc # "restart",
             pc = "reverify" => keeper.pc = "restart"
      PROVE  LauncherTruth'
  <2>1. keeper'.pc = pc /\ keeper'.op = keeper.op /\ keeper'.ready = keeper.ready
    BY <1>5, KeeperFollows
  <2>2. keeper.pc = "restart" => current = CodeRoot(store.previous)
    BY DEF Filed, LauncherTruth, KeeperTrue
  <2>3. KeeperTrue(keeper.pc, keeper.op)'
    BY <1>1, <1>2, <1>4, <1>5, <2>1, <2>2 DEF Filed, KeeperTrue, Underway, Reporting
  <2> QED BY <1>1, <1>2, <1>3, <1>5, <2>1, <2>3, KeeperMoves DEF Underway
<1>6. ASSUME NEW outcome \in Settled, NEW next \in {"loop", "exit"}, NEW active, NEW ready,
             ReportNext(outcome, next, active, ready), ready => next = "loop",
             Pending(row[keeper.op]) => Justified(keeper.op, outcome)
      PROVE  LauncherTruth'
  <2>1. keeper'.pc = "result" /\ keeper'.op = keeper.op /\ (keeper'.ready <=> ready) /\ keeper'.then = next
        /\ keeper'.outcome = outcome
    BY <1>6, KeeperFollows
  <2>2. Justified(keeper.op, keeper.outcome)' <=> Justified(keeper.op, outcome)
    BY <1>1, <2>1 DEF Justified
  <2>3. KeeperTrue(keeper.pc, keeper.op)'
    BY <1>1, <1>2, <1>6, <2>1, <2>2 DEF Filed, KeeperTrue, Underway, Reporting
  <2> QED BY <1>1, <1>3, <1>6, <2>1, <2>3, KeeperMoves DEF Underway, Reporting
<1>7. CASE StopChildren \/ StopUnhealthy \/ StartSwitched \/ RestartPrevious
  <2>1. \/ keeper.pc = "stop" /\ Proceed("port")
        \/ keeper.pc = "undo" /\ Proceed("relink")
        \/ keeper.pc = "start" /\ Proceed("verify")
        \/ keeper.pc = "restart" /\ Proceed("reverify")
    BY <1>7 DEF StopChildren, StopUnhealthy, StartSwitched, RestartPrevious, StopAll
  <2> QED BY <1>5, <2>1 DEF Underway
<1>8. CASE AwaitPort
  <2>1. CASE Proceed("switch")
    BY <1>5, <1>8, <2>1 DEF AwaitPort, Underway
  <2>2. CASE ReportNext("failed", "loop", current, TRUE)
    <3>1. Pending(row[keeper.op]) => Justified(keeper.op, "failed")
      BY <1>2, <1>8 DEF AwaitPort, Justified
    <3>2. "failed" \in Settled
      BY DEF Settled, Terminal
    <3> QED BY <1>6, <2>2, <3>1, <3>2
  <2> QED BY <1>8, <2>1, <2>2 DEF AwaitPort
<1>9. CASE VerifySwitched
  <2>1. CASE Proceed("undo")
    BY <1>5, <1>9, <2>1 DEF VerifySwitched, Underway
  <2>2. CASE HealthReady(row[keeper.op].version) /\ ReportNext("succeeded", "loop", row[keeper.op].version, TRUE)
    <3>1. Justified(keeper.op, "succeeded")
      BY <1>2, <1>9, <2>2 DEF VerifySwitched, HealthReady, Justified
    <3>2. "succeeded" \in Settled
      BY DEF Settled, Terminal
    <3> QED BY <1>6, <2>2, <3>1, <3>2
  <2> QED BY <1>9, <2>1, <2>2 DEF VerifySwitched
<1>10. CASE VerifyRestored
  <2>1. Pending(row[keeper.op]) => Justified(keeper.op, "failed") /\ Justified(keeper.op, "rolled_back")
    BY <1>2, <1>10 DEF VerifyRestored, Justified
  <2>2. {"failed", "rolled_back"} \subseteq Settled
    BY DEF Settled, Terminal
  <2>3. CASE ReportNext("rolled_back", "loop", current, TRUE)
    BY <1>6, <2>1, <2>2, <2>3
  <2>4. CASE ReportNext("failed", "exit", keeper.active, FALSE)
    BY <1>6, <2>1, <2>2, <2>4
  <2> QED BY <1>10, <2>3, <2>4 DEF VerifyRestored
<1> QED BY <1>7, <1>8, <1>9, <1>10

\* A request that needs no switch, the end of the launcher and a start without a switch
\* to undo.
LEMMA KeeperRestsTell ==
    ASSUME UpdateAssumption, LauncherInv, LauncherTruth, UNCHANGED unchangedByKeeper,
           \/ (TakeRequest /\ UNCHANGED store)
           \/ Exit \/ LauncherDies
           \/ (StartLauncher /\ store.op = NoOp)
           \/ StartAtBoot \/ VerifyStart
    PROVE  LauncherTruth'
<1>1. UNCHANGED <<row, releases, request, public, store, current>>
  BY DEF unchangedByKeeper, TakeRequest, Exit, LauncherDies, StartLauncher, StartAtBoot, VerifyStart,
         StartChildren, untouched
<1>2. \A q \in Ops : Claimed(q) => \/ Justified(q, public[q].phase)
                                  \/ (store.op = q /\ keeper.pc \in {"off", "result"})
  BY DEF Filed, LauncherTruth, Claimed
<1>3. DOMAIN keeper = KeeperFields
  BY KeeperFollows
<1>4. CASE TakeRequest /\ UNCHANGED store
  <2> DEFINE r == row[request]
  <2>1. store.op = NoOp /\ keeper.active = current /\ keeper.pc = "loop" /\ request # NoOp
    BY <1>4 DEF TakeRequest, LauncherInv, StoreOK
  <2>2. request \in Ops /\ Filed(request) /\ (Pending(r) => current = r.expected)
    BY <2>1 DEF Filed, LauncherInv, RequestsOK, Rows, LauncherTruth, ReportsOK
  <2>3. store'.op # request
    BY <1>4, <2>1
  <2>4. \E outcome \in {"failed", "succeeded"} :
          /\ keeper' = [keeper EXCEPT !.pc = "result", !.op = request, !.outcome = outcome, !.then = "loop"]
          /\ outcome = "failed" => Gone(request)
          /\ outcome = "succeeded" => Same(request)
    <3>1. \/ store' = [store EXCEPT !.op = request, !.previous = store.link]
          \/ \E outcome \in {"failed", "succeeded"} :
               /\ keeper' = [keeper EXCEPT !.pc = "result", !.op = request, !.outcome = outcome, !.then = "loop"]
               /\ outcome = "failed" => Gone(request)
               /\ outcome = "succeeded" => Same(request)
      BY <1>4, <2>1 DEF TakeRequest, Gone, Same
    <3>2. store' # [store EXCEPT !.op = request, !.previous = store.link]
      BY <2>3, KeeperFollows
    <3> QED BY <3>1, <3>2
  <2>5. PICK outcome \in {"failed", "succeeded"} :
          /\ keeper' = [keeper EXCEPT !.pc = "result", !.op = request, !.outcome = outcome, !.then = "loop"]
          /\ outcome = "failed" => Gone(request)
          /\ outcome = "succeeded" => Same(request)
    BY <2>4
  <2>6. /\ keeper'.pc = "result" /\ keeper'.op = request /\ keeper'.outcome = outcome /\ keeper'.then = "loop"
    BY <1>3, <2>5 DEF KeeperFields
  <2>7. Pending(r) => Justified(request, outcome)
    BY <2>2, <2>5 DEF Justified, Same
  <2>8. (Justified(keeper.op, keeper.outcome)' <=> Justified(request, outcome))
        /\ (Gone(keeper.op)' <=> Gone(request)) /\ (Same(keeper.op)' <=> Same(request))
    BY <1>1, <2>6 DEF Justified, Gone, Same
  <2>9. KeeperTrue(keeper.pc, keeper.op)'
    BY <1>1, <2>1, <2>2, <2>5, <2>6, <2>7, <2>8 DEF Filed, KeeperTrue, Underway, Reporting, Settled, Terminal
  <2> QED BY <1>1, <1>2, <2>1, <2>6, <2>9, KeeperMoves DEF Underway, Reporting
<1>5. ASSUME NEW pc \in {"off", "boot", "check", "loop", "exit"}, keeper'.pc = pc,
             keeper'.ready => pc = "loop", pc \in {"loop", "boot", "check"} => keeper'.op = NoOp,
             pc # "off" => store.op = NoOp
      PROVE  LauncherTruth'
  <2>1. KeeperTrue(keeper.pc, keeper.op)'
    BY <1>5 DEF Filed, KeeperTrue, Underway, Reporting
  <2>2. \A q \in Ops : Claimed(q) => \/ Justified(q, public[q].phase)
                                    \/ (store.op = q /\ keeper'.pc \in {"off", "result"})
    BY <1>2, <1>5, OpIsNotNoOp
  <2> QED BY <1>1, <1>5, <2>1, <2>2, KeeperMoves DEF Underway
<1>6. CASE Exit \/ LauncherDies
  BY <1>5, <1>6 DEF Exit, LauncherDies, KeeperOff
<1>7. CASE StartLauncher /\ store.op = NoOp
  BY <1>5, <1>7 DEF StartLauncher, KeeperOff
<1>8. CASE StartAtBoot \/ VerifyStart
  <2>1. /\ store.op = NoOp /\ keeper.pc \in {"boot", "check"} /\ keeper.op = NoOp /\ ~keeper.ready
    BY <1>8 DEF Filed, StartAtBoot, VerifyStart, LauncherInv, StoreOK, LauncherTruth, KeeperTrue, Reporting
  <2>2. keeper'.op = keeper.op /\ keeper'.pc \in {"check", "loop", "exit"} /\ (keeper'.ready => keeper'.pc = "loop")
    BY <1>3, <1>8, <2>1 DEF StartAtBoot, VerifyStart, Proceed, KeeperFields
  <2> QED BY <1>5, <2>1, <2>2
<1> QED BY <1>4, <1>6, <1>7, <1>8

\* A step of the launcher that writes the link or the state of a switch, which no told
\* operation is waiting for, or which undoes the one it is waiting for.
LEMMA StoreMoves ==
    ASSUME UpdateAssumption, LauncherTruth, UNCHANGED <<row, releases, request, public>>,
           store'.op # NoOp, Filed(store'.op),
           Sealed(store'.previous), Pending(row[store'.op]) => CodeRoot(store'.previous) = row[store'.op].expected,
           current' = CodeRoot(store'.link), keeper'.pc # "forget", ~keeper'.ready,
           KeeperTrue(keeper.pc, keeper.op)',
           \A q \in Ops : Claimed(q) => store'.op = q /\ keeper'.pc = "result" /\ keeper'.then = "boot"
    PROVE  LauncherTruth'
<1>1. /\ \A link : CodeRoot(link)' = CodeRoot(link) /\ (Sealed(link)' <=> Sealed(link))
      /\ \A q : Told(q)' <=> Told(q)
  BY DEF CodeRoot, Sealed, Told
<1>2. ReportsOK'
  BY DEF Filed, LauncherTruth, ReportsOK
<1>3. current' = CodeRoot(store.link)'
  BY DEF CodeRoot
<1>4. /\ Sealed(store.previous)'
      /\ Pending(row'[store'.op]) => CodeRoot(store.previous)' = row'[store'.op].expected
  BY DEF CodeRoot, Sealed
<1>5. ASSUME NEW q \in Ops, Claimed(q)'
      PROVE  store'.op = q /\ keeper'.pc = "result" /\ keeper'.then = "boot"
  BY <1>1, <1>5 DEF Claimed
<1> QED BY <1>2, <1>3, <1>4, <1>5 DEF Filed, LauncherTruth, Claimed, Underway

\* The switch is noted and done, and undone, when it failed or by the next start.
LEMMA SwitchesTell ==
    ASSUME UpdateAssumption, LauncherInv, LauncherTruth, UNCHANGED unchangedByKeeper,
           \/ (TakeRequest /\ store' # store) \/ SwitchTo \/ RestorePrevious
           \/ (StartLauncher /\ store.op # NoOp)
    PROVE  LauncherTruth'
<1>1. UNCHANGED <<row, releases, request, public>>
  BY DEF unchangedByKeeper, TakeRequest, SwitchTo, RestorePrevious, StartLauncher, PointTo, untouched
<1>2. DOMAIN keeper = KeeperFields /\ DOMAIN store = {"link", "op", "previous"}
  BY KeeperFollows
<1>3. \A link : CodeRoot(link)' = CodeRoot(link)
  BY <1>1 DEF CodeRoot
<1>4. store.op # NoOp =>
          /\ Filed(store.op)
          /\ Sealed(store.previous)
          /\ Pending(row[store.op]) => CodeRoot(store.previous) = row[store.op].expected
  BY DEF Filed, LauncherTruth
<1>5. CASE TakeRequest /\ store' # store
  <2> DEFINE r == row[request]
  <2>1. /\ store.op = NoOp /\ keeper.active = current /\ keeper.pc = "loop" /\ request # NoOp
        /\ store' = [store EXCEPT !.op = request, !.previous = store.link]
        /\ keeper' = [keeper EXCEPT !.pc = "stop", !.op = request, !.ready = FALSE]
        /\ ~Gone(request) /\ ~(r.action = "apply" /\ r.version = current) /\ UNCHANGED current
    BY <1>5 DEF TakeRequest, LauncherInv, StoreOK, Gone, untouched
  <2>2. request \in Ops /\ Filed(request) /\ (Pending(r) => current = r.expected)
        /\ Sealed(store.link) /\ current = CodeRoot(store.link)
    BY <2>1 DEF Filed, LauncherInv, RequestsOK, Rows, LauncherTruth, ReportsOK
  <2>3. store'.op = request /\ store'.previous = store.link /\ store'.link = store.link
    BY <1>2, <2>1
  <2>4. keeper'.pc = "stop" /\ keeper'.op = request /\ ~keeper'.ready
    BY <1>2, <2>1 DEF KeeperFields
  <2>5. \A q \in Ops : ~Claimed(q)
    <3>1. \A q \in Ops : Claimed(q) => request \in {NoOp, q} \/ store.op = q
      BY DEF Filed, LauncherTruth, Claimed
    <3>2. \A q \in Ops : Claimed(q) => q = request
      BY <2>1, <3>1, OpIsNotNoOp
    <3>3. \A q \in Ops : Claimed(q) /\ request = q /\ store.op = NoOp => Gone(q) \/ Same(q)
      BY DEF Filed, LauncherTruth, Claimed
    <3> QED BY <2>1, <3>2, <3>3 DEF Same
  <2>6. KeeperTrue(keeper.pc, keeper.op)'
    BY <1>1, <2>1, <2>2, <2>3, <2>4 DEF Filed, KeeperTrue, Underway, Reporting
  <2>7. Sealed(store'.previous) /\ (Pending(row[store'.op]) => CodeRoot(store'.previous) = row[store'.op].expected)
        /\ current' = CodeRoot(store'.link)
    BY <2>1, <2>2, <2>3
  <2> QED BY <1>1, <2>1, <2>2, <2>3, <2>4, <2>5, <2>6, <2>7, StoreMoves
<1>6. ASSUME NEW link, NEW pc \in {"start", "restart"}, keeper.pc \in {"switch", "relink"},
             PointTo(link), Proceed(pc), pc = "restart" => link = store.previous
      PROVE  LauncherTruth'
  <2>1. keeper.pc \in Underway /\ store.op = keeper.op /\ keeper.op # NoOp
        /\ Filed(keeper.op) /\ ~keeper.ready
    BY <1>6 DEF Filed, LauncherTruth, KeeperTrue, Underway, Reporting
  <2>2. \A q \in Ops : ~Claimed(q)
    BY <2>1 DEF Filed, LauncherTruth, Claimed
  <2>3. /\ store'.op = store.op /\ store'.previous = store.previous /\ store'.link = link
        /\ current' = CodeRoot(link)
    BY <1>2, <1>6 DEF PointTo
  <2>4. keeper'.pc = pc /\ keeper'.op = keeper.op /\ ~keeper'.ready
    BY <1>6, <2>1, KeeperFollows
  <2>5. KeeperTrue(keeper.pc, keeper.op)'
    <3>1. pc = "restart" => current' = CodeRoot(store.previous)'
      BY <1>6, <2>3 DEF CodeRoot, unchangedByKeeper
    <3> QED BY <1>1, <1>6, <2>1, <2>3, <2>4, <3>1 DEF Filed, KeeperTrue, Underway, Reporting
  <2>6. Sealed(store'.previous) /\ (Pending(row[store'.op]) => CodeRoot(store'.previous) = row[store'.op].expected)
        /\ current' = CodeRoot(store'.link)
    BY <1>4, <2>1, <2>3
  <2>7. /\ store'.op # NoOp /\ Filed(store'.op)
        /\ keeper'.pc # "forget" /\ ~keeper'.ready
    BY <1>6, <2>1, <2>3, <2>4
  <2> QED BY <1>1, <2>2, <2>5, <2>6, <2>7, StoreMoves
<1>7. CASE StartLauncher /\ store.op # NoOp
  <2>1. /\ PointTo(store.previous) /\ keeper.pc = "off"
        /\ keeper' = [KeeperOff EXCEPT !.pc = "result", !.op = store.op, !.outcome = "rolled_back",
                                           !.then = "boot", !.active = current']
    BY <1>7 DEF StartLauncher
  <2>2. /\ store'.op = store.op /\ store'.previous = store.previous /\ store'.link = store.previous
        /\ current' = CodeRoot(store.previous)
    BY <1>2, <2>1 DEF PointTo
  <2>3. /\ keeper'.pc = "result" /\ keeper'.op = store.op /\ keeper'.outcome = "rolled_back"
        /\ keeper'.then = "boot" /\ ~keeper'.ready
    BY <2>1 DEF KeeperOff
  <2>4. Pending(row[store.op]) => Justified(store.op, "rolled_back")'
    BY <1>1, <1>4, <1>7, <2>2 DEF Justified
  <2>5. Justified(keeper.op, keeper.outcome)' <=> Justified(store.op, "rolled_back")'
    BY <1>1, <2>2, <2>3 DEF Justified
  <2>6. KeeperTrue(keeper.pc, keeper.op)'
    BY <1>1, <1>4, <1>7, <2>2, <2>3, <2>4, <2>5 DEF Filed, KeeperTrue, Underway, Reporting, Settled, Terminal
  <2>7. \A q \in Ops : Claimed(q) => store.op = q
    BY <1>7 DEF Filed, LauncherTruth, Claimed
  <2>8. Sealed(store'.previous) /\ (Pending(row[store'.op]) => CodeRoot(store'.previous) = row[store'.op].expected)
        /\ current' = CodeRoot(store'.link)
    BY <1>4, <1>7, <2>2
  <2> QED BY <1>1, <1>4, <1>7, <2>2, <2>3, <2>6, <2>7, <2>8, StoreMoves
<1>8. CASE SwitchTo
  BY <1>6, <1>8 DEF SwitchTo
<1>9. CASE RestorePrevious
  BY <1>6, <1>9 DEF RestorePrevious
<1> QED BY <1>5, <1>7, <1>8, <1>9

\* The result is written, then the request and the state file are removed.
LEMMA ResultsTell ==
    ASSUME UpdateAssumption, LauncherInv, LauncherTruth, UNCHANGED unchangedByKeeper,
           WriteResult \/ RemoveRequest \/ RemoveState
    PROVE  LauncherTruth'
<1>1. /\ UNCHANGED <<row, releases, current>> /\ keeper.pc \in Reporting
  BY DEF unchangedByKeeper, WriteResult, RemoveRequest, RemoveState, untouched, Reporting
<1>2. DOMAIN keeper = KeeperFields /\ DOMAIN store = {"link", "op", "previous"}
  BY KeeperFollows
<1>3. /\ \A link : CodeRoot(link)' = CodeRoot(link) /\ (Sealed(link)' <=> Sealed(link))
      /\ \A q : (Gone(q)' <=> Gone(q)) /\ (Same(q)' <=> Same(q))
      /\ \A q, phase : Justified(q, phase)' <=> Justified(q, phase)
  BY <1>1 DEF CodeRoot, Sealed, Gone, Same, Justified
<1>4. /\ keeper.op # NoOp /\ (store.op # NoOp => store.op = keeper.op)
      /\ Filed(keeper.op)
      /\ keeper.ready => keeper.then = "loop"
      /\ keeper.then \in {"loop", "boot", "exit"}
  BY <1>1 DEF Filed, LauncherTruth, KeeperTrue, LauncherInv, StoreOK, Reporting
<1>5. current' = CodeRoot(store.link)
  BY <1>1 DEF Filed, LauncherTruth
<1>6. CASE WriteResult
  <2>1. /\ UNCHANGED <<request, store>> /\ keeper.pc = "result"
        /\ public' = [o \in Ops |-> IF o = keeper.op THEN [phase |-> keeper.outcome, fresh |-> TRUE]
                                ELSE NoStatus]
        /\ keeper'.pc = "clear" /\ keeper'.op = keeper.op /\ keeper'.ready = keeper.ready /\ keeper'.then = keeper.then
    BY <1>6, KeeperFollows DEF WriteResult
  <2>2. /\ keeper.outcome \in Settled
        /\ store.op = NoOp => keeper.op = request
        /\ Pending(row[keeper.op]) => Justified(keeper.op, keeper.outcome)
        /\ store.op = NoOp /\ Pending(row[keeper.op]) =>
              (Gone(keeper.op) /\ keeper.outcome = "failed") \/ (Same(keeper.op) /\ keeper.outcome = "succeeded")
    BY <2>1 DEF Filed, LauncherTruth, KeeperTrue
  <2>3. \A q \in Ops : IF q = keeper.op THEN public'[q].phase = keeper.outcome /\ public'[q].fresh
                                        ELSE public'[q].phase = "none"
    BY <2>1 DEF NoStatus
  <2>4. ReportsOK'
    <3>1. keeper.outcome \in Terminal /\ keeper.outcome # "staged"
      BY <2>2 DEF Settled, Terminal
    <3>2. ASSUME NEW q \in Ops
          PROVE  /\ row'[q].status \in {"none", "staged"} => public'[q].phase = "none" /\ request' # q
                 /\ public'[q].phase # "staged"
                 /\ Pending(row'[q]) /\ public'[q].phase \in Terminal => public'[q].fresh
      BY <1>1, <1>4, <2>1, <2>3, <3>1 DEF Filed, LauncherTruth, ReportsOK, Terminal
    <3>3. \A o, q \in Ops : Pending(row'[o]) /\ Pending(row'[q]) => o = q
      BY <1>1 DEF Filed, LauncherTruth, ReportsOK
    <3> QED BY <3>2, <3>3 DEF Filed, ReportsOK
  <2>5. KeeperTrue(keeper.pc, keeper.op)'
    BY <1>1, <1>4, <2>1, <2>2 DEF Filed, KeeperTrue, Underway, Reporting
  <2>6. ASSUME NEW q \in Ops, Claimed(q)'
        PROVE  q = keeper.op /\ Pending(row[q]) /\ public'[q].phase = keeper.outcome
    BY <1>1, <1>6, <2>3, <2>6 DEF Claimed, Told, Settled, Terminal
  <2>7. \A q \in Ops : Claimed(q)' =>
             /\ store'.op \in {NoOp, q}
             /\ request' \in {NoOp, q} \/ store'.op = q
             /\ request' = q /\ store'.op = NoOp =>
                   (Gone(q)' /\ public'[q].phase = "failed") \/ (Same(q)' /\ public'[q].phase = "succeeded")
    BY <1>3, <1>4, <2>1, <2>2, <2>6
  <2>8. \A q \in Ops : Claimed(q)' => Justified(q, public[q].phase)'
    <3> SUFFICES ASSUME NEW q \in Ops, Claimed(q)' PROVE Justified(q, public[q].phase)'
      OBVIOUS
    <3>1. q = keeper.op /\ Pending(row[q]) /\ public'[q].phase = keeper.outcome
      BY <2>6
    <3> QED BY <1>1, <2>2, <3>1 DEF Justified
  <2>9. /\ request' # NoOp /\ store'.op = NoOp =>
              Sealed(store.link)' /\ (Pending(row'[request']) => current' = row'[request'].expected)
        /\ store'.op # NoOp =>
              /\ Filed(store.op)'
              /\ Sealed(store.previous)'
              /\ Pending(row'[store'.op]) => CodeRoot(store.previous)' = row'[store'.op].expected
        /\ current' = CodeRoot(store.link)'
    BY <1>1, <1>3, <1>5, <2>1 DEF Filed, LauncherTruth
  <2> QED BY <1>4, <2>1, <2>4, <2>5, <2>7, <2>8, <2>9 DEF Filed, LauncherTruth, Claimed, Reporting, Underway
<1>7. CASE RemoveRequest
  <2>1. /\ UNCHANGED <<public, store>> /\ request' = NoOp /\ keeper.pc = "clear"
        /\ keeper'.pc = "forget" /\ keeper'.op = keeper.op /\ keeper'.ready = keeper.ready /\ keeper'.then = keeper.then
    BY <1>7, KeeperFollows DEF RemoveRequest
  <2>2. ReportsOK'
    BY <1>1, <2>1, OpIsNotNoOp DEF Filed, LauncherTruth, ReportsOK
  <2>3. KeeperTrue(keeper.pc, keeper.op)'
    BY <1>1, <1>4, <2>1 DEF Filed, KeeperTrue, Underway, Reporting
  <2>4. ASSUME NEW q \in Ops, Claimed(q)'
        PROVE  store'.op \in {NoOp, q} /\ Justified(q, public[q].phase)' /\ request' # q
    <3>1. Claimed(q)
      BY <1>1, <2>1, <2>4 DEF Claimed, Told
    <3>2. store.op \in {NoOp, q} /\ Justified(q, public[q].phase)
      BY <2>1, <3>1 DEF Filed, LauncherTruth, Claimed
    <3> QED BY <1>1, <2>1, <3>2, OpIsNotNoOp DEF Justified
  <2>5. /\ store'.op # NoOp =>
              /\ Filed(store.op)'
              /\ Sealed(store.previous)'
              /\ Pending(row'[store'.op]) => CodeRoot(store.previous)' = row'[store'.op].expected
        /\ current' = CodeRoot(store.link)'
    BY <1>1, <1>3, <1>5, <2>1 DEF Filed, LauncherTruth
  <2> QED BY <1>4, <2>1, <2>2, <2>3, <2>4, <2>5 DEF Filed, LauncherTruth, Claimed, Reporting, Underway
<1>8. CASE RemoveState
  <2>1. /\ UNCHANGED <<public, request>> /\ keeper.pc = "forget"
        /\ keeper'.pc = keeper.then /\ keeper'.op = NoOp /\ keeper'.ready = keeper.ready
        /\ store'.op = NoOp /\ store'.previous = 0 /\ store'.link = store.link
    BY <1>2, <1>8 DEF RemoveState, KeeperFields
  <2>2. ReportsOK'
    BY <1>1, <2>1 DEF Filed, LauncherTruth, ReportsOK
  <2>3. KeeperTrue(keeper.pc, keeper.op)'
    BY <1>4, <2>1 DEF Filed, KeeperTrue, Underway, Reporting
  <2>4. ASSUME NEW q \in Ops, Claimed(q)'
        PROVE  Justified(q, public[q].phase)' /\ request' = NoOp /\ request' # q
    <3>1. Claimed(q)
      BY <1>1, <2>1, <2>4 DEF Claimed, Told
    <3>2. request = NoOp /\ Justified(q, public[q].phase)
      BY <2>1, <3>1 DEF Filed, LauncherTruth, Claimed
    <3> QED BY <1>1, <2>1, <3>2, OpIsNotNoOp DEF Justified
  <2>5. /\ request' # NoOp => Sealed(store.link)' /\ (Pending(row'[request']) => current' = row'[request'].expected)
        /\ current' = CodeRoot(store.link)'
    BY <1>1, <1>5, <2>1 DEF Filed, LauncherTruth, Sealed, CodeRoot
  <2> QED BY <1>4, <2>1, <2>2, <2>3, <2>4, <2>5 DEF Filed, LauncherTruth, Claimed, Reporting, Underway
<1> QED BY <1>6, <1>7, <1>8

\* Losing a candidate, ageing and business traffic read nothing.
LEMMA IdleReads ==
    ASSUME \A q \in Ops : row'[q].status = row[q].status, UNCHANGED <<public, request>>
    PROVE  ApiReads
  BY DEF ApiReads, Submitted, Observed

\* What the API asks of the launcher, which has nothing in hand when it is asked, and what
\* it does to the releases.
LEMMA ApiTellsLauncher ==
    ASSUME UpdateAssumption, LauncherInv, LauncherTruth, UNCHANGED <<store, keeper>>,
           ApiReads, ApiMoves, request' # request => Capable,
           CodeRoot(store.link)' = CodeRoot(store.link), Sealed(store.link) => Sealed(store.link)',
           Sealed(store.previous) =>
               Sealed(store.previous)' /\ CodeRoot(store.previous)' = CodeRoot(store.previous),
           \A q \in Ops : q \in Rows /\ Pending(row'[q]) => (Gone(q) => Gone(q)') /\ (Same(q) => Same(q)')
    PROVE  LauncherTruth'
<1>1. RequestsOK /\ ReportsOK /\ UNCHANGED current
  BY DEF Filed, LauncherInv, LauncherTruth, ApiMoves
<1>2. ReportsOK'
  BY <1>1, ReportsStay
<1>3. ASSUME NEW q \in Ops, row[q].status \notin {"none", "staged"}
      PROVE  /\ row'[q].status \notin {"none", "staged"}
             /\ Pending(row'[q]) => Pending(row[q])
             /\ row'[q].expected = row[q].expected /\ row'[q].version = row[q].version
             /\ row'[q].action = row[q].action /\ q \in Rows
             /\ \A phase : Justified(q, phase)' <=> Justified(q, phase)
  <2>1. row'[q].status = row[q].status \/ Observed(q)
    BY <1>3 DEF ApiReads, Submitted
  <2>2. Observed(q) => row'[q].status = public[q].phase /\ public[q].phase \notin {"none", "staged"}
    BY <1>1 DEF Filed, Observed, RequestsOK, ReportsOK
  <2>3. /\ row'[q].expected = row[q].expected /\ row'[q].version = row[q].version
        /\ row'[q].action = row[q].action /\ q \in Rows
    BY <1>3 DEF ApiMoves, Rows
  <2>4. \A phase : Justified(q, phase)' <=> Justified(q, phase)
    BY <1>1, <2>3 DEF Justified
  <2> QED BY <1>3, <2>1, <2>2, <2>3, <2>4 DEF Observed, Pending
<1>4. ASSUME NEW q \in Ops, Claimed(q)'
      PROVE  Claimed(q) /\ row[q].status \notin {"none", "staged"} /\ request' = request /\ public'[q].phase = public[q].phase
  <2>1. public'[q].phase = public[q].phase /\ public[q].phase \in Settled
    BY <1>4 DEF ApiReads, Claimed, Told
  <2>2. row[q].status \notin {"none", "staged"}
    BY <1>1, <2>1 DEF Filed, ReportsOK, Settled, Terminal
  <2>3. Claimed(q)
    BY <1>3, <1>4, <2>1, <2>2 DEF Claimed, Told
  <2>4. request' = request
    <3>1. public[q].phase \in Terminal /\ public[q].fresh /\ public'[q].fresh /\ Pending(row'[q])
      BY <1>1, <1>2, <1>4, <2>1, <2>3 DEF Filed, Claimed, ReportsOK, Settled
    <3>2. ~Observed(q)
      BY <2>1, <3>1 DEF Observed, Pending, Settled
    <3>3. request' # request => ~public[q].fresh
      BY <3>1 DEF ApiReads
    <3> QED BY <3>1, <3>3
  <2> QED BY <2>1, <2>2, <2>3, <2>4
<1>5. current' = CodeRoot(store.link)'
  BY <1>1 DEF Filed, LauncherTruth
<1>6. request' # NoOp /\ (store'.op = NoOp \/ keeper'.pc = "forget") =>
          Sealed(store.link)' /\ (Pending(row'[request']) => current' = row'[request'].expected)
  <2> SUFFICES ASSUME request' # NoOp, store.op = NoOp \/ keeper.pc = "forget"
               PROVE  Sealed(store.link)' /\ (Pending(row'[request']) => current' = row'[request'].expected)
    OBVIOUS
  <2>1. CASE request' = request
    <3>1. request \in Ops /\ row[request].status \notin {"none", "staged"}
      BY <1>1, <2>1 DEF Filed, RequestsOK, Rows, ReportsOK
    <3> QED BY <1>1, <1>3, <2>1, <3>1 DEF Filed, LauncherTruth
  <2>2. CASE request' # request
    <3>1. request' \in Ops /\ Pending(row[request']) /\ row[request'].expected = services.api
      BY <2>2 DEF ApiReads
    <3>2. keeper.ready /\ Sealed(store.link)
      BY <2>2 DEF Capable, Fresh, Sealed
    <3>3. services.api = current
      BY <3>2 DEF Filed, LauncherTruth, LauncherInv, StoreOK
    <3>4. row[request'].status \notin {"none", "staged"}
      BY <3>1 DEF Pending
    <3> QED BY <1>1, <1>3, <3>1, <3>2, <3>3, <3>4
  <2> QED BY <2>1, <2>2
<1>7. store'.op # NoOp =>
          /\ Filed(store.op)'
          /\ Sealed(store.previous)'
          /\ Pending(row'[store'.op]) => CodeRoot(store.previous)' = row'[store'.op].expected
  BY <1>1, <1>3 DEF LauncherTruth, Filed
<1>8. KeeperTrue(keeper.pc, keeper.op)'
  <2> DEFINE k == keeper.op
  <2>1. keeper.pc \in Underway \cup Reporting => Filed(k) /\ k # NoOp
    BY DEF LauncherTruth, KeeperTrue, Underway
  <2>2. Filed(k) => /\ Filed(k)' /\ (Pending(row'[k]) => Pending(row[k])) /\ row'[k].expected = row[k].expected
                    /\ Justified(k, keeper.outcome)' <=> Justified(k, keeper.outcome)
                    /\ k \in Rows
    BY <1>3 DEF Filed
  <2>3. keeper.pc \in {"result", "clear"} /\ store.op = NoOp => k = request /\ request' = request
    BY <2>1 DEF LauncherTruth, KeeperTrue, ApiReads, Reporting
  <2>4. /\ keeper.pc \in {"stop", "port", "switch"} /\ Pending(row'[k]) => current' = row'[k].expected
        /\ keeper.pc = "result" /\ Pending(row'[k]) => Justified(k, keeper.outcome)'
    BY <1>1, <2>1, <2>2 DEF LauncherTruth, KeeperTrue, Underway, Reporting
  <2>5. keeper.pc = "result" /\ store.op = NoOp /\ Pending(row'[k]) =>
            (Gone(k)' /\ keeper.outcome = "failed") \/ (Same(k)' /\ keeper.outcome = "succeeded")
    BY <2>1, <2>2 DEF LauncherTruth, KeeperTrue, Reporting, Filed
  <2>6. keeper.pc \in {"restart", "reverify"} => current' = CodeRoot(store.previous)'
    BY <1>1, <2>1 DEF LauncherTruth, KeeperTrue, Underway
  <2> QED BY <1>1, <2>1, <2>2, <2>3, <2>4, <2>5, <2>6 DEF LauncherTruth, KeeperTrue
<1>9. ASSUME NEW q \in Ops, Claimed(q)'
      PROVE  /\ store'.op \in {NoOp, q}
             /\ keeper'.pc = "forget" => request' = NoOp
             /\ request' \in {NoOp, q} \/ store'.op = q
             /\ request' = q /\ store'.op = NoOp =>
                   (Gone(q)' /\ public'[q].phase = "failed") \/ (Same(q)' /\ public'[q].phase = "succeeded")
             /\ ~(keeper'.pc \in Underway)
             /\ ~(keeper'.pc = "result" /\ keeper'.then # "boot" /\ store'.op # NoOp)
             /\ Justified(q, public[q].phase)' \/ (store'.op = q /\ keeper'.pc \in {"off", "result"})
  <2>1. Claimed(q) /\ row[q].status \notin {"none", "staged"} /\ request' = request /\ public'[q].phase = public[q].phase
    BY <1>4, <1>9
  <2>2. Pending(row'[q]) /\ q \in Rows /\ (Justified(q, public[q].phase)' <=> Justified(q, public[q].phase))
    <3>1. Justified(q, public[q].phase)' <=> Justified(q, public[q].phase)
      BY <1>1, <1>3, <2>1 DEF Justified
    <3> QED BY <1>3, <1>9, <2>1, <3>1 DEF Claimed
  <2>3. (Gone(q) => Gone(q)') /\ (Same(q) => Same(q)')
    BY <2>2
  <2> QED BY <2>1, <2>2, <2>3 DEF LauncherTruth, Claimed
<1> QED BY <1>2, <1>5, <1>6, <1>7, <1>8, <1>9 DEF LauncherTruth, Claimed

\* An operation is prepared only while no other is pending.
LEMMA PrepareIsAlone ==
    ASSUME RequestsOK, NEW o \in Ops, NEW a, NEW v, PrepareRow(o, a, v), NEW q \in Ops
    PROVE  ~Pending(row'[q])
<1>1. /\ row' = [Reconciled EXCEPT ![o] = [NoRow EXCEPT !.status = "staged", !.action = a,
                                                        !.version = v, !.expected = services.api]]
      /\ \A p \in Ops \ {o} : ~Pending(Reconciled[p])
  BY DEF PrepareRow, Available
<1>2. row'[o].status = "staged" /\ \A p \in Ops \ {o} : row'[p] = Reconciled[p]
  BY <1>1, ReconcileKeeps DEF NoRow
<1> QED BY <1>1, <1>2 DEF Pending

\* Every step of a host of the launcher.
LEMMA LauncherTells ==
    ASSUME UpdateAssumption, LauncherInv, LauncherTruth, LauncherNext
    PROVE  LauncherTruth'
<1>1. CASE Decide \/ AskLauncher \/ ReadResult \/ ApiWork
  <2>1. (ApiRequest \/ ApiStep) /\ UNCHANGED <<keeper, store>>
    BY <1>1, Zenon DEF Decide, AskLauncher, ReadResult, ApiWork, ApiRequest, ApiStep, launcherVars
  <2>2. RequestsOK /\ ApiReads /\ ApiMoves /\ UNCHANGED releases
    BY <2>1, ApiTells, ApiKeeps DEF LauncherInv
  <2>3. request' # request => Capable
    BY <1>1 DEF Decide, AskLauncher, ReadResult, ApiWork, Reconcile, MarkPublished, BeginWrite, EndWrite
  <2>4. /\ \A link : CodeRoot(link)' = CodeRoot(link) /\ (Sealed(link)' <=> Sealed(link))
        /\ \A q \in Rows : (Gone(q) => Gone(q)') /\ (Same(q) => Same(q)')
    BY <2>2 DEF CodeRoot, Sealed, Gone, Same, ApiMoves, Rows
  <2>5. /\ CodeRoot(store.link)' = CodeRoot(store.link) /\ (Sealed(store.link) => Sealed(store.link)')
        /\ CodeRoot(store.previous)' = CodeRoot(store.previous) /\ (Sealed(store.previous) => Sealed(store.previous)')
    BY <2>1, <2>2 DEF CodeRoot, Sealed
  <2> QED BY <2>1, <2>2, <2>3, <2>4, <2>5, ApiTellsLauncher
<1>2. ASSUME NEW o \in Ops, NEW a \in {"apply", "rollback"}, NEW v \in Versions, Stage(o, a, v)
      PROVE  LauncherTruth'
  <2>1. /\ UNCHANGED <<keeper, store, current, services, data, writing>> /\ PrepareRow(o, a, v)
        /\ releases' = releases \cup {v} \/ releases' = releases
        /\ releases' # releases => store.link # v
        /\ store.link \in releases \cup {0} /\ v # 0
    BY <1>2, OpIsNotNoOp DEF Stage, Placed, launcherVars, Capable
  <2>2. RequestsOK /\ ApiReads /\ ApiMoves
    BY <2>1, PrepareReads, PrepareKeeps DEF LauncherInv
  <2>3. UNCHANGED request
    BY <2>1 DEF PrepareRow
  <2>4. /\ CodeRoot(store.link)' = CodeRoot(store.link) /\ Sealed(store.link)'
        /\ Sealed(store.previous) =>
               Sealed(store.previous)' /\ CodeRoot(store.previous)' = CodeRoot(store.previous)
    BY <2>1 DEF CodeRoot, Sealed
  <2>5. \A q \in Ops : ~Pending(row'[q])
    BY <2>1, <2>2, PrepareIsAlone
  <2> QED BY <2>1, <2>2, <2>3, <2>4, <2>5, ApiTellsLauncher
<1>3. ASSUME NEW v \in Versions, LoseRelease(v)
      PROVE  LauncherTruth'
  <2>1. /\ UNCHANGED <<keeper, store, row, request, public, maintenance, current, services, data, writing>>
        /\ releases' = releases \ {v} /\ v \notin {current, store.link, store.previous}
    BY <1>3 DEF LoseRelease, launcherVars
  <2>2. ApiReads /\ ApiMoves
    BY <2>1, IdleReads DEF ApiMoves, Rows
  <2>3. /\ CodeRoot(store.link)' = CodeRoot(store.link) /\ (Sealed(store.link) => Sealed(store.link)')
        /\ CodeRoot(store.previous)' = CodeRoot(store.previous) /\ (Sealed(store.previous) => Sealed(store.previous)')
        /\ \A q \in Ops : (Gone(q) => Gone(q)') /\ (Same(q) => Same(q)')
    BY <2>1 DEF CodeRoot, Sealed, Gone, Same
  <2> QED BY <2>1, <2>2, <2>3, ApiTellsLauncher
<1>4. CASE KeeperStep
  <2>1. UNCHANGED unchangedByKeeper
    BY <1>4 DEF KeeperStep
  <2>2. CASE TakeRequest
    BY <2>1, <2>2, KeeperRestsTell, SwitchesTell
  <2>3. CASE StartLauncher
    BY <2>1, <2>3, KeeperRestsTell, SwitchesTell
  <2>4. CASE \/ StopChildren \/ AwaitPort \/ StartSwitched \/ VerifySwitched
             \/ StopUnhealthy \/ RestartPrevious \/ VerifyRestored
    BY <2>1, <2>4, SwitchMovesTell
  <2>5. CASE SwitchTo \/ RestorePrevious
    BY <2>1, <2>5, SwitchesTell
  <2>6. CASE WriteResult \/ RemoveRequest \/ RemoveState
    BY <2>1, <2>6, ResultsTell
  <2>7. CASE Exit \/ LauncherDies \/ StartAtBoot \/ VerifyStart
    BY <2>1, <2>7, KeeperRestsTell
  <2> QED BY <1>4, <2>2, <2>3, <2>4, <2>5, <2>6, <2>7 DEF KeeperStep
<1> QED BY <1>1, <1>2, <1>3, <1>4, Zenon DEF LauncherNext

\* A host starts with the launcher idle and nothing asked of it.
LEMMA LauncherStartsTrue ==
    ASSUME UpdateAssumption, ApiInit, LauncherInit
    PROVE  LauncherTruth
<1>1. /\ current = CodeRoot(store.link) /\ store.op = NoOp /\ request = NoOp
      /\ keeper.pc = "loop" /\ keeper.op = NoOp
  BY DEF ApiInit, LauncherInit, KeeperOff, CodeRoot
<1>2. KeeperTrue(keeper.pc, keeper.op)
  BY <1>1 DEF KeeperTrue, Underway, Reporting
<1> QED BY <1>1, <1>2, ReportsStart DEF LauncherTruth

\* The API reads a result only while the launcher is at rest in front of it.
LEMMA LauncherReportsTruly ==
    ASSUME UpdateAssumption, LauncherInv, LauncherTruth, LauncherNext, NEW o \in Ops,
           Pending(row[o]), row'[o].status \in Settled
    PROVE  services.api = current /\ Justified(o, row'[o].status) /\ UNCHANGED <<services, current>>
           /\ row'[o].version = row[o].version /\ row'[o].expected = row[o].expected
           /\ row'[o].action = row[o].action
<1>1. ASSUME RequestsOK, ApiReads, ApiMoves, keeper.ready
      PROVE  services.api = current /\ Justified(o, row'[o].status) /\ UNCHANGED <<services, current>>
             /\ row'[o].version = row[o].version /\ row'[o].expected = row[o].expected
             /\ row'[o].action = row[o].action
  <2>1. Observed(o) /\ o \in Rows
    BY <1>1 DEF ApiReads, Submitted, Pending, Settled, Rows
  <2>2. Claimed(o) /\ public[o].phase = row'[o].status
    BY <2>1 DEF Claimed, Told, Observed
  <2>3. keeper.pc = "loop" \/ (keeper.pc \in Reporting /\ keeper.then = "loop")
    BY <1>1 DEF LauncherTruth
  <2>4. services.api = current
    BY <2>3 DEF LauncherInv, StoreOK
  <2>5. Justified(o, public[o].phase)
    <3>1. Claimed(o) => /\ store.op \in {NoOp, o}
                        /\ ~(keeper.pc = "result" /\ keeper.then # "boot" /\ store.op # NoOp)
                        /\ Justified(o, public[o].phase) \/ (store.op = o /\ keeper.pc \in {"off", "result"})
      BY DEF LauncherTruth, Claimed
    <3> QED BY <2>2, <2>3, <3>1, OpIsNotNoOp DEF Reporting
  <2> QED BY <1>1, <2>1, <2>2, <2>4, <2>5 DEF ApiMoves
<1>2. CASE Decide \/ AskLauncher \/ ReadResult \/ ApiWork
  <2>1. (ApiRequest \/ ApiStep) /\ (keeper.ready \/ UNCHANGED row \/ MarkPublished)
    BY <1>2, Zenon DEF Decide, AskLauncher, ReadResult, ApiWork, ApiRequest, ApiStep, Capable, Fresh,
                       BeginWrite, EndWrite, apiVars
  <2>2. RequestsOK /\ ApiReads /\ ApiMoves
    BY <2>1, ApiTells, ApiKeeps DEF LauncherInv
  <2>3. CASE UNCHANGED row \/ MarkPublished
    <3>1. row'[o].status = row[o].status
      BY <2>2, <2>3 DEF MarkPublished, RequestsOK, IsRow, RowFields
    <3> QED BY <3>1 DEF Pending, Settled
  <2> QED BY <1>1, <2>1, <2>2, <2>3
<1>3. ASSUME NEW p \in Ops, NEW a \in {"apply", "rollback"}, NEW v \in Versions, Stage(p, a, v)
      PROVE  services.api = current /\ Justified(o, row'[o].status) /\ UNCHANGED <<services, current>>
             /\ row'[o].version = row[o].version /\ row'[o].expected = row[o].expected
             /\ row'[o].action = row[o].action
  <2>1. PrepareRow(p, a, v) /\ keeper.ready /\ UNCHANGED <<current, services, data, writing>>
    BY <1>3 DEF Stage, Capable, Fresh
  <2>2. RequestsOK /\ ApiReads /\ ApiMoves
    BY <2>1, PrepareReads, PrepareKeeps DEF LauncherInv
  <2> QED BY <1>1, <2>1, <2>2
<1>4. CASE (\E v \in Versions : LoseRelease(v)) \/ KeeperStep
  <2>1. UNCHANGED row
    BY <1>4 DEF LoseRelease, KeeperStep, unchangedByKeeper
  <2> QED BY <2>1 DEF Pending, Settled
<1> QED BY <1>2, <1>3, <1>4, Zenon DEF LauncherNext

-----------------------------------------------------------------------------
(* The systemd executor tells the truth.                                   *)

\* What the executor knows of its operation while the end of it is not published.
LEMMA UnitSays ==
    ASSUME UpdateAssumption, SystemdInv, SystemdTruth, unit.pc # "idle", ~Told(mem.op)
    PROVE  /\ mem.op \in Ops /\ mem.op \in Rows /\ Unfinished(mem.op) /\ IsJournal(mem)
           /\ LogTrue(mem) /\ LogTrue(journal[mem.op]) /\ Alike(journal[mem.op], mem)
           /\ AtWork(unit.pc, unit.stage # "save", mem, maintenance)
           /\ unit.pc \in Moving \cup Restoring => journal[mem.op].maint
           /\ \A q \in Ops : Unfinished(q) => q = mem.op
           /\ PendingOp \in {NoOp, mem.op} /\ mem.phase # "none"
<1>1. /\ mem.op \in Ops /\ mem.op \in Rows /\ IsJournal(mem) /\ mem.phase # "none"
      /\ Alike(journal[mem.op], mem)
  BY DEF SystemdInv, UnitOK, Rows
<1>2. Unfinished(mem.op)
  BY <1>1 DEF Unfinished, Alike
<1>3. /\ LogTrue(journal[mem.op]) /\ PendingOp \in {NoOp, mem.op}
      /\ \A q \in Ops : Unfinished(q) => q = mem.op
  BY <1>1, <1>2 DEF SystemdTruth, LogsTrue
<1>4. /\ LogTrue(mem) /\ AtWork(unit.pc, unit.stage # "save", mem, maintenance)
      /\ unit.pc \in Moving \cup Restoring => journal[mem.op].maint
  BY DEF SystemdTruth, UnitTrue
<1> QED BY <1>1, <1>2, <1>3, <1>4

\* An operation whose end is published has ended.
LEMMA ToldSays ==
    ASSUME UpdateAssumption, SystemdInv, SystemdTruth, unit.pc # "idle", Told(mem.op)
    PROVE  /\ mem.op \in Ops /\ mem.op # NoOp /\ mem.phase \in Settled
           /\ Ended(unit.pc, unit.stage)
           /\ PendingOp = mem.op => \A q \in Ops : ~Unfinished(q)
<1>1. mem.op \in Ops /\ mem.op # NoOp /\ Alike(journal[mem.op], mem) /\ mem.phase # "none"
  BY OpIsNotNoOp DEF SystemdInv, UnitOK, Rows
<1>2. mem.phase \in Settled
  BY <1>1 DEF SystemdTruth, LogsTrue, Told, Alike
<1>3. Ended(unit.pc, unit.stage)
  BY DEF SystemdTruth, UnitTrue
<1>4. PendingOp = mem.op => \A q \in Ops : ~Unfinished(q)
  BY <1>1 DEF SystemdTruth, LogsTrue, Unfinished
<1> QED BY <1>1, <1>2, <1>3, <1>4

\* A step on the operation whose end is not published: of the journals only that of the
\* operation is written, and no row, status or marker.
LEMMA WorkTells ==
    ASSUME UpdateAssumption, SystemdInv, SystemdTruth, unit.pc # "idle", ~Told(mem.op),
           PendingOp = mem.op, PendingOp' = PendingOp,
           UNCHANGED <<row, request, public, maintenance>>,
           NEW j, j.phase # "none", journal'[mem.op] = j,
           \A o \in Ops \ {mem.op} : journal'[o] = journal[o],
           journal[mem.op].phase \in GivingUp \cup Settled => j.phase \in GivingUp \cup Settled,
           LogTrue(j)', UnitTrue'
    PROVE  SystemdTruth'
<1> DEFINE o == mem.op
<1>1. /\ o \in Ops /\ o \in Rows /\ Unfinished(o)
      /\ \A q \in Ops : Unfinished(q) => q = o
  BY UnitSays
<1> HIDE DEF o
<1>2. \A q \in Ops : Told(q)' <=> Told(q)
  BY DEF Told
<1>3. \A q \in Ops : Unfinished(q)' => q = o
  BY <1>1, <1>2 DEF Unfinished, o
<1>4. \A q \in Ops : Pending(row[q]) => q = o
  BY <1>1 DEF SystemdTruth, LogsTrue
<1>5. ReportsOK'
  BY DEF SystemdTruth, ReportsOK
<1>6. \A q \in Ops : row'[q].status \in {"none", "staged"} => journal'[q].phase = "none"
  BY <1>1 DEF SystemdTruth, LogsTrue, Unfinished, o
<1>7. \A q \in Ops : row'[q].status \in Settled => Told(q)'
  BY <1>2 DEF SystemdTruth, LogsTrue
<1>8. \A q \in Ops : Told(q)' =>
          \/ journal'[q].phase = public'[q].phase
          \/ journal'[q].phase = "none" /\ public'[q].phase = "failed" /\ request' # q
  BY <1>1, <1>2 DEF SystemdTruth, LogsTrue, Unfinished, o
<1>9. \A q \in Ops : "recovery_failed" \in {row'[q].status, public'[q].phase} /\ ~Told(q)' =>
          maintenance' /\ journal'[q].phase \in GivingUp \cup Settled
  BY <1>1, <1>2 DEF SystemdTruth, LogsTrue, o
<1>10. \A q \in Ops : Unfinished(q)' => LogTrue(journal[q])'
  BY <1>3 DEF o
<1>11. \A q \in Ops : Pending(row'[q]) /\ Told(q)' => Justified(q, public[q].phase)'
  BY <1>1, <1>2, <1>4 DEF Unfinished
<1>12. \A q \in Ops : Unfinished(q)' => q = PendingOp'
  BY <1>3 DEF o
<1>13. \A p, q \in Ops : Unfinished(q)' /\ Pending(row'[p]) => p = q
  BY <1>3, <1>4
<1>14. \A p, q \in Ops : Unfinished(q)' /\ Unfinished(p)' => p = q
  BY <1>3
<1> QED BY <1>5, <1>6, <1>7, <1>8, <1>9, <1>10, <1>11, <1>12, <1>13, <1>14 DEF SystemdTruth, LogsTrue

\* What a journal that differs in nothing the truth depends on says.
Truly(n, m) ==
    /\ IsJournal(n) /\ n.op = m.op /\ n.phase = m.phase /\ n.old = m.old /\ n.shown = m.shown
    /\ (n.maint <=> m.maint) /\ (n.admitted <=> m.admitted)
    /\ (n.stopped \/ n.switched => n.admitted \/ m.stopped \/ m.switched)

\* Such a journal is as true as the other.
LEMMA TrulyTells ==
    ASSUME NEW n, NEW m, Truly(n, m)
    PROVE  /\ LogTrue(m) => LogTrue(n)
           /\ \A pc, saved, gate : AtWork(pc, saved, m, gate) => AtWork(pc, saved, n, gate)
<1>1. LogTrue(m) => LogTrue(n)
  BY DEF Truly, LogTrue
<1>2. ASSUME NEW pc, NEW saved, NEW gate, AtWork(pc, saved, m, gate) PROVE AtWork(pc, saved, n, gate)
  BY <1>2 DEF Truly, AtWork
<1> QED BY <1>1, <1>2

\* The next step of the program, the journal saved or not, while the installed version stays.
LEMMA GoTells ==
    ASSUME UpdateAssumption, SystemdInv, SystemdTruth, unit.pc # "idle", ~Told(mem.op),
           PendingOp = mem.op, PendingOp' = PendingOp,
           UNCHANGED <<row, request, public, maintenance, current>>,
           NEW pc, NEW m, unit'.pc = pc, unit'.stage = "save", mem' = m,
           m.op = mem.op, m.phase = mem.phase, LogTrue(m),
           UNCHANGED journal \/ Save(m), pc \in Moving \cup Restoring => journal[mem.op].maint /\ m.maint,
           pc \in {"f_gate"} \cup Opened => m.phase \notin Settled,
           AtWork(pc, FALSE, m, maintenance)
    PROVE  SystemdTruth'
<1>1. /\ mem.op \in Ops /\ mem.op \in Rows /\ LogTrue(journal[mem.op]) /\ mem.phase # "none"
      /\ Alike(journal[mem.op], mem) /\ DOMAIN journal = Ops
  BY UnitSays DEF SystemdInv, JournalsOK
<1>2. /\ unit'.pc = pc /\ unit'.stage = "save" /\ mem' = m
  OBVIOUS
<1>3. /\ journal'[mem.op] \in {journal[mem.op], m} /\ journal'[mem.op].phase = mem.phase
      /\ \A o \in Ops \ {mem.op} : journal'[o] = journal[o]
  BY <1>1 DEF Save, Alike
<1>4. ASSUME NEW j, j = journal'[mem.op] PROVE LogTrue(j)'
  <2>1. LogTrue(j)
    BY <1>1, <1>3, <1>4
  <2> QED BY <2>1 DEF LogTrue, Justified
<1>5. LogTrue(mem)' /\ AtWork(unit.pc, unit.stage # "save", mem, maintenance)'
  <2>1. LogTrue(mem)'
    BY <1>2 DEF LogTrue, Justified
  <2>2. AtWork(unit.pc, unit.stage # "save", mem, maintenance)'
    BY <1>2 DEF AtWork
  <2> QED BY <2>1, <2>2
<1>6. ~Told(mem.op)'
  BY <1>2 DEF Told
<1>7. UnitTrue'
  BY <1>2, <1>3, <1>5, <1>6 DEF UnitTrue
<1> QED BY <1>1, <1>2, <1>3, <1>4, <1>7, WorkTells DEF Alike

\* A failing step, the installed version staying.
LEMMA RaiseTells ==
    ASSUME UpdateAssumption, SystemdInv, SystemdTruth, unit.pc # "idle", ~Told(mem.op),
           PendingOp = mem.op, PendingOp' = PendingOp,
           UNCHANGED <<row, request, public, maintenance, current, journal>>,
           NEW c, Raise(c), mem.phase \in Settled => mem.maint
    PROVE  SystemdTruth'
<1>1. /\ LogTrue(journal[mem.op]) /\ LogTrue(mem) /\ mem.phase # "none" /\ Alike(journal[mem.op], mem)
  BY UnitSays
<1>2. unit'.pc = "error" /\ unit'.stage = "save" /\ mem' = mem
  BY RaiseShape DEF SystemdInv, UnitOK
<1>3. ASSUME NEW j, j = journal'[mem.op] PROVE LogTrue(j)'
  <2>1. LogTrue(j)
    BY <1>1, <1>3
  <2> QED BY <2>1 DEF LogTrue, Justified
<1>4. LogTrue(mem)'
  BY <1>1, <1>2 DEF LogTrue, Justified
<1>5. AtWork(unit.pc, unit.stage # "save", mem, maintenance)'
  BY <1>2 DEF AtWork, Known, Equipped, Armed, Moving, Moved, Cold, Preparatory, PutBack, Finishing, Opened
<1>6. unit'.pc \notin Moving \cup Restoring \cup {"f_gate"} \cup Opened
  BY <1>2 DEF Moving, Moved, Cold, Restoring, PutBack, Opened
<1>7. ~Told(mem.op)'
  BY <1>2 DEF Told
<1>8. UnitTrue'
  BY <1>2, <1>4, <1>5, <1>6, <1>7 DEF UnitTrue
<1> QED BY <1>1, <1>3, <1>8, WorkTells DEF Alike

\* The status of the operation is published, or withheld.
LEMMA PublishTells ==
    ASSUME UpdateAssumption, SystemdInv, SystemdTruth, unit.pc # "idle", ~Told(mem.op),
           PendingOp = mem.op, PublishStatus(mem),
           UNCHANGED <<row, request, journal, pointer, maintenance, current>>,
           mem.phase = "recovery_failed" => maintenance,
           unit'.pc # "idle", mem' = mem, unit'.stage = "gate" \/ unit'.pc = "f_gate",
           mem.phase \in Settled => Ended(unit.pc, unit.stage)',
           AtWork(unit.pc, unit.stage # "save", mem, maintenance)',
           unit'.pc \in Moving \cup Restoring => journal[mem.op].maint
    PROVE  SystemdTruth'
<1>0. mem.op \in Ops
  BY UnitSays
<1> SUFFICES ASSUME NEW o \in Ops, o = mem.op PROVE SystemdTruth'
  BY <1>0
<1> DEFINE st == [phase |-> IF mem.phase = "migrating" THEN "preparing" ELSE mem.phase, fresh |-> TRUE]
<1>1. /\ o \in Ops /\ o \in Rows /\ Unfinished(o) /\ LogTrue(journal[o]) /\ LogTrue(mem)
      /\ Alike(journal[o], mem) /\ mem.phase # "none"
      /\ \A q \in Ops : Unfinished(q) => q = o
      /\ PendingOp' = PendingOp /\ DOMAIN public = Ops /\ ~Told(o)
  BY UnitSays DEF PendingOp, SystemdInv, RequestsOK
<1>2. st.fresh = TRUE /\ (st.phase \in Settled <=> mem.phase \in Settled)
      /\ (mem.phase \in Settled => st.phase = mem.phase)
      /\ (st.phase = "recovery_failed" => mem.phase = "recovery_failed")
      /\ st.phase \notin {"none", "staged"}
  BY <1>1 DEF LogTrue, Settled, Terminal
<1>3. /\ UNCHANGED public \/ (mem.shown = current /\ public' = [public EXCEPT ![o] = st])
      /\ mem.shown = current => public' = [public EXCEPT ![o] = st]
  BY DEF PublishStatus
<1> HIDE DEF st
<1>4. /\ \A q \in Ops \ {o} : public'[q] = public[q]
      /\ public'[o] = public[o] \/ (mem.shown = current /\ public'[o] = st)
      /\ mem.shown = current => public'[o] = st
  BY <1>1, <1>3
<1>5. mem.phase \in Settled => mem.shown = current /\ Justified(o, mem.phase)
  BY <1>1 DEF LogTrue, Alike
<1>6. Told(o)' <=> mem.phase \in Settled
  BY <1>1, <1>2, <1>4, <1>5 DEF Told, Settled
<1>7. \A q \in Ops \ {o} : Told(q)' <=> Told(q)
  BY <1>4 DEF Told
<1>8. \A q \in Ops : Unfinished(q)' => q = o
  BY <1>1, <1>7 DEF Unfinished
<1>9. \A q \in Ops : Pending(row[q]) => q = o
  BY <1>1 DEF SystemdTruth, LogsTrue
<1>10. row[o].status \notin {"none", "staged"}
  BY <1>1 DEF SystemdTruth, LogsTrue, Unfinished
<1>11. ReportsOK'
  <2>1. \A q \in Ops : row'[q].status \in {"none", "staged"} => public'[q].phase = "none" /\ request' # q
    BY <1>4, <1>10 DEF SystemdTruth, ReportsOK
  <2>2. \A q \in Ops : public'[q].phase # "staged"
    BY <1>1, <1>2, <1>4 DEF SystemdTruth, ReportsOK
  <2>3. \A q \in Ops : Pending(row'[q]) /\ public'[q].phase \in Terminal => public'[q].fresh
    BY <1>1, <1>2, <1>4 DEF SystemdTruth, ReportsOK
  <2>4. \A p, q \in Ops : Pending(row'[p]) /\ Pending(row'[q]) => p = q
    BY DEF SystemdTruth, ReportsOK
  <2> QED BY <2>1, <2>2, <2>3, <2>4 DEF ReportsOK
<1>12. \A q \in Ops : row'[q].status \in {"none", "staged"} => journal'[q].phase = "none"
  BY DEF SystemdTruth, LogsTrue
<1>13. \A q \in Ops : row'[q].status \in Settled => Told(q)'
  BY <1>1, <1>7 DEF SystemdTruth, LogsTrue
<1>14. \A q \in Ops : Told(q)' =>
          \/ journal'[q].phase = public'[q].phase
          \/ journal'[q].phase = "none" /\ public'[q].phase = "failed" /\ request' # q
  <2>1. Told(o)' => journal'[o].phase = public'[o].phase
    BY <1>1, <1>2, <1>4, <1>5, <1>6 DEF Alike
  <2> QED BY <1>4, <1>7, <2>1 DEF SystemdTruth, LogsTrue
<1>15. \A q \in Ops : "recovery_failed" \in {row'[q].status, public'[q].phase} /\ ~Told(q)' =>
          maintenance' /\ journal'[q].phase \in GivingUp \cup Settled
  <2>1. ASSUME "recovery_failed" \in {row[o].status, public[o].phase}
        PROVE  maintenance /\ journal[o].phase \in GivingUp \cup Settled
    BY <1>1, <2>1 DEF SystemdTruth, LogsTrue
  <2>2. ASSUME public'[o].phase = "recovery_failed", public[o].phase # "recovery_failed"
        PROVE  maintenance /\ journal[o].phase \in GivingUp \cup Settled
    BY <1>1, <1>2, <1>4, <2>2 DEF Alike, GivingUp
  <2>3. "recovery_failed" \in {row'[o].status, public'[o].phase} =>
          maintenance' /\ journal'[o].phase \in GivingUp \cup Settled
    BY <2>1, <2>2
  <2> QED BY <1>4, <1>7, <2>3 DEF SystemdTruth, LogsTrue
<1>16. \A q \in Ops : Unfinished(q)' => LogTrue(journal[q])'
  <2>1. ASSUME NEW j, LogTrue(j) PROVE LogTrue(j)'
    BY <2>1 DEF LogTrue, Justified
  <2> QED BY <1>1, <1>8, <2>1
<1>17. \A q \in Ops : Pending(row'[q]) /\ Told(q)' => Justified(q, public[q].phase)'
  <2>1. Told(o)' => public'[o].phase = mem.phase /\ Justified(o, mem.phase)
    BY <1>2, <1>4, <1>5, <1>6
  <2> QED BY <1>9, <2>1 DEF Justified
<1>18. \A p, q \in Ops : Unfinished(q)' /\ Pending(row'[p]) => p = q
  BY <1>8, <1>9
<1>19. \A p, q \in Ops : Unfinished(q)' /\ Unfinished(p)' => p = q
  BY <1>8
<1>20. \A q \in Ops : Unfinished(q)' => q = PendingOp'
  BY <1>1, <1>8
<1>21. LogsTrue'
  BY <1>12, <1>13, <1>14, <1>15, <1>16, <1>17, <1>18, <1>19, <1>20 DEF LogsTrue
<1>22. LogTrue(mem)'
  BY <1>1 DEF LogTrue, Justified
<1>23. Told(mem.op)' <=> Told(o)'
  OBVIOUS
<1>24. UnitTrue'
  BY <1>6, <1>22, <1>23 DEF UnitTrue
<1> QED BY <1>11, <1>21, <1>24 DEF SystemdTruth

\* The marker is set as the journal in memory says.
LEMMA GateTells ==
    ASSUME UpdateAssumption, SystemdInv, SystemdTruth, unit.pc # "idle", PendingOp = mem.op,
           unit.stage = "gate" \/ unit.pc = "f_gate",
           UNCHANGED <<row, request, public, journal, pointer, current>>, maintenance' = mem.maint,
           NEW next, next # "idle", Goto(next, mem),
           next \in Moving \cup Restoring => mem.maint /\ (journal[mem.op].maint <=> mem.maint),
           Told(mem.op) => Ended(next, "save"),
           ~Told(mem.op) => AtWork(next, FALSE, mem, mem.maint)
    PROVE  SystemdTruth'
<1>1. /\ mem.op \in Ops /\ mem.op \in Rows /\ mem.phase # "none"
      /\ Alike(journal[mem.op], mem)
  BY DEF SystemdInv, UnitOK, Rows
<1>2. /\ unit'.pc = next /\ unit'.stage = "save" /\ mem' = mem
  BY GotoShape DEF SystemdInv, UnitOK
<1>3. \A q \in Ops : Told(q)' <=> Told(q)
  BY DEF Told
<1>4. mem.phase \in Settled => Told(mem.op)
  BY DEF SystemdTruth, UnitTrue
<1>5. PendingOp' = PendingOp
  BY DEF PendingOp
<1>6. ReportsOK'
  BY DEF SystemdTruth, ReportsOK
<1>7. \A q \in Ops : "recovery_failed" \in {row'[q].status, public'[q].phase} /\ ~Told(q)' =>
          maintenance' /\ journal'[q].phase \in GivingUp \cup Settled
  <2> SUFFICES ASSUME NEW q \in Ops, "recovery_failed" \in {row[q].status, public[q].phase}, ~Told(q)
               PROVE  mem.maint /\ journal[q].phase \in GivingUp \cup Settled
    BY <1>3
  <2>1. maintenance /\ journal[q].phase \in GivingUp \cup Settled
    BY DEF SystemdTruth, LogsTrue
  <2>2. Unfinished(q)
    BY <2>1 DEF Unfinished, GivingUp, Settled, Terminal
  <2>3. q = mem.op
    BY <1>1, <2>2, OpIsNotNoOp DEF SystemdTruth, LogsTrue
  <2>4. mem.phase \in GivingUp
    BY <1>1, <1>4, <2>1, <2>3 DEF Alike
  <2>5. LogTrue(mem)
    BY <2>3 DEF SystemdTruth, UnitTrue
  <2> QED BY <2>1, <2>4, <2>5 DEF LogTrue
<1>9. \A q \in Ops : Unfinished(q)' <=> Unfinished(q)
  BY <1>3 DEF Unfinished
<1>10. LogsTrue'
  <2>1. /\ \A q \in Ops : row'[q].status \in {"none", "staged"} => journal'[q].phase = "none"
        /\ \A q \in Ops : row'[q].status \in Settled => Told(q)'
        /\ \A q \in Ops : Told(q)' =>
              \/ journal'[q].phase = public'[q].phase
              \/ journal'[q].phase = "none" /\ public'[q].phase = "failed" /\ request' # q
    BY <1>3 DEF SystemdTruth, LogsTrue
  <2>2. /\ \A p, q \in Ops : Unfinished(q)' /\ Pending(row'[p]) => p = q
        /\ \A p, q \in Ops : Unfinished(q)' /\ Unfinished(p)' => p = q
        /\ \A q \in Ops : Unfinished(q)' =>
              q = PendingOp' \/ (PendingOp' = NoOp /\ journal'[q].phase = "queued")
    BY <1>5, <1>9 DEF SystemdTruth, LogsTrue
  <2>3. \A q \in Ops : Pending(row'[q]) /\ Told(q)' => Justified(q, public[q].phase)'
    BY <1>3 DEF SystemdTruth, LogsTrue, Justified
  <2>4. \A q \in Ops : Unfinished(q)' => LogTrue(journal[q])'
    <3> SUFFICES ASSUME NEW q \in Ops, Unfinished(q) PROVE LogTrue(journal[q])'
      BY <1>9
    <3>1. LogTrue(journal[q])
      BY DEF SystemdTruth, LogsTrue
    <3> QED BY <3>1 DEF LogTrue, Justified
  <2> QED BY <1>7, <2>1, <2>2, <2>3, <2>4 DEF LogsTrue
<1>11. UnitTrue'
  <2>1. Told(mem.op)' <=> Told(mem.op)
    BY <1>2 DEF Told
  <2>2. ~Told(mem.op) => LogTrue(mem)' /\ AtWork(unit.pc, unit.stage # "save", mem, maintenance)'
    <3>1. ~Told(mem.op) => LogTrue(mem)'
      BY <1>2 DEF SystemdTruth, UnitTrue, LogTrue, Justified
    <3>2. ~Told(mem.op) => AtWork(unit.pc, unit.stage # "save", mem, maintenance)'
      BY <1>2 DEF AtWork
    <3> QED BY <3>1, <3>2
  <2> QED BY <1>2, <1>4, <2>1, <2>2 DEF UnitTrue
<1> QED BY <1>6, <1>10, <1>11 DEF SystemdTruth

\* The five writes of a transition.
LEMMA TransitionTells ==
    ASSUME UpdateAssumption, SystemdInv, SystemdTruth, NEW at, NEW phase, NEW m, NEW recovery, NEW next,
           Transition(at, phase, m, recovery, next),
           at \in Known \cup {"refused", "failing", "recover", "r_done", "r_failed"},
           IsJournal(m), m.op = mem.op, phase # "none",
           NEW n, Becomes(n, m, phase),
           unit.stage = "save" =>
              /\ LogTrue(n) /\ AtWork(at, TRUE, n, maintenance)
              /\ mem.phase \in GivingUp \cup Settled => phase \in GivingUp \cup Settled
              /\ at \in Moving \cup Restoring => n.maint,
           ~recovery => at \in Known,
           unit.stage # "save" =>
              /\ mem.phase \in Settled => at \in {"done", "r_done", "failing", "refused"} /\ next = "finish"
              /\ mem.phase = "recovery_failed" => at = "r_failed",
           next \notin {"f_gate", "idle"} \cup Opened,
           next \in Moving \cup Restoring /\ unit.stage = "gate" => mem.maint,
           unit.stage = "gate" /\ ~Told(mem.op) => AtWork(next, FALSE, mem, mem.maint)
    PROVE  SystemdTruth'
<1>1. unit.pc = at /\ at \notin Elsewhere \cup {"idle", "admit", "f_gate"} \cup Finishing \cup Opened
      /\ unit.pc # "idle"
  BY DEF Transition, Elsewhere, Known, Equipped, Armed, Moving, Moved, Cold, Preparatory, Finishing, Opened
<1>2. /\ PendingOp = mem.op /\ mem.op \in Ops /\ mem.op \in Rows /\ mem.op # NoOp
      /\ IsJournal(mem) /\ mem.phase # "none" /\ Alike(journal[mem.op], mem)
      /\ Where(unit.pc, unit.stage # "save", mem, maintenance)
  BY <1>1, Held
<1>3. Told(mem.op) => unit.stage = "gate"
  BY <1>1, <1>2 DEF SystemdTruth, UnitTrue, Ended, Elsewhere
<1>4. CASE unit.stage = "gate"
  <2>1. /\ UNCHANGED <<row, request, public, journal, pointer, current>> /\ maintenance' = mem.maint
        /\ Goto(next, mem)
    BY <1>4 DEF Transition, apiVars, hostVars
  <2>2. journal[mem.op].maint <=> mem.maint
    BY <1>1, <1>4 DEF SystemdInv, UnitOK
  <2>3. Told(mem.op) => Ended(next, "save")
    <3>1. Told(mem.op) => mem.phase \in Settled
      BY <1>2 DEF SystemdTruth, LogsTrue, Told, Alike
    <3> QED BY <1>4, <3>1 DEF Ended, Finishing
  <2> QED BY <1>1, <1>2, <1>4, <2>1, <2>2, <2>3, GateTells
<1>5. CASE unit.stage # "gate"
  <2>1. /\ ~Told(mem.op) /\ LogTrue(mem) /\ AtWork(at, unit.stage # "save", mem, maintenance)
        /\ at \in Moving \cup Restoring => journal[mem.op].maint
        /\ LogTrue(journal[mem.op])
    BY <1>1, <1>3, <1>5, UnitSays
  <2>2. DOMAIN unit = {"pc", "stage", "mem", "then", "cause", "exe"} /\ DOMAIN journal = Ops
    BY DEF SystemdInv, UnitOK, JournalsOK
  <2>3. CASE unit.stage = "save"
    <3>1. /\ UNCHANGED <<row, request, public, maintenance, current, pointer>> /\ Save(n)
          /\ unit' = [unit EXCEPT !.stage = "cas", !.mem = n]
      BY <2>3 DEF Transition, Here, Becomes, apiVars, hostVars
    <3>2. IsJournal(n) /\ n.op = mem.op /\ n.phase = phase /\ (n.maint <=> m.maint)
      BY DEF Becomes, IsJournal, JournalFields
    <3>3. unit'.pc = at /\ unit'.stage = "cas" /\ mem' = n
      BY <1>1, <2>2, <3>1 DEF mem
    <3>4. /\ journal'[mem.op] = n /\ \A o \in Ops \ {mem.op} : journal'[o] = journal[o]
      BY <1>2, <2>2, <3>1, <3>2 DEF Save
    <3>5. LogTrue(n)' /\ LogTrue(mem)' /\ AtWork(unit.pc, unit.stage # "save", mem, maintenance)'
      <4>1. LogTrue(n)'
        BY <2>3, <3>1 DEF LogTrue, Justified
      <4>2. LogTrue(mem)'
        BY <2>3, <3>1, <3>3 DEF LogTrue, Justified
      <4>3. AtWork(unit.pc, unit.stage # "save", mem, maintenance)'
        BY <2>3, <3>1, <3>3 DEF AtWork
      <4> QED BY <4>1, <4>2, <4>3
    <3>6. ~Told(mem.op)'
      BY <2>1, <3>1, <3>2, <3>3 DEF Told
    <3>7. at \in Moving \cup Restoring => n.maint
      BY <2>3
    <3>8. UnitTrue'
      BY <1>1, <3>2, <3>3, <3>4, <3>5, <3>6, <3>7 DEF UnitTrue
    <3>9. PendingOp' = PendingOp
      BY <3>1 DEF PendingOp
    <3> QED BY <1>1, <1>2, <2>1, <2>3, <3>1, <3>2, <3>4, <3>5, <3>8, <3>9, WorkTells DEF Alike
  <2>4. CASE unit.stage = "cas"
    <3>1. Cas(recovery) /\ UNCHANGED <<row, request, public, maintenance, current, pointer>>
      BY <2>4 DEF Transition, Cas, hostVars
    <3>2. PendingOp' = PendingOp
      BY <3>1 DEF PendingOp
    <3>3. CASE /\ unit' = [unit EXCEPT !.stage = "token", !.mem.token = "last"]
               /\ journal' = [journal EXCEPT ![mem.op].token = IF @ = "last" THEN "old" ELSE @]
      <4> DEFINE t == [mem EXCEPT !.token = "last"]
                 k == [journal[mem.op] EXCEPT !.token = IF @ = "last" THEN "old" ELSE @]
      <4>1. Truly(t, mem)
        BY <1>2 DEF Truly, IsJournal, JournalFields
      <4>2. Truly(k, journal[mem.op])
        <5>1. IsJournal(journal[mem.op])
          BY <1>2 DEF SystemdInv, JournalsOK
        <5> QED BY <5>1 DEF Truly, IsJournal, JournalFields
      <4>3. unit'.pc = at /\ unit'.stage = "token" /\ mem' = t
        BY <1>1, <2>2, <3>3 DEF mem
      <4>4. journal'[mem.op] = k /\ \A o \in Ops \ {mem.op} : journal'[o] = journal[o]
        BY <1>2, <2>2, <3>3
      <4> HIDE DEF t, k
      <4>5. LogTrue(t) /\ LogTrue(k) /\ AtWork(at, TRUE, t, maintenance)
        BY <2>1, <2>4, <4>1, <4>2, TrulyTells
      <4>6. LogTrue(mem)'
        BY <3>1, <4>3, <4>5 DEF LogTrue, Justified
      <4>7. AtWork(unit.pc, unit.stage # "save", mem, maintenance)'
        BY <3>1, <4>3, <4>5 DEF AtWork
      <4>8. mem'.op = mem.op /\ k.phase = journal[mem.op].phase /\ (k.maint <=> journal[mem.op].maint)
        BY <4>1, <4>2, <4>3 DEF Truly
      <4>9. ~Told(mem.op)'
        BY <2>1, <3>1, <4>8 DEF Told
      <4>10. UnitTrue'
        BY <1>1, <2>1, <4>3, <4>4, <4>6, <4>7, <4>8, <4>9 DEF UnitTrue
      <4>11. ASSUME NEW j, j = k PROVE LogTrue(j)'
        <5>1. LogTrue(j)
          BY <4>5, <4>11
        <5> QED BY <3>1, <5>1 DEF LogTrue, Justified
      <4> QED BY <1>1, <1>2, <2>1, <3>1, <3>2, <4>4, <4>8, <4>10, <4>11, WorkTells DEF Alike
    <3>4. CASE unit' = [unit EXCEPT !.stage = "publish"] /\ UNCHANGED journal
      <4>1. unit'.pc = at /\ unit'.stage = "publish" /\ mem' = mem
        BY <1>1, <2>2, <3>4 DEF mem
      <4>2. LogTrue(mem)'
        BY <2>1, <3>1, <4>1 DEF LogTrue, Justified
      <4>3. AtWork(unit.pc, unit.stage # "save", mem, maintenance)'
        BY <2>1, <2>4, <3>1, <4>1 DEF AtWork
      <4>4. ASSUME NEW j, j = journal'[mem.op] PROVE LogTrue(j)'
        <5>1. LogTrue(j)
          BY <2>1, <3>4, <4>4
        <5> QED BY <3>1, <5>1 DEF LogTrue, Justified
      <4>5. ~Told(mem.op)'
        BY <2>1, <3>1, <4>1 DEF Told
      <4>6. UnitTrue'
        BY <1>1, <2>1, <3>4, <4>1, <4>2, <4>3, <4>5 DEF UnitTrue
      <4> QED BY <1>1, <1>2, <2>1, <3>1, <3>2, <3>4, <4>4, <4>6, WorkTells DEF Alike
    <3>5. ASSUME NEW c, Raise(c), UNCHANGED journal, ~recovery PROVE SystemdTruth'
      <4>1. mem.phase \in Settled => mem.maint
        BY <1>1, <1>2, <2>4, <3>5 DEF Where, Moving, Moved, Forward, Settled
      <4> QED BY <1>1, <1>2, <2>1, <3>1, <3>2, <3>5, <4>1, RaiseTells
    <3> QED BY <3>1, <3>3, <3>4, <3>5 DEF Cas
  <2>5. CASE unit.stage = "token"
    <3>1. /\ UNCHANGED <<row, request, public, maintenance, current, pointer>> /\ Save(mem)
          /\ unit' = [unit EXCEPT !.stage = "publish"]
      BY <2>5 DEF Transition, Here, apiVars, hostVars
    <3>2. unit'.pc = at /\ unit'.stage = "publish" /\ mem' = mem
      BY <1>1, <2>2, <3>1 DEF mem
    <3>3. journal'[mem.op] = mem /\ \A o \in Ops \ {mem.op} : journal'[o] = journal[o]
      BY <1>2, <2>2, <3>1 DEF Save
    <3>4. LogTrue(mem)'
      BY <2>1, <3>1, <3>2 DEF LogTrue, Justified
    <3>5. AtWork(unit.pc, unit.stage # "save", mem, maintenance)'
      BY <2>1, <2>5, <3>1, <3>2 DEF AtWork
    <3>6. ASSUME NEW j, j = mem PROVE LogTrue(j)'
      BY <2>1, <3>1, <3>6 DEF LogTrue, Justified
    <3>7. ~Told(mem.op)'
      BY <2>1, <3>1, <3>2 DEF Told
    <3>8. at \in Moving \cup Restoring => mem.maint
      BY <1>1, <1>2 DEF Where
    <3>9. UnitTrue'
      BY <1>1, <3>2, <3>3, <3>4, <3>5, <3>7, <3>8 DEF UnitTrue
    <3>10. PendingOp' = PendingOp
      BY <3>1 DEF PendingOp
    <3> QED BY <1>1, <1>2, <2>1, <3>1, <3>3, <3>6, <3>9, <3>10, WorkTells DEF Alike
  <2>6. CASE unit.stage = "publish"
    <3>1. /\ UNCHANGED <<row, request, journal, pointer, maintenance, current>> /\ PublishStatus(mem)
          /\ unit' = [unit EXCEPT !.stage = "gate"]
      BY <2>6 DEF Transition, apiVars, hostVars
    <3>2. unit'.pc = at /\ unit'.stage = "gate" /\ mem' = mem
      BY <1>1, <2>2, <3>1 DEF mem
    <3>3. mem.phase = "recovery_failed" => maintenance
      BY <1>1, <1>2, <2>6 DEF Where, Restoring
    <3>4. mem.phase \in Settled => Ended(unit.pc, unit.stage)'
      BY <2>6, <3>2 DEF Ended
    <3>5. AtWork(unit.pc, unit.stage # "save", mem, maintenance)'
      BY <2>1, <2>6, <3>1, <3>2 DEF AtWork
    <3> QED BY <1>1, <1>2, <2>1, <3>1, <3>2, <3>3, <3>4, <3>5, PublishTells
  <2> QED BY <1>5, <2>3, <2>4, <2>5, <2>6 DEF Transition
<1> QED BY <1>4, <1>5

\* A transition between two phases of the forward work.
LEMMA ForwardTells ==
    ASSUME UpdateAssumption, SystemdInv, SystemdTruth, NEW at \in Known \ {"done"}, NEW next \in Known,
           NEW phase, NEW m, Transition(at, phase, m, FALSE, next),
           phase \notin Terminal \cup {"rolling_back", "none", "staged"},
           unit.stage = "save" => Truly(m, mem), IsJournal(m), m.op = mem.op,
           next \in Moved => at \in Moved,
           next \in Moving => at \in Moving \cup {"preparing", "stopping", "switching"}
    PROVE  SystemdTruth'
<1>1. unit.pc = at /\ at \notin Elsewhere \cup {"idle", "admit", "error"} \cup Finishing /\ unit.pc # "idle"
      /\ next \notin {"f_gate", "idle"} \cup Opened \cup Restoring \cup {"process", "refused", "failing", "error"}
      /\ next \notin Finishing /\ at \notin {"refused", "failing", "recover", "r_done"} \cup Restoring \cup PutBack
      /\ next \notin PutBack
  BY DEF Transition, Elsewhere, Known, Equipped, Armed, Moving, Moved, Cold, Preparatory, Finishing, Opened,
         Restoring, PutBack
<1>2. /\ IsJournal(mem) /\ Alike(journal[mem.op], mem) /\ Forward(mem)
      /\ Where(at, unit.stage # "save", mem, maintenance)
  BY <1>1, Held DEF Where
<1>3. Told(mem.op) => unit.stage = "gate"
  BY <1>1 DEF SystemdTruth, UnitTrue, Ended, Elsewhere
<1>4. mem.phase \notin Settled \cup GivingUp /\ phase \notin Settled \cup GivingUp
  BY <1>2 DEF Forward, GivingUp, Settled, Terminal
<1>5. ~Told(mem.op) => LogTrue(mem) /\ AtWork(at, unit.stage # "save", mem, maintenance)
  BY <1>1 DEF SystemdTruth, UnitTrue
<1> DEFINE n == [m EXCEPT !.phase = phase]
<1>6. Becomes(n, m, phase)
  BY DEF Becomes
<1>7. /\ n.phase = phase /\ n.op = m.op /\ n.old = m.old /\ n.shown = m.shown
      /\ (n.maint <=> m.maint) /\ (n.admitted <=> m.admitted)
      /\ (n.stopped <=> m.stopped) /\ (n.switched <=> m.switched)
  BY DEF IsJournal, JournalFields
<1> HIDE DEF n
<1>8. ASSUME unit.stage = "save"
      PROVE  LogTrue(n) /\ AtWork(at, TRUE, n, maintenance) /\ (at \in Moving \cup Restoring => n.maint)
  <2>1. LogTrue(m) /\ AtWork(at, FALSE, m, maintenance)
    BY <1>3, <1>5, <1>8, TrulyTells
  <2>2. LogTrue(n)
    BY <1>4, <1>7, <1>8, <2>1 DEF LogTrue, Truly
  <2>3. AtWork(at, TRUE, n, maintenance)
    BY <1>1, <1>7, <2>1 DEF AtWork, Elsewhere
  <2>4. at \in Moving \cup Restoring => n.maint
    BY <1>2, <1>7, <1>8 DEF Where, Truly
  <2> QED BY <2>2, <2>3, <2>4
<1>9. unit.stage = "gate" /\ ~Told(mem.op) => AtWork(next, FALSE, mem, mem.maint)
  BY <1>1, <1>5 DEF AtWork
<1>10. next \in Moving \cup Restoring /\ unit.stage = "gate" => mem.maint
  BY <1>1, <1>2 DEF Where
<1>11. mem.phase # "recovery_failed"
  BY <1>4 DEF GivingUp
<1> QED BY <1>1, <1>4, <1>6, <1>8, <1>9, <1>10, <1>11, TransitionTells

\* The transitions of the forward work.
LEMMA ForwardTransitionsTell ==
    ASSUME UpdateAssumption, SystemdInv, SystemdTruth,
           \/ VerifyPackage \/ Precheck \/ Preparing \/ Stopping \/ BackingUp \/ BackingUpRuntime
           \/ Preflighting \/ Migrating \/ Switching \/ Verifying
    PROVE  SystemdTruth'
<1> USE DEF Known, Equipped, Armed, Moving, Moved, Cold, Preparatory
<1>1. ASSUME NEW at \in Known, unit.pc = at
      PROVE  IsJournal(mem) /\ Truly(mem, mem)
  <2>1. unit.pc \notin Elsewhere /\ unit.pc # "idle"
    BY <1>1 DEF Elsewhere
  <2> QED BY <2>1, Held DEF Truly
<1>2. ASSUME NEW phase \in {"verifying_package", "preflighting", "preparing", "stopping", "backing_up",
                            "migrating", "switching", "verifying"}
      PROVE  phase \notin Terminal \cup {"rolling_back", "none", "staged"}
  BY DEF Terminal
<1>3. CASE VerifyPackage
  <2>1. PICK next \in {"record", "copy", "claim_dir"} : Transition("verify", "verifying_package", mem, FALSE, next)
    BY <1>3 DEF VerifyPackage
  <2>2. unit.pc = "verify"
    BY <2>1 DEF Transition
  <2> QED BY <1>1, <1>2, <2>1, <2>2, ForwardTells
<1>4. CASE Stopping
  <2> DEFINE m == [mem EXCEPT !.stopped = TRUE]
  <2>1. Transition("stopping", "stopping", m, FALSE, "stop") /\ unit.pc = "stopping"
    BY <1>4 DEF Stopping, Transition
  <2>2. unit.stage = "save" => mem.admitted
    BY <2>1 DEF SystemdTruth, UnitTrue, AtWork, Ended, Finishing, Opened
  <2>3. unit.stage = "save" => Truly(m, mem)
    BY <1>1, <2>1, <2>2 DEF Truly, IsJournal, JournalFields
  <2>4. IsJournal(m) /\ m.op = mem.op
    BY <1>1, <2>1 DEF IsJournal, JournalFields
  <2> HIDE DEF m
  <2> QED BY <1>2, <2>1, <2>3, <2>4, ForwardTells
<1>5. ASSUME NEW at \in Known \ {"done"}, NEW next \in Known, NEW phase, Transition(at, phase, mem, FALSE, next),
             phase \notin Terminal \cup {"rolling_back", "none", "staged"},
             next \in Moved => at \in Moved,
             next \in Moving => at \in Moving \cup {"preparing", "stopping", "switching"}
      PROVE  SystemdTruth'
  <2>1. unit.pc = at
    BY <1>5 DEF Transition
  <2> QED BY <1>1, <1>5, <2>1, ForwardTells
<1>6. CASE Precheck
  BY <1>2, <1>5, <1>6 DEF Precheck
<1>7. CASE Preparing
  BY <1>2, <1>5, <1>7 DEF Preparing
<1>8. CASE BackingUp
  BY <1>2, <1>5, <1>8 DEF BackingUp
<1>9. CASE BackingUpRuntime
  BY <1>2, <1>5, <1>9 DEF BackingUpRuntime
<1>10. CASE Preflighting
  BY <1>2, <1>5, <1>10 DEF Preflighting
<1>11. CASE Migrating
  BY <1>2, <1>5, <1>11 DEF Migrating
<1>12. CASE Switching
  BY <1>2, <1>5, <1>12 DEF Switching
<1>13. CASE Verifying
  BY <1>2, <1>5, <1>13 DEF Verifying
<1> QED BY <1>3, <1>4, <1>6, <1>7, <1>8, <1>9, <1>10, <1>11, <1>12, <1>13

\* A new phase changes nothing else that a journal says.
LEMMA PhaseSays ==
    ASSUME NEW m, IsJournal(m), NEW phase, NEW n, Becomes(n, m, phase)
    PROVE  /\ n.phase = phase /\ n.op = m.op /\ n.old = m.old /\ n.shown = m.shown
           /\ (n.maint <=> m.maint) /\ (n.admitted <=> m.admitted)
           /\ (n.stopped <=> m.stopped) /\ (n.switched <=> m.switched)
  BY DEF Becomes, IsJournal, JournalFields

\* The transitions that end an operation, and the one that begins its recovery.
LEMMA EndTransitionsTell ==
    ASSUME UpdateAssumption, SystemdInv, SystemdTruth,
           Refused \/ Done \/ Failing \/ RollingBack \/ RecoverDone \/ RecoverFailed
    PROVE  SystemdTruth'
<1> DEFINE Ends == {"refused", "done", "failing", "recover", "r_done", "r_failed"}
<1>1. unit.pc \in Ends /\ unit.pc # "idle" /\ unit.pc \notin Elsewhere \cup {"admit"} \cup Finishing
  BY DEF Refused, Done, Failing, RollingBack, RecoverDone, RecoverFailed, Transition, Elsewhere, Finishing, Opened
<1>2. /\ IsJournal(mem) /\ Alike(journal[mem.op], mem) /\ mem.op \in Rows /\ JournalOK(mem)
      /\ Where(unit.pc, unit.stage # "save", mem, maintenance)
  BY <1>1, Held
<1>3. Told(mem.op) => unit.stage = "gate"
  BY <1>1 DEF SystemdTruth, UnitTrue, Ended
<1>4. /\ "finish" \notin Known \cup Moving \cup Restoring \cup Moved \cup PutBack \cup Opened
      /\ "finish" \in Finishing /\ "r_check" \in Restoring
      /\ "r_check" \notin Known \cup Moved \cup PutBack \cup Finishing \cup Opened
      /\ "done" \in Known \cap Moving \cap Moved /\ "r_done" \in PutBack \cap Restoring
      /\ "r_failed" \in Restoring
      /\ \A pc \in {"refused", "failing", "recover"} : pc \notin Known \cup Moving \cup Restoring \cup Moved \cup PutBack
      /\ "r_failed" \notin Known \cup Moved \cup PutBack /\ "r_done" \notin Known
      /\ \A pc \in Ends : pc \notin Finishing
  BY DEF Known, Equipped, Armed, Moving, Moved, Cold, Preparatory, PutBack, Restoring, Finishing, Opened
<1>6. ~Told(mem.op) => LogTrue(mem) /\ AtWork(unit.pc, unit.stage # "save", mem, maintenance)
  BY <1>1 DEF SystemdTruth, UnitTrue
<1>7. unit.stage = "gate" => (mem.phase \in Settled => Told(mem.op))
  BY <1>1 DEF SystemdTruth, UnitTrue
<1>8. \A at \in Ends : unit.pc = at /\ unit.stage # "save" =>
          /\ mem.phase \in Settled => at \in {"done", "r_done", "failing", "refused"}
          /\ mem.phase = "recovery_failed" => at = "r_failed"
  <2> SUFFICES ASSUME unit.stage # "save"
               PROVE  /\ mem.phase \in Settled => unit.pc \in {"done", "r_done", "failing", "refused"}
                      /\ mem.phase = "recovery_failed" => unit.pc = "r_failed"
    BY <1>1
  <2>1. "recovery_failed" \notin Settled /\ "rolling_back" \notin Settled
    BY DEF Settled, Terminal
  <2>2. mem.phase \in Settled => unit.pc \in {"done", "r_done", "failing", "refused"}
    BY <1>1, <1>2, <1>4, <2>1 DEF Where
  <2>3. mem.phase = "recovery_failed" => ~Told(mem.op)
    BY <1>1, <2>1, ToldSays
  <2>4. mem.phase = "recovery_failed" => mem.maint /\ AtWork(unit.pc, TRUE, mem, maintenance)
    BY <1>6, <2>3 DEF LogTrue, GivingUp
  <2>5. mem.phase = "recovery_failed" => unit.pc \notin {"refused", "failing", "r_done"}
    BY <2>1, <2>4 DEF AtWork
  <2>6. mem.phase = "recovery_failed" => unit.pc \notin {"recover", "done"}
    BY <1>2, <2>1 DEF Where
  <2> QED BY <1>1, <2>2, <2>5, <2>6
<1>10. unit.stage = "gate" /\ unit.pc \notin {"recover", "r_failed"} => Told(mem.op)
  <2> SUFFICES ASSUME unit.stage = "gate", unit.pc \in {"refused", "failing", "done", "r_done"}
               PROVE  mem.phase \in Settled
    BY <1>1, <1>7
  <2>1. mem.phase \in Terminal
    BY <1>2, <1>4 DEF Where, Settled
  <2> QED BY <1>1, <1>8, <2>1 DEF Settled
<1> HIDE DEF Ends
<1>9. CASE Refused
  <2> DEFINE phase == IF mem.maint THEN "recovery_failed" ELSE "failed"
             n == [mem EXCEPT !.phase = phase]
  <2>1. Transition("refused", phase, mem, TRUE, "finish") /\ unit.pc = "refused" /\ "refused" \in Ends
    BY <1>9 DEF Refused, Transition, Ends
  <2>2. Becomes(n, mem, phase) /\ phase \in {"recovery_failed", "failed"} /\ (~mem.maint => phase = "failed")
    BY DEF Becomes
  <2> HIDE DEF n, phase
  <2>3. unit.stage = "save" => LogTrue(n) /\ AtWork("refused", TRUE, n, maintenance)
    <3> SUFFICES ASSUME unit.stage = "save" PROVE LogTrue(n) /\ AtWork("refused", TRUE, n, maintenance)
      OBVIOUS
    <3>1. LogTrue(mem) /\ AtWork("refused", FALSE, mem, maintenance)
      BY <1>3, <1>6, <2>1
    <3>2. ~mem.maint /\ mem.phase \notin Settled /\ phase = "failed"
      BY <2>2, <3>1 DEF AtWork
    <3>3. LogTrue(n)
      BY <1>2, <2>2, <3>1, <3>2, PhaseSays DEF LogTrue, Justified, GivingUp, Settled, Terminal
    <3>4. AtWork("refused", TRUE, n, maintenance)
      BY <1>2, <1>4, <2>1, <2>2, <3>2, PhaseSays DEF AtWork, Ends
    <3> QED BY <3>3, <3>4
  <2>4. phase \in GivingUp \cup Settled /\ phase # "none"
    BY <2>2 DEF GivingUp, Settled, Terminal
  <2>5. unit.stage = "gate" /\ ~Told(mem.op) => AtWork("finish", FALSE, mem, mem.maint)
    BY <1>10, <2>1
  <2> QED BY <1>2, <1>4, <1>8, <2>1, <2>2, <2>3, <2>4, <2>5, TransitionTells
<1>11. CASE Failing
  <2> DEFINE n == [mem EXCEPT !.phase = "failed"]
  <2>1. Transition("failing", "failed", mem, TRUE, "finish") /\ unit.pc = "failing" /\ "failing" \in Ends
    BY <1>11 DEF Failing, Transition, Ends
  <2>2. Becomes(n, mem, "failed")
    BY DEF Becomes
  <2> HIDE DEF n
  <2>3. unit.stage = "save" => LogTrue(n) /\ AtWork("failing", TRUE, n, maintenance)
    <3> SUFFICES ASSUME unit.stage = "save" PROVE LogTrue(n) /\ AtWork("failing", TRUE, n, maintenance)
      OBVIOUS
    <3>1. LogTrue(mem) /\ AtWork("failing", FALSE, mem, maintenance)
      BY <1>3, <1>6, <2>1
    <3>2. ~mem.maint /\ mem.phase \notin Settled
      BY <3>1 DEF AtWork
    <3>3. LogTrue(n)
      BY <1>2, <2>2, <3>1, <3>2, PhaseSays DEF LogTrue, Justified, GivingUp, Settled, Terminal
    <3>4. AtWork("failing", TRUE, n, maintenance)
      BY <1>2, <1>4, <2>1, <2>2, <3>2, PhaseSays DEF AtWork, Ends
    <3> QED BY <3>3, <3>4
  <2>4. "failed" \in GivingUp \cup Settled
    BY DEF GivingUp, Settled, Terminal
  <2>5. unit.stage = "gate" /\ ~Told(mem.op) => AtWork("finish", FALSE, mem, mem.maint)
    BY <1>10, <2>1
  <2> QED BY <1>2, <1>4, <1>8, <2>1, <2>2, <2>3, <2>4, <2>5, TransitionTells
<1>12. CASE RollingBack
  <2> DEFINE m == [mem EXCEPT !.maint = TRUE]
             n == [m EXCEPT !.phase = "rolling_back"]
  <2>1. Transition("recover", "rolling_back", m, TRUE, "r_check") /\ unit.pc = "recover" /\ "recover" \in Ends
    BY <1>12 DEF RollingBack, Transition, Ends
  <2>2. Becomes(n, m, "rolling_back")
    BY DEF Becomes
  <2>3. /\ IsJournal(m) /\ m.op = mem.op /\ m.old = mem.old /\ m.shown = mem.shown /\ m.maint
        /\ (m.admitted <=> mem.admitted) /\ (m.stopped <=> mem.stopped) /\ (m.switched <=> mem.switched)
    BY <1>2 DEF IsJournal, JournalFields
  <2> HIDE DEF n, m
  <2>4. unit.stage = "save" => LogTrue(n) /\ AtWork("recover", TRUE, n, maintenance)
    <3> SUFFICES ASSUME unit.stage = "save" PROVE LogTrue(n) /\ AtWork("recover", TRUE, n, maintenance)
      OBVIOUS
    <3>1. LogTrue(mem) /\ AtWork("recover", FALSE, mem, maintenance)
      BY <1>3, <1>6, <2>1
    <3>2. mem.admitted
      BY <3>1 DEF AtWork
    <3>3. LogTrue(n)
      BY <2>2, <2>3, <3>1, <3>2, PhaseSays DEF LogTrue, Settled, Terminal
    <3>4. AtWork("recover", TRUE, n, maintenance)
      BY <1>4, <2>1, <2>2, <2>3, <3>2, PhaseSays DEF AtWork, Ends
    <3> QED BY <3>3, <3>4
  <2>5. "rolling_back" \in GivingUp \cup Settled
    BY DEF GivingUp
  <2>6. unit.stage = "gate" => mem.maint
    BY <1>2, <2>1 DEF Where
  <2>7. unit.stage = "gate" /\ ~Told(mem.op) => AtWork("r_check", FALSE, mem, mem.maint)
    BY <1>4 DEF AtWork
  <2> QED BY <1>2, <1>4, <1>8, <2>1, <2>2, <2>3, <2>4, <2>5, <2>6, <2>7, TransitionTells
<1>13. CASE Done
  <2> DEFINE phase == IF Intent(mem.op).action = "apply" THEN "succeeded" ELSE "rolled_back"
             n == [mem EXCEPT !.phase = phase]
  <2>1. Transition("done", phase, mem, FALSE, "finish") /\ unit.pc = "done" /\ "done" \in Ends
    BY <1>13 DEF Done, Transition, Ends
  <2>2. /\ Becomes(n, mem, phase) /\ phase \in {"succeeded", "rolled_back"}
        /\ phase = "rolled_back" => row[mem.op].action = "rollback"
    BY <1>2 DEF Becomes, Intent, SystemdInv, RequestsOK
  <2> HIDE DEF n, phase
  <2>3. unit.stage = "save" => LogTrue(n) /\ AtWork("done", TRUE, n, maintenance) /\ n.maint
    <3> SUFFICES ASSUME unit.stage = "save" PROVE LogTrue(n) /\ AtWork("done", TRUE, n, maintenance) /\ n.maint
      OBVIOUS
    <3>1. LogTrue(mem) /\ AtWork("done", FALSE, mem, maintenance)
      BY <1>3, <1>6, <2>1
    <3>2. mem.admitted /\ mem.shown = current /\ mem.maint /\ current = row[mem.op].version
      BY <1>2, <1>4, <2>1, <3>1 DEF AtWork, Where
    <3>3. Justified(mem.op, phase)
      BY <2>2, <3>2 DEF Justified
    <3>4. LogTrue(n)
      BY <1>2, <2>2, <3>1, <3>2, <3>3, PhaseSays DEF LogTrue, GivingUp, Settled, Terminal
    <3>5. AtWork("done", TRUE, n, maintenance)
      BY <1>2, <1>4, <2>1, <2>2, <3>2, PhaseSays DEF AtWork, Ends
    <3> QED BY <1>2, <2>2, <3>2, <3>4, <3>5, PhaseSays
  <2>4. phase \in GivingUp \cup Settled /\ phase # "none"
    BY <2>2 DEF GivingUp, Settled, Terminal
  <2>5. unit.stage = "gate" /\ ~Told(mem.op) => AtWork("finish", FALSE, mem, mem.maint)
    BY <1>10, <2>1
  <2> QED BY <1>2, <1>4, <1>8, <2>1, <2>2, <2>3, <2>4, <2>5, TransitionTells
<1>14. CASE RecoverDone
  <2> DEFINE phase == IF mem.switched THEN "rolled_back" ELSE "failed"
             n == [mem EXCEPT !.phase = phase]
  <2>1. Transition("r_done", phase, mem, TRUE, "finish") /\ unit.pc = "r_done" /\ "r_done" \in Ends
    BY <1>14 DEF RecoverDone, Transition, Ends
  <2>2. Becomes(n, mem, phase) /\ phase \in {"failed", "rolled_back"}
    BY DEF Becomes
  <2> HIDE DEF n, phase
  <2>3. unit.stage = "save" => LogTrue(n) /\ AtWork("r_done", TRUE, n, maintenance) /\ n.maint
    <3> SUFFICES ASSUME unit.stage = "save" PROVE LogTrue(n) /\ AtWork("r_done", TRUE, n, maintenance) /\ n.maint
      OBVIOUS
    <3>1. LogTrue(mem) /\ AtWork("r_done", FALSE, mem, maintenance)
      BY <1>3, <1>6, <2>1
    <3>2. mem.shown = current /\ mem.maint /\ current = mem.old
      BY <1>2, <1>4, <2>1, <3>1 DEF AtWork, Where
    <3>3. current # 0
      BY OpIsNotNoOp DEF SystemdInv, HostOK
    <3>4. Justified(mem.op, phase)
      BY <2>2, <3>1, <3>2, <3>3 DEF Justified, LogTrue
    <3>5. LogTrue(n)
      BY <1>2, <2>2, <3>1, <3>2, <3>4, PhaseSays DEF LogTrue, GivingUp, Settled, Terminal
    <3>6. AtWork("r_done", TRUE, n, maintenance)
      BY <1>2, <1>4, <2>1, <2>2, <3>2, PhaseSays DEF AtWork, Ends, Settled, Terminal
    <3> QED BY <1>2, <2>2, <3>2, <3>5, <3>6, PhaseSays
  <2>4. phase \in GivingUp \cup Settled /\ phase # "none"
    BY <2>2 DEF GivingUp, Settled, Terminal
  <2>5. unit.stage = "gate" /\ ~Told(mem.op) => AtWork("finish", FALSE, mem, mem.maint)
    BY <1>10, <2>1
  <2> QED BY <1>2, <1>4, <1>8, <2>1, <2>2, <2>3, <2>4, <2>5, TransitionTells
<1>15. CASE RecoverFailed
  <2> DEFINE n == [mem EXCEPT !.phase = "recovery_failed"]
  <2>1. Transition("r_failed", "recovery_failed", mem, TRUE, "finish") /\ unit.pc = "r_failed" /\ "r_failed" \in Ends
    BY <1>15 DEF RecoverFailed, Transition, Ends
  <2>2. Becomes(n, mem, "recovery_failed") /\ mem.maint
    BY <1>2, <1>4, <2>1 DEF Becomes, Where
  <2> HIDE DEF n
  <2>3. unit.stage = "save" => LogTrue(n) /\ AtWork("r_failed", TRUE, n, maintenance) /\ n.maint
    <3> SUFFICES ASSUME unit.stage = "save" PROVE LogTrue(n) /\ AtWork("r_failed", TRUE, n, maintenance) /\ n.maint
      OBVIOUS
    <3>1. LogTrue(mem)
      BY <1>3, <1>6, <2>1
    <3>2. LogTrue(n)
      BY <1>2, <2>2, <3>1, PhaseSays DEF LogTrue, Settled, Terminal
    <3>3. AtWork("r_failed", TRUE, n, maintenance)
      BY <1>4, <2>1 DEF AtWork, Ends
    <3> QED BY <1>2, <2>2, <3>2, <3>3, PhaseSays
  <2>4. "recovery_failed" \in GivingUp \cup Settled
    BY DEF GivingUp
  <2>5. AtWork("finish", FALSE, mem, mem.maint)
    BY <1>4, <2>2 DEF AtWork
  <2> QED BY <1>2, <1>4, <1>8, <2>1, <2>2, <2>3, <2>4, <2>5, TransitionTells
<1> QED BY <1>9, <1>11, <1>12, <1>13, <1>14, <1>15

-----------------------------------------------------------------------------
(* The other steps of the program.                                         *)

\* Where a step of the program starts from, before the end of the operation is published.
AtSteps == (Known \cup {"identify"} \cup Restoring) \ {"done", "r_done"}

\* What is known there.
LEMMA StepSays ==
    ASSUME UpdateAssumption, SystemdInv, SystemdTruth, unit.pc \in AtSteps
    PROVE  /\ unit.pc # "idle" /\ ~Told(mem.op) /\ PendingOp = mem.op /\ mem.op \in Ops /\ mem.op \in Rows
           /\ IsJournal(mem) /\ Alike(journal[mem.op], mem) /\ LogTrue(mem) /\ mem.admitted
           /\ JournalOK(mem) /\ mem.phase # "none"
           /\ Where(unit.pc, unit.stage # "save", mem, maintenance)
           /\ unit.pc \in Moved \cup PutBack => mem.shown = current
           /\ unit.pc \in Moving \cup Restoring => journal[mem.op].maint /\ mem.maint
           /\ mem.phase \notin Settled \/ mem.maint
<1>1. unit.pc \notin Elsewhere \cup {"idle", "admit", "done", "r_done", "failing", "refused"} \cup Finishing
  BY DEF AtSteps, Elsewhere, Known, Equipped, Armed, Moving, Moved, Cold, Preparatory, PutBack, Restoring,
         Finishing, Opened
<1>2. ~Told(mem.op)
  BY <1>1 DEF SystemdTruth, UnitTrue, Ended, Elsewhere
<1>3. /\ PendingOp = mem.op /\ Where(unit.pc, unit.stage # "save", mem, maintenance)
      /\ JournalOK(mem) /\ mem.op \in Ops /\ mem.op \in Rows /\ IsJournal(mem)
      /\ Alike(journal[mem.op], mem) /\ mem.phase # "none"
  BY <1>1, Held
<1>4. /\ LogTrue(mem) /\ AtWork(unit.pc, unit.stage # "save", mem, maintenance)
      /\ unit.pc \in Moving \cup Restoring => journal[mem.op].maint
  BY <1>1, <1>2 DEF SystemdTruth, UnitTrue
<1>5. unit.pc \in Moving \cup Restoring => mem.maint
  BY <1>3 DEF Where
<1>6. mem.admitted
  BY <1>4, <1>5 DEF AtWork, LogTrue, AtSteps
<1>7. mem.phase \notin Settled \/ mem.maint
  BY <1>1, <1>3, <1>5 DEF AtSteps, Where, Forward, Settled
<1> QED BY <1>1, <1>2, <1>3, <1>4, <1>5, <1>6, <1>7 DEF AtWork

\* Where such a step can lead.
Onward(from, pc) ==
    /\ pc \in Known \cup {"identify"} \cup Restoring
    /\ pc \in Moved \cup PutBack => from \in Moved \cup PutBack
    /\ pc \in Moving \cup Restoring => from \in Moving \cup Restoring

\* A step of the program that leaves the installed version alone goes on or fails.
LEMMA ProgramTells ==
    ASSUME UpdateAssumption, SystemdInv, SystemdTruth, unit.pc \in AtSteps,
           UNCHANGED <<row, request, public, maintenance, current>>, PendingOp' = PendingOp,
           \/ \E c : Raise(c) /\ UNCHANGED journal
           \/ \E pc, m : /\ unit'.pc = pc /\ unit'.stage = "save" /\ mem' = m
                         /\ Truly(m, mem) /\ (UNCHANGED journal \/ Save(m))
                         /\ Onward(unit.pc, pc)
    PROVE  SystemdTruth'
<1>1. /\ unit.pc # "idle" /\ ~Told(mem.op) /\ PendingOp = mem.op /\ mem.admitted /\ LogTrue(mem)
      /\ unit.pc \in Moved \cup PutBack => mem.shown = current
      /\ unit.pc \in Moving \cup Restoring => journal[mem.op].maint /\ mem.maint
      /\ mem.phase \notin Settled \/ mem.maint
  BY StepSays
<1>2. ASSUME NEW c, Raise(c), UNCHANGED journal PROVE SystemdTruth'
  BY <1>1, <1>2, RaiseTells
<1>3. ASSUME NEW pc, NEW m, unit'.pc = pc, unit'.stage = "save", mem' = m,
             Truly(m, mem), UNCHANGED journal \/ Save(m), Onward(unit.pc, pc)
      PROVE  SystemdTruth'
  <2>1. LogTrue(m)
    BY <1>1, <1>3, TrulyTells
  <2>2. /\ pc \notin {"f_gate", "process", "refused", "failing", "error", "recover"} \cup Opened \cup Finishing
    BY <1>3 DEF Onward, Known, Equipped, Armed, Moving, Moved, Cold, Preparatory, PutBack, Restoring,
                Finishing, Opened
  <2>3. AtWork(pc, FALSE, m, maintenance)
    BY <1>1, <1>3, <2>2 DEF AtWork, Onward, Truly
  <2>4. m.op = mem.op /\ m.phase = mem.phase /\ (m.maint <=> mem.maint)
    BY <1>3 DEF Truly
  <2>5. pc \in Moving \cup Restoring => journal[mem.op].maint /\ m.maint
    BY <1>1, <1>3, <2>4 DEF Onward
  <2> QED BY <1>1, <1>3, <2>1, <2>2, <2>3, <2>4, <2>5, GoTells
<1> QED BY <1>2, <1>3

\* A step that goes on, the journal saved or not.
LEMMA OnwardTells ==
    ASSUME UpdateAssumption, SystemdInv, SystemdTruth, unit.pc \in AtSteps,
           UNCHANGED <<row, request, public, maintenance, current>>, PendingOp' = PendingOp,
           NEW pc, NEW m, Goto(pc, m), Truly(m, mem), UNCHANGED journal \/ Save(m),
           Onward(unit.pc, pc)
    PROVE  SystemdTruth'
<1>1. unit'.pc = pc /\ unit'.stage = "save" /\ mem' = m
  BY GotoShape DEF SystemdInv, UnitOK
<1> QED BY <1>1, ProgramTells

\* A step that only saves the journal.
LEMMA SaveStepTells ==
    ASSUME UpdateAssumption, SystemdInv, SystemdTruth, NEW at \in AtSteps, NEW ok, NEW m, NEW next,
           SaveStep(at, ok, m, next), Truly(m, mem), Onward(at, next)
    PROVE  SystemdTruth'
<1>1. /\ unit.pc = at /\ UNCHANGED <<row, request, public, maintenance, current>> /\ PendingOp' = PendingOp
  BY DEF SaveStep, Here, apiVars, hostVars, PendingOp
<1>2. CASE ok
  BY <1>1, <1>2, OnwardTells DEF SaveStep
<1>3. CASE ~ok
  BY <1>1, <1>3, ProgramTells DEF SaveStep
<1> QED BY <1>2, <1>3

\* The steps that save the journal.
LEMMA SaveStepsTell ==
    ASSUME UpdateAssumption, SystemdInv, SystemdTruth,
           \/ ClaimDir \/ RecordTarget \/ CheckDependencies \/ DependenciesChecked \/ Migrated
           \/ RecoverRecord
    PROVE  SystemdTruth'
<1> USE DEF Known, Equipped, Armed, Moving, Moved, Cold, Preparatory, PutBack, Restoring
<1>1. ASSUME NEW at \in {"claim_dir", "record", "deps", "checked", "migrated", "r_record"}, unit.pc = at
      PROVE  IsJournal(mem) /\ Truly(mem, mem) /\ at \in AtSteps
  <2>1. at \in AtSteps
    BY DEF AtSteps
  <2> QED BY <1>1, <2>1, StepSays DEF Truly
<1>2. CASE ClaimDir
  <2> DEFINE m == [mem EXCEPT !.preexisting = Target \in releases, !.claimed = TRUE]
  <2>1. SaveStep("claim_dir", TRUE, m, "copy") /\ unit.pc = "claim_dir"
    BY <1>2 DEF ClaimDir, SaveStep
  <2>2. Truly(m, mem)
    BY <1>1, <2>1 DEF Truly, IsJournal, JournalFields
  <2>3. Onward("claim_dir", "copy")
    BY DEF Onward
  <2> HIDE DEF m
  <2> QED BY <1>1, <2>1, <2>2, <2>3, SaveStepTells
<1>3. CASE RecordTarget
  <2> DEFINE m == [mem EXCEPT !.target = TRUE]
  <2>1. SaveStep("record", Sound(Target), m, "precheck") /\ unit.pc = "record"
    BY <1>3 DEF RecordTarget, SaveStep
  <2>2. Truly(m, mem)
    BY <1>1, <2>1 DEF Truly, IsJournal, JournalFields
  <2>3. Onward("record", "precheck")
    BY DEF Onward
  <2> HIDE DEF m
  <2> QED BY <1>1, <2>1, <2>2, <2>3, SaveStepTells
<1>4. CASE CheckDependencies
  <2> DEFINE m == [mem EXCEPT !.manager = IF @ = 0 THEN pointer.manager ELSE @]
  <2>1. unit.pc = "deps" /\ (SaveStep("deps", TRUE, mem, "checked") \/ SaveStep("deps", TRUE, m, "manager"))
    BY <1>4 DEF CheckDependencies
  <2>2. Truly(m, mem)
    BY <1>1, <2>1 DEF Truly, IsJournal, JournalFields
  <2>3. Onward("deps", "checked") /\ Onward("deps", "manager")
    BY DEF Onward
  <2> HIDE DEF m
  <2> QED BY <1>1, <2>1, <2>2, <2>3, SaveStepTells
<1>5. CASE DependenciesChecked
  <2> DEFINE m == [mem EXCEPT !.deps = TRUE]
  <2>1. SaveStep("checked", TRUE, m, Point(m)) /\ unit.pc = "checked"
    BY <1>5 DEF DependenciesChecked, SaveStep
  <2>2. Truly(m, mem)
    BY <1>1, <2>1 DEF Truly, IsJournal, JournalFields
  <2>3. m.deps /\ mem.target /\ m.old = mem.old /\ (m.target <=> mem.target)
    BY <1>1, <2>1, StepSays DEF Where, IsJournal, JournalFields
  <2> HIDE DEF m
  <2>4. Point(m) \in {"identify", "own", "switching", "stopping"}
    BY <2>3 DEF Point
  <2>5. Onward("checked", Point(m))
    BY <2>4 DEF Onward
  <2> QED BY <1>1, <2>1, <2>2, <2>5, SaveStepTells
<1>6. CASE Migrated
  <2> DEFINE m == [mem EXCEPT !.migrated = TRUE]
  <2>1. SaveStep("migrated", TRUE, m, "switching") /\ unit.pc = "migrated"
    BY <1>6 DEF Migrated, SaveStep
  <2>2. Truly(m, mem)
    BY <1>1, <2>1 DEF Truly, IsJournal, JournalFields
  <2>3. Onward("migrated", "switching")
    BY DEF Onward
  <2> HIDE DEF m
  <2> QED BY <1>1, <2>1, <2>2, <2>3, SaveStepTells
<1>7. CASE RecoverRecord
  <2>1. SaveStep("r_record", TRUE, mem, "r_start") /\ unit.pc = "r_record"
    BY <1>7 DEF RecoverRecord, SaveStep
  <2>2. Onward("r_record", "r_start")
    BY DEF Onward
  <2> QED BY <1>1, <2>1, <2>2, SaveStepTells
<1> QED BY <1>2, <1>3, <1>4, <1>5, <1>6, <1>7

\* The steps that leave the journal as it is in memory, and the backups.
LEMMA PlainStepsTell ==
    ASSUME UpdateAssumption, SystemdInv, SystemdTruth,
           \/ BackupDatabase \/ BackupRuntime \/ Preflight \/ Migrate \/ CheckHealth
           \/ RecoverCheck \/ RecoverHealth
    PROVE  SystemdTruth'
<1> USE DEF Known, Equipped, Armed, Moving, Moved, Cold, Preparatory, PutBack, Restoring
<1>1. /\ unit.pc \in {"backup", "backup_runtime", "preflight", "migrate", "health", "r_check", "r_health"}
      /\ unit.pc \in AtSteps
  BY DEF BackupDatabase, BackupRuntime, Preflight, Migrate, OwnerStep, CheckHealth, RecoverCheck,
         RecoverHealth, AtSteps
<1>2. IsJournal(mem) /\ Truly(mem, mem) /\ mem.admitted
  BY <1>1, StepSays DEF Truly
<1>3. /\ UNCHANGED <<row, request, public, maintenance, current>> /\ PendingOp' = PendingOp
  BY DEF BackupDatabase, BackupRuntime, Preflight, Migrate, OwnerStep, CheckHealth, RecoverCheck,
         RecoverHealth, Here, apiVars, hostVars, PendingOp
<1>4. AfterBackups \in {"preflighting", "migrated"}
  BY DEF AfterBackups
<1>5. CASE BackupDatabase
  <2> DEFINE m == [mem EXCEPT !.backup = TRUE]
             next == IF mem.runtime THEN AfterBackups ELSE "backing_runtime"
  <2>1. /\ unit.pc = "backup"
        /\ \/ Save(m) /\ Goto(next, m)
           \/ Raise("conflict") /\ UNCHANGED journal
    BY <1>5 DEF BackupDatabase
  <2>2. Truly(m, mem)
    BY <1>2 DEF Truly, IsJournal, JournalFields
  <2>3. Onward(unit.pc, next)
    BY <1>4, <2>1 DEF Onward
  <2> HIDE DEF m, next
  <2>4. CASE Save(m) /\ Goto(next, m)
    BY <1>1, <1>3, <2>2, <2>3, <2>4, OnwardTells
  <2>5. CASE Raise("conflict") /\ UNCHANGED journal
    BY <1>1, <1>3, <2>5, ProgramTells
  <2> QED BY <2>1, <2>4, <2>5
<1>6. CASE BackupRuntime
  <2> DEFINE m == [mem EXCEPT !.runtime = TRUE]
  <2>1. /\ unit.pc = "backup_runtime"
        /\ \/ Save(m) /\ Goto(AfterBackups, m)
           \/ Raise("conflict") /\ UNCHANGED journal
    BY <1>6 DEF BackupRuntime
  <2>2. Truly(m, mem)
    BY <1>2 DEF Truly, IsJournal, JournalFields
  <2>3. Onward(unit.pc, AfterBackups)
    BY <1>4, <2>1 DEF Onward
  <2> HIDE DEF m
  <2>4. CASE Save(m) /\ Goto(AfterBackups, m)
    BY <1>1, <1>3, <2>2, <2>3, <2>4, OnwardTells
  <2>5. CASE Raise("conflict") /\ UNCHANGED journal
    BY <1>1, <1>3, <2>5, ProgramTells
  <2> QED BY <2>1, <2>4, <2>5
<1>7. CASE Preflight
  <2> DEFINE m == [mem EXCEPT !.started = TRUE]
  <2>1. unit.pc = "preflight" /\ Goto("migrating", m) /\ UNCHANGED journal
    BY <1>7 DEF Preflight
  <2>2. Truly(m, mem)
    BY <1>2 DEF Truly, IsJournal, JournalFields
  <2>3. Onward(unit.pc, "migrating")
    BY <2>1 DEF Onward
  <2> HIDE DEF m
  <2> QED BY <1>1, <1>3, <2>1, <2>2, <2>3, OnwardTells
<1>8. CASE Migrate
  <2>1. unit.pc = "migrate" /\ (Goto("migrated", mem) \/ Raise("conflict")) /\ UNCHANGED journal
    BY <1>8 DEF Migrate, OwnerStep
  <2>2. Onward(unit.pc, "migrated")
    BY <2>1 DEF Onward
  <2>3. CASE Goto("migrated", mem)
    BY <1>1, <1>2, <1>3, <2>1, <2>2, <2>3, OnwardTells
  <2>4. CASE Raise("conflict")
    BY <1>1, <1>3, <2>1, <2>4, ProgramTells
  <2> QED BY <2>1, <2>3, <2>4
<1>9. CASE CheckHealth
  <2>1. /\ unit.pc = "health" /\ UNCHANGED journal
        /\ \/ unit' = [unit EXCEPT !.pc = "done", !.stage = "save", !.then = "prune"]
           \/ Raise("check")
    BY <1>9 DEF CheckHealth
  <2>2. Onward(unit.pc, "done")
    BY <2>1 DEF Onward
  <2>3. CASE unit' = [unit EXCEPT !.pc = "done", !.stage = "save", !.then = "prune"]
    <3>1. unit'.pc = "done" /\ unit'.stage = "save" /\ mem' = mem
      BY <2>3 DEF mem, SystemdInv, UnitOK
    <3> QED BY <1>1, <1>2, <1>3, <2>1, <2>2, <3>1, ProgramTells
  <2>4. CASE Raise("check")
    BY <1>1, <1>3, <2>1, <2>4, ProgramTells
  <2> QED BY <2>1, <2>3, <2>4
<1>10. CASE RecoverCheck
  <2> DEFINE m == [mem EXCEPT !.switched = @ \/ current = Target]
  <2>1. /\ unit.pc = "r_check"
        /\ \/ Save(m) /\ Goto("r_stop", m)
           \/ Goto("r_failed", mem) /\ UNCHANGED journal
    BY <1>10 DEF RecoverCheck
  <2>2. Truly(m, mem)
    BY <1>2 DEF Truly, IsJournal, JournalFields
  <2>3. Onward(unit.pc, "r_stop") /\ Onward(unit.pc, "r_failed")
    BY <2>1 DEF Onward
  <2> HIDE DEF m
  <2>4. CASE Save(m) /\ Goto("r_stop", m)
    BY <1>1, <1>3, <2>2, <2>3, <2>4, OnwardTells
  <2>5. CASE Goto("r_failed", mem) /\ UNCHANGED journal
    BY <1>1, <1>2, <1>3, <2>3, <2>5, OnwardTells
  <2> QED BY <2>1, <2>4, <2>5
<1>11. CASE RecoverHealth
  <2> DEFINE m == [mem EXCEPT !.healthy = TRUE]
  <2>1. unit.pc = "r_health" /\ (Goto("r_done", m) \/ Goto("r_failed", mem)) /\ UNCHANGED journal
    BY <1>11 DEF RecoverHealth
  <2>2. Truly(m, mem)
    BY <1>2 DEF Truly, IsJournal, JournalFields
  <2>3. Onward(unit.pc, "r_done") /\ Onward(unit.pc, "r_failed")
    BY <2>1 DEF Onward
  <2> HIDE DEF m
  <2>4. CASE Goto("r_done", m)
    BY <1>1, <1>3, <2>1, <2>2, <2>3, <2>4, OnwardTells
  <2>5. CASE Goto("r_failed", mem)
    BY <1>1, <1>2, <1>3, <2>1, <2>3, <2>5, OnwardTells
  <2> QED BY <2>1, <2>4, <2>5
<1> QED BY <1>5, <1>6, <1>7, <1>8, <1>9, <1>10, <1>11

\* The steps that move the manager, install a release, or stop and start the services.
LEMMA HostStepsTell ==
    ASSUME UpdateAssumption, SystemdInv, SystemdTruth,
           \/ MaterializeManager \/ HandOffManager \/ InitializeLayout \/ Materialize
           \/ Stop \/ RecoverStop \/ StartServices \/ RecoverStart \/ CommandFails
    PROVE  SystemdTruth'
<1> USE DEF Known, Equipped, Armed, Moving, Moved, Cold, Preparatory, PutBack, Restoring
<1>1. DOMAIN pointer = {"active", "blocked", "manager", "record"}
  BY DEF SystemdInv, PointersOK
<1>2. ASSUME unit.pc \in AtSteps PROVE Truly(mem, mem)
  BY <1>2, StepSays DEF Truly
<1>3. CASE MaterializeManager
  <2>1. /\ unit.pc = "manager" /\ Goto("handoff", mem) /\ UNCHANGED journal
        /\ UNCHANGED <<row, request, public, maintenance, current>>
        /\ pointer' = [pointer EXCEPT !.manager = Target]
    BY <1>3 DEF MaterializeManager, Here, apiVars, hostVars
  <2>2. PendingOp' = PendingOp
    BY <1>1, <2>1 DEF PendingOp
  <2>3. unit.pc \in AtSteps /\ Onward(unit.pc, "handoff")
    BY <2>1 DEF AtSteps, Onward
  <2> QED BY <1>2, <2>1, <2>2, <2>3, OnwardTells
<1>4. CASE InitializeLayout
  <2>1. /\ unit.pc = "initialise" /\ Goto("checked", mem) /\ UNCHANGED journal
        /\ UNCHANGED <<row, request, public, maintenance, current>>
        /\ pointer' = [pointer EXCEPT !.record = pointer.manager]
    BY <1>4 DEF InitializeLayout, Here, apiVars, hostVars
  <2>2. PendingOp' = PendingOp
    BY <1>1, <2>1 DEF PendingOp
  <2>3. unit.pc \in AtSteps /\ Onward(unit.pc, "checked")
    BY <2>1 DEF AtSteps, Onward
  <2> QED BY <1>2, <2>1, <2>2, <2>3, OnwardTells
<1>5. CASE HandOffManager
  <2>1. /\ unit.pc = "handoff" /\ UNCHANGED journal
        /\ UNCHANGED <<row, request, public, maintenance, current>>
        /\ \/ UNCHANGED pointer
           \/ pointer' = [pointer EXCEPT !.manager = mem.manager, !.record = mem.manager]
        /\ Goto("initialise", mem) \/ Run("admit", journal[mem.op]) \/ Raise("command")
    BY <1>5 DEF HandOffManager, Here, apiVars, hostVars
  <2>2. PendingOp' = PendingOp
    BY <1>1, <2>1 DEF PendingOp
  <2>3. unit.pc \in AtSteps /\ Onward(unit.pc, "initialise")
    BY <2>1 DEF AtSteps, Onward
  <2>4. CASE Goto("initialise", mem)
    BY <1>2, <2>1, <2>2, <2>3, <2>4, OnwardTells
  <2>5. CASE Raise("command")
    BY <2>1, <2>2, <2>3, <2>5, ProgramTells
  <2>6. CASE Run("admit", journal[mem.op])
    <3>1. /\ unit.pc # "idle" /\ ~Told(mem.op) /\ PendingOp = mem.op
          /\ Alike(journal[mem.op], mem) /\ LogTrue(journal[mem.op])
      BY <2>3, StepSays, UnitSays
    <3>2. unit'.pc = "admit" /\ unit'.stage = "save" /\ mem' = journal[mem.op]
      BY <2>6, RunShape
    <3>3. \A m : AtWork("admit", FALSE, m, maintenance)
      BY DEF AtWork, Finishing, Opened
    <3>4. "admit" \notin {"f_gate"} \cup Opened
      BY DEF Opened
    <3> QED BY <2>1, <2>2, <3>1, <3>2, <3>3, <3>4, GoTells DEF Alike
  <2> QED BY <2>1, <2>4, <2>5, <2>6
<1>6. CASE Materialize
  <2>1. /\ unit.pc = "copy" /\ UNCHANGED <<journal, pointer>>
        /\ UNCHANGED <<row, request, public, maintenance, current>>
        /\ Goto("record", mem) \/ Raise("conflict") \/ Raise("check")
    BY <1>6 DEF Materialize, apiVars
  <2>2. PendingOp' = PendingOp
    BY <2>1 DEF PendingOp
  <2>3. unit.pc \in AtSteps /\ Onward(unit.pc, "record")
    BY <2>1 DEF AtSteps, Onward
  <2>4. CASE Goto("record", mem)
    BY <1>2, <2>1, <2>2, <2>3, <2>4, OnwardTells
  <2>5. CASE Raise("conflict") \/ Raise("check")
    BY <2>1, <2>2, <2>3, <2>5, ProgramTells
  <2> QED BY <2>1, <2>4, <2>5
<1>7. ASSUME NEW pc, Goto(pc, mem) \/ Raise("conflict"), Onward(unit.pc, pc), unit.pc \in AtSteps,
             UNCHANGED <<row, request, public, maintenance, current, journal, pointer>>
      PROVE  SystemdTruth'
  <2>1. PendingOp' = PendingOp
    BY <1>7 DEF PendingOp
  <2>2. CASE Goto(pc, mem)
    BY <1>2, <1>7, <2>1, <2>2, OnwardTells
  <2>3. CASE Raise("conflict")
    BY <1>7, <2>1, <2>3, ProgramTells
  <2> QED BY <1>7, <2>2, <2>3
<1>8. CASE Stop
  <2>1. AfterStop \in {"backing", "backing_runtime", "preflighting", "migrated"}
    BY DEF AfterStop, AfterBackups
  <2>2. /\ unit.pc = "stop" /\ (Goto(AfterStop, mem) \/ Goto("stop", mem) \/ Raise("conflict"))
        /\ UNCHANGED <<row, request, public, maintenance, current, journal, pointer>>
    BY <1>8 DEF Stop, StopServices, OwnerStep, Here, apiVars, hostVars
  <2>3. unit.pc \in AtSteps /\ Onward(unit.pc, AfterStop) /\ Onward(unit.pc, "stop")
    BY <2>1, <2>2 DEF AtSteps, Onward
  <2> QED BY <1>7, <2>2, <2>3
<1>9. CASE RecoverStop
  <2>1. /\ unit.pc = "r_stop" /\ Goto("r_switch", mem)
        /\ UNCHANGED <<row, request, public, maintenance, current, journal, pointer>>
    BY <1>9 DEF RecoverStop, StopServices
  <2>2. unit.pc \in AtSteps /\ Onward(unit.pc, "r_switch")
    BY <2>1 DEF AtSteps, Onward
  <2> QED BY <1>7, <2>1, <2>2
<1>10. CASE StartServices
  <2>1. /\ \/ unit.pc = "start" /\ (Goto("start_consumer", mem) \/ Goto("start", mem) \/ Raise("conflict"))
           \/ unit.pc = "start_consumer" /\ Goto("health", mem)
        /\ UNCHANGED <<row, request, public, maintenance, current, journal, pointer>>
    BY <1>10 DEF StartServices, StartService, OwnerStep, Here, apiVars, hostVars
  <2>2. /\ unit.pc \in AtSteps /\ Onward(unit.pc, "start") /\ Onward(unit.pc, "start_consumer")
        /\ Onward(unit.pc, "health")
    BY <2>1 DEF AtSteps, Onward
  <2> QED BY <1>7, <2>1, <2>2
<1>11. CASE RecoverStart
  <2>1. /\ \/ unit.pc = "r_start" /\ Goto("r_start_consumer", mem)
           \/ unit.pc = "r_start_consumer" /\ Goto("r_health", mem)
        /\ UNCHANGED <<row, request, public, maintenance, current, journal, pointer>>
    BY <1>11 DEF RecoverStart, StartService, apiVars
  <2>2. unit.pc \in AtSteps /\ Onward(unit.pc, "r_start_consumer") /\ Onward(unit.pc, "r_health")
    BY <2>1 DEF AtSteps, Onward
  <2> QED BY <1>7, <2>1, <2>2
<1>12. CASE CommandFails
  <2>1. /\ \/ unit.pc \in Commands /\ Raise("command")
           \/ unit.pc \in RecoveryCommands /\ Goto("r_failed", mem)
        /\ UNCHANGED <<row, request, public, maintenance, current, journal, pointer>>
    BY <1>12 DEF CommandFails, apiVars
  <2>2. unit.pc \in AtSteps
    BY <2>1 DEF AtSteps, Commands, RecoveryCommands
  <2>3. PendingOp' = PendingOp
    BY <2>1 DEF PendingOp
  <2>4. CASE Raise("command")
    BY <2>1, <2>2, <2>3, <2>4, ProgramTells
  <2>5. CASE unit.pc \in RecoveryCommands /\ Goto("r_failed", mem)
    <3>1. Onward(unit.pc, "r_failed")
      BY <2>5 DEF Onward, RecoveryCommands
    <3> QED BY <1>7, <2>1, <2>2, <2>5, <3>1
  <2> QED BY <2>1, <2>4, <2>5
<1> QED BY <1>3, <1>4, <1>5, <1>6, <1>8, <1>9, <1>10, <1>11, <1>12

\* The steps that move what is installed, and the switch that is taken back.
LEMMA SwitchesTellSystemd ==
    ASSUME UpdateAssumption, SystemdInv, SystemdTruth, SwitchCurrent \/ RecoverSwitch
    PROVE  SystemdTruth'
<1> USE DEF Known, Equipped, Armed, Moving, Moved, Cold, Preparatory, PutBack, Restoring
<1>1. /\ unit.pc \in {"switch", "r_switch"} /\ unit.pc \in AtSteps /\ unit.pc \in Moving \cup Restoring
      /\ unit.pc # "idle" /\ UNCHANGED <<row, request, public, maintenance, journal, pointer>>
  BY DEF SwitchCurrent, RecoverSwitch, AtSteps, apiVars
<1>2. /\ ~Told(mem.op) /\ PendingOp = mem.op /\ IsJournal(mem) /\ Alike(journal[mem.op], mem)
      /\ LogTrue(mem) /\ LogTrue(journal[mem.op]) /\ mem.admitted /\ mem.maint /\ journal[mem.op].maint
      /\ mem.phase # "none" /\ Where(unit.pc, unit.stage # "save", mem, maintenance)
  BY <1>1, StepSays, UnitSays
<1>3. mem.phase \notin Settled
  BY <1>1, <1>2 DEF Where, Forward, Settled, Terminal
<1>4. ASSUME NEW j, j = journal[mem.op] PROVE LogTrue(j)'
  <2>1. LogTrue(j) /\ j.maint /\ j.phase \notin Settled
    BY <1>2, <1>3, <1>4 DEF Alike
  <2> QED BY <1>1, <2>1 DEF LogTrue, Justified
<1>5. PendingOp' = PendingOp
  BY <1>1 DEF PendingOp
<1>6. ASSUME NEW m, m.op = mem.op, m.old = mem.old, m.phase = mem.phase, m.maint, m.admitted, m.shown = current',
             NEW pc \in {"verifying", "r_record"}, Goto(pc, m)
      PROVE  SystemdTruth'
  <2>1. unit'.pc = pc /\ unit'.stage = "save" /\ mem' = m
    BY <1>6, GotoShape DEF SystemdInv, UnitOK
  <2>2. LogTrue(mem)'
    BY <1>1, <1>2, <1>3, <1>6, <2>1 DEF LogTrue, Justified
  <2>3. AtWork(unit.pc, unit.stage # "save", mem, maintenance)'
    BY <1>6, <2>1 DEF AtWork, Finishing, Opened
  <2>4. ~Told(mem.op)'
    BY <1>1, <1>2, <1>6, <2>1 DEF Told
  <2>5. UnitTrue'
    BY <1>1, <1>2, <1>6, <2>1, <2>2, <2>3, <2>4 DEF UnitTrue, Opened
  <2> QED BY <1>1, <1>2, <1>4, <1>5, <2>5, WorkTells DEF Alike
<1>7. CASE SwitchCurrent
  <2> DEFINE m == [mem EXCEPT !.switched = TRUE, !.shown = Target]
  <2>1. \/ current' = Target /\ Goto("verifying", m)
        \/ (Raise("check") \/ Raise("conflict")) /\ UNCHANGED current
    BY <1>7 DEF SwitchCurrent
  <2>2. /\ m.op = mem.op /\ m.old = mem.old /\ m.phase = mem.phase /\ (m.maint <=> mem.maint)
        /\ (m.admitted <=> mem.admitted) /\ m.shown = Target
    BY <1>2 DEF IsJournal, JournalFields
  <2> HIDE DEF m
  <2>3. CASE current' = Target /\ Goto("verifying", m)
    BY <1>2, <1>6, <2>2, <2>3
  <2>4. CASE (Raise("check") \/ Raise("conflict")) /\ UNCHANGED current
    BY <1>1, <1>5, <2>4, ProgramTells
  <2> QED BY <2>1, <2>3, <2>4
<1>8. CASE RecoverSwitch
  <2> DEFINE m == [mem EXCEPT !.shown = mem.old]
  <2>1. current' = mem.old /\ Goto("r_record", m)
    BY <1>8 DEF RecoverSwitch
  <2>2. /\ m.op = mem.op /\ m.old = mem.old /\ m.phase = mem.phase /\ (m.maint <=> mem.maint)
        /\ (m.admitted <=> mem.admitted) /\ m.shown = mem.old
    BY <1>2 DEF IsJournal, JournalFields
  <2> HIDE DEF m
  <2> QED BY <1>2, <1>6, <2>1, <2>2
<1> QED BY <1>7, <1>8

-----------------------------------------------------------------------------
(* Admission, and where the program goes on.                               *)

\* A step on the operation whose end is published.
LEMMA EndedTells ==
    ASSUME UpdateAssumption, SystemdInv, SystemdTruth, unit.pc # "idle", Told(mem.op),
           UNCHANGED <<row, current>>, request' = request,
           \A q \in Ops : public'[q].phase = public[q].phase,
           \A q \in Ops : public'[q].fresh \/ public'[q] = public[q],
           \A q \in Ops : journal'[q].phase = journal[q].phase,
           \A q \in Ops \ {mem.op} : journal'[q] = journal[q],
           (PendingOp' = PendingOp /\ maintenance' = maintenance) \/ PendingOp = mem.op,
           unit'.pc # "idle", mem'.op = mem.op, Ended(unit'.pc, unit'.stage)
    PROVE  SystemdTruth'
<1>1. \A q \in Ops : Told(q)' <=> Told(q)
  BY DEF Told
<1>2. \A q \in Ops : Unfinished(q)' <=> Unfinished(q)
  BY <1>1 DEF Unfinished
<1>3. PendingOp = mem.op => \A q \in Ops : ~Unfinished(q)
  BY ToldSays
<1>4. ReportsOK'
  <2>1. \A q \in Ops : row'[q].status \in {"none", "staged"} => public'[q].phase = "none" /\ request' # q
    BY DEF SystemdTruth, ReportsOK
  <2>2. \A q \in Ops : public'[q].phase # "staged"
    BY DEF SystemdTruth, ReportsOK
  <2>3. \A q \in Ops : Pending(row'[q]) /\ public'[q].phase \in Terminal => public'[q].fresh
    BY DEF SystemdTruth, ReportsOK
  <2>4. \A p, q \in Ops : Pending(row'[p]) /\ Pending(row'[q]) => p = q
    BY DEF SystemdTruth, ReportsOK
  <2> QED BY <2>1, <2>2, <2>3, <2>4 DEF ReportsOK
<1>5. \A q \in Ops : "recovery_failed" \in {row'[q].status, public'[q].phase} /\ ~Told(q)' =>
          maintenance' /\ journal'[q].phase \in GivingUp \cup Settled
  <2> SUFFICES ASSUME NEW q \in Ops, "recovery_failed" \in {row[q].status, public[q].phase}, ~Told(q)
               PROVE  maintenance' /\ journal[q].phase \in GivingUp \cup Settled
    BY <1>1
  <2>1. maintenance /\ journal[q].phase \in GivingUp \cup Settled
    BY DEF SystemdTruth, LogsTrue
  <2>2. Unfinished(q)
    BY <2>1 DEF Unfinished, GivingUp, Settled, Terminal
  <2> QED BY <1>3, <2>1, <2>2
<1>6. \A q \in Ops : Unfinished(q)' => LogTrue(journal[q])'
  <2> SUFFICES ASSUME NEW q \in Ops, Unfinished(q), NEW j, j = journal[q] PROVE LogTrue(j)'
    <3>1. \A q \in Ops : Unfinished(q) => journal'[q] = journal[q]
      BY DEF Unfinished
    <3> QED BY <1>2, <3>1
  <2>1. LogTrue(j)
    BY DEF SystemdTruth, LogsTrue
  <2> QED BY <2>1 DEF LogTrue, Justified
<1>7. \A q \in Ops : Pending(row'[q]) /\ Told(q)' => Justified(q, public[q].phase)'
  BY <1>1 DEF SystemdTruth, LogsTrue, Justified
<1>8. /\ \A q \in Ops : row'[q].status \in {"none", "staged"} => journal'[q].phase = "none"
      /\ \A q \in Ops : row'[q].status \in Settled => Told(q)'
      /\ \A q \in Ops : Told(q)' =>
            \/ journal'[q].phase = public'[q].phase
            \/ journal'[q].phase = "none" /\ public'[q].phase = "failed" /\ request' # q
  BY <1>1 DEF SystemdTruth, LogsTrue
<1>9. /\ \A p, q \in Ops : Unfinished(q)' /\ Pending(row'[p]) => p = q
      /\ \A p, q \in Ops : Unfinished(q)' /\ Unfinished(p)' => p = q
  BY <1>2 DEF SystemdTruth, LogsTrue
<1>10. \A q \in Ops : Unfinished(q)' =>
          q = PendingOp' \/ (PendingOp' = NoOp /\ journal'[q].phase = "queued")
  BY <1>2, <1>3 DEF SystemdTruth, LogsTrue
<1>11. LogsTrue'
  BY <1>5, <1>6, <1>7, <1>8, <1>9, <1>10 DEF LogsTrue
<1>12. UnitTrue'
  <2>1. Told(mem.op)'
    BY <1>1, ToldSays DEF Told
  <2>2. Ended(unit.pc, unit.stage)'
    BY DEF Ended
  <2> QED BY <2>1, <2>2 DEF UnitTrue
<1> QED BY <1>4, <1>11, <1>12 DEF SystemdTruth

\* The step that leads such an operation on.
LEMMA EndedGoTells ==
    ASSUME UpdateAssumption, SystemdInv, SystemdTruth, unit.pc # "idle", Told(mem.op),
           UNCHANGED <<row, current, request, public>>,
           UNCHANGED journal \/ (\E m : Save(m) /\ m.op = mem.op /\ m.phase = mem.phase),
           (PendingOp' = PendingOp /\ maintenance' = maintenance) \/ PendingOp = mem.op,
           NEW pc \in Finishing \cup {"process", "prune", "consume"},
           NEW m, m.op = mem.op, Goto(pc, m)
    PROVE  SystemdTruth'
<1>1. /\ mem.op \in Ops /\ Alike(journal[mem.op], mem) /\ DOMAIN journal = Ops
  BY ToldSays DEF SystemdInv, UnitOK, JournalsOK
<1>2. /\ \A q \in Ops : journal'[q].phase = journal[q].phase
      /\ \A q \in Ops \ {mem.op} : journal'[q] = journal[q]
  BY <1>1 DEF Save, Alike
<1>3. unit'.pc = pc /\ unit'.stage = "save" /\ mem' = m
  BY GotoShape DEF SystemdInv, UnitOK
<1>4. unit'.pc # "idle" /\ Ended(unit'.pc, unit'.stage)
  BY <1>3 DEF Ended, Finishing, Opened
<1> QED BY <1>2, <1>3, <1>4, EndedTells

\* Admission, the start of the work and the handler of its errors.
LEMMA AdmissionTells ==
    ASSUME UpdateAssumption, SystemdInv, SystemdTruth, Admit \/ Process \/ Error
    PROVE  SystemdTruth'
<1> USE DEF Known, Equipped, Armed, Moving, Moved, Cold, Preparatory, PutBack, Restoring, Finishing, Opened
<1>1. /\ unit.pc \in {"admit", "process", "error"}
      /\ UNCHANGED <<row, request, public, maintenance, current>> /\ PendingOp' = PendingOp
  BY DEF Admit, Process, Error, Here, apiVars, hostVars, PendingOp
<1>2. /\ IsJournal(mem) /\ mem.op \in Ops /\ mem.op # NoOp
      /\ Place(unit.pc, mem, unit.then)
  BY <1>1, OpIsNotNoOp DEF SystemdInv, UnitOK, Rows
<1>3. Told(mem.op) => mem.phase \in Settled /\ unit.pc # "error"
  BY <1>1, ToldSays DEF Ended
<1>4. ~Told(mem.op) => /\ LogTrue(mem) /\ AtWork(unit.pc, unit.stage # "save", mem, maintenance)
                       /\ PendingOp = mem.op
  <2> SUFFICES ASSUME ~Told(mem.op)
               PROVE  LogTrue(mem) /\ AtWork(unit.pc, unit.stage # "save", mem, maintenance) /\ PendingOp = mem.op
    OBVIOUS
  <2>1. /\ LogTrue(mem) /\ AtWork(unit.pc, unit.stage # "save", mem, maintenance)
        /\ Unfinished(mem.op) /\ Alike(journal[mem.op], mem)
    BY <1>1, UnitSays
  <2>2. PendingOp = mem.op \/ mem.phase \in Settled
    BY <1>1, <1>2 DEF Place, Elsewhere
  <2>3. PendingOp = mem.op \/ mem.phase = "queued"
    BY <1>2, <2>1 DEF SystemdTruth, LogsTrue, Alike
  <2> QED BY <2>1, <2>2, <2>3 DEF Settled, Terminal
<1>5. Settled = Terminal \ {"recovery_failed"}
  BY DEF Settled
<1>6. ASSUME NEW pc, NEW m, Goto(pc, m), ~Told(mem.op), m.op = mem.op, m.phase = mem.phase, LogTrue(m),
             UNCHANGED journal \/ Save(m), pc \notin Moving \cup Restoring \cup {"f_gate"} \cup Opened,
             AtWork(pc, FALSE, m, maintenance)
      PROVE  SystemdTruth'
  <2>1. unit'.pc = pc /\ unit'.stage = "save" /\ mem' = m
    BY <1>6, GotoShape DEF SystemdInv, UnitOK
  <2> HIDE DEF Known, Equipped, Armed, Moving, Moved, Cold, Preparatory, PutBack, Restoring, Finishing, Opened
  <2> QED BY <1>1, <1>4, <1>6, <2>1, GoTells
<1>7. CASE Admit
  <2>1. CASE Goto("process", mem) /\ UNCHANGED journal /\ (mem.phase \in Settled \/ mem.admitted)
    <3>1. CASE Told(mem.op)
      BY <1>1, <2>1, <3>1, EndedGoTells
    <3>2. CASE ~Told(mem.op)
      <4>1. AtWork("process", FALSE, mem, maintenance)
        BY <2>1 DEF AtWork
      <4> QED BY <1>4, <1>6, <2>1, <3>2, <4>1
    <3> QED BY <3>1, <3>2
  <2>2. ASSUME mem.phase \notin Settled, ~mem.admitted PROVE ~Told(mem.op) /\ ~mem.maint /\ ~mem.stopped
    BY <1>3, <1>4, <2>2 DEF LogTrue
  <2>3. ASSUME mem.phase \notin Settled, ~mem.admitted,
               NEW m, m = [mem EXCEPT !.admitted = TRUE], Goto("process", m), Save(m)
        PROVE  SystemdTruth'
    <3>1. /\ m.op = mem.op /\ m.phase = mem.phase /\ m.old = mem.old /\ m.shown = mem.shown
          /\ (m.maint <=> mem.maint) /\ (m.stopped <=> mem.stopped) /\ (m.switched <=> mem.switched) /\ m.admitted
      BY <1>2, <2>3 DEF IsJournal, JournalFields
    <3>2. LogTrue(m)
      BY <1>4, <2>2, <2>3, <3>1 DEF LogTrue
    <3>3. AtWork("process", FALSE, m, maintenance)
      BY <3>1 DEF AtWork
    <3> QED BY <1>6, <2>2, <2>3, <3>1, <3>2, <3>3
  <2>4. ASSUME mem.phase \notin Settled, ~mem.admitted,
               NEW m, m = [mem EXCEPT !.maint = mem.maint \/ mem.stopped], Goto("refused", m), UNCHANGED journal
        PROVE  SystemdTruth'
    <3>1. /\ m.op = mem.op /\ m.phase = mem.phase /\ m.old = mem.old /\ m.shown = mem.shown
          /\ ~m.maint /\ (m.stopped <=> mem.stopped) /\ (m.switched <=> mem.switched)
          /\ (m.admitted <=> mem.admitted)
      BY <1>2, <2>2, <2>4 DEF IsJournal, JournalFields
    <3>2. LogTrue(m)
      BY <1>4, <2>2, <2>4, <3>1 DEF LogTrue
    <3>3. AtWork("refused", FALSE, m, maintenance)
      BY <2>4, <3>1 DEF AtWork
    <3> QED BY <1>6, <2>2, <2>4, <3>1, <3>2, <3>3
  <2> QED BY <1>5, <1>7, <2>1, <2>3, <2>4 DEF Admit
<1>8. CASE Process
  <2>1. UNCHANGED journal /\ unit.pc = "process"
    BY <1>8 DEF Process
  <2>2. CASE mem.phase \in Settled
    <3>1. Goto(IF PendingOp = mem.op THEN "finish" ELSE "consume", mem)
      BY <1>5, <1>8, <2>2 DEF Process, Terminal
    <3>2. CASE Told(mem.op)
      BY <1>1, <2>1, <3>1, <3>2, EndedGoTells
    <3>3. CASE ~Told(mem.op)
      <4>1. AtWork("finish", FALSE, mem, maintenance)
        BY <2>2 DEF AtWork
      <4> QED BY <1>4, <1>6, <2>1, <3>1, <3>3, <4>1
    <3> QED BY <3>2, <3>3
  <2>3. CASE mem.phase \notin Settled
    <3>1. ~Told(mem.op) /\ mem.admitted /\ LogTrue(mem)
      BY <1>3, <1>4, <2>1, <2>3 DEF AtWork
    <3>2. \/ Goto("recover", mem) \/ Goto(Point(mem), mem) \/ Raise("interrupted")
      BY <1>5, <1>8, <2>3 DEF Process
    <3>3. Point(mem) \in {"identify", "verify", "precheck", "own", "switching", "stopping"}
      BY DEF Point
    <3>4. ASSUME NEW pc \in {"recover", "identify", "verify", "precheck", "own", "switching", "stopping"},
                 Goto(pc, mem)
          PROVE  SystemdTruth'
      <4>1. AtWork(pc, FALSE, mem, maintenance)
        BY <3>1, <3>4 DEF AtWork
      <4> QED BY <1>6, <2>1, <3>1, <3>4, <4>1
    <3>5. CASE Raise("interrupted")
      <4> HIDE DEF Known, Equipped, Armed, Moving, Moved, Cold, Preparatory, PutBack, Restoring, Finishing, Opened
      <4> QED BY <1>1, <1>4, <2>1, <2>3, <3>1, <3>5, RaiseTells
    <3> QED BY <3>2, <3>3, <3>4, <3>5
  <2> QED BY <2>2, <2>3
<1>9. CASE Error
  <2>1. /\ UNCHANGED journal /\ unit.pc = "error" /\ ~Told(mem.op)
        /\ Goto(IF Disrupted(mem) THEN "recover" ELSE "failing", mem)
    BY <1>3, <1>9 DEF Error
  <2>2. LogTrue(mem) /\ AtWork("error", unit.stage # "save", mem, maintenance)
    BY <1>4, <2>1
  <2>3. Disrupted(mem) => AtWork("recover", FALSE, mem, maintenance)
    BY <2>2 DEF AtWork, LogTrue, Disrupted
  <2>4. ~Disrupted(mem) => AtWork("failing", FALSE, mem, maintenance)
    BY <2>2 DEF AtWork, Disrupted
  <2> QED BY <1>6, <2>1, <2>2, <2>3, <2>4
<1> QED BY <1>7, <1>8, <1>9

\* The two steps that write what recovery relies on: the version that runs, and the marker.
LEMMA IntentionsTell ==
    ASSUME UpdateAssumption, SystemdInv, SystemdTruth, Identify \/ OwnPreparing
    PROVE  SystemdTruth'
<1> USE DEF Known, Equipped, Armed, Moving, Moved, Cold, Preparatory, PutBack, Restoring
<1>1. /\ unit.pc \in {"identify", "own"} /\ unit.pc \in AtSteps
      /\ UNCHANGED <<row, request, public, maintenance, current>> /\ PendingOp' = PendingOp
  BY DEF Identify, OwnPreparing, SaveStep, AtSteps, Here, apiVars, hostVars, PendingOp
<1>2. /\ unit.pc # "idle" /\ ~Told(mem.op) /\ PendingOp = mem.op /\ IsJournal(mem) /\ LogTrue(mem)
      /\ mem.admitted /\ Where(unit.pc, unit.stage # "save", mem, maintenance)
  BY <1>1, StepSays
<1>3. mem.phase \notin Settled \cup GivingUp
  BY <1>1, <1>2 DEF Where, Forward, Settled, GivingUp, Terminal
<1>4. ASSUME NEW pc \in {"verify", "preparing"}, NEW m, Goto(pc, m), UNCHANGED journal \/ Save(m),
             m.op = mem.op, m.phase = mem.phase, m.admitted, LogTrue(m)
      PROVE  SystemdTruth'
  <2>1. unit'.pc = pc /\ unit'.stage = "save" /\ mem' = m
    BY <1>4, GotoShape DEF SystemdInv, UnitOK
  <2>2. AtWork(pc, FALSE, m, maintenance)
    BY <1>4 DEF AtWork, Finishing, Opened
  <2>3. pc \notin Moving \cup Restoring \cup {"f_gate"} \cup Opened
    BY DEF Opened
  <2> HIDE DEF Known, Equipped, Armed, Moving, Moved, Cold, Preparatory, PutBack, Restoring
  <2> QED BY <1>1, <1>2, <1>4, <2>1, <2>2, <2>3, GoTells
<1>5. CASE Identify
  <2> DEFINE m == [mem EXCEPT !.old = current, !.shown = current]
  <2>1. \/ Save(m) /\ Goto("verify", m) /\ Intent(mem.op).expected = current
        \/ Raise("check") /\ UNCHANGED journal
    BY <1>5 DEF Identify, SaveStep
  <2>2. /\ m.op = mem.op /\ m.phase = mem.phase /\ (m.maint <=> mem.maint)
        /\ (m.admitted <=> mem.admitted) /\ m.shown = current /\ m.old = current
        /\ (m.stopped <=> mem.stopped) /\ (m.switched <=> mem.switched)
    BY <1>2 DEF IsJournal, JournalFields
  <2> HIDE DEF m
  <2>3. CASE Save(m) /\ Goto("verify", m) /\ Intent(mem.op).expected = current
    <3>1. LogTrue(m)
      BY <1>2, <1>3, <2>2, <2>3 DEF LogTrue, Intent
    <3> QED BY <1>2, <1>4, <2>2, <2>3, <3>1
  <2>4. CASE Raise("check") /\ UNCHANGED journal
    BY <1>1, <2>4, ProgramTells
  <2> QED BY <2>1, <2>3, <2>4
<1>6. CASE OwnPreparing
  <2> DEFINE m == [mem EXCEPT !.maint = TRUE]
  <2>1. UNCHANGED journal /\ (Goto("preparing", m) \/ Raise("conflict"))
    BY <1>6 DEF OwnPreparing
  <2>2. /\ m.op = mem.op /\ m.phase = mem.phase /\ m.maint /\ m.old = mem.old
        /\ (m.admitted <=> mem.admitted) /\ m.shown = mem.shown
        /\ (m.stopped <=> mem.stopped) /\ (m.switched <=> mem.switched)
    BY <1>2 DEF IsJournal, JournalFields
  <2> HIDE DEF m
  <2>3. CASE Goto("preparing", m)
    <3>1. LogTrue(m)
      BY <1>2, <1>3, <2>2 DEF LogTrue
    <3> QED BY <1>2, <1>4, <2>1, <2>2, <2>3, <3>1
  <2>4. CASE Raise("conflict")
    BY <1>1, <2>1, <2>4, ProgramTells
  <2> QED BY <2>1, <2>3, <2>4
<1> QED BY <1>5, <1>6

-----------------------------------------------------------------------------
(* _finish, pruning and the end of the run.                                *)

\* The end of an operation that is not published yet.
LEMMA UntoldSays ==
    ASSUME UpdateAssumption, SystemdInv, SystemdTruth, ~Told(mem.op),
           unit.pc \in Finishing \cup {"prune"}
    PROVE  /\ unit.pc # "prune" /\ unit.pc # "idle" /\ PendingOp = mem.op /\ mem.op \in Ops /\ mem.op # NoOp
           /\ IsJournal(mem) /\ LogTrue(mem) /\ mem.phase \in Terminal
           /\ mem.phase = "recovery_failed" => maintenance /\ mem.maint
           /\ unit.pc \in {"f_gate"} \cup Opened => mem.phase = "recovery_failed"
           /\ unit.pc = "f_release" => pointer.blocked = mem.op /\ unit.then = "consume"
<1>1. unit.pc # "idle" /\ unit.pc \notin {"process", "done"}
  BY DEF Finishing, Opened
<1>2. /\ mem.op \in Ops /\ Unfinished(mem.op) /\ IsJournal(mem) /\ LogTrue(mem)
      /\ Alike(journal[mem.op], mem)
      /\ AtWork(unit.pc, unit.stage # "save", mem, maintenance)
  BY <1>1, UnitSays
<1>3. /\ Place(unit.pc, mem, unit.then) /\ Where(unit.pc, unit.stage # "save", mem, maintenance)
      /\ mem.op # NoOp
  BY <1>1, <1>2, OpIsNotNoOp DEF SystemdInv, UnitOK
<1>4. unit.pc # "prune"
  <2>1. unit.pc = "prune" => PendingOp = NoOp /\ mem.phase \in Settled
    BY <1>3 DEF Place
  <2>2. PendingOp = mem.op \/ mem.phase = "queued"
    BY <1>2 DEF SystemdTruth, LogsTrue, Alike
  <2> QED BY <1>3, <2>1, <2>2 DEF Settled, Terminal
<1>5. unit.pc \in Finishing /\ mem.phase \in Terminal
  BY <1>3, <1>4 DEF Where
<1>6. mem.phase = "recovery_failed" => maintenance /\ mem.maint
  BY <1>2, <1>5 DEF AtWork, LogTrue, GivingUp, Settled
<1>7. unit.pc \in {"f_gate"} \cup Opened => mem.phase = "recovery_failed"
  BY <1>1, <1>5 DEF SystemdTruth, UnitTrue, Settled
<1>8. PendingOp = mem.op
  <2>1. mem.phase # "queued"
    BY <1>5 DEF Terminal
  <2> QED BY <1>2, <2>1 DEF SystemdTruth, LogsTrue, Alike
<1>9. unit.pc = "f_release" => pointer.blocked = mem.op /\ unit.then = "consume"
  BY <1>1, <1>3, <1>7 DEF Where, Place, Opened, Settled
<1> QED BY <1>1, <1>2, <1>3, <1>4, <1>5, <1>6, <1>7, <1>8, <1>9

\* The steps that end an operation.
LEMMA FinishStepsTell ==
    ASSUME UpdateAssumption, SystemdInv, SystemdTruth,
           \/ Finish \/ FinishPublish \/ FinishGate \/ FinishBlock \/ FinishCleanup
           \/ FinishUnblock \/ FinishRelease \/ Prune
    PROVE  SystemdTruth'
<1>1. /\ unit.pc \in Finishing \cup {"prune"} /\ unit.pc # "idle"
      /\ UNCHANGED <<row, request, current>>
  BY DEF Finish, FinishPublish, FinishGate, FinishBlock, FinishCleanup, FinishUnblock, FinishRelease, Prune,
         SaveStep, Here, apiVars, hostVars, Finishing, Opened
<1>2. /\ IsJournal(mem) /\ mem.op \in Ops /\ mem.op # NoOp /\ Place(unit.pc, mem, unit.then)
      /\ DOMAIN pointer = {"active", "blocked", "manager", "record"}
      /\ PendingOp # NoOp /\ unit.pc = "f_release" => PendingOp = mem.op
      /\ unit.pc \in Finishing \ {"f_release"} => PendingOp = mem.op
  BY <1>1, OpIsNotNoOp DEF SystemdInv, UnitOK, Rows, PointersOK, Place, Elsewhere, Finishing, Opened
<1>3. ASSUME NEW pc \in {"f_block", "f_cleanup", "f_unblock", "f_release", "consume"}, NEW m,
             Goto(pc, m), ~Told(mem.op), UNCHANGED <<public, journal, maintenance>>, m = mem,
             mem.phase = "recovery_failed", PendingOp' = PendingOp
      PROVE  SystemdTruth'
  <2>1. unit'.pc = pc /\ unit'.stage = "save" /\ mem' = m
    BY <1>3, GotoShape DEF SystemdInv, UnitOK
  <2>2. PendingOp = mem.op /\ LogTrue(m) /\ maintenance
    BY <1>1, <1>3, UntoldSays
  <2>3. mem.phase \notin Settled
    BY <1>3 DEF Settled
  <2>4. pc \notin Moving \cup Restoring
    BY DEF Moving, Moved, Cold, PutBack, Restoring
  <2>5. AtWork(pc, FALSE, m, maintenance)
    BY <1>3, <2>2, <2>4 DEF AtWork, Known, Equipped, Armed, Preparatory, Moving, Moved, Cold, PutBack, Restoring
  <2> QED BY <1>1, <1>3, <2>1, <2>2, <2>3, <2>4, <2>5, GoTells
<1>4. CASE Finish
  <2> DEFINE m == [mem EXCEPT !.maint = mem.phase = "recovery_failed"]
  <2>1. Save(m) /\ Goto("f_publish", m) /\ UNCHANGED <<public, pointer, maintenance>> /\ unit.pc = "finish"
    BY <1>4 DEF Finish, SaveStep, Here
  <2>2. /\ m.op = mem.op /\ m.phase = mem.phase /\ m.old = mem.old /\ m.shown = mem.shown
        /\ (m.maint <=> mem.phase = "recovery_failed") /\ (m.admitted <=> mem.admitted)
        /\ (m.stopped <=> mem.stopped) /\ (m.switched <=> mem.switched)
    BY <1>2 DEF IsJournal, JournalFields
  <2> HIDE DEF m
  <2>3. PendingOp' = PendingOp /\ "f_publish" \in Finishing
    BY <2>1 DEF PendingOp, Finishing
  <2>4. CASE Told(mem.op)
    BY <1>1, <2>1, <2>2, <2>3, <2>4, EndedGoTells
  <2>5. CASE ~Told(mem.op)
    <3>1. /\ PendingOp = mem.op /\ LogTrue(mem) /\ mem.phase \in Terminal
          /\ mem.phase = "recovery_failed" => maintenance /\ mem.maint
      BY <1>1, <2>5, UntoldSays
    <3>2. LogTrue(m)
      BY <2>2, <3>1 DEF LogTrue, GivingUp, Settled, Terminal
    <3>3. "f_publish" \notin Moving \cup Restoring \cup {"f_gate"} \cup Opened
      BY DEF Moving, Moved, Cold, PutBack, Restoring, Opened
    <3>4. AtWork("f_publish", FALSE, m, maintenance)
      BY <2>2, <3>1 DEF AtWork, Known, Equipped, Armed, Preparatory, Moving, Moved, Cold, PutBack, Restoring,
                        Settled
    <3>5. unit'.pc = "f_publish" /\ unit'.stage = "save" /\ mem' = m
      BY <2>1, GotoShape DEF SystemdInv, UnitOK
    <3> QED BY <1>1, <2>1, <2>2, <2>3, <2>5, <3>1, <3>2, <3>3, <3>4, <3>5, GoTells
  <2> QED BY <2>4, <2>5
<1>5. CASE FinishPublish
  <2>1. /\ PublishStatus(mem) /\ Goto("f_gate", mem) /\ UNCHANGED <<journal, pointer, maintenance>>
        /\ unit.pc = "f_publish"
    BY <1>5 DEF FinishPublish
  <2>2. unit'.pc = "f_gate" /\ unit'.stage = "save" /\ mem' = mem
    BY <2>1, GotoShape DEF SystemdInv, UnitOK
  <2>3. CASE Told(mem.op)
    <3>1. mem.phase \in Settled /\ journal[mem.op].phase = mem.phase
      BY <1>1, <2>3, ToldSays DEF SystemdInv, UnitOK, Alike
    <3>2. public[mem.op].phase = mem.phase /\ mem.phase # "migrating" /\ mem.phase # "none"
      BY <1>2, <2>3, <3>1 DEF SystemdTruth, LogsTrue, Settled, Terminal
    <3>3. \/ UNCHANGED public
          \/ public' = [public EXCEPT ![mem.op] = [phase |-> mem.phase, fresh |-> TRUE]]
      BY <2>1, <3>2 DEF PublishStatus
    <3>4. DOMAIN public = Ops
      BY DEF SystemdInv, RequestsOK
    <3>5. /\ \A q \in Ops : public'[q].phase = public[q].phase
          /\ \A q \in Ops : public'[q].fresh \/ public'[q] = public[q]
      BY <1>2, <3>2, <3>3, <3>4
    <3>6. PendingOp' = PendingOp
      BY <2>1 DEF PendingOp
    <3>7. Ended(unit'.pc, unit'.stage) /\ unit'.pc # "idle" /\ mem'.op = mem.op
      BY <2>2 DEF Ended, Finishing
    <3> QED BY <1>1, <2>1, <2>3, <3>5, <3>6, <3>7, EndedTells
  <2>4. CASE ~Told(mem.op)
    <3>1. /\ PendingOp = mem.op /\ (mem.phase = "recovery_failed" => maintenance)
          /\ mem.phase \in Terminal
      BY <1>1, <2>4, UntoldSays
    <3>2. "f_gate" \in Finishing /\ "f_gate" \notin Moving \cup Restoring
      BY DEF Moving, Moved, Cold, PutBack, Restoring, Finishing
    <3>3. AtWork(unit.pc, unit.stage # "save", mem, maintenance)'
      BY <2>1, <2>2, <3>1 DEF AtWork, Known, Equipped, Armed, Preparatory, Moving, Moved, Cold, PutBack,
                              Restoring, Settled
    <3>4. Ended(unit.pc, unit.stage)'
      BY <2>2, <3>2 DEF Ended
    <3> QED BY <1>1, <2>1, <2>2, <2>4, <3>1, <3>2, <3>3, <3>4, PublishTells
  <2> QED BY <2>3, <2>4
<1>6. CASE FinishGate
  <2>1. /\ maintenance' = mem.maint /\ Goto("f_block", mem) /\ UNCHANGED <<public, journal, pointer>>
        /\ unit.pc = "f_gate"
    BY <1>6 DEF FinishGate
  <2>2. PendingOp = mem.op
    BY <1>2, <2>1 DEF Finishing
  <2>3. "f_block" \notin Moving \cup Restoring /\ Ended("f_block", "save")
    BY DEF Moving, Moved, Cold, PutBack, Restoring, Ended, Finishing, Opened
  <2>4. ~Told(mem.op) => AtWork("f_block", FALSE, mem, mem.maint)
    <3>1. ~Told(mem.op) => mem.phase = "recovery_failed" /\ mem.maint
      BY <1>1, <2>1, UntoldSays
    <3> QED BY <3>1 DEF AtWork, Known, Equipped, Armed, Preparatory, Moving, Moved, Cold, PutBack, Restoring,
                        Settled
  <2> QED BY <1>1, <2>1, <2>2, <2>3, <2>4, GateTells
<1>7. CASE FinishBlock
  <2>1. /\ pointer' = IF mem.phase = "recovery_failed" THEN [pointer EXCEPT !.blocked = mem.op] ELSE pointer
        /\ Goto("f_cleanup", mem) /\ UNCHANGED <<public, journal, maintenance>> /\ unit.pc = "f_block"
    BY <1>7 DEF FinishBlock, Here
  <2>2. PendingOp = mem.op /\ PendingOp' = PendingOp
    BY <1>2, <2>1 DEF PendingOp, Finishing, Opened
  <2>3. CASE Told(mem.op)
    <3>1. "f_cleanup" \in Finishing
      BY DEF Finishing, Opened
    <3> QED BY <1>1, <2>1, <2>2, <2>3, <3>1, EndedGoTells
  <2>4. CASE ~Told(mem.op)
    <3>1. mem.phase = "recovery_failed"
      BY <1>1, <2>1, <2>4, UntoldSays DEF Opened
    <3> QED BY <1>3, <2>1, <2>2, <2>4, <3>1
  <2> QED BY <2>3, <2>4
<1>8. CASE FinishCleanup
  <2>1. Goto("f_unblock", mem) /\ UNCHANGED <<public, journal, maintenance, pointer>> /\ unit.pc = "f_cleanup"
    BY <1>8 DEF FinishCleanup
  <2>2. PendingOp' = PendingOp
    BY <2>1 DEF PendingOp
  <2>3. CASE Told(mem.op)
    <3>1. "f_unblock" \in Finishing
      BY DEF Finishing, Opened
    <3> QED BY <1>1, <2>1, <2>2, <2>3, <3>1, EndedGoTells
  <2>4. CASE ~Told(mem.op)
    <3>1. mem.phase = "recovery_failed"
      BY <1>1, <2>1, <2>4, UntoldSays DEF Opened
    <3> QED BY <1>3, <2>1, <2>2, <2>4, <3>1
  <2> QED BY <2>3, <2>4
<1>9. CASE FinishUnblock
  <2>1. /\ pointer' = IF mem.phase # "recovery_failed" /\ pointer.blocked = mem.op
                      THEN [pointer EXCEPT !.blocked = NoOp] ELSE pointer
        /\ Goto("f_release", mem) /\ UNCHANGED <<public, journal, maintenance>> /\ unit.pc = "f_unblock"
    BY <1>9 DEF FinishUnblock, Here
  <2>2. PendingOp = mem.op
    BY <1>2, <2>1 DEF Finishing, Opened
  <2>3. CASE Told(mem.op)
    <3>1. "f_release" \in Finishing
      BY DEF Finishing, Opened
    <3> QED BY <1>1, <2>1, <2>2, <2>3, <3>1, EndedGoTells
  <2>4. CASE ~Told(mem.op)
    <3>1. mem.phase = "recovery_failed"
      BY <1>1, <2>1, <2>4, UntoldSays DEF Opened
    <3>2. PendingOp' = PendingOp
      BY <2>1, <3>1 DEF PendingOp
    <3> QED BY <1>3, <2>1, <2>4, <3>1, <3>2
  <2> QED BY <2>3, <2>4
<1>10. CASE FinishRelease
  <2>1. /\ pointer' = IF pointer.active = mem.op THEN [pointer EXCEPT !.active = NoOp] ELSE pointer
        /\ Goto(unit.then, mem) /\ UNCHANGED <<public, journal, maintenance>> /\ unit.pc = "f_release"
    BY <1>10 DEF FinishRelease, Here
  <2>2. CASE Told(mem.op)
    <3>1. unit.then \in {"prune", "consume"}
      BY <1>2 DEF Place
    <3>2. PendingOp = mem.op \/ PendingOp' = PendingOp
      <4>1. PendingOp = NoOp => pointer.active # mem.op
        BY <1>2 DEF PendingOp
      <4>2. pointer.active # mem.op => PendingOp' = PendingOp
        BY <2>1 DEF PendingOp
      <4> QED BY <1>2, <2>1, <4>1, <4>2
    <3> QED BY <1>1, <2>1, <2>2, <3>1, <3>2, EndedGoTells
  <2>3. CASE ~Told(mem.op)
    <3>1. mem.phase = "recovery_failed" /\ pointer.blocked = mem.op /\ unit.then = "consume" /\ PendingOp = mem.op
      BY <1>1, <2>1, <2>3, UntoldSays DEF Opened
    <3>2. PendingOp' = PendingOp
      BY <1>2, <2>1, <3>1 DEF PendingOp
    <3> QED BY <1>3, <2>1, <2>3, <3>1, <3>2
  <2> QED BY <2>2, <2>3
<1>11. CASE Prune
  <2>1. Goto("consume", mem) /\ UNCHANGED <<public, journal, maintenance, pointer>> /\ unit.pc = "prune"
    BY <1>11 DEF Prune
  <2>2. PendingOp' = PendingOp
    BY <2>1 DEF PendingOp
  <2>3. Told(mem.op)
    BY <1>1, <2>1, UntoldSays
  <2> QED BY <1>1, <2>1, <2>2, <2>3, EndedGoTells
<1> QED BY <1>4, <1>5, <1>6, <1>7, <1>8, <1>9, <1>10, <1>11

-----------------------------------------------------------------------------
(* Claims, crashes and the API.                                            *)

\* What a step tells that writes no row, status or journal.
LEMMA LogsStay ==
    ASSUME UpdateAssumption, ReportsOK, LogsTrue,
           UNCHANGED <<row, public, maintenance, current, journal>>, request' \in {request, NoOp},
           PendingOp' = PendingOp \/ \A q \in Ops : Unfinished(q) => q = PendingOp'
    PROVE  ReportsOK' /\ LogsTrue'
<1>1. \A q \in Ops : (Told(q)' <=> Told(q)) /\ (Unfinished(q)' <=> Unfinished(q)) /\ NoOp # q
  BY OpIsNotNoOp DEF Told, Unfinished
<1>2. ReportsOK'
  BY <1>1 DEF ReportsOK
<1>3. \A q \in Ops : Unfinished(q)' => LogTrue(journal[q])'
  <2> SUFFICES ASSUME NEW q \in Ops, Unfinished(q), NEW j, j = journal[q] PROVE LogTrue(j)'
    BY <1>1
  <2>1. LogTrue(j)
    BY DEF LogsTrue
  <2> QED BY <2>1 DEF LogTrue, Justified
<1>4. \A q \in Ops : Pending(row'[q]) /\ Told(q)' => Justified(q, public[q].phase)'
  BY <1>1 DEF LogsTrue, Justified
<1>5. /\ \A q \in Ops : row'[q].status \in {"none", "staged"} => journal'[q].phase = "none"
      /\ \A q \in Ops : row'[q].status \in Settled => Told(q)'
      /\ \A q \in Ops : Told(q)' =>
            \/ journal'[q].phase = public'[q].phase
            \/ journal'[q].phase = "none" /\ public'[q].phase = "failed" /\ request' # q
  BY <1>1 DEF LogsTrue
<1>6. /\ \A p, q \in Ops : Unfinished(q)' /\ Pending(row'[p]) => p = q
      /\ \A p, q \in Ops : Unfinished(q)' /\ Unfinished(p)' => p = q
      /\ \A q \in Ops : "recovery_failed" \in {row'[q].status, public'[q].phase} /\ ~Told(q)' =>
            maintenance' /\ journal'[q].phase \in GivingUp \cup Settled
  BY <1>1 DEF LogsTrue
<1>7. \A q \in Ops : Unfinished(q)' =>
          q = PendingOp' \/ (PendingOp' = NoOp /\ journal'[q].phase = "queued")
  BY <1>1 DEF LogsTrue
<1> QED BY <1>2, <1>3, <1>4, <1>5, <1>6, <1>7 DEF LogsTrue

\* The executor is not there.
LEMMA IdleTells ==
    ASSUME UpdateAssumption, SystemdTruth, unit'.pc = "idle",
           UNCHANGED <<row, public, maintenance, current, journal, pointer>>, request' \in {request, NoOp}
    PROVE  SystemdTruth'
<1>1. PendingOp' = PendingOp
  BY DEF PendingOp
<1>2. UnitTrue'
  BY DEF UnitTrue
<1> QED BY <1>1, <1>2, LogsStay DEF SystemdTruth

\* The executor takes up the journal of an operation.
LEMMA ClaimTells ==
    ASSUME UpdateAssumption, SystemdTruth, UNCHANGED <<row, request, public, maintenance, current, journal>>,
           PendingOp' = PendingOp \/ \A q \in Ops : Unfinished(q) => q = PendingOp',
           NEW o \in Ops, NEW pc \in {"admit", "process"}, NEW m,
           unit'.pc = pc, unit'.stage = "save", mem' = m, m.op = o,
           ~Told(o) => pc = "admit" /\ LogTrue(m)
    PROVE  SystemdTruth'
<1>1. ReportsOK' /\ LogsTrue'
  BY LogsStay DEF SystemdTruth
<1>2. Told(mem.op)' <=> Told(o)
  BY DEF Told
<1>3. Ended(unit.pc, unit.stage)'
  BY DEF Ended
<1>4. ~Told(o) => LogTrue(mem)' /\ AtWork(unit.pc, unit.stage # "save", mem, maintenance)'
  <2>1. ~Told(o) => LogTrue(mem)'
    BY DEF LogTrue, Justified
  <2>2. ~Told(o) => AtWork(unit.pc, unit.stage # "save", mem, maintenance)'
    BY DEF AtWork, Known, Equipped, Armed, Preparatory, Moving, Moved, Cold, PutBack, Finishing, Opened
  <2> QED BY <2>1, <2>2
<1>5. pc \notin Moving \cup Restoring \cup {"f_gate"} \cup Opened
  BY DEF Moving, Moved, Cold, PutBack, Restoring, Opened
<1>6. UnitTrue'
  BY <1>2, <1>3, <1>4, <1>5 DEF UnitTrue
<1> QED BY <1>1, <1>6 DEF SystemdTruth

\* A claimed operation that is not ended is not told to be.
LEMMA QueuedIsUntold ==
    ASSUME SystemdTruth, NEW q \in Ops, journal[q].phase \notin Settled \cup {"none"}
    PROVE  Unfinished(q)
  BY DEF SystemdTruth, LogsTrue, Told, Unfinished

\* The executor claims what is pending.
LEMMA ClaimStepsTell ==
    ASSUME UpdateAssumption, SystemdInv, SystemdTruth, ClaimPending \/ ClaimOrphan \/ Activate
    PROVE  SystemdTruth'
<1>1. UNCHANGED <<row, request, public, maintenance, current, journal>>
  BY DEF ClaimPending, ClaimOrphan, Activate, Here, apiVars, hostVars
<1>2. DOMAIN pointer = {"active", "blocked", "manager", "record"}
  BY DEF SystemdInv, PointersOK
<1>3. ASSUME NEW o \in Ops, journal[o].phase # "none", Run("admit", journal[o]),
             PendingOp' = PendingOp \/ \A q \in Ops : Unfinished(q) => q = PendingOp'
      PROVE  SystemdTruth'
  <2>1. journal[o].op = o
    BY <1>3 DEF SystemdInv, JournalsOK
  <2>2. ~Told(o) => LogTrue(journal[o])
    BY <1>3 DEF SystemdTruth, LogsTrue, Unfinished
  <2>3. unit'.pc = "admit" /\ unit'.stage = "save" /\ mem' = journal[o]
    BY <1>3, RunShape
  <2> QED BY <1>1, <1>3, <2>1, <2>2, <2>3, ClaimTells
<1>4. CASE ClaimPending
  <2>1. PendingOp # NoOp /\ Run("admit", journal[PendingOp]) /\ UNCHANGED pointer
    BY <1>4 DEF ClaimPending
  <2>2. PendingOp \in Ops /\ journal[PendingOp].phase # "none"
    BY <2>1 DEF SystemdInv, JournalsOK, Rows
  <2>3. PendingOp' = PendingOp
    BY <2>1 DEF PendingOp
  <2> QED BY <1>3, <2>1, <2>2, <2>3
<1>5. CASE ClaimOrphan
  <2>1. PICK o \in Orphans : pointer' = [pointer EXCEPT !.active = o] /\ Run("admit", journal[o])
    BY <1>5 DEF ClaimOrphan
  <2>2. PendingOp = NoOp /\ o \in Ops /\ o # NoOp /\ journal[o].phase # "none"
    BY <1>5, <2>1, OpIsNotNoOp DEF ClaimOrphan, Orphans
  <2>3. Untouched(journal[o])
    BY <2>1, <2>2 DEF SystemdInv, JournalsOK, Orphans, Settled
  <2>4. Unfinished(o)
    BY <2>2, <2>3, QueuedIsUntold DEF Untouched, Settled, Terminal
  <2>5. PendingOp' = o /\ \A q \in Ops : Unfinished(q) => q = o
    BY <1>2, <2>1, <2>2, <2>4 DEF PendingOp, SystemdTruth, LogsTrue
  <2> QED BY <1>3, <2>1, <2>2, <2>5
<1>6. CASE Activate
  <2>1. /\ unit.pc = "activate" /\ pointer' = [pointer EXCEPT !.active = mem.op] /\ Goto("admit", mem)
    BY <1>6 DEF Activate
  <2>2. ~Told(mem.op)
    BY <2>1 DEF SystemdTruth, UnitTrue, Ended, Finishing, Opened
  <2>3. mem.op \in Ops /\ mem.op # NoOp /\ LogTrue(mem) /\ \A q \in Ops : Unfinished(q) => q = mem.op
    BY <2>1, <2>2, UnitSays, OpIsNotNoOp
  <2>4. PendingOp' = mem.op
    BY <1>2, <2>1, <2>3 DEF PendingOp
  <2>5. unit'.pc = "admit" /\ unit'.stage = "save" /\ mem' = mem
    BY <2>1, GotoShape DEF SystemdInv, UnitOK
  <2> QED BY <1>1, <2>2, <2>3, <2>4, <2>5, ClaimTells
<1> QED BY <1>4, <1>5, <1>6

\* A request opens a journal, which says what is installed.
LEMMA ClaimNewTells ==
    ASSUME UpdateAssumption, SystemdInv, SystemdTruth, ClaimNew
    PROVE  SystemdTruth'
<1>0. request \in Ops /\ request # NoOp
  BY OpIsNotNoOp DEF ClaimNew, SystemdInv, RequestsOK, Rows
<1> SUFFICES ASSUME NEW o \in Ops, o = request, o # NoOp PROVE SystemdTruth'
  BY <1>0
<1>1. /\ UNCHANGED <<row, request, public, maintenance, current, pointer>> /\ PendingOp = NoOp /\ Orphans = {}
      /\ PendingOp' = PendingOp
  BY DEF ClaimNew, Here, apiVars, hostVars, PendingOp
<1>2. ASSUME NEW q \in Ops, journal[q].phase # "none"
      PROVE  journal[q].phase \in Settled /\ Told(q)
  <2>1. journal[q].phase \in Terminal /\ ~journal[q].maint
    BY <1>1, <1>2 DEF Orphans
  <2>2. journal[q].phase \in Settled
    BY <1>0, <1>1, <1>2, <2>1, OpIsNotNoOp DEF SystemdInv, JournalsOK, Untouched, Settled, Terminal
  <2>3. Told(q)
    BY <1>1, <1>2, <2>2, OpIsNotNoOp DEF SystemdTruth, LogsTrue, Unfinished, Settled, Terminal
  <2> QED BY <2>2, <2>3
<1>3. CASE journal[o].phase # "none"
  <2>1. Run("process", journal[o]) /\ UNCHANGED journal
    BY <1>3 DEF ClaimNew
  <2>2. Told(o) /\ journal[o].op = o
    BY <1>2, <1>3 DEF SystemdInv, JournalsOK
  <2>3. unit'.pc = "process" /\ unit'.stage = "save" /\ mem' = journal[o]
    BY <2>1, RunShape
  <2> QED BY <1>1, <2>1, <2>2, <2>3, ClaimTells
<1>4. ASSUME journal[o].phase = "none", NEW n, n = NewJournal(o) PROVE SystemdTruth'
  <2>1. row[o].expected = current /\ Save(n) /\ Run("activate", n)
    BY <1>4 DEF ClaimNew, Intent
  <2>2. /\ n.op = o /\ n.phase = "queued" /\ n.shown = current /\ n.old = 0
        /\ ~n.maint /\ ~n.stopped /\ ~n.switched
    BY <1>4 DEF NewJournal, NoJournal
  <2>3. journal'[o] = n /\ \A q \in Ops \ {o} : journal'[q] = journal[q]
    BY <2>1, <2>2 DEF Save, SystemdInv, JournalsOK
  <2>4. \A q \in Ops : Told(q)' <=> Told(q)
    BY <1>1 DEF Told
  <2>5. ~Told(o)
    BY <1>4 DEF SystemdTruth, LogsTrue, Told, Settled, Terminal
  <2>6. \A q \in Ops : Unfinished(q)' => q = o
    BY <1>2, <2>3, <2>4 DEF Unfinished
  <2>7. Pending(row[o])
    <3>1. row[o].status \notin {"none", "staged"}
      BY DEF SystemdTruth, ReportsOK
    <3>2. row[o].status \notin Settled
      BY <2>5 DEF SystemdTruth, LogsTrue
    <3>3. row[o].status # "recovery_failed"
      BY <1>4, <2>5 DEF SystemdTruth, LogsTrue, GivingUp, Settled, Terminal
    <3> QED BY <3>1, <3>2, <3>3 DEF Pending, Settled
  <2>8. ReportsOK'
    BY <1>1 DEF SystemdTruth, ReportsOK
  <2>9. LogTrue(n)'
    BY <1>1, <2>1, <2>2 DEF LogTrue, GivingUp, Settled, Terminal
  <2>10. \A q \in Ops : Unfinished(q)' => LogTrue(journal[q])'
    <3> SUFFICES ASSUME NEW j, j = n PROVE LogTrue(j)'
      BY <2>3, <2>6
    <3> QED BY <2>9
  <2>11. \A q \in Ops : row'[q].status \in {"none", "staged"} => journal'[q].phase = "none"
    BY <1>1, <2>3, <2>7 DEF Pending, SystemdTruth, LogsTrue
  <2>12. \A q \in Ops : row'[q].status \in Settled => Told(q)'
    BY <1>1, <2>4 DEF SystemdTruth, LogsTrue
  <2>13. \A q \in Ops : Told(q)' =>
            \/ journal'[q].phase = public'[q].phase
            \/ journal'[q].phase = "none" /\ public'[q].phase = "failed" /\ request' # q
    BY <1>1, <2>3, <2>4, <2>5 DEF SystemdTruth, LogsTrue
  <2>14. \A q \in Ops : "recovery_failed" \in {row'[q].status, public'[q].phase} /\ ~Told(q)' =>
            maintenance' /\ journal'[q].phase \in GivingUp \cup Settled
    <3>1. ~("recovery_failed" \in {row[o].status, public[o].phase})
      BY <1>4, <2>5 DEF SystemdTruth, LogsTrue, GivingUp, Settled, Terminal
    <3> QED BY <1>1, <2>3, <2>4, <3>1 DEF SystemdTruth, LogsTrue
  <2>15. \A p, q \in Ops : Unfinished(q)' /\ Pending(row'[p]) => p = q
    BY <1>1, <2>6, <2>7 DEF SystemdTruth, ReportsOK
  <2>16. \A q \in Ops : Unfinished(q)' =>
            q = PendingOp' \/ (PendingOp' = NoOp /\ journal'[q].phase = "queued")
    BY <1>1, <2>2, <2>3, <2>6
  <2>17. \A q \in Ops : Pending(row'[q]) /\ Told(q)' => Justified(q, public[q].phase)'
    BY <1>1, <2>4 DEF SystemdTruth, LogsTrue, Justified
  <2>18. \A p, q \in Ops : Unfinished(q)' /\ Unfinished(p)' => p = q
    BY <2>6
  <2>19. LogsTrue'
    BY <2>10, <2>11, <2>12, <2>13, <2>14, <2>15, <2>16, <2>17, <2>18 DEF LogsTrue
  <2>20. unit'.pc = "activate" /\ unit'.stage = "save" /\ mem' = n
    BY <2>1, RunShape
  <2>21. "activate" \notin Known \cup Moving \cup Restoring \cup Moved \cup PutBack \cup Finishing \cup Opened
    BY DEF Known, Equipped, Armed, Preparatory, Moving, Moved, Cold, PutBack, Restoring, Finishing, Opened
  <2>22. UnitTrue'
    <3>1. ~Told(mem.op)'
      BY <2>2, <2>4, <2>5, <2>20 DEF Told
    <3>2. LogTrue(mem)'
      BY <2>9, <2>20 DEF LogTrue, Justified
    <3>3. AtWork(unit.pc, unit.stage # "save", mem, maintenance)'
      BY <2>20, <2>21 DEF AtWork
    <3> QED BY <2>20, <2>21, <3>1, <3>2, <3>3 DEF UnitTrue
  <2> QED BY <2>8, <2>19, <2>22 DEF SystemdTruth
<1> QED BY <1>3, <1>4

\* A request that is rejected has changed nothing, and is reported as failed.
LEMMA DiscardTells ==
    ASSUME UpdateAssumption, SystemdInv, SystemdTruth, Discard
    PROVE  SystemdTruth'
<1>1. /\ UNCHANGED <<row, maintenance, current, pointer, journal>> /\ unit'.pc = "idle" /\ request' = NoOp
      /\ PendingOp' = PendingOp
  BY DEF Discard, unitVars, apiVars, hostVars, PendingOp
<1>2. request \in Ops
  BY DEF Discard, SystemdInv, RequestsOK, Rows
<1>3. CASE UNCHANGED public
  BY <1>1, <1>3, IdleTells
<1>4. ASSUME NEW o \in Ops, o = request, journal[o].phase = "none", row[o].expected = current,
             public' = [public EXCEPT ![o] = [phase |-> "failed", fresh |-> TRUE]]
      PROVE  SystemdTruth'
  <2>1. /\ public'[o].phase = "failed" /\ public'[o].fresh
        /\ \A q \in Ops \ {o} : public'[q] = public[q]
    BY <1>4 DEF SystemdInv, RequestsOK
  <2>2. Told(o)' /\ \A q \in Ops \ {o} : Told(q)' <=> Told(q)
    BY <2>1 DEF Told, Settled, Terminal
  <2>3. \A q \in Ops : Unfinished(q)' => Unfinished(q) /\ q # o
    BY <1>1, <1>4, <2>2 DEF Unfinished
  <2>4. \A q \in Ops : request' # q
    BY <1>1, OpIsNotNoOp
  <2>5. ReportsOK'
    <3>1. \A q \in Ops : row'[q].status \in {"none", "staged"} => public'[q].phase = "none" /\ request' # q
      BY <1>1, <1>4, <2>1, <2>4 DEF SystemdTruth, ReportsOK
    <3>2. \A q \in Ops : public'[q].phase # "staged"
      BY <2>1 DEF SystemdTruth, ReportsOK
    <3>3. \A q \in Ops : Pending(row'[q]) /\ public'[q].phase \in Terminal => public'[q].fresh
      BY <1>1, <2>1 DEF SystemdTruth, ReportsOK
    <3>4. \A p, q \in Ops : Pending(row'[p]) /\ Pending(row'[q]) => p = q
      BY <1>1 DEF SystemdTruth, ReportsOK
    <3> QED BY <3>1, <3>2, <3>3, <3>4 DEF ReportsOK
  <2>6. \A q \in Ops : Unfinished(q)' => LogTrue(journal[q])'
    <3> SUFFICES ASSUME NEW q \in Ops, Unfinished(q), NEW j, j = journal[q] PROVE LogTrue(j)'
      BY <1>1, <2>3
    <3>1. LogTrue(j)
      BY DEF SystemdTruth, LogsTrue
    <3> QED BY <1>1, <3>1 DEF LogTrue, Justified
  <2>7. \A q \in Ops : Pending(row'[q]) /\ Told(q)' => Justified(q, public[q].phase)'
    <3>1. Justified(o, public[o].phase)'
      BY <1>1, <1>4, <2>1 DEF Justified
    <3>2. \A q \in Ops \ {o} : Pending(row[q]) /\ Told(q) => Justified(q, public[q].phase)
      BY DEF SystemdTruth, LogsTrue
    <3>3. \A q \in Ops \ {o} : Pending(row'[q]) /\ Told(q)' => Justified(q, public[q].phase)'
      BY <1>1, <2>1, <2>2, <3>2 DEF Justified
    <3> QED BY <3>1, <3>3
  <2>8. \A q \in Ops : row'[q].status \in {"none", "staged"} => journal'[q].phase = "none"
    BY <1>1 DEF SystemdTruth, LogsTrue
  <2>9. \A q \in Ops : row'[q].status \in Settled => Told(q)'
    BY <1>1, <2>2 DEF SystemdTruth, LogsTrue
  <2>10. \A q \in Ops : Told(q)' =>
            \/ journal'[q].phase = public'[q].phase
            \/ journal'[q].phase = "none" /\ public'[q].phase = "failed" /\ request' # q
    BY <1>1, <1>4, <2>1, <2>2, <2>4 DEF SystemdTruth, LogsTrue
  <2>11. \A q \in Ops : "recovery_failed" \in {row'[q].status, public'[q].phase} /\ ~Told(q)' =>
            maintenance' /\ journal'[q].phase \in GivingUp \cup Settled
    BY <1>1, <2>1, <2>2 DEF SystemdTruth, LogsTrue
  <2>12. /\ \A p, q \in Ops : Unfinished(q)' /\ Pending(row'[p]) => p = q
         /\ \A p, q \in Ops : Unfinished(q)' /\ Unfinished(p)' => p = q
    BY <1>1, <2>3 DEF SystemdTruth, LogsTrue
  <2>13. \A q \in Ops : Unfinished(q)' =>
            q = PendingOp' \/ (PendingOp' = NoOp /\ journal'[q].phase = "queued")
    BY <1>1, <2>3 DEF SystemdTruth, LogsTrue
  <2>14. LogsTrue'
    BY <2>6, <2>7, <2>8, <2>9, <2>10, <2>11, <2>12, <2>13 DEF LogsTrue
  <2>15. UnitTrue'
    BY <1>1 DEF UnitTrue
  <2> QED BY <2>5, <2>14, <2>15 DEF SystemdTruth
<1> QED BY <1>2, <1>3, <1>4 DEF Discard, Intent

\* A run that ends takes its request with it; a crash and a restart change no journal.
LEMMA EventsTell ==
    ASSUME UpdateAssumption, SystemdInv, SystemdTruth,
           Consume \/ UnitCrash \/ Reboot \/ (\E name \in {"api", "consumer"} : ServiceRestart(name))
    PROVE  SystemdTruth'
<1>1. CASE Consume \/ UnitCrash \/ Reboot
  <2>1. /\ UNCHANGED <<row, public, maintenance, current, journal, pointer>> /\ request' \in {request, NoOp}
        /\ unit'.pc = "idle"
    BY <1>1 DEF Consume, UnitCrash, Reboot, Here, apiVars, hostVars, IdleUnit
  <2> QED BY <2>1, IdleTells
<1>2. ASSUME NEW name \in {"api", "consumer"}, ServiceRestart(name) PROVE SystemdTruth'
  <2>1. UNCHANGED <<row, request, public, maintenance, current, journal, pointer, unit>>
    BY <1>2 DEF ServiceRestart, unitVars
  <2>2. PendingOp' = PendingOp /\ ReportsOK' /\ LogsTrue'
    BY <2>1, LogsStay DEF PendingOp, SystemdTruth
  <2>3. UnitTrue'
    BY <2>1 DEF SystemdTruth, UnitTrue, mem, Told, LogTrue, Justified, AtWork
  <2> QED BY <2>2, <2>3 DEF SystemdTruth
<1> QED BY <1>1, <1>2

\* The API submits an operation only while nothing is at work, and requests what is not ended.
LEMMA ApiTellsSystemd ==
    ASSUME UpdateAssumption, SystemdInv, SystemdTruth, ApiRequest \/ ApiStep, UNCHANGED unitVars
    PROVE  SystemdTruth'
<1>1. /\ RequestsOK /\ ApiReads /\ ApiMoves /\ UNCHANGED <<journal, pointer, unit>>
      /\ PendingOp' = PendingOp /\ mem' = mem
      /\ maintenance' = maintenance /\ current' = current
  BY ApiTells, ApiKeeps DEF SystemdInv, unitVars, PendingOp, mem, ApiMoves
<1>2. ReportsOK'
  BY <1>1, ReportsStay DEF SystemdTruth
<1>3. \A q \in Ops : /\ public'[q].phase = public[q].phase
                     /\ Told(q)' <=> Told(q)
                     /\ Unfinished(q)' <=> Unfinished(q)
  BY <1>1 DEF ApiReads, Told, Unfinished
<1>4. ASSUME NEW q \in Ops, row[q].status \notin {"none", "staged"}
      PROVE  /\ row'[q].status = row[q].status \/ Observed(q)
             /\ row'[q].expected = row[q].expected /\ row'[q].version = row[q].version
             /\ row'[q].action = row[q].action
  BY <1>1, <1>4 DEF ApiReads, ApiMoves, Submitted, Rows
<1>5. ASSUME NEW q \in Ops, Unfinished(q)
      PROVE  row[q].status \notin {"none", "staged"} \cup Settled
  BY <1>5 DEF SystemdTruth, LogsTrue, Unfinished
<1>6. ASSUME NEW q \in Ops, Submitted(q)
      PROVE  /\ ~maintenance /\ journal[q].phase = "none" /\ ~Told(q)
             /\ \A p \in Ops \ {q} : ~Pending(row'[p])
  <2>1. public[q].phase = "none" /\ journal[q].phase = "none"
    BY <1>6 DEF Submitted, SystemdTruth, ReportsOK, LogsTrue
  <2> QED BY <1>1, <1>6, <2>1 DEF ApiReads, Told, Settled, Terminal
<1>7. ASSUME NEW q \in Ops, row'[q].status \in {"none", "staged"} PROVE journal'[q].phase = "none"
  <2>1. ~Observed(q)
    BY <1>1, <1>7 DEF Observed, RequestsOK, SystemdTruth, ReportsOK
  <2>2. row[q].status \in {"none", "staged"}
    BY <1>1, <1>7, <2>1 DEF ApiReads, Submitted
  <2> QED BY <1>1, <2>2 DEF SystemdTruth, LogsTrue
<1>8. ASSUME NEW q \in Ops, row'[q].status \in Settled PROVE Told(q)'
  <2>1. row'[q].status = row[q].status \/ Observed(q)
    BY <1>1, <1>8 DEF ApiReads, Submitted, Settled, Terminal
  <2> QED BY <1>3, <1>8, <2>1 DEF SystemdTruth, LogsTrue, Observed, Told
<1>9. ASSUME NEW q \in Ops, Told(q)'
      PROVE  \/ journal'[q].phase = public'[q].phase
             \/ journal'[q].phase = "none" /\ public'[q].phase = "failed" /\ request' # q
  <2>1. Told(q) /\ public[q].phase \in Terminal
    BY <1>3, <1>9 DEF Told, Settled
  <2>2. request # q => request' # q
    BY <1>1, <2>1 DEF ApiReads, SystemdTruth, ReportsOK
  <2> QED BY <1>1, <1>3, <2>1, <2>2 DEF SystemdTruth, LogsTrue
<1>10. ASSUME NEW q \in Ops, "recovery_failed" \in {row'[q].status, public'[q].phase}, ~Told(q)'
       PROVE  maintenance' /\ journal'[q].phase \in GivingUp \cup Settled
  <2>1. ~Told(q)
    BY <1>3, <1>10
  <2>2. row'[q].status = "recovery_failed" => row[q].status = "recovery_failed" \/ public[q].phase = "recovery_failed"
    BY <1>1 DEF ApiReads, Submitted, Observed
  <2>3. "recovery_failed" \in {row[q].status, public[q].phase}
    BY <1>3, <1>10, <2>2
  <2> QED BY <1>1, <2>1, <2>3 DEF SystemdTruth, LogsTrue
<1>11. \A q \in Ops : Pending(row'[q]) => Pending(row[q]) \/ Submitted(q)
  BY <1>1 DEF ApiReads, Pending, Observed
<1>12. ASSUME NEW p \in Ops, NEW q \in Ops, Unfinished(q), Pending(row'[p]) PROVE p = q
  <2>1. CASE Pending(row[p])
    BY <1>12, <2>1 DEF SystemdTruth, LogsTrue
  <2>2. CASE Submitted(p)
    <3>1. ~maintenance /\ journal[p].phase = "none" /\ \A o \in Ops \ {p} : ~Pending(row'[o])
      BY <1>6, <2>2
    <3>2. ~Told(q) /\ journal[q].phase # "none"
      BY <1>12 DEF Unfinished
    <3>3. row[q].status # "recovery_failed" /\ public[q].phase # "recovery_failed"
      BY <3>1, <3>2 DEF SystemdTruth, LogsTrue
    <3>4. row[q].status \notin {"none", "staged"} \cup Terminal
      BY <1>5, <1>12, <3>3 DEF Settled
    <3>5. Observed(q) => row'[q].status \notin {"none", "staged"} \cup Terminal
      BY <1>1, <3>2, <3>3 DEF Observed, RequestsOK, SystemdTruth, ReportsOK, Told, Settled
    <3>6. Pending(row'[q])
      BY <1>4, <3>4, <3>5 DEF Pending
    <3> QED BY <3>1, <3>6
  <2> QED BY <1>11, <1>12, <2>1, <2>2
<1>13. ASSUME NEW q \in Ops, Pending(row'[q]), Told(q) PROVE Justified(q, public[q].phase)'
  <2>1. Pending(row[q])
    BY <1>6, <1>11, <1>13
  <2>2. Justified(q, public[q].phase)
    BY <1>13, <2>1 DEF SystemdTruth, LogsTrue
  <2>3. row[q].status \notin {"none", "staged"}
    BY <2>1 DEF Pending
  <2> QED BY <1>1, <1>3, <1>4, <2>2, <2>3 DEF Justified
<1>14. ASSUME NEW q \in Ops, Unfinished(q), NEW j, LogTrue(j), j.op = q PROVE LogTrue(j)'
  <2>1. /\ row'[q].expected = row[q].expected /\ row'[q].version = row[q].version
        /\ row'[q].action = row[q].action
    BY <1>4, <1>5, <1>14
  <2> QED BY <1>1, <1>14, <2>1 DEF LogTrue, Justified
<1>15. ASSUME NEW q \in Ops, Unfinished(q) PROVE LogTrue(journal[q])'
  <2> SUFFICES ASSUME NEW j, j = journal[q] PROVE LogTrue(j)'
    BY <1>1
  <2>1. LogTrue(j) /\ j.op = q
    BY <1>15 DEF SystemdTruth, LogsTrue, SystemdInv, JournalsOK, Unfinished
  <2> QED BY <1>14, <1>15, <2>1
<1>16. /\ \A p, q \in Ops : Unfinished(q)' /\ Unfinished(p)' => p = q
       /\ \A q \in Ops : Unfinished(q)' =>
            q = PendingOp' \/ (PendingOp' = NoOp /\ journal'[q].phase = "queued")
  BY <1>1, <1>3 DEF SystemdTruth, LogsTrue
<1>17. LogsTrue'
  BY <1>3, <1>7, <1>8, <1>9, <1>10, <1>12, <1>13, <1>15, <1>16 DEF LogsTrue
<1>18. UnitTrue'
  <2> SUFFICES ASSUME unit.pc # "idle" PROVE UnitTrue'
    BY <1>1 DEF UnitTrue
  <2>1. mem.op \in Ops
    BY DEF SystemdInv, UnitOK, Rows
  <2>2. Told(mem.op)' <=> Told(mem.op)
    BY <1>1, <1>3, <2>1 DEF Told
  <2>3. ~Told(mem.op) => LogTrue(mem)'
    <3> SUFFICES ASSUME ~Told(mem.op), NEW m, m = mem PROVE LogTrue(m)'
      BY <1>1 DEF LogTrue, Justified
    <3>1. Unfinished(mem.op) /\ LogTrue(m)
      BY UnitSays
    <3> QED BY <1>14, <2>1, <3>1
  <2>4. AtWork(unit.pc, unit.stage # "save", mem, maintenance) => AtWork(unit.pc, unit.stage # "save", mem, maintenance)'
    BY <1>1 DEF AtWork
  <2> QED BY <1>1, <2>2, <2>3, <2>4 DEF SystemdTruth, UnitTrue, Ended
<1> QED BY <1>2, <1>17, <1>18 DEF SystemdTruth

\* Every step of a systemd host.
LEMMA SystemdTells ==
    ASSUME UpdateAssumption, SystemdInv, SystemdTruth, SystemdNext
    PROVE  SystemdTruth'
<1>1. CASE (ApiRequest \/ ApiStep) /\ UNCHANGED unitVars
  BY <1>1, ApiTellsSystemd
<1>2. CASE UnitStep
  <2>1. CASE ClaimPending \/ ClaimOrphan \/ Activate
    BY <2>1, ClaimStepsTell
  <2>2. CASE ClaimNew \/ Discard
    BY <2>2, ClaimNewTells, DiscardTells
  <2>3. CASE Admit \/ Process \/ Error
    BY <2>3, AdmissionTells
  <2>4. CASE Identify \/ OwnPreparing
    BY <2>4, IntentionsTell
  <2>5. CASE Refused \/ Done \/ Failing \/ RollingBack \/ RecoverDone \/ RecoverFailed
    BY <2>5, EndTransitionsTell
  <2>6. CASE \/ VerifyPackage \/ Precheck \/ Preparing \/ Stopping \/ BackingUp \/ BackingUpRuntime
             \/ Preflighting \/ Migrating \/ Switching \/ Verifying
    BY <2>6, ForwardTransitionsTell
  <2>7. CASE \/ ClaimDir \/ RecordTarget \/ CheckDependencies \/ DependenciesChecked
             \/ Migrated \/ RecoverRecord
    BY <2>7, SaveStepsTell
  <2>8. CASE \/ BackupDatabase \/ BackupRuntime \/ Preflight \/ Migrate \/ CheckHealth
             \/ RecoverCheck \/ RecoverHealth
    BY <2>8, PlainStepsTell
  <2>9. CASE \/ MaterializeManager \/ HandOffManager \/ InitializeLayout \/ Materialize
             \/ Stop \/ RecoverStop \/ StartServices \/ RecoverStart
    BY <2>9, HostStepsTell
  <2>10. CASE SwitchCurrent \/ RecoverSwitch
    BY <2>10, SwitchesTellSystemd
  <2>11. CASE \/ Finish \/ FinishPublish \/ FinishGate \/ FinishBlock \/ FinishCleanup
              \/ FinishUnblock \/ FinishRelease \/ Prune
    BY <2>11, FinishStepsTell
  <2>12. CASE Consume
    BY <2>12, EventsTell
  <2> QED BY <1>2, <2>1, <2>2, <2>3, <2>4, <2>5, <2>6, <2>7, <2>8, <2>9, <2>10, <2>11, <2>12 DEF UnitStep
<1>3. CASE OperatorRetry
  BY <1>3, ClaimStepsTell DEF OperatorRetry
<1>4. CASE CommandFails
  BY <1>4, HostStepsTell
<1>5. CASE UnitCrash \/ Reboot \/ (\E name \in {"api", "consumer"} : ServiceRestart(name))
  BY <1>5, EventsTell
<1> QED BY <1>1, <1>2, <1>3, <1>4, <1>5, Zenon DEF SystemdNext

\* A systemd host starts without a journal.
LEMMA SystemdStartsTrue ==
    ASSUME UpdateAssumption, ApiInit, SystemdInit
    PROVE  SystemdTruth
<1>1. \A q \in Ops : journal[q].phase = "none"
  BY DEF SystemdInit, NoJournal
<1>2. unit.pc = "idle"
  BY DEF SystemdInit, IdleUnit
<1> QED BY <1>1, <1>2, ReportsStart
        DEF SystemdTruth, LogsTrue, UnitTrue, Told, Unfinished, Terminal, Settled

\* Only the API writes the rows.
LEMMA UnitReadsNothing ==
    ASSUME UnitStep \/ OperatorRetry \/ CommandFails \/ UnitCrash \/ Reboot
           \/ (\E name \in {"api", "consumer"} : ServiceRestart(name))
    PROVE  UNCHANGED row
<1> USE DEF Here, apiVars
<1>1. ASSUME NEW at, NEW phase, NEW m, NEW recovery, NEW next, Transition(at, phase, m, recovery, next)
      PROVE  UNCHANGED row
  BY <1>1 DEF Transition, Cas
<1>2. ASSUME NEW at, NEW ok, NEW m, NEW next, SaveStep(at, ok, m, next) PROVE UNCHANGED row
  BY <1>2 DEF SaveStep
<1>3. CASE ClaimPending \/ ClaimOrphan \/ ClaimNew \/ Activate \/ Discard \/ Admit \/ Process \/ Error
  BY <1>3 DEF ClaimPending, ClaimOrphan, ClaimNew, Activate, Discard, Admit, Process, Error
<1>4. CASE \/ Refused \/ Done \/ Failing \/ RollingBack \/ RecoverDone \/ RecoverFailed
           \/ VerifyPackage \/ Precheck \/ Preparing \/ Stopping \/ BackingUp \/ BackingUpRuntime
           \/ Preflighting \/ Migrating \/ Switching \/ Verifying
  BY <1>1, <1>4, Zenon DEF Refused, Done, Failing, RollingBack, RecoverDone, RecoverFailed, VerifyPackage,
     Precheck, Preparing, Stopping, BackingUp, BackingUpRuntime, Preflighting, Migrating, Switching, Verifying
<1>5. CASE \/ Identify \/ ClaimDir \/ RecordTarget \/ CheckDependencies \/ DependenciesChecked
           \/ Migrated \/ RecoverRecord \/ Finish
  BY <1>2, <1>5 DEF Identify, ClaimDir, RecordTarget, CheckDependencies, DependenciesChecked, Migrated,
     RecoverRecord, Finish
<1>6. CASE \/ Materialize \/ MaterializeManager \/ HandOffManager \/ InitializeLayout \/ OwnPreparing \/ Stop
           \/ BackupDatabase \/ BackupRuntime \/ Preflight \/ Migrate \/ SwitchCurrent \/ StartServices
           \/ CheckHealth
  BY <1>6 DEF Materialize, MaterializeManager, HandOffManager, InitializeLayout, OwnPreparing, Stop,
     BackupDatabase, BackupRuntime, Preflight, Migrate, SwitchCurrent, StartServices, CheckHealth,
     OwnerStep, StopServices, StartService
<1>7. CASE RecoverCheck \/ RecoverStop \/ RecoverSwitch \/ RecoverStart \/ RecoverHealth
  BY <1>7 DEF RecoverCheck, RecoverStop, RecoverSwitch, RecoverStart, RecoverHealth, StopServices, StartService
<1>8. CASE \/ FinishPublish \/ FinishGate \/ FinishBlock \/ FinishCleanup \/ FinishUnblock \/ FinishRelease
           \/ Prune \/ Consume
  BY <1>8 DEF FinishPublish, FinishGate, FinishBlock, FinishCleanup, FinishUnblock, FinishRelease, Prune, Consume
<1>9. CASE CommandFails \/ UnitCrash \/ Reboot \/ (\E name \in {"api", "consumer"} : ServiceRestart(name))
  BY <1>9 DEF CommandFails, UnitCrash, Reboot, ServiceRestart
<1>10. CASE OperatorRetry
  BY <1>3, <1>10 DEF OperatorRetry
<1>11. CASE UnitStep
  BY <1>3, <1>4, <1>5, <1>6, <1>7, <1>8, <1>11, Zenon DEF UnitStep
<1> QED BY <1>9, <1>10, <1>11

\* The API reads an outcome only if it is that of the release that answers.
LEMMA SystemdReportsTruly ==
    ASSUME UpdateAssumption, SystemdInv, SystemdTruth, SystemdNext, NEW o \in Ops,
           Pending(row[o]), row'[o].status \in Settled
    PROVE  services.api = current /\ Justified(o, row'[o].status) /\ UNCHANGED <<services, current>>
           /\ row'[o].version = row[o].version /\ row'[o].expected = row[o].expected
           /\ row'[o].action = row[o].action
<1>1. CASE (ApiRequest \/ ApiStep) /\ UNCHANGED unitVars
  <2>1. Observed(o) /\ ApiMoves /\ o \in Rows
    BY <1>1, ApiTells, ApiKeeps DEF SystemdInv, ApiReads, Submitted, Pending, Settled, Rows
  <2>2. Told(o) /\ public[o].phase = row'[o].status
    BY <2>1 DEF Observed, Told
  <2>3. Justified(o, row'[o].status)
    BY <2>2 DEF SystemdTruth, LogsTrue
  <2>4. Serving
    <3>1. CASE ~maintenance
      BY <3>1 DEF SystemdInv, MarkerOK
    <3>2. CASE maintenance
      <4>1. PendingOp # NoOp /\ PendingOp \in Ops /\ journal[PendingOp].phase # "none"
            /\ JournalOK(journal[PendingOp])
        BY <3>2 DEF SystemdInv, PointersOK, JournalsOK, Rows
      <4>2. PendingOp = o \/ ~Unfinished(PendingOp)
        BY <4>1 DEF SystemdTruth, LogsTrue
      <4>3. Told(PendingOp)
        BY <2>2, <4>1, <4>2 DEF Unfinished
      <4>4. journal[PendingOp].phase \in Settled
        BY <4>1, <4>3 DEF SystemdTruth, LogsTrue, Told
      <4> QED BY <4>1, <4>4 DEF JournalOK
    <3> QED BY <3>1, <3>2
  <2> QED BY <2>1, <2>3, <2>4 DEF Serving, ApiMoves
<1>2. CASE UnitStep \/ OperatorRetry \/ CommandFails \/ UnitCrash \/ Reboot
           \/ (\E name \in {"api", "consumer"} : ServiceRestart(name))
  <2>1. UNCHANGED row
    BY <1>2, UnitReadsNothing
  <2> QED BY <2>1 DEF Pending, Settled
<1> QED BY <1>1, <1>2, Zenon DEF SystemdNext

-----------------------------------------------------------------------------
(* Any host tells the truth.                                               *)

\* The truth of whatever updates the host.
TruthInv ==
    /\ deployment = "systemd" => SystemdTruth
    /\ deployment = "docker" => DockerTruth
    /\ deployment = "launcher" => LauncherTruth

\* The first state of any host.
LEMMA TruthStarts ==
    ASSUME UpdateAssumption, Init
    PROVE  TruthInv
<1>1. SystemdTruth /\ DockerTruth
  BY SystemdStartsTrue, DockerStartsTrue DEF Init
<1>2. deployment = "launcher" => LauncherTruth
  BY LauncherStartsTrue DEF Init
<1> QED BY <1>1, <1>2 DEF TruthInv

\* No step of any host makes it lie.
LEMMA TruthKeeps ==
    ASSUME UpdateAssumption, UpdateInv, TruthInv, [Next]_pvars
    PROVE  TruthInv'
<1>1. UNCHANGED deployment
  BY DEF Next, pvars
<1>2. CASE deployment = "systemd" /\ SystemdNext
  BY <1>1, <1>2, SystemdTells DEF UpdateInv, TruthInv
<1>3. CASE deployment = "docker" /\ DockerNext
  BY <1>1, <1>3, DockerTells DEF UpdateInv, TruthInv
<1>4. CASE deployment = "launcher" /\ LauncherNext
  BY <1>1, <1>4, LauncherTells DEF UpdateInv, TruthInv
<1>5. CASE deployment = "manager"
  BY <1>1, <1>5 DEF TruthInv
<1>6. CASE UNCHANGED pvars
  <2>1. UNCHANGED <<row, request, public, maintenance, releases, current, services, journal, pointer, unit,
                    record, engine, store, keeper>>
    BY <1>6 DEF pvars, updateVars, apiVars, hostVars, unitVars, dockerVars, launcherVars
  <2>2. ReportsOK => ReportsOK'
    BY <2>1 DEF ReportsOK
  <2>3. SystemdTruth => SystemdTruth'
    <3>1. SystemdTruth => LogsTrue'
      BY <2>1, LogsStay DEF SystemdTruth, PendingOp
    <3>2. UnitTrue => UnitTrue'
      BY <2>1 DEF UnitTrue, mem, Told, LogTrue, Justified, AtWork
    <3> QED BY <2>2, <3>1, <3>2 DEF SystemdTruth
  <2>4. DockerTruth => DockerTruth'
    BY <2>1, <2>2 DEF DockerTruth, EngineTrue, Justified, Active, Blocked, op
  <2>5. LauncherTruth => LauncherTruth'
    BY <2>1, <2>2 DEF LauncherTruth, KeeperTrue, Justified, Told, Filed, Sealed, Gone, Same, CodeRoot
  <2> QED BY <1>1, <2>3, <2>4, <2>5 DEF TruthInv
<1> QED BY <1>2, <1>3, <1>4, <1>5, <1>6 DEF Next, UpdateInv

\* The truth of every deployment: wherever the executor of updater.py, docker_updater.py or
\* launcher.sh is, and wherever it was killed, its journal, what is published and the rows agree.
THEOREM TruthInvariant == Spec => [](UpdateInv /\ TruthInv)
<1>1. Init => UpdateInv /\ TruthInv
  BY UpdateStarts, TruthStarts, UpdateAssumption
<1>2. UpdateInv /\ TruthInv /\ [Next]_pvars => UpdateInv' /\ TruthInv'
  BY UpdateKeeps, TruthKeeps, UpdateAssumption
<1> QED BY <1>1, <1>2, PTL DEF Spec

\* The outcome that update_api.py merges into a pending row is that of the version which the
\* host runs at that moment, of updater.py, docker_updater.py and launcher.sh alike: what is
\* published of an end is published once, in front of the version it names, and no other
\* operation moves the host before the API has read it.
THEOREM OutcomeIsAlwaysTrue == Spec => OutcomeIsTrue
<1>1. ASSUME UpdateInv, TruthInv, Next, NEW o \in Ops,
             Pending(row[o]), row'[o].status \in Terminal \ {"recovery_failed"}
      PROVE  services'.api = current' /\ current' \in Claims(row'[o])
  <2>1. row'[o].status \in Settled
    BY <1>1 DEF Settled
  <2>2. deployment # "manager"
    BY <1>1 DEF Next, updateVars, apiVars, Pending
  <2>3. \/ deployment = "systemd" /\ SystemdInv /\ SystemdTruth /\ SystemdNext
        \/ deployment = "docker" /\ DockerInv /\ DockerTruth /\ DockerNext
        \/ deployment = "launcher" /\ LauncherInv /\ LauncherTruth /\ LauncherNext
    BY <1>1, <2>2 DEF Next, UpdateInv, TruthInv
  <2>4. /\ services.api = current /\ Justified(o, row'[o].status) /\ UNCHANGED <<services, current>>
        /\ row'[o].version = row[o].version /\ row'[o].expected = row[o].expected
        /\ row'[o].action = row[o].action /\ RequestsOK
    BY <1>1, <2>1, <2>3, UpdateAssumption, SystemdReportsTruly, DockerReportsTruly, LauncherReportsTruly
       DEF SystemdInv, DockerInv, LauncherInv
  <2>5. row[o].action \in {"apply", "rollback"}
    BY <1>1, <2>4 DEF RequestsOK, Rows, Pending
  <2>6. row'[o].status \in {"succeeded", "failed", "rolled_back"}
    BY <1>1 DEF Terminal
  <2> QED BY <2>4, <2>5, <2>6 DEF Claims, Justified
<1>2. UpdateInv /\ TruthInv /\ [Next]_pvars =>
          [\A o \in Ops : Pending(row[o]) /\ row'[o].status \in Terminal \ {"recovery_failed"} =>
              services'.api = current' /\ current' \in Claims(row'[o])]_pvars
  BY <1>1
<1> QED BY <1>2, TruthInvariant, PTL DEF Spec, OutcomeIsTrue
===============================================================================
