--------------------------- MODULE PlatformUpdateProofs ---------------------------
(***************************************************************************)
(* Proofs about platform updates: who may change the host, and in what     *)
(* state each change leaves it.                                            *)
(*                                                                         *)
(* Every executor has an invariant of its own, which relates the program   *)
(* counter of the process to its journal on disk, the maintenance marker,  *)
(* the services and the installed version: SystemdInv for updater.py,      *)
(* DockerInv for docker_updater.py, LauncherInv for launcher.sh and        *)
(* InstallerInv for the manager's installer.  From the first three follow  *)
(* ChangeIsCold, RestIsClean and the refinement of Upgrade; from the last  *)
(* one InstallIsAtomic.                                                    *)
(***************************************************************************)
EXTENDS PlatformUpdate, TLAPS

-------------------------------------------------------------------------------
(* What the executors share.                                               *)

Settled == Terminal \ {"recovery_failed"}

Rows == {o \in Ops : row[o].status # "none"}

RowFields == {"status", "action", "version", "expected", "confirmed", "published", "seen"}

IsRow(r) == DOMAIN r = RowFields

IsStatus(s) == DOMAIN s = {"phase", "fresh"}

RequestsOK ==
    /\ DOMAIN row = Ops /\ DOMAIN public = Ops
    /\ \A o \in Ops : IsRow(row[o])
    /\ \A o \in Ops : IsStatus(public[o]) /\ (public[o].fresh => public[o].phase # "none")
    /\ \A o \in Rows : row[o].version \in Versions /\ row[o].action \in {"apply", "rollback"}
    /\ request \in Rows \cup {NoOp}
    /\ writing \in BOOLEAN

\* What the API leaves alone, and what business traffic may do.
ApiMoves ==
    /\ \A o \in Rows : /\ o \in Rows'
                       /\ row'[o].version = row[o].version
                       /\ row'[o].action = row[o].action
                       /\ row'[o].expected = row[o].expected
    /\ UNCHANGED <<maintenance, current, services>>
    /\ writing' => writing \/ ~maintenance
    /\ data' # data => writing

-------------------------------------------------------------------------------
(* The API.                                                                *)

\* Reading the executor's status keeps every row, its intent and the statuses well formed.
LEMMA ReconcileKeeps ==
    ASSUME RequestsOK
    PROVE  /\ DOMAIN Reconciled = Ops /\ DOMAIN Merged = Ops
           /\ \A o \in Ops : /\ IsRow(Reconciled[o])
                             /\ Reconciled[o].version = row[o].version
                             /\ Reconciled[o].action = row[o].action
                             /\ Reconciled[o].expected = row[o].expected
                             /\ Reconciled[o].status = "none" <=> row[o].status = "none"
           /\ \A o \in Ops : /\ IsStatus(Merged[o])
                             /\ Merged[o].fresh => Merged[o].phase # "none"
<1>1. \A o \in Ops : /\ IsRow(Reconciled[o])
                     /\ Reconciled[o].version = row[o].version
                     /\ Reconciled[o].action = row[o].action
                     /\ Reconciled[o].expected = row[o].expected
                     /\ Reconciled[o].status = "none" <=> row[o].status = "none"
  <2> TAKE o \in Ops
  <2>1. CASE Observable(o)
    <3>1. Reconciled[o] = [row[o] EXCEPT !.status = public[o].phase, !.seen = TRUE, !.published = TRUE]
      BY <2>1 DEF Reconciled
    <3>2. public[o].phase # "none" /\ row[o].status # "none"
      BY <2>1 DEF Observable, Pending, RequestsOK
    <3>3. IsRow(row[o])
      BY DEF RequestsOK
    <3> QED BY <3>1, <3>2, <3>3 DEF IsRow, RowFields
  <2>2. CASE ~Observable(o)
    BY <2>2 DEF Reconciled, RequestsOK
  <2> QED BY <2>1, <2>2
<1>2. \A o \in Ops : IsStatus(Merged[o]) /\ (Merged[o].fresh => Merged[o].phase # "none")
  <2> TAKE o \in Ops
  <2>1. Merged[o] = [public[o] EXCEPT !.fresh = @ /\ ~Observable(o)] /\ IsStatus(public[o])
    BY DEF Merged, RequestsOK
  <2>2. public[o].fresh => public[o].phase # "none"
    BY DEF RequestsOK
  <2> QED BY <2>1, <2>2 DEF IsStatus
<1> QED BY <1>1, <1>2 DEF Reconciled, Merged

\* Preparing an operation adds its row.
LEMMA PrepareKeeps ==
    ASSUME RequestsOK, NEW o \in Ops, NEW a \in {"apply", "rollback"}, NEW v \in Versions,
           PrepareRow(o, a, v), UNCHANGED <<current, services, data, writing>>
    PROVE  RequestsOK' /\ ApiMoves
<1>1. row' = [Reconciled EXCEPT ![o] = [NoRow EXCEPT !.status = "staged", !.action = a,
                                                     !.version = v, !.expected = services.api]]
      /\ public' = Merged /\ UNCHANGED <<request, maintenance>> /\ row[o].status = "none"
  BY DEF PrepareRow
<1>2. IsRow(row'[o]) /\ row'[o].status = "staged" /\ row'[o].version = v /\ row'[o].action = a
  BY <1>1, ReconcileKeeps DEF IsRow, RowFields, NoRow
<1>3. DOMAIN row' = Ops /\ \A p \in Ops \ {o} : row'[p] = Reconciled[p]
  BY <1>1, ReconcileKeeps
<1>4. ApiMoves
  BY <1>1, <1>2, <1>3, ReconcileKeeps DEF ApiMoves, Rows
<1> QED BY <1>1, <1>2, <1>3, <1>4, ReconcileKeeps DEF RequestsOK, Rows

\* Every other step of the API changes a row's state, not what was asked.
LEMMA ApiKeeps ==
    ASSUME UpdateAssumption, RequestsOK, ApiRequest \/ ApiStep
    PROVE  RequestsOK' /\ ApiMoves /\ UNCHANGED releases
<1>1. ASSUME NEW o \in Ops, NEW a \in {"apply", "rollback"}, NEW v \in Versions, Prepare(o, a, v)
      PROVE  RequestsOK' /\ ApiMoves /\ UNCHANGED releases
  BY <1>1, PrepareKeeps DEF Prepare, hostVars
<1>2. ASSUME row' = Reconciled, public' = Merged, request' \in {request} \cup Rows,
             UNCHANGED <<maintenance, hostVars>>
      PROVE  RequestsOK' /\ ApiMoves /\ UNCHANGED releases
  BY <1>2, ReconcileKeeps DEF RequestsOK, ApiMoves, Rows, hostVars
<1>3. ASSUME NEW o \in Ops, Confirm(o)
      PROVE  RequestsOK' /\ ApiMoves /\ UNCHANGED releases
  <2>1. row' = [Reconciled EXCEPT ![o].confirmed = TRUE] /\ public' = Merged
        /\ UNCHANGED <<request, maintenance, hostVars>>
    BY <1>3 DEF Confirm
  <2>2. IsRow(row'[o]) /\ row'[o].status = Reconciled[o].status
        /\ row'[o].version = Reconciled[o].version /\ row'[o].action = Reconciled[o].action
        /\ row'[o].expected = Reconciled[o].expected
    BY <2>1, ReconcileKeeps DEF IsRow, RowFields
  <2>3. DOMAIN row' = Ops /\ \A p \in Ops \ {o} : row'[p] = Reconciled[p]
    BY <2>1, ReconcileKeeps
  <2> QED BY <2>1, <2>2, <2>3, ReconcileKeeps DEF RequestsOK, ApiMoves, Rows, hostVars
<1>4. ASSUME NEW o \in Ops, Submit(o)
      PROVE  RequestsOK' /\ ApiMoves /\ UNCHANGED releases
  <2>1. row' = [Reconciled EXCEPT ![o].status = "queued"] /\ public' = Merged
        /\ row[o].status = "staged"
        /\ UNCHANGED <<request, maintenance, hostVars>>
    BY <1>4 DEF Submit
  <2>2. IsRow(row'[o]) /\ row'[o].status = "queued"
        /\ row'[o].version = Reconciled[o].version /\ row'[o].action = Reconciled[o].action
        /\ row'[o].expected = Reconciled[o].expected
    BY <2>1, ReconcileKeeps DEF IsRow, RowFields
  <2>3. DOMAIN row' = Ops /\ \A p \in Ops \ {o} : row'[p] = Reconciled[p]
    BY <2>1, ReconcileKeeps
  <2> QED BY <2>1, <2>2, <2>3, ReconcileKeeps DEF RequestsOK, ApiMoves, Rows, hostVars
<1>5. ASSUME NEW o \in Ops, WriteRequest(o)
      PROVE  RequestsOK' /\ ApiMoves /\ UNCHANGED releases
  <2>1. o \in Rows
    BY <1>5, ReconcileKeeps DEF WriteRequest, Unpublished, Pending, Rows
  <2> QED BY <1>2, <1>5, <2>1 DEF WriteRequest
<1>6. CASE Reconcile
  BY <1>2, <1>6 DEF Reconcile
<1>7. CASE MarkPublished
  <2>1. row' = [row EXCEPT ![publishing].published = TRUE]
        /\ UNCHANGED <<request, public, maintenance, hostVars>>
    BY <1>7 DEF MarkPublished
  <2>2. DOMAIN row' = Ops /\ \A p \in Ops \ {publishing} : row'[p] = row[p]
    BY <2>1 DEF RequestsOK
  <2>3. publishing \in Ops => /\ IsRow(row'[publishing])
                              /\ row'[publishing].status = row[publishing].status
                              /\ row'[publishing].version = row[publishing].version
                              /\ row'[publishing].action = row[publishing].action
                              /\ row'[publishing].expected = row[publishing].expected
    BY <2>1 DEF RequestsOK, IsRow, RowFields
  <2> QED BY <2>1, <2>2, <2>3, ZenonT(40) DEF RequestsOK, ApiMoves, Rows, hostVars
<1>8. CASE BeginWrite
  BY <1>8 DEF BeginWrite, RequestsOK, ApiMoves, Rows, apiVars
<1>9. CASE EndWrite
  BY <1>9 DEF EndWrite, RequestsOK, ApiMoves, Rows, apiVars
<1>10. ASSUME NEW o \in Ops, LoseCandidate(o) \/ Age(o)
       PROVE  RequestsOK' /\ ApiMoves /\ UNCHANGED releases
  <2>1. UNCHANGED <<row, request, public, maintenance, releases, current, services, data, writing>>
    BY <1>10 DEF LoseCandidate, Age, hostVars
  <2> QED BY <2>1 DEF RequestsOK, ApiMoves, Rows
<1>11. CASE ApiRequest
  BY <1>1, <1>3, <1>4, <1>5, <1>11, Zenon DEF ApiRequest
<1>12. CASE ApiStep
  BY <1>6, <1>7, <1>8, <1>9, <1>10, <1>12, Zenon DEF ApiStep
<1> QED BY <1>11, <1>12

-------------------------------------------------------------------------------
(* The systemd executor.                                                   *)

JournalFields ==
    {"op", "phase", "maint", "admitted", "old", "claimed", "preexisting", "target", "deps",
     "stopped", "backup", "runtime", "started", "migrated", "switched", "shown", "healthy",
     "token", "manager"}

IsJournal(j) == DOMAIN j = JournalFields

Serving == services.api = current /\ services.consumer # 0

Forward(j) == j.phase \notin Terminal \cup {"rolling_back"}

\* What a journal in memory may rely on, which the one on disk says as well.
Alike(j, m) ==
    /\ j.op = m.op /\ j.phase = m.phase /\ j.old = m.old /\ j.manager = m.manager
    /\ (j.target <=> m.target) /\ (j.deps <=> m.deps) /\ (j.backup <=> m.backup)
    /\ j.maint => m.maint

\* What is true of the host when the journal says so.
JournalOK(j) ==
    /\ j.manager \in Nat /\ j.old \in Versions \cup {0}
    /\ j.phase \in Settled => Serving
    /\ j.phase \notin Settled /\ ~j.maint => ~maintenance
    /\ j.old # 0 => pointer.manager >= j.old
    /\ j.old = 0 => j.manager = 0 /\ ~j.deps
    /\ j.deps => j.target
    /\ Forward(j) =>
          /\ j.backup => j.maint /\ maintenance /\ ~writing /\ backup[j.op] = data
          /\ j.target => row[j.op].version \in releases
          /\ j.old # 0 /\ ~j.deps =>
                /\ current = j.old
                /\ row[j.op].action = "apply" => row[j.op].version > current
                /\ row[j.op].action = "rollback" => row[j.op].version < current
                /\ j.manager # 0 => j.manager >= current
          /\ j.deps => row[j.op].version <= pointer.manager

\* A journal nothing has been done for yet.
Untouched(j) ==
    /\ j.phase = "queued" /\ j.old = 0 /\ j.manager = 0
    /\ ~j.maint /\ ~j.backup /\ ~j.target /\ ~j.deps

HostOK ==
    /\ releases \subseteq Versions /\ current \in releases
    /\ DOMAIN services = {"api", "consumer"}
    /\ services.api = 0 => ~writing

JournalsOK ==
    /\ DOMAIN journal = Ops /\ DOMAIN backup = Ops
    /\ \A o \in Ops : IsJournal(journal[o])
    /\ \A o \in Ops : journal[o].phase # "none" => journal[o].op = o /\ o \in Rows
    /\ \A o \in Ops \ {PendingOp} :
          \/ journal[o].phase \in Settled /\ ~journal[o].maint
          \/ journal[o].phase = "none"
          \/ Untouched(journal[o])
    /\ PendingOp # NoOp =>
          PendingOp \in Rows /\ journal[PendingOp].phase # "none" /\ JournalOK(journal[PendingOp])

PointersOK ==
    /\ DOMAIN pointer = {"active", "blocked", "manager", "record"}
    /\ pointer.active # NoOp /\ pointer.blocked # NoOp => pointer.active = pointer.blocked
    /\ PendingOp = NoOp => ~maintenance
    /\ pointer.manager \in Nat /\ pointer.manager >= current

MarkerOK == ~maintenance => Serving

\* Where the executor is, by what is true there.
Cold == {"backing", "backup", "backing_runtime", "backup_runtime", "preflighting", "preflight",
         "migrating", "migrate"}
BackedUp == Cold \ {"backing", "backup"}
Moved == {"verifying", "start", "start_consumer", "health", "done"}
Moving == Cold \cup Moved \cup {"stop", "migrated", "switch"}
Armed == Moving \cup {"own", "preparing", "stopping", "switching"}
Preparatory == {"precheck", "deps", "manager", "handoff", "initialise", "checked"}
Equipped == Armed \cup Preparatory
Known == Equipped \cup {"verify", "claim_dir", "copy", "record"}
PutBack == {"r_record", "r_start", "r_start_consumer", "r_health", "r_done"}
Restoring == PutBack \cup {"r_check", "r_stop", "r_switch", "r_failed"}
Opened == {"f_block", "f_cleanup", "f_unblock", "f_release"}
Finishing == Opened \cup {"finish", "f_publish", "f_gate"}

Where(pc, saved, m, gate) ==
    /\ pc \in Known \cup {"identify"} /\ ~(pc = "done" /\ saved) => Forward(m)
    /\ pc \in Known => m.old # 0
    /\ pc \in Equipped => m.target
    /\ pc = "identify" => m.old = 0
    /\ pc \in Known \ Armed => ~m.deps
    /\ pc \in {"manager", "handoff"} => m.manager >= current
    /\ pc \in {"manager", "handoff", "initialise"} => row[m.op].action = "apply"
    /\ pc \in {"handoff", "initialise", "checked"} /\ row[m.op].action = "apply" =>
          pointer.manager = row[m.op].version
    /\ pc \in Armed => m.deps
    /\ pc \in {"preparing", "stopping", "switching"} => m.maint
    /\ pc \in Moving \cup Restoring => gate /\ m.maint
    /\ pc \in Cold => services = [api |-> 0, consumer |-> 0]
    /\ pc \in BackedUp => m.backup
    /\ pc \in Moved => current = row[m.op].version
    /\ pc \in {"health", "done", "r_health", "r_done"} => services.consumer # 0
    /\ pc \in {"done", "r_done"} => services.api = current
    /\ pc = "failing" => ~m.maint
    /\ pc = "recover" /\ saved => m.phase = "rolling_back" /\ m.maint
    /\ pc \in Restoring /\ ~(pc \in {"r_done", "r_failed"} /\ saved) => m.phase = "rolling_back"
    /\ pc \in {"r_stop", "r_switch"} => m.old \in releases
    /\ pc \in PutBack => current = m.old
    /\ pc = "r_failed" /\ saved => m.phase = "recovery_failed"
    /\ pc \in {"refused", "failing", "r_done"} /\ saved => m.phase \in Terminal
    /\ pc = "done" /\ saved => m.phase \in Settled
    /\ pc \in Finishing => m.phase \in Terminal
    /\ pc \in Finishing \ {"finish"} => (m.maint <=> m.phase = "recovery_failed")
    /\ pc \in Opened /\ m.phase \in Settled => ~gate
    /\ pc \in Opened \ {"f_block"} /\ m.phase = "recovery_failed" => pointer.blocked = m.op
    /\ pc = "f_release" /\ m.phase \in Settled => pointer.blocked = NoOp

Elsewhere == {"activate", "process", "f_release", "prune", "consume"}

\* The operation the executor is at, and what it does when it has finished it.
Place(pc, m, then) ==
    /\ pc \notin Elsewhere => PendingOp = m.op
    /\ pc = "activate" => PendingOp = NoOp /\ Untouched(m)
    /\ pc = "process" => PendingOp = m.op \/ m.phase \in Settled
    /\ pc = "f_release" => PendingOp \in {m.op, NoOp}
    /\ pc = "prune" => PendingOp = NoOp /\ m.phase \in Settled
    /\ then # "consume" => then = "prune" /\ pc \in Finishing \cup {"done", "prune", "consume"}
                                        /\ (pc # "done" => m.phase \in Settled)

UnitOK ==
    /\ DOMAIN unit = {"pc", "stage", "mem", "then", "cause", "exe"}
    /\ unit.pc # "idle" =>
          /\ IsJournal(mem) /\ mem.op \in Rows /\ mem.phase # "none"
          /\ Alike(journal[mem.op], mem)
          /\ unit.stage # "save" \/ unit.pc \in Finishing \ {"finish"} =>
                (journal[mem.op].maint <=> mem.maint)
          /\ Place(unit.pc, mem, unit.then)
          /\ Where(unit.pc, unit.stage # "save", mem, maintenance)

SystemdInv == RequestsOK /\ HostOK /\ JournalsOK /\ PointersOK /\ MarkerOK /\ UnitOK

-----------------------------------------------------------------------------
(* What the steps of the executor have in common.                          *)

Still == UNCHANGED <<row, request, public, maintenance, releases, current, services, data, writing>>

\* No operation and no version is the absent one.
LEMMA OpIsNotNoOp == ASSUME UpdateAssumption PROVE NoOp \notin Ops /\ 0 \notin Versions
  BY DEF UpdateAssumption, NoOp

\* A step of updater.py leaves its unit at the next program counter, before the journal is saved.
LEMMA GotoShape ==
    ASSUME DOMAIN unit = {"pc", "stage", "mem", "then", "cause", "exe"}, NEW pc, NEW m, Goto(pc, m)
    PROVE  /\ DOMAIN unit' = {"pc", "stage", "mem", "then", "cause", "exe"}
           /\ unit'.pc = pc /\ unit'.stage = "save" /\ unit'.then = unit.then
           /\ mem' = m
  BY DEF Goto, mem

\* A failing step leaves it in the handler of the error.
LEMMA RaiseShape ==
    ASSUME DOMAIN unit = {"pc", "stage", "mem", "then", "cause", "exe"}, NEW c, Raise(c)
    PROVE  /\ DOMAIN unit' = {"pc", "stage", "mem", "then", "cause", "exe"}
           /\ unit'.pc = "error" /\ unit'.stage = "save" /\ unit'.then = "consume"
           /\ mem' = mem
  BY DEF Raise, mem

\* A claimed operation starts with the journal it was claimed with.
LEMMA RunShape ==
    ASSUME NEW pc, NEW m, Run(pc, m)
    PROVE  /\ DOMAIN unit' = {"pc", "stage", "mem", "then", "cause", "exe"}
           /\ unit'.pc = pc /\ unit'.stage = "save" /\ unit'.then = "consume"
           /\ mem' = m
  BY DEF Run, IdleUnit, mem

\* Between its start and its end the executor is at the pending operation.
LEMMA Held ==
    ASSUME UpdateAssumption, SystemdInv, unit.pc # "idle",
           PendingOp = mem.op \/ unit.pc \notin Elsewhere
    PROVE  /\ PendingOp = mem.op /\ mem.op \in Ops /\ mem.op \in Rows /\ mem.op # NoOp
           /\ IsJournal(mem) /\ mem.phase # "none" /\ Alike(journal[mem.op], mem)
           /\ Where(unit.pc, unit.stage # "save", mem, maintenance)
           /\ JournalOK(journal[mem.op]) /\ JournalOK(mem)
<1>1. /\ PendingOp = mem.op /\ mem.op \in Rows
      /\ IsJournal(mem) /\ mem.phase # "none" /\ Alike(journal[mem.op], mem)
      /\ Where(unit.pc, unit.stage # "save", mem, maintenance)
  BY DEF SystemdInv, UnitOK, Place
<1>2. mem.op \in Ops /\ mem.op # NoOp
  BY <1>1, OpIsNotNoOp DEF Rows
<1>3. JournalOK(journal[mem.op])
  BY <1>1, <1>2 DEF SystemdInv, JournalsOK
<1>4. JournalOK(mem)
  BY <1>1, <1>3 DEF JournalOK, Alike, Forward
<1> QED BY <1>1, <1>2, <1>3, <1>4

\* A step of the executor that leaves the host alone.
LEMMA StillKeeps ==
    ASSUME SystemdInv, Still, UNCHANGED <<pointer, backup>>
    PROVE  RequestsOK' /\ HostOK' /\ PointersOK' /\ MarkerOK' /\ UNCHANGED <<PendingOp, Rows>>
<1>1. UNCHANGED <<PendingOp, Rows>>
  BY DEF PendingOp, Rows, Still
<1>2. RequestsOK'
  BY <1>1 DEF SystemdInv, RequestsOK, Still
<1>3. HostOK' /\ PointersOK' /\ MarkerOK'
  BY <1>1 DEF SystemdInv, HostOK, PointersOK, MarkerOK, Serving, Still
<1> QED BY <1>1, <1>2, <1>3

\* The journal is not written, or written with what is true of the host.
LEMMA JournalsKept ==
    ASSUME SystemdInv, Still, UNCHANGED <<pointer, backup, journal>>
    PROVE  JournalsOK'
<1>1. UNCHANGED <<PendingOp, Rows>>
  BY StillKeeps
<1>2. PendingOp # NoOp => JournalOK(journal[PendingOp])'
  BY <1>1 DEF SystemdInv, JournalsOK, JournalOK, Forward, Serving, Still
<1> QED BY <1>1, <1>2 DEF SystemdInv, JournalsOK, Untouched

\* A saved journal is that of the pending operation; the other journals stay.
LEMMA JournalSaved ==
    ASSUME UpdateAssumption, SystemdInv, Still, UNCHANGED <<pointer, backup>>,
           NEW m, Save(m), IsJournal(m), m.op = PendingOp, m.op # NoOp, m.phase # "none", JournalOK(m)
    PROVE  JournalsOK' /\ journal'[m.op] = m
<1>1. UNCHANGED <<PendingOp, Rows>>
  BY StillKeeps
<1>2. m.op \in Rows /\ m.op \in Ops /\ DOMAIN journal = Ops
  BY DEF SystemdInv, JournalsOK, Rows
<1>3. DOMAIN journal' = Ops /\ journal'[m.op] = m /\ \A o \in Ops \ {m.op} : journal'[o] = journal[o]
  BY <1>2 DEF Save
<1>4. JournalOK(journal[PendingOp])'
  <2>1. journal'[PendingOp'] = m
    BY <1>1, <1>3
  <2> QED BY <1>1, <2>1 DEF JournalOK, Forward, Serving, Still
<1>5. ASSUME NEW o \in Ops \ {PendingOp}
      PROVE  \/ journal'[o].phase \in Settled /\ ~journal'[o].maint
             \/ journal'[o].phase = "none"
             \/ Untouched(journal'[o])
  BY <1>3, <1>5 DEF SystemdInv, JournalsOK, Untouched
<1> QED BY <1>1, <1>2, <1>3, <1>4, <1>5 DEF SystemdInv, JournalsOK, Untouched

\* The next step of the program, the journal saved or not.
LEMMA MoveKeeps ==
    ASSUME UpdateAssumption, SystemdInv, Still, UNCHANGED <<pointer, backup>>,
           unit.pc # "idle", NEW pc, NEW m, Goto(pc, m), IsJournal(m), m.op = mem.op, m.phase # "none",
           \/ UNCHANGED journal /\ Alike(journal[mem.op], m) /\ pc \notin Finishing \ {"finish"}
           \/ Save(m) /\ JournalOK(m) /\ PendingOp = mem.op,
           Place(pc, m, unit.then), Where(pc, FALSE, m, maintenance)
    PROVE  SystemdInv'
<1>1. RequestsOK' /\ HostOK' /\ PointersOK' /\ MarkerOK' /\ UNCHANGED <<PendingOp, Rows>>
  BY StillKeeps
<1>2. /\ DOMAIN unit' = {"pc", "stage", "mem", "then", "cause", "exe"}
      /\ unit'.pc = pc /\ unit'.stage = "save" /\ unit'.then = unit.then /\ mem' = m
  BY GotoShape DEF SystemdInv, UnitOK
<1>3. m.op \in Rows /\ m.op \in Ops /\ m.op # NoOp
  BY OpIsNotNoOp DEF SystemdInv, UnitOK, Rows
<1>4. /\ JournalsOK' /\ Alike(journal'[m.op], m)
      /\ pc \in Finishing \ {"finish"} => (journal'[m.op].maint <=> m.maint)
  <2>1. CASE UNCHANGED journal /\ Alike(journal[mem.op], m) /\ pc \notin Finishing \ {"finish"}
    BY <2>1, JournalsKept
  <2>2. CASE Save(m) /\ JournalOK(m) /\ PendingOp = mem.op
    BY <1>3, <2>2, JournalSaved DEF Alike
  <2> QED BY <2>1, <2>2
<1>5. Place(unit.pc, mem, unit.then)'
  BY <1>1, <1>2 DEF Place, Untouched
<1>6. Where(unit.pc, unit.stage # "save", mem, maintenance)'
  BY <1>2 DEF Where, Forward, Still
<1> QED BY <1>1, <1>2, <1>3, <1>4, <1>5, <1>6 DEF SystemdInv, UnitOK, Alike

\* A step that fails, and may have stopped the consumer behind the marker.
LEMMA RaiseKeeps ==
    ASSUME UpdateAssumption, SystemdInv,
           UNCHANGED <<row, request, public, maintenance, releases, current, data, writing>>,
           UNCHANGED <<pointer, backup, journal>>, unit.pc # "idle",
           PendingOp = mem.op \/ unit.pc \notin Elsewhere, NEW c, Raise(c),
           \/ UNCHANGED services
           \/ services' = [services EXCEPT !.consumer = 0] /\ maintenance /\ mem.phase \notin Settled
    PROVE  SystemdInv'
<1>1. UNCHANGED <<PendingOp, Rows>>
  BY DEF PendingOp, Rows
<1>2. RequestsOK'
  BY <1>1 DEF SystemdInv, RequestsOK
<1>3. HostOK'
  BY DEF SystemdInv, HostOK
<1>4. PointersOK' /\ MarkerOK'
  BY <1>1 DEF SystemdInv, PointersOK, MarkerOK, Serving
<1>5. JournalsOK'
  <2>1. JournalOK(journal[PendingOp])'
    BY <1>1, Held DEF JournalOK, Forward, Serving, Alike
  <2> QED BY <1>1, <2>1 DEF SystemdInv, JournalsOK, Untouched
<1>6. /\ DOMAIN unit' = {"pc", "stage", "mem", "then", "cause", "exe"}
      /\ unit'.pc = "error" /\ unit'.stage = "save" /\ unit'.then = "consume" /\ mem' = mem
  BY RaiseShape DEF SystemdInv, UnitOK
<1>7. Place(unit.pc, mem, unit.then)'
  BY <1>1, <1>6, Held DEF Place
<1>8. Where(unit.pc, unit.stage # "save", mem, maintenance)'
  BY <1>6 DEF Where, Known, Equipped, Armed, Moving, Moved, Cold, BackedUp, Preparatory, PutBack,
              Restoring, Opened, Finishing
<1> QED BY <1>1, <1>2, <1>3, <1>4, <1>5, <1>6, <1>7, <1>8, Held DEF SystemdInv, UnitOK, Alike, Finishing, Opened

\* A status is published: only what the API reads has changed.
LEMMA PublishKeeps ==
    ASSUME SystemdInv, mem.op \in Ops, mem.phase # "none", PublishStatus(mem),
           UNCHANGED <<row, request, maintenance, releases, current, services, data, writing, pointer>>
    PROVE  UNCHANGED <<PendingOp, Rows>> /\ HostOK' /\ PointersOK' /\ MarkerOK' /\ RequestsOK'
<1>1. UNCHANGED <<PendingOp, Rows>>
  BY DEF PendingOp, Rows
<1>2. HostOK' /\ PointersOK' /\ MarkerOK'
  BY <1>1 DEF SystemdInv, HostOK, PointersOK, MarkerOK, Serving
<1>3. DOMAIN public' = Ops /\ \A o \in Ops : IsStatus(public'[o]) /\ (public'[o].fresh => public'[o].phase # "none")
  <2> DEFINE st == [phase |-> IF mem.phase = "migrating" THEN "preparing" ELSE mem.phase, fresh |-> TRUE]
  <2>1. public' = public \/ public' = [public EXCEPT ![mem.op] = st]
    BY DEF PublishStatus
  <2>2. IsStatus(st) /\ st.phase # "none"
    BY DEF IsStatus
  <2> HIDE DEF st
  <2> QED BY <2>1, <2>2 DEF SystemdInv, RequestsOK
<1> QED BY <1>1, <1>2, <1>3 DEF SystemdInv, RequestsOK

Becomes(n, m, phase) == n = [m EXCEPT !.phase = phase]

\* The five writes of a transition.
LEMMA TransitionKeeps ==
    ASSUME UpdateAssumption, SystemdInv, NEW at, NEW phase, NEW m, NEW recovery, NEW next,
           Transition(at, phase, m, recovery, next), at \notin Elsewhere \cup {"idle"},
           IsJournal(m), m.op = mem.op,
           phase # "none",
           NEW n, Becomes(n, m, phase),
           unit.stage = "save" => JournalOK(n) /\ Where(at, TRUE, n, maintenance),
           unit.stage = "gate" => Where(next, FALSE, mem, mem.maint),
           next \notin Elsewhere \cup {"idle"},
           unit.then = "consume" \/ (at = "done" /\ next \in Finishing),
           at = "done" /\ unit.stage = "gate" => mem.phase \in Settled
    PROVE  SystemdInv'
<1>1. /\ PendingOp = mem.op /\ mem.op \in Ops /\ mem.op \in Rows /\ mem.op # NoOp
      /\ IsJournal(mem) /\ mem.phase # "none" /\ Alike(journal[mem.op], mem)
      /\ Where(unit.pc, unit.stage # "save", mem, maintenance)
      /\ JournalOK(journal[mem.op]) /\ JournalOK(mem) /\ unit.pc = at
  BY Held DEF Transition
<1>2. CASE unit.stage = "save"
  <2>1. Still /\ UNCHANGED <<pointer, backup>> /\ Save(n)
        /\ unit' = [unit EXCEPT !.stage = "cas", !.mem = n]
    BY <1>2 DEF Transition, Here, Still, Becomes, apiVars, hostVars
  <2>2. IsJournal(n) /\ n.op = mem.op /\ n.phase = phase
    BY DEF Becomes, IsJournal, JournalFields
  <2>3. JournalOK(n) /\ Where(at, TRUE, n, maintenance)
    BY <1>2
  <2>4. JournalsOK' /\ journal'[n.op] = n
    BY <1>1, <2>1, <2>2, <2>3, JournalSaved
  <2>5. RequestsOK' /\ HostOK' /\ PointersOK' /\ MarkerOK' /\ UNCHANGED <<PendingOp, Rows>>
    BY <2>1, StillKeeps
  <2>6. /\ DOMAIN unit' = {"pc", "stage", "mem", "then", "cause", "exe"}
        /\ unit'.pc = at /\ unit'.stage = "cas" /\ unit'.then = unit.then /\ mem' = n
    BY <1>1, <2>1 DEF SystemdInv, UnitOK, mem
  <2>7. Place(unit.pc, mem, unit.then)'
    BY <1>1, <2>2, <2>5, <2>6 DEF Place, SystemdInv, UnitOK, Elsewhere, Finishing, Opened
  <2>8. Where(unit.pc, unit.stage # "save", mem, maintenance)'
    BY <2>1, <2>3, <2>6 DEF Where, Forward, Still
  <2> QED BY <1>1, <2>2, <2>4, <2>5, <2>6, <2>7, <2>8 DEF SystemdInv, UnitOK, Alike
<1>3. CASE unit.stage = "gate"
  <2>1. /\ Goto(next, mem) /\ maintenance' = mem.maint
        /\ UNCHANGED <<row, request, public, releases, current, services, data, writing>>
        /\ UNCHANGED <<journal, pointer, backup>>
    BY <1>3 DEF Transition, apiVars, hostVars
  <2>2. UNCHANGED <<PendingOp, Rows>>
    BY <2>1 DEF PendingOp, Rows
  <2>3. RequestsOK' /\ HostOK' /\ PointersOK'
    BY <1>1, <2>1, <2>2 DEF SystemdInv, RequestsOK, HostOK, PointersOK
  <2>4. MarkerOK'
    BY <1>1, <2>1 DEF SystemdInv, MarkerOK, JournalOK, Serving
  <2>5. JournalOK(journal[mem.op]) /\ (journal[mem.op].maint <=> mem.maint)
    BY <1>1, <1>3 DEF SystemdInv, UnitOK
  <2>6. JournalsOK'
    <3>1. JournalOK(journal[PendingOp])'
      BY <1>1, <2>1, <2>2, <2>5 DEF JournalOK, Forward, Serving
    <3> QED BY <1>1, <2>1, <2>2, <3>1 DEF SystemdInv, JournalsOK, Untouched
  <2>7. /\ DOMAIN unit' = {"pc", "stage", "mem", "then", "cause", "exe"}
        /\ unit'.pc = next /\ unit'.stage = "save" /\ unit'.then = unit.then /\ mem' = mem
    BY <2>1, GotoShape DEF SystemdInv, UnitOK
  <2>8. Place(unit.pc, mem, unit.then)'
    BY <1>1, <1>3, <2>2, <2>7 DEF Place, SystemdInv, UnitOK, Elsewhere, Finishing, Opened
  <2>9. Where(unit.pc, unit.stage # "save", mem, maintenance)'
    BY <1>3, <2>1, <2>7 DEF Where, Forward
  <2> QED BY <1>1, <2>1, <2>2, <2>3, <2>4, <2>5, <2>6, <2>7, <2>8, <2>9 DEF SystemdInv, UnitOK, Alike
<1>4. CASE unit.stage = "cas"
  <2>1. Cas(recovery) /\ UNCHANGED <<pointer, backup>>
        /\ UNCHANGED <<row, request, public, maintenance, releases, current, services, data, writing>>
    BY <1>4 DEF Transition, Cas, hostVars
  <2>2. CASE /\ unit' = [unit EXCEPT !.stage = "token", !.mem.token = "last"]
             /\ journal' = [journal EXCEPT ![mem.op].token = IF @ = "last" THEN "old" ELSE @]
    <3> DEFINE t == [mem EXCEPT !.token = "last"]
               k == [journal[mem.op] EXCEPT !.token = IF @ = "last" THEN "old" ELSE @]
    <3>1. /\ IsJournal(t) /\ t.op = mem.op /\ t.phase = mem.phase /\ t.old = mem.old
          /\ t.manager = mem.manager /\ (t.target <=> mem.target) /\ (t.deps <=> mem.deps)
          /\ (t.backup <=> mem.backup) /\ (t.maint <=> mem.maint)
      BY <1>1 DEF IsJournal, JournalFields
    <3>2. /\ IsJournal(k) /\ k.op = journal[mem.op].op /\ k.phase = journal[mem.op].phase
          /\ k.old = journal[mem.op].old /\ k.manager = journal[mem.op].manager
          /\ (k.target <=> journal[mem.op].target) /\ (k.deps <=> journal[mem.op].deps)
          /\ (k.backup <=> journal[mem.op].backup) /\ (k.maint <=> journal[mem.op].maint)
      <4>1. IsJournal(journal[mem.op])
        BY <1>1 DEF SystemdInv, JournalsOK
      <4> QED BY <4>1 DEF IsJournal, JournalFields
    <3>3. /\ DOMAIN unit' = {"pc", "stage", "mem", "then", "cause", "exe"}
          /\ unit'.pc = at /\ unit'.stage = "token" /\ unit'.then = unit.then /\ mem' = t
      BY <1>1, <2>2 DEF SystemdInv, UnitOK, mem
    <3>4. DOMAIN journal' = Ops /\ journal'[mem.op] = k /\ \A o \in Ops \ {mem.op} : journal'[o] = journal[o]
      BY <1>1, <2>2 DEF SystemdInv, JournalsOK
    <3> HIDE DEF t, k
    <3>5. RequestsOK' /\ HostOK' /\ PointersOK' /\ MarkerOK' /\ UNCHANGED <<PendingOp, Rows>>
      BY <2>1, StillKeeps DEF Still
    <3>6. JournalsOK'
      <4>1. JournalOK(journal[PendingOp])'
        BY <1>1, <2>1, <3>2, <3>4, <3>5 DEF JournalOK, Forward, Serving
      <4> QED BY <1>1, <2>1, <3>2, <3>4, <3>5, <4>1 DEF SystemdInv, JournalsOK, Untouched
    <3>7. Place(unit.pc, mem, unit.then)'
      BY <1>1, <3>1, <3>3, <3>5 DEF Place, SystemdInv, UnitOK
    <3>8. Where(unit.pc, unit.stage # "save", mem, maintenance)'
      BY <1>1, <1>4, <2>1, <3>1, <3>3 DEF Where, Forward
    <3>9. Alike(journal[mem.op], mem)' /\ (journal'[mem'.op].maint <=> mem'.maint)
      BY <1>1, <1>4, <3>1, <3>2, <3>3, <3>4 DEF Alike, SystemdInv, UnitOK
    <3> QED BY <1>1, <3>1, <3>3, <3>5, <3>6, <3>7, <3>8, <3>9 DEF SystemdInv, UnitOK
  <2>3. CASE unit' = [unit EXCEPT !.stage = "publish"] /\ UNCHANGED journal
    <3>1. /\ DOMAIN unit' = {"pc", "stage", "mem", "then", "cause", "exe"}
          /\ unit'.pc = at /\ unit'.stage = "publish" /\ unit'.then = unit.then /\ mem' = mem
      BY <1>1, <2>3 DEF SystemdInv, UnitOK, mem
    <3>2. RequestsOK' /\ HostOK' /\ PointersOK' /\ MarkerOK' /\ UNCHANGED <<PendingOp, Rows>> /\ JournalsOK'
      BY <2>1, <2>3, StillKeeps, JournalsKept DEF Still
    <3>3. Place(unit.pc, mem, unit.then)'
      BY <1>1, <3>1, <3>2 DEF Place, SystemdInv, UnitOK
    <3>4. Where(unit.pc, unit.stage # "save", mem, maintenance)'
      BY <1>1, <1>4, <2>1, <3>1 DEF Where, Forward
    <3> QED BY <1>1, <1>4, <2>3, <3>1, <3>2, <3>3, <3>4 DEF SystemdInv, UnitOK, Alike
  <2>4. ASSUME NEW c, Raise(c), UNCHANGED journal PROVE SystemdInv'
    BY <1>1, <2>1, <2>4, RaiseKeeps
  <2> QED BY <2>1, <2>2, <2>3, <2>4 DEF Cas
<1>5. CASE unit.stage = "token"
  <2>1. Still /\ UNCHANGED <<pointer, backup>> /\ Save(mem) /\ unit' = [unit EXCEPT !.stage = "publish"]
    BY <1>5 DEF Transition, Here, Still, apiVars, hostVars
  <2>2. /\ DOMAIN unit' = {"pc", "stage", "mem", "then", "cause", "exe"}
        /\ unit'.pc = at /\ unit'.stage = "publish" /\ unit'.then = unit.then /\ mem' = mem
    BY <1>1, <2>1 DEF SystemdInv, UnitOK, mem
  <2>3. RequestsOK' /\ HostOK' /\ PointersOK' /\ MarkerOK' /\ UNCHANGED <<PendingOp, Rows>>
    BY <2>1, StillKeeps
  <2>4. JournalsOK' /\ journal'[mem.op] = mem
    BY <1>1, <2>1, JournalSaved
  <2>5. Place(unit.pc, mem, unit.then)'
    BY <1>1, <2>2, <2>3 DEF Place, SystemdInv, UnitOK
  <2>6. Where(unit.pc, unit.stage # "save", mem, maintenance)'
    BY <1>1, <1>5, <2>1, <2>2 DEF Where, Forward, Still
  <2> QED BY <1>1, <2>2, <2>3, <2>4, <2>5, <2>6 DEF SystemdInv, UnitOK, Alike
<1>6. CASE unit.stage = "publish"
  <2>1. /\ UNCHANGED <<row, request, maintenance, releases, current, services, data, writing>>
        /\ UNCHANGED <<journal, pointer, backup>>
        /\ unit' = [unit EXCEPT !.stage = "gate"] /\ PublishStatus(mem)
    BY <1>6 DEF Transition, apiVars, hostVars
  <2>2. /\ DOMAIN unit' = {"pc", "stage", "mem", "then", "cause", "exe"}
        /\ unit'.pc = at /\ unit'.stage = "gate" /\ unit'.then = unit.then /\ mem' = mem
    BY <1>1, <2>1 DEF SystemdInv, UnitOK, mem
  <2>3. UNCHANGED <<PendingOp, Rows>> /\ HostOK' /\ PointersOK' /\ MarkerOK' /\ RequestsOK'
    BY <1>1, <2>1, PublishKeeps
  <2>4. JournalsOK'
    <3>1. JournalOK(journal[PendingOp])'
      BY <1>1, <2>1, <2>3 DEF JournalOK, Forward, Serving
    <3> QED BY <1>1, <2>1, <2>3, <3>1 DEF SystemdInv, JournalsOK, Untouched
  <2>5. Place(unit.pc, mem, unit.then)'
    BY <1>1, <2>2, <2>3 DEF Place, SystemdInv, UnitOK
  <2>6. Where(unit.pc, unit.stage # "save", mem, maintenance)'
    BY <1>1, <1>6, <2>1, <2>2 DEF Where, Forward
  <2> QED BY <1>1, <1>6, <2>1, <2>2, <2>3, <2>4, <2>5, <2>6 DEF SystemdInv, UnitOK, Alike
<1> QED BY <1>2, <1>3, <1>4, <1>5, <1>6 DEF Transition

\* A new phase changes no other field of the journal.
LEMMA PhaseFields ==
    ASSUME NEW m, IsJournal(m), NEW phase, NEW n, n = [m EXCEPT !.phase = phase]
    PROVE  /\ IsJournal(n) /\ n.phase = phase /\ n.op = m.op /\ n.old = m.old /\ n.manager = m.manager
           /\ (n.target <=> m.target) /\ (n.deps <=> m.deps) /\ (n.backup <=> m.backup)
           /\ (n.maint <=> m.maint)
  BY DEF IsJournal, JournalFields

\* A transition between two phases of the forward work.
LEMMA ForwardKeeps ==
    ASSUME UpdateAssumption, SystemdInv, NEW at \in Known \ {"done"}, NEW phase, NEW m, NEW next,
           Transition(at, phase, m, FALSE, next),
           phase \notin Terminal \cup {"rolling_back", "none"}, next \notin Elsewhere \cup {"idle"},
           IsJournal(m), Alike(m, mem), m.maint <=> mem.maint,
           unit.stage = "gate" => Where(next, FALSE, mem, mem.maint)
    PROVE  SystemdInv'
<1>1. /\ JournalOK(mem) /\ Where(at, unit.stage # "save", mem, maintenance) /\ unit.pc = at
  BY Held DEF Transition, Known, Equipped, Armed, Moving, Moved, Cold, Preparatory, Elsewhere
<1> DEFINE n == [m EXCEPT !.phase = phase]
<1>2. ASSUME unit.stage = "save"
      PROVE  JournalOK(n) /\ Where(at, TRUE, n, maintenance)
  <2>1. /\ IsJournal(n) /\ n.phase = phase /\ n.op = mem.op /\ n.old = mem.old /\ n.manager = mem.manager
        /\ (n.target <=> mem.target) /\ (n.deps <=> mem.deps) /\ (n.backup <=> mem.backup)
        /\ (n.maint <=> mem.maint)
    BY PhaseFields DEF Alike
  <2> HIDE DEF n
  <2>2. Forward(mem) /\ Forward(n)
    BY <1>1, <1>2, <2>1 DEF Where, Forward
  <2>3. JournalOK(n)
    BY <1>1, <2>1, <2>2 DEF JournalOK, Forward, Settled
  <2>4. Where(at, TRUE, n, maintenance)
    BY <1>1, <1>2, <2>1, <2>2 DEF Where, Forward, Known, Equipped, Armed, Moving, Moved, Cold, BackedUp,
        Preparatory, PutBack, Restoring, Opened, Finishing
  <2> QED BY <2>3, <2>4
<1>3. at \notin Elsewhere \cup {"idle", "done"} \cup Finishing
  BY DEF Known, Equipped, Armed, Moving, Moved, Cold, Preparatory, Elsewhere, Opened, Finishing
<1>4. unit.then = "consume" /\ m.op = mem.op /\ phase # "none" /\ Becomes(n, m, phase)
  BY <1>1, <1>3 DEF Alike, SystemdInv, UnitOK, Place, Elsewhere, Becomes
<1> HIDE DEF n
<1> QED BY <1>2, <1>3, <1>4, TransitionKeeps

\* The transitions of the forward work.
LEMMA ForwardTransitionsKeep ==
    ASSUME UpdateAssumption, SystemdInv,
           \/ VerifyPackage \/ Precheck \/ Preparing \/ Stopping \/ BackingUp \/ BackingUpRuntime
           \/ Preflighting \/ Migrating \/ Switching \/ Verifying
    PROVE  SystemdInv'
<1> USE DEF Known, Equipped, Armed, Moving, Moved, Cold, BackedUp, Preparatory, PutBack, Restoring,
            Opened, Finishing, Elsewhere
<1> DEFINE Reached(at) == unit.pc = at /\ IsJournal(mem) /\ Alike(mem, mem)
                            /\ Where(at, unit.stage # "save", mem, maintenance)
<1>1. ASSUME NEW at \in Known, unit.pc = at PROVE Reached(at)
  BY <1>1, Held DEF Alike
<1>2. ASSUME NEW phase \in {"verifying_package", "preflighting", "preparing", "stopping", "backing_up",
                            "migrating", "switching", "verifying"}
      PROVE  phase \notin Terminal \cup {"rolling_back", "none"}
  BY DEF Terminal
<1>3. CASE VerifyPackage
  <2>1. PICK next \in {"record", "copy", "claim_dir"} : Transition("verify", "verifying_package", mem, FALSE, next)
    BY <1>3 DEF VerifyPackage
  <2>2. Reached("verify")
    BY <1>1, <2>1 DEF Transition
  <2>3. unit.stage = "gate" => Where(next, FALSE, mem, mem.maint)
    BY <2>2 DEF Where
  <2> QED BY <1>2, <2>1, <2>2, <2>3, ForwardKeeps
<1>4. CASE Precheck
  <2>1. Transition("precheck", "preflighting", mem, FALSE, "deps")
    BY <1>4 DEF Precheck
  <2>2. Reached("precheck")
    BY <1>1, <2>1 DEF Transition
  <2>3. unit.stage = "gate" => Where("deps", FALSE, mem, mem.maint)
    BY <2>2 DEF Where
  <2> QED BY <1>2, <2>1, <2>2, <2>3, ForwardKeeps
<1>5. CASE Preparing
  <2>1. Transition("preparing", "preparing", mem, FALSE, "stopping")
    BY <1>5 DEF Preparing
  <2>2. Reached("preparing")
    BY <1>1, <2>1 DEF Transition
  <2>3. unit.stage = "gate" => Where("stopping", FALSE, mem, mem.maint)
    BY <2>2 DEF Where
  <2> QED BY <1>2, <2>1, <2>2, <2>3, ForwardKeeps
<1>6. CASE Stopping
  <2> DEFINE m == [mem EXCEPT !.stopped = TRUE]
  <2>1. Transition("stopping", "stopping", m, FALSE, "stop")
    BY <1>6 DEF Stopping
  <2>2. Reached("stopping")
    BY <1>1, <2>1 DEF Transition
  <2>3. unit.stage = "gate" => Where("stop", FALSE, mem, mem.maint)
    BY <2>2 DEF Where
  <2>4. IsJournal(m) /\ Alike(m, mem) /\ (m.maint <=> mem.maint)
    BY <2>2 DEF IsJournal, JournalFields, Alike
  <2> HIDE DEF m
  <2> QED BY <1>2, <2>1, <2>2, <2>3, <2>4, ForwardKeeps
<1>7. CASE BackingUp
  <2>1. Transition("backing", "backing_up", mem, FALSE, "backup")
    BY <1>7 DEF BackingUp
  <2>2. Reached("backing")
    BY <1>1, <2>1 DEF Transition
  <2>3. unit.stage = "gate" => Where("backup", FALSE, mem, mem.maint)
    BY <2>2 DEF Where
  <2> QED BY <1>2, <2>1, <2>2, <2>3, ForwardKeeps
<1>8. CASE BackingUpRuntime
  <2>1. Transition("backing_runtime", "backing_up", mem, FALSE, "backup_runtime")
    BY <1>8 DEF BackingUpRuntime
  <2>2. Reached("backing_runtime")
    BY <1>1, <2>1 DEF Transition
  <2>3. unit.stage = "gate" => Where("backup_runtime", FALSE, mem, mem.maint)
    BY <2>2 DEF Where
  <2> QED BY <1>2, <2>1, <2>2, <2>3, ForwardKeeps
<1>9. CASE Preflighting
  <2>1. Transition("preflighting", "preflighting", mem, FALSE, "preflight")
    BY <1>9 DEF Preflighting
  <2>2. Reached("preflighting")
    BY <1>1, <2>1 DEF Transition
  <2>3. unit.stage = "gate" => Where("preflight", FALSE, mem, mem.maint)
    BY <2>2 DEF Where
  <2> QED BY <1>2, <2>1, <2>2, <2>3, ForwardKeeps
<1>10. CASE Migrating
  <2>1. Transition("migrating", "migrating", mem, FALSE, "migrate")
    BY <1>10 DEF Migrating
  <2>2. Reached("migrating")
    BY <1>1, <2>1 DEF Transition
  <2>3. unit.stage = "gate" => Where("migrate", FALSE, mem, mem.maint)
    BY <2>2 DEF Where
  <2> QED BY <1>2, <2>1, <2>2, <2>3, ForwardKeeps
<1>11. CASE Switching
  <2>1. Transition("switching", "switching", mem, FALSE, "switch")
    BY <1>11 DEF Switching
  <2>2. Reached("switching")
    BY <1>1, <2>1 DEF Transition
  <2>3. unit.stage = "gate" => Where("switch", FALSE, mem, mem.maint)
    BY <2>2 DEF Where
  <2> QED BY <1>2, <2>1, <2>2, <2>3, ForwardKeeps
<1>12. CASE Verifying
  <2>1. Transition("verifying", "verifying", mem, FALSE, "start")
    BY <1>12 DEF Verifying
  <2>2. Reached("verifying")
    BY <1>1, <2>1 DEF Transition
  <2>3. unit.stage = "gate" => Where("start", FALSE, mem, mem.maint)
    BY <2>2 DEF Where
  <2> QED BY <1>2, <2>1, <2>2, <2>3, ForwardKeeps
<1> QED BY <1>3, <1>4, <1>5, <1>6, <1>7, <1>8, <1>9, <1>10, <1>11, <1>12

\* A transition that ends the operation or begins its recovery.
LEMMA EndKeeps ==
    ASSUME UpdateAssumption, SystemdInv,
           NEW at \in {"refused", "done", "failing", "recover", "r_done", "r_failed"},
           NEW next \in {"finish", "r_check"}, NEW phase, NEW m, NEW recovery,
           Transition(at, phase, m, recovery, next), phase # "none",
           IsJournal(m), m.op = mem.op, NEW n, Becomes(n, m, phase),
           unit.stage = "save" => JournalOK(n) /\ Where(at, TRUE, n, maintenance),
           unit.stage = "gate" => Where(next, FALSE, mem, mem.maint),
           at = "done" => next = "finish" /\ (unit.stage = "gate" => mem.phase \in Settled)
    PROVE  SystemdInv'
<1>1. at \notin Elsewhere \cup {"idle"} /\ next \notin Elsewhere \cup {"idle"} /\ unit.pc = at
  BY DEF Elsewhere, Transition
<1>2. unit.then = "consume" \/ (at = "done" /\ next \in Finishing)
  BY <1>1 DEF SystemdInv, UnitOK, Place, Finishing, Opened
<1> QED BY <1>1, <1>2, TransitionKeeps

\* The transitions that end an operation, and the one that begins its recovery.
LEMMA EndTransitionsKeep ==
    ASSUME UpdateAssumption, SystemdInv,
           Refused \/ Done \/ Failing \/ RollingBack \/ RecoverDone \/ RecoverFailed
    PROVE  SystemdInv'
<1> USE DEF Known, Equipped, Armed, Moving, Moved, Cold, BackedUp, Preparatory, PutBack, Restoring,
            Opened, Finishing, Elsewhere
<1> DEFINE Reached(at) ==
        /\ unit.pc = at /\ IsJournal(mem) /\ JournalOK(mem)
        /\ Where(at, unit.stage # "save", mem, maintenance)
        /\ at # "done" => unit.then = "consume"
<1>1. ASSUME NEW at \in {"refused", "done", "failing", "recover", "r_done", "r_failed"}, unit.pc = at
      PROVE  Reached(at)
  BY <1>1, Held DEF SystemdInv, UnitOK, Place
<1>2. CASE Refused
  <2> DEFINE phase == IF mem.maint THEN "recovery_failed" ELSE "failed"
             n == [mem EXCEPT !.phase = phase]
  <2>1. Transition("refused", phase, mem, TRUE, "finish")
    BY <1>2 DEF Refused
  <2>2. Reached("refused")
    BY <1>1, <2>1 DEF Transition
  <2>3. /\ IsJournal(n) /\ n.phase = phase /\ n.op = mem.op /\ n.old = mem.old /\ n.manager = mem.manager
        /\ (n.target <=> mem.target) /\ (n.deps <=> mem.deps) /\ (n.backup <=> mem.backup)
        /\ (n.maint <=> mem.maint) /\ Becomes(n, mem, phase)
    BY <2>2, PhaseFields DEF Becomes
  <2>4. phase \in Terminal /\ phase # "none" /\ (phase \in Settled => ~mem.maint /\ phase # "recovery_failed")
    BY DEF Terminal, Settled
  <2>5. JournalOK(n)
    <3>1. phase \in Settled => Serving
      BY <2>2, <2>4 DEF JournalOK, MarkerOK, SystemdInv
    <3>2. phase \notin Settled => mem.maint
      BY DEF Terminal, Settled
    <3> HIDE DEF n, phase
    <3> QED BY <2>2, <2>3, <2>4, <3>1, <3>2 DEF JournalOK, Forward
  <2> HIDE DEF n, phase
  <2>6. Where("refused", TRUE, n, maintenance)
    BY <2>3, <2>4 DEF Where
  <2>7. unit.stage = "gate" => Where("finish", FALSE, mem, mem.maint)
    BY <2>2 DEF Where
  <2> QED BY <2>1, <2>2, <2>3, <2>4, <2>5, <2>6, <2>7, EndKeeps
<1>3. CASE Failing
  <2> DEFINE n == [mem EXCEPT !.phase = "failed"]
  <2>1. Transition("failing", "failed", mem, TRUE, "finish")
    BY <1>3 DEF Failing
  <2>2. Reached("failing")
    BY <1>1, <2>1 DEF Transition
  <2>3. /\ IsJournal(n) /\ n.phase = "failed" /\ n.op = mem.op /\ n.old = mem.old /\ n.manager = mem.manager
        /\ (n.target <=> mem.target) /\ (n.deps <=> mem.deps) /\ (n.backup <=> mem.backup)
        /\ (n.maint <=> mem.maint) /\ Becomes(n, mem, "failed")
    BY <2>2, PhaseFields DEF Becomes
  <2> HIDE DEF n
  <2>4. Serving /\ ~mem.maint
    BY <2>2 DEF Where, JournalOK, MarkerOK, SystemdInv
  <2>5. JournalOK(n)
    BY <2>2, <2>3, <2>4 DEF JournalOK, Forward, Settled, Terminal
  <2>6. Where("failing", TRUE, n, maintenance)
    BY <2>3, <2>4 DEF Where, Terminal
  <2>7. unit.stage = "gate" => Where("finish", FALSE, mem, mem.maint)
    BY <2>2 DEF Where
  <2> QED BY <2>1, <2>2, <2>3, <2>5, <2>6, <2>7, EndKeeps
<1>4. CASE RollingBack
  <2> DEFINE m == [mem EXCEPT !.maint = TRUE]
  <2>1. Transition("recover", "rolling_back", m, TRUE, "r_check")
    BY <1>4 DEF RollingBack
  <2>2. Reached("recover")
    BY <1>1, <2>1 DEF Transition
  <2>3. /\ IsJournal(m) /\ m.op = mem.op /\ m.old = mem.old /\ m.manager = mem.manager /\ m.maint
        /\ (m.target <=> mem.target) /\ (m.deps <=> mem.deps)
    BY <2>2 DEF IsJournal, JournalFields
  <2> HIDE DEF m
  <2> DEFINE n == [m EXCEPT !.phase = "rolling_back"]
  <2>4. /\ IsJournal(n) /\ n.phase = "rolling_back" /\ n.op = mem.op /\ n.old = mem.old
        /\ n.manager = mem.manager /\ n.maint /\ (n.target <=> mem.target) /\ (n.deps <=> mem.deps)
        /\ Becomes(n, m, "rolling_back")
    BY <2>3, PhaseFields DEF Becomes
  <2> HIDE DEF n
  <2>5. JournalOK(n)
    BY <2>2, <2>4 DEF JournalOK, Forward, Settled, Terminal
  <2>6. Where("recover", TRUE, n, maintenance)
    BY <2>4 DEF Where
  <2>7. unit.stage = "gate" => Where("r_check", FALSE, mem, mem.maint)
    BY <2>2 DEF Where
  <2> QED BY <2>1, <2>2, <2>3, <2>4, <2>5, <2>6, <2>7, EndKeeps

<1>5. CASE Done
  <2> DEFINE phase == IF Intent(mem.op).action = "apply" THEN "succeeded" ELSE "rolled_back"
             n == [mem EXCEPT !.phase = phase]
  <2>1. Transition("done", phase, mem, FALSE, "finish")
    BY <1>5 DEF Done
  <2>2. Reached("done")
    BY <1>1, <2>1 DEF Transition
  <2>3. /\ IsJournal(n) /\ n.phase = phase /\ n.op = mem.op /\ n.old = mem.old /\ n.manager = mem.manager
        /\ (n.target <=> mem.target) /\ (n.deps <=> mem.deps) /\ (n.backup <=> mem.backup)
        /\ (n.maint <=> mem.maint) /\ Becomes(n, mem, phase)
    BY <2>2, PhaseFields DEF Becomes
  <2>4. phase \in Terminal /\ phase \in Settled /\ phase # "none"
    BY DEF Terminal, Settled
  <2> HIDE DEF n, phase
  <2>5. Serving
    BY <2>2 DEF Where, Serving
  <2>6. JournalOK(n)
    BY <2>2, <2>3, <2>4, <2>5 DEF JournalOK, Forward
  <2>7. unit.stage = "save" => Where("done", TRUE, n, maintenance)
    BY <2>2, <2>3, <2>4 DEF Where
  <2>8. unit.stage = "gate" => Where("finish", FALSE, mem, mem.maint) /\ mem.phase \in Settled
    BY <2>2 DEF Where, Settled
  <2> QED BY <2>1, <2>2, <2>3, <2>4, <2>6, <2>7, <2>8, EndKeeps
<1>6. CASE RecoverDone
  <2> DEFINE phase == IF mem.switched THEN "rolled_back" ELSE "failed"
             n == [mem EXCEPT !.phase = phase]
  <2>1. Transition("r_done", phase, mem, TRUE, "finish")
    BY <1>6 DEF RecoverDone
  <2>2. Reached("r_done")
    BY <1>1, <2>1 DEF Transition
  <2>3. /\ IsJournal(n) /\ n.phase = phase /\ n.op = mem.op /\ n.old = mem.old /\ n.manager = mem.manager
        /\ (n.target <=> mem.target) /\ (n.deps <=> mem.deps) /\ (n.backup <=> mem.backup)
        /\ (n.maint <=> mem.maint) /\ Becomes(n, mem, phase)
    BY <2>2, PhaseFields DEF Becomes
  <2>4. phase \in Terminal /\ phase \in Settled /\ phase # "none"
    BY DEF Terminal, Settled
  <2> HIDE DEF n, phase
  <2>5. Serving
    BY <2>2 DEF Where, Serving
  <2>6. JournalOK(n)
    BY <2>2, <2>3, <2>4, <2>5 DEF JournalOK, Forward
  <2>7. Where("r_done", TRUE, n, maintenance)
    BY <2>2, <2>3, <2>4 DEF Where
  <2>8. unit.stage = "gate" => Where("finish", FALSE, mem, mem.maint)
    BY <2>2 DEF Where
  <2> QED BY <2>1, <2>2, <2>3, <2>4, <2>6, <2>7, <2>8, EndKeeps
<1>7. CASE RecoverFailed
  <2> DEFINE n == [mem EXCEPT !.phase = "recovery_failed"]
  <2>1. Transition("r_failed", "recovery_failed", mem, TRUE, "finish")
    BY <1>7 DEF RecoverFailed
  <2>2. Reached("r_failed")
    BY <1>1, <2>1 DEF Transition
  <2>3. /\ IsJournal(n) /\ n.phase = "recovery_failed" /\ n.op = mem.op /\ n.old = mem.old
        /\ n.manager = mem.manager /\ (n.maint <=> mem.maint) /\ (n.target <=> mem.target)
        /\ (n.deps <=> mem.deps) /\ Becomes(n, mem, "recovery_failed")
    BY <2>2, PhaseFields DEF Becomes
  <2> HIDE DEF n
  <2>4. JournalOK(n)
    BY <2>2, <2>3 DEF JournalOK, Where, Forward, Settled, Terminal
  <2>5. Where("r_failed", TRUE, n, maintenance)
    BY <2>2, <2>3 DEF Where
  <2>6. unit.stage = "gate" => Where("finish", FALSE, mem, mem.maint)
    BY <2>2 DEF Where, Terminal
  <2> QED BY <2>1, <2>2, <2>3, <2>4, <2>5, <2>6, EndKeeps
<1> QED BY <1>2, <1>3, <1>4, <1>5, <1>6, <1>7

-----------------------------------------------------------------------------
(* The other steps of the program.                                         *)

\* A step of the program that goes on.
LEMMA GoKeeps ==
    ASSUME UpdateAssumption, SystemdInv, Still, UNCHANGED <<pointer, backup>>,
           unit.pc # "idle", PendingOp = mem.op \/ unit.pc \notin Elsewhere,
           NEW pc, NEW m, Goto(pc, m), pc \notin Elsewhere \cup {"idle"},
           IsJournal(m), m.op = mem.op, m.phase # "none",
           \/ UNCHANGED journal /\ Alike(journal[mem.op], m) /\ pc \notin Finishing \ {"finish"}
           \/ Save(m) /\ JournalOK(m),
           unit.then = "consume" \/ (pc \in Finishing /\ m.phase \in Settled),
           Where(pc, FALSE, m, maintenance)
    PROVE  SystemdInv'
<1>1. PendingOp = mem.op
  BY Held
<1>2. Place(pc, m, unit.then)
  BY <1>1 DEF Place, Elsewhere, SystemdInv, UnitOK
<1> QED BY <1>1, <1>2, MoveKeeps

\* A step that only saves the journal.
LEMMA SaveStepKeeps ==
    ASSUME UpdateAssumption, SystemdInv, NEW at, NEW ok, NEW m, NEW next, SaveStep(at, ok, m, next),
           at \notin Elsewhere \cup {"idle"}, next \notin Elsewhere \cup {"idle"},
           IsJournal(m), m.op = mem.op, m.phase # "none",
           unit.then = "consume" \/ (next \in Finishing /\ m.phase \in Settled),
           ok => JournalOK(m) /\ Where(next, FALSE, m, maintenance)
    PROVE  SystemdInv'
<1>1. Still /\ UNCHANGED <<pointer, backup>> /\ unit.pc \notin Elsewhere /\ unit.pc # "idle"
  BY DEF SaveStep, Here, Still, apiVars, hostVars
<1>2. CASE ok
  <2>1. Save(m) /\ Goto(next, m)
    BY <1>2 DEF SaveStep
  <2> QED BY <1>1, <1>2, <2>1, GoKeeps
<1>3. CASE ~ok
  <2>1. Raise("check") /\ UNCHANGED journal
    BY <1>3 DEF SaveStep
  <2> QED BY <1>1, <2>1, RaiseKeeps DEF Still
<1> QED BY <1>2, <1>3

\* A step that changes nothing on disk.
LEMMA OwnerStepKeeps ==
    ASSUME UpdateAssumption, SystemdInv, NEW at, NEW next, OwnerStep(at, mem, next),
           at \notin Elsewhere \cup {"idle"}, next \notin Elsewhere \cup Finishing \cup {"idle"},
           unit.then = "consume", Owns(mem) => Where(next, FALSE, mem, maintenance)
    PROVE  SystemdInv'
<1>1. Still /\ UNCHANGED <<pointer, backup, journal>> /\ unit.pc \notin Elsewhere /\ unit.pc # "idle"
  BY DEF OwnerStep, Here, Still, apiVars, hostVars
<1>2. CASE Goto(next, mem) /\ Owns(mem)
  BY <1>1, <1>2, GoKeeps, Held
<1>3. CASE Raise("conflict")
  BY <1>1, <1>3, RaiseKeeps DEF Still
<1> QED BY <1>2, <1>3 DEF OwnerStep

\* Only the end of an operation is followed by anything but the end of the process.
LEMMA ThenConsume ==
    ASSUME SystemdInv, unit.pc # "idle",
           unit.pc \notin {"done", "prune", "consume", "finish", "f_publish", "f_gate", "f_block",
                           "f_cleanup", "f_unblock", "f_release"}
    PROVE  unit.then = "consume"
  BY DEF SystemdInv, UnitOK, Place, Finishing, Opened

\* A journal that differs in what nothing relies on.
Like(n, m) ==
    /\ IsJournal(n) /\ n.op = m.op /\ n.phase = m.phase /\ n.old = m.old /\ n.manager = m.manager
    /\ (n.target <=> m.target) /\ (n.deps <=> m.deps) /\ (n.backup <=> m.backup) /\ (n.maint <=> m.maint)

\* What is known of a journal is known of one that differs only in what no invariant reads.
LEMMA LikeKeeps ==
    ASSUME NEW n, NEW m, Like(n, m)
    PROVE  /\ JournalOK(m) => JournalOK(n)
           /\ \A pc, saved, gate : Where(pc, saved, m, gate) => Where(pc, saved, n, gate)
           /\ \A j : Alike(j, m) => Alike(j, n)
<1>1. JournalOK(m) => JournalOK(n)
  BY DEF Like, JournalOK, Forward
<1>2. ASSUME NEW pc, NEW saved, NEW gate, Where(pc, saved, m, gate) PROVE Where(pc, saved, n, gate)
  BY <1>2 DEF Like, Where, Forward
<1>3. \A j : Alike(j, m) => Alike(j, n)
  BY DEF Like, Alike
<1> QED BY <1>1, <1>2, <1>3

\* The steps that save the journal.
LEMMA SaveStepsKeep ==
    ASSUME UpdateAssumption, SystemdInv,
           \/ Identify \/ ClaimDir \/ RecordTarget \/ CheckDependencies \/ DependenciesChecked
           \/ Migrated \/ RecoverRecord \/ Finish
    PROVE  SystemdInv'
<1> USE DEF Known, Equipped, Armed, Moving, Moved, Cold, BackedUp, Preparatory, PutBack, Restoring,
            Opened, Finishing
<1> DEFINE Reached(at) ==
        /\ unit.pc = at /\ IsJournal(mem) /\ mem.phase # "none" /\ JournalOK(mem) /\ mem.op \in Rows
        /\ Where(at, FALSE, mem, maintenance) \/ Where(at, TRUE, mem, maintenance)
        /\ at # "finish" => unit.then = "consume"
<1>1. ASSUME NEW at \in {"identify", "claim_dir", "record", "deps", "checked", "migrated", "r_record", "finish"},
             unit.pc = at
      PROVE  Reached(at)
  <2>1. at \notin Elsewhere /\ at # "idle"
    BY DEF Elsewhere
  <2> QED BY <1>1, <2>1, Held, ThenConsume
<1>2. CASE Identify
  <2> DEFINE m == [mem EXCEPT !.old = current, !.shown = current]
             ok == /\ Intent(mem.op).expected = current
                   /\ Intent(mem.op).action = "apply" => Intent(mem.op).version > current
                   /\ Intent(mem.op).action = "rollback" => Intent(mem.op).version < current
  <2>1. SaveStep("identify", ok, m, "verify")
    BY <1>2 DEF Identify
  <2>2. Reached("identify")
    BY <1>1, <2>1 DEF SaveStep
  <2>3. /\ IsJournal(m) /\ m.op = mem.op /\ m.phase = mem.phase /\ m.old = current /\ m.manager = mem.manager
        /\ (m.target <=> mem.target) /\ (m.deps <=> mem.deps) /\ (m.backup <=> mem.backup)
        /\ (m.maint <=> mem.maint)
    BY <2>2 DEF IsJournal, JournalFields
  <2>4. current \in Versions /\ current # 0 /\ pointer.manager >= current
    BY OpIsNotNoOp DEF SystemdInv, HostOK, PointersOK
  <2> HIDE DEF m
  <2>5. ok => JournalOK(m)
    BY <2>2, <2>3, <2>4 DEF JournalOK, Where, Forward, Intent
  <2>6. Where("verify", FALSE, m, maintenance)
    BY <2>2, <2>3, <2>4 DEF Where, Forward, JournalOK
  <2> HIDE DEF ok
  <2>7. "identify" \notin Elsewhere \cup {"idle"} /\ "verify" \notin Elsewhere \cup {"idle"}
    BY DEF Elsewhere
  <2> QED BY <2>1, <2>2, <2>3, <2>5, <2>6, <2>7, SaveStepKeeps
<1>3. CASE ClaimDir
  <2> DEFINE m == [mem EXCEPT !.preexisting = Target \in releases, !.claimed = TRUE]
  <2>1. SaveStep("claim_dir", TRUE, m, "copy")
    BY <1>3 DEF ClaimDir
  <2>2. Reached("claim_dir")
    BY <1>1, <2>1 DEF SaveStep
  <2>3. Like(m, mem) /\ Where("copy", FALSE, mem, maintenance)
    BY <2>2 DEF IsJournal, JournalFields, Like, Where
  <2> HIDE DEF m
  <2>4. JournalOK(m) /\ Where("copy", FALSE, m, maintenance)
    BY <2>2, <2>3, LikeKeeps
  <2>5. "claim_dir" \notin Elsewhere \cup {"idle"} /\ "copy" \notin Elsewhere \cup {"idle"}
    BY DEF Elsewhere
  <2>6. IsJournal(m) /\ m.op = mem.op /\ m.phase # "none" /\ unit.then = "consume"
    BY <2>2, <2>3 DEF Like
  <2> QED BY <2>1, <2>4, <2>5, <2>6, SaveStepKeeps
<1>4. CASE RecordTarget
  <2> DEFINE m == [mem EXCEPT !.target = TRUE]
  <2>1. SaveStep("record", Sound(Target), m, "precheck")
    BY <1>4 DEF RecordTarget
  <2>2. Reached("record")
    BY <1>1, <2>1 DEF SaveStep
  <2>3. /\ IsJournal(m) /\ m.op = mem.op /\ m.phase = mem.phase /\ m.old = mem.old /\ m.manager = mem.manager
        /\ m.target /\ (m.deps <=> mem.deps) /\ (m.backup <=> mem.backup) /\ (m.maint <=> mem.maint)
    BY <2>2 DEF IsJournal, JournalFields
  <2> HIDE DEF m
  <2>4. Sound(Target) => JournalOK(m)
    BY <2>2, <2>3 DEF Sound, Target, Intent, JournalOK, Forward
  <2>5. Where("precheck", FALSE, m, maintenance)
    BY <2>2, <2>3 DEF Where, Forward
  <2>6. "record" \notin Elsewhere \cup {"idle"} /\ "precheck" \notin Elsewhere \cup {"idle"}
    BY DEF Elsewhere
  <2> QED BY <2>1, <2>2, <2>3, <2>4, <2>5, <2>6, SaveStepKeeps
<1>5. CASE CheckDependencies
  <2>1. Reached("deps") /\ "deps" \notin Elsewhere \cup {"idle"}
    BY <1>1, <1>5 DEF CheckDependencies, Elsewhere
  <2>2. CASE Intent(mem.op).action = "rollback"
    <3>1. SaveStep("deps", TRUE, mem, "checked")
      BY <1>5, <2>2 DEF CheckDependencies
    <3>2. Where("checked", FALSE, mem, maintenance)
      BY <2>1, <2>2 DEF Where, Intent
    <3>3. "checked" \notin Elsewhere \cup {"idle"}
      BY DEF Elsewhere
    <3> QED BY <2>1, <3>1, <3>2, <3>3, SaveStepKeeps
  <2>3. CASE Intent(mem.op).action # "rollback"
    <3> DEFINE kept == IF mem.manager = 0 THEN pointer.manager ELSE mem.manager
               m == [mem EXCEPT !.manager = kept]
    <3>1. SaveStep("deps", TRUE, m, "manager")
      BY <1>5, <2>3 DEF CheckDependencies
    <3>2. kept \in Nat /\ (mem.old # 0 /\ ~mem.deps => kept >= current)
      BY <2>1 DEF JournalOK, Where, SystemdInv, PointersOK
    <3>3. /\ IsJournal(m) /\ m.op = mem.op /\ m.phase = mem.phase /\ m.old = mem.old /\ m.manager = kept
          /\ (m.target <=> mem.target) /\ (m.deps <=> mem.deps) /\ (m.backup <=> mem.backup)
          /\ (m.maint <=> mem.maint)
      BY <2>1 DEF IsJournal, JournalFields
    <3> HIDE DEF m, kept
    <3>4. JournalOK(m)
      BY <2>1, <3>2, <3>3 DEF JournalOK, Where, Forward
    <3>5. row[mem.op].action = "apply"
      BY <2>1, <2>3 DEF SystemdInv, RequestsOK, Intent
    <3>6. Where("manager", FALSE, m, maintenance)
      BY <2>1, <3>2, <3>3, <3>5 DEF Where, Forward
    <3>7. "manager" \notin Elsewhere \cup {"idle"}
      BY DEF Elsewhere
    <3> QED BY <2>1, <3>1, <3>3, <3>4, <3>6, <3>7, SaveStepKeeps
  <2> QED BY <2>2, <2>3
<1>6. CASE DependenciesChecked
  <2> DEFINE m == [mem EXCEPT !.deps = TRUE]
  <2>1. SaveStep("checked", TRUE, m, Point(m))
    BY <1>6 DEF DependenciesChecked
  <2>2. Reached("checked")
    BY <1>1, <2>1 DEF SaveStep
  <2>3. /\ IsJournal(m) /\ m.op = mem.op /\ m.phase = mem.phase /\ m.old = mem.old /\ m.manager = mem.manager
        /\ (m.target <=> mem.target) /\ m.deps /\ (m.backup <=> mem.backup) /\ (m.maint <=> mem.maint)
    BY <2>2 DEF IsJournal, JournalFields
  <2> HIDE DEF m
  <2>4. row[mem.op].version <= pointer.manager
    <3>1. row[mem.op].version \in Nat /\ row[mem.op].action \in {"apply", "rollback"}
      BY <2>2 DEF SystemdInv, RequestsOK, UpdateAssumption
    <3>2. current \in Nat /\ pointer.manager \in Nat /\ pointer.manager >= current
      BY DEF SystemdInv, HostOK, PointersOK, UpdateAssumption
    <3>3. CASE row[mem.op].action = "apply"
      BY <2>2, <3>1, <3>2, <3>3 DEF Where
    <3>4. CASE row[mem.op].action = "rollback"
      BY <2>2, <3>1, <3>2, <3>4 DEF Where, JournalOK
    <3> QED BY <3>1, <3>3, <3>4
  <2>5. JournalOK(m)
    BY <2>2, <2>3, <2>4 DEF JournalOK, Where, Forward
  <2>6. Point(m) \in {"own", "stopping", "switching"} /\ (Point(m) # "own" => m.maint)
    BY <2>2, <2>3 DEF Where, Point
  <2>7. Where(Point(m), FALSE, m, maintenance)
    BY <2>2, <2>3, <2>6 DEF Where, Forward
  <2>8. "checked" \notin Elsewhere \cup {"idle"} /\ Point(m) \notin Elsewhere \cup {"idle"}
    BY <2>6 DEF Elsewhere
  <2> QED BY <2>1, <2>2, <2>3, <2>5, <2>7, <2>8, SaveStepKeeps
<1>7. CASE Migrated
  <2> DEFINE m == [mem EXCEPT !.migrated = TRUE]
  <2>1. SaveStep("migrated", TRUE, m, "switching")
    BY <1>7 DEF Migrated
  <2>2. Reached("migrated")
    BY <1>1, <2>1 DEF SaveStep
  <2>3. Like(m, mem) /\ Where("switching", FALSE, mem, maintenance)
    BY <2>2 DEF IsJournal, JournalFields, Like, Where
  <2> HIDE DEF m
  <2>4. JournalOK(m) /\ Where("switching", FALSE, m, maintenance)
    BY <2>2, <2>3, LikeKeeps
  <2>5. "migrated" \notin Elsewhere \cup {"idle"} /\ "switching" \notin Elsewhere \cup {"idle"}
    BY DEF Elsewhere
  <2>6. IsJournal(m) /\ m.op = mem.op /\ m.phase # "none" /\ unit.then = "consume"
    BY <2>2, <2>3 DEF Like
  <2> QED BY <2>1, <2>4, <2>5, <2>6, SaveStepKeeps
<1>8. CASE RecoverRecord
  <2>1. SaveStep("r_record", TRUE, mem, "r_start")
    BY <1>8 DEF RecoverRecord
  <2>2. Reached("r_record")
    BY <1>1, <2>1 DEF SaveStep
  <2>3. Where("r_start", FALSE, mem, maintenance)
    BY <2>2 DEF Where
  <2>4. "r_record" \notin Elsewhere \cup {"idle"} /\ "r_start" \notin Elsewhere \cup {"idle"}
    BY DEF Elsewhere
  <2> QED BY <2>1, <2>2, <2>3, <2>4, SaveStepKeeps
<1>9. CASE Finish
  <2> DEFINE m == [mem EXCEPT !.maint = mem.phase = "recovery_failed"]
  <2>1. SaveStep("finish", TRUE, m, "f_publish")
    BY <1>9 DEF Finish
  <2>2. Reached("finish")
    BY <1>1, <2>1 DEF SaveStep
  <2>3. /\ IsJournal(m) /\ m.op = mem.op /\ m.phase = mem.phase /\ m.old = mem.old /\ m.manager = mem.manager
        /\ (m.target <=> mem.target) /\ (m.deps <=> mem.deps) /\ (m.backup <=> mem.backup)
        /\ (m.maint <=> mem.phase = "recovery_failed")
    BY <2>2 DEF IsJournal, JournalFields
  <2> HIDE DEF m
  <2>4. JournalOK(m)
    BY <2>2, <2>3 DEF JournalOK, Where, Forward, Settled
  <2>5. Where("f_publish", FALSE, m, maintenance)
    BY <2>2, <2>3 DEF Where
  <2>6. "finish" \notin Elsewhere \cup {"idle"} /\ "f_publish" \notin Elsewhere \cup {"idle"}
    BY DEF Elsewhere
  <2>7. unit.then = "consume" \/ ("f_publish" \in Finishing /\ m.phase \in Settled)
    BY <2>2, <2>3 DEF SystemdInv, UnitOK, Place
  <2> QED BY <2>1, <2>2, <2>3, <2>4, <2>5, <2>6, <2>7, SaveStepKeeps
<1> QED BY <1>2, <1>3, <1>4, <1>5, <1>6, <1>7, <1>8, <1>9


\* The steps that leave the host alone and do not go on to the next save or command alone.
LEMMA PlainStepsKeep ==
    ASSUME UpdateAssumption, SystemdInv,
           \/ Admit \/ Process \/ OwnPreparing \/ BackupRuntime \/ Preflight \/ Migrate
           \/ CheckHealth \/ Error \/ RecoverCheck \/ RecoverHealth
    PROVE  SystemdInv'
<1> USE DEF Known, Equipped, Armed, Moving, Moved, Cold, BackedUp, Preparatory, PutBack, Restoring,
            Opened, Finishing
<1> DEFINE Reached(at) ==
        /\ unit.pc = at /\ IsJournal(mem) /\ mem.phase # "none" /\ mem.op \in Rows /\ mem.op # NoOp
        /\ PendingOp = mem.op /\ JournalOK(mem) /\ Alike(journal[mem.op], mem) /\ Like(mem, mem)
        /\ Where(at, FALSE, mem, maintenance) \/ Where(at, TRUE, mem, maintenance)
        /\ unit.then = "consume"
<1>1. ASSUME NEW at \in {"admit", "own", "backup_runtime", "preflight", "migrate", "health", "error",
                         "r_check", "r_health"},
             unit.pc = at
      PROVE  Reached(at)
  <2>1. at \notin Elsewhere /\ at # "idle"
    BY DEF Elsewhere
  <2> QED BY <1>1, <2>1, Held, ThenConsume DEF Like
<1>2. CASE Admit
  <2>1. Reached("admit") /\ Still /\ UNCHANGED <<pointer, backup>>
    BY <1>1, <1>2 DEF Admit, Here, Still, apiVars, hostVars
  <2>2. ASSUME NEW m, Like(m, mem) PROVE Place("process", m, unit.then) /\ Where("process", FALSE, m, maintenance)
    BY <2>1, <2>2 DEF Place, Where, Elsewhere, Like
  <2>3. CASE Goto("process", mem) /\ UNCHANGED journal
    BY <2>1, <2>2, <2>3, MoveKeeps
  <2>4. CASE Goto("process", [mem EXCEPT !.admitted = TRUE]) /\ Save([mem EXCEPT !.admitted = TRUE])
    <3> DEFINE m == [mem EXCEPT !.admitted = TRUE]
    <3>1. Like(m, mem) /\ Goto("process", m) /\ Save(m)
      BY <2>1, <2>4 DEF Like, IsJournal, JournalFields
    <3> HIDE DEF m
    <3>2. JournalOK(m) /\ IsJournal(m) /\ m.op = mem.op /\ m.phase # "none"
      BY <2>1, <3>1, LikeKeeps DEF Like
    <3>3. Place("process", m, unit.then) /\ Where("process", FALSE, m, maintenance)
      BY <2>2, <3>1
    <3> QED BY <2>1, <3>1, <3>2, <3>3, MoveKeeps
  <2>5. CASE Goto("refused", [mem EXCEPT !.maint = mem.maint \/ mem.stopped]) /\ UNCHANGED journal
    <3> DEFINE m == [mem EXCEPT !.maint = mem.maint \/ mem.stopped]
    <3>1. /\ IsJournal(m) /\ m.op = mem.op /\ m.phase = mem.phase /\ m.old = mem.old
          /\ m.manager = mem.manager /\ (m.target <=> mem.target) /\ (m.deps <=> mem.deps)
          /\ (m.backup <=> mem.backup) /\ (mem.maint => m.maint) /\ Goto("refused", m)
      BY <2>1, <2>5 DEF IsJournal, JournalFields
    <3> HIDE DEF m
    <3>2. Alike(journal[mem.op], m) /\ Place("refused", m, unit.then) /\ Where("refused", FALSE, m, maintenance)
      BY <2>1, <3>1 DEF Alike, Place, Where
    <3> QED BY <2>1, <2>5, <3>1, <3>2, MoveKeeps
  <2> QED BY <1>2, <2>3, <2>4, <2>5 DEF Admit
<1>3. CASE Process
  <2>1. /\ Still /\ UNCHANGED <<pointer, backup, journal>> /\ unit.pc = "process"
        /\ IsJournal(mem) /\ mem.phase # "none" /\ mem.op \in Rows /\ Alike(journal[mem.op], mem)
        /\ unit.then = "consume" /\ (PendingOp = mem.op \/ mem.phase \in Settled)
    BY <1>3, ThenConsume DEF Process, Here, Still, apiVars, hostVars, SystemdInv, UnitOK, Place, Elsewhere
  <2>2. CASE mem.phase \in Settled
    <3>1. Goto(IF PendingOp = mem.op THEN "finish" ELSE "consume", mem)
      BY <1>3, <2>2 DEF Process, Settled, Terminal
    <3>2. CASE PendingOp = mem.op
      <4>1. Place("finish", mem, unit.then) /\ Where("finish", FALSE, mem, maintenance)
        BY <2>1, <2>2, <3>2 DEF Place, Where, Settled
      <4> QED BY <2>1, <3>1, <3>2, <4>1, MoveKeeps
    <3>3. CASE PendingOp # mem.op
      <4>1. Place("consume", mem, unit.then) /\ Where("consume", FALSE, mem, maintenance)
        BY <2>1, <2>2, <3>3 DEF Place, Where, Elsewhere
      <4> QED BY <2>1, <3>1, <3>3, <4>1, MoveKeeps
    <3> QED BY <3>2, <3>3
  <2>3. CASE mem.phase \notin Settled
    <3>1. PendingOp = mem.op /\ JournalOK(mem)
      BY <2>1, <2>3, Held
    <3>2. CASE mem.phase \in {"rolling_back", "recovery_failed"}
      <4>1. Goto("recover", mem)
        BY <1>3, <2>3, <3>2 DEF Process, Terminal, Settled
      <4>2. Place("recover", mem, unit.then) /\ Where("recover", FALSE, mem, maintenance)
        BY <2>1, <3>1 DEF Place, Where
      <4> QED BY <2>1, <4>1, <4>2, MoveKeeps
    <3>3. CASE mem.phase \notin {"rolling_back", "recovery_failed"}
      <4>1. Forward(mem)
        BY <2>3, <3>3 DEF Forward, Settled
      <4>2. Raise("interrupted") \/ Goto(Point(mem), mem)
        BY <1>3, <4>1 DEF Process, Forward, Terminal
      <4>3. Raise("interrupted") => SystemdInv'
        BY <2>1, <3>1, RaiseKeeps DEF Still
      <4>4. /\ Point(mem) \in {"identify", "verify", "precheck", "own", "switching", "stopping"}
            /\ Where(Point(mem), FALSE, mem, maintenance)
        BY <3>1, <4>1 DEF Point, Where, JournalOK
      <4>5. Place(Point(mem), mem, unit.then)
        BY <2>1, <3>1, <4>4 DEF Place
      <4> QED BY <2>1, <4>2, <4>3, <4>4, <4>5, MoveKeeps
    <3> QED BY <3>2, <3>3
  <2> QED BY <2>2, <2>3
<1>4. CASE OwnPreparing
  <2>1. Reached("own") /\ Still /\ UNCHANGED <<pointer, backup, journal>>
    BY <1>1, <1>4 DEF OwnPreparing, Here, Still, apiVars, hostVars
  <2> DEFINE m == [mem EXCEPT !.maint = TRUE]
  <2>2. Goto("preparing", m) \/ Raise("conflict")
    BY <1>4 DEF OwnPreparing
  <2>3. /\ IsJournal(m) /\ m.op = mem.op /\ m.phase = mem.phase /\ m.old = mem.old /\ m.manager = mem.manager
        /\ (m.target <=> mem.target) /\ (m.deps <=> mem.deps) /\ (m.backup <=> mem.backup) /\ m.maint
    BY <2>1 DEF IsJournal, JournalFields
  <2> HIDE DEF m
  <2>4. Raise("conflict") => SystemdInv'
    BY <2>1, RaiseKeeps DEF Still
  <2>5. Alike(journal[mem.op], m) /\ Place("preparing", m, unit.then) /\ Where("preparing", FALSE, m, maintenance)
    BY <2>1, <2>3 DEF Alike, Place, Where, Forward
  <2> QED BY <2>1, <2>2, <2>3, <2>4, <2>5, MoveKeeps
<1>5. CASE BackupRuntime
  <2>1. Reached("backup_runtime") /\ Still /\ UNCHANGED <<pointer, backup>>
    BY <1>1, <1>5 DEF BackupRuntime, Here, Still, apiVars, hostVars
  <2> DEFINE m == [mem EXCEPT !.runtime = TRUE]
  <2>2. (Goto(AfterBackups, m) /\ Save(m)) \/ (Raise("conflict") /\ UNCHANGED journal)
    BY <1>5 DEF BackupRuntime
  <2>3. Like(m, mem)
    BY <2>1 DEF Like, IsJournal, JournalFields
  <2> HIDE DEF m
  <2>4. Raise("conflict") /\ UNCHANGED journal => SystemdInv'
    BY <2>1, RaiseKeeps DEF Still
  <2>5. AfterBackups \in {"preflighting", "migrated"}
    BY DEF AfterBackups
  <2>6. Place(AfterBackups, m, unit.then) /\ Where(AfterBackups, FALSE, m, maintenance)
    BY <2>1, <2>3, <2>5 DEF Like, Place, Where, Forward
  <2>7. JournalOK(m) /\ IsJournal(m) /\ m.op = mem.op /\ m.phase # "none"
    BY <2>1, <2>3, LikeKeeps DEF Like
  <2> QED BY <2>1, <2>2, <2>4, <2>6, <2>7, MoveKeeps
<1>6. CASE Preflight
  <2>1. Reached("preflight") /\ Still /\ UNCHANGED <<pointer, backup, journal>>
    BY <1>1, <1>6 DEF Preflight, Here, Still, apiVars, hostVars
  <2> DEFINE m == [mem EXCEPT !.started = TRUE]
  <2>2. Goto("migrating", m) /\ Like(m, mem)
    BY <1>6, <2>1 DEF Preflight, Like, IsJournal, JournalFields
  <2> HIDE DEF m
  <2>3. Place("migrating", m, unit.then) /\ Where("migrating", FALSE, m, maintenance)
    BY <2>1, <2>2 DEF Like, Place, Where, Forward
  <2>4. Alike(journal[mem.op], m) /\ IsJournal(m) /\ m.op = mem.op /\ m.phase # "none"
    BY <2>1, <2>2, LikeKeeps DEF Like
  <2> QED BY <2>1, <2>2, <2>3, <2>4, MoveKeeps
<1>7. CASE Migrate
  <2>1. Reached("migrate") /\ OwnerStep("migrate", mem, "migrated")
    BY <1>1, <1>7 DEF Migrate, OwnerStep
  <2>2. Where("migrated", FALSE, mem, maintenance)
    BY <2>1 DEF Where
  <2>3. "migrate" \notin Elsewhere \cup {"idle"} /\ "migrated" \notin Elsewhere \cup Finishing \cup {"idle"}
    BY DEF Elsewhere
  <2> QED BY <2>1, <2>2, <2>3, OwnerStepKeeps
<1>8. CASE CheckHealth
  <2>1. Reached("health") /\ Still /\ UNCHANGED <<pointer, backup, journal>>
    BY <1>1, <1>8 DEF CheckHealth, Here, Still, apiVars, hostVars
  <2>2. CASE Healthy(Target)
    <3>1. /\ DOMAIN unit' = {"pc", "stage", "mem", "then", "cause", "exe"}
          /\ unit'.pc = "done" /\ unit'.stage = "save" /\ unit'.then = "prune" /\ mem' = mem
      BY <1>8, <2>2 DEF CheckHealth, SystemdInv, UnitOK, mem
    <3>2. RequestsOK' /\ HostOK' /\ PointersOK' /\ MarkerOK' /\ UNCHANGED <<PendingOp, Rows>> /\ JournalsOK'
      BY <2>1, StillKeeps, JournalsKept
    <3>3. Place(unit.pc, mem, unit.then)'
      BY <2>1, <3>1, <3>2 DEF Place
    <3>4. Where("done", FALSE, mem, maintenance)
      BY <2>1, <2>2 DEF Where, Healthy, Target, Intent
    <3>5. Where(unit.pc, unit.stage # "save", mem, maintenance)'
      BY <2>1, <3>1, <3>4 DEF Where, Forward, Still
    <3> QED BY <2>1, <3>1, <3>2, <3>3, <3>5 DEF SystemdInv, UnitOK, Alike
  <2>3. CASE ~Healthy(Target)
    <3>1. Raise("check")
      BY <1>8, <2>3 DEF CheckHealth
    <3> QED BY <2>1, <3>1, RaiseKeeps DEF Still
  <2> QED BY <2>2, <2>3
<1>9. CASE Error
  <2>1. Reached("error") /\ Still /\ UNCHANGED <<pointer, backup, journal>>
    BY <1>1, <1>9 DEF Error, Here, Still, apiVars, hostVars
  <2> DEFINE pc == IF Disrupted(mem) THEN "recover" ELSE "failing"
  <2>2. Goto(pc, mem)
    BY <1>9 DEF Error
  <2>3. pc \in {"recover", "failing"} /\ (pc = "failing" => ~mem.maint)
    BY DEF Disrupted
  <2> HIDE DEF pc
  <2>5. pc \notin Finishing \ {"finish"}
    BY <2>3
  <2>4. Place(pc, mem, unit.then) /\ Where(pc, FALSE, mem, maintenance)
    BY <2>1, <2>3 DEF Place, Where
  <2> QED BY <2>1, <2>2, <2>4, <2>5, MoveKeeps
<1>10. CASE RecoverCheck
  <2>1. Reached("r_check") /\ Still /\ UNCHANGED <<pointer, backup>>
    BY <1>1, <1>10 DEF RecoverCheck, Here, Still, apiVars, hostVars
  <2> DEFINE m == [mem EXCEPT !.switched = @ \/ current = Target]
  <2>2. Like(m, mem)
    BY <2>1 DEF Like, IsJournal, JournalFields
  <2>3. \/ Save(m) /\ Goto("r_stop", m) /\ mem.old \in releases
        \/ Goto("r_failed", mem) /\ UNCHANGED journal
    BY <1>10 DEF RecoverCheck, Sound
  <2> HIDE DEF m
  <2>4. CASE Goto("r_failed", mem) /\ UNCHANGED journal
    <3>1. Place("r_failed", mem, unit.then) /\ Where("r_failed", FALSE, mem, maintenance)
      BY <2>1 DEF Place, Where
    <3> QED BY <2>1, <2>4, <3>1, MoveKeeps
  <2>5. CASE Save(m) /\ Goto("r_stop", m) /\ mem.old \in releases
    <3>1. Place("r_stop", m, unit.then) /\ Where("r_stop", FALSE, m, maintenance)
      BY <2>1, <2>2, <2>5 DEF Like, Place, Where
    <3>2. JournalOK(m) /\ IsJournal(m) /\ m.op = mem.op /\ m.phase # "none"
      BY <2>1, <2>2, LikeKeeps DEF Like
    <3> QED BY <2>1, <2>5, <3>1, <3>2, MoveKeeps
  <2> QED BY <2>3, <2>4, <2>5
<1>11. CASE RecoverHealth
  <2>1. Reached("r_health") /\ Still /\ UNCHANGED <<pointer, backup, journal>>
    BY <1>1, <1>11 DEF RecoverHealth, Here, Still, apiVars, hostVars
  <2> DEFINE m == [mem EXCEPT !.healthy = TRUE]
  <2>2. Like(m, mem)
    BY <2>1 DEF Like, IsJournal, JournalFields
  <2>3. (Goto("r_done", m) /\ services.api = mem.old) \/ Goto("r_failed", mem)
    BY <1>11 DEF RecoverHealth, Healthy
  <2> HIDE DEF m
  <2>4. CASE Goto("r_failed", mem)
    <3>1. Place("r_failed", mem, unit.then) /\ Where("r_failed", FALSE, mem, maintenance)
      BY <2>1 DEF Place, Where
    <3> QED BY <2>1, <2>4, <3>1, MoveKeeps
  <2>5. CASE Goto("r_done", m) /\ services.api = mem.old
    <3>1. Place("r_done", m, unit.then) /\ Where("r_done", FALSE, m, maintenance)
      BY <2>1, <2>2, <2>5 DEF Like, Place, Where
    <3>2. Alike(journal[mem.op], m) /\ IsJournal(m) /\ m.op = mem.op /\ m.phase # "none"
      BY <2>1, <2>2, LikeKeeps DEF Like
    <3> QED BY <2>1, <2>5, <3>1, <3>2, MoveKeeps
  <2> QED BY <2>3, <2>4, <2>5
<1> QED BY <1>2, <1>3, <1>4, <1>5, <1>6, <1>7, <1>8, <1>9, <1>10, <1>11


\* The journals stay as they are; what the pending one says stays true of the host.
LEMMA JournalsStay ==
    ASSUME JournalsOK, UNCHANGED <<journal, PendingOp>>, DOMAIN backup' = Ops, Rows \subseteq Rows',
           PendingOp # NoOp => JournalOK(journal[PendingOp])'
    PROVE  JournalsOK'
  BY DEF JournalsOK, Untouched

\* The program counter moves on with the journal that is in memory.
LEMMA UnitMoves ==
    ASSUME UpdateAssumption, SystemdInv, unit.pc # "idle", NEW pc, Goto(pc, mem), UNCHANGED journal,
           Rows \subseteq Rows', Place(unit.pc, mem, unit.then)',
           pc # "idle", pc \in Finishing \ {"finish"} => (journal[mem.op].maint <=> mem.maint),
           Where(unit.pc, unit.stage # "save", mem, maintenance)'
    PROVE  UnitOK'
<1>1. /\ DOMAIN unit' = {"pc", "stage", "mem", "then", "cause", "exe"}
      /\ unit'.pc = pc /\ unit'.stage = "save" /\ unit'.then = unit.then /\ mem' = mem
  BY GotoShape DEF SystemdInv, UnitOK
<1> QED BY <1>1 DEF SystemdInv, UnitOK, Alike

\* The steps that move the manager's link or its record.
LEMMA ManagerStepsKeep ==
    ASSUME UpdateAssumption, SystemdInv, MaterializeManager \/ HandOffManager \/ InitializeLayout
    PROVE  SystemdInv'
<1> USE DEF Known, Equipped, Armed, Moving, Moved, Cold, BackedUp, Preparatory, PutBack, Restoring,
            Opened, Finishing
<1>1. /\ UNCHANGED <<row, request, public, maintenance, releases, current, services, data, writing>>
      /\ UNCHANGED <<journal, backup>> /\ unit.pc \in {"manager", "handoff", "initialise"}
  BY DEF MaterializeManager, HandOffManager, InitializeLayout, Here, apiVars, hostVars
<1>2. /\ PendingOp = mem.op /\ mem.op \in Ops /\ mem.op \in Rows /\ mem.op # NoOp /\ unit.then = "consume"
      /\ IsJournal(mem) /\ mem.phase # "none" /\ Alike(journal[mem.op], mem) /\ Like(mem, mem)
      /\ Where(unit.pc, unit.stage # "save", mem, maintenance)
      /\ JournalOK(journal[mem.op]) /\ JournalOK(mem)
  BY <1>1, Held, ThenConsume DEF Elsewhere, Like
<1>3. ASSUME /\ DOMAIN pointer' = {"active", "blocked", "manager", "record"}
             /\ pointer'.active = pointer.active /\ pointer'.blocked = pointer.blocked
             /\ pointer'.manager \in Nat /\ pointer'.manager >= current
             /\ mem.deps => pointer'.manager = pointer.manager
      PROVE  /\ UNCHANGED <<PendingOp, Rows>>
             /\ RequestsOK' /\ HostOK' /\ PointersOK' /\ MarkerOK' /\ JournalsOK'
  <2>1. UNCHANGED <<PendingOp, Rows>>
    BY <1>1, <1>3 DEF PendingOp, Rows
  <2>2. RequestsOK' /\ HostOK' /\ PointersOK' /\ MarkerOK'
    BY <1>1, <1>3, <2>1 DEF SystemdInv, RequestsOK, HostOK, PointersOK, MarkerOK, Serving
  <2>3. Forward(journal[mem.op]) /\ (journal[mem.op].old # 0 /\ ~mem.deps => journal[mem.op].old = current)
    BY <1>1, <1>2 DEF Where, Alike, Forward, JournalOK
  <2>4. JournalOK(journal[PendingOp])'
    BY <1>1, <1>2, <1>3, <2>1, <2>3 DEF JournalOK, Forward, Alike, Serving
  <2> QED BY <1>1, <2>1, <2>2, <2>4, JournalsStay DEF SystemdInv, JournalsOK
<1>4. CASE MaterializeManager
  <2>1. Goto("handoff", mem) /\ pointer' = [pointer EXCEPT !.manager = row[mem.op].version] /\ unit.pc = "manager"
    BY <1>4 DEF MaterializeManager, Target, Intent
  <2>2. row[mem.op].version \in Nat /\ row[mem.op].version > current /\ ~mem.deps /\ current \in Nat
    BY <1>2, <2>1 DEF Where, JournalOK, SystemdInv, RequestsOK, HostOK, UpdateAssumption
  <2>3. /\ DOMAIN pointer' = {"active", "blocked", "manager", "record"}
        /\ pointer'.active = pointer.active /\ pointer'.blocked = pointer.blocked
        /\ pointer'.manager = row[mem.op].version
    BY <2>1 DEF SystemdInv, PointersOK
  <2>4. /\ UNCHANGED <<PendingOp, Rows>>
        /\ RequestsOK' /\ HostOK' /\ PointersOK' /\ MarkerOK' /\ JournalsOK'
    BY <1>3, <2>2, <2>3
  <2>5. /\ unit'.pc = "handoff" /\ unit'.stage = "save" /\ unit'.then = unit.then /\ mem' = mem
    BY <2>1, GotoShape DEF SystemdInv, UnitOK
  <2>6. Place(unit.pc, mem, unit.then)'
    BY <1>2, <2>4, <2>5 DEF Place, Elsewhere
  <2>7. Where(unit.pc, unit.stage # "save", mem, maintenance)'
    BY <1>1, <1>2, <2>1, <2>3, <2>5 DEF Where, Forward
  <2>8. UnitOK'
    BY <1>1, <1>2, <2>1, <2>4, <2>6, <2>7, UnitMoves
  <2> QED BY <2>4, <2>8 DEF SystemdInv
<1>5. CASE InitializeLayout
  <2>1. Goto("checked", mem) /\ pointer' = [pointer EXCEPT !.record = pointer.manager] /\ unit.pc = "initialise"
    BY <1>5 DEF InitializeLayout
  <2>2. /\ DOMAIN pointer' = {"active", "blocked", "manager", "record"}
        /\ pointer'.active = pointer.active /\ pointer'.blocked = pointer.blocked
        /\ pointer'.manager = pointer.manager
    BY <2>1 DEF SystemdInv, PointersOK
  <2>3. pointer.manager \in Nat /\ pointer.manager >= current
    BY DEF SystemdInv, PointersOK
  <2>4. /\ UNCHANGED <<PendingOp, Rows>>
        /\ RequestsOK' /\ HostOK' /\ PointersOK' /\ MarkerOK' /\ JournalsOK'
    BY <1>3, <2>2, <2>3
  <2>5. /\ unit'.pc = "checked" /\ unit'.stage = "save" /\ unit'.then = unit.then /\ mem' = mem
    BY <2>1, GotoShape DEF SystemdInv, UnitOK
  <2>6. Place(unit.pc, mem, unit.then)'
    BY <1>2, <2>4, <2>5 DEF Place, Elsewhere
  <2>7. Where(unit.pc, unit.stage # "save", mem, maintenance)'
    BY <1>1, <1>2, <2>1, <2>2, <2>5 DEF Where, Forward
  <2>8. UnitOK'
    BY <1>1, <1>2, <2>1, <2>4, <2>6, <2>7, UnitMoves
  <2> QED BY <2>4, <2>8 DEF SystemdInv
<1>6. CASE HandOffManager
  <2>1. unit.pc = "handoff" /\ ~mem.deps
    BY <1>2, <1>6 DEF HandOffManager, Where
  <2>2. CASE Goto("initialise", mem) /\ UNCHANGED pointer
    <3>1. Place("initialise", mem, unit.then) /\ Where("initialise", FALSE, mem, maintenance)
      BY <1>2, <2>1 DEF Place, Where
    <3> QED BY <1>1, <1>2, <2>2, <3>1, MoveKeeps DEF Still
  <2>3. CASE Run("admit", journal[mem.op]) /\ UNCHANGED pointer
    <3>1. /\ DOMAIN unit' = {"pc", "stage", "mem", "then", "cause", "exe"}
          /\ unit'.pc = "admit" /\ unit'.stage = "save" /\ unit'.then = "consume"
          /\ mem' = journal[mem.op]
      BY <2>3, RunShape
    <3>2. RequestsOK' /\ HostOK' /\ PointersOK' /\ MarkerOK' /\ JournalsOK' /\ UNCHANGED <<PendingOp, Rows>>
      BY <1>1, <2>3, StillKeeps, JournalsKept DEF Still
    <3>3. IsJournal(journal[mem.op]) /\ journal[mem.op].op = mem.op /\ journal[mem.op].phase # "none"
      BY <1>2 DEF SystemdInv, JournalsOK, Alike
    <3>4. Place(unit.pc, mem, unit.then)' /\ Where(unit.pc, unit.stage # "save", mem, maintenance)'
      BY <1>2, <3>1, <3>2, <3>3 DEF Place, Where
    <3> QED BY <1>1, <1>2, <3>1, <3>2, <3>3, <3>4 DEF SystemdInv, UnitOK, Alike
  <2>4. CASE /\ pointer' = [pointer EXCEPT !.manager = mem.manager, !.record = mem.manager]
             /\ Raise("command")
    <3>1. /\ DOMAIN pointer' = {"active", "blocked", "manager", "record"}
          /\ pointer'.active = pointer.active /\ pointer'.blocked = pointer.blocked
          /\ pointer'.manager = mem.manager
      BY <2>4 DEF SystemdInv, PointersOK
    <3>2. mem.manager \in Nat /\ mem.manager >= current
      BY <1>2, <2>1 DEF Where, JournalOK
    <3>3. /\ UNCHANGED <<PendingOp, Rows>>
          /\ RequestsOK' /\ HostOK' /\ PointersOK' /\ MarkerOK' /\ JournalsOK'
      BY <1>3, <2>1, <3>1, <3>2
    <3>4. /\ DOMAIN unit' = {"pc", "stage", "mem", "then", "cause", "exe"}
          /\ unit'.pc = "error" /\ unit'.stage = "save" /\ unit'.then = "consume" /\ mem' = mem
      BY <2>4, RaiseShape DEF SystemdInv, UnitOK
    <3>5. Place(unit.pc, mem, unit.then)' /\ Where(unit.pc, unit.stage # "save", mem, maintenance)'
      BY <1>2, <3>3, <3>4 DEF Place, Where
    <3> QED BY <1>1, <1>2, <3>3, <3>4, <3>5 DEF SystemdInv, UnitOK, Alike
  <2> QED BY <1>6, <2>2, <2>3, <2>4 DEF HandOffManager
<1> QED BY <1>4, <1>5, <1>6


\* A run of the unit begins with the journal of an operation, or with a new one.
LEMMA ClaimStepsKeep ==
    ASSUME UpdateAssumption, SystemdInv, ClaimPending \/ ClaimOrphan \/ ClaimNew \/ Activate \/ Discard
    PROVE  SystemdInv'
<1>1. ASSUME NEW pc \in {"admit", "process", "activate"}, unit'.pc = pc, unit'.stage = "save"
      PROVE  Where(unit.pc, unit.stage # "save", mem, maintenance)' /\ pc \notin Finishing
  BY <1>1 DEF Where, Known, Equipped, Armed, Moving, Moved, Cold, BackedUp, Preparatory, PutBack, Restoring,
         Opened, Finishing
<1>2. CASE ClaimPending
  <2>1. /\ Still /\ UNCHANGED <<pointer, backup, journal>> /\ Run("admit", journal[PendingOp])
        /\ PendingOp # NoOp
    BY <1>2 DEF ClaimPending, Here, Still, apiVars, hostVars
  <2>2. RequestsOK' /\ HostOK' /\ PointersOK' /\ MarkerOK' /\ JournalsOK' /\ UNCHANGED <<PendingOp, Rows>>
    BY <2>1, StillKeeps, JournalsKept
  <2>3. /\ DOMAIN unit' = {"pc", "stage", "mem", "then", "cause", "exe"}
        /\ unit'.pc = "admit" /\ unit'.stage = "save" /\ unit'.then = "consume" /\ mem' = journal[PendingOp]
    BY <2>1, RunShape
  <2>4. /\ IsJournal(journal[PendingOp]) /\ journal[PendingOp].op = PendingOp
        /\ journal[PendingOp].phase # "none" /\ PendingOp \in Rows
    BY <2>1 DEF SystemdInv, JournalsOK, Rows
  <2>5. Place(unit.pc, mem, unit.then)'
    BY <2>2, <2>3, <2>4 DEF Place, Elsewhere
  <2> QED BY <1>1, <2>1, <2>2, <2>3, <2>4, <2>5 DEF SystemdInv, UnitOK, Alike
<1>3. CASE ClaimOrphan
  <2>1. PICK o \in Orphans : pointer' = [pointer EXCEPT !.active = o] /\ Run("admit", journal[o])
    BY <1>3 DEF ClaimOrphan
  <2>2. Still /\ UNCHANGED <<journal, backup>> /\ PendingOp = NoOp
    BY <1>3 DEF ClaimOrphan, Here, Still, apiVars, hostVars
  <2>3. /\ o \in Ops /\ o # NoOp /\ IsJournal(journal[o]) /\ journal[o].op = o /\ o \in Rows
        /\ journal[o].phase # "none" /\ Untouched(journal[o])
    BY <2>1, <2>2, OpIsNotNoOp DEF Orphans, SystemdInv, JournalsOK, Settled
  <2>4. /\ DOMAIN pointer' = {"active", "blocked", "manager", "record"}
        /\ pointer'.active = o /\ pointer'.blocked = pointer.blocked
        /\ pointer'.manager = pointer.manager /\ pointer.blocked = NoOp
    BY <2>1, <2>2 DEF SystemdInv, PointersOK, PendingOp
  <2>5. PendingOp' = o /\ UNCHANGED Rows
    BY <2>2, <2>3, <2>4 DEF PendingOp, Rows, Still
  <2>6. ~maintenance
    BY <2>2 DEF SystemdInv, PointersOK
  <2>7. RequestsOK' /\ HostOK' /\ PointersOK' /\ MarkerOK'
    BY <2>2, <2>3, <2>4, <2>5
       DEF SystemdInv, RequestsOK, HostOK, PointersOK, MarkerOK, Serving, Still
  <2>8. JournalOK(journal[o])'
    BY <2>2, <2>3, <2>6 DEF JournalOK, Untouched, Still, Settled, Terminal
  <2>9. JournalsOK'
    BY <2>2, <2>3, <2>5, <2>8, OpIsNotNoOp DEF SystemdInv, JournalsOK, Untouched
  <2>10. /\ DOMAIN unit' = {"pc", "stage", "mem", "then", "cause", "exe"}
         /\ unit'.pc = "admit" /\ unit'.stage = "save" /\ unit'.then = "consume" /\ mem' = journal[o]
    BY <2>1, RunShape
  <2>11. Place(unit.pc, mem, unit.then)'
    BY <2>3, <2>5, <2>10 DEF Place, Elsewhere
  <2> QED BY <1>1, <2>2, <2>3, <2>5, <2>7, <2>9, <2>10, <2>11 DEF SystemdInv, UnitOK, Alike
<1>4. CASE ClaimNew
  <2>1. /\ Still /\ UNCHANGED <<pointer, backup>> /\ PendingOp = NoOp /\ Orphans = {}
        /\ request \in Rows /\ request \in Ops
    BY <1>4 DEF ClaimNew, Here, Still, apiVars, hostVars, SystemdInv, RequestsOK, Rows
  <2>2. RequestsOK' /\ HostOK' /\ PointersOK' /\ MarkerOK' /\ UNCHANGED <<PendingOp, Rows>>
    BY <2>1, StillKeeps
  <2>3. CASE journal[request].phase # "none"
    <3>1. Run("process", journal[request]) /\ UNCHANGED journal
      BY <1>4, <2>3 DEF ClaimNew
    <3>2. JournalsOK'
      BY <2>1, <3>1, JournalsKept
    <3>3. /\ DOMAIN unit' = {"pc", "stage", "mem", "then", "cause", "exe"}
          /\ unit'.pc = "process" /\ unit'.stage = "save" /\ unit'.then = "consume" /\ mem' = journal[request]
      BY <3>1, RunShape
    <3>4. IsJournal(journal[request]) /\ journal[request].op = request
      BY <2>1, <2>3 DEF SystemdInv, JournalsOK
    <3>5. journal[request].phase \in Settled
      <4>1. journal[request].phase \in Terminal
        BY <2>1, <2>3 DEF Orphans
      <4>2. journal[request].phase \in Settled \/ Untouched(journal[request])
        BY <2>1, <2>3, OpIsNotNoOp DEF SystemdInv, JournalsOK
      <4> QED BY <4>1, <4>2 DEF Untouched, Terminal
    <3>6. Place(unit.pc, mem, unit.then)'
      BY <3>3, <3>5 DEF Place, Elsewhere
    <3> QED BY <1>1, <2>1, <2>2, <2>3, <3>1, <3>2, <3>3, <3>4, <3>6 DEF SystemdInv, UnitOK, Alike
  <2>4. CASE journal[request].phase = "none"
    <3> DEFINE n == NewJournal(request)
    <3>1. Save(n) /\ Run("activate", n)
      BY <1>4, <2>4 DEF ClaimNew
    <3>2. IsJournal(n) /\ n.op = request /\ n.phase = "queued" /\ Untouched(n)
      BY DEF NewJournal, NoJournal, IsJournal, JournalFields, Untouched
    <3> HIDE DEF n
    <3>3. DOMAIN journal' = Ops /\ journal'[request] = n /\ \A o \in Ops \ {request} : journal'[o] = journal[o]
      BY <2>1, <3>1, <3>2 DEF Save, SystemdInv, JournalsOK
    <3>4. JournalsOK'
      BY <2>1, <2>2, <3>2, <3>3 DEF SystemdInv, JournalsOK, Untouched
    <3>5. /\ DOMAIN unit' = {"pc", "stage", "mem", "then", "cause", "exe"}
          /\ unit'.pc = "activate" /\ unit'.stage = "save" /\ unit'.then = "consume" /\ mem' = n
      BY <3>1, RunShape
    <3>6. Place(unit.pc, mem, unit.then)'
      BY <2>1, <2>2, <3>2, <3>5 DEF Place, Elsewhere, Untouched
    <3>7. Where(unit.pc, unit.stage # "save", mem, maintenance)' /\ "activate" \notin Finishing
      BY <1>1, <3>5
    <3>8. Alike(journal[mem.op], mem)'
      BY <3>2, <3>3, <3>5 DEF Alike
    <3> QED BY <2>1, <2>2, <3>2, <3>4, <3>5, <3>6, <3>7, <3>8 DEF SystemdInv, UnitOK
  <2> QED BY <2>3, <2>4
<1>5. CASE Activate
  <2>1. /\ Still /\ UNCHANGED <<journal, backup>> /\ unit.pc = "activate" /\ Goto("admit", mem)
        /\ pointer' = [pointer EXCEPT !.active = mem.op]
    BY <1>5 DEF Activate, Here, Still, apiVars, hostVars
  <2>2. /\ PendingOp = NoOp /\ Untouched(mem) /\ IsJournal(mem) /\ mem.op \in Rows /\ mem.phase # "none"
        /\ Alike(journal[mem.op], mem) /\ mem.op \in Ops /\ mem.op # NoOp
    BY <2>1, OpIsNotNoOp DEF SystemdInv, UnitOK, Place, Rows
  <2>3. /\ DOMAIN pointer' = {"active", "blocked", "manager", "record"}
        /\ pointer'.active = mem.op /\ pointer'.blocked = pointer.blocked
        /\ pointer'.manager = pointer.manager /\ pointer.blocked = NoOp
    BY <2>1, <2>2 DEF SystemdInv, PointersOK, PendingOp
  <2>4. PendingOp' = mem.op /\ UNCHANGED Rows /\ ~maintenance
    BY <2>1, <2>2, <2>3 DEF PendingOp, Rows, Still, SystemdInv, PointersOK
  <2>5. RequestsOK' /\ HostOK' /\ PointersOK' /\ MarkerOK'
    BY <2>1, <2>2, <2>3, <2>4
       DEF SystemdInv, RequestsOK, HostOK, PointersOK, MarkerOK, Serving, Still
  <2>6. JournalOK(journal[mem.op])'
    <3>1. mem' = mem
      BY <2>1, GotoShape DEF SystemdInv, UnitOK
    <3>2. /\ journal[mem.op].manager = 0 /\ journal[mem.op].old = 0 /\ journal[mem.op].phase = "queued"
          /\ ~journal[mem.op].deps /\ ~journal[mem.op].target /\ ~journal[mem.op].backup
      BY <2>2 DEF Alike, Untouched
    <3> QED BY <2>1, <2>4, <3>1, <3>2 DEF JournalOK, Still, Settled, Terminal, Forward
  <2>7. JournalsOK'
    <3>1. mem' = mem
      BY <2>1, GotoShape DEF SystemdInv, UnitOK
    <3>2. JournalOK(journal[PendingOp])'
      BY <2>1, <2>4, <2>6, <3>1
    <3>3. journal[mem.op].op = mem.op /\ journal[mem.op].phase # "none"
      BY <2>2 DEF Alike
    <3> QED BY <2>1, <2>2, <2>4, <3>2, <3>3, OpIsNotNoOp DEF SystemdInv, JournalsOK, Untouched
  <2>8. unit'.pc = "admit" /\ unit'.stage = "save" /\ unit'.then = unit.then /\ mem' = mem
    BY <2>1, GotoShape DEF SystemdInv, UnitOK
  <2>9. unit.then = "consume"
    BY <2>1, ThenConsume
  <2>10. Place(unit.pc, mem, unit.then)'
    BY <2>4, <2>8, <2>9 DEF Place, Elsewhere
  <2>11. UnitOK'
    BY <1>1, <2>1, <2>4, <2>8, <2>10, UnitMoves
  <2> QED BY <2>5, <2>7, <2>11 DEF SystemdInv
<1>6. CASE Discard
  <2>1. /\ UNCHANGED <<row, maintenance, releases, current, services, data, writing>>
        /\ UNCHANGED <<journal, pointer, unit, backup>>
        /\ unit.pc = "idle" /\ request' = NoOp
        /\ public' = public \/ public' = [public EXCEPT ![request] = [phase |-> "failed", fresh |-> TRUE]]
    BY <1>6 DEF Discard, apiVars, hostVars, unitVars
  <2>2. UNCHANGED <<PendingOp, Rows>>
    BY <2>1 DEF PendingOp, Rows
  <2>3. RequestsOK'
    <3> DEFINE st == [phase |-> "failed", fresh |-> TRUE]
    <3>1. IsStatus(st) /\ st.phase # "none"
      BY DEF IsStatus
    <3>2. public' = public \/ public' = [public EXCEPT ![request] = st]
      BY <2>1
    <3> HIDE DEF st
    <3> QED BY <2>1, <2>2, <3>1, <3>2 DEF SystemdInv, RequestsOK
  <2>4. HostOK' /\ PointersOK' /\ MarkerOK'
    BY <2>1, <2>2 DEF SystemdInv, HostOK, PointersOK, MarkerOK, Serving
  <2>5. JournalsOK'
    <3>1. PendingOp # NoOp => JournalOK(journal[PendingOp])'
      BY <2>1, <2>2 DEF SystemdInv, JournalsOK, JournalOK, Forward, Serving
    <3> QED BY <2>1, <2>2, <3>1, JournalsStay DEF SystemdInv, JournalsOK
  <2> QED BY <2>1, <2>3, <2>4, <2>5 DEF SystemdInv, UnitOK
<1> QED BY <1>2, <1>3, <1>4, <1>5, <1>6


\* The end of an operation: the status, the marker, the pointers, the releases and the request.
LEMMA FinishStepsKeep ==
    ASSUME UpdateAssumption, SystemdInv,
           \/ FinishPublish \/ FinishGate \/ FinishBlock \/ FinishCleanup \/ FinishUnblock
           \/ FinishRelease
    PROVE  SystemdInv'
<1> USE DEF Known, Equipped, Armed, Moving, Moved, Cold, BackedUp, Preparatory, PutBack, Restoring,
            Opened, Finishing
<1> DEFINE Reached(at) ==
        /\ unit.pc = at /\ IsJournal(mem) /\ mem.phase # "none" /\ mem.op \in Rows /\ mem.op \in Ops
        /\ mem.op # NoOp /\ PendingOp \in {mem.op, NoOp} /\ (at # "f_release" => PendingOp = mem.op)
        /\ Alike(journal[mem.op], mem) /\ (journal[mem.op].maint <=> mem.maint)
        /\ mem.phase \in Terminal /\ (mem.maint <=> mem.phase = "recovery_failed")
        /\ Where(at, FALSE, mem, maintenance) \/ Where(at, TRUE, mem, maintenance)
        /\ Place(at, mem, unit.then)
        /\ PendingOp # NoOp => JournalOK(mem)
<1>1. ASSUME NEW at \in Finishing \ {"finish"}, unit.pc = at
      PROVE  Reached(at)
  <2>1. /\ IsJournal(mem) /\ mem.phase # "none" /\ mem.op \in Rows /\ mem.op \in Ops /\ mem.op # NoOp
        /\ Alike(journal[mem.op], mem) /\ (journal[mem.op].maint <=> mem.maint)
        /\ Where(at, unit.stage # "save", mem, maintenance) /\ Place(at, mem, unit.then)
    BY <1>1, OpIsNotNoOp DEF SystemdInv, UnitOK, Rows
  <2>2. PendingOp \in {mem.op, NoOp} /\ (at # "f_release" => PendingOp = mem.op)
    BY <1>1, <2>1 DEF Place, Elsewhere
  <2>3. PendingOp # NoOp => JournalOK(mem)
    BY <1>1, <2>1, <2>2, Held
  <2> QED BY <1>1, <2>1, <2>2, <2>3 DEF Where
<1>2. ASSUME NEW pc, Goto(pc, mem)
      PROVE  unit'.pc = pc /\ unit'.stage = "save" /\ unit'.then = unit.then /\ mem' = mem
  BY <1>2, GotoShape DEF SystemdInv, UnitOK
<1>3. CASE FinishPublish
  <2>1. Reached("f_publish") /\ Goto("f_gate", mem) /\ PublishStatus(mem)
    BY <1>1, <1>3 DEF FinishPublish
  <2>2. UNCHANGED <<row, request, maintenance, releases, current, services, data, writing, pointer, journal, backup>>
    BY <1>3 DEF FinishPublish, apiVars, hostVars
  <2>3. UNCHANGED <<PendingOp, Rows>> /\ HostOK' /\ PointersOK' /\ MarkerOK' /\ RequestsOK'
    BY <2>1, <2>2, PublishKeeps
  <2>4. JournalsOK'
    <3>1. JournalOK(journal[PendingOp])'
      BY <2>1, <2>2, <2>3 DEF SystemdInv, JournalsOK, JournalOK, Forward, Serving
    <3> QED BY <2>2, <2>3, <3>1, JournalsStay DEF SystemdInv, JournalsOK
  <2>5. Place(unit.pc, mem, unit.then)' /\ Where(unit.pc, unit.stage # "save", mem, maintenance)'
    BY <1>2, <2>1, <2>2, <2>3 DEF Place, Where, Elsewhere
  <2>6. UnitOK'
    BY <2>1, <2>2, <2>3, <2>5, UnitMoves
  <2> QED BY <2>3, <2>4, <2>6 DEF SystemdInv
<1>4. CASE FinishGate
  <2>1. Reached("f_gate") /\ Goto("f_block", mem) /\ maintenance' = mem.maint
    BY <1>1, <1>4 DEF FinishGate
  <2>2. UNCHANGED <<row, request, public, releases, current, services, data, writing, pointer, journal, backup>>
    BY <1>4 DEF FinishGate, apiVars, hostVars
  <2>3. UNCHANGED <<PendingOp, Rows>>
    BY <2>2 DEF PendingOp, Rows
  <2>4. RequestsOK' /\ HostOK' /\ PointersOK'
    BY <2>1, <2>2, <2>3 DEF SystemdInv, RequestsOK, HostOK, PointersOK
  <2>5. MarkerOK'
    BY <2>1, <2>2 DEF MarkerOK, JournalOK, Serving, Settled
  <2>6. JournalsOK'
    <3>1. JournalOK(journal[mem.op])
      BY <2>1 DEF SystemdInv, JournalsOK
    <3>2. JournalOK(journal[PendingOp])'
      BY <2>1, <2>2, <2>3, <3>1 DEF JournalOK, Forward, Serving, Alike, Settled
    <3> QED BY <2>2, <2>3, <3>2, JournalsStay DEF SystemdInv, JournalsOK
  <2>7. Place(unit.pc, mem, unit.then)' /\ Where(unit.pc, unit.stage # "save", mem, maintenance)'
    BY <1>2, <2>1, <2>2, <2>3 DEF Place, Where, Elsewhere, Settled
  <2>8. UnitOK'
    BY <2>1, <2>2, <2>3, <2>7, UnitMoves
  <2> QED BY <2>4, <2>5, <2>6, <2>8 DEF SystemdInv
<1>5. CASE FinishBlock
  <2>1. /\ Reached("f_block") /\ Goto("f_cleanup", mem) /\ Still /\ UNCHANGED <<journal, backup>>
        /\ pointer' = IF mem.phase = "recovery_failed" THEN [pointer EXCEPT !.blocked = mem.op] ELSE pointer
    BY <1>1, <1>5 DEF FinishBlock, Here, Still, apiVars, hostVars
  <2>2. /\ DOMAIN pointer' = {"active", "blocked", "manager", "record"}
        /\ pointer'.active = pointer.active /\ pointer'.manager = pointer.manager
        /\ pointer'.blocked = IF mem.phase = "recovery_failed" THEN mem.op ELSE pointer.blocked
    BY <2>1 DEF SystemdInv, PointersOK
  <2>3. UNCHANGED <<PendingOp, Rows>>
    BY <2>1, <2>2 DEF PendingOp, Rows, Still
  <2>4. RequestsOK' /\ HostOK' /\ PointersOK' /\ MarkerOK'
    BY <2>1, <2>2, <2>3
       DEF SystemdInv, RequestsOK, HostOK, PointersOK, MarkerOK, Serving, Still, PendingOp
  <2>5. JournalsOK'
    <3>1. JournalOK(journal[PendingOp])'
      BY <2>1, <2>2, <2>3 DEF SystemdInv, JournalsOK, JournalOK, Forward, Serving, Still
    <3> QED BY <2>1, <2>3, <3>1, JournalsStay DEF SystemdInv, JournalsOK
  <2>6. Place(unit.pc, mem, unit.then)' /\ Where(unit.pc, unit.stage # "save", mem, maintenance)'
    BY <1>2, <2>1, <2>2, <2>3 DEF Place, Where, Elsewhere, Still
  <2>7. UnitOK'
    BY <2>1, <2>3, <2>6, UnitMoves
  <2> QED BY <2>4, <2>5, <2>7 DEF SystemdInv
<1>6. CASE FinishCleanup
  <2>1. /\ Reached("f_cleanup") /\ Goto("f_unblock", mem)
        /\ releases' = IF Removable(mem) THEN releases \ {Target} ELSE releases
        /\ UNCHANGED <<journal, pointer, backup, row, request, public, maintenance, current, services, data, writing>>
    BY <1>1, <1>6 DEF FinishCleanup, apiVars
  <2>2. UNCHANGED <<PendingOp, Rows>>
    BY <2>1 DEF PendingOp, Rows
  <2>3. releases' \subseteq releases /\ current \in releases'
    BY <2>1 DEF Removable, SystemdInv, HostOK
  <2>4. RequestsOK' /\ HostOK' /\ PointersOK' /\ MarkerOK'
    BY <2>1, <2>2, <2>3
       DEF SystemdInv, RequestsOK, HostOK, PointersOK, MarkerOK, Serving
  <2>5. JournalsOK'
    <3>1. JournalOK(journal[PendingOp])'
      BY <2>1, <2>2 DEF SystemdInv, JournalsOK, JournalOK, Forward, Serving, Alike
    <3> QED BY <2>1, <2>2, <3>1, JournalsStay DEF SystemdInv, JournalsOK
  <2>6. Place(unit.pc, mem, unit.then)' /\ Where(unit.pc, unit.stage # "save", mem, maintenance)'
    BY <1>2, <2>1, <2>2 DEF Place, Where, Elsewhere
  <2>7. UnitOK'
    BY <2>1, <2>2, <2>6, UnitMoves
  <2> QED BY <2>4, <2>5, <2>7 DEF SystemdInv
<1>7. CASE FinishUnblock
  <2>1. /\ Reached("f_unblock") /\ Goto("f_release", mem) /\ Still /\ UNCHANGED <<journal, backup>>
        /\ pointer' = IF mem.phase # "recovery_failed" /\ pointer.blocked = mem.op
                      THEN [pointer EXCEPT !.blocked = NoOp] ELSE pointer
    BY <1>1, <1>7 DEF FinishUnblock, Here, Still, apiVars, hostVars
  <2>2. /\ DOMAIN pointer' = {"active", "blocked", "manager", "record"}
        /\ pointer'.active = pointer.active /\ pointer'.manager = pointer.manager
        /\ pointer'.blocked = IF mem.phase # "recovery_failed" /\ pointer.blocked = mem.op
                              THEN NoOp ELSE pointer.blocked
    BY <2>1 DEF SystemdInv, PointersOK
  <2>3. /\ PendingOp' \in {mem.op, NoOp} /\ UNCHANGED Rows
        /\ mem.phase = "recovery_failed" => PendingOp' = mem.op /\ pointer'.blocked = mem.op
        /\ mem.phase # "recovery_failed" => pointer'.blocked = NoOp /\ ~maintenance
    BY <2>1, <2>2 DEF PendingOp, Rows, Still, Where, Settled, SystemdInv, PointersOK
  <2>4. RequestsOK' /\ HostOK' /\ PointersOK' /\ MarkerOK'
    BY <2>1, <2>2, <2>3
       DEF SystemdInv, RequestsOK, HostOK, PointersOK, MarkerOK, Serving, Still
  <2>5. JournalsOK'
    <3>1. PendingOp' # NoOp => JournalOK(journal[PendingOp])'
      BY <2>1, <2>2, <2>3 DEF SystemdInv, JournalsOK, JournalOK, Forward, Serving, Still
    <3>2. mem.phase # "recovery_failed" => journal[mem.op].phase \in Settled /\ ~journal[mem.op].maint
      BY <2>1 DEF Alike, Settled
    <3>3. journal[mem.op].phase # "none" /\ PendingOp = mem.op
      BY <2>1 DEF Alike
    <3> QED BY <2>1, <2>3, <3>1, <3>2, <3>3 DEF SystemdInv, JournalsOK, Untouched
  <2>6. Place(unit.pc, mem, unit.then)' /\ Where(unit.pc, unit.stage # "save", mem, maintenance)'
    BY <1>2, <2>1, <2>2, <2>3 DEF Place, Where, Elsewhere, Still, Settled
  <2>7. UnitOK'
    BY <2>1, <2>3, <2>6, UnitMoves
  <2> QED BY <2>4, <2>5, <2>7 DEF SystemdInv
<1>8. CASE FinishRelease
  <2>1. /\ Reached("f_release") /\ Goto(unit.then, mem) /\ Still /\ UNCHANGED <<journal, backup>>
        /\ pointer' = IF pointer.active = mem.op THEN [pointer EXCEPT !.active = NoOp] ELSE pointer
    BY <1>1, <1>8 DEF FinishRelease, Here, Still, apiVars, hostVars
  <2>2. /\ DOMAIN pointer' = {"active", "blocked", "manager", "record"}
        /\ pointer'.blocked = pointer.blocked /\ pointer'.manager = pointer.manager
        /\ pointer'.active = IF pointer.active = mem.op THEN NoOp ELSE pointer.active
    BY <2>1 DEF SystemdInv, PointersOK
  <2>3. /\ PendingOp' \in {mem.op, NoOp} /\ UNCHANGED Rows
        /\ mem.phase = "recovery_failed" => PendingOp' = mem.op /\ PendingOp = mem.op
        /\ mem.phase # "recovery_failed" => PendingOp' = NoOp /\ ~maintenance
    BY <2>1, <2>2 DEF PendingOp, Rows, Still, Where, Settled, SystemdInv, PointersOK
  <2>4. RequestsOK' /\ HostOK' /\ PointersOK' /\ MarkerOK'
    BY <2>1, <2>2, <2>3
       DEF SystemdInv, RequestsOK, HostOK, PointersOK, MarkerOK, Serving, Still
  <2>5. JournalsOK'
    <3>1. PendingOp' # NoOp => JournalOK(journal[PendingOp])'
      BY <2>1, <2>2, <2>3 DEF SystemdInv, JournalsOK, JournalOK, Forward, Serving, Still
    <3>2. mem.phase # "recovery_failed" => journal[mem.op].phase \in Settled /\ ~journal[mem.op].maint
      BY <2>1 DEF Alike, Settled
    <3>3. journal[mem.op].phase # "none"
      BY <2>1 DEF Alike
    <3> QED BY <2>1, <2>3, <3>1, <3>2, <3>3 DEF SystemdInv, JournalsOK, Untouched
  <2>6. unit.then \in {"consume", "prune"} /\ (unit.then = "prune" => mem.phase \in Settled)
    BY <2>1 DEF Place
  <2>7. unit'.pc = unit.then /\ unit'.stage = "save" /\ unit'.then = unit.then /\ mem' = mem
    BY <2>1, GotoShape DEF SystemdInv, UnitOK
  <2>8. Place(unit.pc, mem, unit.then)' /\ Where(unit.pc, unit.stage # "save", mem, maintenance)'
    BY <2>1, <2>3, <2>6, <2>7 DEF Place, Where, Elsewhere, Settled
  <2>9. unit.then # "idle" /\ unit.then \notin Finishing
    BY <2>6
  <2> QED BY <2>1, <2>3, <2>4, <2>5, <2>7, <2>8, <2>9, GotoShape DEF SystemdInv, UnitOK, Alike
<1> QED BY <1>3, <1>4, <1>5, <1>6, <1>7, <1>8


\* The process ends, of itself or by a crash, or prunes the releases before it ends.
LEMMA ProcessEndKeeps ==
    ASSUME UpdateAssumption, SystemdInv, Prune \/ Consume \/ UnitCrash
    PROVE  SystemdInv'
<1>1. CASE Prune
  <2>1. PICK keep \in SUBSET releases : current \in keep /\ releases' = keep
    BY <1>1 DEF Prune
  <2>2. /\ Goto("consume", mem) /\ unit.pc = "prune"
        /\ UNCHANGED <<journal, pointer, backup, row, request, public, maintenance, current, services, data, writing>>
    BY <1>1 DEF Prune, apiVars
  <2>3. UNCHANGED <<PendingOp, Rows>> /\ PendingOp = NoOp /\ mem.phase \in Settled
    BY <2>2 DEF PendingOp, Rows, SystemdInv, UnitOK, Place
  <2>4. RequestsOK' /\ HostOK' /\ PointersOK' /\ MarkerOK'
    BY <2>1, <2>2, <2>3
       DEF SystemdInv, RequestsOK, HostOK, PointersOK, MarkerOK, Serving
  <2>5. JournalsOK'
    BY <2>2, <2>3, JournalsStay DEF SystemdInv, JournalsOK
  <2>6. unit'.pc = "consume" /\ unit'.stage = "save" /\ unit'.then = unit.then /\ mem' = mem
    BY <2>2, GotoShape DEF SystemdInv, UnitOK
  <2>7. Place(unit.pc, mem, unit.then)'
    BY <2>2, <2>3, <2>6 DEF Place, Elsewhere, SystemdInv, UnitOK
  <2>8. Where(unit.pc, unit.stage # "save", mem, maintenance)' /\ "consume" \notin Finishing
    BY <2>6 DEF Where, Known, Equipped, Armed, Moving, Moved, Cold, BackedUp, Preparatory, PutBack,
                Restoring, Opened, Finishing
  <2>9. UnitOK'
    BY <2>2, <2>3, <2>7, <2>8, UnitMoves
  <2> QED BY <2>4, <2>5, <2>9 DEF SystemdInv
<1>2. CASE Consume \/ UnitCrash
  <2>1. /\ UNCHANGED <<row, public, maintenance, releases, current, services, data, writing>>
        /\ UNCHANGED <<journal, pointer, backup>>
        /\ unit' = IdleUnit /\ request' \in {request, NoOp}
    BY <1>2 DEF Consume, UnitCrash, Here, apiVars, hostVars
  <2>2. UNCHANGED <<PendingOp, Rows>>
    BY <2>1 DEF PendingOp, Rows
  <2>3. RequestsOK'
    BY <2>1, <2>2 DEF SystemdInv, RequestsOK
  <2>4. HostOK' /\ PointersOK' /\ MarkerOK'
    BY <2>1, <2>2 DEF SystemdInv, HostOK, PointersOK, MarkerOK, Serving
  <2>5. JournalsOK'
    <3>1. PendingOp # NoOp => JournalOK(journal[PendingOp])'
      BY <2>1, <2>2 DEF SystemdInv, JournalsOK, JournalOK, Forward, Serving
    <3> QED BY <2>1, <2>2, <3>1, JournalsStay DEF SystemdInv, JournalsOK
  <2>6. UnitOK'
    BY <2>1 DEF UnitOK, IdleUnit
  <2> QED BY <2>3, <2>4, <2>5, <2>6 DEF SystemdInv
<1> QED BY <1>1, <1>2

\* Forward, a release that is copied, the cold backup and the switch of the link; back, the
\* switch to the old release.
LEMMA ReleaseStepsKeep ==
    ASSUME UpdateAssumption, SystemdInv,
           Materialize \/ BackupDatabase \/ SwitchCurrent \/ RecoverSwitch
    PROVE  SystemdInv'
<1> USE DEF Known, Equipped, Armed, Moving, Moved, Cold, BackedUp, Preparatory, PutBack, Restoring,
            Opened, Finishing
<1> DEFINE Reached(at) ==
        /\ unit.pc = at /\ IsJournal(mem) /\ mem.phase # "none" /\ mem.op \in Rows /\ mem.op \in Ops
        /\ mem.op # NoOp /\ PendingOp = mem.op
        /\ Alike(journal[mem.op], mem) /\ JournalOK(mem) /\ JournalOK(journal[mem.op])
        /\ Where(at, FALSE, mem, maintenance) \/ Where(at, TRUE, mem, maintenance)
        /\ unit.then = "consume"
<1>1. ASSUME NEW at \in {"copy", "backup", "switch", "r_switch"}, unit.pc = at
      PROVE  Reached(at)
  <2>1. at \notin Elsewhere /\ at # "idle"
    BY DEF Elsewhere
  <2> QED BY <1>1, <2>1, Held, ThenConsume
<1>2. CASE Materialize
  <2>1. /\ Reached("copy")
        /\ UNCHANGED <<journal, pointer, backup, row, request, public, maintenance, current, services, data, writing>>
    BY <1>1, <1>2 DEF Materialize, apiVars
  <2>2. \/ Goto("record", mem) /\ UNCHANGED releases
        \/ Goto("record", mem) /\ releases' = releases \cup {row[mem.op].version}
        \/ Raise("conflict") /\ UNCHANGED releases
        \/ Raise("check") /\ UNCHANGED releases
    BY <1>2 DEF Materialize, Target, Intent
  <2>3. CASE UNCHANGED releases /\ (Raise("conflict") \/ Raise("check"))
    BY <2>1, <2>3, RaiseKeeps
  <2>4. CASE Goto("record", mem) /\ releases \subseteq releases' /\ releases' \subseteq releases \cup {row[mem.op].version}
    <3>1. UNCHANGED <<PendingOp, Rows>>
      BY <2>1 DEF PendingOp, Rows
    <3>2. RequestsOK' /\ HostOK' /\ PointersOK' /\ MarkerOK'
      BY <2>1, <2>4, <3>1
         DEF SystemdInv, RequestsOK, HostOK, PointersOK, MarkerOK, Serving
    <3>3. JournalsOK'
      <4>1. JournalOK(journal[PendingOp])'
        BY <2>1, <2>4, <3>1 DEF JournalOK, Forward, Serving
      <4> QED BY <2>1, <3>1, <4>1, JournalsStay DEF SystemdInv, JournalsOK
    <3>4. unit'.pc = "record" /\ unit'.stage = "save" /\ unit'.then = unit.then /\ mem' = mem
      BY <2>4, GotoShape DEF SystemdInv, UnitOK
    <3>5. Place(unit.pc, mem, unit.then)' /\ Where(unit.pc, unit.stage # "save", mem, maintenance)'
      BY <2>1, <3>1, <3>4 DEF Place, Where, Forward
    <3>6. UnitOK'
      BY <2>1, <2>4, <3>1, <3>5, UnitMoves
    <3> QED BY <3>2, <3>3, <3>6 DEF SystemdInv
  <2> QED BY <2>2, <2>3, <2>4
<1>3. CASE BackupDatabase
  <2>1. Reached("backup") /\ Still /\ UNCHANGED pointer
    BY <1>1, <1>3 DEF BackupDatabase, Here, Still, apiVars, hostVars
  <2> DEFINE m == [mem EXCEPT !.backup = TRUE]
             next == IF mem.runtime THEN AfterBackups ELSE "backing_runtime"
  <2>2. \/ Raise("conflict") /\ UNCHANGED <<journal, backup>>
        \/ Save(m) /\ Goto(next, m) /\ backup' = [backup EXCEPT ![mem.op] = data]
    BY <1>3 DEF BackupDatabase
  <2>3. /\ IsJournal(m) /\ m.op = mem.op /\ m.phase = mem.phase /\ m.old = mem.old /\ m.manager = mem.manager
        /\ (m.target <=> mem.target) /\ (m.deps <=> mem.deps) /\ (m.maint <=> mem.maint) /\ m.backup
    BY <2>1 DEF IsJournal, JournalFields
  <2>4. next \in {"preflighting", "migrated", "backing_runtime"}
    BY DEF AfterBackups
  <2> HIDE DEF m, next
  <2>5. CASE Raise("conflict") /\ UNCHANGED <<journal, backup>>
    BY <2>1, <2>5, RaiseKeeps DEF Still
  <2>6. CASE Save(m) /\ Goto(next, m) /\ backup' = [backup EXCEPT ![mem.op] = data]
    <3>1. UNCHANGED <<PendingOp, Rows>>
      BY <2>1 DEF PendingOp, Rows, Still
    <3>2. RequestsOK' /\ HostOK' /\ PointersOK' /\ MarkerOK'
      BY <2>1, <3>1
         DEF SystemdInv, RequestsOK, HostOK, PointersOK, MarkerOK, Serving, Still
    <3>3. DOMAIN backup' = Ops /\ backup'[mem.op] = data
      BY <2>1, <2>6 DEF SystemdInv, JournalsOK
    <3>4. /\ DOMAIN journal' = Ops /\ journal'[mem.op] = m
          /\ \A o \in Ops \ {mem.op} : journal'[o] = journal[o]
      BY <2>1, <2>3, <2>6 DEF SystemdInv, JournalsOK, Save
    <3>5. /\ DOMAIN unit' = {"pc", "stage", "mem", "then", "cause", "exe"}
          /\ unit'.pc = next /\ unit'.stage = "save" /\ unit'.then = unit.then /\ mem' = m
      BY <2>6, GotoShape DEF SystemdInv, UnitOK
    <3>6. ~writing /\ maintenance /\ m.maint /\ Forward(mem) /\ services = [api |-> 0, consumer |-> 0]
      BY <2>1, <2>3 DEF Where, SystemdInv, HostOK
    <3>7. JournalOK(journal[PendingOp])'
      BY <2>1, <2>3, <3>1, <3>3, <3>4, <3>6 DEF JournalOK, Forward, Serving, Still, Settled
    <3>8. JournalsOK'
      BY <2>1, <2>3, <3>1, <3>3, <3>4, <3>7 DEF SystemdInv, JournalsOK, Untouched
    <3>9. Place(unit.pc, mem, unit.then)'
      BY <2>1, <2>3, <2>4, <3>1, <3>5 DEF Place, Elsewhere
    <3>10. Where(unit.pc, unit.stage # "save", mem, maintenance)'
      BY <2>1, <2>3, <2>4, <3>5, <3>6 DEF Where, Forward, Still
    <3>11. next # "idle" /\ next \notin Finishing
      BY <2>4
    <3> QED BY <2>1, <2>3, <3>1, <3>2, <3>4, <3>5, <3>8, <3>9, <3>10, <3>11 DEF SystemdInv, UnitOK, Alike
  <2> QED BY <2>2, <2>5, <2>6
<1>4. CASE SwitchCurrent
  <2>1. /\ Reached("switch")
        /\ UNCHANGED <<journal, pointer, backup, row, request, public, maintenance, releases, services, data, writing>>
    BY <1>1, <1>4 DEF SwitchCurrent, apiVars
  <2> DEFINE m == [mem EXCEPT !.switched = TRUE, !.shown = Target]
  <2>2. \/ current' = row[mem.op].version /\ Goto("verifying", m)
        \/ Raise("check") /\ UNCHANGED current
        \/ Raise("conflict") /\ UNCHANGED current
    BY <1>4 DEF SwitchCurrent, Target, Intent
  <2>3. Like(m, mem)
    BY <2>1 DEF Like, IsJournal, JournalFields
  <2> HIDE DEF m
  <2>4. CASE UNCHANGED current /\ (Raise("check") \/ Raise("conflict"))
    BY <2>1, <2>4, RaiseKeeps
  <2>5. CASE current' = row[mem.op].version /\ Goto("verifying", m)
    <3>1. UNCHANGED <<PendingOp, Rows>>
      BY <2>1 DEF PendingOp, Rows
    <3>2. /\ current' \in releases /\ pointer.manager >= current' /\ maintenance /\ Forward(mem)
          /\ mem.deps /\ mem.target /\ mem.old # 0
      BY <2>1, <2>5 DEF Where, JournalOK, SystemdInv, PointersOK, RequestsOK, UpdateAssumption
    <3>3. RequestsOK' /\ HostOK' /\ PointersOK' /\ MarkerOK'
      BY <2>1, <3>1, <3>2 DEF SystemdInv, RequestsOK, HostOK, PointersOK, MarkerOK
    <3>4. JournalsOK'
      <4>1. JournalOK(journal[PendingOp])'
        BY <2>1, <3>1, <3>2 DEF JournalOK, Forward, Alike, Settled
      <4> QED BY <2>1, <3>1, <4>1, JournalsStay DEF SystemdInv, JournalsOK
    <3>5. /\ DOMAIN unit' = {"pc", "stage", "mem", "then", "cause", "exe"}
          /\ unit'.pc = "verifying" /\ unit'.stage = "save" /\ unit'.then = unit.then /\ mem' = m
      BY <2>5, GotoShape DEF SystemdInv, UnitOK
    <3>6. Place(unit.pc, mem, unit.then)' /\ Where(unit.pc, unit.stage # "save", mem, maintenance)'
      BY <2>1, <2>3, <2>5, <3>1, <3>5 DEF Like, Place, Where, Forward
    <3>7. Alike(journal[mem.op], m)
      BY <2>1, <2>3, LikeKeeps
    <3> QED BY <2>1, <2>3, <3>1, <3>3, <3>4, <3>5, <3>6, <3>7 DEF SystemdInv, UnitOK, Alike, Like
  <2> QED BY <2>2, <2>4, <2>5
<1>5. CASE RecoverSwitch
  <2>1. /\ Reached("r_switch") /\ current' = mem.old
        /\ UNCHANGED <<journal, pointer, backup, row, request, public, maintenance, releases, services, data, writing>>
    BY <1>1, <1>5 DEF RecoverSwitch, apiVars
  <2> DEFINE m == [mem EXCEPT !.shown = mem.old]
  <2>2. Goto("r_record", m) /\ Like(m, mem)
    BY <1>5, <2>1 DEF RecoverSwitch, Like, IsJournal, JournalFields
  <2> HIDE DEF m
  <2>3. UNCHANGED <<PendingOp, Rows>>
    BY <2>1 DEF PendingOp, Rows
  <2>4. /\ current' \in releases /\ pointer.manager >= current' /\ maintenance
        /\ mem.phase = "rolling_back"
    BY <2>1, OpIsNotNoOp DEF Where, JournalOK, SystemdInv, PointersOK, HostOK
  <2>5. RequestsOK' /\ HostOK' /\ PointersOK' /\ MarkerOK'
    BY <2>1, <2>3, <2>4 DEF SystemdInv, RequestsOK, HostOK, PointersOK, MarkerOK
  <2>6. JournalsOK'
    <3>1. JournalOK(journal[PendingOp])'
      BY <2>1, <2>3, <2>4 DEF JournalOK, Forward, Alike, Settled, Terminal
    <3> QED BY <2>1, <2>3, <3>1, JournalsStay DEF SystemdInv, JournalsOK
  <2>7. /\ DOMAIN unit' = {"pc", "stage", "mem", "then", "cause", "exe"}
        /\ unit'.pc = "r_record" /\ unit'.stage = "save" /\ unit'.then = unit.then /\ mem' = m
    BY <2>2, GotoShape DEF SystemdInv, UnitOK
  <2>8. Place(unit.pc, mem, unit.then)' /\ Where(unit.pc, unit.stage # "save", mem, maintenance)'
    BY <2>1, <2>2, <2>3, <2>7 DEF Like, Place, Where
  <2>9. Alike(journal[mem.op], m)
    BY <2>1, <2>2, LikeKeeps
  <2> QED BY <2>1, <2>2, <2>3, <2>5, <2>6, <2>7, <2>8, <2>9 DEF SystemdInv, UnitOK, Alike, Like
<1> QED BY <1>2, <1>3, <1>4, <1>5


\* The services are stopped behind the marker, and started from the installed release.
LEMMA ServiceStepsKeep ==
    ASSUME UpdateAssumption, SystemdInv, Stop \/ RecoverStop \/ StartServices \/ RecoverStart
    PROVE  SystemdInv'
<1> USE DEF Known, Equipped, Armed, Moving, Moved, Cold, BackedUp, Preparatory, PutBack, Restoring,
            Opened, Finishing
<1> DEFINE Reached(at) ==
        /\ unit.pc = at /\ IsJournal(mem) /\ mem.phase # "none" /\ mem.op \in Rows /\ mem.op \in Ops
        /\ mem.op # NoOp /\ PendingOp = mem.op /\ mem.phase \notin Settled /\ maintenance
        /\ Alike(journal[mem.op], mem) /\ JournalOK(journal[mem.op])
        /\ Where(at, FALSE, mem, maintenance) \/ Where(at, TRUE, mem, maintenance)
        /\ unit.then = "consume"
<1>1. ASSUME NEW at \in {"stop", "start", "start_consumer", "r_stop", "r_start", "r_start_consumer"},
             unit.pc = at
      PROVE  Reached(at)
  <2>1. at \notin Elsewhere /\ at # "idle"
    BY DEF Elsewhere
  <2>2. Where(at, unit.stage # "save", mem, maintenance)
    BY <1>1, <2>1, Held
  <2>3. mem.phase \notin Settled /\ maintenance
    BY <2>2 DEF Where, Forward, Settled, Terminal
  <2> QED BY <1>1, <2>1, <2>2, <2>3, Held, ThenConsume
<1>2. ASSUME NEW at \in {"stop", "r_stop"}, NEW next \in {"backing", "backing_runtime", "preflighting", "migrated", "r_switch"},
             StopServices(at, next), at = "r_stop" <=> next = "r_switch",
             next \in BackedUp => mem.backup
      PROVE  SystemdInv'
  <2>1. /\ Reached(at) /\ Goto(next, mem)
        /\ services' = [api |-> 0, consumer |-> 0] /\ writing' = FALSE
        /\ UNCHANGED <<journal, pointer, backup, row, request, public, maintenance, releases, current, data>>
    BY <1>1, <1>2 DEF StopServices, Stopped
  <2>2. UNCHANGED <<PendingOp, Rows>>
    BY <2>1 DEF PendingOp, Rows
  <2>3. RequestsOK' /\ HostOK' /\ PointersOK' /\ MarkerOK'
    BY <2>1, <2>2 DEF SystemdInv, RequestsOK, HostOK, PointersOK, MarkerOK
  <2>4. JournalsOK'
    <3>1. JournalOK(journal[PendingOp])'
      BY <2>1, <2>2 DEF JournalOK, Forward, Alike
    <3> QED BY <2>1, <2>2, <3>1, JournalsStay DEF SystemdInv, JournalsOK
  <2>5. unit'.pc = next /\ unit'.stage = "save" /\ unit'.then = unit.then /\ mem' = mem
    BY <2>1, GotoShape DEF SystemdInv, UnitOK
  <2>6. Place(unit.pc, mem, unit.then)'
    BY <2>1, <2>2, <2>5 DEF Place
  <2>7. Where(unit.pc, unit.stage # "save", mem, maintenance)'
    BY <1>2, <2>1, <2>5 DEF Where, Forward
  <2>8. UnitOK'
    BY <2>1, <2>2, <2>6, <2>7, UnitMoves
  <2> QED BY <2>3, <2>4, <2>8 DEF SystemdInv
<1>3. ASSUME NEW at, NEW next, NEW name, StartService(at, name, next),
             <<at, name, next>> \in {<<"start", "api", "start_consumer">>, <<"start_consumer", "consumer", "health">>,
                                     <<"r_start", "api", "r_start_consumer">>, <<"r_start_consumer", "consumer", "r_health">>}
      PROVE  SystemdInv'
  <2>1. /\ Reached(at) /\ Goto(next, mem)
        /\ services' = [services EXCEPT ![name] = IF @ = 0 THEN current ELSE @]
        /\ UNCHANGED <<journal, pointer, backup, row, request, public, maintenance, releases, current, data, writing>>
    BY <1>1, <1>3 DEF StartService, apiVars
  <2>2. UNCHANGED <<PendingOp, Rows>>
    BY <2>1 DEF PendingOp, Rows
  <2>3. current # 0 /\ name \in {"api", "consumer"} /\ (name = "consumer" => services'.consumer # 0)
        /\ DOMAIN services' = {"api", "consumer"} /\ (services'.api = 0 => services.api = 0)
    BY <1>3, <2>1, OpIsNotNoOp DEF SystemdInv, HostOK
  <2>4. RequestsOK' /\ HostOK' /\ PointersOK' /\ MarkerOK'
    BY <2>1, <2>2, <2>3 DEF SystemdInv, RequestsOK, HostOK, PointersOK, MarkerOK
  <2>5. JournalsOK'
    <3>1. JournalOK(journal[PendingOp])'
      BY <2>1, <2>2 DEF JournalOK, Forward, Alike
    <3> QED BY <2>1, <2>2, <3>1, JournalsStay DEF SystemdInv, JournalsOK
  <2>6. unit'.pc = next /\ unit'.stage = "save" /\ unit'.then = unit.then /\ mem' = mem
    BY <2>1, GotoShape DEF SystemdInv, UnitOK
  <2>7. Place(unit.pc, mem, unit.then)' /\ next # "idle" /\ next \notin Finishing
    BY <1>3, <2>1, <2>2, <2>6 DEF Place, Elsewhere
  <2>8. Where(unit.pc, unit.stage # "save", mem, maintenance)'
    <3>1. <<at, next>> \in {<<"start", "start_consumer">>, <<"r_start", "r_start_consumer">>}
          \/ (<<at, next>> \in {<<"start_consumer", "health">>, <<"r_start_consumer", "r_health">>} /\ services'.consumer # 0)
      BY <1>3, <2>3
    <3> QED BY <2>1, <2>6, <3>1 DEF Where, Forward
  <2>9. UnitOK'
    BY <1>3, <2>1, <2>2, <2>7, <2>8, UnitMoves
  <2> QED BY <2>4, <2>5, <2>9 DEF SystemdInv
<1>4. CASE Stop
  <2>1. CASE StopServices("stop", AfterStop)
    <3>1. AfterStop \in {"backing", "backing_runtime", "preflighting", "migrated"}
          /\ (AfterStop \in BackedUp => mem.backup)
      BY DEF AfterStop, AfterBackups
    <3> QED BY <1>2, <2>1, <3>1
  <2>2. CASE OwnerStep("stop", mem, "stop") /\ ~Owns(mem)
    <3>1. Raise("conflict") /\ Still /\ UNCHANGED <<journal, pointer, backup>> /\ unit.pc = "stop"
      BY <2>2 DEF OwnerStep, Here, Still, apiVars, hostVars
    <3> QED BY <1>1, <3>1, RaiseKeeps DEF Still
  <2> QED BY <1>4, <2>1, <2>2 DEF Stop
<1>5. CASE RecoverStop
  BY <1>2, <1>5 DEF RecoverStop
<1>6. CASE StartServices
  <2>1. CASE OwnerStep("start", mem, "start") /\ ~Owns(mem)
    <3>1. Raise("conflict") /\ Still /\ UNCHANGED <<journal, pointer, backup>> /\ unit.pc = "start"
      BY <2>1 DEF OwnerStep, Here, Still, apiVars, hostVars
    <3> QED BY <1>1, <3>1, RaiseKeeps DEF Still
  <2>2. CASE StartService("start", "api", "start_consumer")
    BY <1>3, <2>2
  <2>3. CASE StartService("start_consumer", "consumer", "health")
    BY <1>3, <2>3
  <2> QED BY <1>6, <2>1, <2>2, <2>3 DEF StartServices
<1>7. CASE RecoverStart
  <2>1. CASE StartService("r_start", "api", "r_start_consumer")
    BY <1>3, <2>1
  <2>2. CASE StartService("r_start_consumer", "consumer", "r_health")
    BY <1>3, <2>2
  <2> QED BY <1>7, <2>1, <2>2 DEF RecoverStart
<1> QED BY <1>4, <1>5, <1>6, <1>7

\* A command fails, the host reboots or systemd starts a service again.
LEMMA EventsKeep ==
    ASSUME UpdateAssumption, SystemdInv,
           CommandFails \/ Reboot \/ (\E name \in {"api", "consumer"} : ServiceRestart(name))
    PROVE  SystemdInv'
<1>1. CASE CommandFails
  <2> USE DEF Known, Equipped, Armed, Moving, Moved, Cold, BackedUp, Preparatory, PutBack, Restoring,
              Opened, Finishing
  <2>1. /\ UNCHANGED <<row, request, public, maintenance, releases, current, data, writing>>
        /\ UNCHANGED <<pointer, backup, journal>> /\ unit.pc \in Commands \cup RecoveryCommands
        /\ \/ unit.pc \in Commands /\ Raise("command")
           \/ unit.pc \in RecoveryCommands /\ Goto("r_failed", mem)
        /\ \/ UNCHANGED services
           \/ unit.pc \in {"stop", "r_stop"} /\ services' = [services EXCEPT !.consumer = 0]
    BY <1>1 DEF CommandFails, apiVars
  <2>2. unit.pc \notin Elsewhere /\ unit.pc # "idle" /\ unit.pc \notin Finishing \cup {"done", "prune", "consume"}
    BY <2>1 DEF Commands, RecoveryCommands, Elsewhere
  <2>3. /\ PendingOp = mem.op /\ mem.op \in Ops /\ mem.op \in Rows /\ mem.op # NoOp /\ unit.then = "consume"
        /\ IsJournal(mem) /\ mem.phase # "none" /\ Alike(journal[mem.op], mem)
        /\ Where(unit.pc, unit.stage # "save", mem, maintenance)
        /\ JournalOK(journal[mem.op])
    BY <2>2, Held, ThenConsume
  <2>4. unit.pc \in {"stop", "r_stop"} => maintenance /\ mem.phase \notin Settled
    BY <2>3 DEF Where, Forward, Settled, Terminal
  <2>5. CASE Raise("command")
    BY <2>1, <2>2, <2>4, <2>5, RaiseKeeps
  <2>6. CASE unit.pc \in RecoveryCommands /\ Goto("r_failed", mem)
    <3>1. UNCHANGED <<PendingOp, Rows>>
      BY <2>1 DEF PendingOp, Rows
    <3>2. maintenance /\ mem.phase \notin Settled /\ Where("r_failed", FALSE, mem, maintenance)
      BY <2>3, <2>6 DEF Where, RecoveryCommands, Settled, Terminal
    <3>3. RequestsOK' /\ HostOK' /\ PointersOK' /\ MarkerOK'
      BY <2>1, <3>1, <3>2 DEF SystemdInv, RequestsOK, HostOK, PointersOK, MarkerOK
    <3>4. JournalsOK'
      <4>1. JournalOK(journal[PendingOp])'
        BY <2>1, <2>3, <3>1, <3>2 DEF JournalOK, Forward, Alike
      <4> QED BY <2>1, <3>1, <4>1, JournalsStay DEF SystemdInv, JournalsOK
    <3>5. unit'.pc = "r_failed" /\ unit'.stage = "save" /\ unit'.then = unit.then /\ mem' = mem
      BY <2>6, GotoShape DEF SystemdInv, UnitOK
    <3>6. Place(unit.pc, mem, unit.then)' /\ Where(unit.pc, unit.stage # "save", mem, maintenance)'
      BY <2>1, <2>3, <3>1, <3>2, <3>5 DEF Place, Where
    <3>7. UnitOK'
      BY <2>1, <2>2, <2>6, <3>1, <3>6, UnitMoves
    <3> QED BY <3>3, <3>4, <3>7 DEF SystemdInv
  <2> QED BY <2>1, <2>5, <2>6
<1>2. CASE Reboot
  <2>1. /\ unit' = IdleUnit /\ services' = [api |-> current, consumer |-> current] /\ writing' = FALSE
        /\ UNCHANGED <<journal, pointer, backup, row, request, public, maintenance, releases, current, data>>
    BY <1>2 DEF Reboot, Stopped
  <2>2. UNCHANGED <<PendingOp, Rows>>
    BY <2>1 DEF PendingOp, Rows
  <2>3. Serving'
    BY <2>1, OpIsNotNoOp DEF Serving, SystemdInv, HostOK
  <2>4. RequestsOK' /\ HostOK' /\ PointersOK' /\ MarkerOK'
    BY <2>1, <2>2, <2>3 DEF SystemdInv, RequestsOK, HostOK, PointersOK, MarkerOK
  <2>5. JournalsOK'
    <3>1. PendingOp # NoOp => JournalOK(journal[PendingOp])'
      BY <2>1, <2>2, <2>3 DEF SystemdInv, JournalsOK, JournalOK, Forward
    <3> QED BY <2>1, <2>2, <3>1, JournalsStay DEF SystemdInv, JournalsOK
  <2>6. UnitOK'
    BY <2>1 DEF UnitOK, IdleUnit
  <2> QED BY <2>4, <2>5, <2>6 DEF SystemdInv
<1>3. ASSUME NEW name \in {"api", "consumer"}, ServiceRestart(name) PROVE SystemdInv'
  <2>1. /\ services' = [services EXCEPT ![name] = current] /\ services[name] # 0
        /\ writing' = (writing /\ name # "api")
        /\ UNCHANGED <<journal, pointer, unit, backup, row, request, public, maintenance, releases, current, data>>
    BY <1>3 DEF ServiceRestart, unitVars
  <2>2. UNCHANGED <<PendingOp, Rows>> /\ mem' = mem
    BY <2>1 DEF PendingOp, Rows, mem
  <2>3. /\ DOMAIN services' = {"api", "consumer"} /\ services'.api \in {services.api, current}
        /\ services'.consumer \in {services.consumer, current}
        /\ (services'.api = 0 => services.api = 0) /\ current # 0
        /\ writing' \in BOOLEAN /\ (writing' => writing)
    BY <2>1, OpIsNotNoOp DEF SystemdInv, HostOK, RequestsOK
  <2>4. Serving => Serving'
    BY <2>1, <2>3 DEF Serving
  <2>5. RequestsOK' /\ HostOK' /\ PointersOK' /\ MarkerOK'
    BY <2>1, <2>2, <2>3, <2>4 DEF SystemdInv, RequestsOK, HostOK, PointersOK, MarkerOK
  <2>6. JournalsOK'
    <3>1. PendingOp # NoOp => JournalOK(journal[PendingOp])'
      BY <2>1, <2>2, <2>3, <2>4 DEF SystemdInv, JournalsOK, JournalOK, Forward
    <3> QED BY <2>1, <2>2, <3>1, JournalsStay DEF SystemdInv, JournalsOK
  <2>7. unit.pc # "idle" => Place(unit.pc, mem, unit.then)'
    BY <2>1, <2>2 DEF SystemdInv, UnitOK, Place, Untouched
  <2>8. unit.pc # "idle" => Where(unit.pc, unit.stage # "save", mem, maintenance)'
    <3>1. services # [api |-> 0, consumer |-> 0]
      BY <2>1
    <3> QED BY <2>1, <2>2, <2>3, <3>1 DEF SystemdInv, UnitOK, Where, Forward
  <2> QED BY <2>1, <2>2, <2>5, <2>6, <2>7, <2>8 DEF SystemdInv, UnitOK, Alike
<1> QED BY <1>1, <1>2, <1>3

\* The API and business traffic leave what the executor relies on.
LEMMA ApiStepsKeep ==
    ASSUME UpdateAssumption, SystemdInv, ApiRequest \/ ApiStep, UNCHANGED unitVars
    PROVE  SystemdInv'
<1>1. /\ RequestsOK' /\ ApiMoves /\ UNCHANGED <<releases, journal, pointer, unit, backup>>
      /\ PendingOp' = PendingOp /\ mem' = mem
  BY ApiKeeps DEF SystemdInv, unitVars, PendingOp, mem
<1>2. writing' => writing \/ ~maintenance
  BY <1>1 DEF ApiMoves
<1>3. HostOK' /\ PointersOK' /\ MarkerOK'
  BY <1>1, <1>2, OpIsNotNoOp DEF ApiMoves, SystemdInv, HostOK, PointersOK, MarkerOK, Serving
<1>4. JournalsOK'
  <2>1. PendingOp # NoOp => JournalOK(journal[PendingOp])'
    <3>1. PendingOp # NoOp => journal[PendingOp].op = PendingOp /\ PendingOp \in Rows /\ JournalOK(journal[PendingOp])
      BY DEF SystemdInv, JournalsOK, Rows
    <3> QED BY <1>1, <3>1 DEF ApiMoves, JournalOK, Forward, Serving
  <2>2. Rows \subseteq Rows'
    BY <1>1 DEF ApiMoves
  <2> QED BY <1>1, <2>1, <2>2, JournalsStay DEF SystemdInv, JournalsOK
<1>5. unit.pc # "idle" => Place(unit.pc, mem, unit.then)'
  BY <1>1 DEF SystemdInv, UnitOK, Place, Untouched
<1>6. unit.pc # "idle" => Where(unit.pc, unit.stage # "save", mem, maintenance)'
  BY <1>1 DEF ApiMoves, SystemdInv, UnitOK, Where, Forward
<1> QED BY <1>1, <1>3, <1>4, <1>5, <1>6 DEF ApiMoves, SystemdInv, UnitOK, Alike

\* Every step of a systemd host keeps the invariant.
LEMMA SystemdKeeps ==
    ASSUME UpdateAssumption, SystemdInv, SystemdNext
    PROVE  SystemdInv'
<1>1. CASE ApiStep /\ UNCHANGED unitVars
  BY <1>1, ApiStepsKeep
<1>2. CASE ApiRequest /\ UNCHANGED unitVars
  BY <1>2, ApiStepsKeep
<1>3. CASE UnitStep
  <2>1. CASE ClaimPending \/ ClaimOrphan \/ ClaimNew \/ Activate \/ Discard
    BY <2>1, ClaimStepsKeep
  <2>2. CASE \/ Admit \/ Process \/ OwnPreparing \/ BackupRuntime \/ Preflight \/ Migrate
             \/ CheckHealth \/ Error \/ RecoverCheck \/ RecoverHealth
    BY <2>2, PlainStepsKeep
  <2>3. CASE Refused \/ Done \/ Failing \/ RollingBack \/ RecoverDone \/ RecoverFailed
    BY <2>3, EndTransitionsKeep
  <2>4. CASE \/ VerifyPackage \/ Precheck \/ Preparing \/ Stopping \/ BackingUp \/ BackingUpRuntime
             \/ Preflighting \/ Migrating \/ Switching \/ Verifying
    BY <2>4, ForwardTransitionsKeep
  <2>5. CASE \/ Identify \/ ClaimDir \/ RecordTarget \/ CheckDependencies \/ DependenciesChecked
             \/ Migrated \/ RecoverRecord \/ Finish
    BY <2>5, SaveStepsKeep
  <2>6. CASE MaterializeManager \/ HandOffManager \/ InitializeLayout
    BY <2>6, ManagerStepsKeep
  <2>7. CASE Materialize \/ BackupDatabase \/ SwitchCurrent \/ RecoverSwitch
    BY <2>7, ReleaseStepsKeep
  <2>8. CASE Stop \/ RecoverStop \/ StartServices \/ RecoverStart
    BY <2>8, ServiceStepsKeep
  <2>9. CASE \/ FinishPublish \/ FinishGate \/ FinishBlock \/ FinishCleanup \/ FinishUnblock
             \/ FinishRelease
    BY <2>9, FinishStepsKeep
  <2>10. CASE Prune \/ Consume
    BY <2>10, ProcessEndKeeps
  <2> QED BY <1>3, <2>1, <2>2, <2>3, <2>4, <2>5, <2>6, <2>7, <2>8, <2>9, <2>10 DEF UnitStep
<1>4. CASE OperatorRetry
  BY <1>4, ClaimStepsKeep DEF OperatorRetry
<1>5. CASE CommandFails \/ Reboot \/ (\E name \in {"api", "consumer"} : ServiceRestart(name))
  BY <1>5, EventsKeep
<1>6. CASE UnitCrash
  BY <1>6, ProcessEndKeeps
<1> QED BY <1>1, <1>2, <1>3, <1>4, <1>5, <1>6, Zenon DEF SystemdNext

\* A host before its first update satisfies the invariant of the systemd unit.
LEMMA SystemdStarts ==
    ASSUME UpdateAssumption, ApiInit, SystemdInit
    PROVE  SystemdInv
<1>1. DOMAIN row = Ops /\ \A o \in Ops : row[o].status = "none" /\ IsRow(row[o])
  BY DEF ApiInit, NoRow, IsRow, RowFields
<1>2. DOMAIN public = Ops /\ \A o \in Ops : IsStatus(public[o]) /\ ~public[o].fresh
  BY DEF ApiInit, NoStatus, IsStatus
<1>3. RequestsOK
  BY <1>1, <1>2 DEF RequestsOK, Rows, ApiInit
<1>4. /\ DOMAIN journal = Ops /\ DOMAIN backup = Ops
      /\ \A o \in Ops : IsJournal(journal[o]) /\ journal[o].phase = "none"
  BY DEF SystemdInit, NoJournal, IsJournal, JournalFields
<1>5. PendingOp = NoOp
  BY DEF SystemdInit, PendingOp
<1>6. HostOK /\ MarkerOK /\ PointersOK
  <2>1. FirstVersion \in Versions /\ FirstVersion \in Nat /\ FirstVersion # 0 /\ FirstReleases \subseteq Versions
    BY DEF UpdateAssumption
  <2>2. HostOK /\ MarkerOK
    BY <2>1 DEF ApiInit, HostOK, MarkerOK, Serving
  <2>3. PointersOK
    BY <1>5, <2>1 DEF ApiInit, SystemdInit, PointersOK
  <2> QED BY <2>2, <2>3
<1>7. UnitOK
  BY DEF SystemdInit, UnitOK, IdleUnit
<1> QED BY <1>3, <1>4, <1>5, <1>6, <1>7 DEF SystemdInv, JournalsOK


-----------------------------------------------------------------------------
(* The Docker executor.                                                    *)

RecordFields ==
    {"phase", "started", "disrupted", "upStarted", "restoring", "committed", "drift", "mine", "old"}

IsRecord(r) == DOMAIN r = RecordFields

\* Both services are the one container.
OneContainer ==
    /\ services = [api |-> services.api, consumer |-> services.api]
    /\ services.api \in Versions \cup {0}
    /\ current \in Versions
    /\ ~maintenance => services.api = current

\* The phases that go on after a restart, the others being the critical ones.
Unhurt == {"queued", "verifying_package", "building", "preflighting", "preparing"}

\* What the journal of the active operation says of the host.
RecordOK(r, gate, busy, same) ==
    /\ r.phase \in Unhurt \cup Critical
    /\ r.phase \notin Critical => same /\ ~r.disrupted
    /\ r.phase \in {"stopping", "switching"} => gate
    /\ r.phase = "stopping" => ~busy
    /\ r.phase \in Critical \cup {"preparing"} => r.old \in Versions
    /\ r.committed => r.phase = "verifying"

RecordsOK ==
    /\ DOMAIN record = Ops
    /\ \A o \in Ops : IsRecord(record[o])
    /\ \A o \in Ops : record[o].phase # "none" => o \in Rows
    /\ \A o, p \in Active : o = p
    /\ \A o \in Active : RecordOK(record[o], maintenance, writing, services.api = current)

\* Without an operation the container is that of the alias, and the marker waits at most
\* for the end of a failed operation.
QuietOK ==
    Active = {} /\ ~Blocked =>
        /\ services.api = current
        /\ maintenance => /\ \E o \in Ops : record[o].phase # "none"
                          /\ \/ engine.pc \in {"down", "open_failed"}
                             \/ engine.pc = "project" /\ engine.next = "open_failed"

\* The program counter and the phase on disk.
Closing == {"close", "drain"}
Restorable == {"restore", "restore_up"}
AtCurrent == {"commit", "open", "opened", "reopen", "reopened", "fail", "open_failed"}
Written == {"project", "open_failed", "keep_closed"}

PhaseOf(pc, phase) ==
    /\ pc \in Unhurt => phase = pc
    /\ pc \in Closing => phase = "preparing"
    /\ pc \in {"stopping", "stopped"} => phase = "stopping"
    /\ pc \in {"switching", "up", "upped"} => phase = "switching"
    /\ pc \in {"verifying", "commit", "open", "opened"} => phase = "verifying"
    /\ pc \in Restorable \cup {"reclose", "restored", "reopen", "reopened"} => phase = "rolling_back"
    /\ pc = "fail" => phase \notin Critical

EngineAt(pc, next, r, gate, same) ==
    /\ r.phase # "none"
    /\ pc \notin Written => r.phase \notin Terminal /\ PhaseOf(pc, r.phase)
    /\ pc = "recover" => r.drift \/ r.phase \in Critical
    /\ pc = "project" =>
          /\ next \in {"idle", "open_failed", "reclose", "keep_closed"}
          /\ next = "open_failed" => r.phase = "failed" /\ same
          /\ next = "reclose" => r.phase = "rolling_back"
          /\ next = "keep_closed" => r.phase = "recovery_failed"
    /\ pc = "open_failed" => r.phase = "failed"
    /\ pc = "keep_closed" => r.phase = "recovery_failed"
    /\ pc \in Restorable \cup {"drain"} => gate
    /\ pc \in AtCurrent => same
    /\ pc \in {"opened", "reopened"} => ~gate

EngineOK ==
    /\ DOMAIN engine = {"pc", "op", "next", "offer"}
    /\ engine.pc \notin {"idle", "down"} =>
          /\ op \in Ops /\ Active \subseteq {op}
          /\ EngineAt(engine.pc, engine.next, rec, maintenance, services.api = current)

DockerInv == RequestsOK /\ OneContainer /\ RecordsOK /\ QuietOK /\ EngineOK

\* One step of the process on the only active journal.
LEMMA EngineStepKeeps ==
    ASSUME UpdateAssumption, DockerInv, op \in Active, NEW j, NEW pc, NEW next,
           IsRecord(j), j.phase # "none",
           DOMAIN engine' = {"pc", "op", "next", "offer"}, engine'.op = engine.op,
           engine'.pc = pc, engine'.next = next, pc # "down",
           DOMAIN record' = Ops, record'[op] = j, \A o \in Ops \ {op} : record'[o] = record[o],
           UNCHANGED <<row, request, public>>, writing' \in BOOLEAN, OneContainer',
           j.phase \notin Terminal => RecordOK(j, maintenance', writing', services'.api = current'),
           j.phase \in Settled =>
               services'.api = current' /\ (maintenance' => pc = "project" /\ next = "open_failed"),
           pc # "idle" => EngineAt(pc, next, j, maintenance', services'.api = current')
    PROVE  DockerInv'
<1>1. op' = op /\ rec' = j /\ op \in Ops /\ UNCHANGED Rows /\ record[op].phase \notin Terminal \cup {"none"}
  BY DEF op, rec, Active, Rows
<1>2. RequestsOK'
  BY <1>1 DEF DockerInv, RequestsOK
<1>3. /\ Active = {op}
      /\ j.phase \in Terminal => Active' = {}
      /\ j.phase \notin Terminal => Active' = {op}
      /\ j.phase = "recovery_failed" => Blocked'
  <2>1. \A o \in Active : o = op
    BY DEF DockerInv, RecordsOK
  <2>2. \A o \in Ops \ {op} : o \notin Active /\ (o \in Active' <=> o \in Active)
    BY <2>1 DEF Active
  <2>3. op \in Active' <=> j.phase \notin Terminal
    BY <1>1 DEF Active
  <2>4. Active \subseteq Ops /\ Active' \subseteq Ops
    BY DEF Active
  <2>5. j.phase = "recovery_failed" => Blocked'
    BY <1>1 DEF Blocked
  <2> QED BY <1>1, <2>1, <2>2, <2>3, <2>4, <2>5
<1>4. RecordsOK'
  <2>1. \A o \in Active' : RecordOK(record[o], maintenance, writing, services.api = current)'
    BY <1>1, <1>3 DEF RecordOK
  <2>2. \A o \in Ops : record'[o].phase # "none" => o \in Rows'
    BY <1>1 DEF DockerInv, RecordsOK
  <2>3. \A o, p \in Active' : o = p
    BY <1>1, <1>3
  <2> QED BY <1>1, <2>1, <2>2, <2>3 DEF DockerInv, RecordsOK
<1>5. QuietOK'
  BY <1>1, <1>3 DEF QuietOK, Settled, Terminal
<1>6. EngineOK'
  BY <1>1, <1>3 DEF EngineOK, EngineAt
<1> QED BY <1>2, <1>4, <1>5, <1>6 DEF DockerInv

\* docker_updater.py writes the journal of its own operation only.
LEMMA RecordShape ==
    ASSUME DockerInv, op \in Ops, NEW j, record' = [record EXCEPT ![op] = j]
    PROVE  DOMAIN record' = Ops /\ record'[op] = j /\ \A o \in Ops \ {op} : record'[o] = record[o]
  BY DEF DockerInv, RecordsOK

\* A step of docker_updater.py that only moves on keeps its operation and its projection.
LEMMA JumpShape ==
    ASSUME DockerInv, NEW pc, Jump(pc)
    PROVE  /\ DOMAIN engine' = {"pc", "op", "next", "offer"}
           /\ engine'.op = engine.op /\ engine'.pc = pc /\ engine'.next = engine.next
  BY DEF Jump, DockerInv, EngineOK

\* What the process knows while it works on a journal.
LEMMA Engaged ==
    ASSUME DockerInv, engine.pc \notin {"idle", "down"} \cup Written
    PROVE  /\ op \in Active /\ op \in Ops /\ op \in Rows /\ IsRecord(rec) /\ record[op] = rec
           /\ rec.phase \notin Terminal \cup {"none"}
           /\ EngineAt(engine.pc, engine.next, rec, maintenance, services.api = current)
           /\ RecordOK(rec, maintenance, writing, services.api = current)
<1>1. op \in Ops /\ EngineAt(engine.pc, engine.next, rec, maintenance, services.api = current)
  BY DEF DockerInv, EngineOK
<1>2. op \in Active /\ record[op] = rec
  BY <1>1 DEF EngineAt, Active, rec
<1> QED BY <1>1, <1>2 DEF DockerInv, RecordsOK, EngineAt, Active

\* A save of the next phase, with what follows the status.
LEMMA EnterKeeps ==
    ASSUME UpdateAssumption, DockerInv, engine.pc \notin {"idle", "down"} \cup Written,
           NEW j, IsRecord(j), NEW phase, NEW next, Phase(j, phase, next), phase # "none",
           UNCHANGED <<row, request, public, maintenance, current, services, writing>>,
           phase \notin Terminal =>
               /\ phase \in Unhurt \cup Critical
               /\ phase \notin Critical => services.api = current /\ ~j.disrupted
               /\ phase \in {"stopping", "switching"} => maintenance
               /\ phase = "stopping" => ~writing
               /\ phase \in Critical \cup {"preparing"} => j.old \in Versions
               /\ j.committed => phase = "verifying",
           phase \in Settled => services.api = current /\ (maintenance => next = "open_failed"),
           next \in {"idle", "open_failed", "reclose", "keep_closed"},
           next = "open_failed" => phase = "failed",
           next = "reclose" => phase = "rolling_back",
           next = "keep_closed" => phase = "recovery_failed"
    PROVE  DockerInv'
<1> DEFINE n == [j EXCEPT !.phase = phase]
<1>1. /\ IsRecord(n) /\ n.phase = phase /\ n.old = j.old
      /\ (n.disrupted <=> j.disrupted) /\ (n.committed <=> j.committed)
  BY DEF IsRecord, RecordFields
<1>2. /\ record' = [record EXCEPT ![op] = n]
      /\ engine' = [engine EXCEPT !.pc = "project", !.next = next]
  BY DEF Phase
<1> HIDE DEF n
<1>3. /\ op \in Active /\ op \in Ops
  BY Engaged
<1>4. /\ DOMAIN engine' = {"pc", "op", "next", "offer"} /\ engine'.op = engine.op
      /\ engine'.pc = "project" /\ engine'.next = next
  BY <1>2 DEF DockerInv, EngineOK
<1>5. DOMAIN record' = Ops /\ record'[op] = n /\ \A o \in Ops \ {op} : record'[o] = record[o]
  BY <1>2, <1>3, RecordShape
<1>6. OneContainer' /\ writing' \in BOOLEAN
  BY DEF DockerInv, OneContainer, RequestsOK
<1>7. n.phase \notin Terminal => RecordOK(n, maintenance', writing', services'.api = current')
  BY <1>1 DEF RecordOK
<1>8. EngineAt("project", next, n, maintenance', services'.api = current')
  BY <1>1 DEF EngineAt, AtCurrent, Restorable, Closing, Unhurt, Written, Settled, Terminal
<1> QED BY <1>1, <1>3, <1>4, <1>5, <1>6, <1>7, <1>8, EngineStepKeeps

\* A step within a phase, which may note something in the journal.
LEMMA NoteKeeps ==
    ASSUME UpdateAssumption, DockerInv, engine.pc \notin {"idle", "down"} \cup Written,
           NEW pc, Jump(pc), pc \notin {"down"} \cup Written, NEW j, IsRecord(j),
           j.phase = rec.phase, j.old = rec.old, j.disrupted <=> rec.disrupted,
           j.committed => rec.committed \/ rec.phase = "verifying",
           (UNCHANGED record /\ j = rec) \/ record' = [record EXCEPT ![op] = j],
           UNCHANGED <<row, request, public>>, writing' \in BOOLEAN, OneContainer', 
           writing' => writing,
           rec.phase \notin Critical => services'.api = current',
           rec.phase \in {"stopping", "switching"} => maintenance',
           pc # "idle" => EngineAt(pc, engine.next, j, maintenance', services'.api = current')
    PROVE  DockerInv'
<1>1. /\ op \in Active /\ op \in Ops /\ rec.phase \notin Terminal \cup {"none"} /\ record[op] = rec
      /\ RecordOK(rec, maintenance, writing, services.api = current)
  BY Engaged
<1>2. DOMAIN record' = Ops /\ record'[op] = j /\ \A o \in Ops \ {op} : record'[o] = record[o]
  BY <1>1, RecordShape DEF DockerInv, RecordsOK
<1>3. /\ DOMAIN engine' = {"pc", "op", "next", "offer"}
      /\ engine'.op = engine.op /\ engine'.pc = pc /\ engine'.next = engine.next
  BY JumpShape
<1>4. RecordOK(j, maintenance', writing', services'.api = current')
  BY <1>1 DEF RecordOK
<1>5. j.phase \notin Settled /\ j.phase # "none" /\ pc # "down"
  BY <1>1 DEF Settled
<1> QED BY <1>1, <1>2, <1>3, <1>4, <1>5, EngineStepKeeps

\* The phases of an operation up to the switch: each check, note and marker of _advance.
LEMMA PhaseStepsKeep ==
    ASSUME UpdateAssumption, DockerInv,
           Queued \/ VerifyArtifacts \/ BuildImage \/ PreflightImage \/ PrepareStop
    PROVE  DockerInv'
<1>1. /\ engine.pc \in Unhurt \cup Closing
      /\ UNCHANGED <<row, request, public, current, services, writing>>
  BY DEF Queued, VerifyArtifacts, BuildImage, PreflightImage, PrepareStop, Step, Note, Marker, Enter,
         At, Kept, apiVars, hostVars, Unhurt, Closing
<1>2. /\ engine.pc \notin {"idle", "down"} \cup Written
      /\ engine.pc \in Closing => rec.phase = "preparing"
      /\ engine.pc \in Unhurt => rec.phase = engine.pc
      /\ IsRecord(rec) /\ op \in Ops
      /\ services.api = current /\ ~rec.disrupted /\ ~rec.committed
      /\ rec.phase = "preparing" => rec.old \in Versions
      /\ engine.pc = "drain" => maintenance
  BY <1>1, Engaged DEF Unhurt, Closing, Written, EngineAt, PhaseOf, RecordOK, Critical, Restorable
<1>3. OneContainer /\ (maintenance' \/ services.api = current => OneContainer') /\ writing' \in BOOLEAN
  BY <1>1 DEF DockerInv, OneContainer, RequestsOK
<1>4. ASSUME NEW at \in {"queued", "verifying_package", "building", "preflighting"}, NEW ok, NEW j,
             NEW phase, Step(at, ok, j, phase), IsRecord(j), j.disrupted <=> rec.disrupted,
             ~j.committed,
             phase \in {"verifying_package", "building", "preflighting", "preparing"},
             ok /\ phase = "preparing" => j.old \in Versions
      PROVE  DockerInv'
  <2>1. At(at) /\ UNCHANGED maintenance
    BY <1>4 DEF Step
  <2>2. CASE ok /\ Phase(j, phase, "idle")
    BY <1>1, <1>2, <1>4, <2>1, <2>2, EnterKeeps DEF Unhurt, Critical, Terminal, Settled
  <2>3. CASE Jump("fail") /\ UNCHANGED record
    <3>1. EngineAt("fail", engine.next, rec, maintenance', services'.api = current')
      BY <1>1, <1>2, <1>4, <2>1, Engaged DEF At, EngineAt, PhaseOf, Unhurt, Closing, Restorable, AtCurrent, Critical
    <3>2. rec.phase \notin {"stopping", "switching"}
      BY <1>2, <1>4, <2>1 DEF At, Unhurt
    <3> QED BY <1>1, <1>2, <1>3, <2>1, <2>3, <3>1, <3>2, NoteKeeps DEF Written
  <2> QED BY <1>4, <2>2, <2>3 DEF Step
<1>5. CASE Queued
  BY <1>2, <1>4, <1>5 DEF Queued
<1>6. CASE VerifyArtifacts
  BY <1>2, <1>4, <1>6 DEF VerifyArtifacts
<1>7. CASE BuildImage
  BY <1>2, <1>4, <1>7 DEF BuildImage
<1>8. CASE PreflightImage
  <2> DEFINE j == [rec EXCEPT !.old = image]
  <2>1. IsRecord(j) /\ j.old = image /\ (j.disrupted <=> rec.disrupted) /\ ~j.committed
    BY <1>2 DEF IsRecord, RecordFields
  <2> HIDE DEF j
  <2>2. TargetIsOurs => image \in Versions
    BY <1>3 DEF TargetIsOurs, OneContainer
  <2>3. Step("preflighting", TargetIsOurs, j, "preparing")
    BY <1>8 DEF PreflightImage, j
  <2> QED BY <2>1, <2>2, <2>3, <1>4
<1>9. CASE PrepareStop
  <2>1. CASE Note("preparing", [rec EXCEPT !.started = TRUE], "close")
    <3> DEFINE j == [rec EXCEPT !.started = TRUE]
    <3>1. /\ IsRecord(j) /\ j.phase = rec.phase /\ j.old = rec.old
          /\ (j.disrupted <=> rec.disrupted) /\ ~j.committed
      BY <1>2 DEF IsRecord, RecordFields
    <3> HIDE DEF j
    <3>2. record' = [record EXCEPT ![op] = j] /\ Jump("close") /\ UNCHANGED maintenance /\ engine.pc = "preparing"
      BY <2>1 DEF Note, j, At
    <3>3. rec.phase = "preparing"
      BY <1>2, <3>2 DEF Unhurt
    <3>4. EngineAt("close", engine.next, j, maintenance', services'.api = current')
      BY <3>1, <3>3 DEF EngineAt, PhaseOf, Unhurt, Closing, Restorable, AtCurrent, Terminal
    <3> QED BY <1>1, <1>2, <1>3, <3>1, <3>2, <3>3, <3>4, NoteKeeps DEF Written
  <2>2. CASE Marker("close", TRUE, "drain")
    <3>1. UNCHANGED record /\ Jump("drain") /\ maintenance' /\ engine.pc = "close"
      BY <2>2 DEF Marker, At
    <3>2. rec.phase = "preparing"
      BY <1>2, <3>1 DEF Closing
    <3>3. EngineAt("drain", engine.next, rec, maintenance', services'.api = current')
      BY <3>1, <3>2 DEF EngineAt, PhaseOf, Unhurt, Closing, Restorable, AtCurrent, Terminal
    <3> QED BY <1>1, <1>2, <1>3, <3>1, <3>2, <3>3, NoteKeeps DEF Written
  <2>3. CASE Drained /\ Enter("drain", [rec EXCEPT !.disrupted = TRUE], "stopping", "idle")
    <3> DEFINE j == [rec EXCEPT !.disrupted = TRUE]
    <3>1. IsRecord(j) /\ j.old = rec.old /\ ~j.committed
      BY <1>2 DEF IsRecord, RecordFields
    <3> HIDE DEF j
    <3>2. Phase(j, "stopping", "idle") /\ UNCHANGED maintenance /\ engine.pc = "drain" /\ ~writing
      BY <2>3 DEF Enter, j, At, Drained
    <3>3. rec.phase = "preparing" /\ rec.old \in Versions /\ maintenance
      BY <1>2, <3>2 DEF Closing
    <3> QED BY <1>1, <1>2, <3>1, <3>2, <3>3, EnterKeeps DEF Critical, Settled, Terminal
  <2> QED BY <1>9, <2>1, <2>2, <2>3 DEF PrepareStop
<1> QED BY <1>5, <1>6, <1>7, <1>8, <1>9

\* The alias is moved, or the container replaced, behind the marker.
LEMMA HostStepKeeps ==
    ASSUME UpdateAssumption, DockerInv, engine.pc \notin {"idle", "down"} \cup Written,
           maintenance, UNCHANGED <<row, request, public, maintenance>>, rec.phase \in Critical,
           \/ current' \in Versions /\ UNCHANGED <<services, writing>>
           \/ (UNCHANGED current /\ \E v \in Versions \cup {0} : Stopped(v)),
           NEW pc, Jump(pc), pc \notin {"idle", "down"} \cup Written \cup AtCurrent, NEW j, IsRecord(j),
           j.phase = rec.phase, j.old = rec.old, j.disrupted <=> rec.disrupted,
           j.committed => rec.committed \/ rec.phase = "verifying",
           (UNCHANGED record /\ j = rec) \/ record' = [record EXCEPT ![op] = j],
           PhaseOf(pc, rec.phase)
    PROVE  DockerInv'
<1>1. OneContainer' /\ writing' \in BOOLEAN /\ (writing' => writing)
  <2>1. OneContainer /\ writing \in BOOLEAN /\ maintenance'
    BY DEF DockerInv, RequestsOK
  <2>2. CASE current' \in Versions /\ UNCHANGED <<services, writing>>
    BY <2>1, <2>2 DEF OneContainer
  <2>3. ASSUME UNCHANGED current, NEW v \in Versions \cup {0}, Stopped(v)
        PROVE  OneContainer' /\ writing' \in BOOLEAN /\ (writing' => writing)
    BY <2>1, <2>3 DEF OneContainer, Stopped
  <2> QED BY <2>2, <2>3
<1>2. rec.phase \notin Terminal \cup {"none"}
  BY Engaged
<1>3. EngineAt(pc, engine.next, j, maintenance', services'.api = current')
  BY <1>2 DEF EngineAt, Written, AtCurrent
<1> QED BY <1>1, <1>3, NoteKeeps

\* The container is stopped, the alias moved and the container replaced, with their phases.
LEMMA SwitchStepsKeep ==
    ASSUME UpdateAssumption, DockerInv, StopContainer \/ Switch
    PROVE  DockerInv'
<1>1. engine.pc \in {"stopping", "stopped", "switching", "up", "upped"}
      /\ UNCHANGED <<row, request, public, maintenance>>
  BY DEF StopContainer, Switch, Enter, Tag, ComposeUp, At, Kept, apiVars
<1>2. /\ engine.pc \notin {"idle", "down"} \cup Written
      /\ IsRecord(rec) /\ op \in Ops /\ op \in Rows
      /\ engine.pc \in {"stopping", "stopped"} => rec.phase = "stopping"
      /\ engine.pc \in {"switching", "up", "upped"} => rec.phase = "switching"
      /\ rec.phase \in Critical /\ rec.old \in Versions /\ maintenance /\ ~rec.committed
  BY <1>1, Engaged DEF Written, EngineAt, PhaseOf, RecordOK, Critical
<1>3. New \in Versions /\ OneContainer
  BY <1>2 DEF New, DockerInv, RequestsOK
<1>4. CASE At("stopping") /\ Stopped(0) /\ Jump("stopped") /\ UNCHANGED <<record, current>>
  BY <1>1, <1>2, <1>4, HostStepKeeps DEF At, PhaseOf, Unhurt, Closing, Restorable, Written, AtCurrent
<1>5. CASE Enter("stopped", rec, "switching", "idle")
  <2>1. UNCHANGED <<row, request, public, maintenance, current, services, writing>>
        /\ Phase(rec, "switching", "idle")
    BY <1>5 DEF Enter, Kept, apiVars, hostVars
  <2> QED BY <1>2, <2>1, EnterKeeps DEF Critical, Settled, Terminal
<1>6. CASE Tag("switching", New, [rec EXCEPT !.upStarted = TRUE], "up")
  <2> DEFINE j == [rec EXCEPT !.upStarted = TRUE]
  <2>1. /\ IsRecord(j) /\ j.phase = rec.phase /\ j.old = rec.old
        /\ (j.disrupted <=> rec.disrupted) /\ ~j.committed
    BY <1>2 DEF IsRecord, RecordFields
  <2> HIDE DEF j
  <2>2. current' = New /\ record' = [record EXCEPT ![op] = j] /\ Jump("up") /\ UNCHANGED <<services, writing>>
        /\ engine.pc = "switching"
    BY <1>6 DEF Tag, j, At
  <2>3. PhaseOf("up", rec.phase)
    BY <1>2, <2>2 DEF PhaseOf, Unhurt, Closing, Restorable
  <2> QED BY <1>1, <1>2, <1>3, <2>1, <2>2, <2>3, HostStepKeeps DEF Written, AtCurrent
<1>7. CASE ComposeUp("up", "upped")
  <2>1. Stopped(current) /\ Jump("upped") /\ UNCHANGED <<record, current>> /\ engine.pc = "up"
    BY <1>7 DEF ComposeUp, At
  <2>2. current \in Versions \cup {0}
    BY <1>3 DEF OneContainer
  <2>3. PhaseOf("upped", rec.phase)
    BY <1>2, <2>1 DEF PhaseOf, Unhurt, Closing, Restorable
  <2> QED BY <1>1, <1>2, <2>1, <2>2, <2>3, HostStepKeeps DEF Written, AtCurrent
<1>8. CASE Enter("upped", rec, "verifying", "idle")
  <2>1. UNCHANGED <<row, request, public, maintenance, current, services, writing>>
        /\ Phase(rec, "verifying", "idle")
    BY <1>8 DEF Enter, Kept, apiVars, hostVars
  <2> QED BY <1>2, <2>1, EnterKeeps DEF Critical, Settled, Terminal
<1>9. CASE StopContainer
  BY <1>4, <1>5, <1>9 DEF StopContainer
<1>10. CASE Switch
  BY <1>6, <1>7, <1>8, <1>10 DEF Switch
<1> QED BY <1>9, <1>10

\* The checked version is committed before the gate is opened in front of it.
LEMMA VerifyStepsKeep ==
    ASSUME UpdateAssumption, DockerInv, Verify
    PROVE  DockerInv'
<1>1. engine.pc \in {"verifying", "commit", "open", "opened"}
      /\ UNCHANGED <<row, request, public, current, services, writing>>
  BY DEF Verify, Enter, Note, Marker, At, Kept, apiVars, hostVars
<1>2. /\ engine.pc \notin {"idle", "down"} \cup Written
      /\ IsRecord(rec) /\ op \in Ops
      /\ rec.phase = "verifying"
      /\ engine.pc \in {"commit", "open", "opened"} => services.api = current
      /\ engine.pc = "opened" => ~maintenance
      /\ rec.phase \notin Terminal \cup {"none"}
      /\ rec.phase \in {"stopping", "switching"} => maintenance
  BY <1>1, Engaged DEF Written, EngineAt, PhaseOf, AtCurrent, RecordOK, Critical
<1>3. OneContainer /\ writing' \in BOOLEAN /\ (UNCHANGED maintenance \/ services.api = current => OneContainer')
  BY <1>1 DEF DockerInv, OneContainer, RequestsOK
<1>4. rec.phase \notin Critical => services.api = current
  BY <1>2, Engaged DEF RecordOK
<1>5. CASE At("verifying") /\ Answers(New) /\ Jump("commit") /\ UNCHANGED <<record, maintenance>>
  <2>1. services.api = current /\ rec.phase = "verifying"
    BY <1>2, <1>5 DEF Answers, At
  <2>2. EngineAt("commit", engine.next, rec, maintenance', services'.api = current')
    BY <1>1, <2>1 DEF EngineAt, PhaseOf, Unhurt, Closing, Restorable, AtCurrent, Terminal
  <2> QED BY <1>1, <1>2, <1>3, <1>4, <1>5, <2>1, <2>2, NoteKeeps DEF Written
<1>6. CASE At("verifying") /\ Jump("recover") /\ UNCHANGED <<record, maintenance>>
  <2>1. rec.phase = "verifying"
    BY <1>2, <1>6 DEF At
  <2>2. EngineAt("recover", engine.next, rec, maintenance', services'.api = current')
    BY <1>1, <2>1 DEF EngineAt, PhaseOf, Unhurt, Closing, Restorable, AtCurrent, Terminal, Critical
  <2> QED BY <1>1, <1>2, <1>3, <1>4, <1>6, <2>1, <2>2, NoteKeeps DEF Written
<1>7. CASE Note("commit", [rec EXCEPT !.committed = TRUE], "open")
  <2> DEFINE j == [rec EXCEPT !.committed = TRUE]
  <2>1. IsRecord(j) /\ j.phase = rec.phase /\ j.old = rec.old /\ (j.disrupted <=> rec.disrupted)
    BY <1>2 DEF IsRecord, RecordFields
  <2> HIDE DEF j
  <2>2. record' = [record EXCEPT ![op] = j] /\ Jump("open") /\ UNCHANGED maintenance /\ engine.pc = "commit"
    BY <1>7 DEF Note, j, At
  <2>3. EngineAt("open", engine.next, j, maintenance', services'.api = current')
    BY <1>1, <1>2, <2>1, <2>2 DEF EngineAt, PhaseOf, Unhurt, Closing, Restorable, AtCurrent, Terminal
  <2> QED BY <1>1, <1>2, <1>3, <1>4, <2>1, <2>2, <2>3, NoteKeeps DEF Written
<1>8. CASE Marker("open", FALSE, "opened")
  <2>1. UNCHANGED record /\ Jump("opened") /\ ~maintenance' /\ engine.pc = "open"
    BY <1>8 DEF Marker, At
  <2>2. EngineAt("opened", engine.next, rec, maintenance', services'.api = current')
    BY <1>1, <1>2, <2>1 DEF EngineAt, PhaseOf, Unhurt, Closing, Restorable, AtCurrent, Terminal
  <2> QED BY <1>1, <1>2, <1>3, <1>4, <2>1, <2>2, NoteKeeps DEF Written
<1>9. CASE Enter("opened", rec, IF row[op].action = "apply" THEN "succeeded" ELSE "rolled_back", "idle")
  <2> DEFINE phase == IF row[op].action = "apply" THEN "succeeded" ELSE "rolled_back"
  <2>1. phase \in Settled
    BY DEF Settled, Terminal
  <2> HIDE DEF phase
  <2>2. Phase(rec, phase, "idle") /\ UNCHANGED maintenance /\ engine.pc = "opened"
    BY <1>9 DEF Enter, phase, At
  <2>3. phase \in Terminal /\ phase # "none"
    BY <2>1 DEF Settled, Terminal
  <2> QED BY <1>1, <1>2, <2>1, <2>2, <2>3, EnterKeeps
<1> QED BY <1>5, <1>6, <1>7, <1>8, <1>9 DEF Verify

\* _recover decides and the old version is put back behind the marker, or the operation
\* ends failed, rolled back or unrecovered.
LEMMA RecoverStepsKeep ==
    ASSUME UpdateAssumption, DockerInv,
           \/ Failed \/ Recover \/ Restored \/ Restore
           \/ Enter("recovery_failed", rec, "recovery_failed", "keep_closed")
    PROVE  DockerInv'
<1>1. engine.pc \in {"fail", "recover", "restored", "reopen", "reopened", "reclose", "restore",
                     "restore_up", "recovery_failed"}
      /\ UNCHANGED <<row, request, public>>
  BY DEF Failed, Recover, Restored, Restore, Enter, Note, Marker, Tag, ComposeUp, At, Kept, apiVars
<1>2. /\ engine.pc \notin {"idle", "down"} \cup Written
      /\ IsRecord(rec) /\ op \in Ops
      /\ engine.pc \in {"restored", "reopen", "reopened", "reclose", "restore", "restore_up"} =>
            rec.phase = "rolling_back" /\ rec.old \in Versions /\ ~rec.committed
      /\ engine.pc \in {"fail", "reopen", "reopened"} => services.api = current
      /\ engine.pc = "reopened" => ~maintenance
      /\ engine.pc \in {"restore", "restore_up"} => maintenance
      /\ engine.pc = "recover" => rec.drift \/ rec.phase \in Critical
      /\ rec.phase \in Critical => rec.old \in Versions
      /\ rec.phase \notin Terminal \cup {"none"}
      /\ rec.phase \in {"stopping", "switching"} => maintenance
      /\ rec.committed => rec.phase = "verifying"
  BY <1>1, Engaged DEF Written, EngineAt, PhaseOf, AtCurrent, Restorable, RecordOK, Critical
<1>3. OneContainer /\ writing \in BOOLEAN
      /\ (UNCHANGED <<current, services>> /\ (UNCHANGED maintenance \/ services.api = current) => OneContainer')
  BY <1>1 DEF DockerInv, OneContainer, RequestsOK
<1>4. rec.phase \notin Critical => services.api = current
  BY <1>2, Engaged DEF RecordOK
<1>5. CASE Failed
  <2>1. Phase(rec, "failed", "open_failed") /\ engine.pc = "fail"
        /\ UNCHANGED <<row, request, public, maintenance, current, services, writing>>
    BY <1>5 DEF Failed, Enter, At, Kept, apiVars, hostVars
  <2> QED BY <1>2, <2>1, EnterKeeps DEF Settled, Terminal
<1>6. CASE Recover
  <2>1. engine.pc = "recover" /\ UNCHANGED <<maintenance, current, services, writing>>
    BY <1>6 DEF Recover, At, hostVars
  <2>2. CASE Jump("recovery_failed") /\ UNCHANGED record
    <3>1. EngineAt("recovery_failed", engine.next, rec, maintenance', services'.api = current')
      BY <1>2, <2>1 DEF EngineAt, PhaseOf, Unhurt, Closing, Restorable, AtCurrent
    <3> QED BY <1>1, <1>2, <1>3, <1>4, <2>1, <2>2, <3>1, NoteKeeps DEF Written
  <2>3. CASE rec.committed /\ current = New /\ services.api = New /\ Jump("open") /\ UNCHANGED record
    <3>1. EngineAt("open", engine.next, rec, maintenance', services'.api = current')
      BY <1>2, <2>1, <2>3 DEF EngineAt, PhaseOf, Unhurt, Closing, Restorable, AtCurrent
    <3> QED BY <1>1, <1>2, <1>3, <1>4, <2>1, <2>3, <3>1, NoteKeeps DEF Written
  <2>4. CASE ~rec.drift /\ ~rec.committed /\ Phase(rec, "rolling_back", "reclose")
    <3>1. rec.old \in Versions
      BY <1>2, <2>1, <2>4
    <3> QED BY <1>1, <1>2, <2>1, <2>4, <3>1, EnterKeeps DEF Settled, Terminal, Critical
  <2> QED BY <1>6, <2>2, <2>3, <2>4 DEF Recover
<1>7. CASE Restore
  <2>1. CASE Marker("reclose", TRUE, "restore")
    <3>1. UNCHANGED <<record, current, services, writing>> /\ Jump("restore") /\ maintenance' /\ engine.pc = "reclose"
      BY <2>1 DEF Marker, At, hostVars
    <3>2. OneContainer' /\ EngineAt("restore", engine.next, rec, maintenance', services'.api = current')
      BY <1>2, <1>3, <3>1 DEF EngineAt, PhaseOf, Unhurt, Closing, Restorable, AtCurrent, OneContainer
    <3> QED BY <1>1, <1>2, <1>3, <1>4, <3>1, <3>2, NoteKeeps DEF Written
  <2>2. CASE Tag("restore", rec.old, [rec EXCEPT !.restoring = TRUE], "restore_up")
    <3> DEFINE j == [rec EXCEPT !.restoring = TRUE]
    <3>1. /\ IsRecord(j) /\ j.phase = rec.phase /\ j.old = rec.old
          /\ (j.disrupted <=> rec.disrupted) /\ (j.committed <=> rec.committed)
      BY <1>2 DEF IsRecord, RecordFields
    <3> HIDE DEF j
    <3>2. current' = rec.old /\ record' = [record EXCEPT ![op] = j] /\ Jump("restore_up")
          /\ UNCHANGED <<maintenance, services, writing>> /\ engine.pc = "restore"
      BY <2>2 DEF Tag, j, At
    <3>3. PhaseOf("restore_up", rec.phase) /\ rec.phase \in Critical
      BY <1>2, <3>2 DEF PhaseOf, Unhurt, Closing, Restorable, Critical
    <3> QED BY <1>1, <1>2, <3>1, <3>2, <3>3, HostStepKeeps DEF Written, AtCurrent
  <2>3. CASE At("restore_up") /\ Jump("restored") /\ UNCHANGED <<record, maintenance, hostVars>>
    <3>1. PhaseOf("restored", rec.phase) /\ rec.phase \in Critical /\ maintenance /\ current \in Versions
      BY <1>2, <1>3, <2>3 DEF PhaseOf, Unhurt, Closing, Restorable, Critical, At, OneContainer
    <3> QED BY <1>1, <1>2, <2>3, <3>1, HostStepKeeps DEF Written, AtCurrent, hostVars
  <2>4. CASE ComposeUp("restore_up", "restored")
    <3>1. Stopped(current) /\ Jump("restored") /\ UNCHANGED <<record, maintenance, current>> /\ engine.pc = "restore_up"
      BY <2>4 DEF ComposeUp, At
    <3>2. PhaseOf("restored", rec.phase) /\ rec.phase \in Critical /\ maintenance /\ current \in Versions \cup {0}
      BY <1>2, <1>3, <3>1 DEF PhaseOf, Unhurt, Closing, Restorable, Critical, OneContainer
    <3> QED BY <1>1, <1>2, <3>1, <3>2, HostStepKeeps DEF Written, AtCurrent
  <2> QED BY <1>7, <2>1, <2>2, <2>3, <2>4 DEF Restore
<1>8. CASE Restored
  <2>1. CASE /\ At("restored") /\ Answers(rec.old) /\ Jump("reopen")
             /\ UNCHANGED <<record, maintenance, current, services, writing>>
    <3>1. services.api = current /\ rec.phase = "rolling_back"
      BY <1>2, <2>1 DEF Answers, At
    <3>2. EngineAt("reopen", engine.next, rec, maintenance', services'.api = current')
      BY <1>2, <2>1, <3>1 DEF EngineAt, PhaseOf, Unhurt, Closing, Restorable, AtCurrent
    <3> QED BY <1>1, <1>2, <1>3, <1>4, <2>1, <3>1, <3>2, NoteKeeps DEF Written
  <2>2. CASE Marker("reopen", FALSE, "reopened")
    <3>1. UNCHANGED <<record, current, services, writing>> /\ Jump("reopened") /\ ~maintenance' /\ engine.pc = "reopen"
      BY <2>2 DEF Marker, At, hostVars
    <3>2. EngineAt("reopened", engine.next, rec, maintenance', services'.api = current')
      BY <1>2, <3>1 DEF EngineAt, PhaseOf, Unhurt, Closing, Restorable, AtCurrent
    <3> QED BY <1>1, <1>2, <1>3, <1>4, <3>1, <3>2, NoteKeeps DEF Written
  <2>3. CASE Enter("reopened", rec, "rolled_back", "idle")
    <3>1. Phase(rec, "rolled_back", "idle") /\ engine.pc = "reopened"
          /\ UNCHANGED <<row, request, public, maintenance, current, services, writing>>
      BY <2>3 DEF Enter, At, Kept, apiVars, hostVars
    <3> QED BY <1>2, <3>1, EnterKeeps DEF Settled, Terminal
  <2> QED BY <1>8, <2>1, <2>2, <2>3 DEF Restored
<1>9. CASE Enter("recovery_failed", rec, "recovery_failed", "keep_closed")
  <2>1. Phase(rec, "recovery_failed", "keep_closed")
        /\ UNCHANGED <<row, request, public, maintenance, current, services, writing>>
    BY <1>9 DEF Enter, Kept, apiVars, hostVars
  <2> QED BY <1>2, <2>1, EnterKeeps DEF Settled, Terminal
<1> QED BY <1>5, <1>6, <1>7, <1>8, <1>9

\* A failing command leaves the operation to its handler; a compose up may leave no container.
LEMMA EngineFailsKeeps ==
    ASSUME UpdateAssumption, DockerInv, EngineFails
    PROVE  DockerInv'
<1>1. engine.pc \in DockerCommands \cup RestoreCommands /\ UNCHANGED <<row, request, public, maintenance, current>>
  BY DEF EngineFails
<1>2. /\ engine.pc \notin {"idle", "down"} \cup Written
      /\ IsRecord(rec) /\ op \in Ops
      /\ engine.pc \in {"up", "restore_up"} => rec.phase \in Critical /\ maintenance
      /\ rec.phase \in {"stopping", "switching"} => maintenance
      /\ rec.phase \notin Terminal \cup {"none"}
      /\ rec.phase \notin Critical => services.api = current
  BY <1>1, Engaged DEF DockerCommands, RestoreCommands, Written, EngineAt, PhaseOf, AtCurrent,
                       Restorable, RecordOK, Critical
<1>3. OneContainer /\ writing \in BOOLEAN
  BY DEF DockerInv, RequestsOK
<1>4. /\ OneContainer' /\ writing' \in BOOLEAN /\ (writing' => writing)
      /\ rec.phase \notin Critical => UNCHANGED services
  <2>1. CASE UNCHANGED <<image, services, publishing, writing>>
    BY <1>1, <1>3, <2>1 DEF OneContainer
  <2>2. CASE engine.pc \in {"up", "restore_up"} /\ image' = 0 /\ Stopped(0)
    BY <1>1, <1>2, <1>3, <2>2 DEF OneContainer, Stopped
  <2> QED BY <2>1, <2>2 DEF EngineFails
<1>5. CASE Jump(Handler(rec)) /\ UNCHANGED record
  <2>1. EngineAt(Handler(rec), engine.next, rec, maintenance', services'.api = current')
    <3>1. CASE rec.phase \in Critical
      BY <1>2, <3>1 DEF Handler, EngineAt, PhaseOf, Unhurt, Closing, Restorable, AtCurrent
    <3>2. CASE rec.phase \notin Critical
      <4>1. ~rec.disrupted
        BY <1>2, <3>2, Engaged DEF RecordOK
      <4> QED BY <1>1, <1>2, <1>4, <3>2, <4>1 DEF Handler, EngineAt, PhaseOf, Unhurt, Closing, Restorable, AtCurrent
    <3> QED BY <3>1, <3>2
  <2>2. Handler(rec) \notin {"down", "idle"} \cup Written
    BY DEF Handler, Written
  <2> QED BY <1>1, <1>2, <1>4, <1>5, <2>1, <2>2, NoteKeeps
<1>6. CASE record' = [record EXCEPT ![op].drift = TRUE] /\ Jump("recover")
  <2> DEFINE j == [rec EXCEPT !.drift = TRUE]
  <2>1. /\ IsRecord(j) /\ j.phase = rec.phase /\ j.old = rec.old /\ j.drift
        /\ (j.disrupted <=> rec.disrupted) /\ (j.committed <=> rec.committed)
    BY <1>2 DEF IsRecord, RecordFields
  <2>2. record' = [record EXCEPT ![op] = j]
    BY <1>6 DEF rec
  <2> HIDE DEF j
  <2>3. EngineAt("recover", engine.next, j, maintenance', services'.api = current')
    BY <1>2, <2>1 DEF EngineAt, PhaseOf, Unhurt, Closing, Restorable, AtCurrent
  <2> QED BY <1>1, <1>2, <1>4, <1>6, <2>1, <2>2, <2>3, NoteKeeps DEF Written
<1>7. CASE Jump("recovery_failed") /\ UNCHANGED record
  <2>1. EngineAt("recovery_failed", engine.next, rec, maintenance', services'.api = current')
    BY <1>2 DEF EngineAt, PhaseOf, Unhurt, Closing, Restorable, AtCurrent
  <2> QED BY <1>1, <1>2, <1>4, <1>7, <2>1, NoteKeeps DEF Written
<1> QED BY <1>5, <1>6, <1>7 DEF EngineFails

\* A process that dies forgets only that the journals are its own.
RecordsLike ==
    /\ DOMAIN record' = Ops
    /\ \A o \in Ops : /\ IsRecord(record'[o])
                      /\ record'[o].phase = record[o].phase /\ record'[o].old = record[o].old
                      /\ record'[o].disrupted <=> record[o].disrupted
                      /\ record'[o].committed <=> record[o].committed
                      /\ record'[o].drift <=> record[o].drift

\* While the journals stay, the API and the marker of other operations change nothing for them.
LEMMA RecordsStay ==
    ASSUME DockerInv, RecordsLike, Rows \subseteq Rows',
           services.api = current => services'.api = current',
           Active # {} => UNCHANGED maintenance, writing' => writing \/ ~maintenance
    PROVE  RecordsOK' /\ Active' = Active /\ (Blocked' <=> Blocked)
<1>1. Active' = Active /\ (Blocked' <=> Blocked)
  BY DEF RecordsLike, Active, Blocked
<1>2. ASSUME NEW o \in Active
      PROVE  RecordOK(record[o], maintenance, writing, services.api = current)'
  BY <1>2 DEF DockerInv, RecordsOK, RecordOK, RecordsLike, Active
<1> QED BY <1>1, <1>2 DEF DockerInv, RecordsOK, RecordsLike

\* Journals that are not written stay as they are.
LEMMA UnchangedIsLike ==
    ASSUME DockerInv, UNCHANGED record
    PROVE  RecordsLike
  BY DEF DockerInv, RecordsOK, RecordsLike

\* The status is published and the marker of an ended operation is settled.
LEMMA EndStepsKeep ==
    ASSUME UpdateAssumption, DockerInv, Project \/ OpenFailed \/ Marker("keep_closed", TRUE, "idle")
    PROVE  DockerInv'
<1>1. /\ UNCHANGED <<record, row, request, current, services, writing>>
      /\ engine.pc \in {"project", "open_failed", "keep_closed"}
  BY DEF Project, OpenFailed, Marker, At, Kept, apiVars, hostVars
<1>2. /\ op \in Ops /\ Active \subseteq {op} /\ rec.phase # "none" /\ record[op] = rec
      /\ EngineAt(engine.pc, engine.next, rec, maintenance, services.api = current)
  BY <1>1 DEF DockerInv, EngineOK, EngineAt, rec
<1>3. OneContainer /\ RequestsOK /\ RecordsOK /\ QuietOK /\ UNCHANGED Rows
  BY <1>1 DEF DockerInv, Rows
<1>4. CASE Project
  <2>1. /\ engine.pc = "project" /\ Jump(engine.next) /\ UNCHANGED maintenance
        /\ public' = [public EXCEPT ![op] = [phase |-> rec.phase, fresh |-> TRUE]]
    BY <1>4 DEF Project, At
  <2>2. /\ DOMAIN engine' = {"pc", "op", "next", "offer"} /\ op' = op /\ rec' = rec
        /\ engine'.pc = engine.next
    BY <1>1, <2>1, JumpShape DEF op, rec
  <2>3. RequestsOK'
    BY <1>1, <1>2, <1>3, <2>1 DEF RequestsOK, IsStatus
  <2>4. RecordsOK' /\ Active' = Active /\ (Blocked' <=> Blocked)
    BY <1>1, <1>3, <2>1, UnchangedIsLike, RecordsStay
  <2>5. QuietOK'
    BY <1>1, <1>3, <2>1, <2>2, <2>4 DEF QuietOK
  <2>6. EngineAt(engine.next, engine.next, rec, maintenance, services.api = current)
        \/ engine.next \in {"idle", "down"}
    BY <1>2, <2>1 DEF EngineAt, PhaseOf, Written, Unhurt, Closing, Restorable, AtCurrent, Terminal
  <2>7. EngineOK'
    BY <1>1, <1>2, <2>1, <2>2, <2>4, <2>6 DEF EngineOK, EngineAt
  <2> QED BY <1>1, <1>3, <2>1, <2>3, <2>4, <2>5, <2>7 DEF DockerInv, OneContainer
<1>5. CASE OpenFailed \/ Marker("keep_closed", TRUE, "idle")
  <2>1. /\ UNCHANGED public /\ Jump("idle")
        /\ \/ engine.pc = "open_failed" /\ ~maintenance' /\ rec.phase = "failed" /\ services.api = current
           \/ engine.pc = "keep_closed" /\ maintenance' /\ rec.phase = "recovery_failed"
    BY <1>2, <1>5 DEF OpenFailed, Marker, At, EngineAt, AtCurrent
  <2>2. Active = {}
    BY <1>2, <2>1 DEF Active, Terminal
  <2>3. RecordsOK' /\ Active' = Active /\ (Blocked' <=> Blocked)
    BY <1>1, <1>3, <2>2, UnchangedIsLike, RecordsStay
  <2>4. RequestsOK' /\ OneContainer'
    BY <1>1, <1>3, <2>1 DEF RequestsOK, OneContainer
  <2>5. QuietOK'
    <3>1. CASE engine.pc = "open_failed"
      BY <1>1, <2>1, <3>1 DEF QuietOK
    <3>2. CASE engine.pc = "keep_closed"
      BY <1>2, <2>1, <2>3, <3>2 DEF QuietOK, Blocked
    <3> QED BY <2>1, <3>1, <3>2
  <2>6. EngineOK'
    BY <2>1, JumpShape DEF EngineOK
  <2> QED BY <2>3, <2>4, <2>5, <2>6 DEF DockerInv
<1> QED BY <1>4, <1>5

\* An admitted request, or the next tick, gives the process its operation.
LEMMA DispatchKeeps ==
    ASSUME UpdateAssumption, DockerInv, RefreshCapability \/ AdmitRequest \/ Tick
    PROVE  DockerInv'
<1>1. /\ engine.pc = "idle" /\ UNCHANGED <<public, maintenance, row, current, services, writing>>
      /\ OneContainer /\ RequestsOK /\ RecordsOK /\ QuietOK
      /\ DOMAIN engine = {"pc", "op", "next", "offer"}
  BY DEF RefreshCapability, AdmitRequest, Tick, At, Kept, apiVars, hostVars, DockerInv, EngineOK
<1>2. OneContainer' /\ UNCHANGED Rows
  BY <1>1 DEF OneContainer, Rows
<1>3. CASE RefreshCapability
  <2>1. UNCHANGED <<record, request>> /\ DOMAIN engine' = {"pc", "op", "next", "offer"} /\ engine'.pc = "idle"
    BY <1>1, <1>3 DEF RefreshCapability, Kept
  <2>2. RecordsOK' /\ Active' = Active /\ (Blocked' <=> Blocked)
    BY <1>1, <1>2, <2>1, UnchangedIsLike, RecordsStay
  <2>3. QuietOK' /\ EngineOK' /\ RequestsOK'
    BY <1>1, <1>2, <2>1, <2>2 DEF QuietOK, EngineOK, RequestsOK
  <2> QED BY <1>2, <2>2, <2>3 DEF DockerInv
<1>4. CASE AdmitRequest
  <2>1. Active = {} /\ ~Blocked /\ request \in Rows /\ request \in Ops /\ request' = NoOp
    BY <1>1, <1>4 DEF AdmitRequest, RequestsOK, Rows
  <2>2. ~maintenance /\ services.api = current
    BY <1>1, <2>1 DEF QuietOK
  <2>3. RequestsOK'
    BY <1>1, <1>2, <2>1 DEF RequestsOK
  <2>4. CASE UNCHANGED <<record, engine>>
    <3>1. RecordsOK' /\ Active' = Active /\ (Blocked' <=> Blocked)
      BY <1>1, <1>2, <2>4, UnchangedIsLike, RecordsStay
    <3>2. QuietOK' /\ EngineOK'
      BY <1>1, <2>2, <2>4, <3>1 DEF QuietOK, EngineOK
    <3> QED BY <1>2, <2>3, <3>1, <3>2 DEF DockerInv
  <2>5. ASSUME NEW phase \in {"queued", "failed"}, record[request].phase = "none",
               record' = [record EXCEPT ![request] = [NoRecord EXCEPT !.phase = phase, !.mine = TRUE]],
               engine' = [engine EXCEPT !.pc = "project", !.op = request, !.next = "idle", !.offer = 0]
        PROVE  DockerInv'
    <3> DEFINE j == [NoRecord EXCEPT !.phase = phase, !.mine = TRUE]
    <3>1. IsRecord(j) /\ j.phase = phase /\ ~j.disrupted /\ ~j.committed
      BY DEF IsRecord, RecordFields, NoRecord
    <3>2. record' = [record EXCEPT ![request] = j]
      BY <2>5
    <3> HIDE DEF j
    <3>3. DOMAIN record' = Ops /\ record'[request] = j /\ \A o \in Ops \ {request} : record'[o] = record[o]
      BY <1>1, <2>1, <3>2 DEF RecordsOK
    <3>4. /\ DOMAIN engine' = {"pc", "op", "next", "offer"} /\ op' = request /\ rec' = j
          /\ engine'.pc = "project" /\ engine'.next = "idle"
      BY <1>1, <2>5, <3>3 DEF op, rec
    <3>5. Active' \subseteq {request} /\ (phase = "queued" => Active' # {})
      BY <2>1, <3>1, <3>3 DEF Active, Terminal
    <3>6. RecordOK(j, maintenance', writing', services'.api = current') \/ phase = "failed"
      BY <1>1, <2>2, <3>1 DEF RecordOK, Unhurt, Critical
    <3>7. \A o \in Active' : phase = "queued" /\ record'[o] = j
      BY <3>1, <3>3, <3>5 DEF Active, Terminal
    <3>8. \A o \in Active' : RecordOK(record[o], maintenance, writing, services.api = current)'
      BY <3>6, <3>7
    <3>9. RecordsOK'
      BY <1>1, <1>2, <2>1, <3>1, <3>3, <3>5, <3>8 DEF RecordsOK
    <3>10. QuietOK'
      BY <1>1, <2>2 DEF QuietOK
    <3>11. EngineOK'
      BY <2>1, <3>1, <3>4, <3>5 DEF EngineOK, EngineAt, Written, Closing, Unhurt, Restorable, AtCurrent
    <3> QED BY <1>2, <2>3, <3>9, <3>10, <3>11 DEF DockerInv
  <2>6. CASE record[request].phase # "none"
    BY <1>4, <2>4, <2>6 DEF AdmitRequest
  <2>7. CASE record[request].phase = "none" /\ Admittable(request)
    BY <1>4, <2>5, <2>7 DEF AdmitRequest
  <2>8. CASE record[request].phase = "none" /\ ~Admittable(request)
    BY <1>4, <2>5, <2>8 DEF AdmitRequest
  <2> QED BY <2>6, <2>7, <2>8
<1>5. CASE Tick
  <2>1. PICK o \in Active :
          /\ engine' = [engine EXCEPT !.op = o, !.offer = 0,
                          !.pc = IF record[o].drift \/ Interrupted(record[o])
                                 THEN "recover" ELSE record[o].phase]
          /\ record' = [record EXCEPT ![o].mine = @ \/ ~(record[o].drift \/ Interrupted(record[o]))]
    BY <1>5 DEF Tick
  <2>2. o \in Ops /\ IsRecord(record[o]) /\ Active \subseteq {o} /\ DOMAIN record = Ops
        /\ RecordOK(record[o], maintenance, writing, services.api = current)
    BY <1>1 DEF RecordsOK, Active
  <2>3. /\ DOMAIN record' = Ops /\ \A p \in Ops \ {o} : record'[p] = record[p]
        /\ IsRecord(record'[o]) /\ record'[o].phase = record[o].phase /\ record'[o].old = record[o].old
        /\ record'[o].disrupted = record[o].disrupted /\ record'[o].committed = record[o].committed
        /\ record'[o].drift = record[o].drift
    BY <2>1, <2>2 DEF IsRecord, RecordFields
  <2>4. RecordsLike
    BY <1>1, <2>3 DEF RecordsLike, RecordsOK
  <2>5. RecordsOK' /\ Active' = Active /\ (Blocked' <=> Blocked)
    BY <1>1, <1>2, <2>4, RecordsStay
  <2>6. /\ DOMAIN engine' = {"pc", "op", "next", "offer"} /\ op' = o
        /\ engine'.pc = IF record[o].drift \/ Interrupted(record[o]) THEN "recover" ELSE record[o].phase
    BY <1>1, <2>1 DEF op
  <2>7. rec' = record'[o]
    BY <2>6 DEF rec, op
  <2>8. record[o].phase \in Unhurt \cup Critical
    BY <2>2 DEF RecordOK
  <2>9. EngineAt(engine'.pc, engine'.next, rec', maintenance', services'.api = current')
    <3>1. CASE record[o].drift \/ Interrupted(record[o])
      <4>1. record[o].drift \/ record[o].phase \in Critical
        BY <3>1 DEF Interrupted
      <4> QED BY <2>3, <2>6, <2>7, <2>8, <3>1, <4>1
                DEF EngineAt, PhaseOf, Written, Unhurt, Critical, Closing, Restorable, AtCurrent, Terminal
    <3>2. CASE ~(record[o].drift \/ Interrupted(record[o]))
      BY <2>3, <2>6, <2>7, <2>8, <3>2
        DEF EngineAt, PhaseOf, Written, Unhurt, Critical, Closing, Restorable, AtCurrent, Terminal
    <3> QED BY <3>1, <3>2
  <2>10. EngineOK'
    BY <2>2, <2>5, <2>6, <2>9 DEF EngineOK
  <2>11. QuietOK' /\ RequestsOK'
    BY <1>1, <1>2, <1>5, <2>1, <2>5 DEF QuietOK, RequestsOK, Tick, Kept
  <2> QED BY <1>2, <2>5, <2>10, <2>11 DEF DockerInv
<1> QED BY <1>3, <1>4, <1>5

\* A crash, a reboot and the start of the process leave every journal to be taken up again,
\* and a start clears a marker that no operation needs.
LEMMA ProcessStepsKeep ==
    ASSUME UpdateAssumption, DockerInv, EngineCrash \/ DockerReboot \/ EngineStart
    PROVE  DockerInv'
<1>1. UNCHANGED <<row, request, current>> /\ UNCHANGED Rows
  BY DEF EngineCrash, DockerReboot, EngineStart, Kept, apiVars, hostVars, Rows
<1>2. OneContainer /\ RequestsOK /\ RecordsOK /\ QuietOK
  BY DEF DockerInv
<1>3. RecordsLike
  <2>1. CASE record' = [o \in Ops |-> [record[o] EXCEPT !.mine = FALSE]]
    <3>1. ASSUME NEW o \in Ops
          PROVE  /\ IsRecord(record'[o])
                 /\ record'[o].phase = record[o].phase /\ record'[o].old = record[o].old
                 /\ record'[o].disrupted <=> record[o].disrupted
                 /\ record'[o].committed <=> record[o].committed
                 /\ record'[o].drift <=> record[o].drift
      BY <1>2, <2>1, <3>1 DEF RecordsOK, IsRecord, RecordFields
    <3> QED BY <2>1, <3>1 DEF RecordsLike
  <2>2. CASE UNCHANGED record
    BY <2>2, UnchangedIsLike
  <2> QED BY <2>1, <2>2 DEF EngineCrash, DockerReboot, EngineStart
<1>4. /\ services' = services \/ Stopped(services.api)
      /\ services' = [api |-> services.api, consumer |-> services.api]
      /\ writing' = writing \/ writing' = FALSE
  BY <1>2 DEF EngineCrash, DockerReboot, EngineStart, Stopped, hostVars, OneContainer
<1>5. CASE (EngineCrash \/ DockerReboot)
  <2>1. UNCHANGED <<public, maintenance>> /\ engine' = [IdleEngine EXCEPT !.pc = "down"]
    BY <1>5 DEF EngineCrash, DockerReboot
  <2>2. DOMAIN engine' = {"pc", "op", "next", "offer"} /\ engine'.pc = "down"
    BY <2>1 DEF IdleEngine
  <2>3. RecordsOK' /\ Active' = Active /\ (Blocked' <=> Blocked)
    BY <1>1, <1>2, <1>3, <1>4, <2>1, RecordsStay
  <2>4. OneContainer' /\ RequestsOK' /\ EngineOK'
    BY <1>1, <1>2, <1>4, <2>1, <2>2 DEF OneContainer, RequestsOK, EngineOK
  <2>5. QuietOK'
    BY <1>1, <1>2, <1>3, <1>4, <2>1, <2>2, <2>3 DEF QuietOK, RecordsLike
  <2> QED BY <2>3, <2>4, <2>5 DEF DockerInv
<1>6. CASE EngineStart
  <2>1. /\ UNCHANGED <<record, services, writing>> /\ maintenance' = Repaired /\ engine' = IdleEngine
        /\ public' = [o \in Ops |-> IF record[o].phase # "none"
                                THEN [phase |-> record[o].phase, fresh |-> TRUE] ELSE public[o]]
    BY <1>6 DEF EngineStart, hostVars
  <2>2. DOMAIN engine' = {"pc", "op", "next", "offer"} /\ engine'.pc = "idle"
    BY <2>1 DEF IdleEngine
  <2>3. /\ Active # {} => UNCHANGED maintenance
        /\ maintenance' = maintenance \/ (~maintenance' /\ Active = {} /\ ~Blocked)
        /\ Active = {} /\ ~Blocked /\ (\E o \in Ops : record[o].phase # "none") => ~maintenance'
    BY <2>1 DEF Repaired
  <2>4. RecordsOK' /\ Active' = Active /\ (Blocked' <=> Blocked)
    BY <1>1, <1>2, <1>3, <2>1, <2>3, RecordsStay
  <2>5. RequestsOK'
    BY <1>1, <1>2, <2>1 DEF RequestsOK, IsStatus
  <2>6. OneContainer'
    BY <1>1, <1>2, <2>1, <2>3 DEF OneContainer, QuietOK
  <2>7. QuietOK' /\ EngineOK'
    BY <1>1, <1>2, <2>1, <2>2, <2>3, <2>4 DEF QuietOK, EngineOK
  <2> QED BY <2>4, <2>5, <2>6, <2>7 DEF DockerInv
<1> QED BY <1>5, <1>6

\* Every step of a Docker host keeps the invariant.
LEMMA DockerKeeps ==
    ASSUME UpdateAssumption, DockerInv, DockerNext
    PROVE  DockerInv'
<1>1. CASE (ApiRequest \/ ApiStep) /\ UNCHANGED dockerVars
  <2>1. RequestsOK' /\ ApiMoves /\ UNCHANGED <<record, engine>>
    BY <1>1, ApiKeeps DEF DockerInv, dockerVars
  <2>2. RecordsOK' /\ Active' = Active /\ (Blocked' <=> Blocked)
    BY <2>1, UnchangedIsLike, RecordsStay DEF ApiMoves
  <2>3. OneContainer' /\ QuietOK'
    BY <2>1, <2>2 DEF DockerInv, OneContainer, QuietOK, ApiMoves
  <2>4. op' = op /\ rec' = rec
    BY <2>1 DEF op, rec
  <2>5. EngineOK'
    BY <2>1, <2>2, <2>4 DEF DockerInv, EngineOK, ApiMoves
  <2> QED BY <2>1, <2>2, <2>3, <2>5 DEF DockerInv
<1>2. CASE EngineStep
  <2>1. CASE Project \/ OpenFailed
    BY <2>1, EndStepsKeep
  <2>2. CASE RefreshCapability \/ AdmitRequest \/ Tick
    BY <2>2, DispatchKeeps
  <2>3. CASE Queued \/ VerifyArtifacts \/ BuildImage \/ PreflightImage \/ PrepareStop
    BY <2>3, PhaseStepsKeep
  <2>4. CASE StopContainer \/ Switch
    BY <2>4, SwitchStepsKeep
  <2>5. CASE Verify
    BY <2>5, VerifyStepsKeep
  <2>6. CASE Failed \/ Recover \/ Restored \/ Restore
    BY <2>6, RecoverStepsKeep
  <2>7. CASE RecoveryFailed
    BY <2>7, RecoverStepsKeep, EndStepsKeep DEF RecoveryFailed
  <2>8. CASE EngineStart
    BY <2>8, ProcessStepsKeep
  <2> QED BY <1>2, <2>1, <2>2, <2>3, <2>4, <2>5, <2>6, <2>7, <2>8 DEF EngineStep
<1>3. CASE EngineFails
  BY <1>3, EngineFailsKeeps
<1>4. CASE EngineCrash \/ DockerReboot
  BY <1>4, ProcessStepsKeep
<1> QED BY <1>1, <1>2, <1>3, <1>4, Zenon DEF DockerNext

\* A Docker host starts with one container, of the installed version, and no journal.
LEMMA DockerStarts ==
    ASSUME UpdateAssumption, ApiInit, DockerInit, RequestsOK
    PROVE  DockerInv
<1>1. OneContainer /\ ~maintenance /\ services.api = current
  BY DEF ApiInit, OneContainer, UpdateAssumption
<1>2. DOMAIN record = Ops /\ \A o \in Ops : IsRecord(record[o]) /\ record[o].phase = "none"
  BY DEF DockerInit, NoRecord, IsRecord, RecordFields
<1>3. Active = {}
  BY <1>2 DEF Active
<1>4. DOMAIN engine = {"pc", "op", "next", "offer"} /\ engine.pc = "idle"
  BY DEF DockerInit, IdleEngine
<1> QED BY <1>1, <1>2, <1>3, <1>4 DEF DockerInv, RecordsOK, QuietOK, EngineOK

-----------------------------------------------------------------------------
(* The launcher.                                                           *)

Reporting == {"result", "clear", "forget"}

StoreOK ==
    /\ DOMAIN store = {"link", "op", "previous"}
    /\ DOMAIN keeper = {"pc", "op", "active", "ready", "outcome", "then"}
    /\ keeper.pc \in {"switch", "relink", "off", "port"} => services.api = 0
    /\ keeper.pc \in {"loop", "stop", "verify", "reverify", "check"} => services.api = current
    /\ keeper.pc \in {"loop", "stop", "port", "check"} => keeper.active = current
    /\ keeper.pc \in {"loop", "boot", "check"} => store.op = NoOp
    /\ keeper.pc \in Reporting => keeper.then \in {"loop", "boot", "exit"}
    /\ keeper.pc \in Reporting /\ keeper.then = "loop" => services.api = current /\ keeper.active = current
    /\ keeper.pc = "result" => keeper.outcome # "none"

\* The launcher works without the marker: the services are the gate.
LauncherInv ==
    /\ RequestsOK /\ StoreOK
    /\ ~maintenance
    /\ releases \subseteq Versions /\ current \in Versions
    /\ services = [api |-> services.api, consumer |-> services.api]
    /\ services.api \in Versions \cup {0}

KeeperFields == {"pc", "op", "active", "ready", "outcome", "then"}

\* What a step of the launcher does to its own state, field by field.
LEMMA KeeperShape ==
    ASSUME DOMAIN keeper = KeeperFields
    PROVE  /\ \A pc : Proceed(pc) =>
                 /\ DOMAIN keeper' = KeeperFields /\ keeper'.pc = pc
                 /\ keeper'.active = keeper.active /\ keeper'.then = keeper.then
                 /\ keeper'.outcome = keeper.outcome
           /\ \A outcome, next, active, ready : ReportNext(outcome, next, active, ready) =>
                 /\ DOMAIN keeper' = KeeperFields /\ keeper'.pc = "result"
                 /\ keeper'.active = active /\ keeper'.then = next /\ keeper'.outcome = outcome
<1>1. ASSUME NEW pc, Proceed(pc)
      PROVE  /\ DOMAIN keeper' = KeeperFields /\ keeper'.pc = pc
             /\ keeper'.active = keeper.active /\ keeper'.then = keeper.then
             /\ keeper'.outcome = keeper.outcome
  BY <1>1 DEF Proceed, KeeperFields
<1>2. ASSUME NEW outcome, NEW next, NEW active, NEW ready, ReportNext(outcome, next, active, ready)
      PROVE  /\ DOMAIN keeper' = KeeperFields /\ keeper'.pc = "result"
             /\ keeper'.active = active /\ keeper'.then = next /\ keeper'.outcome = outcome
  BY <1>2 DEF ReportNext, KeeperFields
<1> QED BY <1>1, <1>2

\* The link resolves to a release that is there, or to the immutable base.
LEMMA RootIsVersion ==
    ASSUME UpdateAssumption, LauncherInv, NEW link
    PROVE  CodeRoot(link) \in Versions
  BY DEF UpdateAssumption, LauncherInv, CodeRoot

\* A step of the launcher leaves the rows alone and keeps services of one version.
LEMMA KeeperFrame ==
    ASSUME UpdateAssumption, LauncherInv, UNCHANGED unchangedByKeeper, request' \in {request, NoOp},
           (UNCHANGED public \/ (\E outcome : outcome # "none" /\
              public' = [o \in Ops |-> IF o = keeper.op THEN [phase |-> outcome, fresh |-> TRUE]
                                       ELSE NoStatus])),
           UNCHANGED services \/ services' = [api |-> 0, consumer |-> 0]
               \/ services' = [api |-> current, consumer |-> current],
           current' \in Versions, writing' \in {writing, FALSE}, StoreOK'
    PROVE  LauncherInv'
<1>1. RequestsOK'
  <2>1. RequestsOK /\ UNCHANGED Rows /\ UNCHANGED row
    BY DEF LauncherInv, Rows, unchangedByKeeper
  <2>2. DOMAIN public' = Ops /\ \A o \in Ops : IsStatus(public'[o]) /\ (public'[o].fresh => public'[o].phase # "none")
    <3>1. CASE UNCHANGED public
      BY <2>1, <3>1 DEF RequestsOK
    <3>2. ASSUME NEW outcome, outcome # "none",
                 public' = [o \in Ops |-> IF o = keeper.op THEN [phase |-> outcome, fresh |-> TRUE]
                                          ELSE NoStatus]
          PROVE  DOMAIN public' = Ops /\ \A o \in Ops : IsStatus(public'[o]) /\ (public'[o].fresh => public'[o].phase # "none")
      BY <3>2 DEF IsStatus, NoStatus
    <3> QED BY <3>1, <3>2
  <2>3. request' \in Rows \cup {NoOp} /\ writing' \in BOOLEAN
    BY <2>1 DEF RequestsOK
  <2> QED BY <2>1, <2>2, <2>3 DEF RequestsOK
<1>2. services' = [api |-> services'.api, consumer |-> services'.api] /\ services'.api \in Versions \cup {0}
  BY DEF LauncherInv
<1> QED BY <1>1, <1>2 DEF LauncherInv, unchangedByKeeper

\* Every step of launcher.sh keeps the invariant.
LEMMA KeeperKeeps ==
    ASSUME UpdateAssumption, LauncherInv, KeeperStep
    PROVE  LauncherInv'
<1> USE DEF KeeperFields, Reporting
<1>1. /\ UNCHANGED unchangedByKeeper /\ StoreOK /\ RequestsOK /\ current \in Versions
      /\ DOMAIN keeper = KeeperFields /\ DOMAIN store = {"link", "op", "previous"}
  BY DEF KeeperStep, LauncherInv, StoreOK
<1>2. \A link : CodeRoot(link) \in Versions
  BY RootIsVersion
<1>3. CASE TakeRequest
  <2>1. UNCHANGED <<untouched, request, public>> /\ keeper.pc = "loop"
        /\ \/ /\ UNCHANGED store /\ DOMAIN keeper' = KeeperFields
              /\ keeper'.pc = "result" /\ keeper'.outcome # "none" /\ keeper'.then = "loop"
              /\ keeper'.active = keeper.active
           \/ /\ DOMAIN store' = {"link", "op", "previous"} /\ DOMAIN keeper' = KeeperFields
              /\ keeper'.pc = "stop" /\ keeper'.active = keeper.active
    BY <1>1, <1>3 DEF TakeRequest
  <2> QED BY <1>1, <2>1, KeeperFrame DEF StoreOK, untouched
<1>4. CASE \/ StopChildren \/ StopUnhealthy
  <2>1. /\ services' = [api |-> 0, consumer |-> 0] /\ writing' = FALSE /\ UNCHANGED <<current, request, public, store>>
        /\ keeper'.pc \in {"port", "relink"} /\ DOMAIN keeper' = KeeperFields
        /\ keeper'.pc = "port" => keeper'.active = current
    BY <1>1, <1>4, KeeperShape DEF StopChildren, StopUnhealthy, StopAll, Stopped, StoreOK
  <2> QED BY <1>1, <2>1, KeeperFrame DEF StoreOK
<1>5. CASE AwaitPort
  <2>1. CASE Proceed("switch") /\ UNCHANGED <<untouched, request, public, budget, store>>
    BY <1>1, <1>5, <2>1, KeeperShape, KeeperFrame DEF AwaitPort, StoreOK, untouched
  <2>2. CASE StartChildren /\ ReportNext("failed", "loop", current, TRUE) /\ UNCHANGED store
    <3>1. /\ DOMAIN keeper' = KeeperFields /\ keeper'.pc = "result" /\ keeper'.active = current
          /\ keeper'.then = "loop" /\ keeper'.outcome = "failed"
          /\ services' = [api |-> current, consumer |-> current]
          /\ UNCHANGED <<current, writing, publishing, request, public>>
      BY <1>1, <2>2, KeeperShape DEF StartChildren
    <3> QED BY <1>1, <2>2, <3>1, KeeperFrame DEF StoreOK
  <2> QED BY <1>5, <2>1, <2>2 DEF AwaitPort
<1>6. CASE SwitchTo \/ RestorePrevious
  <2>1. /\ UNCHANGED <<services, writing, publishing, request, public>> /\ current' \in Versions
        /\ DOMAIN store' = {"link", "op", "previous"}
        /\ DOMAIN keeper' = KeeperFields /\ keeper'.pc \in {"start", "restart"}
    BY <1>1, <1>2, <1>6, KeeperShape DEF SwitchTo, RestorePrevious, PointTo
  <2> QED BY <1>1, <2>1, KeeperFrame DEF StoreOK
<1>7. CASE StartSwitched \/ RestartPrevious \/ StartAtBoot
  <2>1. /\ services' = [api |-> current, consumer |-> current]
        /\ UNCHANGED <<current, writing, publishing, request, public, store>>
        /\ DOMAIN keeper' = KeeperFields
        /\ \/ keeper'.pc \in {"verify", "reverify"}
           \/ keeper.pc = "boot" /\ keeper'.pc = "check" /\ keeper'.active = current
    BY <1>1, <1>7, KeeperShape DEF StartSwitched, RestartPrevious, StartAtBoot, StartChildren
  <2> QED BY <1>1, <2>1, KeeperFrame DEF StoreOK
<1>8. CASE VerifySwitched \/ VerifyRestored \/ VerifyStart
  <2>1. /\ UNCHANGED <<untouched, request, public, store>> /\ DOMAIN keeper' = KeeperFields
        /\ \/ /\ keeper'.pc = "result" /\ keeper'.outcome # "none" /\ keeper'.then = "loop"
              /\ keeper'.active = current /\ services.api = current
           \/ keeper'.pc = "result" /\ keeper'.outcome # "none" /\ keeper'.then = "exit"
           \/ keeper'.pc \in {"undo", "exit"}
           \/ keeper.pc = "check" /\ keeper'.pc = "loop" /\ keeper'.active = keeper.active
    <3>1. CASE VerifySwitched
      BY <1>1, <3>1, KeeperShape DEF VerifySwitched, StoreOK, HealthReady
    <3>2. CASE VerifyRestored
      BY <1>1, <3>2, KeeperShape DEF VerifyRestored, StoreOK
    <3>3. CASE VerifyStart
      BY <1>1, <3>3, KeeperShape DEF VerifyStart
    <3> QED BY <1>8, <3>1, <3>2, <3>3
  <2> QED BY <1>1, <2>1, KeeperFrame DEF StoreOK, untouched
<1>9. CASE WriteResult
  <2>1. /\ UNCHANGED <<untouched, request, store>> /\ keeper.pc = "result" /\ keeper.outcome # "none"
        /\ DOMAIN keeper' = KeeperFields /\ keeper'.pc = "clear"
        /\ keeper'.then = keeper.then /\ keeper'.active = keeper.active
        /\ public' = [o \in Ops |-> IF o = keeper.op THEN [phase |-> keeper.outcome, fresh |-> TRUE]
                                    ELSE NoStatus]
    BY <1>1, <1>9, KeeperShape DEF WriteResult, StoreOK
  <2> QED BY <1>1, <2>1, KeeperFrame DEF StoreOK, untouched
<1>10. CASE RemoveRequest
  <2>1. /\ UNCHANGED <<untouched, public, store>> /\ request' = NoOp /\ keeper.pc = "clear"
        /\ DOMAIN keeper' = KeeperFields /\ keeper'.pc = "forget"
        /\ keeper'.then = keeper.then /\ keeper'.active = keeper.active
    BY <1>1, <1>10, KeeperShape DEF RemoveRequest
  <2> QED BY <1>1, <2>1, KeeperFrame DEF StoreOK, untouched
<1>11. CASE RemoveState
  <2>1. /\ UNCHANGED <<untouched, request, public>> /\ keeper.pc = "forget"
        /\ DOMAIN store' = {"link", "op", "previous"} /\ store'.op = NoOp
        /\ DOMAIN keeper' = KeeperFields /\ keeper'.pc = keeper.then
        /\ keeper'.active = keeper.active
    BY <1>1, <1>11 DEF RemoveState
  <2> QED BY <1>1, <2>1, KeeperFrame DEF StoreOK, untouched
<1>12. CASE Exit \/ LauncherDies
  <2>1. /\ services' = [api |-> 0, consumer |-> 0] /\ writing' = FALSE /\ UNCHANGED <<current, request, public, store>>
        /\ DOMAIN keeper' = KeeperFields /\ keeper'.pc = "off"
    BY <1>12 DEF Exit, LauncherDies, Stopped, KeeperOff
  <2> QED BY <1>1, <2>1, KeeperFrame DEF StoreOK
<1>13. CASE StartLauncher
  <2>1. CASE store.op # NoOp
    <3>1. /\ UNCHANGED <<services, writing, publishing, request, public>> /\ current' \in Versions
          /\ DOMAIN store' = {"link", "op", "previous"} /\ DOMAIN keeper' = KeeperFields
          /\ keeper'.pc = "result" /\ keeper'.outcome # "none" /\ keeper'.then = "boot"
      BY <1>1, <1>2, <1>13, <2>1 DEF StartLauncher, PointTo, KeeperOff
    <3> QED BY <1>1, <3>1, KeeperFrame DEF StoreOK
  <2>2. CASE store.op = NoOp
    <3>1. /\ UNCHANGED <<untouched, request, public, store>> /\ DOMAIN keeper' = KeeperFields
          /\ keeper'.pc = "boot"
      BY <1>13, <2>2 DEF StartLauncher, KeeperOff
    <3> QED BY <1>1, <2>2, <3>1, KeeperFrame DEF StoreOK, untouched
  <2> QED BY <2>1, <2>2
<1> QED BY <1>3, <1>4, <1>5, <1>6, <1>7, <1>8, <1>9, <1>10, <1>11, <1>12, <1>13 DEF KeeperStep

\* Every step of a host of the launcher keeps the invariant.
LEMMA LauncherKeeps ==
    ASSUME UpdateAssumption, LauncherInv, LauncherNext
    PROVE  LauncherInv'
<1>1. ASSUME UNCHANGED <<keeper, store>>, RequestsOK', ApiMoves, releases' \subseteq Versions
      PROVE  LauncherInv'
  BY <1>1 DEF LauncherInv, StoreOK, ApiMoves
<1>2. CASE Decide \/ AskLauncher \/ ReadResult \/ ApiWork
  <2>1. (ApiRequest \/ ApiStep) /\ UNCHANGED <<keeper, store>>
    BY <1>2, Zenon DEF Decide, AskLauncher, ReadResult, ApiWork, ApiRequest, ApiStep, launcherVars
  <2>2. RequestsOK' /\ ApiMoves /\ UNCHANGED releases
    BY <2>1, ApiKeeps DEF LauncherInv
  <2> QED BY <1>1, <2>1, <2>2 DEF LauncherInv
<1>3. ASSUME NEW o \in Ops, NEW a \in {"apply", "rollback"}, NEW v \in Versions, Stage(o, a, v)
      PROVE  LauncherInv'
  <2>1. UNCHANGED <<keeper, store, current, services, data, writing>> /\ PrepareRow(o, a, v)
        /\ releases' \subseteq Versions
    BY <1>3 DEF Stage, Placed, launcherVars, LauncherInv
  <2> QED BY <1>1, <2>1, PrepareKeeps DEF LauncherInv
<1>4. ASSUME NEW v \in Versions, LoseRelease(v)
      PROVE  LauncherInv'
  <2>1. /\ UNCHANGED <<keeper, store, row, request, public, maintenance, current, services, data, writing>>
        /\ releases' \subseteq releases
    BY <1>4 DEF LoseRelease, launcherVars
  <2>2. RequestsOK' /\ ApiMoves
    BY <2>1 DEF LauncherInv, RequestsOK, ApiMoves, Rows
  <2> QED BY <1>1, <2>1, <2>2 DEF LauncherInv
<1>5. CASE KeeperStep
  BY <1>5, KeeperKeeps
<1> QED BY <1>2, <1>3, <1>4, <1>5, Zenon DEF LauncherNext

\* A host starts with the launcher idle in front of the first version.
LEMMA LauncherStarts ==
    ASSUME UpdateAssumption, ApiInit, LauncherInit, RequestsOK
    PROVE  LauncherInv
<1>1. /\ ~maintenance /\ releases \subseteq Versions /\ current = FirstVersion /\ FirstVersion \in Versions
      /\ services = [api |-> current, consumer |-> current]
  BY DEF ApiInit, UpdateAssumption
<1>2. /\ DOMAIN store = {"link", "op", "previous"} /\ store.op = NoOp
      /\ DOMAIN keeper = KeeperFields /\ keeper.pc = "loop" /\ keeper.active = FirstVersion
  BY DEF LauncherInit, KeeperOff, KeeperFields
<1> QED BY <1>1, <1>2 DEF LauncherInv, StoreOK, Reporting, KeeperFields

-----------------------------------------------------------------------------
(* Any host.                                                               *)

UpdateInv ==
    /\ deployment \in {"systemd", "docker", "launcher", "manager"}
    /\ deployment = "systemd" => SystemdInv
    /\ deployment # "systemd" => unit.pc = "idle"
    /\ deployment = "docker" => DockerInv
    /\ deployment # "docker" => engine.pc = "idle"
    /\ deployment = "launcher" => LauncherInv
    /\ deployment = "manager" => ~maintenance /\ Serving


\* The first state of any host.
LEMMA UpdateStarts ==
    ASSUME UpdateAssumption, Init
    PROVE  UpdateInv
<1>1. SystemdInv /\ unit.pc = "idle" /\ ~maintenance
  BY SystemdStarts DEF Init, SystemdInit, IdleUnit, ApiInit
<1>2. RequestsOK /\ Serving
  BY <1>1 DEF SystemdInv, MarkerOK
<1>3. DockerInv /\ engine.pc = "idle"
  BY <1>2, DockerStarts DEF Init, DockerInit, IdleEngine
<1>4. deployment = "launcher" => LauncherInv
  BY <1>2, LauncherStarts DEF Init
<1>5. deployment \in {"systemd", "docker", "launcher", "manager"}
  BY DEF Init
<1> QED BY <1>1, <1>2, <1>3, <1>4, <1>5 DEF UpdateInv

\* A host has one executor, and the others' state stays as it was.
LEMMA UpdateKeeps ==
    ASSUME UpdateAssumption, UpdateInv, [Next]_pvars
    PROVE  UpdateInv'
<1>1. UNCHANGED deployment
  BY DEF Next, pvars
<1>2. CASE deployment = "systemd" /\ SystemdNext /\ UNCHANGED dockerVars
  BY <1>1, <1>2, SystemdKeeps DEF UpdateInv, dockerVars
<1>3. CASE deployment = "docker" /\ DockerNext /\ UNCHANGED unitVars
  BY <1>1, <1>3, DockerKeeps DEF UpdateInv, unitVars
<1>4. CASE deployment = "launcher" /\ LauncherNext /\ UNCHANGED <<unitVars, dockerVars>>
  BY <1>1, <1>4, LauncherKeeps DEF UpdateInv, unitVars, dockerVars
<1>5. CASE deployment = "manager" /\ UNCHANGED updateVars
  BY <1>1, <1>5 DEF UpdateInv, Serving, updateVars, unitVars, dockerVars, hostVars
<1>6. CASE UNCHANGED pvars
  <2>1. UNCHANGED <<apiVars, hostVars, request, public, maintenance, unitVars, dockerVars, launcherVars>>
    BY <1>6 DEF pvars, updateVars
  <2>2. UNCHANGED <<row, request, public, maintenance, releases, current, services, data, writing, publishing>>
    BY <2>1 DEF apiVars, hostVars
  <2>3. UNCHANGED <<journal, pointer, unit, backup, record, image, engine, store, keeper>>
    BY <2>1 DEF unitVars, dockerVars, launcherVars
  <2>4. CASE deployment = "systemd"
    <3>1. PendingOp' = PendingOp /\ mem' = mem
      BY <2>3 DEF PendingOp, mem
    <3>2. SystemdInv
      BY <2>4 DEF UpdateInv
    <3>3. SystemdInv'
      <4>1. Still /\ UNCHANGED <<pointer, backup, journal, unit>>
        BY <2>2, <2>3 DEF Still
      <4>2. RequestsOK' /\ HostOK' /\ PointersOK' /\ MarkerOK' /\ JournalsOK'
        BY <3>2, <4>1, StillKeeps, JournalsKept
      <4>3. unit.pc # "idle" => /\ IsJournal(mem) /\ mem.op \in Rows /\ mem.phase # "none"
                                /\ Place(unit.pc, mem, unit.then)
                                /\ Where(unit.pc, unit.stage # "save", mem, maintenance)
        BY <3>2 DEF SystemdInv, UnitOK
      <4>4. unit.pc # "idle" => Place(unit.pc, mem, unit.then)' /\ mem.op \in Rows'
        BY <2>2, <3>1, <4>1, <4>3 DEF Place, Untouched, Rows
      <4>5. unit.pc # "idle" => Where(unit.pc, unit.stage # "save", mem, maintenance)'
        BY <2>2, <3>1, <4>1, <4>3 DEF Where, Forward
      <4> QED BY <3>1, <3>2, <4>1, <4>2, <4>4, <4>5 DEF SystemdInv, UnitOK, Alike
    <3> QED BY <1>1, <2>3, <2>4, <3>3 DEF UpdateInv
  <2>5. CASE deployment # "systemd"
    <3>1. RequestsOK => RequestsOK'
      BY <2>2 DEF RequestsOK, Rows
    <3>2. DockerInv => DockerInv'
      <4>1. DockerInv => RecordsLike
        BY <2>3, UnchangedIsLike
      <4>2. DockerInv => RecordsOK' /\ Active' = Active /\ (Blocked' <=> Blocked)
        BY <2>2, <4>1, RecordsStay DEF Rows, DockerInv, RequestsOK
      <4>3. op' = op /\ rec' = rec
        BY <2>3 DEF op, rec
      <4> QED BY <2>2, <2>3, <3>1, <4>2, <4>3 DEF DockerInv, OneContainer, QuietOK, EngineOK
    <3>3. LauncherInv => LauncherInv'
      BY <2>2, <2>3, <3>1 DEF LauncherInv, StoreOK
    <3> QED BY <1>1, <2>2, <2>3, <2>5, <3>2, <3>3 DEF UpdateInv, Serving
  <2> QED BY <2>4, <2>5
<1> QED BY <1>2, <1>3, <1>4, <1>5, <1>6 DEF Next

\* Whatever updates the host: the rows, journals, marker, pointers, services and program
\* counter agree, of updater.py, docker_updater.py and launcher.sh alike.
THEOREM UpdateInvariant == Spec => []UpdateInv
<1>1. Init => UpdateInv
  BY UpdateStarts, UpdateAssumption
<1>2. UpdateInv /\ [Next]_pvars => UpdateInv'
  BY UpdateKeeps, UpdateAssumption
<1> QED BY <1>1, <1>2, PTL DEF Spec


\* run_migrations of updater.py and the stop of docker_updater.py find no write under way,
\* and the migrated database is the one the operation's cold backup holds.
THEOREM ChangeIsAlwaysCold == Spec => []ChangeIsCold
<1>1. ASSUME UpdateInv, unit.pc = "migrate"
      PROVE  services = [api |-> 0, consumer |-> 0] /\ ~writing /\ backup[mem.op] = data
  <2>1. SystemdInv
    BY <1>1 DEF UpdateInv
  <2>2. mem.backup /\ Forward(mem) /\ JournalOK(mem) /\ services = [api |-> 0, consumer |-> 0]
    BY <1>1, <2>1, Held, UpdateAssumption
      DEF Where, Cold, BackedUp, Known, Equipped, Armed, Moving, Elsewhere
  <2> QED BY <2>2 DEF JournalOK
<1>2. ASSUME UpdateInv, engine.pc = "stopping"
      PROVE  ~writing
  <2>1. DockerInv
    BY <1>2 DEF UpdateInv
  <2> QED BY <1>2, <2>1, Engaged DEF Written, EngineAt, PhaseOf, RecordOK
<1>3. UpdateInv => ChangeIsCold
  BY <1>1, <1>2 DEF ChangeIsCold
<1> QED BY <1>3, UpdateInvariant, PTL

\* Between operations: the marker is cleared by whatever ended the last one, the consumer runs,
\* the API runs the installed release, which is still there, and the manager is no older.
THEOREM RestIsAlwaysClean == Spec => []RestIsClean
<1>1. ASSUME UpdateInv, AtRest
      PROVE  /\ ~maintenance
             /\ services.api = current /\ services.consumer # 0
             /\ deployment = "systemd" => current \in releases /\ pointer.manager >= current
             /\ deployment = "launcher" => store.op = NoOp /\ keeper.active = current
  <2>1. CASE deployment = "systemd"
    <3>1. SystemdInv /\ PendingOp = NoOp
      BY <1>1, <2>1 DEF UpdateInv, AtRest
    <3> QED BY <2>1, <3>1 DEF SystemdInv, PointersOK, MarkerOK, Serving, HostOK
  <2>2. CASE deployment = "docker"
    <3>1. DockerInv /\ engine.pc = "idle" /\ Active = {} /\ ~Blocked
      BY <1>1, <2>2 DEF UpdateInv, AtRest
    <3>2. ~maintenance /\ services.api = current /\ services.consumer = services.api /\ current # 0
      BY <3>1, OpIsNotNoOp, UpdateAssumption DEF DockerInv, QuietOK, OneContainer
    <3> QED BY <2>2, <3>2
  <2>3. CASE deployment = "launcher"
    <3>1. LauncherInv /\ keeper.pc = "loop"
      BY <1>1, <2>3 DEF UpdateInv, AtRest
    <3>2. services.api = current /\ services.consumer = services.api /\ current # 0
      BY <3>1, OpIsNotNoOp, UpdateAssumption DEF LauncherInv, StoreOK
    <3> QED BY <2>3, <3>1, <3>2 DEF LauncherInv, StoreOK
  <2>4. CASE deployment = "manager"
    BY <1>1, <2>4 DEF UpdateInv, Serving
  <2> QED BY <1>1, <2>1, <2>2, <2>3, <2>4 DEF UpdateInv
<1>2. UpdateInv => RestIsClean
  BY <1>1 DEF RestIsClean
<1> QED BY <1>2, UpdateInvariant, PTL

-----------------------------------------------------------------------------
(* Each executor implements Upgrade.                                       *)

\* With the marker as the gate: a version that runs is replaced only behind it.
Replaced ==
    \/ UNCHANGED <<current, services>>
    \/ /\ UNCHANGED <<maintenance, current>>
       /\ services'.api \in {services.api, current} \/ (services'.api = 0 /\ maintenance)
    \/ UNCHANGED <<maintenance, services>> /\ maintenance /\ current' \in Versions

\* A transition writes the journal, the rows, the status and the marker, not the host.
LEMMA TransitionIsQuiet ==
    ASSUME NEW at, NEW phase, NEW m, NEW recovery, NEW next, Transition(at, phase, m, recovery, next)
    PROVE  UNCHANGED <<current, services>>
  BY DEF Transition, Cas, Here, hostVars

\* updater.py stops the services and moves the link behind the marker only.
LEMMA SystemdReplaces ==
    ASSUME UpdateAssumption, SystemdInv, SystemdNext
    PROVE  Replaced
<1>1. CASE (ApiRequest \/ ApiStep) /\ UNCHANGED unitVars
  BY <1>1, ApiKeeps DEF SystemdInv, ApiMoves, Replaced
<1>2. CASE UnitStep
  <2>1. CASE \/ ClaimPending \/ ClaimOrphan \/ ClaimNew \/ Activate \/ Discard \/ Admit \/ Process
             \/ CheckDependencies \/ MaterializeManager \/ HandOffManager \/ InitializeLayout
             \/ OwnPreparing \/ BackupDatabase \/ BackupRuntime \/ Preflight \/ CheckHealth
             \/ Error \/ RecoverCheck \/ RecoverHealth
    BY <2>1 DEF ClaimPending, ClaimOrphan, ClaimNew, Activate, Discard, Admit, Process,
         CheckDependencies, MaterializeManager, HandOffManager, InitializeLayout,
         OwnPreparing, BackupDatabase, BackupRuntime, Preflight, CheckHealth,
         Error, RecoverCheck, RecoverHealth, SaveStep, Here, hostVars, Replaced
  <2>2. CASE Refused \/ Done \/ Failing \/ RollingBack \/ RecoverDone \/ RecoverFailed
    BY <2>2, TransitionIsQuiet DEF Refused, Done, Failing, RollingBack, RecoverDone, RecoverFailed, Replaced
  <2>3. CASE \/ VerifyPackage \/ Precheck \/ Preparing \/ Stopping \/ BackingUp \/ BackingUpRuntime
             \/ Preflighting \/ Migrating \/ Switching \/ Verifying
    BY <2>3, TransitionIsQuiet DEF VerifyPackage, Precheck, Preparing, Stopping, BackingUp,
         BackingUpRuntime, Preflighting, Migrating, Switching, Verifying, Replaced
  <2>4. CASE \/ Identify \/ ClaimDir \/ RecordTarget \/ DependenciesChecked \/ Migrated
             \/ RecoverRecord \/ Finish \/ Migrate
    BY <2>4 DEF Identify, ClaimDir, RecordTarget, DependenciesChecked, Migrated, RecoverRecord, Finish,
         Migrate, SaveStep, OwnerStep, Here, hostVars, Replaced
  <2>5. CASE \/ Materialize \/ FinishPublish \/ FinishGate \/ FinishBlock \/ FinishCleanup
             \/ FinishUnblock \/ FinishRelease \/ Prune \/ Consume
    BY <2>5 DEF Materialize, FinishPublish, FinishGate, FinishBlock, FinishCleanup,
         FinishUnblock, FinishRelease, Prune, Consume, Here, hostVars, Replaced
  <2>6. CASE SwitchCurrent \/ RecoverSwitch
    <3>1. unit.pc \in {"switch", "r_switch"} /\ UNCHANGED <<maintenance, services>>
          /\ (UNCHANGED current \/ current' \in {Target, mem.old})
      BY <2>6 DEF SwitchCurrent, RecoverSwitch
    <3>2. maintenance /\ mem.op \in Rows /\ (unit.pc = "r_switch" => mem.old \in releases)
      BY <3>1, Held DEF Where, Moving, Restoring, PutBack, Elsewhere
    <3>3. Target \in Versions /\ (unit.pc = "r_switch" => mem.old \in Versions)
      BY <3>2 DEF SystemdInv, RequestsOK, HostOK, Target, Intent
    <3>4. UNCHANGED current \/ current' \in Versions
      BY <2>6, <3>3 DEF SwitchCurrent, RecoverSwitch
    <3> QED BY <3>1, <3>2, <3>4 DEF Replaced
  <2>7. CASE Stop \/ RecoverStop
    <3>1. CASE OwnerStep("stop", mem, "stop")
      BY <3>1 DEF OwnerStep, Here, hostVars, Replaced
    <3>2. ASSUME NEW next, StopServices("stop", next) \/ StopServices("r_stop", next)
          PROVE  Replaced
      <4>1. unit.pc \in {"stop", "r_stop"} /\ UNCHANGED <<maintenance, current>> /\ services'.api = 0
        BY <3>2 DEF StopServices, Stopped
      <4>2. maintenance
        BY <4>1, Held DEF Where, Moving, Restoring, Elsewhere
      <4> QED BY <4>1, <4>2 DEF Replaced
    <3> QED BY <2>7, <3>1, <3>2 DEF Stop, RecoverStop
  <2>8. CASE StartServices \/ RecoverStart
    <3>1. CASE OwnerStep("start", mem, "start")
      BY <3>1 DEF OwnerStep, Here, hostVars, Replaced
    <3>2. ASSUME NEW at, NEW next, NEW name \in {"api", "consumer"}, StartService(at, name, next)
          PROVE  Replaced
      BY <3>2 DEF StartService, Replaced, SystemdInv, HostOK
    <3> QED BY <2>8, <3>1, <3>2 DEF StartServices, RecoverStart
  <2> QED BY <1>2, <2>1, <2>2, <2>3, <2>4, <2>5, <2>6, <2>7, <2>8 DEF UnitStep
<1>3. CASE OperatorRetry
  BY <1>3 DEF OperatorRetry, ClaimPending, Here, hostVars, Replaced
<1>4. CASE UnitCrash
  BY <1>4 DEF UnitCrash, Here, hostVars, Replaced
<1>5. CASE CommandFails \/ Reboot \/ (\E name \in {"api", "consumer"} : ServiceRestart(name))
  BY <1>5 DEF CommandFails, Reboot, Stopped, ServiceRestart, Replaced, SystemdInv, HostOK
<1> QED BY <1>1, <1>2, <1>3, <1>4, <1>5, Zenon DEF SystemdNext

\* docker_updater.py stops and replaces the container, and moves the alias, behind it only.
LEMMA DockerReplaces ==
    ASSUME UpdateAssumption, DockerInv, DockerNext
    PROVE  Replaced
<1>1. CASE (ApiRequest \/ ApiStep) /\ UNCHANGED dockerVars
  BY <1>1, ApiKeeps DEF DockerInv, ApiMoves, Replaced
<1>2. CASE \/ Project \/ RefreshCapability \/ AdmitRequest \/ Tick \/ Failed \/ OpenFailed
           \/ Queued \/ VerifyArtifacts \/ BuildImage \/ PreflightImage \/ PrepareStop
           \/ Recover \/ RecoveryFailed \/ EngineStart \/ EngineCrash \/ Verify \/ Restored
  <2>1. UNCHANGED <<current, services>>
    BY <1>2 DEF Project, RefreshCapability, AdmitRequest, Tick, Failed, OpenFailed, Queued,
         VerifyArtifacts, BuildImage, PreflightImage, PrepareStop, Recover, RecoveryFailed, EngineStart,
         EngineCrash, Verify, Restored, Step, Note, Marker, Enter, hostVars
  <2> QED BY <2>1 DEF Replaced
<1>3. CASE StopContainer \/ Switch \/ Restore
  <2>1. CASE Enter("stopped", rec, "switching", "idle") \/ Enter("upped", rec, "verifying", "idle")
             \/ Marker("reclose", TRUE, "restore")
             \/ (At("restore_up") /\ UNCHANGED hostVars)
    BY <2>1 DEF Enter, Marker, hostVars, Replaced
  <2>2. CASE At("stopping") /\ Stopped(0) /\ UNCHANGED <<current, maintenance>>
    <3>1. maintenance
      BY <2>2, Engaged DEF At, Written, EngineAt, PhaseOf, RecordOK
    <3> QED BY <2>2, <3>1 DEF Replaced, Stopped
  <2>3. CASE \/ Tag("switching", New, [rec EXCEPT !.upStarted = TRUE], "up")
             \/ Tag("restore", rec.old, [rec EXCEPT !.restoring = TRUE], "restore_up")
    <3>1. engine.pc \in {"switching", "restore"} /\ UNCHANGED <<maintenance, services>>
          /\ (engine.pc = "switching" => current' = New) /\ (engine.pc = "restore" => current' = rec.old)
      BY <2>3 DEF Tag, At
    <3>2. /\ maintenance /\ op \in Rows /\ (engine.pc = "restore" => rec.old \in Versions)
      BY <3>1, Engaged DEF Written, EngineAt, PhaseOf, RecordOK, Restorable, Critical
    <3>3. New \in Versions
      BY <3>2 DEF DockerInv, RequestsOK, New
    <3> QED BY <3>1, <3>2, <3>3 DEF Replaced
  <2>4. CASE ComposeUp("up", "upped") \/ ComposeUp("restore_up", "restored")
    BY <2>4 DEF ComposeUp, Stopped, Replaced
  <2> QED BY <1>3, <2>1, <2>2, <2>3, <2>4 DEF StopContainer, Switch, Restore
<1>4. CASE EngineFails
  <2>1. UNCHANGED <<maintenance, current>>
    BY <1>4 DEF EngineFails
  <2>2. CASE UNCHANGED services
    BY <2>1, <2>2 DEF Replaced
  <2>3. CASE engine.pc \in {"up", "restore_up"} /\ Stopped(0)
    <3>1. maintenance
      BY <2>3, Engaged DEF Written, EngineAt, PhaseOf, RecordOK, Restorable
    <3> QED BY <2>1, <2>3, <3>1 DEF Replaced, Stopped
  <2> QED BY <1>4, <2>2, <2>3 DEF EngineFails
<1>5. CASE DockerReboot
  BY <1>5 DEF DockerReboot, Stopped, Replaced
<1> QED BY <1>1, <1>2, <1>3, <1>4, <1>5, Zenon DEF DockerNext, EngineStep


\* launcher.sh moves the link only while no service runs, and starts what it resolves to.
LEMMA LauncherReplaces ==
    ASSUME UpdateAssumption, LauncherInv, LauncherNext
    PROVE  \/ UNCHANGED <<current, services>>
           \/ UNCHANGED current /\ services'.api \in {0, current}
           \/ UNCHANGED services /\ services.api = 0 /\ current' \in Versions
<1>1. CASE Decide \/ AskLauncher \/ ReadResult \/ ApiWork
  <2>1. ApiRequest \/ ApiStep
    BY <1>1, Zenon DEF Decide, AskLauncher, ReadResult, ApiWork, ApiRequest, ApiStep
  <2> QED BY <2>1, ApiKeeps DEF LauncherInv, ApiMoves
<1>2. ASSUME NEW o \in Ops, NEW a \in {"apply", "rollback"}, NEW v \in Versions, Stage(o, a, v)
      PROVE  UNCHANGED <<current, services>>
  BY <1>2 DEF Stage
<1>3. ASSUME NEW v \in Versions, LoseRelease(v)
      PROVE  UNCHANGED <<current, services>>
  BY <1>3 DEF LoseRelease
<1>4. CASE \/ TakeRequest \/ VerifySwitched \/ VerifyRestored \/ WriteResult \/ RemoveRequest
           \/ RemoveState \/ VerifyStart
  <2>1. UNCHANGED untouched
    BY <1>4 DEF TakeRequest, VerifySwitched, VerifyRestored, WriteResult, RemoveRequest, RemoveState, VerifyStart
  <2> QED BY <2>1 DEF untouched
<1>5. CASE \/ StopChildren \/ AwaitPort \/ StartSwitched \/ StopUnhealthy \/ RestartPrevious \/ Exit
           \/ LauncherDies \/ StartAtBoot
  <2>1. \/ (Stopped(0) /\ UNCHANGED current) \/ StartChildren \/ UNCHANGED untouched
    BY <1>5 DEF StopChildren, AwaitPort, StartSwitched, StopUnhealthy, RestartPrevious, Exit, LauncherDies,
         StartAtBoot, StopAll
  <2> QED BY <2>1 DEF StartChildren, Stopped, untouched
<1>6. CASE SwitchTo \/ RestorePrevious \/ StartLauncher
  <2>1. keeper.pc \in {"switch", "relink", "off"}
    BY <1>6 DEF SwitchTo, RestorePrevious, StartLauncher
  <2>2. services.api = 0
    BY <2>1 DEF LauncherInv, StoreOK
  <2>3. UNCHANGED <<current, services>> \/ \E link : PointTo(link)
    BY <1>6 DEF SwitchTo, RestorePrevious, StartLauncher, untouched
  <2>4. ASSUME NEW link, PointTo(link)
        PROVE  UNCHANGED services /\ current' \in Versions
    BY <2>4, RootIsVersion DEF PointTo
  <2> QED BY <2>2, <2>3, <2>4
<1> QED BY <1>1, <1>2, <1>3, <1>4, <1>5, <1>6, Zenon DEF LauncherNext, KeeperStep

\* Whichever executor a host has, code is replaced only behind the closed gate, which opens
\* only in front of the installed version: updater.py, docker_updater.py and launcher.sh
\* implement Upgrade.
THEOREM UpgradeIsAlwaysSafe == Spec => UpgradeIsSafe
<1>1. Init => Upgraded!Init
  <2>1. Init => FirstVersion \in Versions /\ FirstVersion # 0
    BY UpdateAssumption
  <2> QED BY <2>1 DEF Init, ApiInit, Upgraded!Init
<1>2. ASSUME UpdateInv, UpdateInv', [Next]_pvars
      PROVE  [Upgraded!Next]_(Upgraded!uvars)
  <2> USE DEF Upgraded!Next, Upgraded!uvars, Upgraded!Close, Upgraded!Stop, Upgraded!Install,
              Upgraded!Start, Upgraded!Open, Upgraded!Halt, Upgraded!Resume
  <2>1. UNCHANGED deployment
    BY <1>2 DEF Next, pvars
  <2>2. ASSUME deployment # "launcher", Replaced, ~maintenance' => services'.api = current'
        PROVE  [Upgraded!Next]_(Upgraded!uvars)
    <3>1. CASE UNCHANGED <<current, services>>
      BY <2>1, <2>2, <3>1
    <3>2. CASE /\ UNCHANGED <<maintenance, current>>
               /\ services'.api \in {services.api, current} \/ (services'.api = 0 /\ maintenance)
      BY <2>1, <2>2, <3>2
    <3>3. CASE UNCHANGED <<maintenance, services>> /\ maintenance /\ current' \in Versions
      BY <2>1, <2>2, <3>3
    <3> QED BY <2>2, <3>1, <3>2, <3>3 DEF Replaced
  <2>3. CASE deployment = "systemd" /\ SystemdNext
    <3>1. SystemdInv /\ SystemdInv'
      BY <1>2, <2>1, <2>3 DEF UpdateInv
    <3>2. ~maintenance' => services'.api = current'
      BY <3>1 DEF SystemdInv, MarkerOK, Serving
    <3> QED BY <2>2, <2>3, <3>1, <3>2, SystemdReplaces, UpdateAssumption
  <2>4. CASE deployment = "docker" /\ DockerNext
    <3>1. DockerInv /\ DockerInv'
      BY <1>2, <2>1, <2>4 DEF UpdateInv
    <3>2. ~maintenance' => services'.api = current'
      BY <3>1 DEF DockerInv, OneContainer
    <3> QED BY <2>2, <2>4, <3>1, <3>2, DockerReplaces, UpdateAssumption
  <2>5. CASE deployment = "launcher" /\ LauncherNext
    <3>1. LauncherInv /\ LauncherInv' /\ 0 \notin Versions
      BY <1>2, <2>1, <2>5, OpIsNotNoOp, UpdateAssumption DEF UpdateInv
    <3>2. ~maintenance /\ ~maintenance' /\ current # 0 /\ services.api \in Versions \cup {0}
      BY <3>1 DEF LauncherInv
    <3>3. CASE UNCHANGED <<current, services>>
      BY <2>1, <2>5, <3>2, <3>3
    <3>4. CASE UNCHANGED current /\ services'.api \in {0, current}
      BY <2>1, <2>5, <3>2, <3>4
    <3>5. CASE UNCHANGED services /\ services.api = 0 /\ current' \in Versions
      BY <2>1, <2>5, <3>2, <3>5
    <3> QED BY <2>5, <3>1, <3>3, <3>4, <3>5, LauncherReplaces, UpdateAssumption
  <2>6. CASE deployment = "manager" /\ UNCHANGED updateVars
    <3>1. UNCHANGED <<current, services, maintenance>>
      BY <2>6 DEF updateVars, hostVars
    <3> QED BY <2>1, <3>1
  <2>7. CASE UNCHANGED pvars
    <3>1. UNCHANGED <<current, services, maintenance>>
      BY <2>7 DEF pvars, updateVars, hostVars
    <3> QED BY <2>1, <3>1
  <2> QED BY <1>2, <2>3, <2>4, <2>5, <2>6, <2>7 DEF Next
<1>3. Spec => []UpdateInv
  BY UpdateInvariant
<1> QED BY <1>1, <1>2, <1>3, PTL DEF Spec, UpgradeIsSafe, Upgraded!Spec

-----------------------------------------------------------------------------
(* The installer.  Its invariant says, for every step of the installer,    *)
(* what is true of the host there: what the journal remembers is enough to *)
(* give back the host that was found (Undoable), and so is what the        *)
(* running installer remembers.  It says nothing once a rollback was       *)
(* broken off after it had reopened the gate.                              *)

SiteFields == {"base", "store", "manager", "record", "units", "api", "path", "enabled", "gate",
               "made", "data", "busy"}
FoundFields == {"base", "manager", "store", "units", "api", "path", "enabled", "gate"}
UndoFields == {"stopped", "changed", "created", "backup", "dropped"}
CrewFields == {"pc", "kind", "target", "undo", "found", "locked", "again"}
PriorFields == {"site", "goal", "overtaken", "halted", "reopened"}

IsSite(s) ==
    /\ DOMAIN s = SiteFields
    /\ s.base \in 0..2 /\ s.store \in Nat /\ s.data \in Nat
    /\ s.gate \in {"absent", "open", "closed"}
    /\ s.busy \in BOOLEAN /\ s.path \in BOOLEAN /\ s.enabled \in BOOLEAN
    /\ s.busy => s.path

IsUndo(u) ==
    /\ DOMAIN u = UndoFields
    /\ u.stopped \in BOOLEAN /\ u.changed \in BOOLEAN /\ u.dropped \in BOOLEAN

InstallerFits ==
    /\ IsSite(site)
    /\ DOMAIN deed = {"phase", "undo", "found"} /\ DOMAIN crew = CrewFields
    /\ prior.overtaken \in BOOLEAN /\ prior.halted \in BOOLEAN
    /\ DOMAIN prior.site = SiteFields /\ prior.goal \in 0..2
    /\ DOMAIN luck = {"mishaps", "writes", "installs", "updates"} /\ luck.writes \in Nat
    /\ crew.locked \in BOOLEAN /\ (crew.locked => ~site.busy)
    /\ site.data + luck.writes = MaxWrites

Up(s) == s.api = IF s.enabled THEN Runs(s) ELSE 0

\* A host nobody works on.
Rests(s) ==
    /\ Up(s)
    /\ s.gate = "closed" => s.busy
    /\ s.record # 0 => s.enabled
    /\ s.units = "none" => ~s.path /\ ~s.enabled
    /\ s.base = Asked => "release" \in s.made

\* What an attempt found is what was there when it was classified.
FoundOK(f, p) ==
    /\ DOMAIN f = FoundFields
    /\ f.store \in Nat /\ f.path \in BOOLEAN /\ f.enabled \in BOOLEAN /\ f.base \in 0..2
    /\ f.gate \in {"absent", "open"}
    /\ f.base = p.site.base /\ f.manager = p.site.manager /\ f.units = p.site.units
    /\ f.enabled = p.site.enabled /\ f.path = p.site.path /\ f.api = f.enabled
    /\ f.units = "none" => ~f.path /\ ~f.enabled
    /\ f.base = Asked => "release" \in p.site.made
    /\ ~p.overtaken => f.store = p.site.store

Halting(u) == u.stopped \/ u.changed

\* Undoing u gives back, from s, the host that was found as f.
Undoable(s, u, f, p) ==
    /\ IsUndo(u)
    /\ ~u.changed => s.base = f.base /\ s.units = f.units /\ ~u.dropped
    /\ ~u.dropped /\ ~p.overtaken => s.store = f.store
    /\ s.made \ u.created = p.site.made
    /\ u.backup # {} => u.backup = {s.data} /\ s.gate = "closed" /\ ~s.path
    /\ ~Halting(u) => /\ Up(s) /\ s.enabled = f.enabled
                      /\ s.path = f.path \/ (p.halted /\ ~s.path)

\* Before the lock this attempt has changed nothing.
Checks == {"preflight", "manager", "cached", "index", "release", "extract", "prepare", "environment",
           "identity", "admit", "read"}

Untried ==
    LET p == prior.site
    IN  /\ Rests(site) /\ ~prior.halted /\ crew.undo = Nothing /\ ~crew.locked
        /\ site.base = p.base /\ site.manager = p.manager /\ site.units = p.units
        /\ site.enabled = p.enabled /\ site.path = p.path /\ site.made = p.made
        /\ site.record = p.record
        /\ ~prior.overtaken => site.store = p.store

\* What the attempt is after.
Aims ==
    /\ crew.target = prior.goal /\ crew.target \in {prior.site.base, Asked}
    /\ crew.kind = "fresh" => prior.site.units = "none"

\* The steps of the transaction, by what each of them can count on.
Unmoved == {"gate", "stop"}
Copying == {"app", "backup", "plan"}
Placing == {"publish", "switch"}
Linked == {"initialise", "record"}
Answered == {"probe", "open", "done"}
Recorded == {"start", "health"} \cup Answered
Commit == Unmoved \cup Copying \cup Placing \cup Linked \cup Recorded

\* What the files are that publish must create.
Wanted ==
    ({"env", "key", "manager"} \cup (IF crew.found.base < crew.target THEN {"release"} ELSE {}))
        \ prior.site.made

Transacting(pc) ==
    LET f == crew.found
        u == crew.undo
        d == deed.undo
    IN  /\ deed.found = f /\ FoundOK(f, prior) /\ Aims
        /\ ~site.busy /\ (crew.locked \/ pc = "record")
        /\ pc # "done" => Undoable(site, d, f, prior) /\ Undoable(site, u, f, prior)
        /\ pc \notin {"gate", "done"} => site.gate = "closed"
        /\ pc = "done" => site.gate = "open"
        /\ pc \in Unmoved => d = Nothing /\ u = Nothing /\ ~prior.halted /\ site.path = f.path
        /\ pc \notin Unmoved => ~site.path /\ (d.stopped \/ f.units = "none")
        /\ pc \in Unmoved \cup Copying \cup Placing => ~d.changed /\ ~u.changed
        /\ pc \in Unmoved \cup Copying => d.created = {}
        /\ pc \in Unmoved \cup Copying \cup {"publish"} => u.created = {}
        /\ pc = "app" => d.stopped /\ d.backup = {} /\ u.backup = {}
        /\ pc = "publish" => d.created = Wanted
        /\ pc \in {"switch"} \cup Linked \cup Recorded =>
              /\ u.created = d.created
              /\ {"env", "key", "manager"} \subseteq site.made
              /\ crew.target = Asked => "release" \in site.made
        /\ pc \in Linked \cup Recorded =>
              /\ d.changed /\ u.changed
              /\ site.base = crew.target /\ site.manager = 2 /\ site.units = "new"
        /\ pc \in Recorded => site.record = 2
        /\ pc \in Recorded \ {"start"} => site.enabled /\ Up(site)
        /\ pc \in Answered => Installed(site)
        /\ deed.phase = "services_started" <=> pc \in Answered

\* An attempt that was broken off: kept once the gate is open, else undone.
KeepsIt == deed.phase = "services_started" /\ site.gate # "closed"

Journalled ==
    /\ FoundOK(deed.found, prior)
    /\ deed.phase = "services_started" => ~site.path
    /\ KeepsIt => site.gate = "open" /\ Installed(site) /\ Up(site)
    /\ ~KeepsIt => Undoable(site, deed.undo, deed.found, prior)

\* The rollback: until the gate is reopened it can be done again from the journal.
Undoing == {"undo", "restore", "relink", "revive", "purge"}

Backing(pc) ==
    LET f == crew.found
        u == crew.undo
        p == prior.site
    IN  /\ FoundOK(f, prior) /\ IsUndo(u)
        /\ deed.phase = "none" => u = Nothing /\ prior.overtaken
        /\ deed.phase # "none" =>
              deed.found = f /\ (pc = "purge" \/ crew.locked \/ (~site.path /\ ~site.busy))
        /\ pc \in {"undo", "restore"} =>
              /\ Undoable(site, u, f, prior)
              /\ deed.phase = "none" => Rests(site)
              /\ deed.phase # "none" => /\ Undoable(site, deed.undo, f, prior)
                                        /\ Halting(u) => Halting(deed.undo) \/ f.units = "none"
              /\ deed.phase = "services_started" => site.gate = "closed" /\ ~site.path
        /\ ~u.changed => site.base = f.base /\ site.units = f.units
        /\ site.made \ u.created = p.made
        /\ pc \in {"relink", "revive", "purge"} => (site.gate = "closed" => site.busy)
        /\ pc # "undo" /\ ~prior.overtaken => site.store = f.store
        /\ pc \in {"restore", "relink", "revive"} /\ Halting(u) => site.api = 0 /\ ~site.path
        /\ pc = "purge" \/ ~Halting(u) => /\ Up(site) /\ site.enabled = f.enabled
                                          /\ site.path = f.path \/ (prior.halted /\ ~site.path)
        /\ pc \in {"revive", "purge"} => /\ site.record = 0
                                         /\ site.base = f.base /\ site.manager = f.manager
                                         /\ site.units = f.units

\* Nothing is going on: the last attempt left all of its host, or none.
AllOrNone == Rests(site) /\ (~prior.overtaken => Installed(site) \/ Unchanged(site))

\* Where the installer is, by what is true there.
Quiet(pc) == pc \in {"idle", "classify"} /\ deed.phase = "none" /\ ~crew.locked /\ AllOrNone

Trying(pc) ==
    /\ pc \in Checks \cup {"lock"} /\ deed.phase = "none" /\ Untried /\ Aims
    /\ pc = "lock" => FoundOK(crew.found, prior) /\ (site.busy => prior.overtaken)

Committing(pc) == pc \in Commit /\ deed.phase # "none" /\ Transacting(pc)

BrokenOff(pc) ==
    pc \in {"idle", "recover", "resume"} /\ deed.phase # "none" /\ ~crew.locked /\ Journalled

GivingBack(pc) == pc \in Undoing /\ Backing(pc)

InstallerAt(pc) == Quiet(pc) \/ Trying(pc) \/ Committing(pc) \/ BrokenOff(pc) \/ GivingBack(pc)

Undisturbed == InstallerFits /\ InstallerAt(crew.pc)

InstallerInv ==
    /\ DOMAIN prior = PriorFields
    /\ prior.reopened \/ Undisturbed


\* A host that differs from another in the fields fs only.
Agree(t, s, fs) ==
    /\ DOMAIN t = SiteFields
    /\ "base" \notin fs => t.base = s.base
    /\ "store" \notin fs => t.store = s.store
    /\ "manager" \notin fs => t.manager = s.manager
    /\ "record" \notin fs => t.record = s.record
    /\ "units" \notin fs => t.units = s.units
    /\ "api" \notin fs => t.api = s.api
    /\ "path" \notin fs => t.path = s.path
    /\ "enabled" \notin fs => t.enabled = s.enabled
    /\ "gate" \notin fs => t.gate = s.gate
    /\ "made" \notin fs => t.made = s.made
    /\ "data" \notin fs => t.data = s.data
    /\ "busy" \notin fs => t.busy = s.busy

\* The fields of a crew that is at pc with what it remembers, and nothing else changed.
CrewIs(c, pc, undo, found, locked) ==
    /\ DOMAIN c = CrewFields
    /\ c.pc = pc /\ c.undo = undo /\ c.found = found /\ c.locked = locked
    /\ c.kind = crew.kind /\ c.target = crew.target

\* What an assignment to a few fields of the running installer changes, and what it keeps.
LEMMA SetCrew ==
    ASSUME DOMAIN crew = CrewFields, NEW pc, NEW undo, NEW found, NEW locked
    PROVE  /\ CrewIs([crew EXCEPT !.pc = pc], pc, crew.undo, crew.found, crew.locked)
           /\ CrewIs([crew EXCEPT !.pc = pc, !.undo = undo], pc, undo, crew.found, crew.locked)
           /\ CrewIs([crew EXCEPT !.pc = pc, !.undo = undo, !.locked = locked], pc, undo, crew.found, locked)
           /\ CrewIs([crew EXCEPT !.pc = pc, !.locked = locked], pc, crew.undo, crew.found, locked)
           /\ CrewIs([crew EXCEPT !.pc = pc, !.found = found], pc, crew.undo, found, crew.locked)
           /\ CrewIs([Recalled EXCEPT !.pc = "undo", !.locked = TRUE, !.again = TRUE],
                     "undo", deed.undo, deed.found, TRUE)
BY DEF CrewIs, CrewFields, Recalled

\* An installer that is not running remembers nothing.
LEMMA OffShape ==
    ASSUME NEW pc
    PROVE  /\ DOMAIN Off = CrewFields /\ Off.pc = "idle" /\ Off.locked = FALSE
           /\ LET c == [Off EXCEPT !.pc = pc]
              IN  DOMAIN c = CrewFields /\ c.pc = pc /\ c.locked = FALSE
BY DEF Off, CrewFields

\* Whoever works on the host without being the installer leaves deed, crew and most of the
\* host alone: Fits is about few fields.
LEMMA FitsKeeps ==
    ASSUME InstallerFits, DOMAIN prior = PriorFields,
           IsSite(site'), UNCHANGED deed,
           DOMAIN crew' = CrewFields, crew'.locked \in BOOLEAN, crew'.locked => ~site'.busy,
           prior'.overtaken \in BOOLEAN, prior'.halted \in BOOLEAN,
           DOMAIN prior'.site = SiteFields, prior'.goal \in 0..2,
           DOMAIN luck' = DOMAIN luck, luck'.writes \in Nat,
           site'.data + luck'.writes = site.data + luck.writes
    PROVE  InstallerFits'
BY SMT DEF InstallerFits

\* What the installer remembers can be undone in spite of a business write: where there
\* is a backup, the gate is closed.
LEMMA WriteUndoable ==
    ASSUME NEW s, NEW t, NEW u, NEW f, NEW p, Agree(t, s, {"data"}), s.gate # "closed", Undoable(s, u, f, p)
    PROVE  Undoable(t, u, f, p)
BY SMT DEF Agree, Undoable, Up, Runs, Halting

\* Business traffic: a write is counted, and there is none behind the closed gate, where a
\* backup must stay equal to the data.
LEMMA BusinessKeeps ==
    ASSUME DOMAIN prior = PriorFields, Undisturbed, BusinessWrite
    PROVE  Undisturbed'
<1> DEFINE t == [site EXCEPT !.data = @ + 1]
<1>1. InstallerFits /\ IsSite(site) /\ InstallerAt(crew.pc) BY DEF Undisturbed, InstallerFits
<1>2. /\ site' = t /\ deed' = deed /\ crew' = crew /\ prior' = prior
      /\ site.gate # "closed"
   BY DEF BusinessWrite
<1>3. DOMAIN luck' = DOMAIN luck /\ luck'.writes = luck.writes - 1 /\ luck.writes > 0
   BY <1>1 DEF BusinessWrite, InstallerFits
<1>4. Agree(site', site, {"data"}) /\ site'.data = site.data + 1
  <2>1. Agree(t, site, {"data"}) /\ t.data = site.data + 1 BY <1>1 DEF IsSite, Agree, SiteFields
  <2>2. QED BY <2>1, <1>2
<1> HIDE DEF t
<1>5. IsSite(site') BY <1>1, <1>4 DEF IsSite, Agree
<1>6. Up(site) <=> Up(site') BY <1>4 DEF Up, Runs, Agree
<1>7. Rests(site) <=> Rests(site') BY <1>4, <1>6 DEF Rests, Agree
<1>8. Installed(site) <=> Installed(site)' BY <1>2, <1>4 DEF Installed, Runs, Agree
<1>9. Unchanged(site) <=> Unchanged(site)' BY <1>2, <1>4 DEF Unchanged, Agree
<1>10. InstallerFits'
  <2>1. crew'.locked \in BOOLEAN /\ (crew'.locked => ~site'.busy)
     BY <1>1, <1>2, <1>4 DEF InstallerFits, Agree
  <2>2. luck'.writes \in Nat /\ site'.data + luck'.writes = site.data + luck.writes
     BY <1>1, <1>2, <1>3, <1>4 DEF InstallerFits, IsSite
  <2>3. QED BY <1>1, <1>2, <1>3, <1>5, <2>1, <2>2, FitsKeeps DEF InstallerFits
<1>11. InstallerAt(crew.pc)'
  <2>1. CASE Quiet(crew.pc)
     BY <2>1, <1>2, <1>7, <1>8, <1>9 DEF InstallerAt, Quiet, AllOrNone
  <2>2. CASE Trying(crew.pc)
     BY <2>2, <1>2, <1>4, <1>7 DEF InstallerAt, Trying, Untried, Aims, Agree
  <2>3. CASE Committing(crew.pc)
    <3>1. Transacting(crew.pc)' 
       BY <2>3, <1>2, <1>4, <1>6, <1>8, WriteUndoable DEF Committing, Transacting, Aims, Agree, Wanted
    <3>2. QED BY <2>3, <1>2, <3>1 DEF InstallerAt, Committing
  <2>4. CASE BrokenOff(crew.pc)
     BY <2>4, <1>2, <1>4, <1>6, <1>8, WriteUndoable DEF InstallerAt, BrokenOff, Journalled, KeepsIt, Agree
  <2>5. CASE GivingBack(crew.pc)
    <3>1. Backing(crew.pc)' 
       BY <2>5, <1>2, <1>4, <1>6, <1>7, WriteUndoable DEF GivingBack, Backing, Agree
    <3>2. QED BY <2>5, <1>2, <3>1 DEF InstallerAt, GivingBack
  <2>6. QED BY <1>1, <2>1, <2>2, <2>3, <2>4, <2>5 DEF InstallerAt
<1>12. QED BY <1>2, <1>10, <1>11 DEF Undisturbed

\* Where the gate is not closed or the updater is on, there is no backup to lose, so that
\* another program may go to work on the gate.
LEMMA GateUndoable ==
    ASSUME NEW s, NEW t, NEW u, NEW f, NEW p, Agree(t, s, {"gate", "busy"}), s.path, Undoable(s, u, f, p)
    PROVE  Undoable(t, u, f, p)
<1>1. /\ t.base = s.base /\ t.store = s.store /\ t.units = s.units /\ t.api = s.api
      /\ t.enabled = s.enabled /\ t.made = s.made /\ t.path = s.path
   BY DEF Agree
<1>2. u.backup = {} BY DEF Undoable
<1>3. Up(s) <=> Up(t) BY <1>1 DEF Up, Runs
<1>4. QED BY <1>1, <1>2, <1>3, Zenon DEF Undoable, Halting

\* The updater of the host runs or ends: never under the installer's lock, and an attempt it
\* gets in the way of is marked overtaken.
LEMMA UpdaterKeeps ==
    ASSUME DOMAIN prior = PriorFields, Undisturbed, UpdaterRuns
    PROVE  Undisturbed'
<1>1. InstallerFits /\ IsSite(site) /\ InstallerAt(crew.pc) BY DEF Undisturbed, InstallerFits
<1>2. deed' = deed /\ crew' = crew BY DEF UpdaterRuns
<1>3. /\ DOMAIN prior' = PriorFields /\ prior'.site = prior.site /\ prior'.goal = prior.goal
      /\ prior'.halted = prior.halted
      /\ prior'.overtaken = (prior.overtaken \/ Amid)
   BY DEF UpdaterRuns, PriorFields
<1>4. DOMAIN luck' = DOMAIN luck /\ luck'.writes = luck.writes
   BY <1>1 DEF UpdaterRuns, InstallerFits
<1>5. /\ Agree(site', site, {"gate", "busy"}) /\ site.path
      /\ \/ ~site.busy /\ ~crew.locked /\ site'.busy = TRUE /\ site'.gate = "closed"
         \/ site.busy /\ site'.busy = FALSE /\ site'.gate = "open"
   BY <1>1 DEF UpdaterRuns, IsSite, SiteFields, Agree
<1>6. IsSite(site') BY <1>1, <1>5 DEF IsSite, Agree
<1>7. Up(site) <=> Up(site') BY <1>5 DEF Up, Runs, Agree
<1>8. Rests(site) => Rests(site') BY <1>5, <1>7 DEF Rests, Agree
<1>9. Installed(site) <=> Installed(site)' BY <1>3, <1>5 DEF Installed, Runs, Agree
<1>10. Unchanged(site) <=> Unchanged(site)' BY <1>3, <1>5, ZenonT(40) DEF Unchanged, Agree
<1>11. \A f : FoundOK(f, prior) => FoundOK(f, prior') BY <1>3 DEF FoundOK
<1>12. \A u, f : Undoable(site, u, f, prior) => Undoable(site', u, f, prior')
  <2> SUFFICES ASSUME NEW u, NEW f, Undoable(site, u, f, prior)
               PROVE  Undoable(site', u, f, prior')
     OBVIOUS
  <2>1. Undoable(site', u, f, prior) BY <1>5, GateUndoable
  <2>2. QED BY <2>1, <1>3 DEF Undoable
<1>13. InstallerFits'
  <2>1. crew'.locked \in BOOLEAN /\ (crew'.locked => ~site'.busy)
     BY <1>1, <1>2, <1>5 DEF InstallerFits, Agree
  <2>2. prior'.overtaken \in BOOLEAN BY <1>3 DEF Amid
  <2>3. luck'.writes \in Nat /\ site'.data + luck'.writes = site.data + luck.writes
     BY <1>1, <1>4, <1>5 DEF InstallerFits, IsSite, Agree
  <2>4. QED BY <1>1, <1>2, <1>3, <1>4, <1>6, <2>1, <2>2, <2>3, FitsKeeps DEF InstallerFits
<1>14. InstallerAt(crew.pc)'
  <2>1. CASE Quiet(crew.pc)
     BY <2>1, <1>2, <1>3, <1>8, <1>9, <1>10 DEF InstallerAt, Quiet, AllOrNone
  <2>2. CASE Trying(crew.pc)
    <3>1. prior'.overtaken BY <2>2, <1>3 DEF Trying, Checks, Amid
    <3>2. QED BY <2>2, <3>1, <1>2, <1>3, <1>5, <1>8, <1>11, ZenonT(40) DEF InstallerAt, Trying, Untried, Aims, Agree
  <2>3. CASE Committing(crew.pc)
     BY <2>3, <1>5 DEF Committing, Transacting, Unmoved
  <2>4. CASE BrokenOff(crew.pc)
    <3>1. deed.phase # "services_started" BY <2>4, <1>5 DEF BrokenOff, Journalled
    <3>2. QED BY <2>4, <3>1, <1>2, <1>11, <1>12 DEF InstallerAt, BrokenOff, Journalled, KeepsIt
  <2>5. CASE GivingBack(crew.pc)
    <3>1. prior'.overtaken BY <2>5, <1>3 DEF GivingBack, Undoing, Amid
    <3>2. deed.phase # "none" => crew.pc = "purge"
       BY <2>5, <1>1, <1>5 DEF GivingBack, Backing, InstallerFits
    <3>3. Backing(crew.pc)'
       BY <2>5, <3>1, <3>2, <1>2, <1>3, <1>5, <1>7, <1>8, <1>11, <1>12, ZenonT(40) DEF GivingBack, Backing, Agree
    <3>4. QED BY <2>5, <1>2, <3>3 DEF InstallerAt, GivingBack
  <2>6. QED BY <1>1, <2>1, <2>2, <2>3, <2>4, <2>5 DEF InstallerAt
<1>15. QED BY <1>13, <1>14 DEF Undisturbed

\* Neither does the launcher matter, which works only with the API and the gate open: the
\* store it switches is then nobody's to give back.
LEMMA StoreUndoable ==
    ASSUME NEW s, NEW t, NEW u, NEW f, NEW p, NEW q, Agree(t, s, {"store", "api"}), s.gate # "closed",
           s.api # 0, t.store # 0, t.api = t.store, Undoable(s, u, f, p),
           q.overtaken, q.site = p.site, q.halted = p.halted
    PROVE  Undoable(t, u, f, q)
<1>1. /\ t.base = s.base /\ t.units = s.units
      /\ t.enabled = s.enabled /\ t.made = s.made /\ t.path = s.path
   BY DEF Agree
<1>2. u.backup = {} BY Zenon DEF Undoable
<1>3. Up(s) => Up(t) BY <1>1 DEF Up, Runs
<1>4. QED BY <1>1, <1>2, <1>3, Zenon DEF Undoable, Halting

\* A file update through the launcher moves the store: behind the closed gate there is none.
LEMMA FileKeeps ==
    ASSUME DOMAIN prior = PriorFields, Undisturbed, FileUpdate
    PROVE  Undisturbed'
<1>1. InstallerFits /\ IsSite(site) /\ InstallerAt(crew.pc) BY DEF Undisturbed, InstallerFits
<1>2. deed' = deed /\ crew' = crew BY DEF FileUpdate
<1>3. /\ DOMAIN prior' = PriorFields /\ prior'.goal = prior.goal /\ prior'.halted = prior.halted
      /\ Amid => prior'.site = prior.site /\ prior'.overtaken = TRUE
      /\ ~Amid => /\ prior'.overtaken = prior.overtaken
                  /\ Agree(prior'.site, prior.site, {"store"}) /\ prior'.site.store = 3
   <2>1. DOMAIN prior.site = SiteFields BY <1>1 DEF InstallerFits
   <2>2. CASE Amid BY <2>1, <2>2 DEF FileUpdate, PriorFields
   <2>3. CASE ~Amid BY <2>1, <2>3 DEF FileUpdate, PriorFields, Agree, SiteFields
   <2>4. QED BY <2>2, <2>3
<1>4. DOMAIN luck' = DOMAIN luck /\ luck'.writes = luck.writes
   BY <1>1 DEF FileUpdate, InstallerFits
<1>5. /\ Agree(site', site, {"store", "api"}) /\ site'.store = 3 /\ site'.api = 3
      /\ site.gate # "closed" /\ site.api # 0
   BY <1>1 DEF FileUpdate, IsSite, SiteFields, Agree
<1>6. IsSite(site') BY <1>1, <1>5 DEF IsSite, Agree
<1>7. Up(site) => Up(site') /\ site.enabled BY <1>5 DEF Up, Runs, Agree
<1>8. Rests(site) => Rests(site') BY <1>5, <1>7 DEF Rests, Agree
<1>9. Installed(site) => Installed(site)'
  <2>1. prior.goal \in 0..2 BY <1>1 DEF InstallerFits
  <2>2. Runs(site') >= prior.goal BY <1>5, <2>1 DEF Runs
  <2>3. /\ site'.record = site.record /\ site'.manager = site.manager /\ site'.units = site.units
        /\ site'.enabled = site.enabled /\ site'.path = site.path /\ site'.base = site.base
        /\ site'.made = site.made
     BY <1>5 DEF Agree
  <2>4. QED BY <1>3, <2>2, <2>3, Zenon DEF Installed, Runs
<1>10. \A f : FoundOK(f, prior) /\ Amid => FoundOK(f, prior') BY <1>3 DEF FoundOK
<1>11. \A u, f : Undoable(site, u, f, prior) /\ Amid => Undoable(site', u, f, prior')
   BY <1>3, <1>5, StoreUndoable
<1>12. InstallerFits'
  <2>1. crew'.locked \in BOOLEAN /\ (crew'.locked => ~site'.busy)
     BY <1>1, <1>2, <1>5 DEF InstallerFits, Agree
  <2>2. prior'.overtaken \in BOOLEAN BY <1>1, <1>3 DEF InstallerFits
  <2>3. luck'.writes \in Nat /\ site'.data + luck'.writes = site.data + luck.writes
     BY <1>1, <1>4, <1>5 DEF InstallerFits, IsSite, Agree
  <2>4. DOMAIN prior'.site = SiteFields BY <1>1, <1>3 DEF InstallerFits, Agree
  <2>5. QED BY <1>1, <1>2, <1>3, <1>4, <1>6, <2>1, <2>2, <2>3, <2>4, FitsKeeps DEF InstallerFits
<1>13. InstallerAt(crew.pc)'
  <2>1. CASE Quiet(crew.pc)
    <3>1. ~Amid BY <2>1 DEF Quiet, Amid
    <3>2. Unchanged(site) => Unchanged(site)' BY <3>1, <1>3, <1>5 DEF Unchanged, Agree
    <3>3. QED BY <2>1, <3>1, <3>2, <1>2, <1>3, <1>8, <1>9 DEF InstallerAt, Quiet, AllOrNone
  <2>2. CASE Trying(crew.pc)
    <3>1. Amid BY <2>2 DEF Trying, Checks, Amid
    <3>2. QED BY <2>2, <3>1, <1>2, <1>3, <1>5, <1>8, <1>10 DEF InstallerAt, Trying, Untried, Aims, Agree
  <2>3. CASE Committing(crew.pc)
    <3>1. Amid BY <2>3 DEF Committing, Amid
    <3>2. crew.pc \in {"gate", "done"} BY <2>3, <1>5 DEF Committing, Transacting
    <3>3. Transacting(crew.pc)'
       BY <2>3, <3>1, <3>2, <1>2, <1>3, <1>5, <1>7, <1>9, <1>10, <1>11
       DEF Committing, Transacting, Aims, Agree, Unmoved, Copying, Placing, Linked, Recorded, Answered
    <3>4. QED BY <2>3, <1>2, <3>3 DEF InstallerAt, Committing
  <2>4. CASE BrokenOff(crew.pc)
    <3>1. Amid BY <2>4 DEF BrokenOff, Amid
    <3>2. QED BY <2>4, <3>1, <1>2, <1>5, <1>7, <1>9, <1>10, <1>11
          DEF InstallerAt, BrokenOff, Journalled, KeepsIt, Agree
  <2>5. CASE GivingBack(crew.pc)
    <3>1. Amid BY <2>5 DEF GivingBack, Undoing, Amid
    <3>2. site.record # 0 BY DEF FileUpdate, HostKind, Managed
    <3>3. crew.pc \in {"undo", "restore", "relink"} BY <2>5, <3>2 DEF GivingBack, Undoing, Backing
    <3>4. Backing(crew.pc)'
       BY <2>5, <3>1, <3>3, <1>2, <1>3, <1>5, <1>7, <1>8, <1>10, <1>11 DEF GivingBack, Backing, Agree
    <3>5. QED BY <2>5, <1>2, <3>4 DEF InstallerAt, GivingBack
  <2>6. QED BY <1>1, <2>1, <2>2, <2>3, <2>4, <2>5 DEF InstallerAt
<1>14. QED BY <1>12, <1>13 DEF Undisturbed

\* A reboot kills the installer and starts what is enabled: the journal still tells what to undo.
LEMMA RebootKeeps ==
    ASSUME DOMAIN prior = PriorFields, Undisturbed, HostReboots, ~prior'.reopened
    PROVE  Undisturbed'
<1>1. InstallerFits /\ IsSite(site) /\ InstallerAt(crew.pc) BY DEF Undisturbed, InstallerFits
<1>2. deed' = deed /\ crew' = Off BY DEF HostReboots
<1>3. /\ prior'.site = prior.site /\ prior'.goal = prior.goal
      /\ prior'.halted = prior.halted /\ prior'.overtaken = prior.overtaken
      /\ crew.pc \notin {"relink", "revive", "purge"}
   BY DEF HostReboots, PriorFields
<1>4. DOMAIN luck' = DOMAIN luck /\ luck'.writes = luck.writes
   BY <1>1 DEF HostReboots, Mishap, InstallerFits
<1>5. /\ Agree(site', site, {"api"})
      /\ site'.api = IF site.enabled THEN Runs(site) ELSE 0
   BY <1>1 DEF HostReboots, IsSite, SiteFields, Agree
<1>6. IsSite(site') BY <1>1, <1>5 DEF IsSite, Agree
<1>7. Up(site') BY <1>5 DEF Up, Runs, Agree
<1>8. Rests(site) => Rests(site') BY <1>5, <1>7 DEF Rests, Agree
<1>9. Installed(site) => Installed(site)' BY <1>3, <1>5 DEF Installed, Runs, Agree
<1>10. Unchanged(site) => Unchanged(site)' BY <1>3, <1>5 DEF Unchanged, Agree
<1>11. \A f : FoundOK(f, prior) => FoundOK(f, prior') BY <1>3 DEF FoundOK
<1>12. \A u, f : Undoable(site, u, f, prior) => Undoable(site', u, f, prior')
  <2>1. /\ site'.base = site.base /\ site'.units = site.units /\ site'.store = site.store
        /\ site'.enabled = site.enabled /\ site'.made = site.made /\ site'.path = site.path
        /\ site'.data = site.data /\ site'.gate = site.gate
     BY <1>5 DEF Agree
  <2>2. QED BY <1>3, <1>7, <2>1, ZenonT(40) DEF Undoable
<1>13. InstallerFits'
  <2>1. DOMAIN crew' = CrewFields /\ crew'.locked = FALSE BY <1>2, OffShape
  <2>2. luck'.writes \in Nat /\ site'.data + luck'.writes = site.data + luck.writes
     BY <1>1, <1>4, <1>5 DEF InstallerFits, IsSite, Agree
  <2>3. QED BY <1>1, <1>2, <1>3, <1>4, <1>6, <2>1, <2>2, FitsKeeps DEF InstallerFits
<1>14. crew'.pc = "idle" /\ ~crew'.locked BY <1>2, OffShape
<1>15. CASE deed.phase = "none"
  <2>1. Rests(site) /\ (~prior.overtaken => Installed(site) \/ Unchanged(site))
    <3>1. CASE Quiet(crew.pc) BY <3>1 DEF Quiet, AllOrNone
    <3>2. CASE Trying(crew.pc) BY <3>2 DEF Trying, Untried, Unchanged
    <3>3. CASE GivingBack(crew.pc) BY <3>3, <1>3, <1>15 DEF GivingBack, Undoing, Backing
    <3>4. QED BY <1>1, <1>15, <3>1, <3>2, <3>3 DEF InstallerAt, Committing, BrokenOff
  <2>2. Quiet("idle")' BY <2>1, <1>2, <1>3, <1>8, <1>9, <1>10, <1>14, <1>15 DEF Quiet, AllOrNone
  <2>3. QED BY <2>2, <1>13, <1>14 DEF Undisturbed, InstallerAt
<1>16. CASE deed.phase # "none"
  <2>1. Journalled'
    <3>1. CASE Committing(crew.pc)
       BY <3>1, <1>2, <1>5, <1>7, <1>9, <1>11, <1>12
       DEF Committing, Transacting, Journalled, KeepsIt, Agree, Unmoved, Answered
    <3>2. CASE BrokenOff(crew.pc)
       BY <3>2, <1>2, <1>5, <1>7, <1>9, <1>11, <1>12 DEF BrokenOff, Journalled, KeepsIt, Agree
    <3>3. CASE GivingBack(crew.pc)
       BY <3>3, <1>2, <1>3, <1>5, <1>7, <1>11, <1>12, <1>16
       DEF GivingBack, Undoing, Backing, Journalled, KeepsIt, Agree
    <3>4. QED BY <1>1, <1>16, <3>1, <3>2, <3>3 DEF InstallerAt, Quiet, Trying
  <2>2. BrokenOff("idle")' BY <2>1, <1>2, <1>14, <1>16 DEF BrokenOff
  <2>3. QED BY <2>2, <1>13, <1>14 DEF Undisturbed, InstallerAt
<1>17. QED BY <1>15, <1>16

\* A crew that goes on, or gives up, without having touched anything.
LEMMA CrewFits ==
    ASSUME InstallerFits, UNCHANGED <<site, deed, luck>>, DOMAIN crew' = CrewFields,
           crew'.locked \in BOOLEAN, crew'.locked => ~site.busy,
           \/ prior' = prior
           \/ (/\ prior'.site = site /\ prior'.goal \in 0..2
               /\ prior'.overtaken = FALSE /\ prior'.halted = FALSE)
    PROVE  InstallerFits'
<1>1. /\ prior'.overtaken \in BOOLEAN /\ prior'.halted \in BOOLEAN
      /\ DOMAIN prior'.site = SiteFields /\ prior'.goal \in 0..2
   BY DEF InstallerFits, IsSite
<1>2. QED BY <1>1 DEF InstallerFits

\* install: it begins with the journal when there is one.
LEMMA InstallKeeps ==
    ASSUME DOMAIN prior = PriorFields, Undisturbed, Install
    PROVE  Undisturbed'
<1>1. InstallerFits /\ InstallerAt("idle") /\ crew.pc = "idle" BY DEF Undisturbed, Install
<1>2. site' = site /\ deed' = deed /\ prior' = prior BY DEF Install
<1>3. /\ DOMAIN crew' = CrewFields /\ crew'.locked = FALSE
      /\ crew'.pc = IF deed.phase = "none" THEN "classify" ELSE "recover"
   BY OffShape DEF Install
<1>4. DOMAIN luck' = DOMAIN luck /\ luck'.writes = luck.writes
   BY <1>1 DEF Install, InstallerFits
<1>5. InstallerFits' BY <1>1, <1>2, <1>3, <1>4 DEF InstallerFits
<1>6. Quiet("idle") \/ BrokenOff("idle")
   BY <1>1 DEF InstallerAt, Trying, Checks, Committing, Commit, Unmoved, Copying, Placing, Linked,
               Recorded, Answered, GivingBack, Undoing
<1>7. Quiet(crew.pc)' \/ BrokenOff(crew.pc)'
  <2>1. CASE deed.phase = "none"
    <3>1. AllOrNone' BY <1>2, <1>6, <2>1 DEF Quiet, BrokenOff, AllOrNone, Installed, Unchanged
    <3>2. QED BY <3>1, <1>2, <1>3, <2>1 DEF Quiet
  <2>2. CASE deed.phase # "none"
    <3>1. Journalled' BY <1>2, <1>6, <2>2 DEF Quiet, BrokenOff, Journalled, KeepsIt, Installed
    <3>2. QED BY <3>1, <1>2, <1>3, <2>2 DEF BrokenOff
  <2>3. QED BY <2>1, <2>2
<1>8. QED BY <1>5, <1>7 DEF Undisturbed, InstallerAt

\* Classification: an attempt begins from the host as it is, or there is nothing to do.
LEMMA ClassifyKeeps ==
    ASSUME DOMAIN prior = PriorFields, Undisturbed, Classify
    PROVE  Undisturbed'
<1>1. InstallerFits /\ IsSite(site) /\ InstallerAt("classify") /\ crew.pc = "classify"
   BY ZenonT(40) DEF Undisturbed, InstallerFits, Classify
<1>2. deed' = deed /\ luck' = luck BY DEF Classify
<1>3. Quiet("classify")
   BY <1>1 DEF InstallerAt, Trying, Checks, Committing, Commit, Unmoved, Copying, Placing, Linked,
               Recorded, Answered, GivingBack, Undoing, BrokenOff
<1>4. deed.phase = "none" /\ Rests(site) BY <1>3 DEF Quiet, AllOrNone
<1>5. \/ \E goal \in {site.base, Asked} :
            /\ crew' = [Off EXCEPT !.pc = "preflight", !.kind = HostKind(site), !.target = goal]
            /\ prior' = [prior EXCEPT !.site = site, !.goal = goal, !.overtaken = FALSE,
                                      !.halted = FALSE]
            /\ site' = site
      \/ /\ crew' = Off /\ prior' = prior
         /\ site' = IF HostKind(site) = "managed" THEN [site EXCEPT !.api = Runs(site)] ELSE site
  <2> DEFINE goals == CASE HostKind(site) = "refuse" -> {}
                        [] HostKind(site) = "managed" -> IF site.base < Asked THEN {Asked} ELSE {}
                        [] HostKind(site) = "signed" -> {site.base, Asked}
                        [] HostKind(site) \in {"fresh", "legacy"} -> {Asked}
  <2>1. HostKind(site) \in {"refuse", "managed", "signed", "fresh", "legacy"} BY DEF HostKind
  <2>2. goals \subseteq {site.base, Asked} BY <2>1
  <2> HIDE DEF goals
  <2>3. \/ \E goal \in goals :
               /\ crew' = [Off EXCEPT !.pc = "preflight", !.kind = HostKind(site), !.target = goal]
               /\ prior' = [prior EXCEPT !.site = site, !.goal = goal, !.overtaken = FALSE,
                                         !.halted = FALSE]
               /\ site' = site
        \/ /\ crew' = Off /\ prior' = prior
           /\ site' = IF HostKind(site) = "managed" THEN [site EXCEPT !.api = Runs(site)] ELSE site
     BY Zenon DEF Classify, goals
  <2>4. QED BY <2>2, <2>3, Zenon
<1>6. CASE \E goal \in {site.base, Asked} :
            /\ crew' = [Off EXCEPT !.pc = "preflight", !.kind = HostKind(site), !.target = goal]
            /\ prior' = [prior EXCEPT !.site = site, !.goal = goal, !.overtaken = FALSE,
                                      !.halted = FALSE]
            /\ site' = site
  <2>1. PICK goal \in {site.base, Asked} :
            /\ crew' = [Off EXCEPT !.pc = "preflight", !.kind = HostKind(site), !.target = goal]
            /\ prior' = [prior EXCEPT !.site = site, !.goal = goal, !.overtaken = FALSE,
                                      !.halted = FALSE]
            /\ site' = site
     BY <1>6
  <2>2. /\ DOMAIN crew' = CrewFields /\ crew'.pc = "preflight" /\ crew'.kind = HostKind(site)
        /\ crew'.target = goal /\ crew'.locked = FALSE /\ crew'.undo = Nothing
     BY <2>1 DEF Off, CrewFields
  <2>3. /\ prior'.site = site /\ prior'.goal = goal /\ prior'.overtaken = FALSE
        /\ prior'.halted = FALSE
     BY <2>1 DEF PriorFields
  <2>4. goal \in 0..2 BY <1>1, <2>1 DEF IsSite, Asked
  <2>5. InstallerFits' BY <1>1, <1>2, <2>1, <2>2, <2>3, <2>4, CrewFits
  <2>6. HostKind(site) = "fresh" => site.units = "none" BY DEF HostKind, LegacyLayout
  <2>7. Untried' BY <1>4, <2>1, <2>2, <2>3 DEF Untried
  <2>8. Aims' BY <2>2, <2>3, <2>1, <2>6 DEF Aims
  <2>9. Trying(crew.pc)' BY <1>2, <1>4, <2>2, <2>7, <2>8 DEF Trying, Checks
  <2>10. QED BY <2>5, <2>9 DEF Undisturbed, InstallerAt
<1>7. CASE /\ crew' = Off /\ prior' = prior
           /\ site' = IF HostKind(site) = "managed" THEN [site EXCEPT !.api = Runs(site)] ELSE site
  <2>1. HostKind(site) = "managed" => site.enabled
     BY <1>4 DEF HostKind, Rests
  <2>2. Agree(site', site, {"api"}) /\ Up(site')
    <3>1. CASE HostKind(site) = "managed"
      <4>1. Agree(site', site, {"api"}) /\ site'.api = Runs(site) BY <1>1, <1>7, <3>1 DEF IsSite, SiteFields, Agree
      <4>2. QED BY <4>1, <2>1, <3>1 DEF Agree, Up, Runs
    <3>2. CASE HostKind(site) # "managed"
       BY <1>1, <1>4, <1>7, <3>2 DEF Agree, Rests, IsSite
    <3>3. QED BY <3>1, <3>2
  <2>3. Rests(site') BY <1>4, <2>2 DEF Rests, Agree
  <2>4. Installed(site) => Installed(site)' BY <1>7, <2>2 DEF Installed, Runs, Agree
  <2>5. Unchanged(site) => Unchanged(site)' BY <1>7, <2>2 DEF Unchanged, Agree
  <2>6. AllOrNone' BY <1>3, <1>7, <2>3, <2>4, <2>5 DEF Quiet, AllOrNone
  <2>7. Quiet("idle")' BY <2>6, <1>2, <1>4, <1>7, OffShape DEF Quiet
  <2>8. InstallerFits'
    <3>1. IsSite(site') BY <1>1, <2>2 DEF IsSite, Agree
    <3>2. QED BY <1>1, <1>2, <1>7, <2>2, <3>1, OffShape DEF InstallerFits, Agree
  <2>9. QED BY <2>7, <2>8, <1>7, OffShape DEF Undisturbed, InstallerAt
<1>8. QED BY <1>5, <1>6, <1>7, SMTT(30)

\* A crew that gives up before the transaction leaves the host as it is.
LEMMA GiveUpKeeps ==
    ASSUME Undisturbed, Trying(crew.pc), crew' = Off, UNCHANGED <<site, deed, prior, luck>>
    PROVE  Undisturbed'
<1>1. InstallerFits' BY OffShape, CrewFits DEF Undisturbed
<1>2. AllOrNone' BY DEF Trying, Untried, AllOrNone, Unchanged, Rests, Up
<1>3. Quiet("idle")' BY <1>2, OffShape DEF Quiet, Trying
<1>4. QED BY <1>1, <1>3, OffShape DEF Undisturbed, InstallerAt

\* Before the lock the installer is at one of the checks.
LEMMA WhereTries ==
    ASSUME InstallerAt(crew.pc), crew.pc \in Checks \cup {"lock"}
    PROVE  Trying(crew.pc)
BY DEF InstallerAt, Quiet, Checks, Committing, Commit, Unmoved, Copying, Placing, Linked,
       Recorded, Answered, GivingBack, Undoing, BrokenOff

\* A check passes to another one, or the attempt ends with nothing changed.
LEMMA CheckKeeps ==
    ASSUME Undisturbed, crew.pc \in Checks, UNCHANGED <<site, deed, prior, luck>>,
           crew' = Off \/ \E next \in Checks : crew' = [crew EXCEPT !.pc = next]
    PROVE  Undisturbed'
<1>1. Trying(crew.pc) /\ DOMAIN crew = CrewFields BY WhereTries DEF Undisturbed, InstallerFits
<1>2. CASE \E next \in Checks : crew' = [crew EXCEPT !.pc = next]
  <2>1. PICK next \in Checks : crew' = [crew EXCEPT !.pc = next] BY <1>2
  <2>2. CrewIs(crew', next, crew.undo, crew.found, crew.locked) BY <1>1, <2>1, SetCrew
  <2>3. InstallerFits' BY <2>2, CrewFits DEF Undisturbed, InstallerFits, CrewIs
  <2>4. next # "lock" BY DEF Checks
  <2>5. Trying(crew.pc)' BY <1>1, <2>2, <2>4 DEF Trying, Untried, Aims, Rests, Up, CrewIs
  <2>6. QED BY <2>3, <2>5 DEF Undisturbed, InstallerAt
<1>3. QED BY <1>1, <1>2, GiveUpKeeps

\* Every check before the transaction is such a step.
LEMMA ChecksKeep ==
    ASSUME Undisturbed,
           CheckHost \/ DownloadManager \/ VerifyCachedRelease \/ FindRelease \/ DownloadRelease
               \/ ExtractRelease \/ PrepareRelease \/ AdmitEnvironment \/ LegacyIdentity
               \/ AdmitDestinations
    PROVE  Undisturbed'
<1>1. /\ crew.pc \in Checks /\ UNCHANGED <<site, deed, prior, luck>>
      /\ crew' = Off \/ \E next \in Checks : crew' = [crew EXCEPT !.pc = next]
  <2>1. CASE CheckHost BY <2>1 DEF CheckHost, Check, Checks
  <2>2. CASE DownloadManager BY <2>2 DEF DownloadManager, Check, Checks
  <2>3. CASE VerifyCachedRelease BY <2>3 DEF VerifyCachedRelease, Check, Checks
  <2>4. CASE FindRelease BY <2>4 DEF FindRelease, Check, Checks
  <2>5. CASE DownloadRelease BY <2>5 DEF DownloadRelease, Check, Checks
  <2>6. CASE ExtractRelease BY <2>6 DEF ExtractRelease, Check, Checks
  <2>7. CASE PrepareRelease BY <2>7 DEF PrepareRelease, Check, Checks
  <2>8. CASE AdmitEnvironment BY <2>8 DEF AdmitEnvironment, Check, Checks
  <2>9. CASE LegacyIdentity BY <2>9 DEF LegacyIdentity, Check, Checks
  <2>10. CASE AdmitDestinations BY <2>10 DEF AdmitDestinations, Check, Checks
  <2>11. QED BY <2>1, <2>2, <2>3, <2>4, <2>5, <2>6, <2>7, <2>8, <2>9, <2>10
<1>2. QED BY <1>1, CheckKeeps

\* What _commit reads of the host is what was classified, unless another update ran.
LEMMA ReadKeeps ==
    ASSUME Undisturbed, ReadHost
    PROVE  Undisturbed'
<1>1. /\ crew.pc = "read" /\ Trying(crew.pc) /\ InstallerFits /\ IsSite(site)
      /\ DOMAIN crew = CrewFields
   BY WhereTries DEF Undisturbed, InstallerFits, ReadHost, Checks
<1>2. UNCHANGED <<site, deed, prior, luck>> BY DEF ReadHost
<1>3. CASE site.busy \/ site.gate = "closed" BY <1>1, <1>2, <1>3, GiveUpKeeps DEF ReadHost
<1>4. CASE ~site.busy /\ site.gate # "closed"
  <2> DEFINE f == Found(site)
  <2>1. CrewIs(crew', "lock", crew.undo, f, crew.locked) BY <1>1, <1>4, SetCrew DEF ReadHost
  <2>2. /\ DOMAIN f = FoundFields /\ f.base = site.base /\ f.manager = site.manager
        /\ f.store = site.store /\ f.units = site.units /\ f.api = (site.api # 0)
        /\ f.path = site.path /\ f.enabled = site.enabled /\ f.gate = site.gate
     BY DEF Found, FoundFields
  <2> HIDE DEF f
  <2>3. Runs(site) # 0 BY <1>1 DEF IsSite, Runs
  <2>4. Rests(site) /\ Untried BY <1>1 DEF Trying, Untried
  <2>5. f.api = f.enabled BY <2>2, <2>3, <2>4, <1>1 DEF Rests, Up, IsSite
  <2>6. FoundOK(f, prior) BY <1>1, <1>4, <2>2, <2>4, <2>5 DEF FoundOK, IsSite, Rests, Untried
  <2>7. InstallerFits' BY <1>1, <1>2, <2>1, CrewFits DEF InstallerFits, CrewIs
  <2>8. Trying(crew.pc)'
     BY <1>1, <1>2, <1>4, <2>1, <2>6 DEF Trying, Untried, Aims, Rests, Up, CrewIs, FoundOK
  <2>9. QED BY <2>7, <2>8 DEF Undisturbed, InstallerAt
<1>5. QED BY <1>3, <1>4

\* Under the lock the first journal is written; without it there is nothing to undo.
LEMMA LockKeeps ==
    ASSUME Undisturbed, TakeLock
    PROVE  Undisturbed'
<1>1. /\ crew.pc = "lock" /\ Trying("lock") /\ InstallerFits /\ IsSite(site)
      /\ DOMAIN crew = CrewFields
   BY WhereTries DEF Undisturbed, InstallerFits, TakeLock
<1>2. UNCHANGED <<site, prior, luck>> BY DEF TakeLock
<1>3. /\ FoundOK(crew.found, prior) /\ Untried /\ Aims /\ deed.phase = "none" /\ Rests(site)
      /\ crew.undo = Nothing
   BY <1>1 DEF Trying, Untried
<1>4. /\ DOMAIN Nothing = UndoFields /\ Nothing.stopped = FALSE /\ Nothing.changed = FALSE
      /\ Nothing.created = {} /\ Nothing.backup = {} /\ Nothing.dropped = FALSE
   BY DEF Nothing, UndoFields
<1>5. IsUndo(Nothing) /\ ~Halting(Nothing) BY <1>4 DEF IsUndo, Halting
<1>6. Undoable(site, Nothing, crew.found, prior)
   BY <1>3, <1>4, <1>5 DEF Undoable, Untried, Rests, FoundOK
<1>7. CASE site.busy
  <2>1. CrewIs(crew', "undo", crew.undo, crew.found, crew.locked) /\ deed' = deed
     BY <1>1, <1>7, SetCrew DEF TakeLock
  <2>2. prior.overtaken BY <1>1, <1>7 DEF Trying
  <2>3. InstallerFits' BY <1>1, <1>2, <2>1, CrewFits DEF InstallerFits, CrewIs
  <2>4. Backing(crew.pc)'
     BY <1>2, <1>3, <1>4, <1>5, <1>6, <2>1, <2>2 DEF Backing, CrewIs, Undoable
  <2>5. GivingBack(crew.pc)' BY <2>1, <2>4 DEF GivingBack, Undoing, CrewIs
  <2>6. QED BY <2>3, <2>5 DEF Undisturbed, InstallerAt
<1>8. CASE ~site.busy
  <2>1. CrewIs(crew', "gate", crew.undo, crew.found, TRUE)
     BY <1>1, <1>8, SetCrew DEF TakeLock
  <2>2. /\ DOMAIN deed' = {"phase", "undo", "found"}
        /\ deed'.phase = "maintenance" /\ deed'.undo = Nothing /\ deed'.found = crew.found
     BY <1>8 DEF TakeLock
  <2>3. InstallerFits' BY <1>1, <1>2, <1>8, <2>1, <2>2 DEF InstallerFits, CrewIs
  <2>4. Transacting(crew.pc)'
     BY <1>2, <1>3, <1>4, <1>6, <1>8, <2>1, <2>2
     DEF Transacting, CrewIs, Untried, Aims, FoundOK, Unmoved, Copying, Placing, Linked, Recorded, Answered
  <2>5. Committing(crew.pc)' BY <2>1, <2>2, <2>4 DEF Committing, Commit, Unmoved, CrewIs
  <2>6. QED BY <2>3, <2>5 DEF Undisturbed, InstallerAt
<1>9. QED BY <1>7, <1>8

\* In _commit the installer is inside the transaction.
LEMMA WhereCommits ==
    ASSUME InstallerAt(crew.pc), crew.pc \in Commit
    PROVE  Committing(crew.pc)
BY DEF InstallerAt, Quiet, Checks, Trying, Commit, Unmoved, Copying, Placing, Linked,
       Recorded, Answered, GivingBack, Undoing, BrokenOff

\* The installer works on a host that is not busy, and writes no data.
LEMMA WorkFits ==
    ASSUME InstallerFits, IsSite(site'), site'.data = site.data, site'.busy = FALSE,
           DOMAIN deed' = {"phase", "undo", "found"}, DOMAIN crew' = CrewFields,
           crew'.locked \in BOOLEAN, prior'.halted \in BOOLEAN, prior'.overtaken = prior.overtaken,
           prior'.site = prior.site, prior'.goal = prior.goal,
           DOMAIN luck' = DOMAIN luck, luck'.writes = luck.writes
    PROVE  InstallerFits'
BY DEF InstallerFits

\* An attempt that breaks off is the journal's, or that of the rollback, whatever it has
\* reached: both know how to give back the host that was found.
LEMMA BreakKeeps ==
    ASSUME InstallerFits', NEW f, FoundOK(f, prior'),
           deed'.phase # "none", deed'.found = f, Undoable(site', deed'.undo, f, prior'),
           deed'.phase = "services_started" => site'.gate = "closed" /\ ~site'.path,
           \/ crew' = Off
           \/ \E u, locked : /\ CrewIs(crew', "undo", u, f, locked) /\ Undoable(site', u, f, prior')
                             /\ Halting(u) => Halting(deed'.undo) \/ f.units = "none"
                             /\ locked \/ (~site'.path /\ ~site'.busy)
    PROVE  Undisturbed'
<1>1. CASE crew' = Off
  <2>1. Journalled' BY DEF Journalled, KeepsIt
  <2>2. BrokenOff("idle")' BY <1>1, <2>1, OffShape DEF BrokenOff
  <2>3. QED BY <1>1, <2>2, OffShape DEF Undisturbed, InstallerAt
<1>2. CASE crew' # Off
  <2>1. PICK u, locked : /\ CrewIs(crew', "undo", u, f, locked) /\ Undoable(site', u, f, prior')
                         /\ Halting(u) => Halting(deed'.undo) \/ f.units = "none"
                         /\ locked \/ (~site'.path /\ ~site'.busy)
     BY <1>2
  <2>2. crew'.pc = "undo" /\ crew'.undo = u /\ crew'.found = f /\ crew'.locked = locked
     BY <2>1 DEF CrewIs
  <2>3. /\ IsUndo(u) /\ (~u.changed => site'.base = f.base /\ site'.units = f.units)
        /\ site'.made \ u.created = prior'.site.made
        /\ ~Halting(u) =>
              /\ Up(site') /\ site'.enabled = f.enabled
              /\ site'.path = f.path \/ (prior'.halted /\ ~site'.path)
     BY <2>1 DEF Undoable
  <2>4. Backing(crew.pc)' BY <2>1, <2>2, <2>3 DEF Backing
  <2>5. QED BY <2>2, <2>4 DEF Undisturbed, InstallerAt, GivingBack, Undoing
<1>3. QED BY <1>1, <1>2

\* What an entry in the journal changes.
LEMMA NotedShape ==
    ASSUME DOMAIN deed = {"phase", "undo", "found"}, NEW phase, NEW undo
    PROVE  LET d == Noted(phase, undo)
           IN  /\ DOMAIN d = {"phase", "undo", "found"}
               /\ d.phase = phase /\ d.undo = undo /\ d.found = deed.found
BY DEF Noted

\* What is remembered, field by field.
UndoIs(w, stopped, changed, created, copied, dropped) ==
    /\ DOMAIN w = UndoFields
    /\ w.stopped = stopped /\ w.changed = changed /\ w.created = created /\ w.backup = copied
    /\ w.dropped = dropped

\* What an assignment to a few fields of what is remembered changes, and what it keeps.
LEMMA SetUndo ==
    ASSUME NEW u, DOMAIN u = UndoFields, NEW v, NEW w
    PROVE  /\ UndoIs([u EXCEPT !.stopped = v], v, u.changed, u.created, u.backup, u.dropped)
           /\ UndoIs([u EXCEPT !.created = v], u.stopped, u.changed, v, u.backup, u.dropped)
           /\ UndoIs([u EXCEPT !.backup = v], u.stopped, u.changed, u.created, v, u.dropped)
           /\ UndoIs([u EXCEPT !.changed = v, !.dropped = w], u.stopped, v, u.created, u.backup, w)
BY DEF UndoIs, UndoFields

\* How a step of the transaction ends: done, or given up at one of the states it passes.
Worked(at, next, sites, undo, entry, halfway) ==
    /\ crew.pc = at
    /\ DOMAIN luck' = DOMAIN luck /\ luck'.writes = luck.writes
    /\ \/ /\ site' = sites[Len(sites)] /\ deed' = entry
          /\ CrewIs(crew', next, undo, crew.found, TRUE)
       \/ \E i \in DOMAIN sites :
             /\ site' = sites[i] /\ (deed' = entry \/ (i = 1 /\ deed' = deed))
             /\ crew' = Off \/ CrewIs(crew', "undo", halfway[i], crew.found, crew.locked)

\* A step of _commit either succeeds or reaches one of its states, with the installer killed
\* there or undoing what it remembers by then.
LEMMA WorkShape ==
    ASSUME InstallerFits, NEW at, NEW next, NEW sites, NEW undo, NEW entry, NEW halfway,
           Work(at, next, sites, undo, entry, halfway)
    PROVE  Worked(at, next, sites, undo, entry, halfway)
<1>1. DOMAIN crew = CrewFields BY DEF InstallerFits
<1>2. CASE /\ site' = sites[Len(sites)] /\ deed' = entry
           /\ crew' = [crew EXCEPT !.pc = next, !.undo = undo, !.locked = TRUE] /\ UNCHANGED luck
  <2>1. CrewIs(crew', next, undo, crew.found, TRUE) BY <1>1, <1>2, SetCrew
  <2>2. QED BY <1>2, <2>1 DEF Work, Worked
<1>3. CASE /\ Mishap
           /\ \E i \in DOMAIN sites :
                 /\ site' = sites[i]
                 /\ deed' \in IF i = 1 THEN {deed, entry} ELSE {entry}
                 /\ crew' \in {Off, [crew EXCEPT !.pc = "undo", !.undo = halfway[i]]}
  <2>1. PICK i \in DOMAIN sites :
                 /\ site' = sites[i]
                 /\ deed' \in IF i = 1 THEN {deed, entry} ELSE {entry}
                 /\ crew' \in {Off, [crew EXCEPT !.pc = "undo", !.undo = halfway[i]]}
     BY <1>3
  <2>2. CrewIs([crew EXCEPT !.pc = "undo", !.undo = halfway[i]], "undo", halfway[i], crew.found, crew.locked)
     BY <1>1, SetCrew
  <2>3. DOMAIN luck' = DOMAIN luck /\ luck'.writes = luck.writes
     BY <1>3 DEF Mishap, InstallerFits
  <2>4. crew.pc = at BY DEF Work
  <2>5. deed' = entry \/ (i = 1 /\ deed' = deed) BY <2>1
  <2>6. crew' = Off \/ CrewIs(crew', "undo", halfway[i], crew.found, crew.locked) BY <2>1, <2>2
  <2>7. QED BY <2>1, <2>3, <2>4, <2>5, <2>6 DEF Worked
<1>4. QED BY <1>2, <1>3 DEF Work

\* The same for a step with one effect.
LEMMA PlainShape ==
    ASSUME InstallerFits, NEW at, NEW next, NEW after, NEW undo, NEW entry,
           Plain(at, next, after, undo, entry)
    PROVE  /\ crew.pc = at /\ prior' = prior
           /\ DOMAIN luck' = DOMAIN luck /\ luck'.writes = luck.writes
           /\ \/ site' = after /\ deed' = entry /\ CrewIs(crew', next, undo, crew.found, TRUE)
              \/ /\ site' = site /\ (deed' = entry \/ deed' = deed)
                 /\ crew' = Off \/ CrewIs(crew', "undo", crew.undo, crew.found, crew.locked)
              \/ /\ site' = after /\ deed' = entry
                 /\ crew' = Off \/ CrewIs(crew', "undo", undo, crew.found, crew.locked)
<1> DEFINE sites == <<site, after>>
           half == <<crew.undo, undo>>
<1>1. Work(at, next, sites, undo, entry, half) BY DEF Plain
<1>2. /\ Len(sites) = 2 /\ DOMAIN sites = {1, 2} /\ sites[1] = site /\ sites[2] = after
      /\ half[1] = crew.undo /\ half[2] = undo
   OBVIOUS
<1> HIDE DEF sites, half
<1>3. Worked(at, next, sites, undo, entry, half) BY <1>1, WorkShape
<1>4. prior' = prior BY DEF Plain
<1>5. QED BY <1>2, <1>3, <1>4 DEF Worked

\* _commit closes the gate: nothing else is changed yet.
LEMMA GateKeeps ==
    ASSUME Undisturbed, CloseGate
    PROVE  Undisturbed'
<1> DEFINE t == [site EXCEPT !.gate = "closed"]
           f == crew.found
           next == IF crew.kind = "fresh" THEN "plan" ELSE "stop"
<1>1. /\ InstallerFits /\ IsSite(site) /\ DOMAIN crew = CrewFields
      /\ DOMAIN deed = {"phase", "undo", "found"}
   BY DEF Undisturbed, InstallerFits
<1>2. Plain("gate", next, t, crew.undo, deed) BY DEF CloseGate
<1>3. Agree(t, site, {"gate"}) /\ t.gate = "closed" BY <1>1 DEF IsSite, SiteFields, Agree
<1> HIDE DEF t, next
<1>4. /\ crew.pc = "gate" /\ prior' = prior
      /\ DOMAIN luck' = DOMAIN luck /\ luck'.writes = luck.writes
      /\ \/ site' = t /\ deed' = deed /\ CrewIs(crew', next, crew.undo, f, TRUE)
         \/ /\ site' = site /\ (deed' = deed \/ deed' = deed)
            /\ crew' = Off \/ CrewIs(crew', "undo", crew.undo, f, crew.locked)
         \/ /\ site' = t /\ deed' = deed
            /\ crew' = Off \/ CrewIs(crew', "undo", crew.undo, f, crew.locked)
   BY <1>1, <1>2, PlainShape, Zenon
<1>5. Committing("gate") BY <1>4, WhereCommits DEF Undisturbed, Commit, Unmoved
<1>6. /\ deed.phase \notin {"none", "services_started"} /\ deed.found = f /\ FoundOK(f, prior) /\ Aims
      /\ ~site.busy /\ crew.locked /\ deed.undo = Nothing /\ crew.undo = Nothing
      /\ ~prior.halted /\ site.path = f.path /\ Undoable(site, Nothing, f, prior)
   BY <1>5 DEF Committing, Transacting, Unmoved, Answered
<1>7. /\ Nothing.backup = {} /\ Nothing.created = {} /\ Nothing.changed = FALSE
      /\ Nothing.stopped = FALSE /\ Halting(Nothing) = FALSE
   BY DEF Nothing, Halting
<1>8. Undoable(t, Nothing, f, prior) /\ IsSite(t)
   BY <1>1, <1>3, <1>6, <1>7 DEF Undoable, Agree, Up, Runs, IsSite
<1>9. InstallerFits'
  <2>1. IsSite(site') /\ site'.data = site.data /\ site'.busy = FALSE
     BY <1>1, <1>3, <1>4, <1>6, <1>8 DEF IsSite, Agree
  <2>2. DOMAIN crew' = CrewFields /\ crew'.locked \in BOOLEAN
     BY <1>1, <1>4, OffShape DEF CrewIs, InstallerFits
  <2>3. QED BY <1>1, <1>4, <2>1, <2>2, WorkFits DEF InstallerFits
<1>10. CASE crew' = Off \/ CrewIs(crew', "undo", crew.undo, f, crew.locked)
  <2>1. Undoable(site', Nothing, f, prior) /\ deed' = deed BY <1>4, <1>6, <1>8
  <2>2. QED BY <1>4, <1>6, <1>7, <1>9, <1>10, <2>1, BreakKeeps
<1>11. CASE site' = t /\ deed' = deed /\ CrewIs(crew', next, crew.undo, f, TRUE)
  <2>1. crew.kind = "fresh" => ~f.path /\ f.units = "none" BY <1>6 DEF Aims, FoundOK
  <2>2. next \in {"plan", "stop"} /\ (next = "plan" => crew.kind = "fresh") BY DEF next
  <2>3. Aims' BY <1>4, <1>6, <1>11 DEF Aims, CrewIs
  <2>4. Transacting(crew.pc)'
     BY <1>3, <1>4, <1>6, <1>7, <1>8, <1>11, <2>1, <2>2, <2>3
     DEF Transacting, CrewIs, Agree, Unmoved, Copying, Placing, Linked, Recorded, Answered
  <2>5. Committing(crew.pc)'
     BY <1>6, <1>11, <2>2, <2>4 DEF Committing, Commit, Unmoved, Copying, CrewIs
  <2>6. QED BY <1>9, <2>5 DEF Undisturbed, InstallerAt
<1>12. QED BY <1>4, <1>10, <1>11

\* The updater is stopped: the journal says so first, so a kill in between undoes too much
\* rather than too little.
LEMMA StopKeeps ==
    ASSUME DOMAIN prior = PriorFields, Undisturbed, StopUpdater
    PROVE  Undisturbed'
<1> DEFINE t == [site EXCEPT !.path = FALSE]
           f == crew.found
           u == [crew.undo EXCEPT !.stopped = crew.found.path]
           d == StopNoted(deed.undo)
           sites == <<site, t>>
           half == <<crew.undo, crew.undo>>
           entry == Noted("stopped", StopNoted(deed.undo))
<1>1. /\ InstallerFits /\ IsSite(site) /\ DOMAIN crew = CrewFields
      /\ DOMAIN deed = {"phase", "undo", "found"}
   BY DEF Undisturbed, InstallerFits
<1>2. Work("stop", "app", sites, u, entry, half) BY DEF StopUpdater
<1>3. Agree(t, site, {"path"}) /\ t.path = FALSE BY <1>1 DEF IsSite, SiteFields, Agree
<1>4. /\ Len(sites) = 2 /\ DOMAIN sites = {1, 2} /\ sites[1] = site /\ sites[2] = t
      /\ half[1] = crew.undo /\ half[2] = crew.undo
   OBVIOUS
<1>5. /\ prior'.site = prior.site /\ prior'.goal = prior.goal /\ prior'.overtaken = prior.overtaken
      /\ prior'.halted = (crew'.pc = "undo" /\ site.path /\ ~site'.path)
   BY DEF StopUpdater, PriorFields
<1>6. /\ DOMAIN entry = {"phase", "undo", "found"}
      /\ entry.phase = "stopped" /\ entry.undo = d /\ entry.found = deed.found
   BY <1>1, NotedShape
<1> HIDE DEF t, sites, half, entry
<1>7. Worked("stop", "app", sites, u, entry, half) BY <1>1, <1>2, WorkShape
<1>8. Committing("stop") BY <1>7, WhereCommits DEF Undisturbed, Commit, Unmoved, Worked
<1>9. /\ deed.phase \notin {"none", "services_started"} /\ deed.found = f /\ FoundOK(f, prior) /\ Aims
      /\ ~site.busy /\ crew.locked /\ deed.undo = Nothing /\ crew.undo = Nothing
      /\ ~prior.halted /\ site.path = f.path /\ Undoable(site, Nothing, f, prior)
      /\ site.gate = "closed"
   BY <1>8 DEF Committing, Transacting, Unmoved, Answered
<1>10. /\ DOMAIN Nothing = UndoFields
       /\ Nothing.backup = {} /\ Nothing.created = {} /\ Nothing.changed = FALSE
       /\ Nothing.stopped = FALSE /\ Nothing.dropped = FALSE /\ Halting(Nothing) = FALSE
   BY DEF Nothing, Halting, UndoFields
<1>11. UndoIs(d, TRUE, FALSE, {}, {}, FALSE) /\ UndoIs(u, f.path, FALSE, {}, {}, FALSE)
   BY <1>9, <1>10, SetUndo DEF StopNoted
<1> HIDE DEF u, d
<1>12. f.path \in BOOLEAN /\ FoundOK(f, prior') BY <1>5, <1>9 DEF FoundOK
<1>13. /\ site.base = f.base /\ site.units = f.units /\ site.made = prior.site.made
       /\ (~prior.overtaken => site.store = f.store) /\ Up(site) /\ site.enabled = f.enabled
   BY <1>9, <1>10 DEF Undoable
<1>14. IsSite(t) /\ Up(t) /\ t.busy = FALSE /\ t.data = site.data
   BY <1>1, <1>3, <1>9, <1>13, ZenonT(40) DEF IsSite, Agree, Up, Runs
<1>15. \/ /\ site' = t /\ deed' = entry /\ CrewIs(crew', "app", u, f, TRUE)
       \/ /\ site' = site /\ (deed' = entry \/ deed' = deed)
          /\ crew' = Off \/ CrewIs(crew', "undo", crew.undo, f, crew.locked)
       \/ /\ site' = t /\ deed' = entry
          /\ crew' = Off \/ CrewIs(crew', "undo", crew.undo, f, crew.locked)
   BY <1>4, <1>7 DEF Worked
<1>16. InstallerFits'
  <2>1. IsSite(site') /\ site'.data = site.data /\ site'.busy = FALSE
     BY <1>1, <1>9, <1>14, <1>15 DEF IsSite
  <2>2. DOMAIN crew' = CrewFields /\ crew'.locked \in BOOLEAN
     BY <1>1, <1>15, OffShape DEF CrewIs, InstallerFits
  <2>3. DOMAIN deed' = {"phase", "undo", "found"} BY <1>1, <1>6, <1>15
  <2>4. prior'.halted \in BOOLEAN BY <1>5
  <2>5. QED BY <1>1, <1>5, <1>7, <2>1, <2>2, <2>3, <2>4, WorkFits DEF Worked
<1>17. IsUndo(u) /\ IsUndo(d) /\ IsUndo(Nothing)
   BY <1>10, <1>11, <1>12 DEF IsUndo, UndoIs
<1>18. ASSUME site' \in {site, t}
       PROVE  Undoable(site', d, f, prior')
   BY <1>3, <1>5, <1>11, <1>13, <1>17, <1>18 DEF Undoable, UndoIs, Halting, Agree
<1>19. CASE crew' = Off \/ CrewIs(crew', "undo", crew.undo, f, crew.locked)
  <2>1. site' \in {site, t} BY <1>15
  <2>2. site' = t \/ deed' = deed \/ deed' = entry BY <1>15
  <2>3. deed'.phase \notin {"none", "services_started"} /\ deed'.found = f BY <1>6, <1>9, <1>15
  <2>4. ASSUME site' = site
        PROVE  Undoable(site', Nothing, f, prior')
     BY <1>3, <1>5, <1>9, <1>10, <1>13, <1>17, <2>4 DEF Undoable
  <2>5. ASSUME CrewIs(crew', "undo", crew.undo, f, crew.locked), site' = t
        PROVE  Undoable(site', Nothing, f, prior')
    <3>1. prior'.halted = site.path BY <1>1, <1>3, <1>5, <2>5 DEF CrewIs, IsSite
    <3>2. t.path = f.path \/ (prior'.halted /\ ~t.path) BY <1>1, <1>3, <1>9, <3>1 DEF IsSite
    <3>3. /\ t.base = f.base /\ t.units = f.units /\ t.made = prior.site.made
          /\ (~prior.overtaken => t.store = f.store) /\ t.enabled = f.enabled
       BY <1>3, <1>13 DEF Agree
    <3>4. QED BY <1>5, <1>10, <1>14, <1>17, <2>5, <3>2, <3>3 DEF Undoable
  <2>6. Undoable(site', deed'.undo, f, prior') BY <1>6, <1>9, <1>15, <1>18, <2>1, <2>4
  <2>7. CrewIs(crew', "undo", crew.undo, f, crew.locked) => Undoable(site', crew.undo, f, prior')
     BY <1>9, <2>1, <2>4, <2>5
  <2>8. ~Halting(crew.undo) BY <1>9, <1>10
  <2>9. QED BY <1>9, <1>12, <1>16, <1>19, <2>3, <2>6, <2>7, <2>8, BreakKeeps
<1>20. CASE site' = t /\ deed' = entry /\ CrewIs(crew', "app", u, f, TRUE)
  <2>1. Aims' BY <1>5, <1>9, <1>20 DEF Aims, CrewIs
  <2>2. Undoable(site', u, f, prior')
    <3>1. CASE f.path BY <1>3, <1>5, <1>11, <1>13, <1>17, <1>20, <3>1 DEF Undoable, UndoIs, Halting, Agree
    <3>2. CASE ~f.path
      <4>1. t.path = f.path BY <1>3, <1>12, <3>2
      <4>2. QED BY <1>3, <1>5, <1>11, <1>13, <1>14, <1>17, <1>20, <4>1 DEF Undoable, UndoIs, Agree
    <3>3. QED BY <3>1, <3>2
  <2>3. Undoable(site', d, f, prior') BY <1>18, <1>20
  <2>4. Transacting(crew.pc)'
     BY <1>3, <1>5, <1>6, <1>9, <1>11, <1>12, <1>14, <1>20, <2>1, <2>2, <2>3
     DEF Transacting, CrewIs, UndoIs, Agree, Unmoved, Copying, Placing, Linked, Recorded, Answered
  <2>5. Committing(crew.pc)' BY <1>6, <1>20, <2>4 DEF Committing, Commit, Copying, CrewIs
  <2>6. QED BY <1>16, <2>5 DEF Undisturbed, InstallerAt
<1>21. QED BY <1>15, <1>19, <1>20

\* What the transaction can count on once the updater and the application are stopped.
LEMMA ColdFacts ==
    ASSUME Undisturbed, crew.pc \in Commit \ (Unmoved \cup {"done"})
    PROVE  /\ InstallerFits /\ IsSite(site) /\ DOMAIN crew = CrewFields
           /\ DOMAIN deed = {"phase", "undo", "found"}
           /\ Transacting(crew.pc)
           /\ deed.phase # "none" /\ deed.found = crew.found /\ FoundOK(crew.found, prior) /\ Aims
           /\ site.busy = FALSE /\ site.gate = "closed" /\ site.path = FALSE
           /\ deed.undo.stopped \/ crew.found.units = "none"
           /\ Undoable(site, deed.undo, crew.found, prior) /\ Undoable(site, crew.undo, crew.found, prior)
           /\ DOMAIN deed.undo = UndoFields /\ DOMAIN crew.undo = UndoFields
           /\ crew.locked \in BOOLEAN /\ (crew.locked \/ crew.pc = "record")
           /\ deed.phase = "services_started" <=> crew.pc \in Answered
<1>1. InstallerFits /\ IsSite(site) /\ Committing(crew.pc)
   BY WhereCommits DEF Undisturbed, InstallerFits
<1>2. Transacting(crew.pc) /\ deed.phase # "none" BY <1>1 DEF Committing
<1>3. crew.pc \notin Unmoved \cup {"gate", "done"} BY DEF Unmoved
<1>4. /\ deed.found = crew.found /\ FoundOK(crew.found, prior) /\ Aims /\ ~site.busy
      /\ site.gate = "closed" /\ ~site.path /\ (deed.undo.stopped \/ crew.found.units = "none")
      /\ Undoable(site, deed.undo, crew.found, prior) /\ Undoable(site, crew.undo, crew.found, prior)
      /\ crew.locked \/ crew.pc = "record"
      /\ deed.phase = "services_started" <=> crew.pc \in Answered
   BY <1>2, <1>3 DEF Transacting
<1>5. DOMAIN deed.undo = UndoFields /\ DOMAIN crew.undo = UndoFields BY <1>4 DEF Undoable, IsUndo
<1>6. QED BY <1>1, <1>2, <1>4, <1>5 DEF InstallerFits, IsSite

\* What a step behind the gate that leaves the data alone keeps well formed.
LEMMA ColdFits ==
    ASSUME InstallerFits, IsSite(site'), site'.data = site.data, site'.busy = FALSE, prior' = prior,
           DOMAIN deed' = {"phase", "undo", "found"}, DOMAIN luck' = DOMAIN luck, luck'.writes = luck.writes,
           crew' = Off \/ \E pc, u, f, locked : locked \in BOOLEAN /\ CrewIs(crew', pc, u, f, locked)
    PROVE  InstallerFits'
<1>1. DOMAIN crew' = CrewFields /\ crew'.locked \in BOOLEAN BY OffShape DEF CrewIs
<1>2. QED BY <1>1, WorkFits DEF InstallerFits

\* A step behind the gate that is broken off can be undone from the journal, or from memory.
LEMMA ColdBreaks ==
    ASSUME InstallerFits', NEW f, FoundOK(f, prior), NEW locked, NEW u, NEW d,
           site'.busy = FALSE, site'.gate = "closed", site'.path = FALSE, prior' = prior,
           deed'.phase # "none", deed'.found = f, deed'.undo = d,
           Undoable(site', d, f, prior), Undoable(site', u, f, prior),
           d.stopped \/ d.changed \/ f.units = "none",
           crew' = Off \/ CrewIs(crew', "undo", u, f, locked)
    PROVE  Undisturbed'
<1>1. Halting(d) \/ f.units = "none" BY DEF Halting
<1>2. FoundOK(f, prior') /\ Undoable(site', d, f, prior') /\ Undoable(site', u, f, prior')
   OBVIOUS
<1>3. QED BY <1>1, <1>2, BreakKeeps

\* The places of the transaction are all different.
LEMMA GoesOn ==
    ASSUME InstallerFits', crew'.pc \in Commit, deed'.phase # "none", Transacting(crew.pc)'
    PROVE  Undisturbed'
BY DEF Undisturbed, InstallerAt, Committing

\* The services are stopped: the journal already says it may be so.
LEMMA AppKeeps ==
    ASSUME Undisturbed, StopApplication
    PROVE  Undisturbed'
<1> DEFINE t == [site EXCEPT !.api = 0]
           f == crew.found
           u == [crew.undo EXCEPT !.stopped = TRUE]
<1>1. crew.pc = "app" /\ Plain("app", "backup", t, u, deed) BY DEF StopApplication, Plain, Work
<1>2. /\ InstallerFits /\ IsSite(site) /\ DOMAIN crew = CrewFields
      /\ DOMAIN deed = {"phase", "undo", "found"} /\ Transacting("app")
      /\ deed.phase # "none" /\ deed.found = f /\ FoundOK(f, prior) /\ Aims
      /\ site.busy = FALSE /\ site.gate = "closed" /\ site.path = FALSE
      /\ deed.undo.stopped \/ f.units = "none"
      /\ Undoable(site, deed.undo, f, prior) /\ Undoable(site, crew.undo, f, prior)
      /\ DOMAIN deed.undo = UndoFields /\ DOMAIN crew.undo = UndoFields
      /\ crew.locked = TRUE /\ deed.phase # "services_started"
   BY <1>1, ColdFacts DEF Commit, Copying, Unmoved, Answered
<1>3. Agree(t, site, {"api"}) BY <1>2 DEF IsSite, SiteFields, Agree
<1>4. UndoIs(u, TRUE, crew.undo.changed, crew.undo.created, crew.undo.backup, crew.undo.dropped)
   BY <1>2, SetUndo
<1> HIDE DEF t, u
<1>5. /\ prior' = prior /\ DOMAIN luck' = DOMAIN luck /\ luck'.writes = luck.writes /\ deed' = deed
      /\ \/ site' = t /\ CrewIs(crew', "backup", u, f, TRUE)
         \/ site' = site /\ (crew' = Off \/ CrewIs(crew', "undo", crew.undo, f, crew.locked))
         \/ site' = t /\ (crew' = Off \/ CrewIs(crew', "undo", u, f, crew.locked))
   BY <1>1, <1>2, PlainShape, ZenonT(40)
<1>6. /\ ~deed.undo.changed /\ ~crew.undo.changed /\ deed.undo.created = {} /\ crew.undo.created = {}
      /\ deed.undo.backup = {} /\ crew.undo.backup = {} /\ deed.undo.stopped
   BY <1>2 DEF Transacting, Unmoved, Copying
<1>7. IsSite(t) /\ t.busy = FALSE /\ t.data = site.data /\ t.gate = "closed" /\ t.path = FALSE
   BY <1>2, <1>3 DEF IsSite, Agree
<1>8. Undoable(t, deed.undo, f, prior)
   BY <1>2, <1>3, <1>6 DEF Undoable, Agree, Halting
<1>9. Undoable(site, u, f, prior) /\ Undoable(t, u, f, prior)
   BY <1>2, <1>3, <1>4, <1>6, ZenonT(40) DEF Undoable, Agree, Halting, UndoIs, IsUndo
<1>10. InstallerFits' BY <1>2, <1>5, <1>7, ColdFits
<1>11. CASE site' = t /\ CrewIs(crew', "backup", u, f, TRUE)
  <2>1. Aims' BY <1>2, <1>5, <1>11 DEF Aims, CrewIs
  <2>2. Transacting(crew.pc)'
     BY <1>2, <1>4, <1>5, <1>6, <1>7, <1>8, <1>9, <1>11, <2>1
     DEF Transacting, CrewIs, UndoIs, Unmoved, Copying, Placing, Linked, Recorded, Answered
  <2>3. QED BY <1>2, <1>5, <1>10, <1>11, <2>2, GoesOn DEF Commit, Copying, CrewIs
<1>12. CASE site' = site /\ (crew' = Off \/ CrewIs(crew', "undo", crew.undo, f, crew.locked))
   BY <1>2, <1>5, <1>10, <1>12, ColdBreaks
<1>13. CASE site' = t /\ (crew' = Off \/ CrewIs(crew', "undo", u, f, crew.locked))
   BY <1>2, <1>5, <1>7, <1>8, <1>9, <1>10, <1>13, ColdBreaks
<1>14. QED BY <1>5, <1>11, <1>12, <1>13

\* The backup is the data, and stays so while the gate is closed.
LEMMA BackUpKeeps ==
    ASSUME Undisturbed, BackUp
    PROVE  Undisturbed'
<1> DEFINE f == crew.found
           u == [crew.undo EXCEPT !.backup = {site.data}]
           d == [deed.undo EXCEPT !.backup = {site.data}]
           entry == Noted("backed_up", d)
           sites == <<site>>
           half == <<IF deed' = deed THEN crew.undo ELSE u>>
<1>1. crew.pc = "backup" /\ prior' = prior /\ Work("backup", "plan", sites, u, entry, half)
   BY DEF BackUp, Work
<1>2. /\ InstallerFits /\ IsSite(site) /\ DOMAIN crew = CrewFields
      /\ DOMAIN deed = {"phase", "undo", "found"} /\ Transacting("backup")
      /\ deed.phase # "none" /\ deed.found = f /\ FoundOK(f, prior) /\ Aims
      /\ site.busy = FALSE /\ site.gate = "closed" /\ site.path = FALSE
      /\ deed.undo.stopped \/ f.units = "none"
      /\ Undoable(site, deed.undo, f, prior) /\ Undoable(site, crew.undo, f, prior)
      /\ DOMAIN deed.undo = UndoFields /\ DOMAIN crew.undo = UndoFields
      /\ crew.locked = TRUE
   BY <1>1, ColdFacts DEF Commit, Copying, Unmoved
<1>3. /\ UndoIs(u, crew.undo.stopped, crew.undo.changed, crew.undo.created, {site.data}, crew.undo.dropped)
      /\ UndoIs(d, deed.undo.stopped, deed.undo.changed, deed.undo.created, {site.data}, deed.undo.dropped)
   BY <1>2, SetUndo
<1>4. /\ DOMAIN entry = {"phase", "undo", "found"} /\ entry.phase = "backed_up"
      /\ entry.undo = d /\ entry.found = f
   BY <1>2, NotedShape
<1>5. Len(sites) = 1 /\ DOMAIN sites = {1} /\ sites[1] = site /\ half[1] = IF deed' = deed THEN crew.undo ELSE u
   OBVIOUS
<1> HIDE DEF u, d, entry, sites, half
<1>6. Worked("backup", "plan", sites, u, entry, half) BY <1>1, <1>2, WorkShape
<1>7. /\ DOMAIN luck' = DOMAIN luck /\ luck'.writes = luck.writes /\ site' = site
      /\ \/ deed' = entry /\ CrewIs(crew', "plan", u, f, TRUE)
         \/ (deed' = entry \/ deed' = deed) /\ (crew' = Off \/ CrewIs(crew', "undo", half[1], f, crew.locked))
   BY <1>5, <1>6 DEF Worked
<1>8. Undoable(site, d, f, prior) /\ Undoable(site, u, f, prior)
   BY <1>2, <1>3 DEF Undoable, Halting, UndoIs, IsUndo
<1>9. InstallerFits' BY <1>1, <1>2, <1>4, <1>7, ColdFits DEF IsSite
<1>10. CASE deed' = entry /\ CrewIs(crew', "plan", u, f, TRUE)
  <2>1. Aims' BY <1>1, <1>2, <1>10 DEF Aims, CrewIs
  <2>2. Transacting(crew.pc)'
     BY <1>1, <1>2, <1>3, <1>4, <1>7, <1>8, <1>10, <2>1
     DEF Transacting, CrewIs, UndoIs, Unmoved, Copying, Placing, Linked, Recorded, Answered
  <2>3. QED BY <1>4, <1>9, <1>10, <2>2, GoesOn DEF Commit, Copying, CrewIs
<1>11. CASE /\ deed' = entry \/ deed' = deed
            /\ crew' = Off \/ CrewIs(crew', "undo", half[1], f, crew.locked)
  <2>1. \/ deed'.undo = d /\ deed'.phase # "none" /\ deed'.found = f /\ d.stopped = deed.undo.stopped
        \/ deed'.undo = deed.undo /\ deed'.phase # "none" /\ deed'.found = f
     BY <1>2, <1>3, <1>4, <1>11 DEF UndoIs
  <2>2. Undoable(site', half[1], f, prior) BY <1>2, <1>5, <1>7, <1>8
  <2>3. CASE deed'.undo = d /\ deed'.phase # "none" /\ deed'.found = f /\ d.stopped = deed.undo.stopped
     BY <1>1, <1>2, <1>7, <1>8, <1>9, <1>11, <2>2, <2>3, ColdBreaks
  <2>4. CASE deed'.undo = deed.undo /\ deed'.phase # "none" /\ deed'.found = f
     BY <1>1, <1>2, <1>7, <1>9, <1>11, <2>2, <2>4, ColdBreaks
  <2>5. QED BY <2>1, <2>3, <2>4
<1>12. QED BY <1>7, <1>10, <1>11

\* The plan is read off the host before anything is created, and nothing the attempt
\* plans to create is there yet.
LEMMA PlanKeeps ==
    ASSUME Undisturbed, NotePlan
    PROVE  Undisturbed'
<1> DEFINE f == crew.found
           d == [deed.undo EXCEPT !.created = Plan]
           entry == Noted("published", d)
<1>1. crew.pc = "plan" /\ Plain("plan", "publish", site, crew.undo, entry)
   BY DEF NotePlan, Plain, Work
<1>2. /\ InstallerFits /\ IsSite(site) /\ DOMAIN crew = CrewFields
      /\ DOMAIN deed = {"phase", "undo", "found"} /\ Transacting("plan")
      /\ deed.phase # "none" /\ deed.found = f /\ FoundOK(f, prior) /\ Aims
      /\ site.busy = FALSE /\ site.gate = "closed" /\ site.path = FALSE
      /\ deed.undo.stopped \/ f.units = "none"
      /\ Undoable(site, deed.undo, f, prior) /\ Undoable(site, crew.undo, f, prior)
      /\ DOMAIN deed.undo = UndoFields /\ DOMAIN crew.undo = UndoFields
      /\ crew.locked = TRUE
   BY <1>1, ColdFacts DEF Commit, Copying, Unmoved
<1>3. UndoIs(d, deed.undo.stopped, deed.undo.changed, Plan, deed.undo.backup, deed.undo.dropped)
   BY <1>2, SetUndo
<1>4. /\ DOMAIN entry = {"phase", "undo", "found"} /\ entry.phase = "published"
      /\ entry.undo = d /\ entry.found = f
   BY <1>2, NotedShape
<1> HIDE DEF d, entry
<1>5. /\ prior' = prior /\ DOMAIN luck' = DOMAIN luck /\ luck'.writes = luck.writes /\ site' = site
      /\ \/ deed' = entry /\ CrewIs(crew', "publish", crew.undo, f, TRUE)
         \/ /\ deed' = entry \/ deed' = deed
            /\ crew' = Off \/ CrewIs(crew', "undo", crew.undo, f, crew.locked)
   BY <1>1, <1>2, PlainShape, ZenonT(40)
<1>6. /\ ~deed.undo.changed /\ ~crew.undo.changed /\ deed.undo.created = {} /\ crew.undo.created = {}
   BY <1>2 DEF Transacting, Unmoved, Copying
<1>7. site.base = f.base /\ site.made = prior.site.made BY <1>2, <1>6 DEF Undoable
<1>8. Plan = Wanted /\ site.made \ Plan = prior.site.made
  <2>1. Plan = Wanted BY <1>7 DEF Plan, Wanted
  <2>2. site.made \ Plan = site.made BY Zenon DEF Plan
  <2>3. QED BY <1>7, <2>1, <2>2
<1>9. Undoable(site, d, f, prior)
   BY <1>2, <1>3, <1>8 DEF Undoable, Halting, UndoIs, IsUndo
<1>10. InstallerFits' BY <1>2, <1>4, <1>5, ColdFits
<1>11. CASE deed' = entry /\ CrewIs(crew', "publish", crew.undo, f, TRUE)
  <2>1. Aims' BY <1>2, <1>5, <1>11 DEF Aims, CrewIs
  <2>2. Wanted' = Plan BY <1>5, <1>8, <1>11 DEF Wanted, CrewIs
  <2>3. Transacting(crew.pc)'
     BY <1>2, <1>3, <1>4, <1>5, <1>6, <1>9, <1>11, <2>1, <2>2
     DEF Transacting, CrewIs, UndoIs, Unmoved, Copying, Placing, Linked, Recorded, Answered
  <2>4. QED BY <1>4, <1>10, <1>11, <2>3, GoesOn DEF Commit, Placing, CrewIs
<1>12. CASE /\ deed' = entry
            /\ crew' = Off \/ CrewIs(crew', "undo", crew.undo, f, crew.locked)
  <2>1. d.stopped = deed.undo.stopped BY <1>3 DEF UndoIs
  <2>2. QED BY <1>2, <1>4, <1>5, <1>9, <1>10, <1>12, <2>1, ColdBreaks
<1>13. CASE /\ deed' = deed
            /\ crew' = Off \/ CrewIs(crew', "undo", crew.undo, f, crew.locked)
   BY <1>2, <1>5, <1>10, <1>13, ColdBreaks
<1>14. QED BY <1>5, <1>11, <1>12, <1>13

\* Creating some of what was planned is undone by removing what was planned, or what was
\* created.
LEMMA CreatedUndoable ==
    ASSUME NEW s, NEW t, NEW u, NEW w, NEW f, NEW p, NEW wanted, NEW some \in SUBSET wanted,
           Undoable(s, u, f, p), Agree(t, s, {"made"}), t.made = s.made \cup some,
           s.made = p.site.made, wanted \cap p.site.made = {}, ~u.changed,
           UndoIs(w, u.stopped, u.changed, some, u.backup, u.dropped)
               \/ UndoIs(w, u.stopped, u.changed, wanted, u.backup, u.dropped)
    PROVE  Undoable(t, w, f, p)
<1>1. t.made \ some = p.site.made /\ t.made \ wanted = p.site.made BY Zenon
<1>2. /\ t.base = s.base /\ t.units = s.units /\ t.store = s.store /\ t.data = s.data /\ t.gate = s.gate
      /\ t.enabled = s.enabled /\ t.path = s.path /\ t.api = s.api
   BY DEF Agree
<1>3. Up(s) <=> Up(t) BY <1>2 DEF Up, Runs
<1>4. /\ DOMAIN w = UndoFields
      /\ w.stopped = u.stopped /\ w.changed = u.changed /\ w.backup = u.backup /\ w.dropped = u.dropped
      /\ t.made \ w.created = p.site.made
   BY <1>1 DEF UndoIs
<1>5. IsUndo(w) /\ (Halting(w) <=> Halting(u)) BY <1>4 DEF Undoable, IsUndo, Halting
<1>6. QED BY <1>2, <1>3, <1>4, <1>5, Zenon DEF Undoable

\* The files are created: those of the journal's plan, whichever of them are there by now.
LEMMA FilesKeep ==
    ASSUME Undisturbed, Publish
    PROVE  Undisturbed'
<1> DEFINE f == crew.found
           wanted == deed.undo.created
           some(i) == {g \in wanted : i > CASE g = "env" -> 1 [] g = "key" -> 2
                                              [] g = "manager" -> 3 [] g = "release" -> 4}
           made(i) == [site EXCEPT !.made = @ \cup some(i)]
           undo(i) == [crew.undo EXCEPT !.created = some(i)]
           u == [crew.undo EXCEPT !.created = wanted]
           sites == [i \in 1..5 |-> made(i)]
           half == [i \in 1..5 |-> undo(i)]
<1>1. crew.pc = "publish" /\ prior' = prior /\ Work("publish", "switch", sites, u, deed, half)
   BY DEF Publish, Work
<1>2. /\ InstallerFits /\ IsSite(site) /\ DOMAIN crew = CrewFields
      /\ DOMAIN deed = {"phase", "undo", "found"} /\ Transacting("publish")
      /\ deed.phase # "none" /\ deed.found = f /\ FoundOK(f, prior) /\ Aims
      /\ site.busy = FALSE /\ site.gate = "closed" /\ site.path = FALSE
      /\ deed.undo.stopped \/ f.units = "none"
      /\ Undoable(site, deed.undo, f, prior) /\ Undoable(site, crew.undo, f, prior)
      /\ DOMAIN deed.undo = UndoFields /\ DOMAIN crew.undo = UndoFields
      /\ crew.locked = TRUE /\ deed.phase # "services_started"
   BY <1>1, ColdFacts DEF Commit, Placing, Copying, Unmoved, Answered
<1>3. ~deed.undo.changed /\ ~crew.undo.changed /\ crew.undo.created = {} /\ wanted = Wanted
   BY <1>2 DEF Transacting, Unmoved, Placing, Copying
<1>4. site.base = f.base /\ site.made = prior.site.made BY <1>2, <1>3 DEF Undoable
<1>5. /\ wanted \subseteq {"env", "key", "manager", "release"}
      /\ wanted \cap prior.site.made = {}
   BY <1>3 DEF Wanted
<1>6. some(1) = {} /\ some(5) = wanted BY <1>5
<1>7. \A i \in 1..5 : some(i) \in SUBSET wanted OBVIOUS
<1> HIDE DEF some
<1>8. \A i \in 1..5 : Agree(made(i), site, {"made"}) /\ made(i).made = site.made \cup some(i)
   BY <1>2 DEF IsSite, SiteFields, Agree
<1>9. \A i \in 1..5 : UndoIs(undo(i), crew.undo.stopped, crew.undo.changed, some(i), crew.undo.backup, crew.undo.dropped)
   BY <1>2, SetUndo
<1>10. UndoIs(u, crew.undo.stopped, crew.undo.changed, wanted, crew.undo.backup, crew.undo.dropped)
   BY <1>2, SetUndo
<1>11. UndoIs(deed.undo, deed.undo.stopped, deed.undo.changed, wanted, deed.undo.backup, deed.undo.dropped)
   BY <1>2 DEF UndoIs
<1> HIDE DEF made, undo, u
<1>12. Len(sites) = 5 /\ DOMAIN sites = 1..5 OBVIOUS
<1>13. \A i \in 1..5 : sites[i] = made(i) /\ half[i] = undo(i) OBVIOUS
<1> HIDE DEF sites, half, wanted
<1>14. Worked("publish", "switch", sites, u, deed, half) BY <1>1, <1>2, WorkShape
<1>15. /\ DOMAIN luck' = DOMAIN luck /\ luck'.writes = luck.writes /\ deed' = deed
       /\ \/ site' = made(5) /\ CrewIs(crew', "switch", u, f, TRUE)
          \/ \E i \in 1..5 : /\ site' = made(i)
                             /\ crew' = Off \/ CrewIs(crew', "undo", undo(i), f, crew.locked)
  <2>1. sites[5] = made(5) BY <1>13
  <2>2. QED BY <1>12, <1>13, <1>14, <2>1, ZenonT(40) DEF Worked
<1>16. ASSUME NEW i \in 1..5
       PROVE  /\ IsSite(made(i)) /\ made(i).data = site.data /\ made(i).busy = FALSE
              /\ made(i).gate = "closed" /\ made(i).path = FALSE
              /\ Undoable(made(i), deed.undo, f, prior) /\ Undoable(made(i), undo(i), f, prior)
              /\ Undoable(made(i), u, f, prior)
  <2>1. Agree(made(i), site, {"made"}) /\ made(i).made = site.made \cup some(i) BY <1>8
  <2>2. /\ IsSite(made(i)) /\ made(i).data = site.data /\ made(i).busy = FALSE
        /\ made(i).gate = "closed" /\ made(i).path = FALSE
     BY <1>2, <2>1 DEF IsSite, Agree
  <2>3. some(i) \in SUBSET wanted BY <1>7
  <2>4. Undoable(made(i), deed.undo, f, prior)
    <3>1. Undoable(site, deed.undo, f, prior) /\ ~deed.undo.changed BY <1>2, <1>3
    <3>2. QED BY <1>4, <1>5, <1>11, <2>1, <2>3, <3>1, CreatedUndoable
  <2>5. Undoable(made(i), undo(i), f, prior)
     BY <1>2, <1>3, <1>4, <1>5, <1>9, <2>1, <2>3, CreatedUndoable
  <2>6. Undoable(made(i), u, f, prior)
     BY <1>2, <1>3, <1>4, <1>5, <1>10, <2>1, <2>3, CreatedUndoable
  <2>7. QED BY <2>2, <2>4, <2>5, <2>6
<1>17. InstallerFits'
  <2>1. PICK i \in 1..5 : site' = made(i)
    <3>1. CASE site' = made(5) BY <3>1, 5 \in 1..5
    <3>2. CASE \E i \in 1..5 : site' = made(i) BY <3>2
    <3>3. QED BY <1>15, <3>1, <3>2
  <2>2. IsSite(site') /\ site'.data = site.data /\ site'.busy = FALSE BY <1>16, <2>1
  <2>3. crew' = Off \/ \E pc, w, g, locked : locked \in BOOLEAN /\ CrewIs(crew', pc, w, g, locked)
     BY <1>2, <1>15
  <2>4. QED BY <1>1, <1>2, <1>15, <2>2, <2>3, ColdFits
<1>18. CASE site' = made(5) /\ CrewIs(crew', "switch", u, f, TRUE)
  <2>1. Aims' BY <1>1, <1>2, <1>18 DEF Aims, CrewIs
  <2>2. made(5).made = site.made \cup wanted BY <1>6, <1>8
  <2>3. {"env", "key", "manager"} \subseteq made(5).made /\ (crew.target = Asked => "release" \in made(5).made)
    <3>1. Wanted \cup prior.site.made \subseteq made(5).made BY <1>3, <1>4, <2>2
    <3>2. {"env", "key", "manager"} \subseteq made(5).made BY <3>1 DEF Wanted
    <3>3. CASE f.base < crew.target BY <3>1, <3>2, <3>3 DEF Wanted
    <3>4. CASE ~(f.base < crew.target) /\ crew.target = Asked
      <4>1. f.base = Asked BY <1>2, <3>4 DEF FoundOK, Asked
      <4>2. "release" \in prior.site.made BY <1>2, <4>1 DEF FoundOK
      <4>3. QED BY <3>1, <3>2, <4>2
    <3>5. QED BY <3>2, <3>3, <3>4
  <2>4. crew'.target = crew.target /\ crew'.undo.created = wanted /\ crew'.undo = u
     BY <1>10, <1>18 DEF CrewIs, UndoIs
  <2>5. site' = made(5) /\ deed' = deed /\ crew'.pc = "switch" /\ crew'.found = f /\ crew'.locked = TRUE
     BY <1>15, <1>18 DEF CrewIs
  <2>6. u.changed = crew.undo.changed /\ deed.undo.created = wanted BY <1>10 DEF UndoIs, wanted
  <2>7. /\ site'.busy = FALSE /\ site'.gate = "closed" /\ site'.path = FALSE
        /\ Undoable(site', deed.undo, f, prior) /\ Undoable(site', u, f, prior)
    <3>1. 5 \in 1..5 OBVIOUS
    <3>2. QED BY <1>16, <2>5, <3>1
  <2>8. Transacting(crew.pc)'
     BY <1>1, <1>2, <1>3, <2>1, <2>3, <2>4, <2>5, <2>6, <2>7
     DEF Transacting, Unmoved, Copying, Placing, Linked, Recorded, Answered
  <2>9. QED BY <1>2, <1>15, <1>17, <2>5, <2>8, GoesOn DEF Commit, Placing
<1>19. ASSUME NEW i \in 1..5, site' = made(i),
              crew' = Off \/ CrewIs(crew', "undo", undo(i), f, crew.locked)
       PROVE  Undisturbed'
   BY <1>1, <1>2, <1>15, <1>16, <1>17, <1>19, ColdBreaks
<1>20. QED BY <1>15, <1>18, <1>19

\* Once the links are being changed, the undo says so, and the store that is dropped is
\* given back from what was found.
LEMMA LinkedUndoable ==
    ASSUME NEW s, NEW t, NEW u, NEW w, NEW f, NEW p, NEW drops \in BOOLEAN,
           Undoable(s, u, f, p), ~u.changed,
           Agree(t, s, {"store", "base", "manager", "units"}), ~drops => t.store = s.store,
           UndoIs(w, u.stopped, TRUE, u.created, u.backup, drops)
    PROVE  Undoable(t, w, f, p)
<1>1. /\ t.made = s.made /\ t.data = s.data /\ t.gate = s.gate /\ t.path = s.path
   BY DEF Agree
<1>2. /\ IsUndo(u) /\ (~p.overtaken => s.store = f.store) /\ s.made \ u.created = p.site.made
      /\ u.backup # {} => u.backup = {s.data} /\ s.gate = "closed" /\ ~s.path
   BY Zenon DEF Undoable
<1>3. IsUndo(w) /\ w.changed = TRUE /\ w.dropped = drops /\ w.created = u.created /\ w.backup = u.backup
   BY <1>2 DEF UndoIs, IsUndo
<1>4. Halting(w) BY <1>3 DEF Halting
<1>5. QED BY <1>1, <1>2, <1>3, <1>4, Zenon DEF Undoable

\* The links and the units are replaced one by one: from the first one on the journal says
\* they may differ, so each state in between can be undone.
LEMMA SwitchKeeps ==
    ASSUME Undisturbed, SwitchLinks
    PROVE  Undisturbed'
<1> DEFINE f == crew.found
           s1 == IF Drops THEN [site EXCEPT !.store = 0] ELSE site
           s2 == [s1 EXCEPT !.base = crew.target]
           s3 == [s2 EXCEPT !.manager = 2]
           s4 == [s3 EXCEPT !.units = Templates]
           u == [crew.undo EXCEPT !.changed = TRUE, !.dropped = Drops]
           d == [deed.undo EXCEPT !.changed = TRUE, !.dropped = Drops]
           entry == Noted("units", d)
           sites == <<site, s1, s2, s3, s4>>
           half == [i \in 1..5 |-> u]
<1>1. crew.pc = "switch" /\ prior' = prior /\ Work("switch", "initialise", sites, u, entry, half)
   BY DEF SwitchLinks, Work
<1>2. /\ InstallerFits /\ IsSite(site) /\ DOMAIN crew = CrewFields
      /\ DOMAIN deed = {"phase", "undo", "found"} /\ Transacting("switch")
      /\ deed.phase # "none" /\ deed.found = f /\ FoundOK(f, prior) /\ Aims
      /\ site.busy = FALSE /\ site.gate = "closed" /\ site.path = FALSE
      /\ deed.undo.stopped \/ f.units = "none"
      /\ Undoable(site, deed.undo, f, prior) /\ Undoable(site, crew.undo, f, prior)
      /\ DOMAIN deed.undo = UndoFields /\ DOMAIN crew.undo = UndoFields
      /\ crew.locked = TRUE /\ deed.phase # "services_started"
   BY <1>1, ColdFacts DEF Commit, Placing, Copying, Unmoved, Answered
<1>3. /\ ~deed.undo.changed /\ ~crew.undo.changed /\ crew.undo.created = deed.undo.created
      /\ {"env", "key", "manager"} \subseteq site.made
      /\ crew.target = Asked => "release" \in site.made
   BY <1>2 DEF Transacting, Unmoved, Placing, Copying
<1>4. /\ UndoIs(u, crew.undo.stopped, TRUE, crew.undo.created, crew.undo.backup, Drops)
      /\ UndoIs(d, deed.undo.stopped, TRUE, deed.undo.created, deed.undo.backup, Drops)
   BY <1>2, SetUndo
<1>5. /\ DOMAIN entry = {"phase", "undo", "found"} /\ entry.phase = "units"
      /\ entry.undo = d /\ entry.found = f
   BY <1>2, NotedShape
<1> DEFINE fs == {"store", "base", "manager", "units"}
<1>6. Agree(s1, site, fs) /\ s1.store \in {site.store, 0} /\ (~Drops => s1.store = site.store)
      /\ s1.base = site.base
   BY <1>2 DEF IsSite, SiteFields, Agree
<1> HIDE DEF s1
<1>7. Agree(s2, site, fs) /\ s2.store = s1.store /\ s2.base = crew.target
   BY <1>6 DEF SiteFields, Agree
<1> HIDE DEF s2
<1>8. Agree(s3, site, fs) /\ s3.store = s1.store /\ s3.base = crew.target /\ s3.manager = 2
   BY <1>7 DEF SiteFields, Agree
<1> HIDE DEF s3
<1>9. Agree(s4, site, fs) /\ s4.store = s1.store /\ s4.base = crew.target /\ s4.manager = 2
      /\ s4.units = "new"
   BY <1>8 DEF SiteFields, Agree, Templates
<1> HIDE DEF s4, u, d, entry
<1>10. /\ Len(sites) = 5 /\ DOMAIN sites = 1..5
       /\ sites[1] = site /\ sites[2] = s1 /\ sites[3] = s2 /\ sites[4] = s3 /\ sites[5] = s4
       /\ \A i \in 1..5 : half[i] = u
   OBVIOUS
<1> HIDE DEF sites, half
<1>11. Worked("switch", "initialise", sites, u, entry, half) BY <1>1, <1>2, WorkShape
<1>12. ASSUME NEW t \in {site, s1, s2, s3, s4}
       PROVE  /\ IsSite(t) /\ t.data = site.data /\ t.busy = FALSE /\ t.gate = "closed" /\ t.path = FALSE
              /\ Undoable(t, u, f, prior) /\ Undoable(t, d, f, prior)
  <2>1. crew.target \in 0..2 BY <1>2 DEF Aims, InstallerFits
  <2>2. /\ Agree(t, site, fs) /\ (~Drops => t.store = site.store) /\ t.store \in {site.store, 0}
        /\ t.base \in {site.base, crew.target}
    <3>1. Agree(site, site, fs) BY <1>2 DEF Agree, IsSite
    <3>2. QED BY <1>6, <1>7, <1>8, <1>9, <3>1
  <2>3. IsSite(t) /\ t.data = site.data /\ t.busy = FALSE /\ t.gate = "closed" /\ t.path = FALSE
     BY <1>2, <2>1, <2>2 DEF IsSite, Agree
  <2>4. Drops \in BOOLEAN BY DEF Drops
  <2>5. Undoable(t, u, f, prior)
    <3>1. Undoable(site, crew.undo, f, prior) /\ ~crew.undo.changed BY <1>2, <1>3
    <3>2. QED BY <1>4, <2>2, <2>4, <3>1, LinkedUndoable, ZenonT(40)
  <2>6. Undoable(t, d, f, prior)
    <3>1. Undoable(site, deed.undo, f, prior) /\ ~deed.undo.changed BY <1>2, <1>3
    <3>2. QED BY <1>4, <2>2, <2>4, <3>1, LinkedUndoable, ZenonT(40)
  <2>7. QED BY <2>3, <2>5, <2>6
<1>13. /\ DOMAIN luck' = DOMAIN luck /\ luck'.writes = luck.writes
       /\ \/ site' = s4 /\ deed' = entry /\ CrewIs(crew', "initialise", u, f, TRUE)
          \/ /\ site' \in {site, s1, s2, s3, s4} /\ deed' = entry
             /\ crew' = Off \/ CrewIs(crew', "undo", u, f, crew.locked)
          \/ /\ site' = site /\ deed' = deed
             /\ crew' = Off \/ CrewIs(crew', "undo", u, f, crew.locked)
  <2>1. \/ site' = s4 /\ deed' = entry /\ CrewIs(crew', "initialise", u, f, TRUE)
        \/ \E i \in 1..5 :
              /\ site' = sites[i] /\ (deed' = entry \/ (i = 1 /\ deed' = deed))
              /\ crew' = Off \/ CrewIs(crew', "undo", half[i], f, crew.locked)
     BY <1>10, <1>11 DEF Worked
  <2>2. CASE \E i \in 1..5 :
                /\ site' = sites[i] /\ (deed' = entry \/ (i = 1 /\ deed' = deed))
                /\ crew' = Off \/ CrewIs(crew', "undo", half[i], f, crew.locked)
    <3>1. PICK i \in 1..5 :
             /\ site' = sites[i] /\ (deed' = entry \/ (i = 1 /\ deed' = deed))
             /\ crew' = Off \/ CrewIs(crew', "undo", half[i], f, crew.locked)
       BY <2>2
    <3>2. half[i] = u
      <4>1. \A j \in 1..5 : half[j] = u BY <1>10
      <4>2. QED BY <4>1
    <3>3. sites[i] \in {site, s1, s2, s3, s4} /\ (i = 1 => sites[i] = site)
      <4>1. i = 1 \/ i = 2 \/ i = 3 \/ i = 4 \/ i = 5 OBVIOUS
      <4>2. QED BY <1>10, <4>1
    <3>4. QED BY <1>11, <3>1, <3>2, <3>3 DEF Worked
  <2>3. QED BY <1>11, <2>1, <2>2 DEF Worked
<1>14. InstallerFits'
  <2>1. site' \in {site, s1, s2, s3, s4} BY <1>13
  <2>2. IsSite(site') /\ site'.data = site.data /\ site'.busy = FALSE BY <1>12, <2>1
  <2>3. DOMAIN deed' = {"phase", "undo", "found"} BY <1>2, <1>5, <1>13
  <2>4. crew' = Off \/ \E pc, w, g, locked : locked \in BOOLEAN /\ CrewIs(crew', pc, w, g, locked)
     BY <1>2, <1>13
  <2>5. QED BY <1>1, <1>2, <1>13, <2>2, <2>3, <2>4, ColdFits
<1>15. u.changed = TRUE /\ d.changed = TRUE /\ u.created = crew.undo.created /\ d.created = deed.undo.created
       /\ d.stopped = deed.undo.stopped
   BY <1>4 DEF UndoIs
<1>16. CASE site' = s4 /\ deed' = entry /\ CrewIs(crew', "initialise", u, f, TRUE)
  <2>1. Aims' BY <1>1, <1>2, <1>16 DEF Aims, CrewIs
  <2>2. /\ s4.busy = FALSE /\ s4.gate = "closed" /\ s4.path = FALSE
        /\ Undoable(s4, u, f, prior) /\ Undoable(s4, d, f, prior)
     BY <1>12
  <2>3. s4.made = site.made BY <1>9 DEF Agree
  <2>4. Transacting(crew.pc)'
     BY <1>1, <1>2, <1>3, <1>5, <1>9, <1>15, <1>16, <2>1, <2>2, <2>3
     DEF Transacting, CrewIs, Unmoved, Copying, Placing, Linked, Recorded, Answered
  <2>5. QED BY <1>5, <1>14, <1>16, <2>4, GoesOn DEF Commit, Linked, CrewIs
<1>17. CASE /\ site' \in {site, s1, s2, s3, s4} /\ deed' = entry
            /\ crew' = Off \/ CrewIs(crew', "undo", u, f, crew.locked)
   BY <1>1, <1>2, <1>5, <1>12, <1>14, <1>15, <1>17, ColdBreaks
<1>18. CASE /\ site' = site /\ deed' = deed
            /\ crew' = Off \/ CrewIs(crew', "undo", u, f, crew.locked)
  <2>1. Undoable(site, u, f, prior) BY <1>12
  <2>2. QED BY <1>1, <1>2, <1>14, <1>18, <2>1, ColdBreaks
<1>19. QED BY <1>13, <1>16, <1>17, <1>18

\* After the links, what is done to the record and the services is undone with them.
LEMMA ChangedUndoable ==
    ASSUME NEW s, NEW t, NEW u, NEW f, NEW p, Undoable(s, u, f, p), u.changed,
           Agree(t, s, {"record", "api", "enabled", "path"}), t.path = FALSE
    PROVE  Undoable(t, u, f, p)
<1>1. /\ t.base = s.base /\ t.units = s.units /\ t.store = s.store /\ t.made = s.made
      /\ t.data = s.data /\ t.gate = s.gate
   BY DEF Agree
<1>2. Halting(u) BY DEF Halting
<1>3. QED BY <1>1, <1>2, Zenon DEF Undoable

\* What holds from the new links to the reopened gate.
LEMMA LinkedFacts ==
    ASSUME Undisturbed, crew.pc \in Linked \cup Recorded, crew.pc # "done"
    PROVE  /\ InstallerFits /\ IsSite(site) /\ DOMAIN crew = CrewFields
           /\ DOMAIN deed = {"phase", "undo", "found"} /\ Transacting(crew.pc)
           /\ deed.phase # "none" /\ deed.found = crew.found /\ FoundOK(crew.found, prior) /\ Aims
           /\ site.busy = FALSE /\ site.gate = "closed" /\ site.path = FALSE
           /\ deed.undo.stopped \/ crew.found.units = "none"
           /\ Undoable(site, deed.undo, crew.found, prior) /\ Undoable(site, crew.undo, crew.found, prior)
           /\ crew.locked \in BOOLEAN /\ (crew.locked \/ crew.pc = "record")
           /\ deed.phase = "services_started" <=> crew.pc \in Answered
           /\ deed.undo.changed /\ crew.undo.changed /\ crew.undo.created = deed.undo.created
           /\ site.base = crew.target /\ site.manager = 2 /\ site.units = "new"
           /\ {"env", "key", "manager"} \subseteq site.made
           /\ crew.target = Asked => "release" \in site.made
           /\ crew.pc \in Recorded => site.record = 2
           /\ crew.pc \in Recorded \ {"start"} => site.enabled /\ Up(site)
<1>1. crew.pc \in Commit \ (Unmoved \cup {"done"}) BY DEF Commit, Linked, Recorded, Answered, Unmoved
<1>2. Transacting(crew.pc) BY <1>1, ColdFacts
<1>3. /\ deed.undo.changed /\ crew.undo.changed /\ crew.undo.created = deed.undo.created
      /\ site.base = crew.target /\ site.manager = 2 /\ site.units = "new"
      /\ {"env", "key", "manager"} \subseteq site.made
      /\ crew.target = Asked => "release" \in site.made
      /\ crew.pc \in Recorded => site.record = 2
      /\ crew.pc \in Recorded \ {"start"} => site.enabled /\ Up(site)
   BY <1>2 DEF Transacting
<1>4. QED BY <1>1, <1>3, ColdFacts

\* The lock is given up for the updater's initialisation: its path unit is stopped, so it
\* cannot run.
LEMMA GiveUpLockKeeps ==
    ASSUME Undisturbed, GiveUpLock
    PROVE  Undisturbed'
<1>1. crew.pc = "initialise" /\ UNCHANGED <<site, deed, prior, luck>> BY DEF GiveUpLock
<1>2. /\ InstallerFits /\ DOMAIN crew = CrewFields /\ Transacting("initialise") /\ deed.phase # "none"
   BY <1>1, LinkedFacts DEF Linked, Recorded, Answered
<1>3. CrewIs(crew', "record", crew.undo, crew.found, FALSE) BY <1>2, SetCrew DEF GiveUpLock
<1>4. InstallerFits' BY <1>1, <1>2, <1>3, CrewFits DEF CrewIs
<1>5. Aims' BY <1>1, <1>2, <1>3 DEF Aims, CrewIs, Transacting
<1>6. Transacting(crew.pc)'
   BY <1>1, <1>2, <1>3, <1>5
   DEF Transacting, CrewIs, Up, Unmoved, Copying, Placing, Linked, Recorded, Answered
<1>7. QED BY <1>1, <1>2, <1>3, <1>4, <1>6, GoesOn DEF Commit, Linked, CrewIs

\* The installation record is written under the lock.
LEMMA InitialiseKeeps ==
    ASSUME Undisturbed, Initialise
    PROVE  Undisturbed'
<1> DEFINE f == crew.found
           t == [site EXCEPT !.record = 2]
           entry == Noted("initialized", deed.undo)
<1>1. crew.pc = "record" BY DEF Initialise, Plain, Work
<1>2. /\ InstallerFits /\ IsSite(site) /\ DOMAIN crew = CrewFields
      /\ DOMAIN deed = {"phase", "undo", "found"} /\ Transacting("record")
      /\ deed.phase # "none" /\ deed.found = f /\ FoundOK(f, prior) /\ Aims
      /\ site.busy = FALSE /\ site.gate = "closed" /\ site.path = FALSE
      /\ deed.undo.stopped \/ f.units = "none"
      /\ Undoable(site, deed.undo, f, prior) /\ Undoable(site, crew.undo, f, prior)
      /\ crew.locked \in BOOLEAN
      /\ deed.undo.changed /\ crew.undo.changed /\ crew.undo.created = deed.undo.created
      /\ site.base = crew.target /\ site.manager = 2 /\ site.units = "new"
      /\ {"env", "key", "manager"} \subseteq site.made
      /\ crew.target = Asked => "release" \in site.made
   BY <1>1, LinkedFacts DEF Linked, Recorded, Answered
<1>3. Plain("record", "start", t, crew.undo, entry) BY <1>2 DEF Initialise
<1>4. Agree(t, site, {"record"}) /\ t.record = 2 BY <1>2 DEF IsSite, SiteFields, Agree
<1>5. /\ DOMAIN entry = {"phase", "undo", "found"} /\ entry.phase = "initialized"
      /\ entry.undo = deed.undo /\ entry.found = f
   BY <1>2, NotedShape
<1> HIDE DEF t, entry
<1>6. /\ prior' = prior /\ DOMAIN luck' = DOMAIN luck /\ luck'.writes = luck.writes
      /\ \/ site' = t /\ deed' = entry /\ CrewIs(crew', "start", crew.undo, f, TRUE)
         \/ /\ site' = site /\ (deed' = entry \/ deed' = deed)
            /\ crew' = Off \/ CrewIs(crew', "undo", crew.undo, f, crew.locked)
         \/ /\ site' = t /\ deed' = entry
            /\ crew' = Off \/ CrewIs(crew', "undo", crew.undo, f, crew.locked)
   BY <1>2, <1>3, PlainShape, Zenon
<1>7. IsSite(t) /\ t.busy = FALSE /\ t.data = site.data /\ t.gate = "closed" /\ t.path = FALSE
   BY <1>2, <1>4 DEF IsSite, Agree
<1>8. Undoable(t, deed.undo, f, prior) /\ Undoable(t, crew.undo, f, prior)
  <2>1. Agree(t, site, {"record", "api", "enabled", "path"}) BY <1>4 DEF Agree
  <2>2. QED BY <1>2, <1>7, <2>1, ChangedUndoable
<1>9. InstallerFits' BY <1>2, <1>5, <1>6, <1>7, ColdFits, ZenonT(40)
<1>10. deed'.phase # "none" /\ deed'.found = f /\ deed'.undo = deed.undo BY <1>2, <1>5, <1>6
<1>11. CASE site' = t /\ deed' = entry /\ CrewIs(crew', "start", crew.undo, f, TRUE)
  <2>1. Aims' BY <1>2, <1>6, <1>11 DEF Aims, CrewIs
  <2>2. Transacting(crew.pc)'
     BY <1>2, <1>4, <1>5, <1>6, <1>7, <1>8, <1>11, <2>1
     DEF Transacting, CrewIs, Agree, Unmoved, Copying, Placing, Linked, Recorded, Answered
  <2>3. QED BY <1>9, <1>10, <1>11, <2>2, GoesOn DEF Commit, Recorded, CrewIs
<1>12. CASE /\ site' = site
            /\ crew' = Off \/ CrewIs(crew', "undo", crew.undo, f, crew.locked)
   BY <1>2, <1>6, <1>9, <1>10, <1>12, ColdBreaks
<1>13. CASE /\ site' = t
            /\ crew' = Off \/ CrewIs(crew', "undo", crew.undo, f, crew.locked)
   BY <1>2, <1>6, <1>7, <1>8, <1>9, <1>10, <1>13, ColdBreaks
<1>14. QED BY <1>6, <1>11, <1>12, <1>13

\* The API is enabled and started from the new links.
LEMMA StartKeeps ==
    ASSUME Undisturbed, StartApi
    PROVE  Undisturbed'
<1> DEFINE f == crew.found
           able == [site EXCEPT !.enabled = TRUE, !.path = FALSE]
           up == [able EXCEPT !.api = Runs(site)]
           entry == Noted("api_started", deed.undo)
           sites == <<site, able, up>>
           half == [i \in 1..3 |-> crew.undo]
<1>1. crew.pc = "start" /\ prior' = prior /\ Work("start", "health", sites, crew.undo, entry, half)
   BY DEF StartApi, Work
<1>2. /\ InstallerFits /\ IsSite(site) /\ DOMAIN crew = CrewFields
      /\ DOMAIN deed = {"phase", "undo", "found"} /\ Transacting("start")
      /\ deed.phase # "none" /\ deed.found = f /\ FoundOK(f, prior) /\ Aims
      /\ site.busy = FALSE /\ site.gate = "closed" /\ site.path = FALSE
      /\ deed.undo.stopped \/ f.units = "none"
      /\ Undoable(site, deed.undo, f, prior) /\ Undoable(site, crew.undo, f, prior)
      /\ crew.locked \in BOOLEAN
      /\ deed.undo.changed /\ crew.undo.changed /\ crew.undo.created = deed.undo.created
      /\ site.base = crew.target /\ site.manager = 2 /\ site.units = "new"
      /\ {"env", "key", "manager"} \subseteq site.made
      /\ crew.target = Asked => "release" \in site.made
      /\ site.record = 2
   BY <1>1, LinkedFacts DEF Linked, Recorded, Answered
<1>3. Agree(able, site, {"enabled", "path"}) /\ able.enabled = TRUE /\ able.path = FALSE
   BY <1>2 DEF IsSite, SiteFields, Agree
<1> HIDE DEF able
<1>4. /\ Agree(up, site, {"enabled", "path", "api"}) /\ up.enabled = TRUE /\ up.path = FALSE
      /\ up.api = Runs(site)
   BY <1>3 DEF SiteFields, Agree
<1>5. /\ DOMAIN entry = {"phase", "undo", "found"} /\ entry.phase = "api_started"
      /\ entry.undo = deed.undo /\ entry.found = f
   BY <1>2, NotedShape
<1> HIDE DEF up, entry
<1>6. /\ Len(sites) = 3 /\ DOMAIN sites = 1..3 /\ sites[1] = site /\ sites[2] = able /\ sites[3] = up
      /\ half[1] = crew.undo /\ half[2] = crew.undo /\ half[3] = crew.undo
   OBVIOUS
<1> HIDE DEF sites, half
<1>7. Worked("start", "health", sites, crew.undo, entry, half) BY <1>1, <1>2, WorkShape
<1>8. /\ DOMAIN luck' = DOMAIN luck /\ luck'.writes = luck.writes
      /\ \/ site' = up /\ deed' = entry /\ CrewIs(crew', "health", crew.undo, f, TRUE)
         \/ /\ site' \in {site, able, up} /\ (deed' = entry \/ deed' = deed)
            /\ crew' = Off \/ CrewIs(crew', "undo", crew.undo, f, crew.locked)
  <2>1. \A i \in DOMAIN sites : i = 1 \/ i = 2 \/ i = 3 BY <1>6
  <2>2. QED BY <1>6, <1>7, <2>1 DEF Worked
<1>9. ASSUME NEW t \in {site, able, up}
      PROVE  /\ IsSite(t) /\ t.data = site.data /\ t.busy = FALSE /\ t.gate = "closed" /\ t.path = FALSE
             /\ Undoable(t, crew.undo, f, prior) /\ Undoable(t, deed.undo, f, prior)
  <2>1. Agree(t, site, {"record", "api", "enabled", "path"}) /\ t.path = FALSE
        /\ t.enabled \in {site.enabled, TRUE}
     BY <1>2, <1>3, <1>4, ZenonT(40) DEF Agree, IsSite
  <2>2. IsSite(t) /\ t.data = site.data /\ t.busy = FALSE /\ t.gate = "closed"
     BY <1>2, <2>1 DEF IsSite, Agree
  <2>3. QED BY <1>2, <2>1, <2>2, ChangedUndoable
<1>10. site' \in {site, able, up} /\ deed'.phase # "none" /\ deed'.found = f /\ deed'.undo = deed.undo
       /\ DOMAIN deed' = {"phase", "undo", "found"}
   BY <1>2, <1>5, <1>8
<1>11. InstallerFits'
  <2>1. IsSite(site') /\ site'.data = site.data /\ site'.busy = FALSE BY <1>9, <1>10
  <2>2. crew' = Off \/ \E pc, w, g, locked : locked \in BOOLEAN /\ CrewIs(crew', pc, w, g, locked)
     BY <1>2, <1>8, ZenonT(40)
  <2>3. QED BY <1>1, <1>2, <1>8, <1>10, <2>1, <2>2, ColdFits
<1>12. CASE site' = up /\ deed' = entry /\ CrewIs(crew', "health", crew.undo, f, TRUE)
  <2>1. Aims' BY <1>1, <1>2, <1>12 DEF Aims, CrewIs
  <2>2. /\ up.busy = FALSE /\ up.gate = "closed"
        /\ Undoable(up, crew.undo, f, prior) /\ Undoable(up, deed.undo, f, prior)
     BY <1>9
  <2>3. Up(up) BY <1>4 DEF Up, Runs, Agree
  <2>4. Transacting(crew.pc)'
     BY <1>1, <1>2, <1>4, <1>5, <1>12, <2>1, <2>2, <2>3
     DEF Transacting, CrewIs, Agree, Unmoved, Copying, Placing, Linked, Recorded, Answered
  <2>5. QED BY <1>10, <1>11, <1>12, <2>4, GoesOn DEF Commit, Recorded, CrewIs
<1>13. CASE crew' = Off \/ CrewIs(crew', "undo", crew.undo, f, crew.locked)
   BY <1>1, <1>2, <1>9, <1>10, <1>11, <1>13, ColdBreaks
<1>14. QED BY <1>8, <1>12, <1>13

\* The API that answers with the expected version runs at least the version installed.
LEMMA HealthKeeps ==
    ASSUME Undisturbed, Health
    PROVE  Undisturbed'
<1> DEFINE f == crew.found
           entry == Noted("services_started", deed.undo)
<1>1. crew.pc = "health" BY DEF Health, Plain, Work
<1>2. /\ InstallerFits /\ IsSite(site) /\ DOMAIN crew = CrewFields
      /\ DOMAIN deed = {"phase", "undo", "found"} /\ Transacting("health")
      /\ deed.phase # "none" /\ deed.found = f /\ FoundOK(f, prior) /\ Aims
      /\ site.busy = FALSE /\ site.gate = "closed" /\ site.path = FALSE
      /\ deed.undo.stopped \/ f.units = "none"
      /\ Undoable(site, deed.undo, f, prior) /\ Undoable(site, crew.undo, f, prior)
      /\ crew.locked \in BOOLEAN
      /\ deed.undo.changed /\ crew.undo.changed /\ crew.undo.created = deed.undo.created
      /\ site.base = crew.target /\ site.manager = 2 /\ site.units = "new"
      /\ {"env", "key", "manager"} \subseteq site.made
      /\ crew.target = Asked => "release" \in site.made
      /\ site.record = 2 /\ site.enabled /\ Up(site)
   BY <1>1, LinkedFacts DEF Linked, Recorded, Answered
<1>3. /\ DOMAIN entry = {"phase", "undo", "found"} /\ entry.phase = "services_started"
      /\ entry.undo = deed.undo /\ entry.found = f
   BY <1>2, NotedShape
<1> HIDE DEF entry
<1>4. CASE Responds(Expected)
  <2>1. Plain("health", "probe", site, crew.undo, entry) BY <1>4 DEF Health, entry
  <2>2. /\ prior' = prior /\ DOMAIN luck' = DOMAIN luck /\ luck'.writes = luck.writes /\ site' = site
        /\ \/ deed' = entry /\ CrewIs(crew', "probe", crew.undo, f, TRUE)
           \/ /\ deed' = entry \/ deed' = deed
              /\ crew' = Off \/ CrewIs(crew', "undo", crew.undo, f, crew.locked)
     BY <1>2, <2>1, PlainShape, ZenonT(40)
  <2>3. deed'.phase # "none" /\ deed'.found = f /\ deed'.undo = deed.undo
        /\ DOMAIN deed' = {"phase", "undo", "found"}
     BY <1>2, <1>3, <2>2
  <2>4. InstallerFits' BY <1>2, <2>2, <2>3, ColdFits, ZenonT(40)
  <2>5. Runs(site) >= prior.goal
    <3>1. site.api = Expected BY <1>4 DEF Responds
    <3>2. Runs(site) = Expected BY <1>2, <3>1 DEF Up
    <3>3. crew.target = prior.goal /\ crew.target \in 0..2 /\ f.store \in Nat
       BY <1>2 DEF Aims, FoundOK, InstallerFits
    <3>4. Expected >= prior.goal BY <3>3 DEF Expected
    <3>5. QED BY <3>2, <3>4
  <2>6. Installed(site)
    <3>1. site.base = prior.goal BY <1>2 DEF Aims
    <3>2. site.base = Asked => "release" \in site.made BY <1>2
    <3>3. QED BY <1>2, <2>5, <3>1, <3>2 DEF Installed
  <2>7. CASE deed' = entry /\ CrewIs(crew', "probe", crew.undo, f, TRUE)
    <3>1. Aims' BY <1>2, <2>2, <2>7 DEF Aims, CrewIs
    <3>2. Installed(site)' BY <2>2, <2>6 DEF Installed
    <3>3. Transacting(crew.pc)'
       BY <1>2, <1>3, <2>2, <2>7, <3>1, <3>2
       DEF Transacting, CrewIs, Unmoved, Copying, Placing, Linked, Recorded, Answered
    <3>4. QED BY <2>3, <2>4, <2>7, <3>3, GoesOn DEF Commit, Recorded, Answered, CrewIs
  <2>8. CASE crew' = Off \/ CrewIs(crew', "undo", crew.undo, f, crew.locked)
     BY <1>2, <2>2, <2>3, <2>4, <2>8, ColdBreaks
  <2>9. QED BY <2>2, <2>7, <2>8
<1>5. CASE ~Responds(Expected)
  <2>1. UNCHANGED <<site, deed, prior, luck>> /\ crew' = [crew EXCEPT !.pc = "undo"] BY <1>5 DEF Health
  <2>2. CrewIs(crew', "undo", crew.undo, f, crew.locked) BY <1>2, <2>1, SetCrew
  <2>3. InstallerFits' BY <1>2, <2>1, <2>2, ColdFits, ZenonT(40)
  <2>4. QED BY <1>2, <2>1, <2>2, <2>3, ColdBreaks
<1>6. QED BY <1>4, <1>5

\* The capability probe changes nothing.
LEMMA ProbeKeeps ==
    ASSUME Undisturbed, ProbeCapability
    PROVE  Undisturbed'
<1> DEFINE f == crew.found
<1>1. crew.pc = "probe" /\ Plain("probe", "open", site, crew.undo, deed)
   BY DEF ProbeCapability, Plain, Work
<1>2. /\ InstallerFits /\ IsSite(site) /\ DOMAIN crew = CrewFields
      /\ DOMAIN deed = {"phase", "undo", "found"} /\ Transacting("probe")
      /\ deed.phase # "none" /\ deed.found = f /\ FoundOK(f, prior) /\ Aims
      /\ site.busy = FALSE /\ site.gate = "closed" /\ site.path = FALSE
      /\ deed.undo.stopped \/ f.units = "none"
      /\ Undoable(site, deed.undo, f, prior) /\ Undoable(site, crew.undo, f, prior)
      /\ crew.locked \in BOOLEAN
      /\ deed.undo.changed /\ crew.undo.changed
   BY <1>1, LinkedFacts DEF Linked, Recorded, Answered
<1>3. /\ prior' = prior /\ DOMAIN luck' = DOMAIN luck /\ luck'.writes = luck.writes /\ site' = site
      /\ deed' = deed
      /\ \/ CrewIs(crew', "open", crew.undo, f, TRUE)
         \/ crew' = Off \/ CrewIs(crew', "undo", crew.undo, f, crew.locked)
   BY <1>1, <1>2, PlainShape, ZenonT(40)
<1>4. InstallerFits' BY <1>2, <1>3, ColdFits
<1>5. CASE CrewIs(crew', "open", crew.undo, f, TRUE)
  <2>1. Installed(site) BY <1>2 DEF Transacting, Answered
  <2>2. Installed(site)' /\ Aims' BY <1>2, <1>3, <1>5, <2>1 DEF Installed, Aims, CrewIs
  <2>3. Transacting(crew.pc)'
     BY <1>2, <1>3, <1>5, <2>2
     DEF Transacting, CrewIs, Up, Unmoved, Copying, Placing, Linked, Recorded, Answered
  <2>4. QED BY <1>2, <1>3, <1>4, <1>5, <2>3, GoesOn DEF Commit, Recorded, Answered, CrewIs
<1>6. CASE crew' = Off \/ CrewIs(crew', "undo", crew.undo, f, crew.locked)
   BY <1>2, <1>3, <1>4, <1>6, ColdBreaks
<1>7. QED BY <1>3, <1>5, <1>6

\* The gate is opened in front of an installation that is finished, so that a journal
\* that is left behind is that of an attempt to be kept.
LEMMA OpenKeeps ==
    ASSUME Undisturbed, OpenGate
    PROVE  Undisturbed'
<1> DEFINE f == crew.found
           t == [site EXCEPT !.gate = "open"]
<1>1. crew.pc = "open" /\ deed' = deed /\ prior' = prior BY DEF OpenGate
<1>2. /\ InstallerFits /\ IsSite(site) /\ DOMAIN crew = CrewFields
      /\ DOMAIN deed = {"phase", "undo", "found"} /\ Transacting("open")
      /\ deed.phase # "none" /\ deed.found = f /\ FoundOK(f, prior) /\ Aims
      /\ site.busy = FALSE /\ site.gate = "closed" /\ site.path = FALSE
      /\ deed.undo.stopped \/ f.units = "none"
      /\ Undoable(site, deed.undo, f, prior) /\ Undoable(site, crew.undo, f, prior)
      /\ crew.locked \in BOOLEAN /\ crew.locked
      /\ deed.undo.changed /\ crew.undo.changed /\ crew.undo.created = deed.undo.created
      /\ site.base = crew.target /\ site.manager = 2 /\ site.units = "new"
      /\ {"env", "key", "manager"} \subseteq site.made
      /\ crew.target = Asked => "release" \in site.made
      /\ site.record = 2 /\ site.enabled /\ Up(site)
      /\ deed.phase = "services_started"
   BY <1>1, LinkedFacts DEF Linked, Recorded, Answered
<1>3. Agree(t, site, {"gate"}) /\ t.gate = "open" BY <1>2 DEF IsSite, SiteFields, Agree
<1> HIDE DEF t
<1>4. DOMAIN luck' = DOMAIN luck /\ luck'.writes = luck.writes BY <1>2 DEF OpenGate, Mishap, InstallerFits
<1>5. /\ CrewIs([crew EXCEPT !.pc = "done"], "done", crew.undo, f, crew.locked)
      /\ CrewIs([crew EXCEPT !.pc = "undo"], "undo", crew.undo, f, crew.locked)
   BY <1>2, SetCrew
<1>6. \/ site' = t /\ CrewIs(crew', "done", crew.undo, f, crew.locked)
      \/ site' = site /\ (crew' = Off \/ CrewIs(crew', "undo", crew.undo, f, crew.locked))
      \/ site' = t /\ crew' = Off
   BY <1>5 DEF OpenGate, t
<1>7. Installed(site) BY <1>2 DEF Transacting, Answered
<1>8. ASSUME site' = t
      PROVE  Installed(site)' /\ Up(site')
  <2>1. Installed(site)' BY <1>1, <1>3, <1>7, <1>8 DEF Installed, Agree, Runs
  <2>2. Up(site') BY <1>2, <1>3, <1>8, ZenonT(40) DEF Up, Agree, Runs
  <2>3. QED BY <2>1, <2>2
<1>9. InstallerFits'
  <2>1. IsSite(site') /\ site'.data = site.data /\ site'.busy = FALSE
     BY <1>2, <1>3, <1>6, ZenonT(40) DEF IsSite, Agree
  <2>2. crew' = Off \/ \E pc, w, g, locked : locked \in BOOLEAN /\ CrewIs(crew', pc, w, g, locked)
     BY <1>2, <1>6
  <2>3. QED BY <1>1, <1>2, <1>4, <2>1, <2>2, ColdFits
<1>10. CASE site' = t /\ CrewIs(crew', "done", crew.undo, f, crew.locked)
  <2>1. Aims' BY <1>1, <1>2, <1>10 DEF Aims, CrewIs
  <2>2. Transacting(crew.pc)'
     BY <1>1, <1>2, <1>3, <1>8, <1>10, <2>1, ZenonT(40)
     DEF Transacting, CrewIs, Agree, Unmoved, Copying, Placing, Linked, Recorded, Answered
  <2>3. QED BY <1>1, <1>2, <1>9, <1>10, <2>2, GoesOn DEF Commit, Recorded, Answered, CrewIs
<1>11. CASE site' = site /\ (crew' = Off \/ CrewIs(crew', "undo", crew.undo, f, crew.locked))
   BY <1>1, <1>2, <1>9, <1>11, ColdBreaks
<1>12. CASE site' = t /\ crew' = Off
  <2>1. site'.gate = "open" /\ ~site'.path BY <1>2, <1>3, <1>12 DEF Agree
  <2>2. Journalled' BY <1>1, <1>2, <1>8, <1>12, <2>1 DEF Journalled, KeepsIt
  <2>3. BrokenOff("idle")' BY <1>1, <1>2, <1>12, <2>2, OffShape DEF BrokenOff
  <2>4. QED BY <1>9, <1>12, <2>3, OffShape DEF Undisturbed, InstallerAt
<1>13. QED BY <1>6, <1>10, <1>11, <1>12

\* A journal that says nothing.
LEMMA NoDeedShape == DOMAIN NoDeed = {"phase", "undo", "found"} /\ NoDeed.phase = "none"
BY DEF NoDeed

\* The journal is removed last: without it the host must be installed.
LEMMA CompleteKeeps ==
    ASSUME Undisturbed, Complete
    PROVE  Undisturbed'
<1>1. crew.pc = "done" /\ crew' = Off /\ site' = site /\ prior' = prior /\ (deed' = NoDeed \/ deed' = deed)
   BY DEF Complete
<1>2. InstallerFits /\ IsSite(site) /\ Committing("done")
   BY <1>1, WhereCommits DEF Undisturbed, InstallerFits, Commit, Recorded, Answered
<1>3. DOMAIN luck' = DOMAIN luck /\ luck'.writes = luck.writes BY <1>2 DEF Complete, Mishap, InstallerFits
<1>4. /\ deed.phase = "services_started" /\ deed.found = crew.found /\ FoundOK(crew.found, prior)
      /\ ~site.path /\ site.gate = "open" /\ Installed(site) /\ Up(site)
   BY <1>2 DEF Committing, Transacting, Answered, Recorded, Unmoved
<1>5. InstallerFits'
  <2>1. DOMAIN deed' = {"phase", "undo", "found"} BY <1>1, <1>2, NoDeedShape DEF InstallerFits
  <2>2. QED BY <1>1, <1>2, <1>3, <2>1, OffShape DEF InstallerFits
<1>6. Installed(site)' /\ Up(site)' BY <1>1, <1>4 DEF Installed, Up
<1>7. CASE deed' = NoDeed
  <2>1. Rests(site') BY <1>1, <1>4, <1>6 DEF Rests, Installed
  <2>2. AllOrNone' BY <1>6, <2>1 DEF AllOrNone
  <2>3. Quiet("idle")' BY <1>1, <1>7, <2>2, NoDeedShape, OffShape DEF Quiet
  <2>4. QED BY <1>1, <1>5, <2>3, OffShape DEF Undisturbed, InstallerAt
<1>8. CASE deed' = deed
  <2>1. Journalled' BY <1>1, <1>4, <1>6, <1>8 DEF Journalled, KeepsIt
  <2>2. BrokenOff("idle")' BY <1>1, <1>4, <1>8, <2>1, OffShape DEF BrokenOff
  <2>3. QED BY <1>1, <1>5, <2>2, OffShape DEF Undisturbed, InstallerAt
<1>9. QED BY <1>1, <1>7, <1>8

\* In a rollback the installer knows what it found.
LEMMA WhereUndoes ==
    ASSUME InstallerAt(crew.pc), crew.pc \in Undoing
    PROVE  Backing(crew.pc)
BY DEF InstallerAt, Quiet, Checks, Trying, Committing, Commit, Unmoved, Copying, Placing, Linked,
       Recorded, Answered, GivingBack, Undoing, BrokenOff

\* How a step of the rollback ends: done, or broken off at one of the states it passes.
Undone(at, next, sites) ==
    /\ crew.pc = at
    /\ DOMAIN luck' = DOMAIN luck /\ luck'.writes = luck.writes
    /\ \/ site' = sites[Len(sites)] /\ CrewIs(crew', next, crew.undo, crew.found, crew.locked)
       \/ crew' = Off /\ \E i \in DOMAIN sites : site' = sites[i]

\* A step of a rollback either succeeds or is broken off in one of its states.
LEMMA UndoShape ==
    ASSUME InstallerFits, NEW at, NEW next, NEW sites, Undo(at, next, sites)
    PROVE  Undone(at, next, sites)
<1>1. DOMAIN crew = CrewFields BY DEF InstallerFits
<1>2. CASE site' = sites[Len(sites)] /\ crew' = [crew EXCEPT !.pc = next] /\ UNCHANGED luck
  <2>1. CrewIs(crew', next, crew.undo, crew.found, crew.locked) BY <1>1, <1>2, SetCrew
  <2>2. QED BY <1>2, <2>1 DEF Undo, Undone
<1>3. CASE Mishap /\ crew' = Off /\ \E i \in DOMAIN sites : site' = sites[i]
  <2>1. DOMAIN luck' = DOMAIN luck /\ luck'.writes = luck.writes
     BY <1>3 DEF Mishap, InstallerFits
  <2>2. QED BY <1>3, <2>1 DEF Undo, Undone
<1>4. QED BY <1>2, <1>3 DEF Undo

\* The rollback keeps the data, and works on a host that is busy only to leave it alone.
LEMMA UndoFits ==
    ASSUME InstallerFits, IsSite(site'), site'.data = site.data, site'.busy = site.busy,
           DOMAIN deed' = {"phase", "undo", "found"}, DOMAIN crew' = CrewFields,
           crew'.locked \in {FALSE, crew.locked}, prior'.halted = prior.halted,
           prior'.overtaken = prior.overtaken, prior'.site = prior.site, prior'.goal = prior.goal,
           DOMAIN luck' = DOMAIN luck, luck'.writes = luck.writes
    PROVE  InstallerFits'
BY DEF InstallerFits

\* Stopping what runs, and giving back the store, is part of every undoing.
LEMMA StoppedUndoable ==
    ASSUME NEW s, NEW t, NEW u, NEW w, NEW f, NEW p,
           Agree(t, s, {"store", "api", "path"}), t.path \in {s.path, FALSE}, s.path \in BOOLEAN,
           t.api \in {s.api, 0},
           t.store \in {s.store, f.store}, ~w.dropped => t.store = s.store,
           Undoable(s, u, f, p), Undoable(s, w, f, p), Halting(w),
           Halting(u) \/ f.units = "none", FoundOK(f, p)
    PROVE  Undoable(t, u, f, p) /\ Undoable(t, w, f, p)
<1>1. /\ t.base = s.base /\ t.units = s.units /\ t.made = s.made /\ t.data = s.data /\ t.gate = s.gate
      /\ t.enabled = s.enabled
   BY DEF Agree
<1>2. ~u.dropped /\ ~p.overtaken => t.store = f.store
  <2>1. ~u.dropped /\ ~p.overtaken => s.store = f.store BY Zenon DEF Undoable
  <2>2. QED BY <2>1
<1>3. ~w.dropped /\ ~p.overtaken => t.store = f.store
  <2>1. ~w.dropped /\ ~p.overtaken => s.store = f.store BY Zenon DEF Undoable
  <2>2. QED BY <2>1
<1>4. ~s.path => ~t.path OBVIOUS
<1>5. Undoable(t, w, f, p) BY <1>1, <1>3, <1>4, Zenon DEF Undoable
<1>6. ~Halting(u) =>
         /\ Up(t) /\ t.enabled = f.enabled
         /\ t.path = f.path \/ (p.halted /\ ~t.path)
  <2> SUFFICES ASSUME ~Halting(u)
               PROVE  /\ Up(t) /\ t.enabled = f.enabled
                      /\ t.path = f.path \/ (p.halted /\ ~t.path)
     OBVIOUS
  <2>1. f.enabled = FALSE /\ f.path = FALSE BY DEF FoundOK
  <2>2. Up(s) /\ s.enabled = f.enabled /\ (s.path = f.path \/ (p.halted /\ ~s.path)) BY Zenon DEF Undoable
  <2>3. s.path = FALSE BY <2>1, <2>2
  <2>4. t.path = f.path BY <2>1, <2>3
  <2>5. s.api = 0 BY <2>1, <2>2 DEF Up
  <2>6. Up(t) BY <1>1, <2>1, <2>2, <2>5 DEF Up
  <2>7. QED BY <1>1, <2>2, <2>4, <2>6
<1>7. Undoable(t, u, f, p) BY <1>1, <1>2, <1>4, <1>6, Zenon DEF Undoable
<1>8. QED BY <1>5, <1>7

\* What the rollback can count on, at each of its steps.
LEMMA BackingFacts ==
    ASSUME Undisturbed, crew.pc \in Undoing
    PROVE  /\ InstallerFits /\ IsSite(site) /\ DOMAIN crew = CrewFields
           /\ DOMAIN deed = {"phase", "undo", "found"} /\ Backing(crew.pc)
           /\ FoundOK(crew.found, prior) /\ IsUndo(crew.undo) /\ crew.locked \in BOOLEAN
           /\ deed.phase = "none" => crew.undo = Nothing /\ prior.overtaken
           /\ deed.phase # "none" => deed.found = crew.found
           /\ ~crew.undo.changed => site.base = crew.found.base /\ site.units = crew.found.units
           /\ site.made \ crew.undo.created = prior.site.made
           /\ crew.pc # "undo" /\ ~prior.overtaken => site.store = crew.found.store
           /\ crew.pc = "purge" \/ ~Halting(crew.undo) =>
                 /\ Up(site) /\ site.enabled = crew.found.enabled
                 /\ site.path = crew.found.path \/ (prior.halted /\ ~site.path)
<1>1. Backing(crew.pc) /\ InstallerFits BY WhereUndoes DEF Undisturbed
<1>2. QED BY <1>1, Zenon DEF Backing, InstallerFits, IsSite

\* An attempt that remembers nothing has nothing to halt, drop, create or restore.
LEMMA NothingHalts ==
    /\ ~Halting(Nothing) /\ Nothing.dropped = FALSE /\ Nothing.changed = FALSE /\ Nothing.created = {}
    /\ Nothing.backup = {}
BY DEF Nothing, Halting

\* A rollback that is broken off before it has reopened the gate is done again from the
\* journal; when there is no journal it had nothing to do.
LEMMA UndoBreaks ==
    ASSUME InstallerFits', NEW f, FoundOK(f, prior'), crew' = Off, deed' = deed, prior'.overtaken = prior.overtaken,
           deed.phase = "none" => Rests(site') /\ prior.overtaken,
           deed.phase # "none" => deed.found = f /\ Undoable(site', deed.undo, f, prior'),
           deed.phase = "services_started" => site'.gate = "closed" /\ ~site'.path
    PROVE  Undisturbed'
<1>1. CASE deed.phase = "none"
  <2>1. AllOrNone' BY <1>1 DEF AllOrNone
  <2>2. Quiet("idle")' BY <1>1, <2>1, OffShape DEF Quiet
  <2>3. QED BY <2>2, OffShape DEF Undisturbed, InstallerAt
<1>2. CASE deed.phase # "none" BY <1>2, BreakKeeps
<1>3. QED BY <1>1, <1>2

\* The store pointer is put back, then every service is stopped.
LEMMA StoreKeeps ==
    ASSUME Undisturbed, UndoStore
    PROVE  Undisturbed'
<1> DEFINE f == crew.found
           u == crew.undo
           back == IF u.dropped THEN [site EXCEPT !.store = crew.found.store] ELSE site
           halt == IF Halts THEN [back EXCEPT !.api = 0, !.path = FALSE] ELSE back
           sites == <<site, back, halt>>
<1>1. /\ Undo("undo", "restore", sites) /\ deed' = deed /\ prior' = prior /\ crew.pc = "undo"
   BY DEF UndoStore, Undo
<1>2. /\ InstallerFits /\ IsSite(site) /\ DOMAIN crew = CrewFields
      /\ DOMAIN deed = {"phase", "undo", "found"} /\ Backing("undo")
      /\ FoundOK(f, prior) /\ IsUndo(u) /\ crew.locked \in BOOLEAN
      /\ deed.phase = "none" => u = Nothing /\ prior.overtaken
      /\ deed.phase # "none" => deed.found = f
   BY <1>1, BackingFacts DEF Undoing
<1>3. /\ Undoable(site, u, f, prior)
      /\ deed.phase = "none" => Rests(site)
      /\ deed.phase # "none" => /\ Undoable(site, deed.undo, f, prior)
                                /\ Halting(u) => Halting(deed.undo) \/ f.units = "none"
      /\ deed.phase = "services_started" => site.gate = "closed" /\ ~site.path
      /\ deed.phase # "none" => crew.locked \/ (~site.path /\ ~site.busy)
   BY <1>2, Zenon DEF Backing
<1>4. DOMAIN site = SiteFields /\ site.path \in BOOLEAN /\ f.store \in Nat BY <1>2 DEF IsSite, FoundOK
<1>5. /\ Agree(back, site, {"store", "api", "path"}) /\ back.api = site.api /\ back.path = site.path
      /\ back.store = IF u.dropped THEN f.store ELSE site.store
   BY <1>4 DEF SiteFields, Agree
<1>6. ~u.dropped => back = site OBVIOUS
<1> HIDE DEF back
<1>7. Halts <=> Halting(u) BY DEF Halts, Halting
<1>8. /\ Agree(halt, site, {"store", "api", "path"}) /\ halt.store = back.store
      /\ Halting(u) => halt.api = 0 /\ halt.path = FALSE
      /\ halt.api \in {site.api, 0} /\ halt.path \in {site.path, FALSE}
  <2>1. CASE Halts BY <1>5, <1>7, <2>1 DEF SiteFields, Agree
  <2>2. CASE ~Halts BY <1>5, <1>7, <2>2
  <2>3. QED BY <2>1, <2>2
<1>9. ~Halting(u) => back = site /\ halt = site
  <2>1. ~Halting(u) => ~u.dropped BY <1>3, Zenon DEF Undoable, Halting
  <2>2. QED BY <2>1, <1>6, <1>7
<1>10. Len(sites) = 3 /\ DOMAIN sites = 1..3 /\ sites[1] = site /\ sites[2] = back /\ sites[3] = halt
   OBVIOUS
<1> HIDE DEF halt, sites, u, f
<1>11. Undone("undo", "restore", sites) BY <1>1, <1>2, UndoShape
<1>12. /\ DOMAIN luck' = DOMAIN luck /\ luck'.writes = luck.writes
       /\ \/ site' = halt /\ CrewIs(crew', "restore", u, f, crew.locked)
          \/ crew' = Off /\ site' \in {site, back, halt}
  <2>1. \A i \in DOMAIN sites : i = 1 \/ i = 2 \/ i = 3 BY <1>10
  <2>2. QED BY <1>10, <1>11, <2>1 DEF Undone, u, f
<1>13. Agree(site, site, {"store", "api", "path"}) BY <1>4 DEF Agree
<1>14. ASSUME NEW t \in {site, back, halt}
       PROVE  /\ Agree(t, site, {"store", "api", "path"}) /\ t.path \in {site.path, FALSE}
              /\ t.api \in {site.api, 0} /\ t.store \in {site.store, f.store}
              /\ ~u.dropped => t.store = site.store
              /\ ~Halting(u) => t = site
   BY <1>2, <1>5, <1>8, <1>9, <1>13 DEF IsUndo
<1>15. ASSUME NEW t \in {site, back, halt}
       PROVE  /\ IsSite(t) /\ t.data = site.data /\ t.busy = site.busy /\ t.gate = site.gate
              /\ Undoable(t, u, f, prior)
              /\ deed.phase # "none" => Undoable(t, deed.undo, f, prior)
              /\ deed.phase = "none" => Rests(t)
  <2>1. CASE ~Halting(u)
    <3>1. t = site BY <1>14, <2>1
    <3>2. QED BY <1>2, <1>3, <3>1
  <2>2. CASE Halting(u)
    <3>1. deed.phase # "none" /\ site.busy = FALSE
      <4>1. deed.phase # "none" BY <1>2, <2>2, NothingHalts
      <4>2. QED BY <1>2, <1>3, <4>1 DEF InstallerFits, IsSite
    <3>2. Undoable(t, deed.undo, f, prior) /\ Undoable(t, u, f, prior)
      <4>1. Undoable(site, deed.undo, f, prior) /\ (Halting(deed.undo) \/ f.units = "none")
         BY <1>3, <2>2, <3>1
      <4>2. QED BY <1>2, <1>3, <1>4, <1>14, <2>2, <4>1, StoppedUndoable
    <3>3. IsSite(t) /\ t.data = site.data /\ t.busy = site.busy /\ t.gate = site.gate
       BY <1>2, <1>4, <1>14, <3>1 DEF IsSite, Agree
    <3>4. QED BY <3>1, <3>2, <3>3
  <2>3. QED BY <2>1, <2>2
<1>16. site' \in {site, back, halt} BY <1>12
<1>17. InstallerFits'
  <2>1. IsSite(site') /\ site'.data = site.data /\ site'.busy = site.busy BY <1>15, <1>16
  <2>2. DOMAIN crew' = CrewFields /\ crew'.locked \in {FALSE, crew.locked} BY <1>12, OffShape DEF CrewIs
  <2>3. QED BY <1>1, <1>2, <1>12, <2>1, <2>2, UndoFits
<1>18. /\ site'.gate = site.gate /\ Undoable(site', u, f, prior)
       /\ deed.phase # "none" => Undoable(site', deed.undo, f, prior)
       /\ deed.phase = "none" => Rests(site')
       /\ site'.path \in {site.path, FALSE} /\ site'.busy = site.busy
   BY <1>14, <1>15, <1>16
<1>19. CASE crew' = Off
   BY <1>1, <1>2, <1>3, <1>17, <1>18, <1>19, UndoBreaks
<1>20. CASE site' = halt /\ CrewIs(crew', "restore", u, f, crew.locked)
  <2>1. ~prior.overtaken => site'.store = f.store
    <3>1. ~u.dropped /\ ~prior.overtaken => site'.store = f.store BY <1>18, Zenon DEF Undoable
    <3>2. u.dropped => site'.store = f.store BY <1>5, <1>8, <1>20
    <3>3. QED BY <3>1, <3>2
  <2>2. Halting(u) => site'.api = 0 /\ ~site'.path BY <1>8, <1>20
  <2>3. /\ ~u.changed => site'.base = f.base /\ site'.units = f.units
        /\ site'.made \ u.created = prior.site.made
        /\ ~Halting(u) => /\ Up(site') /\ site'.enabled = f.enabled
                          /\ site'.path = f.path \/ (prior.halted /\ ~site'.path)
     BY <1>18, Zenon DEF Undoable
  <2>4. crew'.pc = "restore" /\ crew'.undo = u /\ crew'.found = f /\ crew'.locked = crew.locked
     BY <1>20 DEF CrewIs
  <2>5. Backing(crew.pc)'
     BY <1>1, <1>2, <1>3, <1>18, <2>1, <2>2, <2>3, <2>4, ZenonT(40) DEF Backing
  <2>6. QED BY <1>17, <2>4, <2>5 DEF Undisturbed, InstallerAt, GivingBack, Undoing
<1>21. QED BY <1>12, <1>19, <1>20

\* The backup holds what the database holds: nothing was written behind the closed gate.
\* The gate is reopened last, so that a rollback broken off before is done again.
LEMMA RestoreKeeps ==
    ASSUME DOMAIN prior = PriorFields, Undisturbed, RestoreData, ~prior'.reopened
    PROVE  Undisturbed'
<1> DEFINE f == crew.found
           u == crew.undo
           restored == IF u.backup = {} THEN site
                   ELSE [site EXCEPT !.data = CHOOSE x \in u.backup : TRUE]
           t == [restored EXCEPT !.gate = crew.found.gate]
           sites == <<site, restored, t>>
<1>1. /\ Undo("restore", "relink", sites) /\ deed' = deed /\ crew.pc = "restore"
      /\ prior' = [prior EXCEPT !.reopened = @ \/ (crew'.pc = "idle" /\ site'.gate # site.gate)]
   BY DEF RestoreData, Undo
<1>2. /\ InstallerFits /\ IsSite(site) /\ DOMAIN crew = CrewFields
      /\ DOMAIN deed = {"phase", "undo", "found"} /\ Backing("restore")
      /\ FoundOK(f, prior) /\ IsUndo(u) /\ crew.locked \in BOOLEAN
      /\ deed.phase = "none" => u = Nothing /\ prior.overtaken
      /\ deed.phase # "none" => deed.found = f
      /\ ~u.changed => site.base = f.base /\ site.units = f.units
      /\ site.made \ u.created = prior.site.made
      /\ ~prior.overtaken => site.store = f.store
      /\ ~Halting(u) =>
            /\ Up(site) /\ site.enabled = f.enabled
            /\ site.path = f.path \/ (prior.halted /\ ~site.path)
   BY <1>1, BackingFacts DEF Undoing
<1>3. /\ Undoable(site, u, f, prior)
      /\ deed.phase = "none" => Rests(site)
      /\ deed.phase # "none" => Undoable(site, deed.undo, f, prior)
      /\ deed.phase = "services_started" => site.gate = "closed" /\ ~site.path
      /\ deed.phase # "none" => crew.locked \/ (~site.path /\ ~site.busy)
      /\ Halting(u) => site.api = 0 /\ ~site.path
   BY <1>2, Zenon DEF Backing
<1>4. /\ prior'.site = prior.site /\ prior'.goal = prior.goal /\ prior'.overtaken = prior.overtaken
      /\ prior'.halted = prior.halted
      /\ crew'.pc = "idle" => site'.gate = site.gate
   BY <1>1 DEF PriorFields
<1>5. DOMAIN site = SiteFields /\ f.gate \in {"absent", "open"} BY <1>2 DEF IsSite, FoundOK
<1>6. Agree(restored, site, {"data"}) /\ restored.data = site.data
  <2>1. u.backup = {} \/ u.backup = {site.data} BY <1>3, Zenon DEF Undoable
  <2>2. CASE u.backup = {} BY <1>5, <2>2 DEF Agree
  <2>3. CASE u.backup # {} /\ u.backup = {site.data}
    <3>1. (CHOOSE x \in u.backup : TRUE) = site.data BY <2>3
    <3>2. restored = [site EXCEPT !.data = site.data] BY <2>3, <3>1
    <3> HIDE DEF restored
    <3>3. QED BY <1>5, <3>2 DEF SiteFields, Agree
  <2>4. QED BY <2>1, <2>2, <2>3
<1> HIDE DEF restored
<1>7. Agree(restored, site, {}) BY <1>6 DEF Agree
<1>8. Agree(t, site, {"gate"}) /\ t.gate = f.gate BY <1>7 DEF SiteFields, Agree
<1>9. Len(sites) = 3 /\ DOMAIN sites = 1..3 /\ sites[1] = site /\ sites[2] = restored /\ sites[3] = t
   OBVIOUS
<1> HIDE DEF t, sites, u, f
<1>10. Undone("restore", "relink", sites) BY <1>1, <1>2, UndoShape
<1>11. /\ DOMAIN luck' = DOMAIN luck /\ luck'.writes = luck.writes
       /\ \/ site' = t /\ CrewIs(crew', "relink", u, f, crew.locked)
          \/ crew' = Off /\ site' \in {site, restored, t}
  <2>1. \A i \in DOMAIN sites : i = 1 \/ i = 2 \/ i = 3 BY <1>9
  <2>2. QED BY <1>9, <1>10, <2>1 DEF Undone, u, f
<1>12. Agree(site', site, {"gate"}) /\ site'.gate \in {site.gate, f.gate}
  <2>1. Agree(site, site, {"gate"}) BY <1>5 DEF Agree
  <2>2. Agree(restored, site, {"gate"}) /\ restored.gate = site.gate BY <1>7 DEF Agree
  <2>3. QED BY <1>8, <1>11, <2>1, <2>2
<1>13. InstallerFits'
  <2>1. IsSite(site') /\ site'.data = site.data /\ site'.busy = site.busy
     BY <1>2, <1>5, <1>12 DEF IsSite, Agree
  <2>2. DOMAIN crew' = CrewFields /\ crew'.locked \in {FALSE, crew.locked} BY <1>11, OffShape DEF CrewIs
  <2>3. QED BY <1>1, <1>2, <1>4, <1>11, <2>1, <2>2, UndoFits
<1>14. FoundOK(f, prior') BY <1>2, <1>4 DEF FoundOK
<1>15. CASE crew' = Off
  <2>1. site'.gate = site.gate BY <1>4, <1>15, OffShape
  <2>2. /\ site'.base = site.base /\ site'.units = site.units /\ site'.store = site.store
        /\ site'.made = site.made /\ site'.data = site.data /\ site'.enabled = site.enabled
        /\ site'.path = site.path /\ site'.api = site.api /\ site'.record = site.record
        /\ site'.busy = site.busy
     BY <1>12 DEF Agree
  <2>3. Up(site') <=> Up(site) BY <2>2 DEF Up, Runs
  <2>4. Rests(site) => Rests(site') BY <2>1, <2>2, <2>3 DEF Rests
  <2>5. deed.phase # "none" => Undoable(site', deed.undo, f, prior')
     BY <1>3, <1>4, <2>1, <2>2, <2>3, Zenon DEF Undoable
  <2>6. QED BY <1>1, <1>2, <1>3, <1>4, <1>13, <1>14, <1>15, <2>1, <2>2, <2>4, <2>5, UndoBreaks
<1>16. CASE site' = t /\ CrewIs(crew', "relink", u, f, crew.locked)
  <2>1. crew'.pc = "relink" /\ crew'.undo = u /\ crew'.found = f /\ crew'.locked = crew.locked
     BY <1>16 DEF CrewIs
  <2>2. /\ site'.base = site.base /\ site'.units = site.units /\ site'.store = site.store
        /\ site'.made = site.made /\ site'.enabled = site.enabled
        /\ site'.path = site.path /\ site'.api = site.api
        /\ site'.busy = site.busy
     BY <1>12 DEF Agree
  <2>3. Up(site') <=> Up(site) BY <2>2 DEF Up, Runs
  <2>4. site'.gate # "closed" BY <1>5, <1>8, <1>16 DEF f
  <2>5. Backing(crew.pc)'
     BY <1>1, <1>2, <1>3, <1>4, <1>14, <2>1, <2>2, <2>3, <2>4 DEF Backing
  <2>6. QED BY <1>13, <2>1, <2>5 DEF Undisturbed, InstallerAt, GivingBack, Undoing
<1>17. QED BY <1>11, <1>15, <1>16

\* The record is removed, and the links and units become those that were found.
LEMMA RelinkKeeps ==
    ASSUME DOMAIN prior = PriorFields, Undisturbed, Relink, ~prior'.reopened
    PROVE  Undisturbed'
<1> DEFINE f == crew.found
           u == crew.undo
           s1 == [site EXCEPT !.record = 0]
           s2 == [s1 EXCEPT !.base = crew.found.base, !.manager = crew.found.manager]
           s3 == IF u.changed THEN [s2 EXCEPT !.units = crew.found.units] ELSE s2
           sites == <<site, s1, s2, s3>>
<1>1. /\ Undo("relink", "revive", sites) /\ deed' = deed /\ crew.pc = "relink"
      /\ prior' = [prior EXCEPT !.reopened = @ \/ crew'.pc = "idle"]
   BY DEF Relink, Undo
<1>2. /\ InstallerFits /\ IsSite(site) /\ DOMAIN crew = CrewFields
      /\ DOMAIN deed = {"phase", "undo", "found"} /\ Backing("relink")
      /\ FoundOK(f, prior) /\ IsUndo(u) /\ crew.locked \in BOOLEAN
      /\ deed.phase = "none" => u = Nothing /\ prior.overtaken
      /\ deed.phase # "none" => deed.found = f
      /\ ~u.changed => site.base = f.base /\ site.units = f.units
      /\ site.made \ u.created = prior.site.made
      /\ ~prior.overtaken => site.store = f.store
      /\ ~Halting(u) =>
            /\ Up(site) /\ site.enabled = f.enabled
            /\ site.path = f.path \/ (prior.halted /\ ~site.path)
   BY <1>1, BackingFacts DEF Undoing
<1>3. /\ deed.phase # "none" => crew.locked \/ (~site.path /\ ~site.busy)
      /\ Halting(u) => site.api = 0 /\ ~site.path
      /\ site.gate = "closed" => site.busy
   BY <1>2, Zenon DEF Backing
<1>4. /\ prior'.site = prior.site /\ prior'.goal = prior.goal /\ prior'.overtaken = prior.overtaken
      /\ prior'.halted = prior.halted /\ crew'.pc # "idle"
   BY <1>1 DEF PriorFields
<1>5. Agree(s1, site, {"record"}) /\ s1.record = 0 BY <1>2 DEF IsSite, SiteFields, Agree
<1> HIDE DEF s1
<1>6. /\ Agree(s2, site, {"record", "base", "manager"}) /\ s2.record = 0 /\ s2.base = f.base
      /\ s2.manager = f.manager
   BY <1>5 DEF SiteFields, Agree
<1> HIDE DEF s2
<1>7. /\ Agree(s3, site, {"record", "base", "manager", "units"}) /\ s3.record = 0 /\ s3.base = f.base
      /\ s3.manager = f.manager /\ s3.units = f.units
  <2>1. CASE u.changed BY <1>6, <2>1 DEF SiteFields, Agree
  <2>2. CASE ~u.changed BY <1>2, <1>6, <2>2 DEF Agree
  <2>3. QED BY <2>1, <2>2
<1>8. Len(sites) = 4 /\ sites[4] = s3 OBVIOUS
<1> HIDE DEF s3, sites, u, f
<1>9. Undone("relink", "revive", sites) BY <1>1, <1>2, UndoShape
<1>10. /\ DOMAIN luck' = DOMAIN luck /\ luck'.writes = luck.writes
       /\ site' = s3 /\ CrewIs(crew', "revive", u, f, crew.locked)
   BY <1>4, <1>8, <1>9, OffShape DEF Undone, u, f
<1>11. crew'.pc = "revive" /\ crew'.undo = u /\ crew'.found = f /\ crew'.locked = crew.locked
       /\ DOMAIN crew' = CrewFields
   BY <1>10 DEF CrewIs
<1>12. /\ site'.store = site.store /\ site'.made = site.made /\ site'.enabled = site.enabled
       /\ site'.path = site.path /\ site'.api = site.api /\ site'.busy = site.busy
       /\ site'.gate = site.gate /\ site'.data = site.data /\ DOMAIN site' = SiteFields
       /\ site'.record = 0 /\ site'.base = f.base /\ site'.manager = f.manager /\ site'.units = f.units
   BY <1>7, <1>10 DEF Agree
<1>13. InstallerFits'
  <2>1. IsSite(site') BY <1>2, <1>12 DEF IsSite, FoundOK
  <2>2. QED BY <1>1, <1>2, <1>4, <1>10, <1>11, <1>12, <2>1, UndoFits
<1>14. FoundOK(f, prior') BY <1>2, <1>4 DEF FoundOK
<1>15. ~Halting(u) => Up(site')
  <2>1. ~Halting(u) => site.base = f.base /\ Up(site) BY <1>2 DEF Halting
  <2>2. QED BY <2>1, <1>12 DEF Up, Runs
<1>16. Backing(crew.pc)'
   BY <1>1, <1>2, <1>3, <1>4, <1>11, <1>12, <1>14, <1>15 DEF Backing
<1>17. QED BY <1>11, <1>13, <1>16 DEF Undisturbed, InstallerAt, GivingBack, Undoing

\* The services that were found are started again.
LEMMA ReviveKeeps ==
    ASSUME DOMAIN prior = PriorFields, Undisturbed, Revive, ~prior'.reopened
    PROVE  Undisturbed'
<1> DEFINE f == crew.found
           u == crew.undo
           able == [site EXCEPT !.enabled = crew.found.enabled, !.path = crew.found.path]
           up == [able EXCEPT !.api = IF crew.found.api THEN Runs(site) ELSE 0]
           sites == IF Halts THEN <<site, able, up>> ELSE <<site>>
<1>1. /\ Undo("revive", "purge", sites) /\ deed' = deed /\ crew.pc = "revive"
      /\ prior' = [prior EXCEPT !.reopened = @ \/ crew'.pc = "idle"]
   BY DEF Revive, Undo
<1>2. /\ InstallerFits /\ IsSite(site) /\ DOMAIN crew = CrewFields
      /\ DOMAIN deed = {"phase", "undo", "found"} /\ Backing("revive")
      /\ FoundOK(f, prior) /\ IsUndo(u) /\ crew.locked \in BOOLEAN
      /\ deed.phase = "none" => u = Nothing /\ prior.overtaken
      /\ deed.phase # "none" => deed.found = f
      /\ ~u.changed => site.base = f.base /\ site.units = f.units
      /\ site.made \ u.created = prior.site.made
      /\ ~prior.overtaken => site.store = f.store
      /\ ~Halting(u) =>
            /\ Up(site) /\ site.enabled = f.enabled
            /\ site.path = f.path \/ (prior.halted /\ ~site.path)
   BY <1>1, BackingFacts DEF Undoing
<1>3. /\ Halting(u) => site.api = 0 /\ ~site.path
      /\ site.gate = "closed" => site.busy
      /\ site.record = 0 /\ site.base = f.base /\ site.manager = f.manager /\ site.units = f.units
   BY <1>2, Zenon DEF Backing
<1>4. /\ prior'.site = prior.site /\ prior'.goal = prior.goal /\ prior'.overtaken = prior.overtaken
      /\ prior'.halted = prior.halted /\ crew'.pc # "idle"
   BY <1>1 DEF PriorFields
<1>5. Halts <=> Halting(u) BY DEF Halts, Halting
<1>6. Agree(able, site, {"enabled", "path"}) /\ able.enabled = f.enabled /\ able.path = f.path
   BY <1>2 DEF IsSite, SiteFields, Agree
<1> HIDE DEF able
<1>7. /\ Agree(up, site, {"enabled", "path", "api"}) /\ up.enabled = f.enabled /\ up.path = f.path
      /\ up.api = IF f.api THEN Runs(site) ELSE 0
   BY <1>6 DEF SiteFields, Agree
<1> HIDE DEF up
<1>8. sites[Len(sites)] = IF Halts THEN up ELSE site
  <2>1. CASE Halts
    <3>1. Len(<<site, able, up>>) = 3 /\ <<site, able, up>>[3] = up OBVIOUS
    <3>2. QED BY <2>1, <3>1
  <2>2. CASE ~Halts
    <3>1. Len(<<site>>) = 1 /\ <<site>>[1] = site OBVIOUS
    <3>2. QED BY <2>2, <3>1
  <2>3. QED BY <2>1, <2>2
<1> HIDE DEF sites, u, f
<1>9. Undone("revive", "purge", sites) BY <1>1, <1>2, UndoShape
<1>10. /\ DOMAIN luck' = DOMAIN luck /\ luck'.writes = luck.writes
       /\ site' = (IF Halts THEN up ELSE site) /\ CrewIs(crew', "purge", u, f, crew.locked)
   BY <1>4, <1>8, <1>9, OffShape DEF Undone, u, f
<1>11. crew'.pc = "purge" /\ crew'.undo = u /\ crew'.found = f /\ crew'.locked = crew.locked
       /\ DOMAIN crew' = CrewFields
   BY <1>10 DEF CrewIs
<1>12. Agree(site', site, {"enabled", "path", "api"})
  <2>1. Agree(site, site, {"enabled", "path", "api"}) BY <1>2 DEF Agree, IsSite
  <2>2. QED BY <1>7, <1>10, <2>1
<1>13. /\ Up(site') /\ site'.enabled = f.enabled
       /\ site'.path = f.path \/ (prior.halted /\ ~site'.path)
  <2>1. CASE Halting(u)
    <3>1. site' = up BY <1>5, <1>10, <2>1
    <3>2. f.api = f.enabled BY <1>2 DEF FoundOK
    <3>3. Up(up) BY <1>7, <3>2 DEF Up, Runs, Agree
    <3>4. QED BY <1>7, <3>1, <3>3
  <2>2. CASE ~Halting(u) BY <1>2, <1>5, <1>10, <2>2
  <2>3. QED BY <2>1, <2>2
<1>14. InstallerFits'
  <2>1. f.path \in BOOLEAN /\ f.enabled \in BOOLEAN BY <1>2 DEF FoundOK
  <2>2. Halting(u) => site.busy = FALSE BY <1>2, <1>3 DEF IsSite
  <2>3. site'.busy => site'.path
    <3>1. CASE Halting(u) BY <1>12, <2>2, <3>1 DEF Agree
    <3>2. CASE ~Halting(u) BY <1>2, <1>5, <1>10, <3>2 DEF IsSite
    <3>3. QED BY <3>1, <3>2
  <2>4. site'.path \in BOOLEAN /\ site'.enabled \in BOOLEAN
     BY <1>2, <1>7, <1>10, <2>1 DEF IsSite
  <2>5. IsSite(site') /\ site'.data = site.data /\ site'.busy = site.busy
     BY <1>2, <1>12, <2>3, <2>4 DEF IsSite, Agree
  <2>6. QED BY <1>1, <1>2, <1>4, <1>10, <1>11, <2>5, UndoFits
<1>15. FoundOK(f, prior') BY <1>2, <1>4 DEF FoundOK
<1>16. Backing(crew.pc)'
   BY <1>1, <1>2, <1>3, <1>4, <1>11, <1>12, <1>13, <1>15 DEF Backing, Agree
<1>17. QED BY <1>11, <1>14, <1>16 DEF Undisturbed, InstallerAt, GivingBack, Undoing

\* What is left when the rollback is through is the host that was found.
LEMMA PurgeKeeps ==
    ASSUME DOMAIN prior = PriorFields, Undisturbed, Purge, ~prior'.reopened
    PROVE  Undisturbed'
<1> DEFINE f == crew.found
           u == crew.undo
           t == [site EXCEPT !.made = @ \ crew.undo.created]
<1>1. crew.pc = "purge" BY DEF Purge
<1>2. /\ InstallerFits /\ IsSite(site) /\ Backing("purge")
      /\ FoundOK(f, prior) /\ IsUndo(u)
      /\ site.made \ u.created = prior.site.made
      /\ ~prior.overtaken => site.store = f.store
      /\ Up(site) /\ site.enabled = f.enabled
      /\ site.path = f.path \/ (prior.halted /\ ~site.path)
   BY <1>1, BackingFacts DEF Undoing
<1>3. /\ site.gate = "closed" => site.busy
      /\ site.record = 0 /\ site.base = f.base /\ site.manager = f.manager /\ site.units = f.units
   BY <1>2, Zenon DEF Backing
<1>4. Agree(t, site, {"made"}) /\ t.made = site.made \ u.created BY <1>2 DEF IsSite, SiteFields, Agree
<1>5. /\ site' = t /\ deed' = NoDeed /\ prior' = prior /\ luck' = luck
      /\ crew' = (IF crew.again THEN [Off EXCEPT !.pc = "classify"] ELSE Off)
   BY DEF Purge, PriorFields
<1> HIDE DEF t, u, f
<1>6. DOMAIN crew' = CrewFields /\ crew'.locked = FALSE /\ crew'.pc \in {"idle", "classify"}
   BY <1>5, OffShape
<1>7. IsSite(t) /\ t.data = site.data /\ t.busy = site.busy BY <1>2, <1>4 DEF IsSite, Agree
<1>8. InstallerFits' BY <1>2, <1>5, <1>6, <1>7, NoDeedShape, UndoFits
<1>9. t.made = prior.site.made BY <1>2, <1>4
<1>10. Rests(t)
  <2>1. Up(t) BY <1>2, <1>4 DEF Up, Runs, Agree
  <2>2. t.units = "none" => ~t.path /\ ~t.enabled BY <1>2, <1>3, <1>4 DEF Agree, FoundOK
  <2>3. t.base = Asked => "release" \in t.made BY <1>2, <1>3, <1>4, <1>9 DEF Agree, FoundOK
  <2>4. QED BY <1>3, <1>4, <2>1, <2>2, <2>3 DEF Rests, Agree
<1>11. ~prior.overtaken => Unchanged(t)
  <2>1. /\ f.base = prior.site.base /\ f.manager = prior.site.manager /\ f.units = prior.site.units
        /\ f.enabled = prior.site.enabled /\ f.path = prior.site.path
        /\ ~prior.overtaken => f.store = prior.site.store
     BY <1>2 DEF FoundOK
  <2>2. /\ t.base = site.base /\ t.manager = site.manager /\ t.store = site.store /\ t.units = site.units
        /\ t.enabled = site.enabled /\ t.record = 0 /\ t.path = site.path
     BY <1>3, <1>4 DEF Agree
  <2>3. t.path = prior.site.path \/ prior.halted BY <1>2, <2>1, <2>2
  <2>4. QED BY <1>2, <1>3, <1>9, <2>1, <2>2, <2>3 DEF Unchanged
<1>12. AllOrNone' BY <1>5, <1>10, <1>11 DEF AllOrNone, Unchanged
<1>13. Quiet(crew.pc)' BY <1>5, <1>6, <1>12, NoDeedShape DEF Quiet
<1>14. QED BY <1>8, <1>13 DEF Undisturbed, InstallerAt

\* A recovery begins from what a broken-off attempt left.
LEMMA WhereBroken ==
    ASSUME InstallerAt(crew.pc), crew.pc \in {"recover", "resume"}
    PROVE  BrokenOff(crew.pc)
BY DEF InstallerAt, Quiet, Checks, Trying, Committing, Commit, Unmoved, Copying, Placing, Linked,
       Recorded, Answered, GivingBack, Undoing, BrokenOff

\* A recovery that cannot begin leaves the journal for the next one.
LEMMA LeaveKeeps ==
    ASSUME Undisturbed, BrokenOff(crew.pc), UNCHANGED <<site, deed, prior, luck>>,
           crew' = Off \/ CrewIs(crew', "resume", crew.undo, crew.found, crew.locked)
    PROVE  Undisturbed'
<1>1. /\ DOMAIN crew' = CrewFields /\ (crew'.locked = FALSE \/ crew'.locked = crew.locked)
      /\ crew'.pc \in {"idle", "resume"}
   BY OffShape DEF CrewIs
<1>2. /\ DOMAIN crew' = CrewFields /\ ~crew'.locked /\ crew'.locked \in BOOLEAN
   BY <1>1, OffShape DEF BrokenOff, CrewIs, Undisturbed, InstallerFits
<1>3. InstallerFits' BY <1>2, CrewFits DEF Undisturbed
<1>4. Journalled' BY DEF BrokenOff, Journalled, KeepsIt, Installed, Up
<1>5. BrokenOff(crew.pc)' BY <1>1, <1>2, <1>4 DEF BrokenOff
<1>6. QED BY <1>3, <1>5 DEF Undisturbed, InstallerAt

\* Reading the journal changes nothing.
LEMMA ReadJournalKeeps ==
    ASSUME Undisturbed, ReadJournal
    PROVE  Undisturbed'
<1>1. BrokenOff(crew.pc) /\ DOMAIN crew = CrewFields
   BY WhereBroken DEF ReadJournal, Check, Undisturbed, InstallerFits
<1>2. /\ UNCHANGED <<site, deed, prior, luck>>
      /\ crew' = Off \/ crew' = [crew EXCEPT !.pc = "resume"]
   BY DEF ReadJournal, Check
<1>3. crew' = Off \/ CrewIs(crew', "resume", crew.undo, crew.found, crew.locked)
   BY <1>1, <1>2, SetCrew
<1>4. QED BY <1>1, <1>2, <1>3, LeaveKeeps

\* A recovery keeps an attempt that had reopened the gate, and begins to undo any other one.
LEMMA RecoverKeeps ==
    ASSUME Undisturbed, RecoverInstall
    PROVE  Undisturbed'
<1>1. /\ crew.pc = "resume" /\ UNCHANGED <<site, prior, luck>> BY DEF RecoverInstall
<1>2. BrokenOff("resume") /\ InstallerFits /\ IsSite(site) /\ DOMAIN crew = CrewFields
   BY <1>1, WhereBroken DEF Undisturbed, InstallerFits
<1>3. /\ FoundOK(deed.found, prior) /\ deed.phase # "none" /\ ~crew.locked
      /\ deed.phase = "services_started" => ~site.path
      /\ KeepsIt => site.gate = "open" /\ Installed(site) /\ Up(site)
      /\ ~KeepsIt => Undoable(site, deed.undo, deed.found, prior)
   BY <1>2 DEF BrokenOff, Journalled
<1>4. Keeps <=> KeepsIt BY <1>3 DEF Keeps, KeepsIt
<1>5. CASE crew' = Off /\ deed' = deed BY <1>1, <1>2, <1>5, LeaveKeeps
<1>6. CASE Keeps /\ deed' = NoDeed /\ crew' = [crew EXCEPT !.pc = "classify"]
  <2>1. CrewIs(crew', "classify", crew.undo, crew.found, crew.locked) BY <1>2, <1>6, SetCrew
  <2>2. DOMAIN crew' = CrewFields /\ crew'.locked = crew.locked /\ crew'.pc = "classify"
     BY <2>1 DEF CrewIs
  <2>3. InstallerFits' BY <1>1, <1>2, <1>6, <2>2, NoDeedShape, UndoFits DEF InstallerFits
  <2>4. site.gate = "open" /\ Installed(site) /\ Up(site) BY <1>3, <1>4, <1>6
  <2>5. Rests(site) BY <2>4 DEF Rests, Installed
  <2>6. AllOrNone' BY <1>1, <2>4, <2>5 DEF AllOrNone, Installed, Rests, Up
  <2>7. Quiet(crew.pc)' BY <1>3, <1>6, <2>2, <2>6, NoDeedShape DEF Quiet
  <2>8. QED BY <2>3, <2>7 DEF Undisturbed, InstallerAt
<1>7. CASE /\ ~Keeps /\ ~site.busy /\ deed' = deed
           /\ crew' = [Recalled EXCEPT !.pc = "undo", !.locked = TRUE, !.again = TRUE]
  <2>1. CrewIs(crew', "undo", deed.undo, deed.found, TRUE) BY <1>2, <1>7, SetCrew
  <2>2. InstallerFits' BY <1>1, <1>2, <1>7, <2>1, CrewFits DEF CrewIs
  <2>3. Undoable(site, deed.undo, deed.found, prior) BY <1>3, <1>4, <1>7
  <2>4. deed.phase = "services_started" => site.gate = "closed" BY <1>4, <1>7 DEF KeepsIt
  <2>5. FoundOK(deed.found, prior') /\ Undoable(site', deed'.undo, deed.found, prior')
     BY <1>1, <1>3, <1>7, <2>3
  <2>6. Halting(deed.undo) => Halting(deed'.undo) \/ deed.found.units = "none" BY <1>7
  <2>7. QED BY <1>1, <1>3, <1>7, <2>1, <2>2, <2>4, <2>5, <2>6, BreakKeeps
<1>8. QED BY <1>5, <1>6, <1>7 DEF RecoverInstall

\* Once a rollback was broken off after it had reopened the gate, that stays so.
LEMMA ReopenedStays ==
    ASSUME DOMAIN prior = PriorFields, InstallerNext
    PROVE  DOMAIN prior' = PriorFields /\ (prior.reopened => prior'.reopened)
<1>1. CASE UNCHANGED prior BY <1>1, SMTT(30)
<1>2. CASE Classify BY <1>2 DEF Classify, PriorFields
<1>3. CASE StopUpdater BY <1>3 DEF StopUpdater, PriorFields
<1>4. CASE RestoreData BY <1>4 DEF RestoreData, PriorFields
<1>5. CASE Relink BY <1>5 DEF Relink, PriorFields
<1>6. CASE Revive BY <1>6 DEF Revive, PriorFields
<1>7. CASE Purge BY <1>7 DEF Purge, PriorFields
<1>8. CASE UpdaterRuns BY <1>8 DEF UpdaterRuns, PriorFields
<1>9. CASE FileUpdate BY <1>9 DEF FileUpdate, PriorFields
<1>10. CASE HostReboots BY <1>10 DEF HostReboots, PriorFields
<1>11. CASE \/ Install \/ CheckHost \/ DownloadManager \/ VerifyCachedRelease \/ FindRelease
            \/ DownloadRelease \/ ExtractRelease \/ PrepareRelease \/ AdmitEnvironment
            \/ LegacyIdentity \/ AdmitDestinations \/ ReadHost \/ TakeLock \/ ReadJournal
            \/ RecoverInstall \/ BusinessWrite
   BY <1>11, <1>1 DEF Install, CheckHost, DownloadManager, VerifyCachedRelease, FindRelease,
      DownloadRelease, ExtractRelease, PrepareRelease, AdmitEnvironment, LegacyIdentity,
      AdmitDestinations, Check, ReadHost, TakeLock, ReadJournal, RecoverInstall, BusinessWrite
<1>12. CASE \/ CloseGate \/ StopApplication \/ BackUp \/ NotePlan \/ Publish \/ SwitchLinks
            \/ GiveUpLock \/ Initialise \/ StartApi \/ Health \/ ProbeCapability \/ OpenGate
            \/ Complete \/ UndoStore
   BY <1>12, <1>1, Zenon DEF CloseGate, StopApplication, BackUp, NotePlan, Publish, SwitchLinks,
      GiveUpLock, Initialise, StartApi, Health, ProbeCapability, OpenGate, Complete, UndoStore, Plain
<1>13. QED
   BY <1>2, <1>3, <1>4, <1>5, <1>6, <1>7, <1>8, <1>9, <1>10, <1>11, <1>12, Zenon DEF InstallerNext

\* Every host install meets is at rest, and nothing has been attempted on it.
LEMMA HostsRest ==
    ASSUME InstallerInit \/ NoInstaller
    PROVE  /\ IsSite(site) /\ Rests(site) /\ ~site.busy /\ site.data = 0
           /\ deed = NoDeed /\ crew = Off /\ luck.writes = MaxWrites
           /\ DOMAIN luck = {"mishaps", "writes", "installs", "updates"}
           /\ prior = [site |-> site, goal |-> 0, overtaken |-> FALSE, halted |-> FALSE,
                       reopened |-> FALSE]
<1>1. CASE InstallerInit
  <2>1. CASE site = Bare
     BY <1>1, <2>1 DEF InstallerInit, Bare, IsSite, SiteFields, Rests, Up, Runs, Asked
  <2>2. CASE site = Old
     BY <1>1, <2>2 DEF InstallerInit, Old, Bare, IsSite, SiteFields, Rests, Up, Runs, Asked
  <2>3. CASE site = Signed(TRUE) \/ site = Signed(FALSE)
    <3>1. PICK path \in BOOLEAN : site = Signed(path) BY <2>3
    <3>2. site = [base |-> 1, store |-> 0, manager |-> 0, record |-> 0, units |-> "new",
                  api |-> 1, path |-> path, enabled |-> TRUE,
                  gate |-> "absent", made |-> {"env", "key"}, data |-> 0, busy |-> FALSE]
       BY <3>1 DEF Signed, Bare
    <3>3. IsSite(site) BY <3>1, <3>2 DEF IsSite, SiteFields
    <3>4. Rests(site) BY <3>1, <3>2 DEF Rests, Up, Runs, Asked
    <3>5. QED BY <1>1, <3>2, <3>3, <3>4 DEF InstallerInit
  <2>4. CASE \E code \in {0, 1, 3}, gate \in {"absent", "open"} : site = Owned(code, gate)
    <3>1. PICK code \in {0, 1, 3}, gate \in {"absent", "open"} : site = Owned(code, gate) BY <2>4
    <3>2. site = [base |-> 1, store |-> code, manager |-> 1, record |-> 1, units |-> "new",
                  api |-> IF code = 0 THEN 1 ELSE code, path |-> FALSE, enabled |-> TRUE,
                  gate |-> gate, made |-> {"env", "key"}, data |-> 0, busy |-> FALSE]
       BY <3>1 DEF Owned, Signed, Bare
    <3>3. IsSite(site) BY <3>1, <3>2 DEF IsSite, SiteFields
    <3>4. site.store = code /\ site.base = 1 /\ site.enabled /\ site.gate = gate /\ ~site.busy
          /\ site.api = (IF code = 0 THEN 1 ELSE code) /\ site.units = "new" /\ site.data = 0
       BY <3>2
    <3>5. Rests(site) BY <3>1, <3>4 DEF Rests, Up, Runs, Asked
    <3>6. QED BY <1>1, <3>3, <3>4, <3>5 DEF InstallerInit
  <2>5. QED BY <1>1, <2>1, <2>2, <2>3, <2>4 DEF InstallerInit
<1>2. CASE NoInstaller
   BY <1>2 DEF NoInstaller, Bare, IsSite, SiteFields, Rests, Up, Runs, Asked
<1>3. QED BY <1>1, <1>2

\* The invariant holds of every host the installer is started on, and where it is not run.
LEMMA InstallerStarts ==
    ASSUME InstallerInit \/ NoInstaller
    PROVE  InstallerInv
<1>1. /\ IsSite(site) /\ Rests(site) /\ ~site.busy /\ site.data = 0
      /\ deed = NoDeed /\ crew = Off /\ luck.writes = MaxWrites
      /\ DOMAIN luck = {"mishaps", "writes", "installs", "updates"}
      /\ prior = [site |-> site, goal |-> 0, overtaken |-> FALSE, halted |-> FALSE,
                  reopened |-> FALSE]
   BY HostsRest
<1>2. /\ DOMAIN prior = PriorFields /\ prior.site = site /\ prior.goal = 0
      /\ ~prior.overtaken /\ ~prior.halted /\ prior.overtaken \in BOOLEAN /\ prior.halted \in BOOLEAN
   BY <1>1 DEF PriorFields
<1>3. /\ DOMAIN crew = CrewFields /\ crew.pc = "idle" /\ crew.locked = FALSE
      /\ DOMAIN deed = {"phase", "undo", "found"} /\ deed.phase = "none"
   BY <1>1 DEF Off, NoDeed, CrewFields
<1>4. MaxWrites \in Nat /\ site.data + luck.writes = MaxWrites
   BY <1>1, InstallerAssumption
<1>8. InstallerFits
  <2>1. DOMAIN prior.site = SiteFields /\ prior.goal \in 0..2 BY <1>1, <1>2 DEF IsSite
  <2>2. luck.writes \in Nat BY <1>1, <1>4
  <2>3. crew.locked \in BOOLEAN /\ (crew.locked => ~site.busy) BY <1>3
  <2>4. QED BY <1>1, <1>2, <1>3, <1>4, <2>1, <2>2, <2>3 DEF InstallerFits
<1>5. Unchanged(site) BY <1>2 DEF Unchanged
<1>6. Quiet(crew.pc) BY <1>1, <1>3, <1>5 DEF Quiet, AllOrNone
<1>7. QED BY <1>2, <1>8, <1>6 DEF InstallerInv, Undisturbed, InstallerAt

\* Whatever the installer and the rest of its host do, the invariant stays.
LEMMA InstallerSteps ==
    ASSUME InstallerInv, InstallerNext
    PROVE  InstallerInv'
<1>1. DOMAIN prior' = PriorFields /\ (prior.reopened => prior'.reopened)
   BY ReopenedStays DEF InstallerInv
<1>2. CASE prior'.reopened BY <1>1, <1>2 DEF InstallerInv
<1>3. CASE ~prior'.reopened
  <2> SUFFICES Undisturbed' BY <1>1 DEF InstallerInv
  <2>1. DOMAIN prior = PriorFields /\ Undisturbed BY <1>1, <1>3 DEF InstallerInv
  <2>2. CASE Install \/ Classify BY <2>1, <2>2, InstallKeeps, ClassifyKeeps, Zenon
  <2>3. CASE \/ CheckHost \/ DownloadManager \/ VerifyCachedRelease \/ FindRelease
             \/ DownloadRelease \/ ExtractRelease \/ PrepareRelease \/ AdmitEnvironment
             \/ LegacyIdentity \/ AdmitDestinations
     BY <2>1, <2>3, ChecksKeep, Zenon
  <2>4. CASE ReadHost \/ TakeLock BY <2>1, <2>4, ReadKeeps, LockKeeps, Zenon
  <2>5. CASE CloseGate \/ StopUpdater \/ StopApplication
     BY <2>1, <2>5, GateKeeps, StopKeeps, AppKeeps, Zenon
  <2>6. CASE BackUp \/ NotePlan \/ Publish BY <2>1, <2>6, BackUpKeeps, PlanKeeps, FilesKeep, Zenon
  <2>7. CASE SwitchLinks \/ GiveUpLock \/ Initialise
     BY <2>1, <2>7, SwitchKeeps, GiveUpLockKeeps, InitialiseKeeps, Zenon
  <2>8. CASE StartApi \/ Health \/ ProbeCapability
     BY <2>1, <2>8, StartKeeps, HealthKeeps, ProbeKeeps, Zenon
  <2>9. CASE OpenGate \/ Complete BY <2>1, <2>9, OpenKeeps, CompleteKeeps, Zenon
  <2>10. CASE UndoStore \/ RestoreData \/ Relink
     BY <1>3, <2>1, <2>10, StoreKeeps, RestoreKeeps, RelinkKeeps, Zenon
  <2>11. CASE Revive \/ Purge BY <1>3, <2>1, <2>11, ReviveKeeps, PurgeKeeps, Zenon
  <2>12. CASE ReadJournal \/ RecoverInstall
     BY <2>1, <2>12, ReadJournalKeeps, RecoverKeeps, Zenon
  <2>13. CASE BusinessWrite \/ UpdaterRuns \/ FileUpdate
     BY <2>1, <2>13, BusinessKeeps, UpdaterKeeps, FileKeeps, Zenon
  <2>14. CASE HostReboots BY <1>3, <2>1, <2>14, RebootKeeps, Zenon
  <2>15. QED
     BY <2>2, <2>3, <2>4, <2>5, <2>6, <2>7, <2>8, <2>9, <2>10, <2>11, <2>12, <2>13, <2>14, Zenon
        DEF InstallerNext
<1>4. QED BY <1>2, <1>3

\* A step of another deployment leaves the installer's host as it is.
LEMMA InstallerStutters ==
    ASSUME InstallerInv, UNCHANGED installVars
    PROVE  InstallerInv'
<1>1. /\ site' = site /\ deed' = deed /\ crew' = crew /\ prior' = prior /\ luck' = luck
   BY DEF installVars
<1>2. InstallerFits' <=> InstallerFits BY <1>1, Zenon DEF InstallerFits
<1>3. Quiet(crew.pc)' <=> Quiet(crew.pc)
   BY <1>1, Zenon DEF Quiet, AllOrNone, Installed, Unchanged
<1>4. Aims' <=> Aims BY <1>1, Zenon DEF Aims
<1>5. Trying(crew.pc)' <=> Trying(crew.pc) BY <1>1, <1>4, Zenon DEF Trying, Untried
<1>6. Wanted' = Wanted BY <1>1, Zenon DEF Wanted
<1>7. /\ FoundOK(crew.found, prior)' <=> FoundOK(crew.found, prior)
      /\ FoundOK(deed.found, prior)' <=> FoundOK(deed.found, prior)
      /\ Undoable(site, deed.undo, crew.found, prior)' <=> Undoable(site, deed.undo, crew.found, prior)
      /\ Undoable(site, crew.undo, crew.found, prior)' <=> Undoable(site, crew.undo, crew.found, prior)
      /\ Undoable(site, deed.undo, deed.found, prior)' <=> Undoable(site, deed.undo, deed.found, prior)
      /\ Installed(site)' <=> Installed(site)
   BY <1>1, Zenon DEF Installed
<1>8. Transacting(crew.pc)' <=> Transacting(crew.pc)
   BY <1>1, <1>4, <1>6, <1>7 DEF Transacting
<1>9. Committing(crew.pc)' <=> Committing(crew.pc) BY <1>1, <1>8, Zenon DEF Committing
<1>10. BrokenOff(crew.pc)' <=> BrokenOff(crew.pc)
   BY <1>1, <1>7 DEF BrokenOff, Journalled, KeepsIt
<1>11. Backing(crew.pc)' <=> Backing(crew.pc) BY <1>1, <1>7 DEF Backing
<1>12. GivingBack(crew.pc)' <=> GivingBack(crew.pc) BY <1>1, <1>11, Zenon DEF GivingBack
<1>13. QED
   BY <1>1, <1>2, <1>3, <1>5, <1>9, <1>10, <1>12 DEF InstallerInv, Undisturbed, InstallerAt

\* When nothing is going on, the invariant gives all or nothing.
LEMMA InstallerAtRest ==
    ASSUME InstallerInv
    PROVE  InstallIsAtomic
<1>1. SUFFICES ASSUME crew.pc \in {"idle", "classify"}, deed.phase = "none", ~site.busy,
                      ~prior.overtaken, ~prior.reopened
               PROVE  /\ Installed(site) \/ Unchanged(site)
                      /\ site.gate # "closed"
                      /\ site.api = IF site.enabled THEN Runs(site) ELSE 0
                      /\ site.data = MaxWrites - luck.writes
   BY DEF InstallIsAtomic
<1>2. InstallerFits /\ InstallerAt(crew.pc) BY <1>1 DEF InstallerInv, Undisturbed
<1>3. Quiet(crew.pc)
   BY <1>1, <1>2 DEF InstallerAt, Trying, Checks, Committing, Commit, Unmoved, Copying, Placing,
      Linked, Recorded, Answered, BrokenOff, GivingBack, Undoing
<1>4. Rests(site) /\ (Installed(site) \/ Unchanged(site)) BY <1>1, <1>3 DEF Quiet, AllOrNone
<1>5. /\ site.data \in Nat /\ luck.writes \in Nat /\ site.data + luck.writes = MaxWrites
   BY <1>2 DEF InstallerFits, IsSite
<1>6. site.data = MaxWrites - luck.writes BY <1>5
<1>7. QED BY <1>1, <1>4, <1>6 DEF Rests, Up

\* The installer's invariant holds on every host, whichever deployment it is.
THEOREM InstallerInvariant == Spec => []InstallerInv
<1>1. Init => InstallerInv
  BY InstallerStarts DEF Init
<1>2. InstallerInv /\ [Next]_pvars => InstallerInv'
  <2> SUFFICES ASSUME InstallerInv, [Next]_pvars PROVE InstallerInv'
    OBVIOUS
  <2>1. CASE InstallerNext BY <2>1, InstallerSteps
  <2>2. CASE UNCHANGED installVars BY <2>2, InstallerStutters
  <2> QED BY <2>1, <2>2 DEF Next, pvars
<1> QED BY <1>1, <1>2, PTL DEF Spec

\* An installation is all or nothing, wherever steps fail, the installer is killed or the host
\* reboots: installer.py leaves an installed host or the host it found, its gate open, its API
\* running and every acknowledged write there.
THEOREM InstallIsAlwaysAtomic == Spec => []InstallIsAtomic
<1>1. InstallerInv => InstallIsAtomic BY InstallerAtRest
<1> QED BY <1>1, InstallerInvariant, PTL
================================================================================
