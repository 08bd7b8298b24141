----------------------------- MODULE SystemdUpdater -----------------------------
(***************************************************************************)
(* The root executor of a systemd installation, deploy/updater/updater.py: *)
(* a oneshot unit that claims the request, records every step of it in a   *)
(* private journal and can be killed between any two of its writes.  It is *)
(* started whenever the request or its pointer active.json exists.         *)
(*                                                                         *)
(* mem is the journal in memory, journal[o] the one on disk.  A transition *)
(* to a phase is five writes (_transition): the journal, the legacy row by *)
(* compare and swap, the journal again with the row's token, the public    *)
(* status and the maintenance marker.                                      *)
(*                                                                         *)
(* The releases are standalone ones, which bring the manager that runs the *)
(* executor: it is replaced, and takes over, before the services stop.     *)
(***************************************************************************)
EXTENDS UpdateApi

CONSTANT ReleaseKeep  \* RELEASE_KEEP

ASSUME ReleaseKeepAssumption == ReleaseKeep \in Nat \ {0}

VARIABLES
    journal,   \* journals/<operation>.json
    pointer,   \* active.json and blocked.json, the manager's link and the manager that
               \* initialization.json is of
    unit,      \* the running executor: program counter, write of a transition, mem, what it
               \* does after finishing, why it stopped forward work, the manager it is
    backup     \* the data the cold backup of each operation holds

unitVars == <<journal, pointer, unit, backup>>

NoJournal ==
    [op |-> NoOp, phase |-> "none", maint |-> FALSE, admitted |-> FALSE, old |-> 0,
     claimed |-> FALSE, preexisting |-> FALSE, target |-> FALSE, deps |-> FALSE,
     stopped |-> FALSE, backup |-> FALSE, runtime |-> FALSE, started |-> FALSE,
     migrated |-> FALSE, switched |-> FALSE, shown |-> 0, healthy |-> FALSE, token |-> "none",
     manager |-> 0]

IdleUnit == [pc |-> "idle", stage |-> "save", mem |-> NoJournal, then |-> "consume", cause |-> "none",
             exe |-> 0]

mem == unit.mem

Intent(o) == row[o]

Goto(pc, m) == unit' = [unit EXCEPT !.pc = pc, !.stage = "save", !.mem = m]

Raise(cause) ==
    unit' = [unit EXCEPT !.pc = "error", !.stage = "save", !.cause = cause, !.then = "consume"]

Save(m) == journal' = [journal EXCEPT ![m.op] = m]

Here == UNCHANGED <<apiVars, hostVars, request, public, maintenance>>

-----------------------------------------------------------------------------
(* Claiming a request.                                                     *)

PendingOp == IF pointer.active # NoOp THEN pointer.active ELSE pointer.blocked

Orphans == {o \in Ops : /\ journal[o].phase # "none"
                        /\ journal[o].phase \notin Terminal \/ journal[o].maint}

\* The path unit watches the request and active.json.
Triggered == request # NoOp \/ pointer.active # NoOp

Run(pc, m) == unit' = [IdleUnit EXCEPT !.pc = pc, !.mem = m, !.exe = pointer.manager]

\* An accepted request survives its expiry and the loss of its file.
ClaimPending ==
    /\ unit.pc = "idle"
    /\ PendingOp # NoOp
    /\ journal[PendingOp].phase = "recovery_failed" => request \in {NoOp, PendingOp}
    /\ Run("admit", journal[PendingOp])
    /\ UNCHANGED <<journal, pointer, backup, budget>> /\ Here

\* An operator starts the unit by hand to retry a failed recovery.
OperatorRetry == ~Triggered /\ ClaimPending

\* The journal was written before the crash, its pointer was not.
ClaimOrphan ==
    /\ unit.pc = "idle"
    /\ request # NoOp /\ PendingOp = NoOp
    /\ \E o \in Orphans :
          /\ pointer' = [pointer EXCEPT !.active = o]
          /\ Run("admit", journal[o])
    /\ UNCHANGED <<journal, backup, budget>> /\ Here

NewJournal(o) == [NoJournal EXCEPT !.op = o, !.phase = "queued", !.shown = current]

\* _open_journal; a request for another current version is left where it is.
ClaimNew ==
    /\ unit.pc = "idle"
    /\ request # NoOp /\ PendingOp = NoOp /\ Orphans = {}
    /\ IF journal[request].phase # "none"
       THEN /\ Run("process", journal[request])
            /\ UNCHANGED journal
       ELSE /\ request \notin expired
            /\ Intent(request).expected = current
            /\ Save(NewJournal(request))
            /\ Run("activate", NewJournal(request))
    /\ UNCHANGED <<pointer, backup, budget>> /\ Here

Activate ==
    /\ unit.pc = "activate"
    /\ pointer' = [pointer EXCEPT !.active = mem.op]
    /\ Goto("admit", mem)
    /\ UNCHANGED <<journal, backup, budget>> /\ Here

\* _discard_rejected_intent: an expired request, or one behind a failed recovery.
Discard ==
    /\ unit.pc = "idle"
    /\ request # NoOp
    /\ \/ PendingOp = NoOp /\ Orphans = {} /\ request \in expired /\ journal[request].phase = "none"
       \/ /\ PendingOp \notin {NoOp, request}
          /\ journal[PendingOp].phase = "recovery_failed"
    /\ public' = IF journal[request].phase = "none" /\ Intent(request).expected = current
                 THEN [public EXCEPT ![request] = [phase |-> "failed", fresh |-> TRUE]]
                 ELSE public
    /\ request' = NoOp
    /\ UNCHANGED <<unitVars, budget, apiVars, hostVars, maintenance>>

-----------------------------------------------------------------------------
(* Writing a transition.                                                   *)

TokenMatches(m) == m.token = "last" /\ legacy[Intent(m.op).version].writer = "executor"

\* update_status: the row is as this executor left it, or shows the status already.
CasSucceeds(m) ==
    \/ m.token = "none"
    \/ TokenMatches(m)
    \/ legacy[Intent(m.op).version].status = m.phase

\* _assert_execution_owner.
Owns(m) == PendingOp = m.op /\ (m.token = "none" \/ TokenMatches(m))

Cas(recovery) ==
    /\ UNCHANGED <<pointer, backup, candidate, expired, publishing, row>>
    /\ UNCHANGED <<hostVars, request, public, maintenance>>
    /\ \/ /\ CasSucceeds(mem)
          /\ legacy' = [legacy EXCEPT ![Intent(mem.op).version] =
                           [status |-> mem.phase, owner |-> mem.op, writer |-> "executor"]]
          /\ unit' = [unit EXCEPT !.stage = "token", !.mem.token = "last"]
          /\ journal' = [journal EXCEPT ![mem.op].token = IF @ = "last" THEN "old" ELSE @]
          /\ UNCHANGED budget
       \/ /\ IF CasSucceeds(mem) THEN Spend ELSE UNCHANGED budget
          /\ IF recovery THEN unit' = [unit EXCEPT !.stage = "publish"]
                         ELSE Raise(IF CasSucceeds(mem) THEN "command" ELSE "conflict")
          /\ UNCHANGED <<legacy, journal>>

\* _publish_state withholds a status that contradicts the installed version.
PublishStatus(m) ==
    public' = IF m.shown # current THEN public
              ELSE [public EXCEPT ![m.op] =
                       [phase |-> IF m.phase = "migrating" THEN "preparing" ELSE m.phase, fresh |-> TRUE]]

Transition(at, phase, m, recovery, next) ==
    /\ unit.pc = at
    /\ \/ /\ unit.stage = "save"
          /\ unit' = [unit EXCEPT !.stage = "cas", !.mem = [m EXCEPT !.phase = phase]]
          /\ Save([m EXCEPT !.phase = phase])
          /\ UNCHANGED <<pointer, backup, budget>> /\ Here
       \/ unit.stage = "cas" /\ Cas(recovery)
       \/ /\ unit.stage = "token"
          /\ Save(mem)
          /\ unit' = [unit EXCEPT !.stage = "publish"]
          /\ UNCHANGED <<pointer, backup, budget>> /\ Here
       \/ /\ unit.stage = "publish"
          /\ PublishStatus(mem)
          /\ unit' = [unit EXCEPT !.stage = "gate"]
          /\ UNCHANGED <<journal, pointer, backup, budget, apiVars, hostVars, request, maintenance>>
       \/ /\ unit.stage = "gate"
          /\ maintenance' = mem.maint
          /\ Goto(next, mem)
          /\ UNCHANGED <<journal, pointer, backup, budget, apiVars, hostVars, request, public>>

\* A step that only saves the journal; ok is what it checks first.
SaveStep(at, ok, m, next) ==
    /\ unit.pc = at
    /\ IF ok THEN Save(m) /\ Goto(next, m) ELSE Raise("check") /\ UNCHANGED journal
    /\ UNCHANGED <<pointer, backup, budget>> /\ Here

\* A step that changes nothing on disk, taken by the operation's owner.
OwnerStep(at, m, next) ==
    /\ unit.pc = at
    /\ IF Owns(m) THEN Goto(next, m) ELSE Raise("conflict")
    /\ UNCHANGED <<journal, pointer, backup, budget>> /\ Here

-----------------------------------------------------------------------------
(* Admission.                                                              *)

\* verify_existing_release: every file of the installed release is as its manifest says.
Sound(version) == version \in releases

\* _admit_maintenance_protocol: the candidate, or the release that is to run, is there.
Admissible(m) ==
    IF Intent(m.op).action = "apply" /\ ~m.target THEN Verified(m.op)
                                                 ELSE Sound(Intent(m.op).version)

Admit ==
    /\ unit.pc = "admit"
    /\ \/ /\ \/ mem.phase \in Terminal \ {"recovery_failed"}
             \/ mem.admitted
          /\ Goto("process", mem)
          /\ UNCHANGED <<journal, budget>>
       \/ /\ mem.phase \notin Terminal \ {"recovery_failed"} /\ ~mem.admitted
          /\ Admissible(mem)
          /\ Goto("process", [mem EXCEPT !.admitted = TRUE])
          /\ Save([mem EXCEPT !.admitted = TRUE])
          /\ UNCHANGED budget
       \/ /\ mem.phase \notin Terminal \ {"recovery_failed"} /\ ~mem.admitted
          /\ IF Admissible(mem) THEN Spend ELSE UNCHANGED budget
          /\ Goto("refused", [mem EXCEPT !.maint = mem.maint \/ mem.stopped])
          /\ UNCHANGED journal
    /\ UNCHANGED <<pointer, backup>> /\ Here

Refused == Transition("refused", IF mem.maint THEN "recovery_failed" ELSE "failed", mem, TRUE, "finish")

\* Where process_intent goes on, from what the journal says is done.
Point(m) ==
    CASE m.old = 0                               -> "identify"
      [] m.old # 0 /\ ~m.target                  -> "verify"
      [] m.old # 0 /\ m.target /\ ~m.deps        -> "precheck"
      [] m.old # 0 /\ m.target /\ m.deps /\ ~m.maint -> "own"
      [] m.old # 0 /\ m.target /\ m.deps /\ m.maint  ->
            IF m.migrated THEN "switching" ELSE "stopping"

Process ==
    /\ unit.pc = "process"
    /\ CASE mem.phase \in Terminal \ {"recovery_failed"} ->
              Goto(IF PendingOp = mem.op THEN "finish" ELSE "consume", mem)
         [] mem.phase \in {"rolling_back", "recovery_failed"} -> Goto("recover", mem)
         [] mem.phase \notin Terminal \cup {"rolling_back"} /\ mem.started /\ ~mem.migrated ->
              Raise("interrupted")
         [] mem.phase \notin Terminal \cup {"rolling_back"} /\ ~(mem.started /\ ~mem.migrated) ->
              Goto(Point(mem), mem)
    /\ UNCHANGED <<journal, pointer, backup, budget>> /\ Here

-----------------------------------------------------------------------------
(* Forward: process_intent.                                                *)

Target == Intent(mem.op).version

Identify ==
    LET i == Intent(mem.op)
    IN  SaveStep("identify",
                 /\ i.expected = current
                 /\ i.action = "apply" => i.version > current
                 /\ i.action = "rollback" => i.version < current,
                 [mem EXCEPT !.old = current, !.shown = current], "verify")

VerifyPackage ==
    Transition("verify", "verifying_package", mem, FALSE,
               IF Intent(mem.op).action = "rollback" THEN "record"
               ELSE IF mem.claimed THEN "copy" ELSE "claim_dir")

ClaimDir ==
    SaveStep("claim_dir", TRUE,
             [mem EXCEPT !.preexisting = Target \in releases, !.claimed = TRUE], "copy")

\* materialize_release refuses a directory that exists, unless this operation made it.
Materialize ==
    /\ unit.pc = "copy"
    /\ LET mine == Sound(Target) /\ ~mem.preexisting
       IN  \/ mine /\ Goto("record", mem) /\ UNCHANGED releases
           \/ ~mine /\ ~Owns(mem) /\ Raise("conflict") /\ UNCHANGED releases
           \/ /\ ~mine /\ Owns(mem)
              /\ Target \in releases \/ ~Verified(mem.op)
              /\ Raise("check") /\ UNCHANGED releases
           \/ /\ ~mine /\ Owns(mem)
              /\ Target \notin releases /\ Verified(mem.op)
              /\ releases' = releases \cup {Target}
              /\ Goto("record", mem)
    /\ UNCHANGED <<journal, pointer, backup, budget, apiVars, request, public, maintenance>>
    /\ UNCHANGED <<current, services, data, writing>>

RecordTarget == SaveStep("record", Sound(Target), [mem EXCEPT !.target = TRUE], "precheck")

Precheck == Transition("precheck", "preflighting", mem, FALSE, "deps")

\* An apply brings a manager of its own; the one it replaces is noted first.
CheckDependencies ==
    /\ unit.pc = "deps"
    /\ IF Intent(mem.op).action = "rollback" THEN SaveStep("deps", TRUE, mem, "checked")
       ELSE SaveStep("deps", TRUE, [mem EXCEPT !.manager = IF @ = 0 THEN pointer.manager ELSE @], "manager")

\* materialize_manager: after its self-check the new manager is selected.
MaterializeManager ==
    /\ unit.pc = "manager"
    /\ pointer' = [pointer EXCEPT !.manager = Target]
    /\ Goto("handoff", mem)
    /\ UNCHANGED <<journal, backup, budget>> /\ Here

\* _handoff_manager: the process becomes the new manager and resumes from the journal.
\* If it cannot, the old one is selected and initialised again.
HandOffManager ==
    /\ unit.pc = "handoff"
    /\ \/ /\ unit.exe = Target
          /\ Goto("initialise", mem)
          /\ UNCHANGED <<pointer, budget>>
       \/ /\ unit.exe # Target
          /\ Run("admit", journal[mem.op])
          /\ UNCHANGED <<pointer, budget>>
       \/ /\ unit.exe # Target
          /\ Spend
          /\ pointer' = [pointer EXCEPT !.manager = mem.manager, !.record = mem.manager]
          /\ Raise("command")
    /\ UNCHANGED <<journal, backup>> /\ Here

\* initialize_layout: the record names the manager that is selected.
InitializeLayout ==
    /\ unit.pc = "initialise"
    /\ pointer' = [pointer EXCEPT !.record = pointer.manager]
    /\ Goto("checked", mem)
    /\ UNCHANGED <<journal, backup, budget>> /\ Here

DependenciesChecked ==
    SaveStep("checked", TRUE, [mem EXCEPT !.deps = TRUE], Point([mem EXCEPT !.deps = TRUE]))

OwnPreparing ==
    /\ unit.pc = "own"
    /\ IF Owns(mem) THEN Goto("preparing", [mem EXCEPT !.maint = TRUE]) ELSE Raise("conflict")
    /\ UNCHANGED <<journal, pointer, backup, budget>> /\ Here

Preparing == Transition("preparing", "preparing", mem, FALSE, "stopping")

Stopping == Transition("stopping", "stopping", [mem EXCEPT !.stopped = TRUE], FALSE, "stop")

AfterBackups == IF Intent(mem.op).action = "apply" THEN "preflighting" ELSE "migrated"

AfterStop ==
    IF ~mem.backup THEN "backing" ELSE IF ~mem.runtime THEN "backing_runtime" ELSE AfterBackups

\* stop_services, of an update or of its recovery.
StopServices(at, next) ==
    /\ unit.pc = at
    /\ Stopped(0)
    /\ Goto(next, mem)
    /\ UNCHANGED <<journal, pointer, backup, budget, row, legacy, candidate, expired>>
    /\ UNCHANGED <<request, public, maintenance, releases, current, data>>

Stop ==
    \/ Owns(mem) /\ StopServices("stop", AfterStop)
    \/ ~Owns(mem) /\ OwnerStep("stop", mem, "stop")

BackingUp == Transition("backing", "backing_up", mem, FALSE, "backup")

\* Mutant: the backup of an earlier attempt is not replaced.
BackupDatabaseMutant ==
    /\ unit.pc = "backup"
    /\ Goto("backing_runtime", [mem EXCEPT !.backup = TRUE])
    /\ Save([mem EXCEPT !.backup = TRUE])
    /\ UNCHANGED <<pointer, budget, backup>> /\ Here

BackupDatabase ==
    /\ unit.pc = "backup"
    /\ IF Owns(mem)
       THEN /\ backup' = [backup EXCEPT ![mem.op] = data]
            /\ Save([mem EXCEPT !.backup = TRUE])
            /\ Goto(IF mem.runtime THEN AfterBackups ELSE "backing_runtime",
                    [mem EXCEPT !.backup = TRUE])
       ELSE Raise("conflict") /\ UNCHANGED <<journal, backup>>
    /\ UNCHANGED <<pointer, budget>> /\ Here

BackingUpRuntime == Transition("backing_runtime", "backing_up", mem, FALSE, "backup_runtime")

BackupRuntime ==
    /\ unit.pc = "backup_runtime"
    /\ IF Owns(mem) THEN /\ Save([mem EXCEPT !.runtime = TRUE])
                         /\ Goto(AfterBackups, [mem EXCEPT !.runtime = TRUE])
                    ELSE Raise("conflict") /\ UNCHANGED journal
    /\ UNCHANGED <<pointer, backup, budget>> /\ Here

Preflighting == Transition("preflighting", "preflighting", mem, FALSE, "preflight")

\* preflight_migrations runs both versions on private copies of the backup.
Preflight ==
    /\ unit.pc = "preflight"
    /\ Goto("migrating", [mem EXCEPT !.started = TRUE])
    /\ UNCHANGED <<journal, pointer, backup, budget>> /\ Here

Migrating == Transition("migrating", "migrating", mem, FALSE, "migrate")

\* run_migrations on the live database.
Migrate == OwnerStep("migrate", mem, "migrated")

Migrated == SaveStep("migrated", TRUE, [mem EXCEPT !.migrated = TRUE], "switching")

Switching == Transition("switching", "switching", mem, FALSE, "switch")

SwitchCurrent ==
    /\ unit.pc = "switch"
    /\ IF Owns(mem) /\ current \in {mem.old, Target}
       THEN /\ current' = Target
            /\ Goto("verifying", [mem EXCEPT !.switched = TRUE, !.shown = Target])
       ELSE Raise(IF Owns(mem) THEN "check" ELSE "conflict") /\ UNCHANGED current
    /\ UNCHANGED <<journal, pointer, backup, budget, apiVars, request, public, maintenance>>
    /\ UNCHANGED <<releases, services, data, writing>>

Verifying == Transition("verifying", "verifying", mem, FALSE, "start")

\* systemctl start does nothing for a service that runs.
StartService(at, name, next) ==
    /\ unit.pc = at
    /\ services' = [services EXCEPT ![name] = IF @ = 0 THEN current ELSE @]
    /\ Goto(next, mem)
    /\ UNCHANGED <<journal, pointer, backup, budget, apiVars, request, public, maintenance>>
    /\ UNCHANGED <<releases, current, data, writing>>

StartServices ==
    \/ Owns(mem) /\ StartService("start", "api", "start_consumer")
    \/ ~Owns(mem) /\ OwnerStep("start", mem, "start")
    \/ StartService("start_consumer", "consumer", "health")

\* Mutant: any answer of the API will do.
HealthyMutant(version) == services.api # 0

\* check_health asks the API for its version.
Healthy(version) == services.api = version

CheckHealth ==
    /\ unit.pc = "health"
    /\ IF Healthy(Target)
       THEN unit' = [unit EXCEPT !.pc = "done", !.stage = "save", !.then = "prune"]
       ELSE Raise("check")
    /\ UNCHANGED <<journal, pointer, backup, budget>> /\ Here

Done ==
    Transition("done", IF Intent(mem.op).action = "apply" THEN "succeeded" ELSE "rolled_back",
               mem, FALSE, "finish")

-----------------------------------------------------------------------------
(* Failure and recovery.                                                   *)

\* Mutant: recovery is only tried after the switch.
DisruptedMutant(m) == m.switched

Disrupted(m) == m.maint \/ m.stopped \/ m.switched

Error ==
    /\ unit.pc = "error"
    /\ Goto(IF Disrupted(mem) THEN "recover" ELSE "failing", mem)
    /\ UNCHANGED <<journal, pointer, backup, budget>> /\ Here

Failing == Transition("failing", "failed", mem, TRUE, "finish")

RollingBack == Transition("recover", "rolling_back", [mem EXCEPT !.maint = TRUE], TRUE, "r_check")

RecoverCheck ==
    /\ unit.pc = "r_check"
    /\ LET m == [mem EXCEPT !.switched = @ \/ current = Target]
       IN  IF PendingOp = mem.op /\ Sound(mem.old) /\ current \in {mem.old, Target}
           THEN Save(m) /\ Goto("r_stop", m)
           ELSE Goto("r_failed", mem) /\ UNCHANGED journal
    /\ UNCHANGED <<pointer, backup, budget>> /\ Here

RecoverStop == StopServices("r_stop", "r_switch")

RecoverSwitch ==
    /\ unit.pc = "r_switch"
    /\ current' = mem.old
    /\ Goto("r_record", [mem EXCEPT !.shown = mem.old])
    /\ UNCHANGED <<journal, pointer, backup, budget, apiVars, request, public, maintenance>>
    /\ UNCHANGED <<releases, services, data, writing>>

RecoverRecord == SaveStep("r_record", TRUE, mem, "r_start")

RecoverStart ==
    \/ StartService("r_start", "api", "r_start_consumer")
    \/ StartService("r_start_consumer", "consumer", "r_health")

RecoverHealth ==
    /\ unit.pc = "r_health"
    /\ IF Healthy(mem.old) THEN Goto("r_done", [mem EXCEPT !.healthy = TRUE])
                           ELSE Goto("r_failed", mem)
    /\ UNCHANGED <<journal, pointer, backup, budget>> /\ Here

RecoverDone ==
    Transition("r_done", IF mem.switched THEN "rolled_back" ELSE "failed", mem, TRUE, "finish")

RecoverFailed == Transition("r_failed", "recovery_failed", mem, TRUE, "finish")

Commands == {"copy", "record", "deps", "manager", "initialise", "stop", "backup",
             "backup_runtime", "preflight", "migrate", "switch", "start", "start_consumer", "health"}

RecoveryCommands == {"r_check", "r_stop", "r_switch", "r_start", "r_start_consumer", "r_health"}

\* A command or check fails; a failing stop may have stopped the consumer.
CommandFails ==
    /\ Spend
    /\ \/ unit.pc \in Commands /\ Raise("command")
       \/ unit.pc \in RecoveryCommands /\ Goto("r_failed", mem)
    /\ \/ UNCHANGED services
       \/ unit.pc \in {"stop", "r_stop"} /\ services' = [services EXCEPT !.consumer = 0]
    /\ UNCHANGED <<journal, pointer, backup, apiVars, request, public, maintenance>>
    /\ UNCHANGED <<releases, current, data, writing>>

-----------------------------------------------------------------------------
(* _finish, pruning and the end of the run.                                *)

Finish ==
    SaveStep("finish", TRUE, [mem EXCEPT !.maint = mem.phase = "recovery_failed"], "f_publish")

FinishPublish ==
    /\ unit.pc = "f_publish"
    /\ PublishStatus(mem)
    /\ Goto("f_gate", mem)
    /\ UNCHANGED <<journal, pointer, backup, budget, apiVars, hostVars, request, maintenance>>

FinishGate ==
    /\ unit.pc = "f_gate"
    /\ maintenance' = mem.maint
    /\ Goto("f_block", mem)
    /\ UNCHANGED <<journal, pointer, backup, budget, apiVars, hostVars, request, public>>

FinishBlock ==
    /\ unit.pc = "f_block"
    /\ pointer' = IF mem.phase = "recovery_failed" THEN [pointer EXCEPT !.blocked = mem.op] ELSE pointer
    /\ Goto("f_cleanup", mem)
    /\ UNCHANGED <<journal, backup, budget>> /\ Here

\* The new release is removed only once the old one is known to run.
Removable(m) ==
    /\ m.phase \in {"rolled_back", "failed"}
    /\ m.healthy \/ ~m.stopped
    /\ Intent(m.op).action = "apply" /\ m.target
    /\ current = m.old /\ Target # m.old

FinishCleanup ==
    /\ unit.pc = "f_cleanup"
    /\ releases' = IF Removable(mem) THEN releases \ {Target} ELSE releases
    /\ Goto("f_unblock", mem)
    /\ UNCHANGED <<journal, pointer, backup, budget, apiVars, request, public, maintenance>>
    /\ UNCHANGED <<current, services, data, writing>>

FinishUnblock ==
    /\ unit.pc = "f_unblock"
    /\ pointer' = IF mem.phase # "recovery_failed" /\ pointer.blocked = mem.op
                  THEN [pointer EXCEPT !.blocked = NoOp] ELSE pointer
    /\ Goto("f_release", mem)
    /\ UNCHANGED <<journal, backup, budget>> /\ Here

FinishRelease ==
    /\ unit.pc = "f_release"
    /\ pointer' = IF pointer.active = mem.op THEN [pointer EXCEPT !.active = NoOp] ELSE pointer
    /\ Goto(unit.then, mem)
    /\ UNCHANGED <<journal, backup, budget>> /\ Here

\* prune_releases keeps the current release and the newest others.
Prune ==
    /\ unit.pc = "prune"
    /\ \E keep \in SUBSET releases :
          /\ current \in keep
          /\ \/ Cardinality(keep) = ReleaseKeep
             \/ keep = releases /\ Cardinality(keep) < ReleaseKeep
          /\ releases' = keep
    /\ Goto("consume", mem)
    /\ UNCHANGED <<journal, pointer, backup, budget, apiVars, request, public, maintenance>>
    /\ UNCHANGED <<current, services, data, writing>>

\* _remove_consumed_intent, and the process ends.
Consume ==
    /\ unit.pc = "consume"
    /\ request' = IF request = mem.op THEN NoOp ELSE request
    /\ unit' = IdleUnit
    /\ UNCHANGED <<journal, pointer, backup, budget, apiVars, hostVars, public, maintenance>>

-----------------------------------------------------------------------------
(* Crashes.                                                                *)

UnitCrash ==
    /\ unit.pc # "idle"
    /\ Spend
    /\ unit' = IdleUnit
    /\ UNCHANGED <<journal, pointer, backup>> /\ Here

\* Power is lost; the enabled services start from the current link at boot.
Reboot ==
    /\ Spend
    /\ unit' = IdleUnit
    /\ Stopped(current)
    /\ UNCHANGED <<journal, pointer, backup, row, legacy, candidate, expired>>
    /\ UNCHANGED <<request, public, maintenance, releases, current, data>>

\* A service fails and systemd starts it again, from the current link.
ServiceRestart(name) ==
    /\ Spend
    /\ services[name] # 0
    /\ services' = [services EXCEPT ![name] = current]
    /\ publishing' = IF name = "api" THEN NoOp ELSE publishing
    /\ writing' = (writing /\ name # "api")
    /\ UNCHANGED <<unitVars, row, legacy, candidate, expired>>
    /\ UNCHANGED <<request, public, maintenance, releases, current, data>>

SystemdInit ==
    /\ journal = [o \in Ops |-> NoJournal]
    /\ pointer = [active |-> NoOp, blocked |-> NoOp, manager |-> FirstVersion, record |-> FirstVersion]
    /\ unit = IdleUnit
    /\ backup = [o \in Ops |-> 0]

UnitStep ==
    \/ Triggered /\ ClaimPending
    \/ ClaimOrphan \/ ClaimNew \/ Activate \/ Discard
    \/ Admit \/ Refused \/ Process
    \/ Identify \/ VerifyPackage \/ ClaimDir \/ Materialize \/ RecordTarget
    \/ Precheck \/ CheckDependencies \/ MaterializeManager \/ HandOffManager
    \/ InitializeLayout \/ DependenciesChecked \/ OwnPreparing \/ Preparing
    \/ Stopping \/ Stop \/ BackingUp \/ BackupDatabase \/ BackingUpRuntime \/ BackupRuntime
    \/ Preflighting \/ Preflight \/ Migrating \/ Migrate \/ Migrated
    \/ Switching \/ SwitchCurrent \/ Verifying \/ StartServices \/ CheckHealth \/ Done
    \/ Error \/ Failing \/ RollingBack \/ RecoverCheck \/ RecoverStop \/ RecoverSwitch
    \/ RecoverRecord \/ RecoverStart \/ RecoverHealth \/ RecoverDone \/ RecoverFailed
    \/ Finish \/ FinishPublish \/ FinishGate \/ FinishBlock \/ FinishCleanup
    \/ FinishUnblock \/ FinishRelease \/ Prune \/ Consume

\* read_systemd_initialization: the record is of the manager that would run.
Initialized == pointer.record = pointer.manager

\* _systemd_update_ready: what the API asks before it prepares or publishes an update.
SystemdReady == Initialized /\ current = services.api /\ Sound(current)

SystemdNext ==
    \/ SystemdReady /\ ApiRequest /\ UNCHANGED unitVars
    \/ ApiStep /\ UNCHANGED unitVars
    \/ UnitStep \/ OperatorRetry \/ CommandFails \/ UnitCrash \/ Reboot
    \/ \E name \in {"api", "consumer"} : ServiceRestart(name)
================================================================================
