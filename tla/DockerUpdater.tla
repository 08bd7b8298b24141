----------------------------- MODULE DockerUpdater -----------------------------
(***************************************************************************)
(* The executor of a Docker installation, backend/docker_updater.py: one   *)
(* process that advances the only active journal by one phase per tick.    *)
(* Its saves precede the side effect they announce; a journal found in a   *)
(* critical phase by another session is recovered instead of continued.    *)
(*                                                                         *)
(* current is the image alias a compose up starts from, image the image of *)
(* the container whether it runs or not (0 while there is none), releases  *)
(* the images in history.json.  A container that fails a check is either a *)
(* failed command or, where the code tells them apart, a drift of what the *)
(* operation owns.  Saves between two phases change no published field.    *)
(* The capability file of an executor that is down is taken for stale.     *)
(***************************************************************************)
EXTENDS UpdateApi

VARIABLES
    record,  \* operations/<id>.json
    image,   \* image of the service's container
    engine   \* the process: program counter, operation, what follows a projection and the
             \* version its capability file offers to update (0: not ready)

dockerVars == <<record, image, engine>>

NoRecord == [phase |-> "none", started |-> FALSE, disrupted |-> FALSE, upStarted |-> FALSE,
             restoring |-> FALSE, committed |-> FALSE, drift |-> FALSE, mine |-> FALSE, old |-> 0]

Critical == {"stopping", "switching", "verifying", "rolling_back"}

IdleEngine == [pc |-> "idle", op |-> NoOp, next |-> "idle", offer |-> 0]

op == engine.op

rec == record[op]

New == row[op].version

At(pc) == engine.pc = pc

Jump(pc) == engine' = [engine EXCEPT !.pc = pc]

Kept == UNCHANGED <<apiVars, request, budget>>

\* Store.save of a phase: the private journal, then the public status.
Phase(j, phase, next) ==
    /\ record' = [record EXCEPT ![op] = [j EXCEPT !.phase = phase]]
    /\ engine' = [engine EXCEPT !.pc = "project", !.next = next]

Project ==
    /\ At("project")
    /\ public' = [public EXCEPT ![op] = [phase |-> rec.phase, fresh |-> TRUE]]
    /\ Jump(engine.next)
    /\ UNCHANGED <<record, image, maintenance, hostVars>> /\ Kept

\* Store.maintenance.
Marker(at, active, next) ==
    /\ At(at)
    /\ maintenance' = active
    /\ Jump(next)
    /\ UNCHANGED <<record, image, public, hostVars>> /\ Kept

\* A save of the journal within a phase.
Note(at, j, next) ==
    /\ At(at)
    /\ record' = [record EXCEPT ![op] = j]
    /\ Jump(next)
    /\ UNCHANGED <<image, public, maintenance, hostVars>> /\ Kept

Enter(at, j, phase, next) ==
    /\ At(at)
    /\ Phase(j, phase, next)
    /\ UNCHANGED <<image, public, maintenance, hostVars>> /\ Kept

-----------------------------------------------------------------------------
(* Admission and the dispatch of a tick.                                   *)

Active == {o \in Ops : record[o].phase \notin Terminal \cup {"none"}}

Blocked == \E o \in Ops : record[o].phase = "recovery_failed"

\* refresh_capability: ready without an operation, and while the container answers.
RefreshCapability ==
    LET offer == IF ~Blocked /\ services.api = image THEN image ELSE 0
    IN  /\ At("idle") /\ Active = {}
        /\ engine.offer # offer
        /\ engine' = [engine EXCEPT !.offer = offer]
        /\ UNCHANGED <<record, image, public, maintenance, hostVars>> /\ Kept

\* read_docker_capabilities: the offer is for the version that asks.
DockerReady == ApiUp /\ engine.offer = services.api

\* _admit: an operation id is consumed for ever, valid or not.
Admittable(o) ==
    /\ o \notin expired
    /\ services.api = image /\ row[o].expected = image
    /\ row[o].action = "apply" => row[o].version > row[o].expected

AdmitRequest ==
    /\ At("idle")
    /\ Active = {} /\ ~Blocked
    /\ request # NoOp
    /\ IF record[request].phase # "none"
       THEN UNCHANGED <<record, engine>>
       ELSE /\ record' = [record EXCEPT ![request] =
                  [NoRecord EXCEPT !.phase = IF Admittable(request) THEN "queued" ELSE "failed",
                                   !.mine = TRUE]]
            /\ engine' = [engine EXCEPT !.pc = "project", !.op = request, !.next = "idle", !.offer = 0]
    /\ request' = NoOp
    /\ UNCHANGED <<image, public, maintenance, apiVars, hostVars, budget>>

Interrupted(j) == j.phase \in Critical /\ ~j.mine

Tick ==
    /\ At("idle")
    /\ ~Blocked
    /\ \E o \in Active :
          /\ engine' = [engine EXCEPT !.op = o, !.offer = 0,
                          !.pc = IF record[o].drift \/ Interrupted(record[o])
                                 THEN "recover" ELSE record[o].phase]
          /\ record' = [record EXCEPT ![o].mine = @ \/ ~(record[o].drift \/ Interrupted(record[o]))]
    /\ UNCHANGED <<image, public, maintenance, hostVars>> /\ Kept

\* How tick handles an exception of _advance.
Handler(j) == IF j.phase \in Critical \/ j.disrupted THEN "recover" ELSE "fail"

Failed == Enter("fail", rec, "failed", "open_failed")

OpenFailed == Marker("open_failed", FALSE, "idle")

-----------------------------------------------------------------------------
(* _advance, one phase after the other.                                    *)

Usable == IF row[op].action = "rollback" THEN New \in releases ELSE Verified(op)

\* _target: the one container of the service is the registered one, of the alias.
TargetIsOurs == image = row[op].expected /\ current = image

\* A phase that goes on to the next one, or fails its check.
Step(at, ok, j, phase) ==
    /\ At(at)
    /\ IF ok THEN Phase(j, phase, "idle") ELSE Jump("fail") /\ UNCHANGED record
    /\ UNCHANGED <<image, public, maintenance, hostVars>> /\ Kept

Queued == Step("queued", TRUE, rec, "verifying_package")

VerifyArtifacts == Step("verifying_package", Usable, rec, "building")

\* The image is built, or for a rollback found; nothing that runs is touched.
BuildImage == Step("building", TRUE, rec, "preflighting")

PreflightImage == Step("preflighting", TargetIsOurs, [rec EXCEPT !.old = image], "preparing")

\* engine.drain returns once the API reports no write in progress.
Drained == ApiUp /\ ~writing

PrepareStop ==
    \/ Note("preparing", [rec EXCEPT !.started = TRUE], "close")
    \/ Marker("close", TRUE, "drain")
    \/ Drained /\ Enter("drain", [rec EXCEPT !.disrupted = TRUE], "stopping", "idle")

StopContainer ==
    \/ /\ At("stopping")
       /\ Stopped(0)
       /\ Jump("stopped")
       /\ UNCHANGED <<record, image, public, maintenance, row, legacy, candidate, expired>>
       /\ UNCHANGED <<request, budget, releases, current, data>>
    \/ Enter("stopped", rec, "switching", "idle")

Tag(at, version, j, next) ==
    /\ At(at)
    /\ current' = version
    /\ record' = [record EXCEPT ![op] = j]
    /\ Jump(next)
    /\ UNCHANGED <<image, public, maintenance, releases, services, data, writing>> /\ Kept

\* compose up --force-recreate: the container is replaced by one of the alias.
ComposeUp(at, next) ==
    /\ At(at)
    /\ image' = current
    /\ Stopped(current)
    /\ Jump(next)
    /\ UNCHANGED <<record, public, maintenance, row, legacy, candidate, expired>>
    /\ UNCHANGED <<request, budget, releases, current, data>>

Switch ==
    \/ Tag("switching", New, [rec EXCEPT !.upStarted = TRUE], "up")
    \/ ComposeUp("up", "upped")
    \/ Enter("upped", rec, "verifying", "idle")

\* engine.verify: the new container answers, with its version.
Answers(version) == services.api = version /\ current = version

\* verify, the history and the commit, before the gate is opened.
Verify ==
    \/ /\ At("verifying")
       /\ Answers(New)
       /\ releases' = IF row[op].action = "apply" THEN releases \cup {New} ELSE releases
       /\ Jump("commit")
       /\ UNCHANGED <<record, image, public, maintenance, current, services, data, writing>> /\ Kept
    \/ /\ At("verifying")
       /\ ~Answers(New)
       /\ Jump("recover")
       /\ UNCHANGED <<record, image, public, maintenance, hostVars>> /\ Kept
    \/ Note("commit", [rec EXCEPT !.committed = TRUE], "open")
    \/ Marker("open", FALSE, "opened")
    \/ Enter("opened", rec, IF row[op].action = "apply" THEN "succeeded" ELSE "rolled_back", "idle")

-----------------------------------------------------------------------------
(* _recover.                                                               *)

Recover ==
    /\ At("recover")
    /\ IF \/ rec.drift
          \/ current \notin {rec.old, New}
          \/ image = 0 /\ ~rec.upStarted /\ ~rec.restoring
          \/ rec.committed /\ ~(image = New /\ current = New /\ services.api = New)
       THEN Jump("recovery_failed") /\ UNCHANGED record
       ELSE IF rec.committed THEN Jump("open") /\ UNCHANGED record
                             ELSE Phase(rec, "rolling_back", "reclose")
    /\ UNCHANGED <<image, public, maintenance, hostVars>> /\ Kept

Restore ==
    \/ Marker("reclose", TRUE, "restore")
    \/ Tag("restore", rec.old, [rec EXCEPT !.restoring = TRUE], "restore_up")
    \/ /\ At("restore_up")
       /\ image = rec.old /\ services.api = rec.old
       /\ Jump("restored")
       /\ UNCHANGED <<record, image, public, maintenance, hostVars>> /\ Kept
    \/ /\ At("restore_up") /\ ~(image = rec.old /\ services.api = rec.old)
       /\ ComposeUp("restore_up", "restored")

\* The old version is verified and the history forgets the operation, then the gate opens.
Restored ==
    \/ /\ At("restored")
       /\ Answers(rec.old)
       /\ releases' = IF row[op].action = "apply" THEN releases \ {New} ELSE releases
       /\ Jump("reopen")
       /\ UNCHANGED <<record, image, public, maintenance, current, services, data, writing>> /\ Kept
    \/ Marker("reopen", FALSE, "reopened")
    \/ Enter("reopened", rec, "rolled_back", "idle")

RecoveryFailed ==
    \/ Enter("recovery_failed", rec, "recovery_failed", "keep_closed")
    \/ Marker("keep_closed", TRUE, "idle")

-----------------------------------------------------------------------------
(* Faults, crashes and the start of the process.                           *)

DockerCommands == {"verifying_package", "building", "preflighting", "drain", "stopping", "up",
                   "verifying"}

RestoreCommands == {"restore", "restore_up", "restored"}

\* A command fails, or finds that something else changed what the operation owns;
\* a failing compose up may leave no container.
EngineFails ==
    /\ Spend
    /\ \/ /\ engine.pc \in DockerCommands
          /\ \/ Jump(Handler(rec)) /\ UNCHANGED record
             \/ /\ rec.started
                /\ record' = [record EXCEPT ![op].drift = TRUE]
                /\ Jump("recover")
       \/ engine.pc \in RestoreCommands /\ Jump("recovery_failed") /\ UNCHANGED record
    /\ \/ UNCHANGED <<image, services, publishing, writing>>
       \/ engine.pc \in {"up", "restore_up"} /\ image' = 0 /\ Stopped(0)
    /\ UNCHANGED <<public, maintenance, row, legacy, candidate, expired, request>>
    /\ UNCHANGED <<releases, current, data>>

EngineCrash ==
    /\ engine.pc # "down"
    /\ Spend
    /\ engine' = [IdleEngine EXCEPT !.pc = "down"]
    /\ record' = [o \in Ops |-> [record[o] EXCEPT !.mine = FALSE]]
    /\ UNCHANGED <<image, public, maintenance, apiVars, request, hostVars>>

\* Mutant: the marker of a finished operation is left as it is.
RepairedMutant == maintenance

\* repair_terminal_projection.
Repaired ==
    IF Active = {} /\ ~Blocked /\ \E o \in Ops : record[o].phase # "none" THEN FALSE ELSE maintenance

EngineStart ==
    /\ At("down")
    /\ public' = [o \in Ops |-> IF record[o].phase # "none"
                                THEN [phase |-> record[o].phase, fresh |-> TRUE] ELSE public[o]]
    /\ maintenance' = Repaired
    /\ engine' = IdleEngine
    /\ UNCHANGED <<record, image, hostVars>> /\ Kept

\* Docker restarts the containers that ran, the executor's among them.
DockerReboot ==
    /\ Spend
    /\ engine' = [IdleEngine EXCEPT !.pc = "down"]
    /\ record' = [o \in Ops |-> [record[o] EXCEPT !.mine = FALSE]]
    /\ Stopped(services.api)
    /\ UNCHANGED <<image, public, maintenance, row, legacy, candidate, expired, request>>
    /\ UNCHANGED <<releases, current, data>>

DockerInit ==
    /\ record = [o \in Ops |-> NoRecord]
    /\ image = FirstVersion
    /\ engine = [IdleEngine EXCEPT !.offer = FirstVersion]

EngineStep ==
    \/ Project \/ RefreshCapability \/ AdmitRequest \/ Tick \/ Failed \/ OpenFailed
    \/ Queued \/ VerifyArtifacts \/ BuildImage \/ PreflightImage \/ PrepareStop \/ StopContainer \/ Switch \/ Verify
    \/ Recover \/ Restore \/ Restored \/ RecoveryFailed
    \/ EngineStart

DockerNext ==
    \/ DockerReady /\ ApiRequest /\ UNCHANGED dockerVars
    \/ ApiStep /\ UNCHANGED dockerVars
    \/ EngineStep \/ EngineFails \/ EngineCrash \/ DockerReboot
================================================================================
