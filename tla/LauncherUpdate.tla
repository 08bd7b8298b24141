---------------------------- MODULE LauncherUpdate ----------------------------
(***************************************************************************)
(* The built-in file update, the executor of the shipped installations:    *)
(* backend/file_update.py stages a release in the writable code store and  *)
(* asks docker/launcher.sh, the parent of the services, to stop, switch    *)
(* and restart them.                                                       *)
(*                                                                         *)
(* There is no maintenance marker: while code is replaced the services are *)
(* down.  The result of the last operation is one file, whatever operation *)
(* it is of.  A launcher that dies takes the services with it (KillMode of *)
(* the unit, or the container) and is started again.                       *)
(***************************************************************************)
EXTENDS UpdateApi

VARIABLES
    store,   \* the code store: the link `current` (0: none) and the state of a switch
    keeper   \* the launcher: what it does, for which operation, active_version,
             \* the heartbeat, the outcome it is writing and what it does after that

launcherVars == <<store, keeper>>

KeeperOff == [pc |-> "off", op |-> NoOp, active |-> 0, ready |-> FALSE,
              outcome |-> "none", then |-> "loop"]

LauncherInit ==
    /\ \E link \in {0, FirstVersion} : store = [link |-> link, op |-> NoOp, previous |-> 0]
    /\ keeper = [KeeperOff EXCEPT !.pc = "loop", !.active = FirstVersion, !.ready = TRUE]

NoLauncher ==
    /\ store = [link |-> 0, op |-> NoOp, previous |-> 0]
    /\ keeper = KeeperOff

(* resolve_code_root: a link to a release that is not there counts for     *)
(* nothing, and the immutable base runs.                                   *)
CodeRoot(link) == IF link \in releases THEN link ELSE FirstVersion

-----------------------------------------------------------------------------
(* file_update.py, in the API process.  It is asked only while             *)
(* launcher_fresh: the heartbeat says ready and its process lives.         *)

Fresh == keeper.ready

(* capability: update and roll back while the launcher is fresh and the    *)
(* link of the store, if there is one, leads to a release.                 *)
Capable == Fresh /\ store.link \in releases \cup {0}

(* stage: the candidate becomes releases/<version>, unless that one runs.  *)
Placed(action, v) == IF action = "apply" THEN releases \cup {v} ELSE releases

Stage(o, action, v) ==
    /\ Capable
    /\ PrepareRow(o, action, v)
    /\ action = "apply" => store.link # v
    /\ releases' = Placed(action, v)
    /\ UNCHANGED <<current, services, data, writing, launcherVars>>

Decide == Capable /\ (\E o \in Ops : Confirm(o) \/ Submit(o)) /\ UNCHANGED launcherVars

(* publish writes switch.json.                                             *)
AskLauncher ==
    /\ Capable
    /\ \E o \in Ops : WriteRequest(o)
    /\ UNCHANGED launcherVars

(* read_status answers for the one operation result.json is of.            *)
ReadResult == Fresh /\ Reconcile /\ UNCHANGED launcherVars

(* What the API does whether or not the launcher is ready.                 *)
ApiWork ==
    /\ MarkPublished \/ BeginWrite \/ EndWrite
    /\ UNCHANGED launcherVars

(* A staged release is lost, and validate_operation no longer admits its   *)
(* operations; not one that runs or will be restored.                      *)
LoseRelease(v) ==
    /\ Spend
    /\ v \in releases \ {current, store.link, store.previous}
    /\ releases' = releases \ {v}
    /\ candidate' = {o \in candidate : row[o].version # v}
    /\ UNCHANGED <<row, legacy, expired, request, public, maintenance, publishing,
                   current, services, data, writing, launcherVars>>

-----------------------------------------------------------------------------
(* launcher.sh.                                                            *)

Proceed(pc) == keeper' = [keeper EXCEPT !.pc = pc]

(* write_result follows; then the launcher goes on at `then`.              *)
ReportNext(outcome, then, active, ready) ==
    keeper' = [keeper EXCEPT !.pc = "result", !.outcome = outcome, !.then = then,
                             !.active = active, !.ready = ready]

unchangedByKeeper == <<row, legacy, candidate, expired, maintenance, releases, data>>
untouched == <<current, services, writing, publishing>>

(* stop_all.                                                               *)
StopAll(pc) == Stopped(0) /\ Proceed(pc) /\ UNCHANGED <<current, request, public, budget, store>>

(* start_children: the services run the resolved code.                     *)
StartChildren ==
    /\ services' = [api |-> current, consumer |-> current]
    /\ UNCHANGED <<current, writing, publishing, request, public>>

PointTo(link) ==
    /\ store' = [store EXCEPT !.link = link]
    /\ current' = CodeRoot(link)
    /\ UNCHANGED <<services, writing, publishing, request, public, budget>>

(* process_switch: a candidate that is gone fails, one that already runs   *)
(* has succeeded, and any other is noted in the state file.                *)
TakeRequest ==
    LET r == row[request]
        gone == r.action = "apply" /\ r.version \notin releases
        same == r.action = "apply" /\ r.version = keeper.active
    IN  /\ keeper.pc = "loop" /\ request # NoOp
        /\ \/ gone /\ UNCHANGED store
              /\ keeper' = [keeper EXCEPT !.pc = "result", !.op = request, !.outcome = "failed", !.then = "loop"]
           \/ ~gone /\ same /\ UNCHANGED store
              /\ keeper' = [keeper EXCEPT !.pc = "result", !.op = request, !.outcome = "succeeded", !.then = "loop"]
           \/ ~gone /\ ~same
              /\ store' = [store EXCEPT !.op = request, !.previous = store.link]
              /\ keeper' = [keeper EXCEPT !.pc = "stop", !.op = request, !.ready = FALSE]
        /\ UNCHANGED <<untouched, request, public, budget>>

StopChildren == keeper.pc = "stop" /\ StopAll("port")

(* The port must become free, or the old code is started again.            *)
AwaitPort ==
    /\ keeper.pc = "port"
    /\ \/ Proceed("switch") /\ UNCHANGED <<untouched, request, public, budget, store>>
       \/ /\ Spend
          /\ StartChildren
          /\ ReportNext("failed", "loop", current, TRUE)
          /\ UNCHANGED store

SwitchTo == keeper.pc = "switch" /\ Proceed("start") /\ PointTo(row[keeper.op].version)

StartSwitched ==
    /\ keeper.pc = "start" /\ Proceed("verify")
    /\ StartChildren /\ UNCHANGED <<budget, store>>

(* health_ready: every child lives and the API answers with the version.   *)
HealthReady(version) == services.api = version

VerifySwitched ==
    /\ keeper.pc = "verify"
    /\ \/ /\ HealthReady(row[keeper.op].version)
          /\ ReportNext("succeeded", "loop", row[keeper.op].version, TRUE)
          /\ UNCHANGED budget
       \/ /\ Proceed("undo")
          /\ IF HealthReady(row[keeper.op].version) THEN Spend ELSE UNCHANGED budget
    /\ UNCHANGED <<untouched, request, public, store>>

StopUnhealthy == keeper.pc = "undo" /\ StopAll("relink")

RestorePrevious == keeper.pc = "relink" /\ Proceed("restart") /\ PointTo(store.previous)

RestartPrevious ==
    /\ keeper.pc = "restart" /\ Proceed("reverify")
    /\ StartChildren /\ UNCHANGED <<budget, store>>

(* A restored version that does not answer ends the launcher.              *)
VerifyRestored ==
    /\ keeper.pc = "reverify"
    /\ \/ /\ HealthReady(keeper.active)
          /\ ReportNext("rolled_back", "loop", current, TRUE)
          /\ UNCHANGED budget
       \/ /\ ReportNext("failed", "exit", keeper.active, FALSE)
          /\ IF HealthReady(keeper.active) THEN Spend ELSE UNCHANGED budget
    /\ UNCHANGED <<untouched, request, public, store>>

(* write_result: the result, then the request, then the state are gone.    *)
WriteResult ==
    /\ keeper.pc = "result" /\ Proceed("clear")
    /\ public' = [o \in Ops |-> IF o = keeper.op THEN [phase |-> keeper.outcome, fresh |-> TRUE]
                                ELSE NoStatus]
    /\ UNCHANGED <<untouched, request, budget, store>>

RemoveRequest ==
    /\ keeper.pc = "clear" /\ Proceed("forget")
    /\ request' = NoOp
    /\ UNCHANGED <<untouched, public, budget, store>>

RemoveState ==
    /\ keeper.pc = "forget"
    /\ keeper' = [keeper EXCEPT !.pc = keeper.then, !.op = NoOp, !.outcome = "none", !.then = "loop"]
    /\ store' = [store EXCEPT !.op = NoOp, !.previous = 0]
    /\ UNCHANGED <<untouched, request, public, budget>>

Exit == keeper.pc = "exit" /\ Stopped(0) /\ keeper' = KeeperOff
        /\ UNCHANGED <<current, request, public, budget, store>>

(* The launcher is killed, a child exits, or the host reboots.             *)
LauncherDies ==
    /\ Spend
    /\ keeper.pc # "off"
    /\ Stopped(0) /\ keeper' = KeeperOff
    /\ UNCHANGED <<current, request, public, store>>

(* recover_pending_switch: a switch whose state is still there is undone,  *)
(* whatever had become of it, and reported as rolled back.                 *)
StartLauncher ==
    /\ keeper.pc = "off"
    /\ IF store.op # NoOp
       THEN /\ PointTo(store.previous)
            /\ keeper' = [KeeperOff EXCEPT !.pc = "result", !.op = store.op, !.outcome = "rolled_back",
                                           !.then = "boot", !.active = current']
       ELSE /\ keeper' = [KeeperOff EXCEPT !.pc = "boot"]
            /\ UNCHANGED <<untouched, request, public, budget, store>>

StartAtBoot ==
    /\ keeper.pc = "boot"
    /\ keeper' = [keeper EXCEPT !.pc = "check", !.active = current]
    /\ StartChildren /\ UNCHANGED <<budget, store>>

VerifyStart ==
    /\ keeper.pc = "check"
    /\ \/ HealthReady(keeper.active) /\ UNCHANGED budget
          /\ keeper' = [keeper EXCEPT !.pc = "loop", !.ready = TRUE]
       \/ Spend /\ Proceed("exit")
    /\ UNCHANGED <<untouched, request, public, store>>

KeeperStep ==
    /\ \/ TakeRequest \/ StopChildren \/ AwaitPort \/ SwitchTo \/ StartSwitched \/ VerifySwitched
       \/ StopUnhealthy \/ RestorePrevious \/ RestartPrevious \/ VerifyRestored
       \/ WriteResult \/ RemoveRequest \/ RemoveState
       \/ Exit \/ LauncherDies \/ StartLauncher \/ StartAtBoot \/ VerifyStart
    /\ UNCHANGED unchangedByKeeper

LauncherNext ==
    \/ \E o \in Ops, a \in {"apply", "rollback"}, v \in Versions : Stage(o, a, v)
    \/ Decide \/ AskLauncher \/ ReadResult \/ ApiWork
    \/ \E v \in Versions : LoseRelease(v)
    \/ KeeperStep
================================================================================
