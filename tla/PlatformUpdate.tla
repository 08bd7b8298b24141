----------------------------- MODULE PlatformUpdate -----------------------------
(***************************************************************************)
(* A platform update as the product ships it: the API of UpdateApi with    *)
(* the executor of its deployment, one of SystemdUpdater, DockerUpdater    *)
(* and LauncherUpdate, on one host.  Each implements the module Upgrade.   *)
(* A host on which the manager is run instead is that of Installer.        *)
(***************************************************************************)
EXTENDS SystemdUpdater, DockerUpdater, LauncherUpdate, Installer

VARIABLE deployment  \* who updates the host: "systemd", "docker", "launcher" or "manager"

updateVars == <<apiVars, hostVars, request, public, maintenance, budget, unitVars, dockerVars, launcherVars>>
pvars == <<updateVars, installVars, deployment>>

Init ==
    /\ ApiInit /\ SystemdInit /\ DockerInit
    /\ \/ deployment \in {"systemd", "docker"} /\ NoLauncher /\ NoInstaller
       \/ deployment = "launcher" /\ LauncherInit /\ NoInstaller
       \/ deployment = "manager" /\ NoLauncher /\ InstallerInit

Next ==
    /\ UNCHANGED deployment
    /\ \/ deployment = "systemd" /\ SystemdNext /\ UNCHANGED <<dockerVars, launcherVars, installVars>>
       \/ deployment = "docker" /\ DockerNext /\ UNCHANGED <<unitVars, launcherVars, installVars>>
       \/ deployment = "launcher" /\ LauncherNext /\ UNCHANGED <<unitVars, dockerVars, installVars>>
       \/ deployment = "manager" /\ InstallerNext /\ UNCHANGED updateVars

Spec == Init /\ [][Next]_pvars

-----------------------------------------------------------------------------
(* Properties.                                                             *)

Upgraded == INSTANCE Upgrade
    WITH installed <- current, serving <- services.api,
         gate <- IF maintenance \/ (deployment = "launcher" /\ services.api = 0) THEN "closed" ELSE "open"

\* Every executor implements Upgrade, whatever crashes, reboots and failing commands
\* interrupt it: process_intent and _recover of updater.py, _advance and _recover of
\* docker_updater.py replace and stop code only behind the maintenance marker, and
\* clear the marker only in front of the version that is installed; process_switch and
\* recover_pending_switch of launcher.sh move the link only while the services are down
\* and start only what the link resolves to.
UpgradeIsSafe == Upgraded!Spec

\* Nothing is replaced warm.  run_migrations of updater.py touches the live database only
\* while both services are stopped and the cold backup holds every write that was ever
\* acknowledged, also when the backup was taken by an earlier run of the unit and the
\* host rebooted in between; docker_updater.py stops the container only after every
\* write the API had admitted has ended, because the gate closes before the drain.
ChangeIsCold ==
    /\ unit.pc = "migrate" /\ Owns(mem) =>
            services = [api |-> 0, consumer |-> 0] /\ ~writing /\ backup[mem.op] = data
    /\ engine.pc = "stopping" => ~writing

\* The version an outcome claims: an apply that succeeded runs its version, one that
\* failed or was rolled back the version it started from, a rollback either.
Claims(r) ==
    CASE r.status = "succeeded"                              -> {r.version}
      [] r.status = "failed"                                 -> {r.expected}
      [] r.status = "rolled_back" /\ r.action = "apply"      -> {r.expected}
      [] r.status = "rolled_back" /\ r.action = "rollback"   -> {r.expected, r.version}

\* What update_api.py reports as the result of an operation is what the host runs at
\* that moment, although the status is published before the marker is cleared and is
\* read by a process the update itself restarts.
OutcomeIsTrue ==
    [][\A o \in Ops :
          Pending(row[o]) /\ row'[o].status \in Terminal \ {"recovery_failed"} =>
              services'.api = current' /\ current' \in Claims(row'[o])]_pvars

\* The executor of this deployment has nothing left to do.
AtRest ==
    /\ request = NoOp
    /\ CASE deployment = "manager" -> TRUE
         [] deployment = "systemd" -> unit.pc = "idle" /\ PendingOp = NoOp
         [] deployment = "launcher" -> keeper.pc = "loop"
         [] deployment = "docker"  -> engine.pc = "idle" /\ Active = {} /\ ~Blocked

\* Between operations the gate is open, the API runs the installed version, the consumer
\* runs, and that version is still installed: no order of crash, retry, cleanup and prune
\* leaves the marker behind, removes the release that runs or leaves a service down.
\* (check_health asks only the API for its version.)  The manager that will run the next
\* update is never older than the release it updates.
RestIsClean ==
    AtRest =>
        /\ ~maintenance
        /\ services.api = current /\ services.consumer # 0
        /\ deployment = "systemd" => current \in releases /\ pointer.manager >= current
        /\ deployment = "launcher" => store.op = NoOp /\ keeper.active = current
================================================================================
