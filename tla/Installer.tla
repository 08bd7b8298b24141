------------------------------- MODULE Installer -------------------------------
(***************************************************************************)
(* The manager's installer for systemd hosts (src/deploy/manager/          *)
(* installer.py): it installs a host, migrates an old layout, adopts a     *)
(* signed release or upgrades an installation, as one transaction.         *)
(*                                                                         *)
(* Every step can fail, and the installer then undoes what it remembers    *)
(* doing; it can be killed in the middle of any step, and the next call of *)
(* install then undoes what the journal says it may have done.  The units  *)
(* are the shipped ones, whose API service runs the built-in launcher.     *)
(***************************************************************************)
EXTENDS Naturals, Sequences

CONSTANTS
    MaxMishaps,     \* bound: failing steps, kills and reboots
    MaxWrites,      \* bound: business writes
    MaxInstalls,    \* bound: calls of install
    MaxWebUpdates   \* bound: updates by other programs meanwhile

ASSUME InstallerAssumption ==
    {MaxMishaps, MaxWrites, MaxInstalls, MaxWebUpdates} \subseteq Nat

VARIABLES
    site,   \* the host: links, files, units, services, the write gate, the data
    deed,   \* the install journal
    crew,   \* the running installer and what it remembers
    prior,  \* history: the host before the attempt, and what happened to it meanwhile
    luck    \* remaining environment events

installVars == <<site, deed, crew, prior, luck>>

(* The release asked for is 2.  The launcher runs the code of the store of *)
(* file updates when there is some; an old layout runs version 1.          *)
Asked == 2
Runs(s) == IF s.store # 0 THEN s.store ELSE IF s.base # 0 THEN s.base ELSE 1

Nothing == [stopped |-> FALSE, changed |-> FALSE, created |-> {}, backup |-> {}, dropped |-> FALSE]

(* Links, units, services and marker as an attempt found them.             *)
Found(s) == [base |-> s.base, manager |-> s.manager, store |-> s.store, units |-> s.units,
             api |-> s.api # 0, path |-> s.path, enabled |-> s.enabled, gate |-> s.gate]

Blank == [base |-> 0, manager |-> 0, store |-> 0, units |-> "none", api |-> FALSE,
          path |-> FALSE, enabled |-> FALSE, gate |-> "absent"]

NoDeed == [phase |-> "none", undo |-> Nothing, found |-> Blank]
Off == [pc |-> "idle", kind |-> "none", target |-> 0, undo |-> Nothing, found |-> Blank,
        locked |-> FALSE, again |-> FALSE]

(* The hosts install meets: empty, with the old layout, with a signed      *)
(* release, or already installed.  "manager" and "release" are the new     *)
(* ones among the files that are there.                                    *)
Bare == [base |-> 0, store |-> 0, manager |-> 0, record |-> 0, units |-> "none", api |-> 0,
         path |-> FALSE, enabled |-> FALSE, gate |-> "absent", made |-> {}, data |-> 0,
         busy |-> FALSE]
Old == [Bare EXCEPT !.units = "old", !.api = 1, !.enabled = TRUE, !.made = {"env"}]
Signed(path) == [Bare EXCEPT !.base = 1, !.units = "new", !.api = 1, !.enabled = TRUE,
                             !.path = path, !.made = {"env", "key"}]
Owned(store, gate) ==
    [Signed(FALSE) EXCEPT !.store = store, !.manager = 1, !.record = 1, !.gate = gate,
                          !.api = IF store = 0 THEN 1 ELSE store]

InstallerInit ==
    /\ \/ site \in {Bare, Old, Signed(TRUE), Signed(FALSE)}
       \/ \E store \in {0, 1, 3}, gate \in {"absent", "open"} : site = Owned(store, gate)
    /\ deed = NoDeed
    /\ crew = Off
    /\ prior = [site |-> site, goal |-> 0, overtaken |-> FALSE, halted |-> FALSE, reopened |-> FALSE]
    /\ luck = [mishaps |-> MaxMishaps, writes |-> MaxWrites, installs |-> MaxInstalls,
               updates |-> MaxWebUpdates]

(* Where the manager is not run.                                           *)
NoInstaller ==
    /\ site = Bare /\ deed = NoDeed /\ crew = Off
    /\ prior = [site |-> site, goal |-> 0, overtaken |-> FALSE, halted |-> FALSE, reopened |-> FALSE]
    /\ luck = [mishaps |-> 0, writes |-> MaxWrites, installs |-> 0, updates |-> 0]

-----------------------------------------------------------------------------
(* Before the transaction.                                                 *)

Managed(s) == s.record # 0 \/ s.manager # 0

(* discover_legacy_layout: the units of the old layout, all of them and as *)
(* they were shipped.                                                      *)
LegacyLayout(s) == CASE s.units = "none" -> "none"
                     [] s.units = "old" -> "supported"
                     [] OTHER -> "unsafe"

(* _existing_installation and _classify_state: what is there, or "refuse". *)
HostKind(s) ==
    CASE Managed(s) -> IF s.record # 0 /\ s.record = s.manager THEN "managed" ELSE "refuse"
      [] ~Managed(s) /\ s.base # 0 -> "signed"
      [] ~Managed(s) /\ s.base = 0 /\ LegacyLayout(s) = "supported" -> "legacy"
      [] ~Managed(s) /\ s.base = 0 /\ LegacyLayout(s) = "none" ->
            IF s.made \cap {"release", "manager"} = {} THEN "fresh" ELSE "refuse"
      [] OTHER -> "refuse"

(* install: a journal is dealt with first.                                 *)
Install ==
    /\ crew.pc = "idle" /\ luck.installs > 0
    /\ luck' = [luck EXCEPT !.installs = @ - 1]
    /\ crew' = [Off EXCEPT !.pc = IF deed.phase = "none" THEN "classify" ELSE "recover"]
    /\ UNCHANGED <<site, deed, prior>>

(* The host is classified.  A current installation is only started; an     *)
(* unmanaged signed release may be adopted as it is.                       *)
Classify ==
    LET kind == HostKind(site)
        goals == CASE kind = "refuse" -> {}
                   [] kind = "managed" -> IF site.base < Asked THEN {Asked} ELSE {}
                   [] kind = "signed" -> {site.base, Asked}
                   [] kind \in {"fresh", "legacy"} -> {Asked}
    IN  /\ crew.pc = "classify"
        /\ \/ \E goal \in goals :
                 /\ crew' = [Off EXCEPT !.pc = "preflight", !.kind = kind, !.target = goal]
                 /\ prior' = [prior EXCEPT !.site = site, !.goal = goal, !.overtaken = FALSE,
                                           !.halted = FALSE]
                 /\ UNCHANGED site
           \/ /\ goals = {}
              /\ crew' = Off
              /\ site' = IF kind = "managed" THEN [site EXCEPT !.api = Runs(site)] ELSE site
              /\ UNCHANGED prior
        /\ UNCHANGED <<deed, luck>>

(* A check before the transaction may refuse: nothing has been changed.    *)
Check(at, next, passes) ==
    /\ crew.pc = at
    /\ \/ crew' = Off
       \/ passes /\ crew' = [crew EXCEPT !.pc = next]
    /\ UNCHANGED <<site, deed, prior, luck>>

CheckHost == Check("preflight", "manager", TRUE)
DownloadManager ==
    Check("manager", IF crew.kind \in {"managed", "signed"} THEN "cached" ELSE "index", TRUE)
VerifyCachedRelease ==
    Check("cached", IF crew.target = site.base THEN "environment" ELSE "index", TRUE)
FindRelease == Check("index", "release", TRUE)
DownloadRelease == Check("release", "extract", TRUE)
ExtractRelease == Check("extract", "prepare", TRUE)
PrepareRelease == Check("prepare", "environment", TRUE)
AdmitEnvironment ==
    Check("environment", IF crew.kind = "legacy" THEN "identity" ELSE "admit", TRUE)
LegacyIdentity == Check("identity", "admit", TRUE)
AdmitDestinations == Check("admit", "read", ~site.busy)

(* _snapshot_transaction and the links _commit reads first: nobody may be  *)
(* updating, but the lock is not held yet.                                 *)
ReadHost ==
    /\ crew.pc = "read"
    /\ crew' = IF site.busy \/ site.gate = "closed" THEN Off
               ELSE [crew EXCEPT !.pc = "lock", !.found = Found(site)]
    /\ UNCHANGED <<site, deed, prior, luck>>

-----------------------------------------------------------------------------
(* _commit.  Work does the step `at`: the host passes through the states   *)
(* `sites`, what is remembered becomes `undo` and the journal `journal`.   *)
(* A step that fails has reached some of these states; what is remembered  *)
(* by then is halfway[i].                                                  *)

Mishap == luck.mishaps > 0 /\ luck' = [luck EXCEPT !.mishaps = @ - 1]

Work(at, next, sites, undo, journal, halfway) ==
    /\ crew.pc = at
    /\ \/ /\ site' = sites[Len(sites)]
          /\ deed' = journal
          /\ crew' = [crew EXCEPT !.pc = next, !.undo = undo, !.locked = TRUE]
          /\ UNCHANGED luck
       \/ /\ Mishap
          /\ \E i \in DOMAIN sites :
                /\ site' = sites[i]
                /\ deed' \in IF i = 1 THEN {deed, journal} ELSE {journal}
                /\ crew' \in {Off, [crew EXCEPT !.pc = "undo", !.undo = halfway[i]]}

(* A step with one effect, which is remembered once it has happened.       *)
Plain(at, next, after, undo, journal) ==
    /\ Work(at, next, <<site, after>>, undo, journal, <<crew.undo, undo>>)
    /\ UNCHANGED prior

Noted(phase, undo) == [deed EXCEPT !.phase = phase, !.undo = undo]

(* The lock of the updater; without it the attempt is undone all the same. *)
TakeLock ==
    /\ crew.pc = "lock"
    /\ IF site.busy
       THEN crew' = [crew EXCEPT !.pc = "undo"] /\ UNCHANGED deed
       ELSE /\ crew' = [crew EXCEPT !.pc = "gate", !.locked = TRUE]
            /\ deed' = [phase |-> "maintenance", undo |-> Nothing, found |-> crew.found]
    /\ UNCHANGED <<site, prior, luck>>

CloseGate ==
    Plain("gate", IF crew.kind = "fresh" THEN "plan" ELSE "stop", [site EXCEPT !.gate = "closed"],
          crew.undo, deed)

(* What the journal says before any unit is stopped.                       *)
StopNotedMutant(undo) == undo
StopNoted(undo) == [undo EXCEPT !.stopped = TRUE]

(* The journal says stopped first; the process remembers it only when the  *)
(* command has succeeded, although a failing one may have stopped a unit.  *)
StopUpdater ==
    /\ Work("stop", "app", <<site, [site EXCEPT !.path = FALSE]>>,
            [crew.undo EXCEPT !.stopped = crew.found.path],
            Noted("stopped", StopNoted(deed.undo)), <<crew.undo, crew.undo>>)
    /\ prior' = [prior EXCEPT !.halted = crew'.pc = "undo" /\ site.path /\ ~site'.path]

StopApplication ==
    Plain("app", "backup", [site EXCEPT !.api = 0], [crew.undo EXCEPT !.stopped = TRUE], deed)

BackUp ==
    LET copy == [crew.undo EXCEPT !.backup = {site.data}]
    IN  /\ Work("backup", "plan", <<site>>, copy,
                Noted("backed_up", [deed.undo EXCEPT !.backup = {site.data}]),
                <<IF deed' = deed THEN crew.undo ELSE copy>>)
        /\ UNCHANGED prior

(* What will be created is noted before any of it is.                      *)
Plan == ({"env", "key", "manager"} \cup (IF site.base < crew.target THEN {"release"} ELSE {}))
            \ site.made

NotePlan ==
    Plain("plan", "publish", site, crew.undo, Noted("published", [deed.undo EXCEPT !.created = Plan]))

(* The files, the manager and the release, each created when missing.      *)
Publish ==
    LET wanted == deed.undo.created
        some(i) == {f \in wanted : i > CASE f = "env" -> 1 [] f = "key" -> 2
                                         [] f = "manager" -> 3 [] f = "release" -> 4}
        made(i) == [site EXCEPT !.made = @ \cup some(i)]
    IN  /\ Work("publish", "switch", [i \in 1..5 |-> made(i)],
                [crew.undo EXCEPT !.created = wanted], deed,
                [i \in 1..5 |-> [crew.undo EXCEPT !.created = some(i)]])
        /\ UNCHANGED prior

(* A base newer than the code of the store switches the store off.         *)
Drops == crew.found.store # 0 /\ crew.target > crew.found.store

(* The unit files the manager ships, checked by systemd-analyze.           *)
Templates == "new"

(* The pointers and the unit files.                                        *)
SwitchLinks ==
    LET s1 == IF Drops THEN [site EXCEPT !.store = 0] ELSE site
        s2 == [s1 EXCEPT !.base = crew.target]
        s3 == [s2 EXCEPT !.manager = 2]
        s4 == [s3 EXCEPT !.units = Templates]
        undo(u) == [u EXCEPT !.changed = TRUE, !.dropped = Drops]
    IN  /\ Work("switch", "initialise", <<site, s1, s2, s3, s4>>, undo(crew.undo),
                Noted("units", undo(deed.undo)), [i \in 1..5 |-> undo(crew.undo)])
        /\ UNCHANGED prior

(* The lock is given up for the updater's own initialisation and taken     *)
(* again before the record is written.                                     *)
GiveUpLock ==
    /\ crew.pc = "initialise"
    /\ crew' = [crew EXCEPT !.pc = "record", !.locked = FALSE]
    /\ UNCHANGED <<site, deed, prior, luck>>

Initialise ==
    IF site.busy
    THEN /\ crew.pc = "record"
         /\ crew' = [crew EXCEPT !.pc = "undo"]
         /\ UNCHANGED <<site, deed, prior, luck>>
    ELSE Plain("record", "start", [site EXCEPT !.record = 2], crew.undo, Noted("initialized", deed.undo))

(* The API unit is enabled, the updater's is not, and the API is started.  *)
StartApi ==
    LET able == [site EXCEPT !.enabled = TRUE, !.path = FALSE]
    IN  /\ Work("start", "health", <<site, able, [able EXCEPT !.api = Runs(site)]>>, crew.undo,
                Noted("api_started", deed.undo), [i \in 1..3 |-> crew.undo])
        /\ UNCHANGED prior

Expected == IF crew.found.store >= crew.target THEN crew.found.store ELSE crew.target

(* The API must answer with the version that is meant to run.              *)
Responds(version) == site.api = version

Health ==
    IF Responds(Expected)
    THEN Plain("health", "probe", site, crew.undo, Noted("services_started", deed.undo))
    ELSE /\ crew.pc = "health"
         /\ crew' = [crew EXCEPT !.pc = "undo"]
         /\ UNCHANGED <<site, deed, prior, luck>>

(* The service user's own update capability.                               *)
ProbeCapability == Plain("probe", "open", site, crew.undo, deed)

(* From here on nothing is undone: a failure leaves the journal behind.    *)
OpenGate ==
    /\ crew.pc = "open"
    /\ \/ site' = [site EXCEPT !.gate = "open"] /\ crew' = [crew EXCEPT !.pc = "done"] /\ UNCHANGED luck
       \/ /\ Mishap
          /\ site' \in {site, [site EXCEPT !.gate = "open"]}
          /\ crew' \in IF site' = site THEN {Off, [crew EXCEPT !.pc = "undo"]} ELSE {Off}
    /\ UNCHANGED <<deed, prior>>

Complete ==
    /\ crew.pc = "done"
    /\ crew' = Off
    /\ \/ deed' = NoDeed /\ UNCHANGED luck
       \/ Mishap /\ UNCHANGED deed
    /\ UNCHANGED <<site, prior>>

-----------------------------------------------------------------------------
(* _rollback, from memory or from the journal.  A step that fails or is    *)
(* killed leaves the journal for another attempt.                          *)

Undo(at, next, sites) ==
    /\ crew.pc = at
    /\ \/ site' = sites[Len(sites)] /\ crew' = [crew EXCEPT !.pc = next] /\ UNCHANGED luck
       \/ Mishap /\ crew' = Off /\ \E i \in DOMAIN sites : site' = sites[i]

Halts == crew.undo.stopped \/ crew.undo.changed

(* The store pointer, then every service.                                  *)
UndoStore ==
    LET back == IF crew.undo.dropped THEN [site EXCEPT !.store = crew.found.store] ELSE site
        halt == IF Halts THEN [back EXCEPT !.api = 0, !.path = FALSE] ELSE back
    IN  Undo("undo", "restore", <<site, back, halt>>) /\ UNCHANGED <<deed, prior>>

(* The database, then the marker as it was.                                *)
RestoreData ==
    LET data == IF crew.undo.backup = {} THEN site
                ELSE [site EXCEPT !.data = CHOOSE d \in crew.undo.backup : TRUE]
    IN  /\ Undo("restore", "relink", <<site, data, [data EXCEPT !.gate = crew.found.gate]>>)
        /\ prior' = [prior EXCEPT !.reopened = @ \/ (crew'.pc = "idle" /\ site'.gate # site.gate)]
        /\ UNCHANGED deed

(* The record is removed whether or not this attempt wrote it; then the    *)
(* links and, when they were changed, the units.                           *)
Relink ==
    LET s1 == [site EXCEPT !.record = 0]
        s2 == [s1 EXCEPT !.base = crew.found.base, !.manager = crew.found.manager]
        s3 == IF crew.undo.changed THEN [s2 EXCEPT !.units = crew.found.units] ELSE s2
    IN  /\ Undo("relink", "revive", <<site, s1, s2, s3>>)
        /\ prior' = [prior EXCEPT !.reopened = @ \/ crew'.pc = "idle"]
        /\ UNCHANGED deed

Revive ==
    LET able == [site EXCEPT !.enabled = crew.found.enabled, !.path = crew.found.path]
        up == [able EXCEPT !.api = IF crew.found.api THEN Runs(site) ELSE 0]
    IN  /\ Undo("revive", "purge", IF Halts THEN <<site, able, up>> ELSE <<site>>)
        /\ prior' = [prior EXCEPT !.reopened = @ \/ crew'.pc = "idle"]
        /\ UNCHANGED deed

(* What was created is removed, and then the journal.                      *)
Purge ==
    /\ crew.pc = "purge"
    /\ \/ /\ site' = [site EXCEPT !.made = @ \ crew.undo.created]
          /\ deed' = NoDeed
          /\ crew' = IF crew.again THEN [Off EXCEPT !.pc = "classify"] ELSE Off
          /\ UNCHANGED <<prior, luck>>
       \/ /\ Mishap
          /\ site' \in {site, [site EXCEPT !.made = @ \ crew.undo.created]}
          /\ crew' = Off
          /\ prior' = [prior EXCEPT !.reopened = TRUE]
          /\ UNCHANGED deed

(* _recover_interrupted_install: an attempt that had opened the gate is    *)
(* kept, any other one is undone under the lock.                           *)
Keeps == deed.phase = "services_started" /\ site.gate = "open"

(* The journal is read and checked after the host and the manager are.     *)
ReadJournal == Check("recover", "resume", TRUE)

(* What the journal says the attempt found and did.                        *)
Recalled == [crew EXCEPT !.undo = deed.undo, !.found = deed.found]

RecoverInstall ==
    /\ crew.pc = "resume"
    /\ \/ /\ Keeps /\ HostKind(site) = "managed"
          /\ deed' = NoDeed
          /\ crew' = [crew EXCEPT !.pc = "classify"]
       \/ /\ Keeps /\ HostKind(site) # "managed"
          /\ crew' = Off
          /\ UNCHANGED deed
       \/ /\ ~Keeps
          /\ crew' = IF site.busy THEN Off
                     ELSE [Recalled EXCEPT !.pc = "undo", !.locked = TRUE, !.again = TRUE]
          /\ UNCHANGED deed
    /\ UNCHANGED <<site, prior, luck>>

-----------------------------------------------------------------------------
(* The rest of the host.                                                   *)

Amid == crew.pc \notin {"idle", "classify"} \/ deed.phase # "none"

BusinessWrite ==
    /\ site.api # 0 /\ site.gate # "closed" /\ luck.writes > 0
    /\ site' = [site EXCEPT !.data = @ + 1]
    /\ luck' = [luck EXCEPT !.writes = @ - 1]
    /\ UNCHANGED <<deed, crew, prior>>

(* The updater takes its lock and closes the gate, and opens it at the end. *)
UpdaterRuns ==
    /\ \/ /\ site.path /\ ~site.busy /\ ~crew.locked /\ luck.updates > 0
          /\ site' = [site EXCEPT !.busy = TRUE, !.gate = "closed"]
          /\ luck' = [luck EXCEPT !.updates = @ - 1]
       \/ /\ site.busy
          /\ site' = [site EXCEPT !.busy = FALSE, !.gate = "open"]
          /\ UNCHANGED luck
    /\ prior' = [prior EXCEPT !.overtaken = @ \/ Amid]
    /\ UNCHANGED <<deed, crew>>

(* The launcher switches the store to a newer version; it holds no lock.   *)
FileUpdate ==
    /\ HostKind(site) = "managed" /\ site.api # 0 /\ site.store # 3
    /\ site.gate # "closed" /\ luck.updates > 0
    /\ site' = [site EXCEPT !.store = 3, !.api = 3]
    /\ luck' = [luck EXCEPT !.updates = @ - 1]
    /\ prior' = IF Amid THEN [prior EXCEPT !.overtaken = TRUE] ELSE [prior EXCEPT !.site.store = 3]
    /\ UNCHANGED <<deed, crew>>

(* The host reboots: enabled units start, and an update goes on.           *)
HostReboots ==
    /\ Mishap
    /\ crew' = Off
    /\ site' = [site EXCEPT !.api = IF site.enabled THEN Runs(site) ELSE 0]
    /\ prior' = [prior EXCEPT !.reopened = @ \/ crew.pc \in {"relink", "revive", "purge"}]
    /\ UNCHANGED deed

InstallerNext ==
    \/ Install \/ Classify \/ CheckHost \/ DownloadManager \/ VerifyCachedRelease \/ FindRelease
    \/ DownloadRelease \/ ExtractRelease \/ PrepareRelease \/ AdmitEnvironment \/ LegacyIdentity
    \/ AdmitDestinations \/ ReadHost \/ TakeLock \/ CloseGate \/ StopUpdater \/ StopApplication
    \/ BackUp \/ NotePlan \/ Publish \/ SwitchLinks \/ GiveUpLock \/ Initialise \/ StartApi \/ Health
    \/ ProbeCapability \/ OpenGate \/ Complete
    \/ UndoStore \/ RestoreData \/ Relink \/ Revive \/ Purge \/ ReadJournal \/ RecoverInstall
    \/ BusinessWrite \/ UpdaterRuns \/ FileUpdate \/ HostReboots

-----------------------------------------------------------------------------
(* The property.                                                           *)

(* The host as a finished installation leaves it.                          *)
Installed(s) ==
    /\ s.record = 2 /\ s.manager = 2 /\ s.units = "new" /\ s.enabled /\ ~s.path
    /\ s.base = prior.goal /\ Runs(s) >= prior.goal
    /\ {"env", "key", "manager"} \subseteq s.made
    /\ s.base = Asked => "release" \in s.made

(* The host as the attempt found it.  _rollback removes the record of an   *)
(* installed host, and does not restart an updater it does not remember    *)
(* stopping.                                                               *)
Unchanged(s) ==
    LET p == prior.site
    IN  /\ s.base = p.base /\ s.manager = p.manager /\ s.store = p.store /\ s.units = p.units
        /\ s.enabled = p.enabled /\ s.made = p.made
        /\ s.record \in {0, p.record}
        /\ s.path = p.path \/ prior.halted

\* An installation is all or nothing: once install and its recovery have nothing left to
\* do, the host is as a finished installation leaves it or as the attempt found it, with
\* the gate open, the API running what the pointers select and every acknowledged write
\* still there, wherever steps failed, the installer was killed or the host rebooted.
\* (Not when another update ran in between, nor when a rollback was itself broken off
\* after it had reopened the gate.)
InstallIsAtomic ==
    crew.pc \in {"idle", "classify"} /\ deed.phase = "none" /\ ~site.busy
        /\ ~prior.overtaken /\ ~prior.reopened =>
            /\ Installed(site) \/ Unchanged(site)
            /\ site.gate # "closed"
            /\ site.api = IF site.enabled THEN Runs(site) ELSE 0
            /\ site.data = MaxWrites - luck.writes
===============================================================================
