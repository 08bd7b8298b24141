------------------------------- MODULE UpdateApi -------------------------------
(***************************************************************************)
(* The requesting side of a platform update, run by the API process        *)
(* (backend/update_api.py and the update tables of backend/db.py), and the *)
(* host it shares with the executor of its deployment: the request file,   *)
(* the published status of each operation, the maintenance marker, the     *)
(* installed releases and the running services.                            *)
(*                                                                         *)
(* Time stamps are abstracted.  A published status is fresh until the API  *)
(* has merged it (updated_at > executor_updated_at).  The token with which *)
(* an executor recognises its last write of the legacy row matches if it   *)
(* is of the executor's last write and the API wrote none after it.        *)
(* Signatures, manifests and archives are what a staged candidate or an    *)
(* installed release being usable stands for.                              *)
(***************************************************************************)
EXTENDS Naturals, FiniteSets

CONSTANTS
    Ops,            \* operation ids
    Versions,       \* release versions, ordered as numbers
    FirstVersion,   \* the version installed at first
    FirstReleases,  \* the versions earlier updates left for a rollback
    MaxEvents       \* operations after the first, crashes, reboots, failing commands,
                    \* candidates lost, requests grown too old and business writes, in all

ASSUME UpdateAssumption ==
    /\ IsFiniteSet(Ops) /\ Ops \subseteq Nat \ {0}
    /\ Versions \subseteq Nat \ {0}
    /\ FirstVersion \in Versions /\ FirstReleases \subseteq Versions
    /\ MaxEvents \in Nat

VARIABLES
    row,        \* platform_update_operations
    legacy,     \* platform_updates, by version: status, the operation and side that wrote it
    candidate,  \* operations whose staged candidate is usable
    expired,    \* operations requested longer ago than an executor accepts
    request,    \* the published request: an operation, or NoOp
    public,     \* published status of each operation
    maintenance,\* the maintenance marker is active
    publishing, \* the operation whose request the API wrote but did not mark, or NoOp
    releases,   \* versions installed, or kept for a rollback
    current,    \* the version a start of the services runs
    services,   \* running version of the API and of the job consumer; 0 if stopped
    data,       \* business data, by number of writes
    writing,    \* a business write was admitted and has not ended
    budget      \* environment events left

apiVars == <<row, legacy, candidate, expired, publishing>>
hostVars == <<releases, current, services, data, writing>>

NoOp == 0

Terminal == {"succeeded", "rolled_back", "failed", "recovery_failed"}

NoRow == [status |-> "none", action |-> "apply", version |-> 0, expected |-> 0,
          confirmed |-> FALSE, published |-> FALSE, seen |-> FALSE]

NoStatus == [phase |-> "none", fresh |-> FALSE]

Spend == budget > 0 /\ budget' = budget - 1

ApiUp == services.api # 0

-----------------------------------------------------------------------------
(* Reading the executor's status: observe_update_operation.                *)

PhaseOrder == [p \in {"staged", "queued", "verifying_package", "building", "preflighting",
                      "preparing", "stopping", "backing_up", "migrating", "switching",
                      "verifying", "rolling_back"} |->
    CASE p = "staged" -> 0 [] p = "queued" -> 1 [] p = "verifying_package" -> 2
      [] p = "building" -> 3 [] p = "preflighting" -> 4 [] p = "preparing" -> 5
      [] p = "stopping" -> 6 [] p = "backing_up" -> 7 [] p = "migrating" -> 8
      [] p = "switching" -> 9 [] p = "verifying" -> 10 [] p = "rolling_back" -> 11]

\* _update_operation_transition_allowed.
TransitionAllowed(from, to) ==
    IF to \in Terminal THEN TRUE
    ELSE IF from = "rolling_back" THEN to = "rolling_back"
    ELSE PhaseOrder[to] >= PhaseOrder[from]

Pending(r) == r.status \notin Terminal \cup {"none", "staged"}

Observable(o) ==
    /\ Pending(row[o])
    /\ public[o].fresh
    /\ TransitionAllowed(row[o].status, public[o].phase)

Reconciled ==
    [o \in Ops |-> IF Observable(o)
                   THEN [row[o] EXCEPT !.status = public[o].phase, !.seen = TRUE, !.published = TRUE]
                   ELSE row[o]]

Merged == [o \in Ops |-> [public[o] EXCEPT !.fresh = @ /\ ~Observable(o)]]

\* _mirror_update_operation_locked: the API writes the legacy row of o's version.
Mirror(o, status) ==
    [status |-> IF status = "queued" THEN "requested" ELSE status, owner |-> o, writer |-> "api"]

Mirrored ==
    [v \in Versions |->
        IF \E o \in Ops : Observable(o) /\ row[o].version = v
        THEN LET o == CHOOSE p \in Ops : Observable(p) /\ row[p].version = v
             IN  Mirror(o, public[o].phase)
        ELSE legacy[v]]

-----------------------------------------------------------------------------
(* The administrator's requests.                                           *)

LegacyActive == {"requested", "preparing", "stopping", "migrating", "switching",
                 "verifying", "rolling_back"}

\* _require_available, after its reconcile.
Available(rows, o) ==
    /\ ~maintenance
    /\ \A p \in Ops \ {o} : ~Pending(rows[p])
    /\ \/ \E p \in Ops : Pending(rows[p])
       \/ \A v \in Versions : Mirrored[v].status \notin LegacyActive

\* load_verified_candidate: the staged files are still what the signed manifest says.
Verified(o) == o \in candidate

\* available_rollback_versions.
RollbackVersions(v) == {w \in releases : w < v}

\* _validate.
Valid(r, o) ==
    /\ r.expected = services.api
    /\ r.action = "apply" => r.version > services.api /\ Verified(o)
    /\ r.action = "rollback" => r.version \in RollbackVersions(services.api)

Reusable(action, v) ==
    \E o \in Ops : /\ row[o].status = "staged"
                   /\ row[o].action = action /\ row[o].version = v
                   /\ row[o].expected = services.api
                   /\ Valid(row[o], o)

\* stage_release: an apply is downloaded, checked and unpacked; a rollback needs no files.
Staged(o, action) == IF action = "apply" THEN candidate \cup {o} ELSE candidate

\* prepare: nothing can make the row it creates differ from one made at the first
\* check, so the download in between is not a step of its own.
PrepareRow(o, action, v) ==
    /\ ApiUp
    /\ row[o].status = "none"
    /\ \A p \in Ops : p < o => row[p].status # "none"
    /\ Available(Reconciled, o)
    /\ action = "apply" => v > services.api
    /\ action = "rollback" => v \in RollbackVersions(services.api)
    /\ ~Reusable(action, v)
    /\ row' = [Reconciled EXCEPT ![o] = [NoRow EXCEPT !.status = "staged", !.action = action,
                                                      !.version = v, !.expected = services.api]]
    /\ candidate' = Staged(o, action)
    /\ legacy' = [Mirrored EXCEPT ![v] = Mirror(o, "staged")]
    /\ public' = Merged
    /\ IF \E p \in Ops : row[p].status # "none" THEN Spend ELSE UNCHANGED budget
    /\ UNCHANGED <<expired, request, maintenance, publishing>>

Prepare(o, action, v) == PrepareRow(o, action, v) /\ UNCHANGED hostVars

\* confirm: a one-time token bound to the operation.
Confirm(o) ==
    /\ ApiUp
    /\ row[o].status = "staged"
    /\ ~row[o].confirmed
    /\ Available(Reconciled, o)
    /\ Valid(row[o], o)
    /\ row' = [Reconciled EXCEPT ![o].confirmed = TRUE]
    /\ legacy' = Mirrored
    /\ public' = Merged
    /\ UNCHANGED <<candidate, expired, request, maintenance, publishing, hostVars, budget>>

\* queue_update_operation consumes the token only if no operation is active.
QueueFree(rows) == \A p \in Ops : ~Pending(rows[p])

\* submit up to the commit of the outbox entry; the same handler goes on with
\* WriteRequest, as the recovery thread does after a restart in between.
Submit(o) ==
    /\ ApiUp
    /\ row[o].status = "staged" /\ row[o].confirmed
    /\ Available(Reconciled, o)
    /\ Valid(row[o], o)
    /\ QueueFree(Reconciled)
    /\ row' = [Reconciled EXCEPT ![o].status = "queued"]
    /\ legacy' = [Mirrored EXCEPT ![row[o].version] = Mirror(o, "queued")]
    /\ public' = Merged
    /\ UNCHANGED <<candidate, expired, request, maintenance, publishing, hostVars, budget>>

-----------------------------------------------------------------------------
(* The outbox: _publish, from submit and every three seconds.              *)

Unpublished(r) == Pending(r) /\ ~r.published /\ ~r.seen

\* _publish_request never overwrites the request of another operation.
Publishable(o) == request \in {NoOp, o}

WriteRequest(o) ==
    /\ ApiUp
    /\ publishing = NoOp
    /\ Unpublished(Reconciled[o])
    /\ Valid(row[o], o)
    /\ Publishable(o)
    /\ request' = o
    /\ publishing' = o
    /\ row' = Reconciled
    /\ legacy' = Mirrored
    /\ public' = Merged
    /\ UNCHANGED <<candidate, expired, maintenance, hostVars, budget>>

MarkPublished ==
    /\ ApiUp
    /\ publishing # NoOp
    /\ row' = [row EXCEPT ![publishing].published = TRUE]
    /\ publishing' = NoOp
    /\ UNCHANGED <<legacy, candidate, expired, request, public, maintenance, hostVars, budget>>

\* reconcile, of the recovery thread or a status page.
Reconcile ==
    /\ ApiUp
    /\ \E o \in Ops : Observable(o)
    /\ row' = Reconciled
    /\ legacy' = Mirrored
    /\ public' = Merged
    /\ UNCHANGED <<candidate, expired, request, maintenance, publishing, hostVars, budget>>

-----------------------------------------------------------------------------
(* Business traffic and the environment.                                   *)

\* The middleware admits a write while the marker is inactive.
BeginWrite ==
    /\ ApiUp
    /\ ~maintenance /\ ~writing
    /\ Spend
    /\ writing' = TRUE
    /\ UNCHANGED <<apiVars, request, public, maintenance, releases, current, services, data>>

EndWrite ==
    /\ ApiUp
    /\ writing
    /\ writing' = FALSE
    /\ data' = data + 1
    /\ UNCHANGED <<apiVars, request, public, maintenance, releases, current, services, budget>>

LoseCandidate(o) ==
    /\ Spend
    /\ o \in candidate
    /\ candidate' = candidate \ {o}
    /\ UNCHANGED <<row, legacy, expired, request, public, maintenance, publishing, hostVars>>

\* The request grows older than intent_max_age_seconds.
Age(o) ==
    /\ Spend
    /\ Pending(row[o])
    /\ o \notin expired
    /\ expired' = expired \cup {o}
    /\ UNCHANGED <<row, legacy, candidate, request, public, maintenance, publishing, hostVars>>

\* What the services of a host do when they are stopped or restarted: the API's
\* thread and the writes in progress end.
Stopped(version) ==
    /\ services' = [api |-> version, consumer |-> version]
    /\ publishing' = NoOp
    /\ writing' = FALSE

ApiInit ==
    /\ row = [o \in Ops |-> NoRow]
    /\ legacy = [v \in Versions |-> [status |-> "none", owner |-> NoOp, writer |-> "api"]]
    /\ candidate = {}
    /\ expired = {}
    /\ request = NoOp
    /\ public = [o \in Ops |-> NoStatus]
    /\ maintenance = FALSE
    /\ publishing = NoOp
    /\ releases = FirstReleases \cup {FirstVersion}
    /\ current = FirstVersion
    /\ services = [api |-> FirstVersion, consumer |-> FirstVersion]
    /\ data = 0
    /\ writing = FALSE
    /\ budget = MaxEvents

\* What needs the executor to be ready (update_capabilities), and what does not.
ApiRequest ==
    \E o \in Ops : \/ \E a \in {"apply", "rollback"}, v \in Versions : Prepare(o, a, v)
                   \/ Confirm(o) \/ Submit(o) \/ WriteRequest(o)

ApiStep ==
    \/ Reconcile \/ MarkPublished \/ BeginWrite \/ EndWrite
    \/ \E o \in Ops : LoseCandidate(o) \/ Age(o)
================================================================================
