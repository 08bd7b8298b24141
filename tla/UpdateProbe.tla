------------------------------ MODULE UpdateProbe ------------------------------
(***************************************************************************)
(* The probe for new releases (src/backend/update_probe.py and the         *)
(* platform_update_probes row of src/backend/db.py).                       *)
(*                                                                         *)
(* Every API process has one coordinator: a loop that asks the release     *)
(* source now and then, and requests of an administrator that ask at once. *)
(* The coordinators share the schedule, the lease and the last discovery   *)
(* through one row.  The call to the source runs outside every lock and    *)
(* may outlive its lease, the coordinator's stop and the maintenance that  *)
(* pauses it.                                                              *)
(*                                                                         *)
(* Times are kept as what they are compared with: a lease is live or       *)
(* expired, a backoff or a cooldown stands or not, a check is due or not.  *)
(* The cooldown of a claim (60 s) is over before its lease (120 s), and    *)
(* the lease ends no earlier than the next check it scheduled.             *)
(***************************************************************************)
EXTENDS Naturals

CONSTANTS
    Probers,        \* coordinators, one per API process
    NoProber,       \* an empty lease_owner
    MaxClaims,      \* bound: lease_generation
    MaxEditions,    \* bound: what the release source has ever said
    MaxChurn        \* bound: stops, restarts, pauses and database errors

ASSUME ProbeAssumption ==
    /\ NoProber \notin Probers
    /\ MaxClaims \in Nat /\ MaxChurn \in Nat
    /\ MaxEditions \in Nat \ {0}

VARIABLES
    probe,          \* the platform_update_probes row
    source,         \* the edition the release source answers with
    probers,        \* per coordinator: the running version and the attempt
    paused,         \* maintenance or an update is under way
    churn,          \* stops, restarts, pauses and database errors so far
    barred          \* history: the claims that a stop() withdrew

probeVars == <<probe, source, probers, paused, churn, barred>>

Answers == 0..MaxEditions           \* 0: the source could not be read
NoAttempt == [pc |-> "idle", gen |-> 0, loop |-> FALSE, cancelled |-> FALSE,
              answer |-> 0]

Churn == churn < MaxChurn /\ churn' = churn + 1

-------------------------------------------------------------------------------
(* The row.                                                                *)

(* acquire_platform_update_probe: a live lease, a backoff and a cooldown   *)
(* refuse everybody; the schedule only those that do not insist, and only  *)
(* with a discovery of the version they run.                               *)
Refused(version, force) ==
    \/ probe.lease = "live"
    \/ probe.held
    \/ probe.cooling
    \/ ~force /\ ~probe.due /\ probe.version = version /\ probe.found # 0

Acquired(p, version) ==
    [probe EXCEPT !.version = version, !.due = FALSE, !.cooling = TRUE,
                  !.owner = p, !.lease = "live", !.gen = @ + 1]

(* The claim is the row's, whether or not its lease has run out.           *)
Mine(p) == probe.owner = p /\ probe.gen = probers[p].attempt.gen

(* renew_platform_update_probe: an expired lease is not brought back.      *)
Renewable(p) == Mine(p) /\ probe.lease = "live"

FencedByMutant(p) == probe.version = probers[p].version

(* finish_platform_update_probe writes under the claim's own live lease.   *)
FencedBy(p) ==
    Mine(p) /\ probe.version = probers[p].version /\ probe.lease = "live"

(* A discovery replaces the last one and clears the failures; a failure    *)
(* leaves the last discovery and holds the next attempt back.              *)
FinishedWith(answer) ==
    [probe EXCEPT !.owner = NoProber, !.lease = "none", !.due = FALSE,
                  !.held = answer = 0,
                  !.found = IF answer = 0 THEN @ ELSE answer]

(* abandon_platform_update_probe *)
Abandoned(p) ==
    IF Mine(p) THEN [probe EXCEPT !.owner = NoProber, !.lease = "none", !.due = TRUE]
               ELSE probe

-------------------------------------------------------------------------------
(* An attempt.                                                             *)

Attempt(p, attempt) == probers' = [probers EXCEPT ![p].attempt = attempt]
Attempting(p, pc) == Attempt(p, [probers[p].attempt EXCEPT !.pc = pc])

(* check, up to the start of the renewing thread, which may fail.          *)
StartCheck(p, force) ==
    LET me == probers[p]
    IN  /\ ~me.closing /\ me.attempt.pc = "idle" /\ ~paused
        /\ probe.gen < MaxClaims
        /\ ~Refused(me.version, force)
        /\ \/ /\ probe' = Acquired(p, me.version)
              /\ Attempt(p, [NoAttempt EXCEPT !.pc = "claimed", !.gen = probe'.gen,
                                              !.loop = ~force])
              /\ UNCHANGED churn
           \/ /\ Churn
              /\ probe' = [Acquired(p, me.version) EXCEPT !.owner = NoProber,
                                                !.lease = "none", !.due = TRUE]
              /\ UNCHANGED probers
        /\ UNCHANGED <<source, paused, barred>>

(* inspect_release, without a lock: what the source says at this moment,   *)
(* or a failure.  The version checked against is the one that asked, as    *)
(* it does not change while the process runs.                              *)
Inspect(p) ==
    LET me == probers[p].attempt
    IN  /\ me.pc = "claimed"
        /\ IF me.cancelled \/ paused
           THEN Attempting(p, "leave")
           ELSE \E answer \in {0, source} :
                   Attempt(p, [me EXCEPT !.pc = "asked", !.answer = answer])
        /\ UNCHANGED <<probe, source, paused, churn, barred>>

(* Under the coordinator's lock: an attempt that was cancelled, stopped or *)
(* paused is obsolete; another one is committed if its lease still stands  *)
(* and the database takes it.                                              *)
Conclude(p) ==
    LET me == probers[p].attempt
        obsolete == me.cancelled \/ probers[p].closing \/ paused
    IN  /\ me.pc = "asked"
        /\ \/ /\ probe' = IF ~obsolete /\ FencedBy(p) THEN FinishedWith(me.answer)
                                                       ELSE probe
              /\ UNCHANGED churn
           \/ ~obsolete /\ Churn /\ UNCHANGED probe
        /\ Attempting(p, "leave")
        /\ UNCHANGED <<source, paused, barred>>

(* The finally of check: what is unfinished is abandoned, unless that      *)
(* fails too.  The renewing thread may live on for a while; its renewals   *)
(* are fenced by the claim.                                                *)
LeaveCheck(p) ==
    /\ probers[p].attempt.pc = "leave"
    /\ \/ probe' = Abandoned(p) /\ UNCHANGED churn
       \/ Mine(p) /\ Churn /\ UNCHANGED probe
    /\ Attempt(p, NoAttempt)
    /\ UNCHANGED <<source, paused, barred>>

(* _renew: a renewal that fails, or may have failed, ends the attempt.     *)
RenewLease(p) ==
    LET me == probers[p].attempt
    IN  /\ me.pc \in {"claimed", "asked"} /\ ~me.cancelled
        /\ \/ ~Renewable(p) /\ UNCHANGED churn
           \/ Renewable(p) /\ Churn
        /\ Attempt(p, [me EXCEPT !.cancelled = TRUE])
        /\ UNCHANGED <<probe, source, paused, barred>>

-------------------------------------------------------------------------------
(* The coordinator.                                                        *)

(* stop: an attempt that runs is withdrawn, though its call goes on.       *)
StopProber(p) ==
    LET me == probers[p]
        running == me.attempt.pc # "idle"
    IN  /\ ~me.closing /\ Churn
        /\ probe' = IF running THEN Abandoned(p) ELSE probe
        /\ probers' = [probers EXCEPT ![p].closing = TRUE,
                                      ![p].attempt.cancelled = running]
        /\ barred' = IF running THEN barred \cup {me.attempt.gen} ELSE barred
        /\ UNCHANGED <<source, paused>>

(* start, refused while the stopped loop is still in its attempt.          *)
StartProber(p) ==
    LET me == probers[p]
    IN  /\ me.closing
        /\ ~(me.attempt.pc # "idle" /\ me.attempt.loop)
        /\ probers' = [probers EXCEPT ![p].closing = FALSE]
        /\ UNCHANGED <<probe, source, paused, churn, barred>>

(* The process ends, stopped or not, and starts again, perhaps as the next *)
(* version.  Its claim stays in the row.                                   *)
RestartApi(p) ==
    /\ Churn
    /\ \E version \in {1, 2} :
          /\ version >= probers[p].version
          /\ probers' = [probers EXCEPT ![p] = [version |-> version, closing |-> FALSE,
                                                attempt |-> NoAttempt]]
    /\ UNCHANGED <<probe, source, paused, barred>>

(* is_paused *)
Maintain ==
    /\ paused \/ churn < MaxChurn
    /\ paused' = ~paused
    /\ churn' = IF paused THEN churn ELSE churn + 1
    /\ UNCHANGED <<probe, source, probers, barred>>

-------------------------------------------------------------------------------
(* Time and the source.                                                    *)

(* The release source publishes or withdraws something.                    *)
Publish ==
    /\ source < MaxEditions
    /\ source' = source + 1
    /\ UNCHANGED <<probe, probers, paused, churn, barred>>

(* A lease that is not renewed in time.                                    *)
LeaseRunsOut ==
    /\ probe.lease = "live" /\ ~probe.cooling
    /\ probe' = [probe EXCEPT !.lease = "expired", !.due = TRUE]
    /\ UNCHANGED <<source, probers, paused, churn, barred>>

CooldownEnds ==
    /\ probe.cooling
    /\ probe' = [probe EXCEPT !.cooling = FALSE]
    /\ UNCHANGED <<source, probers, paused, churn, barred>>

(* retry_not_before and next_check_at of a failure are the same moment.    *)
BackoffEnds ==
    /\ probe.held
    /\ probe' = [probe EXCEPT !.held = FALSE, !.due = TRUE]
    /\ UNCHANGED <<source, probers, paused, churn, barred>>

IntervalPasses ==
    /\ ~probe.due /\ ~probe.held /\ probe.lease = "none"
    /\ probe' = [probe EXCEPT !.due = TRUE]
    /\ UNCHANGED <<source, probers, paused, churn, barred>>

-------------------------------------------------------------------------------
(* _platform_update_probe_locked: without a row the last successful check  *)
(* of an older release counts, or none does.                               *)
ProbeInit ==
    /\ source = 1
    /\ \E found \in {0, 1}, fresh \in BOOLEAN :
          /\ found = 0 => ~fresh
          /\ probe = [version |-> found, found |-> found, due |-> ~fresh,
                      cooling |-> fresh, held |-> FALSE, owner |-> NoProber,
                      lease |-> "none", gen |-> 0]
    /\ probers = [p \in Probers |-> [version |-> 1, closing |-> FALSE,
                                attempt |-> NoAttempt]]
    /\ paused = FALSE /\ churn = 0 /\ barred = {}

ProbeNext ==
    \/ \E p \in Probers :
          \/ \E force \in BOOLEAN : StartCheck(p, force)
          \/ Inspect(p) \/ Conclude(p) \/ LeaveCheck(p) \/ RenewLease(p)
          \/ StopProber(p) \/ StartProber(p) \/ RestartApi(p)
    \/ Maintain \/ Publish
    \/ LeaseRunsOut \/ CooldownEnds \/ BackoffEnds \/ IntervalPasses

ProbeSpec == ProbeInit /\ [][ProbeNext]_probeVars

AttemptRow == [pc : {"idle", "claimed", "asked", "leave"}, gen : 0..MaxClaims,
               loop : BOOLEAN, cancelled : BOOLEAN, answer : Answers]

ProbeRow == [version : 0..2, found : Answers, due : BOOLEAN, cooling : BOOLEAN,
             held : BOOLEAN, owner : Probers \cup {NoProber},
             lease : {"none", "live", "expired"}, gen : 0..MaxClaims]

ProberRow == [version : {1, 2}, closing : BOOLEAN, attempt : AttemptRow]

ProbeTypeOK ==
    /\ probe \in ProbeRow
    /\ source \in 1..MaxEditions
    /\ probers \in [Probers -> ProberRow]
    /\ paused \in BOOLEAN /\ churn \in 0..MaxChurn /\ barred \subseteq 0..MaxClaims

(* The inductive invariant: claims are told apart by their generation, an  *)
(* answer that may still be committed is no older than what is stored, and *)
(* a withdrawn attempt knows that it was withdrawn.                        *)
ClaimsAreDistinct ==
    \A p, q \in Probers :
        probers[p].attempt.pc # "idle" /\ probers[q].attempt.pc # "idle" /\ p # q
        => probers[p].attempt.gen # probers[q].attempt.gen

AnswersAreFresh ==
    /\ probe.found <= source
    /\ \A p \in Probers :
          /\ probers[p].attempt.answer <= source
          /\ probers[p].attempt.pc = "asked" /\ probers[p].attempt.answer # 0 /\ Mine(p)
             => probe.found <= probers[p].attempt.answer

WithdrawnAreCancelled ==
    /\ \A g \in barred : g <= probe.gen
    /\ \A p \in Probers :
          /\ probers[p].attempt.gen <= probe.gen
          /\ probers[p].attempt.pc # "idle" /\ probers[p].attempt.gen \in barred
             => probers[p].attempt.cancelled

ProbeInv == ProbeTypeOK /\ ClaimsAreDistinct /\ AnswersAreFresh /\ WithdrawnAreCancelled

\* A discovery is never replaced by one that was read before it, whichever process
\* read it and however late its answer came, nor by one whose attempt stop() withdrew,
\* started again since or not (finish_platform_update_probe, stop).
DiscoveriesAdvance ==
    [][probe'.found # probe.found =>
          probe'.found > probe.found /\ probe.gen \notin barred]_probeVars
===============================================================================
