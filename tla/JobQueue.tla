------------------------------- MODULE JobQueue -------------------------------
(***************************************************************************)
(* The durable job table of the control plane (src/backend/db.py): rows    *)
(* are inserted once per idempotency key, claimed under a lease, and then  *)
(* completed, deferred, retried or dead-lettered by the claimer only.      *)
(*                                                                         *)
(* The table is a sequence of rows in insertion order; a row's id is its   *)
(* position.  Every operation below is one SQLite transaction.             *)
(*                                                                         *)
(* Time is abstracted to choice: a row waiting for another try may or may  *)
(* not be due when somebody claims, and the claim of an ended process (a   *)
(* running row without owner) may or may not have lapsed.  A live          *)
(* claimer's lease does not lapse: the consumer renews it every 30         *)
(* seconds, and a request's lease outlasts the longest synchronisation it  *)
(* waits for.                                                              *)
(***************************************************************************)
EXTENDS Naturals, Sequences, FiniteSets

CONSTANTS
    MaxAttempts,    \* max_attempts of every row
    None            \* no owner, no cookie, no login

ASSUME MaxAttemptsAssumption == MaxAttempts \in Nat \ {0}

VARIABLE jobs

JobStatus == {"queued", "running", "retry", "completed", "dead_letter"}

Ids == DOMAIN jobs

(* A new row; key tells apart the rows enqueue_job must not duplicate, and *)
(* fresh marks the one-off keys (":retry:<ns>", ":repair:<ns>").           *)
NewRow(key, fresh) ==
    [key |-> key, fresh |-> fresh, status |-> "queued", attempts |-> 0,
     owner |-> None]

(* The rows inserted under exactly this key.                               *)
Known(key) == {i \in Ids : jobs[i].key = key /\ ~jobs[i].fresh}

(* The row of the newest time bucket of a key, the only one for a key      *)
(* without buckets.                                                        *)
Newest(key) == CHOOSE i \in Known(key) : \A j \in Known(key) : j <= i

Enqueued(key, fresh) == jobs' = Append(jobs, NewRow(key, fresh))

(* What an expired lease leaves behind: another try, or none when the      *)
(* attempts are used up.                                                   *)
ExpiredRow(r) ==
    [r EXCEPT !.status = IF r.attempts >= MaxAttempts THEN "dead_letter"
                                                     ELSE "retry",
              !.owner = None]

(* _recover_expired_jobs_locked, the first part of every claim.            *)
Orphans == {i \in Ids : jobs[i].status = "running" /\ jobs[i].owner = None}

Recovered(lapsed) ==
    [i \in Ids |-> IF i \in lapsed THEN ExpiredRow(jobs[i]) ELSE jobs[i]]

Claimable(r) == r.status \in {"queued", "retry"}

ClaimedRow(r, owner) ==
    [r EXCEPT !.status = "running", !.attempts = @ + 1, !.owner = owner]

(* claim_job: the known row i, whatever else is queued.                    *)
ClaimJob(i, owner) ==
    \E lapsed \in SUBSET Orphans :
        /\ Claimable(Recovered(lapsed)[i])
        /\ jobs' = [Recovered(lapsed) EXCEPT ![i] = ClaimedRow(@, owner)]

(* A row that somebody runs, that is settled, or whose time has not come.  *)
ClaimRefused(i) ==
    \E lapsed \in SUBSET Orphans :
        /\ Recovered(lapsed)[i].status # "queued"
        /\ jobs' = Recovered(lapsed)

(* claim_jobs(limit=1): the oldest row of the consumer's kinds that is due. *)
ClaimNext(i, owner, kinds) ==
    \E lapsed \in SUBSET Orphans :
        LET rows == Recovered(lapsed)
        IN  /\ Claimable(rows[i]) /\ rows[i].key.kind \in kinds
            /\ \A j \in Ids : j < i /\ rows[j].key.kind \in kinds
                              => rows[j].status # "queued"
            /\ jobs' = [rows EXCEPT ![i] = ClaimedRow(@, owner)]

Claims(i, owner) == jobs[i].status = "running" /\ jobs[i].owner = owner

(* complete_job, and complete_job_for_account when active is the account's *)
(* state in the same statement: the caller's claim ends only if both hold. *)
CompleteJob(i, owner, active) ==
    jobs' = IF Claims(i, owner) /\ active
            THEN [jobs EXCEPT ![i].status = "completed", ![i].owner = None]
            ELSE jobs

(* defer_job: the claim is yielded and its attempt refunded.               *)
DeferJob(i, owner) ==
    jobs' = IF Claims(i, owner)
            THEN [jobs EXCEPT ![i].status = "retry", ![i].owner = None,
                              ![i].attempts = @ - 1]
            ELSE jobs

(* fail_job: a retry after a back-off, or the dead letter.                 *)
FailJob(i, owner) ==
    jobs' = IF Claims(i, owner)
            THEN [jobs EXCEPT ![i] = ExpiredRow(@)]
            ELSE jobs

(* The claims of the processes that end in this step are nobody's.         *)
Orphaned(owners) ==
    [i \in Ids |-> IF jobs[i].owner \in owners
                   THEN [jobs[i] EXCEPT !.owner = None] ELSE jobs[i]]

RowsOK(owners, keys) ==
    \A i \in Ids :
        jobs[i] \in [key : keys, fresh : BOOLEAN, status : JobStatus,
                     attempts : 0..MaxAttempts,
                     owner : owners \cup {None}]
===============================================================================
