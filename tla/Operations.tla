------------------------------ MODULE Operations ------------------------------
(***************************************************************************)
(* One run of the operations assistant (src/backend/operations.py and      *)
(* operations_tools.py): the model proposes tool calls, the consumer's     *)
(* ops_run lane carries them out on a configuration file of the shop, and  *)
(* the run reports what took effect.  The lane may be killed, paused for   *)
(* an update or hit a storage error anywhere; the owner may cancel, retry  *)
(* and edit the same file meanwhile.                                       *)
(*                                                                         *)
(* The file is the sequence of the changes in it with the receipt of the   *)
(* call that wrote it, so that equal records have equal digests.  Calls    *)
(* that only read change nothing and are left out, as are the messages and *)
(* events a run records.                                                   *)
(***************************************************************************)
EXTENDS JobQueue, FiniteSetsExt

CONSTANTS
    Calls,          \* the tool calls a model may make, numbered in this order from 1
    OpsLane,        \* the consumer's ops_run lane
    MaxChanges,     \* bound: cancellations, retries, edits, rebindings
    MaxErrors,      \* bound: storage errors
    MaxKills        \* bound: kills of the consumer

ASSUME OperationsAssumption ==
    /\ Calls \subseteq Nat \ {0} /\ 1 \in Calls
    /\ {MaxChanges, MaxErrors, MaxKills} \subseteq Nat

VARIABLES
    plan,           \* how the calls relate: equal arguments, equal intents, or neither
    run,            \* the ops_runs row
    dispatch,       \* the ops_dispatches rows
    steps,          \* the ops_tool_steps rows
    config,         \* the file the calls change
    lane,           \* what the ops_run lane is doing
    used,           \* changes, errors and kills so far
    effect          \* per intent: how often it was written and undone

opsVars == <<plan, run, dispatch, steps, config, lane, used, effect>>

(* The signature compares arguments; the intent also sees through renewed  *)
(* references and revisions.                                               *)
Signature(c) == IF plan = "repeated" THEN 1 ELSE c
Intent(c) == IF plan = "distinct" THEN c ELSE 1

ActiveStatus == {"queued", "running", "cancel_requested"}

NoDispatch == [status |-> "none", counted |-> FALSE, replay |-> FALSE]
NoStep == [status |-> "none", of |-> 0, before |-> [changes |-> <<>>, receipt |-> 0]]
Resting == [pc |-> "idle", job |-> 0, call |-> 0, todo |-> {},
            recovering |-> FALSE, result |-> "ok"]

OpsKey(n) == [kind |-> "ops_run", attempt |-> n]

Settled == {"succeeded", "waiting_user", "partial_failed", "failed", "cancelled",
            "needs_review"}

With(status) == {c \in Calls : dispatch[c].status = status}
Counted == {c \in Calls : dispatch[c].counted}

Spend(kind, bound) == used[kind] < bound /\ used' = [used EXCEPT ![kind] = @ + 1]

-------------------------------------------------------------------------------
(* The owner.                                                              *)

(* _finish: a requested cancellation wins over every result but a review.  *)
Finished(status, recoverable) ==
    LET cancelled == run.status = "cancel_requested"
                     /\ status \notin {"needs_review", "cancelled"}
    IN  [run EXCEPT !.status = IF cancelled THEN "cancelled" ELSE status,
                    !.recoverable = cancelled \/ recoverable,
                    !.claim = None]

(* cancel: a run nobody works on, with no write in doubt, ends at once.    *)
Cancel ==
    /\ run.status \in {"queued", "running"}
    /\ Spend("changes", MaxChanges)
    /\ run' = IF run.claim = None /\ With("executing") = {}
              THEN Finished("cancelled", TRUE)
              ELSE [run EXCEPT !.status = "cancel_requested"]
    /\ UNCHANGED <<plan, dispatch, steps, config, lane, effect, jobs>>

(* retry: failures that waiting may cure become pending again, and a new   *)
(* job continues the run.  A new login replaces the run's.                 *)
Retry ==
    LET again == [c \in Calls |-> IF dispatch[c].status = "failed"
                                  THEN [dispatch[c] EXCEPT !.status = "pending"]
                                  ELSE dispatch[c]]
        open == \E c \in Calls : again[c].status \in {"pending", "executing"}
    IN  /\ run.status \in {"failed", "partial_failed", "cancelled"}
        /\ run.recoverable /\ run.binding # "connection"
        /\ Spend("changes", MaxChanges)
        /\ dispatch' = again
        /\ run' = [run EXCEPT !.status = "queued", !.recoverable = FALSE,
                       !.claim = None, !.attempt = @ + 1, !.binding = "ok",
                       !.job = Len(jobs) + 1,
                       !.answer = IF open \/ run.phase = "done" THEN {} ELSE @,
                       !.phase = IF open THEN "retry_dispatch"
                                 ELSE IF @ = "done" THEN "model" ELSE @]
        /\ Enqueued(OpsKey(run.attempt + 1), FALSE)
        /\ UNCHANGED <<plan, steps, config, lane, effect>>

(* chat: the next message of the session ends the old run's retries.       *)
Supersede ==
    /\ run.status \in Settled /\ run.recoverable
    /\ Spend("changes", MaxChanges)
    /\ run' = [run EXCEPT !.recoverable = FALSE]
    /\ UNCHANGED <<plan, dispatch, steps, config, lane, effect, jobs>>

(* The login, the AI connection or the shop the run was accepted for goes. *)
Rebind(how) ==
    /\ run.binding = "ok"
    /\ Spend("changes", MaxChanges)
    /\ run' = [run EXCEPT !.binding = how]
    /\ UNCHANGED <<plan, dispatch, steps, config, lane, effect, jobs>>

Leased == lane.pc \in {"prepare", "arm", "guard", "write", "committed"}

(* An edit by the owner, under the same account leases: another change, or *)
(* the last one taken back.                                                *)
Edit(undo) ==
    /\ ~Leased
    /\ Spend("changes", MaxChanges)
    /\ IF undo
       THEN LET last == config.changes[Len(config.changes)]
            IN  /\ config.changes # <<>> /\ last # 0
                /\ config' = [changes |-> SubSeq(config.changes, 1, Len(config.changes) - 1),
                              receipt |-> 0]
                /\ effect' = [effect EXCEPT ![Intent(last)].undone = @ + 1]
       ELSE config' = [changes |-> Append(config.changes, 0), receipt |-> 0]
            /\ UNCHANGED effect
    /\ UNCHANGED <<plan, run, dispatch, steps, lane, jobs>>

-------------------------------------------------------------------------------
(* The lane: claiming a run and working through its phases.                *)

At(pc) == lane.pc = pc
Go(pc) == lane' = [lane EXCEPT !.pc = pc]
Yields(result) == lane' = [lane EXCEPT !.pc = "record", !.result = result]

(* The work on the calls is over: only the job is still held.              *)
Ends(pc) == lane' = [Resting EXCEPT !.pc = pc, !.job = lane.job]
EndsWith(result) == lane' = [Resting EXCEPT !.pc = "error", !.job = lane.job,
                                            !.result = result]

(* claim_jobs and the checks of _process_ops: the job of an earlier        *)
(* attempt is acknowledged.                                                *)
Take ==
    /\ At("idle")
    /\ \E i \in Ids : /\ ClaimNext(i, OpsLane, {"ops_run"})
                      /\ lane' = [Resting EXCEPT !.pc = "begin", !.job = i]
    /\ UNCHANGED <<plan, run, dispatch, steps, config, used, effect>>

BeginRun ==
    /\ At("begin")
    /\ IF run.job = lane.job THEN Go("claim") /\ UNCHANGED jobs
       ELSE CompleteJob(lane.job, OpsLane, TRUE) /\ lane' = Resting
    /\ UNCHANGED <<plan, run, dispatch, steps, config, used, effect>>

(* _claim: the claim of an ended consumer is replaced, a live one is not,  *)
(* and a claim without a job's owner stands until it is old.               *)
ClaimRun ==
    LET mine == IF run.job = lane.job THEN "this" ELSE "nobody"
    IN  /\ At("claim")
        /\ \/ /\ run.status \notin ActiveStatus \/ run.claim \in {"this", "nobody"}
              /\ Ends("release") /\ UNCHANGED run
           \/ /\ run.status \in ActiveStatus /\ run.claim # "this"
              /\ run' = [run EXCEPT !.claim = mine,
                             !.status = IF @ = "queued" THEN "running" ELSE @]
              /\ Go("loop")
        /\ UNCHANGED <<plan, dispatch, steps, config, used, effect, jobs>>

Executing(cs) == {c \in cs : dispatch[c].status = "executing"}
Unsettled(cs) == {c \in cs : dispatch[c].status \in {"pending", "executing"}}

(* Writes already started are looked into before anything else.            *)
Loop ==
    /\ At("loop")
    /\ lane' = [lane EXCEPT !.pc = "next", !.recovering = TRUE,
                    !.todo = CASE run.phase = "dispatch"       -> Executing(run.answer)
                               [] run.phase = "retry_dispatch" -> Executing(run.issued)
                               [] OTHER                        -> {}]
    /\ UNCHANGED <<plan, run, dispatch, steps, config, used, effect, jobs>>

(* _ensure: paused or fenced off, cancelled, no longer bound, or current.  *)
Lost == run.status \in ActiveStatus
Stopped == run.status = "cancel_requested"
Bound == run.status # "cancel_requested" /\ run.binding = "ok"
Unbound == run.status # "cancel_requested" /\ run.binding # "ok"

(* The check between two steps of a run.                                   *)
Check ==
    /\ At("check")
    /\ \/ Lost /\ Ends("lost")
       \/ Stopped /\ Ends("stopped")
       \/ Unbound /\ EndsWith("refused")
       \/ /\ Bound
          /\ lane' = CASE lane.todo # {} -> [lane EXCEPT !.pc = "next"]
               [] lane.todo = {} /\ ~lane.recovering -> [lane EXCEPT !.pc = "complete"]
               [] lane.todo = {} /\ lane.recovering /\ run.phase = "model" ->
                      [lane EXCEPT !.pc = "ask"]
               [] OTHER -> [lane EXCEPT !.pc = "next", !.recovering = FALSE,
                               !.todo = IF run.phase = "dispatch" THEN run.answer
                                                                  ELSE Unsettled(run.issued)]
    /\ UNCHANGED <<plan, run, dispatch, steps, config, used, effect, jobs>>

(* agent_turn and _save_turn: an answer is kept unless the binding went    *)
(* meanwhile; the provider may fail instead.                               *)
Ask ==
    LET rest == Calls \ run.issued
        answers == {{c \in rest : c <= last} : last \in rest \cup {0}}
    IN  /\ At("ask")
        /\ \/ EndsWith("provider")
              /\ UNCHANGED <<run, dispatch>>
           \/ /\ run.binding # "ok"
              /\ EndsWith("refused")
              /\ UNCHANGED <<run, dispatch>>
           \/ /\ run.binding = "ok"
              /\ \E a \in answers :
                    /\ run' = [run EXCEPT !.answer = a, !.issued = @ \cup a, !.phase = "dispatch"]
                    /\ dispatch' = [c \in Calls |->
                          IF c \in a THEN [NoDispatch EXCEPT !.status = "pending"]
                                     ELSE dispatch[c]]
              /\ Go("check")
        /\ UNCHANGED <<plan, steps, config, used, effect, jobs>>

(* _complete_turn, and the end of a resumed dispatch: on to the next turn, *)
(* or the run is finished when the model called no tool.                   *)
Complete ==
    LET result ==
          CASE With("needs_review") # {}                        -> {"needs_review"}
            [] With("needs_review") = {} /\ With("failed") \cup With("refused") \cup With("rejected") # {} ->
                  {IF Counted # {} THEN "partial_failed" ELSE "failed"}
            [] OTHER                                            -> {"succeeded", "waiting_user"}
    IN  /\ At("complete")
        /\ \/ /\ Stopped /\ run.phase = "dispatch" /\ Ends("stopped") /\ UNCHANGED run
           \/ /\ run.phase = "retry_dispatch" \/ (run.answer # {} /\ ~Stopped)
              /\ run' = [run EXCEPT !.phase = "model", !.answer = {}]
              /\ Go("loop")
           \/ /\ run.phase = "dispatch" /\ run.answer = {} /\ ~Stopped
              /\ \E s \in result :
                    run' = [Finished(s, s \in {"failed", "partial_failed"} /\ With("failed") # {})
                               EXCEPT !.phase = "done"]
              /\ Ends("release")
        /\ UNCHANGED <<plan, dispatch, steps, config, used, effect, jobs>>

-------------------------------------------------------------------------------
(* The lane: one call.                                                     *)

(* _dispatch, the loop head: settled calls are passed over.                *)
NextCall ==
    LET c == Min(lane.todo)
        calls(pc) == lane' = [lane EXCEPT !.call = c, !.todo = @ \ {c}, !.pc = pc]
    IN  /\ At("next")
        /\ \/ lane.todo = {} /\ Go("check")
           \/ lane.todo # {} /\ dispatch[c].status = "executing" /\ calls("tool")
           \/ lane.todo # {} /\ dispatch[c].status = "pending" /\ calls("mark")
           \/ /\ lane.todo # {} /\ dispatch[c].status \notin {"pending", "executing"}
              /\ calls("check")
        /\ UNCHANGED <<plan, run, dispatch, steps, config, used, effect, jobs>>

Succeeded(c) == dispatch[c].status = "succeeded" /\ ~dispatch[c].replay

(* A pending call is checked once more and marked before the tool runs; a  *)
(* repetition of a successful one takes over its result.                   *)
Mark ==
    LET c == lane.call
        twin == \E d \in Calls \ {c} : Signature(d) = Signature(c) /\ Succeeded(d)
    IN  /\ At("mark")
        /\ \/ Ends("lost") /\ UNCHANGED dispatch
           \/ Stopped /\ Ends("stopped") /\ UNCHANGED dispatch
           \/ /\ Unbound /\ UNCHANGED dispatch
              /\ EndsWith("refused")
           \/ Bound /\ twin /\ Yields("replay") /\ UNCHANGED dispatch
           \/ /\ Bound /\ ~twin /\ Go("tool")
              /\ dispatch' = [dispatch EXCEPT ![c].status = "executing"]
        /\ UNCHANGED <<plan, run, steps, config, used, effect, jobs>>

(* The step of the current call, or of the call it is an alias of.         *)
Canonical == steps[lane.call].of

After(k) == [changes |-> Append(steps[k].before.changes, k), receipt |-> k]

(* _step_state: the file holds the step's receipt, what it was before, or  *)
(* neither.                                                                *)
StepState(k) == CASE config = After(k)          -> "after"
                  [] config = steps[k].before   -> "before"
                  [] OTHER                      -> "conflict"

(* _reconcile: what became of step k is known, or it was not carried out.  *)
Reconcile(k, ok) ==
    LET state == StepState(k)
        open == steps[k].status \in {"prepared", "executing"}
        known(result) == Yields(result) /\ UNCHANGED steps
    IN  \/ steps[k].status = "succeeded" /\ known(ok)
        \/ steps[k].status = "unchanged" /\ known("unchanged")
        \/ steps[k].status = "needs_review" /\ known("review")
        \/ /\ open /\ state = "after" /\ Yields(ok)
           /\ steps' = [steps EXCEPT ![k].status = "succeeded"]
        \/ /\ open /\ state = "conflict" /\ Yields("review")
           /\ steps' = [steps EXCEPT ![k].status = "needs_review"]

NotDone(k) == steps[k].status \in {"prepared", "executing"} /\ StepState(k) = "before"

ToDo == IF Canonical = 0 THEN TRUE ELSE NotDone(Canonical)

(* execute, before the account leases: a step known to be done is not      *)
(* started, even after a cancellation.  The leases may be taken.           *)
Tool ==
    /\ At("tool")
    /\ \/ Canonical # 0 /\ Reconcile(Canonical, "ok") /\ UNCHANGED used
       \/ /\ ToDo
          /\ Go("prepare") /\ UNCHANGED <<steps, used>>
       \/ /\ ToDo
          /\ Spend("errors", MaxErrors) /\ Yields("failed") /\ UNCHANGED steps
    /\ UNCHANGED <<plan, run, dispatch, config, effect, jobs>>

(* The fence inside the tool: nothing was written yet.                     *)
Fenced ==
    \/ Lost /\ Ends("lost") /\ UNCHANGED dispatch
    \/ /\ Stopped /\ Ends("stopped")
       /\ dispatch' = [dispatch EXCEPT ![lane.call].status = "pending"]
    \/ Unbound /\ Yields("refused") /\ UNCHANGED dispatch

(* Under the leases: the step is looked at again, or made an alias of the  *)
(* first step with its intent, or planned from the file as it is now.      *)
Prepare ==
    LET c == lane.call
        same == {d \in Calls : steps[d].of = d /\ Intent(d) = Intent(c)}
        plans(status) == steps' = [steps EXCEPT ![c] =
                            [status |-> status, of |-> c, before |-> config]]
    IN  /\ At("prepare")
        /\ \/ Canonical # 0 /\ Reconcile(Canonical, "ok") /\ UNCHANGED dispatch
           \/ /\ ToDo
              /\ Fenced /\ UNCHANGED steps
           \/ /\ Bound /\ Canonical # 0 /\ NotDone(Canonical)
              /\ Go("arm") /\ UNCHANGED <<steps, dispatch>>
           \/ /\ Bound /\ Canonical = 0 /\ same # {}
              /\ Go("prepare") /\ UNCHANGED dispatch
              /\ steps' = [steps EXCEPT ![c].of = Min(same)]
           \/ /\ Bound /\ Canonical = 0 /\ same = {} /\ UNCHANGED dispatch
              /\ \/ plans("prepared") /\ Go("arm")
                 \/ plans("unchanged") /\ Yields("unchanged")
                 \/ UNCHANGED steps /\ Yields("rejected")
        /\ UNCHANGED <<plan, run, config, used, effect, jobs>>

(* The step is marked, so that a lost completion is looked for later.      *)
Arm ==
    /\ At("arm")
    /\ \/ Fenced /\ UNCHANGED steps
       \/ /\ Bound /\ Go("guard") /\ UNCHANGED dispatch
          /\ steps' = [steps EXCEPT ![Canonical].status = "executing"]
    /\ UNCHANGED <<plan, run, config, used, effect, jobs>>

(* The last check before the write.                                        *)
Guard ==
    /\ At("guard")
    /\ \/ Fenced
       \/ Bound /\ Go("write") /\ UNCHANGED dispatch
    /\ UNCHANGED <<plan, run, steps, config, used, effect, jobs>>

WriteFile ==
    /\ At("write")
    /\ config' = After(Canonical)
    /\ effect' = [effect EXCEPT ![Intent(Canonical)].written = @ + 1]
    /\ Go("committed")
    /\ UNCHANGED <<plan, run, dispatch, steps, used, jobs>>

Commit ==
    /\ At("committed")
    /\ steps' = [steps EXCEPT ![Canonical].status = "succeeded"]
    /\ Yields("ok")
    /\ UNCHANGED <<plan, run, dispatch, config, used, effect, jobs>>

(* After a storage error the receipt is looked for, and nothing written.   *)
ProbeMutant ==
    /\ At("probe")
    /\ Yields("failed")
    /\ UNCHANGED <<plan, run, dispatch, steps, config, used, effect, jobs>>

Probe ==
    /\ At("probe")
    /\ \/ Canonical # 0 /\ Reconcile(Canonical, "recovered") /\ UNCHANGED used
       \/ /\ ToDo
          /\ \/ Yields("failed")
             \/ run.binding # "ok" /\ Yields("refused")
          /\ UNCHANGED <<steps, used>>
       \/ Spend("errors", MaxErrors) /\ Yields("review") /\ UNCHANGED steps
    /\ UNCHANGED <<plan, run, dispatch, config, effect, jobs>>

(* _record_result and _link_result.  A receipt counts once, for the first  *)
(* call that reports it.                                                   *)
Record ==
    LET c == lane.call
        r == lane.result
        seen == \E d \in Calls \ {c} : dispatch[d].counted /\ steps[d].of = Canonical
        row == CASE r \in {"ok", "recovered"} ->
                        [status |-> "succeeded", counted |-> ~seen, replay |-> seen]
                 [] r \in {"replay", "unchanged"} ->
                        [status |-> "succeeded", counted |-> FALSE, replay |-> r = "replay"]
                 [] r = "review" -> [NoDispatch EXCEPT !.status = "needs_review"]
                 [] OTHER        -> [NoDispatch EXCEPT !.status = r]
    IN  /\ At("record")
        /\ dispatch' = [dispatch EXCEPT ![c] = row]
        /\ IF r \in {"review", "refused"} THEN EndsWith(r)
           ELSE lane' = [lane EXCEPT !.pc = IF lane.recovering THEN "next" ELSE "check",
                                     !.call = 0, !.result = "ok"]
        /\ UNCHANGED <<plan, run, steps, config, used, effect, jobs>>

-------------------------------------------------------------------------------
(* The end of a claim, and failures.                                       *)

(* A cancellation is not claimed for a write whose outcome is open.        *)
Stop ==
    /\ At("stopped")
    /\ run' = IF With("executing") # {} THEN Finished("needs_review", FALSE)
                                        ELSE Finished("cancelled", TRUE)
    /\ Ends("release")
    /\ UNCHANGED <<plan, dispatch, steps, config, used, effect, jobs>>

(* A fenced consumer leaves the run as it is.                              *)
Lose ==
    /\ At("lost")
    /\ run' = [run EXCEPT !.claim = None]
    /\ Ends("release")
    /\ UNCHANGED <<plan, dispatch, steps, config, used, effect, jobs>>

Error ==
    LET status == IF lane.result = "review" THEN "needs_review"
                  ELSE IF Counted # {} THEN "partial_failed" ELSE "failed"
    IN  /\ At("error")
        /\ run' = Finished(status, lane.result \in {"provider", "storage"})
        /\ Ends("release")
        /\ UNCHANGED <<plan, dispatch, steps, config, used, effect, jobs>>

(* The job of an unfinished run is put off, that of a finished one done.   *)
Release ==
    /\ At("release")
    /\ lane' = Resting
    /\ IF run.status \in ActiveStatus THEN DeferJob(lane.job, OpsLane)
                                      ELSE CompleteJob(lane.job, OpsLane, TRUE)
    /\ UNCHANGED <<plan, run, dispatch, steps, config, used, effect>>

(* The database or the disk fails.  Inside the tool the receipt is looked  *)
(* for; outside it the run is ended; where the run is being ended the      *)
(* error reaches the consumer, which leaves the run claimed.               *)
StorageError ==
    /\ Spend("errors", MaxErrors)
    /\ \/ /\ lane.pc \in {"tool", "prepare", "arm", "guard", "write", "committed"}
             \/ (At("record") /\ lane.result = "ok")
          /\ Go("probe") /\ UNCHANGED jobs
       \/ /\ At("mark") \/ (At("record") /\ lane.result = "replay")
          /\ Yields("failed") /\ UNCHANGED jobs
       \/ /\ lane.pc \in {"loop", "check", "ask", "complete"}
             \/ (At("record") /\ lane.result \notin {"ok", "replay"})
          /\ EndsWith("storage")
          /\ UNCHANGED jobs
       \/ /\ lane.pc \in {"stopped", "lost", "error", "release"}
          /\ FailJob(lane.job, OpsLane) /\ lane' = Resting
    /\ UNCHANGED <<plan, run, dispatch, steps, config, effect>>

(* The consumer is killed.                                                 *)
Kill ==
    /\ Spend("kills", MaxKills)
    /\ lane' = Resting
    /\ jobs' = Orphaned({OpsLane})
    /\ run' = [run EXCEPT !.claim = IF @ = "this" THEN "old" ELSE @]
    /\ UNCHANGED <<plan, dispatch, steps, config, effect>>

-------------------------------------------------------------------------------
(* chat has stored the run and its job in one transaction.                 *)
OpsJobs == <<NewRow(OpsKey(0), FALSE)>>

(* Composed modules pass no call when there is no run.                     *)
OpsInit(cs) ==
    /\ plan \in {"repeated", "reworded", "distinct"}
    /\ run = [status |-> "queued", phase |-> "model", claim |-> None, job |-> 1,
              recoverable |-> FALSE, binding |-> "ok", attempt |-> 0,
              issued |-> {}, answer |-> {}]
    /\ dispatch = [c \in cs |-> NoDispatch]
    /\ steps = [c \in cs |-> NoStep]
    /\ config = [changes |-> <<>>, receipt |-> 0]
    /\ lane = Resting
    /\ used = [changes |-> 0, errors |-> 0, kills |-> 0]
    /\ effect = [c \in cs |-> [written |-> 0, undone |-> 0]]

OpsNext ==
    \/ Cancel \/ Retry \/ Supersede
    \/ \E how \in {"session", "connection"} : Rebind(how)
    \/ \E undo \in BOOLEAN : Edit(undo)
    \/ Take \/ BeginRun \/ ClaimRun \/ Loop \/ Check \/ Ask \/ Complete
    \/ NextCall \/ Mark \/ Tool \/ Prepare \/ Arm \/ Guard \/ WriteFile
    \/ Commit \/ Probe \/ Record
    \/ Stop \/ Lose \/ Error \/ Release
    \/ StorageError \/ Kill

-------------------------------------------------------------------------------
(***************************************************************************)
(* What a run reports is what it did: a change the model asked for is      *)
(* written once, however often it was asked for, retried, recovered after  *)
(* a crash or repeated in other words (twice only if the owner took it     *)
(* back in between), it is counted once, and a finished run has counted    *)
(* every change of it that is in effect unless it says that the step needs *)
(* review or still has it marked for recovery.                             *)
(***************************************************************************)
ChangesAreExact ==
    \A i \in DOMAIN effect :
        LET of == {c \in Calls : Intent(c) = i}
            counted == of \cap Counted
        IN  /\ effect[i].written <= 1 + effect[i].undone
            /\ Cardinality(counted) <= 1
            /\ counted # {} => effect[i].written > 0
            /\ run.status \in Settled /\ effect[i].written > effect[i].undone =>
                  counted # {} \/ \E c \in of : dispatch[c].status \in {"executing", "needs_review"}

OpsTypeOK ==
    /\ run.status \in ActiveStatus \cup Settled
    /\ run.phase \in {"model", "dispatch", "retry_dispatch", "done"}
    /\ run.claim \in {None, "this", "old", "nobody"}
    /\ run.recoverable \in BOOLEAN
    /\ run.binding \in {"ok", "session", "connection"}
    /\ \A c \in DOMAIN dispatch :
          /\ dispatch[c].status \in {"none", "pending", "executing", "succeeded",
                                     "failed", "refused", "rejected", "needs_review"}
          /\ steps[c].status \in {"none", "prepared", "executing", "succeeded",
                                  "unchanged", "needs_review"}
          /\ steps[c].of \in Calls \cup {0}
===============================================================================
