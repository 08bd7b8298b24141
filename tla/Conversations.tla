---------------------------- MODULE Conversations ----------------------------
(***************************************************************************)
(* One conversation with a buyer, answered by the worker or by a person    *)
(* (src/worker/main.py, context_manager.py, delivery_store.py and          *)
(* src/backend/records.py).                                                *)
(*                                                                         *)
(* The handler is the inbound worker of the conversation, which answers    *)
(* buyer messages one after the other; the courier is the loop that sends  *)
(* the replies people queued in the console.  Both are tasks of one event  *)
(* loop, so between two awaits only the console, a process of its own, or  *)
(* a crash can intervene.  Whose turn it is, the handler's or a person's,  *)
(* is the conversation's manual mode.                                      *)
(***************************************************************************)
EXTENDS Naturals, Sequences, FiniteSets, Functions

CONSTANTS
    LastMessage,    \* bound: the buyer's messages are 1..LastMessage
    Replies,        \* request ids of manual replies
    Pictures,       \* images uploaded for them
    MediaOf,        \* the images of a reply, in order
    Texted,         \* the replies that end with a text
    MaxTries,       \* max_attempts of a manual reply
    LlmLimit,       \* MAX_LLM_CALLS_PER_CHAT
    MaxSwitches,    \* bound: changes of mode and of the settings
    MaxSlips        \* bound: failed calls, lost acks, stalls and crashes of the worker

ASSUME ConversationAssumption ==
    /\ {LastMessage, MaxTries} \subseteq Nat \ {0}
    /\ {LlmLimit, MaxSwitches, MaxSlips} \subseteq Nat
    /\ MediaOf \in [Replies -> Seq(Pictures)]
    /\ Texted \subseteq Replies
    /\ \A q \in Replies : q \in Texted \/ MediaOf[q] # <<>>

VARIABLES
    talk,       \* mode, settings and flags of the conversation
    ledger,     \* per buyer message: its row, its outcome and the draft
    handler,    \* what the inbound worker of the conversation is doing
    outbox,     \* manual_reply_drafts and manual_reply_parts
    courier,    \* what the manual outbox loop is doing
    images,     \* uploaded images on disk
    wire,       \* history: what was put on the wire
    spare       \* remaining environment events

talkVars == <<talk, ledger, handler, outbox, courier, images, wire, spare>>

Messages == DOMAIN ledger

NoProof == [origin |-> "none", revision |-> 0, ai |-> 0]
Unanswered == [done |-> FALSE, user |-> FALSE, role |-> "none", text |-> 0,
               bubbles |-> 0, tries |-> 0, proof |-> NoProof]
Resting == [pc |-> "idle", m |-> 0, text |-> 0, bubbles |-> 0, proof |-> NoProof,
            again |-> FALSE, k |-> 1, attempt |-> 1]
NotQueued == [status |-> "none", tries |-> 0, acked |-> 0, lease |-> "none",
              mine |-> FALSE]
Parked == [pc |-> "idle", q |-> "none", part |-> 0, attempt |-> 1]

Final == {"assistant", "cancelled", "no_reply"}

(* Points from which a task goes on without an await.                      *)
HandlerSync == {"draft", "send", "settle"}
CourierSync == {"send"}

(* _send_with_pacing: with an interval configured, one attempt at a time.  *)
HandlerAttempts == {"verify", "ready", "send", "ack"}
CourierAttempts == {"upload", "send", "ack"}
SlotFree(other, attempts) == talk.paced => other.pc \notin attempts

HandlerRuns == talk.up /\ courier.pc \notin CourierSync
CourierRuns == talk.up /\ handler.pc \notin HandlerSync

Slip == spare.slips > 0 /\ spare' = [spare EXCEPT !.slips = @ - 1]

-------------------------------------------------------------------------------
(* Turns.                                                                  *)

(* Another turn; strays are the messages of the other side since then.     *)
(* When a person leaves, the cooldown may hold replies back.               *)
Turn(on) ==
    \E allowed \in {talk.allowed, talk.allowed /\ on} :
        talk' = [talk EXCEPT !.mode = on, !.allowed = allowed, !.strays = 0]

Switch == spare.switches > 0 /\ spare' = [spare EXCEPT !.switches = @ - 1]

(* set_conversation_takeover: the mode the worker looks at, then a copy    *)
(* for the console's lists, which is not followed here.                    *)
SetTakeover ==
    /\ Switch
    /\ Turn(~talk.mode)
    /\ UNCHANGED <<ledger, handler, outbox, courier, images, wire>>

(* toggle_manual_mode_once: the command's key makes its later handling and *)
(* every redelivery of it change nothing.                                  *)
ToggleOnce == Switch /\ Turn(~talk.mode)

(* _preapply_manual_control: a toggle keyword of the seller is applied     *)
(* when its event is stored.                                               *)
SellerToggles ==
    /\ talk.up
    /\ handler.pc \notin HandlerSync /\ courier.pc \notin CourierSync
    /\ ToggleOnce
    /\ UNCHANGED <<ledger, handler, outbox, courier, images, wire>>

(* is_manual_mode takes an expired mode away.                              *)
ModeExpires ==
    /\ talk.mode /\ Switch
    /\ Turn(FALSE)
    /\ UNCHANGED <<ledger, handler, outbox, courier, images, wire>>

(* The rules and settings are edited, or business hours and cooldowns      *)
(* pass; the AI configuration is edited.                                   *)
SettingsChange ==
    /\ Switch
    /\ \/ \E edited \in {0, 1}, allowed \in BOOLEAN :
             /\ edited = 1 \/ allowed # talk.allowed
             /\ talk' = [talk EXCEPT !.revision = @ + edited, !.allowed = allowed]
       \/ talk' = [talk EXCEPT !.ai = @ + 1]
    /\ UNCHANGED <<ledger, handler, outbox, courier, images, wire>>

(* automatic_reply_suppression_reason                                      *)
Suppressed == talk.mode \/ ~talk.allowed

-------------------------------------------------------------------------------
(* The handler.                                                            *)

Note(row) == ledger' = [ledger EXCEPT ![handler.m] = row]
Step(pc) == handler' = [handler EXCEPT !.pc = pc]

(* The event is complete.                                                  *)
Close(m, row) ==
    /\ ledger' = [ledger EXCEPT ![m] = [row EXCEPT !.done = TRUE]]
    /\ handler' = Resting

(* add_message_by_chat: the buyer's message is stored once.                *)
Kept(row) == [row EXCEPT !.user = TRUE]

(* complete_assistant_reply *)
Completed(row) == [row EXCEPT !.role = "assistant"]

(* cancel_assistant_reply and the draft's provenance; an outcome is final. *)
Cancelled(row) ==
    IF row.role = "pending" THEN [row EXCEPT !.role = "cancelled", !.proof = NoProof]
                            ELSE row

(* record_assistant_outcome                                                *)
Recorded(row, role) == IF row.role = "none" THEN [row EXCEPT !.role = role] ELSE row

(* suppress_reply: a stored draft is cancelled; without one the outcome    *)
(* says whether a person took over.                                        *)
SuppressReplyMutant(row) ==
    [row EXCEPT !.role = IF talk.mode THEN "cancelled" ELSE "no_reply", !.proof = NoProof]

SuppressReply(row) ==
    IF row.role = "pending" THEN Cancelled(row)
    ELSE Recorded(row, IF talk.mode THEN "cancelled" ELSE "no_reply")

(* _customer_conversation_scope: what the platform says, or nothing.       *)
ScopeAnswer(s) ==
    \/ s = talk.scope /\ UNCHANGED spare
    \/ s = "unknown" /\ Slip

(* _process_chat_message, up to the conversation's lock: the oldest open   *)
(* event; other people's listings, old and system messages are only        *)
(* recorded or ignored.                                                    *)
Receive(m) ==
    /\ handler.pc = "idle" /\ HandlerRuns
    /\ ~ledger[m].done /\ \A n \in 1..m - 1 : ledger[n].done
    /\ \E s \in {"owned", "foreign", "unknown"}, kind \in {"fresh", "late", "system"} :
          /\ ScopeAnswer(s)
          /\ IF s = "foreign" \/ kind = "late"
             THEN Close(m, Kept(ledger[m]))
             ELSE IF kind = "system" THEN Close(m, ledger[m])
             ELSE /\ handler' = [Resting EXCEPT !.pc = "buyer", !.m = m]
                  /\ UNCHANGED ledger
    /\ UNCHANGED <<talk, outbox, courier, images, wire>>

(* A replayed draft needs to know where it came from and that the rules    *)
(* and settings are still those it was made with.                          *)
Replayable(row) == row.proof.origin # "none" /\ row.proof.revision = talk.revision

(* reserve_llm_budget *)
Granted == talk.calls < LlmLimit

(* What answers: a rule or one of the fixed texts, the model, or nothing.  *)
Compose(row) ==
    LET made == [row EXCEPT !.tries = @ + 1]
        proof(origin) == [origin |-> origin, revision |-> talk.revision, ai |-> 0]
    IN  \/ Close(handler.m, Recorded(row, "no_reply")) /\ UNCHANGED talk
        \/ /\ Note(made)
           /\ handler' = [handler EXCEPT !.pc = "delay", !.text = made.tries,
                             !.bubbles = 1, !.proof = proof("rule")]
           /\ UNCHANGED talk
        \/ IF Granted
           THEN /\ Note(made)
                /\ handler' = [handler EXCEPT !.pc = "generate", !.text = made.tries,
                                  !.proof = proof("ai")]
                /\ talk' = [talk EXCEPT !.calls = @ + 1]
           ELSE Close(handler.m, Recorded(row, "no_reply")) /\ UNCHANGED talk

(* _process_buyer_chat up to its first await after the scope.              *)
BuyerChat ==
    LET m   == handler.m
        row == ledger[m]
        kept == Kept(row)
    IN  /\ handler.pc = "buyer" /\ HandlerRuns
        /\ \E s \in {"owned", "foreign", "unknown"} :
              /\ ScopeAnswer(s)
              /\ CASE s # "owned" ->
                          /\ Close(m, Cancelled(IF s = "foreign" THEN row ELSE kept))
                          /\ UNCHANGED talk
                   [] s = "owned" /\ row.role \in Final ->
                          Close(m, kept) /\ UNCHANGED talk
                   [] s = "owned" /\ row.role \notin Final /\ Suppressed ->
                          Close(m, SuppressReply(kept)) /\ UNCHANGED talk
                   [] s = "owned" /\ row.role = "pending" /\ ~Suppressed ->
                          /\ IF Replayable(row)
                             THEN /\ Note(kept)
                                  /\ handler' = [handler EXCEPT !.pc = "draft",
                                        !.text = row.text, !.bubbles = row.bubbles,
                                        !.proof = row.proof]
                             ELSE Close(m, Cancelled(kept))
                          /\ UNCHANGED talk
                   [] OTHER -> Compose(kept)
        /\ UNCHANGED <<outbox, courier, images, wire>>

(* _generate_llm_reply: a text of n bubbles, and the revision of the AI    *)
(* configuration that made it.                                             *)
Generated(n) == [handler EXCEPT !.pc = "delay", !.bubbles = n, !.proof.ai = talk.ai]

(* The model's answer: a text of one or more bubbles; the same as a recent *)
(* one, which is asked for again once; a handoff; nothing usable, after    *)
(* the retries.                                                            *)
GenerateAnswer ==
    LET m   == handler.m
        row == ledger[m]
        silent == Close(m, Recorded(row, "no_reply"))
    IN  /\ handler.pc = "generate" /\ HandlerRuns
        /\ \/ /\ \E n \in {1, 2} : handler' = Generated(n)
              /\ UNCHANGED <<talk, ledger, spare>>
           \/ /\ ~handler.again /\ Granted
              /\ handler' = [handler EXCEPT !.again = TRUE]
              /\ talk' = [talk EXCEPT !.calls = @ + 1]
              /\ UNCHANGED <<ledger, spare>>
           \/ silent /\ talk' = [talk EXCEPT !.human = TRUE] /\ UNCHANGED spare
           \/ silent /\ UNCHANGED <<talk, spare>>
        /\ UNCHANGED <<outbox, courier, images, wire>>

(* _store_assistant_draft_provenance                                       *)
Proven(row) == [row EXCEPT !.proof = handler.proof]

(* After the delay everything is checked again; then the draft's           *)
(* provenance is stored.                                                   *)
StoreProvenance ==
    LET m   == handler.m
        row == ledger[m]
    IN  /\ handler.pc = "delay" /\ HandlerRuns
        /\ IF Suppressed \/ handler.proof.revision # talk.revision
           THEN Close(m, SuppressReply(row))
           ELSE Note(Proven(row)) /\ Step("draft")
        /\ UNCHANGED <<talk, outbox, courier, images, wire, spare>>

(* prepare_assistant_reply: a draft that exists already is the reply.      *)
Prepared(row) ==
    IF row.role = "none"
    THEN [row EXCEPT !.role = "pending", !.text = handler.text,
                     !.bubbles = handler.bubbles]
    ELSE row

PrepareReply ==
    LET row == Prepared(ledger[handler.m])
    IN  /\ handler.pc = "draft" /\ talk.up
        /\ Note(Proven(row))
        /\ handler' = [handler EXCEPT !.pc = "attempt", !.text = row.text,
                                      !.bubbles = row.bubbles]
        /\ UNCHANGED <<talk, outbox, courier, images, wire, spare>>

Withdraw == Close(handler.m, Cancelled(ledger[handler.m]))

(* send_text_reliably: one attempt for one bubble.  It begins when the     *)
(* slot and the connection are there, and not for a person's turn.         *)
BeginAttempt ==
    /\ handler.pc = "attempt" /\ HandlerRuns
    /\ SlotFree(courier, CourierAttempts)
    /\ IF talk.mode THEN Withdraw ELSE Step("verify") /\ UNCHANGED ledger
    /\ UNCHANGED <<talk, outbox, courier, images, wire, spare>>

(* verify_automatic_reply_before_attempt                                   *)
Allowed == ~Suppressed /\ handler.proof.revision = talk.revision

VerifyAttempt ==
    /\ handler.pc = "verify" /\ HandlerRuns
    /\ \E s \in {"owned", "unknown"} :
          /\ ScopeAnswer(s)
          /\ IF s = "owned" /\ Allowed
             THEN /\ Step(IF handler.proof.origin = "ai" THEN "ready" ELSE "send")
                  /\ UNCHANGED ledger
             ELSE Withdraw
    /\ UNCHANGED <<talk, outbox, courier, images, wire>>

(* _ensure_ai_reply_ready: the reply was made with the AI configuration    *)
(* that is in force; any failure suppresses it.                            *)
ReadyAnswer ==
    /\ handler.pc = "ready" /\ HandlerRuns
    /\ \/ /\ handler.proof.ai = talk.ai
          /\ Step("send") /\ UNCHANGED <<ledger, spare>>
       \/ handler.proof.ai # talk.ai /\ Withdraw /\ UNCHANGED spare
       \/ Slip /\ Withdraw
    /\ UNCHANGED <<talk, outbox, courier, images, wire>>

SendBubble ==
    /\ handler.pc = "send" /\ talk.up
    /\ wire' = [wire EXCEPT !.auto[handler.m] = @ \cup {<<handler.k, handler.text>>}]
    /\ talk' = [talk EXCEPT !.strays = IF talk.mode THEN @ + 1 ELSE @]
    /\ Step("ack")
    /\ UNCHANGED <<ledger, outbox, courier, images, spare>>

NextBubbleMutant == [handler EXCEPT !.pc = "send", !.k = @ + 1, !.attempt = 1]

(* Every bubble has attempts, and checks, of its own.                      *)
NextBubble == [handler EXCEPT !.pc = "attempt", !.k = @ + 1, !.attempt = 1]

(* The ack: the next bubble, or complete_assistant_reply after the last.   *)
(* A failed attempt is made once more; then the event goes back to the     *)
(* queue with its draft.                                                   *)
BubbleAnswer ==
    LET m   == handler.m
        row == ledger[m]
    IN  /\ handler.pc = "ack" /\ HandlerRuns
        /\ \/ /\ handler.k < handler.bubbles
              /\ handler' = NextBubble
              /\ UNCHANGED <<ledger, spare>>
           \/ /\ handler.k = handler.bubbles
              /\ Note(Completed(row))
              /\ Step("settle") /\ UNCHANGED spare
           \/ /\ Slip
              /\ handler' = IF handler.attempt = 1
                            THEN [handler EXCEPT !.pc = "attempt", !.attempt = 2]
                            ELSE Resting
              /\ UNCHANGED ledger
        /\ UNCHANGED <<talk, outbox, courier, images, wire>>

(* The provenance is deleted, the time of the reply noted, which may begin *)
(* a cooldown, and the conversation needs nobody any more.                 *)
Settle ==
    /\ handler.pc = "settle" /\ talk.up
    /\ Close(handler.m, [ledger[handler.m] EXCEPT !.proof = NoProof])
    /\ \E allowed \in {talk.allowed, FALSE} :
          talk' = [talk EXCEPT !.human = FALSE, !.allowed = allowed]
    /\ UNCHANGED <<outbox, courier, images, wire, spare>>

-------------------------------------------------------------------------------
(* Manual replies in the console.                                          *)

Parts(q) == Len(MediaOf[q]) + (IF q \in Texted THEN 1 ELSE 0)
Waiting == {"queued", "retry"}
Open == Waiting \cup {"sending", "manual_review"}

HasActiveReferenceMutant(i, rows) ==
    \E q \in DOMAIN rows : \E j \in DOMAIN MediaOf[q] :
        /\ rows[q].status \in {"queued", "sending"} /\ MediaOf[q][j] = i
        /\ j > rows[q].acked

(* An open reply still has to send the image.                              *)
HasActiveReference(i, rows) ==
    \E q \in DOMAIN rows : \E j \in DOMAIN MediaOf[q] :
        rows[q].status \in Open /\ MediaOf[q][j] = i /\ j > rows[q].acked

(* _manual_image_is_active: the console's own version of the same check.   *)
ManualImageIsActive(i) == HasActiveReference(i, outbox)

(* cleanup_stale_manual_images: the files without a reference that are old *)
(* enough are deleted, here all or none of them.                           *)
StaleImages ==
    {{}, {i \in DOMAIN images : images[i] = "there" /\ ~ManualImageIsActive(i)}}

(* save_manual_image removes stale files before it writes the new one.     *)
SaveImage(i, stale) ==
    images' = [j \in DOMAIN images |->
                  IF j = i THEN "there" ELSE IF j \in stale THEN "gone" ELSE images[j]]

Upload(i) ==
    /\ images[i] = "none"
    /\ \E stale \in StaleImages : SaveImage(i, stale)
    /\ UNCHANGED <<talk, ledger, handler, outbox, courier, wire, spare>>

(* manual_image_delete_status, on request.                                 *)
DeleteImage(i) ==
    /\ images[i] = "there" /\ ~ManualImageIsActive(i)
    /\ images' = [images EXCEPT ![i] = "gone"]
    /\ UNCHANGED <<talk, ledger, handler, outbox, courier, wire, spare>>

(* enqueue_manual_reply: only during a takeover and with its images there. *)
(* A request id that is known answers with the reply it stands for.        *)
Enqueue(q) ==
    /\ outbox[q].status = "none" /\ talk.mode
    /\ \A j \in DOMAIN MediaOf[q] : images[MediaOf[q][j]] = "there"
    /\ outbox' = [outbox EXCEPT ![q].status = "queued"]
    /\ UNCHANGED <<talk, ledger, handler, courier, images, wire, spare>>

-------------------------------------------------------------------------------
(* The courier.                                                            *)

(* claim_manual_replies first takes back rows whose lease ran out and      *)
(* gives up those that have been tried often enough.                       *)
Swept(q) ==
    LET row == outbox[q]
        freed == [row EXCEPT !.lease = "none", !.mine = FALSE]
    IN  CASE row.status = "sending" /\ row.lease = "expired" ->
                 [freed EXCEPT !.status = IF row.tries >= MaxTries THEN "manual_review"
                                                                   ELSE "retry"]
          [] row.status \in Waiting /\ row.tries >= MaxTries ->
                 [freed EXCEPT !.status = "manual_review"]
          [] OTHER -> row

(* cleanup_manual_reply_image for each of them, given the outbox rows.     *)
Cleaned(S, rows) ==
    [i \in DOMAIN images |->
        IF i \in S /\ images[i] = "there" /\ ~HasActiveReference(i, rows)
        THEN "gone" ELSE images[i]]

Sent(q, rows) == {MediaOf[q][j] : j \in {n \in DOMAIN MediaOf[q] : n <= rows[q].acked}}

(* _cleanup_completed_manual_media_if_due                                  *)
CleanupCompleted ==
    LET S == UNION {Sent(q, outbox) : q \in {r \in DOMAIN outbox :
                                                 outbox[r].status = "acknowledged"}}
    IN  /\ courier.pc = "idle" /\ CourierRuns
        /\ images' = Cleaned(S, outbox) /\ images' # images
        /\ UNCHANGED <<talk, ledger, handler, outbox, courier, wire, spare>>

(* process_manual_outbox_once, to its first await: one reply is claimed    *)
(* and the images it has sent already are cleaned up.                      *)
Claim ==
    LET swept == [q \in DOMAIN outbox |-> Swept(q)]
        ready == {q \in DOMAIN outbox : swept[q].status \in Waiting}
    IN  /\ courier.pc = "idle" /\ CourierRuns
        /\ \/ /\ \E q \in ready :
                    /\ outbox' = [swept EXCEPT ![q].status = "sending", ![q].tries = @ + 1,
                                               ![q].lease = "live", ![q].mine = TRUE]
                    /\ courier' = [Parked EXCEPT !.pc = "wait", !.q = q,
                                                 !.part = swept[q].acked + 1]
                    /\ images' = Cleaned(Sent(q, outbox), outbox')
           \/ /\ swept # outbox /\ outbox' = swept
              /\ UNCHANGED <<courier, images>>
        /\ UNCHANGED <<talk, ledger, handler, wire, spare>>

Owned(q) == outbox[q].status = "sending" /\ outbox[q].mine /\ outbox[q].lease = "live"

FailedMutant(q, terminal) ==
    [outbox EXCEPT ![q] = [NotQueued EXCEPT !.tries = outbox[q].tries,
         !.status = IF terminal \/ outbox[q].tries >= MaxTries THEN "manual_review" ELSE "retry"]]

(* fail_manual_reply: back to the queue, or to a person.                   *)
Failed(q, terminal) ==
    [outbox EXCEPT ![q].lease = "none", ![q].mine = FALSE,
         ![q].status = IF terminal \/ outbox[q].tries >= MaxTries THEN "manual_review" ELSE "retry"]

Fail(terminal) ==
    /\ outbox' = IF Owned(courier.q) THEN Failed(courier.q, terminal) ELSE outbox
    /\ courier' = Parked

(* A failed attempt for a part is made once more.                          *)
AttemptLost ==
    IF courier.attempt = 1
    THEN courier' = [courier EXCEPT !.pc = "wait", !.attempt = 2] /\ UNCHANGED outbox
    ELSE Fail(FALSE)

(* verify_takeover, when the slot and the connection are there: renew the  *)
(* lease and look at the mode.  Without the lease the connection is closed *)
(* and the second attempt gives the reply up.                              *)
VerifyTakeover ==
    LET q == courier.q
    IN  /\ courier.pc = "wait" /\ CourierRuns
        /\ SlotFree(handler, HandlerAttempts)
        /\ CASE ~Owned(q) ->
                    /\ courier' = IF courier.attempt = 1
                                  THEN [courier EXCEPT !.attempt = 2] ELSE Parked
                    /\ UNCHANGED outbox
             [] Owned(q) /\ ~talk.mode -> Fail(TRUE)
             [] OTHER ->
                    /\ courier' = [courier EXCEPT !.pc =
                          IF courier.part <= Len(MediaOf[q]) THEN "upload" ELSE "send"]
                    /\ UNCHANGED outbox
        /\ UNCHANGED <<talk, ledger, handler, images, wire, spare>>

(* _outgoing_image_content *)
UploadAnswer ==
    LET there == images[MediaOf[courier.q][courier.part]] = "there"
    IN  /\ courier.pc = "upload" /\ CourierRuns
        /\ \/ /\ there /\ courier' = [courier EXCEPT !.pc = "send"]
              /\ UNCHANGED <<outbox, spare>>
           \/ ~there /\ AttemptLost /\ UNCHANGED spare
           \/ Slip /\ AttemptLost
        /\ UNCHANGED <<talk, ledger, handler, images, wire>>

SendPart ==
    /\ courier.pc = "send" /\ talk.up
    /\ wire' = [wire EXCEPT !.manual[courier.q] = @ \cup {courier.part}]
    /\ talk' = [talk EXCEPT !.strays = IF talk.mode THEN @ ELSE @ + 1]
    /\ courier' = [courier EXCEPT !.pc = "ack"]
    /\ UNCHANGED <<ledger, handler, outbox, images, spare>>

(* acknowledge_manual_reply_part: with the lease, the part is recorded and *)
(* the last one completes the reply; images that are not needed any more   *)
(* are cleaned up.                                                         *)
PartAnswer ==
    LET q    == courier.q
        last == courier.part = Parts(q)
        rows == [outbox EXCEPT ![q] =
                    IF last THEN [@ EXCEPT !.acked = courier.part, !.status = "acknowledged",
                                           !.lease = "none", !.mine = FALSE]
                            ELSE [@ EXCEPT !.acked = courier.part]]
    IN  /\ courier.pc = "ack" /\ CourierRuns
        /\ \/ /\ Owned(q)
              /\ outbox' = rows
              /\ images' = Cleaned(Sent(q, rows), rows)
              /\ talk' = [talk EXCEPT !.human = IF last THEN FALSE ELSE @]
              /\ courier' = IF last THEN Parked
                            ELSE [courier EXCEPT !.pc = "wait", !.part = @ + 1, !.attempt = 1]
              /\ UNCHANGED spare
           \/ /\ ~Owned(q) /\ courier' = Parked
              /\ UNCHANGED <<talk, outbox, images, spare>>
           \/ Slip /\ AttemptLost /\ UNCHANGED <<talk, images>>
        /\ UNCHANGED <<ledger, handler, wire>>

(* _manual_reply_lease_heartbeat cancels a send whose lease is lost.       *)
HeartbeatLost ==
    /\ courier.pc \in {"wait", "upload", "ack"} /\ CourierRuns
    /\ ~Owned(courier.q)
    /\ courier' = Parked
    /\ UNCHANGED <<talk, ledger, handler, outbox, images, wire, spare>>

(* A lease runs out: of a stopped worker, or of one that stalled.          *)
LeaseExpires(q) ==
    /\ outbox[q].lease = "live"
    /\ IF outbox[q].mine THEN Slip ELSE UNCHANGED spare
    /\ outbox' = [outbox EXCEPT ![q].lease = "expired"]
    /\ UNCHANGED <<talk, ledger, handler, courier, images, wire>>

-------------------------------------------------------------------------------
(* The worker stops and starts.  On a start only drafts keep provenance.   *)

WorkerStops ==
    /\ talk.up /\ Slip
    /\ talk' = [talk EXCEPT !.up = FALSE]
    /\ handler' = Resting
    /\ courier' = Parked
    /\ outbox' = [q \in DOMAIN outbox |-> [outbox[q] EXCEPT !.mine = FALSE]]
    /\ UNCHANGED <<ledger, images, wire>>

WorkerStarts ==
    /\ ~talk.up
    /\ talk' = [talk EXCEPT !.up = TRUE]
    /\ ledger' = [m \in Messages |->
          IF ledger[m].role = "pending" THEN ledger[m] ELSE [ledger[m] EXCEPT !.proof = NoProof]]
    /\ UNCHANGED <<handler, outbox, courier, images, wire, spare>>

-------------------------------------------------------------------------------
(* The messages and the manual replies are the parameters: none when the   *)
(* worker's other tasks are looked at.  Pacing only matters when both are  *)
(* there; a foreign conversation only hinders the handler.                 *)
TalkInit(ms, qs) ==
    /\ \E paced \in BOOLEAN, scope \in {"owned", "foreign"} :
          /\ ms = {} \/ qs = {} => paced
          /\ ms = {} \/ qs # {} => scope = "owned"
          /\ talk = [mode |-> FALSE, allowed |-> TRUE, revision |-> 0, ai |-> 0,
                     calls |-> 0, human |-> FALSE, strays |-> 0, up |-> TRUE,
                     paced |-> paced, scope |-> scope]
    /\ ledger = [m \in ms |-> Unanswered]
    /\ handler = Resting
    /\ outbox = [q \in qs |-> NotQueued]
    /\ courier = Parked
    /\ images = [i \in UNION {Range(MediaOf[q]) : q \in qs} |-> "none"]
    /\ wire = [auto |-> [m \in ms |-> {}], manual |-> [q \in qs |-> {}]]
    /\ spare = [switches |-> MaxSwitches, slips |-> MaxSlips]

HandlerStep ==
    \/ \E m \in Messages : Receive(m)
    \/ BuyerChat \/ GenerateAnswer \/ StoreProvenance \/ PrepareReply
    \/ BeginAttempt \/ VerifyAttempt \/ ReadyAnswer \/ SendBubble
    \/ BubbleAnswer \/ Settle

CourierStep ==
    \/ CleanupCompleted \/ Claim \/ VerifyTakeover \/ UploadAnswer
    \/ SendPart \/ PartAnswer \/ HeartbeatLost

ConsoleStep ==
    \/ SetTakeover \/ SettingsChange
    \/ \E i \in DOMAIN images : Upload(i) \/ DeleteImage(i)
    \/ \E q \in DOMAIN outbox : Enqueue(q)

TalkNext ==
    \/ HandlerStep \/ CourierStep \/ ConsoleStep
    \/ SellerToggles \/ ModeExpires
    \/ \E q \in DOMAIN outbox : LeaseExpires(q)
    \/ WorkerStops \/ WorkerStarts

-------------------------------------------------------------------------------
(***************************************************************************)
(* The outcome stored for a buyer message tells what the buyer got, over   *)
(* crashes, lost acks, retries and edited rules: bubbles of one text only, *)
(* the stored one; all of them when it says "assistant"; none when it says *)
(* "no_reply" or there is no draft.  A cancelled reply may have left in    *)
(* part.                                                                   *)
(***************************************************************************)
LedgerIsTrue ==
    \A m \in Messages :
        LET row  == ledger[m]
            full == {<<k, row.text>> : k \in 1..row.bubbles}
        IN  /\ wire.auto[m] \subseteq full
            /\ row.role = "assistant" => wire.auto[m] = full
            /\ row.role \in {"none", "no_reply"} => wire.auto[m] = {}

(***************************************************************************)
(* After a change of hands at most one message of the other side still     *)
(* leaves: the one whose last check was over.  No retry, later bubble or   *)
(* later part follows it.                                                  *)
(***************************************************************************)
HandsAreKept == talk.strays <= 1

(***************************************************************************)
(* A manual reply reaches the buyer part by part: no part leaves before    *)
(* the one in front of it is acknowledged, what is recorded did leave, and *)
(* a retry sends none of the acknowledged parts again.                     *)
(***************************************************************************)
PartsInOrder ==
    /\ \A q \in DOMAIN outbox :
          /\ wire.manual[q] \subseteq 1..outbox[q].acked + 1
          /\ 1..outbox[q].acked \subseteq wire.manual[q]
          /\ outbox[q].status = "acknowledged" <=> outbox[q].acked = Parts(q)
    /\ courier.pc # "idle" => courier.part > outbox[courier.q].acked

(***************************************************************************)
(* An image a waiting reply still has to send is on disk, although several *)
(* replies may use it and both the console and the worker delete images.   *)
(***************************************************************************)
ImagesAreKept ==
    \A q \in DOMAIN outbox : outbox[q].status \in Open =>
        \A j \in DOMAIN MediaOf[q] :
            j > outbox[q].acked => images[MediaOf[q][j]] = "there"
===============================================================================
