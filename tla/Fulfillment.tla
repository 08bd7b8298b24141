----------------------------- MODULE Fulfillment -----------------------------
(***************************************************************************)
(* Automatic delivery of one shop worker (worker/main.py, class            *)
(* XianyuLive) on top of DeliveryStore.  Three kinds of asyncio tasks act  *)
(* on the orders: one inbound worker per conversation (handle_paid_order   *)
(* and the trade-closed notice), the single pending-order scanner, and the *)
(* retry tasks, which nothing keeps from overlapping.  All of them end in  *)
(* _fulfill_order.                                                         *)
(*                                                                         *)
(* The event loop is single-threaded: between two awaits nothing else      *)
(* runs.  A pc in Sync is a point inside such a block, where only a crash  *)
(* can intervene; every other pc is an await.  Each step commits at most   *)
(* one transaction of the store.                                           *)
(***************************************************************************)
EXTENDS DeliveryStore

CONSTANTS
    PlatformOrders,  \* the orders that exist on the platform
    Notice,          \* the key a payment notice gets while its order is unknown
    Quantity,        \* the units each platform order was paid for
    LegacyOrders,    \* orders an earlier release may have left blocked by a takeover
    Retriers,        \* retry_pending_deliveries tasks that may coexist
    Scanners,        \* the pending-order scan loop: at most one
    Configs,         \* product mappings: [delivery, payload] records
    FirstConfig,     \* the mapping of each order at the start
    FirstManifest,   \* redeem_codes.json at the start
    Invalid,         \* a redeem_codes.json that does not parse or validate
    NewManifests,    \* what the operator may replace redeem_codes.json by
    MaxCrashes, MaxEdits, MaxFaults, MaxCloses  \* bounds of the environment

ASSUME FulfillmentAssumption ==
    /\ PlatformOrders \subseteq Orders
    /\ LegacyOrders \subseteq PlatformOrders
    /\ Notice \in [PlatformOrders -> Orders \ PlatformOrders]
    /\ \A o \in PlatformOrders : ChatOf[Notice[o]] = ChatOf[o]
    /\ Quantity \in [PlatformOrders -> 1 .. MaxQuantity]
    /\ Configs \subseteq [delivery : {"none"} \cup Deliveries,
                          payload : Payloads \cup {NoPayload}]
    /\ FirstConfig \in [PlatformOrders -> Configs]
    /\ FirstManifest \in Manifests
    /\ NewManifests \subseteq Manifests \cup {Invalid}
    /\ Invalid \notin Manifests
    /\ \A s, t \in Scanners : s = t

VARIABLES
    phase,     \* worker process: "down", "opened", "checked", "up"
    task,      \* the tasks' program counters and locals
    files,     \* redeem_codes.json and the product mapping on disk
    cache,     \* what _refresh_products/_refresh_redeem_inventory last loaded
    platform,  \* the platform's state of each order
    bound,     \* chats with a usable buyer/item binding
    posted,    \* history: pan and material payloads put on the wire
    budget     \* remaining environment events

workerVars == <<phase, task, cache, bound, posted>>
envVars == <<files, platform, budget>>
vars == <<storeVars, workerVars, envVars>>

Tasks == Chats \cup Scanners \cup Retriers

NoConfig == [delivery |-> "none", payload |-> NoPayload]

Sync == {"close", "notice", "review", "record", "prove", "prepare", "claim", "send",
         "quarantine", "revive", "next", "sweep"}

\* Between acquiring and releasing the per-order lock of _fulfill_order.
Locked == {"prepare", "claim", "verify", "send", "ack", "failed", "unverified", "ship"}

\* Inside the try block that owns the claimed order.
Sending == {"verify", "send", "ack", "failed", "unverified"}

Pcs == {"idle", "head", "detail", "listing", "sdetail", "sdetail_unbound",
        "conversation", "lock", "consign"} \cup Sync \cup Locked

\* file is a history: redeem_codes.json when the platform's last answer to
\* _reverify_order arrived.
Idle == [pc |-> "idle", o |-> NoOrder, config |-> NoConfig, attempt |-> 1,
         known |-> "none", seen |-> "none", reject |-> FALSE, todo |-> {}, loop |-> "none",
         file |-> Invalid]

Runnable(t) == phase = "up" /\ \A u \in Tasks \ {t} : task[u].pc \notin Sync

Goto(t, pc) == task' = [task EXCEPT ![t].pc = pc]

\* The task goes on with its loop: the scanner's sweep, a retry task's lists.
Resumed(t) ==
    LET row == task[t]
    IN  IF row.loop = "none" \/ (row.loop = "sweep" /\ row.todo = {})
        THEN Idle
        ELSE [Idle EXCEPT !.pc = IF row.loop = "sweep" THEN "sweep" ELSE "next",
                          !.loop = row.loop, !.todo = row.todo]

\* handle_paid_order and the scanner end in _fulfill_order or in a review; the
\* answers they acted on are not needed any more.
Fulfil(t, reject) ==
    task' = [task EXCEPT ![t].pc = IF reject THEN "review" ELSE "lock",
                         ![t].known = "none", ![t].seen = "none", ![t].reject = FALSE]

Resume(t) == task' = [task EXCEPT ![t] = Resumed(t)]

\* An exception leaves the task's current order: it ends the scanner's sweep and
\* the inbound event's attempt, and is swallowed by a retry task's loop.
Abort(t) == task' = [task EXCEPT ![t] = IF t \in Scanners THEN Idle ELSE Resumed(t)]

-----------------------------------------------------------------------------
(* Runtime configuration.                                                  *)

\* Some enabled product is delivered by card codes.
Needed == \E o \in PlatformOrders : files.config[o].delivery = "redeem"

Refresh ==
    /\ cache' = [config |-> files.config, needed |-> Needed, synced |-> TRUE,
                 usable |-> IF cache.synced /\ cache.needed = Needed THEN cache.usable
                            ELSE Needed /\ files.manifest # Invalid]
    /\ IF ~(cache.synced /\ cache.needed = Needed) /\ Needed /\ files.manifest # Invalid
       THEN ImportInventory(files.manifest)
       ELSE UNCHANGED storeVars

classify_item(o) == cache.config[o]

\* The configuration captured by the caller is compared with the current one; a
\* pan link lives in another file and is not part of the comparison.
SameConfig(a, b) ==
    a.delivery = b.delivery /\ (a.delivery = "material" => a.payload = b.payload)

-----------------------------------------------------------------------------
(* Start and crash of the process.                                         *)

\* Mutant: interrupted sends start over as if nothing had been sent.
OpenStoreMutant ==
    /\ phase = "down"
    /\ orders' = [o \in Orders |-> IF orders[o].status = "sending"
                                   THEN [orders[o] EXCEPT !.status = "verified"]
                                   ELSE orders[o]]
    /\ phase' = "opened"
    /\ UNCHANGED <<inventory, reviews, sent, task, cache, bound, posted, envVars>>

OpenStore ==
    /\ phase = "down"
    /\ InitDb
    /\ phase' = "opened"
    /\ UNCHANGED <<task, cache, bound, posted, envVars>>

QuarantineAtStart ==
    /\ phase = "opened"
    /\ QuarantineAutomaticOrders
    /\ phase' = "checked"
    /\ UNCHANGED <<task, cache, bound, posted, envVars>>

RefreshAtStart ==
    /\ phase = "checked"
    /\ Refresh
    /\ phase' = "up"
    /\ UNCHANGED <<task, bound, posted, envVars>>

Crash ==
    /\ phase # "down"
    /\ budget.crash > 0
    /\ budget' = [budget EXCEPT !.crash = @ - 1]
    /\ phase' = "down"
    /\ task' = [t \in Tasks |-> Idle]
    /\ cache' = [cache EXCEPT !.synced = FALSE]
    /\ UNCHANGED <<storeVars, bound, posted, files, platform>>

-----------------------------------------------------------------------------
(* The platform answers, or the call fails.                                *)

Fault == budget.fault > 0 /\ budget' = [budget EXCEPT !.fault = @ - 1]

PlatformStatus(o) == IF platform[o] = "paid" THEN "2" ELSE "other"

-----------------------------------------------------------------------------
(* The inbound worker of a conversation.                                   *)

\* Any inbound message refreshes the configuration first (handle_paid_order).
OtherMessage(t) ==
    /\ t \in Chats
    /\ task[t].pc = "idle"
    /\ Runnable(t)
    /\ Refresh
    /\ \E pc \in {"idle", "close"} : Goto(t, pc)
    /\ UNCHANGED <<phase, bound, posted, envVars>>

\* The trade-closed notice cancels every open order of the conversation.
TradeClosed(t) ==
    /\ task[t].pc = "close"
    /\ CancelAwaitingForChat(t)
    /\ Resume(t)
    /\ UNCHANGED <<phase, cache, bound, posted, envVars>>

HandlePaidOrder(t, o) ==
    /\ t = ChatOf[o]
    /\ task[t].pc = "idle"
    /\ Runnable(t)
    /\ Refresh
    /\ task' = [task EXCEPT ![t] =
          IF t \notin bound \/ files.config[o].delivery = "none"
          THEN [Idle EXCEPT !.pc = "notice", !.o = Notice[o]]
          ELSE [Idle EXCEPT !.pc = "head", !.o = o, !.config = files.config[o]]]
    /\ UNCHANGED <<phase, bound, posted, envVars>>

\* _record_unverified_manual: two transactions.
RecordNotice(t) ==
    /\ task[t].pc = "notice"
    /\ \E late \in BOOLEAN : RecordPaymentEvent(task[t].o, late)
    /\ Goto(t, "review")
    /\ UNCHANGED <<phase, cache, bound, posted, envVars>>

ReviewOrder(t) ==
    /\ task[t].pc = "review"
    /\ MarkOrderManualReview(task[t].o, "other")
    /\ Resume(t)
    /\ UNCHANGED <<phase, cache, bound, posted, envVars>>

\* The order behind the conversation is known; its row is read before the next await.
HeadAnswer(t) ==
    LET o == task[t].o
    IN  /\ task[t].pc = "head"
        /\ Runnable(t)
        /\ \/ /\ orders[o].status \in Terminal
              /\ Resume(t)
              /\ UNCHANGED budget
           \/ /\ orders[o].status \notin Terminal
              /\ task' = [task EXCEPT ![t].pc = "detail", ![t].known = orders[o].proof]
              /\ UNCHANGED budget
           \/ /\ orders[o].status \notin Terminal   \* item or seller does not match
              /\ Fault
              /\ Goto(t, "notice")
           \/ /\ Fault                               \* the request fails
              /\ Abort(t)
        /\ UNCHANGED <<storeVars, phase, cache, bound, posted, files, platform>>

\* _verification_rejection, then either record the proof or compare with the
\* row read before the await.
DetailAnswer(t) ==
    LET o    == task[t].o
        seen == PlatformStatus(o)
        Verdict(reject) ==
            IF task[t].known = "none"
            THEN task' = [task EXCEPT ![t].pc = "record", ![t].seen = seen, ![t].reject = reject]
            ELSE Fulfil(t, reject)
        rejected ==
            \/ seen # "2"
            \/ task[t].known \notin {"none", seen}
            \/ task[t].config.delivery = "material" /\ Quantity[o] # 1
    IN  /\ task[t].pc = "detail"
        /\ Runnable(t)
        /\ \/ Verdict(rejected) /\ UNCHANGED budget
           \/ Fault /\ Verdict(TRUE)      \* buyer, item or seller does not match
           \/ Fault /\ Abort(t)           \* the request fails
        /\ UNCHANGED <<storeVars, phase, cache, bound, posted, files, platform>>

\* record_verified_payment_event: first transaction.  The scanner stamps the row
\* with the present time, so only a notice can be late.
RecordOrder(t) ==
    /\ task[t].pc = "record"
    /\ \E late \in BOOLEAN :
          /\ late => t \notin Scanners
          /\ RecordPaymentEvent(task[t].o, late)
    /\ Goto(t, "prove")
    /\ UNCHANGED <<phase, cache, bound, posted, envVars>>

\* Second transaction; a mismatch raises, and skips the scanner's order.
RecordProof(t) ==
    LET o == task[t].o
    IN  /\ task[t].pc = "prove"
        /\ IF VerifiedMismatch(o, task[t].seen, Quantity[o])
           THEN Resume(t) /\ UNCHANGED storeVars
           ELSE /\ RecordVerified(o, task[t].seen, Quantity[o])
                /\ Fulfil(t, task[t].reject)
        /\ UNCHANGED <<phase, cache, bound, posted, envVars>>

-----------------------------------------------------------------------------
(* The pending-order scanner.                                              *)

ScanPendingOrders(t) ==
    /\ t \in Scanners
    /\ task[t].pc = "idle"
    /\ Runnable(t)
    /\ Refresh
    /\ task' = [task EXCEPT ![t] =
          IF \A o \in PlatformOrders : files.config[o].delivery = "none"
          THEN Idle ELSE [Idle EXCEPT !.pc = "listing", !.loop = "sweep"]]
    /\ UNCHANGED <<phase, bound, posted, envVars>>

ListingAnswer(t) ==
    LET paid == {o \in PlatformOrders : platform[o] = "paid"}
    IN  /\ task[t].pc = "listing"
        /\ Runnable(t)
        /\ \/ /\ task' = [task EXCEPT ![t] =
                    IF paid = {} THEN Idle ELSE [@ EXCEPT !.pc = "sweep", !.todo = paid]]
              /\ UNCHANGED budget
           \/ Fault /\ Abort(t)
        /\ UNCHANGED <<storeVars, phase, cache, bound, posted, files, platform>>

\* _reconcile_pending_order up to its first await.
ReconcilePendingOrder(t) ==
    /\ task[t].pc = "sweep"
    /\ \E o \in task[t].todo :
          LET rest == task[t].todo \ {o}
          IN  task' = [task EXCEPT ![t] =
                 IF classify_item(o).delivery = "none" \/ orders[o].status \in Terminal
                 THEN IF rest = {} THEN Idle ELSE [@ EXCEPT !.todo = rest]
                 ELSE [@ EXCEPT !.pc = IF ChatOf[o] \in bound THEN "sdetail"
                                                              ELSE "sdetail_unbound",
                                !.o = o, !.config = classify_item(o), !.todo = rest]]
    /\ UNCHANGED <<storeVars, phase, cache, bound, posted, envVars>>

ScanDetailAnswer(t) ==
    /\ task[t].pc \in {"sdetail", "sdetail_unbound"}
    /\ Runnable(t)
    /\ \/ /\ platform[task[t].o] = "paid"
          /\ task' = [task EXCEPT ![t].seen = "2",
                         ![t].pc = IF @ = "sdetail" THEN "record" ELSE "conversation"]
          /\ UNCHANGED budget
       \/ /\ platform[task[t].o] # "paid"
          /\ Resume(t)
          /\ UNCHANGED budget
       \/ Fault /\ Resume(t)
    /\ UNCHANGED <<storeVars, phase, cache, bound, posted, files, platform>>

\* _create_order_conversation and record_chat_binding.
ConversationAnswer(t) ==
    /\ task[t].pc = "conversation"
    /\ Runnable(t)
    /\ \/ /\ bound' = bound \cup {ChatOf[task[t].o]}
          /\ Goto(t, "record")
          /\ UNCHANGED budget
       \/ Fault /\ Resume(t) /\ UNCHANGED bound
    /\ UNCHANGED <<storeVars, phase, cache, posted, files, platform>>

\* Mutant: the cancellation is not caught.
CancelScannerMutant(t) ==
    /\ t \in Scanners
    /\ Runnable(t)
    /\ task[t].pc \notin Sync \cup {"idle"}
    /\ task' = [task EXCEPT ![t] = Idle]
    /\ Fault
    /\ UNCHANGED <<storeVars, phase, cache, bound, posted, files, platform>>

\* A reconnect cancels the scanner at its await.  Inside the try block the
\* claimed order becomes retryable.
CancelScanner(t) ==
    /\ t \in Scanners
    /\ Runnable(t)
    /\ task[t].pc \notin Sync \cup {"idle"}
    /\ IF task[t].pc \in Sending THEN MarkOrderRetry(task[t].o) ELSE UNCHANGED storeVars
    /\ task' = [task EXCEPT ![t] = Idle]
    /\ Fault
    /\ UNCHANGED <<phase, cache, bound, posted, files, platform>>

-----------------------------------------------------------------------------
(* retry_pending_deliveries, one task per reconnect and per interval.      *)

RetryPendingDeliveries(t) ==
    /\ t \in Retriers
    /\ task[t].pc = "idle"
    /\ Runnable(t)
    /\ Refresh
    /\ Goto(t, "quarantine")
    /\ UNCHANGED <<phase, bound, posted, envVars>>

RetryQuarantine(t) ==
    /\ task[t].pc = "quarantine"
    /\ QuarantineAutomaticOrders
    /\ Goto(t, "revive")
    /\ UNCHANGED <<phase, cache, bound, posted, envVars>>

RetryRevive(t) ==
    /\ task[t].pc = "revive"
    /\ ReviveTakeoverBlockedOrders
    /\ task' = [task EXCEPT ![t].pc = "next", ![t].loop = "revived",
                            ![t].todo = TakeoverBlocked]
    /\ UNCHANGED <<phase, cache, bound, posted, envVars>>

\* The loops run over snapshots; an order whose product is gone is reviewed.
NextInLoop(t) ==
    LET row == task[t]
        Gone(o) == \/ classify_item(o).delivery = "none"
                   \/ row.loop = "revived" /\ ChatOf[o] \notin bound
                   \/ row.loop = "retryable" /\ classify_item(o).delivery # orders[o].delivery
    IN  /\ row.pc = "next"
        /\ row.todo # {}
        /\ \E o \in row.todo :
             IF row.loop = "shipping"
             THEN /\ task' = [task EXCEPT ![t].pc = "consign", ![t].o = o,
                                          ![t].todo = @ \ {o}]
                  /\ UNCHANGED storeVars
             ELSE IF Gone(o)
             THEN /\ MarkOrderManualReview(o, "other")
                  /\ task' = [task EXCEPT ![t].todo = @ \ {o}]
             ELSE /\ task' = [task EXCEPT ![t].pc = "lock", ![t].o = o,
                                 ![t].config = classify_item(o), ![t].todo = @ \ {o}]
                  /\ UNCHANGED storeVars
        /\ UNCHANGED <<phase, cache, bound, posted, envVars>>

EndOfLoop(t) ==
    /\ task[t].pc = "next"
    /\ task[t].todo = {}
    /\ task' = [task EXCEPT ![t] =
          CASE @.loop = "revived"   -> [@ EXCEPT !.loop = "retryable", !.todo = RetryableOrders]
            [] @.loop = "retryable" -> [@ EXCEPT !.loop = "shipping",
                                                 !.todo = PendingPlatformShipments]
            [] @.loop = "shipping"  -> Idle]
    /\ UNCHANGED <<storeVars, phase, cache, bound, posted, envVars>>

-----------------------------------------------------------------------------
(* _fulfill_order.                                                         *)

\* async with the order lock: read the row, then refresh.
AcquireOrder(t) ==
    LET o == task[t].o
    IN  /\ task[t].pc = "lock"
        /\ Runnable(t)
        /\ \A u \in Tasks : task[u].pc \in Locked => task[u].o # o
        /\ IF orders[o].status \in Terminal
           THEN Resume(t) /\ UNCHANGED <<storeVars, cache>>
           ELSE Refresh /\ Goto(t, "prepare")
        /\ UNCHANGED <<phase, bound, posted, envVars>>

\* A saved payload wins over the configured one; a card delivery carries none.
PayloadFor(o) ==
    IF classify_item(o).delivery = "redeem" THEN NoPayload
    ELSE IF orders[o].payload # NoPayload   THEN orders[o].payload
    ELSE classify_item(o).payload

Undeliverable(t) ==
    LET o == task[t].o
        d == task[t].config.delivery
    IN  \/ orders[o].delivery = "none" /\ t \notin Scanners /\ ChatOf[o] \notin bound
        \/ ~SameConfig(classify_item(o), task[t].config)
        \/ d = "redeem" /\ ~cache.usable
        \/ d = "material" /\ orders[o].quantity # 1
        \/ d \in {"pan", "material"} /\ PayloadFor(o) = NoPayload

PrepareStep(t) ==
    LET o == task[t].o
        d == task[t].config.delivery
    IN  /\ task[t].pc = "prepare"
        /\ IF Undeliverable(t)
           THEN MarkOrderManualReview(o, "other") /\ Resume(t)
           ELSE IF PrepareRefused(o, d, PayloadFor(o))
           THEN UNCHANGED storeVars /\ Abort(t)
           ELSE /\ PrepareOrder(o, d, PayloadFor(o))
                /\ IF orders'[o].status \in Terminal THEN Resume(t) ELSE Goto(t, "claim")
        /\ UNCHANGED <<phase, cache, bound, posted, envVars>>

\* claim_order_for_send, then the text is composed outside the try block: a row
\* whose codes do not match its quantity raises and stays in sending.
ClaimStep(t) ==
    LET o == task[t].o
    IN  /\ task[t].pc = "claim"
        /\ IF orders[o].status \notin {"reserved", "retry"}
           THEN UNCHANGED storeVars /\ Resume(t)
           ELSE /\ ClaimOrderForSend(o)
                /\ IF /\ orders[o].delivery = "redeem"
                      /\ Cardinality(orders[o].ids) # orders[o].quantity
                   THEN Abort(t) ELSE Goto(t, "verify")
        /\ UNCHANGED <<phase, cache, bound, posted, envVars>>

\* send_text_reliably tries twice and reports the error of the last attempt.
AttemptFailed(t, rejected) ==
    task' = [task EXCEPT
        ![t].attempt = 2,
        ![t].pc = IF task[t].attempt = 1 THEN "verify"
                  ELSE IF rejected THEN "unverified" ELSE "failed"]

ToSend(t) == task' = [task EXCEPT ![t].pc = "send", ![t].file = files.manifest]

\* Mutant: the files were looked at before the platform was asked, not after.
VerifyAnswerMutant(t) ==
    /\ task[t].pc = "verify"
    /\ Runnable(t)
    /\ \/ /\ platform[task[t].o] = "paid"
          /\ ToSend(t)
          /\ UNCHANGED budget
       \/ /\ platform[task[t].o] # "paid"
          /\ AttemptFailed(t, TRUE)
          /\ UNCHANGED budget
       \/ /\ Fault
          /\ \E rejected \in BOOLEAN : AttemptFailed(t, rejected)
    /\ UNCHANGED <<storeVars, phase, cache, bound, posted, files, platform>>

\* One attempt: the slot and the connection are there and _reverify_order got the
\* platform's answer; the configuration is refreshed before anything else runs.
VerifyAnswer(t) ==
    /\ task[t].pc = "verify"
    /\ Runnable(t)
    /\ \/ /\ platform[task[t].o] = "paid"
          /\ Refresh
          /\ ToSend(t)
          /\ UNCHANGED budget
       \/ /\ platform[task[t].o] # "paid"
          /\ AttemptFailed(t, TRUE)
          /\ UNCHANGED <<storeVars, cache, budget>>
       \/ /\ Fault
          /\ \E rejected \in BOOLEAN : AttemptFailed(t, rejected)
          /\ UNCHANGED <<storeVars, cache>>
    /\ UNCHANGED <<phase, bound, posted, files, platform>>

\* Local recheck of the row the sender claimed: only card codes look at the row.
StillAuthorized(o) ==
    LET latest == classify_item(o)
        row    == orders[o]
    IN  /\ latest.delivery = row.delivery
        /\ row.delivery = "pan" => latest.payload = row.payload
        /\ row.delivery = "redeem" => cache.usable /\ OrderInventoryIsSendable(o)

\* Mutant: the text is composed again from the current configuration.
PayloadTextMutant(o) == classify_item(o).payload

\* _delivery_text of a pan or material order: the payload saved with the claim.
PayloadText(o) == orders[o].payload

SendStep(t) ==
    LET o == task[t].o
    IN  /\ task[t].pc = "send"
        /\ \/ /\ ~StillAuthorized(o)
              /\ AttemptFailed(t, TRUE)
              /\ UNCHANGED <<storeVars, posted>>
           \/ /\ StillAuthorized(o)
              /\ orders[o].delivery = "redeem"
              /\ SendCodes(o)
              /\ Goto(t, "ack")
              /\ UNCHANGED posted
           \/ /\ StillAuthorized(o)
              /\ orders[o].delivery # "redeem"
              /\ posted' = [posted EXCEPT ![o] = @ \cup {PayloadText(o)}]
              /\ Goto(t, "ack")
              /\ UNCHANGED storeVars
        /\ UNCHANGED <<phase, cache, bound, envVars>>

\* The platform's ack resumes the sender, which settles the order; a timeout, a
\* rejection or a disconnect fails the attempt.
AckAnswer(t) ==
    LET o == task[t].o
    IN  /\ task[t].pc = "ack"
        /\ Runnable(t)
        /\ \/ /\ ~DeliveredRefused(o)
              /\ MarkOrderDelivered(o)
              /\ task' = [task EXCEPT ![t].pc = "ship", ![t].attempt = 1]
              /\ UNCHANGED budget
           \/ /\ DeliveredRefused(o)
              /\ Goto(t, "failed")
              /\ UNCHANGED <<storeVars, budget>>
           \/ /\ Fault
              /\ AttemptFailed(t, FALSE)
              /\ UNCHANGED storeVars
        /\ UNCHANGED <<phase, cache, bound, posted, files, platform>>

SendFailed(t) ==
    /\ task[t].pc = "failed"
    /\ Runnable(t)
    /\ MarkOrderRetry(task[t].o)
    /\ Abort(t)
    /\ UNCHANGED <<phase, cache, bound, posted, envVars>>

SendUnverified(t) ==
    /\ task[t].pc = "unverified"
    /\ Runnable(t)
    /\ MarkOrderManualReview(task[t].o, "other")
    /\ Resume(t)
    /\ UNCHANGED <<phase, cache, bound, posted, envVars>>

\* consign_dummy: the platform may act and the answer still be lost; an order it
\* closed is refused.
ConsignAnswer(t) ==
    LET o       == task[t].o
        shipped == [platform EXCEPT ![o] = "shipped"]
    IN  /\ task[t].pc \in {"ship", "consign"}
        /\ Runnable(t)
        /\ \/ /\ platform[o] # "closed"
              /\ platform' = shipped
              /\ MarkPlatformShipped(o)
              /\ UNCHANGED budget
           \/ /\ platform[o] = "closed"
              /\ RecordPlatformShipAttempt(o)
              /\ UNCHANGED <<platform, budget>>
           \/ /\ Fault
              /\ RecordPlatformShipAttempt(o)
              /\ platform' \in {platform, IF platform[o] = "closed" THEN platform ELSE shipped}
        /\ Resume(t)
        /\ UNCHANGED <<phase, cache, bound, posted, files>>

-----------------------------------------------------------------------------
(* The operator and the platform.                                          *)

\* The control plane is another process: it may replace either file between any two
\* instructions of a worker.  The same content written again has a new signature.
EditManifest ==
    /\ budget.edit > 0
    /\ \E m \in NewManifests : files' = [files EXCEPT !.manifest = m]
    /\ budget' = [budget EXCEPT !.edit = @ - 1]
    /\ cache' = [cache EXCEPT !.synced = FALSE]
    /\ UNCHANGED <<storeVars, phase, task, bound, posted, platform>>

EditConfig ==
    /\ budget.edit > 0
    /\ \E o \in PlatformOrders, c \in Configs :
          c # files.config[o] /\ files' = [files EXCEPT !.config[o] = c]
    /\ budget' = [budget EXCEPT !.edit = @ - 1]
    /\ UNCHANGED <<storeVars, workerVars, platform>>

\* Refunded or closed by the platform, or shipped by hand.
PlatformChanges ==
    /\ budget.close > 0
    /\ \E o \in PlatformOrders, s \in {"closed", "shipped"} :
          platform[o] = "paid" /\ platform' = [platform EXCEPT ![o] = s]
    /\ budget' = [budget EXCEPT !.close = @ - 1]
    /\ UNCHANGED <<storeVars, workerVars, files>>

\* worker/scripts/resolve_manual_review.py, a process of its own.
OperatorResolves ==
    /\ budget.edit > 0
    /\ \E o \in Orders : ResolveManualReview(o)
    /\ budget' = [budget EXCEPT !.edit = @ - 1]
    /\ UNCHANGED <<workerVars, files, platform>>

-----------------------------------------------------------------------------
\* What an earlier release leaves behind: a takeover was noticed while the order
\* was owned by a sender, so its codes are quarantined, or it had none yet.
LegacyRow(o, codes) ==
    [NoRow EXCEPT !.status = "manual_review", !.proof = "2", !.quantity = Quantity[o],
                  !.delivery = IF codes = {} THEN "none" ELSE "redeem",
                  !.ids = codes, !.reason = "takeover"]

LegacyStore(legacy, ids) ==
    /\ \A o \in legacy : ids[o] = {} \/ Cardinality(ids[o]) = Quantity[o]
    /\ \A o, p \in legacy : o # p => ids[o] \cap ids[p] = {}
    /\ orders = [o \in Orders |-> IF o \in legacy THEN LegacyRow(o, ids[o]) ELSE NoRow]
    /\ inventory = [c \in Codes |->
          IF \E o \in legacy : c \in ids[o]
          THEN [status |-> "quarantined", key |-> CHOOSE o \in legacy : c \in ids[o]]
          ELSE [status |-> "none", key |-> NoOrder]]
    /\ reviews = [o \in Orders |-> IF o \in legacy THEN "open" ELSE "none"]

Init ==
    /\ \E legacy \in SUBSET LegacyOrders : \E ids \in [legacy -> SUBSET Codes] :
          LegacyStore(legacy, ids)
    /\ sent = [o \in Orders |-> {}]
    /\ phase = "down"
    /\ task = [t \in Tasks |-> Idle]
    /\ files = [manifest |-> FirstManifest, config |-> FirstConfig]
    /\ cache = [config |-> FirstConfig, needed |-> FALSE, synced |-> FALSE, usable |-> FALSE]
    /\ platform = [o \in PlatformOrders |-> "paid"]
    /\ bound \in SUBSET Chats
    /\ posted = [o \in PlatformOrders |-> {}]
    /\ budget = [crash |-> MaxCrashes, edit |-> MaxEdits, fault |-> MaxFaults,
                 close |-> MaxCloses]

TaskStep(t) ==
    \/ OtherMessage(t)
    \/ TradeClosed(t)
    \/ \E o \in PlatformOrders : HandlePaidOrder(t, o)
    \/ RecordNotice(t)
    \/ ReviewOrder(t)
    \/ HeadAnswer(t)
    \/ DetailAnswer(t)
    \/ RecordOrder(t)
    \/ RecordProof(t)
    \/ ScanPendingOrders(t)
    \/ ListingAnswer(t)
    \/ ReconcilePendingOrder(t)
    \/ ScanDetailAnswer(t)
    \/ ConversationAnswer(t)
    \/ RetryPendingDeliveries(t)
    \/ RetryQuarantine(t)
    \/ RetryRevive(t)
    \/ NextInLoop(t)
    \/ EndOfLoop(t)
    \/ AcquireOrder(t)
    \/ PrepareStep(t)
    \/ ClaimStep(t)
    \/ VerifyAnswer(t)
    \/ SendStep(t)
    \/ AckAnswer(t)
    \/ SendFailed(t)
    \/ SendUnverified(t)
    \/ ConsignAnswer(t)

Next ==
    \/ OpenStore
    \/ QuarantineAtStart
    \/ RefreshAtStart
    \/ Crash
    \/ \E t \in Tasks : TaskStep(t)
    \/ \E t \in Scanners : CancelScanner(t)
    \/ EditManifest
    \/ EditConfig
    \/ PlatformChanges
    \/ OperatorResolves

Spec == Init /\ [][Next]_vars

\* The event loop serves its ready tasks in turn and asyncio.Lock is first come,
\* first served; every call and ack has a timeout; the scanner sleeps and sweeps
\* again, and retry_pending_deliveries runs on every connection and interval.
\* Nothing obliges a buyer to write, so an idle conversation may stay idle.
Progress(t) == (t \in Chats => task[t].pc # "idle") /\ TaskStep(t)

Fairness ==
    /\ WF_vars(OpenStore \/ QuarantineAtStart \/ RefreshAtStart)
    /\ \A t \in Tasks : SF_vars(Progress(t))

FairSpec == Spec /\ Fairness

-----------------------------------------------------------------------------
(* Properties.                                                             *)

TaskRow ==
    [pc : Pcs, o : Orders \cup {NoOrder}, config : Configs \cup {NoConfig},
     attempt : {1, 2}, known : {"none", "2", "other"}, seen : {"none", "2", "other"},
     reject : BOOLEAN, todo : SUBSET Orders,
     loop : {"none", "sweep", "revived", "retryable", "shipping"},
     file : Manifests \cup {Invalid}]

\* Tables, tasks, caches and files keep their shape: no task is left at a point or
\* with locals that _fulfill_order and its callers do not have.
TypeOK ==
    /\ StoreTypeOK
    /\ phase \in {"down", "opened", "checked", "up"}
    /\ task \in [Tasks -> TaskRow]
    /\ files \in [manifest : Manifests \cup {Invalid}, config : [PlatformOrders -> Configs]]
    /\ cache \in [config : [PlatformOrders -> Configs], needed : BOOLEAN,
                  synced : BOOLEAN, usable : BOOLEAN]
    /\ platform \in [PlatformOrders -> {"paid", "shipped", "closed"}]
    /\ bound \in SUBSET Chats
    /\ posted \in [PlatformOrders -> SUBSET Payloads]

\* While the worker runs, an order in "sending" is owned by exactly one task that
\* is still inside the try block of _fulfill_order.  An orphaned row would answer
\* "busy" to every later attempt until the process restarts.
SendingIsOwned ==
    phase = "up" => \A o \in Orders : orders[o].status = "sending" =>
        Cardinality({t \in Tasks : task[t].pc \in Sending /\ task[t].o = o}) = 1

\* An order is marked delivered only if the buyer was sent exactly what was paid
\* for: all its codes, as many as units, in one message; or its one payload.
DeliveredInFull ==
    \A o \in PlatformOrders : orders[o].status = "delivered" =>
        IF orders[o].delivery = "redeem"
        THEN /\ sent[o] = {orders[o].ids}
             /\ Cardinality(orders[o].ids) = Quantity[o]
        ELSE posted[o] = {orders[o].payload}

\* Across crashes, reconnects, remapped products and overlapping tasks, every
\* message of an order has the same content: they share one message UUID.
OneMessagePerOrder ==
    \A o \in PlatformOrders : Cardinality(sent[o]) + Cardinality(posted[o]) <= 1

\* A code that the operator removed or marked used on disk before the platform's
\* answer for this attempt arrived is not sent, whatever the worker had loaded when it
\* asked.  A file replaced later, between the refresh that follows the answer and the
\* websocket send, is not seen any more.
RevokedCodesAreNotSent ==
    [][\A o \in Orders : sent'[o] # sent[o] =>
          \E t \in Tasks :
              /\ task[t].pc = "send" /\ task[t].o = o
              /\ task[t].file # Invalid
              /\ \A c \in orders[o].ids : task[t].file[c] = "unused"]_vars

\* Whatever the tasks do, the store only sees its own transactions, one a step.
StepsAreTransactions == [][StoreStep]_storeVars

\* Every order the worker took up is settled: delivered, cancelled, expired or
\* handed to a person.  An order that is only verified waits for the scanner, which
\* looks no further once the platform closed it or its product lost its mapping.
OrdersSettle ==
    \A o \in PlatformOrders :
        (orders[o].status \in Live) ~>
            \/ orders[o].status \in Terminal
            \/ /\ orders[o].status = "verified"
               /\ platform[o] # "paid" \/ files.config[o].delivery = "none"

-----------------------------------------------------------------------------
(* What comments of the code say and the code does not do.                 *)

\* revive_takeover_blocked_orders "restores takeover-blocked verified orders to an
\* automatically deliverable state": a revived card order could be sent, having
\* either no codes yet or codes it still holds.
RevivedOrdersAreDeliverable ==
    [][\A o \in Orders :
          orders[o].status = "manual_review" /\ orders'[o].status = "verified" =>
             orders[o].ids = {} \/ Held(o)' = orders[o].ids]_vars

\* record_platform_ship_attempt: "no more retries once the limit is reached".
ShipAttemptsAreBounded ==
    \A o \in Orders : orders[o].attempts <= MaxShipAttempts
=============================================================================
