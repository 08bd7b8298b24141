---------------------------- MODULE DeliveryStore ----------------------------
(***************************************************************************)
(* The durable order and card-code store of one shop worker               *)
(* (worker/delivery_store.py, class DeliveryStore): the tables             *)
(* delivery_events, inventory and manual_reviews of the worker's SQLite    *)
(* file.  Every public method that writes is one BEGIN IMMEDIATE           *)
(* transaction and is one action here.  StoreStep lets any caller issue    *)
(* any transaction at any time, so what holds of StoreSpec holds whatever  *)
(* the tasks of the worker do; Fulfillment composes the actions the way    *)
(* worker/main.py calls them.                                              *)
(*                                                                         *)
(* sent is a history variable: the sets of card codes put on the wire for  *)
(* an order.  The only place that does so is reached after                 *)
(* order_inventory_is_sendable answered true, with no await in between.    *)
(***************************************************************************)
EXTENDS Naturals, FiniteSets

CONSTANTS
    Orders,       \* order keys: canonical platform orders and bare notices
    Chats,        \* conversation ids
    ChatOf,       \* the conversation each order key belongs to
    Codes,        \* inventory row ids of card codes (natural numbers)
    Payloads,     \* pan links and material texts
    NoOrder,      \* inventory.reservation_key IS NULL
    NoPayload,    \* delivery_events.delivery_payload IS NULL
    MaxQuantity,  \* prepare_order accepts 1..MaxQuantity units (50 in the code)
    MaxShipAttempts, \* pending_platform_shipments(max_attempts), 5 in the code
    AttemptBound  \* model bound on the attempts a caller may record

ASSUME StoreAssumption ==
    /\ ChatOf \in [Orders -> Chats]
    /\ Codes \subseteq Nat
    /\ NoOrder \notin Orders
    /\ NoPayload \notin Payloads
    /\ MaxQuantity \in Nat \ {0}
    /\ MaxShipAttempts \in Nat
    /\ AttemptBound \in Nat

VARIABLES
    orders,     \* delivery_events, one row per order key
    inventory,  \* inventory rows: status and reservation_key
    reviews,    \* manual_reviews: "none" (no row), "open" or "resolved"
    sent        \* history: per order, the code sets put on the wire

storeVars == <<orders, inventory, reviews, sent>>

Deliveries == {"redeem", "pan", "material"}

Terminal == {"delivered", "manual_review", "cancelled", "expired"}

\* Rows a sender owns or may still claim; their codes are withheld from others.
Claimed == {"reserved", "retry", "sending"}

\* Rows for which a message may already have left the worker.
MaybeSent == {"retry", "sending"}

Live == {"awaiting_binding", "verified"} \cup Claimed

Statuses == {"none"} \cup Live \cup Terminal

\* last_error, as far as a transaction looks at it: manual_takeover_before_send.
Reasons == {"takeover", "other"}

OrderRow ==
    [status   : Statuses,
     proof    : {"none", "2", "other"},
     quantity : Nat,
     delivery : {"none"} \cup Deliveries,
     payload  : Payloads \cup {NoPayload},
     ids      : SUBSET Codes,
     reason   : Reasons,
     shipped  : {"no", "yes"},
     attempts : Nat]

NoRow ==
    [status |-> "none", proof |-> "none", quantity |-> 1, delivery |-> "none",
     payload |-> NoPayload, ids |-> {}, reason |-> "other",
     shipped |-> "no", attempts |-> 0]

CodeStatuses ==
    {"none", "available", "legacy_used", "reserved", "quarantined", "delivered"}

CodeRow == [status : CodeStatuses, key : Orders \cup {NoOrder}]

Free == [status |-> "available", key |-> NoOrder]

\* The uploaded redeem_codes.json, per code.
Manifests == [Codes -> {"absent", "unused", "used"}]

-----------------------------------------------------------------------------
(* Helpers of the transactions.                                            *)

\* WHERE id IN (inventory_ids) AND status = 'reserved' AND reservation_key = o
Held(o) == {c \in orders[o].ids : inventory[c] = [status |-> "reserved", key |-> o]}

\* Mutant: the transaction forgets the codes of the orders it ends.
HeldByMutant(S) == {}

HeldBy(S) == UNION {Held(o) : o \in S}

SetStatus(S, status, reason) ==
    [o \in Orders |->
        IF o \in S
        THEN [orders[o] EXCEPT !.status = status, !.reason = reason]
        ELSE orders[o]]

Quarantine(S) ==
    [c \in Codes |->
        IF c \in S THEN [inventory[c] EXCEPT !.status = "quarantined"]
                   ELSE inventory[c]]

\* Mutant: the review row is updated but never inserted.
UpsertManualReviewMutant(S) == reviews

\* A new review is opened; an existing row keeps its status, resolved included.
UpsertManualReview(S) ==
    [o \in Orders |->
        IF o \in S /\ reviews[o] = "none" THEN "open" ELSE reviews[o]]

\* SELECT id ... WHERE status = 'available' ORDER BY id LIMIT n
Available == {c \in Codes : inventory[c].status = "available"}

FirstAvailable(n) ==
    {S \in SUBSET Available :
        /\ Cardinality(S) = n
        /\ \A c \in S, d \in Available \ S : c < d}

HasProof(o) == orders[o].proof # "none"

-----------------------------------------------------------------------------
(* The transactions.                                                       *)

\* record_payment_event: INSERT ... ON CONFLICT DO NOTHING.  late: the notice
\* is older than the retention, so the new row is born expired.
RecordPaymentEvent(o, late) ==
    /\ orders' = IF orders[o].status = "none"
                 THEN [orders EXCEPT ![o].status =
                          IF late THEN "expired" ELSE "awaiting_binding"]
                 ELSE orders
    /\ UNCHANGED <<inventory, reviews, sent>>

\* The second transaction of record_verified_payment_event raises when the row
\* already carries another platform status, or another quantity.
VerifiedMismatch(o, proof, quantity) ==
    \/ orders[o].proof \notin {"none", proof}
    \/ /\ orders[o].quantity \notin {quantity, 1}
       /\ orders[o].status # "awaiting_binding"

\* Mutant: the units paid for are not stored.
RecordVerifiedMutant(o, proof, quantity) ==
    /\ orders[o].status # "none"
    /\ ~VerifiedMismatch(o, proof, quantity)
    /\ orders' = [orders EXCEPT
                    ![o].proof = proof,
                    ![o].status = IF @ = "awaiting_binding" THEN "verified" ELSE @]
    /\ UNCHANGED <<inventory, reviews, sent>>

RecordVerified(o, proof, quantity) ==
    /\ orders[o].status # "none"
    /\ ~VerifiedMismatch(o, proof, quantity)
    /\ orders' = [orders EXCEPT
                    ![o].proof = proof,
                    ![o].quantity = quantity,
                    ![o].status = IF @ = "awaiting_binding" THEN "verified" ELSE @]
    /\ UNCHANGED <<inventory, reviews, sent>>

\* awaiting_events, awaiting_events_for_chat: notices past their retention.
ExpireAwaiting(S) ==
    /\ S \subseteq {o \in Orders : orders[o].status = "awaiting_binding"}
    /\ orders' = [o \in Orders |-> IF o \in S THEN [orders[o] EXCEPT !.status = "expired"]
                                              ELSE orders[o]]
    /\ UNCHANGED <<inventory, reviews, sent>>

\* Mutant: the codes are freed even if the order may have been sent.
MarkOrderManualReviewMutant(o, reason) ==
    IF orders[o].status \in {"none", "delivered"}
    THEN UNCHANGED storeVars
    ELSE /\ inventory' = [c \in Codes |-> IF c \in Held(o) THEN Free ELSE inventory[c]]
         /\ orders' = SetStatus({o}, "manual_review", reason)
         /\ reviews' = UpsertManualReview({o})
         /\ UNCHANGED sent

\* Codes of an order that may have been sent are quarantined, the others freed.
MarkOrderManualReview(o, reason) ==
    IF orders[o].status \in {"none", "delivered"}
    THEN UNCHANGED storeVars
    ELSE /\ inventory' = IF orders[o].status \in MaybeSent
                         THEN Quarantine(Held(o))
                         ELSE [c \in Codes |-> IF c \in Held(o) THEN Free ELSE inventory[c]]
         /\ orders' = SetStatus({o}, "manual_review", reason)
         /\ reviews' = UpsertManualReview({o})
         /\ UNCHANGED sent

ResolveManualReview(o) ==
    /\ reviews[o] = "open"
    /\ reviews' = [reviews EXCEPT ![o] = "resolved"]
    /\ UNCHANGED <<orders, inventory, sent>>

\* Rows a worker may act on without a platform order that awaits shipment.
Unproven == {o \in Orders : orders[o].status \in Live /\ orders[o].proof # "2"}

QuarantineAutomaticOrders ==
    /\ inventory' = Quarantine(HeldBy(Unproven))
    /\ orders' = SetStatus(Unproven, "manual_review", "other")
    /\ reviews' = UpsertManualReview(Unproven)
    /\ UNCHANGED sent

\* Unsent orders of the chat are cancelled and their codes freed; orders that
\* may have been sent go to review with their codes quarantined.
CancelAwaitingForChat(chat) ==
    LET unsent    == {o \in Orders : ChatOf[o] = chat
                                  /\ orders[o].status \in Live \ MaybeSent}
        uncertain == {o \in Orders : ChatOf[o] = chat
                                  /\ orders[o].status \in MaybeSent}
    IN  /\ orders' = [o \in Orders |->
              IF o \in unsent THEN [orders[o] EXCEPT !.status = "cancelled"]
              ELSE SetStatus(uncertain, "manual_review", "other")[o]]
        /\ inventory' = [c \in Codes |->
              IF c \in HeldBy(unsent) THEN Free ELSE Quarantine(HeldBy(uncertain))[c]]
        /\ reviews' = UpsertManualReview(uncertain)
        /\ UNCHANGED sent

\* prepare_order raises: the caller asked for something the row does not allow.
PrepareRefused(o, delivery, payload) ==
    \/ orders[o].status \in {"none", "awaiting_binding"}
    \/ orders[o].proof # "2"
    \/ orders[o].quantity \notin 1 .. MaxQuantity
    \/ delivery = "material" /\ orders[o].quantity # 1
    \/ delivery \in {"pan", "material"} /\ payload = NoPayload
    \/ /\ orders[o].status \notin Terminal
       /\ orders[o].delivery \notin {"none", delivery}

\* Mutant: a revived order is given fresh codes.
NeedsCodesMutant(o, delivery) == delivery = "redeem"

NeedsCodes(o, delivery) == delivery = "redeem" /\ orders[o].ids = {}

\* Fill the row from verified to reserved.  A redeem row without codes takes the
\* lowest available ones, all or none; a row that kept codes keeps them as they are.
Reserve(o, delivery, payload, codes) ==
    /\ orders' = [orders EXCEPT
                    ![o].status = "reserved", ![o].delivery = delivery,
                    ![o].payload = payload, ![o].ids = codes, ![o].reason = "other"]
    /\ inventory' = IF codes = orders[o].ids
                    THEN inventory
                    ELSE [c \in Codes |-> IF c \in codes
                                          THEN [status |-> "reserved", key |-> o]
                                          ELSE inventory[c]]
    /\ UNCHANGED <<reviews, sent>>

PrepareOrder(o, delivery, payload) ==
    LET row == orders[o]
    IN  /\ ~PrepareRefused(o, delivery, payload)
        /\ \/ /\ row.status \in Terminal \cup {"sending"}
              /\ UNCHANGED storeVars
           \/ /\ row.status \in {"reserved", "retry"}
              /\ orders' = IF delivery # "redeem" /\ row.payload = NoPayload
                           THEN [orders EXCEPT ![o].payload = payload]
                           ELSE orders
              /\ UNCHANGED <<inventory, reviews, sent>>
           \/ /\ row.status = "verified"
              /\ ~NeedsCodes(o, delivery)
              /\ Reserve(o, delivery, payload, row.ids)
           \/ /\ row.status = "verified"
              /\ NeedsCodes(o, delivery)
              /\ \E codes \in FirstAvailable(row.quantity) : Reserve(o, delivery, payload, codes)
           \/ /\ row.status = "verified"
              /\ NeedsCodes(o, delivery)
              /\ FirstAvailable(row.quantity) = {}
              /\ orders' = [orders EXCEPT ![o].status = "manual_review",
                               ![o].delivery = delivery, ![o].reason = "other"]
              /\ reviews' = UpsertManualReview({o})
              /\ UNCHANGED <<inventory, sent>>

ClaimOrderForSend(o) ==
    /\ orders[o].status \in {"reserved", "retry"}
    /\ orders' = [orders EXCEPT ![o].status = "sending"]
    /\ UNCHANGED <<inventory, reviews, sent>>

\* Mutant: the reservation of the codes is not rechecked.
OrderInventoryIsSendableMutant(o) ==
    /\ orders[o].status = "sending"
    /\ Cardinality(orders[o].ids) = orders[o].quantity

OrderInventoryIsSendable(o) ==
    LET row == orders[o]
    IN  /\ row.status = "sending"
        /\ row.delivery = "redeem" =>
              /\ row.ids # {}
              /\ Cardinality(row.ids) = row.quantity
              /\ Held(o) = row.ids

\* The wire send of a redeem order: external to the store, logged in sent.
SendCodes(o) ==
    /\ orders[o].delivery = "redeem"
    /\ OrderInventoryIsSendable(o)
    /\ sent' = [sent EXCEPT ![o] = @ \cup {orders[o].ids}]
    /\ UNCHANGED <<orders, inventory, reviews>>

MarkOrderRetry(o) ==
    /\ orders' = IF orders[o].status = "sending"
                 THEN SetStatus({o}, "retry", "other") ELSE orders
    /\ UNCHANGED <<inventory, reviews, sent>>

\* Mutant: the reservation of the codes is not rechecked.
DeliveredRefusedMutant(o) == orders[o].status \notin {"sending", "delivered"}

\* mark_order_delivered raises unless the row is owned by a sender and every
\* code is still reserved for it; the transaction then rolls back.
DeliveredRefused(o) ==
    \/ orders[o].status \notin {"sending", "delivered"}
    \/ orders[o].status = "sending" /\ Held(o) # orders[o].ids

MarkOrderDelivered(o) ==
    IF orders[o].status = "delivered"
    THEN UNCHANGED storeVars
    ELSE
    /\ ~DeliveredRefused(o)
    /\ inventory' = [c \in Codes |->
            IF c \in orders[o].ids THEN [inventory[c] EXCEPT !.status = "delivered"]
                                   ELSE inventory[c]]
    /\ orders' = SetStatus({o}, "delivered", "other")
    /\ UNCHANGED <<reviews, sent>>

MarkPlatformShipped(o) ==
    /\ orders[o].status = "delivered"
    /\ orders' = [orders EXCEPT ![o].shipped = "yes"]
    /\ UNCHANGED <<inventory, reviews, sent>>

RecordPlatformShipAttempt(o) ==
    /\ orders' = [orders EXCEPT ![o].attempts = @ + 1, ![o].reason = "other"]
    /\ UNCHANGED <<inventory, reviews, sent>>

PendingPlatformShipments ==
    {o \in Orders : /\ orders[o].status = "delivered"
                    /\ HasProof(o)
                    /\ orders[o].shipped = "no"
                    /\ orders[o].attempts < MaxShipAttempts}

TakeoverBlocked ==
    {o \in Orders : /\ orders[o].status = "manual_review"
                    /\ orders[o].reason = "takeover"
                    /\ orders[o].proof = "2"}

\* The rows go back to verified and keep their inventory_ids.
ReviveTakeoverBlockedOrders ==
    /\ orders' = SetStatus(TakeoverBlocked, "verified", "other")
    /\ reviews' = [o \in Orders |->
            IF o \in TakeoverBlocked /\ reviews[o] = "open" THEN "resolved" ELSE reviews[o]]
    /\ UNCHANGED <<inventory, sent>>

\* Mutant: an order that was reserved but never claimed is forgotten.
RetryableOrdersMutant == {o \in Orders : orders[o].status = "retry"}

RetryableOrders ==
    {o \in Orders : /\ orders[o].status \in {"reserved", "retry"}
                    /\ orders[o].delivery # "none"
                    /\ orders[o].proof = "2"}

\* Mutant: a code listed again leaves its quarantine.
ImportedStatusMutant(c, m) ==
    LET s == inventory[c].status
    IN  IF s \in {"none", "quarantined"} /\ m[c] = "unused" THEN "available" ELSE s

\* import_inventory with _quarantine_delivery_claims.
ImportedStatus(c, m) ==
    LET s == inventory[c].status
    IN  CASE s = "none" /\ m[c] = "unused"      -> "available"
          [] s = "none" /\ m[c] = "used"        -> "legacy_used"
          [] s = "available" /\ m[c] = "used"   -> "legacy_used"
          [] s = "available" /\ m[c] = "absent" -> "quarantined"
          [] s = "reserved" /\ m[c] # "unused"  -> "quarantined"
          [] OTHER                              -> s

ImportInventory(m) ==
    LET revoked == {c \in Codes : /\ inventory[c].status \in {"available", "reserved"}
                                  /\ m[c] # "unused"}
        hit     == {o \in Orders : /\ orders[o].delivery = "redeem"
                                   /\ orders[o].status \in Claimed
                                   /\ orders[o].ids \cap revoked # {}}
    IN  /\ inventory' = [c \in Codes |->
              [inventory[c] EXCEPT !.status =
                  IF c \in HeldBy(hit) THEN "quarantined" ELSE ImportedStatus(c, m)]]
        /\ orders' = SetStatus(hit, "manual_review", "other")
        /\ reviews' = UpsertManualReview(hit)
        /\ UNCHANGED sent

\* _init_db on a new process: reviews are backfilled and interrupted sends
\* become retryable.
InitDb ==
    LET cut == {o \in Orders : orders[o].status = "sending"}
    IN  /\ orders' = SetStatus(cut, "retry", "other")
        /\ reviews' = UpsertManualReview(
                        {o \in Orders : orders[o].status = "manual_review"})
        /\ UNCHANGED <<inventory, sent>>

-----------------------------------------------------------------------------
StoreInit ==
    /\ orders = [o \in Orders |-> NoRow]
    /\ inventory = [c \in Codes |-> [status |-> "none", key |-> NoOrder]]
    /\ reviews = [o \in Orders |-> "none"]
    /\ sent = [o \in Orders |-> {}]

\* Any transaction, or a send.
StoreStep ==
    \/ \E o \in Orders, late \in BOOLEAN : RecordPaymentEvent(o, late)
    \/ \E o \in Orders, p \in {"2", "other"}, q \in 1 .. MaxQuantity : RecordVerified(o, p, q)
    \/ \E S \in SUBSET Orders : ExpireAwaiting(S)
    \/ \E o \in Orders, reason \in Reasons : MarkOrderManualReview(o, reason)
    \/ \E o \in Orders : ResolveManualReview(o)
    \/ QuarantineAutomaticOrders
    \/ \E chat \in Chats : CancelAwaitingForChat(chat)
    \/ \E o \in Orders, d \in Deliveries, p \in Payloads \cup {NoPayload} : PrepareOrder(o, d, p)
    \/ \E o \in Orders : ClaimOrderForSend(o)
    \/ \E o \in Orders : SendCodes(o)
    \/ \E o \in Orders : MarkOrderRetry(o)
    \/ \E o \in Orders : MarkOrderDelivered(o)
    \/ \E o \in Orders : MarkPlatformShipped(o)
    \/ \E o \in Orders : orders[o].status = "delivered" /\ RecordPlatformShipAttempt(o)
    \/ ReviveTakeoverBlockedOrders
    \/ \E m \in Manifests : ImportInventory(m)
    \/ InitDb

StoreNext == StoreStep /\ \A o \in Orders : orders'[o].attempts <= AttemptBound

StoreSpec == StoreInit /\ [][StoreNext]_storeVars

-----------------------------------------------------------------------------
(* Properties.                                                             *)

\* The tables keep their shape: only statuses that the queries of the store know
\* are ever written.
StoreTypeOK ==
    /\ orders \in [Orders -> OrderRow]
    /\ inventory \in [Codes -> CodeRow]
    /\ reviews \in [Orders -> {"none", "open", "resolved"}]
    /\ sent \in [Orders -> SUBSET SUBSET Codes]

\* A code that was put on the wire for an order is never offered again: it stays
\* bound to that order, reserved only while the order may still be resent.  This
\* is what freeing in mark_order_manual_review and cancel_awaiting_for_chat must
\* respect after any number of crashes, retries and revivals.
SentCodesStayBound ==
    \A o \in Orders : \A codes \in sent[o] : \A c \in codes :
        /\ inventory[c].key = o
        /\ inventory[c].status \in {"reserved", "quarantined", "delivered"}
        /\ inventory[c].status = "reserved" => orders[o].status \in MaybeSent

\* No card code is sent to two different orders.
NoCodeSentTwice ==
    \A o, p \in Orders : o # p => (UNION sent[o]) \cap (UNION sent[p]) = {}

\* Every send of an order carries the codes its row lists, so all of them are
\* alike: the platform deduplicates on one message UUID per order, which is only
\* right if the text behind the UUID never changes.
ResendsAreIdentical ==
    \A o \in Orders : sent[o] \subseteq {orders[o].ids} \ {{}}

\* A reserved code is backed by a claimable order that lists it: no order that
\* ended or was revived leaves a code reserved, so no code leaks.
ReservationsAreBacked ==
    \A c \in Codes : inventory[c].status = "reserved" =>
        LET o == inventory[c].key
        IN  /\ o \in Orders
            /\ c \in orders[o].ids
            /\ orders[o].status \in Claimed

\* A delivered order owns all its codes for good, and a delivered code belongs
\* to a delivered order.
DeliveredIsSettled ==
    /\ \A o \in Orders : orders[o].status = "delivered" =>
          \A c \in orders[o].ids : inventory[c] = [status |-> "delivered", key |-> o]
    /\ \A c \in Codes : inventory[c].status = "delivered" =>
          /\ inventory[c].key \in Orders
          /\ orders[inventory[c].key].status = "delivered"
          /\ c \in orders[inventory[c].key].ids

\* No order waits for a human without a review row an operator could have seen.
ReviewsAreRecorded ==
    \A o \in Orders : orders[o].status = "manual_review" => reviews[o] # "none"

\* The parts above hold together and only together: each transaction needs the
\* reservations to know which codes it moves, and the sends to know they may not.
StoreInv ==
    /\ StoreTypeOK
    /\ ReservationsAreBacked
    /\ SentCodesStayBound
    /\ ResendsAreIdentical
    /\ DeliveredIsSettled
    /\ ReviewsAreRecorded

\* What a transaction may never do: take a code back from quarantine or
\* delivery, reopen a delivered, cancelled or expired order, or exchange the
\* codes an order once got.
StepNeverUndoes ==
    /\ \A c \in Codes : inventory[c].status \in {"quarantined", "delivered", "legacy_used"} =>
          inventory'[c] = inventory[c]
    /\ \A o \in Orders :
          /\ orders[o].status = "delivered" => orders'[o].status = "delivered"
          /\ orders[o].status \in {"cancelled", "expired"} =>
                orders'[o].status \in {orders[o].status, "manual_review"}
          /\ orders[o].ids # {} => orders'[o].ids = orders[o].ids

NothingIsUndone == [][StepNeverUndoes]_storeVars
=============================================================================
