-------------------------- MODULE FulfillmentProofs ---------------------------
(***************************************************************************)
(* The tasks of a shop worker over the store of DeliveryStore, for any     *)
(* number of orders, conversations and overlapping retry tasks, any edits  *)
(* and any number of crashes.                                              *)
(*                                                                         *)
(* First, every step is a transaction or leaves the store alone, so the    *)
(* invariant of DeliveryStoreProofs holds of the worker too, whatever an   *)
(* earlier release left in the tables.  FulfillInv then adds what the      *)
(* tasks know about the rows they work on.  Nearly all steps are calm:     *)
(* their transaction neither gives an order to a sender nor changes what   *)
(* it contains (QuietRow), and the task takes a lock or leaves the try     *)
(* block only as it may (TaskMove).  What a calm step preserves is proved  *)
(* once (CalmKeeps); the steps that reserve, claim, send and deliver are   *)
(* treated on their own.                                                   *)
(***************************************************************************)
EXTENDS Fulfillment, DeliveryStoreProofs, FiniteSetTheorems

-----------------------------------------------------------------------------
(* The invariant.                                                          *)

\* Points at which a task works on an order of the platform, those at which it
\* carries the product's configuration, and those at which it has seen the order.
AtOrder == {"head", "detail", "sdetail", "sdetail_unbound", "conversation", "lock",
            "consign", "record", "prove"} \cup Locked
Configured == {"head", "detail", "sdetail", "sdetail_unbound", "conversation", "lock",
               "record", "prove", "prepare"}
Seen == {"conversation", "record", "prove"}

\* What a task has in its locals, depending on where it is.
LocalsOf(t, row) ==
    /\ row.pc = "close" => t \in Chats
    /\ row.pc \in {"notice", "review"} => row.o \in Orders
    /\ row.pc \in AtOrder => row.o \in PlatformOrders
    /\ row.pc \in Seen => row.seen # "none"
    /\ row.pc \in Configured => row.config \in Configs /\ row.config.delivery # "none"
    /\ row.pc = "next" => row.loop \in {"revived", "retryable", "shipping"}
    /\ row.pc = "listing" => row.loop = "sweep"
    /\ row.todo \subseteq PlatformOrders

LocalsOK == \A t \in Tasks : LocalsOf(t, task[t])

\* What is known of the row of an order that exists on the platform, and what was
\* put on the wire for it.
PlatformRowOK(o) ==
    LET row == orders[o]
    IN  /\ row.proof # "none" => row.quantity = Quantity[o]
        /\ row.ids # {} => Cardinality(row.ids) = Quantity[o] /\ row.proof = "2"
        /\ row.status = "verified" => row.proof # "none"
        /\ row.status \in Claimed \cup {"delivered"} =>
              row.proof = "2" /\ row.delivery # "none"
        /\ row.status \in Claimed /\ row.delivery = "redeem" => row.ids # {}
        /\ row.payload = NoPayload <=> row.delivery \in {"none", "redeem"}
        /\ sent[o] # {} => row.delivery = "redeem"
        /\ posted[o] # {} => row.delivery \in {"pan", "material"} /\ posted[o] = {row.payload}

\* A bare notice is never verified, so never delivered.
NoticeRowOK(o) ==
    /\ orders[o].proof = "none"
    /\ orders[o].status \notin Claimed \cup {"verified", "delivered"}

RowsOK ==
    /\ \A o \in PlatformOrders : PlatformRowOK(o)
    /\ \A o \in Orders \ PlatformOrders : NoticeRowOK(o)

\* Tasks that only report a shipment do so for delivered orders.
ShipsAreDelivered ==
    \A t \in Tasks :
        /\ task[t].pc \in {"ship", "consign"} => orders[task[t].o].status = "delivered"
        /\ task[t].loop = "shipping" => \A o \in task[t].todo : orders[o].status = "delivered"

\* The order lock excludes, and a process that starts has no tasks and no senders.
LocksExclude ==
    \A t, u \in Tasks :
        /\ task[t].pc \in Locked /\ task[u].pc \in Locked /\ task[t].o = task[u].o
        => t = u

StartIsClean ==
    /\ phase # "up" => \A t \in Tasks : task[t] = Idle
    /\ phase \in {"opened", "checked"} => \A o \in Orders : orders[o].status # "sending"

SendersExist ==
    phase = "up" => \A o \in Orders : orders[o].status = "sending" =>
        \E t \in Tasks : task[t].pc \in Sending /\ task[t].o = o

\* What the sender waits to have acknowledged was sent as the row says.
SentAsRow(o) ==
    IF orders[o].delivery = "redeem" THEN sent[o] = {orders[o].ids}
                                     ELSE posted[o] = {orders[o].payload}

AcksAreBacked ==
    \A t \in Tasks :
        /\ task[t].pc \in Sending => orders[task[t].o].delivery # "none"
        /\ \A o \in Orders :
              task[t].pc = "ack" /\ task[t].o = o /\ orders[o].status = "sending" => SentAsRow(o)

DeliveredAsRow ==
    \A o \in PlatformOrders : orders[o].status = "delivered" => SentAsRow(o)

\* A pool that is usable and up to date offers and holds only codes the file offers.
PoolIsCurrent ==
    cache.synced /\ cache.usable =>
        /\ files.manifest # Invalid
        /\ \A c \in Codes : inventory[c].status \in {"available", "reserved"} =>
              files.manifest[c] = "unused"

\* A pool that a sender is about to use offers and holds only codes that the file offered
\* when the sender refreshed it; the file may be another one by now.
SendersAreCurrent ==
    \A t \in Tasks : task[t].pc = "send" /\ cache.usable =>
        /\ task[t].file # Invalid
        /\ \A c \in Codes : inventory[c].status \in {"available", "reserved"} =>
              task[t].file[c] = "unused"

\* The inductive invariant of the worker.
FulfillInv ==
    /\ TypeOK
    /\ StoreInv
    /\ LocalsOK
    /\ RowsOK
    /\ ShipsAreDelivered
    /\ LocksExclude
    /\ StartIsClean
    /\ SendersExist
    /\ AcksAreBacked
    /\ DeliveredAsRow
    /\ PoolIsCurrent
    /\ SendersAreCurrent

-----------------------------------------------------------------------------
(* What a quiet transaction does to the rows and to the codes.             *)

\* Everything of an order but its status, its proof and its bookkeeping stays, and
\* nothing is claimed, sent or delivered by it.
QuietRow(o) ==
    LET old == orders[o]
        new == orders'[o]
    IN  /\ new.delivery = old.delivery
        /\ new.payload = old.payload
        /\ new.ids = old.ids
        /\ \/ new.proof = old.proof /\ new.quantity = old.quantity
           \/ /\ o \in PlatformOrders
              /\ new.quantity = Quantity[o]
              /\ new.proof # "none"
              /\ old.proof \in {"none", new.proof}
        /\ new.status = "sending" => old.status = "sending"
        /\ new.status \in Claimed => old.status \in Claimed
        /\ new.status = "delivered" <=> old.status = "delivered"
        /\ new.status = "verified" => old.status = "verified" \/ new.proof # "none"

QuietRows == sent' = sent /\ \A o \in Orders : QuietRow(o)

\* No code enters the pool.
QuietCodes ==
    \A c \in Codes : inventory'[c].status \in {"available", "reserved"} =>
        inventory[c].status \in {"available", "reserved"}

\* The rows of a store whose statuses are set.
LEMMA StatusRows ==
    ASSUME StoreTypeOK, NEW S, NEW s, NEW r, NEW o \in Orders
    PROVE  /\ SetStatus(S, s, r)[o].delivery = orders[o].delivery
           /\ SetStatus(S, s, r)[o].payload = orders[o].payload
           /\ SetStatus(S, s, r)[o].ids = orders[o].ids
           /\ SetStatus(S, s, r)[o].proof = orders[o].proof
           /\ SetStatus(S, s, r)[o].quantity = orders[o].quantity
           /\ SetStatus(S, s, r)[o].status = IF o \in S THEN s ELSE orders[o].status
<1>1. orders[o] \in OrderRow
  BY DEF StoreTypeOK
<1>2. SetStatus(S, s, r)[o] = IF o \in S THEN [orders[o] EXCEPT !.status = s, !.reason = r]
                                         ELSE orders[o]
  BY DEF SetStatus
<1> QED BY <1>1, <1>2 DEF OrderRow

\* A transaction that does not touch the store is quiet.
LEMMA SameStoreQuiet ==
    ASSUME UNCHANGED storeVars
    PROVE  QuietRows /\ QuietCodes
BY DEF storeVars, QuietRows, QuietRow, QuietCodes

\* Recording a notice is quiet.
LEMMA RecordPaymentEventQuiet ==
    ASSUME StoreTypeOK, NEW o \in Orders, NEW late \in BOOLEAN, RecordPaymentEvent(o, late)
    PROVE  QuietRows /\ QuietCodes
<1>1. UNCHANGED <<inventory, sent>>
  BY DEF RecordPaymentEvent
<1>2. ASSUME NEW p \in Orders PROVE QuietRow(p)
  <2>1. orders[p] \in OrderRow
    BY DEF StoreTypeOK
  <2>2. \/ orders'[p] = orders[p]
        \/ /\ orders[p].status = "none"
           /\ \E s \in {"expired", "awaiting_binding"} :
                 orders'[p] = [orders[p] EXCEPT !.status = s]
    BY DEF RecordPaymentEvent, StoreTypeOK
  <2> QED BY <2>1, <2>2 DEF QuietRow, OrderRow, Claimed
<1> QED BY <1>1, <1>2 DEF QuietRows, QuietCodes

\* Recording the platform's proof of a platform order is quiet.
LEMMA RecordVerifiedQuiet ==
    ASSUME StoreTypeOK, NEW o \in PlatformOrders, o \in Orders, NEW proof \in {"2", "other"},
           RecordVerified(o, proof, Quantity[o])
    PROVE  QuietRows /\ QuietCodes
<1>1. UNCHANGED <<inventory, sent>>
  BY DEF RecordVerified
<1>2. ASSUME NEW p \in Orders PROVE QuietRow(p)
  <2>1. orders[p] \in OrderRow
    BY DEF StoreTypeOK
  <2>2. CASE p # o
    <3>1. orders'[p] = orders[p]
      BY <2>2 DEF RecordVerified, StoreTypeOK
    <3> QED BY <3>1 DEF QuietRow
  <2>3. CASE p = o
    <3>1. orders'[o] = [orders[o] EXCEPT !.proof = proof, !.quantity = Quantity[o],
                !.status = IF @ = "awaiting_binding" THEN "verified" ELSE @]
      BY DEF RecordVerified, StoreTypeOK
    <3>2. orders[o].proof \in {"none", proof}
      BY DEF RecordVerified, VerifiedMismatch
    <3> QED BY <2>1, <2>3, <3>1, <3>2 DEF QuietRow, OrderRow, Claimed
  <2> QED BY <2>2, <2>3
<1> QED BY <1>1, <1>2 DEF QuietRows, QuietCodes

\* Setting the status of rows in this way is quiet.
LEMMA SetStatusQuiet ==
    ASSUME StoreTypeOK, NEW S, NEW s \in {"manual_review", "retry", "verified", "cancelled"},
           NEW r, orders' = SetStatus(S, s, r), sent' = sent,
           \A o \in S \cap Orders :
              /\ orders[o].status # "delivered"
              /\ s = "retry" => orders[o].status \in Claimed
              /\ s = "verified" => orders[o].proof # "none"
    PROVE  QuietRows
<1> SUFFICES ASSUME NEW o \in Orders PROVE QuietRow(o)
  BY DEF QuietRows
<1> QED BY StatusRows DEF QuietRow, Claimed

\* Quarantining and freeing codes that an order holds puts no new code in the pool.
LEMMA QuarantineQuiet ==
    ASSUME StoreInv, NEW S, inventory' = Quarantine(S)
    PROVE  QuietCodes
BY QuarantineRows DEF QuietCodes, StoreInv

\* Codes that an order gives back are nobody's.
LEMMA FreeQuiet ==
    ASSUME StoreInv, NEW o \in Orders,
           inventory' = [c \in Codes |-> IF c \in Held(o) THEN Free ELSE inventory[c]]
    PROVE  QuietCodes
BY HeldFacts DEF QuietCodes, Free

\* Sending an order to review is quiet.
LEMMA MarkOrderManualReviewQuiet ==
    ASSUME StoreInv, NEW o \in Orders, MarkOrderManualReview(o, "other")
    PROVE  QuietRows /\ QuietCodes
<1>1. CASE orders[o].status \in {"none", "delivered"}
  BY <1>1, SameStoreQuiet DEF MarkOrderManualReview
<1>2. CASE orders[o].status \notin {"none", "delivered"}
  <2>1. /\ orders' = SetStatus({o}, "manual_review", "other")
        /\ sent' = sent
        /\ \/ inventory' = Quarantine(Held(o))
           \/ inventory' = [c \in Codes |-> IF c \in Held(o) THEN Free ELSE inventory[c]]
    BY <1>2 DEF MarkOrderManualReview
  <2>2. QuietRows
    BY <1>2, <2>1, SetStatusQuiet DEF StoreInv
  <2>3. QuietCodes
    BY <2>1, QuarantineQuiet, FreeQuiet
  <2> QED BY <2>2, <2>3
<1> QED BY <1>1, <1>2

\* Quarantining what no platform order backs is quiet.
LEMMA QuarantineAutomaticOrdersQuiet ==
    ASSUME StoreInv, QuarantineAutomaticOrders
    PROVE  QuietRows /\ QuietCodes
<1>0. \A o \in Unproven \cap Orders : orders[o].status # "delivered"
  BY DEF Unproven, Live, Claimed
<1>1. QuietRows
  BY <1>0, SetStatusQuiet DEF QuarantineAutomaticOrders, StoreInv
<1>2. QuietCodes
  BY QuarantineQuiet DEF QuarantineAutomaticOrders
<1> QED BY <1>1, <1>2

\* Cancelling the orders of a conversation is quiet.
LEMMA CancelAwaitingForChatQuiet ==
    ASSUME StoreInv, NEW chat \in Chats, CancelAwaitingForChat(chat)
    PROVE  QuietRows /\ QuietCodes
<1> DEFINE unsent    == {o \in Orders : ChatOf[o] = chat /\ orders[o].status \in Live \ MaybeSent}
           uncertain == {o \in Orders : ChatOf[o] = chat /\ orders[o].status \in MaybeSent}
<1>1. /\ orders' = [o \in Orders |->
              IF o \in unsent THEN [orders[o] EXCEPT !.status = "cancelled"]
              ELSE SetStatus(uncertain, "manual_review", "other")[o]]
      /\ inventory' = [c \in Codes |->
              IF c \in HeldBy(unsent) THEN Free ELSE Quarantine(HeldBy(uncertain))[c]]
      /\ sent' = sent
  BY DEF CancelAwaitingForChat
<1>2. ASSUME NEW o \in Orders PROVE QuietRow(o)
  <2>1. orders[o] \in OrderRow
    BY DEF StoreInv, StoreTypeOK
  <2>2. CASE o \in unsent
    <3>1. orders'[o] = [orders[o] EXCEPT !.status = "cancelled"]
      BY <1>1, <2>2
    <3>2. orders[o].status # "delivered"
      BY <2>2 DEF Live, Claimed
    <3> QED BY <2>1, <3>1, <3>2 DEF QuietRow, OrderRow, Claimed
  <2>3. CASE o \notin unsent
    <3>1. orders'[o] = SetStatus(uncertain, "manual_review", "other")[o]
      BY <1>1, <2>3
    <3>2. o \in uncertain => orders[o].status # "delivered"
      BY DEF MaybeSent
    <3> HIDE DEF uncertain
    <3> QED BY <3>1, <3>2, StatusRows DEF QuietRow, Claimed, StoreInv
  <2> QED BY <2>2, <2>3
<1>3. ASSUME NEW c \in Codes, inventory'[c].status \in {"available", "reserved"}
      PROVE  inventory[c].status \in {"available", "reserved"}
  <2>1. CASE c \in HeldBy(unsent)
    <3>1. unsent \in SUBSET Orders
      OBVIOUS
    <3> HIDE DEF unsent
    <3> QED BY <2>1, <3>1, HeldByFacts
  <2>2. CASE c \notin HeldBy(unsent)
    <3>1. inventory'[c] = Quarantine(HeldBy(uncertain))[c]
      BY <1>1, <2>2
    <3> HIDE DEF unsent, uncertain
    <3> QED BY <1>3, <3>1, QuarantineRows DEF StoreInv
  <2> QED BY <2>1, <2>2
<1> QED BY <1>1, <1>2, <1>3 DEF QuietRows, QuietCodes

\* Giving an order back for a retry is quiet.
LEMMA MarkOrderRetryQuiet ==
    ASSUME StoreInv, NEW o \in Orders, MarkOrderRetry(o)
    PROVE  QuietRows /\ QuietCodes
<1>1. CASE orders[o].status = "sending"
  <2>1. orders' = SetStatus({o}, "retry", "other") /\ UNCHANGED <<inventory, sent>>
    BY <1>1 DEF MarkOrderRetry
  <2> QED BY <1>1, <2>1, SetStatusQuiet DEF StoreInv, Claimed, QuietCodes
<1>2. CASE orders[o].status # "sending"
  BY <1>2, SameStoreQuiet DEF MarkOrderRetry, storeVars
<1> QED BY <1>1, <1>2

\* Reporting a shipment is quiet.
LEMMA ShipQuiet ==
    ASSUME StoreTypeOK, NEW o \in Orders,
           MarkPlatformShipped(o) \/ RecordPlatformShipAttempt(o)
    PROVE  QuietRows /\ QuietCodes
<1>1. UNCHANGED <<inventory, sent>>
  BY DEF MarkPlatformShipped, RecordPlatformShipAttempt
<1>2. ASSUME NEW p \in Orders PROVE QuietRow(p)
  <2>1. orders[p] \in OrderRow
    BY DEF StoreTypeOK
  <2>2. \/ orders'[p] = orders[p]
        \/ orders'[p] = [orders[p] EXCEPT !.shipped = "yes"]
        \/ orders'[p] = [orders[p] EXCEPT !.attempts = @ + 1, !.reason = "other"]
    BY DEF MarkPlatformShipped, RecordPlatformShipAttempt, StoreTypeOK
  <2> QED BY <2>1, <2>2 DEF QuietRow, OrderRow
<1> QED BY <1>1, <1>2 DEF QuietRows, QuietCodes

\* Reviving what a takeover blocked is quiet.
LEMMA ReviveQuiet ==
    ASSUME StoreTypeOK, ReviveTakeoverBlockedOrders
    PROVE  QuietRows /\ QuietCodes
<1>0. \A o \in TakeoverBlocked \cap Orders :
         orders[o].status # "delivered" /\ orders[o].proof # "none"
  BY DEF TakeoverBlocked
<1>1. QuietRows
  BY <1>0, SetStatusQuiet DEF ReviveTakeoverBlockedOrders
<1> QED BY <1>1 DEF ReviveTakeoverBlockedOrders, QuietCodes

\* Importing the pool is quiet for the orders.
LEMMA ImportInventoryQuiet ==
    ASSUME StoreTypeOK, NEW m, ImportInventory(m)
    PROVE  QuietRows
<1>1. PICK hit : /\ orders' = SetStatus(hit, "manual_review", "other")
                 /\ sent' = sent
                 /\ \A o \in hit : orders[o].status \in Claimed
  BY DEF ImportInventory
<1> QED BY <1>1, SetStatusQuiet DEF Claimed

\* The start of a process is quiet.
LEMMA InitDbQuiet ==
    ASSUME StoreTypeOK, InitDb
    PROVE  QuietRows /\ QuietCodes
<1>1. QuietRows
  BY SetStatusQuiet DEF InitDb, Claimed
<1> QED BY <1>1 DEF InitDb, QuietCodes

-----------------------------------------------------------------------------
(* What a step may do to a row and to a task, and what that keeps.         *)

\* The rows as the senders see them.
RowMove(o) ==
    /\ orders[o].status = "delivered" => orders'[o].status = "delivered"
    /\ orders[o].delivery # "none" => orders'[o].delivery # "none"
    /\ orders'[o].status = "sending" =>
          \/ orders[o].status = "sending" /\ (SentAsRow(o) => SentAsRow(o)')
          \/ \E t \in Tasks :
                task[t].pc \notin Sending /\ task'[t].pc \in Sending /\ task'[t].o = o

\* One task moves.  It may take the lock of an order that nobody holds, it may leave
\* the try block only with its order settled, it waits for an acknowledgement only
\* of what it sent, and it reports shipments of delivered orders.
TaskMove(t) ==
    LET old == task[t]
        new == task'[t]
    IN  /\ phase = "up"
        /\ phase' = "up"
        /\ task' \in [Tasks -> TaskRow]
        /\ \A u \in Tasks \ {t} : task'[u] = task[u]
        /\ LocalsOf(t, new)
        /\ new.pc \in Locked =>
              \/ old.pc \in Locked /\ new.o = old.o
              \/ \A u \in Tasks \ {t} : task[u].pc \in Locked => task[u].o # new.o
        /\ new.pc \in Sending => orders'[new.o].delivery # "none"
        /\ \/ old.pc \in Sending => new.pc \in Sending /\ new.o = old.o
           \/ orders'[old.o].status # "sending"
        /\ \A o \in Orders :
              new.pc = "ack" /\ new.o = o /\ orders'[o].status = "sending" => SentAsRow(o)'
        /\ new.pc = "send" => cache'.synced /\ new.file = files'.manifest
        /\ new.pc \in {"ship", "consign"} => orders'[new.o].status = "delivered"
        /\ new.loop = "shipping" => \A o \in new.todo : orders'[o].status = "delivered"

\* Quiet transactions move the rows as the senders expect.
LEMMA QuietRowsMove ==
    ASSUME QuietRows, posted' = posted, NEW o \in Orders
    PROVE  RowMove(o)
BY DEF QuietRows, QuietRow, RowMove, SentAsRow

\* They keep what is known of the rows.
LEMMA QuietRowsKept ==
    ASSUME FulfillInv, QuietRows, posted' = posted
    PROVE  RowsOK' /\ DeliveredAsRow'
<1> USE DEF FulfillInv, RowsOK
<1>1. ASSUME NEW o \in PlatformOrders
      PROVE  PlatformRowOK(o)'
  <2>1. o \in Orders /\ QuietRow(o) /\ PlatformRowOK(o)
    BY FulfillmentAssumption DEF QuietRows
  <2>2. sent'[o] = sent[o] /\ posted'[o] = posted[o]
    BY DEF QuietRows
  <2> QED BY <2>1, <2>2 DEF QuietRow, PlatformRowOK
<1>2. ASSUME NEW o \in Orders \ PlatformOrders
      PROVE  NoticeRowOK(o)'
  BY DEF QuietRows, QuietRow, NoticeRowOK
<1>3. ASSUME NEW o \in PlatformOrders, orders'[o].status = "delivered"
      PROVE  SentAsRow(o)'
  <2>1. o \in Orders /\ QuietRow(o)
    BY FulfillmentAssumption DEF QuietRows
  <2> QED BY <1>3, <2>1 DEF QuietRows, QuietRow, DeliveredAsRow, SentAsRow
<1> QED BY <1>1, <1>2, <1>3 DEF DeliveredAsRow

\* A task that works on an order works on one of the platform.
LEMMA TaskOrders ==
    ASSUME FulfillInv, NEW t \in Tasks
    PROVE  /\ task[t] \in TaskRow
           /\ LocalsOf(t, task[t])
           /\ task[t].pc \in AtOrder => task[t].o \in PlatformOrders /\ task[t].o \in Orders
           /\ \A o \in task[t].todo : o \in PlatformOrders /\ o \in Orders
BY FulfillmentAssumption DEF FulfillInv, TypeOK, LocalsOK, LocalsOf

\* What such moves keep of the part of the invariant that relates tasks and rows.
LEMMA MovesKeep ==
    ASSUME FulfillInv, NEW t \in Tasks, TaskMove(t), \A o \in Orders : RowMove(o)
    PROVE  /\ LocalsOK'
           /\ ShipsAreDelivered'
           /\ LocksExclude'
           /\ StartIsClean'
           /\ SendersExist'
           /\ AcksAreBacked'
<1> USE DEF TaskMove
<1>1. LocalsOK'
  BY DEF FulfillInv, LocalsOK
<1>2. ShipsAreDelivered'
  <2> SUFFICES ASSUME NEW u \in Tasks
               PROVE  /\ task'[u].pc \in {"ship", "consign"} =>
                            orders'[task'[u].o].status = "delivered"
                      /\ task'[u].loop = "shipping" =>
                            \A o \in task'[u].todo : orders'[o].status = "delivered"
    BY DEF ShipsAreDelivered
  <2>1. CASE u = t
    BY <2>1
  <2>2. CASE u # t
    <3>1. task'[u] = task[u]
      BY <2>2
    <3>2. task[u].pc \in {"ship", "consign"} => task[u].o \in Orders
      BY TaskOrders DEF AtOrder, Locked
    <3> QED BY <3>1, <3>2, TaskOrders DEF FulfillInv, ShipsAreDelivered, RowMove
  <2> QED BY <2>1, <2>2
<1>3. LocksExclude'
  BY DEF FulfillInv, LocksExclude
<1>4. StartIsClean'
  BY DEF StartIsClean
<1>5. SendersExist'
  <2> SUFFICES ASSUME NEW o \in Orders, orders'[o].status = "sending"
               PROVE  \E u \in Tasks : task'[u].pc \in Sending /\ task'[u].o = o
    BY DEF SendersExist
  <2>1. CASE orders[o].status = "sending"
    <3>1. PICK u \in Tasks : task[u].pc \in Sending /\ task[u].o = o
      BY <2>1 DEF FulfillInv, SendersExist
    <3> QED BY <3>1
  <2>2. CASE orders[o].status # "sending"
    BY <2>2 DEF RowMove
  <2> QED BY <2>1, <2>2
<1>6. AcksAreBacked'
  <2> SUFFICES ASSUME NEW u \in Tasks
               PROVE  /\ task'[u].pc \in Sending => orders'[task'[u].o].delivery # "none"
                      /\ \A o \in Orders : task'[u].pc = "ack" /\ task'[u].o = o
                            /\ orders'[o].status = "sending" => SentAsRow(o)'
    BY DEF AcksAreBacked
  <2>1. CASE u = t
    BY <2>1
  <2>2. CASE u # t
    <3>1. task'[u] = task[u]
      BY <2>2
    <3>2. task[u].pc \in Sending => task[u].o \in Orders
      BY TaskOrders DEF AtOrder, Locked, Sending
    <3>3. task[u].pc \in Sending => RowMove(task[u].o)
      BY <3>2
    <3>4. task[u].pc \in Sending => orders'[task[u].o].delivery # "none"
      BY <3>3 DEF RowMove, FulfillInv, AcksAreBacked
    <3>5. ASSUME NEW o \in Orders, task[u].pc = "ack", task[u].o = o, orders'[o].status = "sending"
          PROVE  SentAsRow(o)'
      <4>1. task[u].pc \in Sending /\ task[u].pc \in Locked
        BY <3>5 DEF Sending, Locked
      <4>2. CASE orders[o].status = "sending" /\ (SentAsRow(o) => SentAsRow(o)')
        BY <3>5, <4>1, <4>2 DEF FulfillInv, AcksAreBacked
      <4>3. ASSUME NEW v \in Tasks, task[v].pc \notin Sending, task'[v].pc \in Sending, task'[v].o = o
            PROVE  FALSE
        <5>1. task'[v].pc \in Locked
          BY <4>3 DEF Sending, Locked
        <5>2. task'[u].pc \in Locked /\ task'[u].o = o
          BY <3>1, <3>5, <4>1
        <5>3. v = u
          BY <1>3, <4>3, <5>1, <5>2 DEF LocksExclude
        <5> QED BY <4>1, <4>3, <5>3
      <4> QED BY <3>3, <3>5, <4>2, <4>3 DEF RowMove
    <3> QED BY <3>1, <3>4, <3>5
  <2> QED BY <2>1, <2>2
<1> QED BY <1>1, <1>2, <1>3, <1>4, <1>5, <1>6

-----------------------------------------------------------------------------
(* The configuration and the pool.                                         *)

\* A step of the store that neither sends nor gives an order away, and leaves the
\* pool current; it does not add to the pool of a sender about to send.
CalmStep ==
    /\ [StoreStep]_storeVars
    /\ QuietRows
    /\ posted' = posted
    /\ files' = files
    /\ cache' \in [config : [PlatformOrders -> Configs], needed : BOOLEAN,
                   synced : BOOLEAN, usable : BOOLEAN]
    /\ \/ QuietCodes /\ cache' = cache
       \/ \A t \in Tasks : task[t].pc # "send"
    /\ PoolIsCurrent'

\* What a calm step needs when it does not look at the files.
LEMMA CalmWithoutRefresh ==
    ASSUME FulfillInv, [StoreStep]_storeVars, QuietRows, QuietCodes,
           UNCHANGED <<posted, files, cache>>
    PROVE  CalmStep
BY DEF CalmStep, FulfillInv, TypeOK, PoolIsCurrent, QuietCodes

\* A step that leaves the store, the messages and the caches alone is calm.
LEMMA SameStoreCalm ==
    ASSUME FulfillInv, UNCHANGED storeVars, UNCHANGED <<posted, files, cache>>
    PROVE  CalmStep
BY SameStoreQuiet, CalmWithoutRefresh

\* The first import of a pool leaves only codes in it that the file offers.
LEMMA ImportIsCurrent ==
    ASSUME StoreTypeOK, NEW m \in Manifests, ImportInventory(m), NEW c \in Codes,
           inventory'[c].status \in {"available", "reserved"}
    PROVE  m[c] = "unused"
<1>1. inventory[c] \in CodeRow
  BY DEF StoreTypeOK
<1>2. \E s \in {"quarantined", ImportedStatus(c, m)} :
          inventory'[c] = [inventory[c] EXCEPT !.status = s]
  BY DEF ImportInventory
<1>3. inventory'[c].status \in {"quarantined", ImportedStatus(c, m)}
  BY <1>1, <1>2 DEF CodeRow
<1>4. ImportedStatus(c, m) \in {"available", "reserved"} => m[c] = "unused"
  BY <1>1 DEF ImportedStatus, CodeRow, CodeStatuses, Manifests
<1> QED BY <1>3, <1>4

\* The configuration is loaded only while nobody is about to send.
LEMMA NobodySends ==
    ASSUME NEW t \in Tasks, Runnable(t), task[t].pc # "send"
    PROVE  \A u \in Tasks : task[u].pc # "send"
BY DEF Runnable, Sync

\* Loading the configuration is calm, and synchronises the pool.
LEMMA RefreshCalm ==
    ASSUME FulfillInv, Refresh, UNCHANGED <<posted, files>>,
           \A t \in Tasks : task[t].pc # "send"
    PROVE  /\ CalmStep
           /\ cache'.synced
           /\ cache'.config = files.config
<1> DEFINE fresh == IF cache.synced /\ cache.needed = Needed THEN cache.usable
                    ELSE Needed /\ files.manifest # Invalid
<1>1. cache' = [config |-> files.config, needed |-> Needed, synced |-> TRUE, usable |-> fresh]
  BY DEF Refresh
<1>2. Needed \in BOOLEAN /\ fresh \in BOOLEAN
  BY DEF Needed, FulfillInv, TypeOK
<1>3. files.config \in [PlatformOrders -> Configs]
      /\ files.manifest \in Manifests \cup {Invalid}
  BY DEF FulfillInv, TypeOK
<1>4. /\ cache' \in [config : [PlatformOrders -> Configs], needed : BOOLEAN,
                     synced : BOOLEAN, usable : BOOLEAN]
      /\ cache'.synced /\ cache'.config = files.config /\ cache'.usable = fresh
  <2> HIDE DEF fresh
  <2> QED BY <1>1, <1>2, <1>3
<1>5. CASE /\ ~(cache.synced /\ cache.needed = Needed) /\ Needed /\ files.manifest # Invalid
           /\ ImportInventory(files.manifest)
  <2>1. files.manifest \in Manifests
    BY <1>3, <1>5
  <2>2. StoreStep
    BY <1>5, <2>1 DEF StoreStep
  <2>3. QuietRows
    BY <1>5, ImportInventoryQuiet DEF FulfillInv, TypeOK
  <2>4. PoolIsCurrent'
    BY <1>5, ImportIsCurrent DEF PoolIsCurrent, FulfillInv, TypeOK
  <2> QED BY <1>4, <2>2, <2>3, <2>4 DEF CalmStep
<1>6. CASE /\ (cache.synced /\ cache.needed = Needed) \/ ~Needed \/ files.manifest = Invalid
           /\ UNCHANGED storeVars
  <2>1. fresh => cache.synced /\ cache.usable
    BY <1>6
  <2>2. PoolIsCurrent'
    BY <1>4, <1>6, <2>1 DEF PoolIsCurrent, FulfillInv, storeVars
  <2> QED BY <1>4, <1>6, <2>2, SameStoreQuiet DEF CalmStep
<1> QED BY <1>4, <1>5, <1>6 DEF Refresh

\* A task about to send the codes of an order found them all offered when it looked.
Offered(t, o) ==
    /\ task[t].pc = "send" /\ task[t].o = o
    /\ task[t].file # Invalid
    /\ \A c \in orders[o].ids : task[t].file[c] = "unused"

\* What every step must do: keep the invariant, be a transaction or leave the store
\* alone, and send only codes that the operator offered when the sender looked.
GoodStep ==
    /\ FulfillInv'
    /\ [StoreStep]_storeVars
    /\ \A o \in Orders : sent'[o] # sent[o] => \E t \in Tasks : Offered(t, o)

\* A sender that has just refreshed the pool offers what the file offers, and nobody
\* adds to the pool of a sender that is about to send.
LEMMA SendersStayCurrent ==
    ASSUME FulfillInv, NEW t \in Tasks, TaskMove(t), PoolIsCurrent',
           \/ QuietCodes /\ cache' = cache
           \/ \A u \in Tasks : task[u].pc # "send"
    PROVE  SendersAreCurrent'
<1> SUFFICES ASSUME NEW u \in Tasks, task'[u].pc = "send", cache'.usable
             PROVE  /\ task'[u].file # Invalid
                    /\ \A c \in Codes : inventory'[c].status \in {"available", "reserved"} =>
                          task'[u].file[c] = "unused"
  BY DEF SendersAreCurrent
<1>1. CASE u = t
  BY <1>1 DEF TaskMove, PoolIsCurrent
<1>2. CASE u # t
  <2>1. task'[u] = task[u]
    BY <1>2 DEF TaskMove
  <2> QED BY <2>1 DEF FulfillInv, SendersAreCurrent, QuietCodes
<1> QED BY <1>1, <1>2

\* A calm step of the store with a move of a task is good.
LEMMA CalmKeeps ==
    ASSUME FulfillInv, CalmStep, NEW t \in Tasks, TaskMove(t),
           platform' \in [PlatformOrders -> {"paid", "shipped", "closed"}],
           bound' \in SUBSET Chats
    PROVE  GoodStep
<1>1. StoreInv'
  BY StoreInvIsKept DEF CalmStep, FulfillInv
<1>2. RowsOK' /\ DeliveredAsRow'
  BY QuietRowsKept DEF CalmStep
<1>3. \A o \in Orders : RowMove(o)
  BY QuietRowsMove DEF CalmStep
<1>4. /\ LocalsOK' /\ ShipsAreDelivered' /\ LocksExclude' /\ StartIsClean'
      /\ SendersExist' /\ AcksAreBacked'
  BY <1>3, MovesKeep
<1>5. TypeOK'
  BY <1>1 DEF TypeOK, CalmStep, TaskMove, FulfillInv, StoreInv
<1>6. SendersAreCurrent'
  BY SendersStayCurrent DEF CalmStep
<1> QED BY <1>1, <1>2, <1>4, <1>5, <1>6 DEF FulfillInv, CalmStep, QuietRows, GoodStep

\* Most steps leave the platform and the bindings alone.
LEMMA CalmKeepsHere ==
    ASSUME FulfillInv, CalmStep, NEW t \in Tasks, TaskMove(t), UNCHANGED <<platform, bound>>
    PROVE  GoodStep
BY CalmKeeps DEF FulfillInv, TypeOK

-----------------------------------------------------------------------------
(* Where the tasks go.                                                     *)

\* A row for a task that holds no lock.
Outside(t, row) ==
    /\ row \in TaskRow
    /\ LocalsOf(t, row)
    /\ row.pc \notin Locked \cup {"consign"}
    /\ row.loop = "shipping" => \A o \in row.todo : orders[o].status = "delivered"

\* A task outside the try block may go wherever no lock is needed.
LEMMA OutsideMoves ==
    ASSUME FulfillInv, NEW t \in Tasks, NEW row, Outside(t, row),
           task' = [task EXCEPT ![t] = row], phase = "up", phase' = "up",
           task[t].pc \in Sending => orders'[task[t].o].status # "sending",
           QuietRows
    PROVE  TaskMove(t)
<1>1. /\ task' \in [Tasks -> TaskRow] /\ task'[t] = row
      /\ \A u \in Tasks \ {t} : task'[u] = task[u]
  BY DEF FulfillInv, TypeOK, Outside
<1>2. row.pc \notin Sending /\ row.pc \notin {"ack", "send", "ship", "consign"}
  BY DEF Outside, Locked, Sending
<1>3. row.loop = "shipping" => \A o \in row.todo : orders'[o].status = "delivered"
  BY FulfillmentAssumption DEF Outside, LocalsOf, QuietRows, QuietRow
<1> QED BY <1>1, <1>2, <1>3 DEF TaskMove, Outside

\* A step of a task at work happens while the worker runs.
LEMMA AtWork ==
    ASSUME FulfillInv, NEW t \in Tasks, task[t].pc # "idle"
    PROVE  phase = "up"
BY DEF FulfillInv, StartIsClean, Idle

\* The row of an idle task, and of one that goes on with its loop.
LEMMA IdleOutside ==
    ASSUME NEW t
    PROVE  Outside(t, Idle)
<1>1. Idle \in TaskRow
  BY DEF Idle, TaskRow, Pcs
<1>2. Idle.pc = "idle" /\ Idle.todo = {} /\ Idle.loop = "none"
  BY DEF Idle
<1> HIDE DEF Idle
<1> QED BY <1>1, <1>2 DEF Outside, LocalsOf, AtOrder, Locked, Seen, Configured

\* A task that resumes holds no lock and sends nothing.
LEMMA ResumedOutside ==
    ASSUME FulfillInv, NEW t \in Tasks
    PROVE  Outside(t, Resumed(t))
<1>1. task[t] \in TaskRow /\ task[t].todo \subseteq PlatformOrders
  BY TaskOrders DEF LocalsOf
<1>2. CASE task[t].loop = "none" \/ (task[t].loop = "sweep" /\ task[t].todo = {})
  BY <1>2, IdleOutside DEF Resumed
<1>3. CASE ~(task[t].loop = "none" \/ (task[t].loop = "sweep" /\ task[t].todo = {}))
  <2>1. PICK pc \in {"sweep", "next"} :
          /\ Resumed(t) = [Idle EXCEPT !.pc = pc, !.loop = task[t].loop, !.todo = task[t].todo]
          /\ pc = "next" => task[t].loop # "sweep"
    BY <1>3 DEF Resumed
  <2>2. pc \in Pcs
    BY DEF Pcs, Sync
  <2>3. Idle \in TaskRow
    BY IdleOutside DEF Outside
  <2>4. /\ Resumed(t) \in TaskRow
        /\ Resumed(t).pc = pc /\ Resumed(t).loop = task[t].loop /\ Resumed(t).todo = task[t].todo
    BY <1>1, <2>1, <2>2, <2>3 DEF TaskRow
  <2>5. pc = "next" => task[t].loop \in {"revived", "retryable", "shipping"}
    BY <1>1, <1>3, <2>1 DEF TaskRow
  <2>6. LocalsOf(t, Resumed(t))
    BY <1>1, <2>4, <2>5 DEF LocalsOf, AtOrder, Locked, Seen, Configured
  <2> QED BY <1>1, <2>4, <2>6 DEF Outside, Locked, FulfillInv, ShipsAreDelivered
<1> QED BY <1>2, <1>3

\* A task that is done with its order, for whatever reason.
Leaves(t) == Resume(t) \/ Abort(t) \/ task' = [task EXCEPT ![t] = Idle]

\* A task that leaves its order owes nothing.
LEMMA LeavesMoves ==
    ASSUME FulfillInv, NEW t \in Tasks, Leaves(t), phase = "up", phase' = "up", QuietRows,
           task[t].pc \in Sending => orders'[task[t].o].status # "sending"
    PROVE  TaskMove(t)
<1>1. PICK row \in {Idle, Resumed(t)} : task' = [task EXCEPT ![t] = row]
  BY DEF Leaves, Resume, Abort
<1>2. Outside(t, row)
  BY IdleOutside, ResumedOutside
<1> QED BY <1>1, <1>2, OutsideMoves

\* A task that changes its point only.
LEMMA PcRow ==
    ASSUME FulfillInv, NEW t \in Tasks, NEW pc \in Pcs
    PROVE  LET row == [task[t] EXCEPT !.pc = pc]
           IN  /\ row \in TaskRow
               /\ row.pc = pc
               /\ row.o = task[t].o /\ row.config = task[t].config /\ row.seen = task[t].seen
               /\ row.todo = task[t].todo /\ row.loop = task[t].loop
BY TaskOrders DEF TaskRow

\* A task that goes on without a lock and sends nothing.
LEMMA GotoOutside ==
    ASSUME FulfillInv, NEW t \in Tasks, NEW pc \in Pcs, Goto(t, pc), phase = "up", phase' = "up",
           task[t].pc \notin Sending, QuietRows,
           LocalsOf(t, [task[t] EXCEPT !.pc = pc]), pc \notin Locked \cup {"consign"}
    PROVE  TaskMove(t)
<1> DEFINE row == [task[t] EXCEPT !.pc = pc]
<1>1. task' = [task EXCEPT ![t] = row]
  BY DEF Goto
<1>2. Outside(t, row)
  BY PcRow DEF Outside, FulfillInv, ShipsAreDelivered
<1> QED BY <1>1, <1>2, OutsideMoves

-----------------------------------------------------------------------------
(* The inbound worker of a conversation.                                   *)

\* Any message refreshes the configuration.
LEMMA OtherMessageGood ==
    ASSUME FulfillInv, NEW t \in Tasks, OtherMessage(t)
    PROVE  GoodStep
<1>1. CalmStep
  BY RefreshCalm, NobodySends DEF OtherMessage, envVars
<1>2. PICK pc \in {"idle", "close"} : Goto(t, pc)
  BY DEF OtherMessage
<1>3. pc \in Pcs /\ pc \notin Locked \cup {"consign"} /\ task[t].pc \notin Sending
  BY DEF Pcs, Sync, Locked, Sending, OtherMessage
<1>4. LocalsOf(t, [task[t] EXCEPT !.pc = pc])
  BY <1>3, PcRow, TaskOrders DEF LocalsOf, AtOrder, Locked, Seen, Configured, OtherMessage
<1>5. TaskMove(t)
  BY <1>1, <1>2, <1>3, <1>4, GotoOutside DEF OtherMessage, Runnable, CalmStep
<1> QED BY <1>1, <1>5, CalmKeepsHere DEF OtherMessage, envVars

\* A closed trade cancels the orders of the conversation.
LEMMA TradeClosedGood ==
    ASSUME FulfillInv, NEW t \in Tasks, TradeClosed(t)
    PROVE  GoodStep
<1>1. t \in Chats
  BY TaskOrders DEF TradeClosed, LocalsOf
<1>2. StoreStep
  BY <1>1 DEF TradeClosed, StoreStep
<1>3. CalmStep
  BY <1>1, <1>2, CancelAwaitingForChatQuiet, CalmWithoutRefresh DEF TradeClosed, envVars, FulfillInv
<1>4. TaskMove(t)
  BY <1>3, AtWork, LeavesMoves DEF TradeClosed, Leaves, CalmStep, Sending
<1> QED BY <1>3, <1>4, CalmKeepsHere DEF TradeClosed, envVars

\* A payment notice starts a delivery, or a review of what cannot be delivered.
LEMMA HandlePaidOrderGood ==
    ASSUME FulfillInv, NEW t \in Tasks, NEW o \in PlatformOrders, HandlePaidOrder(t, o)
    PROVE  GoodStep
<1>1. CalmStep
  BY RefreshCalm, NobodySends DEF HandlePaidOrder, envVars
<1>2. PICK row : /\ task' = [task EXCEPT ![t] = row]
                 /\ \/ row = [Idle EXCEPT !.pc = "notice", !.o = Notice[o]]
                    \/ /\ row = [Idle EXCEPT !.pc = "head", !.o = o, !.config = files.config[o]]
                       /\ files.config[o].delivery # "none"
  BY DEF HandlePaidOrder
<1>3. /\ Notice[o] \in Orders
      /\ o \in Orders
      /\ files.config[o] \in Configs
  BY FulfillmentAssumption DEF FulfillInv, TypeOK
<1>4. Outside(t, row)
  <2>1. Idle \in TaskRow /\ {"notice", "head"} \subseteq Pcs
    BY DEF Idle, TaskRow, Pcs, Sync
  <2>2. row \in TaskRow
    BY <1>2, <1>3, <2>1 DEF TaskRow
  <2>3. /\ row.todo = {} /\ row.loop = "none"
        /\ \/ row.pc = "notice" /\ row.o \in Orders
           \/ /\ row.pc = "head" /\ row.o \in PlatformOrders
              /\ row.config \in Configs /\ row.config.delivery # "none"
    BY <1>2, <1>3 DEF Idle
  <2> QED BY <2>2, <2>3 DEF Outside, LocalsOf, AtOrder, Locked, Seen, Configured
<1>5. TaskMove(t)
  BY <1>1, <1>2, <1>4, OutsideMoves DEF HandlePaidOrder, Runnable, CalmStep, Sending
<1> QED BY <1>1, <1>5, CalmKeepsHere DEF HandlePaidOrder, envVars

\* A notice of an unknown order is recorded, then reviewed.
LEMMA RecordNoticeGood ==
    ASSUME FulfillInv, NEW t \in Tasks, RecordNotice(t)
    PROVE  GoodStep
<1>1. task[t].pc = "notice" /\ task[t].o \in Orders
  BY TaskOrders DEF RecordNotice, LocalsOf
<1>2. PICK late \in BOOLEAN : RecordPaymentEvent(task[t].o, late)
  BY DEF RecordNotice
<1>3. StoreStep
  BY <1>1, <1>2 DEF StoreStep
<1>4. CalmStep
  BY <1>1, <1>2, <1>3, RecordPaymentEventQuiet, CalmWithoutRefresh
  DEF RecordNotice, envVars, FulfillInv, TypeOK
<1>5. "review" \in Pcs /\ "review" \notin Locked \cup {"consign"} /\ task[t].pc \notin Sending
  BY <1>1 DEF Pcs, Sync, Locked, Sending
<1>6. LocalsOf(t, [task[t] EXCEPT !.pc = "review"])
  BY <1>1, <1>5, PcRow, TaskOrders DEF LocalsOf, AtOrder, Locked, Seen, Configured
<1>7. TaskMove(t)
  BY <1>1, <1>4, <1>5, <1>6, AtWork, GotoOutside DEF RecordNotice, CalmStep
<1> QED BY <1>4, <1>7, CalmKeepsHere DEF RecordNotice, envVars

\* What happens in review stays in review.
LEMMA ReviewOrderGood ==
    ASSUME FulfillInv, NEW t \in Tasks, ReviewOrder(t)
    PROVE  GoodStep
<1>1. task[t].pc = "review" /\ task[t].o \in Orders
  BY TaskOrders DEF ReviewOrder, LocalsOf
<1>2. StoreStep
  BY <1>1 DEF StoreStep, ReviewOrder, Reasons
<1>3. CalmStep
  BY <1>1, <1>2, MarkOrderManualReviewQuiet, CalmWithoutRefresh DEF ReviewOrder, envVars, FulfillInv
<1>4. TaskMove(t)
  BY <1>1, <1>3, AtWork, LeavesMoves DEF ReviewOrder, Leaves, CalmStep, Sending
<1> QED BY <1>3, <1>4, CalmKeepsHere DEF ReviewOrder, envVars

\* Goto from and to points that hold no lock, at which the locals stay as they are.
LEMMA GotoMoves ==
    ASSUME FulfillInv, NEW t \in Tasks, NEW pc \in Pcs, Goto(t, pc), phase' = "up", QuietRows,
           task[t].pc \notin Sending \cup {"idle"}, pc \notin Locked \cup {"consign", "close", "next", "listing"},
           pc \in {"notice", "review"} => task[t].o \in Orders,
           pc \in AtOrder => task[t].o \in PlatformOrders,
           pc \in Seen => task[t].seen # "none",
           pc \in Configured => task[t].config \in Configs /\ task[t].config.delivery # "none"
    PROVE  TaskMove(t)
<1>1. LocalsOf(t, [task[t] EXCEPT !.pc = pc])
  BY PcRow, TaskOrders DEF LocalsOf
<1> QED BY <1>1, AtWork, GotoOutside

\* The answer with the head of an order is only looked at.
LEMMA HeadAnswerGood ==
    ASSUME FulfillInv, NEW t \in Tasks, HeadAnswer(t)
    PROVE  GoodStep
<1>1. /\ task[t].pc = "head" /\ task[t].o \in PlatformOrders /\ task[t].o \in Orders
      /\ task[t].config \in Configs /\ task[t].config.delivery # "none"
      /\ task[t].pc \notin Sending \cup {"idle"}
      /\ task[t] \in TaskRow /\ task[t].todo \subseteq PlatformOrders
  BY TaskOrders DEF HeadAnswer, LocalsOf, AtOrder, Configured, Sending
<1>2. CalmStep /\ phase = "up" /\ phase' = "up" /\ UNCHANGED <<platform, bound>>
  BY SameStoreCalm DEF HeadAnswer, Runnable
<1>3. ASSUME Leaves(t) PROVE TaskMove(t)
  BY <1>1, <1>2, <1>3, LeavesMoves DEF CalmStep
<1>4. ASSUME task' = [task EXCEPT ![t].pc = "detail", ![t].known = orders[task[t].o].proof]
      PROVE  TaskMove(t)
  <2> DEFINE row == [task[t] EXCEPT !.pc = "detail", !.known = orders[task[t].o].proof]
  <2>1. task' = [task EXCEPT ![t] = row]
    BY <1>4
  <2>2. orders[task[t].o].proof \in {"none", "2", "other"}
    BY <1>1 DEF FulfillInv, TypeOK, StoreTypeOK, OrderRow
  <2>3. /\ row \in TaskRow /\ row.pc = "detail" /\ row.o = task[t].o /\ row.config = task[t].config
        /\ row.todo = task[t].todo /\ row.loop = task[t].loop
    BY <1>1, <2>2 DEF TaskRow, Pcs
  <2>4. Outside(t, row)
    BY <1>1, <2>3 DEF Outside, LocalsOf, AtOrder, Locked, Seen, Configured, FulfillInv,
                      ShipsAreDelivered
  <2> QED BY <1>1, <1>2, <2>1, <2>4, OutsideMoves DEF CalmStep
<1>5. ASSUME Goto(t, "notice") PROVE TaskMove(t)
  <2>1. /\ "notice" \in Pcs
        /\ "notice" \notin Locked \cup {"consign", "close", "next", "listing"} \cup AtOrder \cup Seen \cup Configured
    BY DEF Pcs, Sync, Locked, Seen, Configured, AtOrder
  <2> QED BY <1>1, <1>2, <1>5, <2>1, GotoMoves DEF CalmStep
<1>6. TaskMove(t)
  BY <1>3, <1>4, <1>5 DEF HeadAnswer, Leaves
<1> QED BY <1>2, <1>6, CalmKeepsHere

\* An order whose answers are in goes on to _fulfill_order or to a review.
LEMMA FulfilMoves ==
    ASSUME FulfillInv, NEW t \in Tasks, NEW reject, Fulfil(t, reject), phase' = "up", QuietRows,
           task[t].pc \in {"detail", "prove"}
    PROVE  TaskMove(t)
<1>1. /\ task[t] \in TaskRow /\ task[t].o \in PlatformOrders /\ task[t].o \in Orders
      /\ task[t].config \in Configs /\ task[t].config.delivery # "none"
      /\ task[t].todo \subseteq PlatformOrders
      /\ task[t].pc \notin Sending \cup {"idle"}
  BY TaskOrders DEF LocalsOf, AtOrder, Configured, Sending
<1>2. PICK pc \in {"review", "lock"} : task' = [task EXCEPT ![t].pc = pc,
                ![t].known = "none", ![t].seen = "none", ![t].reject = FALSE]
  BY DEF Fulfil
<1> DEFINE row == [task[t] EXCEPT !.pc = pc, !.known = "none", !.seen = "none", !.reject = FALSE]
<1>3. task' = [task EXCEPT ![t] = row]
  BY <1>2
<1>4. pc \in Pcs /\ pc \notin Locked \cup Seen \cup {"close", "next", "consign"}
  BY DEF Pcs, Sync, Locked, Seen
<1>5. /\ row \in TaskRow /\ row.pc = pc /\ row.o = task[t].o /\ row.config = task[t].config
      /\ row.todo = task[t].todo /\ row.loop = task[t].loop
  BY <1>1, <1>4 DEF TaskRow
<1>6. Outside(t, row)
  <2> HIDE DEF row
  <2> QED BY <1>1, <1>4, <1>5 DEF Outside, LocalsOf, FulfillInv, ShipsAreDelivered
<1> QED BY <1>1, <1>3, <1>6, AtWork, OutsideMoves

\* The answer with the details of an order is compared with what the row said.
LEMMA DetailAnswerGood ==
    ASSUME FulfillInv, NEW t \in Tasks, DetailAnswer(t)
    PROVE  GoodStep
<1>1. /\ task[t].pc = "detail" /\ task[t].o \in PlatformOrders /\ task[t].o \in Orders
      /\ task[t].config \in Configs /\ task[t].config.delivery # "none"
      /\ task[t].pc \notin Sending \cup {"idle"}
      /\ task[t] \in TaskRow /\ task[t].todo \subseteq PlatformOrders
  BY TaskOrders DEF DetailAnswer, LocalsOf, AtOrder, Configured, Sending
<1>2. CalmStep /\ phase = "up" /\ phase' = "up" /\ UNCHANGED <<platform, bound>>
  BY SameStoreCalm DEF DetailAnswer, Runnable
<1> DEFINE Proved(reject) == task' = [task EXCEPT ![t].pc = "record",
                ![t].seen = PlatformStatus(task[t].o), ![t].reject = reject]
<1>3. ASSUME NEW reject \in BOOLEAN, Proved(reject)
      PROVE  TaskMove(t)
  <2> DEFINE row == [task[t] EXCEPT !.pc = "record", !.seen = PlatformStatus(task[t].o),
                                    !.reject = reject]
  <2>1. task' = [task EXCEPT ![t] = row]
    BY <1>3
  <2>2. PlatformStatus(task[t].o) \in {"2", "other"}
    BY DEF PlatformStatus
  <2>3. "record" \in Pcs
    BY DEF Pcs, Sync
  <2>4. /\ row \in TaskRow /\ row.pc = "record" /\ row.o = task[t].o
        /\ row.config = task[t].config /\ row.todo = task[t].todo /\ row.loop = task[t].loop
        /\ row.seen # "none"
    BY <1>1, <2>2, <2>3 DEF TaskRow
  <2>5. Outside(t, row)
    <3> HIDE DEF row
    <3> QED BY <1>1, <2>4 DEF Outside, LocalsOf, Locked, FulfillInv, ShipsAreDelivered
  <2> QED BY <1>1, <1>2, <2>1, <2>5, OutsideMoves DEF CalmStep
<1>4. ASSUME NEW reject \in BOOLEAN, Fulfil(t, reject)
      PROVE  TaskMove(t)
  BY <1>1, <1>2, <1>4, FulfilMoves DEF CalmStep
<1>5. ASSUME Abort(t)
      PROVE  TaskMove(t)
  BY <1>1, <1>2, <1>5, LeavesMoves DEF CalmStep, Leaves
<1>6. \/ \E reject \in BOOLEAN : Proved(reject) \/ Fulfil(t, reject)
      \/ Abort(t)
  <2> DEFINE rejected ==
            \/ PlatformStatus(task[t].o) # "2"
            \/ task[t].known \notin {"none", PlatformStatus(task[t].o)}
            \/ task[t].config.delivery = "material" /\ Quantity[task[t].o] # 1
  <2>1. rejected \in BOOLEAN /\ TRUE \in BOOLEAN
    OBVIOUS
  <2>2. \/ Proved(rejected) \/ Fulfil(t, rejected)
        \/ Proved(TRUE) \/ Fulfil(t, TRUE)
        \/ Abort(t)
    BY DEF DetailAnswer
  <2> HIDE DEF rejected, Proved
  <2> QED BY <2>1, <2>2
<1>7. TaskMove(t)
  <2> HIDE DEF Proved
  <2> QED BY <1>3, <1>4, <1>5, <1>6
<1> QED BY <1>2, <1>7, CalmKeepsHere

\* The order is recorded, first as an event.
LEMMA RecordOrderGood ==
    ASSUME FulfillInv, NEW t \in Tasks, RecordOrder(t)
    PROVE  GoodStep
<1>1. /\ task[t].pc = "record" /\ task[t].o \in PlatformOrders /\ task[t].o \in Orders
      /\ task[t].config \in Configs /\ task[t].config.delivery # "none"
      /\ task[t].seen # "none"
      /\ task[t].pc \notin Sending \cup {"idle"}
  BY TaskOrders DEF RecordOrder, LocalsOf, AtOrder, Configured, Seen, Sending
<1>2. PICK late \in BOOLEAN : RecordPaymentEvent(task[t].o, late)
  BY DEF RecordOrder
<1>3. StoreStep
  BY <1>1, <1>2 DEF StoreStep
<1>4. CalmStep /\ phase' = phase /\ UNCHANGED <<platform, bound>>
  BY <1>1, <1>2, <1>3, RecordPaymentEventQuiet, CalmWithoutRefresh
  DEF RecordOrder, envVars, FulfillInv, TypeOK
<1>5. "prove" \in Pcs /\ "prove" \notin Locked \cup {"consign", "close", "next", "listing", "notice", "review"}
  BY DEF Pcs, Sync, Locked
<1>6. Goto(t, "prove")
  BY DEF RecordOrder
<1>7. TaskMove(t)
  BY <1>1, <1>4, <1>5, <1>6, AtWork, GotoMoves DEF CalmStep
<1> QED BY <1>4, <1>7, CalmKeepsHere

\* Then with the platform's proof; a proof that contradicts the row changes nothing.
LEMMA RecordProofGood ==
    ASSUME FulfillInv, NEW t \in Tasks, RecordProof(t)
    PROVE  GoodStep
<1>1. /\ task[t].pc = "prove" /\ task[t].o \in PlatformOrders /\ task[t].o \in Orders
      /\ task[t].seen \in {"2", "other"}
      /\ Quantity[task[t].o] \in 1 .. MaxQuantity
      /\ task[t].pc \notin Sending \cup {"idle"}
  BY TaskOrders, FulfillmentAssumption DEF RecordProof, LocalsOf, AtOrder, Seen, Sending, TaskRow
<1>2. phase' = phase /\ UNCHANGED <<platform, bound, posted, files, cache>>
  BY DEF RecordProof, envVars
<1>3. CASE Resume(t) /\ UNCHANGED storeVars
  <2>1. CalmStep
    BY <1>2, <1>3, SameStoreCalm
  <2>2. TaskMove(t)
    BY <1>1, <1>2, <1>3, <2>1, AtWork, LeavesMoves DEF CalmStep, Leaves
  <2> QED BY <1>2, <2>1, <2>2, CalmKeepsHere
<1>4. CASE /\ RecordVerified(task[t].o, task[t].seen, Quantity[task[t].o])
           /\ Fulfil(t, task[t].reject)
  <2>1. StoreStep
    BY <1>1, <1>4 DEF StoreStep
  <2>2. CalmStep
    BY <1>1, <1>2, <1>4, <2>1, RecordVerifiedQuiet, CalmWithoutRefresh DEF FulfillInv, TypeOK
  <2>3. TaskMove(t)
    BY <1>1, <1>2, <1>4, <2>2, AtWork, FulfilMoves DEF CalmStep
  <2> QED BY <1>2, <2>2, <2>3, CalmKeepsHere
<1> QED BY <1>3, <1>4 DEF RecordProof

-----------------------------------------------------------------------------
(* The pending-order scanner.                                              *)

\* A sweep begins with the configuration.
LEMMA ScanPendingOrdersGood ==
    ASSUME FulfillInv, NEW t \in Tasks, ScanPendingOrders(t)
    PROVE  GoodStep
<1>1. CalmStep /\ phase = "up" /\ phase' = "up" /\ UNCHANGED <<platform, bound>>
  BY RefreshCalm, NobodySends DEF ScanPendingOrders, envVars, Runnable
<1>2. PICK row \in {Idle, [Idle EXCEPT !.pc = "listing", !.loop = "sweep"]} :
          task' = [task EXCEPT ![t] = row]
  BY DEF ScanPendingOrders
<1>3. Outside(t, row)
  <2>1. Outside(t, [Idle EXCEPT !.pc = "listing", !.loop = "sweep"])
    BY DEF Outside, LocalsOf, Idle, TaskRow, Pcs, Sync, AtOrder, Locked, Seen, Configured
  <2> QED BY <2>1, IdleOutside
<1>4. task[t].pc \notin Sending
  BY DEF ScanPendingOrders, Sending
<1>5. TaskMove(t)
  BY <1>1, <1>2, <1>3, <1>4, OutsideMoves DEF CalmStep
<1> QED BY <1>1, <1>5, CalmKeepsHere

\* The list of paid orders is what the sweep works on.
LEMMA ListingAnswerGood ==
    ASSUME FulfillInv, NEW t \in Tasks, ListingAnswer(t)
    PROVE  GoodStep
<1>1. CalmStep /\ phase = "up" /\ phase' = "up" /\ UNCHANGED <<platform, bound>>
  BY SameStoreCalm DEF ListingAnswer, Runnable
<1>2. task[t].pc \notin Sending /\ task[t] \in TaskRow /\ task[t].loop = "sweep"
  BY TaskOrders DEF ListingAnswer, Sending, LocalsOf
<1>3. ASSUME Leaves(t) PROVE TaskMove(t)
  BY <1>1, <1>2, <1>3, LeavesMoves DEF CalmStep
<1> DEFINE paid == {o \in PlatformOrders : platform[o] = "paid"}
           row == [task[t] EXCEPT !.pc = "sweep", !.todo = paid]
<1>4. ASSUME task' = [task EXCEPT ![t] = row]
      PROVE  TaskMove(t)
  <2>1. paid \subseteq PlatformOrders /\ paid \subseteq Orders
    BY FulfillmentAssumption
  <2>2. row \in TaskRow /\ row.pc = "sweep" /\ row.todo = paid /\ row.loop = task[t].loop
    <3> HIDE DEF paid
    <3> QED BY <1>2, <2>1 DEF TaskRow, Pcs, Sync
  <2>3. Outside(t, row)
    <3> HIDE DEF row, paid
    <3> QED BY <1>2, <2>1, <2>2 DEF Outside, LocalsOf, AtOrder, Locked, Seen, Configured
  <2> HIDE DEF row
  <2> QED BY <1>1, <1>2, <1>4, <2>3, OutsideMoves DEF CalmStep
<1>5. TaskMove(t)
  <2>1. Leaves(t) \/ task' = [task EXCEPT ![t] = row]
    BY DEF ListingAnswer, Leaves
  <2> HIDE DEF row
  <2> QED BY <1>3, <1>4, <2>1
<1> QED BY <1>1, <1>5, CalmKeepsHere

\* An order is taken from the sweep if it has a product and is not settled.
LEMMA ReconcilePendingOrderGood ==
    ASSUME FulfillInv, NEW t \in Tasks, ReconcilePendingOrder(t)
    PROVE  GoodStep
<1>1. /\ task[t].pc = "sweep" /\ task[t] \in TaskRow
      /\ task[t].todo \subseteq PlatformOrders
      /\ \A o \in task[t].todo : o \in PlatformOrders /\ o \in Orders
      /\ task[t].pc \notin Sending \cup {"idle"}
  BY TaskOrders DEF ReconcilePendingOrder, Sending, LocalsOf
<1>2. CalmStep /\ phase' = phase /\ UNCHANGED <<platform, bound>>
  BY SameStoreCalm DEF ReconcilePendingOrder, envVars
<1>3. PICK o \in task[t].todo :
         \/ Leaves(t)
         \/ task' = [task EXCEPT ![t] = [@ EXCEPT !.todo = task[t].todo \ {o}]]
         \/ /\ classify_item(o).delivery # "none"
            /\ \E pc \in {"sdetail", "sdetail_unbound"} :
                  task' = [task EXCEPT ![t] = [@ EXCEPT !.pc = pc, !.o = o,
                              !.config = classify_item(o), !.todo = task[t].todo \ {o}]]
  BY DEF ReconcilePendingOrder, Leaves
<1>4. ASSUME Leaves(t) PROVE TaskMove(t)
  BY <1>1, <1>2, <1>4, AtWork, LeavesMoves DEF CalmStep
<1>5. ASSUME task' = [task EXCEPT ![t] = [@ EXCEPT !.todo = task[t].todo \ {o}]]
      PROVE  TaskMove(t)
  <2> DEFINE row == [task[t] EXCEPT !.todo = task[t].todo \ {o}]
  <2>1. task' = [task EXCEPT ![t] = row]
    BY <1>5
  <2>2. /\ row \in TaskRow /\ row.pc = "sweep" /\ row.loop = task[t].loop
        /\ row.todo = task[t].todo \ {o}
    BY <1>1 DEF TaskRow
  <2>3. Outside(t, row)
    <3> HIDE DEF row
    <3> QED BY <1>1, <2>2 DEF Outside, LocalsOf, AtOrder, Locked, Seen, Configured, FulfillInv,
                             ShipsAreDelivered
  <2> HIDE DEF row
  <2> QED BY <1>1, <1>2, <2>1, <2>3, AtWork, OutsideMoves DEF CalmStep
<1>6. ASSUME NEW pc \in {"sdetail", "sdetail_unbound"},
             classify_item(o).delivery # "none",
             task' = [task EXCEPT ![t] = [@ EXCEPT !.pc = pc, !.o = o,
                              !.config = classify_item(o), !.todo = task[t].todo \ {o}]]
      PROVE  TaskMove(t)
  <2> DEFINE row == [task[t] EXCEPT !.pc = pc, !.o = o, !.config = classify_item(o),
                                    !.todo = task[t].todo \ {o}]
  <2>1. task' = [task EXCEPT ![t] = row]
    BY <1>6
  <2>2. o \in PlatformOrders /\ o \in Orders
    BY <1>1, <1>3
  <2>3. classify_item(o) \in Configs /\ pc \in Pcs
    BY <2>2 DEF classify_item, FulfillInv, TypeOK, Pcs
  <2>4. /\ row \in TaskRow /\ row.pc = pc /\ row.loop = task[t].loop
        /\ row.o = o /\ row.config = classify_item(o) /\ row.todo = task[t].todo \ {o}
    BY <1>1, <2>2, <2>3 DEF TaskRow
  <2>5. Outside(t, row)
    <3> HIDE DEF row
    <3> QED BY <1>1, <1>6, <2>2, <2>3, <2>4 DEF Outside, LocalsOf, Locked, Seen, FulfillInv,
                                                ShipsAreDelivered
  <2> HIDE DEF row
  <2> QED BY <1>1, <1>2, <2>1, <2>5, AtWork, OutsideMoves DEF CalmStep
<1>7. TaskMove(t)
  BY <1>3, <1>4, <1>5, <1>6
<1> QED BY <1>2, <1>7, CalmKeepsHere

\* The scanner looks at the details and goes on only with a paid order.
LEMMA ScanDetailAnswerGood ==
    ASSUME FulfillInv, NEW t \in Tasks, ScanDetailAnswer(t)
    PROVE  GoodStep
<1>1. /\ task[t].pc \in {"sdetail", "sdetail_unbound"} /\ task[t] \in TaskRow
      /\ task[t].o \in PlatformOrders /\ task[t].todo \subseteq PlatformOrders
      /\ task[t].config \in Configs /\ task[t].config.delivery # "none"
      /\ task[t].pc \notin Sending
  BY TaskOrders DEF ScanDetailAnswer, Sending, LocalsOf, AtOrder, Configured
<1>2. CalmStep /\ phase = "up" /\ phase' = "up" /\ UNCHANGED <<platform, bound>>
  BY SameStoreCalm DEF ScanDetailAnswer, Runnable
<1>3. ASSUME Leaves(t) PROVE TaskMove(t)
  BY <1>1, <1>2, <1>3, LeavesMoves DEF CalmStep
<1>4. ASSUME NEW pc \in {"record", "conversation"},
             task' = [task EXCEPT ![t].seen = "2", ![t].pc = pc]
      PROVE  TaskMove(t)
  <2> DEFINE row == [task[t] EXCEPT !.seen = "2", !.pc = pc]
  <2>1. task' = [task EXCEPT ![t] = row]
    BY <1>4
  <2>2. pc \in Pcs
    BY DEF Pcs, Sync
  <2>3. /\ row \in TaskRow /\ row.pc = pc /\ row.loop = task[t].loop /\ row.seen = "2"
        /\ row.o = task[t].o /\ row.config = task[t].config /\ row.todo = task[t].todo
    BY <1>1, <2>2 DEF TaskRow
  <2>4. Outside(t, row)
    <3> HIDE DEF row
    <3> QED BY <1>1, <2>3 DEF Outside, LocalsOf, Locked, FulfillInv, ShipsAreDelivered
  <2> HIDE DEF row
  <2> QED BY <1>1, <1>2, <2>1, <2>4, OutsideMoves DEF CalmStep
<1>5. Leaves(t) \/ \E pc \in {"record", "conversation"} :
                      task' = [task EXCEPT ![t].seen = "2", ![t].pc = pc]
  BY DEF ScanDetailAnswer, Leaves
<1>6. TaskMove(t)
  BY <1>3, <1>4, <1>5
<1> QED BY <1>2, <1>6, CalmKeepsHere

\* The conversation of an order becomes known, or stays unknown.
LEMMA ConversationAnswerGood ==
    ASSUME FulfillInv, NEW t \in Tasks, ConversationAnswer(t)
    PROVE  GoodStep
<1>1. /\ task[t].pc = "conversation" /\ task[t] \in TaskRow
      /\ task[t].o \in PlatformOrders /\ task[t].o \in Orders
      /\ task[t].seen # "none"
      /\ task[t].config \in Configs /\ task[t].config.delivery # "none"
      /\ task[t].pc \notin Sending \cup {"idle"}
  BY TaskOrders DEF ConversationAnswer, Sending, LocalsOf, AtOrder, Configured, Seen
<1>2. CalmStep /\ phase = "up" /\ phase' = "up" /\ platform' = platform
  BY SameStoreCalm DEF ConversationAnswer, Runnable
<1>3. bound' \in SUBSET Chats
  <2>1. ChatOf[task[t].o] \in Chats
    BY <1>1, StoreAssumption
  <2> QED BY <2>1 DEF ConversationAnswer, FulfillInv, TypeOK
<1>4. ASSUME Leaves(t) PROVE TaskMove(t)
  BY <1>1, <1>2, <1>4, LeavesMoves DEF CalmStep
<1>5. ASSUME Goto(t, "record") PROVE TaskMove(t)
  <2>1. /\ "record" \in Pcs
        /\ "record" \notin Locked \cup {"consign", "close", "next", "listing", "notice", "review"}
    BY DEF Pcs, Sync, Locked
  <2> QED BY <1>1, <1>2, <1>5, <2>1, GotoMoves DEF CalmStep
<1>6. TaskMove(t)
  BY <1>4, <1>5 DEF ConversationAnswer, Leaves
<1> QED BY <1>2, <1>3, <1>6, CalmKeeps DEF FulfillInv, TypeOK

\* An order that is given back, or sent to review, has no sender any more.
LEMMA GivenBack ==
    ASSUME FulfillInv, NEW o \in Orders, MarkOrderRetry(o) \/ MarkOrderManualReview(o, "other")
    PROVE  orders'[o].status # "sending"
<1>1. orders' = orders \/ \E s \in {"retry", "manual_review"} : orders' = SetStatus({o}, s, "other")
  BY DEF MarkOrderRetry, MarkOrderManualReview, storeVars
<1>3. CASE orders[o].status = "sending"
  <2>1. PICK s \in {"retry", "manual_review"} : orders' = SetStatus({o}, s, "other")
    BY <1>3 DEF MarkOrderRetry, MarkOrderManualReview
  <2> QED BY <2>1, StatusRows DEF FulfillInv, TypeOK
<1>4. CASE orders[o].status # "sending"
  BY <1>1, <1>4, StatusRows DEF FulfillInv, TypeOK
<1> QED BY <1>3, <1>4

\* A cancelled scanner gives a claimed order back.
LEMMA CancelScannerGood ==
    ASSUME FulfillInv, NEW t \in Tasks, CancelScanner(t)
    PROVE  GoodStep
<1>1. phase = "up" /\ phase' = "up" /\ UNCHANGED <<platform, bound, posted, files, cache>>
      /\ Leaves(t)
  BY DEF CancelScanner, Runnable, Leaves
<1>2. CASE task[t].pc \in Sending /\ MarkOrderRetry(task[t].o)
  <2>1. task[t].o \in Orders
    BY <1>2, TaskOrders DEF AtOrder, Locked, Sending
  <2>2. StoreStep
    BY <1>2, <2>1 DEF StoreStep
  <2>3. CalmStep
    BY <1>1, <1>2, <2>1, <2>2, MarkOrderRetryQuiet, CalmWithoutRefresh DEF FulfillInv
  <2>4. orders'[task[t].o].status # "sending"
    BY <1>2, <2>1, GivenBack
  <2>5. TaskMove(t)
    BY <1>1, <2>3, <2>4, LeavesMoves DEF CalmStep
  <2> QED BY <1>1, <2>3, <2>5, CalmKeepsHere
<1>3. CASE task[t].pc \notin Sending /\ UNCHANGED storeVars
  <2>1. CalmStep
    BY <1>1, <1>3, SameStoreCalm
  <2>2. TaskMove(t)
    BY <1>1, <1>3, <2>1, LeavesMoves DEF CalmStep
  <2> QED BY <1>1, <2>1, <2>2, CalmKeepsHere
<1> QED BY <1>2, <1>3 DEF CancelScanner

-----------------------------------------------------------------------------
(* The retry tasks.                                                        *)

\* An order with a proof is one of the platform.
LEMMA ProvenArePlatform ==
    ASSUME FulfillInv, NEW o \in Orders, orders[o].proof # "none"
    PROVE  o \in PlatformOrders
BY DEF FulfillInv, RowsOK, NoticeRowOK

\* A retry begins with the configuration.
LEMMA RetryPendingDeliveriesGood ==
    ASSUME FulfillInv, NEW t \in Tasks, RetryPendingDeliveries(t)
    PROVE  GoodStep
<1>1. CalmStep /\ phase = "up" /\ phase' = "up" /\ UNCHANGED <<platform, bound>>
  BY RefreshCalm, NobodySends DEF RetryPendingDeliveries, envVars, Runnable
<1>2. /\ Goto(t, "quarantine") /\ "quarantine" \in Pcs
      /\ "quarantine" \notin Locked \cup AtOrder \cup Seen \cup Configured
                              \cup {"consign", "close", "next", "listing", "notice", "review"}
      /\ task[t].pc \notin Sending
  BY DEF RetryPendingDeliveries, Pcs, Sync, Locked, AtOrder, Seen, Configured, Sending
<1>3. LocalsOf(t, [task[t] EXCEPT !.pc = "quarantine"])
  BY <1>2, PcRow, TaskOrders DEF LocalsOf
<1>4. TaskMove(t)
  BY <1>1, <1>2, <1>3, GotoOutside DEF CalmStep
<1> QED BY <1>1, <1>4, CalmKeepsHere

\* It quarantines what no platform order backs ...
LEMMA RetryQuarantineGood ==
    ASSUME FulfillInv, NEW t \in Tasks, RetryQuarantine(t)
    PROVE  GoodStep
<1>1. phase' = phase /\ UNCHANGED <<platform, bound, posted, files, cache>>
  BY DEF RetryQuarantine, envVars
<1>2. CalmStep
  BY <1>1, QuarantineAutomaticOrdersQuiet, CalmWithoutRefresh
  DEF RetryQuarantine, FulfillInv, StoreStep
<1>3. /\ Goto(t, "revive") /\ "revive" \in Pcs
      /\ "revive" \notin Locked \cup AtOrder \cup Seen \cup Configured
                              \cup {"consign", "close", "next", "listing", "notice", "review"}
      /\ task[t].pc \notin Sending \cup {"idle"}
  BY DEF RetryQuarantine, Pcs, Sync, Locked, AtOrder, Seen, Configured, Sending
<1>4. TaskMove(t)
  BY <1>1, <1>2, <1>3, AtWork, GotoMoves DEF CalmStep
<1> QED BY <1>1, <1>2, <1>4, CalmKeepsHere

\* ... revives what a takeover blocked ...
LEMMA RetryReviveGood ==
    ASSUME FulfillInv, NEW t \in Tasks, RetryRevive(t)
    PROVE  GoodStep
<1>1. phase' = phase /\ UNCHANGED <<platform, bound, posted, files, cache>>
  BY DEF RetryRevive, envVars
<1>2. CalmStep
  BY <1>1, ReviveQuiet, CalmWithoutRefresh DEF RetryRevive, FulfillInv, TypeOK, StoreStep
<1> DEFINE row == [task[t] EXCEPT !.pc = "next", !.loop = "revived", !.todo = TakeoverBlocked]
<1>3. task' = [task EXCEPT ![t] = row]
  BY DEF RetryRevive
<1>4. TakeoverBlocked \subseteq PlatformOrders /\ TakeoverBlocked \subseteq Orders
  BY ProvenArePlatform DEF TakeoverBlocked
<1>5. task[t] \in TaskRow /\ task[t].pc \notin Sending \cup {"idle"}
  BY TaskOrders DEF RetryRevive, Sending
<1>6. row \in TaskRow /\ row.pc = "next" /\ row.loop = "revived" /\ row.todo = TakeoverBlocked
  BY <1>4, <1>5 DEF TaskRow, Pcs, Sync
<1>7. Outside(t, row)
  <2> HIDE DEF row
  <2> QED BY <1>4, <1>6 DEF Outside, LocalsOf, AtOrder, Locked, Seen, Configured
<1>8. TaskMove(t)
  <2> HIDE DEF row
  <2> QED BY <1>1, <1>2, <1>3, <1>5, <1>7, AtWork, OutsideMoves DEF CalmStep
<1> QED BY <1>1, <1>2, <1>8, CalmKeepsHere

\* ... and works through its lists: a product that is gone sends the order to review.
LEMMA NextInLoopGood ==
    ASSUME FulfillInv, NEW t \in Tasks, NextInLoop(t)
    PROVE  GoodStep
<1>1. /\ task[t].pc = "next" /\ task[t] \in TaskRow
      /\ task[t].todo \subseteq PlatformOrders
      /\ task[t].loop \in {"revived", "retryable", "shipping"}
      /\ task[t].pc \notin Sending \cup {"idle"}
  BY TaskOrders DEF NextInLoop, Sending, LocalsOf
<1>2. phase' = phase /\ UNCHANGED <<platform, bound, posted, files, cache>>
  BY DEF NextInLoop, envVars
<1>3. PICK o \in task[t].todo :
         \/ /\ task[t].loop = "shipping"
            /\ task' = [task EXCEPT ![t].pc = "consign", ![t].o = o, ![t].todo = @ \ {o}]
            /\ UNCHANGED storeVars
         \/ /\ task[t].loop # "shipping"
            /\ MarkOrderManualReview(o, "other")
            /\ task' = [task EXCEPT ![t].todo = @ \ {o}]
         \/ /\ task[t].loop # "shipping"
            /\ classify_item(o).delivery # "none"
            /\ task' = [task EXCEPT ![t].pc = "lock", ![t].o = o,
                            ![t].config = classify_item(o), ![t].todo = @ \ {o}]
            /\ UNCHANGED storeVars
  BY DEF NextInLoop
<1>4. o \in PlatformOrders /\ o \in Orders
  BY TaskOrders
<1>5. CASE /\ task[t].loop = "shipping"
           /\ task' = [task EXCEPT ![t].pc = "consign", ![t].o = o, ![t].todo = @ \ {o}]
           /\ UNCHANGED storeVars
  <2>1. CalmStep
    BY <1>2, <1>5, SameStoreCalm
  <2> DEFINE row == [task[t] EXCEPT !.pc = "consign", !.o = o, !.todo = @ \ {o}]
  <2>2. task' = [task EXCEPT ![t] = row]
    BY <1>5
  <2>3. /\ row \in TaskRow /\ row.pc = "consign" /\ row.o = o
        /\ row.todo = task[t].todo \ {o} /\ row.loop = task[t].loop
    BY <1>1, <1>4 DEF TaskRow, Pcs
  <2>4. LocalsOf(t, row)
    <3> HIDE DEF row
    <3> QED BY <1>1, <1>4, <2>3 DEF LocalsOf, AtOrder, Locked, Seen, Configured
  <2>5. \A p \in task[t].todo : orders'[p].status = "delivered"
    BY <1>5 DEF FulfillInv, ShipsAreDelivered, storeVars
  <2>6. /\ task' \in [Tasks -> TaskRow] /\ task'[t] = row
        /\ \A u \in Tasks \ {t} : task'[u] = task[u]
    <3> HIDE DEF row
    <3> QED BY <2>2, <2>3 DEF FulfillInv, TypeOK
  <2>7. TaskMove(t)
    <3>1. row.pc \notin Locked \cup Sending \cup {"ack", "send"}
      BY <2>3 DEF Locked, Sending
    <3> HIDE DEF row
    <3> QED BY <1>1, <1>2, <1>4, <2>3, <2>4, <2>5, <2>6, <3>1, AtWork DEF TaskMove
  <2> QED BY <1>2, <2>1, <2>7, CalmKeepsHere
<1>6. CASE /\ task[t].loop # "shipping"
           /\ MarkOrderManualReview(o, "other")
           /\ task' = [task EXCEPT ![t].todo = @ \ {o}]
  <2>1. StoreStep
    BY <1>4, <1>6 DEF StoreStep, Reasons
  <2>2. CalmStep
    BY <1>2, <1>4, <1>6, <2>1, MarkOrderManualReviewQuiet, CalmWithoutRefresh DEF FulfillInv
  <2> DEFINE row == [task[t] EXCEPT !.todo = @ \ {o}]
  <2>3. task' = [task EXCEPT ![t] = row]
    BY <1>6
  <2>4. /\ row \in TaskRow /\ row.pc = "next" /\ row.todo = task[t].todo \ {o}
        /\ row.loop = task[t].loop
    BY <1>1 DEF TaskRow
  <2>5. Outside(t, row)
    <3> HIDE DEF row
    <3> QED BY <1>1, <1>6, <2>4 DEF Outside, LocalsOf, AtOrder, Locked, Seen, Configured
  <2>6. TaskMove(t)
    <3> HIDE DEF row
    <3> QED BY <1>1, <1>2, <2>2, <2>3, <2>5, AtWork, OutsideMoves DEF CalmStep
  <2> QED BY <1>2, <2>2, <2>6, CalmKeepsHere
<1>7. CASE /\ task[t].loop # "shipping"
           /\ classify_item(o).delivery # "none"
           /\ task' = [task EXCEPT ![t].pc = "lock", ![t].o = o,
                            ![t].config = classify_item(o), ![t].todo = @ \ {o}]
           /\ UNCHANGED storeVars
  <2>1. CalmStep
    BY <1>2, <1>7, SameStoreCalm
  <2> DEFINE row == [task[t] EXCEPT !.pc = "lock", !.o = o, !.config = classify_item(o),
                                    !.todo = @ \ {o}]
  <2>2. task' = [task EXCEPT ![t] = row]
    BY <1>7
  <2>3. classify_item(o) \in Configs
    BY <1>4 DEF classify_item, FulfillInv, TypeOK
  <2>4. /\ row \in TaskRow /\ row.pc = "lock" /\ row.o = o /\ row.config = classify_item(o)
        /\ row.todo = task[t].todo \ {o} /\ row.loop = task[t].loop
    BY <1>1, <1>4, <2>3 DEF TaskRow, Pcs
  <2>5. Outside(t, row)
    <3> HIDE DEF row
    <3> QED BY <1>1, <1>4, <1>7, <2>3, <2>4 DEF Outside, LocalsOf, Locked, Seen
  <2>6. TaskMove(t)
    <3> HIDE DEF row
    <3> QED BY <1>1, <1>2, <2>1, <2>2, <2>5, AtWork, OutsideMoves DEF CalmStep
  <2> QED BY <1>2, <2>1, <2>6, CalmKeepsHere
<1> QED BY <1>3, <1>5, <1>6, <1>7

\* The next list is a snapshot of the rows that qualify.
LEMMA EndOfLoopGood ==
    ASSUME FulfillInv, NEW t \in Tasks, EndOfLoop(t)
    PROVE  GoodStep
<1>1. /\ task[t].pc = "next" /\ task[t] \in TaskRow
      /\ task[t].loop \in {"revived", "retryable", "shipping"}
      /\ task[t].pc \notin Sending \cup {"idle"}
  BY TaskOrders DEF EndOfLoop, Sending, LocalsOf
<1>2. CalmStep /\ phase' = phase /\ UNCHANGED <<platform, bound>>
  BY SameStoreCalm DEF EndOfLoop, envVars
<1>3. \/ Leaves(t)
      \/ task' = [task EXCEPT ![t] = [@ EXCEPT !.loop = "retryable", !.todo = RetryableOrders]]
      \/ task' = [task EXCEPT ![t] = [@ EXCEPT !.loop = "shipping",
                                               !.todo = PendingPlatformShipments]]
  BY <1>1 DEF EndOfLoop, Leaves
<1>4. ASSUME Leaves(t) PROVE TaskMove(t)
  BY <1>1, <1>2, <1>4, AtWork, LeavesMoves DEF CalmStep
<1>5. ASSUME NEW loop \in {"retryable", "shipping"}, NEW list \in SUBSET Orders,
             \/ loop = "retryable" /\ list = RetryableOrders
             \/ loop = "shipping" /\ list = PendingPlatformShipments,
             task' = [task EXCEPT ![t] = [@ EXCEPT !.loop = loop, !.todo = list]]
      PROVE  TaskMove(t)
  <2>1. /\ list \subseteq PlatformOrders
        /\ loop = "shipping" => \A o \in list : orders[o].status = "delivered"
    BY <1>5, ProvenArePlatform DEF RetryableOrders, PendingPlatformShipments, HasProof
  <2> DEFINE row == [task[t] EXCEPT !.loop = loop, !.todo = list]
  <2>2. task' = [task EXCEPT ![t] = row]
    BY <1>5
  <2>3. row \in TaskRow /\ row.pc = "next" /\ row.loop = loop /\ row.todo = list
    BY <1>1 DEF TaskRow
  <2>4. Outside(t, row)
    <3> HIDE DEF row
    <3> QED BY <2>1, <2>3 DEF Outside, LocalsOf, AtOrder, Locked, Seen, Configured
  <2> HIDE DEF row
  <2> QED BY <1>1, <1>2, <2>2, <2>4, AtWork, OutsideMoves DEF CalmStep
<1>6. RetryableOrders \in SUBSET Orders /\ PendingPlatformShipments \in SUBSET Orders
  BY DEF RetryableOrders, PendingPlatformShipments
<1>7. TaskMove(t)
  BY <1>3, <1>4, <1>5, <1>6
<1> QED BY <1>2, <1>7, CalmKeepsHere

-----------------------------------------------------------------------------
(* _fulfill_order.                                                         *)

\* A task that keeps its lock, and its place in the try block, moves as it should.
LEMMA LockedMoves ==
    ASSUME FulfillInv, NEW t \in Tasks, NEW row \in TaskRow, task' = [task EXCEPT ![t] = row],
           phase = "up", phase' = "up",
           task[t].pc \in Locked,
           row.pc \in Locked \ {"prepare", "ack", "ship"},
           row.o = task[t].o, row.todo = task[t].todo, row.loop = task[t].loop,
           task[t].pc \in Sending => row.pc \in Sending,
           row.pc \in Sending => orders'[row.o].delivery # "none",
           row.pc = "send" => cache'.synced /\ row.file = files'.manifest,
           \A o \in Orders : RowMove(o)
    PROVE  TaskMove(t)
<1>1. /\ task' \in [Tasks -> TaskRow] /\ task'[t] = row
      /\ \A u \in Tasks \ {t} : task'[u] = task[u]
  BY DEF FulfillInv, TypeOK
<1>2. LocalsOf(t, row)
  BY TaskOrders DEF LocalsOf, AtOrder, Locked, Seen, Configured
<1>3. \A o \in task[t].todo : task[t].loop = "shipping" => orders'[o].status = "delivered"
  BY TaskOrders DEF FulfillInv, ShipsAreDelivered, RowMove
<1>4. row.pc \notin {"ack", "ship", "consign"}
  BY DEF Locked
<1> QED BY <1>1, <1>2, <1>3, <1>4 DEF TaskMove

\* A failed attempt is repeated once, then reported.
LEMMA AttemptFailedMoves ==
    ASSUME FulfillInv, NEW t \in Tasks, NEW rejected, AttemptFailed(t, rejected),
           phase = "up", phase' = "up", task[t].pc \in Sending, QuietRows, posted' = posted
    PROVE  TaskMove(t)
<1>1. PICK pc \in {"verify", "unverified", "failed"} :
          task' = [task EXCEPT ![t].attempt = 2, ![t].pc = pc]
  BY DEF AttemptFailed
<1> DEFINE row == [task[t] EXCEPT !.attempt = 2, !.pc = pc]
<1>2. task' = [task EXCEPT ![t] = row]
  BY <1>1
<1>3. pc \in Pcs /\ pc \in Sending /\ pc \in Locked \ {"prepare", "ack", "ship", "send"}
      /\ task[t].pc \in Locked
  BY DEF Pcs, Locked, Sending
<1>4. /\ row \in TaskRow /\ row.pc = pc /\ row.o = task[t].o
      /\ row.todo = task[t].todo /\ row.loop = task[t].loop
  <2>1. task[t] \in TaskRow /\ 2 \in {1, 2}
    BY TaskOrders
  <2> QED BY <1>3, <2>1 DEF TaskRow
<1>5. orders'[task[t].o].delivery # "none"
  <2>1. task[t].o \in Orders /\ orders[task[t].o].delivery # "none"
    BY <1>3, TaskOrders DEF AtOrder, FulfillInv, AcksAreBacked
  <2> QED BY <2>1 DEF QuietRows, QuietRow
<1>6. \A o \in Orders : RowMove(o)
  BY QuietRowsMove
<1> HIDE DEF row
<1> QED BY <1>2, <1>3, <1>4, <1>5, <1>6, LockedMoves

\* The lock is taken only if nobody has it.
LEMMA AcquireOrderGood ==
    ASSUME FulfillInv, NEW t \in Tasks, AcquireOrder(t)
    PROVE  GoodStep
<1>1. /\ task[t].pc = "lock" /\ task[t] \in TaskRow /\ task[t].o \in PlatformOrders
      /\ task[t].config \in Configs /\ task[t].config.delivery # "none"
      /\ task[t].todo \subseteq PlatformOrders
      /\ task[t].pc \notin Sending \cup Locked
  BY TaskOrders DEF AcquireOrder, LocalsOf, AtOrder, Configured, Sending, Locked
<1>2. /\ phase = "up" /\ phase' = "up" /\ UNCHANGED <<platform, bound, posted, files>>
      /\ \A u \in Tasks : task[u].pc \in Locked => task[u].o # task[t].o
  BY DEF AcquireOrder, Runnable, envVars
<1>3. CASE Resume(t) /\ UNCHANGED <<storeVars, cache>>
  <2>1. CalmStep
    BY <1>2, <1>3, SameStoreCalm
  <2>2. TaskMove(t)
    BY <1>1, <1>2, <1>3, <2>1, LeavesMoves DEF CalmStep, Leaves
  <2> QED BY <1>2, <2>1, <2>2, CalmKeepsHere
<1>4. CASE Refresh /\ Goto(t, "prepare")
  <2>1. CalmStep
    BY <1>1, <1>2, <1>4, RefreshCalm, NobodySends DEF AcquireOrder
  <2> DEFINE row == [task[t] EXCEPT !.pc = "prepare"]
  <2>2. task' = [task EXCEPT ![t] = row]
    BY <1>4 DEF Goto
  <2>3. /\ row \in TaskRow /\ row.pc = "prepare" /\ row.o = task[t].o
        /\ row.config = task[t].config /\ row.todo = task[t].todo /\ row.loop = task[t].loop
    <3>1. "prepare" \in Pcs
      BY DEF Pcs, Sync
    <3> QED BY <3>1, PcRow
  <2> HIDE DEF row
  <2>4. LocalsOf(t, row)
    BY <1>1, <2>3 DEF LocalsOf, Seen
  <2>5. /\ task' \in [Tasks -> TaskRow] /\ task'[t] = row
        /\ \A u \in Tasks \ {t} : task'[u] = task[u]
    BY <2>2, <2>3 DEF FulfillInv, TypeOK
  <2>6. \A o \in Orders : RowMove(o)
    BY <2>1, QuietRowsMove DEF CalmStep
  <2>7. \A o \in task[t].todo : task[t].loop = "shipping" => orders'[o].status = "delivered"
    BY <2>6, TaskOrders DEF FulfillInv, ShipsAreDelivered, RowMove
  <2>8. row.pc \notin Sending \cup {"ack", "send", "ship", "consign"}
    BY <2>3 DEF Sending
  <2>9. TaskMove(t)
    BY <1>1, <1>2, <2>3, <2>4, <2>5, <2>7, <2>8 DEF TaskMove
  <2> QED BY <1>2, <2>1, <2>9, CalmKeepsHere
<1> QED BY <1>3, <1>4 DEF AcquireOrder

\* What prepare_order is asked for by _fulfill_order.
Asked(o, d, p) ==
    /\ d \in Deliveries
    /\ p \in Payloads \cup {NoPayload}
    /\ d = "redeem" <=> p = NoPayload
    /\ d # "redeem" /\ orders[o].payload # NoPayload => p = orders[o].payload

\* Reserving fills the row as the order was paid for.
LEMMA PrepareRow ==
    ASSUME FulfillInv, NEW o \in PlatformOrders, NEW d, NEW p, Asked(o, d, p), PrepareOrder(o, d, p),
           posted' = posted
    PROVE  /\ PlatformRowOK(o)'
           /\ RowMove(o)
           /\ orders'[o].status = "delivered" => UNCHANGED storeVars
           /\ \A q \in Orders \ {o} : orders'[q] = orders[q]
           /\ sent' = sent
           /\ QuietCodes
<1>1. /\ o \in Orders /\ orders[o] \in OrderRow /\ PlatformRowOK(o)
      /\ Quantity[o] \in Nat \ {0}
  BY FulfillmentAssumption, StoreAssumption DEF FulfillInv, TypeOK, StoreTypeOK, RowsOK
<1>2. /\ orders[o].proof = "2"
      /\ orders[o].status \notin Terminal => orders[o].delivery \in {"none", d}
      /\ orders[o].quantity = Quantity[o]
      /\ sent' = sent
  BY <1>1 DEF PrepareOrder, PrepareRefused, PlatformRowOK, Reserve, storeVars
<1>3. ASSUME UNCHANGED storeVars
      PROVE  /\ PlatformRowOK(o)' /\ RowMove(o)
             /\ \A q \in Orders \ {o} : orders'[q] = orders[q]
             /\ QuietCodes
  BY <1>1, <1>3 DEF storeVars, PlatformRowOK, RowMove, SentAsRow, QuietCodes
<1>4. CASE orders[o].status \in Terminal \cup {"sending"} /\ UNCHANGED storeVars
  BY <1>2, <1>3, <1>4
<1>5. CASE /\ orders[o].status \in {"reserved", "retry"}
           /\ orders' = IF d # "redeem" /\ orders[o].payload = NoPayload
                        THEN [orders EXCEPT ![o].payload = p]
                        ELSE orders
           /\ UNCHANGED <<inventory, reviews, sent>>
  <2>1. orders[o].delivery = d
    BY <1>1, <1>2, <1>5 DEF PlatformRowOK, Claimed, Terminal
  <2>2. d # "redeem" => orders[o].payload # NoPayload
    BY <1>1, <2>1 DEF PlatformRowOK, Asked, Deliveries
  <2> QED BY <1>2, <1>3, <1>5, <2>2 DEF storeVars
<1>6. ASSUME NEW codes, orders[o].status = "verified", Reserve(o, d, p, codes),
             d = "redeem" => codes # {}, codes # {} => Cardinality(codes) = Quantity[o],
             codes = orders[o].ids \/ codes \subseteq Available
      PROVE  /\ PlatformRowOK(o)' /\ RowMove(o)
             /\ orders'[o].status # "delivered"
             /\ \A q \in Orders \ {o} : orders'[q] = orders[q]
             /\ QuietCodes
  <2>1. /\ orders'[o] = [orders[o] EXCEPT !.status = "reserved", !.delivery = d, !.payload = p,
                                          !.ids = codes, !.reason = "other"]
        /\ \A q \in Orders \ {o} : orders'[q] = orders[q]
    BY <1>1, <1>6 DEF Reserve, FulfillInv, TypeOK, StoreTypeOK
  <2>2. /\ orders'[o].status = "reserved" /\ orders'[o].delivery = d /\ orders'[o].payload = p
        /\ orders'[o].ids = codes /\ orders'[o].proof = "2" /\ orders'[o].quantity = Quantity[o]
    BY <1>1, <1>2, <2>1 DEF OrderRow
  <2>3. orders[o].delivery \in {"none", d}
    BY <1>2, <1>6 DEF Terminal
  <2>4. PlatformRowOK(o)'
    BY <1>1, <1>2, <1>6, <2>2, <2>3 DEF PlatformRowOK, Asked, Deliveries, Claimed
  <2>5. RowMove(o)
    BY <1>6, <2>2 DEF RowMove, Asked, Deliveries
  <2>6. QuietCodes
    BY <1>6 DEF Reserve, QuietCodes, Available
  <2> QED BY <2>1, <2>2, <2>4, <2>5, <2>6
<1>7. CASE orders[o].status = "verified" /\ ~NeedsCodes(o, d) /\ Reserve(o, d, p, orders[o].ids)
  <2>1. /\ d = "redeem" => orders[o].ids # {}
        /\ orders[o].ids # {} => Cardinality(orders[o].ids) = Quantity[o]
    BY <1>1, <1>7 DEF NeedsCodes, PlatformRowOK
  <2> QED BY <1>2, <1>6, <1>7, <2>1
<1>8. CASE /\ orders[o].status = "verified" /\ NeedsCodes(o, d)
           /\ \E codes \in FirstAvailable(orders[o].quantity) : Reserve(o, d, p, codes)
  <2>1. PICK codes \in FirstAvailable(orders[o].quantity) : Reserve(o, d, p, codes)
    BY <1>8
  <2>2. codes \subseteq Available /\ Cardinality(codes) = Quantity[o]
    BY <1>2 DEF FirstAvailable
  <2>3. codes # {}
    BY <1>1, <2>2, FS_EmptySet
  <2> QED BY <1>2, <1>6, <1>8, <2>1, <2>2, <2>3
<1>9. CASE /\ orders[o].status = "verified" /\ NeedsCodes(o, d)
           /\ orders' = [orders EXCEPT ![o].status = "manual_review",
                               ![o].delivery = d, ![o].reason = "other"]
           /\ UNCHANGED <<inventory, sent>>
  <2>1. /\ orders'[o] = [orders[o] EXCEPT !.status = "manual_review", !.delivery = d,
                                          !.reason = "other"]
        /\ \A q \in Orders \ {o} : orders'[q] = orders[q]
    BY <1>1, <1>9 DEF FulfillInv, TypeOK, StoreTypeOK
  <2>2. /\ orders'[o].status = "manual_review" /\ orders'[o].delivery = d
        /\ orders'[o].payload = orders[o].payload
        /\ orders'[o].ids = orders[o].ids /\ orders'[o].proof = "2"
        /\ orders'[o].quantity = Quantity[o]
        /\ d = "redeem"
    <3>1. d = "redeem"
      BY <1>9 DEF NeedsCodes
    <3> QED BY <1>1, <1>2, <2>1, <3>1 DEF OrderRow
  <2>3. orders[o].delivery \in {"none", "redeem"}
    BY <1>2, <1>9 DEF NeedsCodes, Terminal
  <2>4. PlatformRowOK(o)'
    BY <1>1, <1>9, <2>2, <2>3 DEF PlatformRowOK, Claimed
  <2>5. RowMove(o)
    BY <1>9, <2>2 DEF RowMove
  <2> QED BY <1>2, <1>9, <2>1, <2>2, <2>4, <2>5 DEF QuietCodes
<1> QED BY <1>4, <1>5, <1>7, <1>8, <1>9 DEF PrepareOrder

\* If one row keeps to its form and the others stay, all rows do.
LEMMA OneRow ==
    ASSUME FulfillInv, NEW o \in PlatformOrders,
           PlatformRowOK(o)', RowMove(o), \A q \in Orders \ {o} : orders'[q] = orders[q],
           sent' = sent, posted' = posted,
           orders'[o].status = "delivered" => SentAsRow(o)'
    PROVE  RowsOK' /\ DeliveredAsRow' /\ \A q \in Orders : RowMove(q)
<1>1. \A q \in PlatformOrders : q \in Orders
  BY FulfillmentAssumption
<1>2. \A q \in PlatformOrders \ {o} : PlatformRowOK(q)'
  BY <1>1 DEF FulfillInv, RowsOK, PlatformRowOK
<1>3. \A q \in Orders \ PlatformOrders : NoticeRowOK(q)'
  BY DEF FulfillInv, RowsOK, NoticeRowOK
<1>4. \A q \in PlatformOrders \ {o} : orders'[q].status = "delivered" => SentAsRow(q)'
  BY <1>1 DEF FulfillInv, DeliveredAsRow, SentAsRow
<1>5. \A q \in Orders \ {o} : RowMove(q)
  BY DEF RowMove, SentAsRow
<1> QED BY <1>2, <1>3, <1>4, <1>5 DEF RowsOK, DeliveredAsRow

\* A transaction that changes what a sender sees keeps the invariant if the rows do.
LEMMA RowsKeep ==
    ASSUME FulfillInv, [StoreStep]_storeVars, QuietCodes, RowsOK', DeliveredAsRow',
           \A o \in Orders : RowMove(o), NEW t \in Tasks, TaskMove(t),
           UNCHANGED <<platform, bound, files, cache>>,
           posted' \in [PlatformOrders -> SUBSET Payloads],
           \A o \in Orders : sent'[o] # sent[o] => \E u \in Tasks : Offered(u, o)
    PROVE  GoodStep
<1>1. StoreInv'
  BY StoreInvIsKept DEF FulfillInv
<1>2. /\ LocalsOK' /\ ShipsAreDelivered' /\ LocksExclude' /\ StartIsClean'
      /\ SendersExist' /\ AcksAreBacked'
  BY MovesKeep
<1>3. TypeOK'
  BY <1>1 DEF TypeOK, TaskMove, FulfillInv, StoreInv
<1>4. PoolIsCurrent'
  BY DEF PoolIsCurrent, FulfillInv, QuietCodes
<1>5. SendersAreCurrent'
  BY <1>4, SendersStayCurrent
<1> QED BY <1>1, <1>2, <1>3, <1>4, <1>5 DEF FulfillInv, GoodStep

\* An order is prepared, sent to review because it cannot be delivered, or refused.
LEMMA PrepareStepGood ==
    ASSUME FulfillInv, NEW t \in Tasks, PrepareStep(t)
    PROVE  GoodStep
<1>0. PICK o, d, p : o = task[t].o /\ d = task[t].config.delivery /\ p = PayloadFor(o)
  OBVIOUS
<1>1. /\ task[t].pc = "prepare" /\ task[t] \in TaskRow /\ o \in PlatformOrders /\ o \in Orders
      /\ task[t].config \in Configs /\ d # "none"
      /\ task[t].pc \in Locked /\ task[t].pc \notin Sending \cup {"idle"}
  BY <1>0, TaskOrders DEF PrepareStep, LocalsOf, AtOrder, Configured, Sending, Locked
<1>2. phase = "up" /\ phase' = "up" /\ UNCHANGED <<platform, bound, posted, files, cache>>
  BY <1>1, AtWork DEF PrepareStep, envVars
<1>3. CASE MarkOrderManualReview(o, "other") /\ Resume(t)
  <2>1. StoreStep
    BY <1>1, <1>3 DEF StoreStep, Reasons
  <2>2. CalmStep
    BY <1>1, <1>2, <1>3, <2>1, MarkOrderManualReviewQuiet, CalmWithoutRefresh DEF FulfillInv
  <2>3. TaskMove(t)
    BY <1>0, <1>1, <1>2, <1>3, <2>2, LeavesMoves DEF CalmStep, Leaves
  <2> QED BY <1>2, <2>2, <2>3, CalmKeepsHere
<1>4. CASE UNCHANGED storeVars /\ Abort(t)
  <2>1. CalmStep
    BY <1>2, <1>4, SameStoreCalm
  <2>2. TaskMove(t)
    BY <1>1, <1>2, <1>4, <2>1, LeavesMoves DEF CalmStep, Leaves
  <2> QED BY <1>2, <2>1, <2>2, CalmKeepsHere
<1>5. CASE /\ ~Undeliverable(t)
           /\ PrepareOrder(o, d, p)
           /\ IF orders'[o].status \in Terminal THEN Resume(t) ELSE Goto(t, "claim")
  <2>1. Asked(o, d, p)
    <3>1. d \in Deliveries /\ classify_item(o) \in Configs
      BY <1>0, <1>1, FulfillmentAssumption DEF classify_item, FulfillInv, TypeOK
    <3>2. classify_item(o).payload \in Payloads \cup {NoPayload}
      BY <3>1, FulfillmentAssumption
    <3>3. orders[o].payload \in Payloads \cup {NoPayload}
      BY <1>1 DEF FulfillInv, TypeOK, StoreTypeOK, OrderRow
    <3>4. classify_item(o).delivery = d
      BY <1>0, <1>5 DEF Undeliverable, SameConfig
    <3>5. d # "redeem" => p # NoPayload
      BY <1>0, <1>5, <3>1 DEF Undeliverable, Deliveries
    <3>6. /\ d = "redeem" => p = NoPayload
          /\ d # "redeem" /\ orders[o].payload # NoPayload => p = orders[o].payload
          /\ p \in Payloads \cup {NoPayload}
      <4>1. d = "redeem" => p = NoPayload
        BY <1>0, <3>4 DEF PayloadFor
      <4>2. d # "redeem" /\ orders[o].payload # NoPayload => p = orders[o].payload
        BY <1>0, <3>4 DEF PayloadFor
      <4>3. d # "redeem" /\ orders[o].payload = NoPayload => p = classify_item(o).payload
        BY <1>0, <3>4 DEF PayloadFor
      <4> QED BY <3>2, <3>3, <4>1, <4>2, <4>3
    <3> QED BY <3>1, <3>5, <3>6 DEF Asked
  <2>2. StoreStep
    <3>1. d \in Deliveries /\ p \in Payloads \cup {NoPayload}
      BY <2>1 DEF Asked
    <3> QED BY <1>1, <1>5, <3>1 DEF StoreStep
  <2>3. /\ PlatformRowOK(o)'
        /\ RowMove(o)
        /\ orders'[o].status = "delivered" => UNCHANGED storeVars
        /\ \A q \in Orders \ {o} : orders'[q] = orders[q]
        /\ sent' = sent
        /\ QuietCodes
    <3> QED BY <1>1, <1>2, <1>5, <2>1, PrepareRow
  <2>4. orders'[o].status = "delivered" => SentAsRow(o)'
    BY <1>1, <1>2, <2>3 DEF FulfillInv, DeliveredAsRow, SentAsRow, storeVars
  <2>5. RowsOK' /\ DeliveredAsRow' /\ \A q \in Orders : RowMove(q)
    BY <1>1, <1>2, <2>3, <2>4, OneRow
  <2>6. ASSUME Goto(t, "claim") PROVE TaskMove(t)
    <3> DEFINE row == [task[t] EXCEPT !.pc = "claim"]
    <3>1. task' = [task EXCEPT ![t] = row]
      BY <2>6 DEF Goto
    <3>2. "claim" \in Pcs /\ "claim" \in Locked \ {"prepare", "ack", "ship"} /\ "claim" \notin Sending
      BY DEF Pcs, Sync, Locked, Sending
    <3>3. /\ row \in TaskRow /\ row.pc = "claim" /\ row.o = task[t].o
          /\ row.todo = task[t].todo /\ row.loop = task[t].loop
      BY <3>2, PcRow
    <3> HIDE DEF row
    <3> QED BY <1>0, <1>1, <1>2, <2>5, <3>1, <3>2, <3>3, LockedMoves
  <2>7. ASSUME Resume(t) PROVE TaskMove(t)
    <3>1. PICK row : task' = [task EXCEPT ![t] = row] /\ Outside(t, row)
      BY <2>7, ResumedOutside DEF Resume
    <3>2. /\ task' \in [Tasks -> TaskRow] /\ task'[t] = row
          /\ \A u \in Tasks \ {t} : task'[u] = task[u]
      BY <3>1 DEF FulfillInv, TypeOK, Outside
    <3>3. row.pc \notin Sending \cup Locked \cup {"ack", "send", "ship", "consign"}
      BY <3>1 DEF Outside, Locked, Sending
    <3>4. row.loop = "shipping" => \A q \in row.todo : orders'[q].status = "delivered"
      BY <2>5, <3>1, FulfillmentAssumption DEF Outside, LocalsOf, RowMove
    <3> QED BY <1>1, <1>2, <3>1, <3>2, <3>3, <3>4 DEF TaskMove, Outside
  <2>8. TaskMove(t)
    BY <1>5, <2>6, <2>7
  <2>9. posted' \in [PlatformOrders -> SUBSET Payloads]
    BY <1>2 DEF FulfillInv, TypeOK
  <2> QED BY <1>2, <2>2, <2>3, <2>5, <2>8, <2>9, RowsKeep
<1> QED BY <1>0, <1>3, <1>4, <1>5 DEF PrepareStep

\* A claimed order has its sender from the start: its codes are as many as its units,
\* so the text can be composed.
LEMMA ClaimStepGood ==
    ASSUME FulfillInv, NEW t \in Tasks, ClaimStep(t)
    PROVE  GoodStep
<1>0. PICK o : o = task[t].o
  OBVIOUS
<1>1. /\ task[t].pc = "claim" /\ task[t] \in TaskRow /\ o \in PlatformOrders /\ o \in Orders
      /\ task[t].pc \in Locked /\ task[t].pc \notin Sending \cup {"idle"}
      /\ orders[o] \in OrderRow /\ PlatformRowOK(o)
  BY <1>0, TaskOrders DEF ClaimStep, LocalsOf, AtOrder, Sending, Locked, FulfillInv, TypeOK,
                    StoreTypeOK, RowsOK
<1>2. phase = "up" /\ phase' = "up" /\ UNCHANGED <<platform, bound, posted, files, cache>>
  BY <1>1, AtWork DEF ClaimStep, envVars
<1>3. CASE UNCHANGED storeVars /\ Resume(t)
  <2>1. CalmStep
    BY <1>2, <1>3, SameStoreCalm
  <2>2. TaskMove(t)
    BY <1>1, <1>2, <1>3, <2>1, LeavesMoves DEF CalmStep, Leaves
  <2> QED BY <1>2, <2>1, <2>2, CalmKeepsHere
<1>4. CASE /\ orders[o].status \in {"reserved", "retry"}
           /\ ClaimOrderForSend(o)
           /\ IF /\ orders[o].delivery = "redeem"
                 /\ Cardinality(orders[o].ids) # orders[o].quantity
              THEN Abort(t) ELSE Goto(t, "verify")
  <2>1. /\ orders'[o] = [orders[o] EXCEPT !.status = "sending"]
        /\ \A q \in Orders \ {o} : orders'[q] = orders[q]
        /\ UNCHANGED <<inventory, sent>>
    BY <1>1, <1>4 DEF ClaimOrderForSend, FulfillInv, TypeOK, StoreTypeOK
  <2>2. /\ orders'[o].status = "sending"
        /\ orders'[o].delivery = orders[o].delivery /\ orders'[o].payload = orders[o].payload
        /\ orders'[o].ids = orders[o].ids /\ orders'[o].proof = orders[o].proof
        /\ orders'[o].quantity = orders[o].quantity
    BY <1>1, <2>1 DEF OrderRow
  <2>3. orders[o].status \in Claimed /\ orders[o].delivery # "none"
    BY <1>1, <1>4 DEF PlatformRowOK, Claimed
  <2>4. PlatformRowOK(o)'
    BY <1>1, <1>2, <2>1, <2>2, <2>3 DEF PlatformRowOK, Claimed
  <2>5. Goto(t, "verify")
    <3>1. orders[o].delivery = "redeem" => Cardinality(orders[o].ids) = orders[o].quantity
      BY <1>1, <2>3 DEF PlatformRowOK
    <3> QED BY <1>4, <3>1
  <2> DEFINE row == [task[t] EXCEPT !.pc = "verify"]
  <2>6. task' = [task EXCEPT ![t] = row]
    BY <2>5 DEF Goto
  <2>7. "verify" \in Pcs /\ "verify" \in Locked \ {"prepare", "ack", "ship"} /\ "verify" \in Sending
    BY DEF Pcs, Locked, Sending
  <2>8. /\ row \in TaskRow /\ row.pc = "verify" /\ row.o = o
        /\ row.todo = task[t].todo /\ row.loop = task[t].loop
    BY <1>0, <2>7, PcRow
  <2> HIDE DEF row
  <2>9. RowMove(o)
    <3>1. task'[t] = row
      BY <2>6 DEF FulfillInv, TypeOK
    <3> QED BY <1>1, <1>4, <2>2, <2>7, <2>8, <3>1 DEF RowMove
  <2>10. RowsOK' /\ DeliveredAsRow' /\ \A q \in Orders : RowMove(q)
    BY <1>1, <1>2, <2>1, <2>2, <2>4, <2>9, OneRow
  <2>11. TaskMove(t)
    BY <1>0, <1>1, <1>2, <2>2, <2>3, <2>6, <2>7, <2>8, <2>10, LockedMoves
  <2>12. StoreStep
    BY <1>1, <1>4 DEF StoreStep
  <2>13. posted' \in [PlatformOrders -> SUBSET Payloads] /\ QuietCodes
    BY <1>2, <2>1 DEF FulfillInv, TypeOK, QuietCodes
  <2> QED BY <1>2, <2>1, <2>10, <2>11, <2>12, <2>13, RowsKeep
<1> QED BY <1>0, <1>3, <1>4 DEF ClaimStep

\* One attempt looks at the platform, then at the configuration.
LEMMA VerifyAnswerGood ==
    ASSUME FulfillInv, NEW t \in Tasks, VerifyAnswer(t)
    PROVE  GoodStep
<1>1. /\ task[t].pc = "verify" /\ task[t].pc \in Sending /\ task[t].pc \in Locked
      /\ task[t].o \in Orders
      /\ orders[task[t].o].delivery # "none"
  BY TaskOrders DEF VerifyAnswer, AtOrder, Sending, Locked, FulfillInv, AcksAreBacked
<1>2. phase = "up" /\ phase' = "up" /\ UNCHANGED <<platform, bound, posted, files>>
  BY DEF VerifyAnswer, Runnable
<1>3. CASE Refresh /\ ToSend(t)
  <2>1. CalmStep /\ cache'.synced
    BY <1>1, <1>2, <1>3, RefreshCalm, NobodySends DEF VerifyAnswer
  <2> DEFINE row == [task[t] EXCEPT !.pc = "send", !.file = files.manifest]
  <2>2. task' = [task EXCEPT ![t] = row]
    BY <1>3 DEF ToSend
  <2>3. "send" \in Pcs /\ "send" \in Locked \ {"prepare", "ack", "ship"} /\ "send" \in Sending
    BY DEF Pcs, Sync, Locked, Sending
  <2>4. /\ row \in TaskRow /\ row.pc = "send" /\ row.o = task[t].o
        /\ row.todo = task[t].todo /\ row.loop = task[t].loop
        /\ row.file = files.manifest
    <3>1. files.manifest \in Manifests \cup {Invalid}
      BY DEF FulfillInv, TypeOK
    <3>2. task[t] \in TaskRow
      BY DEF FulfillInv, TypeOK
    <3> QED BY <2>3, <3>1, <3>2 DEF TaskRow
  <2> HIDE DEF row
  <2>5. orders'[task[t].o].delivery # "none" /\ \A o \in Orders : RowMove(o)
    BY <1>1, <2>1, QuietRowsMove DEF CalmStep, RowMove
  <2>6. TaskMove(t)
    BY <1>1, <1>2, <2>1, <2>2, <2>3, <2>4, <2>5, LockedMoves
  <2> QED BY <1>2, <2>1, <2>6, CalmKeepsHere
<1>4. ASSUME NEW rejected, AttemptFailed(t, rejected), UNCHANGED <<storeVars, cache>>
      PROVE  GoodStep
  <2>1. CalmStep
    BY <1>2, <1>4, SameStoreCalm
  <2>2. TaskMove(t)
    BY <1>1, <1>2, <1>4, <2>1, AttemptFailedMoves DEF CalmStep
  <2> QED BY <1>2, <2>1, <2>2, CalmKeepsHere
<1> QED BY <1>3, <1>4 DEF VerifyAnswer

\* What is put on the wire is what the row says, and the row is what is still offered.
LEMMA SendStepGood ==
    ASSUME FulfillInv, NEW t \in Tasks, SendStep(t)
    PROVE  GoodStep
<1>0. PICK o : o = task[t].o
  OBVIOUS
<1>1. /\ task[t].pc = "send" /\ task[t].pc \in Sending /\ task[t].pc \in Locked
      /\ o \in Orders /\ o \in PlatformOrders
      /\ task[t] \in TaskRow /\ LocalsOf(t, task[t])
      /\ orders[o] \in OrderRow /\ orders[o].delivery # "none"
      /\ PlatformRowOK(o)
  BY <1>0, TaskOrders DEF SendStep, AtOrder, Sending, Locked, FulfillInv, AcksAreBacked, TypeOK,
                          StoreTypeOK, RowsOK
<1>2. phase = "up" /\ phase' = "up" /\ UNCHANGED <<platform, bound, files, cache>>
  BY <1>1, AtWork DEF SendStep, envVars
<1>3. CASE AttemptFailed(t, TRUE) /\ UNCHANGED <<storeVars, posted>>
  <2>1. CalmStep
    BY <1>2, <1>3, SameStoreCalm
  <2>2. TaskMove(t)
    BY <1>1, <1>2, <1>3, <2>1, AttemptFailedMoves DEF CalmStep
  <2> QED BY <1>2, <2>1, <2>2, CalmKeepsHere
<1>4. ASSUME Goto(t, "ack"), UNCHANGED <<orders, inventory>>, [StoreStep]_storeVars,
             SentAsRow(o)', PlatformRowOK(o)',
             \A q \in Orders \ {o} : sent'[q] = sent[q],
             \A q \in PlatformOrders \ {o} : posted'[q] = posted[q],
             posted' \in [PlatformOrders -> SUBSET Payloads],
             sent'[o] # sent[o] => Offered(t, o)
      PROVE  GoodStep
  <2>1. \A q \in PlatformOrders : q \in Orders
    BY FulfillmentAssumption
  <2>2. \A q \in PlatformOrders \ {o} : PlatformRowOK(q)'
    BY <1>4, <2>1 DEF FulfillInv, RowsOK, PlatformRowOK
  <2>3. RowsOK'
    BY <1>4, <2>2 DEF FulfillInv, RowsOK, NoticeRowOK
  <2>4. DeliveredAsRow'
    BY <1>4, <2>1 DEF FulfillInv, DeliveredAsRow, SentAsRow
  <2>5. ASSUME NEW q \in Orders PROVE RowMove(q)
    <3>1. CASE q = o
      BY <1>4, <3>1 DEF RowMove
    <3>2. CASE q # o /\ q \in PlatformOrders
      BY <1>4, <3>2 DEF RowMove, SentAsRow
    <3>3. CASE q \notin PlatformOrders
      BY <1>4, <3>3 DEF RowMove, FulfillInv, RowsOK, NoticeRowOK, Claimed
    <3> QED BY <3>1, <3>2, <3>3
  <2> DEFINE row == [task[t] EXCEPT !.pc = "ack"]
  <2>6. task' = [task EXCEPT ![t] = row]
    BY <1>4 DEF Goto
  <2>7. /\ "ack" \in Pcs /\ "ack" \in Locked /\ "ack" \in Sending
        /\ "ack" \notin Seen \cup Configured \cup {"notice", "review", "close", "next", "listing"}
    BY DEF Pcs, Locked, Sending, Seen, Configured
  <2>8. /\ row \in TaskRow /\ row.pc = "ack" /\ row.o = o
        /\ row.todo = task[t].todo /\ row.loop = task[t].loop
    BY <1>0, <2>7, PcRow
  <2> HIDE DEF row
  <2>9. LocalsOf(t, row)
    BY <1>1, <2>7, <2>8 DEF LocalsOf
  <2>10. /\ task' \in [Tasks -> TaskRow] /\ task'[t] = row
         /\ \A u \in Tasks \ {t} : task'[u] = task[u]
    BY <2>6, <2>8 DEF FulfillInv, TypeOK
  <2>11. row.loop = "shipping" => \A q \in row.todo : orders'[q].status = "delivered"
    BY <1>4, <2>8 DEF FulfillInv, ShipsAreDelivered
  <2>12. TaskMove(t)
    BY <1>0, <1>1, <1>2, <1>4, <2>7, <2>8, <2>9, <2>10, <2>11 DEF TaskMove
  <2>13. QuietCodes
    BY <1>4 DEF QuietCodes
  <2>14. \A q \in Orders : sent'[q] # sent[q] => \E u \in Tasks : Offered(u, q)
    BY <1>4
  <2> QED BY <1>2, <1>4, <2>3, <2>4, <2>5, <2>12, <2>13, <2>14, RowsKeep
<1>5. CASE /\ StillAuthorized(o) /\ orders[o].delivery = "redeem"
           /\ SendCodes(o) /\ Goto(t, "ack") /\ posted' = posted
  <2>1. /\ sent' = [sent EXCEPT ![o] = @ \cup {orders[o].ids}]
        /\ UNCHANGED <<orders, inventory>>
        /\ Held(o) = orders[o].ids
        /\ cache.usable
    BY <1>5 DEF SendCodes, StillAuthorized, OrderInventoryIsSendable
  <2>2. /\ sent'[o] = sent[o] \cup {orders[o].ids}
        /\ \A q \in Orders \ {o} : sent'[q] = sent[q]
    BY <1>1, <2>1 DEF FulfillInv, TypeOK, StoreTypeOK
  <2>3. sent'[o] = {orders[o].ids}
    BY <1>1, <2>2 DEF FulfillInv, StoreInv, ResendsAreIdentical
  <2>4. SentAsRow(o)'
    BY <1>5, <2>1, <2>3 DEF SentAsRow
  <2>5. PlatformRowOK(o)'
    BY <1>1, <1>5, <2>1 DEF PlatformRowOK
  <2>6. Offered(t, o)
    <3>1. \A c \in orders[o].ids : c \in Codes /\ inventory[c].status = "reserved"
      BY <1>1, <2>1, HeldFacts DEF FulfillInv
    <3> QED BY <1>0, <1>1, <2>1, <3>1 DEF FulfillInv, SendersAreCurrent, Offered
  <2>7. posted' \in [PlatformOrders -> SUBSET Payloads]
    BY <1>5 DEF FulfillInv, TypeOK
  <2>8. StoreStep
    BY <1>1, <1>5 DEF StoreStep
  <2> QED BY <1>4, <1>5, <2>1, <2>2, <2>4, <2>5, <2>6, <2>7, <2>8
<1>6. CASE /\ orders[o].delivery # "redeem" /\ Goto(t, "ack") /\ UNCHANGED storeVars
           /\ posted' = [posted EXCEPT ![o] = @ \cup {PayloadText(o)}]
  <2>1. orders[o].payload \in Payloads /\ orders[o].delivery \in {"pan", "material"}
    BY <1>1, <1>6 DEF OrderRow, PlatformRowOK, Deliveries
  <2>2. /\ posted'[o] = posted[o] \cup {orders[o].payload}
        /\ \A q \in PlatformOrders \ {o} : posted'[q] = posted[q]
        /\ posted' \in [PlatformOrders -> SUBSET Payloads]
    BY <1>1, <1>6, <2>1 DEF PayloadText, FulfillInv, TypeOK
  <2>3. UNCHANGED <<orders, inventory, sent>>
    BY <1>6 DEF storeVars
  <2>4. posted'[o] = {orders[o].payload}
    BY <1>1, <2>2 DEF PlatformRowOK
  <2>5. SentAsRow(o)' /\ PlatformRowOK(o)'
    BY <1>1, <1>6, <2>1, <2>3, <2>4 DEF SentAsRow, PlatformRowOK
  <2> QED BY <1>4, <1>6, <2>2, <2>3, <2>5
<1> QED BY <1>0, <1>3, <1>5, <1>6 DEF SendStep

\* An acknowledged order is delivered, as it was sent.
LEMMA AckAnswerGood ==
    ASSUME FulfillInv, NEW t \in Tasks, AckAnswer(t)
    PROVE  GoodStep
<1>0. PICK o : o = task[t].o
  OBVIOUS
<1>1. /\ task[t].pc = "ack" /\ task[t].pc \in Sending /\ task[t].pc \in Locked
      /\ o \in Orders /\ o \in PlatformOrders
      /\ task[t] \in TaskRow /\ LocalsOf(t, task[t])
      /\ orders[o] \in OrderRow /\ orders[o].delivery # "none"
      /\ PlatformRowOK(o)
      /\ orders[o].status = "sending" => SentAsRow(o)
  BY <1>0, TaskOrders DEF AckAnswer, AtOrder, Sending, Locked, FulfillInv, AcksAreBacked, TypeOK,
                          StoreTypeOK, RowsOK
<1>2. phase = "up" /\ phase' = "up" /\ UNCHANGED <<platform, bound, posted, files, cache>>
  BY DEF AckAnswer, Runnable
<1>3. CASE Goto(t, "failed") /\ UNCHANGED storeVars
  <2>1. CalmStep
    BY <1>2, <1>3, SameStoreCalm
  <2> DEFINE row == [task[t] EXCEPT !.pc = "failed"]
  <2>2. task' = [task EXCEPT ![t] = row]
    BY <1>3 DEF Goto
  <2>3. "failed" \in Pcs /\ "failed" \in Locked \ {"prepare", "ack", "ship"} /\ "failed" \in Sending
    BY DEF Pcs, Locked, Sending
  <2>4. /\ row \in TaskRow /\ row.pc = "failed" /\ row.o = task[t].o
        /\ row.todo = task[t].todo /\ row.loop = task[t].loop
    BY <2>3, PcRow
  <2> HIDE DEF row
  <2>5. orders'[o].delivery # "none" /\ \A q \in Orders : RowMove(q)
    BY <1>1, <2>1, QuietRowsMove DEF CalmStep, RowMove
  <2>6. TaskMove(t)
    BY <1>0, <1>1, <1>2, <2>2, <2>3, <2>4, <2>5, LockedMoves
  <2> QED BY <1>2, <2>1, <2>6, CalmKeepsHere
<1>4. CASE AttemptFailed(t, FALSE) /\ UNCHANGED storeVars
  <2>1. CalmStep
    BY <1>2, <1>4, SameStoreCalm
  <2>2. TaskMove(t)
    BY <1>1, <1>2, <1>4, <2>1, AttemptFailedMoves DEF CalmStep
  <2> QED BY <1>2, <2>1, <2>2, CalmKeepsHere
<1>5. CASE /\ ~DeliveredRefused(o) /\ MarkOrderDelivered(o)
           /\ task' = [task EXCEPT ![t].pc = "ship", ![t].attempt = 1]
  <2>1. StoreStep
    BY <1>1, <1>5 DEF StoreStep
  <2>2. \/ orders[o].status = "delivered" /\ UNCHANGED storeVars
        \/ /\ orders[o].status = "sending"
           /\ orders' = SetStatus({o}, "delivered", "other")
           /\ sent' = sent
           /\ inventory' = [c \in Codes |->
                  IF c \in orders[o].ids THEN [inventory[c] EXCEPT !.status = "delivered"]
                                         ELSE inventory[c]]
    BY <1>5 DEF MarkOrderDelivered, DeliveredRefused
  <2>3. /\ orders'[o].status = "delivered"
        /\ orders'[o].delivery = orders[o].delivery /\ orders'[o].payload = orders[o].payload
        /\ orders'[o].ids = orders[o].ids /\ orders'[o].proof = orders[o].proof
        /\ orders'[o].quantity = orders[o].quantity
        /\ sent' = sent
    BY <1>1, <2>2, StatusRows DEF FulfillInv, TypeOK, storeVars
  <2>4. \A q \in Orders \ {o} : orders'[q] = orders[q]
    BY <2>2, SetStatusRows DEF FulfillInv, TypeOK, storeVars, Statuses, Terminal, Reasons
  <2>5. SentAsRow(o)
    BY <1>1, <2>2 DEF FulfillInv, DeliveredAsRow
  <2>6. SentAsRow(o)'
    BY <1>2, <2>3, <2>5 DEF SentAsRow
  <2>7. PlatformRowOK(o)'
    BY <1>1, <1>2, <2>2, <2>3 DEF PlatformRowOK, Claimed
  <2>8. RowMove(o)
    BY <2>3 DEF RowMove
  <2>9. RowsOK' /\ DeliveredAsRow' /\ \A q \in Orders : RowMove(q)
    BY <1>1, <1>2, <2>3, <2>4, <2>6, <2>7, <2>8, OneRow
  <2>10. QuietCodes
    <3>1. CASE UNCHANGED storeVars
      BY <3>1, SameStoreQuiet
    <3>2. ASSUME inventory' = [c \in Codes |->
                  IF c \in orders[o].ids THEN [inventory[c] EXCEPT !.status = "delivered"]
                                         ELSE inventory[c]],
                 NEW c \in Codes, inventory'[c].status \in {"available", "reserved"}
          PROVE  inventory[c].status \in {"available", "reserved"}
      <4>1. inventory[c] \in CodeRow
        BY DEF FulfillInv, TypeOK, StoreTypeOK
      <4>2. inventory'[c] = inventory[c]
            \/ inventory'[c] = [inventory[c] EXCEPT !.status = "delivered"]
        BY <3>2
      <4> QED BY <3>2, <4>1, <4>2 DEF CodeRow
    <3> QED BY <2>2, <3>1, <3>2 DEF QuietCodes
  <2> DEFINE row == [task[t] EXCEPT !.pc = "ship", !.attempt = 1]
  <2>11. task' = [task EXCEPT ![t] = row]
    BY <1>5
  <2>12. /\ "ship" \in Pcs /\ "ship" \in Locked /\ "ship" \notin Sending
         /\ "ship" \notin Seen \cup Configured \cup {"notice", "review", "close", "next", "listing"}
    BY DEF Pcs, Locked, Sending, Seen, Configured
  <2>13. /\ row \in TaskRow /\ row.pc = "ship" /\ row.o = o
         /\ row.todo = task[t].todo /\ row.loop = task[t].loop
    BY <1>0, <1>1, <2>12 DEF TaskRow
  <2> HIDE DEF row
  <2>14. LocalsOf(t, row)
    BY <1>1, <2>12, <2>13 DEF LocalsOf
  <2>15. /\ task' \in [Tasks -> TaskRow] /\ task'[t] = row
         /\ \A u \in Tasks \ {t} : task'[u] = task[u]
    BY <2>11, <2>13 DEF FulfillInv, TypeOK
  <2>16. row.loop = "shipping" => \A q \in row.todo : orders'[q].status = "delivered"
    BY <2>9, <2>13, TaskOrders DEF FulfillInv, ShipsAreDelivered, RowMove
  <2>17. TaskMove(t)
    BY <1>0, <1>1, <1>2, <2>3, <2>12, <2>13, <2>14, <2>15, <2>16 DEF TaskMove
  <2>18. posted' \in [PlatformOrders -> SUBSET Payloads]
    BY <1>2 DEF FulfillInv, TypeOK
  <2> QED BY <1>2, <2>1, <2>3, <2>9, <2>10, <2>17, <2>18, RowsKeep
<1> QED BY <1>0, <1>3, <1>4, <1>5 DEF AckAnswer
\* A failed sender gives its order back for a retry.
LEMMA SendFailedGood ==
    ASSUME FulfillInv, NEW t \in Tasks, SendFailed(t)
    PROVE  GoodStep
<1>1. /\ task[t].o \in Orders
      /\ phase = "up" /\ phase' = "up" /\ UNCHANGED <<platform, bound, posted, files, cache>>
      /\ MarkOrderRetry(task[t].o) /\ Leaves(t)
  BY TaskOrders DEF SendFailed, AtOrder, Locked, Runnable, envVars, Leaves
<1>2. StoreStep
  BY <1>1 DEF StoreStep
<1>3. CalmStep
  BY <1>1, <1>2, MarkOrderRetryQuiet, CalmWithoutRefresh DEF FulfillInv
<1>4. orders'[task[t].o].status # "sending"
  BY <1>1, GivenBack
<1>5. TaskMove(t)
  BY <1>1, <1>3, <1>4, LeavesMoves DEF CalmStep
<1> QED BY <1>1, <1>3, <1>5, CalmKeepsHere

\* A sender the platform refused sends its order to review.
LEMMA SendUnverifiedGood ==
    ASSUME FulfillInv, NEW t \in Tasks, SendUnverified(t)
    PROVE  GoodStep
<1>1. /\ task[t].o \in Orders
      /\ phase = "up" /\ phase' = "up" /\ UNCHANGED <<platform, bound, posted, files, cache>>
      /\ MarkOrderManualReview(task[t].o, "other") /\ Leaves(t)
  BY TaskOrders DEF SendUnverified, AtOrder, Locked, Runnable, envVars, Leaves
<1>2. StoreStep
  BY <1>1 DEF StoreStep, Reasons
<1>3. CalmStep
  BY <1>1, <1>2, MarkOrderManualReviewQuiet, CalmWithoutRefresh DEF FulfillInv
<1>4. orders'[task[t].o].status # "sending"
  BY <1>1, GivenBack
<1>5. TaskMove(t)
  BY <1>1, <1>3, <1>4, LeavesMoves DEF CalmStep
<1> QED BY <1>1, <1>3, <1>5, CalmKeepsHere

\* Reporting a shipment touches no more than the bookkeeping of a delivered order.
LEMMA ConsignAnswerGood ==
    ASSUME FulfillInv, NEW t \in Tasks, ConsignAnswer(t)
    PROVE  GoodStep
<1>1. /\ task[t].o \in Orders /\ task[t].o \in PlatformOrders
      /\ orders[task[t].o].status = "delivered"
      /\ task[t].pc \notin Sending
      /\ phase = "up" /\ phase' = "up" /\ UNCHANGED <<bound, posted, files, cache>>
      /\ Leaves(t)
  BY TaskOrders DEF ConsignAnswer, AtOrder, Locked, Sending, Runnable, Leaves, FulfillInv,
                    ShipsAreDelivered
<1>2. MarkPlatformShipped(task[t].o) \/ RecordPlatformShipAttempt(task[t].o)
  BY DEF ConsignAnswer
<1>3. StoreStep
  BY <1>1, <1>2 DEF StoreStep
<1>4. CalmStep
  BY <1>1, <1>2, <1>3, ShipQuiet, CalmWithoutRefresh DEF FulfillInv, TypeOK
<1>5. TaskMove(t)
  BY <1>1, <1>4, LeavesMoves DEF CalmStep
<1>6. platform' \in {platform, [platform EXCEPT ![task[t].o] = "shipped"]}
  BY DEF ConsignAnswer
<1>7. /\ platform' \in [PlatformOrders -> {"paid", "shipped", "closed"}]
      /\ bound' \in SUBSET Chats
  BY <1>1, <1>6 DEF FulfillInv, TypeOK
<1> QED BY <1>4, <1>5, <1>7, CalmKeeps

-----------------------------------------------------------------------------
(* Start and crash of the process, the operator and the platform.          *)

\* Steps of nobody's task: the tasks stay where they are or are gone.
LEMMA EnvironmentKeeps ==
    ASSUME FulfillInv, [StoreStep]_storeVars, QuietRows, posted' = posted,
           task' = task \/ task' = [t \in Tasks |-> Idle],
           phase' \in {"down", "opened", "checked", "up"},
           files' \in [manifest : Manifests \cup {Invalid}, config : [PlatformOrders -> Configs]],
           cache' \in [config : [PlatformOrders -> Configs], needed : BOOLEAN,
                       synced : BOOLEAN, usable : BOOLEAN],
           platform' \in [PlatformOrders -> {"paid", "shipped", "closed"}],
           bound' \in SUBSET Chats,
           StartIsClean', SendersExist', PoolIsCurrent',
           SendersAreCurrent'
    PROVE  GoodStep
<1>1. StoreInv'
  BY StoreInvIsKept DEF FulfillInv
<1>2. RowsOK' /\ DeliveredAsRow'
  BY QuietRowsKept
<1>3. /\ Idle \in TaskRow /\ Idle.pc = "idle" /\ Idle.todo = {} /\ Idle.loop = "none"
      /\ \A t \in Tasks : LocalsOf(t, Idle)
  BY IdleOutside DEF Idle, Outside
<1>4. ASSUME NEW t \in Tasks
      PROVE  /\ task'[t] = task[t] \/ task'[t] = Idle
             /\ LocalsOf(t, task'[t])
             /\ task'[t].pc \in Sending => task'[t].o \in Orders /\ task'[t] = task[t]
  <2>1. task'[t] = task[t] \/ task'[t] = Idle
    OBVIOUS
  <2>2. Idle.pc \notin Sending
    BY <1>3 DEF Sending
  <2> QED BY <1>3, <2>1, <2>2, TaskOrders DEF AtOrder, Locked, Sending
<1>5. TypeOK'
  BY <1>1, <1>3 DEF TypeOK, FulfillInv, StoreInv
<1>6. LocalsOK'
  BY <1>4 DEF LocalsOK
<1>7. ShipsAreDelivered'
  <2>1. \A o \in Orders : orders[o].status = "delivered" => orders'[o].status = "delivered"
    BY DEF QuietRows, QuietRow
  <2>2. ASSUME NEW t \in Tasks, task'[t].pc \in {"ship", "consign"}
        PROVE  orders'[task'[t].o].status = "delivered"
    <3>1. task'[t] = task[t] /\ task[t].o \in Orders
      BY <1>3, <1>4, <2>2, TaskOrders DEF AtOrder, Locked
    <3> QED BY <2>1, <2>2, <3>1 DEF FulfillInv, ShipsAreDelivered
  <2>3. ASSUME NEW t \in Tasks, task'[t].loop = "shipping", NEW o \in task'[t].todo
        PROVE  orders'[o].status = "delivered"
    <3>1. task'[t] = task[t]
      BY <1>3, <1>4, <2>3
    <3>2. o \in Orders
      BY <2>3, <3>1, TaskOrders
    <3> QED BY <2>1, <2>3, <3>1, <3>2 DEF FulfillInv, ShipsAreDelivered
  <2> QED BY <2>2, <2>3 DEF ShipsAreDelivered
<1>8. LocksExclude'
  <2>1. Idle.pc \notin Locked
    BY <1>3 DEF Locked
  <2>2. \A t \in Tasks : task'[t].pc \in Locked => task'[t] = task[t]
    BY <1>4, <2>1
  <2>3. ASSUME NEW t \in Tasks, NEW u \in Tasks,
               task'[t].pc \in Locked, task'[u].pc \in Locked, task'[t].o = task'[u].o
        PROVE  t = u
    BY <2>2, <2>3 DEF FulfillInv, LocksExclude
  <2> QED BY <2>3 DEF LocksExclude
<1>9. AcksAreBacked'
  <2>1. ASSUME NEW t \in Tasks, task'[t].pc \in Sending
        PROVE  orders'[task'[t].o].delivery # "none"
    BY <1>4, <2>1 DEF FulfillInv, AcksAreBacked, QuietRows, QuietRow
  <2>2. ASSUME NEW t \in Tasks, NEW o \in Orders,
               task'[t].pc = "ack", task'[t].o = o, orders'[o].status = "sending"
        PROVE  SentAsRow(o)'
    <3>1. task'[t] = task[t]
      BY <1>4, <2>2 DEF Sending
    <3>2. QuietRow(o) /\ sent'[o] = sent[o] /\ posted'[o] = posted[o]
      BY DEF QuietRows
    <3>3. orders[o].status = "sending"
      BY <2>2, <3>2 DEF QuietRow
    <3>4. SentAsRow(o)
      BY <2>2, <3>1, <3>3 DEF FulfillInv, AcksAreBacked
    <3> QED BY <3>2, <3>4 DEF SentAsRow, QuietRow
  <2> QED BY <2>1, <2>2 DEF AcksAreBacked
<1> QED BY <1>1, <1>2, <1>5, <1>6, <1>7, <1>8, <1>9 DEF FulfillInv, QuietRows, GoodStep

\* Senders stay where they are if neither they nor the rows they own change.
LEMMA SendersStay ==
    ASSUME FulfillInv, QuietRows, UNCHANGED <<phase, task>>
    PROVE  StartIsClean' /\ SendersExist'
BY DEF FulfillInv, StartIsClean, SendersExist, QuietRows, QuietRow

\* What they may send is what it was if nothing was added to the pool.
LEMMA PoolsStay ==
    ASSUME FulfillInv, QuietCodes, task' = task, cache'.usable = cache.usable
    PROVE  SendersAreCurrent'
BY DEF FulfillInv, SendersAreCurrent, QuietCodes

\* Without tasks there is no sender.
LEMMA NoSenders ==
    ASSUME \A t \in Tasks : task'[t] = Idle
    PROVE  SendersAreCurrent'
BY DEF SendersAreCurrent, Idle

\* A new process finds the sends of the last one interrupted.
LEMMA OpenStoreGood ==
    ASSUME FulfillInv, OpenStore
    PROVE  GoodStep
<1>1. /\ StoreStep /\ QuietRows /\ QuietCodes
      /\ UNCHANGED <<task, cache, bound, posted, files, platform>>
      /\ phase = "down" /\ phase' = "opened"
  BY InitDbQuiet DEF OpenStore, StoreStep, envVars, FulfillInv, TypeOK
<1>2. \A o \in Orders : orders'[o].status # "sending"
  <2> DEFINE cut == {o \in Orders : orders[o].status = "sending"}
  <2>1. orders' = SetStatus(cut, "retry", "other")
    BY DEF OpenStore, InitDb
  <2>2. \A o \in Orders : o \in cut <=> orders[o].status = "sending"
    OBVIOUS
  <2> HIDE DEF cut
  <2> QED BY <2>1, <2>2, StatusRows DEF FulfillInv, TypeOK
<1>3. StartIsClean' /\ SendersExist'
  BY <1>1, <1>2 DEF FulfillInv, StartIsClean, SendersExist
<1>4. PoolIsCurrent' /\ SendersAreCurrent'
  BY <1>1, CalmWithoutRefresh, PoolsStay DEF CalmStep
<1> QED BY <1>1, <1>3, <1>4, EnvironmentKeeps DEF FulfillInv, TypeOK

\* Before it works it reviews what the platform does not back.
LEMMA QuarantineAtStartGood ==
    ASSUME FulfillInv, QuarantineAtStart
    PROVE  GoodStep
<1>1. /\ StoreStep /\ QuietRows /\ QuietCodes
      /\ UNCHANGED <<task, cache, bound, posted, files, platform>>
      /\ phase = "opened" /\ phase' = "checked"
  BY QuarantineAutomaticOrdersQuiet DEF QuarantineAtStart, StoreStep, envVars, FulfillInv
<1>2. StartIsClean' /\ SendersExist'
  BY <1>1 DEF FulfillInv, StartIsClean, SendersExist, QuietRows, QuietRow
<1>3. PoolIsCurrent' /\ SendersAreCurrent'
  BY <1>1, CalmWithoutRefresh, PoolsStay DEF CalmStep
<1> QED BY <1>1, <1>2, <1>3, EnvironmentKeeps DEF FulfillInv, TypeOK

\* And loads its configuration.
LEMMA RefreshAtStartGood ==
    ASSUME FulfillInv, RefreshAtStart
    PROVE  GoodStep
<1>a. Idle.pc = "idle"
  BY DEF Idle
<1>b. \A t \in Tasks : task[t] = Idle
  BY DEF RefreshAtStart, FulfillInv, StartIsClean
<1>0. \A t \in Tasks : task[t] = Idle /\ task[t].pc = "idle"
  BY <1>a, <1>b
<1>1. /\ CalmStep
      /\ UNCHANGED <<task, bound, platform>>
      /\ phase = "checked" /\ phase' = "up"
  BY <1>0, RefreshCalm DEF RefreshAtStart, envVars
<1>2. StartIsClean' /\ SendersExist' /\ SendersAreCurrent'
  BY <1>0, <1>1, NoSenders DEF FulfillInv, StartIsClean, SendersExist, CalmStep, QuietRows,
                               QuietRow
<1> QED BY <1>1, <1>2, EnvironmentKeeps DEF CalmStep, FulfillInv, TypeOK

\* A crash takes the tasks with it and leaves the store.
LEMMA CrashGood ==
    ASSUME FulfillInv, Crash
    PROVE  GoodStep
<1>1. /\ UNCHANGED storeVars /\ UNCHANGED <<bound, posted, files, platform>>
      /\ task' = [t \in Tasks |-> Idle] /\ phase' = "down"
      /\ cache' = [cache EXCEPT !.synced = FALSE]
  BY DEF Crash
<1>2. StartIsClean' /\ SendersExist' /\ SendersAreCurrent'
  BY <1>1, NoSenders DEF StartIsClean, SendersExist
<1>3. /\ cache' \in [config : [PlatformOrders -> Configs], needed : BOOLEAN,
                     synced : BOOLEAN, usable : BOOLEAN]
      /\ ~cache'.synced
  BY <1>1 DEF FulfillInv, TypeOK
<1>4. PoolIsCurrent'
  BY <1>3 DEF PoolIsCurrent
<1>5. QuietRows
  BY <1>1, SameStoreQuiet
<1> QED BY <1>1, <1>2, <1>3, <1>4, <1>5, EnvironmentKeeps DEF FulfillInv, TypeOK

\* The edited file has to be loaded again; a sender that has looked goes on with what
\* it has.
LEMMA EditManifestGood ==
    ASSUME FulfillInv, EditManifest
    PROVE  GoodStep
<1>1. /\ UNCHANGED storeVars /\ UNCHANGED <<phase, task, bound, posted, platform>>
      /\ cache' = [cache EXCEPT !.synced = FALSE]
  BY DEF EditManifest
<1>2. /\ cache' \in [config : [PlatformOrders -> Configs], needed : BOOLEAN,
                     synced : BOOLEAN, usable : BOOLEAN]
      /\ ~cache'.synced /\ cache'.usable = cache.usable
  BY <1>1 DEF FulfillInv, TypeOK
<1>3. PoolIsCurrent'
  BY <1>2 DEF PoolIsCurrent
<1>4. files' \in [manifest : Manifests \cup {Invalid}, config : [PlatformOrders -> Configs]]
  <2>1. PICK m \in Manifests \cup {Invalid} : files' = [files EXCEPT !.manifest = m]
    BY FulfillmentAssumption DEF EditManifest
  <2> QED BY <2>1 DEF FulfillInv, TypeOK
<1>5. QuietRows /\ SendersAreCurrent'
  BY <1>1, <1>2, SameStoreQuiet, PoolsStay
<1> QED BY <1>1, <1>2, <1>3, <1>4, <1>5, SendersStay, EnvironmentKeeps DEF FulfillInv, TypeOK

\* A product is mapped to another delivery.
LEMMA EditConfigGood ==
    ASSUME FulfillInv, EditConfig
    PROVE  GoodStep
<1>1. /\ UNCHANGED storeVars /\ UNCHANGED <<phase, task, cache, bound, posted, platform>>
  BY DEF EditConfig, workerVars
<1>2. PICK o \in PlatformOrders, c \in Configs : files' = [files EXCEPT !.config[o] = c]
  BY DEF EditConfig
<1>3. /\ files' \in [manifest : Manifests \cup {Invalid}, config : [PlatformOrders -> Configs]]
      /\ files'.manifest = files.manifest
  BY <1>2 DEF FulfillInv, TypeOK
<1>4. PoolIsCurrent'
  BY <1>1, <1>3 DEF PoolIsCurrent, FulfillInv, storeVars
<1>5. QuietRows /\ SendersAreCurrent'
  BY <1>1, SameStoreQuiet, PoolsStay
<1> QED BY <1>1, <1>3, <1>4, <1>5, SendersStay, EnvironmentKeeps DEF FulfillInv, TypeOK

\* Steps that touch neither the worker nor what it reads.
LEMMA ElsewhereKeeps ==
    ASSUME FulfillInv, [StoreStep]_storeVars, QuietRows, QuietCodes,
           UNCHANGED <<workerVars, files>>,
           platform' \in [PlatformOrders -> {"paid", "shipped", "closed"}]
    PROVE  GoodStep
<1>1. UNCHANGED <<phase, task, cache, bound, posted, files>>
  BY DEF workerVars
<1>2. PoolIsCurrent'
  BY <1>1, CalmWithoutRefresh DEF CalmStep
<1>3. SendersAreCurrent'
  BY <1>1, PoolsStay
<1> QED BY <1>1, <1>2, <1>3, SendersStay, EnvironmentKeeps DEF FulfillInv, TypeOK

\* The platform closes or ships an order.
LEMMA PlatformChangesGood ==
    ASSUME FulfillInv, PlatformChanges
    PROVE  GoodStep
<1>1. platform' \in [PlatformOrders -> {"paid", "shipped", "closed"}]
  BY DEF PlatformChanges, FulfillInv, TypeOK
<1> QED BY <1>1, SameStoreQuiet, ElsewhereKeeps DEF PlatformChanges

\* The operator resolves a review, which the worker does not look at.
LEMMA OperatorResolvesGood ==
    ASSUME FulfillInv, OperatorResolves
    PROVE  GoodStep
<1>1. PICK o \in Orders : ResolveManualReview(o)
  BY DEF OperatorResolves
<1>2. StoreStep
  BY <1>1 DEF StoreStep
<1>3. UNCHANGED <<orders, inventory, sent>>
  BY <1>1 DEF ResolveManualReview
<1>4. QuietRows /\ QuietCodes
  BY <1>3 DEF QuietRows, QuietRow, QuietCodes
<1>5. platform' \in [PlatformOrders -> {"paid", "shipped", "closed"}]
  BY DEF OperatorResolves, FulfillInv, TypeOK
<1> QED BY <1>2, <1>4, <1>5, ElsewhereKeeps DEF OperatorResolves

-----------------------------------------------------------------------------
(* The invariant is established and kept.                                  *)

\* A step in which nothing happens.
LEMMA StutterGood ==
    ASSUME FulfillInv, UNCHANGED vars
    PROVE  GoodStep
BY SameStoreQuiet, ElsewhereKeeps DEF vars, workerVars, envVars, FulfillInv, TypeOK

\* Whatever a task does is good.
LEMMA TaskStepGood ==
    ASSUME FulfillInv, NEW t \in Tasks, TaskStep(t)
    PROVE  GoodStep
<1>1. CASE \/ OtherMessage(t) \/ TradeClosed(t) \/ RecordNotice(t) \/ ReviewOrder(t)
           \/ \E o \in PlatformOrders : HandlePaidOrder(t, o)
           \/ HeadAnswer(t) \/ DetailAnswer(t) \/ RecordOrder(t) \/ RecordProof(t)
  BY <1>1, OtherMessageGood, TradeClosedGood, RecordNoticeGood, ReviewOrderGood,
     HandlePaidOrderGood, HeadAnswerGood, DetailAnswerGood, RecordOrderGood, RecordProofGood
<1>2. CASE \/ ScanPendingOrders(t) \/ ListingAnswer(t) \/ ReconcilePendingOrder(t)
           \/ ScanDetailAnswer(t) \/ ConversationAnswer(t)
  BY <1>2, ScanPendingOrdersGood, ListingAnswerGood, ReconcilePendingOrderGood,
     ScanDetailAnswerGood, ConversationAnswerGood
<1>3. CASE \/ RetryPendingDeliveries(t) \/ RetryQuarantine(t) \/ RetryRevive(t)
           \/ NextInLoop(t) \/ EndOfLoop(t)
  BY <1>3, RetryPendingDeliveriesGood, RetryQuarantineGood, RetryReviveGood,
     NextInLoopGood, EndOfLoopGood
<1>4. CASE \/ AcquireOrder(t) \/ PrepareStep(t) \/ ClaimStep(t) \/ VerifyAnswer(t)
           \/ SendStep(t) \/ AckAnswer(t) \/ SendFailed(t) \/ SendUnverified(t)
           \/ ConsignAnswer(t)
  BY <1>4, AcquireOrderGood, PrepareStepGood, ClaimStepGood, VerifyAnswerGood, SendStepGood,
     AckAnswerGood, SendFailedGood, SendUnverifiedGood, ConsignAnswerGood
<1> QED BY <1>1, <1>2, <1>3, <1>4 DEF TaskStep

\* So is every step of the worker, of its process and of what surrounds it.
LEMMA EveryStepIsGood ==
    ASSUME FulfillInv, [Next]_vars
    PROVE  GoodStep
<1>1. ASSUME NEW t \in Scanners, CancelScanner(t)
      PROVE  GoodStep
  BY <1>1, CancelScannerGood DEF Tasks
<1> QED BY <1>1, TaskStepGood, OpenStoreGood, QuarantineAtStartGood, RefreshAtStartGood,
           CrashGood, EditManifestGood, EditConfigGood, PlatformChangesGood,
           OperatorResolvesGood, StutterGood DEF Next

\* The row of an order that an earlier release left in review.
LEMMA LegacyRowShape ==
    ASSUME NEW o \in PlatformOrders, NEW codes \in SUBSET Codes
    PROVE  LET row == LegacyRow(o, codes)
           IN  /\ row \in OrderRow /\ row.status = "manual_review" /\ row.proof = "2"
               /\ row.quantity = Quantity[o] /\ row.ids = codes /\ row.payload = NoPayload
               /\ row.delivery \in {"none", "redeem"}
<1>1. PICK delivery : delivery = IF codes = {} THEN "none" ELSE "redeem"
  OBVIOUS
<1>2. PICK row : row = LegacyRow(o, codes)
  OBVIOUS
<1>3. row = [NoRow EXCEPT !.status = "manual_review", !.proof = "2", !.quantity = Quantity[o],
                          !.delivery = delivery, !.ids = codes, !.reason = "takeover"]
  BY <1>1, <1>2 DEF LegacyRow
<1>4. Quantity[o] \in Nat /\ delivery \in {"none", "redeem"}
  BY <1>1, FulfillmentAssumption, StoreAssumption
<1>5. NoRow \in OrderRow /\ NoRow.payload = NoPayload
  BY DEF NoRow, OrderRow, Statuses, Reasons
<1>6. /\ "manual_review" \in Statuses /\ "takeover" \in Reasons
      /\ delivery \in {"none"} \cup Deliveries
  BY <1>4 DEF Statuses, Terminal, Reasons, Deliveries
<1>7. row \in OrderRow
  BY <1>3, <1>4, <1>5, <1>6 DEF OrderRow
<1>8. /\ row.status = "manual_review" /\ row.proof = "2" /\ row.quantity = Quantity[o]
      /\ row.ids = codes /\ row.payload = NoPayload /\ row.delivery \in {"none", "redeem"}
  BY <1>3, <1>4, <1>5 DEF OrderRow
<1> QED BY <1>2, <1>7, <1>8

\* What an earlier release left is as good as what this one writes.
LEMMA InitIsGood == Init => FulfillInv
<1> SUFFICES ASSUME Init PROVE FulfillInv
  OBVIOUS
<1>0. PICK legacy \in SUBSET LegacyOrders :
          \E ids \in [legacy -> SUBSET Codes] : LegacyStore(legacy, ids)
  BY DEF Init
<1>1. PICK ids \in [legacy -> SUBSET Codes] :
        /\ \A o \in legacy : ids[o] = {} \/ Cardinality(ids[o]) = Quantity[o]
        /\ orders = [o \in Orders |-> IF o \in legacy THEN LegacyRow(o, ids[o]) ELSE NoRow]
        /\ inventory = [c \in Codes |->
              IF \E o \in legacy : c \in ids[o]
              THEN [status |-> "quarantined", key |-> CHOOSE o \in legacy : c \in ids[o]]
              ELSE [status |-> "none", key |-> NoOrder]]
        /\ reviews = [o \in Orders |-> IF o \in legacy THEN "open" ELSE "none"]
  BY <1>0 DEF LegacyStore
<1>2. /\ sent = [o \in Orders |-> {}]
      /\ phase = "down"
      /\ task = [t \in Tasks |-> Idle]
      /\ files = [manifest |-> FirstManifest, config |-> FirstConfig]
      /\ cache = [config |-> FirstConfig, needed |-> FALSE, synced |-> FALSE, usable |-> FALSE]
      /\ platform = [o \in PlatformOrders |-> "paid"]
      /\ bound \in SUBSET Chats
      /\ posted = [o \in PlatformOrders |-> {}]
  BY DEF Init
<1>3. /\ NoRow \in OrderRow /\ NoRow.status = "none" /\ NoRow.proof = "none"
      /\ NoRow.ids = {} /\ NoRow.delivery = "none" /\ NoRow.payload = NoPayload
  BY DEF NoRow, OrderRow, Statuses, Reasons
<1>4. ASSUME NEW o \in legacy
      PROVE  LET row == LegacyRow(o, ids[o])
             IN  /\ row \in OrderRow /\ row.status = "manual_review" /\ row.proof = "2"
                 /\ row.quantity = Quantity[o] /\ row.ids = ids[o] /\ row.payload = NoPayload
                 /\ row.delivery \in {"none", "redeem"}
  BY <1>1, LegacyRowShape, FulfillmentAssumption
<1> HIDE DEF NoRow
<1>5. legacy \subseteq PlatformOrders /\ PlatformOrders \subseteq Orders
  BY FulfillmentAssumption
<1>6. ASSUME NEW o \in Orders
      PROVE  IF o \in legacy THEN orders[o] = LegacyRow(o, ids[o]) ELSE orders[o] = NoRow
  BY <1>1
<1>7. ASSUME NEW c \in Codes
      PROVE  inventory[c] \in CodeRow /\ inventory[c].status \in {"quarantined", "none"}
  <2>1. CASE \E o \in legacy : c \in ids[o]
    <3> DEFINE owner == CHOOSE o \in legacy : c \in ids[o]
    <3>1. owner \in Orders
      BY <1>5, <2>1
    <3>2. inventory[c] = [status |-> "quarantined", key |-> owner]
      BY <1>1, <2>1
    <3> HIDE DEF owner
    <3> QED BY <3>1, <3>2 DEF CodeRow, CodeStatuses
  <2>2. CASE ~ \E o \in legacy : c \in ids[o]
    BY <1>1, <2>2 DEF CodeRow, CodeStatuses
  <2> QED BY <2>1, <2>2
<1>8. /\ \A o \in Orders : orders[o] \in OrderRow /\ orders[o].status \in {"none", "manual_review"}
      /\ \A o \in Orders \ PlatformOrders : orders[o] = NoRow
      /\ \A o \in Orders : orders[o].status = "manual_review" => o \in legacy
  BY <1>3, <1>4, <1>5, <1>6
<1>9. StoreTypeOK
  <2>1. /\ orders = [o \in Orders |-> orders[o]] /\ inventory = [c \in Codes |-> inventory[c]]
        /\ reviews \in [Orders -> {"none", "open", "resolved"}]
        /\ sent \in [Orders -> SUBSET SUBSET Codes]
    BY <1>1, <1>2
  <2> QED BY <1>7, <1>8, <2>1 DEF StoreTypeOK
<1>10. StoreInv
  BY <1>1, <1>2, <1>7, <1>8, <1>9
  DEF StoreInv, ReservationsAreBacked, SentCodesStayBound, ResendsAreIdentical,
      DeliveredIsSettled, ReviewsAreRecorded
<1>11. Idle \in TaskRow /\ Idle.pc = "idle" /\ Idle.loop = "none"
       /\ \A t \in Tasks : task[t] = Idle /\ LocalsOf(t, Idle)
  BY <1>2, IdleOutside DEF Idle, Outside
<1>12. TypeOK
  <2>1. FirstConfig \in [PlatformOrders -> Configs] /\ FirstManifest \in Manifests
    BY FulfillmentAssumption
  <2> QED BY <1>2, <1>9, <1>11, <2>1 DEF TypeOK
<1>13. RowsOK
  <2>1. ASSUME NEW o \in PlatformOrders PROVE PlatformRowOK(o)
    <3>1. sent[o] = {} /\ posted[o] = {}
      BY <1>2, <1>5
    <3>2. CASE o \in legacy
      BY <1>1, <1>4, <1>5, <1>6, <3>1, <3>2 DEF PlatformRowOK, Claimed
    <3>3. CASE o \notin legacy
      BY <1>3, <1>5, <1>6, <3>1, <3>3 DEF PlatformRowOK, Claimed
    <3> QED BY <3>2, <3>3
  <2> QED BY <1>3, <1>8, <2>1 DEF RowsOK, NoticeRowOK, Claimed
<1>14. LocalsOK /\ ShipsAreDelivered /\ LocksExclude /\ AcksAreBacked /\ SendersAreCurrent
  BY <1>11 DEF LocalsOK, ShipsAreDelivered, LocksExclude, AcksAreBacked, SendersAreCurrent,
               Locked, Sending
<1>15. StartIsClean /\ SendersExist /\ DeliveredAsRow /\ PoolIsCurrent
  BY <1>2, <1>5, <1>8 DEF StartIsClean, SendersExist, DeliveredAsRow, PoolIsCurrent
<1> QED BY <1>10, <1>12, <1>13, <1>14, <1>15 DEF FulfillInv

-----------------------------------------------------------------------------
(* Theorems.                                                               *)

\* The inductive invariant of the worker holds throughout, for any tasks, orders,
\* edits and crashes, and whatever an earlier release left behind.
THEOREM WorkerIsSafe == Spec => []FulfillInv
<1>1. FulfillInv /\ [Next]_vars => FulfillInv'
  BY EveryStepIsGood DEF GoodStep
<1> QED BY <1>1, InitIsGood, PTL DEF Spec

\* No task is left at a point or with locals that _fulfill_order and its callers do
\* not have.
THEOREM WorkerIsWellTyped == Spec => []TypeOK
<1>1. FulfillInv => TypeOK
  BY DEF FulfillInv
<1> QED BY <1>1, WorkerIsSafe, PTL

\* The worker uses the store through its transactions, one in a step: what is proved
\* of any caller of delivery_store.py is true of worker/main.py.
THEOREM WorkerUsesTransactions == Spec => StepsAreTransactions
<1>1. FulfillInv /\ [Next]_vars => [StoreStep]_storeVars
  BY EveryStepIsGood DEF GoodStep
<1> QED BY <1>1, WorkerIsSafe, PTL DEF Spec, StepsAreTransactions

\* Nothing the tasks do undoes what the store settled, legacy rows included.
THEOREM WorkerUndoesNothing == Spec => NothingIsUndone
<1>1. FulfillInv /\ [Next]_vars => [StepNeverUndoes]_storeVars
  BY EveryStepIsGood, StepsNeverUndo DEF GoodStep, FulfillInv
<1> QED BY <1>1, WorkerIsSafe, PTL DEF Spec, NothingIsUndone

\* No card code reaches two buyers, however the tasks of the worker interleave.
THEOREM WorkerSendsCodesOnce == Spec => []NoCodeSentTwice
<1>1. FulfillInv => NoCodeSentTwice
  BY DEF FulfillInv, StoreInv, SentCodesStayBound, NoCodeSentTwice
<1> QED BY <1>1, WorkerIsSafe, PTL

\* While the worker runs, a claimed order has exactly one task inside the try block
\* of _fulfill_order: none is orphaned, and no two send the same order.
THEOREM ClaimsHaveOneSender == Spec => []SendingIsOwned
<1>1. ASSUME FulfillInv, phase = "up", NEW o \in Orders, orders[o].status = "sending"
      PROVE  Cardinality({t \in Tasks : task[t].pc \in Sending /\ task[t].o = o}) = 1
  <2>1. PICK t \in Tasks : task[t].pc \in Sending /\ task[t].o = o
    BY <1>1 DEF FulfillInv, SendersExist
  <2>2. ASSUME NEW u \in Tasks, task[u].pc \in Sending, task[u].o = o
        PROVE  u = t
    <3>1. task[t].pc \in Locked /\ task[u].pc \in Locked
      BY <2>1, <2>2 DEF Sending, Locked
    <3> QED BY <1>1, <2>1, <2>2, <3>1 DEF FulfillInv, LocksExclude
  <2>3. {u \in Tasks : task[u].pc \in Sending /\ task[u].o = o} = {t}
    BY <2>1, <2>2
  <2> QED BY <2>3, FS_Singleton
<1>2. FulfillInv => SendingIsOwned
  BY <1>1 DEF SendingIsOwned
<1> QED BY <1>2, WorkerIsSafe, PTL

\* An order is marked delivered only if the buyer was sent exactly what was paid for.
THEOREM DeliveriesAreComplete == Spec => []DeliveredInFull
<1>1. ASSUME FulfillInv, NEW o \in PlatformOrders, orders[o].status = "delivered"
      PROVE  IF orders[o].delivery = "redeem"
             THEN /\ sent[o] = {orders[o].ids}
                  /\ Cardinality(orders[o].ids) = Quantity[o]
             ELSE posted[o] = {orders[o].payload}
  <2>1. SentAsRow(o) /\ PlatformRowOK(o) /\ o \in Orders
    BY <1>1, FulfillmentAssumption DEF FulfillInv, DeliveredAsRow, RowsOK
  <2>2. CASE orders[o].delivery = "redeem"
    <3>1. sent[o] = {orders[o].ids}
      BY <2>1, <2>2 DEF SentAsRow
    <3>2. orders[o].ids # {}
      BY <1>1, <2>1, <3>1 DEF FulfillInv, StoreInv, ResendsAreIdentical
    <3> QED BY <2>1, <2>2, <3>1, <3>2 DEF PlatformRowOK
  <2>3. CASE orders[o].delivery # "redeem"
    BY <2>1, <2>3 DEF SentAsRow
  <2> QED BY <2>2, <2>3
<1>2. FulfillInv => DeliveredInFull
  BY <1>1 DEF DeliveredInFull
<1> QED BY <1>2, WorkerIsSafe, PTL

\* All messages of an order have the same content, across crashes, reconnects and
\* remapped products: the buyer's client drops the repeats by their common UUID.
THEOREM MessagesRepeatThemselves == Spec => []OneMessagePerOrder
<1>1. ASSUME FulfillInv, NEW o \in PlatformOrders
      PROVE  Cardinality(sent[o]) + Cardinality(posted[o]) <= 1
  <2>1. PlatformRowOK(o) /\ o \in Orders
    BY <1>1, FulfillmentAssumption DEF FulfillInv, RowsOK
  <2>2. sent[o] = {} \/ sent[o] = {orders[o].ids}
    BY <1>1, <2>1 DEF FulfillInv, StoreInv, ResendsAreIdentical
  <2>3. posted[o] = {} \/ posted[o] = {orders[o].payload}
    BY <2>1 DEF PlatformRowOK
  <2>4. sent[o] = {} \/ posted[o] = {}
    BY <2>1 DEF PlatformRowOK
  <2>5. Cardinality({}) = 0 /\ \A x : Cardinality({x}) = 1
    BY FS_EmptySet, FS_Singleton
  <2>6. /\ sent[o] = {} => Cardinality(sent[o]) = 0
        /\ sent[o] # {} => Cardinality(sent[o]) = 1
        /\ posted[o] = {} => Cardinality(posted[o]) = 0
        /\ posted[o] # {} => Cardinality(posted[o]) = 1
    BY <2>2, <2>3, <2>5, Zenon
  <2> QED BY <2>4, <2>6
<1>2. FulfillInv => OneMessagePerOrder
  BY <1>1 DEF OneMessagePerOrder
<1> QED BY <1>2, WorkerIsSafe, PTL

\* A code the operator took back on disk before the platform's answer for an attempt
\* arrived is not sent by it, whatever the worker had loaded when it asked.
THEOREM RevokedCodesStay == Spec => RevokedCodesAreNotSent
<1>1. FulfillInv /\ [Next]_vars =>
         [\A o \in Orders : sent'[o] # sent[o] =>
             \E t \in Tasks :
                 /\ task[t].pc = "send" /\ task[t].o = o
                 /\ task[t].file # Invalid
                 /\ \A c \in orders[o].ids : task[t].file[c] = "unused"]_vars
  BY EveryStepIsGood DEF GoodStep, Offered
<1> QED BY <1>1, WorkerIsSafe, PTL DEF Spec, RevokedCodesAreNotSent
=============================================================================
