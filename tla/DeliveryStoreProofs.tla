------------------------- MODULE DeliveryStoreProofs -------------------------
(***************************************************************************)
(* Theorems about DeliveryStore, for any number of orders, codes, chats    *)
(* and payloads and any quantity and attempt limits.                       *)
(*                                                                         *)
(* StoreInv is inductive.  The argument goes through SafeStep, which says  *)
(* what one transaction may do to one code and to one order.  It is strong *)
(* enough to keep StoreInv (SafeStepKeeps) and every transaction is safe   *)
(* (one lemma per transaction).  The only step that is not a transaction,  *)
(* SendCodes, is treated on its own, because it alone changes sent.        *)
(***************************************************************************)
EXTENDS DeliveryStore, TLAPS

\* Code c goes from one status to another.
Moved(c, from, to) == inventory[c].status = from /\ inventory'[c].status = to

\* What a transaction may do to a code: leave it, import or retire it, reserve it
\* for a claimed order, quarantine it, free it if its order was never sent, or
\* deliver it together with its order.
CodeStep(c) ==
    \/ inventory'[c] = inventory[c]
    \/ /\ inventory[c].status \in {"none", "available"}
       /\ inventory'[c].status \in {"available", "legacy_used", "quarantined"}
    \/ /\ Moved(c, "available", "reserved")
       /\ inventory'[c].key \in Orders
       /\ c \in orders'[inventory'[c].key].ids
       /\ orders'[inventory'[c].key].status \in Claimed
    \/ /\ Moved(c, "reserved", "quarantined")
       /\ inventory'[c].key = inventory[c].key
    \/ /\ Moved(c, "reserved", "available")
       /\ orders[inventory[c].key].status \notin MaybeSent
    \/ /\ Moved(c, "reserved", "delivered")
       /\ inventory'[c].key = inventory[c].key
       /\ orders'[inventory[c].key].status = "delivered"

\* What a transaction may do to an order.
OrderStep(o) ==
    /\ orders[o].ids # {} => orders'[o].ids = orders[o].ids
    /\ orders[o].status = "delivered" =>
          orders'[o].status = "delivered" /\ orders'[o].ids = orders[o].ids
    /\ orders[o].status \in MaybeSent => orders'[o].status \notin {"reserved"}
    /\ orders[o].status \in Claimed /\ orders'[o].status \notin Claimed =>
          \A c \in orders[o].ids :
              inventory[c].status = "reserved" /\ inventory[c].key = o =>
                  inventory'[c].status # "reserved"
    /\ orders[o].status # "delivered" /\ orders'[o].status = "delivered" =>
          \A c \in orders'[o].ids : inventory'[c] = [status |-> "delivered", key |-> o]
    /\ orders[o].status \in {"cancelled", "expired"} =>
          orders'[o].status \in {orders[o].status, "manual_review"}
    /\ orders'[o].status = "manual_review" => reviews'[o] # "none"

\* A step that treats every code and every order as it should.
SafeStep ==
    /\ StoreTypeOK'
    /\ sent' = sent
    /\ \A c \in Codes : CodeStep(c)
    /\ \A o \in Orders : OrderStep(o)

\* A safe step preserves the invariant of the store.
LEMMA SafeStepKeeps ==
    ASSUME StoreInv, SafeStep
    PROVE  StoreInv'
<1> USE DEF StoreInv, SafeStep
<1>t. /\ \A c \in Codes : inventory[c] \in CodeRow /\ inventory'[c] \in CodeRow
      /\ \A o \in Orders : orders[o].ids \subseteq Codes /\ orders'[o].ids \subseteq Codes
      /\ \A o \in Orders : \A codes \in sent[o] : codes \subseteq Codes
  BY DEF StoreTypeOK, OrderRow
<1>1. ReservationsAreBacked'
  <2> SUFFICES ASSUME NEW c \in Codes, inventory'[c].status = "reserved"
               PROVE  /\ inventory'[c].key \in Orders
                      /\ c \in orders'[inventory'[c].key].ids
                      /\ orders'[inventory'[c].key].status \in Claimed
    BY DEF ReservationsAreBacked
  <2>1. CodeStep(c)
    OBVIOUS
  <2>2. CASE inventory'[c] = inventory[c]
    <3>1. /\ inventory[c].key \in Orders
          /\ c \in orders[inventory[c].key].ids
          /\ orders[inventory[c].key].status \in Claimed
      BY <2>2 DEF ReservationsAreBacked
    <3>2. OrderStep(inventory[c].key)
      BY <3>1
    <3> QED BY <2>2, <3>1, <3>2 DEF OrderStep
  <2>3. CASE Moved(c, "available", "reserved")
    BY <2>1, <2>3 DEF CodeStep, Moved
  <2> QED BY <2>1, <2>2, <2>3 DEF CodeStep, Moved
<1>2. SentCodesStayBound'
  <2> SUFFICES ASSUME NEW o \in Orders, NEW codes \in sent[o], NEW c \in codes
               PROVE  /\ inventory'[c].key = o
                      /\ inventory'[c].status \in {"reserved", "quarantined", "delivered"}
                      /\ inventory'[c].status = "reserved" => orders'[o].status \in MaybeSent
    BY DEF SentCodesStayBound
  <2>1. /\ c \in Codes
        /\ inventory[c].key = o
        /\ inventory[c].status \in {"reserved", "quarantined", "delivered"}
        /\ inventory[c].status = "reserved" => orders[o].status \in MaybeSent
        /\ CodeStep(c)
        /\ OrderStep(o)
    BY <1>t DEF SentCodesStayBound
  <2>2. CASE inventory'[c] = inventory[c] /\ inventory[c].status = "reserved"
    <3>1. orders[o].status \in MaybeSent /\ c \in orders[o].ids
      BY <2>1, <2>2 DEF ReservationsAreBacked
    <3> QED BY <2>1, <2>2, <3>1 DEF OrderStep, Claimed, MaybeSent
  <2>3. CASE inventory'[c] = inventory[c] /\ inventory[c].status # "reserved"
    BY <2>1, <2>3
  <2>4. CASE inventory'[c] # inventory[c]
    BY <2>1, <2>4 DEF CodeStep, Moved
  <2> QED BY <2>2, <2>3, <2>4
<1>3. ResendsAreIdentical'
  BY DEF ResendsAreIdentical, OrderStep
<1>4. DeliveredIsSettled'
  <2>1. ASSUME NEW o \in Orders, orders'[o].status = "delivered", NEW c \in orders'[o].ids
        PROVE  inventory'[c] = [status |-> "delivered", key |-> o]
    <3>1. OrderStep(o) /\ CodeStep(c) /\ c \in Codes
      BY <1>t, <2>1
    <3>2. CASE orders[o].status = "delivered"
      BY <3>1, <3>2 DEF DeliveredIsSettled, OrderStep, CodeStep, Moved
    <3>3. CASE orders[o].status # "delivered"
      BY <2>1, <3>1, <3>3 DEF OrderStep
    <3> QED BY <3>2, <3>3
  <2>2. ASSUME NEW c \in Codes, inventory'[c].status = "delivered"
        PROVE  /\ inventory'[c].key \in Orders
               /\ orders'[inventory'[c].key].status = "delivered"
               /\ c \in orders'[inventory'[c].key].ids
    <3>1. CodeStep(c)
      OBVIOUS
    <3>2. CASE inventory'[c] = inventory[c]
      <4>1. /\ inventory[c].key \in Orders
            /\ orders[inventory[c].key].status = "delivered"
            /\ c \in orders[inventory[c].key].ids
        BY <2>2, <3>2 DEF DeliveredIsSettled
      <4> QED BY <3>2, <4>1 DEF OrderStep
    <3>3. CASE Moved(c, "reserved", "delivered")
      <4>1. /\ inventory[c].key \in Orders
            /\ c \in orders[inventory[c].key].ids
        BY <3>3 DEF Moved, ReservationsAreBacked
      <4>2. /\ inventory'[c].key = inventory[c].key
            /\ orders'[inventory[c].key].status = "delivered"
        BY <3>1, <3>3 DEF CodeStep, Moved
      <4> QED BY <4>1, <4>2 DEF OrderStep
    <3> QED BY <2>2, <3>1, <3>2, <3>3 DEF CodeStep, Moved
  <2> QED BY <2>1, <2>2 DEF DeliveredIsSettled
<1>5. ReviewsAreRecorded'
  BY DEF ReviewsAreRecorded, OrderStep
<1> QED BY <1>1, <1>2, <1>3, <1>4, <1>5

-----------------------------------------------------------------------------
\* Setting the status of a set of orders keeps every row well formed, keeps
\* codes and delivery kind, and touches no other row.
LEMMA SetStatusRows ==
    ASSUME StoreTypeOK, NEW S, NEW s \in Statuses, NEW t \in Reasons
    PROVE  /\ SetStatus(S, s, t) \in [Orders -> OrderRow]
           /\ \A o \in Orders :
                /\ SetStatus(S, s, t)[o].ids = orders[o].ids
                /\ o \in S => SetStatus(S, s, t)[o].status = s
                /\ o \notin S => SetStatus(S, s, t)[o] = orders[o]
<1> DEFINE rows == SetStatus(S, s, t)
<1>1. ASSUME NEW o \in Orders
      PROVE  /\ rows[o] \in OrderRow
             /\ rows[o].ids = orders[o].ids
             /\ o \in S => rows[o].status = s
             /\ o \notin S => rows[o] = orders[o]
  <2>1. orders[o] \in OrderRow
    BY DEF StoreTypeOK
  <2>2. CASE o \in S
    <3>1. rows[o] = [orders[o] EXCEPT !.status = s, !.reason = t]
      BY <2>2 DEF SetStatus
    <3> HIDE DEF rows
    <3> QED BY <2>1, <2>2, <3>1 DEF OrderRow
  <2>3. CASE o \notin S
    <3>1. rows[o] = orders[o]
      BY <2>3 DEF SetStatus
    <3> HIDE DEF rows
    <3> QED BY <2>1, <2>3, <3>1
  <2> QED BY <2>2, <2>3
<1>2. rows = [o \in Orders |-> rows[o]]
  BY DEF SetStatus
<1> HIDE DEF rows
<1>3. rows \in [Orders -> OrderRow]
  BY <1>1, <1>2
<1>4. \A o \in Orders : /\ rows[o].ids = orders[o].ids
                        /\ o \in S => rows[o].status = s
                        /\ o \notin S => rows[o] = orders[o]
  BY <1>1
<1> QED BY <1>3, <1>4 DEF rows

\* Quarantining codes keeps their reservation key and touches no other code.
LEMMA QuarantineRows ==
    ASSUME StoreTypeOK, NEW S
    PROVE  /\ Quarantine(S) \in [Codes -> CodeRow]
           /\ \A c \in Codes :
                /\ Quarantine(S)[c].key = inventory[c].key
                /\ Quarantine(S)[c].status = IF c \in S THEN "quarantined" ELSE inventory[c].status
BY DEF Quarantine, StoreTypeOK, CodeRow, CodeStatuses

\* The codes a transaction selects for an order, by its inventory_ids, are all the
\* codes reserved for it.
LEMMA HeldFacts ==
    ASSUME StoreInv, NEW o \in Orders
    PROVE  /\ Held(o) \subseteq Codes
           /\ \A c \in Codes : c \in Held(o) <=>
                 inventory[c].status = "reserved" /\ inventory[c].key = o
<1> USE DEF StoreInv
<1>1. orders[o].ids \subseteq Codes
  BY DEF StoreTypeOK, OrderRow
<1>2. ASSUME NEW c \in Codes
      PROVE  c \in Held(o) <=> inventory[c].status = "reserved" /\ inventory[c].key = o
  <2>1. inventory[c] \in CodeRow
    BY DEF StoreTypeOK
  <2>2. inventory[c] = [status |-> "reserved", key |-> o] <=>
          inventory[c].status = "reserved" /\ inventory[c].key = o
    BY <2>1 DEF CodeRow
  <2> QED BY <2>2 DEF Held, ReservationsAreBacked
<1> QED BY <1>1, <1>2 DEF Held

\* The same for a set of orders.
LEMMA HeldByFacts ==
    ASSUME StoreInv, NEW S \in SUBSET Orders
    PROVE  \A c \in Codes : c \in HeldBy(S) <=>
              inventory[c].status = "reserved" /\ inventory[c].key \in S
BY HeldFacts DEF HeldBy, StoreInv, ReservationsAreBacked

\* _upsert_manual_review leaves a review row for every order that is in review.
LEMMA UpsertRows ==
    ASSUME StoreInv, NEW S
    PROVE  /\ UpsertManualReview(S) \in [Orders -> {"none", "open", "resolved"}]
           /\ \A o \in Orders :
                o \in S \/ orders[o].status = "manual_review" => UpsertManualReview(S)[o] # "none"
BY DEF UpsertManualReview, StoreInv, StoreTypeOK, ReviewsAreRecorded

\* A transaction that changes nothing is safe.
LEMMA SameStoreSafe ==
    ASSUME StoreInv, UNCHANGED storeVars
    PROVE  SafeStep
BY DEF storeVars, SafeStep, CodeStep, OrderStep, StoreInv, StoreTypeOK, ReviewsAreRecorded, MaybeSent, Claimed

\* A transaction that writes one order row, keeping its codes, is safe.
LEMMA RowStepSafe ==
    ASSUME StoreInv, NEW o \in Orders, NEW row \in OrderRow,
           orders' = [orders EXCEPT ![o] = row],
           UNCHANGED <<inventory, reviews, sent>>,
           row.ids = orders[o].ids,
           row.status \in {orders[o].status} \cup {"awaiting_binding", "expired", "verified", "sending", "retry"},
           row.status = "sending" => orders[o].status \in Claimed,
           row.status = "retry" => orders[o].status \in Claimed,
           row.status # orders[o].status /\ row.status \in {"awaiting_binding", "expired", "verified"} =>
              orders[o].status \notin Claimed \cup {"cancelled", "expired"},
           orders[o].status = "delivered" => row.status = "delivered"
    PROVE  SafeStep
<1>1. orders'[o] = row /\ \A p \in Orders : p # o => orders'[p] = orders[p]
  BY DEF StoreInv, StoreTypeOK
<1>2. StoreTypeOK'
  BY DEF StoreInv, StoreTypeOK
<1> QED
  BY <1>1, <1>2 DEF SafeStep, CodeStep, OrderStep, StoreInv, ReviewsAreRecorded, MaybeSent, Claimed

\* A step that ends orders: those in U were never sent and their codes are freed,
\* those in T may have been and their codes are quarantined.
EndStep(U, T) ==
    /\ StoreTypeOK'
    /\ sent' = sent
    /\ \A o \in U : orders[o].status \notin MaybeSent \cup {"delivered"}
    /\ \A o \in T : orders[o].status # "delivered"
    /\ \A o \in Orders :
          /\ orders'[o].ids = orders[o].ids
          /\ o \notin U \cup T => orders'[o].status = orders[o].status
          /\ o \in U \cup T => orders'[o].status \in {"cancelled", "manual_review"}
          /\ o \in U \cup T /\ orders[o].status \in {"cancelled", "expired"} =>
                orders'[o].status = "manual_review"
          /\ orders'[o].status = "manual_review" => reviews'[o] # "none"
    /\ \A c \in Codes :
          /\ inventory[c].status = "reserved" /\ inventory[c].key \in U =>
                inventory'[c].status = "available"
          /\ inventory[c].status = "reserved" /\ inventory[c].key \in T =>
                /\ inventory'[c].status = "quarantined"
                /\ inventory'[c].key = inventory[c].key
          /\ ~(inventory[c].status = "reserved" /\ inventory[c].key \in U \cup T) =>
                inventory'[c] = inventory[c]

\* A step that ends orders in this way is safe.
LEMMA EndStepSafe ==
    ASSUME StoreInv, NEW U, NEW T, EndStep(U, T)
    PROVE  SafeStep
<1> USE DEF EndStep
<1>1. ASSUME NEW c \in Codes
      PROVE  CodeStep(c)
  <2>1. CASE inventory[c].status = "reserved" /\ inventory[c].key \in U
    BY <2>1 DEF CodeStep, Moved
  <2>2. CASE inventory[c].status = "reserved" /\ inventory[c].key \in T
    BY <2>2 DEF CodeStep, Moved
  <2> QED BY <2>1, <2>2 DEF CodeStep
<1>2. ASSUME NEW o \in Orders
      PROVE  OrderStep(o)
  <2>1. orders[o].ids \subseteq Codes
    BY DEF StoreInv, StoreTypeOK, OrderRow
  <2> QED BY <2>1 DEF OrderStep, MaybeSent, Claimed
<1> QED BY <1>1, <1>2 DEF SafeStep

\* The transaction RecordPaymentEvent is a safe step.
LEMMA RecordPaymentEventSafe ==
    ASSUME StoreInv, NEW o \in Orders, NEW late \in BOOLEAN, RecordPaymentEvent(o, late)
    PROVE  SafeStep
<1>1. orders[o] \in OrderRow
  BY DEF StoreInv, StoreTypeOK
<1>2. CASE orders[o].status = "none"
  <2>0. orders' = [orders EXCEPT ![o].status = IF late THEN "expired" ELSE "awaiting_binding"]
    BY <1>2 DEF RecordPaymentEvent
  <2>1. orders'[o] \in OrderRow /\ orders'[o].ids = orders[o].ids
    BY <1>1, <1>2, <2>0 DEF StoreInv, StoreTypeOK, OrderRow, Statuses, Live, Terminal
  <2>2. orders'[o].status \in {"awaiting_binding", "expired"}
    BY <1>1, <1>2, <2>0 DEF StoreInv, StoreTypeOK, OrderRow
  <2>3. \A p \in Orders : p # o => orders'[p] = orders[p]
    BY <2>0 DEF StoreInv, StoreTypeOK
  <2>4. StoreTypeOK'
    BY <2>0, <2>1, <2>3 DEF RecordPaymentEvent, StoreInv, StoreTypeOK
  <2> QED BY <1>2, <2>1, <2>2, <2>3, <2>4 DEF RecordPaymentEvent, SafeStep, CodeStep, OrderStep, StoreInv, ReviewsAreRecorded, Claimed, MaybeSent
<1>3. CASE orders[o].status # "none"
  BY <1>3 DEF RecordPaymentEvent, SafeStep, CodeStep, OrderStep, StoreInv, StoreTypeOK, ReviewsAreRecorded, Claimed, MaybeSent
<1> QED BY <1>2, <1>3

\* The transaction RecordVerified is a safe step.
LEMMA RecordVerifiedSafe ==
    ASSUME StoreInv, NEW o \in Orders, NEW p \in {"2", "other"}, NEW q \in 1 .. MaxQuantity,
           RecordVerified(o, p, q)
    PROVE  SafeStep
<1> DEFINE row == [orders[o] EXCEPT !.proof = p, !.quantity = q,
                     !.status = IF @ = "awaiting_binding" THEN "verified" ELSE @]
<1>1. orders[o] \in OrderRow
  BY DEF StoreInv, StoreTypeOK
<1>2. q \in Nat
  BY StoreAssumption
<1>3. row \in OrderRow /\ row.ids = orders[o].ids
      /\ row.status = IF orders[o].status = "awaiting_binding" THEN "verified" ELSE orders[o].status
  BY <1>1, <1>2 DEF OrderRow, Statuses, Live
<1>4. orders' = [orders EXCEPT ![o] = row]
  BY DEF RecordVerified, StoreInv, StoreTypeOK
<1> HIDE DEF row
<1> QED
  BY <1>3, <1>4, RowStepSafe DEF RecordVerified, Claimed

\* The transaction ExpireAwaiting is a safe step.
LEMMA ExpireAwaitingSafe ==
    ASSUME StoreInv, NEW S \in SUBSET Orders, ExpireAwaiting(S)
    PROVE  SafeStep
<1>1. ASSUME NEW o \in Orders
      PROVE  /\ orders'[o] \in OrderRow
             /\ orders'[o].ids = orders[o].ids
             /\ orders'[o].status = IF o \in S THEN "expired" ELSE orders[o].status
  <2>1. orders[o] \in OrderRow
    BY DEF StoreInv, StoreTypeOK
  <2>2. orders'[o] = IF o \in S THEN [orders[o] EXCEPT !.status = "expired"] ELSE orders[o]
    BY DEF ExpireAwaiting
  <2>3. CASE o \in S
    BY <2>1, <2>2, <2>3 DEF OrderRow, Statuses, Terminal
  <2> QED BY <2>1, <2>2, <2>3
<1>2. StoreTypeOK'
  BY <1>1 DEF ExpireAwaiting, StoreInv, StoreTypeOK
<1>3. \A o \in S : orders[o].status = "awaiting_binding"
  BY DEF ExpireAwaiting
<1> QED
  BY <1>1, <1>2, <1>3 DEF ExpireAwaiting, SafeStep, CodeStep, OrderStep, StoreInv, ReviewsAreRecorded, MaybeSent, Claimed

\* The transaction ResolveManualReview is a safe step.
LEMMA ResolveManualReviewSafe ==
    ASSUME StoreInv, NEW o \in Orders, ResolveManualReview(o)
    PROVE  SafeStep
BY DEF ResolveManualReview, SafeStep, CodeStep, OrderStep, StoreInv, StoreTypeOK, ReviewsAreRecorded, MaybeSent, Claimed

\* The transaction ClaimOrderForSend is a safe step.
LEMMA ClaimOrderForSendSafe ==
    ASSUME StoreInv, NEW o \in Orders, ClaimOrderForSend(o)
    PROVE  SafeStep
<1> DEFINE row == [orders[o] EXCEPT !.status = "sending"]
<1>1. orders[o] \in OrderRow
  BY DEF StoreInv, StoreTypeOK
<1>3. row \in OrderRow /\ row.ids = orders[o].ids /\ row.status = "sending"
  BY <1>1 DEF OrderRow, Statuses, Live, Claimed
<1>4. orders' = [orders EXCEPT ![o] = row]
  BY DEF ClaimOrderForSend, StoreInv, StoreTypeOK
<1> HIDE DEF row
<1> QED
  BY <1>3, <1>4, RowStepSafe DEF ClaimOrderForSend, Claimed

\* The transaction MarkPlatformShipped is a safe step.
LEMMA MarkPlatformShippedSafe ==
    ASSUME StoreInv, NEW o \in Orders, MarkPlatformShipped(o)
    PROVE  SafeStep
<1> DEFINE row == [orders[o] EXCEPT !.shipped = "yes"]
<1>1. orders[o] \in OrderRow
  BY DEF StoreInv, StoreTypeOK
<1>3. row \in OrderRow /\ row.ids = orders[o].ids /\ row.status = orders[o].status
  BY <1>1 DEF OrderRow
<1>4. orders' = [orders EXCEPT ![o] = row]
  BY DEF MarkPlatformShipped, StoreInv, StoreTypeOK
<1> HIDE DEF row
<1> QED
  BY <1>3, <1>4, RowStepSafe DEF MarkPlatformShipped, Claimed

\* The transaction RecordPlatformShipAttempt is a safe step.
LEMMA RecordPlatformShipAttemptSafe ==
    ASSUME StoreInv, NEW o \in Orders, orders[o].status = "delivered", RecordPlatformShipAttempt(o)
    PROVE  SafeStep
<1> DEFINE row == [orders[o] EXCEPT !.attempts = @ + 1, !.reason = "other"]
<1>1. orders[o] \in OrderRow
  BY DEF StoreInv, StoreTypeOK
<1>2. orders[o].attempts + 1 \in Nat
  BY <1>1 DEF OrderRow
<1>3. row \in OrderRow /\ row.ids = orders[o].ids /\ row.status = orders[o].status
  BY <1>1, <1>2 DEF OrderRow, Reasons
<1>4. orders' = [orders EXCEPT ![o] = row]
  BY DEF RecordPlatformShipAttempt, StoreInv, StoreTypeOK
<1> HIDE DEF row
<1> QED
  BY <1>3, <1>4, RowStepSafe DEF RecordPlatformShipAttempt, Claimed

\* Setting the status to manual_review, the case of SetStatusRows used most.
LEMMA ReviewRows ==
    ASSUME StoreInv, NEW S, NEW t \in Reasons
    PROVE  /\ SetStatus(S, "manual_review", t) \in [Orders -> OrderRow]
           /\ \A o \in Orders :
                /\ SetStatus(S, "manual_review", t)[o].ids = orders[o].ids
                /\ o \in S => SetStatus(S, "manual_review", t)[o].status = "manual_review"
                /\ o \notin S => SetStatus(S, "manual_review", t)[o] = orders[o]
<1>1. "manual_review" \in Statuses /\ StoreTypeOK
  BY DEF Statuses, Terminal, StoreInv
<1> QED BY <1>1, SetStatusRows

\* Sending a set of undelivered orders to review with their codes quarantined is
\* a safe step.
LEMMA ReviewSafe ==
    ASSUME StoreInv, NEW S \in SUBSET Orders, NEW reason \in Reasons,
           orders' = SetStatus(S, "manual_review", reason),
           inventory' = Quarantine(HeldBy(S)),
           reviews' = UpsertManualReview(S),
           sent' = sent,
           \A o \in S : orders[o].status # "delivered"
    PROVE  SafeStep
<1>0. "manual_review" \in Statuses /\ StoreTypeOK
  BY DEF Statuses, Terminal, StoreInv
<1>1. StoreTypeOK'
  BY <1>0, ReviewRows, QuarantineRows, UpsertRows DEF StoreTypeOK
<1>2. \A o \in Orders :
         /\ orders'[o].ids = orders[o].ids
         /\ o \in S => orders'[o].status = "manual_review"
         /\ o \notin S => orders'[o] = orders[o]
  <2>1. /\ SetStatus(S, "manual_review", reason) \in [Orders -> OrderRow]
        /\ \A o \in Orders :
              /\ SetStatus(S, "manual_review", reason)[o].ids = orders[o].ids
              /\ o \in S => SetStatus(S, "manual_review", reason)[o].status = "manual_review"
              /\ o \notin S => SetStatus(S, "manual_review", reason)[o] = orders[o]
    BY ReviewRows
  <2> QED BY <2>1
<1>3. \A o \in Orders : orders'[o].status = "manual_review" => reviews'[o] # "none"
  BY <1>2, UpsertRows
<1>4. \A c \in Codes :
         /\ inventory'[c].key = inventory[c].key
         /\ inventory'[c].status =
              IF inventory[c].status = "reserved" /\ inventory[c].key \in S
              THEN "quarantined" ELSE inventory[c].status
  BY <1>0, HeldByFacts, QuarantineRows
<1>5. ASSUME NEW c \in Codes, ~(inventory[c].status = "reserved" /\ inventory[c].key \in S)
      PROVE  inventory'[c] = inventory[c]
  <2>1. inventory[c] \in CodeRow /\ inventory'[c] \in CodeRow
    BY <1>0, <1>1 DEF StoreTypeOK
  <2> QED BY <1>4, <1>5, <2>1 DEF CodeRow
<1> QED
  <2>1. EndStep({}, S)
    BY <1>1, <1>2, <1>3, <1>4, <1>5 DEF EndStep
  <2> QED BY <2>1, EndStepSafe

\* The transaction QuarantineAutomaticOrders is a safe step.
LEMMA QuarantineAutomaticOrdersSafe ==
    ASSUME StoreInv, QuarantineAutomaticOrders
    PROVE  SafeStep
<1>1. Unproven \in SUBSET Orders /\ \A o \in Unproven : orders[o].status # "delivered"
  BY DEF Unproven, Live, Claimed
<1>2. "other" \in Reasons
  BY DEF Reasons
<1> QED BY <1>1, <1>2, ReviewSafe DEF QuarantineAutomaticOrders

\* The transaction MarkOrderManualReview is a safe step.
LEMMA MarkOrderManualReviewSafe ==
    ASSUME StoreInv, NEW o \in Orders, NEW reason \in Reasons,
           MarkOrderManualReview(o, reason)
    PROVE  SafeStep
<1>0. "manual_review" \in Statuses /\ StoreTypeOK /\ HeldBy({o}) = Held(o)
  BY DEF Statuses, Terminal, StoreInv, HeldBy
<1>1. CASE orders[o].status \in {"none", "delivered"}
  BY <1>1, SameStoreSafe DEF MarkOrderManualReview
<1>2. CASE orders[o].status \in MaybeSent
  <2>1. /\ orders' = SetStatus({o}, "manual_review", reason)
        /\ inventory' = Quarantine(HeldBy({o}))
        /\ reviews' = UpsertManualReview({o})
        /\ sent' = sent
    BY <1>0, <1>2 DEF MarkOrderManualReview, MaybeSent
  <2>2. {o} \in SUBSET Orders /\ \A p \in {o} : orders[p].status # "delivered"
    BY <1>2 DEF MaybeSent
  <2> QED BY <2>1, <2>2, ReviewSafe
<1>3. CASE orders[o].status \notin MaybeSent \cup {"none", "delivered"}
  <2>1. /\ orders' = SetStatus({o}, "manual_review", reason)
        /\ inventory' = [c \in Codes |-> IF c \in Held(o) THEN Free ELSE inventory[c]]
        /\ reviews' = UpsertManualReview({o})
        /\ sent' = sent
    BY <1>3 DEF MarkOrderManualReview
  <2>2. \A c \in Codes : inventory'[c] =
           IF inventory[c].status = "reserved" /\ inventory[c].key = o
           THEN Free ELSE inventory[c]
    BY <2>1, HeldFacts
  <2>3. /\ SetStatus({o}, "manual_review", reason) \in [Orders -> OrderRow]
        /\ \A p \in Orders :
              /\ SetStatus({o}, "manual_review", reason)[p].ids = orders[p].ids
              /\ p \in {o} => SetStatus({o}, "manual_review", reason)[p].status = "manual_review"
              /\ p \notin {o} => SetStatus({o}, "manual_review", reason)[p] = orders[p]
    BY <1>0, SetStatusRows
  <2>4. /\ orders' \in [Orders -> OrderRow]
        /\ orders'[o].status = "manual_review"
        /\ \A p \in Orders : /\ orders'[p].ids = orders[p].ids
                             /\ p # o => orders'[p] = orders[p]
    BY <2>1, <2>3
  <2>5. \A p \in Orders : orders'[p].status = "manual_review" => reviews'[p] # "none"
    BY <2>1, <2>4, UpsertRows
  <2>6. reviews' \in [Orders -> {"none", "open", "resolved"}]
    BY <2>1, UpsertRows
  <2>7. Free \in CodeRow /\ Free.status = "available"
    BY DEF Free, CodeRow, CodeStatuses
  <2>8. inventory' \in [Codes -> CodeRow]
    BY <1>0, <2>1, <2>7 DEF StoreTypeOK
  <2>9. StoreTypeOK'
    BY <1>0, <2>1, <2>4, <2>6, <2>8 DEF StoreTypeOK
  <2>10. EndStep({o}, {})
    BY <1>3, <2>1, <2>2, <2>4, <2>5, <2>7, <2>9 DEF EndStep
  <2> QED BY <2>10, EndStepSafe
<1> QED BY <1>1, <1>2, <1>3

\* The transaction CancelAwaitingForChat is a safe step: U are the orders it
\* cancels, T the ones that may have been sent.
LEMMA CancelAwaitingForChatSafe ==
    ASSUME StoreInv, NEW chat \in Chats, CancelAwaitingForChat(chat)
    PROVE  SafeStep
<1> DEFINE U == {o \in Orders : ChatOf[o] = chat /\ orders[o].status \in Live \ MaybeSent}
           T == {o \in Orders : ChatOf[o] = chat /\ orders[o].status \in MaybeSent}
<1>0. "manual_review" \in Statuses /\ "cancelled" \in Statuses /\ "other" \in Reasons /\ StoreTypeOK
  BY DEF Statuses, Terminal, StoreInv, Reasons
<1>1. /\ U \in SUBSET Orders /\ T \in SUBSET Orders /\ U \cap T = {}
      /\ \A o \in U : orders[o].status \notin MaybeSent \cup {"delivered", "cancelled", "expired"}
      /\ \A o \in T : orders[o].status \notin {"delivered", "cancelled", "expired"}
  BY DEF Live, Claimed, MaybeSent
<1>2. /\ orders' = [o \in Orders |->
              IF o \in U THEN [orders[o] EXCEPT !.status = "cancelled"]
              ELSE SetStatus(T, "manual_review", "other")[o]]
      /\ inventory' = [c \in Codes |->
              IF c \in HeldBy(U) THEN Free ELSE Quarantine(HeldBy(T))[c]]
      /\ reviews' = UpsertManualReview(T)
      /\ sent' = sent
  BY DEF CancelAwaitingForChat
<1> HIDE DEF U, T
<1>3. ASSUME NEW o \in Orders
      PROVE  /\ orders'[o] \in OrderRow
             /\ orders'[o].ids = orders[o].ids
             /\ o \in U => orders'[o].status = "cancelled"
             /\ o \in T => orders'[o].status = "manual_review"
             /\ o \notin U \cup T => orders'[o].status = orders[o].status
  <2>1. orders[o] \in OrderRow
    BY <1>0 DEF StoreTypeOK
  <2>2. CASE o \in U
    <3>1. orders'[o] = [orders[o] EXCEPT !.status = "cancelled"]
      BY <1>2, <2>2
    <3> QED BY <1>0, <1>1, <2>1, <2>2, <3>1 DEF OrderRow
  <2>3. CASE o \notin U
    <3>1. orders'[o] = SetStatus(T, "manual_review", "other")[o]
      BY <1>2, <2>3
    <3>2. /\ SetStatus(T, "manual_review", "other")[o] \in OrderRow
          /\ SetStatus(T, "manual_review", "other")[o].ids = orders[o].ids
          /\ o \in T => SetStatus(T, "manual_review", "other")[o].status = "manual_review"
          /\ o \notin T => SetStatus(T, "manual_review", "other")[o] = orders[o]
      BY <1>0, SetStatusRows
    <3> QED BY <2>3, <3>1, <3>2
  <2> QED BY <2>2, <2>3
<1>4. Free \in CodeRow /\ Free.status = "available"
  BY DEF Free, CodeRow, CodeStatuses
<1>5. ASSUME NEW c \in Codes
      PROVE  /\ inventory'[c] \in CodeRow
             /\ inventory[c].status = "reserved" /\ inventory[c].key \in U =>
                   inventory'[c].status = "available"
             /\ inventory[c].status = "reserved" /\ inventory[c].key \in T =>
                   /\ inventory'[c].status = "quarantined"
                   /\ inventory'[c].key = inventory[c].key
             /\ ~(inventory[c].status = "reserved" /\ inventory[c].key \in U \cup T) =>
                   inventory'[c] = inventory[c]
  <2>1. /\ c \in HeldBy(U) <=> inventory[c].status = "reserved" /\ inventory[c].key \in U
        /\ c \in HeldBy(T) <=> inventory[c].status = "reserved" /\ inventory[c].key \in T
    BY <1>1, HeldByFacts
  <2>2. inventory'[c] = IF c \in HeldBy(U) THEN Free ELSE Quarantine(HeldBy(T))[c]
    BY <1>2
  <2>3. /\ Quarantine(HeldBy(T))[c] \in CodeRow
        /\ Quarantine(HeldBy(T))[c].key = inventory[c].key
        /\ c \in HeldBy(T) => Quarantine(HeldBy(T))[c].status = "quarantined"
        /\ c \notin HeldBy(T) => Quarantine(HeldBy(T))[c] = inventory[c]
    BY <1>0, QuarantineRows DEF Quarantine
  <2> QED BY <1>1, <1>4, <2>1, <2>2, <2>3
<1>6. StoreTypeOK'
  <2>1. orders' \in [Orders -> OrderRow]
    BY <1>2, <1>3
  <2>2. inventory' \in [Codes -> CodeRow]
    BY <1>2, <1>5
  <2> QED BY <1>0, <1>2, <2>1, <2>2, UpsertRows DEF StoreTypeOK
<1>7. ASSUME NEW o \in Orders, orders'[o].status = "manual_review"
      PROVE  reviews'[o] # "none"
  <2>1. o \in T \/ orders[o].status = "manual_review"
    BY <1>3, <1>7
  <2>2. UpsertManualReview(T)[o] # "none"
    BY <2>1, UpsertRows
  <2> QED BY <1>2, <2>2
<1>8. EndStep(U, T)
  BY <1>1, <1>2, <1>3, <1>5, <1>6, <1>7 DEF EndStep
<1> QED BY <1>8, EndStepSafe

\* The transaction MarkOrderRetry is a safe step.
LEMMA MarkOrderRetrySafe ==
    ASSUME StoreInv, NEW o \in Orders, MarkOrderRetry(o)
    PROVE  SafeStep
<1> DEFINE row == [orders[o] EXCEPT !.status = "retry", !.reason = "other"]
<1>1. orders[o] \in OrderRow
  BY DEF StoreInv, StoreTypeOK
<1>2. row \in OrderRow /\ row.ids = orders[o].ids /\ row.status = "retry"
  BY <1>1 DEF OrderRow, Statuses, Live, Claimed, Reasons
<1>3. CASE orders[o].status = "sending"
  <2>1. orders' = [orders EXCEPT ![o] = row]
    BY <1>3 DEF MarkOrderRetry, SetStatus, StoreInv, StoreTypeOK
  <2> HIDE DEF row
  <2> QED BY <1>2, <1>3, <2>1, RowStepSafe DEF MarkOrderRetry, Claimed
<1>4. CASE orders[o].status # "sending"
  BY <1>4, SameStoreSafe DEF MarkOrderRetry, storeVars
<1> QED BY <1>3, <1>4

\* The transaction MarkOrderDelivered is a safe step.
LEMMA MarkOrderDeliveredSafe ==
    ASSUME StoreInv, NEW o \in Orders, MarkOrderDelivered(o)
    PROVE  SafeStep
<1>0. "delivered" \in Statuses /\ "other" \in Reasons /\ StoreTypeOK
  BY DEF Statuses, Terminal, StoreInv, Reasons
<1>1. CASE orders[o].status = "delivered"
  BY <1>1, SameStoreSafe DEF MarkOrderDelivered
<1>2. CASE orders[o].status # "delivered"
  <2>1. /\ orders[o].status = "sending"
        /\ Held(o) = orders[o].ids
        /\ inventory' = [c \in Codes |->
              IF c \in orders[o].ids THEN [inventory[c] EXCEPT !.status = "delivered"]
                                     ELSE inventory[c]]
        /\ orders' = SetStatus({o}, "delivered", "other")
        /\ UNCHANGED <<reviews, sent>>
    BY <1>2 DEF MarkOrderDelivered, DeliveredRefused
  <2>2. /\ SetStatus({o}, "delivered", "other") \in [Orders -> OrderRow]
        /\ \A p \in Orders :
              /\ SetStatus({o}, "delivered", "other")[p].ids = orders[p].ids
              /\ p \in {o} => SetStatus({o}, "delivered", "other")[p].status = "delivered"
              /\ p \notin {o} => SetStatus({o}, "delivered", "other")[p] = orders[p]
    BY <1>0, SetStatusRows
  <2>3. /\ orders' \in [Orders -> OrderRow]
        /\ orders'[o].status = "delivered"
        /\ \A p \in Orders : /\ orders'[p].ids = orders[p].ids
                             /\ p # o => orders'[p] = orders[p]
    BY <2>1, <2>2
  <2>4. \A c \in Codes : c \in orders[o].ids <=>
           inventory[c].status = "reserved" /\ inventory[c].key = o
    BY <2>1, HeldFacts
  <2>5. ASSUME NEW c \in Codes
        PROVE  /\ inventory'[c] \in CodeRow
               /\ c \in orders[o].ids => inventory'[c] = [status |-> "delivered", key |-> o]
               /\ c \notin orders[o].ids => inventory'[c] = inventory[c]
    <3>1. inventory[c] \in CodeRow
      BY <1>0 DEF StoreTypeOK
    <3>2. CASE c \in orders[o].ids
      <4>1. inventory'[c] = [inventory[c] EXCEPT !.status = "delivered"]
        BY <2>1, <3>2
      <4> QED BY <2>4, <3>1, <3>2, <4>1 DEF CodeRow, CodeStatuses
    <3>3. CASE c \notin orders[o].ids
      BY <2>1, <3>1, <3>3
    <3> QED BY <3>2, <3>3
  <2>6. StoreTypeOK'
    <3>1. inventory' \in [Codes -> CodeRow]
      BY <2>1, <2>5
    <3> QED BY <1>0, <2>1, <2>3, <3>1 DEF StoreTypeOK
  <2>7. ASSUME NEW c \in Codes
        PROVE  CodeStep(c)
    BY <2>3, <2>4, <2>5 DEF CodeStep, Moved
  <2>8. ASSUME NEW p \in Orders
        PROVE  OrderStep(p)
    <3>1. orders[p].ids \subseteq Codes
      BY <1>0 DEF StoreTypeOK, OrderRow
    <3>2. CASE p = o
      BY <2>1, <2>3, <2>5, <3>1, <3>2 DEF OrderStep, Claimed, MaybeSent
    <3>3. CASE p # o
      BY <2>1, <2>3, <3>3 DEF OrderStep, MaybeSent, Claimed, StoreInv, ReviewsAreRecorded
    <3> QED BY <3>2, <3>3
  <2> QED BY <2>1, <2>6, <2>7, <2>8 DEF SafeStep
<1> QED BY <1>1, <1>2

\* SetStatusRows for a transaction that clears last_error.
LEMMA ClearedRows ==
    ASSUME StoreInv, NEW S, NEW s \in Statuses
    PROVE  /\ SetStatus(S, s, "other") \in [Orders -> OrderRow]
           /\ \A o \in Orders :
                /\ SetStatus(S, s, "other")[o].ids = orders[o].ids
                /\ o \in S => SetStatus(S, s, "other")[o].status = s
                /\ o \notin S => SetStatus(S, s, "other")[o] = orders[o]
<1>1. "other" \in Reasons /\ StoreTypeOK
  BY DEF Reasons, StoreInv
<1> QED BY <1>1, SetStatusRows

\* A transaction that moves orders between unclaimed statuses, or from sending to
\* retry, keeping their codes and every review row, is safe.
LEMMA StatusStepSafe ==
    ASSUME StoreInv, NEW S \in SUBSET Orders, NEW s \in Statuses,
           orders' = SetStatus(S, s, "other"),
           inventory' = inventory,
           sent' = sent,
           reviews' \in [Orders -> {"none", "open", "resolved"}],
           \A o \in Orders : orders[o].status = "manual_review" => reviews'[o] # "none",
           \/ s = "verified" /\ \A o \in S : orders[o].status = "manual_review"
           \/ s = "retry" /\ \A o \in S : orders[o].status = "sending"
    PROVE  SafeStep
<1>1. StoreTypeOK /\ "other" \in Reasons
  BY DEF StoreInv, Reasons
<1>2. \A o \in Orders :
         /\ orders'[o] \in OrderRow
         /\ orders'[o].ids = orders[o].ids
         /\ o \in S => orders'[o].status = s
         /\ o \notin S => orders'[o] = orders[o]
  <2>1. /\ SetStatus(S, s, "other") \in [Orders -> OrderRow]
        /\ \A o \in Orders :
              /\ SetStatus(S, s, "other")[o].ids = orders[o].ids
              /\ o \in S => SetStatus(S, s, "other")[o].status = s
              /\ o \notin S => SetStatus(S, s, "other")[o] = orders[o]
    BY ClearedRows
  <2> QED BY <2>1
<1>3. StoreTypeOK'
  BY <1>1, SetStatusRows DEF StoreTypeOK
<1>4. ASSUME NEW o \in Orders
      PROVE  OrderStep(o)
  BY <1>2 DEF OrderStep, MaybeSent, Claimed
<1> QED BY <1>3, <1>4 DEF SafeStep, CodeStep

\* The transaction ReviveTakeoverBlockedOrders is a safe step.
LEMMA ReviveTakeoverBlockedOrdersSafe ==
    ASSUME StoreInv, ReviveTakeoverBlockedOrders
    PROVE  SafeStep
<1>1. /\ TakeoverBlocked \in SUBSET Orders
      /\ \A o \in TakeoverBlocked : orders[o].status = "manual_review"
      /\ "verified" \in Statuses
  BY DEF TakeoverBlocked, Statuses, Live
<1>2. /\ reviews' \in [Orders -> {"none", "open", "resolved"}]
      /\ \A o \in Orders : orders[o].status = "manual_review" => reviews'[o] # "none"
  BY DEF ReviveTakeoverBlockedOrders, StoreInv, StoreTypeOK, ReviewsAreRecorded
<1> QED BY <1>1, <1>2, StatusStepSafe DEF ReviveTakeoverBlockedOrders

\* The transaction InitDb is a safe step.
LEMMA InitDbSafe ==
    ASSUME StoreInv, InitDb
    PROVE  SafeStep
<1> DEFINE cut == {o \in Orders : orders[o].status = "sending"}
<1>1. cut \in SUBSET Orders /\ (\A o \in cut : orders[o].status = "sending") /\ "retry" \in Statuses
  BY DEF Statuses, Live, Claimed
<1>2. /\ orders' = SetStatus(cut, "retry", "other")
      /\ reviews' = UpsertManualReview({o \in Orders : orders[o].status = "manual_review"})
      /\ inventory' = inventory
      /\ sent' = sent
  BY DEF InitDb
<1>3. /\ reviews' \in [Orders -> {"none", "open", "resolved"}]
      /\ \A o \in Orders : orders[o].status = "manual_review" => reviews'[o] # "none"
  BY <1>2, UpsertRows
<1> HIDE DEF cut
<1> QED BY <1>1, <1>2, <1>3, StatusStepSafe

\* Writing the row of a verified order, and reserving for it the codes it gets if
\* it had none, is a safe step.
LEMMA FillRowSafe ==
    ASSUME StoreInv, NEW o \in Orders, NEW row \in OrderRow,
           orders[o].status = "verified",
           orders' = [orders EXCEPT ![o] = row],
           sent' = sent,
           row.status \in {"reserved", "manual_review"},
           orders[o].ids # {} => row.ids = orders[o].ids,
           reviews' \in [Orders -> {"none", "open", "resolved"}],
           \A p \in Orders : orders[p].status = "manual_review" => reviews'[p] # "none",
           row.status = "manual_review" => reviews'[o] # "none",
           inventory' \in [Codes -> CodeRow],
           \A c \in Codes :
              \/ inventory'[c] = inventory[c]
              \/ /\ row.status = "reserved"
                 /\ c \in row.ids
                 /\ inventory[c].status = "available"
                 /\ inventory'[c] = [status |-> "reserved", key |-> o]
    PROVE  SafeStep
<1>1. orders'[o] = row /\ \A p \in Orders : p # o => orders'[p] = orders[p]
  BY DEF StoreInv, StoreTypeOK
<1>2. StoreTypeOK'
  BY DEF StoreInv, StoreTypeOK
<1>3. ASSUME NEW c \in Codes
      PROVE  CodeStep(c)
  BY <1>1 DEF CodeStep, Moved, Claimed
<1>4. ASSUME NEW p \in Orders
      PROVE  OrderStep(p)
  <2>1. CASE p = o
    BY <1>1, <2>1 DEF OrderStep, MaybeSent, Claimed
  <2>2. CASE p # o
    BY <1>1, <2>2 DEF OrderStep, MaybeSent, Claimed
  <2> QED BY <2>1, <2>2
<1> QED BY <1>2, <1>3, <1>4 DEF SafeStep

\* Reserving is a safe step, with the codes the order has or with available ones.
LEMMA ReserveSafe ==
    ASSUME StoreInv, NEW o \in Orders, NEW d \in Deliveries,
           NEW p \in Payloads \cup {NoPayload}, NEW codes \in SUBSET Codes,
           orders[o].status = "verified",
           codes # orders[o].ids => orders[o].ids = {} /\ codes \subseteq Available,
           Reserve(o, d, p, codes)
    PROVE  SafeStep
<1> DEFINE row == [orders[o] EXCEPT !.status = "reserved", !.delivery = d,
                     !.payload = p, !.ids = codes, !.reason = "other"]
<1>1. orders[o] \in OrderRow /\ StoreTypeOK
  BY DEF StoreInv, StoreTypeOK
<1>2. row \in OrderRow /\ row.ids = codes /\ row.status = "reserved"
  BY <1>1 DEF OrderRow, Statuses, Live, Claimed, Reasons
<1>3. orders' = [orders EXCEPT ![o] = row]
  BY DEF Reserve, StoreInv, StoreTypeOK
<1> HIDE DEF row
<1>4. CASE codes = orders[o].ids
  <2>1. inventory' = inventory /\ reviews' = reviews /\ sent' = sent
    BY <1>4 DEF Reserve
  <2> QED BY <1>1, <1>2, <1>3, <1>4, <2>1, FillRowSafe DEF StoreTypeOK, StoreInv, ReviewsAreRecorded
<1>5. CASE codes # orders[o].ids
  <2>1. /\ inventory' = [c \in Codes |-> IF c \in codes THEN [status |-> "reserved", key |-> o]
                                                        ELSE inventory[c]]
        /\ reviews' = reviews
        /\ sent' = sent
    BY <1>5 DEF Reserve
  <2>2. inventory' \in [Codes -> CodeRow]
    BY <1>1, <2>1 DEF StoreTypeOK, CodeRow, CodeStatuses
  <2>3. \A c \in Codes :
           \/ inventory'[c] = inventory[c]
           \/ /\ c \in row.ids
              /\ inventory[c].status = "available"
              /\ inventory'[c] = [status |-> "reserved", key |-> o]
    BY <1>2, <1>5, <2>1 DEF Available
  <2>4. /\ reviews' \in [Orders -> {"none", "open", "resolved"}]
        /\ \A q \in Orders : orders[q].status = "manual_review" => reviews'[q] # "none"
    BY <1>1, <2>1 DEF StoreTypeOK, StoreInv, ReviewsAreRecorded
  <2> QED BY <1>2, <1>3, <1>5, <2>1, <2>2, <2>3, <2>4, FillRowSafe
<1> QED BY <1>4, <1>5

\* The transaction PrepareOrder is a safe step.
LEMMA PrepareOrderSafe ==
    ASSUME StoreInv, NEW o \in Orders, NEW d \in Deliveries,
           NEW p \in Payloads \cup {NoPayload}, PrepareOrder(o, d, p)
    PROVE  SafeStep
<1>1. orders[o] \in OrderRow /\ orders[o].ids \in SUBSET Codes
  BY DEF StoreInv, StoreTypeOK, OrderRow
<1>2. CASE UNCHANGED storeVars
  BY <1>2, SameStoreSafe
<1>3. CASE /\ orders' = [orders EXCEPT ![o].payload = p]
           /\ UNCHANGED <<inventory, reviews, sent>>
  <2> DEFINE row == [orders[o] EXCEPT !.payload = p]
  <2>1. row \in OrderRow /\ row.ids = orders[o].ids /\ row.status = orders[o].status
    BY <1>1 DEF OrderRow
  <2>2. orders' = [orders EXCEPT ![o] = row]
    BY <1>3 DEF StoreInv, StoreTypeOK
  <2> HIDE DEF row
  <2> QED BY <1>3, <2>1, <2>2, RowStepSafe DEF Claimed
<1>4. CASE orders[o].status = "verified" /\ Reserve(o, d, p, orders[o].ids)
  BY <1>1, <1>4, ReserveSafe
<1>5. ASSUME orders[o].status = "verified", NeedsCodes(o, d),
             NEW codes \in FirstAvailable(orders[o].quantity), Reserve(o, d, p, codes)
      PROVE  SafeStep
  <2>1. orders[o].ids = {} /\ codes \subseteq Available /\ codes \in SUBSET Codes
    BY <1>5 DEF NeedsCodes, FirstAvailable, Available
  <2> QED BY <1>5, <2>1, ReserveSafe
<1>6. CASE /\ orders[o].status = "verified"
           /\ orders' = [orders EXCEPT ![o].status = "manual_review",
                            ![o].delivery = d, ![o].reason = "other"]
           /\ reviews' = UpsertManualReview({o})
           /\ UNCHANGED <<inventory, sent>>
  <2> DEFINE row == [orders[o] EXCEPT !.status = "manual_review", !.delivery = d, !.reason = "other"]
  <2>1. row \in OrderRow /\ row.ids = orders[o].ids /\ row.status = "manual_review"
    BY <1>1 DEF OrderRow, Statuses, Terminal, Reasons
  <2>2. orders' = [orders EXCEPT ![o] = row]
    BY <1>6 DEF StoreInv, StoreTypeOK
  <2>3. /\ reviews' \in [Orders -> {"none", "open", "resolved"}]
        /\ \A q \in Orders : orders[q].status = "manual_review" => reviews'[q] # "none"
        /\ reviews'[o] # "none"
    BY <1>6, UpsertRows
  <2>4. inventory' \in [Codes -> CodeRow] /\ \A c \in Codes : inventory'[c] = inventory[c]
    BY <1>6 DEF StoreInv, StoreTypeOK
  <2> HIDE DEF row
  <2> QED BY <1>6, <2>1, <2>2, <2>3, <2>4, FillRowSafe
<1>7. \/ UNCHANGED storeVars
      \/ /\ orders' = [orders EXCEPT ![o].payload = p]
         /\ UNCHANGED <<inventory, reviews, sent>>
      \/ orders[o].status = "verified" /\ Reserve(o, d, p, orders[o].ids)
      \/ /\ orders[o].status = "verified"
         /\ NeedsCodes(o, d)
         /\ \E codes \in FirstAvailable(orders[o].quantity) : Reserve(o, d, p, codes)
      \/ /\ orders[o].status = "verified"
         /\ orders' = [orders EXCEPT ![o].status = "manual_review",
                          ![o].delivery = d, ![o].reason = "other"]
         /\ reviews' = UpsertManualReview({o})
         /\ UNCHANGED <<inventory, sent>>
  BY Zenon DEF PrepareOrder, storeVars
<1> QED BY <1>2, <1>3, <1>4, <1>5, <1>6, <1>7

\* What import_inventory may make of the status of a code.
LEMMA ImportedStatusFacts ==
    ASSUME StoreTypeOK, NEW c \in Codes, NEW m
    PROVE  /\ ImportedStatus(c, m) \in CodeStatuses
           /\ \/ ImportedStatus(c, m) = inventory[c].status
              \/ /\ inventory[c].status \in {"none", "available"}
                 /\ ImportedStatus(c, m) \in {"available", "legacy_used", "quarantined"}
              \/ /\ inventory[c].status = "reserved"
                 /\ ImportedStatus(c, m) = "quarantined"
<1>1. inventory[c].status \in CodeStatuses
  BY DEF StoreTypeOK, CodeRow
<1> QED BY <1>1 DEF ImportedStatus, CodeStatuses

\* The transaction ImportInventory is a safe step.
LEMMA ImportInventorySafe ==
    ASSUME StoreInv, NEW m \in Manifests, ImportInventory(m)
    PROVE  SafeStep
<1> DEFINE revoked == {c \in Codes : /\ inventory[c].status \in {"available", "reserved"}
                                     /\ m[c] # "unused"}
           hit == {o \in Orders : /\ orders[o].delivery = "redeem"
                                  /\ orders[o].status \in Claimed
                                  /\ orders[o].ids \cap revoked # {}}
<1>1. /\ hit \in SUBSET Orders
      /\ \A o \in hit : orders[o].status \in Claimed
      /\ StoreTypeOK
      /\ "other" \in Reasons
  BY DEF StoreInv, Reasons
<1>2. /\ inventory' = [c \in Codes |->
              [inventory[c] EXCEPT !.status =
                  IF c \in HeldBy(hit) THEN "quarantined" ELSE ImportedStatus(c, m)]]
      /\ orders' = SetStatus(hit, "manual_review", "other")
      /\ reviews' = UpsertManualReview(hit)
      /\ sent' = sent
  BY DEF ImportInventory
<1> HIDE DEF hit
<1>3. \A c \in Codes : c \in HeldBy(hit) <=>
         inventory[c].status = "reserved" /\ inventory[c].key \in hit
  BY <1>1, HeldByFacts
<1>4. ASSUME NEW c \in Codes
      PROVE  inventory'[c] \in CodeRow /\ CodeStep(c)
  <2>1. inventory[c] \in CodeRow
    BY <1>1 DEF StoreTypeOK
  <2>2. CASE c \in HeldBy(hit)
    <3>1. inventory'[c] = [inventory[c] EXCEPT !.status = "quarantined"]
      BY <1>2, <2>2
    <3> QED BY <1>3, <2>1, <2>2, <3>1 DEF CodeRow, CodeStatuses, CodeStep, Moved
  <2>3. CASE c \notin HeldBy(hit)
    <3> DEFINE s == ImportedStatus(c, m)
    <3>1. inventory'[c] = [inventory[c] EXCEPT !.status = s]
      BY <1>2, <2>3
    <3>2. /\ s \in CodeStatuses
          /\ \/ s = inventory[c].status
             \/ /\ inventory[c].status \in {"none", "available"}
                /\ s \in {"available", "legacy_used", "quarantined"}
             \/ /\ inventory[c].status = "reserved"
                /\ s = "quarantined"
      BY <1>1, ImportedStatusFacts
    <3> HIDE DEF s
    <3>3. inventory'[c] \in CodeRow /\ inventory'[c].status = s /\ inventory'[c].key = inventory[c].key
      BY <2>1, <3>1, <3>2 DEF CodeRow
    <3>4. s = inventory[c].status => inventory'[c] = inventory[c]
      BY <2>1, <3>1 DEF CodeRow
    <3> QED BY <3>2, <3>3, <3>4 DEF CodeStep, Moved
  <2> QED BY <2>2, <2>3
<1>5. ASSUME NEW o \in Orders
      PROVE  /\ orders'[o] \in OrderRow
             /\ orders'[o].ids = orders[o].ids
             /\ o \in hit => orders'[o].status = "manual_review"
             /\ o \notin hit => orders'[o] = orders[o]
  <2>1. /\ SetStatus(hit, "manual_review", "other")[o] \in OrderRow
        /\ SetStatus(hit, "manual_review", "other")[o].ids = orders[o].ids
        /\ o \in hit => SetStatus(hit, "manual_review", "other")[o].status = "manual_review"
        /\ o \notin hit => SetStatus(hit, "manual_review", "other")[o] = orders[o]
    BY <1>1, ReviewRows
  <2> QED BY <1>2, <2>1
<1>6. ASSUME NEW o \in Orders, orders'[o].status = "manual_review"
      PROVE  reviews'[o] # "none"
  <2>1. o \in hit \/ orders[o].status = "manual_review"
    BY <1>5, <1>6
  <2>2. UpsertManualReview(hit)[o] # "none"
    BY <2>1, UpsertRows
  <2> QED BY <1>2, <2>2
<1>7. ASSUME NEW o \in hit, NEW c \in Codes, inventory[c].status = "reserved", inventory[c].key = o
      PROVE  inventory'[c].status = "quarantined"
  <2>1. inventory[c] \in CodeRow /\ inventory'[c] = [inventory[c] EXCEPT !.status = "quarantined"]
    BY <1>1, <1>2, <1>3, <1>7 DEF StoreTypeOK
  <2> QED BY <2>1 DEF CodeRow
<1>8. ASSUME NEW o \in Orders
      PROVE  OrderStep(o)
  <2>1. orders[o].ids \subseteq Codes
    BY <1>1 DEF StoreTypeOK, OrderRow
  <2>2. CASE o \in hit
    BY <1>1, <1>5, <1>6, <1>7, <2>1, <2>2 DEF OrderStep, Claimed
  <2>3. CASE o \notin hit
    BY <1>5, <1>6, <2>3 DEF OrderStep, MaybeSent
  <2> QED BY <2>2, <2>3
<1>9. StoreTypeOK'
  <2>1. orders' \in [Orders -> OrderRow]
    BY <1>1, <1>2, ReviewRows
  <2>2. inventory' \in [Codes -> CodeRow]
    BY <1>2, <1>4
  <2>3. reviews' \in [Orders -> {"none", "open", "resolved"}]
    BY <1>2, UpsertRows
  <2> QED BY <1>1, <1>2, <2>1, <2>2, <2>3 DEF StoreTypeOK
<1> QED BY <1>2, <1>4, <1>8, <1>9 DEF SafeStep

\* Sending the codes of an order preserves the invariant: they are all reserved
\* for it, and they are the codes of any earlier send.
LEMMA SendCodesKeeps ==
    ASSUME StoreInv, NEW o \in Orders, SendCodes(o)
    PROVE  StoreInv'
<1>1. /\ UNCHANGED <<orders, inventory, reviews>>
      /\ sent' = [sent EXCEPT ![o] = @ \cup {orders[o].ids}]
      /\ orders[o].status = "sending"
      /\ orders[o].ids # {}
      /\ Held(o) = orders[o].ids
      /\ orders[o].ids \subseteq Codes
  BY DEF SendCodes, OrderInventoryIsSendable, StoreInv, StoreTypeOK, OrderRow
<1>2. \A p \in Orders : sent'[p] = IF p = o THEN sent[o] \cup {orders[o].ids} ELSE sent[p]
  BY <1>1 DEF StoreInv, StoreTypeOK
<1>3. StoreTypeOK'
  BY <1>1 DEF StoreInv, StoreTypeOK
<1>4. \A c \in orders[o].ids : inventory[c].status = "reserved" /\ inventory[c].key = o
  BY <1>1, HeldFacts
<1>5. SentCodesStayBound'
  <2> SUFFICES ASSUME NEW p \in Orders, NEW codes \in sent'[p], NEW c \in codes
               PROVE  /\ inventory[c].key = p
                      /\ inventory[c].status \in {"reserved", "quarantined", "delivered"}
                      /\ inventory[c].status = "reserved" => orders[p].status \in MaybeSent
    BY <1>1 DEF SentCodesStayBound
  <2>1. CASE codes \in sent[p]
    BY <2>1 DEF StoreInv, SentCodesStayBound
  <2>2. CASE p = o /\ codes = orders[o].ids
    BY <1>1, <1>4, <2>2 DEF MaybeSent
  <2> QED BY <1>2, <2>1, <2>2
<1>6. ResendsAreIdentical'
  BY <1>1, <1>2 DEF StoreInv, ResendsAreIdentical
<1>7. ReservationsAreBacked' /\ DeliveredIsSettled' /\ ReviewsAreRecorded'
  BY <1>1 DEF StoreInv, ReservationsAreBacked, DeliveredIsSettled, ReviewsAreRecorded
<1> QED BY <1>3, <1>5, <1>6, <1>7 DEF StoreInv

-----------------------------------------------------------------------------
\* Every step of the store but a send is a safe step.
LEMMA NextIsSafe ==
    ASSUME StoreInv, [StoreStep]_storeVars
    PROVE  SafeStep \/ \E o \in Orders : SendCodes(o)
<1>1. ASSUME NEW o \in Orders, NEW late \in BOOLEAN, RecordPaymentEvent(o, late)
      PROVE  SafeStep
  BY <1>1, RecordPaymentEventSafe
<1>2. ASSUME NEW o \in Orders, NEW p \in {"2", "other"}, NEW q \in 1 .. MaxQuantity,
             RecordVerified(o, p, q)
      PROVE  SafeStep
  BY <1>2, RecordVerifiedSafe
<1>3. ASSUME NEW S \in SUBSET Orders, ExpireAwaiting(S)
      PROVE  SafeStep
  BY <1>3, ExpireAwaitingSafe
<1>4. ASSUME NEW o \in Orders, NEW reason \in Reasons, MarkOrderManualReview(o, reason)
      PROVE  SafeStep
  BY <1>4, MarkOrderManualReviewSafe
<1>5. ASSUME NEW o \in Orders, ResolveManualReview(o)
      PROVE  SafeStep
  BY <1>5, ResolveManualReviewSafe
<1>6. CASE QuarantineAutomaticOrders
  BY <1>6, QuarantineAutomaticOrdersSafe
<1>7. ASSUME NEW chat \in Chats, CancelAwaitingForChat(chat)
      PROVE  SafeStep
  BY <1>7, CancelAwaitingForChatSafe
<1>8. ASSUME NEW o \in Orders, NEW d \in Deliveries, NEW p \in Payloads \cup {NoPayload},
             PrepareOrder(o, d, p)
      PROVE  SafeStep
  BY <1>8, PrepareOrderSafe
<1>9. ASSUME NEW o \in Orders, ClaimOrderForSend(o)
      PROVE  SafeStep
  BY <1>9, ClaimOrderForSendSafe
<1>10. ASSUME NEW o \in Orders, MarkOrderRetry(o)
      PROVE  SafeStep
  BY <1>10, MarkOrderRetrySafe
<1>11. ASSUME NEW o \in Orders, MarkOrderDelivered(o)
      PROVE  SafeStep
  BY <1>11, MarkOrderDeliveredSafe
<1>12. ASSUME NEW o \in Orders, MarkPlatformShipped(o)
      PROVE  SafeStep
  BY <1>12, MarkPlatformShippedSafe
<1>13. ASSUME NEW o \in Orders, orders[o].status = "delivered", RecordPlatformShipAttempt(o)
      PROVE  SafeStep
  BY <1>13, RecordPlatformShipAttemptSafe
<1>14. CASE ReviveTakeoverBlockedOrders
  BY <1>14, ReviveTakeoverBlockedOrdersSafe
<1>15. ASSUME NEW m \in Manifests, ImportInventory(m)
      PROVE  SafeStep
  BY <1>15, ImportInventorySafe
<1>16. CASE InitDb
  BY <1>16, InitDbSafe
<1>17. CASE UNCHANGED storeVars
  BY <1>17, SameStoreSafe
<1> QED
  BY <1>1, <1>2, <1>3, <1>4, <1>5, <1>6, <1>7, <1>8, <1>9, <1>10, <1>11, <1>12,
     <1>13, <1>14, <1>15, <1>16, <1>17 DEF StoreStep

\* The empty database of _init_db satisfies the invariant.
LEMMA InitEstablishesStoreInv == StoreInit => StoreInv
<1> SUFFICES ASSUME StoreInit PROVE StoreInv
  OBVIOUS
<1>1. NoRow \in OrderRow /\ NoRow.status = "none"
  BY DEF NoRow, OrderRow, Statuses, Reasons
<1>2. StoreTypeOK
  BY <1>1 DEF StoreInit, StoreTypeOK, CodeRow, CodeStatuses
<1> HIDE DEF NoRow
<1>3. /\ \A o \in Orders : orders[o].status = "none" /\ sent[o] = {}
      /\ \A c \in Codes : inventory[c].status = "none"
  BY <1>1 DEF StoreInit
<1> QED BY <1>2, <1>3 DEF StoreInv, ReservationsAreBacked, SentCodesStayBound,
           ResendsAreIdentical, DeliveredIsSettled, ReviewsAreRecorded

\* The invariant is kept by every step of the store.
LEMMA StoreInvIsKept ==
    ASSUME StoreInv, [StoreStep]_storeVars
    PROVE  StoreInv'
BY NextIsSafe, SafeStepKeeps, SendCodesKeeps

\* No step takes back what must stay.
LEMMA StepsNeverUndo ==
    ASSUME StoreInv, [StoreStep]_storeVars
    PROVE  StepNeverUndoes
<1>1. CASE SafeStep
  BY <1>1 DEF SafeStep, CodeStep, OrderStep, Moved, StepNeverUndoes
<1>2. ASSUME NEW o \in Orders, SendCodes(o)
      PROVE  StepNeverUndoes
  BY <1>2 DEF SendCodes, StepNeverUndoes
<1> QED BY <1>1, <1>2, NextIsSafe

-----------------------------------------------------------------------------
\* Whatever the tasks of the worker do, in whatever order, the invariant of the
\* store holds: it is preserved by every transaction of delivery_store.py and by
\* the send.
THEOREM StoreIsSafe == StoreSpec => []StoreInv
<1>1. StoreInv /\ [StoreNext]_storeVars => StoreInv'
  BY StoreInvIsKept DEF StoreNext
<1> QED BY <1>1, InitEstablishesStoreInv, PTL DEF StoreSpec

\* The tables keep their shape.
THEOREM StoreIsWellTyped == StoreSpec => []StoreTypeOK
<1>1. StoreInv => StoreTypeOK
  BY DEF StoreInv
<1> QED BY <1>1, StoreIsSafe, PTL

\* No card code is ever sent to two orders: both would own the code.
THEOREM CodesAreSentOnce == StoreSpec => []NoCodeSentTwice
<1>1. StoreInv => NoCodeSentTwice
  BY DEF StoreInv, SentCodesStayBound, NoCodeSentTwice
<1> QED BY <1>1, StoreIsSafe, PTL

\* A code that was sent stays with its order, whatever is freed later.
THEOREM SentCodesAreKept == StoreSpec => []SentCodesStayBound
<1>1. StoreInv => SentCodesStayBound
  BY DEF StoreInv
<1> QED BY <1>1, StoreIsSafe, PTL

\* All sends of an order carry the same codes, across crashes and retries.
THEOREM ResendsRepeat == StoreSpec => []ResendsAreIdentical
<1>1. StoreInv => ResendsAreIdentical
  BY DEF StoreInv
<1> QED BY <1>1, StoreIsSafe, PTL

\* No code stays reserved for an order that cannot be delivered any more.
THEOREM NoCodeLeaks == StoreSpec => []ReservationsAreBacked
<1>1. StoreInv => ReservationsAreBacked
  BY DEF StoreInv
<1> QED BY <1>1, StoreIsSafe, PTL

\* A delivered order owns all its codes, and a delivered code has a delivered order.
THEOREM DeliveriesAreKept == StoreSpec => []DeliveredIsSettled
<1>1. StoreInv => DeliveredIsSettled
  BY DEF StoreInv
<1> QED BY <1>1, StoreIsSafe, PTL

\* Whoever waits for a human has a review row.
THEOREM NobodyWaitsUnseen == StoreSpec => []ReviewsAreRecorded
<1>1. StoreInv => ReviewsAreRecorded
  BY DEF StoreInv
<1> QED BY <1>1, StoreIsSafe, PTL

\* No transaction takes back a quarantine or a delivery, or exchanges the codes of
\* an order.
THEOREM NothingIsEverUndone == StoreSpec => NothingIsUndone
<1>1. StoreInv /\ [StoreNext]_storeVars => [StepNeverUndoes]_storeVars
  BY StepsNeverUndo DEF StoreNext
<1> QED BY <1>1, StoreIsSafe, PTL DEF StoreSpec, NothingIsUndone
=============================================================================
