-------------------------- MODULE InboundQueueProofs --------------------------
(***************************************************************************)
(* The inbound queue for any number of events, chats and packets and any   *)
(* limits: acknowledged events are in the database, chats are served in    *)
(* order, a claimed event has its worker, and what is over stays over.     *)
(*                                                                         *)
(* QueueInv is inductive.  NoOvertaking alone is not: a dead letter that   *)
(* is discarded becomes a completed event, so dead letters too must have   *)
(* nothing unfinished before them (HandledInOrder), and a new row must     *)
(* come behind every other (RowsAreNumbered).  AckedIsDurable needs to     *)
(* know how much of the packet the reader has stored (PacketIsStored).     *)
(***************************************************************************)
EXTENDS InboundQueue, FiniteSetTheorems, SequenceTheorems, TLAPS

Known(st) == {e \in Events : st[e] # "none"}

\* The reader's packet and what is left of it.
ReaderIsTyped ==
    reader \in [pc : {"idle", "record", "ack"}, packet : Seq(Events),
                todo : Seq(Events), fresh : SUBSET Events]

\* What is not yet in the table of the reader's packet is still to be recorded, and
\* the reader ends with its connection.
PacketIsStored ==
    /\ reader.pc # "idle" => phase = "up"
    /\ reader.pc = "record" => reader.todo # <<>>
    /\ reader.pc = "ack" => reader.todo = <<>>
    /\ reader.pc # "idle" =>
          \A i \in DOMAIN reader.packet :
              \/ status[reader.packet[i]] # "none"
              \/ \E j \in DOMAIN reader.todo : reader.todo[j] = reader.packet[i]

\* Only a row whose handling is over can be past its retention.
AgedAreOver == \A e \in aged : status[e] \in {"completed", "ignored", "dead_letter"}

\* The rows are numbered in the order of their arrival.
RowsAreNumbered == \A e \in Known(status) : at[e] <= Cardinality(Known(status))

\* Before an event that was taken up, dead letters included, nothing is unfinished.
HandledInOrder ==
    \A e, f \in Events :
        /\ ChatOf[e] = ChatOf[f]
        /\ status[e] # "none" /\ at[e] < at[f]
        /\ status[f] \in {"processing", "completed", "ignored", "dead_letter"}
        => status[e] \in Finished

\* A worker handles events of its own chat, and a process that is down has none.
WorkersAreLocal ==
    /\ \A c \in Chats : worker[c] \in Events => ChatOf[worker[c]] = c
    /\ phase = "down" => \A c \in Chats : worker[c] = "none"

\* The inductive invariant of the queue.
QueueInv ==
    /\ TypeOK
    /\ ReaderIsTyped
    /\ PacketIsStored
    /\ AgedAreOver
    /\ RowsAreNumbered
    /\ AckedIsDurable
    /\ HandledInOrder
    /\ WorkersAreLocal
    /\ ProcessingIsOwned

-------------------------------------------------------------------------------
(* Lemmas about the operators.                                             *)

\* _schedule_inbound_chat gives a chat without a worker one that is ready, and
\* leaves the workers there are alone.
LEMMA ScheduleAddsWorkers ==
    ASSUME NEW tasks \in [Chats -> {"none", "ready"} \cup Events],
           NEW events \in SUBSET Events, NEW rank
    PROVE  /\ Schedule(tasks, events, rank) \in [Chats -> {"none", "ready"} \cup Events]
           /\ \A c \in Chats :
                 \/ Schedule(tasks, events, rank)[c] = tasks[c]
                 \/ tasks[c] = "none" /\ Schedule(tasks, events, rank)[c] = "ready"
BY InboundAssumption DEF Schedule

\* _schedule_pending_inbound_events does the same.
LEMMA SchedulePendingAddsWorkers ==
    ASSUME NEW tasks \in [Chats -> {"none", "ready"} \cup Events], NEW st, NEW w, NEW excluded
    PROVE  /\ SchedulePending(tasks, st, w, excluded) \in [Chats -> {"none", "ready"} \cup Events]
           /\ \A c \in Chats :
                 \/ SchedulePending(tasks, st, w, excluded)[c] = tasks[c]
                 \/ /\ tasks[c] = "none"
                    /\ SchedulePending(tasks, st, w, excluded)[c] = "ready"
<1> DEFINE events == {e \in PendingInboundEvents(st, w) : ChatOf[e] \notin excluded}
<1>1. events \in SUBSET Events
  BY DEF PendingInboundEvents, Ready
<1>2. SchedulePending(tasks, st, w, excluded) = Schedule(tasks, events, at)
  BY DEF SchedulePending
<1> HIDE DEF events
<1> QED BY <1>1, <1>2, ScheduleAddsWorkers

\* A worker that ends leaves its place, for its own chat or others.
LEMMA WorkerLeaves ==
    ASSUME TypeOK, NEW c \in Chats, NEW st, NEW w, NEW excluded,
           worker' = SchedulePending([worker EXCEPT ![c] = "none"], st, w, excluded)
    PROVE  /\ worker' \in [Chats -> {"none", "ready"} \cup Events]
           /\ worker'[c] \in {"none", "ready"}
           /\ \A d \in Chats \ {c} : \/ worker'[d] = worker[d]
                                     \/ worker[d] = "none" /\ worker'[d] = "ready"
<1>1. PICK left : left = [worker EXCEPT ![c] = "none"]
  OBVIOUS
<1>2. /\ left \in [Chats -> {"none", "ready"} \cup Events]
      /\ left[c] = "none" /\ \A d \in Chats \ {c} : left[d] = worker[d]
      /\ worker' = SchedulePending(left, st, w, excluded)
  BY <1>1 DEF TypeOK
<1>3. /\ worker' \in [Chats -> {"none", "ready"} \cup Events]
      /\ \A d \in Chats : \/ worker'[d] = left[d]
                          \/ left[d] = "none" /\ worker'[d] = "ready"
  <2>1. /\ SchedulePending(left, st, w, excluded) \in [Chats -> {"none", "ready"} \cup Events]
        /\ \A d \in Chats :
              \/ SchedulePending(left, st, w, excluded)[d] = left[d]
              \/ /\ left[d] = "none"
                 /\ SchedulePending(left, st, w, excluded)[d] = "ready"
    BY <1>2, SchedulePendingAddsWorkers
  <2> QED BY <1>2, <2>1
<1> QED BY <1>2, <1>3

\* An event a worker may claim is pending and nothing before it in its chat is active.
LEMMA PendingIsFirst ==
    ASSUME NEW e \in PendingInboundEvents(status, waits)
    PROVE  /\ e \in Events /\ status[e] = "pending"
           /\ \A f \in Events : ChatOf[f] = ChatOf[e] /\ at[f] < at[e] =>
                 status[f] \notin {"pending", "processing", "dead_letter"}
BY DEF PendingInboundEvents, Ready, EarlierActive, Blocking

\* Deleting old rows touches only rows whose handling is over.
LEMMA PurgedIsOver ==
    ASSUME TypeOK, AgedAreOver
    PROVE  /\ \A e \in Events \ aged : Purged[e] = status[e]
           /\ \A e \in aged :
                 IF status[e] = "dead_letter" THEN Purged[e] = "lost" ELSE Purged[e] = "purged"
           /\ Known(Purged) = Known(status)
<1>1. \A e \in Events \ aged : Purged[e] = status[e]
  BY DEF Purged
<1>2. \A e \in aged :
         IF status[e] = "dead_letter" THEN Purged[e] = "lost" ELSE Purged[e] = "purged"
  BY DEF Purged, TypeOK
<1>3. Known(Purged) = Known(status)
  BY <1>1, <1>2 DEF Known, AgedAreOver, TypeOK
<1> QED BY <1>1, <1>2, <1>3

\* The number of rows.
LEMMA KnownIsFinite ==
    ASSUME NEW st
    PROVE  IsFiniteSet(Known(st)) /\ Cardinality(Known(st)) \in Nat
BY InboundAssumption, FS_Subset, FS_CardinalityType DEF Known

\* A packet's rest is empty after its last event.
LEMMA LastEntry ==
    ASSUME NEW q \in Seq(Events), q # <<>>
    PROVE  Len(q) = 1 <=> Tail(q) = <<>>
<1>1. Tail(q) \in Seq(Events) /\ Len(Tail(q)) = Len(q) - 1 /\ Len(q) \in Nat
  BY HeadTailProperties, LenProperties
<1>2. Len(<<>>) = 0
  BY EmptySeq
<1>3. Tail(q) # <<>> => Len(Tail(q)) # 0
  BY <1>1, EmptySeq
<1> QED BY <1>1, <1>2, <1>3

\* A reader that is idle has nothing left to record.
LEMMA IdleReaderIsTyped ==
    ASSUME reader' = IdleReader
    PROVE  ReaderIsTyped' /\ PacketIsStored'
<1>1. <<>> \in Seq(Events)
  OBVIOUS
<1> QED BY <1>1 DEF IdleReader, ReaderIsTyped, PacketIsStored

\* What a step that leaves the table and the acks alone leaves true.
LEMMA TableIsKept ==
    ASSUME QueueInv, UNCHANGED <<table, acked>>
    PROVE  AgedAreOver' /\ RowsAreNumbered' /\ AckedIsDurable' /\ HandledInOrder'
BY DEF QueueInv, table, AgedAreOver, RowsAreNumbered, AckedIsDurable, HandledInOrder

\* A step that only gives chats without a worker a ready one keeps the workers' part.
LEMMA ReadyWorkersAreHarmless ==
    ASSUME QueueInv, UNCHANGED <<status, phase>>, phase # "down",
           worker' \in [Chats -> {"none", "ready"} \cup Events],
           \A c \in Chats : \/ worker'[c] = worker[c]
                            \/ worker[c] = "none" /\ worker'[c] = "ready"
    PROVE  WorkersAreLocal' /\ ProcessingIsOwned'
<1>1. \A c \in Chats : worker'[c] \in Events => worker'[c] = worker[c]
  BY InboundAssumption DEF QueueInv, TypeOK
<1>2. \A c \in Chats : worker[c] \in Events => worker'[c] = worker[c]
  BY InboundAssumption DEF QueueInv, TypeOK
<1>3. \A e \in Events : ChatOf[e] \in Chats
  BY InboundAssumption
<1>4. \A e \in Events : worker[ChatOf[e]] = e <=> worker'[ChatOf[e]] = e
  BY <1>1, <1>2, <1>3
<1> QED BY <1>1, <1>4 DEF QueueInv, WorkersAreLocal, ProcessingIsOwned

-------------------------------------------------------------------------------
(* The reader's steps.                                                     *)

\* Receiving a packet stores nothing yet.
LEMMA ReceiveKeeps ==
    ASSUME QueueInv, NEW p \in Packets, Receive(p)
    PROVE  QueueInv'
<1>1. p \in Seq(Events) /\ p # <<>>
  BY InboundAssumption
<1>2. ReaderIsTyped'
  <2>1. reader' = [pc |-> "record", packet |-> p, todo |-> p, fresh |-> {}]
    BY DEF Receive, IdleReader
  <2> QED BY <1>1, <2>1 DEF ReaderIsTyped
<1>3. PacketIsStored'
  BY <1>1 DEF Receive, IdleReader, PacketIsStored
<1>4. AgedAreOver' /\ RowsAreNumbered' /\ AckedIsDurable' /\ HandledInOrder'
  BY TableIsKept DEF Receive
<1>5. TypeOK' /\ WorkersAreLocal' /\ ProcessingIsOwned'
  BY DEF Receive, table, QueueInv, TypeOK, WorkersAreLocal, ProcessingIsOwned
<1> QED BY <1>2, <1>3, <1>4, <1>5 DEF QueueInv

\* Recording the next event of the packet: the old rows that go were over, and the
\* new row comes last.
LEMMA RecordKeeps ==
    ASSUME QueueInv, RecordInboundEvent
    PROVE  QueueInv'
<1> DEFINE e == Head(reader.todo)
           st == Inserted(Purged, e)
           isNew == Purged[e] = "none"
<1> USE DEF QueueInv
<1>1. /\ reader.pc = "record" /\ reader.packet \in Seq(Events)
      /\ reader.todo \in Seq(Events) /\ reader.todo # <<>>
      /\ reader.fresh \in SUBSET Events
  BY DEF RecordInboundEvent, ReaderIsTyped, PacketIsStored
<1>2. e \in Events /\ Tail(reader.todo) \in Seq(Events)
  BY <1>1
<1>3. phase = "up" /\ reader.pc # "idle"
  BY <1>1 DEF PacketIsStored
<1>4. CASE /\ isNew /\ Full(Purged, ChatOf[e])
           /\ RefusePacket
           /\ UNCHANGED <<status, aged, at>>
  <2>1. UNCHANGED <<table, acked, worker>> /\ phase' = "off" /\ reader' = IdleReader
    BY <1>4 DEF RecordInboundEvent, RefusePacket, table
  <2>2. ReaderIsTyped' /\ PacketIsStored'
    BY <2>1, IdleReaderIsTyped
  <2>3. AgedAreOver' /\ RowsAreNumbered' /\ AckedIsDurable' /\ HandledInOrder'
    BY <2>1, TableIsKept
  <2>4. TypeOK' /\ WorkersAreLocal' /\ ProcessingIsOwned'
    BY <1>3, <2>1 DEF table, TypeOK, WorkersAreLocal, ProcessingIsOwned
  <2> QED BY <2>2, <2>3, <2>4
<1>5. CASE /\ ~(isNew /\ Full(Purged, ChatOf[e]))
           /\ status' = st
           /\ aged' = {}
           /\ at' = IF isNew
                    THEN [at EXCEPT ![e] =
                            1 + Cardinality({f \in Events : status[f] # "none"})]
                    ELSE at
           /\ NextEntry(IF st[e] = "pending" THEN {e} ELSE {})
  <2>1. UNCHANGED <<attempts, waits, acked, worker, phase>>
    BY <1>5 DEF RecordInboundEvent, NextEntry
  <2>2. Purged \in [Events -> {"none", "pending", "processing", "completed", "ignored",
                               "dead_letter", "purged", "lost"}]
    BY PurgedIsOver DEF Purged, TypeOK
  <2>3. /\ \A f \in Events \ {e} : status'[f] = Purged[f]
        /\ status'[e] = IF isNew THEN "pending" ELSE Purged[e]
        /\ status' \in [Events -> {"none", "pending", "processing", "completed", "ignored",
                                   "dead_letter", "purged", "lost"}]
    BY <1>2, <1>5, <2>2 DEF Inserted
  <2>4. /\ isNew <=> status[e] = "none"
        /\ \A f \in Events : status'[f] = "none" <=> status[f] = "none" /\ f # e
        /\ \A f \in Events : status'[f] \in {"processing", "completed", "ignored", "dead_letter"}
                                => status'[f] = status[f]
        /\ \A f \in Events : status[f] \in Finished => status'[f] \in Finished
        /\ \A f \in Events : status[f] = "processing" => status'[f] = "processing"
    BY <1>2, <2>2, <2>3, PurgedIsOver DEF TypeOK, AgedAreOver, Finished
  <2>5. Cardinality(Known(status)) \in Nat
    BY KnownIsFinite
  <2>6. /\ at' \in [Events -> Nat]
        /\ isNew => at'[e] = Cardinality(Known(status)) + 1
        /\ \A f \in Events : f # e \/ ~isNew => at'[f] = at[f]
    BY <1>2, <1>5, <2>5 DEF TypeOK, Known
  <2>7. TypeOK'
    BY <1>5, <2>1, <2>3, <2>6 DEF TypeOK
  <2>8. ReaderIsTyped'
    <3>1. reader' = [reader EXCEPT !.todo = Tail(@),
                                   !.pc = IF Len(reader.todo) = 1 THEN "ack" ELSE @,
                                   !.fresh = @ \cup (IF st[e] = "pending" THEN {e} ELSE {})]
      BY <1>5 DEF NextEntry
    <3> HIDE DEF st
    <3> QED BY <1>1, <1>2, <3>1 DEF ReaderIsTyped
  <2>9. PacketIsStored'
    <3>1. /\ reader'.todo = Tail(reader.todo)
          /\ reader'.packet = reader.packet
          /\ reader'.pc = IF Len(reader.todo) = 1 THEN "ack" ELSE "record"
      BY <1>1, <1>5 DEF NextEntry, ReaderIsTyped
    <3>2. Len(reader.todo) = 1 <=> Tail(reader.todo) = <<>>
      BY <1>1, LastEntry
    <3>3. \A j \in DOMAIN reader.todo :
             reader.todo[j] = e \/ \E k \in DOMAIN Tail(reader.todo) :
                                       Tail(reader.todo)[k] = reader.todo[j]
      <4> TAKE j \in DOMAIN reader.todo
      <4>1. CASE j = 1
        BY <1>1, <4>1
      <4>2. CASE j # 1
        <5>1. j - 1 \in DOMAIN Tail(reader.todo) /\ Tail(reader.todo)[j - 1] = reader.todo[j]
          BY <1>1, <4>2
        <5> QED BY <5>1
      <4> QED BY <4>1, <4>2
    <3>4. ASSUME NEW i \in DOMAIN reader.packet
          PROVE  \/ status'[reader.packet[i]] # "none"
                 \/ \E j \in DOMAIN reader'.todo : reader'.todo[j] = reader.packet[i]
      <4>1. reader.packet[i] \in Events
        BY <1>1, <3>4
      <4>2. \/ status[reader.packet[i]] # "none"
            \/ \E j \in DOMAIN reader.todo : reader.todo[j] = reader.packet[i]
        BY <1>3, <3>4 DEF PacketIsStored
      <4> QED BY <2>4, <3>1, <3>3, <4>1, <4>2
    <3> QED BY <1>3, <2>1, <3>1, <3>2, <3>4 DEF PacketIsStored
  <2>10. AgedAreOver'
    BY <1>5 DEF AgedAreOver
  <2>11. RowsAreNumbered'
    <3>1. Known(status') = Known(status) \cup {e}
      BY <1>2, <2>4 DEF Known
    <3>2. /\ Cardinality(Known(status')) \in Nat
          /\ Cardinality(Known(status)) <= Cardinality(Known(status'))
          /\ isNew => Cardinality(Known(status')) = Cardinality(Known(status)) + 1
      <4>1. e \in Known(status) <=> ~isNew
        BY <1>2, <2>4 DEF Known
      <4>2. IsFiniteSet(Known(status))
        BY KnownIsFinite
      <4> HIDE DEF isNew
      <4>3. Cardinality(Known(status) \cup {e})
               = IF e \in Known(status) THEN Cardinality(Known(status))
                                        ELSE Cardinality(Known(status)) + 1
        BY <4>2, FS_AddElement
      <4> QED BY <2>5, <3>1, <4>1, <4>3
    <3>3. \A f \in Known(status) : at[f] <= Cardinality(Known(status)) /\ at[f] \in Nat
      BY DEF RowsAreNumbered, TypeOK, Known
    <3>4. \A f \in Known(status') : at'[f] <= Cardinality(Known(status'))
      BY <2>4, <2>5, <2>6, <3>1, <3>2, <3>3 DEF Known
    <3> QED BY <3>4 DEF RowsAreNumbered, Known
  <2>12. AckedIsDurable'
    BY <2>1, <2>4 DEF AckedIsDurable, TypeOK
  <2>13. HandledInOrder'
    <3> SUFFICES ASSUME NEW f \in Events, NEW g \in Events,
                        ChatOf[f] = ChatOf[g], status'[f] # "none", at'[f] < at'[g],
                        status'[g] \in {"processing", "completed", "ignored", "dead_letter"}
                 PROVE  status'[f] \in Finished
      BY DEF HandledInOrder
    <3>1. status[g] = status'[g] /\ (g # e \/ ~isNew)
      BY <2>3, <2>4
    <3>2. at[g] = at'[g] /\ g \in Known(status)
      BY <2>6, <3>1 DEF Known
    <3>3. f # e \/ ~isNew
      BY <2>5, <2>6, <3>2 DEF RowsAreNumbered, TypeOK
    <3>4. at'[f] = at[f] /\ status[f] # "none"
      BY <2>4, <2>6, <3>3
    <3> QED BY <2>4, <3>1, <3>2, <3>4 DEF HandledInOrder
  <2>14. WorkersAreLocal' /\ ProcessingIsOwned'
    BY <1>3, <2>1, <2>4 DEF WorkersAreLocal, ProcessingIsOwned
  <2> QED BY <2>7, <2>8, <2>9, <2>10, <2>11, <2>12, <2>13, <2>14
<1> QED BY <1>4, <1>5 DEF RecordInboundEvent

\* The packet is acknowledged once all its events are rows.
LEMMA AckKeeps ==
    ASSUME QueueInv, AckPacket
    PROVE  QueueInv'
<1> USE DEF QueueInv
<1>1. reader' = IdleReader /\ UNCHANGED <<table, phase>> /\ phase = "up"
  BY DEF AckPacket
<1>2. ReaderIsTyped' /\ PacketIsStored'
  BY <1>1, IdleReaderIsTyped
<1>3. reader.packet \in Seq(Events) /\ reader.pc = "ack" /\ reader.todo = <<>>
  BY DEF AckPacket, ReaderIsTyped, PacketIsStored
<1>4. \A i \in DOMAIN reader.packet :
         reader.packet[i] \in Events /\ status[reader.packet[i]] # "none"
  <2>1. DOMAIN reader.todo = {}
    BY <1>3, EmptySeq
  <2> QED BY <1>3, <2>1 DEF PacketIsStored
<1>5. AckedIsDurable' /\ acked' \subseteq Events
  BY <1>1, <1>4 DEF AckPacket, AckedIsDurable, TypeOK, table
<1>6. AgedAreOver' /\ RowsAreNumbered' /\ HandledInOrder'
  BY <1>1 DEF table, AgedAreOver, RowsAreNumbered, HandledInOrder
<1>7. /\ worker' \in [Chats -> {"none", "ready"} \cup Events]
      /\ \A c \in Chats : \/ worker'[c] = worker[c]
                          \/ worker[c] = "none" /\ worker'[c] = "ready"
  <2> DEFINE rank == [e \in reader.fresh |-> CHOOSE i \in DOMAIN reader.packet :
                                                 reader.packet[i] = e]
  <2>1. worker' = Schedule(worker, reader.fresh, rank)
    BY DEF AckPacket
  <2>2. reader.fresh \in SUBSET Events /\ worker \in [Chats -> {"none", "ready"} \cup Events]
    BY DEF ReaderIsTyped, TypeOK
  <2> HIDE DEF rank
  <2> QED BY <2>1, <2>2, ScheduleAddsWorkers
<1>8. WorkersAreLocal' /\ ProcessingIsOwned'
  BY <1>1, <1>7, ReadyWorkersAreHarmless DEF table
<1> QED BY <1>1, <1>2, <1>5, <1>6, <1>7, <1>8 DEF TypeOK, table

\* Connections come and go without touching a row or a worker.
LEMMA ConnectionKeeps ==
    ASSUME QueueInv, Disconnect \/ Reconnect \/ StopForAuth
    PROVE  QueueInv'
<1> USE DEF QueueInv
<1>1. /\ UNCHANGED <<table, acked, worker>>
      /\ phase # "down" /\ phase' \in {"off", "up", "stopping"}
      /\ \/ reader' = IdleReader
         \/ reader' = reader /\ reader.pc = "idle"
  BY DEF Disconnect, Reconnect, StopForAuth, PacketIsStored, ReaderIsTyped
<1>2. ReaderIsTyped' /\ PacketIsStored'
  <2>1. CASE reader' = IdleReader
    BY <2>1, IdleReaderIsTyped
  <2>2. CASE reader' = reader /\ reader.pc = "idle"
    BY <2>2 DEF ReaderIsTyped, PacketIsStored
  <2> QED BY <1>1, <2>1, <2>2
<1>3. AgedAreOver' /\ RowsAreNumbered' /\ AckedIsDurable' /\ HandledInOrder'
  BY <1>1, TableIsKept
<1>4. TypeOK' /\ WorkersAreLocal' /\ ProcessingIsOwned'
  BY <1>1 DEF table, TypeOK, WorkersAreLocal, ProcessingIsOwned
<1> QED BY <1>2, <1>3, <1>4

\* The recovery loop only gives chats their workers.
LEMMA RecoverKeeps ==
    ASSUME QueueInv, Recover
    PROVE  QueueInv'
<1> USE DEF QueueInv
<1>1. UNCHANGED <<table, acked, reader, phase>> /\ phase = "up"
  BY DEF Recover
<1>2. ReaderIsTyped' /\ PacketIsStored'
  BY <1>1 DEF ReaderIsTyped, PacketIsStored, table
<1>3. AgedAreOver' /\ RowsAreNumbered' /\ AckedIsDurable' /\ HandledInOrder'
  BY <1>1, TableIsKept
<1>4. /\ worker' \in [Chats -> {"none", "ready"} \cup Events]
      /\ \A c \in Chats : \/ worker'[c] = worker[c]
                          \/ worker[c] = "none" /\ worker'[c] = "ready"
  BY SchedulePendingAddsWorkers DEF Recover, TypeOK
<1>5. WorkersAreLocal' /\ ProcessingIsOwned'
  BY <1>1, <1>4, ReadyWorkersAreHarmless DEF table
<1> QED BY <1>1, <1>2, <1>3, <1>4, <1>5 DEF TypeOK, table

-------------------------------------------------------------------------------
(* The workers' steps.                                                     *)

\* Taking up the first ready event of a chat, or ending for lack of one.
LEMMA ClaimKeeps ==
    ASSUME QueueInv, NEW c \in Chats, ClaimInboundEvent(c)
    PROVE  QueueInv'
<1> USE DEF QueueInv
<1>1. /\ phase # "down" /\ worker[c] = "ready"
      /\ UNCHANGED <<waits, at, aged, acked, reader, phase>>
  BY DEF ClaimInboundEvent, Alive
<1>2. ReaderIsTyped'
  BY <1>1 DEF ReaderIsTyped
<1>3. ASSUME NEW e \in PendingInboundEvents(status, waits), ChatOf[e] = c,
             status' = [status EXCEPT ![e] = "processing"],
             attempts' = [attempts EXCEPT ![e] = @ + 1],
             worker' = [worker EXCEPT ![c] = e]
      PROVE  QueueInv'
  <2>1. /\ e \in Events /\ status[e] = "pending"
        /\ \A f \in Events : ChatOf[f] = ChatOf[e] /\ at[f] < at[e] =>
              status[f] \notin {"pending", "processing", "dead_letter"}
    BY <1>3, PendingIsFirst
  <2>2. /\ status'[e] = "processing"
        /\ \A f \in Events \ {e} : status'[f] = status[f]
    BY <1>3, <2>1 DEF TypeOK
  <2>3. TypeOK'
    BY <1>1, <1>3, <2>1 DEF TypeOK
  <2>4. AckedIsDurable' /\ AgedAreOver'
    BY <1>1, <2>1, <2>2 DEF AckedIsDurable, AgedAreOver, TypeOK
  <2>5. RowsAreNumbered'
    <3>1. Known(status') = Known(status)
      BY <2>1, <2>2 DEF Known
    <3> QED BY <1>1, <3>1 DEF RowsAreNumbered
  <2>6. PacketIsStored'
    BY <1>1, <2>1, <2>2 DEF PacketIsStored, ReaderIsTyped
  <2>7. HandledInOrder'
    <3> SUFFICES ASSUME NEW f \in Events, NEW g \in Events,
                        ChatOf[f] = ChatOf[g], status'[f] # "none", at[f] < at[g],
                        status'[g] \in {"processing", "completed", "ignored", "dead_letter"}
                 PROVE  status'[f] \in Finished
      BY <1>1 DEF HandledInOrder
    <3>1. CASE g = e
      <4>1. f # e /\ status[f] \notin {"none", "pending", "processing", "dead_letter"}
        BY <2>1, <2>2, <3>1 DEF TypeOK
      <4> QED BY <2>2, <4>1 DEF TypeOK, Finished
    <3>2. CASE g # e
      <4>1. status[f] \in Finished
        BY <2>1, <2>2, <3>2 DEF HandledInOrder
      <4> QED BY <2>1, <2>2, <4>1 DEF Finished
    <3> QED BY <3>1, <3>2
  <2>8. WorkersAreLocal' /\ ProcessingIsOwned'
    <3>1. /\ worker'[c] = e /\ \A d \in Chats \ {c} : worker'[d] = worker[d]
          /\ \A f \in Events : ChatOf[f] \in Chats
      BY <1>3, InboundAssumption DEF TypeOK
    <3>2. \A f \in Events : ChatOf[f] = c => status[f] # "processing"
      BY <1>1, InboundAssumption DEF ProcessingIsOwned
    <3>3. WorkersAreLocal'
      BY <1>1, <1>3, <3>1 DEF WorkersAreLocal
    <3>4. ASSUME NEW f \in Events
          PROVE  status'[f] = "processing" <=> worker'[ChatOf[f]] = f
      <4>1. CASE ChatOf[f] = c
        BY <1>1, <1>3, <2>1, <2>2, <3>1, <3>2, <4>1
      <4>2. CASE ChatOf[f] # c
        BY <1>1, <1>3, <2>2, <3>1, <4>2 DEF ProcessingIsOwned
      <4> QED BY <4>1, <4>2
    <3> QED BY <3>3, <3>4 DEF ProcessingIsOwned
  <2> QED BY <1>2, <2>3, <2>4, <2>5, <2>6, <2>7, <2>8
<1>4. CASE /\ worker' = SchedulePending([worker EXCEPT ![c] = "none"], status, waits, {})
           /\ UNCHANGED <<status, attempts>>
  <2>2. /\ worker' \in [Chats -> {"none", "ready"} \cup Events]
        /\ worker'[c] \in {"none", "ready"}
        /\ \A d \in Chats \ {c} : \/ worker'[d] = worker[d]
                                  \/ worker[d] = "none" /\ worker'[d] = "ready"
    BY <1>4, WorkerLeaves
  <2>3. AgedAreOver' /\ RowsAreNumbered' /\ AckedIsDurable' /\ HandledInOrder'
    BY <1>1, <1>4, TableIsKept DEF table
  <2>4. WorkersAreLocal' /\ ProcessingIsOwned'
    <3>1. \A f \in Events : ChatOf[f] \in Chats
      BY InboundAssumption
    <3>2. \A f \in Events : \A d \in Chats : worker'[d] = f <=> worker[d] = f
      BY <1>1, <2>2, InboundAssumption
    <3>3. ProcessingIsOwned'
      BY <1>1, <1>4, <3>1, <3>2 DEF ProcessingIsOwned
    <3>4. WorkersAreLocal'
      BY <1>1, <2>2, <3>2 DEF WorkersAreLocal
    <3> QED BY <3>3, <3>4
  <2>5. TypeOK' /\ PacketIsStored'
    BY <1>1, <1>4, <2>2 DEF TypeOK, PacketIsStored
  <2> QED BY <1>2, <2>3, <2>4, <2>5
<1> QED BY <1>3, <1>4 DEF ClaimInboundEvent

\* The database steps that only move one event on.  What an event may become, and what
\* that asks of the events before it.
MovesOn(e, from, to) ==
    /\ status[e] \in from
    /\ status' = [status EXCEPT ![e] = to]
    /\ UNCHANGED at

\* An event that was taken up ends, or goes back to the queue: the order and the
\* numbers stay.
LEMMA MovedRowsAreInOrder ==
    ASSUME QueueInv, NEW e \in Events,
           NEW to \in {"pending", "completed", "ignored", "dead_letter"},
           MovesOn(e, {"processing", "dead_letter"}, to)
    PROVE  /\ status'[e] = to /\ \A f \in Events \ {e} : status'[f] = status[f]
           /\ RowsAreNumbered' /\ HandledInOrder'
<1> USE DEF QueueInv
<1>1. status'[e] = to /\ \A f \in Events \ {e} : status'[f] = status[f]
  BY DEF MovesOn, TypeOK
<1>2. status[e] \in {"processing", "dead_letter"} /\ UNCHANGED at
  BY DEF MovesOn
<1>3. RowsAreNumbered'
  <2>1. Known(status') = Known(status)
    BY <1>1, <1>2 DEF Known
  <2> QED BY <1>2, <2>1 DEF RowsAreNumbered
<1>4. HandledInOrder'
  <2> SUFFICES ASSUME NEW f \in Events, NEW g \in Events,
                      ChatOf[f] = ChatOf[g], status'[f] # "none", at[f] < at[g],
                      status'[g] \in {"processing", "completed", "ignored", "dead_letter"}
               PROVE  status'[f] \in Finished
    BY <1>2 DEF HandledInOrder
  <2>1. status[g] \in {"processing", "completed", "ignored", "dead_letter"} /\ status[f] # "none"
    BY <1>1, <1>2
  <2>2. status[f] \in Finished
    BY <2>1 DEF HandledInOrder
  <2>3. f # e
    BY <1>2, <2>2 DEF Finished
  <2> QED BY <1>1, <2>2, <2>3
<1> QED BY <1>1, <1>3, <1>4

\* A handled event is completed or ignored, and its worker goes on.
LEMMA FinishKeeps ==
    ASSUME QueueInv, NEW c \in Chats, NEW outcome \in {"completed", "ignored"},
           FinishEvent(c, outcome)
    PROVE  QueueInv'
<1> DEFINE e == worker[c]
<1> USE DEF QueueInv
<1>1. /\ phase # "down" /\ e \in Events /\ status[e] = "processing"
      /\ status' = [status EXCEPT ![e] = outcome]
      /\ worker' = [worker EXCEPT ![c] = "ready"]
      /\ UNCHANGED <<attempts, waits, at, aged, acked, reader, phase>>
  BY DEF FinishEvent, Alive
<1>2. MovesOn(e, {"processing", "dead_letter"}, outcome)
  BY <1>1 DEF MovesOn
<1>3. /\ status'[e] = outcome /\ \A f \in Events \ {e} : status'[f] = status[f]
      /\ RowsAreNumbered' /\ HandledInOrder'
  BY <1>1, <1>2, MovedRowsAreInOrder
<1>4. TypeOK'
  BY <1>1 DEF TypeOK
<1>5. ReaderIsTyped' /\ PacketIsStored' /\ AckedIsDurable' /\ AgedAreOver'
  BY <1>1, <1>3 DEF ReaderIsTyped, PacketIsStored, AckedIsDurable, AgedAreOver, TypeOK
<1>6. /\ ChatOf[e] = c /\ \A f \in Events : ChatOf[f] \in Chats
      /\ worker'[c] = "ready" /\ \A d \in Chats \ {c} : worker'[d] = worker[d]
  BY <1>1, InboundAssumption DEF WorkersAreLocal, TypeOK
<1>7. WorkersAreLocal'
  BY <1>1, <1>6, InboundAssumption DEF WorkersAreLocal
<1>8. ASSUME NEW f \in Events
      PROVE  status'[f] = "processing" <=> worker'[ChatOf[f]] = f
  <2>1. CASE f = e
    BY <1>1, <1>3, <1>6, <2>1, InboundAssumption
  <2>2. CASE f # e
    BY <1>1, <1>3, <1>6, <2>2, InboundAssumption DEF ProcessingIsOwned
  <2> QED BY <2>1, <2>2
<1> QED BY <1>3, <1>4, <1>5, <1>7, <1>8 DEF ProcessingIsOwned

\* An event goes back to the queue or becomes a dead letter, and its worker ends.
LEMMA RequeueKeeps ==
    ASSUME QueueInv, phase # "down", NEW c \in Chats, worker[c] \in Events, NEW excluded,
           RequeueInboundEvent(c, excluded), UNCHANGED <<acked, reader, phase>>
    PROVE  QueueInv'
<1> DEFINE e == worker[c]
<1> USE DEF QueueInv
<1>1. ChatOf[e] = c /\ \A f \in Events : ChatOf[f] \in Chats
  BY InboundAssumption DEF WorkersAreLocal
<1>2. status[e] = "processing"
  BY <1>1 DEF ProcessingIsOwned
<1>3. PICK to \in {"pending", "dead_letter"} : status' = [status EXCEPT ![e] = to]
  BY DEF RequeueInboundEvent
<1>4. /\ UNCHANGED <<attempts, at, aged, acked, reader, phase>>
      /\ waits' \subseteq Events
  BY DEF RequeueInboundEvent, TypeOK
<1>5. MovesOn(e, {"processing", "dead_letter"}, to)
  BY <1>2, <1>3, <1>4 DEF MovesOn
<1>6. /\ status'[e] = to /\ \A f \in Events \ {e} : status'[f] = status[f]
      /\ RowsAreNumbered' /\ HandledInOrder'
  BY <1>5, MovedRowsAreInOrder
<1>7. /\ worker' \in [Chats -> {"none", "ready"} \cup Events]
      /\ worker'[c] \in {"none", "ready"}
      /\ \A d \in Chats \ {c} : \/ worker'[d] = worker[d]
                                \/ worker[d] = "none" /\ worker'[d] = "ready"
  <2>1. worker' = SchedulePending([worker EXCEPT ![c] = "none"], status', waits', excluded)
    BY DEF RequeueInboundEvent
  <2> QED BY <2>1, WorkerLeaves
<1>8. TypeOK'
  BY <1>3, <1>4, <1>7 DEF TypeOK
<1>9. ReaderIsTyped' /\ PacketIsStored' /\ AckedIsDurable' /\ AgedAreOver'
  <2>1. \A f \in Events : status[f] # "none" => status'[f] # "none"
    BY <1>2, <1>6
  <2>2. PacketIsStored'
    BY <1>4, <2>1 DEF ReaderIsTyped, PacketIsStored
  <2>3. ReaderIsTyped' /\ AckedIsDurable' /\ AgedAreOver'
    BY <1>2, <1>4, <1>6, <2>1 DEF ReaderIsTyped, AckedIsDurable, AgedAreOver, TypeOK
  <2> QED BY <2>2, <2>3
<1>10. WorkersAreLocal'
  BY <1>4, <1>7, InboundAssumption DEF WorkersAreLocal
<1>11. ASSUME NEW f \in Events
       PROVE  status'[f] = "processing" <=> worker'[ChatOf[f]] = f
  <2>1. CASE f = e
    BY <1>1, <1>6, <1>7, <2>1, InboundAssumption
  <2>2. CASE f # e
    <3>1. worker'[ChatOf[f]] = f <=> worker[ChatOf[f]] = f
      BY <1>1, <1>7, <2>2, InboundAssumption
    <3> QED BY <1>6, <2>2, <3>1 DEF ProcessingIsOwned
  <2> QED BY <2>1, <2>2
<1> QED BY <1>6, <1>8, <1>9, <1>10, <1>11, <1>4 DEF ProcessingIsOwned

-------------------------------------------------------------------------------
(* Time, the operator and the process.                                     *)

\* Backoffs and retentions pass.
LEMMA TimeKeeps ==
    ASSUME QueueInv, NEW e \in Events, RetryDue(e) \/ RetentionPasses(e)
    PROVE  QueueInv'
<1> USE DEF QueueInv
<1>1. /\ UNCHANGED <<status, attempts, at, acked, reader, worker, phase>>
      /\ waits' \subseteq Events /\ aged' \subseteq Events /\ AgedAreOver'
  BY DEF RetryDue, RetentionPasses, TypeOK, AgedAreOver
<1> QED BY <1>1 DEF TypeOK, ReaderIsTyped, PacketIsStored, RowsAreNumbered, AckedIsDurable,
                    HandledInOrder, WorkersAreLocal, ProcessingIsOwned

\* Dead letters go back to the queue; nothing behind them was taken up.
LEMMA RequeueDeadLettersKeeps ==
    ASSUME QueueInv, NEW S \in SUBSET Events, RequeueDeadLetters(S)
    PROVE  QueueInv'
<1> USE DEF QueueInv
<1>1. /\ \A e \in S : status[e] = "dead_letter" /\ status'[e] = "pending"
      /\ \A e \in Events \ S : status'[e] = status[e]
      /\ aged' = aged \ S /\ waits' \subseteq Events
      /\ UNCHANGED <<at, acked, reader, worker, phase>>
  BY DEF RequeueDeadLetters, TypeOK
<1>2. TypeOK'
  BY <1>1 DEF RequeueDeadLetters, TypeOK
<1>3. ReaderIsTyped' /\ PacketIsStored' /\ AckedIsDurable' /\ AgedAreOver'
  <2>1. \A f \in Events : status[f] # "none" => status'[f] # "none"
    BY <1>1
  <2>2. PacketIsStored'
    BY <1>1, <2>1 DEF ReaderIsTyped, PacketIsStored
  <2>3. ReaderIsTyped' /\ AckedIsDurable' /\ AgedAreOver'
    BY <1>1, <2>1 DEF ReaderIsTyped, AckedIsDurable, AgedAreOver, TypeOK
  <2> QED BY <2>2, <2>3
<1>4. RowsAreNumbered'
  <2>1. Known(status') = Known(status)
    BY <1>1 DEF Known
  <2> QED BY <1>1, <2>1 DEF RowsAreNumbered
<1>5. HandledInOrder'
  <2> SUFFICES ASSUME NEW f \in Events, NEW g \in Events,
                      ChatOf[f] = ChatOf[g], status'[f] # "none", at[f] < at[g],
                      status'[g] \in {"processing", "completed", "ignored", "dead_letter"}
               PROVE  status'[f] \in Finished
    BY <1>1 DEF HandledInOrder
  <2>1. status[f] \in Finished
    BY <1>1 DEF HandledInOrder
  <2> QED BY <1>1, <2>1 DEF Finished
<1>6. WorkersAreLocal' /\ ProcessingIsOwned'
  BY <1>1 DEF WorkersAreLocal, ProcessingIsOwned
<1> QED BY <1>2, <1>3, <1>4, <1>5, <1>6

\* A dead letter is given up: nothing before it was open.
LEMMA DiscardKeeps ==
    ASSUME QueueInv, NEW e \in Events, DiscardDeadLetter(e)
    PROVE  QueueInv'
<1> USE DEF QueueInv
<1>1. /\ status[e] = "dead_letter" /\ status' = [status EXCEPT ![e] = "completed"]
      /\ aged' = aged \ {e}
      /\ UNCHANGED <<attempts, waits, at, acked, reader, worker, phase>>
  BY DEF DiscardDeadLetter
<1>2. MovesOn(e, {"processing", "dead_letter"}, "completed")
  BY <1>1 DEF MovesOn
<1>3. /\ status'[e] = "completed" /\ \A f \in Events \ {e} : status'[f] = status[f]
      /\ RowsAreNumbered' /\ HandledInOrder'
  BY <1>2, MovedRowsAreInOrder
<1>4. TypeOK'
  BY <1>1 DEF TypeOK
<1>5. ReaderIsTyped' /\ PacketIsStored' /\ AckedIsDurable' /\ AgedAreOver'
  BY <1>1, <1>3 DEF ReaderIsTyped, PacketIsStored, AckedIsDurable, AgedAreOver, TypeOK
<1>6. WorkersAreLocal' /\ ProcessingIsOwned'
  BY <1>1, <1>3 DEF WorkersAreLocal, ProcessingIsOwned
<1> QED BY <1>3, <1>4, <1>5, <1>6

\* The start gives interrupted events back to the queue.
LEMMA StartKeeps ==
    ASSUME QueueInv, Start
    PROVE  QueueInv'
<1> USE DEF QueueInv
<1>1. /\ \A e \in Events : status'[e] = IF status[e] = "processing" THEN "pending" ELSE status[e]
      /\ phase = "down" /\ phase' = "off" /\ waits' \subseteq Events
      /\ UNCHANGED <<attempts, at, aged, acked, reader, worker>>
  BY DEF Start, Interrupted, TypeOK
<1>2. TypeOK'
  BY <1>1 DEF Start, Interrupted, TypeOK
<1>3. AckedIsDurable' /\ AgedAreOver'
  BY <1>1 DEF AckedIsDurable, AgedAreOver, TypeOK
<1>4. RowsAreNumbered'
  <2>1. Known(status') = Known(status)
    BY <1>1 DEF Known
  <2> QED BY <1>1, <2>1 DEF RowsAreNumbered
<1>5. HandledInOrder'
  BY <1>1 DEF HandledInOrder, Finished
<1>6. ReaderIsTyped' /\ PacketIsStored'
  BY <1>1 DEF ReaderIsTyped, PacketIsStored
<1>7. WorkersAreLocal' /\ ProcessingIsOwned'
  BY <1>1, InboundAssumption DEF WorkersAreLocal, ProcessingIsOwned
<1> QED BY <1>2, <1>3, <1>4, <1>5, <1>6, <1>7

\* The process ends with its workers; the table stays.
LEMMA ExitKeeps ==
    ASSUME QueueInv, Exit
    PROVE  QueueInv'
<1> USE DEF QueueInv
<1>1. /\ phase' = "down" /\ worker' = [c \in Chats |-> "none"] /\ reader' = IdleReader
      /\ UNCHANGED <<table, acked>>
  BY DEF Exit
<1>2. ReaderIsTyped' /\ PacketIsStored'
  BY <1>1, IdleReaderIsTyped
<1>3. AgedAreOver' /\ RowsAreNumbered' /\ AckedIsDurable' /\ HandledInOrder'
  BY <1>1, TableIsKept
<1>4. TypeOK' /\ WorkersAreLocal' /\ ProcessingIsOwned'
  BY <1>1, InboundAssumption DEF table, TypeOK, WorkersAreLocal, ProcessingIsOwned
<1> QED BY <1>2, <1>3, <1>4

-------------------------------------------------------------------------------
(* The theorems.                                                           *)

\* The empty queue of a process that is down.
LEMMA QueueInvHoldsAtStart == Init => QueueInv
<1> SUFFICES ASSUME Init PROVE QueueInv
  OBVIOUS
<1>1. ReaderIsTyped /\ PacketIsStored
  <2>1. <<>> \in Seq(Events)
    OBVIOUS
  <2> QED BY <2>1 DEF Init, IdleReader, ReaderIsTyped, PacketIsStored
<1>2. TypeOK /\ AgedAreOver /\ RowsAreNumbered /\ AckedIsDurable /\ HandledInOrder
  BY DEF Init, TypeOK, AgedAreOver, RowsAreNumbered, Known, AckedIsDurable, HandledInOrder
<1>3. WorkersAreLocal /\ ProcessingIsOwned
  BY InboundAssumption DEF Init, WorkersAreLocal, ProcessingIsOwned
<1> QED BY <1>1, <1>2, <1>3 DEF QueueInv

\* Every step of reader, workers, operator and process keeps the invariant.
LEMMA QueueInvIsKept == QueueInv /\ [Next]_vars => QueueInv'
<1> SUFFICES ASSUME QueueInv, [Next]_vars PROVE QueueInv'
  OBVIOUS
<1>1. ASSUME NEW p \in Packets, Receive(p) PROVE QueueInv'
  BY <1>1, ReceiveKeeps
<1>2. CASE RecordInboundEvent
  BY <1>2, RecordKeeps
<1>3. CASE AckPacket
  BY <1>3, AckKeeps
<1>4. CASE Disconnect \/ Reconnect \/ StopForAuth
  BY <1>4, ConnectionKeeps
<1>5. CASE Recover
  BY <1>5, RecoverKeeps
<1>6. ASSUME NEW c \in Chats, WorkerStep(c) PROVE QueueInv'
  <2>1. CASE ClaimInboundEvent(c)
    BY <2>1, ClaimKeeps
  <2>2. ASSUME NEW outcome \in {"completed", "ignored"}, FinishEvent(c, outcome) PROVE QueueInv'
    BY <2>2, FinishKeeps
  <2>3. CASE FailEvent(c)
    BY <2>3, RequeueKeeps DEF FailEvent, Alive
  <2> QED BY <1>6, <2>1, <2>2, <2>3 DEF WorkerStep
<1>7. ASSUME NEW e \in Events, RetryDue(e) \/ RetentionPasses(e) PROVE QueueInv'
  BY <1>7, TimeKeeps
<1>8. ASSUME NEW S \in SUBSET Events, RequeueDeadLetters(S) PROVE QueueInv'
  BY <1>8, RequeueDeadLettersKeeps
<1>9. ASSUME NEW e \in Events, DiscardDeadLetter(e) PROVE QueueInv'
  BY <1>9, DiscardKeeps
<1>10. CASE Start
  BY <1>10, StartKeeps
<1>11. ASSUME NEW c \in Chats, CancelWorker(c) PROVE QueueInv'
  BY <1>11, RequeueKeeps DEF CancelWorker
<1>12. CASE Exit
  BY <1>12, ExitKeeps
<1>13. CASE UNCHANGED vars
  BY <1>13 DEF vars, table, QueueInv, TypeOK, ReaderIsTyped, PacketIsStored, AgedAreOver,
               RowsAreNumbered, AckedIsDurable, HandledInOrder, WorkersAreLocal, ProcessingIsOwned
<1> QED BY <1>1, <1>2, <1>3, <1>4, <1>5, <1>6, <1>7, <1>8, <1>9, <1>10, <1>11, <1>12, <1>13
        DEF Next

\* QueueInv is an invariant of the queue.
THEOREM QueueIsSafe == Spec => []QueueInv
BY QueueInvHoldsAtStart, QueueInvIsKept, PTL DEF Spec

\* The rows and the workers keep their shape.
THEOREM QueueIsWellTyped == Spec => []TypeOK
<1>1. QueueInv => TypeOK
  BY DEF QueueInv
<1> QED BY <1>1, QueueIsSafe, PTL

\* Whatever was acknowledged to the platform is in the database: a crash loses no event.
THEOREM AckedEventsAreDurable == Spec => []AckedIsDurable
<1>1. QueueInv => AckedIsDurable
  BY DEF QueueInv
<1> QED BY <1>1, QueueIsSafe, PTL

\* No event is handled before an earlier one of its chat that is not over.
THEOREM ChatsAreServedInOrder == Spec => []NoOvertaking
<1>1. QueueInv => NoOvertaking
  BY DEF QueueInv, HandledInOrder, NoOvertaking
<1> QED BY <1>1, QueueIsSafe, PTL

\* A claimed event has the worker of its chat, and no other.
THEOREM ClaimsAreOwned == Spec => []ProcessingIsOwned
<1>1. QueueInv => ProcessingIsOwned
  BY DEF QueueInv
<1> QED BY <1>1, QueueIsSafe, PTL

\* An event that was handled or discarded is never handled again.
THEOREM HandledEventsStayHandled == Spec => HandledIsFinal
<1> DEFINE Final == \A e \in Events : status[e] \in Finished => status'[e] \in {status[e], "purged"}
<1>1. QueueInv /\ [Next]_vars => [Final]_vars
  <2> SUFFICES ASSUME QueueInv, Next, NEW e \in Events, status[e] \in Finished
               PROVE  status'[e] \in {status[e], "purged"}
    OBVIOUS
  <2> USE DEF QueueInv, TypeOK, Finished
  <2>1. CASE RecordInboundEvent
    <3> DEFINE head == Head(reader.todo)
    <3>1. status' = status \/ status' = Inserted(Purged, head)
      BY <2>1 DEF RecordInboundEvent
    <3>2. Purged[e] \in {status[e], "purged"}
      BY PurgedIsOver DEF AgedAreOver
    <3>3. Inserted(Purged, head)[e] = Purged[e]
      BY <3>2 DEF Inserted, Purged
    <3> QED BY <3>1, <3>2, <3>3
  <2>2. ASSUME NEW c \in Chats, WorkerStep(c) \/ CancelWorker(c)
        PROVE  status'[e] = status[e]
    <3>1. ASSUME worker[c] \in Events, phase # "down" PROVE status[worker[c]] = "processing"
      BY <3>1, InboundAssumption DEF ProcessingIsOwned, WorkersAreLocal
    <3>2. CASE ClaimInboundEvent(c)
      BY <3>2, PendingIsFirst DEF ClaimInboundEvent
    <3>3. ASSUME NEW outcome \in {"completed", "ignored"}, FinishEvent(c, outcome)
          PROVE  status'[e] = status[e]
      BY <3>3 DEF FinishEvent
    <3>4. CASE FailEvent(c) \/ CancelWorker(c)
      BY <3>1, <3>4 DEF FailEvent, CancelWorker, RequeueInboundEvent, Alive
    <3> QED BY <2>2, <3>2, <3>3, <3>4 DEF WorkerStep
  <2>3. CASE Start
    BY <2>3 DEF Start, Interrupted
  <2>4. ASSUME NEW S \in SUBSET Events, RequeueDeadLetters(S) PROVE status'[e] = status[e]
    BY <2>4 DEF RequeueDeadLetters
  <2>5. ASSUME NEW f \in Events, DiscardDeadLetter(f) PROVE status'[e] = status[e]
    BY <2>5 DEF DiscardDeadLetter
  <2>6. CASE \/ \E p \in Packets : Receive(p)
             \/ AckPacket \/ Disconnect \/ Reconnect \/ Recover \/ StopForAuth \/ Exit
             \/ \E f \in Events : RetryDue(f) \/ RetentionPasses(f)
    BY <2>6 DEF Receive, AckPacket, Disconnect, Reconnect, Recover, StopForAuth, Exit,
                RetryDue, RetentionPasses, table
  <2> QED BY <2>1, <2>2, <2>3, <2>4, <2>5, <2>6 DEF Next
<1> QED BY <1>1, QueueIsSafe, PTL DEF Spec, HandledIsFinal
===============================================================================
