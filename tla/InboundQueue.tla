----------------------------- MODULE InboundQueue -----------------------------
(***************************************************************************)
(* The inbound event queue of one shop worker: the table inbound_events of *)
(* worker/delivery_store.py, the websocket reader that records a packet's  *)
(* events before it acknowledges the packet, and the per-conversation      *)
(* workers of worker/main.py that handle the events in order.              *)
(*                                                                         *)
(* Wall-clock time is abstracted: waits[e] says that next_attempt_at of e  *)
(* lies ahead, aged[e] that the finished row e is past its retention.      *)
(* created_at and rowid are one arrival number, at[e]; the clock of the    *)
(* host is assumed not to run backwards.                                   *)
(***************************************************************************)
EXTENDS Naturals, FiniteSets, Sequences

CONSTANTS
    Events,       \* event keys
    Chats,        \* chat keys
    ChatOf,       \* the chat each event belongs to
    Packets,      \* the sync packets the platform may deliver: sequences of events
    MaxAttempts,  \* MAX_INBOUND_ATTEMPTS
    MaxQueue,     \* MAX_INBOUND_QUEUE_EVENTS
    MaxPerChat,   \* MAX_INBOUND_EVENTS_PER_CHAT
    MaxScan,      \* MAX_PENDING_SCAN
    MaxTasks,     \* max_message_tasks
    MaxCrashes, MaxFaults, MaxEdits  \* bounds of the environment

ASSUME InboundAssumption ==
    /\ ChatOf \in [Events -> Chats]
    /\ IsFiniteSet(Events) /\ IsFiniteSet(Chats)
    /\ Packets \subseteq Seq(Events) \ {<<>>}
    /\ "none" \notin Events /\ "ready" \notin Events
    /\ {MaxAttempts, MaxQueue, MaxPerChat, MaxScan, MaxTasks} \subseteq Nat \ {0}

VARIABLES
    status,    \* inbound_events.status; "none" before the insert; a deleted row is
               \* "purged", or "lost" if it was still a dead letter
    attempts,  \* inbound_events.attempt_count
    waits,     \* events whose next_attempt_at lies ahead
    at,        \* order of created_at, rowid
    aged,      \* finished rows whose completed_at is past the retention
    acked,     \* events of the packets acknowledged to the platform
    reader,    \* the websocket reader: the packet it is persisting
    worker,    \* inbound_chat_tasks: "none", "ready" to take an event, or its event
    phase,     \* process: "down", "off" (no connection), "up", "stopping"
    budget     \* remaining environment events

table == <<status, attempts, waits, at, aged>>
vars == <<table, acked, reader, worker, phase, budget>>

Active == {"pending", "processing", "dead_letter"}

Finished == {"completed", "ignored", "purged", "lost"}

IdleReader == [pc |-> "idle", packet |-> <<>>, todo |-> <<>>, fresh |-> {}]

\* The reader is inside the synchronous block that persists a packet.
Quiet == reader.pc # "record"

Spend(kind) == budget[kind] > 0 /\ budget' = [budget EXCEPT ![kind] = @ - 1]

-----------------------------------------------------------------------------
(* Queries of the store.                                                   *)

\* Mutant: a dead letter does not hold back the events behind it.
BlockingMutant == {"pending", "processing"}

Blocking == {"pending", "processing", "dead_letter"}

EarlierActive(st, e) ==
    {f \in Events : ChatOf[f] = ChatOf[e] /\ st[f] \in Blocking /\ at[f] < at[e]}

Ready(st, w) ==
    {e \in Events : st[e] = "pending" /\ e \notin w /\ EarlierActive(st, e) = {}}

\* pending_inbound_events(ready_only = TRUE): the first MaxScan by arrival.
PendingInboundEvents(st, w) ==
    {e \in Ready(st, w) :
        Cardinality({f \in Ready(st, w) : at[f] < at[e]}) < MaxScan}

-----------------------------------------------------------------------------
(* Scheduling of the per-chat workers.                                     *)

Busy(tasks) == {c \in Chats : tasks[c] # "none"}

\* _schedule_inbound_chat for the chats of some events, in the order of rank: one
\* task per chat, until max_message_tasks is reached.
Schedule(tasks, events, rank) ==
    LET new(e) == tasks[ChatOf[e]] = "none"
        before(e) == {ChatOf[f] : f \in {g \in events : new(g) /\ rank[g] < rank[e]}}
                         \ {ChatOf[e]}
    IN  [c \in Chats |->
            IF \E e \in events : /\ ChatOf[e] = c
                                 /\ new(e)
                                 /\ Cardinality(before(e)) + Cardinality(Busy(tasks)) < MaxTasks
            THEN "ready" ELSE tasks[c]]

\* _schedule_pending_inbound_events, from the recovery loop or a worker that ends.
SchedulePending(tasks, st, w, excluded) ==
    Schedule(tasks, {e \in PendingInboundEvents(st, w) : ChatOf[e] \notin excluded}, at)

-----------------------------------------------------------------------------
(* The websocket reader.                                                   *)

\* The platform delivers packets until they are acknowledged and may repeat them,
\* though not for as long as the rows are retained.
Receive(p) ==
    /\ phase = "up"
    /\ reader.pc = "idle"
    /\ \A i \in DOMAIN p : p[i] \notin aged /\ status[p[i]] \notin {"purged", "lost"}
    /\ reader' = [IdleReader EXCEPT !.pc = "record", !.packet = p, !.todo = p]
    /\ UNCHANGED <<table, acked, worker, phase, budget>>

\* Rows past their retention are deleted, dead letters included.
Purged ==
    [e \in Events |->
        CASE e \notin aged -> status[e]
          [] e \in aged /\ status[e] = "dead_letter" -> "lost"
          [] e \in aged /\ status[e] # "dead_letter" -> "purged"]

Full(st, chat) ==
    LET active == {e \in Events : st[e] \in Active}
    IN  \/ Cardinality(active) >= MaxQueue
        \/ Cardinality({e \in active : ChatOf[e] = chat}) >= MaxPerChat

\* Mutant: only active rows are taken for duplicates.
InsertedMutant(st, e) == IF st[e] \in Active THEN st ELSE [st EXCEPT ![e] = "pending"]

Inserted(st, e) == IF st[e] = "none" THEN [st EXCEPT ![e] = "pending"] ELSE st

\* The reader goes on with the rest of its packet.
NextEntry(fresh) ==
    /\ reader' = [reader EXCEPT !.todo = Tail(@),
                                !.pc = IF Len(reader.todo) = 1 THEN "ack" ELSE @,
                                !.fresh = @ \cup fresh]
    /\ UNCHANGED phase

\* Mutant: the event that does not fit is skipped.
RefusePacketMutant == NextEntry({})

\* The exception rolls the transaction back and closes the connection, without
\* an ack: the platform will deliver the packet again.
RefusePacket ==
    /\ reader' = IdleReader
    /\ phase' = "off"

\* record_inbound_event for the next event of the packet: old rows are deleted,
\* a known key is left alone, a full queue raises.
RecordInboundEvent ==
    LET e  == Head(reader.todo)
        st == Inserted(Purged, e)
        isNew == Purged[e] = "none"
    IN  /\ reader.pc = "record"
        /\ \/ /\ isNew /\ Full(Purged, ChatOf[e])
              /\ RefusePacket
              /\ UNCHANGED <<status, aged, at>>
           \/ /\ ~(isNew /\ Full(Purged, ChatOf[e]))
              /\ status' = st
              /\ aged' = {}
              /\ at' = IF isNew
                       THEN [at EXCEPT ![e] =
                               1 + Cardinality({f \in Events : status[f] # "none"})]
                       ELSE at
              /\ NextEntry(IF st[e] = "pending" THEN {e} ELSE {})
        /\ UNCHANGED <<attempts, waits, acked, worker, budget>>

\* The ack left; in packet order, the chats of the events that were pending get their worker.
AckPacket ==
    /\ phase = "up"
    /\ reader.pc = "ack"
    /\ acked' = acked \cup {reader.packet[i] : i \in DOMAIN reader.packet}
    /\ worker' = Schedule(worker, reader.fresh,
                  [e \in reader.fresh |-> CHOOSE i \in DOMAIN reader.packet :
                                              reader.packet[i] = e])
    /\ reader' = IdleReader
    /\ UNCHANGED <<table, phase, budget>>

\* The connection drops, the reader with it; the chat workers go on.
Disconnect ==
    /\ phase = "up"
    /\ Quiet
    /\ Spend("crash")
    /\ phase' = "off"
    /\ reader' = IdleReader
    /\ UNCHANGED <<table, acked, worker>>

Reconnect ==
    /\ phase = "off"
    /\ phase' = "up"
    /\ UNCHANGED <<table, acked, reader, worker, budget>>

\* _inbound_recovery_loop, which lives as long as the connection.
Recover ==
    /\ phase = "up"
    /\ Quiet
    /\ worker' = SchedulePending(worker, status, waits, {})
    /\ UNCHANGED <<table, acked, reader, phase, budget>>

-----------------------------------------------------------------------------
(* The per-chat worker.                                                    *)

Alive == phase # "down" /\ Quiet

\* _run_inbound_chat_worker takes the first ready event of its chat or ends.
ClaimInboundEvent(c) ==
    LET mine == {e \in PendingInboundEvents(status, waits) : ChatOf[e] = c}
    IN  /\ Alive
        /\ worker[c] = "ready"
        /\ \/ \E e \in mine :
                /\ status' = [status EXCEPT ![e] = "processing"]
                /\ attempts' = [attempts EXCEPT ![e] = @ + 1]
                /\ worker' = [worker EXCEPT ![c] = e]
           \/ /\ mine = {}
              /\ worker' = SchedulePending([worker EXCEPT ![c] = "none"], status, waits, {})
              /\ UNCHANGED <<status, attempts>>
        /\ UNCHANGED <<waits, at, aged, acked, reader, phase, budget>>

\* complete_inbound_event, ignore_inbound_event
FinishEvent(c, outcome) ==
    /\ Alive
    /\ worker[c] \in Events
    /\ status[worker[c]] = "processing"
    /\ status' = [status EXCEPT ![worker[c]] = outcome]
    /\ worker' = [worker EXCEPT ![c] = "ready"]
    /\ UNCHANGED <<attempts, waits, at, aged, acked, reader, phase, budget>>

\* Mutant: the failed event is left to the next start.
RequeueInboundEventMutant(c, excluded) ==
    /\ worker' = SchedulePending([worker EXCEPT ![c] = "none"], status, waits, excluded)
    /\ UNCHANGED <<status, attempts, waits, at, aged>>

\* requeue_inbound_event: wait, or give up after MaxAttempts; then the worker ends
\* and hands its place to another chat.
RequeueInboundEvent(c, excluded) ==
    LET e == worker[c]
        dead == attempts[e] >= MaxAttempts
    IN  /\ status' = [status EXCEPT ![e] = IF dead THEN "dead_letter" ELSE "pending"]
        /\ waits' = IF dead THEN waits ELSE waits \cup {e}
        /\ worker' = SchedulePending([worker EXCEPT ![c] = "none"], status', waits', excluded)
        /\ UNCHANGED <<attempts, at, aged>>

FailEvent(c) ==
    /\ Alive
    /\ worker[c] \in Events
    /\ Spend("fault")
    /\ RequeueInboundEvent(c, {c})
    /\ UNCHANGED <<acked, reader, phase>>

\* next_attempt_at passes.
RetryDue(e) ==
    /\ e \in waits
    /\ waits' = waits \ {e}
    /\ UNCHANGED <<status, attempts, at, aged, acked, reader, worker, phase, budget>>

\* INBOUND_COMPLETED_RETENTION passes for a row the platform will not repeat.
RetentionPasses(e) ==
    /\ status[e] \in {"completed", "ignored", "dead_letter"}
    /\ e \in acked \ aged
    /\ \A i \in DOMAIN reader.packet : reader.packet[i] # e
    /\ Spend("edit")
    /\ aged' = aged \cup {e}
    /\ UNCHANGED <<status, attempts, waits, at, acked, reader, worker, phase>>

-----------------------------------------------------------------------------
(* The operator, in another process: script or console.                    *)

\* requeue_dead_letter for one event, requeue_inbound_dead_letters for all.
RequeueDeadLetters(S) ==
    /\ S # {}
    /\ \A e \in S : status[e] = "dead_letter"
    /\ Spend("edit")
    /\ status' = [e \in Events |-> IF e \in S THEN "pending" ELSE status[e]]
    /\ attempts' = [e \in Events |-> IF e \in S THEN 0 ELSE attempts[e]]
    /\ waits' = waits \ S
    /\ aged' = aged \ S
    /\ UNCHANGED <<at, acked, reader, worker, phase>>

DiscardDeadLetter(e) ==
    /\ status[e] = "dead_letter"
    /\ Spend("edit")
    /\ status' = [status EXCEPT ![e] = "completed"]
    /\ aged' = aged \ {e}
    /\ UNCHANGED <<attempts, waits, at, acked, reader, worker, phase>>

-----------------------------------------------------------------------------
(* Start, stop and crash of the process.                                   *)

\* Mutant: events whose handler was interrupted are not taken up again.
InterruptedMutant == {}

Interrupted == {e \in Events : status[e] = "processing"}

\* _init_db gives interrupted events back to the queue.
Start ==
    /\ phase = "down"
    /\ status' = [e \in Events |-> IF e \in Interrupted THEN "pending" ELSE status[e]]
    /\ waits' = waits \ Interrupted
    /\ phase' = "off"
    /\ UNCHANGED <<attempts, at, aged, acked, reader, worker, budget>>

\* The session expired: main raises and the event loop cancels its tasks.
StopForAuth ==
    /\ phase \in {"off", "up"}
    /\ Quiet
    /\ Spend("crash")
    /\ phase' = "stopping"
    /\ reader' = IdleReader
    /\ UNCHANGED <<table, acked, worker>>

\* A cancelled worker gives its event back; its done callback schedules others.
CancelWorker(c) ==
    /\ phase = "stopping"
    /\ worker[c] \in Events
    /\ RequeueInboundEvent(c, {c})
    /\ UNCHANGED <<acked, reader, phase, budget>>

Exit ==
    /\ \/ phase = "stopping" /\ UNCHANGED budget
       \/ phase \in {"off", "up"} /\ Spend("crash")   \* killed
    /\ phase' = "down"
    /\ worker' = [c \in Chats |-> "none"]
    /\ reader' = IdleReader
    /\ UNCHANGED <<table, acked>>

-----------------------------------------------------------------------------
Init ==
    /\ status = [e \in Events |-> "none"]
    /\ attempts = [e \in Events |-> 0]
    /\ waits = {}
    /\ at = [e \in Events |-> 0]
    /\ aged = {}
    /\ acked = {}
    /\ reader = IdleReader
    /\ worker = [c \in Chats |-> "none"]
    /\ phase = "down"
    /\ budget = [crash |-> MaxCrashes, fault |-> MaxFaults, edit |-> MaxEdits]

WorkerStep(c) ==
    \/ ClaimInboundEvent(c)
    \/ \E outcome \in {"completed", "ignored"} : FinishEvent(c, outcome)
    \/ FailEvent(c)

Next ==
    \/ \E p \in Packets : Receive(p)
    \/ RecordInboundEvent
    \/ AckPacket
    \/ Disconnect
    \/ Reconnect
    \/ Recover
    \/ \E c \in Chats : WorkerStep(c)
    \/ \E e \in Events : RetryDue(e)
    \/ \E e \in Events : RetentionPasses(e)
    \/ \E S \in SUBSET Events : RequeueDeadLetters(S)
    \/ \E e \in Events : DiscardDeadLetter(e)
    \/ Start
    \/ StopForAuth
    \/ \E c \in Chats : CancelWorker(c)
    \/ Exit

Spec == Init /\ [][Next]_vars

\* The event loop runs its ready tasks, handlers end or time out, the reader
\* reconnects, the recovery loop wakes up every interval while the connection
\* lasts, the supervisor starts the process again and time passes.  Nothing is
\* assumed of the platform or of the operator.
Fairness ==
    /\ WF_vars(RecordInboundEvent)
    /\ WF_vars(AckPacket)
    /\ WF_vars(Reconnect)
    /\ WF_vars(Start)
    /\ WF_vars(phase = "stopping" /\ Exit)
    /\ SF_vars(Recover)
    /\ \A c \in Chats : SF_vars(WorkerStep(c))
    /\ \A e \in Events : WF_vars(RetryDue(e))

FairSpec == Spec /\ Fairness

-----------------------------------------------------------------------------
(* Properties.                                                             *)

\* The rows of the queue and the workers keep their shape: only statuses that the
\* queries of the store know are ever written.
TypeOK ==
    /\ status \in [Events -> {"none", "pending", "processing", "completed", "ignored",
                              "dead_letter", "purged", "lost"}]
    /\ attempts \in [Events -> Nat]
    /\ waits \subseteq Events
    /\ at \in [Events -> Nat]
    /\ aged \subseteq Events
    /\ acked \subseteq Events
    /\ worker \in [Chats -> {"none", "ready"} \cup Events]
    /\ phase \in {"down", "off", "up", "stopping"}

\* A packet is acknowledged only when all its events are in the database, so a
\* crash at any point loses none: the platform repeats what was not acknowledged.
AckedIsDurable == \A e \in acked : status[e] # "none"

\* Events of a chat are handled in order of arrival: no event is handled before
\* all earlier ones of its chat are over, even if one of them failed, became a
\* dead letter and was put back by the operator later.  The exception is a dead
\* letter nobody resolves within its retention: its row is deleted.
NoOvertaking ==
    \A e, f \in Events :
        /\ ChatOf[e] = ChatOf[f]
        /\ status[e] # "none" /\ at[e] < at[f]
        /\ status[f] \in {"processing", "completed", "ignored"}
        => status[e] \in Finished

\* While the process lives, an event that is being processed has exactly the worker
\* of its chat, and a worker's event is being processed.
ProcessingIsOwned ==
    phase # "down" =>
        \A e \in Events : status[e] = "processing" <=> worker[ChatOf[e]] = e

\* claim_inbound_event promises that every earlier event of the chat is complete.
EarlierAreComplete ==
    \A e, f \in Events :
        /\ ChatOf[e] = ChatOf[f]
        /\ status[e] # "none" /\ at[e] < at[f]
        /\ status[f] = "processing"
        => status[e] \in {"completed", "ignored", "purged"}

\* A repeated packet never brings an event back that was handled or discarded.
HandledIsFinal ==
    [][\A e \in Events : status[e] \in Finished => status'[e] \in {status[e], "purged"}]_vars

\* Every event that entered the queue is handled, or a person is asked: it is a
\* dead letter or waits behind one of its chat.
EventsSettle ==
    \A e \in Events :
        (status[e] \in {"pending", "processing"}) ~>
            \/ status[e] \in Finished \cup {"dead_letter"}
            \/ \E f \in Events : /\ ChatOf[f] = ChatOf[e]
                                 /\ at[f] < at[e]
                                 /\ status[f] = "dead_letter"
=============================================================================
