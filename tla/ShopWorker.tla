------------------------------ MODULE ShopWorker ------------------------------
(***************************************************************************)
(* The tasks of one shop worker process beside the inbound queue: order    *)
(* fulfilment, the conversations with buyers and the platform session.     *)
(* They share the event loop and the connection but no table: a lost       *)
(* connection is a failed call or a missing ack to the other two.  A       *)
(* behaviour is one of the workloads; the other parts are at rest in it.   *)
(***************************************************************************)
EXTENDS Fulfillment, Conversations, Session

VARIABLE workload

workerProcessVars == <<workload, vars, talkVars, sessionVars>>

(* No order is under way and no conversation is bound to one.              *)
OrdersAtRest ==
    /\ \A o \in Orders : orders[o] = NoRow
    /\ bound = {}

(* Messages alone, manual replies with images alone, and a message with a  *)
(* reply that is only a text.                                              *)
Conversing ==
    LET pictured == {q \in Replies : MediaOf[q] # <<>>}
    IN  \/ TalkInit(1..LastMessage, {})
        \/ TalkInit({}, pictured)
        \/ \E q \in Replies \ pictured : TalkInit({1}, {q})

WorkerInit ==
    /\ Init /\ SessionInit
    /\ \/ workload = "orders" /\ TalkInit({}, {})
       \/ workload = "conversation" /\ OrdersAtRest /\ Conversing
       \/ workload = "session" /\ OrdersAtRest /\ TalkInit({}, {})

WorkerNext ==
    /\ \/ workload = "orders" /\ Next /\ UNCHANGED <<talkVars, sessionVars>>
       \/ workload = "conversation" /\ TalkNext /\ UNCHANGED <<vars, sessionVars>>
       \/ workload = "session" /\ SessionNext /\ UNCHANGED <<vars, talkVars>>
    /\ UNCHANGED workload

WorkerSpec == WorkerInit /\ [][WorkerNext]_workerProcessVars
===============================================================================
