---------------------------- MODULE MCInboundQueue ----------------------------
(***************************************************************************)
(* Model-checking instances of InboundQueue.                               *)
(***************************************************************************)
EXTENDS InboundQueue

CONSTANTS a1, a2, b1, A, B

MCEvents == {a1, a2, b1}
MCChats == {A, B}
MCChatOf == [e \in MCEvents |-> IF e = b1 THEN B ELSE A]
MCPackets == {<<a1, a2>>, <<b1>>, <<a2, b1>>}
MCFewPackets == {<<a1, a2>>, <<b1>>}
=============================================================================
