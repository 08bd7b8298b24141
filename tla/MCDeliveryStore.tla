--------------------------- MODULE MCDeliveryStore ---------------------------
(***************************************************************************)
(* Model-checking instance of DeliveryStore: two orders in one chat that   *)
(* compete for two codes, and arbitrary callers.                           *)
(***************************************************************************)
EXTENDS DeliveryStore, TLC

CONSTANTS o1, o2, chat, p1

MCOrders == {o1, o2}
MCChats == {chat}
MCChatOf == [o \in MCOrders |-> chat]
MCCodes == {1, 2}
MCPayloads == {p1}

\* The orders share their chat and start alike: exchanging them changes nothing.
OrderSymmetry == Permutations(MCOrders)
=============================================================================
