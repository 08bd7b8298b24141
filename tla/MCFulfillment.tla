---------------------------- MODULE MCFulfillment ----------------------------
(***************************************************************************)
(* Model-checking instances of Fulfillment.                                *)
(***************************************************************************)
EXTENDS Fulfillment, TLC

CONSTANTS o1, o2, n1, chat, scanner, r1, r2, p1, p2

Redeem == [delivery |-> "redeem", payload |-> NoPayload]
Pan(p) == [delivery |-> "pan", payload |-> p]
Material(p) == [delivery |-> "material", payload |-> p]

\* Two orders of one conversation and the notice key of both.
TwoOrders == {o1, o2, n1}
TwoPlatform == {o1, o2}
TwoNotice == [o \in TwoPlatform |-> n1]
TwoQuantity == (o1 :> 1) @@ (o2 :> 2)
TwoConfig == [o \in TwoPlatform |-> Redeem]
RedeemOnly == {Redeem, NoConfig}

\* One order of two units, and the kinds of delivery it may be remapped to.
OneOrder == {o1, n1}
OnePlatform == {o1}
OneNotice == [o \in OnePlatform |-> n1]
OneQuantity == (o1 :> 2)
SingleUnit == (o1 :> 1)
OneConfig == [o \in OnePlatform |-> Redeem]
PanConfig == [o \in OnePlatform |-> Pan(p1)]
MaterialConfig == [o \in OnePlatform |-> Material(p1)]
AnyConfig == {Redeem, NoConfig, Pan(p1), Pan(p2), Pan(NoPayload), Material(p1), Material(p2)}

OneChat == {chat}
OneChatOf == [o \in Orders |-> chat]
ThreeCodes == {1, 2, 3}

OneCode == {1}
TwoCodes == {1, 2}
AllUnused == [c \in Codes |-> "unused"]
Edited == {[AllUnused EXCEPT ![1] = "absent"], [AllUnused EXCEPT ![1] = "used"], Invalid}
=============================================================================
