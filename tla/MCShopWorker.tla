----------------------------- MODULE MCShopWorker -----------------------------
(***************************************************************************)
(* Model-checking instance of ShopWorker: the orders of MCFulfillment, two *)
(* buyer messages, two manual replies that share an image, and a text.     *)
(***************************************************************************)
EXTENDS ShopWorker, MCFulfillment

CONSTANTS q1, q2, q3, i1, i2

SharedMedia == (q1 :> <<i1, i2>>) @@ (q2 :> <<i1>>) @@ (q3 :> <<>>)

\* What a workload does not touch stays as it was.
View ==
    <<workload, CASE workload = "orders" -> vars
                  [] workload = "conversation" -> talkVars
                  [] workload = "session" -> sessionVars>>
===============================================================================
