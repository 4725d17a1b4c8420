---- MODULE MCDelivery ----
(***************************************************************************)
(* Instances of Delivery for TLC.                                          *)
(***************************************************************************)
EXTENDS Delivery, TLC

Order == <<"x">>
Asked == ("r1" :> <<"x", "y">>)
====
