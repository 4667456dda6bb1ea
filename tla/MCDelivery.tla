----------------------------- MODULE MCDelivery -----------------------------
(***************************************************************************)
(* An instance of Delivery for TLC: a chain of two reminders.              *)
(***************************************************************************)
EXTENDS Delivery

MCOffsets == <<2, 1>>
=============================================================================
