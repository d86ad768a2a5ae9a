----------------------------- MODULE MCDelivery -----------------------------
(* Two branches and two completed checkpoints, of one branch or of both, with*)
(* an intact and a damaged image.                                           *)
EXTENDS Delivery
=============================================================================
