---------------------------- MODULE MCHalluReward ----------------------------
(* Instances of HalluReward for TLC.                                       *)
EXTENDS HalluReward
=============================================================================
