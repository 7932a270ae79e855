---------------------------- MODULE MCTRMTrainStep ----------------------------
(* Instances of TRMTrainStep for TLC.                                      *)
EXTENDS TRMTrainStep

\* A training batch: every row carries 'positions'.
MCPositionRows == Rows
=============================================================================
