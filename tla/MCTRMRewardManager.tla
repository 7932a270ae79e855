-------------------------- MODULE MCTRMRewardManager --------------------------
(* Instances of TRMRewardManager for TLC.                                  *)
EXTENDS TRMRewardManager

\* Not every row carries 'positions': a row of a test data source does not.
MCPositionRows == Rows \ {2}
=============================================================================
