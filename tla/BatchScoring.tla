----------------------------- MODULE BatchScoring -----------------------------
(***************************************************************************)
(* What a reward call promises its caller (verl/trainer/ppo/reward.py):    *)
(* every row of the batch is resolved once, as scored or as given up, and  *)
(* the call returns only when all are, with each score at its own row.  A  *)
(* call may instead raise, at any time before it returns.                  *)
(***************************************************************************)
EXTENDS Naturals

CONSTANTS BatchRows, NoReward

VARIABLES
    phase,    \* "scoring", "returned" or "raised"
    outcome,  \* per row: "pending", "scored" or "givenup"
    output    \* per row: the row whose score it received, or NoReward

avars == <<phase, outcome, output>>

AInit ==
    /\ phase = "scoring"
    /\ outcome = [r \in BatchRows |-> "pending"]
    /\ output = [r \in BatchRows |-> NoReward]

Resolve(r) ==
    /\ phase = "scoring"
    /\ outcome[r] = "pending"
    /\ \E o \in {"scored", "givenup"} : outcome' = [outcome EXCEPT ![r] = o]
    /\ UNCHANGED <<phase, output>>

Return ==
    /\ phase = "scoring"
    /\ \A r \in BatchRows : outcome[r] # "pending"
    /\ phase' = "returned"
    /\ output' = [r \in BatchRows |->
                    IF outcome[r] = "scored" THEN r ELSE NoReward]
    /\ UNCHANGED outcome

\* The batch came with its scores: nothing is resolved here.
ReturnGiven ==
    /\ phase = "scoring"
    /\ \A r \in BatchRows : outcome[r] = "pending"
    /\ phase' = "returned"
    /\ UNCHANGED <<outcome, output>>

Raise ==
    /\ phase = "scoring"
    /\ phase' = "raised"
    /\ UNCHANGED <<outcome, output>>

ANext ==
    \/ \E r \in BatchRows : Resolve(r)
    \/ Return
    \/ ReturnGiven
    \/ Raise

ASpec == AInit /\ [][ANext]_avars
=============================================================================
