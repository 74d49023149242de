------------------------------ MODULE MCTopUp -------------------------------
(* Instances of TopUp for TLC.                                             *)
EXTENDS TopUp, TLC
MCUsers == {1}
MCTwoUsers == {1, 2}
MCAmounts == {1}
MCSymmetry == Permutations(Handlers) \cup Permutations(Attempts)
=============================================================================
