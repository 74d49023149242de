----------------------------- MODULE MCIdentity -----------------------------
(* A small instance of Identity for TLC: a selfie, which is asked for, and a *)
(* trade licence, which is not.                                              *)
EXTENDS Identity, TLC

CONSTANTS f1, f2, f3, s1, s2, h1, h2

\* The checks do not look at submissions nor the decisions at checks: from the first
\* submission on, states with checks in hand are looked at and not continued.
ChecksThenDecisions ==
  (\A id \in SubmissionIds : submission[id] = Nothing) \/ (chain = <<>> /\ analysing = Nothing)

MCSymmetry == Permutations(Files) \cup Permutations(SubmissionIds) \cup Permutations(Handlers)
=============================================================================
