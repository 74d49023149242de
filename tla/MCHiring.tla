------------------------------ MODULE MCHiring ------------------------------
(* Small instances of Hiring for TLC. *)
EXTENDS Hiring, TLC

CONSTANTS j1, w1, w2, w3, s1, s2, s3, h1, h2

OneSlot == {[starts |-> 1, ends |-> 2]}

\* Either two requests race over one shift, or one at a time is served over two.
OneRaceOrOneAtATime ==
  \/ Cardinality({h \in Handlers : task[h] # Idle}) <= 1
  \/ Cardinality({s \in ShiftIds : shift[s] # None}) <= 1

WorkersAlike == Permutations({w1, w2, w3})
PairsAlike ==
  Permutations({w1, w2}) \cup Permutations({h1, h2}) \cup Permutations({s1, s2})
=============================================================================
