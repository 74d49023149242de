------------------------------- MODULE MCLive -------------------------------
(* What must happen in the end: money the gateway confirmed is noticed if      *)
(* somebody keeps looking, and a ban notice is decided. `part` says which of   *)
(* the two a behaviour is of; the other stands still, and only its own         *)
(* scheduling is owed to it.                                                   *)
EXTENDS TopUp, Bans

CONSTANTS t1, a1, a2, r1, w1, d1, d2

VARIABLE part

MCUsers == {1}
MCAmounts == {1}

LiveInit ==
  /\ part \in {"notices", "bans"}
  /\ Init /\ BansInit
  /\ part = "bans" => \A t \in TopUpIds : topUp[t].manual

LiveNext ==
  /\ UNCHANGED part
  /\ \/ part = "notices" /\ Next /\ UNCHANGED banVars
     \/ part = "bans" /\ BansNext /\ UNCHANGED vars

LiveSpec ==
  /\ LiveInit /\ [][LiveNext]_<<part, vars, banVars>>
  /\ \/ part = "notices" /\ Fairness
     \/ part = "bans" /\ BansFairness

\* Every variable of both has its shape.
LiveTypeOK == TypeOK /\ BansTypeOK
=============================================================================
