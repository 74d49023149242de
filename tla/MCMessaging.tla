---------------------------- MODULE MCMessaging ----------------------------
(* A small instance of Messaging for TLC: two people, and the phone of one.  *)
EXTENDS Messaging

CONSTANTS worker, recruiter, a1, d1, d2

MCPeople == {worker, recruiter}
MCOwner == [ph \in {a1} |-> worker]
MCAuthor == [d \in {d1, d2} |-> IF d = d1 THEN worker ELSE recruiter]
MCTypedOn == [d \in {d1, d2} |-> IF d = d1 THEN a1 ELSE Elsewhere]
=============================================================================
