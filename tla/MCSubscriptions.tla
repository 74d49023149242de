-------------------------- MODULE MCSubscriptions --------------------------
(* A small instance of Subscriptions for TLC: what SUBSCRIPTION_PLANS says of *)
(* the monthly plan and of the one for life, a month being a day long.        *)
EXTENDS Subscriptions

CONSTANT b1

MCPrice == [MONTHLY |-> 50100, LIFETIME |-> 1000100]
MCDays == [MONTHLY |-> 1, LIFETIME |-> NoEnd]
=============================================================================
