----------------------- MODULE MCCheckoutActivation -----------------------
(* Instances of CheckoutActivation for TLC.                                *)
EXTENDS CheckoutActivation, TLC

CONSTANTS p1, tier1, tier2

OneSession == {1}
TwoSessions == 1..2
ThreeSessions == 1..3
OnePhone == {p1}
Tiers == {tier1, tier2}

(* A first membership, then an upgrade of the same account.                *)
SamePhone == [s \in Sessions |-> p1]
Upgrading == [s \in Sessions |-> IF s % 2 = 1 THEN tier1 ELSE tier2]

(* Calls that fail before money has moved, and repeated webhooks;          *)
(* and all that can fail.                                                  *)
EarlyFaults == {"entitle", "resolve", "cards", "charge", "decline", "dup"}
EveryFault == FaultKinds

WorkerSymmetry == Permutations(Handlers) \cup Permutations(Sweepers)
===========================================================================
