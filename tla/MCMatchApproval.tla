-------------------------- MODULE MCMatchApproval --------------------------
(* Instances of MatchApproval for TLC: a seller with two watches, and one  *)
(* buyer whose single request matches both.                                *)
EXTENDS MatchApproval

CONSTANTS seller, buyer, watch1, watch2, wanted, m1, m2

TwoUsers == {seller, buyer}
ThreePostings == {watch1, watch2, wanted}
TwoMatches == {m1, m2}
OneMatch == {m1}
WatchOf == [m \in Matches |-> IF m = m1 THEN watch1 ELSE watch2]
WantedOf == [m \in Matches |-> wanted]
Owners == [p \in ThreePostings |-> IF p = wanted THEN buyer ELSE seller]
=============================================================================
