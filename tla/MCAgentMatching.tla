--------------------------- MODULE MCAgentMatching ---------------------------
(* Instances of AgentMatching for TLC: a seller's own listing, a mirrored  *)
(* one that belongs to nobody, and a buyer's request that fits them both.  *)
EXTENDS AgentMatching

CONSTANTS seller, buyer, own, mirrored, request, low, high

TwoUsers == {seller, buyer}
TwoListings == {own, mirrored}
OwnerOf == [p \in Postings |->
              IF p = own THEN seller ELSE IF p = request THEN buyer ELSE Nobody]
WithinBid == {<<low, low>>, <<low, high>>, <<high, high>>}
OneTask == [u \in TwoUsers |-> IF u = buyer THEN 1 ELSE 0]

Every == [p \in Postings |-> low]
Listed == [Every EXCEPT ![request] = None]
Under(es, cs, ss, ch, fs, rs) ==
    [edits |-> es, calls |-> cs, sweeps |-> ss, changes |-> ch,
     faults |-> fs, results |-> rs, failed |-> 0]
(* Replies to the cards of three stored postings, three in a row or two    *)
(* while a switch moves or a step fails; new and changed postings, with    *)
(* overlapping sweeps, restaggered cards or a failure.                     *)
Replies == {
    <<Under(0, 3, 1, 0, 0, 1), Every>>, <<Under(0, 2, 1, 1, 0, 1), Every>>,
    <<Under(0, 2, 1, 0, 1, 1), Every>>, <<Under(1, 1, 2, 0, 0, 0), Listed>>,
    <<Under(2, 2, 0, 0, 0, 0), Listed>>, <<Under(1, 1, 1, 0, 1, 0), Listed>>}
BoundsOf == {s[1] : s \in Replies}

(* Two sweeps of three stored postings overlap, and nothing fails.         *)
Overlap == {<<Under(0, 0, 2, 0, 0, 0), Every>>}
BoundsOfOverlap == {s[1] : s \in Overlap}

(* The reconciliation never stops.                                         *)
Cards == {
    <<Under(0, 0, Endless, 1, 1, 0), Every>>, <<Under(0, 0, Endless, 2, 0, 0), Every>>,
    <<Under(1, 1, Endless, 1, 0, 0), Listed>>, <<Under(1, 1, Endless, 0, 1, 0), Listed>>,
    <<Under(2, 2, Endless, 0, 0, 0), Listed>>}
BoundsOfCards == {s[1] : s \in Cards}
=============================================================================
