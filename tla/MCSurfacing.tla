---------------------------- MODULE MCSurfacing ----------------------------
(* Instances of Surfacing for TLC: an asking price fits any bid that is    *)
(* not below it.                                                           *)
EXTENDS Surfacing, TLC

CONSTANTS low, high

WithinBid == {<<low, low>>, <<low, high>>, <<high, high>>} \cap (Asks \X Bids)

(* Messages and workers of a kind are alike.                               *)
Alike == Permutations(Messages) \cup Permutations(Syncs)
=============================================================================
