----------------------------- MODULE MCInventory -----------------------------
(* Instances of Inventory for TLC: an auction on each side; a title may be  *)
(* plain, name the other side, or be a lot of two watches.                  *)
EXTENDS Inventory

CONSTANTS s1, s2, w1, w2

SideOfSales == [s \in Sales |-> IF s = s1 THEN "FS" ELSE "WTB"]
KeywordOf == [t \in Titles |-> IF t = "wanted" THEN "WTB" ELSE None]
WatchesOf == [t \in Titles |-> IF t = "lot" THEN {w1, w2} ELSE {}]
=============================================================================
