----------------------------- MODULE ListingBoard -----------------------------
(* What a sync of the inventory promises about inventory_listings, without *)
(* the pages, rows, batches and timestamps it is made of: a run only adds   *)
(* to the board what it has just read, and takes off it, one side at a      *)
(* time, exactly what it has not read (watchfacts/inventoryDb.ts            *)
(* upsertListings and markMissingInactive, under syncInventory.ts).         *)

VARIABLES
    offered,    \* keys of the listings on offer, <<type, id>>
    fresh,      \* those the current run has stored
    swept       \* the sides it has swept

vars == <<offered, fresh, swept>>

Init == offered = {} /\ fresh = {} /\ swept = {}

(* A run begins or ends, completed or not: the board is left as it is.      *)
Turn == fresh' = {} /\ swept' = {} /\ UNCHANGED offered

Store == /\ fresh \subseteq fresh'
         /\ offered' = offered \cup fresh'
         /\ UNCHANGED swept

(* Only a run that has read something takes anything off the board.         *)
Retire(side) ==
    /\ fresh # {}
    /\ offered' = {k \in offered : k[1] = side => k \in fresh}
    /\ swept' = swept \cup {side}
    /\ UNCHANGED fresh

Next == Turn \/ Store \/ \E side \in {"FS", "WTB"} : Retire(side)

Spec == Init /\ [][Next]_vars

------------------------------------------------------------------------------

(* What is on offer on a side that has been swept was read in this run.     *)
SweptIsFresh == \A k \in offered : k[1] \in swept => k \in fresh
=============================================================================
