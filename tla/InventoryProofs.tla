---------------------------- MODULE InventoryProofs ----------------------------
(* What the sync of the inventory promises, for any trading floor, splits,  *)
(* page and batch sizes and numbers of runs and failures: it keeps the      *)
(* board as ListingBoard says, a run that swept both sides leaves exactly   *)
(* what it stored, and only failures leave postings untested.               *)
EXTENDS Inventory, FiniteSetTheorems, SequenceTheorems, TLAPS

PCs == {"idle", "attempt", "open", "fetch", "enrich", "upsert", "sweep", "save",
        "mirror", "match", "record", "failed", "error", "finally"}
RunFields == {"pc", "db", "at", "side", "page", "raw", "rows", "saves", "batch",
              "todo", "stamped", "swept"}

(* The latest timestamp given out.                                          *)
Latest == MaxRuns - bound["runs"]

BoundOK == /\ bound \in [{"changes", "runs", "faults"} -> Nat]
           /\ bound["faults"] <= MaxFaults
RunOK == /\ run.pc \in PCs
         /\ run.pc # "idle" => RunFields \subseteq DOMAIN run /\ run.side \in Sides
ListingOK == \A k \in DOMAIN listing :
    /\ listing[k] = [on |-> listing[k].on, seen |-> listing[k].seen, text |-> listing[k].text]
    /\ listing[k].on \in BOOLEAN
    /\ listing[k].seen \in Int /\ listing[k].seen <= Latest
(* The rows that bear the run's timestamp are those it stored, and they are *)
(* on offer; a side it has swept offers nothing else.                       *)
StampOK == run.pc # "idle" =>
    /\ run.at = Latest
    /\ run.stamped = {k \in DOMAIN listing : listing[k].seen = run.at}
    /\ \A k \in run.stamped : listing[k].on
    /\ \A k \in DOMAIN listing : listing[k].on /\ k[1] \in run.swept => k \in run.stamped
RowsOK == /\ run.pc = "upsert" => run.rows # {}
          /\ run.pc = "sweep" => run.stamped # {}

BoardInv == BoundOK /\ RunOK /\ ListingOK /\ StampOK /\ RowsOK

(* While nothing fails, what is active and untested is on the list of the   *)
(* batch being matched, and only the run that has the flag holds such a     *)
(* list.                                                                    *)
PostingOK == \A k \in DOMAIN posting : {"status", "text"} \subseteq DOMAIN posting[k]
FlagOK == run.pc # "idle" => syncRunning
TestInv == PostingOK /\ FlagOK /\ ChangedAreTested

(* Splitting rows into the watches they hold leaves at least one row.       *)
LEMMA SplitKeepsSome ==
    ASSUME NEW rows, NEW split, rows # {}
    PROVE  Split(rows, split) # {}
<1>1. PICK r \in rows : TRUE
    OBVIOUS
<1>2. CASE r \in split /\ Cardinality(Parts(r)) > 1
    <2>1. Parts(r) # {}
        BY <1>2, FS_EmptySet
    <2>2. r \in {x \in split : Cardinality(Parts(x)) > 1}
        BY <1>2
    <2> QED
        BY <2>1, <2>2 DEF Split
<1>3. CASE ~(r \in split /\ Cardinality(Parts(r)) > 1)
    <2>1. r \in rows \ {x \in split : Cardinality(Parts(x)) > 1}
        BY <1>1, <1>3
    <2> QED
        BY <2>1 DEF Split
<1> QED
    BY <1>2, <1>3

(* Before the first sync there is nothing on the board.                     *)
LEMMA InitBoardInv == Init => BoardInv
  BY InventoryAssumption, SMT
  DEF Init, BoardInv, BoundOK, RunOK, ListingOK, StampOK, RowsOK, Idle, PCs, Latest

(* A step that leaves the listings alone and only moves a run on keeps the  *)
(* invariant.                                                               *)
LEMMA MovesOn ==
    ASSUME BoardInv, UNCHANGED listing, BoundOK', bound'["runs"] = bound["runs"],
           RunOK', RowsOK',
           run'.pc # "idle" => /\ run.pc # "idle"
                               /\ run'.at = run.at /\ run'.stamped = run.stamped
                               /\ run'.swept = run.swept
    PROVE  BoardInv'
<1>1. ListingOK'
    BY DEF BoardInv, ListingOK, Latest
<1>2. StampOK'
    BY DEF BoardInv, StampOK, Latest
<1> QED
    BY <1>1, <1>2 DEF BoardInv

(* What spending a bound does.                                              *)
LEMMA Spending ==
    ASSUME BoundOK, NEW what \in {"changes", "runs", "faults"}, Spend(what)
    PROVE  /\ BoundOK'
           /\ bound'[what] = bound[what] - 1
           /\ \A other \in {"changes", "runs", "faults"} \ {what} : bound'[other] = bound[other]
  BY InventoryAssumption DEF BoundOK, Spend

------------------------------------------------------------------------------
(* The steps of the floor and of the other writers.                         *)

(* Sales that are listed, delisted or retitled touch no table.              *)
LEMMA FloorKeepsBoardInv ==
    ASSUME BoardInv, NEW s \in Sales, List(s) \/ Delist(s) \/ Retitle(s)
    PROVE  BoardInv'
<1>1. Spend("changes") /\ UNCHANGED <<tables, run>>
    BY DEF List, Delist, Retitle, tables
<1>2. BoundOK' /\ bound'["runs"] = bound["runs"]
    BY <1>1, Spending DEF BoardInv
<1>3. RunOK' /\ RowsOK'
    BY <1>1 DEF BoardInv, RunOK, RowsOK
<1> QED
    BY <1>1, <1>2, <1>3, MovesOn DEF BoardInv, RunOK, tables

(* expireStalePostings and the reconciliation leave the listings alone.     *)
LEMMA OthersKeepBoardInv ==
    ASSUME BoardInv, (\E k \in DOMAIN posting : ExpireStalePostings(k)) \/ RunReconciliation
    PROVE  BoardInv'
<1>1. UNCHANGED <<listing, run>>
    BY DEF ExpireStalePostings, RunReconciliation
<1>2. BoundOK' /\ bound'["runs"] = bound["runs"]
    <2>1. CASE UNCHANGED bound
        BY <2>1 DEF BoardInv, BoundOK
    <2>2. CASE Spend("changes")
        BY <2>2, Spending DEF BoardInv
    <2> QED
        BY <2>1, <2>2 DEF ExpireStalePostings, RunReconciliation
<1>3. RunOK' /\ RowsOK'
    BY <1>1 DEF BoardInv, RunOK, RowsOK
<1> QED
    BY <1>1, <1>2, <1>3, MovesOn

------------------------------------------------------------------------------
(* The steps of a run.                                                      *)

(* A run begins with a timestamp later than every row's.                    *)
LEMMA BeginsKeepsBoardInv ==
    ASSUME BoardInv, RunInventorySync
    PROVE  BoardInv'
<1>1. /\ Spend("runs") /\ UNCHANGED listing
      /\ run'.pc = "attempt" /\ run'.side = "FS" /\ RunFields \subseteq DOMAIN run'
      /\ run'.at = Latest + 1 /\ run'.stamped = {} /\ run'.swept = {}
    BY DEF RunInventorySync, tables, Latest, RunFields
<1>2. BoundOK' /\ Latest' = Latest + 1 /\ Latest \in Int
    BY <1>1, Spending, InventoryAssumption DEF BoardInv, BoundOK, Latest
<1>3. RunOK' /\ RowsOK'
    BY <1>1 DEF RunOK, RowsOK, PCs, Sides
<1>4. ListingOK'
    BY <1>1, <1>2 DEF BoardInv, ListingOK
<1>5. StampOK'
    BY <1>1, <1>2 DEF BoardInv, ListingOK, StampOK
<1> QED
    BY <1>2, <1>3, <1>4, <1>5 DEF BoardInv

(* The steps that only read, or write other tables.                         *)
Elsewhere ==
    \/ Attempt \/ OpenSource \/ FetchOpenAuctions \/ FetchPage \/ EnrichAndSplitListings
    \/ SaveAiEnrichment \/ MirrorApiPostingsBulk \/ RunImmediateMatch
    \/ MarkApiPostingsInactive \/ RecordTypeSyncSuccess \/ RecordTypeSyncError

(* They keep what the run has stored and swept, and find rows to store.     *)
LEMMA ElsewhereMoves ==
    ASSUME BoardInv, Elsewhere
    PROVE  /\ UNCHANGED <<listing, bound>> /\ run.pc # "idle" /\ run'.pc # "idle"
           /\ RunOK' /\ RowsOK'
           /\ run'.at = run.at /\ run'.stamped = run.stamped /\ run'.swept = run.swept
<1> USE DEF BoardInv, RunOK, RowsOK, PCs, RunFields
<1>1. CASE Attempt
    BY <1>1 DEF Attempt, At, tables
<1>2. CASE OpenSource
    BY <1>2 DEF OpenSource, At, tables
<1>3. CASE FetchOpenAuctions
    BY <1>3 DEF FetchOpenAuctions, tables
<1>4. CASE FetchPage
    BY <1>4 DEF FetchPage, tables
<1>5. CASE EnrichAndSplitListings
    <2>1. PICK sent \in SUBSET Unsplit :
              run' = [run EXCEPT !.rows = Split(Mapped, sent), !.saves = sent,
                                 !.pc = IF Mapped = {} THEN "mirror" ELSE "upsert",
                                 !.batch = DOMAIN run.raw]
        BY <1>5 DEF EnrichAndSplitListings
    <2>2. Mapped # {} => Split(Mapped, sent) # {}
        BY SplitKeepsSome
    <2> QED
        BY <1>5, <2>1, <2>2 DEF EnrichAndSplitListings, tables
<1>6. CASE SaveAiEnrichment
    BY <1>6 DEF SaveAiEnrichment, At
<1>7. CASE MirrorApiPostingsBulk
    BY <1>7 DEF MirrorApiPostingsBulk
<1>8. CASE RunImmediateMatch
    BY <1>8 DEF RunImmediateMatch, At
<1>9. CASE MarkApiPostingsInactive
    BY <1>9 DEF MarkApiPostingsInactive, At
<1>10. CASE RecordTypeSyncSuccess
    BY <1>10 DEF RecordTypeSyncSuccess, NextSide, Sides
<1>11. CASE RecordTypeSyncError
    BY <1>11 DEF RecordTypeSyncError, NextSide, Sides
<1> QED
    BY <1>1, <1>2, <1>3, <1>4, <1>5, <1>6, <1>7, <1>8, <1>9, <1>10, <1>11 DEF Elsewhere

(* So the board stays as it was.                                            *)
LEMMA ElsewhereKeepsBoardInv ==
    ASSUME BoardInv, Elsewhere
    PROVE  BoardInv'
<1>1. BoundOK' /\ bound'["runs"] = bound["runs"]
    BY ElsewhereMoves DEF BoardInv, BoundOK
<1> QED
    BY <1>1, ElsewhereMoves, MovesOn

(* A run that ends, or dies.                                                *)
LEMMA EndsKeepsBoardInv ==
    ASSUME BoardInv, UNCHANGED listing, run' = Idle, BoundOK', bound'["runs"] = bound["runs"]
    PROVE  BoardInv'
<1>1. RunOK' /\ RowsOK'
    BY DEF RunOK, RowsOK, Idle, PCs
<1> QED
    BY <1>1, MovesOn DEF Idle

(* A failure only moves the run on, or ends it, and spends a fault.         *)
LEMMA FailsMoves ==
    ASSUME BoardInv, Fails
    PROVE  /\ UNCHANGED listing /\ run.pc # "idle"
           /\ BoundOK' /\ bound'["runs"] = bound["runs"] /\ bound'["faults"] < MaxFaults
           /\ \/ run' = Idle
              \/ /\ run'.pc # "idle" /\ RunOK' /\ RowsOK'
                 /\ run'.at = run.at /\ run'.stamped = run.stamped /\ run'.swept = run.swept
<1>1. UNCHANGED listing /\ Spend("faults") /\ run.pc # "idle"
    BY DEF Fails
<1>2. BoundOK' /\ bound'["runs"] = bound["runs"] /\ bound'["faults"] < MaxFaults
    BY <1>1, Spending, InventoryAssumption DEF BoardInv, BoundOK
<1>3. \/ run' = Idle \/ At("finally") \/ At("error") \/ At("failed") \/ At("record")
    BY DEF Fails, BoardInv, RunOK, PCs
<1>4. ASSUME NEW pc \in {"finally", "failed", "error", "record"}, At(pc)
      PROVE  /\ run'.pc # "idle" /\ RunOK' /\ RowsOK'
             /\ run'.at = run.at /\ run'.stamped = run.stamped /\ run'.swept = run.swept
    BY <1>1, <1>4 DEF BoardInv, RunOK, RowsOK, At, PCs, RunFields
<1> QED
    BY <1>1, <1>2, <1>3, <1>4

(* A failing statement or request, handled by the run or the end of it.     *)
LEMMA FailsKeepsBoardInv ==
    ASSUME BoardInv, Fails
    PROVE  BoardInv'
  BY FailsMoves, EndsKeepsBoardInv, MovesOn

(* The keys of the rows a run is about to store.                            *)
RowKeys == {Key(r) : r \in run.rows}

(* The listings after a batch of rows has been stored.                      *)
LEMMA Storing ==
    ASSUME BoardInv, UpsertListings
    PROVE  /\ DOMAIN listing' = DOMAIN listing \cup RowKeys
           /\ \A k \in RowKeys : /\ listing'[k].on /\ listing'[k].seen = run.at
                             /\ listing'[k] = [on |-> TRUE, seen |-> run.at,
                                               text |-> listing'[k].text]
           /\ \A k \in DOMAIN listing \ RowKeys : listing'[k] = listing[k]
           /\ run'.stamped = run.stamped \cup RowKeys
           /\ run'.pc = "sweep" /\ run'.at = run.at /\ run'.swept = run.swept
           /\ RunOK' /\ RowsOK' /\ RowKeys # {}
<1>1. run.pc = "upsert" /\ run.rows # {} /\ RunFields \subseteq DOMAIN run /\ run.side \in Sides
    BY DEF UpsertListings, BoardInv, RunOK, RowsOK
<1>2. run' = [run EXCEPT !.pc = "sweep", !.stamped = @ \cup RowKeys]
    BY DEF UpsertListings, RowKeys
<1>3. RowKeys # {}
    BY <1>1 DEF RowKeys
<1>4. /\ run'.stamped = run.stamped \cup RowKeys
      /\ run'.pc = "sweep" /\ run'.at = run.at /\ run'.swept = run.swept
      /\ run'.side = run.side /\ DOMAIN run' = DOMAIN run
    BY <1>1, <1>2 DEF RunFields
<1>5. RunOK' /\ RowsOK'
    BY <1>1, <1>3, <1>4 DEF RunOK, RowsOK, PCs
<1>6. listing' = Override(listing,
           [k \in RowKeys |-> [on |-> TRUE, seen |-> run.at,
                text |-> (CHOOSE r \in run.rows : Key(r) = k).text]])
    BY DEF UpsertListings, SyncedAt, RowKeys
<1>7. /\ DOMAIN listing' = DOMAIN listing \cup RowKeys
      /\ \A k \in DOMAIN listing \ RowKeys : listing'[k] = listing[k]
      /\ \A k \in RowKeys : listing'[k] = [on |-> TRUE, seen |-> run.at,
                text |-> (CHOOSE r \in run.rows : Key(r) = k).text]
    BY <1>6 DEF Override
<1>8. ASSUME NEW k \in RowKeys
      PROVE  /\ listing'[k].on /\ listing'[k].seen = run.at
             /\ listing'[k] = [on |-> TRUE, seen |-> run.at, text |-> listing'[k].text]
    <2> DEFINE words == (CHOOSE r \in run.rows : Key(r) = k).text
    <2>1. listing'[k] = [on |-> TRUE, seen |-> run.at, text |-> words]
        BY <1>7
    <2> HIDE DEF words
    <2> QED
        BY <2>1
<1> QED
    BY <1>3, <1>4, <1>5, <1>7, <1>8

(* Storing rows puts them on offer under the run's timestamp.               *)
LEMMA StoringKeepsBoardInv ==
    ASSUME BoardInv, UpsertListings
    PROVE  BoardInv'
<1>1. bound' = bound /\ run.pc = "upsert"
    BY DEF UpsertListings
<1>2. /\ DOMAIN listing' = DOMAIN listing \cup RowKeys
      /\ \A k \in RowKeys : /\ listing'[k].on /\ listing'[k].seen = run.at
                        /\ listing'[k] = [on |-> TRUE, seen |-> run.at,
                                          text |-> listing'[k].text]
      /\ \A k \in DOMAIN listing \ RowKeys : listing'[k] = listing[k]
      /\ run'.stamped = run.stamped \cup RowKeys
      /\ run'.pc = "sweep" /\ run'.at = run.at /\ run'.swept = run.swept
      /\ RunOK' /\ RowsOK' /\ RowKeys # {}
    BY Storing
<1>3. BoundOK' /\ Latest' = Latest /\ Latest \in Int
    BY <1>1, InventoryAssumption DEF BoardInv, BoundOK, Latest
<1>4. run.at = Latest
    BY <1>1 DEF BoardInv, StampOK
<1>5. ListingOK'
    <2>1. SUFFICES ASSUME NEW k \in DOMAIN listing'
                   PROVE  /\ listing'[k] = [on |-> listing'[k].on, seen |-> listing'[k].seen,
                                            text |-> listing'[k].text]
                          /\ listing'[k].on \in BOOLEAN
                          /\ listing'[k].seen \in Int /\ listing'[k].seen <= Latest
        BY <1>3 DEF ListingOK
    <2>2. CASE k \in RowKeys
        <3>1. listing'[k] = [on |-> TRUE, seen |-> run.at, text |-> listing'[k].text]
            BY <2>2, <1>2
        <3>2. PICK words : words = listing'[k].text
            OBVIOUS
        <3>3. listing'[k] = [on |-> TRUE, seen |-> run.at, text |-> words]
            BY <3>1, <3>2
        <3>4. listing'[k].on = TRUE /\ listing'[k].seen = run.at /\ listing'[k].text = words
            BY <3>3
        <3> QED
            BY <3>3, <3>4, <1>3, <1>4
    <2>3. CASE k \in DOMAIN listing \ RowKeys
        BY <2>3, <1>2 DEF BoardInv, ListingOK
    <2> QED
        BY <2>2, <2>3, <1>2
<1>6. StampOK'
    BY <1>1, <1>2, <1>3, <1>4 DEF BoardInv, StampOK
<1> QED
    BY <1>2, <1>3, <1>5, <1>6 DEF BoardInv

(* The listings after a side has been swept.                                *)
LEMMA Sweeping ==
    ASSUME BoardInv, MarkMissingInactive
    PROVE  /\ DOMAIN listing' = DOMAIN listing
           /\ \A k \in DOMAIN listing :
                 /\ listing'[k].seen = listing[k].seen
                 /\ listing'[k].on <=> listing[k].on /\ (k[1] = run.side => k \in run.stamped)
                 /\ listing'[k].on \in BOOLEAN
                 /\ listing'[k] = [on |-> listing'[k].on, seen |-> listing'[k].seen,
                                   text |-> listing'[k].text]
           /\ run'.swept = run.swept \cup {run.side} /\ run.side \in Sides
           /\ run'.pc = "save" /\ run'.at = run.at /\ run'.stamped = run.stamped
           /\ RunOK' /\ RowsOK' /\ run.stamped # {}
<1>1. run.pc = "sweep" /\ run.stamped # {} /\ RunFields \subseteq DOMAIN run /\ run.side \in Sides
    BY DEF MarkMissingInactive, BoardInv, RunOK, RowsOK
<1>2. run' = [run EXCEPT !.pc = "save", !.swept = @ \cup {run.side}]
    BY DEF MarkMissingInactive
<1>3. /\ run'.swept = run.swept \cup {run.side}
      /\ run'.pc = "save" /\ run'.at = run.at /\ run'.stamped = run.stamped
      /\ run'.side = run.side /\ DOMAIN run' = DOMAIN run
    BY <1>1, <1>2 DEF RunFields
<1>4. RunOK' /\ RowsOK'
    BY <1>1, <1>3 DEF RunOK, RowsOK, PCs
<1>5. run.at = Latest /\ Latest \in Int
      /\ run.stamped = {k \in DOMAIN listing : listing[k].seen = run.at}
    BY <1>1, InventoryAssumption DEF BoardInv, BoundOK, StampOK, Latest
<1>6. listing' = [k \in DOMAIN listing |->
           [listing[k] EXCEPT !.on = @ /\ ~(k[1] = run.side /\ listing[k].seen < run.at)]]
    BY DEF MarkMissingInactive, SyncedAt
<1>7. ASSUME NEW k \in DOMAIN listing
      PROVE  /\ listing'[k].seen = listing[k].seen
             /\ listing'[k].on <=> listing[k].on /\ (k[1] = run.side => k \in run.stamped)
             /\ listing'[k].on \in BOOLEAN
             /\ listing'[k] = [on |-> listing'[k].on, seen |-> listing'[k].seen,
                               text |-> listing'[k].text]
    <2> DEFINE stays == listing[k].on /\ ~(k[1] = run.side /\ listing[k].seen < run.at)
    <2>1. /\ listing[k] = [on |-> listing[k].on, seen |-> listing[k].seen, text |-> listing[k].text]
          /\ listing[k].on \in BOOLEAN
          /\ listing[k].seen \in Int /\ listing[k].seen <= Latest
        BY DEF BoardInv, ListingOK
    <2>2. listing'[k] = [listing[k] EXCEPT !.on = stays]
        BY <1>6
    <2>3. stays \in BOOLEAN
        OBVIOUS
    <2>4. stays <=> listing[k].on /\ (k[1] = run.side => k \in run.stamped)
        BY <2>1, <1>5
    <2> HIDE DEF stays
    <2>5. listing'[k] = [on |-> stays, seen |-> listing[k].seen, text |-> listing[k].text]
        BY <2>1, <2>2
    <2> QED
        BY <2>3, <2>4, <2>5
<1>8. DOMAIN listing' = DOMAIN listing
    BY <1>6
<1> QED
    BY <1>1, <1>3, <1>4, <1>7, <1>8

(* Sweeping a side leaves on offer, of that side, only what was stored.     *)
LEMMA SweepingKeepsBoardInv ==
    ASSUME BoardInv, MarkMissingInactive
    PROVE  BoardInv'
<1>1. bound' = bound /\ run.pc = "sweep"
    BY DEF MarkMissingInactive
<1>2. BoundOK' /\ Latest' = Latest
    BY <1>1 DEF BoardInv, BoundOK, Latest
<1>3. ListingOK'
    BY <1>2, Sweeping DEF BoardInv, ListingOK
<1>4. StampOK'
    BY <1>1, <1>2, Sweeping DEF BoardInv, StampOK
<1> QED
    BY <1>2, <1>3, <1>4, Sweeping DEF BoardInv

------------------------------------------------------------------------------
(* The board.                                                               *)

(* Every step keeps the invariant: one lemma per kind of step.              *)
LEMMA NextKeepsBoardInv ==
    ASSUME BoardInv, [Next]_vars
    PROVE  BoardInv'
<1>1. CASE \E s \in Sales : List(s) \/ Delist(s) \/ Retitle(s)
    BY <1>1, FloorKeepsBoardInv
<1>2. CASE RunInventorySync
    BY <1>2, BeginsKeepsBoardInv
<1>3. CASE Elsewhere
    BY <1>3, ElsewhereKeepsBoardInv
<1>4. CASE UpsertListings
    BY <1>4, StoringKeepsBoardInv
<1>5. CASE MarkMissingInactive
    BY <1>5, SweepingKeepsBoardInv
<1>6. CASE Finally
    <2>1. UNCHANGED listing /\ run' = Idle /\ UNCHANGED bound
        BY <1>6 DEF Finally, tables
    <2> QED
        BY <2>1, EndsKeepsBoardInv DEF BoardInv, BoundOK
<1>7. CASE Fails
    BY <1>7, FailsKeepsBoardInv
<1>8. CASE Restart
    <2>1. UNCHANGED listing /\ run' = Idle /\ Spend("faults")
        BY <1>8 DEF Restart, tables
    <2> QED
        BY <2>1, EndsKeepsBoardInv, Spending DEF BoardInv
<1>9. CASE (\E k \in DOMAIN posting : ExpireStalePostings(k)) \/ RunReconciliation
    BY <1>9, OthersKeepBoardInv
<1>10. CASE UNCHANGED vars
    BY <1>10, MovesOn DEF vars, BoardInv, BoundOK, RunOK, RowsOK
<1> QED
    BY <1>1, <1>2, <1>3, <1>4, <1>5, <1>6, <1>7, <1>8, <1>9, <1>10
    DEF Next, Sync, Elsewhere

(* BoardInv, the strengthening the two results on the board rest on, holds  *)
(* of every state a sync can reach.                                         *)
THEOREM BoardInvariant == Spec => []BoardInv
  BY InitBoardInv, NextKeepsBoardInv, PTL DEF Spec

(* What is on offer on a side the run has swept is what the run stored,     *)
(* whatever earlier runs that failed or were cut short had left behind      *)
(* (markMissingInactive after upsertListings).                              *)
THEOREM SweptOffersFresh == Spec => []Board!SweptIsFresh
<1>1. BoardInv => Board!SweptIsFresh
    BY DEF BoardInv, StampOK, Board!SweptIsFresh
<1> QED
    BY <1>1, BoardInvariant, PTL

(* An empty database is an empty board.                                     *)
LEMMA InitImplementsBoard == Init => Board!Init
  BY DEF Init, Idle, Board!Init

(* Every step of a sync, of the floor or of the other writers is a step of  *)
(* the board or leaves it alone.                                            *)
LEMMA NextImplementsBoard ==
    ASSUME BoardInv, [Next]_vars
    PROVE  [Board!Next]_(Board!vars)
<1> DEFINE offered == {k \in DOMAIN listing : listing[k].on}
           fresh == IF run.pc = "idle" THEN {} ELSE run.stamped
           swept == IF run.pc = "idle" THEN {} ELSE run.swept
<1>1. SUFFICES \/ fresh' = {} /\ swept' = {} /\ UNCHANGED offered
               \/ fresh \subseteq fresh' /\ offered' = offered \cup fresh' /\ UNCHANGED swept
               \/ \E side \in Sides :
                      /\ fresh # {}
                      /\ offered' = {k \in offered : k[1] = side => k \in fresh}
                      /\ swept' = swept \cup {side} /\ UNCHANGED fresh
               \/ UNCHANGED <<offered, fresh, swept>>
    BY DEF Board!Next, Board!Turn, Board!Store, Board!Retire, Board!vars, Sides
<1>2. CASE UNCHANGED <<listing, run>>
    BY <1>2
<1>3. CASE UNCHANGED listing /\ run' = Idle
    BY <1>3 DEF Idle
<1>4. CASE RunInventorySync
    BY <1>4 DEF RunInventorySync, tables
<1>5. CASE Elsewhere
    BY <1>5, ElsewhereMoves
<1>6. CASE UpsertListings
    <2>1. fresh = run.stamped /\ fresh' = run.stamped \cup RowKeys /\ UNCHANGED swept
        BY <1>6, Storing DEF UpsertListings
    <2>2. run.stamped \subseteq offered
        BY <1>6 DEF UpsertListings, BoardInv, StampOK
    <2>3. offered' = offered \cup RowKeys
        BY <1>6, Storing
    <2> QED
        BY <2>1, <2>2, <2>3
<1>7. CASE MarkMissingInactive
    <2>1. fresh = run.stamped /\ UNCHANGED fresh /\ swept' = swept \cup {run.side}
        BY <1>7, Sweeping DEF MarkMissingInactive
    <2>2. offered' = {k \in offered : k[1] = run.side => k \in run.stamped}
        BY <1>7, Sweeping
    <2> QED
        BY <1>7, <2>1, <2>2, Sweeping
<1>8. CASE Fails
    BY <1>8, FailsMoves DEF Idle
<1>9. CASE \E s \in Sales : List(s) \/ Delist(s) \/ Retitle(s)
    BY <1>9, <1>2 DEF List, Delist, Retitle, tables
<1>10. CASE Finally \/ Restart
    BY <1>10, <1>3 DEF Finally, Restart, tables
<1>11. CASE (\E k \in DOMAIN posting : ExpireStalePostings(k)) \/ RunReconciliation
    BY <1>11, <1>2 DEF ExpireStalePostings, RunReconciliation
<1>12. CASE UNCHANGED vars
    BY <1>12, <1>2 DEF vars
<1> QED
    BY <1>4, <1>5, <1>6, <1>7, <1>8, <1>9, <1>10, <1>11, <1>12 DEF Next, Sync, Elsewhere

(* The sync of the inventory implements ListingBoard: neither side retires  *)
(* what the other has just stored, and a run that read nothing retires      *)
(* nothing (runInventorySync, upsertListings, markMissingInactive).         *)
THEOREM RefinesBoard == Spec => ImplementsBoard
  BY BoardInvariant, InitImplementsBoard, NextImplementsBoard, PTL
  DEF Spec, ImplementsBoard, Board!Spec

------------------------------------------------------------------------------
(* What is left to match.                                                   *)

(* With no posting there is nothing to test.                                *)
LEMMA InitTestInv == Init => TestInv
  BY DEF Init, TestInv, PostingOK, FlagOK, ChangedAreTested, Idle

(* A step that leaves the postings alone and takes no list of work away.    *)
LEMMA TestsKept ==
    ASSUME BoardInv, TestInv, BoundOK', UNCHANGED posting, tested \subseteq tested', FlagOK',
           bound'["faults"] <= bound["faults"],
           run.pc # "match" \/ UNCHANGED run
    PROVE  TestInv'
<1>1. PostingOK'
    BY DEF TestInv, PostingOK
<1>2. ChangedAreTested'
    BY InventoryAssumption DEF BoardInv, TestInv, ChangedAreTested, BoundOK
<1> QED
    BY <1>1, <1>2 DEF TestInv

(* A fault leaves nothing to show: ChangedAreTested is about runs without.  *)
LEMMA FaultsKeepTestInv ==
    ASSUME BoardInv, TestInv, Fails \/ Restart
    PROVE  TestInv'
<1>1. Spend("faults")
    BY DEF Fails, Restart
<1>2. bound'["faults"] < MaxFaults
    BY <1>1, Spending, InventoryAssumption DEF BoardInv, BoundOK
<1>3. ChangedAreTested'
    BY <1>2, InventoryAssumption DEF ChangedAreTested
<1>4. FlagOK'
    <2>1. CASE Fails
        BY <2>1 DEF Fails, TestInv, FlagOK
    <2>2. CASE Restart
        BY <2>2 DEF Restart, FlagOK, Idle
    <2> QED
        BY <2>1, <2>2
<1>5. PostingOK'
    <2>1. CASE UNCHANGED posting
        BY <2>1 DEF TestInv, PostingOK
    <2>2. ASSUME NEW b, posting' = Override(posting, Written(b))
          PROVE  PostingOK'
        BY <2>2 DEF Override, Written, TestInv, PostingOK
    <2> QED
        BY <2>1, <2>2 DEF Fails, Restart, tables
<1> QED
    BY <1>3, <1>4, <1>5 DEF TestInv

(* What a batch changed is to be matched next.                              *)
LEMMA MirrorKeepsTestInv ==
    ASSUME BoardInv, TestInv, MirrorApiPostingsBulk
    PROVE  TestInv'
<1> DEFINE written(b) == {Mirror(s) : s \in Changed(b)}
<1>1. PICK b \in SUBSET run.batch :
          /\ posting' = Override(posting, Written(Changed(b)))
          /\ tested' = tested \ written(b)
          /\ run' = [run EXCEPT !.pc = "match", !.batch = @ \ b, !.todo = written(b)]
    BY DEF MirrorApiPostingsBulk
<1>2. run.pc = "mirror" /\ RunFields \subseteq DOMAIN run /\ UNCHANGED <<bound, syncRunning>>
    BY DEF MirrorApiPostingsBulk, BoardInv, RunOK
<1>3. run'.pc = "match" /\ run'.todo = written(b)
    BY <1>1, <1>2 DEF RunFields
<1>4. /\ DOMAIN posting' = DOMAIN posting \cup written(b)
      /\ \A k \in DOMAIN posting \ written(b) : posting'[k] = posting[k]
      /\ \A k \in written(b) : {"status", "text"} \subseteq DOMAIN posting'[k]
    BY <1>1 DEF Override, Written
<1> HIDE DEF written
<1>5. PostingOK' /\ FlagOK'
    BY <1>2, <1>3, <1>4 DEF TestInv, PostingOK, FlagOK
<1>6. ChangedAreTested'
    BY <1>1, <1>2, <1>3, <1>4 DEF TestInv, ChangedAreTested
<1> QED
    BY <1>5, <1>6 DEF TestInv

(* What comes off the list has been tested, if it is active.                *)
LEMMA MatchKeepsTestInv ==
    ASSUME BoardInv, TestInv, RunImmediateMatch
    PROVE  TestInv'
<1>1. /\ run.pc = "match" /\ RunFields \subseteq DOMAIN run
      /\ UNCHANGED <<posting, bound, syncRunning>>
    BY DEF RunImmediateMatch, BoardInv, RunOK
<1>2. PostingOK' /\ FlagOK'
    BY <1>1 DEF TestInv, PostingOK, FlagOK
<1>3. ASSUME NEW k \in run.todo,
             tested' = IF posting[k].status = "active" THEN tested \cup {k} ELSE tested,
             run' = [run EXCEPT !.todo = @ \ {k}]
      PROVE  ChangedAreTested'
    <2>1. run'.todo = run.todo \ {k} /\ run'.pc = "match"
        BY <1>1, <1>3 DEF RunFields
    <2> QED
        BY <1>1, <1>3, <2>1 DEF TestInv, ChangedAreTested
<1>4. ASSUME run.todo = {}, UNCHANGED tested
      PROVE  ChangedAreTested'
    BY <1>1, <1>4 DEF TestInv, ChangedAreTested
<1> QED
    BY <1>2, <1>3, <1>4 DEF TestInv, RunImmediateMatch

(* Postings that leave the market need no test.                             *)
LEMMA RetiringKeepsTestInv ==
    ASSUME BoardInv, TestInv,
           MarkApiPostingsInactive \/ \E k \in DOMAIN posting : ExpireStalePostings(k)
    PROVE  TestInv'
<1>1. UNCHANGED <<tested, syncRunning>> /\ bound'["faults"] = bound["faults"]
    <2>1. CASE MarkApiPostingsInactive
        BY <2>1 DEF MarkApiPostingsInactive
    <2>2. CASE \E k \in DOMAIN posting : ExpireStalePostings(k)
        BY <2>2, Spending DEF ExpireStalePostings, BoardInv
    <2> QED
        BY <2>1, <2>2
<1>2. /\ DOMAIN posting' = DOMAIN posting
      /\ \A k \in DOMAIN posting :
            /\ {"status", "text"} \subseteq DOMAIN posting'[k]
            /\ posting'[k].status = "active" => posting[k].status = "active"
    BY DEF MarkApiPostingsInactive, ExpireStalePostings, TestInv, PostingOK
<1>3. (run.pc # "match" /\ run.pc # "idle") \/ UNCHANGED run
    BY DEF MarkApiPostingsInactive, ExpireStalePostings
<1>4. PostingOK' /\ FlagOK'
    BY <1>1, <1>2, <1>3 DEF TestInv, PostingOK, FlagOK
<1>5. ChangedAreTested'
    BY <1>1, <1>2, <1>3 DEF TestInv, ChangedAreTested
<1> QED
    BY <1>4, <1>5 DEF TestInv

(* Every step keeps the work that is left on record.                        *)
LEMMA NextKeepsTestInv ==
    ASSUME BoardInv, BoardInv', TestInv, [Next]_vars
    PROVE  TestInv'
<1> USE DEF BoardInv
<1>1. CASE \E s \in Sales : List(s) \/ Delist(s) \/ Retitle(s)
    <2>1. UNCHANGED <<tables, syncRunning, run>> /\ Spend("changes")
        BY <1>1 DEF List, Delist, Retitle
    <2> QED
        BY <2>1, Spending, TestsKept DEF tables, TestInv, FlagOK, BoundOK
<1>2. CASE RunInventorySync
    <2>1. UNCHANGED tables /\ Spend("runs") /\ ~syncRunning /\ syncRunning'
        BY <1>2 DEF RunInventorySync
    <2>2. run.pc = "idle"
        BY <2>1 DEF TestInv, FlagOK
    <2> QED
        BY <2>1, <2>2, Spending, TestsKept DEF tables, FlagOK, BoundOK
<1>3. CASE \/ Attempt \/ OpenSource \/ FetchOpenAuctions \/ FetchPage
           \/ EnrichAndSplitListings \/ UpsertListings \/ MarkMissingInactive
           \/ SaveAiEnrichment \/ RecordTypeSyncSuccess \/ RecordTypeSyncError
    <2>1. /\ UNCHANGED <<posting, tested, syncRunning, bound>>
          /\ run.pc \notin {"match", "idle"}
        BY <1>3 DEF Attempt, OpenSource, FetchOpenAuctions, FetchPage, EnrichAndSplitListings,
           UpsertListings, MarkMissingInactive, SaveAiEnrichment, RecordTypeSyncSuccess,
           RecordTypeSyncError, tables
    <2> QED
        BY <2>1, TestsKept DEF TestInv, FlagOK, BoundOK
<1>4. CASE Finally
    <2>1. UNCHANGED <<posting, tested, bound>> /\ run.pc = "finally" /\ run' = Idle
        BY <1>4 DEF Finally, tables
    <2> QED
        BY <2>1, TestsKept DEF FlagOK, Idle, BoundOK
<1>5. CASE RunReconciliation
    <2>1. UNCHANGED <<posting, syncRunning, run, bound>> /\ tested \subseteq tested'
        BY <1>5 DEF RunReconciliation
    <2> QED
        BY <2>1, TestsKept DEF TestInv, FlagOK, BoundOK
<1>6. CASE UNCHANGED vars
    <2>1. UNCHANGED <<posting, tested, syncRunning, run, bound>>
        BY <1>6 DEF vars
    <2> QED
        BY <2>1, TestsKept DEF TestInv, FlagOK, BoundOK
<1> QED
    BY <1>1, <1>2, <1>3, <1>4, <1>5, <1>6, FaultsKeepTestInv, MirrorKeepsTestInv,
       MatchKeepsTestInv, RetiringKeepsTestInv
    DEF Next, Sync

(* As long as nothing fails, an active mirrored posting is untested only    *)
(* while the run that changed it still has it to test (ingestApiFsSync,     *)
(* runImmediateMatch).                                                      *)
THEOREM ChangesAreTested == Spec => []ChangedAreTested
<1>1. TestInv => ChangedAreTested
    BY DEF TestInv
<1> QED
    BY <1>1, BoardInvariant, InitTestInv, NextKeepsTestInv, PTL DEF Spec

------------------------------------------------------------------------------
(* Types.                                                                   *)

Row3(ids) == [type : Sides, id : ids, text : Titles]
Whole == Sales \X {None}

(* What is on the floor says something.                                     *)
FloorOK ==
    /\ floor \in [Sides -> Seq(Sales)] /\ title \in [Sales -> Titles \cup {None}]
    /\ \A side \in Sides : \A i \in DOMAIN floor[side] : title[floor[side][i]] \in Titles

(* What a run has in hand.                                                  *)
HandsOK == run.pc # "idle" =>
    /\ \A s \in DOMAIN run.raw : s \in Sales /\ run.raw[s] \in Titles
    /\ run.rows \subseteq Row3(Ids) /\ run.saves \subseteq Row3(Whole)
    /\ run.batch \subseteq Sales /\ run.todo \subseteq DOMAIN posting
    /\ run.page \in Nat \ {0}

TablesOK ==
    /\ DOMAIN listing \subseteq Sides \X Ids
    /\ \A k \in DOMAIN listing : listing[k].text \in Titles
    /\ DOMAIN enriched \subseteq Sides \X Whole
    /\ DOMAIN posting \subseteq Sides \X Sales /\ tested \subseteq DOMAIN posting

TypeInv == FloorOK /\ HandsOK /\ TablesOK

(* A part of a sequence has some of its elements.                           *)
LEMMA PartOf ==
    ASSUME NEW q \in Seq(Sales), NEW m \in Nat \ {0}, NEW n \in Nat, n <= Len(q)
    PROVE  /\ SubSeq(q, m, n) \in Seq(Sales)
           /\ \A i \in 1..Len(SubSeq(q, m, n)) : \E j \in 1..Len(q) : SubSeq(q, m, n)[i] = q[j]
<1>1. \A i \in 1..Len(q) : q[i] \in Sales
    BY ElementOfSeq
<1>2. \A i \in m..n : q[i] \in Sales
    BY <1>1, LenProperties
<1>3. /\ SubSeq(q, m, n) \in Seq(Sales)
      /\ Len(SubSeq(q, m, n)) = IF m <= n THEN n - m + 1 ELSE 0
      /\ \A i \in 1..n - m + 1 : SubSeq(q, m, n)[i] = q[m + i - 1]
    BY <1>2, SubSeqProperties
<1> QED
    BY <1>3, LenProperties

(* Two sequences one after the other have the elements of both.             *)
LEMMA BothOf ==
    ASSUME NEW p \in Seq(Sales), NEW q \in Seq(Sales)
    PROVE  /\ p \o q \in Seq(Sales)
           /\ \A i \in 1..Len(p \o q) : \/ \E j \in 1..Len(p) : (p \o q)[i] = p[j]
                                        \/ \E j \in 1..Len(q) : (p \o q)[i] = q[j]
  BY ConcatProperties, LenProperties

(* An empty database and an empty floor have their types.                   *)
LEMMA InitTypeInv == Init => TypeInv
  BY InventoryAssumption DEF Init, TypeInv, FloorOK, HandsOK, TablesOK, Idle

(* A sale that comes is put first, one that goes leaves the others in their *)
(* order, and what a sale says is a title.                                  *)
LEMMA FloorKeepsTypeInv ==
    ASSUME TypeInv, NEW s \in Sales, List(s) \/ Delist(s) \/ Retitle(s)
    PROVE  TypeInv'
<1> DEFINE side == SideOf[s]
<1>1. UNCHANGED <<tables, run>> /\ side \in Sides
    BY InventoryAssumption DEF List, Delist, Retitle
<1>2. HandsOK' /\ TablesOK'
    BY <1>1 DEF TypeInv, HandsOK, TablesOK, tables
<1>3. PICK q \in Seq(Sales) : q = floor[side]
    BY <1>1 DEF TypeInv, FloorOK
<1>4. \A i \in 1..Len(q) : q[i] \in Sales
    BY <1>3, ElementOfSeq
<1>5. CASE List(s)
    <2>1. PICK t \in Titles : title' = [title EXCEPT ![s] = t]
        BY <1>5 DEF List
    <2>2. floor' = [floor EXCEPT ![side] = <<s>> \o q]
        BY <1>3, <1>5 DEF List
    <2>3. /\ <<s>> \o q \in Seq(Sales) /\ Len(<<s>> \o q) = 1 + Len(q)
          /\ \A i \in 1..Len(<<s>> \o q) : \/ (<<s>> \o q)[i] = s
                                         \/ \E j \in 1..Len(q) : (<<s>> \o q)[i] = q[j]
        OBVIOUS
    <2> QED
        BY <1>1, <1>2, <1>3, <2>1, <2>2, <2>3 DEF TypeInv, FloorOK
<1>6. CASE Delist(s)
    <2>1. PICK i \in DOMAIN floor[side] :
              floor' = [floor EXCEPT ![side] = SubSeq(floor[side], 1, i - 1)
                                                \o SubSeq(floor[side], i + 1, Len(floor[side]))]
        BY <1>6 DEF Delist
    <2>2. i \in 1..Len(q)
        BY <1>3, <2>1
    <2>3. PICK front \in Seq(Sales) : /\ front = SubSeq(q, 1, i - 1)
                                      /\ \A n \in 1..Len(front) :
                                             \E j \in 1..Len(q) : front[n] = q[j]
        <3>1. PICK last \in Nat : last = i - 1 /\ last <= Len(q)
            BY <2>2, LenProperties
        <3>2. /\ SubSeq(q, 1, last) \in Seq(Sales)
              /\ \A n \in 1..Len(SubSeq(q, 1, last)) :
                     \E j \in 1..Len(q) : SubSeq(q, 1, last)[n] = q[j]
            BY <3>1, PartOf
        <3> QED
            BY <3>1, <3>2
    <2>4. PICK back \in Seq(Sales) : /\ back = SubSeq(q, i + 1, Len(q))
                                     /\ \A n \in 1..Len(back) :
                                            \E j \in 1..Len(q) : back[n] = q[j]
        <3>1. PICK first \in Nat \ {0} : first = i + 1
            BY <2>2, LenProperties
        <3>2. PICK last \in Nat : last = Len(q)
            BY LenProperties
        <3>3. /\ SubSeq(q, first, last) \in Seq(Sales)
              /\ \A n \in 1..Len(SubSeq(q, first, last)) :
                     \E j \in 1..Len(q) : SubSeq(q, first, last)[n] = q[j]
            BY <3>2, PartOf
        <3> QED
            BY <3>1, <3>2, <3>3
    <2> DEFINE rest == front \o back
    <2>5. /\ rest \in Seq(Sales)
          /\ \A n \in 1..Len(rest) : \/ \E j \in 1..Len(front) : rest[n] = front[j]
                                     \/ \E j \in 1..Len(back) : rest[n] = back[j]
        BY BothOf
    <2> HIDE DEF rest
    <2>6. ASSUME NEW n \in 1..Len(rest)
          PROVE  \E j \in 1..Len(q) : rest[n] = q[j]
        <3>1. CASE \E j \in 1..Len(front) : rest[n] = front[j]
            BY <2>3, <3>1
        <3>2. CASE \E j \in 1..Len(back) : rest[n] = back[j]
            BY <2>4, <3>2
        <3> QED
            BY <2>5, <3>1, <3>2
    <2>7. \A n \in 1..Len(rest) : title[rest[n]] \in Titles
        BY <1>1, <1>3, <2>6 DEF TypeInv, FloorOK
    <2>8. UNCHANGED title /\ floor' = [floor EXCEPT ![side] = rest]
        BY <1>3, <1>6, <2>1, <2>3, <2>4 DEF Delist, rest
    <2>9. DOMAIN rest = 1..Len(rest)
        BY <2>5, LenProperties
    <2> QED
        BY <1>1, <1>2, <2>5, <2>7, <2>8, <2>9 DEF TypeInv, FloorOK
<1>7. CASE Retitle(s)
    <2>1. PICK t \in Titles : title' = [title EXCEPT ![s] = t]
        BY <1>7 DEF Retitle
    <2> QED
        BY <1>2, <1>7, <2>1 DEF TypeInv, FloorOK, Retitle
<1> QED
    BY <1>5, <1>6, <1>7

(* What a side or a page of it says of its sales are titles.                *)
LEMMA FetchedTitles ==
    ASSUME NEW q \in Seq(Sales), \A i \in 1..Len(q) : title[q[i]] \in Titles
    PROVE  \A s \in DOMAIN Fetched(q) : s \in Sales /\ Fetched(q)[s] \in Titles
<1>1. DOMAIN q = 1..Len(q) /\ \A i \in 1..Len(q) : q[i] \in Sales
    BY LenProperties, ElementOfSeq
<1> QED
    BY <1>1 DEF Fetched

(* A run begins with empty hands, and goes on to read.                      *)
LEMMA ReadsKeepTypeInv ==
    ASSUME BoardInv, TypeInv,
           \/ RunInventorySync \/ Attempt \/ OpenSource \/ FetchOpenAuctions \/ FetchPage
    PROVE  TypeInv'
<1>1. UNCHANGED <<source, tables>>
    BY DEF RunInventorySync, Attempt, OpenSource, FetchOpenAuctions, FetchPage
<1>2. FloorOK' /\ TablesOK'
    BY <1>1 DEF TypeInv, FloorOK, TablesOK, source, tables
<1>3. CASE RunInventorySync
    <2>1. /\ run'.raw = <<>> /\ run'.rows = {} /\ run'.saves = {} /\ run'.batch = {}
          /\ run'.todo = {} /\ run'.page = 1
        BY <1>3 DEF RunInventorySync
    <2> QED
        BY <1>2, <2>1 DEF TypeInv, HandsOK
<1>4. CASE Attempt \/ OpenSource
    <2>1. /\ run.pc # "idle" /\ RunFields \subseteq DOMAIN run
          /\ \/ run' = [run EXCEPT !.pc = "open"]
             \/ run' = [run EXCEPT !.pc = "fetch"]
        BY <1>4 DEF Attempt, OpenSource, At, BoardInv, RunOK
    <2> QED
        BY <1>1, <1>2, <2>1 DEF TypeInv, HandsOK, RunFields, tables
<1>5. ASSUME run.pc = "fetch"
      PROVE  /\ RunFields \subseteq DOMAIN run
             /\ \E q \in Seq(Sales) : /\ q = floor[run.side]
                                      /\ \A i \in 1..Len(q) : title[q[i]] \in Titles
    <2>1. RunFields \subseteq DOMAIN run /\ run.side \in Sides
        BY <1>5 DEF BoardInv, RunOK
    <2>2. PICK q \in Seq(Sales) : q = floor[run.side]
        BY <2>1 DEF TypeInv, FloorOK
    <2>3. DOMAIN q = 1..Len(q)
        BY LenProperties
    <2> QED
        BY <2>1, <2>2, <2>3 DEF TypeInv, FloorOK
<1>6. CASE FetchOpenAuctions
    <2>1. run' = [run EXCEPT !.raw = Fetched(floor[run.side]), !.pc = "enrich"]
        BY <1>6 DEF FetchOpenAuctions
    <2>2. /\ RunFields \subseteq DOMAIN run
          /\ \A s \in DOMAIN Fetched(floor[run.side]) :
                 s \in Sales /\ Fetched(floor[run.side])[s] \in Titles
        BY <1>5, <1>6, FetchedTitles DEF FetchOpenAuctions
    <2>3. run.pc = "fetch"
        BY <1>6 DEF FetchOpenAuctions
    <2> QED
        BY <1>1, <1>2, <2>1, <2>2, <2>3 DEF TypeInv, HandsOK, RunFields, tables
<1>7. CASE FetchPage
    <2>1. PICK to \in PCs : run' = [run EXCEPT !.raw = Override(@, Fetched(Page(run.page))),
                                               !.page = @ + 1, !.pc = to]
        BY <1>7 DEF FetchPage, PCs
    <2>2. run.pc = "fetch"
        BY <1>7 DEF FetchPage
    <2>3. PICK q \in Seq(Sales) : /\ q = floor[run.side]
                                  /\ \A i \in 1..Len(q) : title[q[i]] \in Titles
        BY <1>5, <2>2
    <2>4. PICK first \in Nat \ {0} : first = (run.page - 1) * PageSize + 1
        <3>1. run.page - 1 \in Nat /\ PageSize \in Nat
            BY <2>2, InventoryAssumption DEF TypeInv, HandsOK
        <3>2. (run.page - 1) * PageSize \in Nat
            BY <3>1
        <3> QED
            BY <3>2
    <2>5. PICK last \in Nat : last = Smaller(run.page * PageSize, Len(q)) /\ last <= Len(q)
        <3>1. run.page * PageSize \in Nat /\ Len(q) \in Nat
            BY <2>2, LenProperties, InventoryAssumption DEF TypeInv, HandsOK
        <3> QED
            BY <3>1 DEF Smaller
    <2>6. PICK p \in Seq(Sales) : /\ p = Page(run.page)
                                  /\ \A i \in 1..Len(p) : title[p[i]] \in Titles
        <3>1. Page(run.page) = SubSeq(q, first, last)
            BY <2>3, <2>4, <2>5 DEF Page
        <3>2. /\ SubSeq(q, first, last) \in Seq(Sales)
              /\ \A n \in 1..Len(SubSeq(q, first, last)) :
                     \E j \in 1..Len(q) : SubSeq(q, first, last)[n] = q[j]
            BY <2>5, PartOf
        <3>3. PICK p \in Seq(Sales) : p = SubSeq(q, first, last)
            BY <3>2
        <3>4. \A i \in 1..Len(p) : title[p[i]] \in Titles
            BY <2>3, <3>2, <3>3
        <3> QED
            BY <3>1, <3>3, <3>4
    <2>7. \A s \in DOMAIN Fetched(p) : s \in Sales /\ Fetched(p)[s] \in Titles
        BY <2>6, FetchedTitles
    <2>8. \A s \in DOMAIN run'.raw : s \in Sales /\ run'.raw[s] \in Titles
        <3>1. RunFields \subseteq DOMAIN run
            BY <1>5, <2>2
        <3>2. run'.raw = Override(run.raw, Fetched(p))
            BY <2>1, <2>6, <3>1 DEF RunFields
        <3> QED
            BY <2>2, <2>7, <3>2 DEF TypeInv, HandsOK, Override
    <2>9. /\ run'.rows = run.rows /\ run'.saves = run.saves /\ run'.batch = run.batch
          /\ run'.todo = run.todo /\ run'.page = run.page + 1
        BY <1>5, <2>1, <2>2 DEF RunFields
    <2> QED
        BY <1>1, <1>2, <2>2, <2>8, <2>9 DEF TypeInv, HandsOK, tables
<1> QED
    BY <1>3, <1>4, <1>6, <1>7

(* Rows have the type and the id of a listing, also those of a lot.         *)
LEMMA SplitTyped ==
    ASSUME NEW rows, rows \subseteq Row3(Whole), NEW split \in SUBSET rows
    PROVE  Split(rows, split) \subseteq Row3(Ids)
<1>1. Row3(Whole) \subseteq Row3(Ids)
    <2>1. Whole \subseteq Ids
        BY DEF Whole, Ids
    <2> QED
        BY <2>1 DEF Row3
<1>2. ASSUME NEW r \in split
      PROVE  Parts(r) \subseteq Row3(Ids)
    <2>1. r.id[1] \in Sales /\ r.text \in Titles /\ r.type \in Sides
        BY DEF Row3, Whole
    <2>2. ASSUME NEW w \in Watches[r.text]
          PROVE  [r EXCEPT !.id = <<r.id[1], w>>] \in Row3(Ids)
        BY <2>1 DEF Row3, Whole, Ids
    <2> QED
        BY <2>2 DEF Parts
<1> QED
    BY <1>1, <1>2 DEF Split

(* The rows of what was read, whole or split, are rows of listings.         *)
LEMMA EnrichKeepsTypeInv ==
    ASSUME BoardInv, TypeInv, EnrichAndSplitListings
    PROVE  TypeInv'
<1>1. PICK sent \in SUBSET Unsplit : \E to \in PCs :
          run' = [run EXCEPT !.rows = Split(Mapped, sent), !.saves = sent, !.pc = to,
                             !.batch = DOMAIN run.raw]
    BY DEF EnrichAndSplitListings, PCs
<1>2. /\ run.pc # "idle" /\ RunFields \subseteq DOMAIN run /\ run.side \in Sides
      /\ UNCHANGED <<source, tables>>
    BY DEF EnrichAndSplitListings, BoardInv, RunOK
<1>3. Mapped \subseteq Row3(Whole)
    <2>1. ASSUME NEW s \in DOMAIN run.raw
          PROVE  Row(s, run.raw[s]) \in Row3(Whole)
        <3>1. s \in Sales /\ run.raw[s] \in Titles
            BY <1>2 DEF TypeInv, HandsOK
        <3>2. Keyword[run.raw[s]] \in Sides \cup {None}
            BY <3>1, InventoryAssumption
        <3> QED
            BY <1>2, <3>1, <3>2 DEF Row, Row3, Whole
    <2> QED
        BY <2>1 DEF Mapped
<1>4. sent \subseteq Mapped
    BY DEF Unsplit
<1>5. Split(Mapped, sent) \subseteq Row3(Ids)
    BY <1>3, <1>4, SplitTyped
<1>6. /\ run'.rows = Split(Mapped, sent) /\ run'.saves = sent /\ run'.batch = DOMAIN run.raw
      /\ run'.raw = run.raw /\ run'.todo = run.todo /\ run'.page = run.page
    BY <1>1, <1>2 DEF RunFields
<1>7. HandsOK'
    BY <1>2, <1>3, <1>4, <1>5, <1>6 DEF TypeInv, HandsOK, tables
<1> QED
    BY <1>2, <1>7 DEF TypeInv, FloorOK, TablesOK, source, tables

(* The rows of a run are stored under the types and ids they have.          *)
LEMMA StoringKeepsTypeInv ==
    ASSUME BoardInv, TypeInv, UpsertListings
    PROVE  TypeInv'
<1>1. /\ run.pc # "idle" /\ RunFields \subseteq DOMAIN run
      /\ UNCHANGED <<source, enriched, posting, tested>>
    BY DEF UpsertListings, BoardInv, RunOK
<1>2. \A r \in run.rows : r.type \in Sides /\ r.id \in Ids /\ r.text \in Titles
    BY <1>1 DEF TypeInv, HandsOK, Row3
<1>3. listing' = Override(listing,
          [k \in RowKeys |-> [on |-> TRUE, seen |-> run.at,
                              text |-> (CHOOSE r \in run.rows : Key(r) = k).text]])
    BY DEF UpsertListings, SyncedAt, RowKeys
<1>4. /\ DOMAIN listing' = DOMAIN listing \cup RowKeys
      /\ \A k \in DOMAIN listing \ RowKeys : listing'[k] = listing[k]
      /\ \A k \in RowKeys : listing'[k].text = (CHOOSE r \in run.rows : Key(r) = k).text
    BY <1>3 DEF Override
<1>5. ASSUME NEW k \in RowKeys
      PROVE  (CHOOSE r \in run.rows : Key(r) = k).text \in Titles
    <2>1. \E r \in run.rows : Key(r) = k
        BY DEF RowKeys
    <2> QED
        BY <1>2, <2>1
<1>6. RowKeys \subseteq Sides \X Ids
    BY <1>2 DEF RowKeys, Key
<1>7. TablesOK'
    BY <1>1, <1>4, <1>5, <1>6 DEF TypeInv, TablesOK
<1>8. HandsOK'
    <2>1. run' = [run EXCEPT !.pc = "sweep", !.stamped = @ \cup RowKeys]
        BY DEF UpsertListings, RowKeys
    <2> QED
        BY <1>1, <2>1 DEF TypeInv, HandsOK, RunFields
<1> QED
    BY <1>1, <1>7, <1>8 DEF TypeInv, FloorOK, source

(* A sweep changes no words.                                                *)
LEMMA SweepingKeepsTypeInv ==
    ASSUME BoardInv, TypeInv, MarkMissingInactive
    PROVE  TypeInv'
<1>1. /\ run.pc # "idle" /\ RunFields \subseteq DOMAIN run
      /\ UNCHANGED <<source, enriched, posting, tested>>
    BY DEF MarkMissingInactive, BoardInv, RunOK
<1>2. /\ DOMAIN listing' = DOMAIN listing
      /\ \A k \in DOMAIN listing : listing'[k].text = listing[k].text
    BY DEF MarkMissingInactive, BoardInv, ListingOK
<1>3. TablesOK'
    BY <1>1, <1>2 DEF TypeInv, TablesOK
<1>4. HandsOK'
    <2>1. run' = [run EXCEPT !.pc = "save", !.swept = @ \cup {run.side}]
        BY DEF MarkMissingInactive
    <2> QED
        BY <1>1, <2>1 DEF TypeInv, HandsOK, RunFields
<1> QED
    BY <1>1, <1>3, <1>4 DEF TypeInv, FloorOK, source

(* What is cached is a row that was sent to the AI.                         *)
LEMMA SavingKeepsTypeInv ==
    ASSUME BoardInv, TypeInv, SaveAiEnrichment
    PROVE  TypeInv'
<1>1. /\ run.pc # "idle" /\ RunFields \subseteq DOMAIN run
      /\ UNCHANGED <<source, listing, posting, tested>>
    BY DEF SaveAiEnrichment, BoardInv, RunOK
<1>2. CASE run.saves = {} /\ At("mirror") /\ UNCHANGED enriched
    BY <1>1, <1>2 DEF TypeInv, FloorOK, HandsOK, TablesOK, At, RunFields, source
<1>3. ASSUME NEW r \in run.saves,
             enriched' = Override(enriched, [k \in {Key(r)} |-> r.text]),
             run' = [run EXCEPT !.saves = @ \ {r}]
      PROVE  TypeInv'
    <2>1. Key(r) \in Sides \X Whole
        BY <1>1 DEF TypeInv, HandsOK, Row3, Key
    <2>2. DOMAIN enriched' = DOMAIN enriched \cup {Key(r)}
        BY <1>3 DEF Override
    <2>3. TablesOK'
        BY <1>1, <2>1, <2>2 DEF TypeInv, TablesOK
    <2>4. HandsOK'
        BY <1>1, <1>3 DEF TypeInv, HandsOK, RunFields
    <2> QED
        BY <1>1, <2>3, <2>4 DEF TypeInv, FloorOK, source
<1> QED
    BY <1>2, <1>3 DEF SaveAiEnrichment

(* The mirror of a batch.                                                   *)
LEMMA MirroringKeepsTypeInv ==
    ASSUME BoardInv, TypeInv, MirrorApiPostingsBulk
    PROVE  TypeInv'
<1> DEFINE written(b) == {Mirror(s) : s \in Changed(b)}
<1>1. PICK b \in SUBSET run.batch :
          /\ posting' = Override(posting, Written(Changed(b)))
          /\ tested' = tested \ written(b)
          /\ run' = [run EXCEPT !.pc = "match", !.batch = @ \ b, !.todo = written(b)]
    BY DEF MirrorApiPostingsBulk
<1>2. /\ run.pc # "idle" /\ RunFields \subseteq DOMAIN run /\ run.side \in Sides
      /\ UNCHANGED <<source, listing, enriched>>
    BY DEF MirrorApiPostingsBulk, BoardInv, RunOK
<1>3. DOMAIN posting' = DOMAIN posting \cup written(b)
    BY <1>1 DEF Override, Written
<1>4. written(b) \subseteq Sides \X Sales
    <2>1. b \subseteq Sales
        BY <1>2 DEF TypeInv, HandsOK
    <2>2. ASSUME NEW s \in Changed(b)
          PROVE  Mirror(s) \in Sides \X Sales
        BY <1>2, <2>1 DEF Changed, Mirror
    <2> QED
        BY <2>2
<1>5. run'.todo = written(b) /\ run'.batch = run.batch \ b /\ run'.raw = run.raw
      /\ run'.rows = run.rows /\ run'.saves = run.saves /\ run'.page = run.page
    BY <1>1, <1>2 DEF RunFields
<1> HIDE DEF written
<1>6. TablesOK'
    BY <1>1, <1>2, <1>3, <1>4 DEF TypeInv, TablesOK
<1>7. HandsOK'
    BY <1>2, <1>3, <1>5 DEF TypeInv, HandsOK
<1> QED
    BY <1>2, <1>6, <1>7 DEF TypeInv, FloorOK, source

(* Matching and retiring add no posting.                                    *)
LEMMA MatchingKeepsTypeInv ==
    ASSUME BoardInv, TypeInv, RunImmediateMatch \/ MarkApiPostingsInactive
    PROVE  TypeInv'
<1>1. /\ run.pc # "idle" /\ RunFields \subseteq DOMAIN run
      /\ UNCHANGED <<source, listing, enriched>>
    BY DEF RunImmediateMatch, MarkApiPostingsInactive, BoardInv, RunOK
<1>2. DOMAIN posting' = DOMAIN posting
    BY DEF RunImmediateMatch, MarkApiPostingsInactive
<1>3. tested' \subseteq DOMAIN posting
    BY <1>1 DEF RunImmediateMatch, MarkApiPostingsInactive, TypeInv, HandsOK, TablesOK
<1>4. TablesOK'
    BY <1>1, <1>2, <1>3 DEF TypeInv, TablesOK
<1>5. \/ At("mirror") \/ At("record") \/ \E k \in run.todo : run' = [run EXCEPT !.todo = @ \ {k}]
    BY DEF RunImmediateMatch, MarkApiPostingsInactive
<1>6. HandsOK'
    BY <1>1, <1>2, <1>5 DEF TypeInv, HandsOK, At, RunFields
<1> QED
    BY <1>1, <1>4, <1>6 DEF TypeInv, FloorOK, source

(* The other side begins with empty hands.                                  *)
LEMMA RecordingKeepsTypeInv ==
    ASSUME BoardInv, TypeInv, RecordTypeSyncSuccess \/ RecordTypeSyncError
    PROVE  TypeInv'
<1>1. /\ run.pc # "idle" /\ RunFields \subseteq DOMAIN run /\ run' = NextSide
      /\ UNCHANGED <<source, listing, enriched, posting, tested>>
    BY DEF RecordTypeSyncSuccess, RecordTypeSyncError, BoardInv, RunOK
<1>2. HandsOK'
    BY <1>1 DEF TypeInv, HandsOK, NextSide, RunFields
<1> QED
    BY <1>1, <1>2 DEF TypeInv, FloorOK, TablesOK, source

(* A run that ends, or dies, leaves the tables as they are.                 *)
LEMMA EndsKeepTypeInv ==
    ASSUME TypeInv, Finally \/ Restart
    PROVE  TypeInv'
  BY DEF Finally, Restart, TypeInv, FloorOK, HandsOK, TablesOK, Idle, source, tables

(* Of a batch that fails, some rows are written.                            *)
LEMMA FailsKeepsTypeInv ==
    ASSUME BoardInv, TypeInv, Fails
    PROVE  TypeInv'
<1>1. /\ run.pc # "idle" /\ RunFields \subseteq DOMAIN run /\ run.side \in Sides
      /\ UNCHANGED <<source, listing, enriched>>
    BY DEF Fails, BoardInv, RunOK
<1>2. \/ run' = Idle \/ At("finally") \/ At("error") \/ At("failed") \/ At("record")
    BY DEF Fails, BoardInv, RunOK, PCs
<1>3. /\ DOMAIN posting \subseteq DOMAIN posting' /\ DOMAIN posting' \subseteq Sides \X Sales
      /\ tested' \subseteq DOMAIN posting'
    <2>1. CASE UNCHANGED <<posting, tested>>
        BY <2>1 DEF TypeInv, TablesOK
    <2>2. ASSUME NEW b \in SUBSET Changed(run.batch),
                 posting' = Override(posting, Written(b)),
                 tested' = tested \ {Mirror(s) : s \in b}
          PROVE  /\ DOMAIN posting \subseteq DOMAIN posting'
                 /\ DOMAIN posting' \subseteq Sides \X Sales
                 /\ tested' \subseteq DOMAIN posting'
        <3>1. DOMAIN posting' = DOMAIN posting \cup {Mirror(s) : s \in b}
            BY <2>2 DEF Override, Written
        <3>2. {Mirror(s) : s \in b} \subseteq Sides \X Sales
            BY <1>1, <2>2 DEF Changed, Mirror, TypeInv, HandsOK
        <3> QED
            BY <2>2, <3>1, <3>2 DEF TypeInv, TablesOK
    <2> QED
        BY <2>1, <2>2 DEF Fails
<1>4. TablesOK'
    BY <1>1, <1>3 DEF TypeInv, TablesOK
<1>5. HandsOK'
    BY <1>1, <1>2, <1>3 DEF TypeInv, HandsOK, At, Idle, RunFields
<1> QED
    BY <1>1, <1>4, <1>5 DEF TypeInv, FloorOK, source

(* expireStalePostings and the reconciliation add no posting.               *)
LEMMA OthersKeepTypeInv ==
    ASSUME TypeInv, (\E k \in DOMAIN posting : ExpireStalePostings(k)) \/ RunReconciliation
    PROVE  TypeInv'
<1>1. /\ UNCHANGED <<source, listing, enriched, run>> /\ DOMAIN posting' = DOMAIN posting
      /\ tested' \subseteq DOMAIN posting
    BY DEF ExpireStalePostings, RunReconciliation, TypeInv, TablesOK
<1> QED
    BY <1>1 DEF TypeInv, FloorOK, HandsOK, TablesOK, source

(* Every step keeps the types.                                              *)
LEMMA NextKeepsTypeInv ==
    ASSUME BoardInv, TypeInv, [Next]_vars
    PROVE  TypeInv'
<1>1. CASE UNCHANGED vars
    BY <1>1 DEF vars, TypeInv, FloorOK, HandsOK, TablesOK
<1> QED
    BY <1>1, FloorKeepsTypeInv, ReadsKeepTypeInv, EnrichKeepsTypeInv, StoringKeepsTypeInv,
       SweepingKeepsTypeInv, SavingKeepsTypeInv, MirroringKeepsTypeInv, MatchingKeepsTypeInv,
       RecordingKeepsTypeInv, EndsKeepTypeInv, FailsKeepsTypeInv, OthersKeepTypeInv
    DEF Next, Sync

(* What is stored has the type and id of a listing and says what a sale may *)
(* say, also the rows a lot is split into, what is tested is a posting, and *)
(* a run that is under way has the flag (runInventorySync).                 *)
THEOREM InventoryTypes == Spec => []TypeOK
<1>1. TypeInv /\ TestInv => TypeOK
    BY DEF TypeInv, FloorOK, TablesOK, TestInv, FlagOK, TypeOK, Whole
<1>2. Init /\ [][Next]_vars => []TypeInv
    BY BoardInvariant, InitTypeInv, NextKeepsTypeInv, PTL DEF Spec
<1>3. Spec => []TestInv
    BY BoardInvariant, InitTestInv, NextKeepsTestInv, PTL DEF Spec
<1> QED
    BY <1>1, <1>2, <1>3, PTL DEF Spec
=============================================================================
