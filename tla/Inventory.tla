------------------------------ MODULE Inventory ------------------------------
(* The inventory sync of the WhatsApp agent (watchfacts/syncInventory.ts): *)
(* it reads both sides of the WatchFacts trading floor, splits bundles     *)
(* with the AI's help, keeps inventory_listings and its cache, mirrors     *)
(* each side into the v4 postings and has what changed matched.            *)
EXTENDS Naturals, Sequences, FiniteSets

CONSTANTS
    Sales,        \* auctions
    SideOf,       \* auctions.type: "FS" (sale) or "WTB" (search)
    Titles,       \* what a sale may say
    Keyword,      \* the side its words name, None when they name none
    Watches,      \* the watches the AI finds in it; {} when it is structured
    FromDb,       \* whether WATCHFACTS_DB_URL is set: no browser, no pages
    WtbEnabled,   \* enableWtbSync
    PageSize, MaxPages,   \* rows of a page of the site's API, pages read
    AiCap,        \* AI_ENRICHMENT_MAX_PER_SYNC
    BatchSize,    \* SYNC_BATCH_SIZE
    MaxChanges,   \* bound: changes on the trading floor
    MaxRuns,      \* bound: syncs begun
    MaxFaults,    \* bound: failing statements, requests and restarts
    None

Sides == {"FS", "WTB"}

ASSUME InventoryAssumption ==
    /\ SideOf \in [Sales -> Sides]
    /\ Keyword \in [Titles -> Sides \cup {None}]
    /\ {PageSize, MaxPages, BatchSize} \subseteq Nat \ {0} /\ AiCap \in Nat
    /\ FromDb \subseteq BOOLEAN /\ WtbEnabled \in BOOLEAN
    /\ {MaxChanges, MaxRuns, MaxFaults} \subseteq Nat

VARIABLES
    floor,        \* the open auctions of each side, the newest first
    title,        \* what each says
    listing,      \* inventory_listings, by type and external id
    enriched,     \* ai_enrichment_cache: the title that was split, by row
    posting,      \* the mirrored postings, by type and external id
    tested,       \* those runImmediateMatch has seen as they are now
    outcome,      \* sync_meta: how each side's last sync ended
    syncRunning,
    run,          \* the sync that has the flag
    bound         \* changes, syncs and faults left

source == <<floor, title>>
tables == <<listing, enriched, posting, tested, outcome>>
vars == <<floor, title, listing, enriched, posting, tested, outcome,
          syncRunning, run, bound>>

Spend(what) == bound[what] > 0 /\ bound' = [bound EXCEPT ![what] = @ - 1]
Override(f, g) == [x \in DOMAIN f \cup DOMAIN g |-> IF x \in DOMAIN g THEN g[x] ELSE f[x]]
Smaller(a, b) == IF a < b THEN a ELSE b

Idle == [pc |-> "idle"]
At(pc) == run' = [run EXCEPT !.pc = pc]

------------------------------------------------------------------------------
(* The trading floor changes while a sync reads it.                        *)

List(s) ==
    /\ Spend("changes")
    /\ s \notin {floor[SideOf[s]][i] : i \in DOMAIN floor[SideOf[s]]}
    /\ \E t \in Titles : title' = [title EXCEPT ![s] = t]
    /\ floor' = [floor EXCEPT ![SideOf[s]] = <<s>> \o @]
    /\ UNCHANGED <<tables, syncRunning, run>>

Delist(s) ==
    /\ Spend("changes")
    /\ \E i \in DOMAIN floor[SideOf[s]] :
          /\ floor[SideOf[s]][i] = s
          /\ floor' = [floor EXCEPT ![SideOf[s]] =
                           SubSeq(@, 1, i - 1) \o SubSeq(@, i + 1, Len(@))]
    /\ UNCHANGED <<title, tables, syncRunning, run>>

Retitle(s) ==
    /\ Spend("changes")
    /\ s \in {floor[SideOf[s]][i] : i \in DOMAIN floor[SideOf[s]]}
    /\ \E t \in Titles \ {title[s]} : title' = [title EXCEPT ![s] = t]
    /\ UNCHANGED <<floor, tables, syncRunning, run>>

------------------------------------------------------------------------------
(* A sync: the flag, the attempt on record, the source opened, then each   *)
(* side fetched and processed.                                             *)

\* (A variant: the flag is looked at but not taken.)
RunUnflagged ==
    /\ ~syncRunning /\ Spend("runs")
    /\ \E db \in FromDb :
       run' = [pc |-> "attempt", db |-> db, at |-> MaxRuns - bound["runs"] + 1, side |-> "FS",
               page |-> 1, raw |-> <<>>, rows |-> {}, saves |-> {}, batch |-> {},
               todo |-> {}, stamped |-> {}, swept |-> {}]
    /\ UNCHANGED <<source, tables, syncRunning>>

RunInventorySync ==
    /\ ~syncRunning /\ Spend("runs")
    /\ syncRunning' = TRUE
    /\ \E db \in FromDb :
       run' = [pc |-> "attempt", db |-> db, at |-> MaxRuns - bound["runs"] + 1, side |-> "FS",
               page |-> 1, raw |-> <<>>, rows |-> {}, saves |-> {}, batch |-> {},
               todo |-> {}, stamped |-> {}, swept |-> {}]
    /\ UNCHANGED <<source, tables>>

(* recordSyncAttempt, then openSourceDb or the login.                      *)
Attempt == run.pc = "attempt" /\ At("open") /\ UNCHANGED <<source, tables, syncRunning, bound>>
OpenSource == run.pc = "open" /\ At("fetch") /\ UNCHANGED <<source, tables, syncRunning, bound>>

(* fetchOpenAuctionsFromDb, or one page of fetchAllFlashSales; what a      *)
(* later page repeats replaces what an earlier one said.                   *)
Page(p) == SubSeq(floor[run.side], (p - 1) * PageSize + 1,
                  Smaller(p * PageSize, Len(floor[run.side])))
Fetched(q) == [s \in {q[i] : i \in DOMAIN q} |-> title[s]]

FetchOpenAuctions ==
    /\ run.pc = "fetch" /\ run.db
    /\ run' = [run EXCEPT !.raw = Fetched(floor[run.side]), !.pc = "enrich"]
    /\ UNCHANGED <<source, tables, syncRunning, bound>>

FetchPage ==
    /\ run.pc = "fetch" /\ ~run.db
    /\ run' = [run EXCEPT !.raw = Override(@, Fetched(Page(run.page))), !.page = @ + 1,
                          !.pc = IF Len(Page(run.page)) < PageSize \/ run.page = MaxPages
                                  THEN "enrich" ELSE @]
    /\ UNCHANGED <<source, tables, syncRunning, bound>>

------------------------------------------------------------------------------
(* processRawSales.                                                        *)

(* The words of a title decide the type of its row, whichever side it was  *)
(* listed on.                                                              *)
Row(s, t) == [type |-> IF Keyword[t] = None THEN run.side ELSE Keyword[t],
              id |-> <<s, None>>, text |-> t]
Key(r) == <<r.type, r.id>>
Mapped == {Row(s, run.raw[s]) : s \in DOMAIN run.raw}
Parts(r) == {[r EXCEPT !.id = <<r.id[1], w>>] : w \in Watches[r.text]}

(* Rows the AI is asked about: unstructured, and not cached as they are.   *)
Unsplit == {r \in Mapped : /\ Watches[r.text] # {}
                           /\ ~(Key(r) \in DOMAIN enriched /\ enriched[Key(r)] = r.text)}
Split(rows, sent) ==
    (rows \ {r \in sent : Cardinality(Parts(r)) > 1})
        \cup UNION {Parts(r) : r \in {x \in sent : Cardinality(Parts(x)) > 1}}

EnrichAndSplitListings ==
    /\ run.pc = "enrich"
    /\ \E sent \in SUBSET Unsplit :
           /\ Cardinality(sent) = Smaller(AiCap, Cardinality(Unsplit))
           /\ run' = [run EXCEPT !.rows = Split(Mapped, sent), !.saves = sent,
                                 !.pc = IF Mapped = {} THEN "mirror" ELSE "upsert",
                                 !.batch = DOMAIN run.raw]
    /\ UNCHANGED <<source, tables, syncRunning, bound>>

\* (A variant: each side of a run has a timestamp of its own.)
SideTime == IF run.side = "WTB" THEN run.at + 1 ELSE run.at
SyncedAt == run.at

UpsertListings ==
    /\ run.pc = "upsert"
    /\ listing' = Override(listing,
           [k \in {Key(r) : r \in run.rows} |->
               [on |-> TRUE, seen |-> SyncedAt,
                text |-> (CHOOSE r \in run.rows : Key(r) = k).text]])
    /\ run' = [run EXCEPT !.pc = "sweep", !.stamped = @ \cup {Key(r) : r \in run.rows}]
    /\ UNCHANGED <<source, enriched, posting, tested, outcome, syncRunning, bound>>

MarkMissingInactive ==
    /\ run.pc = "sweep"
    /\ listing' = [k \in DOMAIN listing |->
           [listing[k] EXCEPT !.on = @ /\ ~(k[1] = run.side /\ listing[k].seen < SyncedAt)]]
    /\ run' = [run EXCEPT !.pc = "save", !.swept = @ \cup {run.side}]
    /\ UNCHANGED <<source, enriched, posting, tested, outcome, syncRunning, bound>>

SaveAiEnrichment ==
    /\ run.pc = "save"
    /\ \/ \E r \in run.saves :
              /\ enriched' = Override(enriched, [k \in {Key(r)} |-> r.text])
              /\ run' = [run EXCEPT !.saves = @ \ {r}]
       \/ run.saves = {} /\ At("mirror") /\ UNCHANGED enriched
    /\ UNCHANGED <<source, listing, posting, tested, outcome, syncRunning, bound>>

(* mirrorApiPostingsBulk of one batch: a new listing is inserted, one that *)
(* changed is updated and keeps its status, the rest is only touched.      *)
Mirror(s) == <<run.side, s>>
Changed(b) == {s \in b : \/ Mirror(s) \notin DOMAIN posting
                         \/ posting[Mirror(s)].text # run.raw[s]}
Written(b) == [k \in {Mirror(s) : s \in b} |->
    [status |-> IF k \in DOMAIN posting THEN posting[k].status ELSE "active",
     text |-> run.raw[k[2]]]]

\* (A variant: only the inserted ones are matched.)
MirrorNew ==
    /\ run.pc = "mirror" /\ run.batch # {}
    /\ \E b \in SUBSET run.batch :
           /\ Cardinality(b) = Smaller(BatchSize, Cardinality(run.batch))
           /\ posting' = Override(posting, Written(Changed(b)))
           /\ tested' = tested \ {Mirror(s) : s \in Changed(b)}
           /\ run' = [run EXCEPT !.pc = "match", !.batch = @ \ b,
                                 !.todo = {Mirror(s) : s \in Changed(b)} \ DOMAIN posting]
    /\ UNCHANGED <<source, listing, enriched, outcome, syncRunning, bound>>

MirrorApiPostingsBulk ==
    /\ run.pc = "mirror" /\ run.batch # {}
    /\ \E b \in SUBSET run.batch :
           /\ Cardinality(b) = Smaller(BatchSize, Cardinality(run.batch))
           /\ posting' = Override(posting, Written(Changed(b)))
           /\ tested' = tested \ {Mirror(s) : s \in Changed(b)}
           /\ run' = [run EXCEPT !.pc = "match", !.batch = @ \ b,
                                 !.todo = {Mirror(s) : s \in Changed(b)}]
    /\ UNCHANGED <<source, listing, enriched, outcome, syncRunning, bound>>

(* runImmediateMatch skips a posting that is not active.                   *)
RunImmediateMatch ==
    /\ run.pc = "match"
    /\ \/ \E k \in run.todo :
              /\ tested' = IF posting[k].status = "active" THEN tested \cup {k} ELSE tested
              /\ run' = [run EXCEPT !.todo = @ \ {k}]
       \/ run.todo = {} /\ At("mirror") /\ UNCHANGED tested
    /\ UNCHANGED <<source, listing, enriched, posting, outcome, syncRunning, bound>>

MarkApiPostingsInactive ==
    /\ run.pc = "mirror" /\ run.batch = {}
    /\ posting' = IF DOMAIN run.raw = {} THEN posting
                  ELSE [k \in DOMAIN posting |->
                           IF /\ k[1] = run.side /\ posting[k].status = "active"
                              /\ k[2] \notin DOMAIN run.raw
                           THEN [posting[k] EXCEPT !.status = "source_inactive"]
                           ELSE posting[k]]
    /\ At("record")
    /\ UNCHANGED <<source, listing, enriched, tested, outcome, syncRunning, bound>>

(* FS first, then WTB when it is enabled; the flag is released at the end. *)
NextSide == IF run.side = "FS" /\ WtbEnabled
            THEN [run EXCEPT !.side = "WTB", !.page = 1, !.raw = <<>>, !.rows = {},
                             !.saves = {}, !.batch = {}, !.todo = {}, !.pc = "fetch"]
            ELSE [run EXCEPT !.pc = "finally"]

RecordTypeSyncSuccess ==
    /\ run.pc = "record"
    /\ outcome' = [outcome EXCEPT ![run.side] = "ok"]
    /\ run' = NextSide
    /\ UNCHANGED <<source, listing, enriched, posting, tested, syncRunning, bound>>

(* recordTypeSyncError of processRawSales ("failed"), which the caller of   *)
(* it repeats when it fails itself ("error").                              *)
RecordTypeSyncError ==
    /\ run.pc \in {"failed", "error"}
    /\ outcome' = [outcome EXCEPT ![run.side] = "error"]
    /\ run' = NextSide
    /\ UNCHANGED <<source, listing, enriched, posting, tested, syncRunning, bound>>

Finally ==
    /\ run.pc = "finally"
    /\ syncRunning' = FALSE /\ run' = Idle
    /\ UNCHANGED <<source, tables, bound>>

------------------------------------------------------------------------------
(* Failures. A failing mirror is logged and the side still succeeds; what  *)
(* a failing batch had already written stays. Nothing releases the flag    *)
(* when the attempt cannot be recorded, or the browser does not close.     *)

Fails ==
    /\ run.pc # "idle" /\ Spend("faults")
    /\ CASE run.pc = "attempt" -> run' = Idle
         [] run.pc = "finally" -> ~run.db /\ run' = Idle
         [] run.pc \in {"open", "error"} -> At("finally")
         [] run.pc \in {"fetch", "failed"} -> At("error")
         [] run.pc \in {"enrich", "upsert", "sweep", "save", "record"} -> At("failed")
         [] run.pc \in {"mirror", "match"} -> At("record")
    /\ IF run.pc = "mirror"
       THEN \E b \in SUBSET Changed(run.batch) :
                /\ Cardinality(b) <= BatchSize
                /\ posting' = Override(posting, Written(b))
                /\ tested' = tested \ {Mirror(s) : s \in b}
       ELSE UNCHANGED <<posting, tested>>
    /\ UNCHANGED <<source, listing, enriched, outcome, syncRunning>>

Restart ==
    /\ syncRunning /\ Spend("faults")
    /\ syncRunning' = FALSE /\ run' = Idle
    /\ UNCHANGED <<source, tables>>

(* The other writers of the mirrored rows: expireStalePostings, and the    *)
(* reconciliation, which tests every pair of active postings.              *)
ExpireStalePostings(k) ==
    /\ Spend("changes")
    /\ posting[k].status = "active"
    /\ posting' = [posting EXCEPT ![k].status = "expired"]
    /\ UNCHANGED <<source, listing, enriched, tested, outcome, syncRunning, run>>

RunReconciliation ==
    /\ tested' = tested \cup {k \in DOMAIN posting : posting[k].status = "active"}
    /\ tested' # tested
    /\ UNCHANGED <<source, listing, enriched, posting, outcome, syncRunning, run, bound>>

------------------------------------------------------------------------------

Init ==
    /\ floor = [side \in Sides |-> <<>>] /\ title = [s \in Sales |-> None]
    /\ listing = <<>> /\ enriched = <<>> /\ posting = <<>> /\ tested = {}
    /\ outcome = [side \in Sides |-> "never_run"]
    /\ syncRunning = FALSE /\ run = Idle
    /\ bound = [changes |-> MaxChanges, runs |-> MaxRuns, faults |-> MaxFaults]

Sync ==
    \/ RunInventorySync \/ Attempt \/ OpenSource \/ FetchOpenAuctions \/ FetchPage
    \/ EnrichAndSplitListings \/ UpsertListings \/ MarkMissingInactive
    \/ SaveAiEnrichment \/ MirrorApiPostingsBulk \/ RunImmediateMatch
    \/ MarkApiPostingsInactive \/ RecordTypeSyncSuccess \/ RecordTypeSyncError
    \/ Finally

Next ==
    \/ \E s \in Sales : List(s) \/ Delist(s) \/ Retitle(s)
    \/ Sync \/ Fails \/ Restart
    \/ \E k \in DOMAIN posting : ExpireStalePostings(k)
    \/ RunReconciliation

Spec == Init /\ [][Next]_vars

------------------------------------------------------------------------------
(* Properties.                                                             *)

Ids == Sales \X ((UNION {Watches[t] : t \in Titles}) \cup {None})
TypeOK ==
    /\ floor \in [Sides -> Seq(Sales)] /\ title \in [Sales -> Titles \cup {None}]
    /\ DOMAIN listing \subseteq Sides \X Ids
    /\ \A k \in DOMAIN listing : listing[k].text \in Titles
    /\ DOMAIN enriched \subseteq Sides \X (Sales \X {None})
    /\ DOMAIN posting \subseteq Sides \X Sales /\ tested \subseteq DOMAIN posting
    /\ run.pc # "idle" => syncRunning

(* Refinement: whatever pages, batches, failures and restarts it is made   *)
(* of, a sync changes the board of listings as ListingBoard says: neither   *)
(* side retires what the other has just stored under its type, and a fetch  *)
(* that failed or was empty retires nothing (upsertListings,                *)
(* markMissingInactive).                                                    *)
Board == INSTANCE ListingBoard WITH
    offered <- {k \in DOMAIN listing : listing[k].on},
    fresh <- IF run.pc = "idle" THEN {} ELSE run.stamped,
    swept <- IF run.pc = "idle" THEN {} ELSE run.swept
ImplementsBoard == Board!Spec

(* As long as nothing fails, every active mirrored posting has been tested *)
(* against the other side as it is now, or the sync that is running still  *)
(* has it to test: only failures leave work to the reconciliation          *)
(* (ingestApiFsSync, "every successful sync must trigger reverse           *)
(* matching").                                                             *)
ChangedAreTested ==
    bound["faults"] = MaxFaults =>
        \A k \in DOMAIN posting :
            posting[k].status = "active" /\ k \notin tested =>
                run.pc = "match" /\ k \in run.todo
=============================================================================
