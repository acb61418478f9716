------------------------------ MODULE Surfacing ------------------------------
(***************************************************************************)
(* How postings become matches, and matches become notifications, in       *)
(* backend/src/services: sync.service.ts, chatIngestion.service.ts,        *)
(* matching.service.ts and notification.service.ts.                        *)
(*                                                                         *)
(* A posting comes from a listing of the WatchFacts inventory (for sale)   *)
(* or from a chat message (want to buy).  Three kinds of worker run        *)
(* runMatchingForPosting, concurrently and without knowing of each other:  *)
(*   Syncs        runFsSync, at every tick of a timer that does not ask    *)
(*                whether the previous one is over,                        *)
(*   Chats        one webhook request with a new or an edited message,     *)
(*   Reconcilers  reconcileMatches, on a timer of its own.                 *)
(* A run of the matching is one READ COMMITTED transaction over many match *)
(* rows, followed by one autocommitted statement or one message per step.  *)
(***************************************************************************)
EXTENDS Integers, FiniteSets, Bags

CONSTANTS
    Listings,    \* external listing ids, each a for-sale posting once seen
    Messages,    \* chat messages, each a want-to-buy posting once received
    Asks, Bids,  \* the material fields of a listing and of a message
    Fits,        \* the pairs of an ask and a bid that computeMatch accepts
    Syncs, Chats, Reconcilers,
    MaxBusy,     \* how many workers are at work at the same time
    MaxEdits, MaxRequests, MaxFaults,   \* bounds on one behaviour
    None

Terms == Asks \cup Bids
Postings == Listings \cup Messages
Workers == Syncs \cup Chats \cup Reconcilers
Pairs == Listings \X Messages
Sides == {"fs", "wtb"}

ASSUME ConstantsAssumption ==
    /\ Listings \cap Messages = {} /\ None \notin Postings \cup Terms
    /\ IsFiniteSet(Postings) /\ IsFiniteSet(Workers)
    /\ Fits \subseteq Asks \X Bids
    /\ Syncs \cap Chats = {} /\ Reconcilers \cap (Syncs \cup Chats) = {}
    /\ MaxBusy \in Nat /\ MaxEdits \in Nat /\ MaxRequests \in Nat /\ MaxFaults \in Nat

VARIABLES
    offered,     \* the WatchFacts inventory: terms of a listing, or None
    status,      \* postings.status, "none" without a row
    terms,       \* the material fields of each posting
    match,       \* matches: revision (0 without a row) and status
    recipient,   \* match_recipients: decision by pair, side and revision
    notice,      \* notifications: status by pair, side and revision
    approvals,   \* approvals: who approved each match
    sent,        \* messages sent: a bag of pair, side and revision
    edits,       \* creations and material updates of each posting
    w,           \* the local state of each worker
    changes, requests, faults

postings == <<status, terms, edits>>
deals == <<match, recipient, approvals>>
messages == <<notice, sent>>
counts == <<changes, requests, faults>>
vars == <<offered, postings, deals, messages, w, counts>>

NoMatch == [rev |-> 0, status |-> "none"]
NoWrites == [m \in Pairs |-> NoMatch]
Written(writes) == {m \in Pairs : writes[m] # NoMatch}
Owns(m, p) == p \in {m[1], m[2]}
PairOf(p, q) == IF p \in Listings THEN <<p, q>> ELSE <<q, p>>
Opposite(p) == IF p \in Listings THEN Messages ELSE Listings
Fit(p, t, q) == IF p \in Listings THEN <<t, terms[q]>> \in Fits
                                  ELSE <<terms[q], t>> \in Fits

(* The local state of a worker: fetched, left and seen belong to a whole   *)
(* sync or reconciliation, the others to the posting at hand.              *)
Idle == [pc |-> "idle"]
Job(fetched, left, seen) ==
    [pc |-> "next", fetched |-> fetched, left |-> left, seen |-> seen,
     posting |-> None, terms |-> None, material |-> FALSE, candidates |-> {},
     other |-> None, writes |-> NoWrites, surfaced |-> {}, undecided |-> {},
     note |-> None]

At(i, pc) == w[i].pc = pc
CanStart(i) == At(i, "idle") /\ Cardinality({j \in Workers : ~At(j, "idle")}) < MaxBusy
Goto(i, pc) == w' = [w EXCEPT ![i].pc = pc]
Owned(i) == IF At(i, "idle") THEN {} ELSE Written(w[i].writes)
Free(i, m) == \A j \in Workers \ {i} : m \notin Owned(j)
Unlocked(m) == \A j \in Workers : m \notin Owned(j)

(* The posting at hand is done with, for a sync successfully.              *)
Onward(x, seen) == Job(x.fetched, x.left, seen)
Returned(i) ==
    IF i \in Syncs THEN Onward(w[i], w[i].seen \cup {w[i].posting})
    ELSE IF w[i].left # {} THEN Onward(w[i], {}) ELSE Idle

(* An exception: a sync catches it and goes to the next listing, a webhook *)
(* answers 500, a reconciliation ends.  A transaction is rolled back.      *)
Thrown(i) == IF i \in Syncs THEN Onward(w[i], w[i].seen) ELSE Idle

Return(i) == w' = [w EXCEPT ![i] = Returned(i)]
ThrowAt(i) == w' = [w EXCEPT ![i] = Thrown(i)]

-----------------------------------------------------------------------------
(* Ingesting a posting: ingestApiPosting, ingestChatPosting.  The row of a *)
(* known posting is locked and updated; upsertPosting never touches its    *)
(* status.  A new one is inserted, or found to exist after all.            *)

(* materiallyChanged.                                                      *)
Changed(p, t) == terms[p] # t

Ingest(i, x, p, t) ==
    IF status[p] = "none"
    THEN /\ w' = [w EXCEPT ![i] = [x EXCEPT !.pc = "create", !.posting = p, !.terms = t]]
         /\ UNCHANGED postings
    ELSE /\ w' = [w EXCEPT ![i] = [x EXCEPT !.pc = "load", !.posting = p,
                                            !.material = Changed(p, t)]]
         /\ terms' = [terms EXCEPT ![p] = t]
         /\ edits' = IF terms[p] # t THEN [edits EXCEPT ![p] = @ + 1] ELSE edits
         /\ UNCHANGED status

Create(i) ==
    LET p == w[i].posting IN
    /\ At(i, "create")
    /\ IF status[p] = "none"
       THEN /\ status' = [status EXCEPT ![p] = "active"]
            /\ terms' = [terms EXCEPT ![p] = w[i].terms]
            /\ edits' = [edits EXCEPT ![p] = @ + 1]
            /\ w' = [w EXCEPT ![i].pc = "load", ![i].terms = None, ![i].material = TRUE]
       ELSE ThrowAt(i) /\ UNCHANGED postings
    /\ UNCHANGED <<offered, deals, messages, counts>>

-----------------------------------------------------------------------------
(* The three loops around it.                                              *)

(* The inventory changes: a listing appears, is edited, or is withdrawn.   *)
ChangeSource(l, t) ==
    /\ changes < MaxEdits
    /\ t # offered[l]
    /\ offered' = [offered EXCEPT ![l] = t]
    /\ changes' = changes + 1
    /\ UNCHANGED <<postings, deals, messages, w, requests, faults>>

(* fetchAllActiveFsListings; an empty result ends the sync.                *)
Fetch(s) ==
    LET listed == {l \in Listings : offered[l] # None} IN
    /\ CanStart(s)
    /\ listed # {}
    /\ w' = [w EXCEPT ![s] = Job(offered, listed, {})]
    /\ UNCHANGED <<offered, postings, deals, messages, counts>>

NextListing(s) == At(s, "next") /\ \E l \in w[s].left :
    /\ Ingest(s, [w[s] EXCEPT !.left = @ \ {l}], l, w[s].fetched[l])
    /\ UNCHANGED <<offered, deals, messages, counts>>

(* Defect: A status the table's CHECK does not admit.                      *)
MarkMissingByName(s) ==
    /\ At(s, "next") /\ w[s].left = {}
    /\ status' = [p \in Postings |->
            IF p \in Listings \ w[s].seen /\ status[p] = "active"
            THEN "inactive" ELSE status[p]]
    /\ w' = [w EXCEPT ![s] = Idle]
    /\ UNCHANGED <<offered, terms, edits, deals, messages, counts>>

(* "Mark missing FS listings inactive": those not seen, fetched or not.    *)
MarkMissing(s) ==
    /\ At(s, "next") /\ w[s].left = {}
    /\ status' = [p \in Postings |->
            IF p \in Listings \ w[s].seen /\ status[p] = "active"
            THEN "source_inactive" ELSE status[p]]
    /\ w' = [w EXCEPT ![s] = Idle]
    /\ UNCHANGED <<offered, terms, edits, deals, messages, counts>>

(* A new or an edited chat message.                                        *)
Receive(c, p, t) ==
    /\ CanStart(c)
    /\ changes < MaxEdits
    /\ changes' = changes + 1
    /\ Ingest(c, Job(<<>>, {}, {}), p, t)
    /\ UNCHANGED <<offered, deals, messages, requests, faults>>

Reconcile(r) ==
    LET active == {p \in Postings : status[p] = "active"} IN
    /\ CanStart(r)
    /\ active # {}
    /\ w' = [w EXCEPT ![r] = Job(<<>>, active, {})]
    /\ UNCHANGED <<offered, postings, deals, messages, counts>>

NextPosting(r) == At(r, "next") /\ \E p \in w[r].left :
    /\ w' = [w EXCEPT ![r].left = @ \ {p}, ![r].posting = p, ![r].pc = "load"]
    /\ UNCHANGED <<offered, postings, deals, messages, counts>>

-----------------------------------------------------------------------------
(* runMatchingForPosting: the transaction.                                 *)

(* Defect: An unchanged posting is not matched again.                      *)
LoadChanged(i) ==
    LET p == w[i].posting IN
    /\ At(i, "load")
    /\ IF status[p] = "active" /\ w[i].material
       THEN w' = [w EXCEPT ![i].pc = "candidates", ![i].terms = terms[p]]
       ELSE Return(i)
    /\ UNCHANGED <<offered, postings, deals, messages, counts>>

Load(i) ==
    LET p == w[i].posting IN
    /\ At(i, "load")
    /\ IF status[p] = "active"
       THEN w' = [w EXCEPT ![i].pc = "candidates", ![i].terms = terms[p]]
       ELSE Return(i)
    /\ UNCHANGED <<offered, postings, deals, messages, counts>>

(* loadActiveOppositeSide, and computeMatch for each.                      *)
LoadCandidates(i) ==
    LET p == w[i].posting IN
    /\ At(i, "candidates")
    /\ w' = [w EXCEPT ![i].pc = "upsert", ![i].terms = None, ![i].candidates =
                {q \in Opposite(p) : status[q] = "active" /\ Fit(p, w[i].terms, q)}]
    /\ UNCHANGED <<offered, postings, deals, messages, counts>>

(* What upsertMatch makes of the row it has locked.                        *)
Revised(i, row) ==
    IF row.status = "approved" \/ ~w[i].material THEN row
    ELSE [rev |-> row.rev + 1, status |-> "surfaced"]

(* Defect: upsertMatch reads the match without FOR UPDATE.                 *)
LookUnlocked(i) == At(i, "upsert") /\ \E q \in w[i].candidates :
    LET m == PairOf(w[i].posting, q) IN
    /\ IF match[m].rev = 0
       THEN w' = [w EXCEPT ![i].pc = "insert", ![i].other = q, ![i].candidates = @ \ {q}]
       ELSE w' = [w EXCEPT ![i].candidates = @ \ {q},
                           ![i].writes[m] = Revised(i, match[m])]
    /\ UNCHANGED <<offered, postings, deals, messages, counts>>

(* SELECT ... FOR UPDATE: another transaction's uncommitted insert is not  *)
(* seen, a row another transaction holds is waited for.                    *)
Look(i) == At(i, "upsert") /\ \E q \in w[i].candidates :
    LET m == PairOf(w[i].posting, q) IN
    /\ IF match[m].rev = 0
       THEN w' = [w EXCEPT ![i].pc = "insert", ![i].other = q, ![i].candidates = @ \ {q}]
       ELSE /\ Free(i, m)
            /\ w' = [w EXCEPT ![i].candidates = @ \ {q},
                              ![i].writes[m] = Revised(i, match[m])]
    /\ UNCHANGED <<offered, postings, deals, messages, counts>>

(* INSERT: the unique index makes it wait for a concurrent insert of the   *)
(* pair, and fail, with the whole transaction, if that one commits.        *)
Insert(i) ==
    LET m == PairOf(w[i].posting, w[i].other) IN
    /\ At(i, "insert")
    /\ Free(i, m)
    /\ IF match[m].rev = 0
       THEN w' = [w EXCEPT ![i].pc = "upsert", ![i].other = None,
                    ![i].writes[m] = [rev |-> 1, status |-> "surfaced"]]
       ELSE ThrowAt(i)
    /\ UNCHANGED <<offered, postings, deals, messages, counts>>

(* The pairs whose row the next statement may wait for: the query for the  *)
(* candidates has no ORDER BY.                                             *)
Awaited(i) ==
    CASE At(i, "upsert") -> {m \in {PairOf(w[i].posting, q) : q \in w[i].candidates} :
                                match[m].rev > 0}
      [] At(i, "insert") -> {PairOf(w[i].posting, w[i].other)}
      [] OTHER -> {}

(* PostgreSQL ends one transaction of a cycle of waiting ones.             *)
Victim(i) ==
    /\ \E S \in SUBSET Workers : i \in S /\ \A j \in S :
          \E k \in S \ {j} : Awaited(j) \cap Owned(k) # {}
    /\ ThrowAt(i)
    /\ UNCHANGED <<offered, postings, deals, messages, counts>>

(* INSERT ... ON CONFLICT DO NOTHING of a row for each of the keys.        *)
Inserted(rows, keys) ==
    [k \in DOMAIN rows \cup keys |-> IF k \in DOMAIN rows THEN rows[k] ELSE "pending"]

(* Defect: Only a new match gets its recipients' rows.                     *)
RecipientsOnce(writes) == {<<m, s, 1>> : m \in Written(writes), s \in Sides}

(* ensureRecipients: the rows a transaction's matches need.                *)
Recipients(writes) == {<<m, s, writes[m].rev>> : m \in Written(writes), s \in Sides}

(* The matches still to be notified of, one after another, and then        *)
(* runMatchingForPosting returns.                                          *)
Continue(i, x) ==
    IF x.undecided # {} THEN w' = [w EXCEPT ![i] = [x EXCEPT !.pc = "reserve"]]
    ELSE IF x.surfaced # {} THEN w' = [w EXCEPT ![i] = [x EXCEPT !.pc = "notify"]]
    ELSE Return(i)

(* COMMIT.                                                                 *)
Commit(i) ==
    LET writes == w[i].writes
        revisions == {<<m, writes[m].rev>> : m \in Written(writes)}
    IN
    /\ At(i, "upsert") /\ w[i].candidates = {}
    /\ match' = [m \in Pairs |-> IF m \in Written(writes) THEN writes[m] ELSE match[m]]
    /\ recipient' = Inserted(recipient, Recipients(writes))
    /\ Continue(i, [w[i] EXCEPT !.writes = NoWrites, !.material = FALSE,
                                !.surfaced = revisions])
    /\ UNCHANGED <<offered, postings, approvals, messages, counts>>

-----------------------------------------------------------------------------
(* createAndSendNotificationsForMatchRevision, for one match after another.*)

(* The recipients that have not decided: the keys of their rows.           *)
Undecided(m, r) ==
    {<<m, s, r>> : s \in {s \in Sides : <<m, s, r>> \in DOMAIN recipient
                                         /\ recipient[<<m, s, r>>] = "pending"}}

ReadRecipients(i) == At(i, "notify") /\ \E mr \in w[i].surfaced :
    /\ Continue(i, [w[i] EXCEPT !.surfaced = @ \ {mr},
                                !.undecided = Undecided(mr[1], mr[2])])
    /\ UNCHANGED <<offered, postings, deals, messages, counts>>

(* Defect: A notification that exists is sent again.                       *)
ReservedNever(k) == FALSE

(* Defect: One notification per match and recipient, whatever its revision.*)
ReservedForGood(k) == \E j \in DOMAIN notice : j[1] = k[1] /\ j[2] = k[2]

Reserved(k) == k \in DOMAIN notice

(* INSERT INTO notifications ... ON CONFLICT DO NOTHING; the foreign key    *)
(* of a new row waits for a transaction that holds the match.              *)
Reserve(i) == At(i, "reserve") /\ \E k \in w[i].undecided :
    /\ IF Reserved(k)
       THEN Continue(i, [w[i] EXCEPT !.undecided = @ \ {k}]) /\ UNCHANGED notice
       ELSE /\ Free(i, k[1])
            /\ notice' = Inserted(notice, {k})
            /\ w' = [w EXCEPT ![i].undecided = @ \ {k}, ![i].pc = "send", ![i].note = k]
    /\ UNCHANGED <<offered, postings, deals, sent, counts>>

Send(i) ==
    /\ At(i, "send")
    /\ sent' = sent (+) SetToBag({w[i].note})
    /\ Goto(i, "sent")
    /\ UNCHANGED <<offered, postings, deals, notice, counts>>

(* The adapter answers { ok: false }.                                      *)
SendFails(i) ==
    /\ At(i, "send")
    /\ faults < MaxFaults
    /\ faults' = faults + 1
    /\ Goto(i, "failed")
    /\ UNCHANGED <<offered, postings, deals, messages, changes, requests>>

Mark(i) ==
    /\ At(i, "sent") \/ At(i, "failed")
    /\ notice' = [notice EXCEPT ![w[i].note] = w[i].pc]
    /\ Continue(i, [w[i] EXCEPT !.note = None])
    /\ UNCHANGED <<offered, postings, deals, sent, counts>>
-----------------------------------------------------------------------------
(* What the parties do with a notification: MatchApproval has the details  *)
(* of an approval.  Its buttons name the match and not the revision, and   *)
(* the decision is for the revision the match has by then.                 *)

Holds(m, s) == \E k \in DOMAIN sent : k[1] = m /\ k[2] = s

(* syncMatchStatusAfterDecision.                                           *)
StatusAfter(m, decisions) ==
    LET current == {decisions[<<m, s, match[m].rev>>] : s \in Sides} IN
    IF "approved" \in current THEN "approved"
    ELSE IF current = {"passed"} THEN "passed_all" ELSE match[m].status

Decide(m, s, decision) ==
    LET key == <<m, s, match[m].rev>>
        decisions == IF recipient[key] = "approved" THEN recipient
                     ELSE [recipient EXCEPT ![key] = decision]
    IN  /\ Holds(m, s) /\ Unlocked(m)
        /\ requests < MaxRequests
        /\ requests' = requests + 1
        /\ recipient' = decisions
        /\ match' = [match EXCEPT ![m].status = StatusAfter(m, decisions)]
        /\ UNCHANGED <<offered, postings, messages, w, changes, faults>>

Approve(m, s) ==
    /\ s \notin approvals[m]
    /\ Decide(m, s, "approved")
    /\ approvals' = [approvals EXCEPT ![m] = @ \cup {s}]

Pass(m, s) == Decide(m, s, "passed") /\ UNCHANGED approvals

-----------------------------------------------------------------------------
(* A statement or a fetch fails: the worker's call throws.  At "next" a    *)
(* whole sync or reconciliation ends.                                      *)
Throw(i) ==
    /\ faults < MaxFaults
    /\ ~At(i, "idle")
    /\ IF At(i, "next") THEN w' = [w EXCEPT ![i] = Idle] ELSE ThrowAt(i)
    /\ faults' = faults + 1
    /\ UNCHANGED <<offered, postings, deals, messages, changes, requests>>

Restart ==
    /\ faults < MaxFaults
    /\ w' = [i \in Workers |-> Idle]
    /\ faults' = faults + 1
    /\ UNCHANGED <<offered, postings, deals, messages, changes, requests>>

-----------------------------------------------------------------------------
Init ==
    /\ offered = [l \in Listings |-> None]
    /\ status = [p \in Postings |-> "none"]
    /\ terms = [p \in Postings |-> None]
    /\ match = [m \in Pairs |-> NoMatch]
    /\ recipient = <<>>
    /\ notice = <<>>
    /\ approvals = [m \in Pairs |-> {}]
    /\ sent = EmptyBag
    /\ edits = [p \in Postings |-> 0]
    /\ w = [i \in Workers |-> Idle]
    /\ changes = 0 /\ requests = 0 /\ faults = 0

RunStep(i) ==
    \/ Create(i) \/ Load(i) \/ LoadCandidates(i) \/ Look(i) \/ Insert(i) \/ Victim(i)
    \/ Commit(i)
    \/ ReadRecipients(i) \/ Reserve(i)
    \/ Send(i) \/ Mark(i)

SyncStep(s) == Fetch(s) \/ NextListing(s) \/ MarkMissing(s)
ReconcileStep(r) == Reconcile(r) \/ NextPosting(r)

Next ==
    \/ \E i \in Workers : RunStep(i) \/ SendFails(i) \/ Throw(i)
    \/ \E s \in Syncs : SyncStep(s)
    \/ \E r \in Reconcilers : ReconcileStep(r)
    \/ \E l \in Listings, t \in Asks \cup {None} : ChangeSource(l, t)
    \/ \E c \in Chats, p \in Messages, t \in Bids : Receive(c, p, t)
    \/ \E m \in Pairs, s \in Sides : Approve(m, s) \/ Pass(m, s)
    \/ Restart

Spec == Init /\ [][Next]_vars

(* Calls that can go on do, a statement that waits for a row is next in    *)
(* line for it when its holder commits or is rolled back, and the timers   *)
(* fire again and again.                                                   *)
Fairness ==
    /\ \A i \in Workers : SF_vars(RunStep(i))
    /\ \A s \in Syncs : WF_vars(SyncStep(s))
    /\ \A r \in Reconcilers : WF_vars(ReconcileStep(r))

FairSpec == Spec /\ Fairness

-----------------------------------------------------------------------------
(* Properties.                                                             *)

Keys == Pairs \X Sides \X (Nat \ {0})
MatchType == [rev : Nat, status : {"none", "surfaced", "approved", "passed_all"}]
JobType ==
    [pc : {"next", "create", "load", "candidates", "upsert", "insert", "notify",
           "reserve", "send", "sent", "failed"},
     fetched : [Listings -> Asks \cup {None}] \cup {<<>>},
     left : SUBSET Postings, seen : SUBSET Listings,
     posting : Postings \cup {None}, terms : Terms \cup {None},
     material : BOOLEAN, candidates : SUBSET Postings,
     other : Postings \cup {None}, writes : [Pairs -> MatchType],
     surfaced : SUBSET (Pairs \X (Nat \ {0})), undecided : SUBSET Keys,
     note : Keys \cup {None}]

(* Every row, counter and local variable keeps its type.                   *)
TypeOK ==
    /\ offered \in [Listings -> Asks \cup {None}]
    /\ status \in [Postings -> {"none", "active", "source_inactive"}]
    /\ terms \in [Postings -> Terms \cup {None}]
    /\ match \in [Pairs -> MatchType]
    /\ \A k \in DOMAIN recipient :
          k \in Keys /\ recipient[k] \in {"pending", "approved", "passed"}
    /\ \A k \in DOMAIN notice : k \in Keys /\ notice[k] \in {"pending", "sent", "failed"}
    /\ approvals \in [Pairs -> SUBSET Sides]
    /\ IsABag(sent) /\ DOMAIN sent \subseteq Keys
    /\ edits \in [Postings -> Nat]
    /\ w \in [Workers -> JobType \cup {Idle}]
    /\ changes \in 0..MaxEdits /\ requests \in 0..MaxRequests /\ faults \in 0..MaxFaults

(* However many runs of the matching meet on a match, a recipient is       *)
(* notified once of each revision, and only what was sent is marked so.    *)
NotifiedOnce ==
    /\ \A k \in DOMAIN sent : sent[k] = 1 /\ k \in DOMAIN notice
    /\ \A k \in DOMAIN notice : notice[k] = "sent" => k \in DOMAIN sent

(* Every revision a match has had has its two recipients, so that no       *)
(* decision is lost: whoever has approved is on record at the revision the *)
(* match stays at, and a match is approved when, and only when, somebody   *)
(* approved it.                                                            *)
DecisionsOnRecord == \A m \in Pairs :
    /\ \A r \in 1..match[m].rev, s \in Sides : <<m, s, r>> \in DOMAIN recipient
    /\ (match[m].status = "approved") <=> (approvals[m] # {})
    /\ \A s \in approvals[m] : recipient[<<m, s, match[m].rev>>] = "approved"

(* "An approved match is not re-litigated by later attribute changes", and *)
(* no revision is ever taken back.                                         *)
ApprovedIsFinal ==
    [][\A m \in Pairs : /\ match'[m].rev >= match[m].rev
                        /\ match[m].status = "approved" => match'[m] = match[m]]_vars

(* Nothing is resurfaced without a reason: after its first revision, a     *)
(* match has no more than its two postings have had creations and material *)
(* edits, however often syncs and reconciliations looked at it.            *)
RevisionsAreEarned == \A m \in Pairs :
    match[m].rev <= 1 + edits[m[1]] + edits[m[2]]

(* Revisions come neither too often nor at the cost of a decision, however *)
(* the runs that look at a match overlap (upsertMatch).                    *)
RevisionsAccounted == DecisionsOnRecord /\ RevisionsAreEarned

Qualify(m) ==
    /\ status[m[1]] = "active" /\ status[m[2]] = "active"
    /\ <<terms[m[1]], terms[m[2]]>> \in Fits

(* A qualifying pair becomes a match, whatever webhook, sync or process    *)
(* failed: "recovers matches missed due to a webhook, API, or process      *)
(* failure".                                                               *)
QualifyingIsMatched == \A m \in Pairs : Qualify(m) ~> (match[m].rev > 0 \/ ~Qualify(m))

(* A recipient that is to decide on a match and has not been told of it.   *)
Untold(m, s) ==
    LET k == <<m, s, match[m].rev>> IN
    match[m].rev > 0 /\ recipient[k] = "pending" /\ k \notin DOMAIN sent

(* While nothing fails, whoever is to decide on a revision is told of it.  *)
RecipientsAreTold == \A m \in Pairs, s \in Sides :
    Untold(m, s) ~> (~Untold(m, s) \/ faults > 0)
=============================================================================
