---------------------------- MODULE MatchApproval ----------------------------
(***************************************************************************)
(* Approving a match, and introducing its two parties to each other, in    *)
(* backend/src/services/approval.service.ts.                               *)
(*                                                                         *)
(* A match joins a for-sale posting and a want-to-buy posting.  Approving  *)
(* it spends one of the account's complimentary approvals (or, under an    *)
(* administrator's override, books a paid one), counts towards the         *)
(* approver's posting, and entitles the approver to the other party's      *)
(* contact as soon as that party allows it.                                *)
(*                                                                         *)
(* A handler is one HTTP request or one button press.  approveMatch,       *)
(* passMatch and syncIntroduction are transactions under READ COMMITTED:   *)
(* what they write is seen by others from their commit on, and the rows    *)
(* they lock (SELECT FOR UPDATE, an UPDATE, the rows an INSERT refers to)  *)
(* are held until then.  Everything after a commit is one autocommitted    *)
(* statement, or one message, per step.                                    *)
(***************************************************************************)
EXTENDS Integers, Sequences, FiniteSets

CONSTANTS
    Users, Postings, Matches,
    FsPosting, WtbPosting,   \* the two postings of each match
    OwnerOf,                 \* canonical_user_id of each posting
    Shareable,   \* postings with a contact method authorizedForSharing
    Handlers,
    ComplimentaryLimit,      \* ACCOUNT_COMPLIMENTARY_APPROVAL_LIMIT
    MatchLimit,              \* MONITOR_APPROVED_MATCH_LIMIT
    Managed,                 \* accounts whose override an administrator flips
    MaxRequests, MaxFaults   \* bounds on one behaviour

ASSUME ConstantsAssumption ==
    /\ FsPosting \in [Matches -> Postings]
    /\ WtbPosting \in [Matches -> Postings]
    /\ OwnerOf \in [Postings -> Users]
    \* computeMatch never pairs two postings of one account
    /\ \A m \in Matches : OwnerOf[FsPosting[m]] # OwnerOf[WtbPosting[m]]
    /\ Shareable \subseteq Postings /\ Managed \subseteq Users
    /\ IsFiniteSet(Matches) /\ IsFiniteSet(Handlers)
    /\ ComplimentaryLimit \in Nat /\ MatchLimit \in Nat \ {0}
    /\ MaxRequests \in Nat /\ MaxFaults \in Nat

VARIABLES
    approvals,   \* rows of approvals: the approvers of each match
    ledger,      \* billing_ledger entries, by match and account
    trialUsed,   \* canonical_users.trial_approvals_used
    override,    \* accounts with manual_override_enabled
    approvedCount, postingStatus,   \* postings
    decision,    \* match_recipients at the match's revision
    matchStatus, \* matches.status
    confirmed,   \* counterparty_confirmations: no row, "no" or "yes"
    intro,       \* introductions.status, "none" without a row
    delivered,   \* introductions.<side>_party_contact_delivered_at is set
    told, asked, converted,   \* messages sent: contact, request, trial's end
    consented,   \* who has ever answered a request of the match with yes
    h,           \* the local state of each handler
    requests, faults

billing == <<ledger, trialUsed, override, converted>>
decisions == <<approvals, approvedCount, postingStatus, decision, matchStatus>>
connection == <<confirmed, intro, delivered, told, asked, consented>>
vars == <<billing, decisions, connection, h, requests, faults>>

Parties(m) == {OwnerOf[FsPosting[m]], OwnerOf[WtbPosting[m]]}
PostingOf(m, u) == IF u = OwnerOf[FsPosting[m]] THEN FsPosting[m] ELSE WtbPosting[m]
Other(m, u) == CHOOSE v \in Parties(m) : v # u

-----------------------------------------------------------------------------
(* Rows and their locks.                                                   *)

MatchRow(m) == <<"matches", m>>
UserRow(u) == <<"canonical_users", u>>
IntroRow(m) == <<"introductions", m>>
Rows == {MatchRow(m) : m \in Matches} \cup {UserRow(u) : u \in Users}
          \cup {IntroRow(m) : m \in Matches}

(* m, u: the arguments of the call; yes: the answer of confirmCounterparty;*)
(* kind: the ledger entry the gate allowed; who: the approvers             *)
(* syncIntroduction read; seen: the status it derived; to: the account     *)
(* deliverConnectionIfRevealed is called for; own, ref: the rows locked    *)
(* for update, and for reference by a foreign key.                         *)
Calls == [op : {"approve", "pass", "confirm"}, m : Matches, u : Users, yes : BOOLEAN]
Idle == [pc |-> "idle", own |-> {}, ref |-> {}]
Start(c, pc) == [pc |-> pc, op |-> c.op, m |-> c.m, u |-> c.u, yes |-> c.yes,
                 kind |-> "none", who |-> {}, seen |-> "none", to |-> c.u,
                 own |-> {}, ref |-> {}]

At(i, pc) == h[i].pc = pc
Goto(i, pc) == h' = [h EXCEPT ![i].pc = pc]
Unlock(x) == [x EXCEPT !.own = {}, !.ref = {}]
Finish(i) == h' = [h EXCEPT ![i] = Idle]

(* The rows a handler needs for its next statement.  A statement that      *)
(* inserts refers to the rows its foreign keys name; one that finds its    *)
(* row present updates it and refers to nothing.                           *)
Updates(i) ==
    CASE At(i, "lock") -> {MatchRow(h[i].m)}
      [] At(i, "gate") -> {UserRow(h[i].u)}
      [] At(i, "intro") \/ At(i, "claim") -> {IntroRow(h[i].m)}
      [] OTHER -> {}

Refers(i) ==
    CASE At(i, "lock") /\ h[i].op = "pass" -> {UserRow(h[i].u)}
      [] At(i, "answer") /\ confirmed[h[i].m][h[i].u] = "none" ->
            {MatchRow(h[i].m), UserRow(h[i].u)}
      [] At(i, "ask") /\ confirmed[h[i].m][Other(h[i].m, h[i].u)] = "none" ->
            {MatchRow(h[i].m), UserRow(Other(h[i].m, h[i].u))}
      [] At(i, "refer") -> {MatchRow(h[i].m)} \cup {UserRow(u) : u \in Parties(h[i].m)}
      [] OTHER -> {}

Blockers(i) ==
    {j \in Handlers \ {i} :
        \/ Updates(i) \cap (h[j].own \cup h[j].ref) # {}
        \/ Refers(i) \cap h[j].own # {}}

Granted(i) == Blockers(i) = {}

-----------------------------------------------------------------------------
(* What approvals and confirmations entitle the parties to.                *)

(* Defect: A confirmation row counts as consent, whatever its answer.      *)
ReleasableWhenAsked(m, v) == PostingOf(m, v) \in Shareable \/ confirmed[m][v] # "none"

(* contactReleasable, for the contact of v: see also getRevealedContact.   *)
Releasable(m, v) == PostingOf(m, v) \in Shareable \/ confirmed[m][v] = "yes"

(* getRevealedContact returns something to u.                              *)
Revealed(m, u) == u \in approvals[m] /\ Releasable(m, Other(m, u))

(* The status syncIntroduction derives, given the approvers it read.       *)
IntroStatus(m, approvers) ==
    LET sees == {u \in Parties(m) : u \in approvers /\ Releasable(m, Other(m, u))}
    IN  IF sees = Parties(m) THEN "completed"
        ELSE IF sees # {} THEN "contact_shared" ELSE "pending"

-----------------------------------------------------------------------------
(* Requests.  Both parties hold the buttons of the match, and the HTTP     *)
(* routes accept an answer that was not asked for.                         *)

Request(i, c) ==
    /\ At(i, "idle")
    /\ requests < MaxRequests
    /\ c.u \in Parties(c.m)
    /\ c.op = "confirm" \/ c.yes = FALSE
    /\ h' = [h EXCEPT ![i] = Start(c, IF c.op = "confirm" THEN "answer" ELSE "lock")]
    /\ requests' = requests + 1
    /\ UNCHANGED <<billing, decisions, connection, faults>>

(* setManualEntitlementOverride.                                           *)
SetOverride(u) ==
    /\ requests < MaxRequests
    /\ requests' = requests + 1
    /\ override' = IF u \in override THEN override \ {u} ELSE override \cup {u}
    /\ UNCHANGED <<ledger, trialUsed, converted, decisions, connection, h, faults>>

-----------------------------------------------------------------------------
(* approveMatch: the transaction.                                          *)

(* Defect: A repeated approval returns without ending its transaction.     *)
LockMatchLeaks(i) ==
    LET m == h[i].m  u == h[i].u IN
    /\ At(i, "lock") /\ h[i].op = "approve"
    /\ Granted(i)
    /\ IF u \in approvals[m]
       THEN h' = [h EXCEPT ![i] = [Idle EXCEPT !.own = {MatchRow(m)}]]
       ELSE h' = [h EXCEPT ![i].pc = "gate", ![i].own = @ \cup {MatchRow(m)}]
    /\ UNCHANGED <<billing, decisions, connection, requests, faults>>

(* SELECT ... FOR UPDATE on the match, and the idempotency check.          *)
LockMatch(i) ==
    LET m == h[i].m  u == h[i].u IN
    /\ At(i, "lock") /\ h[i].op = "approve"
    /\ Granted(i)
    /\ IF u \in approvals[m]
       THEN Finish(i)
       ELSE h' = [h EXCEPT ![i].pc = "gate", ![i].own = @ \cup {MatchRow(m)}]
    /\ UNCHANGED <<billing, decisions, connection, requests, faults>>

(* Defect: The gate reads the trial counter without FOR UPDATE.            *)
GateUnlocked(i) ==
    LET u == h[i].u
        Allow(kind) == h' = [h EXCEPT ![i].pc = "read", ![i].kind = kind]
    IN
    /\ At(i, "gate")
    /\ \/ trialUsed[u] < ComplimentaryLimit /\ Allow("complimentary_approval")
       \/ trialUsed[u] >= ComplimentaryLimit /\ u \in override /\ Allow("paid_approval")
       \/ trialUsed[u] >= ComplimentaryLimit /\ u \notin override /\ Finish(i)
    /\ UNCHANGED <<billing, decisions, connection, requests, faults>>

(* checkApprovalGate: the account's row is locked before it is read.       *)
Gate(i) ==
    LET u == h[i].u
        Allow(kind) == h' = [h EXCEPT ![i].pc = "read", ![i].kind = kind,
                                      ![i].own = @ \cup {UserRow(u)}]
    IN
    /\ At(i, "gate")
    /\ Granted(i)
    /\ \/ trialUsed[u] < ComplimentaryLimit /\ Allow("complimentary_approval")
       \/ trialUsed[u] >= ComplimentaryLimit /\ u \in override /\ Allow("paid_approval")
       \/ trialUsed[u] >= ComplimentaryLimit /\ u \notin override /\ Finish(i)
    /\ UNCHANGED <<billing, decisions, connection, requests, faults>>

(* syncIntroduction, first query: the approvers, the caller's own row      *)
(* among them when it has one.                                             *)
ReadApprovals(i) ==
    /\ At(i, "approvers")
    /\ h' = [h EXCEPT ![i].pc = "read", ![i].who = approvals[h[i].m]]
    /\ UNCHANGED <<billing, decisions, connection, requests, faults>>

(* Second query, and the status that follows.  An approver reads the       *)
(* approvals under the lock that guards them.                              *)
ReadConfirmations(i) ==
    LET m == h[i].m
        who == IF h[i].op = "approve" THEN approvals[m] \cup {h[i].u} ELSE h[i].who
    IN
    /\ At(i, "read")
    /\ h' = [h EXCEPT ![i].pc = "intro", ![i].seen = IntroStatus(m, who)]
    /\ UNCHANGED <<billing, decisions, connection, requests, faults>>

(* INSERT INTO introductions ... ON CONFLICT DO UPDATE: waits for another  *)
(* transaction's row, then updates it, or inserts one.                     *)
WriteIntro(i) ==
    LET m == h[i].m IN
    /\ At(i, "intro")
    /\ Granted(i)
    /\ h' = [h EXCEPT ![i].pc = IF intro[m] = "none" THEN "refer" ELSE "commit",
                      ![i].own = @ \cup {IntroRow(m)}]
    /\ UNCHANGED <<billing, decisions, connection, requests, faults>>

(* The foreign keys of an inserted introduction.                           *)
ReferIntro(i) ==
    /\ At(i, "refer")
    /\ Granted(i)
    /\ h' = [h EXCEPT ![i].pc = "commit", ![i].ref = Refers(i)]
    /\ UNCHANGED <<billing, decisions, connection, requests, faults>>

(* COMMIT: ledger entry, approval, trial use, posting count and limit,     *)
(* recipient's decision, match status and introduction, all at once.       *)
LastFree(u) == trialUsed[u] + 1 = ComplimentaryLimit

CommitApproval(i) ==
    LET m == h[i].m
        u == h[i].u
        p == PostingOf(m, u)
        free == h[i].kind = "complimentary_approval"
    IN
    /\ At(i, "commit") /\ h[i].op = "approve"
    /\ ledger' = [ledger EXCEPT ![m][u] = Append(@, h[i].kind)]
    /\ approvals' = [approvals EXCEPT ![m] = @ \cup {u}]
    /\ trialUsed' = IF free THEN [trialUsed EXCEPT ![u] = @ + 1] ELSE trialUsed
    /\ approvedCount' = [approvedCount EXCEPT ![p] = @ + 1]
    /\ postingStatus' = IF approvedCount[p] + 1 >= MatchLimit
                        THEN [postingStatus EXCEPT ![p] = "completed_match_limit"]
                        ELSE postingStatus
    /\ decision' = [decision EXCEPT ![m][u] = "approved"]
    /\ matchStatus' = [matchStatus EXCEPT ![m] = "approved"]
    /\ intro' = [intro EXCEPT ![m] = h[i].seen]
    /\ h' = [h EXCEPT ![i] = [Unlock(@) EXCEPT
                !.pc = IF free /\ LastFree(u) THEN "convert" ELSE "reveal"]]
    /\ UNCHANGED <<override, converted, confirmed, delivered, told, asked,
                   consented, requests, faults>>

(* sendConversionMessage.                                                  *)
Convert(i) ==
    /\ At(i, "convert")
    /\ converted' = [converted EXCEPT ![h[i].u] = @ + 1]
    /\ Goto(i, "reveal")
    /\ UNCHANGED <<ledger, trialUsed, override, decisions, connection, requests, faults>>

-----------------------------------------------------------------------------
(* deliverConnectionIfRevealed, for h[i].to.                               *)

AfterDelivery(i) == IF h[i].op = "approve" THEN Goto(i, "ask") ELSE Finish(i)

Reveal(i) ==
    /\ At(i, "reveal")
    /\ IF Revealed(h[i].m, h[i].to) THEN Goto(i, "claim") ELSE AfterDelivery(i)
    /\ UNCHANGED <<billing, decisions, connection, requests, faults>>

(* Defect: The delivery's UPDATE without its IS NULL condition.            *)
UndeliveredAlways(m, u) == TRUE

(* UPDATE ... SET <side>_delivered_at = now() WHERE it IS NULL.            *)
Undelivered(m, u) == u \notin delivered[m]

Claim(i) ==
    LET m == h[i].m  to == h[i].to IN
    /\ At(i, "claim")
    /\ Granted(i)
    /\ IF Undelivered(m, to)
       THEN /\ delivered' = [delivered EXCEPT ![m] = @ \cup {to}]
            /\ Goto(i, "tell")
       ELSE AfterDelivery(i) /\ UNCHANGED delivered
    /\ UNCHANGED <<billing, decisions, confirmed, intro, told, asked, consented,
                   requests, faults>>

Tell(i) ==
    /\ At(i, "tell")
    /\ told' = [told EXCEPT ![h[i].m][h[i].to] = @ + 1]
    /\ AfterDelivery(i)
    /\ UNCHANGED <<billing, decisions, confirmed, intro, delivered, asked, consented,
                   requests, faults>>

-----------------------------------------------------------------------------
(* requestCounterpartyConfirmationIfNeeded.                                *)

(* Defect: The placeholder's INSERT with DO UPDATE instead of DO NOTHING.  *)
PlaceholderOverwrites(m, v) == confirmed' = [confirmed EXCEPT ![m][v] = "no"]

(* The placeholder an approval leaves, unless there is a row already.      *)
Placeholder(m, v) ==
    confirmed' = IF confirmed[m][v] = "none"
                 THEN [confirmed EXCEPT ![m][v] = "no"] ELSE confirmed

Ask(i) ==
    LET m == h[i].m
        v == Other(m, h[i].u)
        shared == PostingOf(m, v) \in Shareable
    IN
    /\ At(i, "ask")
    /\ shared \/ Granted(i)
    /\ IF shared THEN UNCHANGED confirmed ELSE Placeholder(m, v)
    /\ IF ~shared /\ confirmed[m][v] = "none" THEN Goto(i, "request") ELSE Finish(i)
    /\ UNCHANGED <<billing, decisions, intro, delivered, told, asked, consented,
                   requests, faults>>

SendRequest(i) ==
    /\ At(i, "request")
    /\ asked' = [asked EXCEPT ![h[i].m][Other(h[i].m, h[i].u)] = @ + 1]
    /\ Finish(i)
    /\ UNCHANGED <<billing, decisions, confirmed, intro, delivered, told, consented,
                   requests, faults>>

-----------------------------------------------------------------------------
(* passMatch: one transaction, over when it has the match's row.           *)

KeepsDecision(m, u) == decision[m][u] = "approved"

Pass(i) ==
    LET m == h[i].m
        u == h[i].u
        d == IF KeepsDecision(m, u) THEN decision[m] ELSE [decision[m] EXCEPT ![u] = "passed"]
    IN
    /\ At(i, "lock") /\ h[i].op = "pass"
    /\ Granted(i)
    /\ decision' = [decision EXCEPT ![m] = d]
    /\ matchStatus' = [matchStatus EXCEPT ![m] =
            IF \E v \in Parties(m) : d[v] = "approved" THEN "approved"
            ELSE IF \A v \in Parties(m) : d[v] = "passed" THEN "passed_all" ELSE @]
    /\ Finish(i)
    /\ UNCHANGED <<billing, approvals, approvedCount, postingStatus, connection,
                   requests, faults>>

-----------------------------------------------------------------------------
(* confirmCounterparty: the answer is committed by itself; the             *)
(* transaction around syncIntroduction comes after it.                     *)

Answer(i) ==
    LET m == h[i].m  u == h[i].u IN
    /\ At(i, "answer")
    /\ Granted(i)
    /\ confirmed' = [confirmed EXCEPT ![m][u] = IF h[i].yes THEN "yes" ELSE "no"]
    /\ consented' = IF h[i].yes THEN [consented EXCEPT ![m] = @ \cup {u}] ELSE consented
    /\ Goto(i, "approvers")
    /\ UNCHANGED <<billing, decisions, intro, delivered, told, asked, requests, faults>>

(* Defect: A confirmation that leaves delivery to the approval.            *)
CommitSyncOnly(i) ==
    /\ At(i, "commit") /\ h[i].op = "confirm"
    /\ intro' = [intro EXCEPT ![h[i].m] = h[i].seen]
    /\ Finish(i)
    /\ UNCHANGED <<billing, decisions, confirmed, delivered, told, asked, consented,
                   requests, faults>>

(* COMMIT, then the query for the approvers that wait for this contact.    *)
CommitSync(i) ==
    /\ At(i, "commit") /\ h[i].op = "confirm"
    /\ intro' = [intro EXCEPT ![h[i].m] = h[i].seen]
    /\ IF h[i].yes THEN h' = [h EXCEPT ![i] = [Unlock(@) EXCEPT !.pc = "waiting"]]
                   ELSE Finish(i)
    /\ UNCHANGED <<billing, decisions, confirmed, delivered, told, asked, consented,
                   requests, faults>>

(* A match has two parties: at most one approver is not the caller.        *)
FindWaiting(i) ==
    LET v == Other(h[i].m, h[i].u) IN
    /\ At(i, "waiting")
    /\ IF v \in approvals[h[i].m]
       THEN h' = [h EXCEPT ![i].pc = "reveal", ![i].to = v]
       ELSE Finish(i)
    /\ UNCHANGED <<billing, decisions, connection, requests, faults>>

-----------------------------------------------------------------------------
(* PostgreSQL aborts one transaction of a cycle of waiting ones, and the   *)
(* call throws; so does a call whose connection fails.  A restart ends     *)
(* every call under way.                                                   *)

Deadlocked(i) ==
    \E S \in SUBSET Handlers :
        /\ i \in UNION {Blockers(j) : j \in S}
        /\ i \in S
        /\ \A j \in S : Blockers(j) \cap S # {}

Victim(i) ==
    /\ Deadlocked(i)
    /\ Finish(i)
    /\ UNCHANGED <<billing, decisions, connection, requests, faults>>

Throw(i) ==
    /\ faults < MaxFaults
    /\ ~ At(i, "idle")
    /\ Finish(i)
    /\ faults' = faults + 1
    /\ UNCHANGED <<billing, decisions, connection, requests>>

Restart ==
    /\ faults < MaxFaults
    /\ h' = [i \in Handlers |-> Idle]
    /\ faults' = faults + 1
    /\ UNCHANGED <<billing, decisions, connection, requests>>

(* An adapter answers { ok: false }, which no caller here looks at.        *)
SendFails(i) ==
    /\ faults < MaxFaults
    /\ \/ At(i, "tell") /\ AfterDelivery(i)
       \/ At(i, "request") /\ Finish(i)
       \/ At(i, "convert") /\ Goto(i, "reveal")
    /\ faults' = faults + 1
    /\ UNCHANGED <<billing, decisions, connection, requests>>

-----------------------------------------------------------------------------

Init ==
    /\ approvals = [m \in Matches |-> {}]
    /\ ledger = [m \in Matches |-> [u \in Users |-> <<>>]]
    /\ trialUsed = [u \in Users |-> 0]
    /\ override = {}
    /\ approvedCount = [p \in Postings |-> 0]
    /\ postingStatus = [p \in Postings |-> "active"]
    /\ decision = [m \in Matches |-> [u \in Users |-> "pending"]]
    /\ matchStatus = [m \in Matches |-> "surfaced"]
    /\ confirmed = [m \in Matches |-> [u \in Users |-> "none"]]
    /\ intro = [m \in Matches |-> "none"]
    /\ delivered = [m \in Matches |-> {}]
    /\ told = [m \in Matches |-> [u \in Users |-> 0]]
    /\ asked = [m \in Matches |-> [u \in Users |-> 0]]
    /\ converted = [u \in Users |-> 0]
    /\ consented = [m \in Matches |-> {}]
    /\ h = [i \in Handlers |-> Idle]
    /\ requests = 0
    /\ faults = 0

Step(i) ==
    \/ LockMatch(i) \/ Gate(i) \/ CommitApproval(i) \/ Convert(i)
    \/ ReadApprovals(i) \/ ReadConfirmations(i) \/ WriteIntro(i) \/ ReferIntro(i)
    \/ Reveal(i) \/ Claim(i) \/ Tell(i)
    \/ Ask(i) \/ SendRequest(i)
    \/ Pass(i)
    \/ Answer(i) \/ CommitSync(i) \/ FindWaiting(i)
    \/ Victim(i)

Next ==
    \/ \E i \in Handlers, c \in Calls : Request(i, c)
    \/ \E u \in Managed : SetOverride(u)
    \/ \E i \in Handlers : Step(i)
    \/ \E i \in Handlers : Throw(i) \/ SendFails(i)
    \/ Restart

Spec == Init /\ [][Next]_vars

(* A call that can go on does: its awaits are answered, and a statement    *)
(* whose locks are free gets them.  Nothing obliges anyone to call.        *)
FairSpec == Spec /\ \A i \in Handlers : WF_vars(Step(i))

-----------------------------------------------------------------------------
(* Properties.                                                             *)

(* Every variable holds what its column, or its local, can hold.           *)
HandlerType ==
    [pc : {"lock", "gate", "approvers", "read", "intro", "refer", "commit", "convert",
           "reveal", "claim", "tell", "ask", "request", "answer", "waiting"},
     op : {"approve", "pass", "confirm"}, m : Matches, u : Users, yes : BOOLEAN,
     kind : {"none", "complimentary_approval", "paid_approval"},
     who : SUBSET Users,
     seen : {"none", "pending", "contact_shared", "completed"}, to : Users,
     own : SUBSET Rows, ref : SUBSET Rows]

TypeOK ==
    /\ approvals \in [Matches -> SUBSET Users]
    /\ ledger \in [Matches -> [Users -> Seq({"complimentary_approval", "paid_approval"})]]
    /\ trialUsed \in [Users -> Nat]
    /\ override \subseteq Users
    /\ approvedCount \in [Postings -> Nat]
    /\ postingStatus \in [Postings -> {"active", "completed_match_limit"}]
    /\ decision \in [Matches -> [Users -> {"pending", "approved", "passed"}]]
    /\ matchStatus \in [Matches -> {"surfaced", "approved", "passed_all"}]
    /\ confirmed \in [Matches -> [Users -> {"none", "no", "yes"}]]
    /\ intro \in [Matches -> {"none", "pending", "contact_shared", "completed"}]
    /\ delivered \in [Matches -> SUBSET Users]
    /\ told \in [Matches -> [Users -> Nat]]
    /\ asked \in [Matches -> [Users -> Nat]]
    /\ converted \in [Users -> Nat]
    /\ consented \in [Matches -> SUBSET Users]
    /\ h \in [Handlers -> HandlerType \cup {Idle}]
    /\ requests \in 0..MaxRequests /\ faults \in 0..MaxFaults

(* An approval and its ledger entry exist together and once, however often *)
(* and however concurrently the button is pressed; the trial counter is    *)
(* the number of complimentary entries, and never passes the limit even    *)
(* when the account approves several matches at the same time.             *)
ComplimentaryOf(u) == {m \in Matches : ledger[m][u] = <<"complimentary_approval">>}

ApprovalsBilledOnce ==
    /\ \A m \in Matches, u \in Users : Len(ledger[m][u]) = IF u \in approvals[m] THEN 1 ELSE 0
    /\ \A u \in Users : /\ trialUsed[u] = Cardinality(ComplimentaryOf(u))
                        /\ trialUsed[u] <= ComplimentaryLimit

(* A posting's count is the number of matches its owner approved for it,   *)
(* and the posting is complete from the moment the count meets the limit.  *)
ApprovedFor(p) ==
    {m \in Matches : p \in {FsPosting[m], WtbPosting[m]} /\ OwnerOf[p] \in approvals[m]}

PostingsStopAtLimit ==
    \A p \in Postings :
        /\ approvedCount[p] = Cardinality(ApprovedFor(p))
        /\ (postingStatus[p] = "completed_match_limit") <=> (approvedCount[p] >= MatchLimit)

(* A pass, early, late or repeated, never takes back an approval: whoever  *)
(* has an approval row is recorded as approving, and the match as approved.*)
ApprovalsStand ==
    \A m \in Matches :
        /\ \A u \in Users : (u \in approvals[m]) <=> (decision[m][u] = "approved")
        /\ (approvals[m] # {}) <=> (matchStatus[m] = "approved")

(* What an approval leaves behind agrees, statement by statement of calls  *)
(* that block, fail and are repeated: its fee, the counts of both limits,  *)
(* its decision and the status of the match (approveMatch, passMatch).     *)
ApprovalsAccounted == ApprovalsBilledOnce /\ PostingsStopAtLimit /\ ApprovalsStand

(* Nobody is given the other party's contact without having approved the   *)
(* match and without that party's consent: a shareable contact method, or  *)
(* a yes at some time before.                                              *)
ContactAuthorized ==
    \A m \in Matches, u \in Users :
        told[m][u] > 0 => /\ u \in approvals[m]
                          /\ LET v == Other(m, u)
                             IN  PostingOf(m, v) \in Shareable \/ v \in consented[m]

(* Two events can each find the contact revealable at once, and either may *)
(* be repeated; the contact, the request for it, and the message at the    *)
(* end of the trial are still sent at most once.                           *)
MessagesSentOnce ==
    /\ \A m \in Matches, u \in Users : told[m][u] <= 1 /\ asked[m][u] <= 1
    /\ \A u \in Users : converted[u] <= 1

(* The placeholder a request leaves never overwrites an answer: a yes is   *)
(* only taken back by the party that gave it.                              *)
ConsentKept ==
    [][\A m \in Matches, u \in Users :
          confirmed[m][u] = "yes" /\ confirmed'[m][u] # "yes" =>
             \E i \in Handlers : At(i, "answer") /\ h[i].m = m /\ h[i].u = u /\ ~h[i].yes]_vars

(* While nothing fails, a contact that an approver may see and that stays  *)
(* revealable is delivered, whichever of approval and consent came last    *)
(* and however their calls interleave.                                     *)
RevealedIsDelivered ==
    \A m \in Matches : \A u \in Parties(m) :
        Revealed(m, u) ~> (told[m][u] = 1 \/ ~Revealed(m, u) \/ faults > 0)

(* Every call ends: no lock is left behind by a call that is over, and     *)
(* calls that wait for each other are told apart.                          *)
CallsEnd == \A i \in Handlers : ~At(i, "idle") ~> At(i, "idle")
=============================================================================
