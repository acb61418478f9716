---------------------------- MODULE AgentMatching ----------------------------
(***************************************************************************)
(* The agent's automatic matching, in whatsapp-agent/src/postings:         *)
(* ingest.ts, matching.ts and notify.ts.                                   *)
(*                                                                         *)
(* A new or changed posting is tested against every active posting of the  *)
(* other side; a match is a row with a revision that grows whenever its    *)
(* score or reasons change, and each owner is told of each revision on a   *)
(* card.  The reply "approve <id>" reveals the other side's contact to     *)
(* whoever sent it, without waiting for the other side.                    *)
(*                                                                         *)
(* Everything runs in one process, and what is in memory (the handlers,    *)
(* the timers of staggered cards) is lost when it restarts.  A handler is  *)
(* a webhook request, an inventory sync, a timer or a reconciliation; they *)
(* interleave at every await, that is at every statement and every         *)
(* message.  Only approveMatch is a transaction.                           *)
(***************************************************************************)
EXTENDS ApprovalUsage, Bags

CONSTANTS
    Listings, Requests,  \* FS and WTB postings
    Owner,               \* canonical_user_id, Nobody for a mirrored listing
    Direct,              \* postings dictated to Fi
    Chats,               \* postings read in a monitored group
    Terms,               \* the fields scoreMatch compares
    Starts,              \* bounds, with the postings there are at first
    Fits,                \* pairs of terms it accepts, each its own reasons
    Handlers,
    Cap, MemberCap,      \* maxMatchesPerListing, maxMatchesPerListingPaying
    MatchLimit,          \* approved matches that complete a posting
    Nobody, None

Postings == Listings \cup Requests
Pairs == Listings \X Requests
Sides == {"fs", "wtb"}

ASSUME MatchingAssumption ==
    /\ Listings \cap Requests = {} /\ IsFiniteSet(Postings)
    /\ IsFiniteSet(Handlers) /\ Handlers # {}
    /\ Owner \in [Postings -> Users \cup {Nobody}] /\ Nobody \notin Users
    /\ Direct \cap Chats = {} /\ Direct \cup Chats = {p \in Postings : Owner[p] # Nobody}
    /\ Fits \subseteq Terms \X Terms /\ None \notin Postings \cup Terms \cup Fits
    /\ Starts \subseteq Bounds \X [Postings -> Terms \cup {None}]
    /\ Cap \in Nat /\ MemberCap \in Nat /\ MatchLimit \in Nat \ {0}

VARIABLES
    status, terms, approvedCount,  \* postings
    match,       \* matches: revision (0 without a row) and reasons
    recipient,   \* match_recipients by pair, account and revision
    revealed,    \* who has been shown whose contact: connected_at, the reply
    monitoring,  \* the group is on the allowlist
    optedOut,    \* accounts that sent STOP
    timers,      \* scheduled cards: a bag of pair, revision and initiator
    sent,        \* cards sent: a bag of pair, account and revision
    initial,     \* cards of a posting's initial batches that were noted as shown
    h            \* the local state of each handler

rows == <<status, terms, approvedCount, match, recipient, revealed>>
switches == <<monitoring, optedOut, plan>>
cards == <<sent, initial>>
account == <<usage, userLock, searching>>
vars == <<rows, switches, cards, account, timers, h, left>>

Own(m, s) == IF s = "fs" THEN m[1] ELSE m[2]
Counterpart(m, s) == IF s = "fs" THEN m[2] ELSE m[1]
Party(m, s) == Owner[Own(m, s)]
SideOf(m, u) == CHOOSE s \in Sides : Party(m, s) = u
Parties(m) == {Party(m, s) : s \in Sides} \ {Nobody}
Opposite(p) == IF p \in Listings THEN Requests ELSE Listings
PairOf(p, q) == IF p \in Listings THEN <<p, q>> ELSE <<q, p>>
Reasons(p, t, q, v) == IF p \in Listings THEN <<t, v>> ELSE <<v, t>>
Current(m) == <<terms[m[1]], terms[m[2]]>>
Monitored(p) == p \in Chats => monitoring      \* isPostingMonitoringEnabled

(* The local state of a handler.                                           *)
Idle == [pc |-> "idle"]
Job(pc, kind, posting) ==
    [pc |-> pc, kind |-> kind, posting |-> posting, todo |-> {}, pending |-> {},
     m |-> None, reasons |-> None, rev |-> 0, side |-> "fs", face |-> None, paying |-> FALSE]
Reply(pc, m, u) == [pc |-> pc, m |-> m, u |-> u, rev |-> 0, plan |-> plan[u]]

At(i, pc) == h[i].pc = pc
Goto(i, pc) == h' = [h EXCEPT ![i].pc = pc]
Done(i) == h' = [h EXCEPT ![i] = Idle]
(* Handlers are alike: the first idle one takes the next call.             *)
Fresh == CHOOSE i \in Handlers : At(i, "idle")
SomeIdle == \E i \in Handlers : At(i, "idle")
Take(job) == SomeIdle /\ h' = [h EXCEPT ![Fresh] = job]

(* Rows of match_recipients, and which of them approveMatch has locked.    *)
Key(m, u, r) == <<m, u, r>>
RowsOf(m, u) == {k \in DOMAIN recipient : k[1] = m /\ k[2] = u}
Latest(m, u) == CHOOSE k \in RowsOf(m, u) : \A l \in RowsOf(m, u) : l[3] <= k[3]
RowLocked(k) == \E i \in Handlers : At(i, "commit") /\ Key(h[i].m, h[i].u, h[i].rev) = k
NewRow(paying) == [decision |-> "pending", delivered |-> FALSE, paying |-> paying]
Inserted(key, row) == [k \in DOMAIN recipient \cup {key} |-> IF k = key THEN row ELSE recipient[k]]

-----------------------------------------------------------------------------
(* Storing a posting and finding its candidates: ingestChatPosting,        *)
(* createDirectPosting, mirrorApiPosting, then runImmediateMatch.          *)

(* A dictated posting that is no longer active would become a new posting. *)
Ingest(p, t) ==
    /\ Left("calls") /\ Left("edits")
    /\ p \in Direct => status[p] \in {"none", "active"}
    /\ status' = IF status[p] = "none" THEN [status EXCEPT ![p] = "active"] ELSE status
    /\ terms' = [terms EXCEPT ![p] = t]
    /\ LET material == status[p] = "none" \/ t # terms[p] \/ p \in Direct
           eligible == status'[p] = "active"
       IN  IF material /\ eligible THEN Take(Job("search", "ingest", p))
           ELSE SomeIdle /\ UNCHANGED h
    /\ left' = [left EXCEPT !.edits = @ - 1, !.calls = @ - 1]
    /\ UNCHANGED <<approvedCount, match, recipient, revealed, switches, cards, account, timers>>

(* findOppositeSideCandidates; the scores are those of the rows read here. *)
Search(i) ==
    LET p == h[i].posting
        candidates == {q \in Opposite(p) : status[q] = "active" /\ Owner[q] # Owner[p]}
    IN
    /\ At(i, "search")
    /\ h' = [h EXCEPT ![i].pc = "next", ![i].todo =
               {<<PairOf(p, q), Reasons(p, terms[p], q, terms[q])>> :
                  q \in {c \in candidates : Reasons(p, terms[p], c, terms[c]) \in Fits}}]
    /\ UNCHANGED <<rows, switches, cards, account, timers, left>>

(* runReconciliation, on its own timer; ticks may overlap.                 *)
Reconcile ==
    LET active == {p \in Postings : status[p] = "active"}
        pairs == {m \in Pairs : m[1] \in active /\ m[2] \in active
                                /\ (Party(m, "fs") = Nobody \/ Party(m, "fs") # Party(m, "wtb"))}
    IN
    /\ Take([Job("next", "reconcile", None) EXCEPT !.todo =
               {<<m, Current(m)>> : m \in {n \in pairs : Current(n) \in Fits}}])
    /\ IF left.sweeps = Endless THEN UNCHANGED left ELSE Spend("sweeps")
    /\ UNCHANGED <<rows, switches, cards, account, timers>>

-----------------------------------------------------------------------------
(* upsertMatch: a SELECT, then an INSERT or an UPDATE.                     *)

Select(i) ==
    /\ At(i, "next")
    /\ \E item \in h[i].todo :
         h' = [h EXCEPT ![i].pc = "write", ![i].m = item[1], ![i].reasons = item[2],
                        ![i].todo = @ \ {item}, ![i].rev = match[item[1]].rev,
                        ![i].face = match[item[1]].reasons]
    /\ UNCHANGED <<rows, switches, cards, account, timers, left>>

(* A dictated posting's cards wait until the conversation has answered.    *)
Told(i, changed, rev) ==
    IF h[i].kind = "reconcile" \/ (changed /\ h[i].posting \notin Direct)
    THEN [h[i] EXCEPT !.pc = "gate", !.rev = rev, !.face = None]
    ELSE [h[i] EXCEPT !.pc = "next", !.rev = 0, !.face = None, !.m = None, !.reasons = None,
                      !.pending = IF changed THEN @ \cup {<<h[i].m, rev, h[i].posting>>} ELSE @]

Upsert(i) ==
    LET x == h[i]
        changed == x.face # x.reasons
        rev == IF changed THEN x.rev + 1 ELSE x.rev
    IN
    /\ At(i, "write")
    /\ x.rev = 0 => match[x.m].rev = 0       \* else the unique index: Throw
    /\ match' = IF changed THEN [match EXCEPT ![x.m] = [rev |-> rev, reasons |-> x.reasons]]
                ELSE match
    /\ h' = [h EXCEPT ![i] = Told(i, changed, rev)]
    /\ UNCHANGED <<status, terms, approvedCount, recipient, revealed, switches, cards,
                   account, timers, left>>

(* The insert meets the row another run has inserted: the exception ends   *)
(* the run, and nobody is told of its other matches for now.               *)
InsertConflict(i) ==
    /\ At(i, "write") /\ h[i].rev = 0 /\ match[h[i].m].rev # 0
    /\ Done(i)
    /\ UNCHANGED <<rows, switches, cards, account, timers, left>>

(* The run is over: scheduleStaggeredMatchNotifications.                   *)
Finish(i) ==
    /\ At(i, "next") /\ h[i].todo = {}
    /\ timers' = timers (+) SetToBag(h[i].pending)
    /\ Done(i)
    /\ UNCHANGED <<rows, switches, cards, account, left>>

Fire ==
    \E t \in BagToSet(timers) :
       /\ Take([Job("gate", "timer", t[3]) EXCEPT !.m = t[1], !.rev = t[2]])
       /\ timers' = timers (-) SetToBag({t})
       /\ UNCHANGED <<rows, switches, cards, account, left>>

-----------------------------------------------------------------------------
(* notifyMatch: notifyOneRecipient for the fs side, then for the wtb side. *)

OtherSideOrOut(i) ==
    IF h[i].side = "fs" THEN [h[i] EXCEPT !.pc = "gate", !.side = "wtb", !.paying = FALSE]
    ELSE [h[i] EXCEPT !.pc = "next", !.side = "fs", !.m = None, !.reasons = None, !.rev = 0,
                      !.paying = FALSE]
NextSide(i) == h' = [h EXCEPT ![i] = OtherSideOrOut(i)]

CapOf(u) == IF Paying(u) THEN MemberCap ELSE Cap
ShownFor(p, u) ==
    Cardinality({k \in DOMAIN recipient : k[2] = u /\ p \in {k[1][1], k[1][2]}
                                          /\ recipient[k].delivered /\ ~recipient[k].paying})

(* The allowlist, the counterpart's plan and the cap of an initial batch.  *)
Gate(i) ==
    LET p == Own(h[i].m, h[i].side)
        u == Owner[p]
        c == Party(h[i].m, IF h[i].side = "fs" THEN "wtb" ELSE "fs")
        paying == c # Nobody /\ Paying(c)
    IN
    /\ At(i, "gate")
    /\ IF u = Nobody \/ ~Monitored(p) THEN NextSide(i)
       ELSE h' = [h EXCEPT ![i].paying = paying,
                           ![i].pc = IF ~paying /\ p = h[i].posting /\ ShownFor(p, u) >= CapOf(u)
                                     THEN "hold" ELSE "claim"]
    /\ UNCHANGED <<rows, switches, cards, account, timers, left>>

CardKey(i) == Key(h[i].m, Party(h[i].m, h[i].side), h[i].rev)
InBatch(i) == Own(h[i].m, h[i].side) = h[i].posting /\ ~h[i].paying

(* Over the cap: the row is kept and the card is not sent.                 *)
Hold(i) ==
    LET k == CardKey(i) IN
    /\ At(i, "hold") /\ ~Waits(k[2])
    /\ recipient' = IF k \in DOMAIN recipient THEN recipient ELSE Inserted(k, NewRow(FALSE))
    /\ NextSide(i)
    /\ UNCHANGED <<status, terms, approvedCount, match, revealed, switches, cards, account,
                   timers, left>>

(* (Defect: ON CONFLICT DO NOTHING.)                                       *)
ClaimOnce(i) ==
    LET k == CardKey(i) IN
    /\ At(i, "claim") /\ ~Waits(k[2])
    /\ IF k \in DOMAIN recipient THEN NextSide(i) /\ UNCHANGED recipient
       ELSE Goto(i, "send") /\ recipient' = Inserted(k, NewRow(h[i].paying))
    /\ UNCHANGED <<status, terms, approvedCount, match, revealed, switches, cards, account,
                   timers, left>>

(* ON CONFLICT DO UPDATE: any card not yet delivered can be claimed again. *)
Claim(i) ==
    LET k == CardKey(i)
        known == k \in DOMAIN recipient
    IN
    /\ At(i, "claim") /\ ~Waits(k[2])
    /\ IF known /\ (recipient[k].delivered \/ recipient[k].decision # "pending")
       THEN NextSide(i) /\ UNCHANGED recipient
       ELSE Goto(i, "send") /\ recipient' = IF known THEN recipient
                                            ELSE Inserted(k, NewRow(h[i].paying))
    /\ UNCHANGED <<status, terms, approvedCount, match, revealed, switches, cards, account,
                   timers, left>>

(* No phone to reach, or STOP: the claim stays, and can be claimed again.  *)
Skip(i) ==
    /\ At(i, "send") /\ CardKey(i)[2] \in optedOut
    /\ NextSide(i)
    /\ UNCHANGED <<rows, switches, cards, account, timers, left>>

Send(i) ==
    /\ At(i, "send") /\ CardKey(i)[2] \notin optedOut
    /\ sent' = sent (+) SetToBag({CardKey(i)})
    /\ Goto(i, "mark")
    /\ UNCHANGED <<rows, switches, initial, account, timers, left>>

Mark(i) ==
    LET k == CardKey(i)
        p == Own(h[i].m, h[i].side)
        shown == k \in DOMAIN recipient /\ ~recipient[k].delivered /\ ~recipient[k].paying
    IN
    /\ At(i, "mark") /\ ~RowLocked(k)
    /\ recipient' = IF k \in DOMAIN recipient THEN [recipient EXCEPT ![k].delivered = TRUE]
                    ELSE recipient
    /\ initial' = IF shown /\ InBatch(i) THEN [initial EXCEPT ![p] = @ + 1] ELSE initial
    /\ NextSide(i)
    /\ UNCHANGED <<status, terms, approvedCount, match, revealed, switches, sent, account,
                   timers, left>>

(* The send or the mark threw: the row is deleted for a later retry.       *)
Undelivered(i) ==
    /\ h[i].pc \in {"send", "mark"} /\ Spend("faults")
    /\ Goto(i, "discard")
    /\ UNCHANGED <<rows, switches, cards, account, timers>>

Discard(i) ==
    LET k == CardKey(i) IN
    /\ At(i, "discard") /\ ~RowLocked(k)
    /\ recipient' = [r \in {q \in DOMAIN recipient : q # k \/ recipient[k].decision # "pending"}
                       |-> recipient[r]]
    /\ NextSide(i)
    /\ UNCHANGED <<status, terms, approvedCount, match, revealed, switches, cards, account,
                   timers, left>>

-----------------------------------------------------------------------------
(* The replies "pass <id>" and "approve <id>".                             *)

PassMatch(m, u) ==
    /\ u \in Parties(m) /\ Monitored(Own(m, SideOf(m, u)))
    /\ RowsOf(m, u) # {} /\ recipient[Latest(m, u)].decision = "pending"
    /\ Take([Reply("pass", m, u) EXCEPT !.rev = Latest(m, u)[3]])
    /\ Spend("calls")
    /\ UNCHANGED <<rows, switches, cards, account, timers>>

(* The row is written by its id, whatever it has become.                   *)
Pass(i) ==
    LET k == Key(h[i].m, h[i].u, h[i].rev) IN
    /\ At(i, "pass") /\ ~RowLocked(k)
    /\ recipient' = IF k \in DOMAIN recipient THEN [recipient EXCEPT ![k].decision = "passed"]
                    ELSE recipient
    /\ Done(i)
    /\ UNCHANGED <<status, terms, approvedCount, match, revealed, switches, cards, account,
                   timers, left>>

(* approveMatch reads the entitlement before its transaction ...           *)
ApproveMatch(m, u) ==
    /\ u \in Parties(m) /\ match[m].rev > 0
    /\ Take(Reply("lock", m, u))
    /\ Spend("calls")
    /\ UNCHANGED <<rows, switches, cards, account, timers>>

(* ... locks the account and the latest row of the recipient ...           *)
Lock(i) ==
    LET m == h[i].m  u == h[i].u IN
    /\ At(i, "lock") /\ ~Waits(u)
    /\ IF RowsOf(m, u) = {} \/ ~Monitored(Own(m, SideOf(m, u)))
       THEN Done(i) /\ UNCHANGED userLock
       ELSE /\ userLock' = userLock \cup {u}
            /\ h' = [h EXCEPT ![i].pc = "commit", ![i].rev = Latest(m, u)[3]]
    /\ UNCHANGED <<rows, switches, cards, usage, searching, timers, left>>

CanApprove(i) ==
    LET u == h[i].u IN
    /\ status[Own(h[i].m, SideOf(h[i].m, u))] = "active"
    /\ Allows(h[i].plan, IsComplimentary(u), weekly[u])

(* (Defect: the sixth approval completes the posting.)                     *)
CountOnPostingLate(p) ==
    /\ approvedCount' = [approvedCount EXCEPT ![p] = @ + 1]
    /\ status' = IF approvedCount[p] >= MatchLimit
                 THEN [status EXCEPT ![p] = "completed"] ELSE status

CountOnPosting(p) ==
    /\ approvedCount' = [approvedCount EXCEPT ![p] = @ + 1]
    /\ status' = IF approvedCount[p] + 1 >= MatchLimit
                 THEN [status EXCEPT ![p] = "completed"] ELSE status

(* ... and commits the approval and its count once, and the reveal.        *)
Commit(i) ==
    LET m == h[i].m
        u == h[i].u
        k == Key(m, u, h[i].rev)
        approved == recipient[k].decision = "approved"
        fresh == ~approved /\ <<m, u>> \notin approvals
    IN
    /\ At(i, "commit")
    /\ approved \/ CanApprove(i)
    /\ IF approved THEN UNCHANGED usage ELSE RecordApproval(m, u, IsComplimentary(u))
    /\ IF fresh
       THEN /\ CountOnPosting(Own(m, SideOf(m, u)))
            /\ recipient' = [recipient EXCEPT ![k].decision = "approved"]
       ELSE UNCHANGED <<status, approvedCount, recipient>>
    /\ revealed' = revealed \cup {<<m, u>>}
    /\ userLock' = userLock \ {u}
    /\ Done(i)
    /\ UNCHANGED <<terms, match, switches, cards, searching, timers, left>>

(* posting_closed or locked.                                               *)
Refuse(i) ==
    /\ At(i, "commit")
    /\ recipient[Key(h[i].m, h[i].u, h[i].rev)].decision # "approved" /\ ~CanApprove(i)
    /\ userLock' = userLock \ {h[i].u}
    /\ Done(i)
    /\ UNCHANGED <<rows, switches, cards, usage, searching, timers, left>>

-----------------------------------------------------------------------------
(* Exceptions, and a restart of the process.                               *)

Throw(i) ==
    /\ ~At(i, "idle") /\ h[i].pc \notin {"send", "mark"} /\ Spend("faults")
    /\ Done(i)
    /\ userLock' = IF At(i, "commit") THEN userLock \ {h[i].u} ELSE userLock
    /\ UNCHANGED <<rows, switches, cards, usage, searching, timers>>

Restart ==
    /\ Spend("faults")
    /\ h' = [i \in Handlers |-> Idle]
    /\ search' = [u \in Users |-> NotSearching]
    /\ timers' = EmptyBag /\ userLock' = {}
    /\ UNCHANGED <<rows, switches, cards, usage, undecided>>

-----------------------------------------------------------------------------
(* What owners and administrators do to postings and switches.             *)

Unchanged == UNCHANGED <<cards, account, timers, h>>

Become(p, from, to) ==
    /\ status[p] \in from
    /\ \A i \in Handlers : At(i, "commit") => Own(h[i].m, SideOf(h[i].m, h[i].u)) # p
    /\ status' = [status EXCEPT ![p] = to]
    /\ Spend("changes") /\ Unchanged
    /\ UNCHANGED <<terms, approvedCount, match, recipient, revealed, switches>>

Pause(p) == p \in Direct \cup Chats /\ Become(p, {"active"}, "paused")
Resume(p) == Become(p, {"paused"}, "active")
(* closePosting, expireStalePostings, markApiPostingsInactive.             *)
Close(p) == Become(p, {"active", "paused", "completed"}, "closed")

Monitor ==
    /\ monitoring' = ~monitoring
    /\ Spend("changes") /\ Unchanged /\ UNCHANGED <<rows, optedOut, plan>>

(* STOP ends a paid plan too (cancelOwnMembership, in CheckoutActivation); *)
(* START does not bring it back.                                           *)
Stop(u) ==
    /\ u \notin optedOut /\ optedOut' = optedOut \cup {u}
    /\ plan' = IF Paying(u) THEN [plan EXCEPT ![u] = "none"] ELSE plan
    /\ Spend("changes") /\ Unchanged /\ UNCHANGED <<rows, monitoring>>

Start(u) ==
    /\ u \in optedOut /\ optedOut' = optedOut \ {u}
    /\ Spend("changes") /\ Unchanged /\ UNCHANGED <<rows, monitoring, plan>>

-----------------------------------------------------------------------------
Init ==
    /\ UsageInit
    /\ terms \in {s[2] : s \in {x \in Starts : x[1] = left}}
    /\ status = [p \in Postings |-> IF terms[p] = None THEN "none" ELSE "active"]
    /\ approvedCount = [p \in Postings |-> 0]
    /\ match = [m \in Pairs |-> [rev |-> 0, reasons |-> None]]
    /\ recipient = <<>> /\ revealed = {}
    /\ monitoring = TRUE /\ optedOut = {}
    /\ timers = EmptyBag /\ sent = EmptyBag
    /\ initial = [p \in Postings |-> 0]
    /\ h = [i \in Handlers |-> Idle]

Work(i) ==
    \/ Search(i) \/ Select(i) \/ Upsert(i) \/ InsertConflict(i) \/ Finish(i)
    \/ Gate(i) \/ Hold(i) \/ Claim(i) \/ Skip(i) \/ Send(i) \/ Mark(i) \/ Discard(i)
    \/ Pass(i) \/ Lock(i) \/ Commit(i) \/ Refuse(i)

matching == <<rows, monitoring, optedOut, cards, timers, h>>

Usage(u) ==
    /\ \/ Ask(u) \/ SearchPass(u) \/ UsageStep(u) \/ SearchThrows(u)
       \/ WeekPasses(u) \/ \E e \in Entitlements : SetPlan(u, e)
    /\ UNCHANGED matching

Next ==
    \/ \E p \in Postings, t \in Terms : Ingest(p, t)
    \/ Reconcile \/ Fire
    \/ \E m \in Pairs, u \in Users : PassMatch(m, u) \/ ApproveMatch(m, u)
    \/ \E i \in Handlers : Work(i) \/ Undelivered(i) \/ Throw(i)
    \/ Restart
    \/ \E p \in Postings : Pause(p) \/ Resume(p) \/ Close(p)
    \/ Monitor \/ \E u \in Users : Stop(u) \/ Start(u)
    \/ \E u \in Users : Usage(u)

Spec == Init /\ [][Next]_vars

(* The interval timer of the reconciliation fires again and again, and     *)
(* what was begun goes on, a transaction that waits for a lock included.   *)
Fairness ==
    /\ WF_vars(Reconcile) /\ WF_vars(Fire)
    /\ \A i \in Handlers : WF_vars(Work(i))
    /\ \A u \in Users : WF_vars(UsageStep(u) /\ UNCHANGED matching)

FairSpec == Spec /\ Fairness

-----------------------------------------------------------------------------
(* Properties.                                                             *)

Keys == Pairs \X Users \X (Nat \ {0})
JobType ==
    [pc : {"search", "next", "write", "gate", "hold", "claim", "send", "mark", "discard"},
     kind : {"ingest", "reconcile", "timer"}, posting : Postings \cup {None},
     todo : SUBSET (Pairs \X Fits), pending : SUBSET (Pairs \X (Nat \ {0}) \X Postings),
     m : Pairs \cup {None}, reasons : Fits \cup {None}, rev : Nat, side : Sides,
     face : Fits \cup {None}, paying : BOOLEAN]
ReplyType == [pc : {"pass", "lock", "commit"}, m : Pairs, u : Users, rev : Nat, plan : Plans]

(* Every row, counter and local variable keeps its type.                   *)
TypeOK ==
    /\ status \in [Postings -> {"none", "active", "paused", "completed", "closed"}]
    /\ terms \in [Postings -> Terms \cup {None}]
    /\ match \in [Pairs -> [rev : Nat, reasons : Fits \cup {None}]]
    /\ \A k \in DOMAIN recipient : /\ k \in Keys
         /\ recipient[k] \in [decision : {"pending", "approved", "passed"},
                              delivered : BOOLEAN, paying : BOOLEAN]
    /\ approvals \subseteq Pairs \X Users /\ revealed \subseteq Pairs \X Users
    /\ \A n \in {free, weekly, ledger, total, tasksUsed, undecided} : n \in [Users -> Nat]
    /\ plan \in [Users -> Plans] /\ userLock \subseteq Users
    /\ monitoring \in BOOLEAN /\ optedOut \subseteq Users
    /\ IsABag(timers) /\ IsABag(sent) /\ DOMAIN sent \subseteq Keys
    /\ h \in [Handlers -> JobType \cup ReplyType \cup {Idle}]

Larger(a, b) == IF a > b THEN a ELSE b

(* "Both now read and increment the SAME canonical_users row": what is     *)
(* free, or within the week's cap, is spent once, whichever flow and       *)
(* however many replies spend it; only a search decision that read the     *)
(* usage before another approval can go one beyond, and each of its        *)
(* failures between two of its statements one more.                        *)
AllowanceKept == \A u \in Users :
    /\ free[u] <= Larger(Trial, Grant[u]) + 1 + faults
    /\ Entitlements \subseteq {"none", "weekly"} => weekly[u] <= WeeklyLimit + 1

ApprovalsOn(p) == {a \in approvals : Own(a[1], SideOf(a[1], a[2])) = p}

(* A posting counts each approval its owner has given once, and at its     *)
(* limit it is closed and stays so: no pause, edit or doubled reply makes  *)
(* it accept another.                                                      *)
PostingsComplete == \A p \in Postings :
    /\ approvedCount[p] = Cardinality(ApprovalsOn(p))
    /\ approvedCount[p] <= MatchLimit
    /\ approvedCount[p] = MatchLimit => status[p] \notin {"active", "paused"}

(* A contact is only ever shown to an account whose approval of that match *)
(* is on record and in its total, and so is every decision "approved".     *)
DisclosureOnRecord ==
    /\ revealed \subseteq approvals
    /\ \A k \in DOMAIN recipient :
         recipient[k].decision = "approved" => <<k[1], k[2]>> \in approvals
    /\ \A u \in Users : Cardinality({a \in approvals : a[2] = u}) <= total[u]

(* "guarding against one broad initial search flooding someone": however   *)
(* often a posting changes, its initial batches note no more cards as      *)
(* shown than the cap, one for each further run that counted at the same   *)
(* time, and one for each row that a failure between a send and its note   *)
(* has deleted.                                                            *)
InitialBatchCapped == \A p \in Postings :
    initial[p] <= Larger(Cap, MemberCap) + (Cardinality(Handlers) - 1) + faults

(* What a card, a reply or a closed posting leaves behind agrees: counts,  *)
(* decisions, contacts shown and cards sent (notify.ts, postingsStore.ts). *)
RepliesAccounted == PostingsComplete /\ DisclosureOnRecord /\ InitialBatchCapped

Due(m, s) ==
    LET u == Party(m, s) IN
    /\ status[m[1]] = "active" /\ status[m[2]] = "active" /\ Current(m) \in Fits
    /\ u # Nobody /\ Monitored(Own(m, s)) /\ u \notin optedOut

Informed(m, s) ==
    LET u == Party(m, s) IN
    \/ match[m].reasons = Current(m) /\ Key(m, u, match[m].rev) \in DOMAIN sent
    \/ \E k \in RowsOf(m, u) : recipient[k].decision # "pending"

(* "it's the safety net that recovers a match missed because of a          *)
(* webhook/API/process failure": in the end every qualifying match is on   *)
(* record as it is, and each owner who can be reached has a card of that   *)
(* revision, or has decided on the match.                                  *)
OwnersSeeMatches == \A m \in Pairs, s \in Sides : []<>(Due(m, s) => Informed(m, s))
=============================================================================
