------------------------- MODULE AgentMatchingProofs -------------------------
(***************************************************************************)
(* What holds of AgentMatching for all postings, accounts, handlers, limits*)
(* and bounds.  A free approval is in the account's total, and in its      *)
(* granted tasks, but for the one a search decision is about to count; the *)
(* row a transaction has locked is the one it writes; and whoever is on    *)
(* the way to note a card has been admitted below the cap.                 *)
(***************************************************************************)
EXTENDS AgentMatching, FiniteSetTheorems, WellFoundedInduction, TLAPS

JobPcs == {"search", "next", "write", "gate", "hold", "claim", "send", "mark", "discard"}
ReplyPcs == {"pass", "lock", "commit"}
Addressed == {"hold", "claim", "send", "mark", "discard"}

(* The shape of what a handler holds at each of its steps: the pair and    *)
(* the revision it writes are known, and a card has somebody to go to.     *)
Ready(x) ==
    /\ x.pc \in JobPcs => x.kind = "reconcile" \/ x.posting \in Postings
    /\ x.pc = "search" => x.posting \in Postings
    /\ x.pc \in Addressed \cup {"write", "gate"} => x.m \in Pairs
    /\ x.pc = "write" => x.reasons \in Fits /\ (x.rev = 0 => x.face = None)
    /\ x.pc \in Addressed \cup {"gate", "pass", "commit"} => x.rev > 0
    /\ x.pc \in Addressed => Party(x.m, x.side) \in Users

Sound(x) == x \in JobType \cup ReplyType \cup {Idle} /\ Ready(x)

(* Types: what TypeOK says, and what it takes to keep it.                  *)
HandlersTyped == h \in [Handlers -> JobType \cup ReplyType \cup {Idle}]
                 /\ \A i \in Handlers : Sound(h[i])

PostingsTyped ==
    /\ status \in [Postings -> {"none", "active", "paused", "completed", "closed"}]
    /\ terms \in [Postings -> Terms \cup {None}]
    /\ approvedCount \in [Postings -> Nat]

MatchTyped ==
    /\ match \in [Pairs -> [rev : Nat, reasons : Fits \cup {None}]]
    /\ \A m \in Pairs : match[m].rev = 0 => match[m].reasons = None

RowType == [decision : {"pending", "approved", "passed"}, delivered : BOOLEAN, paying : BOOLEAN]
RecipientTyped == \A k \in DOMAIN recipient : k \in Keys /\ recipient[k] \in RowType

UsageTyped ==
    /\ approvals \subseteq Pairs \X Users
    /\ free \in [Users -> Nat] /\ weekly \in [Users -> Nat] /\ ledger \in [Users -> Nat]
    /\ total \in [Users -> Nat] /\ tasksUsed \in [Users -> Nat]

SwitchesTyped ==
    plan \in [Users -> Plans] /\ monitoring \in BOOLEAN /\ optedOut \subseteq Users

SearchType == [pc : {"idle", "insert", "ledger", "count", "task", "decide"}, comp : BOOLEAN]
SearchTyped ==
    /\ undecided \in [Users -> Nat] /\ search \in [Users -> SearchType]
    /\ \A u \in Users : search[u].pc # "idle" => undecided[u] > 0

CardsTyped ==
    /\ IsABag(sent) /\ DOMAIN sent \subseteq Keys
    /\ initial \in [Postings -> Nat]

TimersTyped == IsABag(timers) /\ DOMAIN timers \subseteq Pairs \X (Nat \ {0}) \X Postings

LocksTyped == userLock \subseteq Users /\ revealed \subseteq Pairs \X Users

TypeInv ==
    /\ HandlersTyped /\ PostingsTyped /\ MatchTyped /\ RecipientTyped /\ UsageTyped
    /\ SwitchesTyped /\ SearchTyped /\ CardsTyped /\ TimersTyped /\ LocksTyped
    /\ left \in [Bounded -> Nat]

(* The rows of match_recipients are finitely many and their revisions are  *)
(* bounded, so that there is a latest one; the row that a transaction has  *)
(* locked is still there when it commits.                                  *)
RowInv ==
    /\ IsFiniteSet(DOMAIN recipient)
    /\ \E b \in Nat : \A k \in DOMAIN recipient : k[3] <= b
    /\ \A i \in Handlers :
         At(i, "commit") => Key(h[i].m, h[i].u, h[i].rev) \in DOMAIN recipient

(* Approvals, counts and disclosures agree; a posting at its limit is done.*)
RecordInv ==
    /\ IsFiniteSet(approvals)
    /\ PostingsComplete /\ DisclosureOnRecord
    /\ \A p \in Postings : approvedCount[p] = MatchLimit => status[p] \in {"completed", "closed"}

(* A free approval is in the total and in the granted tasks, but for the   *)
(* one that a search decision is about to count, and those it failed to.   *)
Owing(u, pcs) == IF search[u].comp /\ search[u].pc \in pcs THEN 1 ELSE 0
FreeCovered(u) ==
    /\ free[u] <= total[u] + Owing(u, {"ledger", "count"}) + faults
    /\ \/ tasksUsed[u] >= Grant[u]
       \/ free[u] <= tasksUsed[u] + Owing(u, {"ledger", "count", "task"}) + faults
    /\ search[u].pc = "insert" /\ search[u].comp => free[u] <= Larger(Trial, Grant[u]) + faults

WeekCovered(u) ==
    search[u].pc = "insert" /\ ~search[u].comp => weekly[u] <= WeeklyLimit

(* The plans an account may have, in its row and in a reply that read it.  *)
Assigned == Entitlements \cup {"none"}

AllowanceInv ==
    /\ AllowanceKept
    /\ \A u \in Users : FreeCovered(u) /\ plan[u] \in Assigned
    /\ Entitlements \subseteq {"none", "weekly"} => \A u \in Users : WeekCovered(u)
    /\ \A i \in Handlers : h[i].pc \in ReplyPcs => h[i].plan \in Assigned

(* The handlers that a count below the cap has admitted and that may yet   *)
(* note a card of the posting's initial batch, and those that delete a row.*)
Admitted(p) ==
    {i \in Handlers : h[i].pc \in {"claim", "send", "mark"} /\ h[i].posting = p /\ InBatch(i)}
Discarding == {i \in Handlers : At(i, "discard")}
ShownRows(p, u) ==
    {k \in DOMAIN recipient : k[2] = u /\ p \in {k[1][1], k[1][2]}
                              /\ recipient[k].delivered /\ ~recipient[k].paying}

BatchInv == \A p \in Postings :
    /\ initial[p] + Cardinality(Admitted(p))
         <= Larger(Cap, MemberCap) + (Cardinality(Handlers) - 1) + faults
    /\ initial[p] + Cardinality(Discarding) <= Cardinality(ShownRows(p, Owner[p])) + faults

IInv == TypeInv /\ RowInv /\ RecordInv /\ AllowanceInv /\ BatchInv

-----------------------------------------------------------------------------
(* Postings, their owners, and what handlers hold.                         *)

LEMMA OwnersKnown ==
    ASSUME NEW m \in Pairs, NEW s
    PROVE  /\ m[1] \in Listings /\ m[2] \in Requests /\ m = <<m[1], m[2]>>
           /\ Own(m, s) \in Postings /\ Counterpart(m, s) \in Postings
           /\ Own(m, s) \in {m[1], m[2]}
           /\ Party(m, s) \in Users \cup {Nobody} /\ Party(m, s) = Owner[Own(m, s)]
<1>1. m[1] \in Listings /\ m[2] \in Requests /\ m = <<m[1], m[2]>>  BY DEF Pairs
<1>2. Own(m, s) \in Postings /\ Counterpart(m, s) \in Postings /\ Own(m, s) \in {m[1], m[2]}
  BY <1>1 DEF Own, Counterpart, Postings
<1>3. Owner[Own(m, s)] \in Users \cup {Nobody}  BY <1>2, MatchingAssumption
<1> QED  BY <1>1, <1>2, <1>3 DEF Party

LEMMA Shapes ==
    /\ \A x \in JobType : x.pc \in JobPcs
    /\ \A x \in ReplyType : x.pc \in ReplyPcs
    /\ Idle.pc = "idle"
  BY DEF JobType, ReplyType, Idle, JobPcs, ReplyPcs

LEMMA HandlerShape ==
    ASSUME TypeInv, NEW i \in Handlers
    PROVE  /\ Sound(h[i])
           /\ h[i].pc \in JobPcs => h[i] \in JobType
           /\ h[i].pc \in ReplyPcs => h[i] \in ReplyType
           /\ h[i].pc \in JobPcs \cup ReplyPcs \cup {"idle"}
           /\ h[i].pc = "idle" => h[i] = Idle
<1>1. Sound(h[i])  BY DEF TypeInv, HandlersTyped
<1>2. h[i] \in JobType \cup ReplyType \cup {Idle}  BY <1>1 DEF Sound
<1>3. JobPcs \cap ReplyPcs = {} /\ "idle" \notin JobPcs /\ "idle" \notin ReplyPcs
  BY DEF JobPcs, ReplyPcs
<1> QED  BY <1>1, <1>2, <1>3, Shapes

LEMMA IdleSound == Sound(Idle)
  BY DEF Sound, Ready, Idle, JobPcs, Addressed

(* A handler moves and the others stay where they are.                     *)
LEMMA Moved ==
    ASSUME TypeInv, NEW i \in Handlers, NEW x, Sound(x), h' = [h EXCEPT ![i] = x]
    PROVE  HandlersTyped'
<1>1. x \in JobType \cup ReplyType \cup {Idle}  BY DEF Sound
<1>2. h' \in [Handlers -> JobType \cup ReplyType \cup {Idle}]
  BY <1>1 DEF TypeInv, HandlersTyped
<1>3. ASSUME NEW j \in Handlers PROVE Sound(h'[j])
  <2>1. h'[j] = IF j = i THEN x ELSE h[j]  BY DEF TypeInv, HandlersTyped
  <2> QED  BY <2>1 DEF TypeInv, HandlersTyped
<1>4. \A j \in Handlers : Sound(h[j])'  BY <1>3 DEF Sound, Ready, Party, Own
<1> QED  BY <1>2, <1>4 DEF HandlersTyped

LEMMA FirstIdle ==
    ASSUME SomeIdle
    PROVE  Fresh \in Handlers /\ At(Fresh, "idle")
<1>1. PICK i \in Handlers : At(i, "idle")  BY DEF SomeIdle
<1> QED  BY <1>1 DEF Fresh

(* Nothing but the handlers changes.                                       *)
LEMMA StillTyped ==
    ASSUME TypeInv, HandlersTyped', UNCHANGED <<rows, switches, cards, account, timers, left>>
    PROVE  TypeInv'
  BY DEF TypeInv, rows, switches, cards, account, usage, searching, PostingsTyped, MatchTyped,
         RecipientTyped, UsageTyped, SwitchesTyped, SearchTyped, CardsTyped, TimersTyped, LocksTyped

-----------------------------------------------------------------------------
(* What the steps make of a handler.                                       *)

LEMMA JobTyped ==
    ASSUME NEW pc \in JobPcs, NEW kind \in {"ingest", "reconcile", "timer"},
           NEW posting \in Postings \cup {None}
    PROVE  Job(pc, kind, posting) \in JobType
  BY DEF Job, JobType, JobPcs, Sides

LEMMA OtherSideSound ==
    ASSUME TypeInv, NEW i \in Handlers, h[i].pc \in Addressed \cup {"gate"}
    PROVE  Sound(OtherSideOrOut(i))
<1> DEFINE x == h[i]  y == OtherSideOrOut(i)
<1>1. x \in JobType /\ Ready(x) /\ x.m \in Pairs /\ x.rev > 0
  <2>1. x.pc \in JobPcs  BY DEF Addressed, JobPcs
  <2>2. x \in JobType /\ Sound(x)  BY <2>1, HandlerShape
  <2> QED  BY <2>2 DEF Sound, Ready
<1>2. CASE x.side = "fs"
  <2>1. y = [x EXCEPT !.pc = "gate", !.side = "wtb", !.paying = FALSE]  BY <1>2 DEF OtherSideOrOut
  <2>2. y \in JobType  BY <1>1, <2>1 DEF JobType, Sides
  <2>3. y.pc = "gate" /\ y.m = x.m /\ y.rev = x.rev /\ y.kind = x.kind /\ y.posting = x.posting
    BY <1>1, <2>1 DEF JobType
  <2>4. x.kind = "reconcile" \/ x.posting \in Postings  BY <1>1 DEF JobType, Ready, JobPcs
  <2>5. Ready(y)  BY <2>3, <2>4, <1>1 DEF Ready, Addressed
  <2> QED  BY <2>2, <2>5 DEF Sound
<1>3. CASE x.side # "fs"
  <2>1. y = [x EXCEPT !.pc = "next", !.side = "fs", !.m = None, !.reasons = None, !.rev = 0,
                      !.paying = FALSE]
    BY <1>3 DEF OtherSideOrOut
  <2>2. y \in JobType
    <3> DEFINE z == [x EXCEPT !.pc = "next", !.side = "fs", !.m = None]
               v == [z EXCEPT !.reasons = None, !.rev = 0, !.paying = FALSE]
    <3>1. z \in JobType  BY <1>1 DEF JobType, Sides
    <3>2. y = v  BY <1>1, <2>1 DEF JobType
    <3> HIDE DEF z
    <3>3. v \in JobType  BY <3>1 DEF JobType
    <3> HIDE DEF v
    <3> QED  BY <3>2, <3>3
  <2>3. y.pc = "next" /\ y.kind = x.kind /\ y.posting = x.posting  BY <1>1, <2>1 DEF JobType
  <2>4. x.kind = "reconcile" \/ x.posting \in Postings  BY <1>1 DEF JobType, Ready, JobPcs
  <2>5. Ready(y)  BY <2>3, <2>4 DEF Ready, Addressed
  <2> QED  BY <2>2, <2>5 DEF Sound
<1> QED  BY <1>2, <1>3

LEMMA NextSideTyped ==
    ASSUME TypeInv, NEW i \in Handlers, h[i].pc \in Addressed \cup {"gate"}, NextSide(i)
    PROVE  HandlersTyped'
  BY OtherSideSound, Moved DEF NextSide

LEMMA DoneTyped ==
    ASSUME TypeInv, NEW i \in Handlers, Done(i)
    PROVE  HandlersTyped'
  BY IdleSound, Moved DEF Done

LEMMA TakeTyped ==
    ASSUME TypeInv, NEW x, Sound(x), Take(x)
    PROVE  HandlersTyped'
  BY FirstIdle, Moved DEF Take

(* A handler at work on a card goes to another step of the same card.      *)
LEMMA GotoCardTyped ==
    ASSUME TypeInv, NEW i \in Handlers, h[i].pc \in Addressed,
           NEW pc \in Addressed, Goto(i, pc)
    PROVE  HandlersTyped'
<1> DEFINE x == h[i]  y == [x EXCEPT !.pc = pc]
<1>1. x \in JobType /\ Ready(x)
  <2>1. x.pc \in JobPcs  BY DEF Addressed, JobPcs
  <2> QED  BY <2>1, HandlerShape DEF Sound
<1>2. y \in JobType  BY <1>1 DEF JobType, Addressed
<1>3. /\ y.pc = pc /\ y.m = x.m /\ y.rev = x.rev /\ y.kind = x.kind /\ y.posting = x.posting
      /\ y.side = x.side
  BY <1>1 DEF JobType
<1>4. x.kind = "reconcile" \/ x.posting \in Postings  BY <1>1 DEF JobType, Ready, JobPcs
<1>5. Ready(y)  BY <1>1, <1>3, <1>4 DEF Ready, Addressed
<1>6. h' = [h EXCEPT ![i] = y]  BY DEF Goto, TypeInv, HandlersTyped
<1> QED  BY <1>2, <1>5, <1>6, Moved DEF Sound

-----------------------------------------------------------------------------
(* Every action keeps the types: finding matches.                          *)

LEMMA IngestTyped ==
    ASSUME TypeInv, NEW p \in Postings, NEW t \in Terms, Ingest(p, t)
    PROVE  TypeInv'
<1>1. Sound(Job("search", "ingest", p))
  <2>1. Job("search", "ingest", p) \in JobType  BY JobTyped DEF JobPcs
  <2> QED  BY <2>1 DEF Sound, Ready, Job, Addressed
<1>2. HandlersTyped'
  <2>1. CASE UNCHANGED h  BY <2>1 DEF TypeInv, HandlersTyped, Sound, Ready, Party, Own
  <2>2. CASE Take(Job("search", "ingest", p))  BY <1>1, <2>2, TakeTyped
  <2> QED  BY <2>1, <2>2 DEF Ingest
<1>3. PostingsTyped'
  <2>1. status' = IF status[p] = "none" THEN [status EXCEPT ![p] = "active"] ELSE status
    BY DEF Ingest
  <2>2. terms' = [terms EXCEPT ![p] = t] /\ approvedCount' = approvedCount  BY DEF Ingest
  <2> QED  BY <2>1, <2>2 DEF TypeInv, PostingsTyped
<1>4. left' \in [Bounded -> Nat]
  <2>1. left["edits"] > 0 /\ left["calls"] > 0 /\ {"edits", "calls"} \subseteq Bounded
    BY DEF Ingest, Left, Bounded
  <2>2. left' = [left EXCEPT !.edits = @ - 1, !.calls = @ - 1]  BY DEF Ingest
  <2>3. left \in [Bounded -> Nat]  BY DEF TypeInv
  <2>4. ASSUME NEW r \in Bounded PROVE left'[r] = IF r \in {"edits", "calls"} THEN left[r] - 1 ELSE left[r]
    BY <2>2, <2>3, <2>4
  <2>5. ASSUME NEW r \in Bounded PROVE left'[r] \in Nat
    <3>1. left[r] \in Nat  BY <2>3
    <3> QED  BY <2>1, <2>4, <3>1
  <2>6. left' = [r \in Bounded |-> left'[r]]  BY <2>2, <2>3
  <2> QED  BY <2>5, <2>6
<1>5. UNCHANGED <<match, recipient, revealed, switches, cards, account, timers>>  BY DEF Ingest
<1> QED
  BY <1>2, <1>3, <1>4, <1>5
     DEF TypeInv, switches, cards, account, usage, searching, MatchTyped,
         RecipientTyped, UsageTyped, SwitchesTyped, SearchTyped, CardsTyped, TimersTyped, LocksTyped

LEMMA SearchStepTyped ==
    ASSUME TypeInv, NEW i \in Handlers, Search(i)
    PROVE  TypeInv'
<1> DEFINE x == h[i]  p == x.posting
           found == {q \in Opposite(p) : status[q] = "active" /\ Owner[q] # Owner[p]}
           fit == {c \in found : Reasons(p, terms[p], c, terms[c]) \in Fits}
           todo == {<<PairOf(p, q), Reasons(p, terms[p], q, terms[q])>> : q \in fit}
           y == [x EXCEPT !.pc = "next", !.todo = todo]
<1>1. x \in JobType /\ p \in Postings /\ x.pc = "search"
  BY HandlerShape DEF Search, At, Sound, Ready, JobPcs
<1>2. todo \in SUBSET (Pairs \X Fits)
  <2>1. ASSUME NEW q \in fit PROVE <<PairOf(p, q), Reasons(p, terms[p], q, terms[q])>> \in Pairs \X Fits
    <3>1. q \in Opposite(p) /\ Reasons(p, terms[p], q, terms[q]) \in Fits  OBVIOUS
    <3>2. PairOf(p, q) \in Pairs  BY <1>1, <3>1 DEF Opposite, PairOf, Pairs, Postings
    <3> QED  BY <3>1, <3>2
  <2> QED  BY <2>1
<1>3. h' = [h EXCEPT ![i] = y]  BY DEF Search, TypeInv, HandlersTyped
<1> HIDE DEF todo
<1>4. y \in JobType  BY <1>1, <1>2 DEF JobType
<1>5. y.pc = "next" /\ y.posting = p  BY <1>1 DEF JobType
<1>6. Ready(y)  BY <1>1, <1>5 DEF Ready, Addressed
<1>7. HandlersTyped'  BY <1>3, <1>4, <1>6, Moved DEF Sound
<1>8. UNCHANGED <<rows, switches, cards, account, timers, left>>  BY DEF Search
<1> QED  BY <1>7, <1>8, StillTyped

LEMMA SpendTyped ==
    ASSUME TypeInv, NEW r \in Bounded \ {"failed"}, Spend(r)
    PROVE  left' \in [Bounded -> Nat] /\ left'.failed >= left.failed
<1>1. left \in [Bounded -> Nat] /\ left[r] > 0  BY DEF TypeInv, Spend, Left
<1>2. left' = [left EXCEPT ![r] = @ - 1, !.failed = IF r = "faults" THEN @ + 1 ELSE @]
  BY DEF Spend
<1>3. "failed" \in Bounded  BY DEF Bounded
<1>4. ASSUME NEW q \in Bounded
      PROVE  left'[q] = IF q = r THEN left[q] - 1
                        ELSE IF q = "failed" /\ r = "faults" THEN left[q] + 1 ELSE left[q]
  BY <1>1, <1>2, <1>3
<1>5. ASSUME NEW q \in Bounded PROVE left'[q] \in Nat
  <2>1. left[q] \in Nat  BY <1>1
  <2> QED  BY <1>1, <1>4, <2>1
<1>6. left' = [q \in Bounded |-> left'[q]]  BY <1>1, <1>2
<1>7. left'["failed"] >= left["failed"]
  <2>1. left["failed"] \in Nat /\ "failed" # r  BY <1>1, <1>3
  <2> QED  BY <1>3, <1>4, <2>1
<1> QED  BY <1>5, <1>6, <1>7

LEMMA ReconcileTyped ==
    ASSUME TypeInv, Reconcile
    PROVE  TypeInv'
<1> DEFINE active == {p \in Postings : status[p] = "active"}
           pairs == {m \in Pairs : m[1] \in active /\ m[2] \in active
                                   /\ (Party(m, "fs") = Nobody \/ Party(m, "fs") # Party(m, "wtb"))}
           todo == {<<m, Current(m)>> : m \in {n \in pairs : Current(n) \in Fits}}
           y == [Job("next", "reconcile", None) EXCEPT !.todo = todo]
<1>1. todo \in SUBSET (Pairs \X Fits)  OBVIOUS
<1>2. Take(y)  BY DEF Reconcile
<1> HIDE DEF todo
<1>3. Job("next", "reconcile", None) \in JobType  BY JobTyped DEF JobPcs
<1>4. y \in JobType  BY <1>1, <1>3 DEF JobType
<1>5. y.pc = "next" /\ y.kind = "reconcile"  BY <1>3 DEF JobType, Job
<1>6. Sound(y)  BY <1>4, <1>5 DEF Sound, Ready, Addressed
<1>7. HandlersTyped'  BY <1>2, <1>6, TakeTyped
<1>8. left' \in [Bounded -> Nat]
  <2>1. CASE UNCHANGED left  BY <2>1 DEF TypeInv
  <2>2. CASE Spend("sweeps")  BY <2>2, SpendTyped DEF Bounded
  <2> QED  BY <2>1, <2>2 DEF Reconcile
<1>9. UNCHANGED <<rows, switches, cards, account, timers>>  BY DEF Reconcile
<1> QED
  BY <1>7, <1>8, <1>9
     DEF TypeInv, rows, switches, cards, account, usage, searching, PostingsTyped, MatchTyped,
         RecipientTyped, UsageTyped, SwitchesTyped, SearchTyped, CardsTyped, TimersTyped, LocksTyped

(* The fields of a job.                                                    *)
LEMMA JobFields ==
    ASSUME NEW x \in JobType
    PROVE  /\ x.posting \in Postings \cup {None} /\ x.todo \in SUBSET (Pairs \X Fits)
           /\ x.pending \in SUBSET (Pairs \X (Nat \ {0}) \X Postings)
           /\ x.m \in Pairs \cup {None} /\ x.reasons \in Fits \cup {None} /\ x.rev \in Nat
           /\ x.side \in Sides /\ x.face \in Fits \cup {None} /\ x.paying \in BOOLEAN
  BY DEF JobType

LEMMA SelectTyped ==
    ASSUME TypeInv, NEW i \in Handlers, Select(i)
    PROVE  TypeInv'
<1>1. PICK item \in h[i].todo :
         h' = [h EXCEPT ![i].pc = "write", ![i].m = item[1], ![i].reasons = item[2],
                        ![i].todo = @ \ {item}, ![i].rev = match[item[1]].rev,
                        ![i].face = match[item[1]].reasons]
  BY DEF Select
<1> DEFINE x == h[i]
           z == [x EXCEPT !.pc = "write", !.m = item[1], !.reasons = item[2]]
           y == [z EXCEPT !.todo = @ \ {item}, !.rev = match[item[1]].rev,
                          !.face = match[item[1]].reasons]
<1>2. x \in JobType /\ Ready(x) /\ x.pc = "next"
  BY HandlerShape DEF Select, At, Sound, JobPcs
<1>3. item[1] \in Pairs /\ item[2] \in Fits  BY <1>1, <1>2, JobFields
<1>4. z \in JobType  BY <1>2, <1>3 DEF JobType
<1>5. /\ match[item[1]].rev \in Nat /\ match[item[1]].reasons \in Fits \cup {None}
      /\ match[item[1]].rev = 0 => match[item[1]].reasons = None
  BY <1>3 DEF TypeInv, MatchTyped
<1>6. y \in JobType
  <2> HIDE DEF z
  <2> QED  BY <1>4, <1>5 DEF JobType
<1>7. /\ y.pc = "write" /\ y.m = item[1] /\ y.reasons = item[2] /\ y.kind = x.kind
      /\ y.posting = x.posting /\ y.rev = match[item[1]].rev /\ y.face = match[item[1]].reasons
  BY <1>2 DEF JobType
<1>8. h' = [h EXCEPT ![i] = y]
  <2>1. y = [x EXCEPT !.pc = "write", !.m = item[1], !.reasons = item[2],
                      !.todo = @ \ {item}, !.rev = match[item[1]].rev,
                      !.face = match[item[1]].reasons]
    BY <1>2 DEF JobType
  <2> QED  BY <1>1, <2>1 DEF TypeInv, HandlersTyped
<1> HIDE DEF y, z
<1>9. Ready(y)  BY <1>2, <1>3, <1>5, <1>7 DEF Ready, Addressed, JobPcs
<1>10. HandlersTyped'  BY <1>6, <1>8, <1>9, Moved DEF Sound
<1>11. UNCHANGED <<rows, switches, cards, account, timers, left>>  BY DEF Select
<1> QED  BY <1>10, <1>11, StillTyped

LEMMA UpsertTyped ==
    ASSUME TypeInv, NEW i \in Handlers, Upsert(i)
    PROVE  TypeInv'
<1> DEFINE x == h[i]
           changed == x.face # x.reasons
           rev == IF changed THEN x.rev + 1 ELSE x.rev
           y == Told(i, changed, rev)
<1>1. x \in JobType /\ Ready(x) /\ x.pc = "write"
  BY HandlerShape DEF Upsert, At, Sound, JobPcs
<1>2. x.m \in Pairs /\ x.reasons \in Fits /\ (x.rev = 0 => x.face = None) /\ x.rev \in Nat
  BY <1>1, JobFields DEF Ready
<1>3. rev \in Nat \ {0}
  <2>1. x.reasons # None  BY <1>2, MatchingAssumption
  <2> QED  BY <1>2, <2>1
<1>4. h' = [h EXCEPT ![i] = y]  BY DEF Upsert
<1>5. match' = IF changed THEN [match EXCEPT ![x.m] = [rev |-> rev, reasons |-> x.reasons]]
               ELSE match
  BY DEF Upsert
<1>6. x.kind = "reconcile" \/ x.posting \in Postings  BY <1>1 DEF Ready, JobPcs
<1>7. Sound(y)
  <2> HIDE DEF rev
  <2>1. CASE x.kind = "reconcile" \/ (changed /\ x.posting \notin Direct)
    <3> DEFINE v == [x EXCEPT !.pc = "gate", !.rev = rev, !.face = None]
    <3>1. y = v  BY <2>1 DEF Told
    <3>2. v \in JobType  BY <1>1, <1>3 DEF JobType
    <3>3. v.pc = "gate" /\ v.rev = rev /\ v.m = x.m /\ v.kind = x.kind /\ v.posting = x.posting
      BY <1>1 DEF JobType
    <3> HIDE DEF v, y, x
    <3>4. Ready(v)  BY <1>2, <1>3, <1>6, <3>3 DEF Ready, Addressed
    <3> QED  BY <3>1, <3>2, <3>4 DEF Sound
  <2>2. CASE ~(x.kind = "reconcile" \/ (changed /\ x.posting \notin Direct))
    <3> DEFINE more == IF changed THEN x.pending \cup {<<x.m, rev, x.posting>>} ELSE x.pending
               z == [x EXCEPT !.pc = "next", !.rev = 0, !.face = None]
               v == [z EXCEPT !.m = None, !.reasons = None, !.pending = more]
    <3>1. x.posting \in Postings  BY <1>6, <2>2
    <3>2. more \in SUBSET (Pairs \X (Nat \ {0}) \X Postings)
      <4>1. <<x.m, rev, x.posting>> \in Pairs \X (Nat \ {0}) \X Postings
        BY <1>2, <1>3, <3>1
      <4>2. x.pending \in SUBSET (Pairs \X (Nat \ {0}) \X Postings)  BY <1>1, JobFields
      <4> QED  BY <4>1, <4>2
    <3>3. y = v
      <4>1. y = [x EXCEPT !.pc = "next", !.rev = 0, !.face = None, !.m = None, !.reasons = None,
                          !.pending = IF changed THEN @ \cup {<<x.m, rev, x.posting>>} ELSE @]
        BY <2>2 DEF Told
      <4> QED  BY <1>1, <4>1 DEF JobType
    <3> HIDE DEF more
    <3>4. z \in JobType  BY <1>1 DEF JobType
    <3>5. v.pc = "next" /\ v.kind = x.kind /\ v.posting = x.posting  BY <1>1 DEF JobType
    <3> HIDE DEF z
    <3>6. v \in JobType  BY <3>4, <3>2 DEF JobType
    <3> HIDE DEF v, y, x
    <3>7. Ready(v)  BY <1>6, <3>5 DEF Ready, Addressed
    <3> QED  BY <3>3, <3>6, <3>7 DEF Sound
  <2> QED  BY <2>1, <2>2
<1>8. HandlersTyped'  BY <1>4, <1>7, Moved
<1>9. MatchTyped'
  <2> HIDE DEF rev
  <2> QED  BY <1>2, <1>3, <1>5 DEF TypeInv, MatchTyped
<1>10. UNCHANGED <<status, terms, approvedCount, recipient, revealed, switches, cards,
                   account, timers, left>>
  BY DEF Upsert
<1> QED
  BY <1>8, <1>9, <1>10
     DEF TypeInv, switches, cards, account, usage, searching, PostingsTyped,
         RecipientTyped, UsageTyped, SwitchesTyped, SearchTyped, CardsTyped, TimersTyped, LocksTyped

LEMMA InsertConflictTyped ==
    ASSUME TypeInv, NEW i \in Handlers, InsertConflict(i)
    PROVE  TypeInv'
  BY DoneTyped, StillTyped DEF InsertConflict

(* Only the timers and the handlers change.                                *)
LEMMA TimersTypedStill ==
    ASSUME TypeInv, HandlersTyped', TimersTyped', UNCHANGED <<rows, switches, cards, account, left>>
    PROVE  TypeInv'
  BY DEF TypeInv, rows, switches, cards, account, usage, searching, PostingsTyped, MatchTyped,
         RecipientTyped, UsageTyped, SwitchesTyped, SearchTyped, CardsTyped, LocksTyped

LEMMA BagAdd ==
    ASSUME NEW B, IsABag(B), NEW S
    PROVE  IsABag(B (+) SetToBag(S)) /\ DOMAIN (B (+) SetToBag(S)) = DOMAIN B \cup S
  BY DEF IsABag, (+), SetToBag

LEMMA BagRemove ==
    ASSUME NEW B, IsABag(B), NEW S
    PROVE  IsABag(B (-) SetToBag(S)) /\ DOMAIN (B (-) SetToBag(S)) \subseteq DOMAIN B
  BY DEF IsABag, (-), SetToBag

LEMMA FinishTyped ==
    ASSUME TypeInv, NEW i \in Handlers, Finish(i)
    PROVE  TypeInv'
<1>1. HandlersTyped'  BY DoneTyped DEF Finish
<1>2. h[i].pending \in SUBSET (Pairs \X (Nat \ {0}) \X Postings)
  BY HandlerShape, JobFields DEF Finish, At, JobPcs
<1>3. timers' = timers (+) SetToBag(h[i].pending)  BY DEF Finish
<1>4. TimersTyped'  BY <1>2, <1>3, BagAdd DEF TypeInv, TimersTyped
<1>5. UNCHANGED <<rows, switches, cards, account, left>>  BY DEF Finish
<1> QED  BY <1>1, <1>4, <1>5, TimersTypedStill

LEMMA FireTyped ==
    ASSUME TypeInv, Fire
    PROVE  TypeInv'
<1>1. PICK t \in BagToSet(timers) :
         /\ Take([Job("gate", "timer", t[3]) EXCEPT !.m = t[1], !.rev = t[2]])
         /\ timers' = timers (-) SetToBag({t})
         /\ UNCHANGED <<rows, switches, cards, account, left>>
  BY DEF Fire
<1> DEFINE y == [Job("gate", "timer", t[3]) EXCEPT !.m = t[1], !.rev = t[2]]
<1>2. t[1] \in Pairs /\ t[2] \in Nat \ {0} /\ t[3] \in Postings
  BY DEF TypeInv, TimersTyped, BagToSet
<1>3. Job("gate", "timer", t[3]) \in JobType  BY <1>2, JobTyped DEF JobPcs
<1>4. y \in JobType  BY <1>2, <1>3 DEF JobType
<1>5. y.pc = "gate" /\ y.m = t[1] /\ y.rev = t[2] /\ y.posting = t[3]
  BY <1>3 DEF JobType, Job
<1>6. Sound(y)
  <2> HIDE DEF y
  <2> QED  BY <1>2, <1>4, <1>5 DEF Sound, Ready, Addressed
<1>7. HandlersTyped'  BY <1>1, <1>6, TakeTyped
<1>8. TimersTyped'  BY <1>1, BagRemove DEF TypeInv, TimersTyped
<1> QED  BY <1>1, <1>7, <1>8, TimersTypedStill

-----------------------------------------------------------------------------
(* The rows of match_recipients: the latest of a recipient.                *)

LEMMA LeastNumber ==
    ASSUME NEW S \in SUBSET Nat, S # {}
    PROVE  \E x \in S : \A y \in S : x <= y
<1> DEFINE R == OpToRel(<, Nat)
<1>1. IsWellFoundedOn(R, Nat)  BY NatLessThanWellFounded
<1>2. \A x, y \in Nat : y < x => <<y, x>> \in R  BY DEF OpToRel
<1> HIDE DEF R
<1>3. PICK x \in S : \A y \in S : ~(<<y, x>> \in R)  BY <1>1, WFMin
<1>4. ASSUME NEW y \in S PROVE x <= y
  <2>1. x \in Nat /\ y \in Nat  OBVIOUS
  <2>2. ~(y < x)  BY <1>2, <1>3, <2>1
  <2> QED  BY <2>1, <2>2
<1> QED  BY <1>4

LEMMA GreatestNumber ==
    ASSUME NEW S \in SUBSET Nat, S # {}, NEW b \in Nat, \A x \in S : x <= b
    PROVE  \E x \in S : \A y \in S : y <= x
<1> DEFINE D == {b - x : x \in S}
<1>1. D \in SUBSET Nat /\ D # {}
  <2>1. \A x \in S : b - x \in Nat  OBVIOUS
  <2> QED  BY <2>1
<1>2. PICK d \in D : \A e \in D : d <= e  BY <1>1, LeastNumber
<1>3. PICK x \in S : d = b - x  BY <1>2
<1>4. ASSUME NEW y \in S PROVE y <= x
  <2>1. d <= b - y  BY <1>2
  <2> QED  BY <1>3, <2>1
<1> QED  BY <1>4

LEMMA LatestRow ==
    ASSUME TypeInv, RowInv, NEW m, NEW u, RowsOf(m, u) # {}
    PROVE  /\ Latest(m, u) \in DOMAIN recipient /\ Latest(m, u)[3] \in Nat \ {0}
           /\ Latest(m, u) = Key(m, u, Latest(m, u)[3])
<1> DEFINE revs == {k[3] : k \in RowsOf(m, u)}
<1>1. ASSUME NEW k \in RowsOf(m, u)
      PROVE  k \in DOMAIN recipient /\ k[3] \in Nat \ {0} /\ k = Key(m, u, k[3])
  <2>1. k \in DOMAIN recipient /\ k[1] = m /\ k[2] = u  BY DEF RowsOf
  <2>2. k \in Keys  BY <2>1 DEF TypeInv, RecipientTyped
  <2> QED  BY <2>1, <2>2 DEF Keys, Key
<1>2. revs \in SUBSET Nat /\ revs # {}  BY <1>1
<1>3. PICK b \in Nat : \A k \in DOMAIN recipient : k[3] <= b  BY DEF RowInv
<1>4. PICK r \in revs : \A q \in revs : q <= r
  <2>1. \A r \in revs : r <= b  BY <1>1, <1>3
  <2> QED  BY <1>2, <2>1, GreatestNumber
<1>5. PICK k \in RowsOf(m, u) : k[3] = r  BY <1>4
<1>6. \A l \in RowsOf(m, u) : l[3] <= k[3]  BY <1>4, <1>5
<1>7. Latest(m, u) \in RowsOf(m, u)  BY <1>6 DEF Latest
<1> QED  BY <1>1, <1>7

-----------------------------------------------------------------------------
(* Every action keeps the types: the cards.                                *)

(* Only the rows of match_recipients and the handlers change.              *)
LEMMA RowsTypedStill ==
    ASSUME TypeInv, HandlersTyped', RecipientTyped',
           UNCHANGED <<status, terms, approvedCount, match, revealed, switches, cards, account,
                       timers, left>>
    PROVE  TypeInv'
  BY DEF TypeInv, switches, cards, account, usage, searching, PostingsTyped, MatchTyped,
         UsageTyped, SwitchesTyped, SearchTyped, CardsTyped, TimersTyped, LocksTyped

LEMMA GateTyped ==
    ASSUME TypeInv, NEW i \in Handlers, Gate(i)
    PROVE  TypeInv'
<1> DEFINE x == h[i]
           p == Own(x.m, x.side)
           u == Owner[p]
           c == Party(x.m, IF x.side = "fs" THEN "wtb" ELSE "fs")
           paying == c # Nobody /\ Paying(c)
           pc == IF ~paying /\ p = x.posting /\ ShownFor(p, u) >= CapOf(u) THEN "hold" ELSE "claim"
           y == [x EXCEPT !.paying = paying, !.pc = pc]
<1>1. x.pc = "gate" /\ x \in JobType /\ Ready(x)
  BY HandlerShape DEF Gate, At, Sound, JobPcs
<1>2. HandlersTyped'
  <2>1. CASE u = Nobody \/ ~Monitored(p)
    <3>1. NextSide(i)  BY <2>1 DEF Gate
    <3> QED  BY <1>1, <3>1, NextSideTyped
  <2>2. CASE ~(u = Nobody \/ ~Monitored(p))
    <3>1. h' = [h EXCEPT ![i].paying = paying, ![i].pc = pc]  BY <2>2 DEF Gate
    <3>2. paying \in BOOLEAN /\ pc \in {"hold", "claim"}  OBVIOUS
    <3>3. x.m \in Pairs /\ x.rev > 0 /\ (x.kind = "reconcile" \/ x.posting \in Postings)
      BY <1>1 DEF Ready, JobPcs
    <3>4. Party(x.m, x.side) \in Users  BY <2>2, <3>3, OwnersKnown
    <3> HIDE DEF paying, pc
    <3>5. h' = [h EXCEPT ![i] = y]  BY <3>1 DEF TypeInv, HandlersTyped
    <3>6. y \in JobType  BY <1>1, <3>2 DEF JobType
    <3>7. /\ y.pc = pc /\ y.m = x.m /\ y.rev = x.rev /\ y.side = x.side /\ y.kind = x.kind
          /\ y.posting = x.posting
      BY <1>1 DEF JobType
    <3> HIDE DEF y
    <3>8. Ready(y)  BY <3>2, <3>3, <3>4, <3>7 DEF Ready, Addressed
    <3> QED  BY <3>5, <3>6, <3>8, Moved DEF Sound
  <2> QED  BY <2>1, <2>2
<1>3. UNCHANGED <<rows, switches, cards, account, timers, left>>  BY DEF Gate
<1> QED  BY <1>2, <1>3, StillTyped

(* The row of the card at hand.                                            *)
LEMMA CardKeyKnown ==
    ASSUME TypeInv, NEW i \in Handlers, h[i].pc \in Addressed
    PROVE  /\ CardKey(i) \in Keys /\ CardKey(i) = <<h[i].m, Party(h[i].m, h[i].side), h[i].rev>>
           /\ h[i].m \in Pairs /\ Party(h[i].m, h[i].side) \in Users /\ h[i].rev \in Nat \ {0}
           /\ h[i] \in JobType /\ Own(h[i].m, h[i].side) \in Postings
<1>1. h[i].pc \in JobPcs  BY DEF Addressed, JobPcs
<1>2. h[i] \in JobType /\ Ready(h[i])  BY <1>1, HandlerShape DEF Sound
<1>3. h[i].m \in Pairs /\ Party(h[i].m, h[i].side) \in Users /\ h[i].rev > 0 /\ h[i].rev \in Nat
  BY <1>2, JobFields DEF Ready
<1> QED  BY <1>2, <1>3, OwnersKnown DEF CardKey, Key, Keys

LEMMA InsertedTyped ==
    ASSUME TypeInv, NEW k \in Keys, NEW paying \in BOOLEAN,
           recipient' = Inserted(k, NewRow(paying))
    PROVE  RecipientTyped'
<1>1. NewRow(paying) \in RowType  BY DEF NewRow, RowType
<1>2. DOMAIN recipient' = DOMAIN recipient \cup {k}  BY DEF Inserted
<1>3. ASSUME NEW l \in DOMAIN recipient'
      PROVE  recipient'[l] = IF l = k THEN NewRow(paying) ELSE recipient[l]
  BY <1>2 DEF Inserted
<1> QED  BY <1>1, <1>2, <1>3 DEF TypeInv, RecipientTyped

LEMMA PayingKnown ==
    ASSUME TypeInv, NEW i \in Handlers, h[i].pc \in Addressed
    PROVE  h[i].paying \in BOOLEAN
  BY CardKeyKnown, JobFields

LEMMA HoldTyped ==
    ASSUME TypeInv, NEW i \in Handlers, Hold(i)
    PROVE  TypeInv'
<1> DEFINE k == CardKey(i)
<1>1. h[i].pc \in Addressed  BY DEF Hold, At, Addressed
<1>2. k \in Keys  BY <1>1, CardKeyKnown
<1>3. HandlersTyped'  BY <1>1, NextSideTyped DEF Hold
<1>4. RecipientTyped'
  <2>1. CASE k \in DOMAIN recipient
    <3>1. recipient' = recipient  BY <2>1 DEF Hold
    <3> QED  BY <3>1 DEF TypeInv, RecipientTyped
  <2>2. CASE k \notin DOMAIN recipient
    <3>1. recipient' = Inserted(k, NewRow(FALSE))  BY <2>2 DEF Hold
    <3> QED  BY <1>2, <3>1, InsertedTyped
  <2> QED  BY <2>1, <2>2
<1>5. UNCHANGED <<status, terms, approvedCount, match, revealed, switches, cards, account,
                  timers, left>>
  BY DEF Hold
<1> QED  BY <1>3, <1>4, <1>5, RowsTypedStill

LEMMA ClaimTyped ==
    ASSUME TypeInv, NEW i \in Handlers, Claim(i)
    PROVE  TypeInv'
<1> DEFINE k == CardKey(i)
<1>1. h[i].pc \in Addressed  BY DEF Claim, At, Addressed
<1>2. k \in Keys  BY <1>1, CardKeyKnown
<1>3. NextSide(i) \/ Goto(i, "send")  BY DEF Claim
<1>4. HandlersTyped'  BY <1>1, <1>3, NextSideTyped, GotoCardTyped DEF Addressed
<1>5. recipient' = recipient \/ recipient' = Inserted(k, NewRow(h[i].paying))  BY DEF Claim
<1>6. RecipientTyped'
  <2>1. CASE recipient' = recipient  BY <2>1 DEF TypeInv, RecipientTyped
  <2>2. CASE recipient' = Inserted(k, NewRow(h[i].paying))
    BY <1>1, <1>2, <2>2, InsertedTyped, PayingKnown
  <2> QED  BY <1>5, <2>1, <2>2
<1>7. UNCHANGED <<status, terms, approvedCount, match, revealed, switches, cards, account,
                  timers, left>>
  BY DEF Claim
<1> QED  BY <1>4, <1>6, <1>7, RowsTypedStill

LEMMA SkipTyped ==
    ASSUME TypeInv, NEW i \in Handlers, Skip(i)
    PROVE  TypeInv'
<1>1. HandlersTyped'  BY NextSideTyped DEF Skip, At, Addressed
<1> QED  BY <1>1, StillTyped DEF Skip

LEMMA SendTyped ==
    ASSUME TypeInv, NEW i \in Handlers, Send(i)
    PROVE  TypeInv'
<1>1. h[i].pc \in Addressed  BY DEF Send, At, Addressed
<1>2. HandlersTyped'  BY <1>1, GotoCardTyped DEF Send, Addressed
<1>3. CardKey(i) \in Keys  BY <1>1, CardKeyKnown
<1>4. sent' = sent (+) SetToBag({CardKey(i)}) /\ initial' = initial  BY DEF Send
<1>5. CardsTyped'
  <2>1. IsABag(sent) /\ DOMAIN sent \subseteq Keys /\ initial \in [Postings -> Nat]
    BY DEF TypeInv, CardsTyped
  <2>2. IsABag(sent') /\ DOMAIN sent' = DOMAIN sent \cup {CardKey(i)}  BY <1>4, <2>1, BagAdd
  <2>3. IsABag(sent)'  BY <2>2 DEF IsABag
  <2> QED  BY <1>3, <1>4, <2>1, <2>2, <2>3 DEF CardsTyped
<1>6. UNCHANGED <<rows, switches, account, timers, left>>  BY DEF Send
<1> QED
  BY <1>2, <1>5, <1>6
     DEF TypeInv, rows, switches, account, usage, searching, PostingsTyped, MatchTyped,
         RecipientTyped, UsageTyped, SwitchesTyped, SearchTyped, TimersTyped, LocksTyped

(* One row changes, and stays a row.                                       *)
LEMMA RowTyped ==
    ASSUME TypeInv, NEW k, NEW row \in RowType, recipient' = [recipient EXCEPT ![k] = row]
    PROVE  RecipientTyped'
<1>1. DOMAIN recipient' = DOMAIN recipient  OBVIOUS
<1>2. ASSUME NEW l \in DOMAIN recipient PROVE recipient'[l] = IF l = k THEN row ELSE recipient[l]
  OBVIOUS
<1> QED  BY <1>1, <1>2 DEF TypeInv, RecipientTyped

LEMMA MarkTyped ==
    ASSUME TypeInv, NEW i \in Handlers, Mark(i)
    PROVE  TypeInv'
<1> DEFINE k == CardKey(i)
           p == Own(h[i].m, h[i].side)
<1>1. h[i].pc \in Addressed  BY DEF Mark, At, Addressed
<1>2. HandlersTyped'  BY <1>1, NextSideTyped DEF Mark
<1>3. RecipientTyped'
  <2>1. CASE k \in DOMAIN recipient
    <3>1. recipient' = [recipient EXCEPT ![k].delivered = TRUE]  BY <2>1 DEF Mark
    <3>2. recipient[k] \in RowType  BY <2>1 DEF TypeInv, RecipientTyped
    <3>3. [recipient[k] EXCEPT !.delivered = TRUE] \in RowType  BY <3>2 DEF RowType
    <3>4. recipient' = [recipient EXCEPT ![k] = [recipient[k] EXCEPT !.delivered = TRUE]]
      BY <3>1
    <3> QED  BY <3>3, <3>4, RowTyped
  <2>2. CASE k \notin DOMAIN recipient
    <3>1. recipient' = recipient  BY <2>2 DEF Mark
    <3> QED  BY <3>1 DEF TypeInv, RecipientTyped
  <2> QED  BY <2>1, <2>2
<1>4. CardsTyped'
  <2>1. initial' = initial \/ initial' = [initial EXCEPT ![p] = @ + 1]  BY DEF Mark
  <2>2. sent' = sent  BY DEF Mark
  <2>3. initial \in [Postings -> Nat]  BY DEF TypeInv, CardsTyped
  <2>4. initial' \in [Postings -> Nat]
    <3> HIDE DEF p
    <3> QED  BY <2>1, <2>3
  <2> QED  BY <2>2, <2>4 DEF TypeInv, CardsTyped
<1>5. UNCHANGED <<status, terms, approvedCount, match, revealed, switches, account, timers, left>>
  BY DEF Mark
<1> QED
  BY <1>2, <1>3, <1>4, <1>5
     DEF TypeInv, switches, account, usage, searching, PostingsTyped, MatchTyped,
         UsageTyped, SwitchesTyped, SearchTyped, TimersTyped, LocksTyped

(* Only the handlers and the bounds change.                                *)
LEMMA SpentTyped ==
    ASSUME TypeInv, HandlersTyped', NEW r \in Bounded \ {"failed"}, Spend(r),
           UNCHANGED <<rows, switches, cards, account, timers>>
    PROVE  TypeInv'
<1>1. left' \in [Bounded -> Nat]  BY SpendTyped
<1> QED
  BY <1>1
     DEF TypeInv, rows, switches, cards, account, usage, searching, PostingsTyped, MatchTyped,
         RecipientTyped, UsageTyped, SwitchesTyped, SearchTyped, CardsTyped, TimersTyped, LocksTyped

LEMMA UndeliveredTyped ==
    ASSUME TypeInv, NEW i \in Handlers, Undelivered(i)
    PROVE  TypeInv'
<1>1. h[i].pc \in Addressed  BY DEF Undelivered, Addressed
<1>2. HandlersTyped'  BY <1>1, GotoCardTyped DEF Undelivered, Addressed
<1>3. Spend("faults") /\ "faults" \in Bounded \ {"failed"}  BY DEF Undelivered, Bounded
<1>4. UNCHANGED <<rows, switches, cards, account, timers>>  BY DEF Undelivered
<1> QED  BY <1>2, <1>3, <1>4, SpentTyped

LEMMA DiscardTyped ==
    ASSUME TypeInv, NEW i \in Handlers, Discard(i)
    PROVE  TypeInv'
<1>1. HandlersTyped'  BY NextSideTyped DEF Discard, At, Addressed
<1>2. recipient' = [r \in {q \in DOMAIN recipient : q # CardKey(i) \/ recipient[CardKey(i)].decision # "pending"}
                       |-> recipient[r]]
  BY DEF Discard
<1>3. RecipientTyped'  BY <1>2 DEF TypeInv, RecipientTyped
<1>4. UNCHANGED <<status, terms, approvedCount, match, revealed, switches, cards, account,
                  timers, left>>
  BY DEF Discard
<1> QED  BY <1>1, <1>3, <1>4, RowsTypedStill

-----------------------------------------------------------------------------
(* Every action keeps the types: the replies.                              *)

LEMMA ReplyTyped ==
    ASSUME TypeInv, NEW pc \in ReplyPcs, NEW m \in Pairs, NEW u \in Users
    PROVE  /\ Reply(pc, m, u) \in ReplyType
           /\ \A r \in Nat : [Reply(pc, m, u) EXCEPT !.rev = r] \in ReplyType
<1>1. plan[u] \in Plans  BY DEF TypeInv, SwitchesTyped
<1>2. Reply(pc, m, u) \in ReplyType  BY <1>1 DEF Reply, ReplyType, ReplyPcs
<1> QED  BY <1>2 DEF ReplyType

LEMMA ReplyFields ==
    ASSUME TypeInv, NEW i \in Handlers, h[i].pc \in ReplyPcs
    PROVE  /\ h[i] \in ReplyType /\ Ready(h[i])
           /\ h[i].m \in Pairs /\ h[i].u \in Users /\ h[i].rev \in Nat /\ h[i].plan \in Plans
  BY HandlerShape DEF ReplyType, Sound

LEMMA PassMatchTyped ==
    ASSUME TypeInv, RowInv, NEW m \in Pairs, NEW u \in Users, PassMatch(m, u)
    PROVE  TypeInv'
<1> DEFINE y == [Reply("pass", m, u) EXCEPT !.rev = Latest(m, u)[3]]
<1>1. Latest(m, u)[3] \in Nat \ {0}  BY LatestRow DEF PassMatch
<1>2. y \in ReplyType  BY <1>1, ReplyTyped DEF ReplyPcs
<1>3. y.pc = "pass" /\ y.rev = Latest(m, u)[3]  BY DEF Reply
<1>4. Sound(y)
  <2> HIDE DEF y
  <2> QED  BY <1>1, <1>2, <1>3 DEF Sound, Ready, JobPcs, Addressed
<1>5. HandlersTyped'  BY <1>4, TakeTyped DEF PassMatch
<1>6. Spend("calls") /\ "calls" \in Bounded \ {"failed"}  BY DEF PassMatch, Bounded
<1>7. UNCHANGED <<rows, switches, cards, account, timers>>  BY DEF PassMatch
<1> QED  BY <1>5, <1>6, <1>7, SpentTyped

LEMMA PassTyped ==
    ASSUME TypeInv, NEW i \in Handlers, Pass(i)
    PROVE  TypeInv'
<1> DEFINE k == Key(h[i].m, h[i].u, h[i].rev)
<1>1. HandlersTyped'  BY DoneTyped DEF Pass
<1>2. RecipientTyped'
  <2>1. CASE k \in DOMAIN recipient
    <3>1. recipient' = [recipient EXCEPT ![k].decision = "passed"]  BY <2>1 DEF Pass
    <3>2. recipient[k] \in RowType  BY <2>1 DEF TypeInv, RecipientTyped
    <3>3. [recipient[k] EXCEPT !.decision = "passed"] \in RowType  BY <3>2 DEF RowType
    <3>4. recipient' = [recipient EXCEPT ![k] = [recipient[k] EXCEPT !.decision = "passed"]]
      BY <3>1
    <3> QED  BY <3>3, <3>4, RowTyped
  <2>2. CASE k \notin DOMAIN recipient
    <3>1. recipient' = recipient  BY <2>2 DEF Pass
    <3> QED  BY <3>1 DEF TypeInv, RecipientTyped
  <2> QED  BY <2>1, <2>2
<1>3. UNCHANGED <<status, terms, approvedCount, match, revealed, switches, cards, account,
                  timers, left>>
  BY DEF Pass
<1> QED  BY <1>1, <1>2, <1>3, RowsTypedStill

LEMMA ApproveMatchTyped ==
    ASSUME TypeInv, NEW m \in Pairs, NEW u \in Users, ApproveMatch(m, u)
    PROVE  TypeInv'
<1> DEFINE y == Reply("lock", m, u)
<1>1. y \in ReplyType  BY ReplyTyped DEF ReplyPcs
<1>2. y.pc = "lock"  BY DEF Reply
<1>3. Sound(y)
  <2> HIDE DEF y
  <2> QED  BY <1>1, <1>2 DEF Sound, Ready, JobPcs, Addressed
<1>4. HandlersTyped'  BY <1>3, TakeTyped DEF ApproveMatch
<1>5. Spend("calls") /\ "calls" \in Bounded \ {"failed"}  BY DEF ApproveMatch, Bounded
<1>6. UNCHANGED <<rows, switches, cards, account, timers>>  BY DEF ApproveMatch
<1> QED  BY <1>4, <1>5, <1>6, SpentTyped

(* Only the locks and the handlers change.                                 *)
LEMMA LockedTyped ==
    ASSUME TypeInv, HandlersTyped', userLock' \subseteq Users,
           UNCHANGED <<rows, switches, cards, usage, searching, timers>>,
           left' \in [Bounded -> Nat]
    PROVE  TypeInv'
  BY DEF TypeInv, rows, switches, cards, usage, searching, PostingsTyped, MatchTyped,
         RecipientTyped, UsageTyped, SwitchesTyped, SearchTyped, CardsTyped, TimersTyped, LocksTyped

LEMMA LockTyped ==
    ASSUME TypeInv, RowInv, NEW i \in Handlers, Lock(i)
    PROVE  TypeInv'
<1> DEFINE x == h[i]
           y == [x EXCEPT !.pc = "commit", !.rev = Latest(x.m, x.u)[3]]
<1>1. x.pc \in ReplyPcs  BY DEF Lock, At, ReplyPcs
<1>2. x \in ReplyType /\ x.u \in Users  BY <1>1, ReplyFields
<1>3. UNCHANGED <<rows, switches, cards, usage, searching, timers, left>>  BY DEF Lock
<1>4. left' \in [Bounded -> Nat]  BY <1>3 DEF TypeInv
<1>5. CASE Done(i) /\ UNCHANGED userLock
  <2>1. HandlersTyped'  BY <1>5, DoneTyped
  <2> QED  BY <1>3, <1>4, <1>5, <2>1, LockedTyped DEF TypeInv, LocksTyped
<1>6. CASE /\ RowsOf(x.m, x.u) # {}
           /\ userLock' = userLock \cup {x.u}
           /\ h' = [h EXCEPT ![i].pc = "commit", ![i].rev = Latest(x.m, x.u)[3]]
  <2>1. Latest(x.m, x.u)[3] \in Nat \ {0}  BY <1>6, LatestRow
  <2>2. y \in ReplyType  BY <1>2, <2>1 DEF ReplyType
  <2>3. y.pc = "commit" /\ y.rev = Latest(x.m, x.u)[3]  BY <1>2 DEF ReplyType
  <2>4. h' = [h EXCEPT ![i] = y]  BY <1>6 DEF TypeInv, HandlersTyped
  <2>5. Sound(y)
    <3> HIDE DEF y
    <3> QED  BY <2>1, <2>2, <2>3 DEF Sound, Ready, JobPcs, Addressed
  <2>6. HandlersTyped'  BY <2>4, <2>5, Moved
  <2>7. userLock' \subseteq Users  BY <1>2, <1>6 DEF TypeInv, LocksTyped
  <2> QED  BY <1>3, <1>4, <2>6, <2>7, LockedTyped
<1> QED  BY <1>5, <1>6 DEF Lock

LEMMA RefuseTyped ==
    ASSUME TypeInv, NEW i \in Handlers, Refuse(i)
    PROVE  TypeInv'
<1>1. HandlersTyped'  BY DoneTyped DEF Refuse
<1>2. userLock' \subseteq Users  BY DEF Refuse, TypeInv, LocksTyped
<1>3. UNCHANGED <<rows, switches, cards, usage, searching, timers, left>>  BY DEF Refuse
<1>4. left' \in [Bounded -> Nat]  BY <1>3 DEF TypeInv
<1> QED  BY <1>1, <1>2, <1>3, <1>4, LockedTyped

LEMMA ThrowTyped ==
    ASSUME TypeInv, NEW i \in Handlers, Throw(i)
    PROVE  TypeInv'
<1>1. HandlersTyped'  BY DoneTyped DEF Throw
<1>2. userLock' \subseteq Users  BY DEF Throw, TypeInv, LocksTyped
<1>3. UNCHANGED <<rows, switches, cards, usage, searching, timers>>  BY DEF Throw
<1>4. left' \in [Bounded -> Nat]  BY SpendTyped DEF Throw, Bounded
<1> QED  BY <1>1, <1>2, <1>3, <1>4, LockedTyped

LEMMA RestartTyped ==
    ASSUME TypeInv, Restart
    PROVE  TypeInv'
<1>1. HandlersTyped'
  <2>1. h' = [i \in Handlers |-> Idle]  BY DEF Restart
  <2>2. \A i \in Handlers : Sound(h[i])'
    <3>1. \A i \in Handlers : h'[i] = Idle  BY <2>1
    <3> QED  BY <3>1, IdleSound DEF Sound, Ready, Party, Own, Idle
  <2> QED  BY <2>1, <2>2 DEF HandlersTyped
<1>2. TimersTyped'
  <2>1. timers' = EmptyBag  BY DEF Restart
  <2> QED  BY <2>1 DEF TimersTyped, EmptyBag, SetToBag, IsABag
<1>3. SearchTyped'
  <2>1. search' = [u \in Users |-> NotSearching] /\ undecided' = undecided  BY DEF Restart
  <2> QED  BY <2>1 DEF TypeInv, SearchTyped, SearchType, NotSearching
<1>4. LocksTyped'  BY DEF Restart, rows, TypeInv, LocksTyped
<1>5. left' \in [Bounded -> Nat]  BY SpendTyped DEF Restart, Bounded
<1>6. UNCHANGED <<rows, switches, cards, usage>>  BY DEF Restart
<1> QED
  BY <1>1, <1>2, <1>3, <1>4, <1>5, <1>6
     DEF TypeInv, rows, switches, cards, usage, PostingsTyped, MatchTyped,
         RecipientTyped, UsageTyped, SwitchesTyped, CardsTyped

(* The account's counts after an approval.                                 *)
LEMMA RecordTyped ==
    ASSUME TypeInv, NEW m \in Pairs, NEW u \in Users, NEW comp \in BOOLEAN,
           RecordApproval(m, u, comp)
    PROVE  UsageTyped'
<1>1. CASE UNCHANGED usage  BY <1>1 DEF usage, TypeInv, UsageTyped
<1>2. CASE <<m, u>> \notin approvals
  <2>1. /\ approvals' = approvals \cup {<<m, u>>}
        /\ free' = free \/ free' = [free EXCEPT ![u] = @ + 1]
        /\ weekly' = weekly \/ weekly' = [weekly EXCEPT ![u] = @ + 1]
        /\ ledger' = [ledger EXCEPT ![u] = @ + 1] /\ total' = [total EXCEPT ![u] = @ + 1]
        /\ tasksUsed' = tasksUsed \/ tasksUsed' = [tasksUsed EXCEPT ![u] = @ + 1]
    BY <1>2 DEF RecordApproval
  <2>2. approvals' \subseteq Pairs \X Users  BY <2>1 DEF TypeInv, UsageTyped
  <2>3. free' \in [Users -> Nat]  BY <2>1 DEF TypeInv, UsageTyped
  <2>4. weekly' \in [Users -> Nat]  BY <2>1 DEF TypeInv, UsageTyped
  <2>5. ledger' \in [Users -> Nat] /\ total' \in [Users -> Nat]  BY <2>1 DEF TypeInv, UsageTyped
  <2>6. tasksUsed' \in [Users -> Nat]  BY <2>1 DEF TypeInv, UsageTyped
  <2> QED  BY <2>2, <2>3, <2>4, <2>5, <2>6 DEF UsageTyped
<1> QED  BY <1>1, <1>2 DEF RecordApproval

LEMMA CommitTyped ==
    ASSUME TypeInv, NEW i \in Handlers, Commit(i)
    PROVE  TypeInv'
<1> DEFINE m == h[i].m
           u == h[i].u
           k == Key(m, u, h[i].rev)
           p == Own(m, SideOf(m, u))
<1>1. h[i].pc \in ReplyPcs  BY DEF Commit, At, ReplyPcs
<1>2. m \in Pairs /\ u \in Users  BY <1>1, ReplyFields
<1>3. p \in Postings  BY <1>2, OwnersKnown
<1>4. HandlersTyped'  BY DoneTyped DEF Commit
<1>5. UsageTyped'
  <2>1. CASE UNCHANGED usage  BY <2>1 DEF usage, TypeInv, UsageTyped
  <2>2. CASE RecordApproval(m, u, IsComplimentary(u))
    <3>1. IsComplimentary(u) \in BOOLEAN  BY DEF IsComplimentary
    <3> QED  BY <1>2, <2>2, <3>1, RecordTyped
  <2> QED  BY <2>1, <2>2 DEF Commit
<1>6. PostingsTyped' /\ RecipientTyped'
  <2>1. terms' = terms  BY DEF Commit
  <2>2. CASE UNCHANGED <<status, approvedCount, recipient>>
    BY <2>1, <2>2 DEF TypeInv, PostingsTyped, RecipientTyped
  <2>3. CASE CountOnPosting(p) /\ recipient' = [recipient EXCEPT ![k].decision = "approved"]
    <3>1. approvedCount' \in [Postings -> Nat]
      BY <1>3, <2>3 DEF CountOnPosting, TypeInv, PostingsTyped
    <3>2. status' \in [Postings -> {"none", "active", "paused", "completed", "closed"}]
      <4>1. status' = status \/ status' = [status EXCEPT ![p] = "completed"]
        BY <2>3 DEF CountOnPosting
      <4> QED  BY <1>3, <4>1 DEF TypeInv, PostingsTyped
    <3>3. RecipientTyped'
      <4>1. CASE k \in DOMAIN recipient
        <5>1. recipient[k] \in RowType  BY <4>1 DEF TypeInv, RecipientTyped
        <5>2. [recipient[k] EXCEPT !.decision = "approved"] \in RowType  BY <5>1 DEF RowType
        <5>3. recipient' = [recipient EXCEPT ![k] = [recipient[k] EXCEPT !.decision = "approved"]]
          BY <2>3
        <5> QED  BY <5>2, <5>3, RowTyped
      <4>2. CASE k \notin DOMAIN recipient
        <5>1. /\ DOMAIN recipient' = DOMAIN recipient
              /\ \A l \in DOMAIN recipient : recipient'[l] = recipient[l]
          BY <2>3, <4>2
        <5> QED  BY <5>1 DEF TypeInv, RecipientTyped
      <4> QED  BY <4>1, <4>2
    <3> QED  BY <2>1, <3>1, <3>2, <3>3 DEF TypeInv, PostingsTyped
  <2>4. \/ UNCHANGED <<status, approvedCount, recipient>>
        \/ CountOnPosting(p) /\ recipient' = [recipient EXCEPT ![k].decision = "approved"]
    BY DEF Commit
  <2> HIDE DEF p, k
  <2> QED  BY <2>2, <2>3, <2>4
<1>7. LocksTyped'
  <2>1. revealed' = revealed \cup {<<m, u>>} /\ userLock' = userLock \ {u}  BY DEF Commit
  <2> QED  BY <1>2, <2>1 DEF TypeInv, LocksTyped
<1>8. UNCHANGED <<match, switches, cards, searching, timers, left>>  BY DEF Commit
<1> QED
  BY <1>4, <1>5, <1>6, <1>7, <1>8
     DEF TypeInv, switches, cards, searching, MatchTyped, SwitchesTyped, SearchTyped,
         CardsTyped, TimersTyped

-----------------------------------------------------------------------------
(* Every action keeps the types: owners, administrators and searches.      *)

LEMMA HandlersStill ==
    ASSUME TypeInv, h' = h
    PROVE  HandlersTyped'
  BY DEF TypeInv, HandlersTyped, Sound, Ready, Party, Own

LEMMA BecomeTyped ==
    ASSUME TypeInv, NEW p \in Postings, NEW from,
           NEW to \in {"active", "paused", "closed"}, Become(p, from, to)
    PROVE  TypeInv'
<1>1. status' = [status EXCEPT ![p] = to]  BY DEF Become
<1>2. status' \in [Postings -> {"none", "active", "paused", "completed", "closed"}]
  BY <1>1 DEF TypeInv, PostingsTyped
<1>3. left' \in [Bounded -> Nat]  BY SpendTyped DEF Become, Bounded
<1>4. UNCHANGED <<terms, approvedCount, match, recipient, revealed, switches, cards, account,
                  timers, h>>
  BY DEF Become, Unchanged
<1>5. HandlersTyped'  BY <1>4, HandlersStill
<1> QED
  BY <1>2, <1>3, <1>4, <1>5
     DEF TypeInv, switches, cards, account, usage, searching, PostingsTyped, MatchTyped,
         RecipientTyped, UsageTyped, SwitchesTyped, SearchTyped, CardsTyped, TimersTyped, LocksTyped

LEMMA SwitchesStep ==
    ASSUME TypeInv, SwitchesTyped', Spend("changes"), UNCHANGED <<rows, cards, account, timers, h>>
    PROVE  TypeInv'
<1>1. left' \in [Bounded -> Nat]  BY SpendTyped DEF Bounded
<1>2. HandlersTyped'  BY HandlersStill
<1> QED
  BY <1>1, <1>2
     DEF TypeInv, rows, cards, account, usage, searching, PostingsTyped, MatchTyped,
         RecipientTyped, UsageTyped, SearchTyped, CardsTyped, TimersTyped, LocksTyped

LEMMA SwitchingTyped ==
    ASSUME TypeInv, Monitor \/ \E u \in Users : Stop(u) \/ Start(u)
    PROVE  TypeInv'
<1>1. CASE Monitor
  <2>1. monitoring' \in BOOLEAN /\ UNCHANGED <<optedOut, plan>>  BY <1>1 DEF Monitor
  <2>2. SwitchesTyped'  BY <2>1 DEF TypeInv, SwitchesTyped
  <2> QED  BY <1>1, <2>2, SwitchesStep DEF Monitor, Unchanged
<1>2. ASSUME NEW u \in Users, Stop(u) PROVE TypeInv'
  <2>1. optedOut' \subseteq Users /\ monitoring' = monitoring
    BY <1>2 DEF Stop, TypeInv, SwitchesTyped
  <2>2. plan' = plan \/ plan' = [plan EXCEPT ![u] = "none"]  BY <1>2 DEF Stop
  <2>3. plan' \in [Users -> Plans]  BY <2>2 DEF TypeInv, SwitchesTyped, Plans
  <2>4. SwitchesTyped'  BY <2>1, <2>3 DEF TypeInv, SwitchesTyped
  <2> QED  BY <1>2, <2>4, SwitchesStep DEF Stop, Unchanged
<1>3. ASSUME NEW u \in Users, Start(u) PROVE TypeInv'
  <2>1. optedOut' \subseteq Users /\ monitoring' = monitoring /\ plan' = plan
    BY <1>3 DEF Start, TypeInv, SwitchesTyped
  <2>2. SwitchesTyped'  BY <2>1 DEF TypeInv, SwitchesTyped
  <2> QED  BY <1>3, <2>2, SwitchesStep DEF Start, Unchanged
<1> QED  BY <1>1, <1>2, <1>3

(* Only the usage, the searches, the plans and the bounds change.          *)
LEMMA UsageStepTyped ==
    ASSUME TypeInv, UsageTyped', SearchTyped', SwitchesTyped', left' \in [Bounded -> Nat],
           UNCHANGED <<userLock, matching>>
    PROVE  TypeInv'
<1>1. HandlersTyped'  BY HandlersStill DEF matching
<1> QED
  BY <1>1
     DEF TypeInv, matching, rows, cards, PostingsTyped, MatchTyped,
         RecipientTyped, CardsTyped, TimersTyped, LocksTyped

(* A search decision goes from one of its statements to the next.          *)
LEMMA ProceedTyped ==
    ASSUME TypeInv, NEW u \in Users, NEW pc \in {"insert", "ledger", "count", "task", "decide"},
           search[u].pc # "idle", Proceed(u, pc), undecided' = undecided
    PROVE  /\ SearchTyped'
           /\ search'[u].pc = pc /\ search'[u].comp = search[u].comp
           /\ \A v \in Users \ {u} : search'[v] = search[v]
<1>1. search \in [Users -> SearchType]  BY DEF TypeInv, SearchTyped
<1>2. search' = [search EXCEPT ![u].pc = pc]  BY DEF Proceed
<1>3. search'[u] = [search[u] EXCEPT !.pc = pc] /\ \A v \in Users \ {u} : search'[v] = search[v]
  BY <1>1, <1>2
<1>4. search[u] \in SearchType  BY <1>1
<1>5. search'[u] \in SearchType /\ search'[u].pc = pc /\ search'[u].comp = search[u].comp
  BY <1>3, <1>4 DEF SearchType
<1>6. search' \in [Users -> SearchType]  BY <1>1, <1>2, <1>3, <1>5
<1>7. \A v \in Users : search'[v].pc # "idle" => undecided'[v] > 0
  BY <1>3, <1>5 DEF TypeInv, SearchTyped
<1> QED  BY <1>3, <1>5, <1>6, <1>7 DEF TypeInv, SearchTyped

(* Counters grow by one for one account.                                   *)
LEMMA Incremented ==
    ASSUME NEW f \in [Users -> Nat], NEW u \in Users, NEW g, g = f \/ g = [f EXCEPT ![u] = @ + 1]
    PROVE  g \in [Users -> Nat]
  OBVIOUS

LEMMA SearchStepsTyped ==
    ASSUME TypeInv, NEW u \in Users, UsageStep(u), UNCHANGED matching
    PROVE  TypeInv'
<1>1. /\ free \in [Users -> Nat] /\ weekly \in [Users -> Nat] /\ ledger \in [Users -> Nat]
      /\ total \in [Users -> Nat] /\ tasksUsed \in [Users -> Nat]
      /\ undecided \in [Users -> Nat] /\ search \in [Users -> SearchType]
  BY DEF TypeInv, UsageTyped, SearchTyped
<1>2. /\ free' = free \/ free' = [free EXCEPT ![u] = @ + 1]
      /\ weekly' = weekly \/ weekly' = [weekly EXCEPT ![u] = @ + 1]
      /\ ledger' = ledger \/ ledger' = [ledger EXCEPT ![u] = @ + 1]
      /\ total' = total \/ total' = [total EXCEPT ![u] = @ + 1]
      /\ tasksUsed' = tasksUsed \/ tasksUsed' = [tasksUsed EXCEPT ![u] = @ + 1]
      /\ approvals' = approvals /\ plan' = plan /\ userLock' = userLock /\ left' = left
  BY DEF UsageStep, InsertApproval, InsertLedger, CountApproval, UseTask, Decide, usage
<1>3. UsageTyped'
  <2>1. free' \in [Users -> Nat] /\ weekly' \in [Users -> Nat]  BY <1>1, <1>2, Incremented
  <2>2. ledger' \in [Users -> Nat] /\ total' \in [Users -> Nat]  BY <1>1, <1>2, Incremented
  <2>3. tasksUsed' \in [Users -> Nat]  BY <1>1, <1>2, Incremented
  <2> QED  BY <1>2, <2>1, <2>2, <2>3 DEF TypeInv, UsageTyped
<1>4. SearchTyped'
  <2>1. CASE Decide(u)
    <3>1. /\ search' = [search EXCEPT ![u] = NotSearching] /\ search[u].pc = "decide"
          /\ undecided' = [undecided EXCEPT ![u] = @ - 1]
      BY <2>1 DEF Decide, Doing
    <3>2. undecided[u] \in Nat /\ undecided[u] > 0
      BY <3>1 DEF TypeInv, SearchTyped
    <3>3. undecided' \in [Users -> Nat]  BY <1>1, <3>1, <3>2
    <3>4. NotSearching \in SearchType /\ NotSearching.pc = "idle"  BY DEF NotSearching, SearchType
    <3>5. search' \in [Users -> SearchType]  BY <1>1, <3>1, <3>4
    <3>6. \A v \in Users : search'[v].pc # "idle" => undecided'[v] > 0
      BY <1>1, <3>1, <3>4 DEF TypeInv, SearchTyped
    <3> QED  BY <3>3, <3>5, <3>6 DEF SearchTyped
  <2>2. CASE ~Decide(u)
    <3>1. /\ search[u].pc # "idle" /\ undecided' = undecided
          /\ \E pc \in {"insert", "ledger", "count", "task", "decide"} : Proceed(u, pc)
      BY <2>2 DEF UsageStep, InsertApproval, InsertLedger, CountApproval, UseTask, Doing
    <3> QED  BY <3>1, ProceedTyped
  <2> QED  BY <2>1, <2>2
<1>5. SwitchesTyped'  BY <1>2 DEF matching, TypeInv, SwitchesTyped
<1>6. left' \in [Bounded -> Nat]  BY <1>2 DEF TypeInv
<1> QED  BY <1>2, <1>3, <1>4, <1>5, <1>6, UsageStepTyped

LEMMA UsageTypedStep ==
    ASSUME TypeInv, NEW u \in Users, Usage(u)
    PROVE  TypeInv'
<1>0. UNCHANGED matching /\ monitoring' = monitoring /\ optedOut' = optedOut  BY DEF Usage, matching
<1>1. CASE UsageStep(u)  BY <1>0, <1>1, SearchStepsTyped
<1>2. CASE Ask(u)
  <2>1. search' = [search EXCEPT ![u] = [pc |-> "insert", comp |-> IsComplimentary(u)]]
    BY <1>2 DEF Ask
  <2>2. undecided[u] > 0 /\ UNCHANGED <<usage, plan, userLock, undecided, left>>  BY <1>2 DEF Ask
  <2>3. [pc |-> "insert", comp |-> IsComplimentary(u)] \in SearchType
    BY DEF SearchType, IsComplimentary
  <2>4. SearchTyped'
    <3>1. search' \in [Users -> SearchType]  BY <2>1, <2>3 DEF TypeInv, SearchTyped
    <3>2. \A v \in Users \ {u} : search'[v] = search[v]  BY <2>1 DEF TypeInv, SearchTyped
    <3> QED  BY <2>2, <3>1, <3>2 DEF TypeInv, SearchTyped
  <2>5. UsageTyped' /\ SwitchesTyped' /\ left' \in [Bounded -> Nat]
    BY <1>0, <2>2 DEF TypeInv, usage, UsageTyped, SwitchesTyped
  <2> QED  BY <1>0, <2>2, <2>4, <2>5, UsageStepTyped
<1>3. CASE SearchPass(u)
  <2>1. /\ search[u].pc = "idle" /\ undecided[u] > 0 /\ search' = search
        /\ undecided' = [undecided EXCEPT ![u] = @ - 1]
        /\ UNCHANGED <<usage, plan, userLock, left>>
    BY <1>3 DEF SearchPass, Doing
  <2>2. SearchTyped'
    <3>1. undecided \in [Users -> Nat]  BY DEF TypeInv, SearchTyped
    <3>2. undecided' \in [Users -> Nat]  BY <2>1, <3>1
    <3>3. \A v \in Users \ {u} : undecided'[v] = undecided[v]  BY <2>1, <3>1
    <3> QED  BY <2>1, <3>2, <3>3 DEF TypeInv, SearchTyped
  <2>3. UsageTyped' /\ SwitchesTyped' /\ left' \in [Bounded -> Nat]
    BY <1>0, <2>1 DEF TypeInv, usage, UsageTyped, SwitchesTyped
  <2> QED  BY <1>0, <2>1, <2>2, <2>3, UsageStepTyped
<1>4. CASE SearchThrows(u)
  <2>1. /\ search' = [search EXCEPT ![u] = NotSearching] /\ Spend("faults")
        /\ UNCHANGED <<usage, plan, userLock, undecided>>
    BY <1>4 DEF SearchThrows
  <2>2. SearchTyped'
    <3>1. NotSearching \in SearchType /\ NotSearching.pc = "idle"  BY DEF NotSearching, SearchType
    <3>2. search' \in [Users -> SearchType]  BY <2>1, <3>1 DEF TypeInv, SearchTyped
    <3>3. \A v \in Users : search'[v] = search[v] \/ search'[v] = NotSearching
      BY <2>1 DEF TypeInv, SearchTyped
    <3> QED  BY <2>1, <3>1, <3>2, <3>3 DEF TypeInv, SearchTyped
  <2>3. UsageTyped' /\ SwitchesTyped'
    BY <1>0, <2>1 DEF TypeInv, usage, UsageTyped, SwitchesTyped
  <2>4. left' \in [Bounded -> Nat]  BY <2>1, SpendTyped DEF Bounded
  <2> QED  BY <1>0, <2>1, <2>2, <2>3, <2>4, UsageStepTyped
<1>5. CASE WeekPasses(u)
  <2>1. /\ weekly[u] > 0 /\ weekly' = [weekly EXCEPT ![u] = @ - 1] /\ Spend("changes")
        /\ UNCHANGED <<approvals, free, ledger, total, tasksUsed, plan, userLock, searching>>
    BY <1>5 DEF WeekPasses
  <2>2. weekly' \in [Users -> Nat]
    <3>1. weekly \in [Users -> Nat]  BY DEF TypeInv, UsageTyped
    <3> QED  BY <2>1, <3>1
  <2>3. UsageTyped' /\ SwitchesTyped' /\ SearchTyped'
    BY <1>0, <2>1, <2>2 DEF TypeInv, UsageTyped, SwitchesTyped, searching, SearchTyped
  <2>4. left' \in [Bounded -> Nat]  BY <2>1, SpendTyped DEF Bounded
  <2> QED  BY <1>0, <2>1, <2>3, <2>4, UsageStepTyped
<1>6. ASSUME NEW e \in Entitlements, SetPlan(u, e) PROVE TypeInv'
  <2>1. /\ plan' = [plan EXCEPT ![u] = e] /\ Spend("changes")
        /\ UNCHANGED <<usage, userLock, searching>>
    BY <1>6 DEF SetPlan
  <2>2. e \in Plans  BY UsageAssumption
  <2>3. UsageTyped' /\ SwitchesTyped' /\ SearchTyped'
    BY <1>0, <2>1, <2>2 DEF TypeInv, usage, UsageTyped, SwitchesTyped, searching, SearchTyped
  <2>4. left' \in [Bounded -> Nat]  BY <2>1, SpendTyped DEF Bounded
  <2> QED  BY <1>0, <2>1, <2>3, <2>4, UsageStepTyped
<1> QED  BY <1>1, <1>2, <1>3, <1>4, <1>5, <1>6 DEF Usage

LEMMA NextTyped == TypeInv /\ RowInv /\ [Next]_vars => TypeInv'
<1> SUFFICES ASSUME TypeInv, RowInv, [Next]_vars PROVE TypeInv'
  OBVIOUS
<1>1. ASSUME NEW i \in Handlers, Work(i) PROVE TypeInv'
  BY <1>1, SearchStepTyped, SelectTyped, UpsertTyped, InsertConflictTyped, FinishTyped,
     GateTyped, HoldTyped, ClaimTyped, SkipTyped, SendTyped, MarkTyped, DiscardTyped,
     PassTyped, LockTyped, CommitTyped, RefuseTyped
     DEF Work
<1>2. ASSUME NEW p \in Postings, Pause(p) \/ Resume(p) \/ Close(p) PROVE TypeInv'
  BY <1>2, BecomeTyped DEF Pause, Resume, Close
<1>3. CASE UNCHANGED vars
  <2>1. HandlersTyped'  BY <1>3, HandlersStill DEF vars
  <2> QED  BY <1>3, <2>1, StillTyped DEF vars
<1>4. CASE Next
  BY <1>1, <1>2, <1>4, IngestTyped, ReconcileTyped, FireTyped, PassMatchTyped, ApproveMatchTyped,
     UndeliveredTyped, ThrowTyped, RestartTyped, SwitchingTyped, UsageTypedStep
     DEF Next
<1> QED  BY <1>3, <1>4

LEMMA InitTyped == Init => TypeInv
<1> SUFFICES ASSUME Init PROVE TypeInv
  OBVIOUS
<1>1. left \in Bounds /\ left \in [Bounded -> Nat] /\ left.results \in Nat
  BY UsageAssumption DEF Init, UsageInit, Bounded
<1>2. terms \in [Postings -> Terms \cup {None}]
  <2>1. PICK s \in Starts : terms = s[2]  BY DEF Init
  <2> QED  BY <2>1, MatchingAssumption
<1>3. PostingsTyped
  BY <1>2 DEF Init, PostingsTyped
<1>4. HandlersTyped  BY IdleSound DEF Init, HandlersTyped
<1>5. MatchTyped  BY DEF Init, MatchTyped
<1>6. RecipientTyped  BY DEF Init, RecipientTyped
<1>7. UsageTyped
  <2>1. /\ approvals = {} /\ free = [u \in Users |-> 0] /\ weekly = free /\ ledger = free
        /\ total = free /\ tasksUsed = free
    BY DEF Init, UsageInit
  <2> QED  BY <2>1 DEF UsageTyped
<1>8. SwitchesTyped
  <2>1. PICK e \in Entitlements : plan = [u \in Users |-> IF u \in Members THEN e ELSE "none"]
    BY DEF Init, UsageInit
  <2>2. e \in Plans /\ "none" \in Plans  BY UsageAssumption DEF Plans
  <2>3. plan \in [Users -> Plans]  BY <2>1, <2>2
  <2> QED  BY <2>3 DEF Init, SwitchesTyped
<1>9. SearchTyped
  <2>1. /\ search = [u \in Users |-> NotSearching]
        /\ undecided = [u \in Users |-> IF u \in Members THEN left.results ELSE 0]
    BY DEF Init, UsageInit
  <2>2. undecided \in [Users -> Nat]  BY <1>1, <2>1
  <2>3. NotSearching \in SearchType /\ NotSearching.pc = "idle"  BY DEF NotSearching, SearchType
  <2> QED  BY <2>1, <2>2, <2>3 DEF SearchTyped
<1>10. CardsTyped  BY DEF Init, CardsTyped, EmptyBag, SetToBag, IsABag
<1>11. TimersTyped  BY DEF Init, TimersTyped, EmptyBag, SetToBag, IsABag
<1>12. LocksTyped  BY DEF Init, UsageInit, LocksTyped
<1> QED
  BY <1>1, <1>3, <1>4, <1>5, <1>6, <1>7, <1>8, <1>9, <1>10, <1>11, <1>12 DEF TypeInv

-----------------------------------------------------------------------------
(* The kinds of steps.                                                     *)

(* What a handler that goes on with a card keeps: it is the same card, and *)
(* only a count below the cap lets it note another.                        *)
Noting == {"claim", "send", "mark"}
SameCard(x, y) == y.m = x.m /\ y.side = x.side /\ y.posting = x.posting /\ y.paying = x.paying
Quiet(x, y) ==
    /\ y.pc \notin ReplyPcs
    /\ y.pc \in Noting => x.pc \in Noting /\ SameCard(x, y)
    /\ y.pc = "discard" => x.pc = "discard"
QuietMove(i) == \E y : h' = [h EXCEPT ![i] = y] /\ Quiet(h[i], y)

(* A step that neither approves, nor searches, nor assigns a plan.         *)
Closing ==
    \A p \in Postings : status'[p] = status[p] \/ status[p] \notin {"completed", "closed"}
                        \/ status'[p] = "closed"
Calm ==
    /\ UNCHANGED <<usage, searching, revealed, approvedCount>>
    /\ Closing /\ (left.failed)' >= left.failed
    /\ \A u \in Users : plan'[u] \in {plan[u], "none"}

(* ... and leaves the rows of recipients and the counts of cards alone.    *)
Still == Calm /\ recipient' = recipient /\ initial' = initial

LEMMA Bystanders ==
    ASSUME TypeInv, UNCHANGED <<rows, switches, usage, searching, left>>
    PROVE  Calm /\ recipient' = recipient
<1>1. left.failed \in Nat  BY DEF TypeInv, Bounded
<1> QED  BY <1>1 DEF rows, switches, Calm, Closing

LEMMA IdleQuiet == \A x : Quiet(x, Idle)
  BY DEF Quiet, Idle, ReplyPcs, Noting

LEMMA DoneQuiet ==
    ASSUME NEW i \in Handlers, Done(i)
    PROVE  QuietMove(i)
  BY IdleQuiet DEF Done, QuietMove

LEMMA NextSideMoves ==
    ASSUME TypeInv, NEW i \in Handlers, h[i].pc \in Addressed \cup {"gate"}, NextSide(i)
    PROVE  h'[i].pc \in {"gate", "next"} /\ \A j \in Handlers \ {i} : h'[j] = h[j]
<1> DEFINE y == OtherSideOrOut(i)
<1>1. h[i] \in JobType  BY HandlerShape DEF Addressed, JobPcs
<1>2. y.pc \in {"gate", "next"}
  <2>1. CASE h[i].side = "fs"
    <3>1. y = [h[i] EXCEPT !.pc = "gate", !.side = "wtb", !.paying = FALSE]
      BY <2>1 DEF OtherSideOrOut
    <3> QED  BY <1>1, <3>1 DEF JobType
  <2>2. CASE h[i].side # "fs"
    <3>1. y = [h[i] EXCEPT !.pc = "next", !.side = "fs", !.m = None, !.reasons = None, !.rev = 0,
                           !.paying = FALSE]
      BY <2>2 DEF OtherSideOrOut
    <3> QED  BY <1>1, <3>1 DEF JobType
  <2> QED  BY <2>1, <2>2
<1>3. h' = [h EXCEPT ![i] = y]  BY DEF NextSide
<1> HIDE DEF y
<1> QED  BY <1>2, <1>3 DEF TypeInv, HandlersTyped

LEMMA NextSideQuiet ==
    ASSUME TypeInv, NEW i \in Handlers, h[i].pc \in Addressed \cup {"gate"}, NextSide(i)
    PROVE  QuietMove(i)
<1> DEFINE y == OtherSideOrOut(i)
<1>1. h' = [h EXCEPT ![i] = y]  BY DEF NextSide
<1> HIDE DEF y
<1>2. y.pc \in {"gate", "next"}  BY <1>1, NextSideMoves DEF TypeInv, HandlersTyped
<1> QED  BY <1>1, <1>2 DEF QuietMove, Quiet, ReplyPcs, Noting

LEMMA GotoQuiet ==
    ASSUME TypeInv, NEW i \in Handlers, h[i].pc \in Noting, NEW pc \in Noting, Goto(i, pc)
    PROVE  QuietMove(i)
<1> DEFINE y == [h[i] EXCEPT !.pc = pc]
<1>1. h[i] \in JobType  BY HandlerShape DEF Noting, JobPcs
<1>2. h' = [h EXCEPT ![i] = y]  BY DEF Goto, TypeInv, HandlersTyped
<1>3. y.pc = pc /\ SameCard(h[i], y)  BY <1>1 DEF JobType, SameCard
<1> HIDE DEF y
<1> QED  BY <1>2, <1>3 DEF QuietMove, Quiet, Noting, ReplyPcs

LEMMA TakeQuiet ==
    ASSUME TypeInv, NEW y, Take(y), y.pc \notin Noting \cup ReplyPcs \cup {"discard"}
    PROVE  \E i \in Handlers : QuietMove(i)
  BY FirstIdle DEF Take, QuietMove, Quiet

QuietStep == Still /\ (h' = h \/ \E i \in Handlers : QuietMove(i))

LEMMA SpendFailed ==
    ASSUME TypeInv, NEW r \in Bounded \ {"failed"}, Spend(r)
    PROVE  /\ left.failed \in Nat /\ (left.failed)' \in Nat /\ (left.failed)' >= left.failed
           /\ r = "faults" => (left.failed)' = left.failed + 1
<1>1. left \in [Bounded -> Nat]  BY DEF TypeInv
<1>2. left' = [left EXCEPT ![r] = @ - 1, !.failed = IF r = "faults" THEN @ + 1 ELSE @]
  BY DEF Spend
<1>3. left'["failed"] = IF r = "faults" THEN left["failed"] + 1 ELSE left["failed"]
  BY <1>1, <1>2 DEF Bounded
<1>4. left["failed"] \in Nat  BY <1>1 DEF Bounded
<1> QED  BY <1>3, <1>4

LEMMA MatchingQuiet ==
    ASSUME TypeInv,
           \/ \E p \in Postings, t \in Terms : Ingest(p, t)
           \/ Reconcile \/ Fire
           \/ \E i \in Handlers : Search(i) \/ Select(i) \/ Upsert(i) \/ InsertConflict(i) \/ Finish(i)
    PROVE  QuietStep
<1>0. left.failed \in Nat  BY DEF TypeInv, Bounded
<1>1. ASSUME NEW p \in Postings, NEW t \in Terms, Ingest(p, t) PROVE QuietStep
  <2>1. h' = h \/ Take(Job("search", "ingest", p))  BY <1>1 DEF Ingest
  <2>2. h' = h \/ \E i \in Handlers : QuietMove(i)
    <3>1. Job("search", "ingest", p).pc = "search"  BY DEF Job
    <3> QED  BY <2>1, <3>1, TakeQuiet DEF Noting, ReplyPcs
  <2>3. status' = status \/ (status[p] = "none" /\ status' = [status EXCEPT ![p] = "active"])
    BY <1>1 DEF Ingest
  <2>4. Closing  BY <2>3 DEF Closing, TypeInv, PostingsTyped
  <2>5. left'.failed = left.failed  BY <1>1 DEF Ingest, TypeInv, Bounded
  <2>6. UNCHANGED <<approvedCount, match, recipient, revealed, switches, cards, account, timers>>
    BY <1>1 DEF Ingest
  <2> QED  BY <1>0, <2>2, <2>4, <2>5, <2>6 DEF QuietStep, Still, Calm, switches, cards, account
<1>2. CASE Reconcile
  <2>1. PICK S : Take([Job("next", "reconcile", None) EXCEPT !.todo = S])  BY <1>2 DEF Reconcile
  <2>2. \E i \in Handlers : QuietMove(i)
    <3> DEFINE y == [Job("next", "reconcile", None) EXCEPT !.todo = S]
    <3>1. y.pc = "next"  BY DEF Job
    <3>2. Take(y)  BY <2>1
    <3> HIDE DEF y
    <3> QED  BY <3>1, <3>2, TakeQuiet DEF Noting, ReplyPcs
  <2>3. left' = left \/ Spend("sweeps")  BY <1>2 DEF Reconcile
  <2>4. left'.failed >= left.failed
    <3>1. CASE left' = left  BY <1>0, <3>1
    <3>2. CASE Spend("sweeps")  BY <3>2, SpendFailed DEF Bounded
    <3> QED  BY <2>3, <3>1, <3>2
  <2>5. UNCHANGED <<rows, switches, cards, account, timers>>  BY <1>2 DEF Reconcile
  <2> QED  BY <2>2, <2>4, <2>5 DEF QuietStep, Still, Calm, Closing, rows, switches, cards, account
<1>3. CASE Fire
  <2>1. PICK t : /\ Take([Job("gate", "timer", t[3]) EXCEPT !.m = t[1], !.rev = t[2]])
                 /\ UNCHANGED <<rows, switches, cards, account, left>>
    BY <1>3 DEF Fire
  <2>2. \E i \in Handlers : QuietMove(i)
    <3> DEFINE y == [Job("gate", "timer", t[3]) EXCEPT !.m = t[1], !.rev = t[2]]
    <3>1. y.pc = "gate"  BY DEF Job
    <3>2. Take(y)  BY <2>1
    <3> HIDE DEF y
    <3> QED  BY <3>1, <3>2, TakeQuiet DEF Noting, ReplyPcs
  <2> QED  BY <2>1, <2>2, Bystanders DEF QuietStep, Still, cards, account
<1>4. ASSUME NEW i \in Handlers, Search(i) PROVE QuietStep
  <2>1. h[i] \in JobType  BY <1>4, HandlerShape DEF Search, At, JobPcs
  <2>2. PICK S : h' = [h EXCEPT ![i].pc = "next", ![i].todo = S]  BY <1>4 DEF Search
  <2>3. QuietMove(i)
    <3> DEFINE y == [h[i] EXCEPT !.pc = "next", !.todo = S]
    <3>1. h' = [h EXCEPT ![i] = y]  BY <2>2 DEF TypeInv, HandlersTyped
    <3>2. y.pc = "next"  BY <2>1 DEF JobType
    <3> HIDE DEF y
    <3> QED  BY <3>1, <3>2 DEF QuietMove, Quiet, Noting, ReplyPcs
  <2>4. UNCHANGED <<rows, switches, cards, account, timers, left>>  BY <1>4 DEF Search
  <2> QED  BY <2>3, <2>4, Bystanders DEF QuietStep, Still, cards, account
<1>5. ASSUME NEW i \in Handlers, Select(i) PROVE QuietStep
  <2>1. h[i] \in JobType  BY <1>5, HandlerShape DEF Select, At, JobPcs
  <2>2. PICK item : h' = [h EXCEPT ![i].pc = "write", ![i].m = item[1], ![i].reasons = item[2],
                          ![i].todo = @ \ {item}, ![i].rev = match[item[1]].rev,
                          ![i].face = match[item[1]].reasons]
    BY <1>5 DEF Select
  <2>3. QuietMove(i)
    <3> DEFINE y == [h[i] EXCEPT !.pc = "write", !.m = item[1], !.reasons = item[2],
                          !.todo = @ \ {item}, !.rev = match[item[1]].rev,
                          !.face = match[item[1]].reasons]
    <3>1. h' = [h EXCEPT ![i] = y]  BY <2>2 DEF TypeInv, HandlersTyped
    <3>2. y.pc = "write"  BY <2>1 DEF JobType
    <3> HIDE DEF y
    <3> QED  BY <3>1, <3>2 DEF QuietMove, Quiet, Noting, ReplyPcs
  <2>4. UNCHANGED <<rows, switches, cards, account, timers, left>>  BY <1>5 DEF Select
  <2> QED  BY <2>3, <2>4, Bystanders DEF QuietStep, Still, cards, account
<1>6. ASSUME NEW i \in Handlers, Upsert(i) PROVE QuietStep
  <2>1. h[i] \in JobType  BY <1>6, HandlerShape DEF Upsert, At, JobPcs
  <2>2. PICK changed, rev : h' = [h EXCEPT ![i] = Told(i, changed, rev)]  BY <1>6 DEF Upsert
  <2>3. Told(i, changed, rev).pc \in {"gate", "next"}  BY <2>1 DEF Told, JobType
  <2>4. QuietMove(i)  BY <2>2, <2>3 DEF QuietMove, Quiet, Noting, ReplyPcs
  <2>5. UNCHANGED <<status, terms, approvedCount, recipient, revealed, switches, cards, account,
                    timers, left>>
    BY <1>6 DEF Upsert
  <2> QED  BY <1>0, <2>4, <2>5 DEF QuietStep, Still, Calm, Closing, switches, cards, account
<1>7. ASSUME NEW i \in Handlers, InsertConflict(i) PROVE QuietStep
  BY <1>7, DoneQuiet, Bystanders DEF InsertConflict, QuietStep, Still, cards, account
<1>8. ASSUME NEW i \in Handlers, Finish(i) PROVE QuietStep
  BY <1>8, DoneQuiet, Bystanders DEF Finish, QuietStep, Still, cards, account
<1> QED  BY <1>1, <1>2, <1>3, <1>4, <1>5, <1>6, <1>7, <1>8

LEMMA OthersQuiet ==
    ASSUME TypeInv,
           \/ \E i \in Handlers : Skip(i) \/ Send(i) \/ Refuse(i) \/ Throw(i)
           \/ \E p \in Postings : Pause(p) \/ Resume(p) \/ Close(p)
           \/ Monitor \/ \E u \in Users : Stop(u) \/ Start(u)
           \/ UNCHANGED vars
    PROVE  QuietStep
<1>1. ASSUME NEW i \in Handlers, Skip(i) PROVE QuietStep
  <2>1. QuietMove(i)  BY <1>1, NextSideQuiet DEF Skip, At, Addressed
  <2> QED  BY <1>1, <2>1, Bystanders DEF Skip, QuietStep, Still, cards, account
<1>2. ASSUME NEW i \in Handlers, Send(i) PROVE QuietStep
  <2>1. QuietMove(i)  BY <1>2, GotoQuiet DEF Send, At, Noting
  <2>2. UNCHANGED <<rows, switches, initial, account, timers, left>>  BY <1>2 DEF Send
  <2> QED  BY <2>1, <2>2, Bystanders DEF QuietStep, Still, account
<1>3. ASSUME NEW i \in Handlers, Refuse(i) PROVE QuietStep
  BY <1>3, DoneQuiet, Bystanders DEF Refuse, QuietStep, Still, cards
<1>4. ASSUME NEW i \in Handlers, Throw(i) PROVE QuietStep
  <2>1. QuietMove(i)  BY <1>4, DoneQuiet DEF Throw
  <2>2. left'.failed >= left.failed  BY <1>4, SpendFailed DEF Throw, Bounded
  <2>3. UNCHANGED <<rows, switches, cards, usage, searching, timers>>  BY <1>4 DEF Throw
  <2> QED  BY <2>1, <2>2, <2>3 DEF QuietStep, Still, Calm, Closing, rows, switches, cards
<1>5. ASSUME NEW p \in Postings, NEW from, NEW to, Become(p, from, to), to = "closed" \/ from \in {{"active"}, {"paused"}}
      PROVE  QuietStep
  <2>1. left'.failed >= left.failed  BY <1>5, SpendFailed DEF Become, Bounded
  <2>2. status[p] \in from /\ status' = [status EXCEPT ![p] = to]  BY <1>5 DEF Become
  <2>3. Closing  BY <1>5, <2>2 DEF Closing, TypeInv, PostingsTyped
  <2>4. UNCHANGED <<terms, approvedCount, match, recipient, revealed, switches, cards, account, h>>
    BY <1>5 DEF Become, Unchanged
  <2> QED  BY <2>1, <2>3, <2>4 DEF QuietStep, Still, Calm, switches, cards, account
<1>6. ASSUME Spend("changes"), UNCHANGED <<rows, cards, account, h>>,
             \A u \in Users : plan'[u] \in {plan[u], "none"}
      PROVE  QuietStep
  <2>1. left'.failed >= left.failed  BY <1>6, SpendFailed DEF Bounded
  <2> QED  BY <1>6, <2>1 DEF QuietStep, Still, Calm, Closing, rows, cards, account
<1>7. CASE Monitor  BY <1>6, <1>7 DEF Monitor, Unchanged
<1>8. ASSUME NEW u \in Users, Stop(u) \/ Start(u) PROVE QuietStep
  <2>1. plan' = plan \/ plan' = [plan EXCEPT ![u] = "none"]  BY <1>8 DEF Stop, Start
  <2>2. \A v \in Users : plan'[v] \in {plan[v], "none"}  BY <2>1 DEF TypeInv, SwitchesTyped
  <2> QED  BY <1>6, <1>8, <2>2 DEF Stop, Start, Unchanged
<1>9. CASE UNCHANGED vars
  BY <1>9, Bystanders DEF vars, QuietStep, Still, cards, account
<1> QED
  BY <1>1, <1>2, <1>3, <1>4, <1>5, <1>7, <1>8, <1>9 DEF Pause, Resume, Close

LEMMA Kinds ==
    ASSUME TypeInv, [Next]_vars
    PROVE  \/ QuietStep
           \/ \E i \in Handlers : \/ Gate(i) \/ Hold(i) \/ Claim(i) \/ Mark(i) \/ Undelivered(i)
                                  \/ Discard(i) \/ Pass(i) \/ Lock(i) \/ Commit(i)
           \/ \E m \in Pairs, u \in Users : PassMatch(m, u) \/ ApproveMatch(m, u)
           \/ Restart
           \/ \E u \in Users : Usage(u)
<1>1. CASE UNCHANGED vars  BY <1>1, OthersQuiet
<1>2. CASE Next
  BY <1>2, MatchingQuiet, OthersQuiet DEF Next, Work
<1> QED  BY <1>1, <1>2

-----------------------------------------------------------------------------
(* The rows: finitely many, bounded, and there for whoever has locked them.*)

RowsBounded(rows2) ==
    IsFiniteSet(rows2) /\ \E b \in Nat : \A k \in rows2 : k[3] <= b

LEMMA RowsFew ==
    ASSUME RecipientTyped, RowsBounded(DOMAIN recipient), NEW k \in Keys, NEW S,
           S \subseteq DOMAIN recipient \cup {k}
    PROVE  RowsBounded(S)
<1>1. PICK b \in Nat : \A l \in DOMAIN recipient : l[3] <= b  BY DEF RowsBounded
<1>2. k[3] \in Nat /\ b + k[3] \in Nat  BY DEF Keys
<1>3. ASSUME NEW l \in S PROVE l[3] <= b + k[3]
  <2>1. CASE l = k  BY <1>2, <2>1
  <2>2. CASE l \in DOMAIN recipient
    <3>1. l[3] \in Nat /\ l[3] <= b  BY <1>1, <2>2 DEF RecipientTyped, Keys
    <3> QED  BY <1>2, <3>1
  <2> QED  BY <2>1, <2>2
<1>4. IsFiniteSet(S)
  <2>1. IsFiniteSet(DOMAIN recipient \cup {k})  BY FS_AddElement DEF RowsBounded
  <2> QED  BY <2>1, FS_Subset
<1> QED  BY <1>2, <1>3, <1>4 DEF RowsBounded

LEMMA RowsSame ==
    ASSUME RowInv, DOMAIN recipient' = DOMAIN recipient
    PROVE  RowsBounded(DOMAIN recipient')
  BY DEF RowInv, RowsBounded

(* The row a transaction has locked.                                       *)
LockedKey(i) == Key(h[i].m, h[i].u, h[i].rev)

LEMMA RowInvNext ==
    ASSUME RowInv, RowsBounded(DOMAIN recipient'),
           \A i \in Handlers : h'[i].pc = "commit" =>
              \/ h'[i] = h[i] /\ LockedKey(i) \in DOMAIN recipient'
              \/ Key(h'[i].m, h'[i].u, h'[i].rev) \in DOMAIN recipient'
    PROVE  RowInv'
<1>1. \A i \in Handlers : (At(i, "commit") => Key(h[i].m, h[i].u, h[i].rev) \in DOMAIN recipient)'
  BY DEF At, Key, LockedKey
<1> QED  BY <1>1 DEF RowInv, RowsBounded

(* A quiet move leaves who is about to commit where it is.                 *)
LEMMA QuietCommits ==
    ASSUME TypeInv, NEW i \in Handlers, QuietMove(i)
    PROVE  \A j \in Handlers : h'[j].pc \in ReplyPcs => h'[j] = h[j]
  BY DEF QuietMove, Quiet, TypeInv, HandlersTyped

LEMMA RowsAfterQuiet ==
    ASSUME TypeInv, RowInv, h' = h \/ \E i \in Handlers : QuietMove(i),
           RowsBounded(DOMAIN recipient'),
           \A j \in Handlers : At(j, "commit") => LockedKey(j) \in DOMAIN recipient'
    PROVE  RowInv'
<1>1. \A j \in Handlers : h'[j].pc = "commit" => h'[j] = h[j]
  BY QuietCommits DEF ReplyPcs
<1> QED  BY <1>1, RowInvNext DEF At

LEMMA LockedThere ==
    ASSUME RowInv, NEW j \in Handlers, At(j, "commit")
    PROVE  LockedKey(j) \in DOMAIN recipient
  BY DEF RowInv, LockedKey

(* What the steps on cards and decisions do to the rows.                   *)
LEMMA InsertedRow ==
    ASSUME TypeInv, NEW i \in Handlers, Hold(i) \/ Claim(i)
    PROVE  /\ QuietMove(i) /\ CardKey(i) \in Keys
           /\ \/ recipient' = recipient
              \/ /\ CardKey(i) \notin DOMAIN recipient
                 /\ \E paying \in BOOLEAN : recipient' = Inserted(CardKey(i), NewRow(paying))
<1>1. h[i].pc \in Addressed /\ (h[i].pc = "claim" \/ NextSide(i))
  BY DEF Hold, Claim, At, Addressed
<1>2. CardKey(i) \in Keys /\ h[i].paying \in BOOLEAN  BY <1>1, CardKeyKnown, PayingKnown
<1>3. QuietMove(i)
  <2>1. NextSide(i) \/ (Goto(i, "send") /\ h[i].pc = "claim")  BY DEF Hold, Claim, At
  <2> QED  BY <1>1, <2>1, NextSideQuiet, GotoQuiet DEF Noting
<1>4. \/ recipient' = recipient
      \/ CardKey(i) \notin DOMAIN recipient /\ recipient' = Inserted(CardKey(i), NewRow(FALSE))
      \/ CardKey(i) \notin DOMAIN recipient /\ recipient' = Inserted(CardKey(i), NewRow(h[i].paying))
  BY DEF Hold, Claim
<1> QED  BY <1>2, <1>3, <1>4

LEMMA MarkedRow ==
    ASSUME TypeInv, NEW i \in Handlers, Mark(i)
    PROVE  /\ QuietMove(i) /\ DOMAIN recipient' = DOMAIN recipient
           /\ \A k \in DOMAIN recipient :
                /\ recipient'[k].decision = recipient[k].decision
                /\ recipient'[k].paying = recipient[k].paying
                /\ recipient'[k].delivered = (recipient[k].delivered \/ k = CardKey(i))
<1> DEFINE c == CardKey(i)
<1>1. QuietMove(i)  BY NextSideQuiet DEF Mark, At, Addressed
<1>2. recipient' = IF c \in DOMAIN recipient THEN [recipient EXCEPT ![c].delivered = TRUE]
                   ELSE recipient
  BY DEF Mark
<1> HIDE DEF c
<1>3. ASSUME NEW k \in DOMAIN recipient
      PROVE  /\ recipient'[k].decision = recipient[k].decision
             /\ recipient'[k].paying = recipient[k].paying
             /\ recipient'[k].delivered = (recipient[k].delivered \/ k = c)
  <2>1. recipient[k] \in RowType  BY DEF TypeInv, RecipientTyped
  <2>2. CASE k = c
    <3>1. recipient'[k] = [recipient[k] EXCEPT !.delivered = TRUE]  BY <1>2, <2>2
    <3> QED  BY <2>1, <2>2, <3>1 DEF RowType
  <2>3. CASE k # c
    <3>1. recipient'[k] = recipient[k]  BY <1>2, <2>3
    <3> QED  BY <2>1, <2>3, <3>1 DEF RowType
  <2> QED  BY <2>2, <2>3
<1>4. DOMAIN recipient' = DOMAIN recipient  BY <1>2
<1> QED  BY <1>1, <1>3, <1>4 DEF c

LEMMA PassedRow ==
    ASSUME TypeInv, NEW i \in Handlers, Pass(i)
    PROVE  /\ QuietMove(i) /\ DOMAIN recipient' = DOMAIN recipient
           /\ \A k \in DOMAIN recipient :
                /\ recipient'[k].decision \in {recipient[k].decision, "passed"}
                /\ recipient'[k].paying = recipient[k].paying
                /\ recipient'[k].delivered = recipient[k].delivered
<1> DEFINE c == Key(h[i].m, h[i].u, h[i].rev)
<1>1. QuietMove(i)  BY DoneQuiet DEF Pass
<1>2. recipient' = IF c \in DOMAIN recipient THEN [recipient EXCEPT ![c].decision = "passed"]
                   ELSE recipient
  BY DEF Pass
<1> HIDE DEF c
<1>3. ASSUME NEW k \in DOMAIN recipient
      PROVE  /\ recipient'[k].decision \in {recipient[k].decision, "passed"}
             /\ recipient'[k].paying = recipient[k].paying
             /\ recipient'[k].delivered = recipient[k].delivered
  <2>1. recipient[k] \in RowType  BY DEF TypeInv, RecipientTyped
  <2>2. CASE k = c
    <3>1. recipient'[k] = [recipient[k] EXCEPT !.decision = "passed"]  BY <1>2, <2>2
    <3> QED  BY <2>1, <3>1 DEF RowType
  <2>3. CASE k # c
    <3>1. recipient'[k] = recipient[k]  BY <1>2, <2>3
    <3> QED  BY <3>1
  <2> QED  BY <2>2, <2>3
<1>4. DOMAIN recipient' = DOMAIN recipient  BY <1>2
<1> QED  BY <1>1, <1>3, <1>4

LEMMA DiscardedRow ==
    ASSUME TypeInv, NEW i \in Handlers, Discard(i)
    PROVE  /\ QuietMove(i) /\ At(i, "discard") /\ ~RowLocked(CardKey(i))
           /\ DOMAIN recipient' \subseteq DOMAIN recipient
           /\ DOMAIN recipient \ {CardKey(i)} \subseteq DOMAIN recipient'
           /\ \A k \in DOMAIN recipient' : recipient'[k] = recipient[k]
<1>1. QuietMove(i)  BY NextSideQuiet DEF Discard, At, Addressed
<1>2. recipient' = [r \in {q \in DOMAIN recipient : q # CardKey(i) \/ recipient[CardKey(i)].decision # "pending"}
                       |-> recipient[r]]
  BY DEF Discard
<1> QED  BY <1>1, <1>2 DEF Discard

LEMMA GateRow ==
    ASSUME TypeInv, NEW i \in Handlers, Gate(i)
    PROVE  /\ \A j \in Handlers : h'[j].pc \in ReplyPcs => h'[j] = h[j]
           /\ Still
<1>1. At(i, "gate") /\ h[i] \in JobType  BY HandlerShape DEF Gate, At, JobPcs
<1>2. UNCHANGED <<rows, switches, cards, account, timers, left>>  BY DEF Gate
<1>3. Still  BY <1>2, Bystanders DEF Still, cards, account
<1>4. \A j \in Handlers : h'[j].pc \in ReplyPcs => h'[j] = h[j]
  <2>1. CASE NextSide(i)
    <3>1. QuietMove(i)  BY <1>1, <2>1, NextSideQuiet DEF At
    <3> QED  BY <3>1, QuietCommits
  <2>2. CASE ~NextSide(i)
    <3> DEFINE p == Own(h[i].m, h[i].side)
               u == Owner[p]
               c == Party(h[i].m, IF h[i].side = "fs" THEN "wtb" ELSE "fs")
               paying == c # Nobody /\ Paying(c)
               pc == IF ~paying /\ p = h[i].posting /\ ShownFor(p, u) >= CapOf(u)
                     THEN "hold" ELSE "claim"
    <3>0. pc \in {"hold", "claim"}  OBVIOUS
    <3>1. h' = [h EXCEPT ![i].paying = paying, ![i].pc = pc]  BY <2>2 DEF Gate
    <3> HIDE DEF paying, pc
    <3>2. h'[i].pc = pc /\ \A j \in Handlers \ {i} : h'[j] = h[j]
      BY <1>1, <3>1 DEF TypeInv, HandlersTyped, JobType
    <3> QED  BY <3>0, <3>2 DEF ReplyPcs
  <2> QED  BY <2>1, <2>2
<1> QED  BY <1>3, <1>4

LEMMA UndeliveredRow ==
    ASSUME TypeInv, NEW i \in Handlers, Undelivered(i)
    PROVE  /\ \A j \in Handlers : h'[j].pc \in ReplyPcs => h'[j] = h[j]
           /\ Still /\ (left.failed)' = left.failed + 1
<1>1. h[i].pc \in Addressed /\ Goto(i, "discard") /\ h[i].pc # "idle"  BY DEF Undelivered, Addressed
<1>2. h[i] \in JobType  BY <1>1, HandlerShape DEF Addressed, JobPcs
<1>3. h'[i].pc = "discard" /\ \A j \in Handlers \ {i} : h'[j] = h[j]
  BY <1>1, <1>2 DEF Goto, TypeInv, HandlersTyped, JobType
<1>4. (left.failed)' >= left.failed /\ (left.failed)' = left.failed + 1
  BY SpendFailed DEF Undelivered, Bounded
<1>5. UNCHANGED <<rows, switches, cards, account, timers>>  BY DEF Undelivered
<1>6. Still  BY <1>4, <1>5 DEF Still, Calm, Closing, rows, switches, cards, account
<1> QED  BY <1>3, <1>4, <1>6 DEF ReplyPcs

(* The replies.                                                            *)
LEMMA TakenReply ==
    ASSUME TypeInv, NEW m \in Pairs, NEW u \in Users, PassMatch(m, u) \/ ApproveMatch(m, u)
    PROVE  /\ Still
           /\ \E i \in Handlers : /\ h[i].pc = "idle" /\ h'[i].pc \in {"pass", "lock"}
                                  /\ h'[i].plan = plan[u]
                                  /\ \A j \in Handlers \ {i} : h'[j] = h[j]
<1> DEFINE y == [Reply("pass", m, u) EXCEPT !.rev = Latest(m, u)[3]]
           z == Reply("lock", m, u)
<1>1. y.pc = "pass" /\ y.plan = plan[u] /\ z.pc = "lock" /\ z.plan = plan[u]  BY DEF Reply
<1>2. Take(y) \/ Take(z)  BY DEF PassMatch, ApproveMatch
<1>3. Spend("calls") /\ UNCHANGED <<rows, switches, cards, account, timers>>
  BY DEF PassMatch, ApproveMatch
<1>4. (left.failed)' >= left.failed  BY <1>3, SpendFailed DEF Bounded
<1>5. Still  BY <1>3, <1>4 DEF Still, Calm, Closing, rows, switches, cards, account
<1> HIDE DEF y, z
<1>6. Fresh \in Handlers /\ At(Fresh, "idle")  BY <1>2, FirstIdle DEF Take
<1>7. h' = [h EXCEPT ![Fresh] = y] \/ h' = [h EXCEPT ![Fresh] = z]  BY <1>2 DEF Take
<1>8. /\ h'[Fresh].pc \in {"pass", "lock"} /\ h'[Fresh].plan = plan[u]
      /\ \A j \in Handlers \ {Fresh} : h'[j] = h[j]
  BY <1>1, <1>6, <1>7 DEF TypeInv, HandlersTyped
<1> QED  BY <1>5, <1>6, <1>8 DEF At

LEMMA LockRow ==
    ASSUME TypeInv, RowInv, NEW i \in Handlers, Lock(i)
    PROVE  /\ Still /\ h[i].pc = "lock"
           /\ \A j \in Handlers \ {i} : h'[j] = h[j]
           /\ \/ h'[i] = Idle
              \/ /\ h'[i].pc = "commit" /\ h'[i].plan = h[i].plan
                 /\ Key(h'[i].m, h'[i].u, h'[i].rev) \in DOMAIN recipient
<1> DEFINE m == h[i].m  u == h[i].u
<1>1. h[i].pc = "lock" /\ h[i] \in ReplyType
  BY HandlerShape DEF Lock, At, ReplyPcs
<1>2. UNCHANGED <<rows, switches, cards, usage, searching, timers, left>>  BY DEF Lock
<1>3. Still  BY <1>2, Bystanders DEF Still, cards
<1>4. CASE Done(i)
  <2>1. h'[i] = Idle /\ \A j \in Handlers \ {i} : h'[j] = h[j]
    BY <1>4 DEF Done, TypeInv, HandlersTyped
  <2> QED  BY <1>1, <1>3, <2>1
<1>5. CASE ~Done(i)
  <2>1. RowsOf(m, u) # {} /\ h' = [h EXCEPT ![i].pc = "commit", ![i].rev = Latest(m, u)[3]]
    BY <1>5 DEF Lock
  <2>2. Latest(m, u) \in DOMAIN recipient /\ Latest(m, u) = Key(m, u, Latest(m, u)[3])
    BY <2>1, LatestRow
  <2>3. /\ h'[i] = [h[i] EXCEPT !.pc = "commit", !.rev = Latest(m, u)[3]]
        /\ \A j \in Handlers \ {i} : h'[j] = h[j]
    BY <2>1 DEF TypeInv, HandlersTyped
  <2>4. /\ h'[i].pc = "commit" /\ h'[i].plan = h[i].plan /\ h'[i].m = m /\ h'[i].u = u
        /\ h'[i].rev = Latest(m, u)[3]
    BY <1>1, <2>3 DEF ReplyType
  <2> QED  BY <1>1, <1>3, <2>2, <2>3, <2>4
<1> QED  BY <1>4, <1>5

LEMMA CommitRow ==
    ASSUME TypeInv, RowInv, NEW i \in Handlers, Commit(i)
    PROVE  /\ QuietMove(i) /\ DOMAIN recipient' = DOMAIN recipient
           /\ LockedKey(i) \in DOMAIN recipient
           /\ \A k \in DOMAIN recipient :
                /\ recipient'[k].paying = recipient[k].paying
                /\ recipient'[k].delivered = recipient[k].delivered
                /\ k # LockedKey(i) => recipient'[k] = recipient[k]
<1>1. At(i, "commit") /\ QuietMove(i)  BY DoneQuiet DEF Commit
<1>2. LockedKey(i) \in DOMAIN recipient  BY <1>1, LockedThere
<1>3. recipient' = recipient \/ recipient' = [recipient EXCEPT ![LockedKey(i)].decision = "approved"]
  BY DEF Commit, LockedKey
<1>4. ASSUME NEW k \in DOMAIN recipient
      PROVE  /\ recipient'[k].paying = recipient[k].paying
             /\ recipient'[k].delivered = recipient[k].delivered
             /\ k # LockedKey(i) => recipient'[k] = recipient[k]
  <2>1. recipient[k] \in RowType  BY DEF TypeInv, RecipientTyped
  <2>2. recipient'[k] = recipient[k] \/ (k = LockedKey(i) /\ recipient'[k] = [recipient[k] EXCEPT !.decision = "approved"])
    BY <1>3
  <2> QED  BY <2>1, <2>2 DEF RowType
<1> QED  BY <1>1, <1>2, <1>3, <1>4

LEMMA RowStep == TypeInv /\ RowInv /\ [Next]_vars => RowInv'
<1> SUFFICES ASSUME TypeInv, RowInv, [Next]_vars PROVE RowInv'
  OBVIOUS
<1>0. RecipientTyped /\ RowsBounded(DOMAIN recipient)  BY DEF TypeInv, RowInv, RowsBounded
<1>1. ASSUME recipient' = recipient, \A j \in Handlers : h'[j].pc \in ReplyPcs => h'[j] = h[j]
      PROVE  RowInv'
  BY <1>0, <1>1, RowInvNext, LockedThere DEF ReplyPcs, At
<1>2. CASE QuietStep
  <2>1. \A j \in Handlers : h'[j].pc \in ReplyPcs => h'[j] = h[j]
    BY <1>2, QuietCommits DEF QuietStep
  <2> QED  BY <1>1, <1>2, <2>1 DEF QuietStep, Still
<1>3. ASSUME NEW i \in Handlers, Gate(i) \/ Undelivered(i) PROVE RowInv'
  BY <1>1, <1>3, GateRow, UndeliveredRow DEF Still
<1>4. ASSUME NEW i \in Handlers, Hold(i) \/ Claim(i) PROVE RowInv'
  <2>1. DOMAIN recipient \subseteq DOMAIN recipient'
        /\ DOMAIN recipient' \subseteq DOMAIN recipient \cup {CardKey(i)}
    BY <1>4, InsertedRow DEF Inserted
  <2>2. QuietMove(i) /\ CardKey(i) \in Keys  BY <1>4, InsertedRow
  <2>3. RowsBounded(DOMAIN recipient')  BY <1>0, <2>1, <2>2, RowsFew
  <2> QED  BY <2>1, <2>2, <2>3, RowsAfterQuiet, LockedThere
<1>5. ASSUME NEW i \in Handlers, Mark(i) \/ Pass(i) \/ Commit(i) PROVE RowInv'
  <2>1. QuietMove(i) /\ DOMAIN recipient' = DOMAIN recipient
    BY <1>5, MarkedRow, PassedRow, CommitRow
  <2> QED  BY <1>0, <2>1, RowsAfterQuiet, LockedThere
<1>6. ASSUME NEW i \in Handlers, Discard(i) PROVE RowInv'
  <2>1. /\ QuietMove(i) /\ ~RowLocked(CardKey(i)) /\ DOMAIN recipient' \subseteq DOMAIN recipient
        /\ DOMAIN recipient \ {CardKey(i)} \subseteq DOMAIN recipient'
    BY <1>6, DiscardedRow
  <2>2. \A j \in Handlers : At(j, "commit") => LockedKey(j) # CardKey(i)
    BY <2>1 DEF RowLocked, LockedKey
  <2>3. CardKey(i) \in Keys  BY <1>6, CardKeyKnown DEF Discard, At, Addressed
  <2>4. RowsBounded(DOMAIN recipient')  BY <1>0, <2>1, <2>3, RowsFew
  <2> QED  BY <2>1, <2>2, <2>4, RowsAfterQuiet, LockedThere
<1>7. ASSUME NEW i \in Handlers, Lock(i) PROVE RowInv'
  <2>1. recipient' = recipient  BY <1>7, LockRow DEF Still
  <2>2. \A j \in Handlers : h'[j].pc = "commit" =>
           \/ h'[j] = h[j]
           \/ Key(h'[j].m, h'[j].u, h'[j].rev) \in DOMAIN recipient
    BY <1>7, LockRow DEF Idle
  <2> QED  BY <1>0, <2>1, <2>2, RowInvNext, LockedThere DEF At
<1>8. ASSUME NEW m \in Pairs, NEW u \in Users, PassMatch(m, u) \/ ApproveMatch(m, u) PROVE RowInv'
  <2>1. recipient' = recipient  BY <1>8, TakenReply DEF Still
  <2>2. \A j \in Handlers : h'[j].pc = "commit" => h'[j] = h[j]
    BY <1>8, TakenReply
  <2> QED  BY <1>0, <2>1, <2>2, RowInvNext, LockedThere DEF At
<1>9. CASE Restart
  <2>1. recipient' = recipient /\ \A j \in Handlers : h'[j].pc = "idle"
    BY <1>9 DEF Restart, rows, Idle
  <2> QED  BY <1>0, <2>1, RowInvNext
<1>10. ASSUME NEW u \in Users, Usage(u) PROVE RowInv'
  <2>1. recipient' = recipient /\ h' = h  BY <1>10 DEF Usage, matching, rows
  <2> QED  BY <1>1, <2>1
<1> QED  BY <1>2, <1>3, <1>4, <1>5, <1>6, <1>7, <1>8, <1>9, <1>10, Kinds

-----------------------------------------------------------------------------
(* Approvals, the counts of postings and accounts, and the contacts shown. *)

ApprovalsBy(u) == {a \in approvals : a[2] = u}

LEMMA RecordParts ==
    ASSUME TypeInv, RecordInv
    PROVE  /\ IsFiniteSet(approvals) /\ revealed \subseteq approvals
           /\ \A p \in Postings : /\ approvedCount[p] = Cardinality(ApprovalsOn(p))
                                  /\ approvedCount[p] \in Nat /\ approvedCount[p] <= MatchLimit
                                  /\ approvedCount[p] = MatchLimit => status[p] \in {"completed", "closed"}
           /\ \A k \in DOMAIN recipient : recipient[k].decision = "approved" => <<k[1], k[2]>> \in approvals
           /\ \A u \in Users : Cardinality(ApprovalsBy(u)) <= total[u] /\ total[u] \in Nat
  BY DEF RecordInv, PostingsComplete, DisclosureOnRecord, ApprovalsBy, TypeInv, PostingsTyped,
         UsageTyped

LEMMA RecordKept ==
    ASSUME TypeInv, RecordInv, UNCHANGED <<approvals, approvedCount>>, Closing,
           revealed' \subseteq approvals,
           \A u \in Users : total'[u] \in Nat /\ total'[u] >= total[u],
           \A k \in DOMAIN recipient' : recipient'[k].decision = "approved" =>
              k \in DOMAIN recipient /\ recipient[k].decision = "approved"
    PROVE  RecordInv'
<1>1. \A p \in Postings :
         /\ (approvedCount[p] = Cardinality(ApprovalsOn(p)))' /\ (approvedCount[p] <= MatchLimit)'
         /\ (approvedCount[p] = MatchLimit => status[p] \in {"completed", "closed"})'
  BY RecordParts DEF ApprovalsOn, Closing
<1>2. PostingsComplete'  BY <1>1 DEF PostingsComplete
<1>3. \A u \in Users : (Cardinality({a \in approvals : a[2] = u}) <= total[u])'
  <2>1. ASSUME NEW u \in Users PROVE Cardinality({a \in approvals : a[2] = u}) <= total'[u]
    <3>1. Cardinality({a \in approvals : a[2] = u}) <= total[u] /\ total[u] \in Nat
      BY RecordParts DEF ApprovalsBy
    <3>2. Cardinality({a \in approvals : a[2] = u}) \in Nat
      <4>1. IsFiniteSet({a \in approvals : a[2] = u})  BY RecordParts, FS_Subset
      <4> QED  BY <4>1, FS_CardinalityType
    <3> QED  BY <3>1, <3>2
  <2> QED  BY <2>1
<1>4. DisclosureOnRecord'  BY <1>3, RecordParts DEF DisclosureOnRecord
<1> QED  BY <1>1, <1>2, <1>4, RecordParts DEF RecordInv

LEMMA TotalsSame ==
    ASSUME TypeInv, total' = total
    PROVE  \A u \in Users : total'[u] \in Nat /\ total'[u] >= total[u]
  BY DEF TypeInv, UsageTyped

LEMMA CalmRecord ==
    ASSUME TypeInv, RecordInv, Calm,
           \A k \in DOMAIN recipient' : recipient'[k].decision = "approved" =>
              k \in DOMAIN recipient /\ recipient[k].decision = "approved"
    PROVE  RecordInv'
<1>1. total' = total /\ UNCHANGED <<approvals, approvedCount, revealed>> /\ Closing
  BY DEF Calm, usage
<1> QED  BY <1>1, TotalsSame, RecordKept, RecordParts

(* A set gains one member.                                                 *)
LEMMA OneMore ==
    ASSUME NEW S, IsFiniteSet(S), NEW e, e \notin S
    PROVE  IsFiniteSet(S \cup {e}) /\ Cardinality(S \cup {e}) = Cardinality(S) + 1
           /\ Cardinality(S) \in Nat
  BY FS_AddElement, FS_CardinalityType

LEMMA CommitRecord ==
    ASSUME TypeInv, RowInv, RecordInv, NEW i \in Handlers, Commit(i)
    PROVE  RecordInv'
<1> DEFINE m == h[i].m
           u == h[i].u
           k == LockedKey(i)
           a == <<m, u>>
           p == Own(m, SideOf(m, u))
           comp == IsComplimentary(u)
<1>1. m \in Pairs /\ u \in Users
  BY ReplyFields DEF Commit, At, ReplyPcs
<1>2. p \in Postings  BY <1>1, OwnersKnown
<1>3. k \in DOMAIN recipient /\ k[1] = m /\ k[2] = u
  BY CommitRow DEF LockedKey, Key
<1>4. revealed' = revealed \cup {a}  BY DEF Commit
<1>5. CASE recipient[k].decision = "approved"
  <2>1. UNCHANGED <<status, approvedCount, recipient>> /\ UNCHANGED usage
    BY <1>5 DEF Commit, LockedKey
  <2>2. a \in approvals  BY <1>3, <1>5, RecordParts
  <2>3. revealed' \subseteq approvals  BY <1>4, <2>2, RecordParts
  <2> QED  BY <2>1, <2>3, TotalsSame, RecordKept DEF usage, Closing
<1>6. CASE recipient[k].decision # "approved" /\ a \in approvals
  <2>1. UNCHANGED <<status, approvedCount, recipient>> /\ RecordApproval(m, u, comp)
    BY <1>6 DEF Commit, LockedKey
  <2>2. UNCHANGED usage  BY <1>6, <2>1 DEF RecordApproval
  <2>3. revealed' \subseteq approvals  BY <1>4, <1>6, RecordParts
  <2> QED  BY <2>1, <2>2, <2>3, TotalsSame, RecordKept DEF usage, Closing
<1>7. CASE recipient[k].decision # "approved" /\ a \notin approvals
  <2>1. /\ RecordApproval(m, u, comp) /\ CountOnPosting(p) /\ CanApprove(i)
        /\ recipient' = [recipient EXCEPT ![k].decision = "approved"]
    BY <1>7 DEF Commit, LockedKey
  <2>2. /\ approvals' = approvals \cup {a} /\ total' = [total EXCEPT ![u] = @ + 1]
    BY <1>7, <2>1 DEF RecordApproval
  <2>3. /\ approvedCount' = [approvedCount EXCEPT ![p] = @ + 1]
        /\ status' = IF approvedCount[p] + 1 >= MatchLimit
                     THEN [status EXCEPT ![p] = "completed"] ELSE status
    BY <2>1 DEF CountOnPosting
  <2>4. status[p] = "active"  BY <2>1 DEF CanApprove
  <2>5. approvedCount[p] < MatchLimit /\ approvedCount[p] \in Nat /\ MatchLimit \in Nat
    BY <1>2, <2>4, RecordParts, MatchingAssumption
  <2>6. a[1] = m /\ a[2] = u /\ Own(a[1], SideOf(a[1], a[2])) = p  OBVIOUS
  <2>7. IsFiniteSet(approvals')  BY <2>2, RecordParts, FS_AddElement
  <2>8. ASSUME NEW q \in Postings
        PROVE  /\ (approvedCount[q] = Cardinality(ApprovalsOn(q)))'
               /\ (approvedCount[q] <= MatchLimit)'
               /\ (approvedCount[q] = MatchLimit => status[q] \in {"completed", "closed"})'
    <3>0. approvedCount[q] = Cardinality(ApprovalsOn(q)) /\ approvedCount[q] <= MatchLimit
          /\ (approvedCount[q] = MatchLimit => status[q] \in {"completed", "closed"})
      BY RecordParts
    <3>1. ApprovalsOn(q)' = {b \in approvals' : Own(b[1], SideOf(b[1], b[2])) = q}
      BY DEF ApprovalsOn
    <3>2. CASE q = p
      <4>1. approvedCount'[q] = approvedCount[q] + 1  BY <1>2, <2>3, <3>2 DEF TypeInv, PostingsTyped
      <4>2. ApprovalsOn(q)' = ApprovalsOn(q) \cup {a}
        BY <2>2, <2>6, <3>1, <3>2 DEF ApprovalsOn
      <4>3. IsFiniteSet(ApprovalsOn(q)) /\ a \notin ApprovalsOn(q)
        BY <1>7, RecordParts, FS_Subset DEF ApprovalsOn
      <4>4. Cardinality(ApprovalsOn(q)') = Cardinality(ApprovalsOn(q)) + 1
        BY <4>2, <4>3, OneMore
      <4>5. approvedCount[q] + 1 = MatchLimit => status'[q] = "completed"
        BY <1>2, <2>3, <2>5, <3>2 DEF TypeInv, PostingsTyped
      <4> QED  BY <2>5, <3>0, <3>2, <4>1, <4>4, <4>5
    <3>3. CASE q # p
      <4>1. approvedCount'[q] = approvedCount[q] /\ status'[q] = status[q]
        BY <2>3, <3>3 DEF TypeInv, PostingsTyped
      <4>2. ApprovalsOn(q)' = ApprovalsOn(q)  BY <2>2, <2>6, <3>1, <3>3 DEF ApprovalsOn
      <4> QED  BY <3>0, <4>1, <4>2
    <3> QED  BY <3>2, <3>3
  <2>9. PostingsComplete'  BY <2>8 DEF PostingsComplete
  <2>10. ASSUME NEW v \in Users
         PROVE  (Cardinality({b \in approvals : b[2] = v}) <= total[v])'
    <3>0. Cardinality(ApprovalsBy(v)) <= total[v] /\ total[v] \in Nat  BY RecordParts
    <3>1. CASE v = u
      <4>1. {b \in approvals' : b[2] = v} = ApprovalsBy(v) \cup {a}
        BY <2>2, <2>6, <3>1 DEF ApprovalsBy
      <4>2. IsFiniteSet(ApprovalsBy(v)) /\ a \notin ApprovalsBy(v)
        BY <1>7, RecordParts, FS_Subset DEF ApprovalsBy
      <4>3. Cardinality({b \in approvals' : b[2] = v}) = Cardinality(ApprovalsBy(v)) + 1
            /\ Cardinality(ApprovalsBy(v)) \in Nat
        BY <4>1, <4>2, OneMore
      <4>4. total'[v] = total[v] + 1  BY <2>2, <3>1 DEF TypeInv, UsageTyped
      <4> QED  BY <3>0, <4>3, <4>4
    <3>2. CASE v # u
      <4>1. {b \in approvals' : b[2] = v} = ApprovalsBy(v)
        BY <2>2, <2>6, <3>2 DEF ApprovalsBy
      <4>2. total'[v] = total[v]  BY <2>2, <3>2 DEF TypeInv, UsageTyped
      <4> QED  BY <3>0, <4>1, <4>2
    <3> QED  BY <3>1, <3>2
  <2>11. \A l \in DOMAIN recipient' : recipient'[l].decision = "approved" => <<l[1], l[2]>> \in approvals'
    <3>1. ASSUME NEW l \in DOMAIN recipient, recipient'[l].decision = "approved"
          PROVE  <<l[1], l[2]>> \in approvals'
      <4>1. CASE l = k  BY <1>3, <2>2, <4>1
      <4>2. CASE l # k  BY <2>2, <3>1, <4>2, CommitRow, RecordParts
      <4> QED  BY <4>1, <4>2
    <3> QED  BY <3>1, CommitRow
  <2>12. revealed' \subseteq approvals'  BY <1>4, <2>2, RecordParts
  <2>13. DisclosureOnRecord'  BY <2>10, <2>11, <2>12 DEF DisclosureOnRecord
  <2> QED  BY <2>7, <2>8, <2>9, <2>13 DEF RecordInv
<1> QED  BY <1>5, <1>6, <1>7

LEMMA CardsCalm ==
    ASSUME TypeInv, NEW i \in Handlers,
           Hold(i) \/ Claim(i) \/ Mark(i) \/ Discard(i) \/ Pass(i)
    PROVE  Calm /\ left' = left
<1>1. left.failed \in Nat  BY DEF TypeInv, Bounded
<1>2. UNCHANGED <<status, approvedCount, revealed, switches, account, left>>
  BY DEF Hold, Claim, Mark, Discard, Pass, cards
<1> QED  BY <1>1, <1>2 DEF Calm, Closing, account, switches

LEMMA CardsRecord ==
    ASSUME TypeInv, RecordInv, NEW i \in Handlers,
           Hold(i) \/ Claim(i) \/ Mark(i) \/ Discard(i) \/ Pass(i)
    PROVE  RecordInv'
<1>1. Calm  BY CardsCalm
<1>2. \A k \in DOMAIN recipient' : recipient'[k].decision = "approved" =>
         k \in DOMAIN recipient /\ recipient[k].decision = "approved"
  <2>1. CASE Hold(i) \/ Claim(i)
    <3>1. CASE recipient' = recipient  BY <3>1
    <3>2. CASE \E paying \in BOOLEAN : recipient' = Inserted(CardKey(i), NewRow(paying))
      BY <3>2 DEF Inserted, NewRow
    <3> QED  BY <2>1, <3>1, <3>2, InsertedRow
  <2>2. CASE Mark(i)  BY <2>2, MarkedRow
  <2>3. CASE Discard(i)  BY <2>3, DiscardedRow
  <2>4. CASE Pass(i)  BY <2>4, PassedRow
  <2> QED  BY <2>1, <2>2, <2>3, <2>4
<1> QED  BY <1>1, <1>2, CalmRecord

LEMMA RecordStep == TypeInv /\ RowInv /\ RecordInv /\ [Next]_vars => RecordInv'
<1> SUFFICES ASSUME TypeInv, RowInv, RecordInv, [Next]_vars PROVE RecordInv'
  OBVIOUS
<1>1. ASSUME Still PROVE RecordInv'
  BY <1>1, CalmRecord DEF Still
<1>2. ASSUME NEW u \in Users, Usage(u) PROVE RecordInv'
  <2>1. /\ UNCHANGED <<status, approvedCount, recipient, revealed>>
        /\ approvals' = approvals
        /\ total' = total \/ total' = [total EXCEPT ![u] = @ + 1]
    BY <1>2 DEF Usage, matching, rows, Ask, SearchPass, UsageStep, SearchThrows, WeekPasses, SetPlan,
                InsertApproval, InsertLedger, CountApproval, UseTask, Decide, usage
  <2>2. \A v \in Users : total'[v] \in Nat /\ total'[v] >= total[v]
    BY <2>1 DEF TypeInv, UsageTyped
  <2> QED  BY <2>1, <2>2, RecordKept, RecordParts DEF Closing
<1>3. CASE Restart
  <2>1. UNCHANGED <<rows, usage>>  BY <1>3 DEF Restart
  <2> QED  BY <2>1, TotalsSame, RecordKept, RecordParts DEF rows, usage, Closing
<1> QED
  BY <1>1, <1>2, <1>3, Kinds, GateRow, UndeliveredRow, LockRow, TakenReply, CardsRecord,
     CommitRecord DEF QuietStep

-----------------------------------------------------------------------------
(* The allowance: what is free or within the week is spent once.           *)

Free(u) == Larger(Trial, Grant[u])
Capped == Entitlements \subseteq {"none", "weekly"}
Covered(u) ==
    /\ free[u] <= Free(u) + 1 + faults /\ FreeCovered(u)
    /\ Capped => weekly[u] <= WeeklyLimit + 1 /\ WeekCovered(u)

LEMMA AllowanceParts ==
    AllowanceInv <=> /\ \A u \in Users : Covered(u) /\ plan[u] \in Assigned
                     /\ \A i \in Handlers : h[i].pc \in ReplyPcs => h[i].plan \in Assigned
  BY DEF AllowanceInv, AllowanceKept, Covered, Free, Capped

LEMMA AllowanceNext ==
    ASSUME \A u \in Users : Covered(u)' /\ plan'[u] \in Assigned,
           \A i \in Handlers : h'[i].pc \in ReplyPcs => h'[i].plan \in Assigned
    PROVE  AllowanceInv'
  BY DEF AllowanceInv, AllowanceKept, Covered, Free, Capped, Assigned

LEMMA Counts ==
    ASSUME TypeInv, NEW u \in Users
    PROVE  /\ free[u] \in Nat /\ weekly[u] \in Nat /\ total[u] \in Nat /\ tasksUsed[u] \in Nat
           /\ Grant[u] \in Nat /\ Trial \in Nat /\ WeeklyLimit \in Nat /\ faults \in Nat
           /\ Free(u) \in Nat /\ Free(u) >= Trial /\ Free(u) >= Grant[u]
           /\ search[u] \in SearchType /\ search[u].comp \in BOOLEAN
<1>1. Grant[u] \in Nat /\ Trial \in Nat /\ WeeklyLimit \in Nat  BY UsageAssumption
<1>2. search[u] \in SearchType /\ search[u].comp \in BOOLEAN
  BY DEF TypeInv, SearchTyped, SearchType
<1>3. faults \in Nat  BY DEF TypeInv, Bounded, faults
<1> QED  BY <1>1, <1>2, <1>3 DEF TypeInv, UsageTyped, Free, Larger

(* The account's counts and its search stand, faults may grow.             *)
LEMMA CoveredStill ==
    ASSUME TypeInv, NEW u \in Users, Covered(u), (faults \in Nat)', faults' >= faults,
           free'[u] = free[u], weekly'[u] \in Nat, weekly'[u] <= weekly[u],
           total'[u] = total[u], tasksUsed'[u] = tasksUsed[u], search'[u] = search[u]
    PROVE  Covered(u)'
<1>1. (Free(u) = Larger(Trial, Grant[u]))' /\ Free(u)' = Free(u)  BY DEF Free, Larger
<1>2. Owing(u, {"ledger", "count"})' = Owing(u, {"ledger", "count"})
      /\ Owing(u, {"ledger", "count", "task"})' = Owing(u, {"ledger", "count", "task"})
      /\ Owing(u, {"ledger", "count"}) \in {0, 1} /\ Owing(u, {"ledger", "count", "task"}) \in {0, 1}
  BY DEF Owing
<1>3. FreeCovered(u)'
  BY <1>1, <1>2, Counts DEF Covered, FreeCovered, Free
<1>4. Capped => weekly'[u] <= WeeklyLimit + 1 /\ WeekCovered(u)'
  BY Counts DEF Covered, WeekCovered
<1>5. free'[u] <= Free(u)' + 1 + faults'  BY <1>1, Counts DEF Covered
<1> QED  BY <1>3, <1>4, <1>5 DEF Covered, Capped

(* A search that stops leaves its approval uncounted.                      *)
LEMMA CoveredStopped ==
    ASSUME TypeInv, NEW u \in Users, Covered(u), UNCHANGED usage,
           (left.failed)' = left.failed + 1, search'[u] = NotSearching
    PROVE  Covered(u)'
<1>1. Free(u)' = Free(u)  BY DEF Free, Larger
<1>2. /\ Owing(u, {"ledger", "count"})' = 0 /\ Owing(u, {"ledger", "count", "task"})' = 0
      /\ Owing(u, {"ledger", "count"}) \in {0, 1} /\ Owing(u, {"ledger", "count", "task"}) \in {0, 1}
  BY DEF Owing, NotSearching
<1>3. FreeCovered(u)'
  BY <1>2, Counts DEF Covered, FreeCovered, usage, NotSearching, faults
<1>4. Capped => weekly'[u] <= WeeklyLimit + 1 /\ WeekCovered(u)'
  BY Counts DEF Covered, WeekCovered, NotSearching, usage
<1>5. free'[u] <= Free(u)' + 1 + faults'  BY <1>1, Counts DEF Covered, usage, faults
<1> QED  BY <1>3, <1>4, <1>5 DEF Covered, Capped

(* What complimentary means for what has been spent.                       *)
LEMMA Complimentary ==
    ASSUME TypeInv, NEW u \in Users, Covered(u), IsComplimentary(u)
    PROVE  /\ free[u] <= Free(u) + faults
           /\ search[u].pc \notin {"ledger", "count", "task"} => free[u] <= Free(u) - 1 + faults
<1>1. /\ Owing(u, {"ledger", "count"}) \in {0, 1} /\ Owing(u, {"ledger", "count", "task"}) \in {0, 1}
      /\ search[u].pc \notin {"ledger", "count", "task"} =>
           Owing(u, {"ledger", "count"}) = 0 /\ Owing(u, {"ledger", "count", "task"}) = 0
  BY DEF Owing
<1>2. CASE total[u] < Trial  BY <1>1, <1>2, Counts DEF Covered, FreeCovered
<1>3. CASE tasksUsed[u] < Grant[u]  BY <1>1, <1>3, Counts DEF Covered, FreeCovered
<1> QED  BY <1>2, <1>3 DEF IsComplimentary

LEMMA AssignedCapped ==
    ASSUME Capped, NEW e \in Assigned, NEW comp, NEW used, Allows(e, comp, used), ~comp
    PROVE  used < WeeklyLimit
  BY DEF Capped, Assigned, Allows

(* An approval in a transaction.                                           *)
LEMMA RecordCovered ==
    ASSUME TypeInv, NEW u \in Users, Covered(u), NEW m,
           RecordApproval(m, u, IsComplimentary(u)), <<m, u>> \notin approvals,
           NEW e \in Assigned, Allows(e, IsComplimentary(u), weekly[u]),
           UNCHANGED <<search, left>>
    PROVE  Covered(u)'
<1>0. Free(u)' = Free(u) /\ faults' = faults /\ search'[u] = search[u]  BY DEF Free, Larger, faults
<1>1. /\ Owing(u, {"ledger", "count"})' = Owing(u, {"ledger", "count"})
      /\ Owing(u, {"ledger", "count", "task"})' = Owing(u, {"ledger", "count", "task"})
      /\ Owing(u, {"ledger", "count"}) \in {0, 1} /\ Owing(u, {"ledger", "count", "task"}) \in {0, 1}
  BY DEF Owing
<1>2. total'[u] = total[u] + 1
  BY DEF RecordApproval, TypeInv, UsageTyped
<1>3. CASE IsComplimentary(u)
  <2>1. free'[u] = free[u] + 1 /\ weekly'[u] = weekly[u]
    BY <1>3 DEF RecordApproval, TypeInv, UsageTyped
  <2>2. tasksUsed'[u] = IF tasksUsed[u] < Grant[u] THEN tasksUsed[u] + 1 ELSE tasksUsed[u]
    BY <1>3 DEF RecordApproval, TypeInv, UsageTyped
  <2>3. free'[u] <= Free(u) + 1 + faults  BY <1>3, <2>1, Complimentary, Counts
  <2>4. search[u].pc = "insert" => free'[u] <= Free(u) + faults
    BY <1>3, <2>1, Complimentary, Counts
  <2>5. FreeCovered(u)'
    BY <1>0, <1>1, <1>2, <2>1, <2>2, <2>4, Counts DEF Covered, FreeCovered, Free
  <2>6. Capped => weekly'[u] <= WeeklyLimit + 1 /\ WeekCovered(u)'
    BY <1>0, <2>1 DEF Covered, WeekCovered
  <2> QED  BY <1>0, <2>3, <2>5, <2>6 DEF Covered, Capped
<1>4. CASE ~IsComplimentary(u)
  <2>1. free'[u] = free[u] /\ weekly'[u] = weekly[u] + 1 /\ tasksUsed'[u] = tasksUsed[u]
    BY <1>4 DEF RecordApproval, TypeInv, UsageTyped
  <2>2. FreeCovered(u)'
    BY <1>0, <1>1, <1>2, <2>1, Counts DEF Covered, FreeCovered, Free
  <2>3. Capped => weekly'[u] <= WeeklyLimit
    BY <1>4, <2>1, AssignedCapped, Counts
  <2>4. Capped => weekly'[u] <= WeeklyLimit + 1 /\ WeekCovered(u)'
    BY <2>1, <2>3, Counts DEF WeekCovered
  <2> QED  BY <1>0, <2>1, <2>2, <2>4 DEF Covered, Capped
<1> QED  BY <1>3, <1>4

(* A search decision at each of its statements.                            *)
LEMMA SearchCovered ==
    ASSUME TypeInv, NEW u \in Users, Covered(u), UsageStep(u)
    PROVE  Covered(u)'
<1>0. Free(u)' = Free(u)  BY DEF Free, Larger
<1>1. left' = left /\ faults' = faults
  BY DEF UsageStep, InsertApproval, InsertLedger, CountApproval, UseTask, Decide, faults
<1>2. ASSUME NEW pc \in {"ledger", "count", "task", "decide"}, Proceed(u, pc)
      PROVE  search'[u].pc = pc /\ search'[u].comp = search[u].comp
  BY <1>2, Counts DEF Proceed, TypeInv, SearchTyped, SearchType
<1>3. CASE InsertApproval(u)
  <2>1. search[u].pc = "insert" /\ search'[u].pc = "ledger" /\ search'[u].comp = search[u].comp
    BY <1>2, <1>3 DEF InsertApproval, Doing
  <2>2. total'[u] = total[u] /\ tasksUsed'[u] = tasksUsed[u]  BY <1>3 DEF InsertApproval
  <2>3. CASE search[u].comp
    <3>1. free'[u] = free[u] + 1 /\ weekly'[u] = weekly[u]
      BY <1>3, <2>3 DEF InsertApproval, TypeInv, UsageTyped
    <3>2. free[u] <= Free(u) + faults  BY <2>1, <2>3 DEF Covered, FreeCovered, Free
    <3>3. FreeCovered(u)'
      BY <1>1, <2>1, <2>2, <2>3, <3>1, Counts DEF Covered, FreeCovered, Owing
    <3>4. Capped => weekly'[u] <= WeeklyLimit + 1 /\ WeekCovered(u)'
      BY <2>1, <3>1, Counts DEF Covered, WeekCovered
    <3> QED  BY <1>0, <1>1, <3>1, <3>2, <3>3, <3>4, Counts DEF Covered, Capped
  <2>4. CASE ~search[u].comp
    <3>1. free'[u] = free[u] /\ weekly'[u] = weekly[u] + 1
      BY <1>3, <2>4 DEF InsertApproval, TypeInv, UsageTyped
    <3>2. FreeCovered(u)'
      BY <1>1, <2>1, <2>2, <2>4, <3>1, Counts DEF Covered, FreeCovered, Owing
    <3>3. Capped => weekly'[u] <= WeeklyLimit + 1 /\ WeekCovered(u)'
      BY <2>1, <2>4, <3>1, Counts DEF Covered, WeekCovered
    <3> QED  BY <1>0, <1>1, <3>1, <3>2, <3>3, Counts DEF Covered, Capped
  <2> QED  BY <2>3, <2>4
<1>4. CASE InsertLedger(u)
  <2>1. search[u].pc = "ledger" /\ search'[u].pc = "count" /\ search'[u].comp = search[u].comp
    BY <1>2, <1>4 DEF InsertLedger, Doing
  <2>2. free'[u] = free[u] /\ weekly'[u] = weekly[u] /\ total'[u] = total[u] /\ tasksUsed'[u] = tasksUsed[u]
    BY <1>4 DEF InsertLedger
  <2>3. FreeCovered(u)'  BY <1>1, <2>1, <2>2, Counts DEF Covered, FreeCovered, Owing
  <2>4. Capped => weekly'[u] <= WeeklyLimit + 1 /\ WeekCovered(u)'
    BY <2>1, <2>2, Counts DEF Covered, WeekCovered
  <2> QED  BY <1>0, <1>1, <2>2, <2>3, <2>4 DEF Covered, Capped
<1>5. CASE CountApproval(u)
  <2>1. /\ search[u].pc = "count" /\ search'[u].comp = search[u].comp
        /\ search'[u].pc = IF search[u].comp THEN "task" ELSE "decide"
    BY <1>2, <1>5 DEF CountApproval, Doing
  <2>2. free'[u] = free[u] /\ weekly'[u] = weekly[u] /\ tasksUsed'[u] = tasksUsed[u]
        /\ total'[u] = total[u] + 1
    BY <1>5 DEF CountApproval, TypeInv, UsageTyped
  <2>3. FreeCovered(u)'  BY <1>1, <2>1, <2>2, Counts DEF Covered, FreeCovered, Owing
  <2>4. Capped => weekly'[u] <= WeeklyLimit + 1 /\ WeekCovered(u)'
    BY <2>1, <2>2, Counts DEF Covered, WeekCovered
  <2> QED  BY <1>0, <1>1, <2>2, <2>3, <2>4 DEF Covered, Capped
<1>6. CASE UseTask(u)
  <2>1. search[u].pc = "task" /\ search'[u].pc = "decide" /\ search'[u].comp = search[u].comp
    BY <1>2, <1>6 DEF UseTask, Doing
  <2>2. /\ free'[u] = free[u] /\ weekly'[u] = weekly[u] /\ total'[u] = total[u]
        /\ tasksUsed'[u] = IF tasksUsed[u] < Grant[u] THEN tasksUsed[u] + 1 ELSE tasksUsed[u]
    BY <1>6 DEF UseTask, TypeInv, UsageTyped
  <2>3. FreeCovered(u)'  BY <1>1, <2>1, <2>2, Counts DEF Covered, FreeCovered, Owing
  <2>4. Capped => weekly'[u] <= WeeklyLimit + 1 /\ WeekCovered(u)'
    BY <2>1, <2>2, Counts DEF Covered, WeekCovered
  <2> QED  BY <1>0, <1>1, <2>2, <2>3, <2>4 DEF Covered, Capped
<1>7. CASE Decide(u)
  <2>1. search[u].pc = "decide" /\ search'[u] = NotSearching
    BY <1>7 DEF Decide, Doing, TypeInv, SearchTyped
  <2>2. free'[u] = free[u] /\ weekly'[u] = weekly[u] /\ total'[u] = total[u] /\ tasksUsed'[u] = tasksUsed[u]
    BY <1>7 DEF Decide, usage
  <2>3. FreeCovered(u)'  BY <1>1, <2>1, <2>2, Counts DEF Covered, FreeCovered, Owing, NotSearching
  <2>4. Capped => weekly'[u] <= WeeklyLimit + 1 /\ WeekCovered(u)'
    BY <2>1, <2>2, Counts DEF Covered, WeekCovered, NotSearching
  <2> QED  BY <1>0, <1>1, <2>2, <2>3, <2>4 DEF Covered, Capped
<1> QED  BY <1>3, <1>4, <1>5, <1>6, <1>7 DEF UsageStep

LEMMA AskCovered ==
    ASSUME TypeInv, NEW u \in Users, Covered(u), plan[u] \in Assigned, Ask(u)
    PROVE  Covered(u)'
<1>0. Free(u)' = Free(u) /\ faults' = faults  BY DEF Free, Larger, Ask, faults
<1>1. /\ search[u].pc = "idle" /\ search'[u] = [pc |-> "insert", comp |-> IsComplimentary(u)]
      /\ Allows(plan[u], IsComplimentary(u), weekly[u])
  BY DEF Ask, Doing, TypeInv, SearchTyped
<1>2. free'[u] = free[u] /\ weekly'[u] = weekly[u] /\ total'[u] = total[u] /\ tasksUsed'[u] = tasksUsed[u]
  BY DEF Ask, usage
<1>3. search'[u].comp => free[u] <= Free(u) + faults  BY <1>1, Complimentary, Counts
<1>4. search'[u].pc = "insert"  BY <1>1
<1>5. FreeCovered(u)'
  BY <1>0, <1>1, <1>2, <1>3, <1>4, Counts DEF Covered, FreeCovered, Owing, Free
<1>6. Capped /\ ~search'[u].comp => weekly[u] < WeeklyLimit  BY <1>1, AssignedCapped
<1>7. Capped => weekly'[u] <= WeeklyLimit + 1 /\ WeekCovered(u)'
  BY <1>2, <1>6, Counts DEF Covered, WeekCovered
<1> QED  BY <1>0, <1>2, <1>5, <1>7 DEF Covered, Capped

(* Whose search does nothing, and whose counts stand.                      *)
LEMMA OthersCovered ==
    ASSUME TypeInv, TypeInv', NEW v \in Users, Covered(v), faults' >= faults,
           free'[v] = free[v], weekly'[v] <= weekly[v], total'[v] = total[v],
           tasksUsed'[v] = tasksUsed[v], search'[v] = search[v]
    PROVE  Covered(v)'
<1>1. (faults \in Nat)' /\ weekly'[v] \in Nat  BY DEF TypeInv, UsageTyped, Bounded, faults
<1> QED  BY <1>1, CoveredStill

LEMMA UsageCovered ==
    ASSUME TypeInv, TypeInv', AllowanceInv, NEW u \in Users, Usage(u)
    PROVE  AllowanceInv'
<1>1. h' = h  BY DEF Usage, matching
<1>2. \A v \in Users : plan'[v] \in Assigned
  <2>1. plan' = plan \/ \E e \in Entitlements : plan' = [plan EXCEPT ![u] = e]
    BY DEF Usage, Ask, SearchPass, UsageStep, SearchThrows, WeekPasses, SetPlan,
           InsertApproval, InsertLedger, CountApproval, UseTask, Decide
  <2> QED  BY <2>1, AllowanceParts DEF Assigned, TypeInv, SwitchesTyped
<1>3. faults' >= faults
  <2>1. left' = left \/ Spend("faults") \/ Spend("changes")
    BY DEF Usage, Ask, SearchPass, UsageStep, SearchThrows, WeekPasses, SetPlan,
           InsertApproval, InsertLedger, CountApproval, UseTask, Decide
  <2>2. CASE left' = left  BY <2>2, Counts DEF faults
  <2>3. CASE Spend("faults") \/ Spend("changes")  BY <2>3, SpendFailed DEF faults, Bounded
  <2> QED  BY <2>1, <2>2, <2>3
<1>4. ASSUME NEW v \in Users, v # u PROVE Covered(v)'
  <2>1. /\ free'[v] = free[v] /\ weekly'[v] = weekly[v] /\ total'[v] = total[v]
        /\ tasksUsed'[v] = tasksUsed[v] /\ search'[v] = search[v]
    <3>1. /\ free \in [Users -> Nat] /\ weekly \in [Users -> Nat] /\ total \in [Users -> Nat]
          /\ tasksUsed \in [Users -> Nat] /\ search \in [Users -> SearchType]
      BY DEF TypeInv, UsageTyped, SearchTyped
    <3>2. /\ free' = free \/ free' = [free EXCEPT ![u] = @ + 1]
          /\ weekly' = weekly \/ weekly' = [weekly EXCEPT ![u] = @ + 1]
             \/ weekly' = [weekly EXCEPT ![u] = @ - 1]
          /\ total' = total \/ total' = [total EXCEPT ![u] = @ + 1]
          /\ tasksUsed' = tasksUsed \/ tasksUsed' = [tasksUsed EXCEPT ![u] = @ + 1]
      BY DEF Usage, Ask, SearchPass, UsageStep, SearchThrows, WeekPasses, SetPlan,
             InsertApproval, InsertLedger, CountApproval, UseTask, Decide, usage
    <3>3. search' = search \/ \E x : search' = [search EXCEPT ![u] = x]
      <4>1. \/ search' = search
            \/ search' = [search EXCEPT ![u] = [pc |-> "insert", comp |-> IsComplimentary(u)]]
            \/ search' = [search EXCEPT ![u] = NotSearching]
            \/ \E pc \in {"ledger", "count", "task", "decide"} : Proceed(u, pc)
        BY DEF Usage, Ask, SearchPass, UsageStep, SearchThrows, WeekPasses, SetPlan,
               InsertApproval, InsertLedger, CountApproval, UseTask, Decide, searching
      <4>2. ASSUME NEW pc, Proceed(u, pc) PROVE search' = [search EXCEPT ![u] = [search[u] EXCEPT !.pc = pc]]
        BY <4>2 DEF Proceed
      <4> QED  BY <4>1, <4>2
    <3>4. search'[v] = search[v]  BY <1>4, <3>1, <3>3
    <3> QED  BY <1>4, <3>1, <3>2, <3>4
  <2>2. weekly[v] \in Nat  BY Counts
  <2> QED  BY <1>3, <2>1, <2>2, AllowanceParts, OthersCovered
<1>5. Covered(u)'
  <2>1. CASE Ask(u)  BY <2>1, AskCovered, AllowanceParts
  <2>2. CASE UsageStep(u)  BY <2>2, SearchCovered, AllowanceParts
  <2>3. CASE SearchThrows(u)
    <3>1. search'[u] = NotSearching /\ UNCHANGED usage
      BY <2>3 DEF SearchThrows, TypeInv, SearchTyped
    <3>2. (left.failed)' = left.failed + 1  BY <2>3, SpendFailed DEF SearchThrows, Bounded
    <3> QED  BY <3>1, <3>2, CoveredStopped, AllowanceParts
  <2>4. CASE SearchPass(u) \/ WeekPasses(u) \/ \E e \in Entitlements : SetPlan(u, e)
    <3>1. UNCHANGED <<free, total, tasksUsed, search>>
      BY <2>4 DEF SearchPass, WeekPasses, SetPlan, usage, searching
    <3>2. weekly' = weekly \/ weekly' = [weekly EXCEPT ![u] = @ - 1]
      BY <2>4 DEF SearchPass, WeekPasses, SetPlan, usage
    <3>3. weekly'[u] <= weekly[u]  BY <3>2, Counts DEF TypeInv, UsageTyped
    <3> QED  BY <1>3, <3>1, <3>3, AllowanceParts, OthersCovered
  <2> QED  BY <2>1, <2>2, <2>3, <2>4 DEF Usage
<1>6. \A v \in Users : Covered(v)'  BY <1>4, <1>5
<1>7. \A i \in Handlers : h'[i].pc \in ReplyPcs => h'[i].plan \in Assigned
  BY <1>1, AllowanceParts
<1> QED  BY <1>2, <1>6, <1>7, AllowanceNext

(* A step that approves nothing.                                           *)
LEMMA CalmCovered ==
    ASSUME TypeInv, TypeInv', AllowanceInv, Calm
    PROVE  \A u \in Users : Covered(u)' /\ plan'[u] \in Assigned
<1>1. ASSUME NEW u \in Users PROVE Covered(u)'
  <2>1. /\ free'[u] = free[u] /\ weekly'[u] = weekly[u] /\ total'[u] = total[u]
        /\ tasksUsed'[u] = tasksUsed[u] /\ search'[u] = search[u] /\ faults' >= faults
    BY DEF Calm, usage, searching, faults
  <2>2. weekly'[u] <= weekly[u]  BY <2>1, Counts
  <2> QED  BY <2>1, <2>2, AllowanceParts, OthersCovered
<1>2. \A u \in Users : plan'[u] \in Assigned
  BY AllowanceParts DEF Calm, Assigned
<1> QED  BY <1>1, <1>2

LEMMA CommitCovered ==
    ASSUME TypeInv, TypeInv', AllowanceInv, NEW i \in Handlers, Commit(i)
    PROVE  AllowanceInv'
<1> DEFINE m == h[i].m  u == h[i].u  comp == IsComplimentary(u)
<1>1. At(i, "commit") /\ h[i].pc \in ReplyPcs  BY DEF Commit, At, ReplyPcs
<1>2. m \in Pairs /\ u \in Users /\ h[i].plan \in Assigned  BY <1>1, ReplyFields, AllowanceParts
<1>3. UNCHANGED <<search, left, plan>> /\ faults' = faults
  BY DEF Commit, searching, switches, faults
<1>4. \/ UNCHANGED usage
      \/ /\ RecordApproval(m, u, comp) /\ <<m, u>> \notin approvals
         /\ Allows(h[i].plan, comp, weekly[u])
  BY DEF Commit, CanApprove, RecordApproval
<1>5. ASSUME NEW v \in Users PROVE Covered(v)'
  <2>0. faults' >= faults /\ Covered(v)  BY <1>3, Counts, AllowanceParts
  <2>1. ASSUME free'[v] = free[v], weekly'[v] = weekly[v], total'[v] = total[v],
               tasksUsed'[v] = tasksUsed[v]
        PROVE  Covered(v)'
    <3>1. weekly'[v] <= weekly[v]  BY <2>1, Counts
    <3> QED  BY <1>3, <2>0, <2>1, <3>1, OthersCovered
  <2>2. CASE UNCHANGED usage  BY <2>1, <2>2 DEF usage
  <2>3. CASE v = u /\ ~(UNCHANGED usage)  BY <1>2, <1>3, <1>4, <2>0, <2>3, RecordCovered
  <2>4. CASE v # u /\ ~(UNCHANGED usage)
    <3>1. /\ free' = free \/ free' = [free EXCEPT ![u] = @ + 1]
          /\ weekly' = weekly \/ weekly' = [weekly EXCEPT ![u] = @ + 1]
          /\ total' = [total EXCEPT ![u] = @ + 1]
          /\ tasksUsed' = tasksUsed \/ tasksUsed' = [tasksUsed EXCEPT ![u] = @ + 1]
      BY <1>4, <2>4 DEF RecordApproval
    <3>2. /\ free'[v] = free[v] /\ weekly'[v] = weekly[v] /\ total'[v] = total[v]
          /\ tasksUsed'[v] = tasksUsed[v]
      BY <2>4, <3>1 DEF TypeInv, UsageTyped
    <3> QED  BY <2>1, <3>2
  <2> QED  BY <2>2, <2>3, <2>4
<1>6. \A j \in Handlers : h'[j].pc \in ReplyPcs => h'[j].plan \in Assigned
  <2>1. QuietMove(i)  BY DoneQuiet DEF Commit
  <2> QED  BY <2>1, QuietCommits, AllowanceParts
<1> QED  BY <1>3, <1>5, <1>6, AllowanceNext, AllowanceParts

LEMMA AllowanceStep == TypeInv /\ RowInv /\ AllowanceInv /\ [Next]_vars => AllowanceInv'
<1> SUFFICES ASSUME TypeInv, RowInv, AllowanceInv, [Next]_vars PROVE AllowanceInv'
  OBVIOUS
<1>0. TypeInv'  BY NextTyped
<1>1. ASSUME Calm, \A j \in Handlers : h'[j].pc \in ReplyPcs =>
                      h'[j] = h[j] \/ (\E k \in Handlers : h[k].pc \in ReplyPcs /\ h'[j].plan = h[k].plan)
                                   \/ \E u \in Users : h'[j].plan = plan[u]
      PROVE  AllowanceInv'
  <2>1. \A j \in Handlers : h'[j].pc \in ReplyPcs => h'[j].plan \in Assigned
    BY <1>1, AllowanceParts
  <2> QED  BY <1>0, <1>1, <2>1, CalmCovered, AllowanceNext
<1>2. CASE QuietStep
  BY <1>1, <1>2, QuietCommits DEF QuietStep, Still
<1>3. ASSUME NEW i \in Handlers, Gate(i) \/ Undelivered(i) PROVE AllowanceInv'
  BY <1>1, <1>3, GateRow, UndeliveredRow DEF Still
<1>4. ASSUME NEW i \in Handlers, Hold(i) \/ Claim(i) \/ Mark(i) \/ Discard(i) \/ Pass(i)
      PROVE  AllowanceInv'
  <2>1. QuietMove(i)  BY <1>4, InsertedRow, MarkedRow, DiscardedRow, PassedRow
  <2>2. Calm  BY <1>4, CardsCalm
  <2> QED  BY <1>1, <2>1, <2>2, QuietCommits
<1>5. ASSUME NEW i \in Handlers, Lock(i) PROVE AllowanceInv'
  <2>1. Calm /\ h[i].pc \in ReplyPcs /\ \A j \in Handlers \ {i} : h'[j] = h[j]
    BY <1>5, LockRow DEF Still, ReplyPcs
  <2>2. h'[i] = Idle \/ h'[i].plan = h[i].plan  BY <1>5, LockRow
  <2>3. Idle.pc \notin ReplyPcs  BY DEF Idle, ReplyPcs
  <2> QED  BY <1>1, <2>1, <2>2, <2>3
<1>6. ASSUME NEW m \in Pairs, NEW u \in Users, PassMatch(m, u) \/ ApproveMatch(m, u)
      PROVE  AllowanceInv'
  BY <1>1, <1>6, TakenReply DEF Still
<1>7. CASE Restart
  <2>1. /\ UNCHANGED <<usage, plan>> /\ search' = [u \in Users |-> NotSearching]
        /\ (left.failed)' = left.failed + 1 /\ h' = [i \in Handlers |-> Idle]
    BY <1>7, SpendFailed DEF Restart, switches, Bounded
  <2>2. \A u \in Users : Covered(u)'  BY <2>1, CoveredStopped, AllowanceParts
  <2>3. \A j \in Handlers : h'[j].pc \notin ReplyPcs  BY <2>1 DEF Idle, ReplyPcs
  <2> QED  BY <2>1, <2>2, <2>3, AllowanceNext, AllowanceParts
<1> QED
  BY <1>0, <1>2, <1>3, <1>4, <1>5, <1>6, <1>7, Kinds, CommitCovered, UsageCovered

-----------------------------------------------------------------------------
(* The initial batches: whoever may yet note a card was admitted below the *)
(* cap, and what has been noted is in the rows but for the failures.       *)

Noted(x, p) ==
    x.pc \in Noting /\ x.posting = p /\ Own(x.m, x.side) = x.posting /\ ~x.paying
Room == Larger(Cap, MemberCap) + (Cardinality(Handlers) - 1)
BatchAt(p) ==
    /\ initial[p] + Cardinality(Admitted(p)) <= Room + faults
    /\ initial[p] + Cardinality(Discarding) <= Cardinality(ShownRows(p, Owner[p])) + faults

LEMMA BatchParts ==
    /\ BatchInv <=> \A p \in Postings : BatchAt(p)
    /\ \A p \in Postings : Admitted(p) = {i \in Handlers : Noted(h[i], p)}
  BY DEF BatchInv, BatchAt, Room, Admitted, Noted, Noting, InBatch

LEMMA BatchNext ==
    ASSUME \A p \in Postings : BatchAt(p)'
    PROVE  BatchInv'
  BY DEF BatchInv, BatchAt, Room

(* A part of a finite set.                                                 *)
LEMMA Part ==
    ASSUME NEW S, IsFiniteSet(S), NEW R, R \subseteq S
    PROVE  /\ IsFiniteSet(R) /\ Cardinality(R) \in Nat /\ Cardinality(S) \in Nat
           /\ Cardinality(R) <= Cardinality(S)
           /\ \A e \in S : e \notin R => Cardinality(R) + 1 <= Cardinality(S)
<1>1. IsFiniteSet(R) /\ Cardinality(R) \in Nat /\ Cardinality(S) \in Nat
      /\ Cardinality(R) <= Cardinality(S)
  BY FS_Subset, FS_CardinalityType
<1>2. ASSUME NEW e \in S, e \notin R PROVE Cardinality(R) + 1 <= Cardinality(S)
  <2>1. R \cup {e} \subseteq S /\ Cardinality(R \cup {e}) = Cardinality(R) + 1
    BY <1>1, <1>2, OneMore
  <2> QED  BY <2>1, FS_Subset
<1> QED  BY <1>1, <1>2

LEMMA AtMostOneMore ==
    ASSUME NEW S, IsFiniteSet(S), NEW e
    PROVE  IsFiniteSet(S \cup {e}) /\ Cardinality(S \cup {e}) <= Cardinality(S) + 1
<1>1. IsFiniteSet(S \cup {e}) /\ Cardinality(S) \in Nat  BY FS_AddElement, FS_CardinalityType
<1>2. CASE e \in S
  <2>1. S \cup {e} = S  BY <1>2
  <2>2. Cardinality(S) <= Cardinality(S) + 1  BY <1>1
  <2> QED  BY <1>1, <2>1, <2>2
<1>3. CASE e \notin S  BY <1>1, <1>3, OneMore
<1> QED  BY <1>2, <1>3

LEMMA BatchCounts ==
    ASSUME TypeInv, RowInv, NEW p \in Postings
    PROVE  /\ IsFiniteSet(Handlers) /\ IsFiniteSet(Admitted(p)) /\ IsFiniteSet(Discarding)
           /\ IsFiniteSet(ShownRows(p, Owner[p])) /\ Cardinality(ShownRows(p, Owner[p])) \in Nat
           /\ Cardinality(Admitted(p)) \in Nat /\ Cardinality(Discarding) \in Nat
           /\ Cardinality(Admitted(p)) <= Cardinality(Handlers) /\ Cardinality(Handlers) \in Nat
           /\ initial[p] \in Nat /\ faults \in Nat /\ Room \in Int
<1>1. IsFiniteSet(Handlers) /\ Cardinality(Handlers) \in Nat
  BY MatchingAssumption, FS_CardinalityType
<1>2. Admitted(p) \subseteq Handlers /\ Discarding \subseteq Handlers  BY DEF Admitted, Discarding
<1>3. ShownRows(p, Owner[p]) \subseteq DOMAIN recipient  BY DEF ShownRows
<1>4. Room \in Int  BY <1>1, MatchingAssumption DEF Room, Larger
<1>5. initial[p] \in Nat /\ faults \in Nat  BY DEF TypeInv, CardsTyped, Bounded, faults
<1>6. IsFiniteSet(DOMAIN recipient)  BY DEF RowInv
<1> QED  BY <1>1, <1>2, <1>3, <1>4, <1>5, <1>6, Part

(* Nobody is admitted, nothing is noted and nothing lost.                  *)
LEMMA BatchKept ==
    ASSUME TypeInv, TypeInv', RowInv, RowInv', NEW p \in Postings, BatchAt(p),
           initial'[p] = initial[p], faults' >= faults,
           Admitted(p)' \subseteq Admitted(p), Discarding' \subseteq Discarding,
           ShownRows(p, Owner[p]) \subseteq ShownRows(p, Owner[p])'
    PROVE  BatchAt(p)'
<1>1. Cardinality(Admitted(p)') <= Cardinality(Admitted(p)) /\ Cardinality(Admitted(p)') \in Nat
  BY BatchCounts, Part
<1>2. Cardinality(Discarding') <= Cardinality(Discarding) /\ Cardinality(Discarding') \in Nat
  BY BatchCounts, Part
<1>3. IsFiniteSet(ShownRows(p, Owner[p])')
  <2>1. ShownRows(p, Owner[p])' \subseteq DOMAIN recipient'  BY DEF ShownRows
  <2>2. IsFiniteSet(DOMAIN recipient')  BY DEF RowInv
  <2> QED  BY <2>1, <2>2, Part
<1>4. Cardinality(ShownRows(p, Owner[p])) <= Cardinality(ShownRows(p, Owner[p])')
      /\ Cardinality(ShownRows(p, Owner[p])') \in Nat
  BY <1>3, Part
<1>5. Room' = Room /\ faults' \in Nat  BY DEF Room, Larger, TypeInv, Bounded, faults
<1>6. initial'[p] + Cardinality(Admitted(p)') <= Room' + faults'
  BY <1>1, <1>5, BatchCounts DEF BatchAt
<1>7. initial'[p] + Cardinality(Discarding') <= Cardinality(ShownRows(p, Owner[p])') + faults'
  BY <1>2, <1>4, <1>5, BatchCounts DEF BatchAt
<1> QED  BY <1>6, <1>7 DEF BatchAt

LEMMA QuietBatch ==
    ASSUME TypeInv, h' = h \/ \E i \in Handlers : QuietMove(i)
    PROVE  /\ Discarding' \subseteq Discarding
           /\ \A p \in Postings : Admitted(p)' \subseteq Admitted(p)
<1>1. CASE h' = h  BY <1>1 DEF Discarding, Admitted, At, InBatch
<1>2. ASSUME NEW i \in Handlers, QuietMove(i)
      PROVE  /\ Discarding' \subseteq Discarding
             /\ \A p \in Postings : Admitted(p)' \subseteq Admitted(p)
  <2>1. PICK y : h' = [h EXCEPT ![i] = y] /\ Quiet(h[i], y)  BY <1>2 DEF QuietMove
  <2>2. h'[i] = y /\ \A j \in Handlers \ {i} : h'[j] = h[j]  BY <2>1 DEF TypeInv, HandlersTyped
  <2>3. ASSUME NEW j \in Handlers PROVE h'[j].pc = "discard" => h[j].pc = "discard"
    BY <2>1, <2>2 DEF Quiet
  <2>4. ASSUME NEW j \in Handlers, NEW p, Noted(h'[j], p) PROVE Noted(h[j], p)
    BY <2>1, <2>2, <2>4 DEF Quiet, Noted, SameCard
  <2>5. \A p \in Postings : Admitted(p)' = {j \in Handlers : Noted(h'[j], p)}
    BY DEF Admitted, Noted, Noting, InBatch
  <2> QED  BY <2>3, <2>4, <2>5, BatchParts DEF Discarding, At
<1> QED  BY <1>1, <1>2

(* The gate lets a card through only below the cap.                        *)
LEMMA GateMoves ==
    ASSUME TypeInv, RowInv, NEW i \in Handlers, Gate(i)
    PROVE  /\ h[i].pc = "gate" /\ \A j \in Handlers \ {i} : h'[j] = h[j]
           /\ h'[i].pc \in {"gate", "next", "hold", "claim"}
           /\ \A p \in Postings : Noted(h'[i], p) =>
                Cardinality(ShownRows(p, Owner[p])) + 1 <= Larger(Cap, MemberCap)
<1>1. At(i, "gate") /\ h[i] \in JobType  BY HandlerShape DEF Gate, At, JobPcs
<1>2. CASE NextSide(i)
  BY <1>1, <1>2, NextSideMoves DEF At, Noted, Noting
<1>3. CASE ~NextSide(i)
  <2> DEFINE p == Own(h[i].m, h[i].side)
             u == Owner[p]
             c == Party(h[i].m, IF h[i].side = "fs" THEN "wtb" ELSE "fs")
             paying == c # Nobody /\ Paying(c)
             over == ~paying /\ p = h[i].posting /\ ShownFor(p, u) >= CapOf(u)
             pc == IF over THEN "hold" ELSE "claim"
  <2>1. h' = [h EXCEPT ![i].paying = paying, ![i].pc = pc]  BY <1>3 DEF Gate
  <2>2. pc \in {"hold", "claim"} /\ (pc = "claim" => ~over)  OBVIOUS
  <2>3. ASSUME NEW q \in Postings, q = p, ~paying, q = h[i].posting, ~over
        PROVE  Cardinality(ShownRows(q, Owner[q])) + 1 <= Larger(Cap, MemberCap)
    <3>1. ~(ShownFor(q, Owner[q]) >= CapOf(Owner[q]))  BY <2>3
    <3>2. ShownFor(q, Owner[q]) = Cardinality(ShownRows(q, Owner[q]))  BY DEF ShownFor, ShownRows
    <3>3. Cardinality(ShownRows(q, Owner[q])) \in Nat  BY BatchCounts
    <3>4. CapOf(Owner[q]) \in {Cap, MemberCap} /\ Cap \in Nat /\ MemberCap \in Nat
      BY MatchingAssumption DEF CapOf
    <3> QED  BY <3>1, <3>2, <3>3, <3>4 DEF Larger
  <2> HIDE DEF paying, pc, over
  <2>4. \A j \in Handlers \ {i} : h'[j] = h[j]  BY <2>1 DEF TypeInv, HandlersTyped
  <2>5. /\ h'[i].pc = pc /\ h'[i].paying = paying /\ h'[i].m = h[i].m /\ h'[i].side = h[i].side
        /\ h'[i].posting = h[i].posting
    BY <1>1, <2>1 DEF TypeInv, HandlersTyped, JobType
  <2>6. ASSUME NEW q \in Postings, Noted(h'[i], q)
        PROVE  Cardinality(ShownRows(q, Owner[q])) + 1 <= Larger(Cap, MemberCap)
    <3>1. pc = "claim" /\ ~paying /\ q = p /\ q = h[i].posting
      BY <2>2, <2>5, <2>6 DEF Noted, Noting
    <3> QED  BY <2>2, <2>3, <3>1
  <2> QED  BY <1>1, <2>2, <2>4, <2>5, <2>6 DEF At
<1> QED  BY <1>2, <1>3

LEMMA GateBatch ==
    ASSUME TypeInv, TypeInv', RowInv, RowInv', NEW p \in Postings, BatchAt(p),
           NEW i \in Handlers, Gate(i)
    PROVE  BatchAt(p)'
<1>1. UNCHANGED <<recipient, initial, left>> /\ faults' = faults
  BY DEF Gate, rows, cards, faults
<1>2. /\ h[i].pc = "gate" /\ \A j \in Handlers \ {i} : h'[j] = h[j]
      /\ h'[i].pc \in {"gate", "next", "hold", "claim"}
  BY GateMoves
<1>3. Discarding' \subseteq Discarding  BY <1>2 DEF Discarding, At
<1>4. ShownRows(p, Owner[p])' = ShownRows(p, Owner[p])  BY <1>1 DEF ShownRows
<1>5. Admitted(p)' = {j \in Handlers : Noted(h'[j], p)}
  BY DEF Admitted, Noted, Noting, InBatch
<1>6. CASE ~Noted(h'[i], p)
  <2>1. Admitted(p)' \subseteq Admitted(p)  BY <1>2, <1>5, <1>6, BatchParts
  <2>2. faults' >= faults  BY <1>1, BatchCounts
  <2> QED  BY <1>1, <1>3, <1>4, <2>1, <2>2, BatchKept
<1>7. CASE Noted(h'[i], p)
  <2>1. Cardinality(ShownRows(p, Owner[p])) + 1 <= Larger(Cap, MemberCap)  BY <1>7, GateMoves
  <2>2. Cardinality(Admitted(p)') <= Cardinality(Handlers) /\ Cardinality(Admitted(p)') \in Nat
    BY <1>5, BatchCounts, Part
  <2>3. Cardinality(Discarding') <= Cardinality(Discarding) /\ Cardinality(Discarding') \in Nat
    BY <1>3, BatchCounts, Part
  <2>4. Room' = Room  BY DEF Room, Larger
  <2>5. initial[p] <= Cardinality(ShownRows(p, Owner[p])) + faults  BY BatchCounts DEF BatchAt
  <2>6. Larger(Cap, MemberCap) \in Nat  BY MatchingAssumption DEF Larger
  <2>7. initial'[p] + Cardinality(Admitted(p)') <= Room' + faults'
    BY <1>1, <2>1, <2>2, <2>4, <2>5, <2>6, BatchCounts DEF Room
  <2>8. initial'[p] + Cardinality(Discarding') <= Cardinality(ShownRows(p, Owner[p])') + faults'
    BY <1>1, <1>4, <2>3, BatchCounts DEF BatchAt
  <2> QED  BY <2>7, <2>8 DEF BatchAt
<1> QED  BY <1>6, <1>7

(* A row that is deleted had been given up by its handler.                 *)
LEMMA UndeliveredBatch ==
    ASSUME TypeInv, TypeInv', RowInv, RowInv', NEW p \in Postings, BatchAt(p),
           NEW i \in Handlers, Undelivered(i)
    PROVE  BatchAt(p)'
<1>1. recipient' = recipient /\ initial' = initial /\ faults' = faults + 1
  BY UndeliveredRow DEF Still, faults
<1>2. h'[i].pc = "discard" /\ \A j \in Handlers \ {i} : h'[j] = h[j]
  <2>1. h[i] \in JobType  BY HandlerShape DEF Undelivered, JobPcs
  <2> QED  BY <2>1 DEF Undelivered, Goto, TypeInv, HandlersTyped, JobType
<1>3. Discarding' \subseteq Discarding \cup {i}  BY <1>2 DEF Discarding, At
<1>4. Cardinality(Discarding') <= Cardinality(Discarding) + 1 /\ Cardinality(Discarding') \in Nat
  <2>1. IsFiniteSet(Discarding \cup {i})
        /\ Cardinality(Discarding \cup {i}) <= Cardinality(Discarding) + 1
    BY BatchCounts, AtMostOneMore
  <2>2. Cardinality(Discarding \cup {i}) \in Nat  BY <2>1, FS_CardinalityType
  <2> QED  BY <1>3, <2>1, <2>2, BatchCounts, Part
<1>5. Admitted(p)' \subseteq Admitted(p)
  <2>1. Admitted(p)' = {j \in Handlers : Noted(h'[j], p)}
    BY DEF Admitted, Noted, Noting, InBatch
  <2> QED  BY <1>2, <2>1, BatchParts DEF Noted, Noting
<1>6. Cardinality(Admitted(p)') <= Cardinality(Admitted(p)) /\ Cardinality(Admitted(p)') \in Nat
  BY <1>5, BatchCounts, Part
<1>7. ShownRows(p, Owner[p])' = ShownRows(p, Owner[p]) /\ Room' = Room
  BY <1>1 DEF ShownRows, Room, Larger
<1> QED  BY <1>1, <1>4, <1>6, <1>7, BatchCounts DEF BatchAt

LEMMA DiscardBatch ==
    ASSUME TypeInv, TypeInv', RowInv, RowInv', NEW p \in Postings, BatchAt(p),
           NEW i \in Handlers, Discard(i)
    PROVE  BatchAt(p)'
<1> DEFINE k == CardKey(i)
           S == ShownRows(p, Owner[p])
           T == ShownRows(p, Owner[p])'
<1>1. initial' = initial /\ faults' = faults  BY DEF Discard, cards, faults
<1>2. At(i, "discard") /\ QuietMove(i)  BY DiscardedRow
<1>3. h'[i].pc \in {"gate", "next"}  BY NextSideMoves DEF Discard, At, Addressed
<1>4. Discarding' \subseteq Discarding /\ i \in Discarding /\ i \notin Discarding'
  BY <1>2, <1>3, QuietBatch DEF Discarding, At
<1>5. Cardinality(Discarding') + 1 <= Cardinality(Discarding) /\ Cardinality(Discarding') \in Nat
  BY <1>4, BatchCounts, Part
<1>6. Cardinality(Admitted(p)') <= Cardinality(Admitted(p)) /\ Cardinality(Admitted(p)') \in Nat
  <2>1. Admitted(p)' \subseteq Admitted(p)  BY <1>2, QuietBatch
  <2> QED  BY <2>1, BatchCounts, Part
<1>7. S \ {k} \subseteq T
  <2>1. T = {l \in DOMAIN recipient' : l[2] = Owner[p] /\ p \in {l[1][1], l[1][2]}
                                       /\ recipient'[l].delivered /\ ~recipient'[l].paying}
    BY DEF ShownRows
  <2> QED  BY <2>1, DiscardedRow DEF ShownRows
<1>8. IsFiniteSet(T) /\ Cardinality(T) \in Nat
  <2>1. T \subseteq DOMAIN recipient' /\ IsFiniteSet(DOMAIN recipient')  BY DEF ShownRows, RowInv
  <2> QED  BY <2>1, Part
<1>9. Cardinality(S) <= Cardinality(T) + 1
  <2>1. IsFiniteSet(T \cup {k}) /\ Cardinality(T \cup {k}) <= Cardinality(T) + 1
    BY <1>8, AtMostOneMore
  <2>2. S \subseteq T \cup {k}  BY <1>7
  <2>3. Cardinality(S) <= Cardinality(T \cup {k}) /\ Cardinality(T \cup {k}) \in Nat
        /\ Cardinality(S) \in Nat
    BY <2>1, <2>2, Part
  <2> QED  BY <1>8, <2>1, <2>3
<1>10. Room' = Room  BY DEF Room, Larger
<1> HIDE DEF k
<1> QED  BY <1>1, <1>5, <1>6, <1>8, <1>9, <1>10, BatchCounts DEF BatchAt

LEMMA MarkBatch ==
    ASSUME TypeInv, TypeInv', RowInv, RowInv', NEW p \in Postings, BatchAt(p),
           NEW i \in Handlers, Mark(i)
    PROVE  BatchAt(p)'
<1> DEFINE k == CardKey(i)
           q == Own(h[i].m, h[i].side)
           shown == k \in DOMAIN recipient /\ ~recipient[k].delivered /\ ~recipient[k].paying
           S == ShownRows(p, Owner[p])
           T == ShownRows(p, Owner[p])'
<1>1. At(i, "mark") /\ QuietMove(i) /\ faults' = faults  BY MarkedRow DEF Mark, faults
<1>2. initial' = IF shown /\ InBatch(i) THEN [initial EXCEPT ![q] = @ + 1] ELSE initial
  BY DEF Mark
<1>3. Discarding' \subseteq Discarding /\ Admitted(p)' \subseteq Admitted(p)
  BY <1>1, QuietBatch
<1>4. T = {l \in DOMAIN recipient' : l[2] = Owner[p] /\ p \in {l[1][1], l[1][2]}
                                     /\ recipient'[l].delivered /\ ~recipient'[l].paying}
  BY DEF ShownRows
<1>5. S \subseteq T  BY <1>4, MarkedRow DEF ShownRows
<1>6. CASE ~(shown /\ InBatch(i) /\ q = p)
  <2>1. initial'[p] = initial[p]  BY <1>2, <1>6 DEF TypeInv, CardsTyped
  <2>2. faults' >= faults  BY <1>1, BatchCounts
  <2> QED  BY <1>3, <1>5, <2>1, <2>2, BatchKept
<1>7. CASE shown /\ InBatch(i) /\ q = p
  <2>1. initial'[p] = initial[p] + 1  BY <1>2, <1>7 DEF TypeInv, CardsTyped
  <2>2. h[i].pc \in Addressed  BY <1>1 DEF At, Addressed
  <2>3. /\ k = <<h[i].m, Party(h[i].m, h[i].side), h[i].rev>> /\ h[i].m \in Pairs
    BY <2>2, CardKeyKnown
  <2>4. k[2] = Owner[p] /\ p \in {k[1][1], k[1][2]}
    BY <1>7, <2>3, OwnersKnown DEF Party
  <2>5. k \notin S /\ k \in T
    <3>1. k \notin S  BY <1>7 DEF ShownRows
    <3>2. k \in DOMAIN recipient' /\ recipient'[k].delivered /\ ~recipient'[k].paying
      BY <1>7, MarkedRow
    <3> QED  BY <1>4, <2>4, <3>1, <3>2
  <2>6. IsFiniteSet(T) /\ Cardinality(T) \in Nat
    <3>1. T \subseteq DOMAIN recipient' /\ IsFiniteSet(DOMAIN recipient')  BY DEF ShownRows, RowInv
    <3> QED  BY <3>1, Part
  <2>7. Cardinality(S) + 1 <= Cardinality(T)  BY <1>5, <2>5, <2>6, Part
  <2>8. i \in Admitted(p) /\ i \notin Admitted(p)'
    <3>1. h'[i].pc \in {"gate", "next"}  BY <2>2, NextSideMoves DEF Mark
    <3> QED  BY <1>1, <1>7, <3>1 DEF Admitted, At, InBatch
  <2>9. Cardinality(Admitted(p)') + 1 <= Cardinality(Admitted(p)) /\ Cardinality(Admitted(p)') \in Nat
    BY <1>3, <2>8, BatchCounts, Part
  <2>10. Cardinality(Discarding') <= Cardinality(Discarding) /\ Cardinality(Discarding') \in Nat
    BY <1>3, BatchCounts, Part
  <2>11. Room' = Room  BY DEF Room, Larger
  <2> HIDE DEF k, q
  <2> QED  BY <1>1, <2>1, <2>6, <2>7, <2>9, <2>10, <2>11, BatchCounts DEF BatchAt
<1> QED  BY <1>6, <1>7

(* The steps that admit nobody and lose no row.                            *)
LEMMA PlainBatch ==
    ASSUME TypeInv, TypeInv', RowInv, RowInv', NEW p \in Postings, BatchAt(p),
           initial' = initial, faults' >= faults,
           \A j \in Handlers : h'[j].pc \in Noting \cup {"discard"} => h'[j] = h[j],
           \A k \in DOMAIN recipient : /\ k \in DOMAIN recipient'
                                       /\ recipient'[k].delivered = recipient[k].delivered
                                       /\ recipient'[k].paying = recipient[k].paying
    PROVE  BatchAt(p)'
<1>1. Discarding' \subseteq Discarding  BY DEF Discarding, At
<1>2. Admitted(p)' \subseteq Admitted(p)
  BY DEF Admitted, InBatch, Noting
<1>3. ShownRows(p, Owner[p]) \subseteq ShownRows(p, Owner[p])'  BY DEF ShownRows
<1> QED  BY <1>1, <1>2, <1>3, BatchKept

LEMMA BatchStep == TypeInv /\ RowInv /\ BatchInv /\ [Next]_vars => BatchInv'
<1> SUFFICES ASSUME TypeInv, RowInv, BatchInv, [Next]_vars, NEW p \in Postings PROVE BatchAt(p)'
  BY BatchNext
<1>0. TypeInv' /\ RowInv' /\ BatchAt(p)  BY NextTyped, RowStep, BatchParts
<1>1. ASSUME initial' = initial, faults' >= faults, h' = h \/ \E i \in Handlers : QuietMove(i),
             \A k \in DOMAIN recipient : /\ k \in DOMAIN recipient'
                                         /\ recipient'[k].delivered = recipient[k].delivered
                                         /\ recipient'[k].paying = recipient[k].paying
      PROVE  BatchAt(p)'
  <2>1. ShownRows(p, Owner[p]) \subseteq ShownRows(p, Owner[p])'  BY <1>1 DEF ShownRows
  <2> QED  BY <1>0, <1>1, <2>1, QuietBatch, BatchKept
<1>2. CASE QuietStep
  BY <1>1, <1>2 DEF QuietStep, Still, Calm, faults
<1>3. ASSUME NEW i \in Handlers, Hold(i) \/ Claim(i) PROVE BatchAt(p)'
  <2>1. QuietMove(i) /\ initial' = initial /\ faults' >= faults
    BY <1>3, InsertedRow, CardsCalm, Counts DEF Hold, Claim, cards, Calm, faults
  <2>2. ASSUME NEW k \in DOMAIN recipient
        PROVE  k \in DOMAIN recipient' /\ recipient'[k] = recipient[k]
    <3>1. CASE recipient' = recipient  BY <3>1
    <3>2. CASE /\ CardKey(i) \notin DOMAIN recipient
               /\ \E paying \in BOOLEAN : recipient' = Inserted(CardKey(i), NewRow(paying))
      BY <3>2 DEF Inserted
    <3> QED  BY <1>3, <3>1, <3>2, InsertedRow
  <2> QED  BY <1>1, <2>1, <2>2
<1>4. ASSUME NEW i \in Handlers, Pass(i) \/ Commit(i) PROVE BatchAt(p)'
  <2>1. initial' = initial /\ left' = left  BY <1>4 DEF Pass, Commit, cards
  <2>2. faults \in Nat /\ faults' = faults  BY <2>1 DEF TypeInv, Bounded, faults
  <2>3. \A k \in DOMAIN recipient : /\ k \in DOMAIN recipient'
                                    /\ recipient'[k].delivered = recipient[k].delivered
                                    /\ recipient'[k].paying = recipient[k].paying
    BY <1>4, PassedRow, CommitRow
  <2>4. QuietMove(i)  BY <1>4, PassedRow, CommitRow
  <2> QED  BY <1>1, <2>1, <2>2, <2>3, <2>4
<1>5. ASSUME Still, \A j \in Handlers : h'[j].pc \in Noting \cup {"discard"} => h'[j] = h[j]
      PROVE  BatchAt(p)'
  BY <1>0, <1>5, PlainBatch DEF Still, Calm, faults
<1>6. ASSUME NEW i \in Handlers, Lock(i) PROVE BatchAt(p)'
  BY <1>5, <1>6, LockRow DEF Noting, Idle
<1>7. ASSUME NEW m \in Pairs, NEW u \in Users, PassMatch(m, u) \/ ApproveMatch(m, u)
      PROVE  BatchAt(p)'
  BY <1>5, <1>7, TakenReply DEF Noting
<1>8. CASE Restart
  <2>1. /\ recipient' = recipient /\ initial' = initial /\ h' = [i \in Handlers |-> Idle]
        /\ faults' >= faults
    BY <1>8, SpendFailed DEF Restart, rows, cards, Bounded, faults
  <2>2. \A j \in Handlers : h'[j].pc = "idle"  BY <2>1 DEF Idle
  <2> QED  BY <1>0, <2>1, <2>2, PlainBatch DEF Noting
<1>9. ASSUME NEW u \in Users, Usage(u) PROVE BatchAt(p)'
  <2>1. UNCHANGED <<recipient, initial, h>>  BY <1>9 DEF Usage, matching, rows, cards
  <2>2. faults' >= faults
    <3>1. left' = left \/ Spend("faults") \/ Spend("changes")
      BY <1>9 DEF Usage, Ask, SearchPass, UsageStep, SearchThrows, WeekPasses, SetPlan,
             InsertApproval, InsertLedger, CountApproval, UseTask, Decide
    <3>2. CASE left' = left  BY <3>2 DEF TypeInv, Bounded, faults
    <3>3. CASE Spend("faults") \/ Spend("changes")  BY <3>3, SpendFailed DEF faults, Bounded
    <3> QED  BY <3>1, <3>2, <3>3
  <2> QED  BY <1>1, <2>1, <2>2
<1> QED
  BY <1>0, <1>2, <1>3, <1>4, <1>6, <1>7, <1>8, <1>9, Kinds, GateBatch, MarkBatch,
     UndeliveredBatch, DiscardBatch

-----------------------------------------------------------------------------
(* The theorems.                                                           *)

LEMMA Started == Init => IInv
<1> SUFFICES ASSUME Init PROVE IInv
  OBVIOUS
<1>1. TypeInv  BY InitTyped
<1>2. /\ DOMAIN recipient = {} /\ approvals = {} /\ revealed = {}
      /\ \A i \in Handlers : h[i] = Idle
  BY DEF Init, UsageInit
<1>3. RowInv
  <2>1. IsFiniteSet(DOMAIN recipient)  BY <1>2, FS_EmptySet
  <2>2. 0 \in Nat /\ \A k \in DOMAIN recipient : k[3] <= 0  BY <1>2
  <2> QED  BY <1>2, <2>1, <2>2 DEF RowInv, At, Idle
<1>4. RecordInv
  <2>1. IsFiniteSet(approvals) /\ Cardinality({}) = 0  BY <1>2, FS_EmptySet
  <2>2. \A p \in Postings : approvedCount[p] = 0  BY DEF Init
  <2>3. \A p \in Postings : ApprovalsOn(p) = {}  BY <1>2 DEF ApprovalsOn
  <2>4. MatchLimit \in Nat /\ MatchLimit > 0  BY MatchingAssumption
  <2>5. PostingsComplete  BY <2>1, <2>2, <2>3, <2>4 DEF PostingsComplete
  <2>6. \A u \in Users : {a \in approvals : a[2] = u} = {} /\ total[u] = 0
    BY <1>2 DEF Init, UsageInit
  <2>7. DisclosureOnRecord  BY <1>2, <2>1, <2>6 DEF DisclosureOnRecord
  <2> QED  BY <2>1, <2>2, <2>4, <2>5, <2>7 DEF RecordInv
<1>5. AllowanceInv
  <2>1. ASSUME NEW u \in Users PROVE Covered(u) /\ plan[u] \in Assigned
    <3>1. free[u] = 0 /\ weekly[u] = 0 /\ total[u] = 0 /\ tasksUsed[u] = 0 /\ search[u] = NotSearching
      BY DEF Init, UsageInit
    <3>2. plan[u] \in Assigned  BY DEF Init, UsageInit, Assigned
    <3>3. Owing(u, {"ledger", "count"}) = 0 /\ Owing(u, {"ledger", "count", "task"}) = 0
      BY <3>1 DEF Owing, NotSearching
    <3>4. FreeCovered(u)  BY <1>1, <3>1, <3>3, Counts DEF FreeCovered, NotSearching
    <3>5. WeekCovered(u)  BY <3>1 DEF WeekCovered, NotSearching
    <3> QED  BY <1>1, <3>1, <3>2, <3>4, <3>5, Counts DEF Covered
  <2>2. \A i \in Handlers : h[i].pc \notin ReplyPcs  BY <1>2 DEF Idle, ReplyPcs
  <2> QED  BY <2>1, <2>2, AllowanceParts
<1>6. BatchInv
  <2>1. ASSUME NEW p \in Postings PROVE BatchAt(p)
    <3>1. initial[p] = 0  BY DEF Init
    <3>2. Admitted(p) = {} /\ Discarding = {}
      BY <1>2 DEF Admitted, Discarding, At, Idle
    <3>3. Cardinality({}) = 0  BY FS_EmptySet
    <3>4. Room >= 0
      <4>1. Cardinality(Handlers) >= 1
        <5>1. Cardinality(Handlers) # 0  BY MatchingAssumption, FS_EmptySet
        <5> QED  BY <5>1, MatchingAssumption, FS_CardinalityType
      <4> QED  BY <4>1, <1>1, <1>3, BatchCounts, MatchingAssumption DEF Room, Larger
    <3> QED  BY <1>1, <1>3, <3>1, <3>2, <3>3, <3>4, BatchCounts DEF BatchAt
  <2> QED  BY <2>1, BatchParts
<1> QED  BY <1>1, <1>3, <1>4, <1>5, <1>6 DEF IInv

(* The parts hold together in every state.                                 *)
THEOREM Invariance == Spec => []IInv
<1>1. IInv /\ [Next]_vars => IInv'
  BY NextTyped, RowStep, RecordStep, AllowanceStep, BatchStep DEF IInv
<1> QED  BY <1>1, Started, PTL DEF Spec

(* Every row, counter and local variable keeps its type (ingest.ts,        *)
(* notify.ts, approvalUsage.ts).                                           *)
THEOREM TypeCorrect == Spec => []TypeOK
<1>1. IInv => TypeOK
  <2> SUFFICES ASSUME TypeInv PROVE TypeOK
    BY DEF IInv
  <2>1. \A n \in {free, weekly, ledger, total, tasksUsed, undecided} : n \in [Users -> Nat]
    BY DEF TypeInv, UsageTyped, SearchTyped
  <2> QED
    BY <2>1
       DEF TypeOK, TypeInv, HandlersTyped, PostingsTyped, MatchTyped, RecipientTyped, RowType,
           UsageTyped, SwitchesTyped, CardsTyped, TimersTyped, LocksTyped
<1> QED  BY <1>1, Invariance, PTL

(* "Both now read and increment the SAME canonical_users row"              *)
(* (approvalUsage.ts): whatever the trial, the grant, the week's limit and *)
(* the number of accounts, what is free or within the week's cap is spent  *)
(* once, whichever flow and however many replies spend it, but for a       *)
(* search decision that had read the usage, and its failures.              *)
THEOREM AllowanceIsKept == Spec => []AllowanceKept
<1>1. IInv => AllowanceKept  BY DEF IInv, AllowanceInv
<1> QED  BY <1>1, Invariance, PTL

(* A posting counts each approval once and is done at its limit, a contact *)
(* is shown for an approval on record, and the initial batches of a        *)
(* posting note no more cards than the cap, the overlapping runs and the   *)
(* failures allow (postingsStore.ts, notify.ts).                           *)
THEOREM RepliesAreAccounted == Spec => []RepliesAccounted
<1>1. IInv => RepliesAccounted
  <2> SUFFICES ASSUME IInv PROVE RepliesAccounted
    OBVIOUS
  <2>1. PostingsComplete /\ DisclosureOnRecord  BY DEF IInv, RecordInv
  <2>2. ASSUME NEW p \in Postings
        PROVE  initial[p] <= Larger(Cap, MemberCap) + (Cardinality(Handlers) - 1) + faults
    <3>1. initial[p] + Cardinality(Admitted(p)) <= Room + faults
      BY BatchParts DEF IInv, BatchAt
    <3> QED  BY <3>1, BatchCounts DEF IInv, Room
  <2> QED  BY <2>1, <2>2 DEF RepliesAccounted, InitialBatchCapped
<1> QED  BY <1>1, Invariance, PTL
=============================================================================
