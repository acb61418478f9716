---------------------------- MODULE ServicesProofs ----------------------------
(* What Services promises as a whole, beside what OutreachProofs shows of   *)
(* its outreach: theorems about the scheduler, for any users, hours, runs   *)
(* that overlap, leases that end and failures, and about the inbox, for any *)
(* deliveries, webhooks that overlap, failures and restarts.                *)
EXTENDS OutreachProofs, SequenceTheorems

Served == {"briefing", "dormant", "digest"}
LedgerKeys == Served \X Users \X Nat
SentKeys == D!Kinds \X Users \X Nat

UserRow == [paused : Nat, seen : Nat, nudged : Int, stopped : BOOLEAN]
LedgerRow == [status : {"sending", "delivered", "failed"}, stale : BOOLEAN, says : Nat]

Stages == {"select", "due", "briefed", "claim", "build", "over", "send", "stamp",
           "finish", "fail"}
Visiting == [pc : Stages, kind : {"briefing", "dormant", "digest", "resend", "preview"},
             user : Users, now : Nat, row : UserRow, says : Nat, base : Nat]

(* A claimed delivery is under way, and there is a row of it.              *)
Holds(x) == /\ \/ x.pc \in {"send", "stamp", "finish", "fail"}
               \/ x.pc = "build" /\ x.kind = "briefing"
            /\ x.kind \in Served
KeyOf(x) == <<x.kind, x.user, D!Day(x.now)>>

(* The stages of each kind of message.                                     *)
StageFits(x) ==
    /\ x.pc = "claim" => x.kind \in Served
    /\ x.pc = "fail" => x.kind \in Served
    /\ x.pc \in {"due", "briefed", "stamp"} => x.kind = "dormant"
    /\ x.pc = "build" => x.kind # "dormant"
    /\ x.pc \in {"send", "finish"} => x.kind # "preview"
    /\ x.pc = "over" => x.kind \in {"digest", "preview"}

Sound(x) == \/ x = D!Idle
            \/ x \in Visiting /\ StageFits(x) /\ (Holds(x) => KeyOf(x) \in DOMAIN ledger)

JobsTyped == job \in [Jobs -> Visiting \cup {D!Idle}] /\ \A j \in Jobs : Sound(job[j])

LedgerTyped == \A k \in DOMAIN ledger : k \in LedgerKeys /\ ledger[k] \in LedgerRow

Series == {"briefing", "digest"}
PeopleTyped ==
    /\ clock \in Nat
    /\ user \in [Users -> UserRow] /\ market \in [Users -> Nat]
    /\ previous \in [Users -> Nat] /\ known \in [Series -> [Users -> Nat]]
    /\ timers \subseteq Users

HistoryTyped ==
    /\ IsABag(sent) /\ DOMAIN sent \subseteq SentKeys
    /\ IsABag(excuse) /\ DOMAIN excuse \subseteq SentKeys
    /\ nudged \in [Users -> SUBSET Nat]
    /\ told \in [Series -> [Users -> SUBSET Int]]

Limits == {"from", "until", "jobs", "changes", "faults", "resends", "welcomes"}

SchedulerTyped ==
    JobsTyped /\ LedgerTyped /\ PeopleTyped /\ HistoryTyped /\ due \in [Limits -> Nat]

-----------------------------------------------------------------------------
(* Days, and bags of messages.                                             *)

LEMMA DaysAreNatural ==
    ASSUME NEW t \in Nat
    PROVE  /\ D!Day(t) \in Nat /\ D!Slot(t) \in 0..(Slots - 1)
           /\ t = Slots * D!Day(t) + D!Slot(t)
BY ServicesAssumption DEF D!Day, D!Slot

LEMMA SameDay ==
    ASSUME NEW a \in Nat, NEW b \in Nat, D!Day(a) = D!Day(b)
    PROVE  b - a = D!Slot(b) - D!Slot(a)
BY ServicesAssumption DEF D!Day, D!Slot

LEMMA LaterDay ==
    ASSUME NEW a \in Nat, NEW b \in Nat, a <= b, D!Day(a) # D!Day(b)
    PROVE  b - a >= Slots + D!Slot(b) - D!Slot(a)
<1>1. D!Day(b) >= D!Day(a) + 1
    BY ServicesAssumption DEF D!Day
<1> QED
    BY <1>1, ServicesAssumption DEF D!Day, D!Slot

LEMMA BagNoting ==
    ASSUME NEW b, NEW S, IsABag(b)
    PROVE  /\ IsABag(D!Noted(b, S)) /\ DOMAIN D!Noted(b, S) = DOMAIN b \cup S
           /\ \A k : D!Count(k, D!Noted(b, S)) = D!Count(k, b) + (IF k \in S THEN 1 ELSE 0)
BY DEF D!Noted, D!Count, IsABag, D!BagToSet, D!SetToBag, D!(+)

LEMMA BagCounted ==
    ASSUME NEW b, IsABag(b)
    PROVE  \A k : D!Count(k, b) \in Nat /\ (D!Count(k, b) = 0 <=> k \notin DOMAIN b)
BY DEF D!Count, IsABag, D!BagToSet

-----------------------------------------------------------------------------
(* Visits.                                                                 *)

LEMMA VisitKnown ==
    ASSUME SchedulerTyped, NEW j \in Jobs, job[j].pc # "idle"
    PROVE  /\ job[j] \in Visiting /\ StageFits(job[j])
           /\ Holds(job[j]) => KeyOf(job[j]) \in DOMAIN ledger
           /\ KeyOf(job[j]) = D!Key(j) /\ KeyOf(job[j]) \in SentKeys
           /\ job[j].kind \in Served => KeyOf(job[j]) \in LedgerKeys
<1>1. job[j] # D!Idle
    BY DEF D!Idle
<1>2. job[j] \in Visiting
    BY <1>1 DEF SchedulerTyped, JobsTyped
<1>3. Sound(job[j])
    BY DEF SchedulerTyped, JobsTyped
<1>4. KeyOf(job[j]) = D!Key(j)
    BY DEF KeyOf, D!Key
<1>5. D!Day(job[j].now) \in Nat /\ job[j].kind \in D!Kinds /\ job[j].user \in Users
    BY <1>2, DaysAreNatural DEF Visiting, D!Kinds
<1> QED
    BY <1>1, <1>2, <1>3, <1>4, <1>5 DEF Sound, KeyOf, SentKeys, LedgerKeys

(* A visit goes on at another stage.                                       *)
SameVisit(x, y) ==
    /\ y \in Visiting /\ KeyOf(y) = KeyOf(x) /\ y.kind = x.kind /\ y.user = x.user
    /\ y.now = x.now /\ y.row = x.row /\ y.says = x.says /\ y.base = x.base

LEMMA Going ==
    ASSUME SchedulerTyped, NEW j \in Jobs, job[j].pc # "idle", NEW pc \in Stages, D!Goto(j, pc)
    PROVE  /\ job' = [job EXCEPT ![j] = job'[j]]
           /\ SameVisit(job[j], job'[j]) /\ job'[j].pc = pc
<1> DEFINE y == [job[j] EXCEPT !.pc = pc]
<1>1. job[j] \in Visiting /\ job \in [Jobs -> Visiting \cup {D!Idle}]
    BY VisitKnown DEF SchedulerTyped, JobsTyped
<1>2. /\ y \in Visiting /\ y.pc = pc /\ y.kind = job[j].kind /\ y.user = job[j].user
      /\ y.now = job[j].now /\ y.row = job[j].row /\ y.says = job[j].says /\ y.base = job[j].base
    BY <1>1 DEF Visiting
<1>3. job' = [job EXCEPT ![j] = y]
    BY DEF D!Goto
<1> HIDE DEF y
<1>4. job'[j] = y
    BY <1>1, <1>3
<1> QED
    BY <1>2, <1>3, <1>4 DEF KeyOf, SameVisit

(* The visit of a user ends, or a lifecycle run turns to its dormant       *)
(* message.                                                                *)
Turned(x, y) ==
    \/ y = D!Idle
    \/ /\ y \in Visiting /\ y.pc = "select" /\ y.kind = "dormant"
       /\ y.user = x.user /\ y.now = x.now

LEMMA VisitTurning ==
    ASSUME SchedulerTyped, NEW j \in Jobs, job[j].pc # "idle", D!Proceeds(j) \/ D!Ends(j)
    PROVE  job' = [job EXCEPT ![j] = job'[j]] /\ Turned(job[j], job'[j])
<1>1. job[j] \in Visiting /\ job \in [Jobs -> Visiting \cup {D!Idle}]
    BY VisitKnown DEF SchedulerTyped, JobsTyped
<1>2. CASE job' = [job EXCEPT ![j].kind = "dormant", ![j].pc = "select"]
    <2> DEFINE y == [job[j] EXCEPT !.kind = "dormant", !.pc = "select"]
    <2>1. /\ y \in Visiting /\ y.pc = "select" /\ y.kind = "dormant"
          /\ y.user = job[j].user /\ y.now = job[j].now
        BY <1>1 DEF Visiting, Stages
    <2>2. job' = [job EXCEPT ![j] = y]
        BY <1>1, <1>2
    <2> HIDE DEF y
    <2> QED
        BY <1>1, <2>1, <2>2 DEF Turned
<1>3. CASE D!Ends(j)
    BY <1>1, <1>3 DEF D!Ends, Turned
<1> QED
    BY <1>2, <1>3 DEF D!Proceeds

LEMMA JobsStayTyped ==
    ASSUME SchedulerTyped, NEW j \in Jobs, NEW y, job' = [job EXCEPT ![j] = y],
           DOMAIN ledger \subseteq DOMAIN ledger', y \in Visiting \cup {D!Idle},
           y # D!Idle => StageFits(y) /\ (Holds(y) => KeyOf(y) \in DOMAIN ledger')
    PROVE  JobsTyped'
<1>1. job' \in [Jobs -> Visiting \cup {D!Idle}]
    BY DEF SchedulerTyped, JobsTyped
<1>2. ASSUME NEW i \in Jobs PROVE Sound(job[i])'
    <2>1. CASE i = j
        <3>1. job'[i] = y
            BY <2>1 DEF SchedulerTyped, JobsTyped
        <3> QED
            BY <3>1 DEF Sound
    <2>2. CASE i # j
        <3>1. job'[i] = job[i] /\ Sound(job[i])
            BY <2>2 DEF SchedulerTyped, JobsTyped
        <3> QED
            BY <3>1 DEF Sound
    <2> QED
        BY <2>1, <2>2
<1> QED
    BY <1>1, <1>2 DEF JobsTyped

-----------------------------------------------------------------------------
(* Types.                                                                  *)

LEMMA Spending ==
    ASSUME SchedulerTyped, NEW what \in Limits, D!Spend(what)
    PROVE  due' \in [Limits -> Nat]
BY DEF SchedulerTyped, D!Spend

LEMMA Beginning ==
    ASSUME SchedulerTyped, NEW j \in Jobs, NEW u \in Users, job[j].pc = "idle",
           NEW kind \in {"briefing", "digest", "resend", "preview"}, D!Begin(j, kind, u),
           UNCHANGED <<clock, user, market, ledger, previous, known, timers, sent, excuse,
                       nudged, told>>,
           due' \in [Limits -> Nat]
    PROVE  /\ SchedulerTyped' /\ job' = [job EXCEPT ![j] = job'[j]]
           /\ job'[j].pc = "select" /\ job'[j].kind = kind /\ job'[j].user = u
           /\ job'[j].now = clock
<1> DEFINE y == [pc |-> "select", kind |-> kind, user |-> u, now |-> clock,
                 row |-> user[u], says |-> 0, base |-> 0]
<1>1. job' = [job EXCEPT ![j] = y]
    BY DEF D!Begin
<1>2. /\ y \in Visiting /\ y.pc = "select" /\ y.kind = kind /\ y.user = u /\ y.now = clock
    BY DEF SchedulerTyped, PeopleTyped, Visiting, Stages
<1> HIDE DEF y
<1>3. job'[j] = y
    BY <1>1 DEF SchedulerTyped, JobsTyped
<1>4. StageFits(y) /\ ~Holds(y)
    BY <1>2 DEF StageFits, Holds
<1>5. JobsTyped'
    BY <1>1, <1>2, <1>4, JobsStayTyped
<1> QED
    BY <1>1, <1>2, <1>3, <1>5 DEF SchedulerTyped, LedgerTyped, PeopleTyped, HistoryTyped

(* A tick begins a visit.                                                  *)
Ticks(j, u) == D!LifecycleTick(j, u) \/ D!DigestTick(j, u) \/ D!ResendMorningBriefingToAll(j, u)

LEMMA TicksBegin ==
    ASSUME SchedulerTyped, NEW j \in Jobs, NEW u \in Users, Ticks(j, u)
    PROVE  /\ UNCHANGED <<clock, user, market, ledger, previous, known, timers, sent, excuse,
                          nudged, told>>
           /\ job[j].pc = "idle" /\ SchedulerTyped' /\ job' = [job EXCEPT ![j] = job'[j]]
           /\ job'[j].pc = "select" /\ job'[j].user = u /\ job'[j].now = clock
           /\ job'[j].kind \in {"briefing", "digest", "resend", "preview"}
<1>1. /\ UNCHANGED <<clock, user, market, ledger, previous, known, timers, sent, excuse,
                     nudged, told>>
      /\ job[j].pc = "idle"
    BY DEF Ticks, D!LifecycleTick, D!DigestTick, D!ResendMorningBriefingToAll, D!people, D!store,
       D!history
<1>2. D!Spend("jobs") \/ D!Spend("resends")
    BY DEF Ticks, D!LifecycleTick, D!DigestTick, D!ResendMorningBriefingToAll
<1>3. due' \in [Limits -> Nat]
    BY <1>2, Spending DEF Limits
<1>4. PICK kind \in {"briefing", "digest", "resend", "preview"} : D!Begin(j, kind, u)
    BY DEF Ticks, D!LifecycleTick, D!DigestTick, D!ResendMorningBriefingToAll
<1> QED
    BY <1>1, <1>3, <1>4, Beginning

(* The stages that only read.                                              *)
Reads(j) ==
    \/ D!SelectBriefing(j) \/ D!CheckDormant(j) \/ D!CheckBriefed(j) \/ D!SelectDigest(j)
    \/ D!Over(j)

LEMMA ReadsMove ==
    ASSUME SchedulerTyped, NEW j \in Jobs, Reads(j)
    PROVE  /\ UNCHANGED <<clock, user, market, ledger, previous, known, timers, sent, excuse,
                          nudged, told, due>>
           /\ job[j].pc \in {"select", "due", "briefed", "over"}
           /\ job' = [job EXCEPT ![j] = job'[j]]
           /\ \/ Turned(job[j], job'[j])
              \/ /\ SameVisit(job[j], job'[j]) /\ StageFits(job'[j])
                 /\ \/ /\ job[j].kind = "briefing" /\ job'[j].pc = "claim"
                       /\ D!DueBriefing(j)
                    \/ job[j].kind \in {"resend", "preview", "digest"} /\ job'[j].pc = "build"
                    \/ /\ job[j].pc = "due" /\ job'[j].pc = "briefed" /\ D!DueDormant(j)
                    \/ /\ job[j].pc = "briefed" /\ job'[j].pc = "claim"
                       /\ ~D!Briefed(job[j].user, D!Day(job[j].now))
<1>1. /\ UNCHANGED <<clock, user, market, ledger, previous, known, timers, sent, excuse,
                     nudged, told, due>>
      /\ job[j].pc \in {"select", "due", "briefed", "over"}
    BY DEF Reads, D!SelectBriefing, D!CheckDormant, D!CheckBriefed, D!SelectDigest, D!Over,
       D!people, D!store, D!history
<1>2. job[j].pc # "idle"
    BY <1>1
<1>3. job[j] \in Visiting /\ StageFits(job[j])
    BY <1>2, VisitKnown
<1>4. CASE D!Proceeds(j) \/ D!Ends(j)
    BY <1>1, <1>2, <1>4, VisitTurning
<1>5. ASSUME NEW pc \in Stages, D!Goto(j, pc),
             \/ job[j].kind = "briefing" /\ pc = "claim" /\ D!DueBriefing(j)
             \/ job[j].kind \in {"resend", "preview", "digest"} /\ pc = "build"
             \/ job[j].pc = "due" /\ pc = "briefed" /\ D!DueDormant(j)
             \/ /\ job[j].pc = "briefed" /\ pc = "claim"
                /\ ~D!Briefed(job[j].user, D!Day(job[j].now))
      PROVE  /\ job' = [job EXCEPT ![j] = job'[j]]
             /\ SameVisit(job[j], job'[j]) /\ StageFits(job'[j])
             /\ \/ /\ job[j].kind = "briefing" /\ job'[j].pc = "claim"
                   /\ D!DueBriefing(j)
                \/ job[j].kind \in {"resend", "preview", "digest"} /\ job'[j].pc = "build"
                \/ /\ job[j].pc = "due" /\ job'[j].pc = "briefed" /\ D!DueDormant(j)
                \/ /\ job[j].pc = "briefed" /\ job'[j].pc = "claim"
                   /\ ~D!Briefed(job[j].user, D!Day(job[j].now))
    <2>1. /\ job' = [job EXCEPT ![j] = job'[j]]
          /\ SameVisit(job[j], job'[j]) /\ job'[j].pc = pc
        BY <1>2, <1>5, Going
    <2>2. StageFits(job'[j])
        BY <1>3, <1>5, <2>1 DEF StageFits, Served, SameVisit
    <2> QED
        BY <1>5, <2>1, <2>2
<1>6. CASE D!SelectBriefing(j)
    BY <1>1, <1>4, <1>5, <1>6 DEF D!SelectBriefing, Stages
<1>7. CASE D!CheckDormant(j)
    BY <1>1, <1>4, <1>5, <1>7 DEF D!CheckDormant, Stages
<1>8. CASE D!CheckBriefed(j)
    BY <1>1, <1>4, <1>5, <1>8 DEF D!CheckBriefed, Stages
<1>9. CASE D!SelectDigest(j)
    BY <1>1, <1>4, <1>5, <1>9 DEF D!SelectDigest, Stages
<1>10. CASE D!Over(j)
    BY <1>4, <1>10 DEF D!Over
<1> QED
    BY <1>6, <1>7, <1>8, <1>9, <1>10 DEF Reads

LEMMA ReadsTyped ==
    ASSUME SchedulerTyped, NEW j \in Jobs, Reads(j)
    PROVE  SchedulerTyped'
<1>1. /\ UNCHANGED <<clock, user, market, ledger, previous, known, timers, sent, excuse,
                     nudged, told, due>>
      /\ job[j].pc \in {"select", "due", "briefed", "over"}
      /\ job' = [job EXCEPT ![j] = job'[j]]
    BY ReadsMove
<1> DEFINE y == job'[j]
<1>2. y \in Visiting \cup {D!Idle} /\ (y # D!Idle => StageFits(y) /\ ~Holds(y))
    BY ReadsMove DEF Turned, StageFits, Holds, SameVisit, Served
<1> HIDE DEF y
<1>3. JobsTyped'
    BY <1>1, <1>2, JobsStayTyped DEF y
<1> QED
    BY <1>1, <1>3 DEF SchedulerTyped, LedgerTyped, PeopleTyped, HistoryTyped

(* The rows of the dormant messages are read.                              *)
LEMMA DormantRead ==
    ASSUME SchedulerTyped, NEW j \in Jobs, D!SelectDormant(j)
    PROVE  /\ UNCHANGED <<clock, user, market, ledger, previous, known, timers, sent, excuse,
                          nudged, told, due>>
           /\ SchedulerTyped' /\ job' = [job EXCEPT ![j] = job'[j]]
           /\ job[j].pc = "select" /\ job[j].kind = "dormant"
           /\ job'[j].pc = "due" /\ job'[j].kind = "dormant"
           /\ job'[j].user = job[j].user /\ job'[j].now = job[j].now
           /\ job'[j].row = user[job[j].user]
<1> DEFINE y == [job[j] EXCEPT !.row = user[job[j].user], !.pc = "due"]
<1>1. /\ UNCHANGED <<clock, user, market, ledger, previous, known, timers, sent, excuse,
                     nudged, told, due>>
      /\ job[j].pc = "select" /\ job[j].kind = "dormant"
    BY DEF D!SelectDormant, D!people, D!store, D!history
<1>2. job[j] \in Visiting /\ user[job[j].user] \in UserRow
    BY <1>1, VisitKnown DEF SchedulerTyped, PeopleTyped, Visiting
<1>3. /\ y \in Visiting /\ y.pc = "due" /\ y.kind = "dormant" /\ y.user = job[j].user
      /\ y.now = job[j].now /\ y.row = user[job[j].user]
    BY <1>1, <1>2 DEF Visiting, Stages
<1>4. job' = [job EXCEPT ![j] = y]
    BY <1>2 DEF D!SelectDormant, SchedulerTyped, JobsTyped
<1> HIDE DEF y
<1>5. job'[j] = y
    BY <1>4 DEF SchedulerTyped, JobsTyped
<1>6. StageFits(y) /\ ~Holds(y)
    BY <1>3 DEF StageFits, Holds
<1>7. JobsTyped'
    BY <1>1, <1>3, <1>4, <1>6, JobsStayTyped
<1> QED
    BY <1>1, <1>3, <1>4, <1>5, <1>7 DEF SchedulerTyped, LedgerTyped, PeopleTyped, HistoryTyped

(* Rows of the ledger are added and changed, never removed.                *)
LEMMA Putting ==
    ASSUME SchedulerTyped, NEW k \in LedgerKeys, NEW row \in LedgerRow,
           ledger' = D!Put(ledger, k, row)
    PROVE  /\ DOMAIN ledger' = DOMAIN ledger \cup {k} /\ ledger'[k] = row
           /\ \A x \in DOMAIN ledger : x # k => ledger'[x] = ledger[x]
           /\ LedgerTyped'
BY DEF SchedulerTyped, LedgerTyped, D!Put

Free(j) == D!Claimable(D!Key(j))

LEMMA Claiming ==
    ASSUME SchedulerTyped, NEW j \in Jobs, D!Claim(j)
    PROVE  /\ UNCHANGED <<clock, user, market, previous, known, timers, sent, excuse, nudged,
                          told, due>>
           /\ SchedulerTyped' /\ job[j].pc = "claim" /\ job' = [job EXCEPT ![j] = job'[j]]
           /\ \/ /\ ~Free(j) /\ UNCHANGED ledger /\ Turned(job[j], job'[j])
              \/ /\ Free(j) /\ SameVisit(job[j], job'[j])
                 /\ job'[j].pc = D!AfterClaim(j) /\ Holds(job'[j])
                 /\ DOMAIN ledger' = DOMAIN ledger \cup {KeyOf(job[j])}
                 /\ ledger'[KeyOf(job[j])].status = "sending"
                 /\ ~ledger'[KeyOf(job[j])].stale
                 /\ \A x \in DOMAIN ledger : x # KeyOf(job[j]) => ledger'[x] = ledger[x]
<1>1. /\ UNCHANGED <<clock, user, market, previous, known, timers, sent, excuse, nudged,
                     told, due>>
      /\ job[j].pc = "claim"
    BY DEF D!Claim, D!people, D!history
<1>2. /\ job[j] \in Visiting /\ job[j].kind \in Served /\ KeyOf(job[j]) = D!Key(j)
      /\ KeyOf(job[j]) \in LedgerKeys
    BY <1>1, VisitKnown DEF StageFits
<1>3. CASE Free(j)
    <2> DEFINE row == [status |-> "sending", stale |-> FALSE, says |-> job[j].says]
    <2>1. ledger' = D!Put(ledger, KeyOf(job[j]), row) /\ D!Goto(j, D!AfterClaim(j))
        BY <1>2, <1>3 DEF D!Claim, Free
    <2>2. row \in LedgerRow /\ row.status = "sending" /\ ~row.stale
        BY <1>2 DEF LedgerRow, Visiting
    <2> HIDE DEF row
    <2>3. /\ DOMAIN ledger' = DOMAIN ledger \cup {KeyOf(job[j])} /\ ledger'[KeyOf(job[j])] = row
          /\ \A x \in DOMAIN ledger : x # KeyOf(job[j]) => ledger'[x] = ledger[x]
          /\ LedgerTyped'
        BY <1>2, <2>1, <2>2, Putting
    <2>4. D!AfterClaim(j) \in Stages
        BY DEF D!AfterClaim, Stages
    <2>5. /\ job' = [job EXCEPT ![j] = job'[j]]
          /\ SameVisit(job[j], job'[j]) /\ job'[j].pc = D!AfterClaim(j)
        BY <1>1, <2>1, <2>4, Going
    <2>6. Holds(job'[j]) /\ StageFits(job'[j])
        BY <1>2, <2>5 DEF Holds, StageFits, SameVisit, D!AfterClaim, Served
    <2>7. JobsTyped'
        <3> DEFINE y == job'[j]
        <3>1. y \in Visiting \cup {D!Idle} /\ StageFits(y) /\ KeyOf(y) \in DOMAIN ledger'
            BY <2>3, <2>5, <2>6 DEF SameVisit
        <3> HIDE DEF y
        <3> QED
            BY <2>3, <2>5, <3>1, JobsStayTyped DEF y
    <2>8. SchedulerTyped'
        BY <1>1, <2>3, <2>7 DEF SchedulerTyped, PeopleTyped, HistoryTyped
    <2> QED
        BY <1>1, <1>3, <2>2, <2>3, <2>5, <2>6, <2>8
<1>4. CASE ~Free(j)
    <2>1. D!Proceeds(j) /\ UNCHANGED ledger
        BY <1>4 DEF D!Claim, Free
    <2>2. job' = [job EXCEPT ![j] = job'[j]] /\ Turned(job[j], job'[j])
        BY <1>1, <2>1, VisitTurning
    <2> DEFINE y == job'[j]
    <2>3. y \in Visiting \cup {D!Idle} /\ (y # D!Idle => StageFits(y) /\ ~Holds(y))
        BY <2>2 DEF Turned, StageFits, Holds
    <2> HIDE DEF y
    <2>4. JobsTyped'
        BY <2>1, <2>2, <2>3, JobsStayTyped DEF y
    <2>5. SchedulerTyped'
        BY <1>1, <2>1, <2>4 DEF SchedulerTyped, LedgerTyped, PeopleTyped, HistoryTyped
    <2> QED
        BY <1>1, <1>4, <2>1, <2>2, <2>5
<1> QED
    BY <1>3, <1>4

(* A message is built of what the market is now.                           *)
LEMMA Building ==
    ASSUME SchedulerTyped, NEW j \in Jobs, D!Build(j)
    PROVE  /\ UNCHANGED <<clock, user, market, ledger, previous, timers, sent, nudged, told,
                          due>>
           /\ SchedulerTyped' /\ job[j].pc = "build" /\ job' = [job EXCEPT ![j] = job'[j]]
           /\ job'[j] \in Visiting /\ KeyOf(job'[j]) = KeyOf(job[j])
           /\ job'[j].kind = job[j].kind /\ job'[j].user = job[j].user
           /\ job'[j].now = job[j].now /\ job'[j].pc = D!AfterBuild(j)
           /\ job'[j].says = market[job[j].user]
           /\ job'[j].base = known[D!Series(job[j].kind)][job[j].user]
           /\ known' = [known EXCEPT ![D!Series(job[j].kind)][job[j].user] = market[job[j].user]]
           /\ excuse' = IF job[j].kind = "preview" THEN D!Noted(excuse, {KeyOf(job[j])})
                        ELSE excuse
<1> DEFINE u == job[j].user
           s == D!Series(job[j].kind)
           y == [job[j] EXCEPT !.says = market[u], !.base = known[s][u], !.pc = D!AfterBuild(j)]
<1>1. /\ UNCHANGED <<clock, user, market, ledger, previous, timers, sent, nudged, told, due>>
      /\ job[j].pc = "build"
    BY DEF D!Build, D!people
<1>2. /\ job[j] \in Visiting /\ StageFits(job[j]) /\ KeyOf(job[j]) = D!Key(j)
      /\ KeyOf(job[j]) \in SentKeys
      /\ Holds(job[j]) => KeyOf(job[j]) \in DOMAIN ledger
    BY <1>1, VisitKnown
<1>3. u \in Users /\ s \in Series /\ market[u] \in Nat /\ known[s][u] \in Nat
    BY <1>2 DEF Visiting, Series, D!Series, SchedulerTyped, PeopleTyped
<1>4. D!AfterBuild(j) \in {"send", "claim", "over"}
    BY DEF D!AfterBuild
<1>5. /\ y \in Visiting /\ y.kind = job[j].kind /\ y.user = u /\ y.now = job[j].now
      /\ y.pc = D!AfterBuild(j) /\ y.says = market[u] /\ y.base = known[s][u]
    BY <1>2, <1>3, <1>4 DEF Visiting, Stages
<1>6. job' = [job EXCEPT ![j] = y]
    BY <1>2 DEF D!Build, SchedulerTyped, JobsTyped
<1>7. known' = [known EXCEPT ![s][u] = market[u]]
    BY DEF D!Build
<1>8. known' \in [Series -> [Users -> Nat]]
    BY <1>3, <1>7 DEF SchedulerTyped, PeopleTyped
<1>9. excuse' = IF job[j].kind = "preview" THEN D!Noted(excuse, {KeyOf(job[j])}) ELSE excuse
    BY <1>2 DEF D!Build
<1>10. IsABag(excuse') /\ DOMAIN excuse' \subseteq SentKeys
    <2>1. IsABag(excuse) /\ DOMAIN excuse \subseteq SentKeys
        BY DEF SchedulerTyped, HistoryTyped
    <2>2. /\ IsABag(D!Noted(excuse, {KeyOf(job[j])}))
          /\ DOMAIN D!Noted(excuse, {KeyOf(job[j])}) = DOMAIN excuse \cup {KeyOf(job[j])}
        BY <2>1, BagNoting
    <2> QED
        BY <1>2, <1>9, <2>1, <2>2
<1>11. StageFits(y) /\ (Holds(y) => KeyOf(y) \in DOMAIN ledger) /\ KeyOf(y) = KeyOf(job[j])
    <2>1. KeyOf(y) = KeyOf(job[j])
        BY <1>5 DEF KeyOf
    <2>2. /\ job[j].kind \in {"briefing", "resend"} => y.pc = "send"
          /\ job[j].kind = "digest" => y.pc \in {"claim", "over"}
          /\ job[j].kind = "preview" => y.pc = "over"
          /\ job[j].kind \in {"briefing", "resend", "digest", "preview"}
        BY <1>1, <1>2, <1>5 DEF D!AfterBuild, StageFits, Visiting
    <2>3. StageFits(y)
        BY <1>5, <2>2 DEF StageFits, Served
    <2>4. Holds(y) => Holds(job[j])
        BY <1>1, <1>5, <2>2 DEF Holds, Served
    <2> QED
        BY <1>2, <2>1, <2>3, <2>4
<1> HIDE DEF y
<1>12. job'[j] = y
    BY <1>6 DEF SchedulerTyped, JobsTyped
<1>13. JobsTyped'
    BY <1>1, <1>5, <1>6, <1>11, JobsStayTyped
<1>14. SchedulerTyped'
    BY <1>1, <1>8, <1>10, <1>13 DEF SchedulerTyped, LedgerTyped, PeopleTyped, HistoryTyped
<1> QED
    BY <1>1, <1>5, <1>6, <1>7, <1>9, <1>11, <1>12, <1>14

(* A message reaches its user.                                             *)
Told(j) == D!Series(job[j].kind)

LEMMA Reaching ==
    ASSUME SchedulerTyped, NEW j \in Jobs, job[j].pc = "send", D!Reaches(j)
    PROVE  /\ IsABag(sent') /\ DOMAIN sent' = DOMAIN sent \cup {KeyOf(job[j])}
           /\ DOMAIN sent' \subseteq SentKeys
           /\ nudged' \in [Users -> SUBSET Nat]
           /\ told' \in [Series -> [Users -> SUBSET Int]]
           /\ \A k : D!Count(k, sent') =
                         D!Count(k, sent) + (IF k = KeyOf(job[j]) THEN 1 ELSE 0)
           /\ IF job[j].kind = "dormant"
              THEN /\ nudged' = [nudged EXCEPT ![job[j].user] = @ \cup {job[j].now}]
                   /\ UNCHANGED told
              ELSE /\ told' = [told EXCEPT ![Told(j)][job[j].user] =
                                               @ \cup (job[j].base + 1)..job[j].says]
                   /\ UNCHANGED nudged
<1>1. /\ job[j] \in Visiting /\ KeyOf(job[j]) = D!Key(j) /\ KeyOf(job[j]) \in SentKeys
    BY VisitKnown
<1>2. sent' = D!Noted(sent, {KeyOf(job[j])})
    BY <1>1 DEF D!Reaches
<1>3. /\ IsABag(sent') /\ DOMAIN sent' = DOMAIN sent \cup {KeyOf(job[j])}
      /\ \A k : D!Count(k, sent') = D!Count(k, sent) + (IF k = KeyOf(job[j]) THEN 1 ELSE 0)
    <2>1. IsABag(sent)
        BY DEF SchedulerTyped, HistoryTyped
    <2>2. /\ IsABag(sent') /\ DOMAIN sent' = DOMAIN sent \cup {KeyOf(job[j])}
          /\ \A k : D!Count(k, sent') =
                        D!Count(k, sent) + (IF k \in {KeyOf(job[j])} THEN 1 ELSE 0)
        BY <1>2, <2>1, BagNoting
    <2> QED
        BY <2>2
<1>4. DOMAIN sent' \subseteq SentKeys
    BY <1>1, <1>3 DEF SchedulerTyped, HistoryTyped
<1>5. IF job[j].kind = "dormant"
      THEN /\ nudged' = [nudged EXCEPT ![job[j].user] = @ \cup {job[j].now}]
           /\ UNCHANGED told
      ELSE /\ told' = [told EXCEPT ![Told(j)][job[j].user] =
                                       @ \cup (job[j].base + 1)..job[j].says]
           /\ UNCHANGED nudged
    BY DEF D!Reaches, Told
<1>6. nudged' \in [Users -> SUBSET Nat]
    BY <1>1, <1>5 DEF SchedulerTyped, HistoryTyped, Visiting
<1>7. told' \in [Series -> [Users -> SUBSET Int]]
    <2>1. Told(j) \in Series /\ (job[j].base + 1)..job[j].says \subseteq Int
        BY <1>1 DEF Told, Series, D!Series, Visiting
    <2>2. told \in [Series -> [Users -> SUBSET Int]]
        BY DEF SchedulerTyped, HistoryTyped
    <2> QED
        BY <1>5, <2>1, <2>2
<1> QED
    BY <1>3, <1>4, <1>5, <1>6, <1>7

LEMMA Sending ==
    ASSUME SchedulerTyped, NEW j \in Jobs, D!Send(j)
    PROVE  /\ UNCHANGED <<clock, user, market, ledger, previous, known, timers, excuse, due>>
           /\ D!Reaches(j) /\ SchedulerTyped' /\ job[j].pc = "send"
           /\ job' = [job EXCEPT ![j] = job'[j]] /\ SameVisit(job[j], job'[j])
           /\ job'[j].pc = IF job[j].kind = "dormant" THEN "stamp" ELSE "finish"
<1>1. /\ UNCHANGED <<clock, user, market, ledger, previous, known, timers, excuse, due>>
      /\ job[j].pc = "send" /\ D!Reaches(j)
    BY DEF D!Send, D!people, D!store
<1>2. /\ job[j] \in Visiting /\ StageFits(job[j])
      /\ Holds(job[j]) => KeyOf(job[j]) \in DOMAIN ledger
    BY <1>1, VisitKnown
<1> DEFINE pc == IF job[j].kind = "dormant" THEN "stamp" ELSE "finish"
<1>3. pc \in Stages /\ D!Goto(j, pc)
    BY DEF D!Send, Stages
<1> HIDE DEF pc
<1>4. /\ job' = [job EXCEPT ![j] = job'[j]] /\ SameVisit(job[j], job'[j])
      /\ job'[j].pc = pc
    BY <1>1, <1>3, Going
<1> DEFINE y == job'[j]
<1>5. /\ y \in Visiting /\ StageFits(y)
      /\ Holds(y) => KeyOf(y) \in DOMAIN ledger'
    BY <1>1, <1>2, <1>4 DEF SameVisit, StageFits, Holds, pc
<1> HIDE DEF y
<1>6. JobsTyped'
    BY <1>1, <1>4, <1>5, JobsStayTyped DEF y
<1>7. HistoryTyped'
    BY <1>1, Reaching DEF HistoryTyped, SchedulerTyped
<1>8. SchedulerTyped'
    BY <1>1, <1>6, <1>7 DEF SchedulerTyped, LedgerTyped, PeopleTyped
<1> QED
    BY <1>1, <1>4, <1>8 DEF pc

LEMMA Stamping ==
    ASSUME SchedulerTyped, NEW j \in Jobs, D!Stamp(j)
    PROVE  /\ UNCHANGED <<clock, market, ledger, previous, known, timers, sent, excuse, nudged,
                          told, due>>
           /\ SchedulerTyped' /\ job[j].pc = "stamp" /\ job[j].kind = "dormant"
           /\ job' = [job EXCEPT ![j] = job'[j]] /\ SameVisit(job[j], job'[j])
           /\ job'[j].pc = "finish"
           /\ user' = [user EXCEPT ![job[j].user].nudged = job[j].now]
<1>1. /\ UNCHANGED <<clock, market, ledger, previous, known, timers, sent, excuse, nudged,
                     told, due>>
      /\ job[j].pc = "stamp" /\ D!Goto(j, "finish")
      /\ user' = [user EXCEPT ![job[j].user].nudged = job[j].now]
    BY DEF D!Stamp, D!store, D!history
<1>2. /\ job[j] \in Visiting /\ StageFits(job[j])
      /\ Holds(job[j]) => KeyOf(job[j]) \in DOMAIN ledger
    BY <1>1, VisitKnown
<1>3. /\ job' = [job EXCEPT ![j] = job'[j]] /\ SameVisit(job[j], job'[j])
      /\ job'[j].pc = "finish"
    BY <1>1, Going DEF Stages
<1> DEFINE y == job'[j]
<1>4. /\ y \in Visiting /\ StageFits(y) /\ job[j].kind = "dormant"
      /\ Holds(y) => KeyOf(y) \in DOMAIN ledger'
    BY <1>1, <1>2, <1>3 DEF SameVisit, StageFits, Holds
<1> HIDE DEF y
<1>5. JobsTyped'
    BY <1>1, <1>3, <1>4, JobsStayTyped DEF y
<1>6. user' \in [Users -> UserRow]
    <2>1. user \in [Users -> UserRow] /\ job[j].user \in Users /\ job[j].now \in Int
        BY <1>2 DEF SchedulerTyped, PeopleTyped, Visiting
    <2>2. [user[job[j].user] EXCEPT !.nudged = job[j].now] \in UserRow
        BY <2>1 DEF UserRow
    <2>3. user' = [user EXCEPT ![job[j].user] = [user[job[j].user] EXCEPT !.nudged = job[j].now]]
        BY <1>1, <2>1
    <2> QED
        BY <2>1, <2>2, <2>3
<1>7. SchedulerTyped'
    BY <1>1, <1>5, <1>6 DEF SchedulerTyped, LedgerTyped, PeopleTyped, HistoryTyped
<1> QED
    BY <1>1, <1>3, <1>4, <1>7

(* A visit finishes, well or not, and says so in the ledger.               *)
Morning(j) == <<"briefing", job[j].user, D!Day(job[j].now)>>

Settles(j, status) ==
    /\ job[j].pc = (IF status = "delivered" THEN "finish" ELSE "fail")
    /\ \/ /\ job[j].kind \in Served
          /\ ledger' = [ledger EXCEPT ![KeyOf(job[j])].status = status]
       \/ /\ job[j].kind = "digest" /\ ledger[KeyOf(job[j])].status # "sending"
          /\ UNCHANGED ledger
       \/ /\ job[j].kind = "resend" /\ status = "delivered"
          /\ ledger' = D!Put(ledger, Morning(j),
                             [status |-> status, stale |-> FALSE, says |-> 0])

LEMMA Settling ==
    ASSUME SchedulerTyped, NEW j \in Jobs, NEW status \in {"delivered", "failed"},
           Settles(j, status)
    PROVE  /\ LedgerTyped' /\ DOMAIN ledger \subseteq DOMAIN ledger'
           /\ \A k \in DOMAIN ledger' :
                 \/ k \in DOMAIN ledger /\ ledger'[k] = ledger[k]
                 \/ k = KeyOf(job[j]) /\ ledger'[k].status = status
                 \/ k = Morning(j) /\ ledger'[k].status = status /\ status = "delivered"
           /\ \A k \in DOMAIN ledger' :
                 ledger'[k].stale => k \in DOMAIN ledger /\ ledger[k].stale
           /\ \/ ledger'[KeyOf(job[j])].status # "sending"
              \/ job[j].kind = "resend"
<1>1. job[j].pc # "idle"
    BY DEF Settles
<1>2. /\ job[j] \in Visiting /\ StageFits(job[j])
      /\ Holds(job[j]) => KeyOf(job[j]) \in DOMAIN ledger
    BY <1>1, VisitKnown
<1>3. CASE /\ job[j].kind \in Served
           /\ ledger' = [ledger EXCEPT ![KeyOf(job[j])].status = status]
    <2> DEFINE k == KeyOf(job[j])
    <2>1. k \in DOMAIN ledger
        BY <1>2, <1>3 DEF Settles, Holds
    <2>2. ledger[k] \in LedgerRow
        BY <2>1 DEF SchedulerTyped, LedgerTyped
    <2>3. /\ [ledger[k] EXCEPT !.status = status] \in LedgerRow
          /\ [ledger[k] EXCEPT !.status = status].status = status
          /\ [ledger[k] EXCEPT !.status = status].stale = ledger[k].stale
        BY <2>2 DEF LedgerRow
    <2> HIDE DEF k
    <2>4. /\ DOMAIN ledger' = DOMAIN ledger
          /\ ledger'[k] = [ledger[k] EXCEPT !.status = status]
          /\ \A x \in DOMAIN ledger : x # k => ledger'[x] = ledger[x]
        BY <1>3, <2>1 DEF k
    <2>5. LedgerTyped'
        BY <2>3, <2>4 DEF SchedulerTyped, LedgerTyped
    <2> QED
        BY <2>1, <2>3, <2>4, <2>5 DEF k
<1>4. CASE /\ job[j].kind = "digest" /\ ledger[KeyOf(job[j])].status # "sending"
           /\ UNCHANGED ledger
    BY <1>4 DEF SchedulerTyped, LedgerTyped
<1>5. CASE /\ job[j].kind = "resend" /\ status = "delivered"
           /\ ledger' = D!Put(ledger, Morning(j),
                              [status |-> status, stale |-> FALSE, says |-> 0])
    <2> DEFINE row == [status |-> status, stale |-> FALSE, says |-> 0]
    <2>1. row \in LedgerRow /\ row.status = status /\ ~row.stale
        BY DEF LedgerRow
    <2>2. Morning(j) \in LedgerKeys
        BY <1>2, DaysAreNatural DEF Morning, LedgerKeys, Served, Visiting
    <2> HIDE DEF row
    <2>3. ledger' = D!Put(ledger, Morning(j), row)
        BY <1>5 DEF row
    <2> QED
        BY <1>5, <2>1, <2>2, <2>3, Putting
<1> QED
    BY <1>3, <1>4, <1>5 DEF Settles

LEMMA Finishing ==
    ASSUME SchedulerTyped, NEW j \in Jobs, D!Finishes(j)
    PROVE  /\ UNCHANGED <<clock, user, market, known, timers, sent, excuse, nudged, told, due>>
           /\ SchedulerTyped' /\ job' = [job EXCEPT ![j] = job'[j]] /\ Turned(job[j], job'[j])
           /\ \E status \in {"delivered", "failed"} : Settles(j, status)
<1>1. UNCHANGED <<clock, user, market, known, timers, sent, excuse, nudged, told, due>>
    BY DEF D!Finishes, D!people, D!history
<1>2. PICK status \in {"delivered", "failed"} :
          /\ job[j].pc = (IF status = "delivered" THEN "finish" ELSE "fail")
          /\ D!Finish(j, status)
    BY DEF D!Finishes
<1>3. /\ job[j].pc # "idle" /\ job[j] \in Visiting /\ StageFits(job[j])
      /\ KeyOf(job[j]) = D!Key(j) /\ (Holds(job[j]) => KeyOf(job[j]) \in DOMAIN ledger)
    BY <1>2, VisitKnown
<1>4. /\ job[j].kind \in {"digest", "resend", "briefing", "dormant"}
      /\ job[j].kind = "resend" => status = "delivered"
      /\ job[j].kind # "resend" => job[j].kind \in Served /\ KeyOf(job[j]) \in DOMAIN ledger
    BY <1>2, <1>3 DEF StageFits, Served, Visiting, Holds
<1>5. Settles(j, status)
    <2>1. CASE job[j].kind = "digest"
        BY <1>2, <1>3, <1>4, <2>1 DEF D!Finish, Settles
    <2>2. CASE job[j].kind = "resend"
        BY <1>2, <1>3, <1>4, <2>2 DEF D!Finish, Settles, Morning
    <2>3. CASE job[j].kind \in {"briefing", "dormant"}
        BY <1>2, <1>3, <1>4, <2>3 DEF D!Finish, Settles
    <2> QED
        BY <1>4, <2>1, <2>2, <2>3
<1>6. previous' \in [Users -> Nat]
    <2>1. \/ UNCHANGED previous
          \/ /\ job[j].kind = "digest"
             /\ previous' = [previous EXCEPT ![job[j].user] = ledger[KeyOf(job[j])].says]
        BY <1>2, <1>3 DEF D!Finish
    <2>2. job[j].kind = "digest" => ledger[KeyOf(job[j])].says \in Nat
        BY <1>4 DEF SchedulerTyped, LedgerTyped, LedgerRow
    <2>3. previous \in [Users -> Nat]
        BY DEF SchedulerTyped, PeopleTyped
    <2> QED
        BY <2>1, <2>2, <2>3
<1>7. job' = [job EXCEPT ![j] = job'[j]] /\ Turned(job[j], job'[j])
    BY <1>3, VisitTurning DEF D!Finishes
<1>8. LedgerTyped' /\ DOMAIN ledger \subseteq DOMAIN ledger'
    BY <1>5, Settling
<1> DEFINE y == job'[j]
<1>9. y \in Visiting \cup {D!Idle} /\ (y # D!Idle => StageFits(y) /\ ~Holds(y))
    BY <1>7 DEF Turned, StageFits, Holds
<1> HIDE DEF y
<1>10. JobsTyped'
    BY <1>7, <1>8, <1>9, JobsStayTyped DEF y
<1>11. SchedulerTyped'
    BY <1>1, <1>6, <1>8, <1>10 DEF SchedulerTyped, PeopleTyped, HistoryTyped
<1> QED
    BY <1>1, <1>5, <1>7, <1>11

(* A step throws, and its message may have reached the user.               *)
LEMMA Throwing ==
    ASSUME SchedulerTyped, NEW j \in Jobs, D!Throws(j)
    PROVE  /\ UNCHANGED <<clock, user, market, ledger, previous, known, timers>>
           /\ SchedulerTyped' /\ job[j].pc # "idle"
           /\ DOMAIN excuse' = DOMAIN excuse \cup {KeyOf(job[j])}
           /\ \A k : D!Count(k, excuse') =
                         D!Count(k, excuse) + (IF k = KeyOf(job[j]) THEN 1 ELSE 0)
           /\ \/ job[j].pc = "send" /\ D!Reaches(j)
              \/ UNCHANGED <<sent, nudged, told>>
           /\ job' = [job EXCEPT ![j] = job'[j]]
           /\ IF D!Caught(j) THEN SameVisit(job[j], job'[j]) /\ job'[j].pc = "fail"
              ELSE job'[j] = D!Idle
<1>1. /\ UNCHANGED <<clock, user, market, ledger, previous, known, timers>>
      /\ job[j].pc # "idle" /\ D!Spend("faults")
      /\ \/ job[j].pc = "send" /\ D!Reaches(j)
         \/ UNCHANGED <<sent, nudged, told>>
    BY DEF D!Throws, D!people, D!store
<1>2. /\ job[j] \in Visiting /\ StageFits(job[j])
      /\ KeyOf(job[j]) = D!Key(j) /\ KeyOf(job[j]) \in SentKeys
      /\ Holds(job[j]) => KeyOf(job[j]) \in DOMAIN ledger
    BY <1>1, VisitKnown
<1>3. /\ IsABag(excuse') /\ DOMAIN excuse' = DOMAIN excuse \cup {KeyOf(job[j])}
      /\ DOMAIN excuse' \subseteq SentKeys
      /\ \A k : D!Count(k, excuse') =
                    D!Count(k, excuse) + (IF k = KeyOf(job[j]) THEN 1 ELSE 0)
    <2>1. IsABag(excuse) /\ DOMAIN excuse \subseteq SentKeys
        BY DEF SchedulerTyped, HistoryTyped
    <2>2. excuse' = D!Noted(excuse, {KeyOf(job[j])})
        BY <1>2 DEF D!Throws
    <2>3. /\ IsABag(excuse') /\ DOMAIN excuse' = DOMAIN excuse \cup {KeyOf(job[j])}
          /\ \A k : D!Count(k, excuse') =
                        D!Count(k, excuse) + (IF k \in {KeyOf(job[j])} THEN 1 ELSE 0)
        BY <2>1, <2>2, BagNoting
    <2> QED
        BY <1>2, <2>1, <2>3
<1>4. HistoryTyped'
    <2>1. CASE UNCHANGED <<sent, nudged, told>>
        BY <1>3, <2>1 DEF SchedulerTyped, HistoryTyped
    <2>2. CASE job[j].pc = "send" /\ D!Reaches(j)
        BY <1>3, <2>2, Reaching DEF HistoryTyped
    <2> QED
        BY <1>1, <2>1, <2>2
<1>5. due' \in [Limits -> Nat]
    BY <1>1, Spending DEF Limits
<1>6. CASE D!Caught(j)
    <2>1. /\ job' = [job EXCEPT ![j] = job'[j]] /\ SameVisit(job[j], job'[j])
          /\ job'[j].pc = "fail"
        BY <1>1, <1>6, Going DEF D!Throws, Stages
    <2> DEFINE y == job'[j]
    <2>2. y \in Visiting /\ StageFits(y) /\ (Holds(y) => KeyOf(y) \in DOMAIN ledger')
        BY <1>1, <1>2, <1>6, <2>1 DEF SameVisit, StageFits, Holds, D!Caught, Served
    <2> HIDE DEF y
    <2>3. JobsTyped'
        BY <1>1, <2>1, <2>2, JobsStayTyped DEF y
    <2>4. SchedulerTyped'
        BY <1>1, <1>4, <1>5, <2>3 DEF SchedulerTyped, LedgerTyped, PeopleTyped
    <2> QED
        BY <1>1, <1>3, <1>6, <2>1, <2>4
<1>7. CASE ~D!Caught(j)
    <2>1. job' = [job EXCEPT ![j] = D!Idle]
        BY <1>7 DEF D!Throws, D!Ends
    <2>2. job'[j] = D!Idle
        BY <2>1 DEF SchedulerTyped, JobsTyped
    <2>3. JobsTyped'
        BY <1>1, <2>1, JobsStayTyped
    <2>4. SchedulerTyped'
        BY <1>1, <1>4, <1>5, <2>3 DEF SchedulerTyped, LedgerTyped, PeopleTyped
    <2> QED
        BY <1>1, <1>3, <1>7, <2>1, <2>2, <2>4
<1> QED
    BY <1>6, <1>7

LEMMA LeaseEnding ==
    ASSUME SchedulerTyped, NEW key \in DOMAIN ledger, D!LeaseEnds(key)
    PROVE  /\ UNCHANGED <<clock, user, market, previous, known, job, timers, sent, nudged, told>>
           /\ SchedulerTyped' /\ ledger[key].status = "sending"
           /\ DOMAIN ledger' = DOMAIN ledger
           /\ \A k \in DOMAIN ledger : k # key => ledger'[k] = ledger[k]
           /\ DOMAIN excuse' = DOMAIN excuse \cup {key}
           /\ \A k : D!Count(k, excuse') = D!Count(k, excuse) + (IF k = key THEN 1 ELSE 0)
<1>1. /\ UNCHANGED <<clock, user, market, previous, known, job, timers, sent, nudged, told>>
      /\ ledger[key].status = "sending" /\ D!Spend("faults")
    BY DEF D!LeaseEnds, D!people
<1>2. key \in LedgerKeys /\ ledger[key] \in LedgerRow
    BY DEF SchedulerTyped, LedgerTyped
<1>3. /\ DOMAIN ledger' = DOMAIN ledger /\ ledger'[key] = [ledger[key] EXCEPT !.stale = TRUE]
      /\ \A k \in DOMAIN ledger : k # key => ledger'[k] = ledger[k]
    BY DEF D!LeaseEnds
<1>4. [ledger[key] EXCEPT !.stale = TRUE] \in LedgerRow
    BY <1>2 DEF LedgerRow
<1>5. LedgerTyped'
    BY <1>2, <1>3, <1>4 DEF SchedulerTyped, LedgerTyped
<1>6. /\ IsABag(excuse') /\ DOMAIN excuse' = DOMAIN excuse \cup {key}
      /\ DOMAIN excuse' \subseteq SentKeys
      /\ \A k : D!Count(k, excuse') = D!Count(k, excuse) + (IF k = key THEN 1 ELSE 0)
    <2>1. IsABag(excuse) /\ DOMAIN excuse \subseteq SentKeys
        BY DEF SchedulerTyped, HistoryTyped
    <2>2. excuse' = D!Noted(excuse, {key})
        BY DEF D!LeaseEnds
    <2>3. /\ IsABag(excuse') /\ DOMAIN excuse' = DOMAIN excuse \cup {key}
          /\ \A k : D!Count(k, excuse') = D!Count(k, excuse) + (IF k \in {key} THEN 1 ELSE 0)
        BY <2>1, <2>2, BagNoting
    <2>4. key \in SentKeys
        BY <1>2 DEF SentKeys, LedgerKeys, Served, D!Kinds
    <2> QED
        BY <2>1, <2>3, <2>4
<1>7. due' \in [Limits -> Nat]
    BY <1>1, Spending DEF Limits
<1>8. JobsTyped'
    BY <1>1, <1>3 DEF SchedulerTyped, JobsTyped, Sound
<1>9. SchedulerTyped'
    BY <1>1, <1>5, <1>6, <1>7, <1>8 DEF SchedulerTyped, PeopleTyped, HistoryTyped
<1> QED
    BY <1>1, <1>3, <1>6, <1>9

Awake == {j \in Jobs : job[j].pc # "idle"}

LEMMA Restarting ==
    ASSUME SchedulerTyped, D!Restart
    PROVE  /\ UNCHANGED <<clock, user, market, previous, known, sent, nudged, told>>
           /\ SchedulerTyped' /\ job' = [j \in Jobs |-> D!Idle]
           /\ DOMAIN ledger' = DOMAIN ledger
           /\ \A k \in DOMAIN ledger : /\ ledger'[k].status = ledger[k].status
                                       /\ ledger'[k].stale = (ledger[k].status = "sending")
           /\ DOMAIN excuse' = DOMAIN excuse \cup {KeyOf(job[j]) : j \in Awake}
           /\ \A k : D!Count(k, excuse') =
                 D!Count(k, excuse) + (IF k \in {KeyOf(job[j]) : j \in Awake} THEN 1 ELSE 0)
<1>1. /\ UNCHANGED <<clock, user, market, previous, known, sent, nudged, told>>
      /\ job' = [j \in Jobs |-> D!Idle] /\ timers' = {} /\ D!Spend("faults")
      /\ ledger' = [k \in DOMAIN ledger |->
                        [ledger[k] EXCEPT !.stale = ledger[k].status = "sending"]]
    BY DEF D!Restart, D!people
<1>2. ASSUME NEW k \in DOMAIN ledger
      PROVE  /\ [ledger[k] EXCEPT !.stale = ledger[k].status = "sending"] \in LedgerRow
             /\ ledger'[k].status = ledger[k].status
             /\ ledger'[k].stale = (ledger[k].status = "sending")
    <2>1. ledger[k] \in LedgerRow
        BY DEF SchedulerTyped, LedgerTyped
    <2>2. ledger'[k] = [ledger[k] EXCEPT !.stale = ledger[k].status = "sending"]
        BY <1>1
    <2> QED
        BY <2>1, <2>2 DEF LedgerRow
<1>3. DOMAIN ledger' = DOMAIN ledger /\ LedgerTyped'
    BY <1>1, <1>2 DEF SchedulerTyped, LedgerTyped
<1>4. JobsTyped'
    BY <1>1 DEF JobsTyped, Sound
<1>5. due' \in [Limits -> Nat]
    BY <1>1, Spending DEF Limits
<1>6. /\ IsABag(excuse') /\ DOMAIN excuse' \subseteq SentKeys
      /\ DOMAIN excuse' = DOMAIN excuse \cup {KeyOf(job[j]) : j \in Awake}
      /\ \A k : D!Count(k, excuse') =
             D!Count(k, excuse) + (IF k \in {KeyOf(job[j]) : j \in Awake} THEN 1 ELSE 0)
    <2> DEFINE S == {KeyOf(job[j]) : j \in Awake}
    <2>1. IsABag(excuse) /\ DOMAIN excuse \subseteq SentKeys
        BY DEF SchedulerTyped, HistoryTyped
    <2>2. S \subseteq SentKeys
        BY VisitKnown DEF Awake
    <2>3. excuse' = D!Noted(excuse, S)
        <3>1. excuse' = D!Noted(excuse, {D!Key(j) : j \in Awake})
            BY DEF D!Restart, Awake
        <3>2. {D!Key(j) : j \in Awake} = S
            BY VisitKnown DEF Awake
        <3> QED
            BY <3>1, <3>2
    <2> HIDE DEF S
    <2>4. /\ IsABag(excuse') /\ DOMAIN excuse' = DOMAIN excuse \cup S
          /\ \A k : D!Count(k, excuse') = D!Count(k, excuse) + (IF k \in S THEN 1 ELSE 0)
        BY <2>1, <2>3, BagNoting
    <2> QED
        BY <2>1, <2>2, <2>4 DEF S
<1>7. SchedulerTyped'
    BY <1>1, <1>3, <1>4, <1>5, <1>6 DEF SchedulerTyped, PeopleTyped, HistoryTyped
<1> QED
    BY <1>1, <1>2, <1>3, <1>6, <1>7

(* The users and their market.                                             *)
PeopleMove(u) ==
    \/ D!RecordInboundActivity(u) \/ D!StopMessages(u) \/ D!PauseMorningBriefing(u)
    \/ D!MarketMoves(u)

LEMMA PeopleMoving ==
    ASSUME SchedulerTyped, NEW u \in Users, PeopleMove(u)
    PROVE  /\ UNCHANGED <<clock, ledger, previous, known, job, timers, sent, excuse, nudged,
                          told>>
           /\ SchedulerTyped' /\ \A v \in Users : user'[v].nudged = user[v].nudged
<1>1. /\ UNCHANGED <<clock, ledger, previous, known, job, timers, sent, excuse, nudged, told>>
      /\ D!Spend("changes")
    BY DEF PeopleMove, D!RecordInboundActivity, D!StopMessages, D!PauseMorningBriefing,
           D!MarketMoves, D!store, D!history
<1>2. due' \in [Limits -> Nat]
    BY <1>1, Spending DEF Limits
<1>3. /\ user \in [Users -> UserRow] /\ market \in [Users -> Nat] /\ clock \in Nat
      /\ user[u] \in UserRow
    BY DEF SchedulerTyped, PeopleTyped
<1>4. \/ UNCHANGED user /\ market' = [market EXCEPT ![u] = @ + 1]
      \/ /\ UNCHANGED market
         /\ \E row \in UserRow : row.nudged = user[u].nudged /\ user' = [user EXCEPT ![u] = row]
    <2>1. CASE D!RecordInboundActivity(u)
        <3> DEFINE row == [user[u] EXCEPT !.seen = clock]
        <3>1. row \in UserRow /\ row.nudged = user[u].nudged
            BY <1>3 DEF UserRow
        <3>2. user' = [user EXCEPT ![u] = row] /\ UNCHANGED market
            BY <1>3, <2>1 DEF D!RecordInboundActivity
        <3> QED
            BY <3>1, <3>2
    <2>2. CASE D!StopMessages(u)
        <3> DEFINE row == [user[u] EXCEPT !.seen = clock, !.stopped = TRUE]
        <3>1. row \in UserRow /\ row.nudged = user[u].nudged
            BY <1>3 DEF UserRow
        <3>2. user' = [user EXCEPT ![u] = row] /\ UNCHANGED market
            BY <1>3, <2>2 DEF D!StopMessages
        <3> QED
            BY <3>1, <3>2
    <2>3. CASE D!PauseMorningBriefing(u)
        <3>1. PICK until \in {0, clock + Slots, Forever} :
                  user' = [user EXCEPT ![u].seen = clock, ![u].paused = until]
            BY <2>3 DEF D!PauseMorningBriefing
        <3> DEFINE row == [user[u] EXCEPT !.seen = clock, !.paused = until]
        <3>2. until \in Nat
            BY <1>3, ServicesAssumption
        <3>3. row \in UserRow /\ row.nudged = user[u].nudged
            BY <1>3, <3>2 DEF UserRow
        <3>4. user' = [user EXCEPT ![u] = row] /\ UNCHANGED market
            BY <1>3, <2>3, <3>1 DEF D!PauseMorningBriefing
        <3> QED
            BY <3>3, <3>4
    <2>4. CASE D!MarketMoves(u)
        BY <2>4 DEF D!MarketMoves
    <2> QED
        BY <2>1, <2>2, <2>3, <2>4 DEF PeopleMove
<1>5. user' \in [Users -> UserRow] /\ \A v \in Users : user'[v].nudged = user[v].nudged
    BY <1>3, <1>4
<1>6. market' \in [Users -> Nat]
    BY <1>3, <1>4
<1> QED
    BY <1>1, <1>2, <1>5, <1>6
       DEF SchedulerTyped, JobsTyped, Sound, LedgerTyped, PeopleTyped, HistoryTyped

(* The operator's broadcast.                                               *)
LEMMA Scheduling ==
    ASSUME SchedulerTyped, D!ScheduleWelcomeBackBroadcast
    PROVE  /\ UNCHANGED <<clock, user, market, ledger, previous, known, job, sent, excuse,
                          nudged, told>>
           /\ SchedulerTyped'
<1>1. /\ UNCHANGED <<clock, user, market, ledger, previous, known, job, sent, excuse,
                     nudged, told>>
      /\ D!Spend("welcomes") /\ timers' \subseteq timers \cup Users
    BY DEF D!ScheduleWelcomeBackBroadcast, D!people, D!store, D!history
<1>2. due' \in [Limits -> Nat]
    BY <1>1, Spending DEF Limits
<1> QED
    BY <1>1, <1>2 DEF SchedulerTyped, JobsTyped, Sound, LedgerTyped, PeopleTyped, HistoryTyped

LEMMA Welcoming ==
    ASSUME SchedulerTyped, NEW u \in Users, D!WelcomeBack(u)
    PROVE  /\ UNCHANGED <<clock, user, market, ledger, previous, known, job, excuse, nudged,
                          told>>
           /\ SchedulerTyped' /\ DOMAIN sent' = DOMAIN sent \cup {<<"welcome", u, D!Day(clock)>>}
           /\ \A k : k[1] # "welcome" => D!Count(k, sent') = D!Count(k, sent)
<1>1. /\ UNCHANGED <<clock, user, market, ledger, previous, known, job, excuse, nudged, told,
                     due>>
      /\ timers' \subseteq timers
    BY DEF D!WelcomeBack, D!people, D!store
<1> DEFINE k == <<"welcome", u, D!Day(clock)>>
<1>2. k \in SentKeys /\ k[1] = "welcome"
    BY DaysAreNatural DEF SentKeys, D!Kinds, SchedulerTyped, PeopleTyped
<1>3. sent' = D!Noted(sent, {k})
    BY DEF D!WelcomeBack
<1> HIDE DEF k
<1>4. IsABag(sent) /\ DOMAIN sent \subseteq SentKeys
    BY DEF SchedulerTyped, HistoryTyped
<1>5. /\ IsABag(sent') /\ DOMAIN sent' = DOMAIN sent \cup {k}
      /\ \A x : D!Count(x, sent') = D!Count(x, sent) + (IF x \in {k} THEN 1 ELSE 0)
    BY <1>3, <1>4, BagNoting
<1>6. \A x : D!Count(x, sent) \in Nat
    BY <1>4, BagCounted
<1>7. SchedulerTyped'
    BY <1>1, <1>2, <1>4, <1>5
       DEF SchedulerTyped, JobsTyped, Sound, LedgerTyped, PeopleTyped, HistoryTyped
<1> QED
    BY <1>1, <1>2, <1>5, <1>6, <1>7 DEF k

(* Time passes, but no visit takes longer than MaxLag.                     *)
LEMMA Timing ==
    ASSUME SchedulerTyped, D!Time
    PROVE  /\ UNCHANGED <<user, market, ledger, previous, known, job, timers, sent, excuse,
                          nudged, told>>
           /\ SchedulerTyped' /\ clock' = clock + 1
           /\ \A j \in Jobs : job[j].pc # "idle" => clock < job[j].now + MaxLag
BY DEF D!Time, D!people, D!store, D!history, SchedulerTyped, JobsTyped, Sound, LedgerTyped,
       PeopleTyped, HistoryTyped

-----------------------------------------------------------------------------
(* Each message once.                                                      *)

(* A visit that is going to send the message key, or has failed to.        *)
Owes(x, key) ==
    /\ \/ x.pc \in {"send", "fail"}
       \/ x.pc = "build" /\ x.kind = "briefing"
    /\ x.kind \in Served /\ KeyOf(x) = key
Open(key) == {j \in Jobs : Owes(job[j], key)}
Owing(key) == D!Count(key, sent) + Cardinality(Open(key))

(* The message may be claimed again, or would be after a restart.          *)
Lapsed(key) ==
    \/ D!Claimable(key)
    \/ /\ ledger[key].status = "sending"
       /\ \A j \in Jobs : Holds(job[j]) => KeyOf(job[j]) # key

(* The messages that were sent and those that are about to be exceed the   *)
(* leases that ended and the failures by one at most, and by none when the *)
(* message can be claimed again.                                           *)
DeliveryInv ==
    \A key \in LedgerKeys :
        /\ Owing(key) <= 1 + D!Count(key, excuse)
        /\ Lapsed(key) => Owing(key) <= D!Count(key, excuse)

LEMMA OpenMoves ==
    ASSUME SchedulerTyped, NEW j \in Jobs, job' = [job EXCEPT ![j] = job'[j]], NEW key
    PROVE  /\ Cardinality(Open(key)) \in Nat /\ Cardinality(Open(key)') \in Nat
           /\ Cardinality(Open(key)') = Cardinality(Open(key))
                 - (IF Owes(job[j], key) THEN 1 ELSE 0) + (IF Owes(job'[j], key) THEN 1 ELSE 0)
<1> DEFINE A == {i \in Jobs : Owes(job[i], key)}
           B == {i \in Jobs : Owes(job'[i], key)}
           C == A \ {j}
<1>1. IsFiniteSet(Jobs)
    BY ServicesAssumption
<1>2. IsFiniteSet(A) /\ IsFiniteSet(B) /\ IsFiniteSet(C)
    <2>1. A \subseteq Jobs /\ B \subseteq Jobs /\ C \subseteq Jobs
        OBVIOUS
    <2> HIDE DEF A, B, C
    <2> QED
        BY <1>1, <2>1, FS_Subset
<1>3. j \notin C /\ A = (IF Owes(job[j], key) THEN C \cup {j} ELSE C)
    OBVIOUS
<1>4. B = (IF Owes(job'[j], key) THEN C \cup {j} ELSE C)
    <2>1. \A i \in Jobs : i # j => job'[i] = job[i]
        BY DEF SchedulerTyped, JobsTyped
    <2> QED
        BY <2>1
<1>5. Open(key) = A /\ Open(key)' = B
    BY DEF Open
<1> HIDE DEF A, B, C
<1>6. /\ Cardinality(C) \in Nat /\ Cardinality(A) \in Nat /\ Cardinality(B) \in Nat
      /\ Cardinality(C \cup {j}) = Cardinality(C) + 1
    BY <1>2, <1>3, FS_CardinalityType, FS_AddElement
<1> QED
    BY <1>3, <1>4, <1>5, <1>6

(* What a step has to leave alone.                                         *)
Balanced(key) ==
    /\ Owing(key)' - D!Count(key, excuse)' <= Owing(key) - D!Count(key, excuse)
    /\ Lapsed(key)' => \/ Lapsed(key)
                       \/ Owing(key)' - D!Count(key, excuse)' < Owing(key) - D!Count(key, excuse)

LEMMA VisitCounts ==
    ASSUME SchedulerTyped, NEW key
    PROVE  D!Count(key, sent) \in Nat /\ D!Count(key, excuse) \in Nat
BY BagCounted DEF SchedulerTyped, HistoryTyped

LEMMA OpenCounts ==
    ASSUME SchedulerTyped, NEW key
    PROVE  Cardinality(Open(key)) \in Nat /\ Owing(key) \in Nat
<1>1. IsFiniteSet(Open(key))
    BY ServicesAssumption, FS_Subset DEF Open
<1> QED
    BY <1>1, FS_CardinalityType, VisitCounts DEF Owing

LEMMA StayInBalance ==
    ASSUME SchedulerTyped, SchedulerTyped', DeliveryInv, \A key \in LedgerKeys : Balanced(key)
    PROVE  DeliveryInv'
<1> SUFFICES ASSUME NEW key \in LedgerKeys
             PROVE  /\ Owing(key)' <= 1 + D!Count(key, excuse)'
                    /\ Lapsed(key)' => Owing(key)' <= D!Count(key, excuse)'
    BY DEF DeliveryInv
<1>1. /\ Owing(key) \in Nat /\ D!Count(key, excuse) \in Nat
      /\ Owing(key)' \in Nat /\ D!Count(key, excuse)' \in Nat
    <2>1. Owing(key) \in Nat /\ D!Count(key, excuse) \in Nat
        BY OpenCounts, VisitCounts
    <2>2. Owing(key)' \in Nat /\ D!Count(key, excuse)' \in Nat
        <3>1. D!Count(key, excuse)' \in Nat /\ D!Count(key, sent)' \in Nat
            BY BagCounted DEF SchedulerTyped, HistoryTyped
        <3>2. IsFiniteSet(Open(key)')
            BY ServicesAssumption, FS_Subset DEF Open
        <3>3. Cardinality(Open(key)') \in Nat
            BY <3>2, FS_CardinalityType
        <3> QED
            BY <3>1, <3>3 DEF Owing
    <2> QED
        BY <2>1, <2>2
<1>2. Balanced(key)
    OBVIOUS
<1> QED
    BY <1>1, <1>2 DEF Balanced, DeliveryInv

(* Nothing lapses while the visits that hold a message go on.              *)
LEMMA StillHeld ==
    ASSUME SchedulerTyped, NEW j \in Jobs, job' = [job EXCEPT ![j] = job'[j]], UNCHANGED ledger,
           Holds(job[j]) => Holds(job'[j]) /\ KeyOf(job'[j]) = KeyOf(job[j]), NEW key
    PROVE  Lapsed(key)' => Lapsed(key)
<1>1. \A i \in Jobs : i # j => job'[i] = job[i]
    BY DEF SchedulerTyped, JobsTyped
<1>2. \A i \in Jobs : Holds(job[i]) => Holds(job'[i]) /\ KeyOf(job'[i]) = KeyOf(job[i])
    BY <1>1
<1>3. D!Claimable(key)' <=> D!Claimable(key)
    BY DEF D!Claimable
<1> QED
    BY <1>2, <1>3 DEF Lapsed

LEMMA QuietVisit ==
    ASSUME SchedulerTyped, SchedulerTyped', NEW j \in Jobs, job' = [job EXCEPT ![j] = job'[j]],
           UNCHANGED <<ledger, sent>>,
           Holds(job[j]) => Holds(job'[j]) /\ KeyOf(job'[j]) = KeyOf(job[j]),
           NEW key, Owes(job'[j], key) => Owes(job[j], key),
           D!Count(key, excuse) <= D!Count(key, excuse)'
    PROVE  Balanced(key)
<1>1. Lapsed(key)' => Lapsed(key)
    BY StillHeld
<1>2. /\ Cardinality(Open(key)) \in Nat /\ Cardinality(Open(key)') \in Nat
      /\ Cardinality(Open(key)') <= Cardinality(Open(key))
    BY OpenMoves
<1>3. D!Count(key, sent)' = D!Count(key, sent)
    OBVIOUS
<1>4. /\ D!Count(key, sent) \in Nat /\ D!Count(key, excuse) \in Nat
      /\ D!Count(key, excuse)' \in Nat
    BY BagCounted DEF SchedulerTyped, HistoryTyped
<1> QED
    BY <1>1, <1>2, <1>3, <1>4 DEF Balanced, Owing

(* Steps that leave the ledger, what was sent and the visits alone.        *)
LEMMA StillBalanced ==
    ASSUME SchedulerTyped, UNCHANGED <<ledger, job, excuse>>, NEW key \in LedgerKeys,
           D!Count(key, sent)' = D!Count(key, sent)
    PROVE  Balanced(key)
<1>1. Open(key)' = Open(key)
    BY DEF Open
<1>2. Lapsed(key)' <=> Lapsed(key)
    BY DEF Lapsed, D!Claimable
<1>3. Owing(key)' = Owing(key) /\ D!Count(key, excuse)' = D!Count(key, excuse)
    BY <1>1 DEF Owing
<1>4. Owing(key) \in Nat /\ D!Count(key, excuse) \in Nat
    BY OpenCounts, VisitCounts
<1> QED
    BY <1>2, <1>3, <1>4 DEF Balanced

LEMMA ReadsBalanced ==
    ASSUME SchedulerTyped, SchedulerTyped', NEW j \in Jobs, NEW key \in LedgerKeys,
           \/ Reads(j) \/ D!SelectDormant(j) \/ (\E u \in Users : Ticks(j, u))
           \/ D!Claim(j) /\ ~Free(j)
    PROVE  Balanced(key)
<1> DEFINE y == job'[j]
<1>1. /\ job' = [job EXCEPT ![j] = job'[j]] /\ UNCHANGED <<ledger, sent, excuse>>
      /\ job[j].pc \in {"idle", "select", "due", "briefed", "over", "claim"}
      /\ y.pc \in {"idle", "select", "due", "briefed", "claim", "build"}
      /\ y.pc = "build" => y.kind # "briefing"
    <2>1. CASE Reads(j)
        <3>1. /\ job' = [job EXCEPT ![j] = job'[j]] /\ UNCHANGED <<ledger, sent, excuse>>
              /\ job[j].pc \in {"select", "due", "briefed", "over"}
            BY <2>1, ReadsMove
        <3>2. \/ Turned(job[j], y)
              \/ /\ SameVisit(job[j], y)
                 /\ \/ y.pc \in {"claim", "briefed"}
                    \/ job[j].kind \in {"resend", "preview", "digest"} /\ y.pc = "build"
            BY <2>1, ReadsMove
        <3>3. /\ y.pc \in {"idle", "select", "claim", "briefed", "build"}
              /\ y.pc = "build" => y.kind # "briefing"
            BY <3>2 DEF Turned, D!Idle, SameVisit
        <3> HIDE DEF y
        <3> QED
            BY <3>1, <3>3
    <2>2. CASE D!SelectDormant(j)
        BY <2>2, DormantRead
    <2>3. ASSUME NEW u \in Users, Ticks(j, u) PROVE  <1>1!:
        BY <2>3, TicksBegin
    <2>4. CASE D!Claim(j) /\ ~Free(j)
        <3>1. /\ job' = [job EXCEPT ![j] = job'[j]] /\ UNCHANGED <<ledger, sent, excuse>>
              /\ job[j].pc = "claim" /\ Turned(job[j], y)
            BY <2>4, Claiming
        <3>2. y.pc \in {"idle", "select"}
            BY <3>1 DEF Turned, D!Idle
        <3> HIDE DEF y
        <3> QED
            BY <3>1, <3>2
    <2> QED
        BY <2>1, <2>2, <2>3, <2>4
<1>2. ~Holds(job[j]) /\ ~Owes(y, key)
    BY <1>1 DEF Holds, Owes
<1>3. D!Count(key, excuse) <= D!Count(key, excuse)'
    BY <1>1, VisitCounts
<1> QED
    BY <1>1, <1>2, <1>3, QuietVisit

LEMMA BuildBalanced ==
    ASSUME SchedulerTyped, SchedulerTyped', NEW j \in Jobs, NEW key \in LedgerKeys, D!Build(j)
    PROVE  Balanced(key)
<1> DEFINE y == job'[j]
<1>1. /\ UNCHANGED <<ledger, sent>> /\ job[j].pc = "build" /\ job' = [job EXCEPT ![j] = job'[j]]
      /\ y.kind = job[j].kind /\ KeyOf(y) = KeyOf(job[j]) /\ y.pc = D!AfterBuild(j)
      /\ excuse' = IF job[j].kind = "preview" THEN D!Noted(excuse, {KeyOf(job[j])}) ELSE excuse
    BY Building
<1>2. StageFits(job[j]) /\ job[j] \in Visiting
    BY <1>1, VisitKnown
<1>3. /\ Holds(job[j]) => job[j].kind = "briefing"
      /\ job[j].kind = "briefing" => y.pc = "send"
      /\ job[j].kind = "digest" => y.pc \in {"claim", "over"}
      /\ job[j].kind # "dormant"
    BY <1>1, <1>2 DEF Holds, StageFits, D!AfterBuild
<1>4. Holds(job[j]) => Holds(y)
    BY <1>1, <1>3 DEF Holds
<1>5. Owes(y, key) => Owes(job[j], key)
    BY <1>1, <1>3 DEF Owes, Served
<1>6. D!Count(key, excuse) <= D!Count(key, excuse)'
    <2>1. IsABag(excuse) /\ D!Count(key, excuse) \in Nat
        BY VisitCounts DEF SchedulerTyped, HistoryTyped
    <2>2. D!Count(key, D!Noted(excuse, {KeyOf(job[j])})) >= D!Count(key, excuse)
        <3>1. \A k : D!Count(k, D!Noted(excuse, {KeyOf(job[j])})) =
                         D!Count(k, excuse) + (IF k \in {KeyOf(job[j])} THEN 1 ELSE 0)
            BY <2>1, BagNoting
        <3>2. D!Count(key, D!Noted(excuse, {KeyOf(job[j])})) =
                  D!Count(key, excuse) + (IF key \in {KeyOf(job[j])} THEN 1 ELSE 0)
            BY <3>1
        <3> QED
            BY <2>1, <3>2
    <2> QED
        BY <1>1, <2>1, <2>2
<1> QED
    BY <1>1, <1>4, <1>5, <1>6, QuietVisit

LEMMA SendBalanced ==
    ASSUME SchedulerTyped, SchedulerTyped', NEW j \in Jobs, NEW key \in LedgerKeys,
           D!Send(j) \/ D!Stamp(j)
    PROVE  Balanced(key)
<1> DEFINE y == job'[j]
<1>1. /\ UNCHANGED <<ledger, excuse>> /\ job' = [job EXCEPT ![j] = job'[j]]
      /\ y.kind = job[j].kind /\ KeyOf(y) = KeyOf(job[j]) /\ y.pc \in {"stamp", "finish"}
      /\ job[j].pc \in {"send", "stamp"} /\ job[j].kind \in D!Kinds
    <2>1. CASE D!Send(j)
        BY <2>1, Sending, VisitKnown DEF SameVisit, Visiting, D!Kinds
    <2>2. CASE D!Stamp(j)
        BY <2>2, Stamping DEF SameVisit, D!Kinds
    <2> QED
        BY <2>1, <2>2
<1>2. /\ Holds(job[j]) => Holds(y)
      /\ ~Owes(y, key)
    BY <1>1 DEF Holds, Owes
<1>3. Lapsed(key)' => Lapsed(key)
    BY <1>1, <1>2, StillHeld
<1>4. /\ Cardinality(Open(key)) \in Nat /\ Cardinality(Open(key)') \in Nat
      /\ Cardinality(Open(key)') =
             Cardinality(Open(key)) - (IF Owes(job[j], key) THEN 1 ELSE 0)
    BY <1>1, <1>2, OpenMoves
<1>5. D!Count(key, sent)' <= D!Count(key, sent) + (IF Owes(job[j], key) THEN 1 ELSE 0)
    <2>1. CASE D!Stamp(j)
        <3>1. UNCHANGED sent
            BY <2>1, Stamping
        <3> QED
            BY <3>1, VisitCounts
    <2>2. CASE D!Send(j)
        <3>1. /\ job[j].pc = "send"
              /\ \A k : D!Count(k, sent') =
                            D!Count(k, sent) + (IF k = KeyOf(job[j]) THEN 1 ELSE 0)
            BY <2>2, Sending, Reaching
        <3>2. key = KeyOf(job[j]) => Owes(job[j], key)
            <4>1. KeyOf(job[j])[1] = job[j].kind
                BY DEF KeyOf
            <4>2. key[1] \in Served
                BY DEF LedgerKeys
            <4>3. ASSUME key = KeyOf(job[j]) PROVE job[j].kind \in Served
                BY <4>1, <4>2, <4>3
            <4> QED
                BY <3>1, <4>3 DEF Owes
        <3>3. D!Count(key, sent)' = D!Count(key, sent) + (IF key = KeyOf(job[j]) THEN 1 ELSE 0)
            BY <3>1
        <3> QED
            BY <3>2, <3>3, VisitCounts
    <2> QED
        BY <2>1, <2>2
<1>6. D!Count(key, excuse)' = D!Count(key, excuse)
    BY <1>1
<1>7. /\ D!Count(key, sent) \in Nat /\ D!Count(key, excuse) \in Nat
      /\ D!Count(key, sent)' \in Nat
    BY BagCounted DEF SchedulerTyped, HistoryTyped
<1> QED
    BY <1>3, <1>4, <1>5, <1>6, <1>7 DEF Balanced, Owing

LEMMA ClaimDelivers ==
    ASSUME SchedulerTyped, SchedulerTyped', DeliveryInv, NEW j \in Jobs, D!Claim(j), Free(j)
    PROVE  DeliveryInv'
<1> DEFINE k == KeyOf(job[j])
           y == job'[j]
<1>1. /\ UNCHANGED <<sent, excuse>> /\ job[j].pc = "claim" /\ job' = [job EXCEPT ![j] = job'[j]]
      /\ KeyOf(y) = k /\ Holds(y) /\ DOMAIN ledger' = DOMAIN ledger \cup {k}
      /\ ledger'[k].status = "sending" /\ ~ledger'[k].stale
      /\ \A x \in DOMAIN ledger : x # k => ledger'[x] = ledger[x]
    BY Claiming DEF SameVisit
<1>2. D!Claimable(k) /\ k \in LedgerKeys
    <2>1. StageFits(job[j]) /\ k = D!Key(j) /\ (job[j].kind \in Served => k \in LedgerKeys)
        BY <1>1, VisitKnown
    <2> QED
        BY <1>1, <2>1 DEF Free, StageFits
<1> HIDE DEF k, y
<1>3. ASSUME NEW key \in LedgerKeys
      PROVE  /\ Owing(key)' <= 1 + D!Count(key, excuse)'
             /\ Lapsed(key)' => Owing(key)' <= D!Count(key, excuse)'
    <2>1. /\ Cardinality(Open(key)) \in Nat /\ Cardinality(Open(key)') \in Nat
          /\ Cardinality(Open(key)') <= Cardinality(Open(key)) + 1
          /\ ~Owes(y, key) => Cardinality(Open(key)') <= Cardinality(Open(key))
        BY <1>1, OpenMoves DEF y
    <2>2. /\ D!Count(key, sent) \in Nat /\ D!Count(key, excuse) \in Nat
          /\ D!Count(key, sent)' = D!Count(key, sent)
          /\ D!Count(key, excuse)' = D!Count(key, excuse)
        BY <1>1, VisitCounts
    <2>3. /\ Owing(key) <= 1 + D!Count(key, excuse)
          /\ Lapsed(key) => Owing(key) <= D!Count(key, excuse)
        BY DEF DeliveryInv
    <2>4. CASE key = k
        <3>1. ~Lapsed(key)'
            <4>1. ~D!Claimable(key)'
                BY <1>1, <2>4 DEF D!Claimable
            <4> QED
                BY <1>1, <2>4, <4>1 DEF Lapsed, y
        <3>2. Lapsed(key)
            BY <1>2, <2>4 DEF Lapsed
        <3> QED
            BY <2>1, <2>2, <2>3, <3>1, <3>2 DEF Owing
    <2>5. CASE key # k
        <3>1. ~Owes(y, key)
            BY <1>1, <2>5 DEF Owes
        <3>2. \A i \in Jobs : i # j => job'[i] = job[i]
            BY <1>1 DEF SchedulerTyped, JobsTyped
        <3>3. D!Claimable(key)' => D!Claimable(key)
            BY <1>1, <2>5 DEF D!Claimable
        <3>4. ~Holds(job[j])
            BY <1>1 DEF Holds
        <3>5. Lapsed(key)' => Lapsed(key)
            <4>1. ASSUME ~D!Claimable(key)', Lapsed(key)'
                  PROVE  Lapsed(key)
                <5>1. key \in DOMAIN ledger /\ ledger'[key] = ledger[key]
                    BY <1>1, <2>5, <4>1 DEF D!Claimable
                <5> QED
                    BY <3>2, <3>4, <4>1, <5>1 DEF Lapsed
            <4> QED
                BY <3>3, <4>1 DEF Lapsed
        <3> QED
            BY <2>1, <2>2, <2>3, <3>1, <3>5 DEF Owing
    <2> QED
        BY <2>4, <2>5
<1> QED
    BY <1>3 DEF DeliveryInv

LEMMA FinishBalanced ==
    ASSUME SchedulerTyped, SchedulerTyped', NEW j \in Jobs, NEW key \in LedgerKeys, D!Finishes(j)
    PROVE  Balanced(key)
<1> DEFINE y == job'[j]
<1>1. /\ UNCHANGED <<sent, excuse>> /\ job' = [job EXCEPT ![j] = job'[j]] /\ Turned(job[j], y)
    BY Finishing
<1>2. PICK status \in {"delivered", "failed"} : Settles(j, status)
    BY Finishing
<1>3. /\ DOMAIN ledger \subseteq DOMAIN ledger'
      /\ \A k \in DOMAIN ledger' :
            \/ k \in DOMAIN ledger /\ ledger'[k] = ledger[k]
            \/ k = KeyOf(job[j]) /\ ledger'[k].status = status
            \/ k = Morning(j) /\ ledger'[k].status = status /\ status = "delivered"
      /\ ledger'[KeyOf(job[j])].status # "sending" \/ job[j].kind = "resend"
    BY <1>2, Settling
<1>4. job[j].pc = (IF status = "delivered" THEN "finish" ELSE "fail")
    BY <1>2 DEF Settles
<1>5. job[j] \in Visiting /\ StageFits(job[j])
    BY <1>4, VisitKnown
<1>6. ~Owes(y, key) /\ ~Holds(y)
    BY <1>1 DEF Turned, Owes, Holds, D!Idle
<1> HIDE DEF y
<1>7. /\ Cardinality(Open(key)) \in Nat /\ Cardinality(Open(key)') \in Nat
      /\ Cardinality(Open(key)') =
             Cardinality(Open(key)) - (IF Owes(job[j], key) THEN 1 ELSE 0)
    BY <1>1, <1>6, OpenMoves DEF y
<1>8. /\ D!Count(key, sent) \in Nat /\ D!Count(key, excuse) \in Nat
      /\ D!Count(key, sent)' = D!Count(key, sent)
      /\ D!Count(key, excuse)' = D!Count(key, excuse)
    BY <1>1, VisitCounts
<1>9. Lapsed(key)' => Lapsed(key) \/ Owes(job[j], key)
    <2> SUFFICES ASSUME Lapsed(key)', ~Owes(job[j], key) PROVE Lapsed(key)
        OBVIOUS
    <2>1. CASE key \notin DOMAIN ledger'
        BY <1>3, <2>1 DEF Lapsed, D!Claimable
    <2>2. CASE key \in DOMAIN ledger /\ ledger'[key] = ledger[key]
        <3>1. D!Claimable(key)' => D!Claimable(key)
            BY <1>3, <2>2 DEF D!Claimable
        <3>2. ASSUME ~D!Claimable(key)' PROVE Lapsed(key)
            <4>1. /\ ledger'[key].status = "sending"
                  /\ \A i \in Jobs : Holds(job'[i]) => KeyOf(job'[i]) # key
                BY <3>2 DEF Lapsed
            <4>2. \A i \in Jobs : i # j => job'[i] = job[i]
                BY <1>1 DEF SchedulerTyped, JobsTyped
            <4>3. Holds(job[j]) => KeyOf(job[j]) # key
                BY <1>3, <4>1 DEF Holds, Served
            <4> QED
                BY <2>2, <4>1, <4>2, <4>3 DEF Lapsed
        <3> QED
            BY <3>1, <3>2 DEF Lapsed
    <2>3. CASE /\ key \in DOMAIN ledger' /\ key = KeyOf(job[j])
               /\ ledger'[key].status = status /\ status = "failed"
        <3>1. job[j].pc = "fail" /\ job[j].kind \in Served
            BY <1>4, <1>5, <2>3 DEF StageFits
        <3> QED
            BY <2>3, <3>1 DEF Owes
    <2>4. CASE /\ key \in DOMAIN ledger' /\ ledger'[key].status = "delivered"
        BY <2>4 DEF Lapsed, D!Claimable
    <2> QED
        BY <1>3, <2>1, <2>2, <2>3, <2>4
<1> QED
    BY <1>7, <1>8, <1>9 DEF Balanced, Owing

LEMMA ThrowBalanced ==
    ASSUME SchedulerTyped, SchedulerTyped', NEW j \in Jobs, NEW key \in LedgerKeys, D!Throws(j)
    PROVE  Balanced(key)
<1> DEFINE y == job'[j]
           x == job[j]
           mine == IF key = KeyOf(x) THEN 1 ELSE 0
<1>1. /\ UNCHANGED ledger /\ x.pc # "idle" /\ job' = [job EXCEPT ![j] = job'[j]]
      /\ D!Count(key, excuse') = D!Count(key, excuse) + mine
      /\ \/ x.pc = "send" /\ D!Reaches(j)
         \/ UNCHANGED <<sent, nudged, told>>
      /\ IF D!Caught(j) THEN SameVisit(x, y) /\ y.pc = "fail" ELSE y = D!Idle
    BY Throwing
<1>2. x \in Visiting /\ StageFits(x) /\ KeyOf(x)[1] = x.kind
    BY <1>1, VisitKnown DEF KeyOf
<1>3. key = KeyOf(x) => x.kind \in Served
    BY <1>2 DEF LedgerKeys
<1>4. D!Count(key, sent)' <= D!Count(key, sent) + (IF x.pc = "send" THEN mine ELSE 0)
    <2>1. CASE UNCHANGED sent
        BY <2>1, VisitCounts
    <2>2. CASE x.pc = "send" /\ D!Reaches(j)
        <3>1. \A k : D!Count(k, sent') = D!Count(k, sent) + (IF k = KeyOf(x) THEN 1 ELSE 0)
            BY <2>2, Reaching
        <3>2. D!Count(key, sent)' = D!Count(key, sent) + (IF key = KeyOf(x) THEN 1 ELSE 0)
            BY <3>1
        <3> QED
            BY <2>2, <3>2, VisitCounts
    <2> QED
        BY <1>1, <2>1, <2>2
<1>5. D!Caught(j) \/ ~Holds(x) \/ x.pc = "fail"
    BY <1>2 DEF D!Caught, Holds, Served, StageFits
<1>6. /\ key = KeyOf(x) /\ x.pc = "send" => Owes(x, key)
      /\ x.pc = "fail" => ~D!Caught(j) /\ (key = KeyOf(x) => Owes(x, key))
    BY <1>2, <1>3 DEF Owes, D!Caught
<1>7. /\ Owes(y, key) => key = KeyOf(x) /\ D!Caught(j)
      /\ key # KeyOf(x) => ~Owes(x, key)
      /\ Holds(x) /\ D!Caught(j) => Holds(y) /\ KeyOf(y) = KeyOf(x)
    BY <1>1, <1>2 DEF Owes, SameVisit, D!Idle, Holds
<1> HIDE DEF x, y, mine
<1>8. /\ Cardinality(Open(key)) \in Nat /\ Cardinality(Open(key)') \in Nat
      /\ Cardinality(Open(key)') = Cardinality(Open(key))
            - (IF Owes(x, key) THEN 1 ELSE 0) + (IF Owes(y, key) THEN 1 ELSE 0)
    BY <1>1, OpenMoves DEF x, y
<1>9. /\ D!Count(key, sent) \in Nat /\ D!Count(key, excuse) \in Nat
      /\ D!Count(key, sent)' \in Nat
      /\ D!Count(key, excuse)' = D!Count(key, excuse) + mine
    BY <1>1, BagCounted DEF SchedulerTyped, HistoryTyped
<1>10. CASE Holds(x) => D!Caught(j)
    <2>1. Lapsed(key)' => Lapsed(key)
        BY <1>1, <1>7, <1>10, StillHeld DEF x, y
    <2> QED
        BY <1>4, <1>6, <1>7, <1>8, <1>9, <2>1 DEF Balanced, Owing, mine
<1>11. CASE x.pc = "fail" /\ key = KeyOf(x)
    BY <1>4, <1>6, <1>7, <1>8, <1>9, <1>11 DEF Balanced, Owing, mine
<1>12. CASE x.pc = "fail" /\ key # KeyOf(x)
    <2>1. Lapsed(key)' => Lapsed(key)
        <3>1. \A i \in Jobs : i # j => job'[i] = job[i]
            BY <1>1 DEF SchedulerTyped, JobsTyped
        <3>2. D!Claimable(key)' <=> D!Claimable(key)
            BY <1>1 DEF D!Claimable
        <3> QED
            BY <1>1, <1>12, <3>1, <3>2 DEF Lapsed, x
    <2> QED
        BY <1>4, <1>6, <1>7, <1>8, <1>9, <1>12, <2>1 DEF Balanced, Owing, mine
<1> QED
    BY <1>5, <1>10, <1>11, <1>12

LEMMA LeaseBalanced ==
    ASSUME SchedulerTyped, SchedulerTyped', NEW key \in LedgerKeys,
           NEW k \in DOMAIN ledger, D!LeaseEnds(k)
    PROVE  Balanced(key)
<1>1. /\ UNCHANGED <<job, sent>> /\ DOMAIN ledger' = DOMAIN ledger
      /\ key \in DOMAIN ledger /\ key # k => ledger'[key] = ledger[key]
      /\ D!Count(key, excuse') = D!Count(key, excuse) + (IF key = k THEN 1 ELSE 0)
    BY LeaseEnding
<1>2. Open(key)' = Open(key) /\ D!Count(key, sent)' = D!Count(key, sent)
    BY <1>1 DEF Open
<1>3. Owing(key)' = Owing(key) /\ Owing(key) \in Nat /\ D!Count(key, excuse) \in Nat
    BY <1>2, OpenCounts, VisitCounts DEF Owing
<1>4. key # k => (Lapsed(key)' => Lapsed(key))
    BY <1>1 DEF Lapsed, D!Claimable
<1>5. D!Count(key, excuse)' = D!Count(key, excuse) + (IF key = k THEN 1 ELSE 0)
    BY <1>1
<1> QED
    BY <1>3, <1>4, <1>5 DEF Balanced

LEMMA RestartBalanced ==
    ASSUME SchedulerTyped, SchedulerTyped', NEW key \in LedgerKeys, D!Restart
    PROVE  Balanced(key)
<1> DEFINE mine == IF key \in {KeyOf(job[j]) : j \in Awake} THEN 1 ELSE 0
<1>1. /\ UNCHANGED sent /\ job' = [j \in Jobs |-> D!Idle] /\ DOMAIN ledger' = DOMAIN ledger
      /\ \A k \in DOMAIN ledger : /\ ledger'[k].status = ledger[k].status
                                  /\ ledger'[k].stale = (ledger[k].status = "sending")
      /\ D!Count(key, excuse') = D!Count(key, excuse) + mine
    BY Restarting
<1>2. Cardinality(Open(key)') = 0
    <2>1. Open(key)' = {}
        BY <1>1 DEF Open, Owes, D!Idle
    <2> QED
        BY <2>1, FS_EmptySet
<1>3. /\ D!Count(key, sent)' = D!Count(key, sent)
      /\ D!Count(key, excuse)' = D!Count(key, excuse) + mine
    BY <1>1
<1>4. /\ D!Count(key, sent) \in Nat /\ D!Count(key, excuse) \in Nat
      /\ Cardinality(Open(key)) \in Nat
    BY OpenCounts, VisitCounts
<1>5. mine = 0 /\ Lapsed(key)' => Lapsed(key)
    <2> SUFFICES ASSUME key \notin {KeyOf(job[j]) : j \in Awake}, Lapsed(key)'
                 PROVE  Lapsed(key)
        OBVIOUS
    <2>1. \A j \in Jobs : Holds(job[j]) => KeyOf(job[j]) # key
        <3> SUFFICES ASSUME NEW j \in Jobs, Holds(job[j]) PROVE j \in Awake
            OBVIOUS
        <3> QED
            BY DEF Holds, Awake
    <2>2. CASE key \notin DOMAIN ledger
        BY <2>2 DEF Lapsed, D!Claimable
    <2>3. CASE key \in DOMAIN ledger
        <3>1. ledger[key].status \in {"failed", "sending"}
            BY <1>1, <2>3 DEF Lapsed, D!Claimable
        <3> QED
            BY <2>1, <2>3, <3>1 DEF Lapsed, D!Claimable
    <2> QED
        BY <2>2, <2>3
<1>6. mine \in {0, 1}
    OBVIOUS
<1> HIDE DEF mine
<1> QED
    BY <1>2, <1>3, <1>4, <1>5, <1>6 DEF Balanced, Owing

(* The steps of the scheduler, by what they do.                            *)
Visits(j) ==
    \/ \E u \in Users : Ticks(j, u)
    \/ Reads(j) \/ D!SelectDormant(j) \/ D!Claim(j) \/ D!Build(j) \/ D!Send(j) \/ D!Stamp(j)
    \/ D!Finishes(j) \/ D!Throws(j)

LEMMA Steps ==
    ASSUME D!Next
    PROVE  \/ \E j \in Jobs : Visits(j)
           \/ \E key \in DOMAIN ledger : D!LeaseEnds(key)
           \/ \E u \in Users : PeopleMove(u) \/ D!WelcomeBack(u)
           \/ D!ScheduleWelcomeBackBroadcast \/ D!Restart \/ D!Time
BY DEF D!Next, D!Visit, Visits, Ticks, Reads, PeopleMove

LEMMA TypeStart ==
    ASSUME D!Init
    PROVE  SchedulerTyped
<1>1. clock \in Nat /\ due \in [Limits -> Nat]
    BY ServicesAssumption DEF D!Init, Limits
<1>2. user \in [Users -> UserRow] /\ market \in [Users -> Nat] /\ previous \in [Users -> Nat]
    BY DEF D!Init, UserRow
<1>3. known \in [Series -> [Users -> Nat]] /\ timers \subseteq Users
    BY DEF D!Init, Series
<1>4. JobsTyped
    BY DEF D!Init, JobsTyped, Sound
<1>5. LedgerTyped
    BY DEF D!Init, LedgerTyped
<1>6. IsABag(EmptyBag) /\ DOMAIN EmptyBag = {}
    BY DEF IsABag, EmptyBag, SetToBag
<1>7. D!EmptyBag = EmptyBag
    BY DEF D!EmptyBag, EmptyBag, D!SetToBag, SetToBag
<1>8. HistoryTyped
    BY <1>6, <1>7 DEF D!Init, HistoryTyped, Series
<1> QED
    BY <1>1, <1>2, <1>3, <1>4, <1>5, <1>8 DEF SchedulerTyped, PeopleTyped

LEMMA TypeStep ==
    ASSUME SchedulerTyped, D!Next
    PROVE  SchedulerTyped'
<1>1. ASSUME NEW j \in Jobs, Visits(j) PROVE SchedulerTyped'
    BY <1>1, TicksBegin, ReadsTyped, DormantRead, Claiming, Building, Sending, Stamping,
       Finishing, Throwing DEF Visits
<1> QED
    BY <1>1, Steps, LeaseEnding, PeopleMoving, Welcoming, Scheduling, Restarting, Timing

LEMMA DeliveryStart ==
    ASSUME D!Init
    PROVE  DeliveryInv
<1>1. \A key : Open(key) = {}
    BY DEF D!Init, Open, Owes, D!Idle
<1>2. \A key : D!Count(key, sent) = 0 /\ D!Count(key, excuse) = 0
    <2>1. DOMAIN D!EmptyBag = {}
        BY DEF D!EmptyBag, D!SetToBag
    <2> QED
        BY <2>1 DEF D!Init, D!Count, D!BagToSet
<1> QED
    BY <1>1, <1>2, FS_EmptySet DEF DeliveryInv, Owing

LEMMA DeliveryStep ==
    ASSUME SchedulerTyped, DeliveryInv, D!Next
    PROVE  DeliveryInv'
<1>1. SchedulerTyped'
    BY TypeStep
<1>2. ASSUME NEW j \in Jobs, D!Claim(j), Free(j) PROVE DeliveryInv'
    BY <1>1, <1>2, ClaimDelivers
<1>3. ASSUME NEW j \in Jobs, Visits(j), ~(D!Claim(j) /\ Free(j)), NEW key \in LedgerKeys
      PROVE  Balanced(key)
    BY <1>1, <1>3, ReadsBalanced, BuildBalanced, SendBalanced, FinishBalanced, ThrowBalanced
       DEF Visits
<1>4. ASSUME NEW k \in DOMAIN ledger, D!LeaseEnds(k), NEW key \in LedgerKeys
      PROVE  Balanced(key)
    BY <1>1, <1>4, LeaseBalanced
<1>5. ASSUME \/ D!ScheduleWelcomeBackBroadcast \/ D!Time
             \/ \E u \in Users : PeopleMove(u) \/ D!WelcomeBack(u),
             NEW key \in LedgerKeys
      PROVE  Balanced(key)
    <2>1. UNCHANGED <<ledger, job, excuse>>
        BY <1>5, PeopleMoving, Scheduling, Welcoming, Timing
    <2>2. D!Count(key, sent') = D!Count(key, sent)
        <3>1. UNCHANGED sent \/ \E u \in Users : D!WelcomeBack(u)
            BY <1>5, PeopleMoving, Scheduling, Timing
        <3>2. key[1] # "welcome"
            BY DEF LedgerKeys, Served
        <3> QED
            BY <3>1, <3>2, Welcoming
    <2> QED
        BY <2>1, <2>2, StillBalanced
<1>6. ASSUME D!Restart, NEW key \in LedgerKeys PROVE Balanced(key)
    BY <1>1, <1>6, RestartBalanced
<1> QED
    BY <1>1, <1>2, <1>3, <1>4, <1>5, <1>6, Steps, StayInBalance

-----------------------------------------------------------------------------
(* What a briefing says.                                                   *)

Calm(u) == \A k \in DOMAIN excuse : k[2] # u

LEMMA ExcusesStay ==
    ASSUME SchedulerTyped, D!Next
    PROVE  /\ DOMAIN excuse \subseteq DOMAIN excuse'
           /\ \A u : Calm(u)' => Calm(u)
           /\ \A j \in Jobs : D!Throws(j) => KeyOf(job[j]) \in DOMAIN excuse'
           /\ D!Restart => \A j \in Jobs : job[j].pc # "idle" => KeyOf(job[j]) \in DOMAIN excuse'
           /\ \A k \in DOMAIN ledger : D!LeaseEnds(k) => k \in DOMAIN excuse'
           /\ \A j \in Jobs : KeyOf(job[j])[2] = job[j].user
<1>1. ASSUME NEW j \in Jobs, Visits(j)
      PROVE  DOMAIN excuse \subseteq DOMAIN excuse'
    <2>1. CASE D!Build(j)
        <3>1. /\ IsABag(excuse)
              /\ \/ UNCHANGED excuse
                 \/ excuse' = D!Noted(excuse, {KeyOf(job[j])})
            BY <2>1, Building DEF SchedulerTyped, HistoryTyped
        <3>2. DOMAIN D!Noted(excuse, {KeyOf(job[j])}) = DOMAIN excuse \cup {KeyOf(job[j])}
            BY <3>1, BagNoting
        <3> QED
            BY <3>1, <3>2
    <2>2. CASE D!Throws(j)
        BY <2>2, Throwing
    <2>3. CASE ~(D!Build(j) \/ D!Throws(j))
        BY <1>1, <2>3, TicksBegin, ReadsMove, DormantRead, Claiming, Sending, Stamping,
           Finishing DEF Visits
    <2> QED
        BY <2>1, <2>2, <2>3
<1>2. DOMAIN excuse \subseteq DOMAIN excuse'
    BY <1>1, Steps, LeaseEnding, PeopleMoving, Welcoming, Scheduling, Restarting, Timing
<1>3. \A j : KeyOf(job[j])[2] = job[j].user
    BY DEF KeyOf
<1>4. \A j \in Jobs : D!Throws(j) => KeyOf(job[j]) \in DOMAIN excuse'
    BY Throwing
<1>5. D!Restart => \A j \in Jobs : job[j].pc # "idle" => KeyOf(job[j]) \in DOMAIN excuse'
    BY Restarting DEF Awake
<1>6. \A k \in DOMAIN ledger : D!LeaseEnds(k) => k \in DOMAIN excuse'
    BY LeaseEnding
<1> QED
    BY <1>2, <1>3, <1>4, <1>5, <1>6 DEF Calm

TellsOf(x, u, v) ==
    /\ x.pc = "send" /\ x.user = u /\ x.kind \in {"briefing", "resend"}
    /\ v \in (x.base + 1)..x.says

(* Each version that is known to a briefing was told, or a briefing that   *)
(* tells of it is on its way.                                              *)
NewsInv ==
    \A u \in Users : Calm(u) =>
        \A v \in 1..known["briefing"][u] :
            v \in told["briefing"][u] \/ \E j \in Jobs : TellsOf(job[j], u, v)

LEMMA NewsStep ==
    ASSUME SchedulerTyped, NewsInv, D!Next
    PROVE  NewsInv'
<1> SUFFICES ASSUME NEW u \in Users, Calm(u)', NEW v \in (1..known["briefing"][u])'
             PROVE  v \in told'["briefing"][u] \/ \E j \in Jobs : TellsOf(job'[j], u, v)
    BY DEF NewsInv
<1>1. /\ Calm(u)
      /\ \A j \in Jobs : D!Throws(j) => job[j].user # u
      /\ D!Restart => \A j \in Jobs : job[j].pc # "idle" => job[j].user # u
    BY ExcusesStay DEF Calm
<1>2. v \in 1..known["briefing"][u] =>
          v \in told["briefing"][u] \/ \E j \in Jobs : TellsOf(job[j], u, v)
    BY <1>1 DEF NewsInv
<1>3. \A j \in Jobs, i \in Jobs : job' = [job EXCEPT ![j] = job'[j]] /\ i # j => job'[i] = job[i]
    BY DEF SchedulerTyped, JobsTyped
<1>4. ASSUME NEW j \in Jobs, job' = [job EXCEPT ![j] = job'[j]], UNCHANGED <<known, told>>,
             ~TellsOf(job[j], u, v)
      PROVE  v \in told'["briefing"][u] \/ \E i \in Jobs : TellsOf(job'[i], u, v)
    <2>1. \A i \in Jobs : TellsOf(job[i], u, v) => TellsOf(job'[i], u, v)
        BY <1>3, <1>4
    <2> QED
        BY <1>2, <1>4, <2>1
<1>5. ASSUME NEW j \in Jobs, Reads(j) \/ D!SelectDormant(j) \/ D!Claim(j) \/ D!Stamp(j)
                             \/ D!Finishes(j) \/ \E w \in Users : Ticks(j, w)
      PROVE  v \in told'["briefing"][u] \/ \E i \in Jobs : TellsOf(job'[i], u, v)
    <2>1. /\ job' = [job EXCEPT ![j] = job'[j]] /\ UNCHANGED <<known, told>>
          /\ job[j].pc # "send"
        BY <1>5, TicksBegin, ReadsMove, DormantRead, Claiming, Stamping, Finishing DEF Settles
    <2> QED
        BY <1>4, <2>1 DEF TellsOf
<1>6. ASSUME NEW j \in Jobs, D!Build(j)
      PROVE  v \in told'["briefing"][u] \/ \E i \in Jobs : TellsOf(job'[i], u, v)
    <2>1. /\ job' = [job EXCEPT ![j] = job'[j]] /\ job[j].pc = "build" /\ UNCHANGED told
          /\ job'[j].kind = job[j].kind /\ job'[j].user = job[j].user
          /\ job'[j].pc = D!AfterBuild(j) /\ job'[j].says = market[job[j].user]
          /\ job'[j].base = known[D!Series(job[j].kind)][job[j].user]
          /\ known' = [known EXCEPT ![D!Series(job[j].kind)][job[j].user] = market[job[j].user]]
          /\ excuse' = IF job[j].kind = "preview" THEN D!Noted(excuse, {KeyOf(job[j])})
                       ELSE excuse
        BY <1>6, Building
    <2>2. /\ known \in [Series -> [Users -> Nat]] /\ market \in [Users -> Nat]
          /\ job[j] \in Visiting /\ StageFits(job[j])
        BY <2>1, VisitKnown DEF SchedulerTyped, PeopleTyped
    <2>3. \A i \in Jobs : TellsOf(job[i], u, v) => TellsOf(job'[i], u, v)
        BY <1>3, <2>1 DEF TellsOf
    <2>4. CASE v \in 1..known["briefing"][u]
        BY <1>2, <2>1, <2>3, <2>4
    <2>5. CASE v \notin 1..known["briefing"][u]
        <3>1. job[j].user = u /\ D!Series(job[j].kind) = "briefing"
            BY <2>1, <2>2, <2>5 DEF Series, D!Series
        <3>2. job[j].kind # "preview"
            <4> SUFFICES ASSUME job[j].kind = "preview" PROVE FALSE
                OBVIOUS
            <4>1. KeyOf(job[j]) \in DOMAIN excuse'
                <5>1. excuse' = D!Noted(excuse, {KeyOf(job[j])}) /\ IsABag(excuse)
                    BY <2>1 DEF SchedulerTyped, HistoryTyped
                <5>2. DOMAIN D!Noted(excuse, {KeyOf(job[j])}) = DOMAIN excuse \cup {KeyOf(job[j])}
                    BY <5>1, BagNoting
                <5> QED
                    BY <5>1, <5>2
            <4>2. KeyOf(job[j])[2] = u
                BY <3>1 DEF KeyOf
            <4> QED
                BY <4>1, <4>2 DEF Calm
        <3>3. job[j].kind \in {"briefing", "resend"} /\ job'[j].pc = "send"
            BY <2>1, <2>2, <3>1, <3>2 DEF D!Series, D!AfterBuild, StageFits, Visiting
        <3>4. known'["briefing"][u] = market[u]
            BY <2>1, <2>2, <3>1 DEF Series
        <3>5. v \in (job'[j].base + 1)..job'[j].says
            <4>1. job'[j].base = known["briefing"][u] /\ job'[j].says = market[u]
                BY <2>1, <3>1
            <4>2. known["briefing"][u] \in Nat /\ market[u] \in Nat
                BY <2>2 DEF Series
            <4> QED
                BY <2>5, <3>4, <4>1, <4>2
        <3> QED
            BY <2>1, <3>1, <3>3, <3>5 DEF TellsOf
    <2> QED
        BY <2>4, <2>5
<1>7. ASSUME NEW j \in Jobs, D!Send(j)
      PROVE  v \in told'["briefing"][u] \/ \E i \in Jobs : TellsOf(job'[i], u, v)
    <2>1. /\ job' = [job EXCEPT ![j] = job'[j]] /\ job[j].pc = "send" /\ UNCHANGED known
          /\ IF job[j].kind = "dormant" THEN UNCHANGED told
             ELSE told' = [told EXCEPT ![Told(j)][job[j].user] =
                                           @ \cup (job[j].base + 1)..job[j].says]
        BY <1>7, Sending, Reaching
    <2>2. told \in [Series -> [Users -> SUBSET Int]]
        BY DEF SchedulerTyped, HistoryTyped
    <2>3. told["briefing"][u] \subseteq told'["briefing"][u]
        BY <2>1, <2>2 DEF Series
    <2>4. TellsOf(job[j], u, v) => v \in told'["briefing"][u]
        BY <2>1, <2>2 DEF TellsOf, Told, D!Series, Series
    <2>5. \A i \in Jobs : i # j /\ TellsOf(job[i], u, v) => TellsOf(job'[i], u, v)
        BY <1>3, <2>1
    <2> QED
        BY <1>2, <2>1, <2>3, <2>4, <2>5
<1>8. ASSUME NEW j \in Jobs, D!Throws(j)
      PROVE  v \in told'["briefing"][u] \/ \E i \in Jobs : TellsOf(job'[i], u, v)
    <2>1. /\ job' = [job EXCEPT ![j] = job'[j]] /\ UNCHANGED known /\ job[j].user # u
          /\ \/ job[j].pc = "send" /\ D!Reaches(j)
             \/ UNCHANGED <<sent, nudged, told>>
        BY <1>1, <1>8, Throwing
    <2>2. told["briefing"][u] \subseteq told'["briefing"][u]
        <3>1. CASE job[j].pc = "send" /\ D!Reaches(j)
            <4>1. \/ UNCHANGED told
                  \/ told' = [told EXCEPT ![Told(j)][job[j].user] =
                                              @ \cup (job[j].base + 1)..job[j].says]
                BY <3>1, Reaching
            <4>2. told \in [Series -> [Users -> SUBSET Int]]
                BY DEF SchedulerTyped, HistoryTyped
            <4> QED
                BY <2>1, <4>1, <4>2 DEF Series
        <3> QED
            BY <2>1, <3>1
    <2>3. \A i \in Jobs : TellsOf(job[i], u, v) => TellsOf(job'[i], u, v)
        BY <1>3, <2>1 DEF TellsOf
    <2> QED
        BY <1>2, <2>1, <2>2, <2>3
<1>9. ASSUME D!Restart
      PROVE  v \in told'["briefing"][u]
    <2>1. UNCHANGED <<known, told>>
        BY <1>9, Restarting
    <2>2. \A j \in Jobs : ~TellsOf(job[j], u, v)
        BY <1>1, <1>9 DEF TellsOf
    <2> QED
        BY <1>2, <2>1, <2>2
<1>10. ASSUME UNCHANGED <<known, told, job>>
       PROVE  v \in told'["briefing"][u] \/ \E i \in Jobs : TellsOf(job'[i], u, v)
    BY <1>2, <1>10
<1>11. \/ \E k \in DOMAIN ledger : D!LeaseEnds(k)
       \/ \E w \in Users : PeopleMove(w) \/ D!WelcomeBack(w)
       \/ D!ScheduleWelcomeBackBroadcast \/ D!Time
       => UNCHANGED <<known, told, job>>
    BY LeaseEnding, PeopleMoving, Welcoming, Scheduling, Timing
<1>12. ASSUME NEW j \in Jobs, Visits(j)
       PROVE  v \in told'["briefing"][u] \/ \E i \in Jobs : TellsOf(job'[i], u, v)
    BY <1>5, <1>6, <1>7, <1>8, <1>12 DEF Visits
<1> QED
    BY <1>9, <1>10, <1>11, <1>12, Steps

-----------------------------------------------------------------------------
(* Dormant messages: when they are sent.                                   *)

(* What the checks before the claim have established.                      *)
Checked(x) ==
    /\ x.kind = "briefing" /\ x.pc # "select" => D!Slot(x.now) \in MorningSlots
    /\ x.kind = "dormant" /\ x.pc \notin {"select", "due"} =>
          /\ D!Slot(x.now) \in DormantSlots
          /\ x.row.nudged >= 0 => x.now - x.row.nudged >= DormantRepeat

TimelyInv ==
    \A j \in Jobs : job[j].pc # "idle" =>
        /\ job[j].now <= clock /\ clock <= job[j].now + MaxLag
        /\ Checked(job[j])

LEMMA StaysTimely ==
    ASSUME SchedulerTyped, TimelyInv, UNCHANGED clock, NEW j \in Jobs,
           job' = [job EXCEPT ![j] = job'[j]],
           job'[j].pc # "idle" => /\ Checked(job'[j])
                                  /\ \/ job'[j].now = clock
                                     \/ job[j].pc # "idle" /\ job'[j].now = job[j].now
    PROVE  TimelyInv'
<1>1. clock \in Nat /\ MaxLag \in Nat
    BY ServicesAssumption DEF SchedulerTyped, PeopleTyped
<1>2. ASSUME NEW i \in Jobs, i # j PROVE job'[i] = job[i]
    BY <1>2 DEF SchedulerTyped, JobsTyped
<1>3. ASSUME NEW i \in Jobs, job'[i].pc # "idle"
      PROVE  job'[i].now <= clock /\ clock <= job'[i].now + MaxLag /\ Checked(job'[i])
    <2>1. CASE i # j
        BY <1>2, <1>3, <2>1 DEF TimelyInv
    <2>2. CASE i = j
        BY <1>1, <1>3, <2>2 DEF TimelyInv
    <2> QED
        BY <2>1, <2>2
<1>4. UNCHANGED clock
    OBVIOUS
<1> QED
    BY <1>3, <1>4 DEF TimelyInv, Checked, D!Slot

LEMMA TimelyVisit ==
    ASSUME SchedulerTyped, TimelyInv, NEW j \in Jobs, Visits(j)
    PROVE  TimelyInv'
<1> DEFINE x == job[j]
           y == job'[j]
<1>1. CASE \E u \in Users : Ticks(j, u)
    <2>1. /\ UNCHANGED clock /\ job' = [job EXCEPT ![j] = job'[j]]
          /\ y.pc = "select" /\ y.now = clock
        BY <1>1, TicksBegin
    <2>2. Checked(y)
        BY <2>1 DEF Checked
    <2> QED
        BY <2>1, <2>2, StaysTimely
<1>2. ASSUME ~\E u \in Users : Ticks(j, u)
      PROVE  x.pc # "idle" /\ x \in Visiting /\ StageFits(x) /\ Checked(x)
    <2>1. x.pc # "idle"
        BY <1>2, ReadsMove, DormantRead, Claiming, Building, Sending, Stamping, Finishing,
           Throwing DEF Visits, Settles
    <2> QED
        BY <2>1, VisitKnown DEF TimelyInv
<1>3. ASSUME UNCHANGED clock, job' = [job EXCEPT ![j] = job'[j]], x.pc # "idle",
             Turned(x, y)
      PROVE  TimelyInv'
    <2>1. y.pc # "idle" => Checked(y) /\ y.now = x.now
        BY <1>3 DEF Turned, Checked, D!Idle
    <2> QED
        BY <1>3, <2>1, StaysTimely
<1>4. ASSUME UNCHANGED clock, job' = [job EXCEPT ![j] = job'[j]], x.pc # "idle",
             x.kind = "briefing" => x.pc # "select",
             x.kind = "dormant" => x.pc \notin {"select", "due"}, SameVisit(x, y)
      PROVE  TimelyInv'
    <2>1. Checked(x)
        BY <1>4 DEF TimelyInv
    <2>2. Checked(y) /\ y.now = x.now
        BY <1>4, <2>1 DEF Checked, SameVisit
    <2> QED
        BY <1>4, <2>2, StaysTimely
<1>5. CASE Reads(j)
    <2>1. /\ UNCHANGED clock /\ job' = [job EXCEPT ![j] = job'[j]]
          /\ x.pc \in {"select", "due", "briefed", "over"}
          /\ \/ Turned(x, y)
             \/ /\ SameVisit(x, y)
                /\ \/ x.kind = "briefing" /\ y.pc = "claim" /\ D!DueBriefing(j)
                   \/ x.kind \in {"resend", "preview", "digest"} /\ y.pc = "build"
                   \/ x.pc = "due" /\ y.pc = "briefed" /\ D!DueDormant(j)
                   \/ x.pc = "briefed" /\ y.pc = "claim"
        BY <1>5, ReadsMove
    <2>2. StageFits(x) /\ Checked(x)
        BY <2>1, VisitKnown DEF TimelyInv
    <2>3. CASE Turned(x, y)
        BY <1>3, <2>1, <2>3
    <2>4. CASE SameVisit(x, y) /\ x.kind = "briefing" /\ D!DueBriefing(j)
        BY <2>1, <2>4, StaysTimely DEF SameVisit, Checked, D!DueBriefing
    <2>5. CASE SameVisit(x, y) /\ x.kind \in {"resend", "preview", "digest"}
        BY <2>1, <2>5, StaysTimely DEF SameVisit, Checked
    <2>6. CASE SameVisit(x, y) /\ x.pc = "due" /\ D!DueDormant(j)
        <3>1. Checked(y) /\ y.now = x.now
            BY <2>2, <2>6 DEF SameVisit, Checked, D!DueDormant, StageFits
        <3> QED
            BY <2>1, <3>1, StaysTimely
    <2>7. CASE SameVisit(x, y) /\ x.pc = "briefed"
        BY <1>4, <2>1, <2>7
    <2> QED
        BY <2>1, <2>3, <2>4, <2>5, <2>6, <2>7
<1>6. CASE D!SelectDormant(j)
    <2>1. /\ UNCHANGED clock /\ job' = [job EXCEPT ![j] = job'[j]] /\ x.pc = "select"
          /\ y.pc = "due" /\ y.kind = "dormant" /\ y.now = x.now
        BY <1>6, DormantRead
    <2>2. Checked(y)
        BY <2>1 DEF Checked
    <2> QED
        BY <2>1, <2>2, StaysTimely
<1>7. CASE D!Claim(j)
    BY <1>3, <1>4, <1>7, Claiming
<1>8. CASE D!Build(j)
    <2>1. /\ UNCHANGED clock /\ job' = [job EXCEPT ![j] = job'[j]] /\ x.pc = "build"
          /\ y.kind = x.kind /\ y.now = x.now
        BY <1>8, Building
    <2>2. StageFits(x) /\ Checked(x)
        BY <2>1, VisitKnown DEF TimelyInv
    <2>3. Checked(y)
        BY <2>1, <2>2 DEF StageFits, Checked
    <2> QED
        BY <2>1, <2>3, StaysTimely
<1>9. CASE D!Send(j) \/ D!Stamp(j)
    BY <1>4, <1>9, Sending, Stamping
<1>10. CASE D!Finishes(j)
    BY <1>3, <1>10, Finishing DEF Settles
<1>11. CASE D!Throws(j)
    <2>1. /\ UNCHANGED clock /\ job' = [job EXCEPT ![j] = job'[j]] /\ x.pc # "idle"
          /\ IF D!Caught(j) THEN SameVisit(x, y) ELSE y = D!Idle
        BY <1>11, Throwing
    <2>2. CASE D!Caught(j)
        <3>1. /\ x.kind = "briefing" => x.pc # "select"
              /\ x.kind = "dormant" => x.pc \notin {"select", "due"}
            BY <2>2 DEF D!Caught
        <3> QED
            BY <1>4, <2>1, <2>2, <3>1
    <2>3. CASE ~D!Caught(j)
        <3>1. y.pc = "idle"
            BY <2>1, <2>3 DEF D!Idle
        <3> QED
            BY <2>1, <3>1, StaysTimely
    <2> QED
        BY <2>2, <2>3
<1> QED
    BY <1>1, <1>5, <1>6, <1>7, <1>8, <1>9, <1>10, <1>11 DEF Visits

LEMMA TimelyStep ==
    ASSUME SchedulerTyped, TimelyInv, D!Next
    PROVE  TimelyInv'
<1>1. CASE D!Restart
    BY <1>1, Restarting DEF TimelyInv, D!Idle
<1>2. CASE D!Time
    <2>1. /\ UNCHANGED job /\ clock' = clock + 1
          /\ \A j \in Jobs : job[j].pc # "idle" => clock < job[j].now + MaxLag
        BY <1>2, Timing
    <2>2. \A j \in Jobs : job[j].pc # "idle" => job[j].now \in Nat
        BY VisitKnown DEF Visiting
    <2>3. clock \in Nat /\ MaxLag \in Nat
        BY ServicesAssumption DEF SchedulerTyped, PeopleTyped
    <2> QED
        BY <2>1, <2>2, <2>3 DEF TimelyInv, Checked, D!Slot
<1>3. ASSUME UNCHANGED <<clock, job>> PROVE TimelyInv'
    BY <1>3 DEF TimelyInv, Checked, D!Slot
<1>4. \/ \E k \in DOMAIN ledger : D!LeaseEnds(k)
      \/ \E w \in Users : PeopleMove(w) \/ D!WelcomeBack(w)
      \/ D!ScheduleWelcomeBackBroadcast
      => UNCHANGED <<clock, job>>
    BY LeaseEnding, PeopleMoving, Welcoming, Scheduling
<1> QED
    BY <1>1, <1>2, <1>3, <1>4, TimelyVisit, Steps

(* What the ledger and the rows of the users say of the messages sent.     *)
Recorded(u) ==
    /\ \A n \in nudged[u] : /\ n <= clock /\ D!Slot(n) \in DormantSlots
                            /\ <<"dormant", u, D!Day(n)>> \in DOMAIN ledger
    /\ \A d \in Nat : <<"dormant", u, d>> \in DOMAIN sent => \E n \in nudged[u] : D!Day(n) = d
    /\ \A d \in Nat :
           <<"briefing", u, d>> \in DOMAIN sent => <<"briefing", u, d>> \in DOMAIN ledger
    /\ user[u].nudged \in nudged[u] \cup {-1}

RecordInv ==
    /\ \A u \in Users : Recorded(u)
    /\ \A j \in Jobs : job[j].pc = "stamp" => job[j].now \in nudged[job[j].user]

LEMMA StaysRecorded ==
    ASSUME SchedulerTyped, SchedulerTyped', RecordInv, UNCHANGED nudged, clock <= clock',
           DOMAIN ledger \subseteq DOMAIN ledger',
           \A u \in Users : user'[u].nudged = user[u].nudged,
           \A k \in DOMAIN sent' : k \in DOMAIN sent \/ k[1] = "welcome",
           \A j \in Jobs : job'[j].pc = "stamp" => job'[j] = job[j]
    PROVE  RecordInv'
<1>1. clock \in Nat /\ clock' \in Nat /\ nudged \in [Users -> SUBSET Nat]
    BY DEF SchedulerTyped, PeopleTyped, HistoryTyped
<1>2. ASSUME NEW u \in Users PROVE Recorded(u)'
    <2>1. Recorded(u)
        BY DEF RecordInv
    <2>2. \A n \in nudged'[u] : /\ n <= clock' /\ D!Slot(n) \in DormantSlots
                                /\ <<"dormant", u, D!Day(n)>> \in DOMAIN ledger'
        BY <1>1, <2>1 DEF Recorded
    <2>3. \A d \in Nat :
              <<"dormant", u, d>> \in DOMAIN sent' => <<"dormant", u, d>> \in DOMAIN sent
        OBVIOUS
    <2>4. \A d \in Nat :
              <<"briefing", u, d>> \in DOMAIN sent' => <<"briefing", u, d>> \in DOMAIN sent
        OBVIOUS
    <2>5. /\ \A d \in Nat : <<"dormant", u, d>> \in DOMAIN sent' =>
                                \E n \in nudged'[u] : D!Day(n) = d
          /\ \A d \in Nat : <<"briefing", u, d>> \in DOMAIN sent' =>
                                <<"briefing", u, d>> \in DOMAIN ledger'
          /\ user'[u].nudged \in nudged'[u] \cup {-1}
        BY <2>1, <2>3, <2>4 DEF Recorded
    <2> QED
        BY <2>2, <2>5 DEF Recorded, D!Slot, D!Day
<1>3. \A j \in Jobs : job'[j].pc = "stamp" => job'[j].now \in nudged'[job'[j].user]
    BY DEF RecordInv
<1> QED
    BY <1>2, <1>3 DEF RecordInv

LEMMA ReachRecorded ==
    ASSUME SchedulerTyped, SchedulerTyped', TimelyInv, RecordInv,
           UNCHANGED <<clock, ledger, user>>,
           NEW j \in Jobs, job[j].pc = "send", D!Reaches(j),
           \A i \in Jobs : job'[i].pc = "stamp" =>
               \/ job'[i] = job[i]
               \/ /\ job'[i].user = job[j].user /\ job'[i].now = job[j].now
                  /\ job[j].kind = "dormant"
    PROVE  RecordInv'
<1> DEFINE x == job[j]
           w == x.user
           day == D!Day(x.now)
<1>1. /\ x \in Visiting /\ StageFits(x) /\ KeyOf(x) = <<x.kind, w, day>>
      /\ Holds(x) => KeyOf(x) \in DOMAIN ledger
      /\ x.now <= clock /\ Checked(x)
    BY VisitKnown DEF TimelyInv, KeyOf
<1>2. /\ DOMAIN sent' = DOMAIN sent \cup {KeyOf(x)}
      /\ nudged' = IF x.kind = "dormant" THEN [nudged EXCEPT ![w] = @ \cup {x.now}] ELSE nudged
    BY Reaching
<1>3. nudged \in [Users -> SUBSET Nat] /\ w \in Users /\ x.now \in Nat
    BY <1>1 DEF SchedulerTyped, HistoryTyped, Visiting
<1>4. x.kind \in Served => KeyOf(x) \in DOMAIN ledger
    BY <1>1 DEF Holds
<1>5. x.kind = "dormant" => D!Slot(x.now) \in DormantSlots
    BY <1>1 DEF Checked
<1> HIDE DEF x, w, day
<1>6. ASSUME NEW u \in Users PROVE Recorded(u)'
    <2>1. Recorded(u)
        BY DEF RecordInv
    <2>2. \A n \in nudged'[u] : \/ n \in nudged[u]
                                \/ n = x.now /\ x.kind = "dormant" /\ u = w
        BY <1>2, <1>3
    <2>3. nudged[u] \subseteq nudged'[u]
        BY <1>2, <1>3
    <2>4. \A n \in nudged'[u] : /\ n <= clock' /\ D!Slot(n) \in DormantSlots
                                /\ <<"dormant", u, D!Day(n)>> \in DOMAIN ledger'
        <3> TAKE n \in nudged'[u]
        <3>1. CASE n \in nudged[u]
            BY <2>1, <3>1 DEF Recorded
        <3>2. CASE n = x.now /\ x.kind = "dormant" /\ u = w
            BY <1>1, <1>4, <1>5, <3>2 DEF Served, day
        <3> QED
            BY <2>2, <3>1, <3>2
    <2>5. \A d \in Nat : <<"dormant", u, d>> \in DOMAIN sent' =>
                             \E n \in nudged'[u] : D!Day(n) = d
        <3> SUFFICES ASSUME NEW d \in Nat, <<"dormant", u, d>> \in DOMAIN sent'
                     PROVE  \E n \in nudged'[u] : D!Day(n) = d
            OBVIOUS
        <3>1. CASE <<"dormant", u, d>> \in DOMAIN sent
            BY <2>1, <2>3, <3>1 DEF Recorded
        <3>2. CASE <<"dormant", u, d>> = KeyOf(x)
            <4>1. x.kind = "dormant" /\ u = w /\ d = day
                BY <1>1, <3>2
            <4>2. x.now \in nudged'[u]
                BY <1>2, <1>3, <4>1
            <4> QED
                BY <4>1, <4>2 DEF day
        <3> QED
            BY <1>2, <3>1, <3>2
    <2>6. \A d \in Nat : <<"briefing", u, d>> \in DOMAIN sent' =>
                             <<"briefing", u, d>> \in DOMAIN ledger'
        <3> SUFFICES ASSUME NEW d \in Nat, <<"briefing", u, d>> \in DOMAIN sent'
                     PROVE  <<"briefing", u, d>> \in DOMAIN ledger
            OBVIOUS
        <3>1. CASE <<"briefing", u, d>> \in DOMAIN sent
            BY <2>1, <3>1 DEF Recorded
        <3>2. CASE <<"briefing", u, d>> = KeyOf(x)
            <4>1. x.kind = "briefing"
                BY <1>1, <3>2
            <4> QED
                BY <1>4, <3>2, <4>1 DEF Served
        <3> QED
            BY <1>2, <3>1, <3>2
    <2>7. user'[u].nudged \in nudged'[u] \cup {-1}
        BY <2>1, <2>3 DEF Recorded
    <2> QED
        BY <2>4, <2>5, <2>6, <2>7 DEF Recorded, D!Slot, D!Day
<1>7. ASSUME NEW i \in Jobs, job'[i].pc = "stamp"
      PROVE  job'[i].now \in nudged'[job'[i].user]
    <2>1. CASE job'[i] = job[i]
        <3>1. job[i].now \in nudged[job[i].user] /\ job[i].user \in Users
            BY <1>7, <2>1, VisitKnown DEF RecordInv, Visiting
        <3> QED
            BY <1>2, <1>3, <2>1, <3>1
    <2>2. CASE job'[i].user = w /\ job'[i].now = x.now /\ x.kind = "dormant"
        BY <1>2, <1>3, <2>2
    <2> QED
        BY <1>7, <2>1, <2>2 DEF x, w
<1> QED
    BY <1>6, <1>7 DEF RecordInv

LEMMA RecordStep ==
    ASSUME SchedulerTyped, TimelyInv, RecordInv, D!Next
    PROVE  RecordInv'
<1>1. SchedulerTyped'
    BY TypeStep
<1>2. \A j, i \in Jobs : job' = [job EXCEPT ![j] = job'[j]] /\ i # j => job'[i] = job[i]
    BY DEF SchedulerTyped, JobsTyped
<1>3. clock \in Nat
    BY DEF SchedulerTyped, PeopleTyped
<1>4. ASSUME NEW j \in Jobs, UNCHANGED <<clock, user, sent, nudged>>,
             DOMAIN ledger \subseteq DOMAIN ledger', job' = [job EXCEPT ![j] = job'[j]],
             job'[j].pc # "stamp"
      PROVE  RecordInv'
    BY <1>1, <1>2, <1>3, <1>4, StaysRecorded
<1>5. ASSUME NEW j \in Jobs, Visits(j) PROVE RecordInv'
    <2>1. CASE D!Send(j)
        <3>1. /\ UNCHANGED <<clock, user, ledger>> /\ D!Reaches(j) /\ job[j].pc = "send"
              /\ job' = [job EXCEPT ![j] = job'[j]] /\ SameVisit(job[j], job'[j])
              /\ job'[j].pc = IF job[j].kind = "dormant" THEN "stamp" ELSE "finish"
            BY <2>1, Sending
        <3>2. \A i \in Jobs : job'[i].pc = "stamp" =>
                  \/ job'[i] = job[i]
                  \/ /\ job'[i].user = job[j].user /\ job'[i].now = job[j].now
                     /\ job[j].kind = "dormant"
            BY <1>2, <3>1 DEF SameVisit
        <3> QED
            BY <1>1, <3>1, <3>2, ReachRecorded
    <2>2. CASE D!Throws(j)
        <3>1. /\ UNCHANGED <<clock, user, ledger>> /\ job' = [job EXCEPT ![j] = job'[j]]
              /\ \/ job[j].pc = "send" /\ D!Reaches(j)
                 \/ UNCHANGED <<sent, nudged, told>>
              /\ IF D!Caught(j) THEN SameVisit(job[j], job'[j]) /\ job'[j].pc = "fail"
                 ELSE job'[j] = D!Idle
            BY <2>2, Throwing
        <3>2. \A i \in Jobs : job'[i].pc = "stamp" => job'[i] = job[i]
            BY <1>2, <3>1 DEF D!Idle
        <3> QED
            <4>1. CASE job[j].pc = "send" /\ D!Reaches(j)
                BY <1>1, <3>1, <3>2, <4>1, ReachRecorded
            <4>2. CASE UNCHANGED <<sent, nudged>>
                <5>1. job'[j].pc # "stamp"
                    BY <3>1 DEF D!Idle
                <5> QED
                    BY <1>4, <3>1, <4>2, <5>1
            <4> QED
                BY <3>1, <4>1, <4>2
    <2>3. CASE D!Stamp(j)
        <3>1. /\ UNCHANGED <<clock, ledger, sent, nudged>> /\ job[j].pc = "stamp"
              /\ job' = [job EXCEPT ![j] = job'[j]] /\ job'[j].pc = "finish"
              /\ user' = [user EXCEPT ![job[j].user].nudged = job[j].now]
            BY <2>3, Stamping
        <3>2. job[j].now \in nudged[job[j].user] /\ job[j].user \in Users
            BY <3>1, VisitKnown DEF RecordInv, Visiting
        <3>3. \A u \in Users : user'[u].nudged \in {user[u].nudged}
                                   \cup (IF u = job[j].user THEN {job[j].now} ELSE {})
            <4>1. user \in [Users -> UserRow] /\ user[job[j].user] \in UserRow
                BY <3>2 DEF SchedulerTyped, PeopleTyped
            <4> QED
                BY <3>1, <3>2, <4>1 DEF UserRow
        <3>4. \A u \in Users : Recorded(u)'
            BY <3>1, <3>2, <3>3 DEF RecordInv, Recorded, D!Slot, D!Day
        <3>5. \A i \in Jobs : job'[i].pc = "stamp" => job'[i] = job[i]
            BY <1>2, <3>1
        <3> QED
            BY <3>1, <3>4, <3>5 DEF RecordInv
    <2>4. CASE Reads(j)
        BY <1>4, <2>4, ReadsMove DEF Turned, D!Idle
    <2>5. CASE D!Finishes(j)
        <3>1. DOMAIN ledger \subseteq DOMAIN ledger'
            BY <2>5, Finishing, Settling
        <3> QED
            BY <1>4, <2>5, <3>1, Finishing DEF Turned, D!Idle
    <2>6. CASE D!Claim(j)
        <3>1. /\ UNCHANGED <<clock, user, sent, nudged>> /\ job' = [job EXCEPT ![j] = job'[j]]
              /\ DOMAIN ledger \subseteq DOMAIN ledger'
              /\ Turned(job[j], job'[j]) \/ job'[j].pc = D!AfterClaim(j)
            BY <2>6, Claiming
        <3>2. job'[j].pc # "stamp"
            BY <3>1 DEF Turned, D!Idle, D!AfterClaim
        <3> QED
            BY <1>4, <3>1, <3>2
    <2>7. CASE D!Build(j)
        <3>1. /\ UNCHANGED <<clock, user, sent, nudged, ledger>>
              /\ job' = [job EXCEPT ![j] = job'[j]] /\ job'[j].pc = D!AfterBuild(j)
            BY <2>7, Building
        <3>2. D!AfterBuild(j) # "stamp"
            BY DEF D!AfterBuild
        <3> QED
            BY <1>4, <3>1, <3>2
    <2>8. CASE D!SelectDormant(j)
        BY <1>4, <2>8, DormantRead
    <2>9. ASSUME NEW u \in Users, Ticks(j, u) PROVE RecordInv'
        <3>1. /\ UNCHANGED <<clock, user, sent, nudged, ledger>>
              /\ job' = [job EXCEPT ![j] = job'[j]] /\ job'[j].pc = "select"
            BY <2>9, TicksBegin
        <3> QED
            BY <1>4, <3>1
    <2> QED
        BY <1>5, <2>1, <2>2, <2>3, <2>4, <2>5, <2>6, <2>7, <2>8, <2>9 DEF Visits
<1>6. ASSUME NEW k \in DOMAIN ledger, D!LeaseEnds(k) PROVE RecordInv'
    <2>1. UNCHANGED <<clock, user, sent, nudged, job>> /\ DOMAIN ledger' = DOMAIN ledger
        BY <1>6, LeaseEnding
    <2> QED
        BY <1>1, <1>3, <2>1, StaysRecorded
<1>7. ASSUME NEW u \in Users, PeopleMove(u) PROVE RecordInv'
    BY <1>1, <1>3, <1>7, PeopleMoving, StaysRecorded
<1>8. ASSUME NEW u \in Users, D!WelcomeBack(u) PROVE RecordInv'
    <2>1. DOMAIN sent' = DOMAIN sent \cup {<<"welcome", u, D!Day(clock)>>}
        BY <1>8, Welcoming
    <2>2. <<"welcome", u, D!Day(clock)>>[1] = "welcome"
        OBVIOUS
    <2>3. \A k \in DOMAIN sent' : k \in DOMAIN sent \/ k[1] = "welcome"
        BY <2>1, <2>2
    <2>4. UNCHANGED <<clock, user, ledger, job, nudged>>
        BY <1>8, Welcoming
    <2> QED
        BY <1>1, <1>3, <2>3, <2>4, StaysRecorded
<1>9. CASE D!ScheduleWelcomeBackBroadcast
    BY <1>1, <1>3, <1>9, Scheduling, StaysRecorded
<1>10. CASE D!Restart
    BY <1>1, <1>3, <1>10, Restarting, StaysRecorded DEF D!Idle
<1>11. CASE D!Time
    BY <1>1, <1>3, <1>11, Timing, StaysRecorded
<1> QED
    BY <1>5, <1>6, <1>7, <1>8, <1>9, <1>10, <1>11, Steps

(* A morning's visit, and a visit with a dormant message, are over before  *)
(* the hours of the next dormant message begin.                            *)
VisitsAreShort ==
    /\ \A m \in MorningSlots, d \in DormantSlots : m + MaxLag < d
    /\ \A d, e \in DormantSlots : d + MaxLag < e + Slots

(* What holds of the messages to u as long as nothing has failed for u:    *)
Nudging(x, u) == x.pc # "idle" /\ x.kind = "dormant" /\ x.user = u

(* a delivery is under way or was made,                                    *)
Delivered(u) ==
    /\ \A k \in DOMAIN ledger : k[2] = u =>
          /\ ledger[k].status # "failed" /\ ~ledger[k].stale
          /\ ledger[k].status = "sending" => \E j \in Jobs : Holds(job[j]) /\ KeyOf(job[j]) = k
    /\ \A j \in Jobs : job[j].pc = "fail" => job[j].user # u

(* no two visits are about to send the same dormant message, and none that *)
(* was sent,                                                               *)
NudgesOnce(u) ==
    /\ \A i, j \in Jobs : /\ Nudging(job[i], u) /\ Holds(job[i])
                          /\ Nudging(job[j], u) /\ Holds(job[j])
                          /\ KeyOf(job[i]) = KeyOf(job[j])
                          => i = j
    /\ \A j \in Jobs : Nudging(job[j], u) /\ job[j].pc = "send" =>
           \A n \in nudged[u] : D!Day(n) # D!Day(job[j].now)
    /\ \A a, b \in nudged[u] : D!Day(a) = D!Day(b) => a = b

(* the row a visit has read knows of every message but those of visits     *)
(* that are still under way, and the row of u does so but for one that is  *)
(* about to be stamped,                                                    *)
NudgesKnown(u) ==
    /\ \A j \in Jobs : Nudging(job[j], u) /\ job[j].pc # "select" =>
           \A n \in nudged[u] : n <= job[j].row.nudged \/ job[j].now <= n + MaxLag
    /\ \A n \in nudged[u] :
           \/ n <= user[u].nudged
           \/ \E j \in Jobs : Nudging(job[j], u) /\ job[j].pc = "stamp" /\ job[j].now = n

NudgesApart(u) == \A a, b \in nudged[u] : a < b => b - a >= DormantRepeat

(* and no briefing was sent on the day of a dormant message, sent or to be *)
(* sent.                                                                   *)
NoBriefing(u) ==
    /\ \A n \in nudged[u] : <<"briefing", u, D!Day(n)>> \notin DOMAIN sent
    /\ \A j \in Jobs : Nudging(job[j], u) /\ job[j].pc \in {"claim", "send"} =>
           <<"briefing", u, D!Day(job[j].now)>> \notin DOMAIN sent

Spaced(u) == Delivered(u) /\ NudgesOnce(u) /\ NudgesKnown(u) /\ NudgesApart(u) /\ NoBriefing(u)
SpacedInv == \A u \in Users : Calm(u) => Spaced(u)

LEMMA AsideNudges ==
    ASSUME SchedulerTyped, NEW u \in Users, Spaced(u), NEW j \in Jobs,
           job' = [job EXCEPT ![j] = job'[j]], nudged'[u] = nudged[u],
           user'[u].nudged = user[u].nudged, job[j].pc # "stamp",
           Nudging(job'[j], u) =>
               /\ ~Holds(job'[j])
               /\ job'[j].pc # "select" =>
                     \A n \in nudged[u] : \/ n <= job'[j].row.nudged
                                          \/ job'[j].now <= n + MaxLag
    PROVE  (NudgesOnce(u) /\ NudgesKnown(u) /\ NudgesApart(u))'
<1>1. \A i \in Jobs : i # j => job'[i] = job[i]
    BY DEF SchedulerTyped, JobsTyped
<1>2. NudgesOnce(u) /\ NudgesKnown(u) /\ NudgesApart(u)
    BY DEF Spaced
<1>3. \A i \in Jobs : Nudging(job'[i], u) /\ Holds(job'[i]) => job'[i] = job[i]
    BY <1>1
<1>4. NudgesOnce(u)'
    <2>1. \A i \in Jobs : Nudging(job'[i], u) /\ job'[i].pc = "send" => Holds(job'[i])
        BY DEF Nudging, Holds, Served
    <2> QED
        BY <1>2, <1>3, <2>1 DEF NudgesOnce, D!Day
<1>5. NudgesKnown(u)'
    <2>1. ASSUME NEW i \in Jobs, Nudging(job'[i], u), job'[i].pc # "select", NEW n \in nudged[u]
          PROVE  n <= job'[i].row.nudged \/ job'[i].now <= n + MaxLag
        BY <1>1, <1>2, <2>1 DEF NudgesKnown
    <2>2. ASSUME NEW n \in nudged[u]
          PROVE  \/ n <= user'[u].nudged
                 \/ \E i \in Jobs : /\ Nudging(job'[i], u) /\ job'[i].pc = "stamp"
                                    /\ job'[i].now = n
        BY <1>1, <1>2 DEF NudgesKnown
    <2> QED
        BY <2>1, <2>2 DEF NudgesKnown, Nudging
<1>6. NudgesApart(u)'
    BY <1>2 DEF NudgesApart
<1> QED
    BY <1>4, <1>5, <1>6

LEMMA AsideLedger ==
    ASSUME SchedulerTyped, NEW u \in Users, Spaced(u), NEW j \in Jobs,
           job' = [job EXCEPT ![j] = job'[j]], UNCHANGED ledger,
           Holds(job[j]) => Holds(job'[j]) /\ KeyOf(job'[j]) = KeyOf(job[j]),
           job'[j].pc # "fail"
    PROVE  Delivered(u)'
<1>1. \A i \in Jobs : i # j => job'[i] = job[i]
    BY DEF SchedulerTyped, JobsTyped
<1>2. Delivered(u)
    BY DEF Spaced
<1>3. \A i \in Jobs : Holds(job[i]) => Holds(job'[i]) /\ KeyOf(job'[i]) = KeyOf(job[i])
    BY <1>1
<1>4. \A i \in Jobs : job'[i].pc = "fail" => job'[i].user # u
    BY <1>1, <1>2 DEF Delivered
<1> QED
    BY <1>2, <1>3, <1>4 DEF Delivered

LEMMA AsideBriefing ==
    ASSUME SchedulerTyped, NEW u \in Users, Spaced(u), NEW j \in Jobs,
           job' = [job EXCEPT ![j] = job'[j]], UNCHANGED sent, nudged'[u] = nudged[u],
           Nudging(job'[j], u) /\ job'[j].pc \in {"claim", "send"} =>
               <<"briefing", u, D!Day(job'[j].now)>> \notin DOMAIN sent
    PROVE  NoBriefing(u)'
<1>1. \A i \in Jobs : i # j => job'[i] = job[i]
    BY DEF SchedulerTyped, JobsTyped
<1>2. NoBriefing(u)
    BY DEF Spaced
<1>3. \A i \in Jobs : Nudging(job'[i], u) /\ job'[i].pc \in {"claim", "send"} =>
          <<"briefing", u, D!Day(job'[i].now)>> \notin DOMAIN sent
    BY <1>1, <1>2 DEF NoBriefing
<1> QED
    BY <1>2, <1>3 DEF NoBriefing, D!Day, Nudging

(* Steps for other users, and steps for nobody.                            *)
Elsewhere(u) ==
    /\ \A i \in Jobs : \/ job[i].pc # "idle" /\ job[i].user = u
                       \/ job'[i].pc # "idle" /\ job'[i].user = u
                       => job'[i] = job[i]
    /\ nudged'[u] = nudged[u] /\ user'[u].nudged = user[u].nudged
    /\ \A k \in DOMAIN ledger' : k[2] = u =>
           /\ k \in DOMAIN ledger /\ ledger'[k].status = ledger[k].status
           /\ ledger'[k].stale => ledger[k].stale
    /\ \A d : <<"briefing", u, d>> \in DOMAIN sent' => <<"briefing", u, d>> \in DOMAIN sent

LEMMA ElsewhereSpaced ==
    ASSUME SchedulerTyped, SchedulerTyped', NEW u \in Users, Spaced(u), Elsewhere(u)
    PROVE  Spaced(u)'
<1>1. \A i \in Jobs : Nudging(job[i], u) \/ Nudging(job'[i], u) => job'[i] = job[i]
    BY DEF Elsewhere, Nudging
<1>2. nudged'[u] = nudged[u] /\ user'[u].nudged = user[u].nudged
    BY DEF Elsewhere
<1>3. Delivered(u)'
    <2>1. Delivered(u)
        BY DEF Spaced
    <2>2. ASSUME NEW i \in Jobs, Holds(job[i]), KeyOf(job[i])[2] = u PROVE job'[i] = job[i]
        <3>1. job[i].user = u /\ job[i].pc # "idle"
            BY <2>2 DEF Holds, KeyOf
        <3> QED
            BY <3>1 DEF Elsewhere
    <2>3. ASSUME NEW k \in DOMAIN ledger', k[2] = u
          PROVE  /\ ledger'[k].status # "failed" /\ ~ledger'[k].stale
                 /\ ledger'[k].status = "sending" =>
                        \E i \in Jobs : Holds(job'[i]) /\ KeyOf(job'[i]) = k
        <3>1. /\ k \in DOMAIN ledger /\ ledger'[k].status = ledger[k].status
              /\ ledger'[k].stale => ledger[k].stale
            BY <2>3 DEF Elsewhere
        <3>2. /\ ledger[k].status # "failed" /\ ~ledger[k].stale
              /\ ledger[k].status = "sending" =>
                     \E i \in Jobs : Holds(job[i]) /\ KeyOf(job[i]) = k
            BY <2>1, <2>3, <3>1 DEF Delivered
        <3> QED
            BY <2>2, <2>3, <3>1, <3>2
    <2>4. ASSUME NEW i \in Jobs, job'[i].pc = "fail" PROVE job'[i].user # u
        BY <2>1, <2>4 DEF Delivered, Elsewhere
    <2> QED
        BY <2>3, <2>4 DEF Delivered
<1>4. NudgesOnce(u)'
    BY <1>1, <1>2 DEF Spaced, NudgesOnce, D!Day
<1>5. NudgesKnown(u)'
    <2>1. NudgesKnown(u)
        BY DEF Spaced
    <2>2. ASSUME NEW i \in Jobs, Nudging(job'[i], u), job'[i].pc # "select", NEW n \in nudged[u]
          PROVE  n <= job'[i].row.nudged \/ job'[i].now <= n + MaxLag
        BY <1>1, <2>1, <2>2 DEF NudgesKnown
    <2>3. ASSUME NEW n \in nudged[u]
          PROVE  \/ n <= user'[u].nudged
                 \/ \E i \in Jobs : /\ Nudging(job'[i], u) /\ job'[i].pc = "stamp"
                                    /\ job'[i].now = n
        BY <1>1, <1>2, <2>1 DEF NudgesKnown
    <2> QED
        BY <1>2, <2>2, <2>3 DEF NudgesKnown, Nudging
<1>6. NudgesApart(u)'
    BY <1>2 DEF Spaced, NudgesApart
<1>7. NoBriefing(u)'
    <2>1. NoBriefing(u)
        BY DEF Spaced
    <2>2. \A d : <<"briefing", u, d>> \in DOMAIN sent' => <<"briefing", u, d>> \in DOMAIN sent
        BY DEF Elsewhere
    <2>3. \A i \in Jobs : Nudging(job'[i], u) /\ job'[i].pc \in {"claim", "send"} =>
              <<"briefing", u, D!Day(job'[i].now)>> \notin DOMAIN sent'
        BY <1>1, <2>1, <2>2 DEF NoBriefing
    <2> QED
        BY <1>2, <2>1, <2>2, <2>3 DEF NoBriefing, D!Day, Nudging
<1> QED
    BY <1>3, <1>4, <1>5, <1>6, <1>7 DEF Spaced

(* The visit of j is of another user than u, or its step begins one.       *)
LEMMA ElsewhereVisit ==
    ASSUME SchedulerTyped, NEW u \in Users, NEW j \in Jobs, Visits(j),
           job[j].pc # "idle" => job[j].user # u, ~Ticks(j, u)
    PROVE  Elsewhere(u)
<1> DEFINE x == job[j]
           y == job'[j]
<1>1. ASSUME job' = [job EXCEPT ![j] = job'[j]], y.pc # "idle" => y.user # u,
             nudged'[u] = nudged[u], user'[u].nudged = user[u].nudged,
             \A k \in DOMAIN ledger' : k[2] = u => k \in DOMAIN ledger /\ ledger'[k] = ledger[k],
             \A k \in DOMAIN sent' : k \in DOMAIN sent \/ k[2] # u
      PROVE  Elsewhere(u)
    <2>1. \A i \in Jobs : i # j => job'[i] = job[i]
        BY <1>1 DEF SchedulerTyped, JobsTyped
    <2>2. \A d : <<"briefing", u, d>> \in DOMAIN sent' => <<"briefing", u, d>> \in DOMAIN sent
        BY <1>1
    <2> QED
        BY <1>1, <2>1, <2>2 DEF Elsewhere
<1>2. ASSUME NEW w \in Users, Ticks(j, w) PROVE Elsewhere(u)
    <2>1. /\ job' = [job EXCEPT ![j] = job'[j]] /\ UNCHANGED <<user, ledger, sent, nudged>>
          /\ y.user = w /\ w # u
        BY <1>2, TicksBegin
    <2> QED
        BY <1>1, <2>1
<1>3. ASSUME x.pc # "idle"
      PROVE  /\ x.user # u /\ x.user \in Users /\ KeyOf(x)[2] # u /\ Morning(j)[2] # u
             /\ nudged \in [Users -> SUBSET Nat]
    BY <1>3, VisitKnown DEF KeyOf, Morning, Visiting, SchedulerTyped, HistoryTyped
<1>4. CASE Reads(j)
    <2>1. /\ job' = [job EXCEPT ![j] = job'[j]] /\ UNCHANGED <<user, ledger, sent, nudged>>
          /\ x.pc # "idle" /\ (Turned(x, y) \/ SameVisit(x, y))
        BY <1>4, ReadsMove
    <2>2. y.pc # "idle" => y.user # u
        BY <1>3, <2>1 DEF Turned, SameVisit, D!Idle
    <2> QED
        BY <1>1, <2>1, <2>2
<1>5. CASE D!SelectDormant(j)
    <2>1. /\ job' = [job EXCEPT ![j] = job'[j]] /\ UNCHANGED <<user, ledger, sent, nudged>>
          /\ x.pc # "idle" /\ y.user = x.user
        BY <1>5, DormantRead
    <2> QED
        BY <1>1, <1>3, <2>1
<1>6. CASE D!Claim(j)
    <2>1. /\ job' = [job EXCEPT ![j] = job'[j]] /\ UNCHANGED <<user, sent, nudged>>
          /\ x.pc # "idle" /\ (Turned(x, y) \/ SameVisit(x, y))
          /\ \/ UNCHANGED ledger
             \/ /\ DOMAIN ledger' = DOMAIN ledger \cup {KeyOf(x)}
                /\ \A k \in DOMAIN ledger : k # KeyOf(x) => ledger'[k] = ledger[k]
        BY <1>6, Claiming
    <2>2. y.pc # "idle" => y.user # u
        BY <1>3, <2>1 DEF Turned, SameVisit, D!Idle
    <2>3. \A k \in DOMAIN ledger' : k[2] = u => k \in DOMAIN ledger /\ ledger'[k] = ledger[k]
        BY <1>3, <2>1
    <2> QED
        BY <1>1, <2>1, <2>2, <2>3
<1>7. CASE D!Build(j)
    <2>1. /\ job' = [job EXCEPT ![j] = job'[j]] /\ UNCHANGED <<user, ledger, sent, nudged>>
          /\ x.pc # "idle" /\ y.user = x.user
        BY <1>7, Building
    <2> QED
        BY <1>1, <1>3, <2>1
<1>8. CASE D!Send(j) \/ D!Throws(j)
    <2>1. /\ job' = [job EXCEPT ![j] = job'[j]] /\ UNCHANGED <<user, ledger>>
          /\ x.pc # "idle" /\ (y = D!Idle \/ SameVisit(x, y))
          /\ \/ x.pc = "send" /\ D!Reaches(j)
             \/ UNCHANGED <<sent, nudged>>
        BY <1>8, Sending, Throwing
    <2>2. y.pc # "idle" => y.user # u
        BY <1>3, <2>1 DEF SameVisit, D!Idle
    <2>3. \A k \in DOMAIN sent' : k \in DOMAIN sent \/ k[2] # u
        <3>1. DOMAIN sent' \subseteq DOMAIN sent \cup {KeyOf(x)}
            BY <2>1, Reaching
        <3> QED
            BY <1>3, <2>1, <3>1
    <2>4. nudged'[u] = nudged[u]
        <3>1. UNCHANGED nudged \/ nudged' = [nudged EXCEPT ![x.user] = @ \cup {x.now}]
            BY <2>1, Reaching
        <3> QED
            BY <1>3, <2>1, <3>1
    <2> QED
        BY <1>1, <2>1, <2>2, <2>3, <2>4
<1>9. CASE D!Stamp(j)
    <2>1. /\ job' = [job EXCEPT ![j] = job'[j]] /\ UNCHANGED <<ledger, sent, nudged>>
          /\ x.pc # "idle" /\ SameVisit(x, y)
          /\ user' = [user EXCEPT ![x.user].nudged = x.now]
        BY <1>9, Stamping
    <2>2. y.user # u
        BY <1>3, <2>1 DEF SameVisit
    <2>3. user'[u] = user[u]
        BY <1>3, <2>1 DEF SchedulerTyped, PeopleTyped
    <2> QED
        BY <1>1, <2>1, <2>2, <2>3
<1>10. CASE D!Finishes(j)
    <2>1. /\ job' = [job EXCEPT ![j] = job'[j]] /\ UNCHANGED <<user, sent, nudged>>
          /\ Turned(x, y)
        BY <1>10, Finishing
    <2>2. PICK status \in {"delivered", "failed"} : Settles(j, status)
        BY <1>10, Finishing
    <2>3. x.pc # "idle"
        BY <2>2 DEF Settles
    <2>4. \A k \in DOMAIN ledger' : \/ k \in DOMAIN ledger /\ ledger'[k] = ledger[k]
                                    \/ k \in {KeyOf(x), Morning(j)}
        BY <2>2, Settling
    <2>5. \A k \in DOMAIN ledger' : k[2] = u => k \in DOMAIN ledger /\ ledger'[k] = ledger[k]
        BY <1>3, <2>3, <2>4
    <2>6. y.pc # "idle" => y.user # u
        BY <1>3, <2>1, <2>3 DEF Turned, D!Idle
    <2> QED
        BY <1>1, <2>1, <2>5, <2>6
<1> QED
    BY <1>2, <1>4, <1>5, <1>6, <1>7, <1>8, <1>9, <1>10 DEF Visits

LEMMA ElsewhereOthers ==
    ASSUME SchedulerTyped, NEW u \in Users, Calm(u)', Spaced(u),
           \/ \E k \in DOMAIN ledger : D!LeaseEnds(k)
           \/ \E w \in Users : PeopleMove(w) \/ D!WelcomeBack(w)
           \/ D!ScheduleWelcomeBackBroadcast \/ D!Restart \/ D!Time
    PROVE  Elsewhere(u)
<1>1. ASSUME NEW k \in DOMAIN ledger, D!LeaseEnds(k) PROVE Elsewhere(u)
    <2>1. /\ UNCHANGED <<user, job, sent, nudged>> /\ DOMAIN ledger' = DOMAIN ledger
          /\ \A i \in DOMAIN ledger : i # k => ledger'[i] = ledger[i]
          /\ k \in DOMAIN excuse'
        BY <1>1, LeaseEnding
    <2>2. k[2] # u
        BY <2>1 DEF Calm
    <2> QED
        BY <2>1, <2>2 DEF Elsewhere
<1>2. ASSUME NEW w \in Users, PeopleMove(w) PROVE Elsewhere(u)
    BY <1>2, PeopleMoving DEF Elsewhere
<1>3. ASSUME NEW w \in Users, D!WelcomeBack(w) PROVE Elsewhere(u)
    <2>1. /\ UNCHANGED <<user, ledger, job, nudged>>
          /\ DOMAIN sent' = DOMAIN sent \cup {<<"welcome", w, D!Day(clock)>>}
        BY <1>3, Welcoming
    <2> QED
        BY <2>1 DEF Elsewhere
<1>4. CASE D!ScheduleWelcomeBackBroadcast
    BY <1>4, Scheduling DEF Elsewhere
<1>5. CASE D!Time
    BY <1>5, Timing DEF Elsewhere
<1>6. CASE D!Restart
    <2>1. /\ UNCHANGED <<user, sent, nudged>> /\ job' = [j \in Jobs |-> D!Idle]
          /\ DOMAIN ledger' = DOMAIN ledger
          /\ \A k \in DOMAIN ledger : /\ ledger'[k].status = ledger[k].status
                                      /\ ledger'[k].stale = (ledger[k].status = "sending")
          /\ \A j \in Jobs : job[j].pc # "idle" => KeyOf(job[j]) \in DOMAIN excuse'
        BY <1>6, Restarting DEF Awake
    <2>2. ASSUME NEW j \in Jobs, job[j].pc # "idle" PROVE job[j].user # u
        <3>1. KeyOf(job[j])[2] # u
            BY <2>1, <2>2 DEF Calm
        <3> QED
            BY <3>1 DEF KeyOf
    <2>3. \A k \in DOMAIN ledger : k[2] = u => ledger[k].status # "sending"
        <3> SUFFICES ASSUME NEW k \in DOMAIN ledger, k[2] = u, ledger[k].status = "sending"
                     PROVE  FALSE
            OBVIOUS
        <3>1. PICK j \in Jobs : Holds(job[j]) /\ KeyOf(job[j]) = k
            BY DEF Spaced, Delivered
        <3>2. job[j].pc # "idle" /\ job[j].user = u
            BY <3>1 DEF Holds, KeyOf
        <3> QED
            BY <2>2, <3>2
    <2>4. \A i \in Jobs : job'[i].pc = "idle"
        BY <2>1 DEF D!Idle
    <2> QED
        BY <2>1, <2>2, <2>3, <2>4 DEF Elsewhere
<1> QED
    BY <1>1, <1>2, <1>3, <1>4, <1>5, <1>6

(* A step of u's own visit that sends nothing.                             *)
LEMMA OwnReads ==
    ASSUME SchedulerTyped, TimelyInv, RecordInv, NEW u \in Users, Spaced(u), NEW j \in Jobs,
           \/ Ticks(j, u)
           \/ job[j].user = u /\ \/ Reads(j) \/ D!SelectDormant(j) \/ D!Build(j)
                                 \/ D!Claim(j) /\ ~Free(j)
    PROVE  Spaced(u)'
<1> DEFINE x == job[j]
           y == job'[j]
<1>1. ASSUME job' = [job EXCEPT ![j] = job'[j]], UNCHANGED <<user, ledger, sent, nudged>>,
             x.pc # "stamp", y.pc # "fail",
             Holds(x) => Holds(y) /\ KeyOf(y) = KeyOf(x),
             Nudging(y, u) =>
                 /\ ~Holds(y)
                 /\ y.pc # "select" => \A n \in nudged[u] : \/ n <= y.row.nudged
                                                            \/ y.now <= n + MaxLag
                 /\ y.pc = "claim" => <<"briefing", u, D!Day(y.now)>> \notin DOMAIN sent
      PROVE  Spaced(u)'
    <2>1. (NudgesOnce(u) /\ NudgesKnown(u) /\ NudgesApart(u))'
        BY <1>1, AsideNudges
    <2>2. Delivered(u)'
        BY <1>1, AsideLedger
    <2>3. Nudging(y, u) => y.pc # "send"
        BY <1>1 DEF Nudging, Holds, Served
    <2>4. NoBriefing(u)'
        BY <1>1, <2>3, AsideBriefing
    <2> QED
        BY <2>1, <2>2, <2>4 DEF Spaced
<1>2. ASSUME job' = [job EXCEPT ![j] = job'[j]], UNCHANGED <<user, ledger, sent, nudged>>,
             x.pc \notin {"build", "send", "stamp", "finish", "fail"},
             Turned(x, y) \/ (y.pc \in {"select", "build"} /\ y.kind # "dormant"
                                 /\ (y.pc = "build" => y.kind # "briefing"))
      PROVE  Spaced(u)'
    <2>1. ~Holds(x) /\ ~Holds(y) /\ y.pc # "fail" /\ (Nudging(y, u) => y.pc = "select")
        BY <1>2 DEF Holds, Turned, Nudging, D!Idle
    <2> QED
        BY <1>1, <1>2, <2>1
<1>3. CASE Ticks(j, u)
    <2>1. /\ job' = [job EXCEPT ![j] = job'[j]] /\ UNCHANGED <<user, ledger, sent, nudged>>
          /\ x.pc = "idle" /\ y.pc = "select"
          /\ y.kind \in {"briefing", "digest", "resend", "preview"}
        BY <1>3, TicksBegin
    <2> QED
        BY <1>2, <2>1
<1>4. CASE x.user = u /\ Reads(j)
    <2>1. /\ job' = [job EXCEPT ![j] = job'[j]] /\ UNCHANGED <<user, ledger, sent, nudged>>
          /\ x.pc \in {"select", "due", "briefed", "over"}
          /\ \/ Turned(x, y)
             \/ /\ SameVisit(x, y)
                /\ \/ x.kind = "briefing" /\ y.pc = "claim"
                   \/ x.kind \in {"resend", "preview", "digest"} /\ y.pc = "build"
                   \/ x.pc = "due" /\ y.pc = "briefed"
                   \/ /\ x.pc = "briefed" /\ y.pc = "claim"
                      /\ ~D!Briefed(x.user, D!Day(x.now))
        BY <1>4, ReadsMove
    <2>2. x \in Visiting /\ StageFits(x)
        BY <2>1, VisitKnown
    <2>3. CASE Turned(x, y)
        BY <1>2, <2>1, <2>3
    <2>4. CASE SameVisit(x, y) /\ x.kind \in {"resend", "preview", "digest"} /\ y.pc = "build"
        BY <1>2, <2>1, <2>4 DEF SameVisit
    <2>5. CASE SameVisit(x, y) /\ x.kind = "briefing" /\ y.pc = "claim"
        <3>1. ~Holds(x) /\ ~Nudging(y, u)
            BY <2>1, <2>5 DEF Holds, Nudging, SameVisit
        <3> QED
            BY <1>1, <2>1, <2>5, <3>1
    <2>6. ASSUME SameVisit(x, y), x.pc \in {"due", "briefed"}, y.pc \in {"briefed", "claim"},
                 y.pc = "claim" => ~D!Briefed(u, D!Day(x.now))
          PROVE  Spaced(u)'
        <3>1. Nudging(x, u)
            BY <1>4, <2>2, <2>6 DEF StageFits, Nudging
        <3>2. \A n \in nudged[u] : n <= x.row.nudged \/ x.now <= n + MaxLag
            BY <2>6, <3>1 DEF Spaced, NudgesKnown
        <3>3. y.pc = "claim" => <<"briefing", u, D!Day(x.now)>> \notin DOMAIN sent
            <4> DEFINE k == <<"briefing", u, D!Day(x.now)>>
            <4> SUFFICES ASSUME ~D!Briefed(u, D!Day(x.now)) PROVE k \notin DOMAIN sent
                BY <2>6
            <4>1. k \in DOMAIN ledger => ledger[k].status \notin {"sending", "delivered"}
                BY DEF D!Briefed
            <4>2. k \in DOMAIN ledger => ledger[k].status = "failed"
                BY <4>1 DEF SchedulerTyped, LedgerTyped, LedgerRow
            <4>3. k \in DOMAIN ledger => ledger[k].status # "failed"
                <5>1. k[2] = u
                    OBVIOUS
                <5> HIDE DEF k
                <5> QED
                    BY <5>1 DEF Spaced, Delivered
            <4>4. k \notin DOMAIN ledger
                BY <4>2, <4>3
            <4>5. D!Day(x.now) \in Nat
                BY <2>2, DaysAreNatural DEF Visiting
            <4> QED
                BY <4>4, <4>5 DEF RecordInv, Recorded
        <3>4. ~Holds(x) /\ ~Holds(y)
            BY <2>6 DEF Holds
        <3> QED
            BY <1>1, <2>1, <2>6, <3>2, <3>3, <3>4 DEF SameVisit
    <2> QED
        BY <1>4, <2>1, <2>3, <2>4, <2>5, <2>6
<1>5. CASE x.user = u /\ D!SelectDormant(j)
    <2>1. /\ job' = [job EXCEPT ![j] = job'[j]] /\ UNCHANGED <<user, ledger, sent, nudged>>
          /\ x.pc = "select" /\ x.kind = "dormant" /\ y.pc = "due" /\ y.kind = "dormant"
          /\ y.now = x.now /\ y.row = user[u]
        BY <1>5, DormantRead
    <2>2. x.now <= clock
        BY <2>1 DEF TimelyInv
    <2>3. \A n \in nudged[u] : n <= y.row.nudged \/ y.now <= n + MaxLag
        <3> TAKE n \in nudged[u]
        <3>1. CASE n <= user[u].nudged
            BY <2>1, <3>1
        <3>2. ASSUME NEW i \in Jobs, Nudging(job[i], u), job[i].pc = "stamp", job[i].now = n
              PROVE  y.now <= n + MaxLag
            <4>1. clock <= n + MaxLag
                BY <3>2 DEF TimelyInv
            <4>2. n \in Nat /\ clock \in Nat /\ x.now \in Nat /\ MaxLag \in Nat
                BY <2>1, VisitKnown, ServicesAssumption
                   DEF SchedulerTyped, HistoryTyped, PeopleTyped, Visiting
            <4> QED
                BY <2>1, <2>2, <4>1, <4>2
        <3> QED
            BY <3>1, <3>2 DEF Spaced, NudgesKnown
    <2>4. ~Holds(x) /\ ~Holds(y)
        BY <2>1 DEF Holds
    <2> QED
        BY <1>1, <2>1, <2>3, <2>4
<1>6. CASE x.user = u /\ D!Build(j)
    <2>1. /\ job' = [job EXCEPT ![j] = job'[j]] /\ UNCHANGED <<user, ledger, sent, nudged>>
          /\ x.pc = "build" /\ y.kind = x.kind /\ KeyOf(y) = KeyOf(x) /\ y.pc = D!AfterBuild(j)
        BY <1>6, Building
    <2>2. StageFits(x)
        BY <2>1, VisitKnown
    <2>3. y.kind # "dormant" /\ y.pc # "fail"
        BY <2>1, <2>2 DEF StageFits, D!AfterBuild
    <2>4. Holds(x) => Holds(y)
        BY <2>1 DEF Holds, D!AfterBuild
    <2> QED
        BY <1>1, <2>1, <2>3, <2>4 DEF Nudging
<1>7. CASE x.user = u /\ D!Claim(j) /\ ~Free(j)
    <2>1. /\ job' = [job EXCEPT ![j] = job'[j]] /\ UNCHANGED <<user, ledger, sent, nudged>>
          /\ x.pc = "claim" /\ Turned(x, y)
        BY <1>7, Claiming
    <2> QED
        BY <1>2, <2>1
<1> QED
    BY <1>3, <1>4, <1>5, <1>6, <1>7

LEMMA OwnClaim ==
    ASSUME SchedulerTyped, RecordInv, NEW u \in Users, Spaced(u), NEW j \in Jobs,
           job[j].user = u, D!Claim(j), Free(j)
    PROVE  Spaced(u)'
<1> DEFINE x == job[j]
           y == job'[j]
           k == KeyOf(x)
<1>1. /\ UNCHANGED <<user, sent, nudged>> /\ x.pc = "claim" /\ job' = [job EXCEPT ![j] = job'[j]]
      /\ SameVisit(x, y) /\ y.pc = D!AfterClaim(j) /\ Holds(y)
      /\ DOMAIN ledger' = DOMAIN ledger \cup {k} /\ ledger'[k].status = "sending"
      /\ ~ledger'[k].stale /\ \A i \in DOMAIN ledger : i # k => ledger'[i] = ledger[i]
    BY Claiming
<1>2. /\ k = D!Key(j) /\ k[2] = u /\ KeyOf(y) = k /\ k = <<x.kind, u, D!Day(x.now)>>
      /\ y.pc \in {"build", "send"} /\ y.kind = x.kind /\ y.now = x.now /\ y.row = x.row
      /\ y.user = u
    BY <1>1, VisitKnown DEF KeyOf, SameVisit, D!AfterClaim
<1>3. k \notin DOMAIN ledger
    <2>1. D!Claimable(k)
        BY <1>2 DEF Free
    <2>2. k \in DOMAIN ledger => ledger[k].status # "failed" /\ ~ledger[k].stale
        BY <1>2 DEF Spaced, Delivered
    <2> QED
        BY <2>1, <2>2 DEF D!Claimable
<1>4. \A i \in Jobs : i # j => job'[i] = job[i]
    BY <1>1 DEF SchedulerTyped, JobsTyped
<1>5. \A i \in Jobs : Holds(job[i]) => KeyOf(job[i]) \in DOMAIN ledger /\ job'[i] = job[i]
    <2>1. \A i \in Jobs : Holds(job[i]) => job[i].pc # "idle"
        BY DEF Holds
    <2>2. ~Holds(x)
        BY <1>1 DEF Holds
    <2> QED
        BY <1>4, <2>1, <2>2, VisitKnown
<1>6. Delivered(u)'
    <2>1. ASSUME NEW i \in DOMAIN ledger', i[2] = u
          PROVE  /\ ledger'[i].status # "failed" /\ ~ledger'[i].stale
                 /\ ledger'[i].status = "sending" =>
                        \E h \in Jobs : Holds(job'[h]) /\ KeyOf(job'[h]) = i
        <3>1. CASE i = k
            BY <1>1, <1>2, <3>1
        <3>2. CASE i # k
            <4>1. i \in DOMAIN ledger /\ ledger'[i] = ledger[i]
                BY <1>1, <3>2
            <4> QED
                BY <1>5, <2>1, <4>1 DEF Spaced, Delivered
        <3> QED
            BY <3>1, <3>2
    <2>2. \A i \in Jobs : job'[i].pc = "fail" => job'[i].user # u
        BY <1>2, <1>4 DEF Spaced, Delivered
    <2> QED
        BY <2>1, <2>2 DEF Delivered
<1>7. NudgesOnce(u)'
    <2>1. ASSUME NEW i \in Jobs, i # j, Holds(job'[i]) PROVE KeyOf(job'[i]) # k
        BY <1>3, <1>4, <1>5, <2>1
    <2>2. \A h, i \in Jobs : /\ Nudging(job'[h], u) /\ Holds(job'[h])
                             /\ Nudging(job'[i], u) /\ Holds(job'[i])
                             /\ KeyOf(job'[h]) = KeyOf(job'[i])
                             => h = i
        BY <1>2, <1>4, <2>1 DEF Spaced, NudgesOnce
    <2>3. Nudging(y, u) => \A n \in nudged[u] : D!Day(n) # D!Day(y.now)
        <3>1. \A n \in nudged[u] : <<"dormant", u, D!Day(n)>> \in DOMAIN ledger
            BY DEF RecordInv, Recorded
        <3> QED
            BY <1>2, <1>3, <3>1 DEF Nudging
    <2>4. \A i \in Jobs : Nudging(job'[i], u) /\ job'[i].pc = "send" =>
              \A n \in nudged[u] : D!Day(n) # D!Day(job'[i].now)
        BY <1>4, <2>3 DEF Spaced, NudgesOnce
    <2>5. \A a, b \in nudged[u] : D!Day(a) = D!Day(b) => a = b
        BY DEF Spaced, NudgesOnce
    <2> QED
        BY <1>1, <2>2, <2>4, <2>5 DEF NudgesOnce, D!Day, Nudging, Holds, KeyOf
<1>8. Nudging(y, u) => Nudging(x, u)
    BY <1>1, <1>2 DEF Nudging
<1>9. NudgesKnown(u)'
    <2>1. NudgesKnown(u)
        BY DEF Spaced
    <2>2. ASSUME NEW i \in Jobs, Nudging(job'[i], u), job'[i].pc # "select", NEW n \in nudged[u]
          PROVE  n <= job'[i].row.nudged \/ job'[i].now <= n + MaxLag
        BY <1>1, <1>2, <1>4, <1>8, <2>1, <2>2 DEF NudgesKnown
    <2>3. ASSUME NEW n \in nudged[u]
          PROVE  \/ n <= user'[u].nudged
                 \/ \E i \in Jobs : /\ Nudging(job'[i], u) /\ job'[i].pc = "stamp"
                                    /\ job'[i].now = n
        BY <1>1, <1>4, <2>1 DEF NudgesKnown
    <2> QED
        BY <1>1, <2>2, <2>3 DEF NudgesKnown, Nudging
<1>10. NudgesApart(u)'
    BY <1>1 DEF Spaced, NudgesApart
<1>11. NoBriefing(u)'
    <2>1. Nudging(y, u) => <<"briefing", u, D!Day(y.now)>> \notin DOMAIN sent
        BY <1>1, <1>2, <1>8 DEF Spaced, NoBriefing
    <2> QED
        BY <1>1, <2>1, AsideBriefing
<1> QED
    BY <1>6, <1>7, <1>9, <1>10, <1>11 DEF Spaced

(* Two hours of dormant messages on different days are further apart than  *)
(* a visit lasts, and a dormant message and the briefing of a visit under  *)
(* way are of different days.                                              *)
LEMMA NextNudgeIsLate ==
    ASSUME VisitsAreShort, NEW a \in Nat, NEW b \in Nat, a <= b, D!Day(a) # D!Day(b),
           D!Slot(a) \in DormantSlots, D!Slot(b) \in DormantSlots
    PROVE  b > a + MaxLag
<1>1. b - a >= Slots + D!Slot(b) - D!Slot(a)
    BY LaterDay
<1>2. D!Slot(a) + MaxLag < D!Slot(b) + Slots
    BY DEF VisitsAreShort
<1>3. D!Slot(a) \in Nat /\ D!Slot(b) \in Nat /\ Slots \in Nat /\ MaxLag \in Nat
    BY DaysAreNatural, ServicesAssumption
<1> QED
    BY <1>1, <1>2, <1>3

LEMMA NudgeAfterBriefing ==
    ASSUME VisitsAreShort, NEW a \in Nat, NEW b \in Nat, D!Day(a) = D!Day(b),
           D!Slot(a) \in MorningSlots, D!Slot(b) \in DormantSlots
    PROVE  b > a + MaxLag
<1>1. b - a = D!Slot(b) - D!Slot(a)
    BY SameDay
<1>2. D!Slot(a) + MaxLag < D!Slot(b)
    BY DEF VisitsAreShort
<1>3. D!Slot(a) \in Nat /\ D!Slot(b) \in Nat /\ MaxLag \in Nat
    BY DaysAreNatural, ServicesAssumption
<1> QED
    BY <1>1, <1>2, <1>3

LEMMA OwnNudge ==
    ASSUME SchedulerTyped, TimelyInv, RecordInv, VisitsAreShort, NEW u \in Users, Spaced(u),
           NEW j \in Jobs, job[j].user = u, job[j].kind = "dormant", D!Send(j)
    PROVE  Spaced(u)'
<1> DEFINE x == job[j]
           y == job'[j]
<1>1. /\ UNCHANGED <<clock, user, ledger>> /\ x.pc = "send"
      /\ job' = [job EXCEPT ![j] = job'[j]] /\ SameVisit(x, y) /\ y.pc = "stamp"
      /\ D!Reaches(j)
    BY Sending
<1>2. /\ DOMAIN sent' = DOMAIN sent \cup {KeyOf(x)}
      /\ nudged' = [nudged EXCEPT ![u] = @ \cup {x.now}]
    BY <1>1, Reaching
<1>3. /\ x \in Visiting /\ x.now \in Nat /\ clock \in Nat /\ MaxLag \in Nat
      /\ nudged \in [Users -> SUBSET Nat] /\ DormantRepeat \in Nat /\ x.row.nudged \in Int
    BY <1>1, VisitKnown, ServicesAssumption
       DEF SchedulerTyped, HistoryTyped, PeopleTyped, Visiting, UserRow
<1>4. nudged'[u] = nudged[u] \cup {x.now}
    BY <1>2, <1>3
<1>5. \A i \in Jobs : i # j => job'[i] = job[i]
    BY <1>1 DEF SchedulerTyped, JobsTyped
<1>6. /\ Nudging(x, u) /\ Holds(x) /\ x.now <= clock /\ clock <= x.now + MaxLag
      /\ D!Slot(x.now) \in DormantSlots
      /\ x.row.nudged >= 0 => x.now - x.row.nudged >= DormantRepeat
    BY <1>1 DEF Nudging, Holds, Served, TimelyInv, Checked
<1>7. Nudging(y, u) /\ Holds(y) /\ KeyOf(y) = KeyOf(x) /\ y.now = x.now /\ y.row = x.row
    BY <1>1, <1>6 DEF SameVisit, Nudging, Holds
<1>8. \A n \in nudged[u] : /\ n \in Nat /\ n <= clock /\ D!Slot(n) \in DormantSlots
                           /\ D!Day(n) # D!Day(x.now)
    <2>1. \A n \in nudged[u] : D!Day(n) # D!Day(x.now)
        BY <1>1, <1>6 DEF Spaced, NudgesOnce
    <2> QED
        BY <1>3, <2>1 DEF RecordInv, Recorded
<1>9. Delivered(u)'
    BY <1>1, <1>7, AsideLedger
<1>10. NudgesOnce(u)'
    <2>1. \A h, i \in Jobs : /\ Nudging(job'[h], u) /\ Holds(job'[h])
                             /\ Nudging(job'[i], u) /\ Holds(job'[i])
                             /\ KeyOf(job'[h]) = KeyOf(job'[i])
                             => h = i
        BY <1>5, <1>6, <1>7 DEF Spaced, NudgesOnce
    <2>2. ASSUME NEW i \in Jobs, Nudging(job'[i], u), job'[i].pc = "send", NEW n \in nudged'[u]
          PROVE  D!Day(n) # D!Day(job'[i].now)
        <3>1. i # j /\ job'[i] = job[i]
            BY <1>1, <1>5, <2>2
        <3>2. CASE n \in nudged[u]
            BY <2>2, <3>1, <3>2 DEF Spaced, NudgesOnce
        <3>3. CASE n = x.now
            <4>1. Holds(job[i])
                BY <2>2, <3>1 DEF Holds, Nudging, Served
            <4>2. KeyOf(job[i]) # KeyOf(x)
                BY <1>6, <2>2, <3>1, <4>1 DEF Spaced, NudgesOnce
            <4> QED
                BY <1>6, <2>2, <3>1, <3>3, <4>2 DEF KeyOf, Nudging
        <3> QED
            BY <1>4, <3>2, <3>3
    <2>3. \A a, b \in nudged'[u] : D!Day(a) = D!Day(b) => a = b
        <3>1. \A a, b \in nudged[u] : D!Day(a) = D!Day(b) => a = b
            BY DEF Spaced, NudgesOnce
        <3> QED
            BY <1>4, <1>8, <3>1
    <2> QED
        BY <2>1, <2>2, <2>3 DEF NudgesOnce, D!Day, Nudging, Holds, KeyOf
<1>11. NudgesKnown(u)'
    <2>1. NudgesKnown(u)
        BY DEF Spaced
    <2>2. ASSUME NEW i \in Jobs, Nudging(job'[i], u), job'[i].pc # "select", NEW n \in nudged'[u]
          PROVE  n <= job'[i].row.nudged \/ job'[i].now <= n + MaxLag
        <3>1. CASE n \in nudged[u]
            <4>1. /\ Nudging(job[i], u) /\ job[i].pc # "select"
                  /\ job'[i].row = job[i].row /\ job'[i].now = job[i].now
                BY <1>1, <1>5, <1>6, <1>7, <2>2
            <4> QED
                BY <2>1, <3>1, <4>1 DEF NudgesKnown
        <3>2. CASE n = x.now
            <4>1. Nudging(job[i], u) /\ job'[i].now = job[i].now
                BY <1>5, <1>6, <1>7, <2>2
            <4>2. job[i].now <= clock /\ job[i].now \in Nat
                BY <4>1, VisitKnown DEF TimelyInv, Nudging, Visiting
            <4> QED
                BY <1>3, <1>6, <3>2, <4>1, <4>2
        <3> QED
            BY <1>4, <3>1, <3>2
    <2>3. ASSUME NEW n \in nudged'[u]
          PROVE  \/ n <= user'[u].nudged
                 \/ \E i \in Jobs : /\ Nudging(job'[i], u) /\ job'[i].pc = "stamp"
                                    /\ job'[i].now = n
        <3>1. CASE n \in nudged[u]
            BY <1>1, <1>5, <2>1, <3>1 DEF NudgesKnown
        <3>2. CASE n = x.now
            BY <1>1, <1>7, <3>2
        <3> QED
            BY <1>4, <3>1, <3>2
    <2> QED
        BY <2>2, <2>3 DEF NudgesKnown, Nudging
<1>12. NudgesApart(u)'
    <2>1. ASSUME NEW n \in nudged[u] PROVE n < x.now => x.now - n >= DormantRepeat
        <3>1. n \in Nat /\ D!Slot(n) \in DormantSlots /\ D!Day(n) # D!Day(x.now)
            BY <1>8
        <3>2. n < x.now => x.now > n + MaxLag
            BY <1>3, <1>6, <3>1, NextNudgeIsLate
        <3>3. n <= x.row.nudged \/ x.now <= n + MaxLag
            BY <1>1, <1>6 DEF Spaced, NudgesKnown
        <3> QED
            BY <1>3, <1>6, <3>1, <3>2, <3>3
    <2>2. ASSUME NEW n \in nudged[u] PROVE ~(x.now < n)
        <3>1. n \in Nat /\ n <= clock /\ D!Slot(n) \in DormantSlots /\ D!Day(n) # D!Day(x.now)
            BY <1>8
        <3>2. x.now < n => n > x.now + MaxLag
            BY <1>3, <1>6, <3>1, NextNudgeIsLate
        <3> QED
            BY <1>3, <1>6, <3>1, <3>2
    <2>3. \A a, b \in nudged[u] : a < b => b - a >= DormantRepeat
        BY DEF Spaced, NudgesApart
    <2>4. \A a, b \in nudged'[u] : a < b => b - a >= DormantRepeat
        BY <1>3, <1>4, <2>1, <2>2, <2>3
    <2> QED
        BY <2>4 DEF NudgesApart
<1>13. NoBriefing(u)'
    <2>1. \A d : <<"briefing", u, d>> \in DOMAIN sent' => <<"briefing", u, d>> \in DOMAIN sent
        BY <1>2, <1>6 DEF KeyOf
    <2>2. NoBriefing(u)
        BY DEF Spaced
    <2>3. <<"briefing", u, D!Day(x.now)>> \notin DOMAIN sent
        BY <1>1, <1>6, <2>2 DEF NoBriefing
    <2>4. \A n \in nudged'[u] : <<"briefing", u, D!Day(n)>> \notin DOMAIN sent'
        BY <1>4, <2>1, <2>2, <2>3 DEF NoBriefing
    <2>5. \A i \in Jobs : Nudging(job'[i], u) /\ job'[i].pc \in {"claim", "send"} =>
              <<"briefing", u, D!Day(job'[i].now)>> \notin DOMAIN sent'
        BY <1>1, <1>5, <2>1, <2>2 DEF NoBriefing
    <2> QED
        BY <2>4, <2>5 DEF NoBriefing, D!Day, Nudging
<1> QED
    BY <1>9, <1>10, <1>11, <1>12, <1>13 DEF Spaced

LEMMA OwnOther ==
    ASSUME SchedulerTyped, TimelyInv, RecordInv, VisitsAreShort, NEW u \in Users, Spaced(u),
           NEW j \in Jobs, job[j].user = u, job[j].kind # "dormant", D!Send(j)
    PROVE  Spaced(u)'
<1> DEFINE x == job[j]
           y == job'[j]
<1>1. /\ UNCHANGED <<clock, user, ledger>> /\ x.pc = "send"
      /\ job' = [job EXCEPT ![j] = job'[j]] /\ SameVisit(x, y) /\ y.pc = "finish"
      /\ D!Reaches(j)
    BY Sending
<1>2. DOMAIN sent' = DOMAIN sent \cup {KeyOf(x)} /\ UNCHANGED nudged
    BY <1>1, Reaching
<1>3. /\ x \in Visiting /\ x.now \in Nat /\ clock \in Nat /\ MaxLag \in Nat
      /\ nudged \in [Users -> SUBSET Nat]
    BY <1>1, VisitKnown, ServicesAssumption DEF SchedulerTyped, HistoryTyped, PeopleTyped, Visiting
<1>4. \A i \in Jobs : i # j => job'[i] = job[i]
    BY <1>1 DEF SchedulerTyped, JobsTyped
<1>5. /\ x.now <= clock /\ clock <= x.now + MaxLag
      /\ x.kind = "briefing" => D!Slot(x.now) \in MorningSlots
    BY <1>1 DEF TimelyInv, Checked
<1>6. ~Nudging(y, u) /\ (Holds(x) => Holds(y) /\ KeyOf(y) = KeyOf(x))
    BY <1>1 DEF SameVisit, Nudging, Holds
<1>7. Delivered(u)'
    BY <1>1, <1>6, AsideLedger
<1>8. (NudgesOnce(u) /\ NudgesKnown(u) /\ NudgesApart(u))'
    BY <1>1, <1>2, <1>6, AsideNudges
<1>9. ASSUME NEW n \in Nat, n <= clock, D!Slot(n) \in DormantSlots,
             <<"briefing", u, D!Day(n)>> \notin DOMAIN sent
      PROVE  <<"briefing", u, D!Day(n)>> \notin DOMAIN sent'
    <2>1. x.kind = "briefing" => D!Day(n) # D!Day(x.now)
        BY <1>3, <1>5, <1>9, NudgeAfterBriefing
    <2>2. KeyOf(x) # <<"briefing", u, D!Day(n)>>
        BY <2>1 DEF KeyOf
    <2> QED
        BY <1>2, <1>9, <2>2
<1>10. NoBriefing(u)'
    <2>1. NoBriefing(u)
        BY DEF Spaced
    <2>2. ASSUME NEW n \in nudged[u] PROVE <<"briefing", u, D!Day(n)>> \notin DOMAIN sent'
        <3>1. n \in Nat /\ n <= clock /\ D!Slot(n) \in DormantSlots
            BY <1>3 DEF RecordInv, Recorded
        <3>2. <<"briefing", u, D!Day(n)>> \notin DOMAIN sent
            BY <2>1 DEF NoBriefing
        <3> QED
            BY <1>9, <3>1, <3>2
    <2>3. ASSUME NEW i \in Jobs, Nudging(job'[i], u), job'[i].pc \in {"claim", "send"}
          PROVE  <<"briefing", u, D!Day(job'[i].now)>> \notin DOMAIN sent'
        <3>1. job'[i] = job[i]
            BY <1>4, <1>6, <2>3
        <3>2. /\ job[i] \in Visiting /\ job[i].now <= clock
              /\ D!Slot(job[i].now) \in DormantSlots
            BY <2>3, <3>1, VisitKnown DEF TimelyInv, Checked, Nudging
        <3>3. <<"briefing", u, D!Day(job[i].now)>> \notin DOMAIN sent
            BY <2>1, <2>3, <3>1 DEF NoBriefing
        <3>4. job[i].now \in Nat
            BY <3>2 DEF Visiting
        <3> QED
            BY <1>9, <3>1, <3>2, <3>3, <3>4
    <2> QED
        BY <1>2, <2>2, <2>3 DEF NoBriefing, D!Day, Nudging
<1> QED
    BY <1>7, <1>8, <1>10 DEF Spaced

(* When the row is stamped, the message stamped is the last one.           *)
LEMMA OwnStamp ==
    ASSUME SchedulerTyped, TimelyInv, RecordInv, VisitsAreShort, NEW u \in Users, Spaced(u),
           NEW j \in Jobs, job[j].user = u, D!Stamp(j)
    PROVE  Spaced(u)'
<1> DEFINE x == job[j]
           y == job'[j]
<1>1. /\ UNCHANGED <<clock, ledger, sent, nudged>> /\ x.pc = "stamp" /\ x.kind = "dormant"
      /\ job' = [job EXCEPT ![j] = job'[j]] /\ SameVisit(x, y) /\ y.pc = "finish"
      /\ user' = [user EXCEPT ![u].nudged = x.now]
    BY Stamping
<1>2. /\ x.now \in Nat /\ clock \in Nat /\ MaxLag \in Nat
      /\ nudged \in [Users -> SUBSET Nat] /\ user \in [Users -> UserRow]
      /\ user[u].nudged \in Int
    <2>1. x \in Visiting /\ user[u] \in UserRow
        BY <1>1, VisitKnown DEF SchedulerTyped, PeopleTyped
    <2> QED
        BY <2>1, ServicesAssumption
           DEF SchedulerTyped, HistoryTyped, PeopleTyped, Visiting, UserRow
<1>3. user'[u].nudged = x.now
    <2>1. user[u] \in UserRow
        BY <1>2
    <2>2. user'[u] = [user[u] EXCEPT !.nudged = x.now]
        BY <1>1, <1>2
    <2> QED
        BY <2>1, <2>2 DEF UserRow
<1>4. \A i \in Jobs : i # j => job'[i] = job[i]
    BY <1>1 DEF SchedulerTyped, JobsTyped
<1>5. /\ Nudging(x, u) /\ Holds(x) /\ x.now <= clock /\ clock <= x.now + MaxLag
      /\ x.now \in nudged[u]
    BY <1>1 DEF Nudging, Holds, Served, TimelyInv, RecordInv
<1>6. Nudging(y, u) /\ Holds(y) /\ KeyOf(y) = KeyOf(x) /\ y.now = x.now /\ y.row = x.row
    BY <1>1, <1>5 DEF SameVisit, Nudging, Holds
<1>7. \A n \in nudged[u] : n <= user[u].nudged => n <= x.now
    <2>1. CASE user[u].nudged <= x.now
        BY <1>2, <2>1
    <2>2. CASE user[u].nudged > x.now
        <3> DEFINE m == user[u].nudged
        <3>1. m \in nudged[u]
            BY <1>2, <2>2 DEF RecordInv, Recorded
        <3>2. m \in Nat /\ m <= clock
            BY <1>2, <3>1 DEF RecordInv, Recorded
        <3>3. D!Slot(m) \in DormantSlots /\ D!Slot(x.now) \in DormantSlots
            BY <1>5, <3>1 DEF RecordInv, Recorded
        <3>4. D!Day(m) # D!Day(x.now)
            BY <1>2, <1>5, <2>2, <3>1 DEF Spaced, NudgesOnce
        <3>5. m > x.now + MaxLag
            BY <1>2, <2>2, <3>2, <3>3, <3>4, NextNudgeIsLate
        <3> QED
            BY <1>2, <1>5, <3>2, <3>5
    <2> QED
        BY <1>2, <2>1, <2>2
<1>8. Delivered(u)'
    BY <1>1, <1>6, AsideLedger
<1>9. NudgesOnce(u)'
    <2>1. \A h, i \in Jobs : /\ Nudging(job'[h], u) /\ Holds(job'[h])
                             /\ Nudging(job'[i], u) /\ Holds(job'[i])
                             /\ KeyOf(job'[h]) = KeyOf(job'[i])
                             => h = i
        BY <1>4, <1>5, <1>6 DEF Spaced, NudgesOnce
    <2>2. \A i \in Jobs : Nudging(job'[i], u) /\ job'[i].pc = "send" =>
              \A n \in nudged[u] : D!Day(n) # D!Day(job'[i].now)
        BY <1>1, <1>4 DEF Spaced, NudgesOnce
    <2>3. \A a, b \in nudged[u] : D!Day(a) = D!Day(b) => a = b
        BY DEF Spaced, NudgesOnce
    <2> QED
        BY <1>1, <2>1, <2>2, <2>3 DEF NudgesOnce, D!Day, Nudging, Holds, KeyOf
<1>10. NudgesKnown(u)'
    <2>1. NudgesKnown(u)
        BY DEF Spaced
    <2>2. ASSUME NEW i \in Jobs, Nudging(job'[i], u), job'[i].pc # "select", NEW n \in nudged[u]
          PROVE  n <= job'[i].row.nudged \/ job'[i].now <= n + MaxLag
        <3>1. /\ Nudging(job[i], u) /\ job[i].pc # "select"
              /\ job'[i].row = job[i].row /\ job'[i].now = job[i].now
            BY <1>1, <1>4, <1>5, <1>6, <2>2
        <3> QED
            BY <2>1, <3>1 DEF NudgesKnown
    <2>3. ASSUME NEW n \in nudged[u]
          PROVE  \/ n <= user'[u].nudged
                 \/ \E i \in Jobs : /\ Nudging(job'[i], u) /\ job'[i].pc = "stamp"
                                    /\ job'[i].now = n
        <3>1. CASE n <= user[u].nudged
            BY <1>3, <1>7, <3>1
        <3>2. ASSUME NEW i \in Jobs, Nudging(job[i], u), job[i].pc = "stamp", job[i].now = n
              PROVE  n <= user'[u].nudged \/ (Nudging(job'[i], u) /\ job'[i] = job[i])
            BY <1>2, <1>3, <1>4, <3>2
        <3> QED
            BY <2>1, <3>1, <3>2 DEF NudgesKnown
    <2> QED
        BY <1>1, <2>2, <2>3 DEF NudgesKnown, Nudging
<1>11. NudgesApart(u)'
    BY <1>1 DEF Spaced, NudgesApart
<1>12. NoBriefing(u)'
    BY <1>1, AsideBriefing
<1> QED
    BY <1>8, <1>9, <1>10, <1>11, <1>12 DEF Spaced

LEMMA OwnFinish ==
    ASSUME SchedulerTyped, NEW u \in Users, Spaced(u), NEW j \in Jobs, job[j].user = u,
           D!Finishes(j)
    PROVE  Spaced(u)'
<1> DEFINE x == job[j]
           y == job'[j]
<1>1. /\ UNCHANGED <<user, sent, nudged>> /\ job' = [job EXCEPT ![j] = job'[j]] /\ Turned(x, y)
    BY Finishing
<1>2. PICK status \in {"delivered", "failed"} : Settles(j, status)
    BY Finishing
<1>3. status = "delivered" /\ x.pc = "finish"
    BY <1>2 DEF Settles, Spaced, Delivered
<1>4. ~Holds(y) /\ y.pc # "fail" /\ (Nudging(y, u) => y.pc = "select")
    BY <1>1 DEF Turned, Holds, Nudging, D!Idle
<1>5. \A i \in Jobs : i # j => job'[i] = job[i]
    BY <1>1 DEF SchedulerTyped, JobsTyped
<1>6. (NudgesOnce(u) /\ NudgesKnown(u) /\ NudgesApart(u))'
    BY <1>1, <1>3, <1>4, AsideNudges
<1>7. NoBriefing(u)'
    BY <1>1, <1>4, AsideBriefing
<1>8. /\ \A k \in DOMAIN ledger' : \/ k \in DOMAIN ledger /\ ledger'[k] = ledger[k]
                                   \/ ledger'[k].status = "delivered"
      /\ \A k \in DOMAIN ledger' : ledger'[k].stale => k \in DOMAIN ledger /\ ledger[k].stale
      /\ ledger'[KeyOf(x)].status # "sending" \/ x.kind = "resend"
    BY <1>2, <1>3, Settling
<1>9. Holds(x) => x.kind # "resend"
    BY DEF Holds, Served
<1>10. Delivered(u)'
    <2>1. Delivered(u)
        BY DEF Spaced
    <2>2. ASSUME NEW k \in DOMAIN ledger', k[2] = u
          PROVE  /\ ledger'[k].status # "failed" /\ ~ledger'[k].stale
                 /\ ledger'[k].status = "sending" =>
                        \E i \in Jobs : Holds(job'[i]) /\ KeyOf(job'[i]) = k
        <3>1. ledger'[k].status # "failed" /\ ~ledger'[k].stale
            BY <1>8, <2>1, <2>2 DEF Delivered
        <3>2. ASSUME ledger'[k].status = "sending"
              PROVE  \E i \in Jobs : Holds(job'[i]) /\ KeyOf(job'[i]) = k
            <4>1. k \in DOMAIN ledger /\ ledger'[k] = ledger[k]
                BY <1>8, <3>2
            <4>2. PICK i \in Jobs : Holds(job[i]) /\ KeyOf(job[i]) = k
                BY <2>1, <2>2, <3>2, <4>1 DEF Delivered
            <4>3. i # j
                BY <1>8, <1>9, <3>2, <4>2
            <4> QED
                BY <1>5, <4>2, <4>3
        <3> QED
            BY <3>1, <3>2
    <2>3. \A i \in Jobs : job'[i].pc = "fail" => job'[i].user # u
        BY <1>4, <1>5, <2>1 DEF Delivered
    <2> QED
        BY <2>2, <2>3 DEF Delivered
<1> QED
    BY <1>6, <1>7, <1>10 DEF Spaced

LEMMA SpacedStep ==
    ASSUME SchedulerTyped, TimelyInv, RecordInv, SpacedInv, VisitsAreShort, D!Next
    PROVE  SpacedInv'
<1> SUFFICES ASSUME NEW u \in Users, Calm(u)' PROVE Spaced(u)'
    BY DEF SpacedInv
<1>1. SchedulerTyped'
    BY TypeStep
<1>2. Calm(u) /\ \A j \in Jobs : D!Throws(j) => job[j].user # u
    BY ExcusesStay DEF Calm, KeyOf
<1>3. Spaced(u)
    BY <1>2 DEF SpacedInv
<1>4. ASSUME Elsewhere(u) PROVE Spaced(u)'
    BY <1>1, <1>3, <1>4, ElsewhereSpaced
<1>5. ASSUME NEW j \in Jobs, Visits(j) PROVE Spaced(u)'
    <2>1. CASE Ticks(j, u)
        BY <1>3, <2>1, OwnReads
    <2>2. CASE job[j].user = u /\ ~\E w \in Users : Ticks(j, w)
        <3>1. CASE Reads(j) \/ D!SelectDormant(j) \/ D!Build(j) \/ (D!Claim(j) /\ ~Free(j))
            BY <1>3, <2>2, <3>1, OwnReads
        <3>2. CASE D!Claim(j) /\ Free(j)
            BY <1>3, <2>2, <3>2, OwnClaim
        <3>3. CASE D!Send(j)
            BY <1>3, <2>2, <3>3, OwnNudge, OwnOther
        <3>4. CASE D!Stamp(j)
            BY <1>3, <2>2, <3>4, OwnStamp
        <3>5. CASE D!Finishes(j)
            BY <1>3, <2>2, <3>5, OwnFinish
        <3>6. ~D!Throws(j)
            BY <1>2, <2>2
        <3> QED
            BY <1>5, <2>2, <3>1, <3>2, <3>3, <3>4, <3>5, <3>6 DEF Visits
    <2>3. CASE ~Ticks(j, u) /\ (job[j].pc # "idle" => job[j].user # u)
        BY <1>4, <1>5, <2>3, ElsewhereVisit
    <2>4. ASSUME NEW w \in Users, Ticks(j, w) PROVE job[j].pc = "idle"
        BY <2>4, TicksBegin
    <2> QED
        BY <2>1, <2>2, <2>3, <2>4
<1>6. ASSUME \/ \E k \in DOMAIN ledger : D!LeaseEnds(k)
             \/ \E w \in Users : PeopleMove(w) \/ D!WelcomeBack(w)
             \/ D!ScheduleWelcomeBackBroadcast \/ D!Restart \/ D!Time
      PROVE  Spaced(u)'
    BY <1>3, <1>4, <1>6, ElsewhereOthers
<1> QED
    BY <1>5, <1>6, Steps

-----------------------------------------------------------------------------
(* The scheduler beside the other parts, and the theorems.                 *)

LEMMA NothingYet ==
    ASSUME D!Init
    PROVE  NewsInv /\ TimelyInv /\ RecordInv /\ SpacedInv
<1>1. /\ job = [j \in Jobs |-> D!Idle] /\ ledger = <<>>
      /\ nudged = [u \in Users |-> {}]
      /\ user = [u \in Users |-> [paused |-> 0, seen |-> 0, nudged |-> -1, stopped |-> FALSE]]
      /\ known = [s \in {"briefing", "digest"} |-> [u \in Users |-> 0]]
    BY DEF D!Init
<1>2. DOMAIN sent = {}
    BY DEF D!Init, D!EmptyBag, D!SetToBag
<1>3. DOMAIN ledger = {}
    BY <1>1
<1>4. \A j \in Jobs : job[j].pc = "idle"
    BY <1>1 DEF D!Idle
<1>5. NewsInv
    BY <1>1 DEF NewsInv
<1>6. TimelyInv
    BY <1>4 DEF TimelyInv
<1>7. RecordInv
    BY <1>1, <1>2, <1>4 DEF RecordInv, Recorded
<1>8. SpacedInv
    BY <1>1, <1>2, <1>3, <1>4 DEF SpacedInv, Spaced, Delivered, NudgesOnce, NudgesKnown,
       NudgesApart, NoBriefing, Nudging, Holds
<1> QED
    BY <1>5, <1>6, <1>7, <1>8

(* What one message to a user rests on, and another.                       *)
SchedulerInv == SchedulerTyped /\ DeliveryInv /\ NewsInv /\ TimelyInv /\ RecordInv

LEMMA SchedulerStart ==
    ASSUME D!Init
    PROVE  SchedulerInv
BY TypeStart, DeliveryStart, NothingYet DEF SchedulerInv

LEMMA SchedulerStep ==
    ASSUME SchedulerInv, D!Next
    PROVE  SchedulerInv'
BY TypeStep, DeliveryStep, NewsStep, TimelyStep, RecordStep DEF SchedulerInv

LEMMA SchedulerRests ==
    ASSUME UNCHANGED D!vars
    PROVE  /\ SchedulerInv => SchedulerInv'
           /\ SpacedInv => SpacedInv'
<1>1. UNCHANGED <<clock, user, market, ledger, previous, known, job, timers, sent,
                  excuse, nudged, told, due>>
    BY DEF D!vars
<1>2. SchedulerTyped => SchedulerTyped'
    BY <1>1 DEF SchedulerTyped, JobsTyped, LedgerTyped, PeopleTyped, HistoryTyped, Sound
<1>3. DeliveryInv => DeliveryInv'
    BY <1>1 DEF DeliveryInv, Owing, Open, Lapsed, D!Claimable
<1>4. NewsInv => NewsInv'
    BY <1>1 DEF NewsInv, Calm
<1>5. TimelyInv => TimelyInv'
    BY <1>1 DEF TimelyInv
<1>6. RecordInv => RecordInv'
    BY <1>1 DEF RecordInv, Recorded
<1>7. SpacedInv => SpacedInv'
    BY <1>1 DEF SpacedInv, Spaced, Calm, Delivered, NudgesOnce, NudgesKnown, NudgesApart,
       NoBriefing
<1> QED
    BY <1>2, <1>3, <1>4, <1>5, <1>6, <1>7 DEF SchedulerInv

(* The other parts run beside the scheduler and do not disturb it: the     *)
(* whole implements the scheduler on its own.                              *)
THEOREM ServicesRunDeliveries == Spec => D!Spec
<1>1. Init => D!Init
    BY DEF Init
<1>2. [Next]_vars => [D!Next]_(D!vars)
    <2>1. DeliveriesOnly /\ Next => D!Next \/ UNCHANGED D!vars
        BY DEF Next, DeliveriesOnly, OutreachOnly, InboxOnly, deliveries, D!Next, D!Visit, D!vars
    <2>2. OutreachOnly \/ InboxOnly \/ UNCHANGED vars => UNCHANGED D!vars
        BY DEF OutreachOnly, InboxOnly, deliveries, vars, D!vars
    <2>3. Next => DeliveriesOnly \/ OutreachOnly \/ InboxOnly
        BY DEF Next
    <2> QED
        BY <2>1, <2>2, <2>3
<1> QED
    BY <1>1, <1>2, PTL DEF Spec, D!Spec

(* The types, the balance of each message, the news, the hours of the      *)
(* visits and the records hold in every state (lifecycle.ts,               *)
(* marketUpdates.ts).                                                      *)
THEOREM SchedulerInvariant == Spec => []SchedulerInv
<1>1. D!Init => SchedulerInv
    BY SchedulerStart
<1>2. SchedulerInv /\ [D!Next]_(D!vars) => SchedulerInv'
    BY SchedulerStep, SchedulerRests
<1> QED
    BY <1>1, <1>2, ServicesRunDeliveries, PTL DEF D!Spec

(* The scheduler keeps to its types.                                       *)
THEOREM SchedulerTypes == Spec => []D!TypeOK
<1>1. SchedulerTyped => D!TypeOK
    <2> SUFFICES ASSUME SchedulerTyped PROVE D!TypeOK
        OBVIOUS
    <2>1. clock \in Nat /\ timers \subseteq Users
        BY DEF SchedulerTyped, PeopleTyped
    <2>2. \A k \in DOMAIN ledger :
              /\ k[1] \in {"briefing", "dormant", "digest"} /\ k[2] \in Users
              /\ ledger[k].status \in {"sending", "delivered", "failed"}
        BY DEF SchedulerTyped, LedgerTyped, LedgerKeys, LedgerRow, Served
    <2>3. \A j \in Jobs : job[j].pc \in {"idle", "select", "due", "briefed", "claim", "build",
                                         "over", "send", "stamp", "finish", "fail"}
        BY VisitKnown DEF Visiting, Stages
    <2>4. D!BagToSet(sent) \subseteq D!Kinds \X Users \X Nat
        BY DEF SchedulerTyped, HistoryTyped, SentKeys, D!BagToSet
    <2> QED
        BY <2>1, <2>2, <2>3, <2>4 DEF D!TypeOK
<1>2. SchedulerInv => SchedulerTyped
    BY DEF SchedulerInv
<1> QED
    BY <1>1, <1>2, SchedulerInvariant, PTL

(* However runs overlap, leases end and steps fail, each briefing, dormant *)
(* message and digest reaches a user once a day, and once more for each    *)
(* lease that ended and each failure of that message (claim,               *)
(* claimDelivery).                                                         *)
THEOREM DeliveredOnce == Spec => []D!OneDelivery
<1>1. SchedulerInv => D!OneDelivery
    <2> SUFFICES ASSUME SchedulerTyped, DeliveryInv, NEW key \in DOMAIN sent, key[1] \in Served
                 PROVE  D!Count(key, sent) <= 1 + D!Count(key, excuse)
        BY DEF SchedulerInv, D!OneDelivery, D!BagToSet, Served
    <2>1. key \in LedgerKeys
        BY DEF SchedulerTyped, HistoryTyped, SentKeys, LedgerKeys
    <2>2. Owing(key) <= 1 + D!Count(key, excuse)
        BY <2>1 DEF DeliveryInv
    <2>3. /\ D!Count(key, sent) \in Nat /\ D!Count(key, excuse) \in Nat
          /\ Cardinality(Open(key)) \in Nat
        BY VisitCounts, OpenCounts
    <2> QED
        BY <2>2, <2>3 DEF Owing
<1> QED
    BY <1>1, SchedulerInvariant, PTL

(* A match the next briefing no longer calls new has been told of, or is   *)
(* about to be, but for a failure or a preview (buildBriefingSummaries).   *)
THEOREM NewsTold == Spec => []NewsIsTold
<1>1. SchedulerInv => NewsIsTold
    <2> SUFFICES ASSUME NewsInv, NEW u \in Users, Calm(u),
                        NEW v \in 1..known["briefing"][u], v \notin told["briefing"][u]
                 PROVE  \E j \in Jobs : /\ job[j].pc = "send" /\ job[j].user = u
                                        /\ job[j].kind \in {"briefing", "resend"}
        BY DEF SchedulerInv, NewsIsTold, D!NewsIsTold, D!BagToSet, Calm
    <2> QED
        BY DEF NewsInv, TellsOf
<1> QED
    BY <1>1, SchedulerInvariant, PTL

(* When the visits of a morning are over before the hours of the dormant   *)
(* messages, and those of a day before those of the next, messages are     *)
(* sent once a day, dormant messages are the repeat interval apart and no  *)
(* user gets one on the day of a briefing (runDormantReengagement).        *)
THEOREM MessagesSpaced ==
    ASSUME VisitsAreShort
    PROVE  Spec => []DeliveriesSpaced
<1>1. D!Init => SpacedInv
    BY NothingYet
<1>2. SchedulerInv /\ SpacedInv /\ [D!Next]_(D!vars) => SpacedInv'
    BY SpacedStep, SchedulerRests DEF SchedulerInv
<1>3. SchedulerInv /\ SpacedInv /\ D!OneDelivery => DeliveriesSpaced
    <2> SUFFICES ASSUME SchedulerTyped, RecordInv, SpacedInv PROVE D!NudgesSpaced
        BY DEF SchedulerInv, DeliveriesSpaced, D!DeliveriesSpaced
    <2> SUFFICES ASSUME NEW u \in Users, Calm(u)
                 PROVE  /\ \A a, b \in nudged[u] : a < b => b - a >= DormantRepeat
                        /\ \A key \in DOMAIN sent :
                              key[1] = "dormant" /\ key[2] = u =>
                                  D!Count(<<"briefing", u, key[3]>>, sent) = 0
        BY DEF D!NudgesSpaced, D!BagToSet, Calm
    <2>1. NudgesApart(u) /\ NoBriefing(u)
        BY DEF SpacedInv, Spaced
    <2>2. ASSUME NEW key \in DOMAIN sent, key[1] = "dormant", key[2] = u
          PROVE  D!Count(<<"briefing", u, key[3]>>, sent) = 0
        <3>1. key[3] \in Nat /\ key = <<"dormant", u, key[3]>>
            BY <2>2 DEF SchedulerTyped, HistoryTyped, SentKeys
        <3>2. PICK n \in nudged[u] : D!Day(n) = key[3]
            BY <3>1 DEF RecordInv, Recorded
        <3>3. <<"briefing", u, key[3]>> \notin DOMAIN sent
            BY <2>1, <3>2 DEF NoBriefing
        <3> QED
            BY <3>3, BagCounted DEF SchedulerTyped, HistoryTyped
    <2> QED
        BY <2>1, <2>2 DEF NudgesApart
<1> QED
    BY <1>1, <1>2, <1>3, ServicesRunDeliveries, SchedulerInvariant, DeliveredOnce, PTL DEF D!Spec

-----------------------------------------------------------------------------
(* The inbox of a person.                                                  *)

Bodies == Texts \cup Replies \cup {Blank}
Entry == [id : Nat, body : Bodies, of : Nat]
Slot == [entry : Entry, at : Nat]
Webhook == [pc : {"idle", "id", "content"}, todo : Seq(Entry), batch : SUBSET Entry,
            kept : Seq(Slot)]

In(s) == {s[i] : i \in DOMAIN s}

(* An entry whose id is recorded and whose words are looked at next; what a *)
(* webhook let in; and what was let in by any, handled yet or not.          *)
LooksAt(h) == hook[h].pc = "content"
Looked(h) == Head(hook[h].todo)
KeptOf(h) == In(hook[h].kept)
Admitted == heard \cup UNION {KeptOf(h) : h \in Webhooks}

(* The ids that are in the hands of a webhook.                              *)
Owned(h) == {x.entry.id : x \in KeptOf(h)} \cup {k \in ids : LooksAt(h) /\ k = Looked(h).id}
HeardIds == {a.entry.id : a \in heard}

PoolTyped ==
    /\ IsFiniteSet(pool) /\ pool \subseteq Entry
    /\ \A e \in pool : e.id \in 1..Cardinality(pool) /\ e.of <= e.id
    /\ \A e, f \in pool : e.id = f.id => e = f
    /\ \A e \in pool : e.of = 0 => e.body = Blank \/ e.body \in said

HookTyped ==
    /\ hook \in [Webhooks -> Webhook]
    /\ \A h \in Webhooks : /\ LooksAt(h) => hook[h].todo # <<>>
                           /\ hook[h].pc = "idle" => hook[h].kept = <<>>
                           /\ In(hook[h].todo) \subseteq pool
                           /\ \A x \in KeptOf(h) : x.entry \in pool

TablesTyped ==
    /\ tick \in Nat
    /\ ids \subseteq 1..Cardinality(pool) /\ ids \subseteq {e.id : e \in pool}
    /\ DOMAIN content \subseteq {e.body : e \in pool} \ {Blank}
    /\ \A b \in DOMAIN content : content[b] \in Nat /\ content[b] <= tick
    /\ heard \subseteq Slot /\ \A a \in heard : a.entry \in pool
    /\ lost \subseteq 0..Cardinality(pool)

SpokenTyped ==
    /\ spoken \in Seq([text : Replies, at : Nat]) /\ Len(spoken) <= Tracked
    /\ \A i \in DOMAIN spoken : spoken[i].text \in said

MailTyped == PoolTyped /\ HookTyped /\ TablesTyped /\ SpokenTyped

(* An id is in one pair of hands, and in none when its message was heard.   *)
Unique ==
    /\ HeardIds \subseteq ids
    /\ \A a, b \in heard : a.entry.id = b.entry.id => a = b
    /\ \A h \in Webhooks :
          /\ Owned(h) \subseteq ids /\ Owned(h) \cap HeardIds = {}
          /\ \A i, j \in DOMAIN hook[h].kept :
                hook[h].kept[i].entry.id = hook[h].kept[j].entry.id => i = j
          /\ LooksAt(h) => /\ Looked(h).id \in ids
                           /\ \A x \in KeptOf(h) : x.entry.id # Looked(h).id
          /\ \A g \in Webhooks \ {h} : Owned(g) \cap Owned(h) = {}

(* The same words are let in again when their window is over.               *)
Follows(a, b) == a.at >= b.at + ContentWindow
WordsApart ==
    \A a \in Admitted : a.entry.body # Blank =>
        /\ a.entry.body \in DOMAIN content /\ a.at <= content[a.entry.body]
        /\ \A b \in Admitted : b # a /\ a.entry.body = b.entry.body =>
                                   Follows(a, b) \/ Follows(b, a)

(* Words were let in, are the agent's own, or were lost.                    *)
Accounted(b) == \/ \E a \in Admitted : a.entry.body = b
                \/ b \in said
                \/ \E f \in pool : f.of \in lost /\ f.body = b
Answered ==
    /\ \A b \in DOMAIN content : Accounted(b)
    /\ \A e \in pool :
          e.of # 0 /\ e.body # Blank /\ e.id \in ids =>
              Accounted(e.body) \/ \E h \in Webhooks : LooksAt(h) /\ Looked(h).body = e.body

InboxInv == MailTyped /\ Unique /\ WordsApart /\ Answered

-----------------------------------------------------------------------------
(* Sequences.                                                               *)

LEMMA InAppend ==
    ASSUME NEW S, NEW s \in Seq(S), NEW x \in S
    PROVE  /\ Append(s, x) \in Seq(S)
           /\ In(Append(s, x)) = In(s) \cup {x}
<1>1. /\ Append(s, x) \in Seq(S) /\ Len(s) \in Nat /\ DOMAIN s = 1..Len(s)
      /\ DOMAIN Append(s, x) = 1..(Len(s) + 1) /\ Append(s, x)[Len(s) + 1] = x
      /\ \A i \in DOMAIN s : Append(s, x)[i] = s[i]
    OBVIOUS
<1>2. \A i \in DOMAIN Append(s, x) : i = Len(s) + 1 \/ i \in DOMAIN s
    BY <1>1
<1>3. \A i \in DOMAIN s : i \in DOMAIN Append(s, x)
    BY <1>1
<1>4. Len(s) + 1 \in DOMAIN Append(s, x)
    BY <1>1
<1>5. In(Append(s, x)) \subseteq In(s) \cup {x}
    BY <1>1, <1>2 DEF In
<1>6. In(s) \subseteq In(Append(s, x))
    BY <1>1, <1>3 DEF In
<1>7. x \in In(Append(s, x))
    BY <1>1, <1>4 DEF In
<1> QED
    BY <1>1, <1>5, <1>6, <1>7

LEMMA InTail ==
    ASSUME NEW S, NEW s \in Seq(S), s # <<>>
    PROVE  /\ Tail(s) \in Seq(S) /\ Head(s) \in S /\ Head(s) \in In(s)
           /\ In(Tail(s)) \subseteq In(s)
           /\ In(s) \subseteq In(Tail(s)) \cup {Head(s)}
<1>1. /\ Tail(s) \in Seq(S) /\ Len(s) > 0 /\ Len(s) \in Nat /\ DOMAIN s = 1..Len(s)
      /\ DOMAIN Tail(s) = 1..(Len(s) - 1) /\ Head(s) = s[1]
      /\ \A i \in DOMAIN Tail(s) : Tail(s)[i] = s[i + 1]
    OBVIOUS
<1>2. \A i \in DOMAIN s : \/ i = 1
                          \/ i - 1 \in DOMAIN Tail(s) /\ s[i] = Tail(s)[i - 1]
    BY <1>1
<1>3. \A i \in DOMAIN Tail(s) : i + 1 \in DOMAIN s
    BY <1>1
<1>4. 1 \in DOMAIN s
    BY <1>1
<1>5. In(Tail(s)) \subseteq In(s)
    BY <1>1, <1>3 DEF In
<1>6. In(s) \subseteq In(Tail(s)) \cup {Head(s)}
    <2> SUFFICES ASSUME NEW i \in DOMAIN s, i # 1 PROVE s[i] \in In(Tail(s))
        BY <1>1 DEF In
    <2> QED
        BY <1>2 DEF In
<1>7. Head(s) \in In(s) /\ Head(s) \in S
    BY <1>1, <1>4 DEF In
<1> QED
    BY <1>1, <1>5, <1>6, <1>7

LEMMA InNothing == In(<<>>) = {}
BY DEF In

-----------------------------------------------------------------------------
(* What the parts of the invariant survive.                                *)

(* A webhook keeps what it has let in, or lets all of it go; and it goes on *)
(* with the entry it looks at, or turns from it.                            *)
Keeps(h) == hook'[h].kept = hook[h].kept \/ hook'[h].kept = <<>>
Stays(h) == hook'[h].pc = "content" => LooksAt(h) /\ Head(hook'[h].todo) = Looked(h)

LEMMA KeptAfter ==
    ASSUME NEW h, Keeps(h)
    PROVE  KeptOf(h)' \subseteq KeptOf(h)
BY InNothing DEF Keeps, KeptOf

LEMMA UniqueSurvives ==
    ASSUME Unique, ids' = ids, heard' = heard,
           \A h \in Webhooks : Keeps(h) /\ Stays(h)
    PROVE  Unique'
<1>1. \A h \in Webhooks : Owned(h)' \subseteq Owned(h)
    <2> SUFFICES ASSUME NEW h \in Webhooks PROVE Owned(h)' \subseteq Owned(h)
        OBVIOUS
    <2>1. KeptOf(h)' \subseteq KeptOf(h)
        BY KeptAfter
    <2> QED
        BY <2>1 DEF Owned, Stays, LooksAt, Looked
<1>2. HeardIds' \subseteq ids' /\ \A a, b \in heard' : a.entry.id = b.entry.id => a = b
    BY DEF Unique, HeardIds
<1>3. ASSUME NEW h \in Webhooks
      PROVE  /\ Owned(h)' \subseteq ids' /\ Owned(h)' \cap HeardIds' = {}
             /\ \A i, j \in DOMAIN hook'[h].kept :
                   hook'[h].kept[i].entry.id = hook'[h].kept[j].entry.id => i = j
             /\ LooksAt(h)' => /\ Looked(h)'.id \in ids'
                               /\ \A x \in KeptOf(h)' : x.entry.id # Looked(h)'.id
             /\ \A g \in Webhooks \ {h} : Owned(g)' \cap Owned(h)' = {}
    <2>1. Owned(h)' \subseteq ids' /\ Owned(h)' \cap HeardIds' = {}
        BY <1>1 DEF Unique, HeardIds
    <2>2. \A i, j \in DOMAIN hook'[h].kept :
              hook'[h].kept[i].entry.id = hook'[h].kept[j].entry.id => i = j
        BY DEF Unique, Keeps
    <2>3. KeptOf(h)' \subseteq KeptOf(h)
        BY KeptAfter
    <2>4. LooksAt(h)' => /\ Looked(h)'.id \in ids'
                         /\ \A x \in KeptOf(h)' : x.entry.id # Looked(h)'.id
        BY <2>3 DEF Unique, Stays, LooksAt, Looked
    <2>5. \A g \in Webhooks \ {h} : Owned(g)' \cap Owned(h)' = {}
        BY <1>1 DEF Unique
    <2> QED
        BY <2>1, <2>2, <2>4, <2>5
<1> QED
    BY <1>2, <1>3 DEF Unique

LEMMA WordsApartSurvive ==
    ASSUME WordsApart, Admitted' \subseteq Admitted, content' = content
    PROVE  WordsApart'
BY DEF WordsApart, Follows

LEMMA AccountedSurvives ==
    ASSUME pool \subseteq pool', said \subseteq said', lost \subseteq lost',
           \A a \in Admitted : a.entry \in pool,
           \A a \in Admitted : a \in Admitted' \/ a.entry.of \in lost',
           NEW b, Accounted(b)
    PROVE  Accounted(b)'
<1>1. CASE \E a \in Admitted : a.entry.body = b
    <2>1. PICK a \in Admitted : a.entry.body = b
        BY <1>1
    <2>2. a.entry \in pool'
        OBVIOUS
    <2>3. CASE a \in Admitted'
        BY <2>1, <2>3 DEF Accounted
    <2>4. CASE a.entry.of \in lost'
        BY <2>1, <2>2, <2>4 DEF Accounted
    <2> QED
        BY <2>3, <2>4
<1>2. CASE b \in said
    BY <1>2 DEF Accounted
<1>3. CASE \E f \in pool : f.of \in lost /\ f.body = b
    BY <1>3 DEF Accounted
<1> QED
    BY <1>1, <1>2, <1>3 DEF Accounted

LEMMA AnsweredSurvives ==
    ASSUME Answered, pool \subseteq pool', said \subseteq said', lost \subseteq lost',
           content' = content,
           \A e \in pool' : e.id \in ids' => e \in pool /\ e.id \in ids,
           \A a \in Admitted : a.entry \in pool,
           \A a \in Admitted : a \in Admitted' \/ a.entry.of \in lost',
           \A h \in Webhooks : LooksAt(h) =>
               /\ Looked(h) \in pool
               /\ \/ LooksAt(h)' /\ Looked(h)' = Looked(h)
                  \/ Looked(h).of \in lost'
    PROVE  Answered'
<1>1. \A b : Accounted(b) => Accounted(b)'
    BY AccountedSurvives
<1>2. \A b \in DOMAIN content' : Accounted(b)'
    BY <1>1 DEF Answered
<1>3. ASSUME NEW e \in pool', e.of # 0, e.body # Blank, e.id \in ids'
      PROVE  Accounted(e.body)' \/ \E h \in Webhooks : LooksAt(h)' /\ Looked(h)'.body = e.body
    <2>1. CASE Accounted(e.body)
        BY <1>1, <2>1
    <2>2. CASE \E h \in Webhooks : LooksAt(h) /\ Looked(h).body = e.body
        <3>1. PICK h \in Webhooks : LooksAt(h) /\ Looked(h).body = e.body
            BY <2>2
        <3>2. CASE Looked(h).of \in lost'
            BY <3>1, <3>2 DEF Accounted
        <3> QED
            BY <3>1, <3>2
    <2> QED
        BY <1>3, <2>1, <2>2 DEF Answered
<1> QED
    BY <1>2, <1>3 DEF Answered

-----------------------------------------------------------------------------
(* Webhooks.                                                               *)

LEMMA HookKnown ==
    ASSUME HookTyped, NEW h \in Webhooks
    PROVE  /\ hook[h] \in Webhook /\ hook[h].todo \in Seq(Entry) /\ hook[h].kept \in Seq(Slot)
           /\ hook[h].batch \in SUBSET Entry
BY DEF HookTyped, Webhook

LEMMA LookedKnown ==
    ASSUME HookTyped, NEW h \in Webhooks, hook[h].todo # <<>>
    PROVE  /\ Looked(h) \in pool /\ Looked(h) \in Entry
           /\ Tail(hook[h].todo) \in Seq(Entry)
           /\ In(Tail(hook[h].todo)) \subseteq In(hook[h].todo)
<1>1. hook[h].todo \in Seq(Entry)
    BY HookKnown
<1>2. PICK s \in Seq(Entry) : s = hook[h].todo
    BY <1>1
<1>3. /\ Tail(s) \in Seq(Entry) /\ Head(s) \in Entry /\ Head(s) \in In(s)
      /\ In(Tail(s)) \subseteq In(s)
    BY <1>2, InTail
<1> QED
    BY <1>2, <1>3 DEF HookTyped, Looked

LEMMA HookMoves ==
    ASSUME HookTyped, pool \subseteq pool', NEW h \in Webhooks, NEW r \in Webhook,
           hook' = [hook EXCEPT ![h] = r],
           r.pc = "content" => r.todo # <<>>, r.pc = "idle" => r.kept = <<>>,
           In(r.todo) \subseteq pool', \A x \in In(r.kept) : x.entry \in pool'
    PROVE  HookTyped' /\ hook'[h] = r /\ \A g \in Webhooks \ {h} : hook'[g] = hook[g]
<1>1. hook' \in [Webhooks -> Webhook]
    BY DEF HookTyped
<1>2. hook'[h] = r /\ \A g \in Webhooks \ {h} : hook'[g] = hook[g]
    BY DEF HookTyped
<1>3. ASSUME NEW g \in Webhooks
      PROVE  /\ LooksAt(g)' => hook'[g].todo # <<>>
             /\ hook'[g].pc = "idle" => hook'[g].kept = <<>>
             /\ In(hook'[g].todo) \subseteq pool'
             /\ \A x \in KeptOf(g)' : x.entry \in pool'
    <2>1. CASE g = h
        BY <1>2, <2>1 DEF LooksAt, KeptOf
    <2>2. CASE g # h
        <3>1. hook'[g] = hook[g]
            BY <1>2, <2>2
        <3> QED
            BY <3>1 DEF HookTyped, LooksAt, KeptOf
    <2> QED
        BY <2>1, <2>2
<1> QED
    BY <1>1, <1>2, <1>3 DEF HookTyped

LEMMA DropDrops ==
    ASSUME HookTyped, pool \subseteq pool', NEW h \in Webhooks, hook[h].todo # <<>>, I!Drop(h)
    PROVE  /\ HookTyped'
           /\ hook'[h].pc = "id" /\ hook'[h].kept = hook[h].kept
           /\ \A g \in Webhooks \ {h} : hook'[g] = hook[g]
<1>1. hook' = [hook EXCEPT ![h].todo = Tail(@), ![h].pc = "id"]
    BY DEF I!Drop
<1>2. hook[h] \in Webhook /\ Tail(hook[h].todo) \in Seq(Entry)
    BY HookKnown, LookedKnown
<1>3. PICK r : r = [hook[h] EXCEPT !.todo = Tail(hook[h].todo), !.pc = "id"]
    OBVIOUS
<1>4. hook' = [hook EXCEPT ![h] = r]
    BY <1>1, <1>3 DEF HookTyped
<1>5. r \in Webhook /\ r.pc = "id" /\ r.kept = hook[h].kept /\ r.todo = Tail(hook[h].todo)
    BY <1>2, <1>3 DEF Webhook
<1>6. In(r.todo) \subseteq pool' /\ \A x \in In(r.kept) : x.entry \in pool'
    BY <1>5, LookedKnown DEF HookTyped, KeptOf
<1> QED
    BY <1>4, <1>5, <1>6, HookMoves

LEMMA KeepKeeps ==
    ASSUME HookTyped, pool \subseteq pool', NEW h \in Webhooks, hook[h].todo # <<>>, tick \in Nat,
           I!Keep(h, Looked(h))
    PROVE  /\ HookTyped'
           /\ hook'[h].pc = "id"
           /\ hook'[h].kept = Append(hook[h].kept, [entry |-> Looked(h), at |-> tick])
           /\ KeptOf(h)' = KeptOf(h) \cup {[entry |-> Looked(h), at |-> tick]}
           /\ \A g \in Webhooks \ {h} : hook'[g] = hook[g]
<1> DEFINE new == [entry |-> Looked(h), at |-> tick]
<1>1. hook' = [hook EXCEPT ![h].todo = Tail(@), ![h].pc = "id", ![h].kept = Append(@, new)]
    BY DEF I!Keep
<1>2. /\ hook[h] \in Webhook /\ Tail(hook[h].todo) \in Seq(Entry)
      /\ hook[h].kept \in Seq(Slot) /\ new \in Slot /\ new.entry \in pool
    BY HookKnown, LookedKnown DEF Slot
<1> HIDE DEF new
<1>3. /\ Append(hook[h].kept, new) \in Seq(Slot)
      /\ In(Append(hook[h].kept, new)) = In(hook[h].kept) \cup {new}
    <2>1. PICK s \in Seq(Slot) : s = hook[h].kept
        BY <1>2
    <2> QED
        BY <2>1, <1>2, InAppend
<1>4. PICK r : r = [hook[h] EXCEPT !.todo = Tail(hook[h].todo), !.pc = "id",
                                   !.kept = Append(hook[h].kept, new)]
    OBVIOUS
<1>5. hook' = [hook EXCEPT ![h] = r]
    BY <1>1, <1>4 DEF HookTyped
<1>6. /\ r \in Webhook /\ r.pc = "id" /\ r.kept = Append(hook[h].kept, new)
      /\ r.todo = Tail(hook[h].todo)
    BY <1>2, <1>3, <1>4 DEF Webhook
<1>7. In(r.todo) \subseteq pool' /\ \A x \in In(r.kept) : x.entry \in pool'
    BY <1>2, <1>3, <1>6, LookedKnown DEF HookTyped, KeptOf
<1>8. HookTyped' /\ hook'[h] = r /\ \A g \in Webhooks \ {h} : hook'[g] = hook[g]
    BY <1>5, <1>6, <1>7, HookMoves
<1>9. KeptOf(h)' = KeptOf(h) \cup {new}
    BY <1>3, <1>6, <1>8 DEF KeptOf
<1> QED
    BY <1>6, <1>8, <1>9 DEF new

LEMMA WebhookIdle ==
    ASSUME HookTyped, pool \subseteq pool', NEW h \in Webhooks,
           hook' = [hook EXCEPT ![h] = I!Idle]
    PROVE  /\ HookTyped'
           /\ hook'[h].pc = "idle" /\ hook'[h].kept = <<>>
           /\ \A g \in Webhooks \ {h} : hook'[g] = hook[g]
<1>1. I!Idle \in Webhook /\ I!Idle.pc = "idle" /\ I!Idle.kept = <<>> /\ I!Idle.todo = <<>>
    BY DEF I!Idle, Webhook
<1>2. PICK r : r = I!Idle
    OBVIOUS
<1> QED
    BY <1>1, <1>2, InNothing, HookMoves

-----------------------------------------------------------------------------
(* Types.                                                                  *)

(* The count of the instance is that of the library.                        *)
LEMMA InboxCounts ==
    ASSUME NEW S
    PROVE  I!Cardinality(S) = Cardinality(S)
BY DEF I!Cardinality, Cardinality

LEMMA PoolGrows ==
    ASSUME PoolTyped, said' = said, NEW e \in Entry, pool' = pool \cup {e},
           e.id = I!NewId, e.of <= e.id, e.of = 0 => e.body = Blank \/ e.body \in said
    PROVE  /\ PoolTyped'
           /\ Cardinality(pool) \in Nat /\ Cardinality(pool') = Cardinality(pool) + 1
           /\ pool \subseteq pool'
           /\ \A f \in pool' : f.id \in 1..Cardinality(pool) => f \in pool
<1>1. Cardinality(pool) \in Nat /\ e.id = Cardinality(pool) + 1
    BY FS_CardinalityType, InboxCounts DEF PoolTyped, I!NewId
<1>2. e \notin pool
    BY <1>1 DEF PoolTyped
<1>3. IsFiniteSet(pool') /\ Cardinality(pool') = Cardinality(pool) + 1
    BY <1>2, FS_AddElement DEF PoolTyped
<1>4. pool' \subseteq Entry
    BY DEF PoolTyped
<1>5. \A f \in pool' : f.id \in 1..Cardinality(pool') /\ f.of <= f.id
    BY <1>1, <1>3 DEF PoolTyped
<1>6. \A f, g \in pool' : f.id = g.id => f = g
    BY <1>1 DEF PoolTyped
<1>7. \A f \in pool' : f.of = 0 => f.body = Blank \/ f.body \in said'
    BY DEF PoolTyped
<1>8. \A f \in pool' : f.id \in 1..Cardinality(pool) => f \in pool
    BY <1>1
<1> QED
    BY <1>1, <1>3, <1>4, <1>5, <1>6, <1>7, <1>8 DEF PoolTyped

LEMMA TablesSurvive ==
    ASSUME TablesTyped, PoolTyped, PoolTyped', pool \subseteq pool',
           Cardinality(pool) \in Nat, Cardinality(pool') \in Nat,
           Cardinality(pool) <= Cardinality(pool'),
           tick' \in Nat, tick <= tick', content' = content, ids' = ids, heard' = heard,
           lost' = lost
    PROVE  TablesTyped'
<1>1. tick \in Nat
    BY DEF TablesTyped
<1>2. \A b \in DOMAIN content' : content'[b] \in Nat /\ content'[b] <= tick'
    BY <1>1 DEF TablesTyped
<1>3. 1..Cardinality(pool) \subseteq 1..Cardinality(pool')
      /\ 0..Cardinality(pool) \subseteq 0..Cardinality(pool')
    OBVIOUS
<1>4. /\ {e.body : e \in pool} \subseteq {e.body : e \in pool'}
      /\ {e.id : e \in pool} \subseteq {e.id : e \in pool'}
    OBVIOUS
<1>5. DOMAIN content' \subseteq {e.body : e \in pool'} \ {Blank}
    BY <1>4 DEF TablesTyped
<1>6. heard' \subseteq Slot /\ \A a \in heard' : a.entry \in pool'
    BY DEF TablesTyped
<1> QED
    BY <1>2, <1>3, <1>4, <1>5, <1>6 DEF TablesTyped

LEMMA TakenKnown ==
    ASSUME PoolTyped, HookTyped, NEW h \in Webhooks
    PROVE  /\ I!Taken(h) \subseteq 0..Cardinality(pool)
           /\ \A x \in KeptOf(h) : x.entry.of \in I!Taken(h)
           /\ LooksAt(h) => Looked(h).of \in I!Taken(h)
<1>1. \A e \in pool : e.of \in 0..Cardinality(pool)
    <2>1. Cardinality(pool) \in Nat
        BY FS_CardinalityType DEF PoolTyped
    <2> QED
        BY <2>1 DEF PoolTyped, Entry
<1>2. I!Taken(h) = {e.of : e \in In(hook[h].todo)} \cup {x.entry.of : x \in KeptOf(h)}
    BY DEF I!Taken, In, KeptOf
<1>3. LooksAt(h) => Looked(h) \in In(hook[h].todo)
    <2>1. PICK s \in Seq(Entry) : s = hook[h].todo
        BY HookKnown
    <2> QED
        BY <2>1, InTail DEF HookTyped, Looked
<1>4. \A x \in KeptOf(h) : x.entry \in pool
    BY DEF HookTyped
<1>5. In(hook[h].todo) \subseteq pool
    BY DEF HookTyped
<1> QED
    BY <1>1, <1>2, <1>3, <1>4, <1>5

(* Those whose half hour is over come first and are let go.                 *)
LEMMA LiveKnown ==
    ASSUME SpokenTyped
    PROVE  /\ I!Live \in Seq([text : Replies, at : Nat]) /\ Len(I!Live) <= Len(spoken)
           /\ \A i \in DOMAIN I!Live : I!Live[i].text \in said
<1> DEFINE Texted == [text : Replies, at : Nat]
           over == {i \in DOMAIN spoken : ~I!Within(spoken[i].at, EchoWindow)}
           n == Cardinality(over)
<1> HIDE DEF Texted
<1>1. spoken \in Seq(Texted) /\ Len(spoken) \in Nat /\ DOMAIN spoken = 1..Len(spoken)
    BY DEF SpokenTyped, Texted
<1>2. IsFiniteSet(1..Len(spoken)) /\ Cardinality(1..Len(spoken)) = Len(spoken)
    BY <1>1, FS_Interval
<1>3. n \in Nat /\ n <= Len(spoken)
    <2>1. over \subseteq 1..Len(spoken)
        BY <1>1
    <2>2. IsFiniteSet(over) /\ n <= Len(spoken)
        BY <1>2, <2>1, FS_Subset
    <2> QED
        BY <2>2, FS_CardinalityType
<1>4. I!Live = SubSeq(spoken, n + 1, Len(spoken))
    BY InboxCounts DEF I!Live
<1> HIDE DEF n
<1>5. PICK live : live = SubSeq(spoken, n + 1, Len(spoken))
    OBVIOUS
<1>6. /\ live \in Seq(Texted) /\ Len(live) = Len(spoken) - n
      /\ \A i \in 1..Len(live) : live[i] = spoken[i + n]
    <2>1. PICK m : m = n + 1
        OBVIOUS
    <2>2. m \in Int /\ Len(spoken) \in Int /\ \A i \in m..Len(spoken) : spoken[i] \in Texted
        BY <1>1, <1>3, <2>1
    <2>3. /\ SubSeq(spoken, m, Len(spoken)) \in Seq(Texted)
          /\ Len(SubSeq(spoken, m, Len(spoken))) =
                 IF m <= Len(spoken) THEN Len(spoken) - m + 1 ELSE 0
          /\ \A i \in 1..(Len(spoken) - m + 1) :
                 SubSeq(spoken, m, Len(spoken))[i] = spoken[m + i - 1]
        BY <2>2, SubSeqProperties
    <2>4. /\ live \in Seq(Texted)
          /\ Len(live) = IF m <= Len(spoken) THEN Len(spoken) - m + 1 ELSE 0
          /\ \A i \in 1..(Len(spoken) - m + 1) : live[i] = spoken[m + i - 1]
        BY <1>5, <2>1, <2>3
    <2>5. Len(live) = Len(spoken) - n
        <3>1. PICK k : k = Len(spoken)
            OBVIOUS
        <3>2. k \in Nat /\ n \in Nat /\ n <= k /\ m = n + 1
            BY <1>1, <1>3, <2>1, <3>1
        <3>3. CASE m <= k
            BY <2>4, <3>1, <3>2, <3>3
        <3>4. CASE ~(m <= k)
            <4>1. k - n = 0
                BY <3>2, <3>4
            <4> QED
                BY <2>4, <3>1, <3>4, <4>1
        <3> QED
            BY <3>3, <3>4
    <2>6. \A i \in 1..Len(live) : i \in 1..(Len(spoken) - m + 1) /\ m + i - 1 = i + n
        BY <1>1, <1>3, <2>1, <2>5
    <2> QED
        BY <2>4, <2>5, <2>6
<1>7. \A i \in DOMAIN live : live[i].text \in said
    <2>1. \A i \in 1..Len(live) : i + n \in DOMAIN spoken
        BY <1>1, <1>3, <1>6
    <2> QED
        BY <1>6, <2>1 DEF SpokenTyped
<1>8. I!Live = live
    BY <1>4, <1>5
<1>9. Len(live) <= Len(spoken)
    BY <1>1, <1>3, <1>6
<1> QED
    BY <1>6, <1>7, <1>8, <1>9 DEF Texted

-----------------------------------------------------------------------------
(* What the person, the provider and time do.                              *)

LEMMA Hands ==
    ASSUME MailTyped
    PROVE  /\ \A a \in Admitted : a.entry \in pool /\ a \in Slot
           /\ \A h \in Webhooks : LooksAt(h) => Looked(h) \in pool
           /\ Cardinality(pool) \in Nat
<1>1. \A h \in Webhooks : \A a \in KeptOf(h) : a.entry \in pool /\ a \in Slot
    <2> SUFFICES ASSUME NEW h \in Webhooks PROVE KeptOf(h) \subseteq Slot
        BY DEF MailTyped, HookTyped
    <2>1. PICK s \in Seq(Slot) : s = hook[h].kept
        BY HookKnown DEF MailTyped
    <2>2. In(s) \subseteq Slot
        BY DEF In
    <2> QED
        BY <2>1, <2>2 DEF KeptOf
<1>2. \A a \in Admitted : a.entry \in pool /\ a \in Slot
    BY <1>1 DEF Admitted, MailTyped, TablesTyped
<1>3. \A h \in Webhooks : LooksAt(h) => Looked(h) \in pool
    BY LookedKnown DEF MailTyped, HookTyped
<1> QED
    BY <1>2, <1>3, FS_CardinalityType DEF MailTyped, PoolTyped

LEMMA HandsRest ==
    ASSUME hook' = hook
    PROVE  /\ \A h \in Webhooks : Keeps(h) /\ Stays(h) /\ KeptOf(h)' = KeptOf(h)
           /\ \A h \in Webhooks : LooksAt(h)' = LooksAt(h) /\ Looked(h)' = Looked(h)
           /\ heard' = heard => Admitted' = Admitted
BY DEF Keeps, Stays, LooksAt, Looked, KeptOf, Admitted

LEMMA PoolStep ==
    ASSUME InboxInv, NEW e \in Entry, pool' = pool \cup {e},
           e.id = I!NewId, e.of <= e.id, e.of = 0 => e.body = Blank \/ e.body \in said,
           UNCHANGED <<tick, ids, content, spoken, said, hook, heard, lost>>
    PROVE  InboxInv'
<1>1. MailTyped /\ PoolTyped /\ HookTyped /\ TablesTyped /\ SpokenTyped
    BY DEF InboxInv, MailTyped
<1>2. /\ PoolTyped'
      /\ Cardinality(pool) \in Nat /\ Cardinality(pool') = Cardinality(pool) + 1
      /\ pool \subseteq pool'
      /\ \A f \in pool' : f.id \in 1..Cardinality(pool) => f \in pool
    BY <1>1, PoolGrows
<1>3. TablesTyped'
    <2>1. tick' \in Nat /\ tick <= tick'
        BY <1>1 DEF TablesTyped
    <2>2. Cardinality(pool') \in Nat /\ Cardinality(pool) <= Cardinality(pool')
        BY <1>2
    <2> QED
        BY <1>1, <1>2, <2>1, <2>2, TablesSurvive
<1>4. HookTyped' /\ SpokenTyped'
    BY <1>1, <1>2 DEF HookTyped, SpokenTyped, LooksAt, KeptOf
<1>5. Unique'
    BY HandsRest, UniqueSurvives DEF InboxInv
<1>6. WordsApart'
    BY HandsRest, WordsApartSurvive DEF InboxInv
<1>7. Answered'
    <2>1. \A f \in pool' : f.id \in ids' => f \in pool /\ f.id \in ids
        BY <1>1, <1>2 DEF TablesTyped
    <2>2. \A a \in Admitted : a.entry \in pool /\ a \in Admitted'
        BY <1>1, Hands, HandsRest
    <2>3. \A h \in Webhooks : LooksAt(h) =>
              Looked(h) \in pool /\ LooksAt(h)' /\ Looked(h)' = Looked(h)
        BY <1>1, Hands, HandsRest
    <2> QED
        BY <1>2, <2>1, <2>2, <2>3, AnsweredSurvives DEF InboxInv
<1> QED
    BY <1>2, <1>3, <1>4, <1>5, <1>6, <1>7 DEF InboxInv, MailTyped

LEMMA WriteStep ==
    ASSUME InboxInv, NEW b \in Texts \cup {Blank}, I!Write(b)
    PROVE  InboxInv'
<1>1. PICK e : e = [id |-> I!NewId, body |-> b, of |-> I!NewId]
    OBVIOUS
<1>2. I!NewId \in Nat \ {0}
    BY Hands, InboxCounts DEF InboxInv, I!NewId
<1>3. e \in Entry /\ e.id = I!NewId /\ e.of = I!NewId
    BY <1>1, <1>2 DEF Entry, Bodies
<1>4. pool' = pool \cup {e} /\ UNCHANGED <<tick, ids, content, spoken, said, hook, heard, lost>>
    BY <1>1 DEF I!Write, I!memory, I!tables
<1> QED
    BY <1>2, <1>3, <1>4, PoolStep

LEMMA CopyStep ==
    ASSUME InboxInv, I!Copy
    PROVE  InboxInv'
<1>1. UNCHANGED <<tick, ids, content, spoken, said, hook, heard, lost>>
    BY DEF I!Copy, I!memory, I!tables
<1>2. PoolTyped /\ SpokenTyped /\ Cardinality(pool) \in Nat
    BY Hands DEF InboxInv, MailTyped
<1>3. I!NewId \in Nat /\ I!NewId = Cardinality(pool) + 1
    BY <1>2, InboxCounts DEF I!NewId
<1>4. CASE \E e \in pool : e.of # 0 /\ pool' = pool \cup {[e EXCEPT !.id = I!NewId]}
    <2>1. PICK e \in pool : e.of # 0 /\ pool' = pool \cup {[e EXCEPT !.id = I!NewId]}
        BY <1>4
    <2>2. PICK f : f = [e EXCEPT !.id = I!NewId]
        OBVIOUS
    <2>3. e \in Entry /\ e.of <= e.id /\ e.id <= Cardinality(pool)
        BY <1>2 DEF PoolTyped
    <2>4. f \in Entry /\ f.id = I!NewId /\ f.of = e.of /\ f.of <= f.id
        BY <1>2, <1>3, <2>2, <2>3 DEF Entry
    <2> QED
        BY <1>1, <2>1, <2>2, <2>4, PoolStep
<1>5. CASE pool' = pool \cup {[id |-> I!NewId, body |-> Blank, of |-> 0]}
    <2>1. PICK f : f = [id |-> I!NewId, body |-> Blank, of |-> 0]
        OBVIOUS
    <2>2. f \in Entry /\ f.id = I!NewId /\ f.of <= f.id /\ f.body = Blank
        BY <1>3, <2>1 DEF Entry, Bodies
    <2> QED
        BY <1>1, <1>5, <2>1, <2>2, PoolStep
<1>6. CASE \E i \in DOMAIN spoken :
               pool' = pool \cup {[id |-> I!NewId, body |-> spoken[i].text, of |-> 0]}
    <2>1. PICK i \in DOMAIN spoken :
              pool' = pool \cup {[id |-> I!NewId, body |-> spoken[i].text, of |-> 0]}
        BY <1>6
    <2>2. PICK f : f = [id |-> I!NewId, body |-> spoken[i].text, of |-> 0]
        OBVIOUS
    <2>3. spoken[i].text \in Replies /\ spoken[i].text \in said
        <3>1. PICK s \in Seq([text : Replies, at : Nat]) : s = spoken
            BY <1>2 DEF SpokenTyped
        <3>2. s[i] \in [text : Replies, at : Nat]
            <4>1. i \in 1..Len(s)
                BY <3>1
            <4> QED
                BY <4>1, ElementOfSeq
        <3> QED
            BY <1>2, <3>1, <3>2 DEF SpokenTyped
    <2>4. f \in Entry /\ f.id = I!NewId /\ f.of <= f.id /\ f.body \in said
        BY <1>3, <2>2, <2>3 DEF Entry, Bodies
    <2> QED
        BY <1>1, <2>1, <2>2, <2>4, PoolStep
<1> QED
    BY <1>4, <1>5, <1>6 DEF I!Copy

LEMMA TickStep ==
    ASSUME InboxInv, I!Tick
    PROVE  InboxInv'
<1>1. /\ tick' = tick + 1
      /\ UNCHANGED <<pool, ids, content, spoken, said, hook, heard, lost>>
    BY DEF I!Tick, I!memory, I!tables
<1>2. /\ MailTyped /\ PoolTyped /\ HookTyped /\ TablesTyped /\ SpokenTyped
      /\ Cardinality(pool) \in Nat
    BY Hands DEF InboxInv, MailTyped
<1>3. PoolTyped' /\ HookTyped' /\ SpokenTyped'
    BY <1>1, <1>2 DEF PoolTyped, HookTyped, SpokenTyped, LooksAt, KeptOf
<1>4. TablesTyped'
    <2>1. tick \in Nat /\ tick' \in Nat /\ tick <= tick'
        BY <1>1, <1>2 DEF TablesTyped
    <2> QED
        BY <1>1, <1>2, <1>3, <2>1, TablesSurvive
<1>5. Unique'
    BY <1>1, HandsRest, UniqueSurvives DEF InboxInv
<1>6. WordsApart'
    BY <1>1, HandsRest, WordsApartSurvive DEF InboxInv
<1>7. Answered'
    <2>1. \A a \in Admitted : a.entry \in pool /\ a \in Admitted'
        BY <1>1, <1>2, Hands, HandsRest
    <2>2. \A h \in Webhooks : LooksAt(h) =>
              Looked(h) \in pool /\ LooksAt(h)' /\ Looked(h)' = Looked(h)
        BY <1>1, <1>2, Hands, HandsRest
    <2> QED
        BY <1>1, <2>1, <2>2, AnsweredSurvives DEF InboxInv
<1> QED
    BY <1>3, <1>4, <1>5, <1>6, <1>7 DEF InboxInv, MailTyped

-----------------------------------------------------------------------------
(* Webhooks that begin, end or turn from an entry.                         *)

LEMMA WebhooksTurn ==
    ASSUME InboxInv, pool' = pool, ids' = ids, content' = content, heard' = heard,
           said' = said, lost \subseteq lost',
           \A h \in Webhooks :
               /\ Keeps(h) /\ Stays(h)
               /\ \/ /\ hook'[h].kept = hook[h].kept
                     /\ LooksAt(h) => hook'[h].pc = "content" /\ Head(hook'[h].todo) = Looked(h)
                  \/ I!Taken(h) \subseteq lost'
    PROVE  Unique' /\ WordsApart' /\ Answered'
<1>1. Unique'
    BY UniqueSurvives DEF InboxInv
<1>2. PoolTyped /\ HookTyped
    BY DEF InboxInv, MailTyped
<1>3. WordsApart'
    <2>1. Admitted' \subseteq Admitted
        BY KeptAfter DEF Admitted
    <2> QED
        BY <2>1, WordsApartSurvive DEF InboxInv
<1>4. \A a \in Admitted : a.entry \in pool
    BY Hands DEF InboxInv
<1>5. \A a \in Admitted : a \in Admitted' \/ a.entry.of \in lost'
    <2>1. ASSUME NEW h \in Webhooks, NEW a \in KeptOf(h)
          PROVE  a \in Admitted' \/ a.entry.of \in lost'
        <3>1. CASE hook'[h].kept = hook[h].kept
            BY <2>1, <3>1 DEF Admitted, KeptOf
        <3>2. CASE I!Taken(h) \subseteq lost'
            BY <1>2, <2>1, <3>2, TakenKnown
        <3> QED
            BY <3>1, <3>2
    <2> QED
        BY <2>1 DEF Admitted
<1>6. ASSUME NEW h \in Webhooks, LooksAt(h)
      PROVE  /\ Looked(h) \in pool
             /\ \/ LooksAt(h)' /\ Looked(h)' = Looked(h)
                \/ Looked(h).of \in lost'
    <2>1. Looked(h) \in pool
        BY <1>6, Hands DEF InboxInv
    <2>2. CASE I!Taken(h) \subseteq lost'
        BY <1>2, <1>6, <2>1, <2>2, TakenKnown
    <2>3. CASE hook'[h].pc = "content" /\ Head(hook'[h].todo) = Looked(h)
        BY <2>1, <2>3 DEF LooksAt, Looked
    <2> QED
        BY <1>6, <2>2, <2>3
<1>7. Answered'
    BY <1>4, <1>5, <1>6, AnsweredSurvives DEF InboxInv
<1> QED
    BY <1>1, <1>3, <1>7

LEMMA ReceiveStep ==
    ASSUME InboxInv, NEW h \in Webhooks, NEW batch \in Seq(Entry), In(batch) \subseteq pool,
           I!Receive(h, batch)
    PROVE  InboxInv'
<1>1. /\ hook[h].pc = "idle"
      /\ UNCHANGED <<tick, pool, ids, content, spoken, said, heard, lost>>
    BY DEF I!Receive, I!At, I!memory, I!tables
<1>2. PICK r : r = [pc |-> "id", todo |-> batch, kept |-> <<>>, batch |-> In(batch)]
    OBVIOUS
<1>3. hook' = [hook EXCEPT ![h] = r]
    BY <1>2 DEF I!Receive, In
<1>4. MailTyped /\ PoolTyped /\ HookTyped /\ TablesTyped /\ SpokenTyped
    BY DEF InboxInv, MailTyped
<1>5. In(batch) \subseteq Entry
    BY <1>4 DEF PoolTyped
<1>6. /\ r \in Webhook /\ r.pc = "id" /\ r.kept = <<>> /\ r.todo = batch
      /\ In(r.kept) = {}
    BY <1>2, <1>5, InNothing DEF Webhook
<1>7. HookTyped' /\ hook'[h] = r /\ \A g \in Webhooks \ {h} : hook'[g] = hook[g]
    BY <1>1, <1>3, <1>4, <1>6, HookMoves
<1>8. MailTyped'
    BY <1>1, <1>4, <1>7 DEF MailTyped, PoolTyped, TablesTyped, SpokenTyped
<1>9. hook[h].kept = <<>> /\ ~LooksAt(h)
    BY <1>1, <1>4 DEF HookTyped, LooksAt
<1>10. ASSUME NEW g \in Webhooks
       PROVE  /\ Keeps(g) /\ Stays(g) /\ hook'[g].kept = hook[g].kept
              /\ LooksAt(g) => hook'[g].pc = "content" /\ Head(hook'[g].todo) = Looked(g)
    <2>1. CASE g = h
        BY <1>6, <1>7, <1>9, <2>1 DEF Keeps, Stays
    <2>2. CASE g # h
        <3>1. hook'[g] = hook[g]
            BY <1>7, <2>2
        <3> QED
            BY <3>1 DEF Keeps, Stays, LooksAt, Looked
    <2> QED
        BY <2>1, <2>2
<1> QED
    BY <1>1, <1>8, <1>10, WebhooksTurn DEF InboxInv

LEMMA DeliverStep ==
    ASSUME InboxInv, NEW h \in Webhooks, I!Deliver(h)
    PROVE  InboxInv'
<1>1. pool \subseteq Entry
    BY DEF InboxInv, MailTyped, PoolTyped
<1>2. ASSUME NEW e \in pool, I!Receive(h, <<e>>)
      PROVE  InboxInv'
    <2>1. PICK s : s = <<e>>
        OBVIOUS
    <2>2. s \in Seq(Entry) /\ In(s) \subseteq pool
        BY <1>1, <2>1 DEF In
    <2> QED
        BY <1>2, <2>1, <2>2, ReceiveStep
<1>3. ASSUME NEW e \in pool, NEW f \in pool, I!Receive(h, <<e, f>>)
      PROVE  InboxInv'
    <2>1. PICK s : s = <<e, f>>
        OBVIOUS
    <2>2. s \in Seq(Entry) /\ In(s) \subseteq pool
        BY <1>1, <2>1 DEF In
    <2> QED
        BY <1>3, <2>1, <2>2, ReceiveStep
<1> QED
    BY <1>2, <1>3 DEF I!Deliver

(* Webhooks that become idle, with or without what they had in their hands. *)
LEMMA IdleStep ==
    ASSUME InboxInv, NEW G \in SUBSET Webhooks,
           HookTyped', \A h \in Webhooks \ G : hook'[h] = hook[h],
           \A h \in G : hook'[h] = I!Idle,
           \A h \in G : \/ I!Taken(h) \subseteq lost'
                        \/ hook[h].kept = <<>> /\ ~LooksAt(h),
           UNCHANGED <<tick, pool, ids, content, said, heard>>, SpokenTyped',
           lost \subseteq lost', lost' \subseteq lost \cup UNION {I!Taken(h) : h \in G}
    PROVE  InboxInv'
<1>1. MailTyped /\ PoolTyped /\ HookTyped /\ TablesTyped
    BY DEF InboxInv, MailTyped
<1>2. lost' \subseteq 0..Cardinality(pool)
    BY <1>1, TakenKnown DEF TablesTyped
<1>3. MailTyped'
    BY <1>1, <1>2 DEF MailTyped, PoolTyped, TablesTyped
<1>4. I!Idle.pc = "idle" /\ I!Idle.kept = <<>>
    BY DEF I!Idle
<1>5. ASSUME NEW h \in Webhooks
      PROVE  /\ Keeps(h) /\ Stays(h)
             /\ \/ /\ hook'[h].kept = hook[h].kept
                   /\ LooksAt(h) => hook'[h].pc = "content" /\ Head(hook'[h].todo) = Looked(h)
                \/ I!Taken(h) \subseteq lost'
    <2>1. CASE h \in G
        <3>1. hook'[h].pc = "idle" /\ hook'[h].kept = <<>>
            BY <1>4, <2>1
        <3> QED
            BY <2>1, <3>1 DEF Keeps, Stays
    <2>2. CASE h \notin G
        <3>1. hook'[h] = hook[h]
            BY <2>2
        <3> QED
            BY <3>1 DEF Keeps, Stays, LooksAt, Looked
    <2> QED
        BY <2>1, <2>2
<1> QED
    BY <1>3, <1>5, WebhooksTurn DEF InboxInv

LEMMA FinishedStep ==
    ASSUME InboxInv, NEW h \in Webhooks, I!Finished(h)
    PROVE  InboxInv'
<1>1. /\ hook[h].pc = "id" /\ hook[h].kept = <<>> /\ hook' = [hook EXCEPT ![h] = I!Idle]
      /\ UNCHANGED <<tick, pool, ids, content, spoken, said, heard, lost>>
    BY DEF I!Finished, I!At, I!memory, I!tables
<1>2. /\ HookTyped /\ SpokenTyped
    BY DEF InboxInv, MailTyped
<1>3. HookTyped' /\ hook'[h] = I!Idle /\ \A g \in Webhooks \ {h} : hook'[g] = hook[g]
    BY <1>1, <1>2, WebhookIdle DEF HookTyped
<1>4. SpokenTyped'
    BY <1>1, <1>2 DEF SpokenTyped
<1>5. ~LooksAt(h)
    BY <1>1 DEF LooksAt
<1>6. PICK G : G = {h}
    OBVIOUS
<1>7. G \in SUBSET Webhooks /\ \A g \in G : hook'[g] = I!Idle
    BY <1>3, <1>6
<1>8. \A g \in Webhooks \ G : hook'[g] = hook[g]
    BY <1>3, <1>6
<1>9. \A g \in G : hook[g].kept = <<>> /\ ~LooksAt(g)
    BY <1>1, <1>5, <1>6
<1>10. lost \subseteq lost' /\ lost' \subseteq lost \cup UNION {I!Taken(g) : g \in G}
    BY <1>1
<1> QED
    BY <1>1, <1>3, <1>4, <1>7, <1>8, <1>9, <1>10, IdleStep

LEMMA ThrowsStep ==
    ASSUME InboxInv, NEW h \in Webhooks, I!FilterThrows(h)
    PROVE  InboxInv'
<1>1. /\ hook' = [hook EXCEPT ![h] = I!Idle] /\ lost' = lost \cup I!Taken(h)
      /\ UNCHANGED <<tick, pool, ids, content, spoken, said, heard>>
    BY DEF I!FilterThrows, I!memory, I!tables
<1>2. HookTyped /\ SpokenTyped
    BY DEF InboxInv, MailTyped
<1>3. HookTyped' /\ hook'[h] = I!Idle /\ \A g \in Webhooks \ {h} : hook'[g] = hook[g]
    BY <1>1, <1>2, WebhookIdle DEF HookTyped
<1>4. SpokenTyped'
    BY <1>1, <1>2 DEF SpokenTyped
<1>5. PICK G : G = {h}
    OBVIOUS
<1> QED
    BY <1>1, <1>3, <1>4, <1>5, IdleStep

LEMMA RestartStep ==
    ASSUME InboxInv, I!Restart
    PROVE  InboxInv'
<1>1. /\ hook' = [h \in Webhooks |-> I!Idle]
      /\ lost' = lost \cup UNION {I!Taken(h) : h \in Webhooks}
      /\ spoken' = <<>>
      /\ UNCHANGED <<tick, pool, ids, content, said, heard>>
    BY DEF I!Restart, I!tables
<1>2. I!Idle \in Webhook /\ I!Idle.pc = "idle" /\ I!Idle.kept = <<>> /\ I!Idle.todo = <<>>
    BY DEF I!Idle, Webhook
<1>3. hook' \in [Webhooks -> Webhook] /\ \A h \in Webhooks : hook'[h] = I!Idle
    BY <1>1, <1>2
<1>4. HookTyped'
    BY <1>2, <1>3, InNothing DEF HookTyped, LooksAt, KeptOf
<1>5. SpokenTyped'
    BY <1>1, ServicesAssumption DEF SpokenTyped
<1>6. PICK G : G = Webhooks
    OBVIOUS
<1>7. G \in SUBSET Webhooks /\ \A h \in G : hook'[h] = I!Idle
    BY <1>3, <1>6
<1>8. \A h \in Webhooks \ G : hook'[h] = hook[h]
    BY <1>6
<1>9. \A h \in G : I!Taken(h) \subseteq lost'
    BY <1>1, <1>6
<1>10. lost \subseteq lost' /\ lost' \subseteq lost \cup UNION {I!Taken(h) : h \in G}
    BY <1>1, <1>6
<1> QED
    BY <1>1, <1>4, <1>5, <1>7, <1>8, <1>9, <1>10, IdleStep

-----------------------------------------------------------------------------
(* The filters.                                                            *)

LEMMA RecordedStep ==
    ASSUME InboxInv, NEW h \in Webhooks, hook[h].todo # <<>>, hook[h].pc = "id",
           NEW k, k = Looked(h).id, k \notin ids, ids' = ids \cup {k},
           hook' = [hook EXCEPT ![h].pc = "content"],
           UNCHANGED <<tick, pool, content, spoken, said, heard, lost>>
    PROVE  InboxInv'
<1>1. MailTyped /\ PoolTyped /\ HookTyped /\ TablesTyped /\ SpokenTyped
    BY DEF InboxInv, MailTyped
<1>2. hook[h] \in Webhook /\ Looked(h) \in pool
    BY <1>1, HookKnown, LookedKnown
<1>3. PICK r : r = [hook[h] EXCEPT !.pc = "content"]
    OBVIOUS
<1>4. hook' = [hook EXCEPT ![h] = r]
    BY <1>1, <1>3 DEF HookTyped
<1>5. r \in Webhook /\ r.pc = "content" /\ r.todo = hook[h].todo /\ r.kept = hook[h].kept
    BY <1>2, <1>3 DEF Webhook
<1>6. HookTyped' /\ hook'[h] = r /\ \A g \in Webhooks \ {h} : hook'[g] = hook[g]
    BY <1>1, <1>4, <1>5, HookMoves DEF HookTyped, KeptOf
<1>7. TablesTyped'
    BY <1>1, <1>2 DEF TablesTyped, PoolTyped
<1>8. MailTyped'
    BY <1>1, <1>6, <1>7 DEF MailTyped, PoolTyped, SpokenTyped
<1>9. /\ \A g \in Webhooks : KeptOf(g)' = KeptOf(g) /\ hook'[g].kept = hook[g].kept
      /\ \A g \in Webhooks : Looked(g)' = Looked(g)
      /\ \A g \in Webhooks \ {h} : LooksAt(g)' = LooksAt(g)
      /\ LooksAt(h)' /\ ~LooksAt(h)
    <2>1. \A g \in Webhooks : hook'[g].kept = hook[g].kept /\ hook'[g].todo = hook[g].todo
        BY <1>5, <1>6
    <2> QED
        BY <1>5, <1>6, <2>1 DEF KeptOf, Looked, LooksAt
<1>10. Admitted' = Admitted
    BY <1>9 DEF Admitted
<1>11. Unique'
    <2>1. Unique
        BY DEF InboxInv
    <2>2. \A g \in Webhooks : Owned(g) \subseteq ids
        BY <2>1 DEF Unique
    <2>3. \A g \in Webhooks \ {h} : Owned(g)' = Owned(g)
        <3> SUFFICES ASSUME NEW g \in Webhooks \ {h} PROVE Owned(g)' = Owned(g)
            OBVIOUS
        <3>1. LooksAt(g) => Looked(g).id \in ids
            BY <2>1 DEF Unique
        <3> QED
            BY <1>9, <3>1 DEF Owned
    <2>4. Owned(h)' \subseteq Owned(h) \cup {k}
        BY <1>9 DEF Owned
    <2>5. HeardIds' = HeardIds /\ HeardIds \subseteq ids
        BY <2>1 DEF Unique, HeardIds
    <2>6. \A a, b \in heard' : a.entry.id = b.entry.id => a = b
        BY <2>1 DEF Unique
    <2>7. ASSUME NEW g \in Webhooks
          PROVE  /\ Owned(g)' \subseteq ids' /\ Owned(g)' \cap HeardIds' = {}
                 /\ \A i, j \in DOMAIN hook'[g].kept :
                        hook'[g].kept[i].entry.id = hook'[g].kept[j].entry.id => i = j
                 /\ LooksAt(g)' => /\ Looked(g)'.id \in ids'
                                   /\ \A x \in KeptOf(g)' : x.entry.id # Looked(g)'.id
                 /\ \A f \in Webhooks \ {g} : Owned(f)' \cap Owned(g)' = {}
        <3>1. Owned(g)' \subseteq ids' /\ Owned(g)' \cap HeardIds' = {}
            BY <2>1, <2>2, <2>3, <2>4, <2>5 DEF Unique
        <3>2. \A i, j \in DOMAIN hook'[g].kept :
                  hook'[g].kept[i].entry.id = hook'[g].kept[j].entry.id => i = j
            BY <1>9, <2>1 DEF Unique
        <3>3. LooksAt(g)' => /\ Looked(g)'.id \in ids'
                             /\ \A x \in KeptOf(g)' : x.entry.id # Looked(g)'.id
            <4>1. CASE g = h
                <5>1. \A x \in KeptOf(h) : x.entry.id \in ids
                    BY <2>2 DEF Owned
                <5> QED
                    BY <1>9, <4>1, <5>1
            <4>2. CASE g # h
                BY <1>9, <2>1, <4>2 DEF Unique
            <4> QED
                BY <4>1, <4>2
        <3>4. \A f \in Webhooks \ {g} : Owned(f)' \cap Owned(g)' = {}
            <4> SUFFICES ASSUME NEW f \in Webhooks \ {g} PROVE Owned(f)' \cap Owned(g)' = {}
                OBVIOUS
            <4>1. Owned(f) \cap Owned(g) = {}
                BY <2>1 DEF Unique
            <4> QED
                BY <2>2, <2>3, <2>4, <4>1
        <3> QED
            BY <3>1, <3>2, <3>3, <3>4
    <2> QED
        BY <2>5, <2>6, <2>7 DEF Unique
<1>12. WordsApart'
    BY <1>10, WordsApartSurvive DEF InboxInv
<1>13. Answered'
    <2>1. \A b : Accounted(b)' <=> Accounted(b)
        BY <1>10 DEF Accounted
    <2>2. \A b \in DOMAIN content' : Accounted(b)'
        BY <2>1 DEF InboxInv, Answered
    <2>3. ASSUME NEW e \in pool', e.of # 0, e.body # Blank, e.id \in ids'
          PROVE  Accounted(e.body)' \/ \E g \in Webhooks : LooksAt(g)' /\ Looked(g)'.body = e.body
        <3>1. CASE e.id \in ids
            <4>1. Accounted(e.body) \/ \E g \in Webhooks : LooksAt(g) /\ Looked(g).body = e.body
                BY <2>3, <3>1 DEF InboxInv, Answered
            <4> QED
                BY <1>9, <2>1, <4>1
        <3>2. CASE e.id = k
            <4>1. e = Looked(h)
                BY <1>1, <1>2, <3>2 DEF PoolTyped
            <4> QED
                BY <1>9, <4>1
        <3> QED
            BY <2>3, <3>1, <3>2
    <2> QED
        BY <2>2, <2>3 DEF Answered
<1> QED
    BY <1>8, <1>11, <1>12, <1>13 DEF InboxInv

LEMMA ProcessedStep ==
    ASSUME InboxInv, NEW h \in Webhooks, I!AlreadyProcessed(h)
    PROVE  InboxInv'
<1>1. /\ hook[h].pc = "id" /\ hook[h].todo # <<>>
      /\ ids' = ids \cup {Looked(h).id}
      /\ UNCHANGED <<tick, pool, content, spoken, said, heard, lost>>
    BY DEF I!AlreadyProcessed, I!At, I!Current, I!memory, Looked
<1>2. MailTyped /\ PoolTyped /\ HookTyped /\ TablesTyped /\ SpokenTyped
    BY DEF InboxInv, MailTyped
<1>3. CASE Looked(h).id \in ids
    <2>1. I!Drop(h) /\ ids' = ids
        BY <1>1, <1>3 DEF I!AlreadyProcessed, I!Current, Looked
    <2>2. /\ HookTyped' /\ hook'[h].pc = "id" /\ hook'[h].kept = hook[h].kept
          /\ \A g \in Webhooks \ {h} : hook'[g] = hook[g]
        BY <1>1, <1>2, <2>1, DropDrops
    <2>3. MailTyped'
        BY <1>1, <1>2, <2>1, <2>2 DEF MailTyped, PoolTyped, TablesTyped, SpokenTyped
    <2>4. ASSUME NEW g \in Webhooks
          PROVE  /\ Keeps(g) /\ Stays(g) /\ hook'[g].kept = hook[g].kept
                 /\ LooksAt(g) => hook'[g].pc = "content" /\ Head(hook'[g].todo) = Looked(g)
        <3>1. CASE g = h
            BY <1>1, <2>2, <3>1 DEF Keeps, Stays, LooksAt
        <3>2. CASE g # h
            <4>1. hook'[g] = hook[g]
                BY <2>2, <3>2
            <4> QED
                BY <4>1 DEF Keeps, Stays, LooksAt, Looked
        <3> QED
            BY <3>1, <3>2
    <2> QED
        BY <1>1, <2>1, <2>3, <2>4, WebhooksTurn DEF InboxInv
<1>4. CASE Looked(h).id \notin ids
    <2>1. hook' = [hook EXCEPT ![h].pc = "content"]
        BY <1>4 DEF I!AlreadyProcessed, I!Current, Looked
    <2>2. PICK k : k = Looked(h).id
        OBVIOUS
    <2> QED
        BY <1>1, <1>4, <2>1, <2>2, RecordedStep
<1> QED
    BY <1>3, <1>4

(* An entry that was looked at: its webhook goes on, and its words were let *)
(* in, are dropped for a reason that is accounted for, or there are none.   *)
LEMMA AnsweredGoesOn ==
    ASSUME InboxInv, NEW h \in Webhooks, LooksAt(h), NEW b, b = Looked(h).body,
           \A g \in Webhooks \ {h} : hook'[g] = hook[g],
           UNCHANGED <<pool, ids, said, lost>>, Admitted \subseteq Admitted',
           DOMAIN content' \subseteq DOMAIN content \cup {b},
           \/ b = Blank /\ content' = content
           \/ Accounted(b)'
    PROVE  Answered'
<1>1. \A w : Accounted(w) => Accounted(w)'
    BY DEF Accounted
<1>2. \A w \in DOMAIN content' : Accounted(w)'
    BY <1>1 DEF InboxInv, Answered
<1>3. ASSUME NEW e \in pool', e.of # 0, e.body # Blank, e.id \in ids'
      PROVE  Accounted(e.body)' \/ \E g \in Webhooks : LooksAt(g)' /\ Looked(g)'.body = e.body
    <2>1. CASE Accounted(e.body)
        BY <1>1, <2>1
    <2>2. CASE \E g \in Webhooks : LooksAt(g) /\ Looked(g).body = e.body
        <3>1. PICK g \in Webhooks : LooksAt(g) /\ Looked(g).body = e.body
            BY <2>2
        <3>2. CASE g = h
            BY <1>3, <3>1, <3>2
        <3>3. CASE g # h
            <4>1. hook'[g] = hook[g]
                BY <3>3
            <4> QED
                BY <3>1, <4>1 DEF LooksAt, Looked
        <3> QED
            BY <3>2, <3>3
    <2> QED
        BY <1>3, <2>1, <2>2 DEF InboxInv, Answered
<1> QED
    BY <1>2, <1>3 DEF Answered

(* The entry is not let in.                                                 *)
LEMMA RefusedStep ==
    ASSUME InboxInv, NEW h \in Webhooks, LooksAt(h), I!Drop(h),
           UNCHANGED <<tick, pool, ids, spoken, said, heard, lost>>,
           TablesTyped',
           DOMAIN content' \subseteq DOMAIN content \cup {Looked(h).body},
           DOMAIN content \subseteq DOMAIN content',
           \A b \in DOMAIN content : content[b] <= content'[b] /\ content'[b] \in Nat,
           \/ Looked(h).body = Blank /\ content' = content
           \/ Accounted(Looked(h).body)
    PROVE  InboxInv'
<1>1. MailTyped /\ PoolTyped /\ HookTyped /\ TablesTyped /\ SpokenTyped
    BY DEF InboxInv, MailTyped
<1>2. /\ HookTyped' /\ hook'[h].pc = "id" /\ hook'[h].kept = hook[h].kept
      /\ \A g \in Webhooks \ {h} : hook'[g] = hook[g]
    BY <1>1, DropDrops DEF HookTyped
<1>3. MailTyped'
    BY <1>1, <1>2 DEF MailTyped, PoolTyped, SpokenTyped
<1>4. \A g \in Webhooks : hook'[g].kept = hook[g].kept
    BY <1>2
<1>5. Admitted' = Admitted
    BY <1>4 DEF Admitted, KeptOf
<1>6. Unique'
    <2>1. \A g \in Webhooks : Keeps(g) /\ Stays(g)
        <3> SUFFICES ASSUME NEW g \in Webhooks PROVE Stays(g)
            BY <1>4 DEF Keeps
        <3>1. CASE g = h
            BY <1>2, <3>1 DEF Stays
        <3>2. CASE g # h
            BY <1>2, <3>2 DEF Stays, LooksAt, Looked
        <3> QED
            BY <3>1, <3>2
    <2> QED
        BY <2>1, UniqueSurvives DEF InboxInv
<1>7. WordsApart'
    <2>1. \A a \in Admitted : a.at \in Nat
        BY Hands DEF InboxInv, Slot
    <2>2. \A b \in DOMAIN content : content[b] \in Nat
        BY <1>1 DEF TablesTyped
    <2> SUFFICES ASSUME NEW a \in Admitted, a.entry.body # Blank
                 PROVE  /\ a.entry.body \in DOMAIN content' /\ a.at <= content'[a.entry.body]
                        /\ \A b \in Admitted : b # a /\ a.entry.body = b.entry.body =>
                                                   Follows(a, b) \/ Follows(b, a)
        BY <1>5 DEF WordsApart, Follows
    <2>3. a.entry.body \in DOMAIN content /\ a.at <= content[a.entry.body]
        BY DEF InboxInv, WordsApart
    <2>4. a.at <= content'[a.entry.body]
        BY <2>1, <2>2, <2>3
    <2>5. \A b \in Admitted : b # a /\ a.entry.body = b.entry.body =>
                                  Follows(a, b) \/ Follows(b, a)
        BY DEF InboxInv, WordsApart
    <2> QED
        BY <2>3, <2>4, <2>5
<1>8. Answered'
    <2>1. PICK b : b = Looked(h).body
        OBVIOUS
    <2>2. Accounted(b) => Accounted(b)'
        BY <1>5 DEF Accounted
    <2> QED
        BY <1>2, <1>5, <2>1, <2>2, AnsweredGoesOn
<1> QED
    BY <1>3, <1>6, <1>7, <1>8 DEF InboxInv

(* The entry is let in.                                                     *)
LEMMA AdmittedStep ==
    ASSUME InboxInv, NEW h \in Webhooks, LooksAt(h), I!Keep(h, Looked(h)),
           UNCHANGED <<tick, pool, ids, spoken, said, heard, lost>>,
           TablesTyped',
           \/ Looked(h).body = Blank /\ content' = content
           \/ I!FirstSighting(Looked(h).body) /\ content' = I!Sighted(Looked(h).body)
    PROVE  InboxInv'
<1>1. /\ MailTyped /\ PoolTyped /\ HookTyped /\ TablesTyped /\ SpokenTyped
      /\ tick \in Nat /\ hook[h].todo # <<>>
    BY DEF InboxInv, MailTyped, TablesTyped, HookTyped
<1>2. PICK e : e = Looked(h)
    OBVIOUS
<1>3. PICK new : new = [entry |-> e, at |-> tick]
    OBVIOUS
<1>4. /\ HookTyped' /\ hook'[h].pc = "id"
      /\ hook'[h].kept = Append(hook[h].kept, new)
      /\ KeptOf(h)' = KeptOf(h) \cup {new}
      /\ \A g \in Webhooks \ {h} : hook'[g] = hook[g]
    BY <1>1, <1>2, <1>3, KeepKeeps
<1>5. MailTyped'
    BY <1>1, <1>4 DEF MailTyped, PoolTyped, SpokenTyped
<1>6. /\ \A g \in Webhooks \ {h} : KeptOf(g)' = KeptOf(g) /\ hook'[g].kept = hook[g].kept
      /\ \A g \in Webhooks \ {h} : LooksAt(g)' = LooksAt(g) /\ Looked(g)' = Looked(g)
      /\ ~LooksAt(h)'
    BY <1>4 DEF KeptOf, LooksAt, Looked
<1>7. Admitted' = Admitted \cup {new}
    BY <1>4, <1>6 DEF Admitted
<1>8. new.entry = e /\ new.at = tick
    BY <1>3
<1>9. Unique
    BY DEF InboxInv
<1>10. Unique'
    <2>1. \A g \in Webhooks \ {h} : Owned(g)' = Owned(g)
        BY <1>6 DEF Owned
    <2>2. Owned(h)' \subseteq Owned(h)
        <3>1. e.id \in Owned(h)
            BY <1>2, <1>9 DEF Owned, Unique
        <3> QED
            BY <1>4, <1>6, <1>8, <3>1 DEF Owned
    <2>3. HeardIds' = HeardIds
        BY DEF HeardIds
    <2>4. ASSUME NEW g \in Webhooks
          PROVE  /\ Owned(g)' \subseteq ids' /\ Owned(g)' \cap HeardIds' = {}
                 /\ \A i, j \in DOMAIN hook'[g].kept :
                        hook'[g].kept[i].entry.id = hook'[g].kept[j].entry.id => i = j
                 /\ LooksAt(g)' => /\ Looked(g)'.id \in ids'
                                   /\ \A x \in KeptOf(g)' : x.entry.id # Looked(g)'.id
                 /\ \A f \in Webhooks \ {g} : Owned(f)' \cap Owned(g)' = {}
        <3>1. Owned(g)' \subseteq ids' /\ Owned(g)' \cap HeardIds' = {}
            BY <1>9, <2>1, <2>2, <2>3 DEF Unique
        <3>2. \A i, j \in DOMAIN hook'[g].kept :
                  hook'[g].kept[i].entry.id = hook'[g].kept[j].entry.id => i = j
            <4>1. CASE g # h
                BY <1>6, <1>9, <4>1 DEF Unique
            <4>2. CASE g = h
                <5>1. PICK s \in Seq(Slot) : s = hook[h].kept
                    BY <1>1, HookKnown
                <5>2. new \in Slot
                    BY <1>1, <1>2, <1>3, LookedKnown DEF Slot
                <5>3. \A i \in DOMAIN s : s[i].entry.id # new.entry.id
                    BY <1>2, <1>8, <1>9, <5>1 DEF Unique, KeptOf, In
                <5>4. \A i, j \in DOMAIN s : s[i].entry.id = s[j].entry.id => i = j
                    BY <1>9, <5>1 DEF Unique
                <5>5. /\ DOMAIN Append(s, new) = DOMAIN s \cup {Len(s) + 1}
                      /\ Append(s, new)[Len(s) + 1] = new
                      /\ \A i \in DOMAIN s : Append(s, new)[i] = s[i]
                    BY <5>2
                <5>6. hook'[g].kept = Append(s, new)
                    BY <1>4, <4>2, <5>1
                <5> QED
                    BY <5>3, <5>4, <5>5, <5>6
            <4> QED
                BY <4>1, <4>2
        <3>3. LooksAt(g)' => /\ Looked(g)'.id \in ids'
                             /\ \A x \in KeptOf(g)' : x.entry.id # Looked(g)'.id
            <4>1. CASE g = h
                BY <1>6, <4>1
            <4>2. CASE g # h
                BY <1>6, <1>9, <4>2 DEF Unique
            <4> QED
                BY <4>1, <4>2
        <3>4. \A f \in Webhooks \ {g} : Owned(f)' \cap Owned(g)' = {}
            <4> SUFFICES ASSUME NEW f \in Webhooks \ {g} PROVE Owned(f)' \cap Owned(g)' = {}
                OBVIOUS
            <4>1. Owned(f) \cap Owned(g) = {}
                BY <1>9 DEF Unique
            <4>2. Owned(f)' \subseteq Owned(f) /\ Owned(g)' \subseteq Owned(g)
                BY <2>1, <2>2
            <4> QED
                BY <4>1, <4>2
        <3> QED
            BY <3>1, <3>2, <3>3, <3>4
    <2> QED
        BY <1>9, <2>3, <2>4 DEF Unique
<1>11. WordsApart'
    <2>1. \A a \in Admitted : a.at \in Nat
        BY Hands DEF InboxInv, Slot
    <2>2. \A b \in DOMAIN content : content[b] \in Nat /\ content[b] <= tick
        BY <1>1 DEF TablesTyped
    <2>3. ContentWindow \in Nat
        BY ServicesAssumption
    <2>4. CASE e.body = Blank /\ content' = content
        <3>1. \A a \in Admitted' : a.entry.body # Blank => a \in Admitted
            BY <1>7, <1>8, <2>4
        <3> SUFFICES ASSUME NEW a \in Admitted', a.entry.body # Blank
                     PROVE  /\ a.entry.body \in DOMAIN content'
                            /\ a.at <= content'[a.entry.body]
                            /\ \A b \in Admitted' : b # a /\ a.entry.body = b.entry.body =>
                                                        Follows(a, b) \/ Follows(b, a)
            BY DEF WordsApart, Follows
        <3>2. a \in Admitted
            BY <3>1
        <3>3. \A b \in Admitted' : a.entry.body = b.entry.body => b \in Admitted
            BY <3>1
        <3> QED
            BY <2>4, <3>2, <3>3 DEF InboxInv, WordsApart
    <2>5. CASE I!FirstSighting(e.body) /\ content' = I!Sighted(e.body)
        <3>1. /\ DOMAIN content' = DOMAIN content \cup {e.body} /\ content'[e.body] = tick
              /\ \A b \in DOMAIN content : b # e.body => content'[b] = content[b]
            BY <2>5 DEF I!Sighted
        <3>2. e.body \in DOMAIN content => tick >= content[e.body] + ContentWindow
            BY <1>1, <2>2, <2>3, <2>5 DEF I!FirstSighting, I!Within
        <3>3. \A a \in Admitted : a.entry.body # Blank =>
                  a.entry.body \in DOMAIN content /\ a.at <= content[a.entry.body]
            BY DEF InboxInv, WordsApart
        <3>4. \A a \in Admitted : a.entry.body # Blank /\ a.entry.body = e.body => Follows(new, a)
            <4> SUFFICES ASSUME NEW a \in Admitted, a.entry.body # Blank, a.entry.body = e.body
                         PROVE  new.at >= a.at + ContentWindow
                BY DEF Follows
            <4>1. e.body \in DOMAIN content /\ a.at <= content[e.body]
                BY <3>3
            <4> QED
                BY <1>1, <1>8, <2>1, <2>2, <2>3, <3>2, <4>1
        <3>5. \A a \in Admitted' : a.entry.body # Blank =>
                  a.entry.body \in DOMAIN content' /\ a.at <= content'[a.entry.body]
            <4> SUFFICES ASSUME NEW a \in Admitted', a.entry.body # Blank
                         PROVE  /\ a.entry.body \in DOMAIN content'
                                /\ a.at <= content'[a.entry.body]
                OBVIOUS
            <4>1. CASE a = new
                BY <1>1, <1>8, <3>1, <4>1
            <4>2. CASE a \in Admitted /\ a.entry.body = e.body
                <5>1. e.body \in DOMAIN content /\ a.at <= content[e.body]
                    BY <3>3, <4>2
                <5> QED
                    BY <1>1, <2>1, <2>2, <3>1, <4>2, <5>1
            <4>3. CASE a \in Admitted /\ a.entry.body # e.body
                BY <3>1, <3>3, <4>3
            <4> QED
                BY <1>7, <4>1, <4>2, <4>3
        <3>6. ASSUME NEW a \in Admitted', a.entry.body # Blank,
                     NEW b \in Admitted', b # a, a.entry.body = b.entry.body
              PROVE  Follows(a, b) \/ Follows(b, a)
            <4>1. CASE a \in Admitted /\ b \in Admitted
                BY <3>6, <4>1 DEF InboxInv, WordsApart
            <4>2. CASE a = new /\ b \in Admitted
                BY <1>8, <3>4, <3>6, <4>2
            <4>3. CASE b = new /\ a \in Admitted
                BY <1>8, <3>4, <3>6, <4>3
            <4> QED
                BY <1>7, <3>6, <4>1, <4>2, <4>3
        <3> QED
            BY <3>5, <3>6 DEF WordsApart, Follows
    <2> QED
        BY <1>2, <2>4, <2>5
<1>12. Answered'
    <2>1. PICK b : b = e.body
        OBVIOUS
    <2>2. Accounted(b)'
        BY <1>7, <1>8, <2>1 DEF Accounted
    <2>3. DOMAIN content' \subseteq DOMAIN content \cup {b}
        BY <1>2, <2>1 DEF I!Sighted
    <2> QED
        BY <1>2, <1>4, <1>7, <2>1, <2>2, <2>3, AnsweredGoesOn
<1> QED
    BY <1>5, <1>10, <1>11, <1>12 DEF InboxInv

LEMMA SightedKnown ==
    ASSUME TablesTyped, PoolTyped, NEW e \in pool, e.body # Blank,
           content' = I!Sighted(e.body), UNCHANGED <<tick, pool, ids, heard, lost>>
    PROVE  /\ TablesTyped'
           /\ DOMAIN content' = DOMAIN content \cup {e.body}
           /\ \A b \in DOMAIN content : content[b] <= content'[b] /\ content'[b] \in Nat
<1>1. /\ DOMAIN content' = DOMAIN content \cup {e.body} /\ content'[e.body] = tick
      /\ \A b \in DOMAIN content : b # e.body => content'[b] = content[b]
    BY DEF I!Sighted
<1>2. tick \in Nat /\ \A b \in DOMAIN content : content[b] \in Nat /\ content[b] <= tick
    BY DEF TablesTyped
<1>3. \A b \in DOMAIN content' : content'[b] \in Nat /\ content'[b] <= tick
    BY <1>1, <1>2
<1>4. DOMAIN content' \subseteq {f.body : f \in pool'} \ {Blank}
    BY <1>1 DEF TablesTyped
<1>5. \A b \in DOMAIN content : content[b] <= content'[b] /\ content'[b] \in Nat
    BY <1>1, <1>2
<1> QED
    BY <1>1, <1>3, <1>4, <1>5 DEF TablesTyped

LEMMA EchoIsSaid ==
    ASSUME SpokenTyped, NEW e, I!IsSuspectedOutboundEcho(e)
    PROVE  e.body \in said
BY DEF SpokenTyped, I!IsSuspectedOutboundEcho

LEMMA ContentStep ==
    ASSUME InboxInv, NEW h \in Webhooks, I!AlreadyProcessedContent(h)
    PROVE  InboxInv'
<1> DEFINE e == Looked(h)
<1>1. LooksAt(h) /\ UNCHANGED <<tick, pool, ids, spoken, said, heard, lost>>
    BY DEF I!AlreadyProcessedContent, I!At, LooksAt
<1>2. MailTyped /\ PoolTyped /\ HookTyped /\ TablesTyped /\ SpokenTyped /\ e \in pool
    BY <1>1, Hands DEF InboxInv, MailTyped
<1>3. content' = content => TablesTyped'
    BY <1>1, <1>2 DEF TablesTyped
<1>4. CASE e.body = Blank /\ I!Admit(h, e) /\ content' = content
    <2>1. \A b \in DOMAIN content : content[b] <= content'[b] /\ content'[b] \in Nat
        BY <1>2, <1>4 DEF TablesTyped
    <2>2. CASE I!Drop(h)
        BY <1>1, <1>3, <1>4, <2>1, <2>2, RefusedStep
    <2>3. CASE I!Keep(h, e)
        BY <1>1, <1>3, <1>4, <2>3, AdmittedStep
    <2> QED
        BY <1>4, <2>2, <2>3 DEF I!Admit
<1>5. CASE /\ e.body # Blank /\ I!FirstSighting(e.body)
           /\ I!Admit(h, e) /\ content' = I!Sighted(e.body)
    <2>1. /\ TablesTyped' /\ DOMAIN content' = DOMAIN content \cup {e.body}
          /\ \A b \in DOMAIN content : content[b] <= content'[b] /\ content'[b] \in Nat
        BY <1>1, <1>2, <1>5, SightedKnown
    <2>2. CASE I!IsSuspectedOutboundEcho(e) /\ I!Drop(h)
        <3>1. Accounted(e.body)
            BY <1>2, <2>2, EchoIsSaid DEF Accounted
        <3> QED
            BY <1>1, <2>1, <2>2, <3>1, RefusedStep
    <2>3. CASE I!Keep(h, e)
        BY <1>1, <1>5, <2>1, <2>3, AdmittedStep
    <2> QED
        BY <1>5, <2>2, <2>3 DEF I!Admit, I!Companion
<1>6. CASE e.body # Blank /\ ~I!FirstSighting(e.body) /\ I!Drop(h) /\ content' = content
    <2>1. e.body \in DOMAIN content
        BY <1>6 DEF I!FirstSighting
    <2>2. Accounted(e.body)
        BY <2>1 DEF InboxInv, Answered
    <2>3. \A b \in DOMAIN content : content[b] <= content'[b] /\ content'[b] \in Nat
        BY <1>2, <1>6 DEF TablesTyped
    <2> QED
        BY <1>1, <1>3, <1>6, <2>2, <2>3, RefusedStep
<1> QED
    BY <1>4, <1>5, <1>6 DEF I!AlreadyProcessedContent, I!Current, Looked

LEMMA Spoken ==
    ASSUME SpokenTyped, tick \in Nat, NEW t \in Replies, I!RecordOutboundActivity(t)
    PROVE  SpokenTyped' /\ said' = said \cup {t}
<1> DEFINE Texted == [text : Replies, at : Nat]
<1>1. /\ I!Live \in Seq(Texted) /\ Len(I!Live) <= Len(spoken)
      /\ \A i \in DOMAIN I!Live : I!Live[i].text \in said
    BY LiveKnown
<1>2. PICK live \in Seq(Texted) : live = I!Live
    BY <1>1
<1>3. PICK new \in Texted : new = [text |-> t, at |-> tick]
    OBVIOUS
<1>4. PICK all : all = Append(live, new)
    OBVIOUS
<1> HIDE DEF Texted
<1>5. /\ all \in Seq(Texted) /\ Len(all) = Len(live) + 1 /\ Len(live) \in Nat
      /\ In(all) = In(live) \cup {new}
    BY <1>4, InAppend
<1>6. /\ spoken' = IF Len(all) > Tracked THEN Tail(all) ELSE all
      /\ said' = said \cup {t}
    BY <1>2, <1>3, <1>4 DEF I!RecordOutboundActivity
<1>7. \A x \in In(all) : x.text \in said'
    BY <1>1, <1>2, <1>3, <1>5, <1>6 DEF In
<1>8. Len(live) <= Tracked /\ Tracked \in Nat
    <2>1. Len(spoken) \in Nat /\ Len(spoken) <= Tracked
        BY DEF SpokenTyped
    <2> QED
        BY <1>1, <1>2, <1>5, <2>1, ServicesAssumption
<1>9. all # <<>> /\ Tail(all) \in Seq(Texted) /\ Len(Tail(all)) = Len(live)
      /\ In(Tail(all)) \subseteq In(all)
    <2>1. all # <<>>
        BY <1>5
    <2> QED
        BY <1>5, <2>1, InTail
<1>10. CASE Len(all) > Tracked
    <2>1. spoken' \in Seq(Texted) /\ Len(spoken') <= Tracked /\ In(spoken') \subseteq In(all)
        BY <1>6, <1>8, <1>9, <1>10
    <2> QED
        BY <1>6, <1>7, <2>1 DEF SpokenTyped, In, Texted
<1>11. CASE ~(Len(all) > Tracked)
    <2>1. spoken' \in Seq(Texted) /\ Len(spoken') <= Tracked /\ In(spoken') \subseteq In(all)
        BY <1>5, <1>6, <1>8, <1>11
    <2> QED
        BY <1>6, <1>7, <2>1 DEF SpokenTyped, In, Texted
<1> QED
    BY <1>10, <1>11

(* What was let in first is heard, and answered or not.                     *)
LEMMA HeardStep ==
    ASSUME InboxInv, NEW h \in Webhooks, I!ProcessIncomingMessage(h)
    PROVE  InboxInv'
<1>1. /\ hook[h].pc = "id" /\ hook[h].kept # <<>>
      /\ heard' = heard \cup {Head(hook[h].kept)}
      /\ UNCHANGED <<tick, pool, ids, content, lost>>
      /\ (\E t \in Replies : I!RecordOutboundActivity(t)) \/ UNCHANGED <<spoken, said>>
    BY DEF I!ProcessIncomingMessage, I!At, I!memory, I!tables
<1>2. MailTyped /\ PoolTyped /\ HookTyped /\ TablesTyped /\ SpokenTyped /\ tick \in Nat
    BY DEF InboxInv, MailTyped, TablesTyped
<1>3. SpokenTyped' /\ said \subseteq said'
    BY <1>1, <1>2, Spoken DEF SpokenTyped
<1>4. PICK s \in Seq(Slot) : s = hook[h].kept
    BY <1>2, HookKnown
<1>5. PICK x : x = Head(s)
    OBVIOUS
<1>6. /\ Tail(s) \in Seq(Slot) /\ x \in Slot /\ x \in In(s)
      /\ In(Tail(s)) \subseteq In(s) /\ In(s) \subseteq In(Tail(s)) \cup {x}
    BY <1>1, <1>4, <1>5, InTail
<1>7. PICK r : r = [hook[h] EXCEPT !.kept = Tail(s)]
    OBVIOUS
<1>8. hook' = [hook EXCEPT ![h] = r]
    <2>1. hook' = [hook EXCEPT ![h].kept = Tail(@)]
        BY DEF I!ProcessIncomingMessage
    <2> QED
        BY <1>2, <1>4, <1>7, <2>1 DEF HookTyped
<1>9. hook[h] \in Webhook
    BY <1>2, HookKnown
<1>10. r \in Webhook /\ r.pc = "id" /\ r.kept = Tail(s) /\ r.todo = hook[h].todo
    BY <1>1, <1>6, <1>7, <1>9 DEF Webhook
<1>11. KeptOf(h) = In(s) /\ \A y \in In(s) : y.entry \in pool
    BY <1>2, <1>4 DEF KeptOf, HookTyped
<1>12. HookTyped' /\ hook'[h] = r /\ \A g \in Webhooks \ {h} : hook'[g] = hook[g]
    <2>1. In(r.todo) \subseteq pool' /\ \A y \in In(r.kept) : y.entry \in pool'
        BY <1>1, <1>2, <1>6, <1>10, <1>11 DEF HookTyped
    <2> QED
        BY <1>1, <1>2, <1>8, <1>10, <2>1, HookMoves
<1>13. heard' = heard \cup {x} /\ x.entry \in pool
    BY <1>1, <1>4, <1>5, <1>6, <1>11
<1>14. PoolTyped' /\ TablesTyped'
    BY <1>1, <1>2, <1>3, <1>6, <1>13 DEF PoolTyped, TablesTyped
<1>15. MailTyped'
    BY <1>3, <1>12, <1>14 DEF MailTyped
<1>16. /\ KeptOf(h)' = In(Tail(s))
       /\ \A g \in Webhooks \ {h} : KeptOf(g)' = KeptOf(g) /\ hook'[g].kept = hook[g].kept
       /\ \A g \in Webhooks \ {h} : LooksAt(g)' = LooksAt(g) /\ Looked(g)' = Looked(g)
       /\ ~LooksAt(h)' /\ ~LooksAt(h)
    BY <1>1, <1>10, <1>12 DEF KeptOf, LooksAt, Looked
<1>17. Admitted' = Admitted
    <2>1. Admitted' \subseteq Admitted
        BY <1>6, <1>11, <1>13, <1>16 DEF Admitted
    <2>2. Admitted \subseteq Admitted'
        BY <1>6, <1>11, <1>13, <1>16 DEF Admitted
    <2> QED
        BY <2>1, <2>2
<1>18. Unique
    BY DEF InboxInv
<1>19. Unique'
    <2>1. \A i \in DOMAIN Tail(s) : Tail(s)[i].entry.id # x.entry.id
        <3>1. \A i, j \in DOMAIN s : s[i].entry.id = s[j].entry.id => i = j
            BY <1>4, <1>18 DEF Unique
        <3>2. /\ x = s[1] /\ 1 \in DOMAIN s
              /\ \A i \in DOMAIN Tail(s) : Tail(s)[i] = s[i + 1] /\ i + 1 \in DOMAIN s /\ i + 1 # 1
            BY <1>1, <1>4, <1>5
        <3> QED
            BY <3>1, <3>2
    <2>2. \A y \in In(Tail(s)) : y.entry.id # x.entry.id
        BY <2>1 DEF In
    <2>3. x.entry.id \in Owned(h)
        BY <1>6, <1>11 DEF Owned
    <2>4. Owned(h)' \subseteq Owned(h) \ {x.entry.id}
        BY <1>6, <1>11, <1>16, <2>2 DEF Owned
    <2>5. \A g \in Webhooks \ {h} : Owned(g)' = Owned(g)
        BY <1>1, <1>16 DEF Owned
    <2>6. HeardIds' = HeardIds \cup {x.entry.id}
        BY <1>13 DEF HeardIds
    <2>7. x.entry.id \in ids /\ x.entry.id \notin HeardIds
        BY <1>18, <2>3 DEF Unique
    <2>8. \A a, b \in heard' : a.entry.id = b.entry.id => a = b
        BY <1>13, <1>18, <2>7 DEF Unique, HeardIds
    <2>9. HeardIds' \subseteq ids'
        BY <1>1, <1>18, <2>6, <2>7 DEF Unique
    <2>10. ASSUME NEW g \in Webhooks
           PROVE  /\ Owned(g)' \subseteq ids' /\ Owned(g)' \cap HeardIds' = {}
                  /\ \A i, j \in DOMAIN hook'[g].kept :
                         hook'[g].kept[i].entry.id = hook'[g].kept[j].entry.id => i = j
                  /\ LooksAt(g)' => /\ Looked(g)'.id \in ids'
                                    /\ \A y \in KeptOf(g)' : y.entry.id # Looked(g)'.id
                  /\ \A f \in Webhooks \ {g} : Owned(f)' \cap Owned(g)' = {}
        <3>1. Owned(g)' \subseteq Owned(g) /\ x.entry.id \notin Owned(g)'
            <4>1. CASE g = h
                BY <2>4, <4>1
            <4>2. CASE g # h
                <5>1. Owned(g) \cap Owned(h) = {}
                    BY <1>18, <4>2 DEF Unique
                <5> QED
                    BY <2>3, <2>5, <4>2, <5>1
            <4> QED
                BY <4>1, <4>2
        <3>2. Owned(g)' \subseteq ids' /\ Owned(g)' \cap HeardIds' = {}
            BY <1>1, <1>18, <2>6, <3>1 DEF Unique
        <3>3. \A i, j \in DOMAIN hook'[g].kept :
                  hook'[g].kept[i].entry.id = hook'[g].kept[j].entry.id => i = j
            <4>1. CASE g = h
                <5>1. \A i, j \in DOMAIN s : s[i].entry.id = s[j].entry.id => i = j
                    BY <1>4, <1>18 DEF Unique
                <5>2. \A i \in DOMAIN Tail(s) :
                          i \in Int /\ Tail(s)[i] = s[i + 1] /\ i + 1 \in DOMAIN s
                    BY <1>1, <1>4
                <5>3. hook'[g].kept = Tail(s)
                    BY <1>10, <1>12, <4>1
                <5>4. ASSUME NEW i \in DOMAIN Tail(s), NEW j \in DOMAIN Tail(s),
                             Tail(s)[i].entry.id = Tail(s)[j].entry.id
                      PROVE  i = j
                    <6>1. i + 1 = j + 1
                        BY <5>1, <5>2, <5>4
                    <6> QED
                        BY <5>2, <6>1
                <5> QED
                    BY <5>3, <5>4
            <4>2. CASE g # h
                BY <1>16, <1>18, <4>2 DEF Unique
            <4> QED
                BY <4>1, <4>2
        <3>4. LooksAt(g)' => /\ Looked(g)'.id \in ids'
                             /\ \A y \in KeptOf(g)' : y.entry.id # Looked(g)'.id
            <4>1. CASE g = h
                BY <1>16, <4>1
            <4>2. CASE g # h
                BY <1>1, <1>16, <1>18, <4>2 DEF Unique
            <4> QED
                BY <4>1, <4>2
        <3>5. \A f \in Webhooks \ {g} : Owned(f)' \cap Owned(g)' = {}
            <4> SUFFICES ASSUME NEW f \in Webhooks \ {g} PROVE Owned(f)' \cap Owned(g)' = {}
                OBVIOUS
            <4>1. Owned(f) \cap Owned(g) = {}
                BY <1>18 DEF Unique
            <4>2. Owned(f)' \subseteq Owned(f)
                BY <2>4, <2>5
            <4> QED
                BY <3>1, <4>1, <4>2
        <3> QED
            BY <3>2, <3>3, <3>4, <3>5
    <2> QED
        BY <2>8, <2>9, <2>10 DEF Unique
<1>20. WordsApart'
    BY <1>1, <1>17, WordsApartSurvive DEF InboxInv
<1>21. Answered'
    <2>1. \A a \in Admitted : a.entry \in pool /\ a \in Admitted'
        BY <1>17, Hands DEF InboxInv
    <2>2. ASSUME NEW g \in Webhooks, LooksAt(g)
          PROVE  Looked(g) \in pool /\ LooksAt(g)' /\ Looked(g)' = Looked(g)
        <3>1. g # h
            BY <1>16, <2>2
        <3> QED
            BY <1>2, <1>16, <2>2, <3>1, Hands
    <2> QED
        BY <1>1, <1>3, <2>1, <2>2, AnsweredSurvives DEF InboxInv
<1> QED
    BY <1>15, <1>19, <1>20, <1>21 DEF InboxInv

-----------------------------------------------------------------------------

LEMMA InboxStart == I!Init => InboxInv
<1> SUFFICES ASSUME I!Init PROVE InboxInv
    OBVIOUS
<1>1. /\ tick = 0 /\ pool = {} /\ ids = {} /\ content = <<>> /\ spoken = <<>> /\ said = {}
      /\ hook = [h \in Webhooks |-> I!Idle] /\ heard = {} /\ lost = {}
    BY DEF I!Init
<1>2. I!Idle \in Webhook /\ I!Idle.pc = "idle" /\ I!Idle.kept = <<>> /\ I!Idle.todo = <<>>
    BY DEF I!Idle, Webhook
<1>3. PoolTyped
    BY <1>1, FS_EmptySet DEF PoolTyped
<1>4. \A h \in Webhooks : hook[h] = I!Idle
    BY <1>1
<1>5. hook \in [Webhooks -> Webhook]
    BY <1>1, <1>2
<1>6. HookTyped
    BY <1>2, <1>4, <1>5, InNothing DEF HookTyped, LooksAt, KeptOf
<1>7. DOMAIN content = {}
    BY <1>1
<1>8. TablesTyped
    BY <1>1, <1>7 DEF TablesTyped
<1>9. SpokenTyped
    BY <1>1, ServicesAssumption DEF SpokenTyped
<1>10. \A h \in Webhooks : KeptOf(h) = {} /\ ~LooksAt(h) /\ Owned(h) = {}
    BY <1>2, <1>4, InNothing DEF KeptOf, LooksAt, Owned
<1>11. Admitted = {} /\ HeardIds = {}
    BY <1>1, <1>10 DEF Admitted, HeardIds
<1>12. \A h \in Webhooks : DOMAIN hook[h].kept = {}
    BY <1>2, <1>4
<1>13. Unique
    BY <1>1, <1>10, <1>11, <1>12 DEF Unique
<1>14. WordsApart /\ Answered
    BY <1>1, <1>7, <1>11 DEF WordsApart, Answered
<1> QED
    BY <1>3, <1>6, <1>8, <1>9, <1>13, <1>14 DEF InboxInv, MailTyped

LEMMA InboxRests ==
    ASSUME InboxInv, UNCHANGED I!vars
    PROVE  InboxInv'
<1>1. UNCHANGED <<tick, pool, ids, content, spoken, said, hook, heard, lost>>
    BY DEF I!vars
<1>2. MailTyped'
    BY <1>1 DEF InboxInv, MailTyped, PoolTyped, HookTyped, TablesTyped, SpokenTyped, LooksAt,
       KeptOf
<1>3. Unique' /\ WordsApart'
    BY <1>1, HandsRest, UniqueSurvives, WordsApartSurvive DEF InboxInv
<1>4. Answered'
    <2>1. \A a \in Admitted : a.entry \in pool /\ a \in Admitted'
        BY <1>1, Hands, HandsRest DEF InboxInv
    <2>2. \A h \in Webhooks : LooksAt(h) =>
              Looked(h) \in pool /\ LooksAt(h)' /\ Looked(h)' = Looked(h)
        BY <1>1, Hands, HandsRest DEF InboxInv
    <2> QED
        BY <1>1, <2>1, <2>2, AnsweredSurvives DEF InboxInv
<1> QED
    BY <1>2, <1>3, <1>4 DEF InboxInv

(* The other parts run beside the inbox and do not disturb it: the whole   *)
(* implements the inbox on its own (server.ts processIncomingMessages).    *)
THEOREM ServicesRunInbox == Spec => I!Spec
<1>1. Init => I!Init
    BY DEF Init
<1>2. [Next]_vars => [I!Next]_(I!vars)
    <2>1. InboxOnly /\ Next => I!Next \/ UNCHANGED I!vars
        BY DEF Next, DeliveriesOnly, OutreachOnly, InboxOnly, inbox, I!Next, I!vars
    <2>2. DeliveriesOnly \/ OutreachOnly \/ UNCHANGED vars => UNCHANGED I!vars
        BY DEF DeliveriesOnly, OutreachOnly, inbox, vars, I!vars
    <2>3. Next => DeliveriesOnly \/ OutreachOnly \/ InboxOnly
        BY DEF Next
    <2> QED
        BY <2>1, <2>2, <2>3
<1> QED
    BY <1>1, <1>2, PTL DEF Spec, I!Spec

(* An id is in one pair of hands, the same words were let in a window      *)
(* apart, and words whose id is recorded were let in, said by the agent    *)
(* or taken by a failure, in every state (stateStore.ts alreadyProcessed,  *)
(* alreadyProcessedContent).                                               *)
THEOREM InboxInvariant == Spec => []InboxInv
<1>1. InboxInv /\ I!Next => InboxInv'
    BY WriteStep, DeliverStep, ProcessedStep, ContentStep, HeardStep, FinishedStep, ThrowsStep,
       CopyStep, RestartStep, TickStep DEF I!Next
<1>2. InboxInv /\ [I!Next]_(I!vars) => InboxInv'
    BY <1>1, InboxRests
<1> QED
    BY <1>2, InboxStart, ServicesRunInbox, PTL DEF I!Spec

(* The inbox keeps to its types: what it remembers was delivered, and it   *)
(* tracks no more texts than the cap (recordOutboundActivity).             *)
THEOREM InboxTypes == Spec => []I!TypeOK
<1>1. InboxInv => I!TypeOK
    <2> SUFFICES ASSUME InboxInv PROVE I!TypeOK
        OBVIOUS
    <2>1. PoolTyped /\ TablesTyped /\ SpokenTyped
        BY DEF InboxInv, MailTyped
    <2>2. I!Cardinality(pool) = Cardinality(pool)
        BY InboxCounts
    <2>3. \A e \in pool : e.id \in 1..Cardinality(pool) /\ e.of <= e.id
        BY <2>1 DEF PoolTyped
    <2>4. ids \subseteq {e.id : e \in pool}
        BY <2>1 DEF TablesTyped
    <2>5. \A i \in DOMAIN spoken : spoken[i].text \in Replies
        <3>1. PICK s \in Seq([text : Replies, at : Nat]) : s = spoken
            BY <2>1 DEF SpokenTyped
        <3>2. \A i \in 1..Len(s) : s[i] \in [text : Replies, at : Nat]
            BY ElementOfSeq
        <3> QED
            BY <3>1, <3>2
    <2> QED
        BY <2>1, <2>2, <2>3, <2>4, <2>5 DEF I!TypeOK, TablesTyped, SpokenTyped
<1> QED
    BY <1>1, InboxInvariant, PTL

(* Whatever a provider delivers again, under whichever id, and however the *)
(* webhooks, failures and restarts interleave, a person is heard, and      *)
(* heard once: no id is handled twice, no words are handled twice          *)
(* within the window, and none are dropped that neither a handler, nor the *)
(* agent, nor a failure accounts for (alreadyProcessed,                    *)
(* alreadyProcessedContent, isSuspectedPhantomCompanion,                   *)
(* isSuspectedOutboundEcho).                                               *)
THEOREM PeopleAreHeardOnce == Spec => []HeardOnce
<1>1. InboxInv => I!HandledOnce
    <2> SUFFICES ASSUME InboxInv, NEW a \in heard, NEW b \in heard, a # b
                 PROVE  /\ a.entry.id # b.entry.id
                        /\ a.entry.body = b.entry.body /\ a.entry.body # Blank =>
                               Follows(a, b) \/ Follows(b, a)
        BY DEF I!HandledOnce, Follows
    <2>1. a \in Admitted /\ b \in Admitted
        BY DEF Admitted
    <2> QED
        BY <2>1 DEF InboxInv, Unique, WordsApart
<1>2. InboxInv => I!NothingSwallowed
    <2> SUFFICES ASSUME InboxInv, NEW e \in pool, e.of # 0, e.body # Blank, e.id \in ids
                 PROVE  \/ \E a \in heard : a.entry.body = e.body
                        \/ \E h \in Webhooks :
                              \/ \E i \in DOMAIN hook[h].todo : hook[h].todo[i].body = e.body
                              \/ \E i \in DOMAIN hook[h].kept :
                                    hook[h].kept[i].entry.body = e.body
                        \/ e.body \in said
                        \/ \E f \in pool : f.of \in lost /\ f.body = e.body
        BY DEF I!NothingSwallowed
    <2>1. CASE Accounted(e.body)
        BY <2>1 DEF Accounted, Admitted, KeptOf, In
    <2>2. CASE \E h \in Webhooks : LooksAt(h) /\ Looked(h).body = e.body
        <3>1. PICK h \in Webhooks : LooksAt(h) /\ Looked(h).body = e.body
            BY <2>2
        <3>2. PICK s \in Seq(Entry) : s = hook[h].todo
            BY HookKnown DEF InboxInv, MailTyped
        <3>3. s # <<>>
            BY <3>1, <3>2 DEF InboxInv, MailTyped, HookTyped
        <3>4. Looked(h) \in In(s)
            BY <3>2, <3>3, InTail DEF Looked
        <3> QED
            BY <3>1, <3>2, <3>4 DEF In
    <2> QED
        BY <2>1, <2>2 DEF InboxInv, Answered
<1>3. InboxInv => HeardOnce
    BY <1>1, <1>2 DEF HeardOnce, I!HeardOnce
<1> QED
    BY <1>3, InboxInvariant, PTL

-----------------------------------------------------------------------------
(* The three parts together keep to their types.                           *)
THEOREM ServicesTypes == Spec => []TypeOK
<1>1. D!TypeOK /\ O!TypeOK /\ I!TypeOK => TypeOK
    BY DEF TypeOK
<1> QED
    BY <1>1, SchedulerTypes, OutreachTypes, InboxTypes, PTL
=============================================================================
