------------------------------ MODULE Deliveries ------------------------------
(* The scheduled messages of the WhatsApp agent: the morning briefing and   *)
(* the dormant message (lifecycle.ts), the weekly digest (marketUpdates.ts) *)
(* and two broadcasts of an operator. Runs overlap: nothing keeps a tick    *)
(* from starting while the previous one is still sending.                   *)
(* A run visits its users one after the other; a job here is its visit of   *)
(* one user, whose row was read when the run began.                         *)
EXTENDS Integers, FiniteSets, Bags

CONSTANTS
    Users,         \* rows of user_lifecycle with an active posting and a plan
    Jobs,          \* visits under way at once
    Slots,         \* half hours of a day
    MorningSlots, DormantSlots, DigestSlots,
                   \* those of MORNING_BRIEFING_LOCAL_HOUR and
                   \* DORMANT_LOCAL_SEND_HOUR, and of the digest with its grace
    DormantAfter, DormantRepeat,
                   \* DORMANT_AFTER_DAYS, DORMANT_REPEAT_DAYS, in slots
    Forever,       \* a pause with no end
    Starts,        \* bounds: [from, until: the clock; jobs; changes; faults;
                   \* resends; welcomes]
    MaxLag         \* bound: slots that pass while a visit lasts

VARIABLES
    clock,       \* slots since the first midnight
    user,        \* user_lifecycle, and whether the user is opted out
    market,      \* what there is to report to a user, by version
    ledger,      \* lifecycle_deliveries and market_update_deliveries
    previous,    \* activity_signature of the last digest delivered
    known,       \* briefing_posting_state, market_update_watch_state
    job,
    timers,      \* users the welcome-back broadcast has still to reach
    sent,        \* messages that reached a user, by <<kind, user, day>>
    excuse,      \* lapsed leases and failures, by the same key
    nudged,      \* when the runs began that sent a dormant message
    told,        \* the versions a user has been told of, by kind
    bound

history == <<sent, excuse, nudged, told>>
people == <<user, market>>
store == <<ledger, previous, known>>
vars == <<clock, user, market, ledger, previous, known, job, timers, sent,
          excuse, nudged, told, bound>>

Spend(what) == bound[what] > 0 /\ bound' = [bound EXCEPT ![what] = @ - 1]
Put(f, k, v) == [x \in DOMAIN f \cup {k} |-> IF x = k THEN v ELSE f[x]]
Count(key, bag) == IF key \in BagToSet(bag) THEN bag[key] ELSE 0
Noted(bag, keys) == bag (+) SetToBag(keys)

Day(t) == t \div Slots
Slot(t) == t % Slots
Idle == [pc |-> "idle"]
Key(j) == <<job[j].kind, job[j].user, Day(job[j].now)>>
(* The visit of j goes on at pc, or the run turns to the next user.         *)
Goto(j, pc) == job' = [job EXCEPT ![j].pc = pc]
Ends(j) == job' = [job EXCEPT ![j] = Idle]
(* The dormant messages of a run follow its briefings.                      *)
Proceeds(j) == IF job[j].kind = "briefing"
            THEN job' = [job EXCEPT ![j].kind = "dormant", ![j].pc = "select"]
            ELSE Ends(j)

------------------------------------------------------------------------------
(* Ticks: runLifecycleScheduler, runMarketUpdateScheduler, the operator's   *)
(* resend.                                                                  *)

Begin(j, kind, u) ==
    job' = [job EXCEPT ![j] = [pc |-> "select", kind |-> kind, user |-> u, now |-> clock,
                               row |-> user[u], says |-> 0, base |-> 0]]

LifecycleTick(j, u) ==
    /\ job[j].pc = "idle" /\ Spend("jobs")
    /\ Begin(j, "briefing", u)
    /\ UNCHANGED <<clock, people, store, timers, history>>

DigestTick(j, u) ==
    /\ job[j].pc = "idle" /\ Spend("jobs")
    /\ Slot(clock) \in DigestSlots
    /\ Begin(j, "digest", u)
    /\ UNCHANGED <<clock, people, store, timers, history>>

ResendMorningBriefingToAll(j, u) ==
    /\ job[j].pc = "idle" /\ Spend("resends")
    /\ \E kind \in {"resend", "preview"} : Begin(j, kind, u)
    /\ UNCHANGED <<clock, people, store, timers, history>>

------------------------------------------------------------------------------
(* Who is due.                                                              *)

IsMorningBriefingPaused(row, now) == row.paused = Forever \/ row.paused > now

DueBriefing(j) ==
    /\ job[j].kind = "briefing" => Slot(job[j].now) \in MorningSlots
    /\ ~IsMorningBriefingPaused(job[j].row, job[j].now)

\* (A variant: what is reported is marked known before the claim.)
SelectKnowing(j) ==
    /\ job[j].pc = "select" /\ job[j].kind \in {"briefing", "resend", "preview"}
    /\ IF ~DueBriefing(j) THEN Proceeds(j) /\ UNCHANGED known
       ELSE /\ Goto(j, IF job[j].kind = "briefing" THEN "claim" ELSE "build")
            /\ known' = [known EXCEPT !["briefing"][job[j].user] = market[job[j].user]]
    /\ UNCHANGED <<clock, people, ledger, previous, timers, history, bound>>

SelectBriefing(j) ==
    /\ job[j].pc = "select" /\ job[j].kind \in {"briefing", "resend", "preview"}
    /\ IF ~DueBriefing(j) THEN Proceeds(j)
       ELSE Goto(j, IF job[j].kind = "briefing" THEN "claim" ELSE "build")
    /\ UNCHANGED <<clock, people, store, timers, history, bound>>

(* The users of the dormant messages are read when the briefings are done. *)
SelectDormant(j) ==
    /\ job[j].pc = "select" /\ job[j].kind = "dormant"
    /\ job' = [job EXCEPT ![j].row = user[job[j].user], ![j].pc = "due"]
    /\ UNCHANGED <<clock, people, store, timers, history, bound>>

DueDormant(j) ==
    /\ Slot(job[j].now) \in DormantSlots
    /\ job[j].now - job[j].row.seen >= DormantAfter
    /\ job[j].row.nudged >= 0 => job[j].now - job[j].row.nudged >= DormantRepeat
    /\ ~user[job[j].user].stopped

CheckDormant(j) ==
    /\ job[j].pc = "due"
    /\ IF DueDormant(j) THEN Goto(j, "briefed") ELSE Ends(j)
    /\ UNCHANGED <<clock, people, store, timers, history, bound>>

Briefed(u, day) ==
    LET key == <<"briefing", u, day>> IN
    key \in DOMAIN ledger /\ ledger[key].status \in {"sending", "delivered"}

CheckBriefed(j) ==
    /\ job[j].pc = "briefed"
    /\ IF Briefed(job[j].user, Day(job[j].now)) THEN Ends(j) ELSE Goto(j, "claim")
    /\ UNCHANGED <<clock, people, store, timers, history, bound>>

SelectDigest(j) ==
    /\ job[j].pc = "select" /\ job[j].kind = "digest"
    /\ IF user[job[j].user].stopped THEN Ends(j) ELSE Goto(j, "build")
    /\ UNCHANGED <<clock, people, store, timers, history, bound>>

------------------------------------------------------------------------------
(* Claim, build, send, finish. A briefing is claimed and then built, a      *)
(* digest is built and then claimed.                                        *)

\* (A variant: the lease of a delivery under way is not looked at.)
ClaimableAnyway(key) ==
    key \in DOMAIN ledger => ledger[key].status \in {"failed", "sending"}

Claimable(key) ==
    \/ key \notin DOMAIN ledger
    \/ ledger[key].status = "failed"
    \/ ledger[key].status = "sending" /\ ledger[key].stale

AfterClaim(j) == IF job[j].kind = "briefing" THEN "build" ELSE "send"

Claim(j) ==
    /\ job[j].pc = "claim"
    /\ IF Claimable(Key(j))
       THEN /\ ledger' = Put(ledger, Key(j), [status |-> "sending", stale |-> FALSE,
                                              says |-> job[j].says])
            /\ Goto(j, AfterClaim(j))
       ELSE Proceeds(j) /\ UNCHANGED ledger
    /\ UNCHANGED <<clock, people, previous, known, timers, history, bound>>

(* What the message says, and what the next one of its kind compares with.  *)
Series(kind) == IF kind = "digest" THEN "digest" ELSE "briefing"

AfterBuild(j) ==
    CASE job[j].kind \in {"briefing", "resend"} -> "send"
      [] job[j].kind = "digest" /\ previous[job[j].user] # market[job[j].user] -> "claim"
      [] OTHER -> "over"

Build(j) ==
    /\ job[j].pc = "build"
    /\ LET u == job[j].user s == Series(job[j].kind) IN
       /\ known' = [known EXCEPT ![s][u] = market[u]]
       /\ job' = [job EXCEPT ![j].says = market[u], ![j].base = known[s][u],
                             ![j].pc = AfterBuild(j)]
    /\ excuse' = IF job[j].kind = "preview" THEN Noted(excuse, {Key(j)}) ELSE excuse
    /\ UNCHANGED <<clock, people, ledger, previous, timers, sent, nudged, told, bound>>

Over(j) ==
    /\ job[j].pc = "over" /\ Ends(j)
    /\ UNCHANGED <<clock, people, store, timers, history, bound>>

Reaches(j) ==
    LET u == job[j].user s == Series(job[j].kind) IN
    /\ sent' = Noted(sent, {Key(j)})
    /\ nudged' = IF job[j].kind = "dormant" THEN [nudged EXCEPT ![u] = @ \cup {job[j].now}]
                 ELSE nudged
    /\ told' = IF job[j].kind = "dormant" THEN told
               ELSE [told EXCEPT ![s][u] = @ \cup (job[j].base + 1)..job[j].says]

Send(j) ==
    /\ job[j].pc = "send"
    /\ Reaches(j)
    /\ Goto(j, IF job[j].kind = "dormant" THEN "stamp" ELSE "finish")
    /\ UNCHANGED <<clock, people, store, timers, excuse, bound>>

(* UPDATE user_lifecycle SET last_dormant_message_at                        *)
Stamp(j) ==
    /\ job[j].pc = "stamp"
    /\ user' = [user EXCEPT ![job[j].user].nudged = job[j].now]
    /\ Goto(j, "finish")
    /\ UNCHANGED <<clock, market, store, timers, history, bound>>

(* finish writes whatever the row holds; markDelivery only a row that is    *)
(* still being sent; a resend records a delivery of the briefing.           *)
Finish(j, status) ==
    LET key == Key(j) IN
    CASE job[j].kind = "digest" ->
           IF ledger[key].status = "sending"
           THEN /\ ledger' = [ledger EXCEPT ![key].status = status]
                /\ previous' = IF status = "delivered"
                               THEN [previous EXCEPT ![job[j].user] = ledger[key].says]
                               ELSE previous
           ELSE UNCHANGED <<ledger, previous>>
      [] job[j].kind = "resend" ->
           /\ ledger' = IF status = "failed" THEN ledger
                        ELSE Put(ledger, <<"briefing", job[j].user, Day(job[j].now)>>,
                                 [status |-> status, stale |-> FALSE, says |-> 0])
           /\ UNCHANGED previous
      [] OTHER -> ledger' = [ledger EXCEPT ![key].status = status] /\ UNCHANGED previous

Finishes(j) ==
    /\ \/ job[j].pc = "finish" /\ Finish(j, "delivered")
       \/ job[j].pc = "fail" /\ Finish(j, "failed")
    /\ Proceeds(j)
    /\ UNCHANGED <<clock, people, known, timers, history, bound>>

------------------------------------------------------------------------------
(* What goes wrong: a send that throws, whether it reached the user or not, *)
(* or another step; outside the try block the whole run ends. A claim that  *)
(* outlives its lease; a restart, which loses the jobs and the timers.      *)

Caught(j) ==
    \/ job[j].kind \in {"briefing", "dormant"} /\ job[j].pc \in {"build", "send", "stamp", "finish"}
    \/ job[j].kind = "digest" /\ job[j].pc \in {"send", "finish"}

Throws(j) ==
    /\ job[j].pc # "idle" /\ Spend("faults")
    /\ excuse' = Noted(excuse, {Key(j)})
    /\ \/ job[j].pc = "send" /\ Reaches(j)
       \/ UNCHANGED <<sent, nudged, told>>
    /\ IF Caught(j) THEN Goto(j, "fail") ELSE Ends(j)
    /\ UNCHANGED <<clock, people, store, timers>>

LeaseEnds(key) ==
    /\ Spend("faults")
    /\ ledger[key].status = "sending" /\ ~ledger[key].stale
    /\ ledger' = [ledger EXCEPT ![key].stale = TRUE]
    /\ excuse' = Noted(excuse, {key})
    /\ UNCHANGED <<clock, people, previous, known, job, timers, sent, nudged, told>>

Restart ==
    /\ Spend("faults")
    /\ excuse' = Noted(excuse, {Key(j) : j \in {i \in Jobs : job[i].pc # "idle"}})
    /\ job' = [j \in Jobs |-> Idle] /\ timers' = {}
    /\ ledger' = [k \in DOMAIN ledger |-> [ledger[k] EXCEPT !.stale = ledger[k].status = "sending"]]
    /\ UNCHANGED <<clock, people, previous, known, sent, nudged, told>>

------------------------------------------------------------------------------
(* The users, the market and the operator's welcome-back broadcast.         *)

RecordInboundActivity(u) ==
    /\ Spend("changes")
    /\ user' = [user EXCEPT ![u].seen = clock]
    /\ UNCHANGED <<clock, market, store, job, timers, history>>

StopMessages(u) ==
    /\ Spend("changes") /\ ~user[u].stopped
    /\ user' = [user EXCEPT ![u].seen = clock, ![u].stopped = TRUE]
    /\ UNCHANGED <<clock, market, store, job, timers, history>>

PauseMorningBriefing(u) ==
    /\ Spend("changes")
    /\ \E until \in {0, clock + Slots, Forever} :
           user' = [user EXCEPT ![u].seen = clock, ![u].paused = until]
    /\ UNCHANGED <<clock, market, store, job, timers, history>>

MarketMoves(u) ==
    /\ Spend("changes")
    /\ market' = [market EXCEPT ![u] = @ + 1]
    /\ UNCHANGED <<clock, user, store, job, timers, history>>

ScheduleWelcomeBackBroadcast ==
    /\ Spend("welcomes")
    /\ timers' = timers \cup {u \in Users : ~user[u].stopped}
    /\ UNCHANGED <<clock, people, store, job, history>>

WelcomeBack(u) ==
    /\ u \in timers /\ timers' = timers \ {u}
    /\ sent' = Noted(sent, {<<"welcome", u, Day(clock)>>})
    /\ UNCHANGED <<clock, people, store, job, excuse, nudged, told, bound>>

Time ==
    /\ clock < bound["until"]
    /\ \A j \in Jobs : job[j].pc # "idle" => clock < job[j].now + MaxLag
    /\ clock' = clock + 1
    /\ UNCHANGED <<people, store, job, timers, history, bound>>

------------------------------------------------------------------------------

Init ==
    /\ bound \in Starts /\ clock = bound["from"]
    /\ user = [u \in Users |-> [paused |-> 0, seen |-> 0, nudged |-> -1, stopped |-> FALSE]]
    /\ market = [u \in Users |-> 1]
    /\ ledger = <<>> /\ previous = [u \in Users |-> 0]
    /\ known = [s \in {"briefing", "digest"} |-> [u \in Users |-> 0]]
    /\ job = [j \in Jobs |-> Idle] /\ timers = {}
    /\ sent = EmptyBag /\ excuse = EmptyBag
    /\ nudged = [u \in Users |-> {}]
    /\ told = [s \in {"briefing", "digest"} |-> [u \in Users |-> {}]]

Visit(j) ==
    \/ SelectBriefing(j) \/ SelectDormant(j) \/ CheckDormant(j) \/ CheckBriefed(j)
    \/ SelectDigest(j) \/ Claim(j) \/ Build(j) \/ Over(j) \/ Send(j) \/ Stamp(j)
    \/ Finishes(j)

Next ==
    \/ \E j \in Jobs, u \in Users :
           LifecycleTick(j, u) \/ DigestTick(j, u) \/ ResendMorningBriefingToAll(j, u)
    \/ \E j \in Jobs : Visit(j) \/ Throws(j)
    \/ \E key \in DOMAIN ledger : LeaseEnds(key)
    \/ \E u \in Users : \/ RecordInboundActivity(u) \/ StopMessages(u)
                        \/ PauseMorningBriefing(u) \/ MarketMoves(u) \/ WelcomeBack(u)
    \/ ScheduleWelcomeBackBroadcast \/ Restart \/ Time

Spec == Init /\ [][Next]_vars

------------------------------------------------------------------------------
(* Properties.                                                              *)

Kinds == {"briefing", "dormant", "digest", "resend", "preview", "welcome"}
TypeOK ==
    /\ clock \in Nat /\ timers \subseteq Users
    /\ \A k \in DOMAIN ledger :
          /\ k[1] \in {"briefing", "dormant", "digest"} /\ k[2] \in Users
          /\ ledger[k].status \in {"sending", "delivered", "failed"}
    /\ \A j \in Jobs : job[j].pc \in {"idle", "select", "due", "briefed", "claim", "build",
                                      "over", "send", "stamp", "finish", "fail"}
    /\ BagToSet(sent) \subseteq Kinds \X Users \X Nat

(* However the runs of the scheduler overlap, a user gets a briefing, a     *)
(* dormant message and a digest once a day at most, and once more for each  *)
(* lease that ended and each failure of that very message (claim,           *)
(* claimDelivery).                                                          *)
OneDelivery ==
    \A key \in BagToSet(sent) :
        key[1] \in {"briefing", "dormant", "digest"} =>
            Count(key, sent) <= 1 + Count(key, excuse)

(* Unless something failed for that user, two dormant messages are the      *)
(* repeat interval apart, and no user gets one on the day of a briefing     *)
(* (runDormantReengagement).                                                *)
NudgesSpaced ==
    \A u \in Users :
        (\A key \in BagToSet(excuse) : key[2] # u) =>
            /\ \A a, b \in nudged[u] : a < b => b - a >= DormantRepeat
            /\ \A key \in BagToSet(sent) :
                  key[1] = "dormant" /\ key[2] = u =>
                      Count(<<"briefing", u, key[3]>>, sent) = 0

(* A match the next briefing no longer calls new has been told of, or is    *)
(* about to be: only a failure or an operator's preview loses the news      *)
(* (buildBriefingSummaries runs after the claim).                           *)
NewsIsTold ==
    \A u \in Users :
        \/ 1..known["briefing"][u] \subseteq told["briefing"][u]
        \/ \E j \in Jobs : /\ job[j].pc = "send" /\ job[j].user = u
                           /\ job[j].kind \in {"briefing", "resend"}
        \/ \E key \in BagToSet(excuse) : key[2] = u

(* The two together: what the scheduler promises of its messages.           *)
DeliveriesSpaced == OneDelivery /\ NudgesSpaced
=============================================================================
