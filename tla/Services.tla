------------------------------- MODULE Services -------------------------------
(* The parts of the WhatsApp agent that decide who is sent what, and whose  *)
(* words are heard, side by side: the inbox in front of the conversations,  *)
(* the scheduled deliveries, and the outreach to third parties. They keep   *)
(* tables and memory of their own and only meet in a person's phone, so a   *)
(* behaviour here stirs one of them: an element of Starts bounds all three, *)
(* and leaves two of them quiet.                                            *)
EXTENDS Naturals, FiniteSets

CONSTANTS
    Users, Jobs, Slots, MorningSlots, DormantSlots, DigestSlots, DormantAfter,
    DormantRepeat, Forever, MaxLag,                           \* Deliveries
    Listings, SellerOf, Buyers, Postings, Requests, Dealers, Phones, Trial,
    WeeklyLimit, Contacts, BatchLimit, Tasks, None,           \* Outreach
    Texts, Replies, Blank, Webhooks, ContentWindow, PhantomWindow, EchoWindow,
    Tracked,                                                  \* Inbox
    DeliveryStarts, OutreachStarts, InboxStarts,
    Starts     \* those that go together

(* Days have slots, an account has a phone, and everything that is counted  *)
(* starts at a number.                                                      *)
ASSUME ServicesAssumption ==
    /\ Slots \in Nat \ {0}
    /\ MorningSlots \cup DormantSlots \cup DigestSlots \subseteq 0..(Slots - 1)
    /\ {DormantAfter, DormantRepeat, Forever, MaxLag} \subseteq Nat
    /\ IsFiniteSet(Jobs) /\ IsFiniteSet(Phones) /\ Phones # {}
    /\ {Trial, WeeklyLimit} \subseteq Nat
    /\ {ContentWindow, PhantomWindow, EchoWindow, Tracked} \subseteq Nat
    /\ DeliveryStarts \subseteq
          [{"from", "until", "jobs", "changes", "faults", "resends", "welcomes"} -> Nat]

VARIABLES
    clock, user, market, ledger, previous, known, job, timers, sent, excuse,
    nudged, told, due,
    photo, posting, reminding, offer, covers, usage, contact, blast, task,
    asked, pardon, missed, calls,
    tick, pool, ids, content, recent, spoken, said, hook, heard, lost, arrivals

deliveries == <<clock, user, market, ledger, previous, known, job, timers, sent,
                excuse, nudged, told, due>>
outreach == <<photo, posting, reminding, offer, covers, usage, contact, blast,
              task, asked, pardon, missed, calls>>
inbox == <<tick, pool, ids, content, recent, spoken, said, hook, heard, lost,
           arrivals>>

D == INSTANCE Deliveries WITH bound <- due, Starts <- DeliveryStarts
O == INSTANCE Outreach WITH sent <- asked, excuse <- pardon, bound <- calls,
                            Starts <- OutreachStarts
I == INSTANCE Inbox WITH clock <- tick, bound <- arrivals, Starts <- InboxStarts

Init ==
    /\ D!Init /\ O!Init /\ I!Init
    /\ <<due, calls, arrivals>> \in Starts

DeliveriesOnly == UNCHANGED <<outreach, inbox>>
OutreachOnly == UNCHANGED <<deliveries, inbox>>
InboxOnly == UNCHANGED <<deliveries, outreach>>

Next ==
    \/ \E j \in Jobs, u \in Users : D!LifecycleTick(j, u) /\ DeliveriesOnly
    \/ \E j \in Jobs, u \in Users : D!DigestTick(j, u) /\ DeliveriesOnly
    \/ \E j \in Jobs, u \in Users : D!ResendMorningBriefingToAll(j, u) /\ DeliveriesOnly
    \/ \E j \in Jobs : D!SelectBriefing(j) /\ DeliveriesOnly
    \/ \E j \in Jobs : D!SelectDormant(j) /\ DeliveriesOnly
    \/ \E j \in Jobs : D!CheckDormant(j) /\ DeliveriesOnly
    \/ \E j \in Jobs : D!CheckBriefed(j) /\ DeliveriesOnly
    \/ \E j \in Jobs : D!SelectDigest(j) /\ DeliveriesOnly
    \/ \E j \in Jobs : D!Claim(j) /\ DeliveriesOnly
    \/ \E j \in Jobs : D!Build(j) /\ DeliveriesOnly
    \/ \E j \in Jobs : D!Over(j) /\ DeliveriesOnly
    \/ \E j \in Jobs : D!Send(j) /\ DeliveriesOnly
    \/ \E j \in Jobs : D!Stamp(j) /\ DeliveriesOnly
    \/ \E j \in Jobs : D!Finishes(j) /\ DeliveriesOnly
    \/ \E j \in Jobs : D!Throws(j) /\ DeliveriesOnly
    \/ \E key \in DOMAIN ledger : D!LeaseEnds(key) /\ DeliveriesOnly
    \/ \E u \in Users : D!RecordInboundActivity(u) /\ DeliveriesOnly
    \/ \E u \in Users : D!StopMessages(u) /\ DeliveriesOnly
    \/ \E u \in Users : D!PauseMorningBriefing(u) /\ DeliveriesOnly
    \/ \E u \in Users : D!MarketMoves(u) /\ DeliveriesOnly
    \/ \E u \in Users : D!WelcomeBack(u) /\ DeliveriesOnly
    \/ D!ScheduleWelcomeBackBroadcast /\ DeliveriesOnly
    \/ D!Restart /\ DeliveriesOnly
    \/ D!Time /\ DeliveriesOnly
    \/ \E t \in Tasks, b \in Buyers, l \in Listings : O!RequestPhotosForMatch(t, b, l) /\ OutreachOnly
    \/ \E t \in Tasks : O!GetPhotoRequestRecord(t) /\ OutreachOnly
    \/ \E t \in Tasks : O!AskSeller(t) /\ OutreachOnly
    \/ \E t \in Tasks : O!MarkPhotoRequested(t) /\ OutreachOnly
    \/ \E t \in Tasks, l \in Listings : O!HandleIncomingSellerPhoto(t, SellerOf[l]) /\ OutreachOnly
    \/ \E t \in Tasks : O!AppendReceivedPhoto(t) /\ OutreachOnly
    \/ \E t \in Tasks : O!ForwardPhoto(t) /\ OutreachOnly
    \/ \E l \in Listings : O!RequestAges(l) /\ OutreachOnly
    \/ \E t \in Tasks : O!SendExpirationReminders(t) /\ OutreachOnly
    \/ \E t \in Tasks : O!FindPostingsNeedingReminder(t) /\ OutreachOnly
    \/ \E t \in Tasks : O!Remind(t) /\ OutreachOnly
    \/ \E t \in Tasks : O!ClaimReminderForPosting(t) /\ OutreachOnly
    \/ \E t \in Tasks : O!RemindersDone(t) /\ OutreachOnly
    \/ \E p \in Postings : O!PostingChanges(p) /\ OutreachOnly
    \/ \E t \in Tasks, w \in Requests : O!FulfillWtb(t, w) /\ OutreachOnly
    \/ \E t \in Tasks : O!ClaimOpportunity(t) /\ OutreachOnly
    \/ \E t \in Tasks : O!TellDealer(t) /\ OutreachOnly
    \/ \E t \in Tasks : O!Fulfilled(t) /\ OutreachOnly
    \/ \E w \in Requests, d \in Dealers : O!HandleOpportunityResponse(w, d) /\ OutreachOnly
    \/ \E d \in Dealers : O!HandleCoverageCommand(d) /\ OutreachOnly
    \/ \E t \in Tasks, ph \in Phones : O!LookUp(t, ph) /\ OutreachOnly
    \/ \E t \in Tasks : O!GetMarketPulseUsage(t) /\ OutreachOnly
    \/ \E t \in Tasks : O!EvaluateMarketPulseGate(t) /\ OutreachOnly
    \/ \E t \in Tasks : O!RecordMarketPulseLookup(t) /\ OutreachOnly
    \/ \E t \in Tasks : O!CountLookup(t) /\ OutreachOnly
    \/ \E t \in Tasks : O!OutreachStart(t) /\ OutreachOnly
    \/ \E t \in Tasks : O!ReadContact(t) /\ OutreachOnly
    \/ \E t \in Tasks : O!SendIntro(t) /\ OutreachOnly
    \/ \E t \in Tasks : O!BatchDone(t) /\ OutreachOnly
    \/ \E c \in DOMAIN contact : O!ContactAnswers(c) /\ OutreachOnly
    \/ \E t \in Tasks : O!Throws(t) /\ OutreachOnly
    \/ O!Restart /\ OutreachOnly
    \/ \E b \in Texts \cup {Blank} : I!Write(b) /\ InboxOnly
    \/ I!Copy /\ InboxOnly
    \/ \E h \in Webhooks : I!Deliver(h) /\ InboxOnly
    \/ \E h \in Webhooks : I!AlreadyProcessed(h) /\ InboxOnly
    \/ \E h \in Webhooks : I!AlreadyProcessedContent(h) /\ InboxOnly
    \/ \E h \in Webhooks : I!ProcessIncomingMessage(h) /\ InboxOnly
    \/ \E h \in Webhooks : I!Finished(h) /\ InboxOnly
    \/ \E h \in Webhooks : I!FilterThrows(h) /\ InboxOnly
    \/ I!Restart /\ InboxOnly
    \/ I!Tick /\ InboxOnly

vars == <<deliveries, outreach, inbox>>
Spec == Init /\ [][Next]_vars

------------------------------------------------------------------------------
(* The properties of the parts, stated and explained in their modules.      *)

(* Every part keeps to its types.                                           *)
TypeOK == D!TypeOK /\ O!TypeOK /\ I!TypeOK

(* No message of the scheduler twice a day, dormant messages spaced and     *)
(* never on the day of a briefing, however runs overlap (lifecycle.ts,      *)
(* marketUpdates.ts).                                                       *)
DeliveriesSpaced == D!DeliveriesSpaced

(* Matches the next briefing no longer calls new have been told of          *)
(* (lifecycle.ts buildBriefingSummaries).                                   *)
NewsIsTold == D!NewsIsTold

(* No seller, poster or dealer is asked the same thing twice                *)
(* (photoRequests.ts, reminders.ts, fulfillment/service.ts).                *)
AskedOnce == O!AskedOnce

(* Look-ups stay within their allowances but for the phones that ask at the *)
(* same moment (marketPulseUsage.ts).                                       *)
LookupsBounded == O!LookupsBounded

(* A person is heard, and heard once (server.ts processIncomingMessages,    *)
(* stateStore.ts).                                                          *)
HeardOnce == I!HeardOnce
=============================================================================
