------------------------------- MODULE Outreach -------------------------------
(* What the WhatsApp agent sends people who did not just write to it, and   *)
(* the usage it meters while they write: photo requests                     *)
(* (matching/photoRequests.ts), reminders before a posting expires          *)
(* (postings/reminders.ts), requests offered to dealers                     *)
(* (fulfillment/service.ts), market look-ups (postings/marketPulseUsage.ts) *)
(* and the introduction of the service to its contacts (outreach/blast.ts). *)
(* All of them read, then send, then write, and several run at once.        *)
EXTENDS Naturals, Sequences, FiniteSets, Bags

CONSTANTS
    Listings, SellerOf,    \* listings with a number, and whose it is
    Buyers,
    Postings,              \* group postings with an expiry
    Requests, Dealers,     \* buyers' postings, and who registered coverage
    Phones,                \* the linked identities of one account
    Trial, WeeklyLimit,    \* maxMarketPulseLookups, marketPulse.weeklyLimit
    Contacts,              \* tier A and B contacts, in the order of the file
    BatchLimit,            \* OUTREACH_BATCH_LIMIT
    Tasks,                 \* handlers and jobs under way at once
    Starts,                \* bounds: [part, tasks, changes, faults]
    None

VARIABLES
    photo,       \* the photo-request columns of inventory_listings
    posting,     \* postings: status, expiry, and the expiry reminded of
    reminding,   \* reminderRunInProgress
    offer,       \* wtb_fulfillment_opportunities
    covers,      \* dealers whose coverage is active
    usage,       \* total_market_pulse_count; market_pulse_lookups by kind
    contact,     \* the conversation stage of each contact
    blast,       \* blast-status.json
    task,
    sent,        \* messages that reached somebody
    excuse,      \* what may rightly be sent again, and failures
    missed,      \* look-ups that a failure kept from being counted
    bound

history == <<sent, excuse, missed>>
vars == <<photo, posting, reminding, offer, covers, usage, contact, blast, task,
          sent, excuse, missed, bound>>

Part(p) == bound["part"] = p
Spend(what) == bound[what] > 0 /\ bound' = [bound EXCEPT ![what] = @ - 1]
Noted(bag, keys) == bag (+) SetToBag(keys)
Count(key, bag) == IF key \in BagToSet(bag) THEN bag[key] ELSE 0
Idle == [pc |-> "idle", who |-> None]
Goto(t, pc) == task' = [task EXCEPT ![t].pc = pc]
Ends(t) == task' = [task EXCEPT ![t] = Idle]
At(t, pc) == task[t].pc = pc
Begin(t, r) == At(t, "idle") /\ Spend("tasks") /\ task' = [task EXCEPT ![t] = r]
(* Messages of one person are handled one after the other.                  *)
Free(who) == \A t \in Tasks : task[t].who # who

------------------------------------------------------------------------------
(* Photo requests.                                                          *)

RequestPhotosForMatch(t, b, l) ==
    /\ Part("photos") /\ Free(b)
    /\ Begin(t, [pc |-> "look", who |-> b, of |-> l])
    /\ UNCHANGED <<photo, posting, reminding, offer, covers, usage, contact, blast, history>>

Duplicate(l) == photo[l].status = "requested" /\ photo[l].age = "fresh"

GetPhotoRequestRecord(t) ==
    /\ At(t, "look")
    /\ IF Duplicate(task[t].of) THEN Ends(t) ELSE Goto(t, "ask")
    /\ UNCHANGED <<photo, posting, reminding, offer, covers, usage, contact, blast, history, bound>>

AskSeller(t) ==
    /\ At(t, "ask") /\ Goto(t, "mark")
    /\ sent' = Noted(sent, {<<"photo", task[t].of, task[t].who>>})
    /\ UNCHANGED <<photo, posting, reminding, offer, covers, usage, contact, blast, excuse, missed, bound>>

(* A moment after every request on record.                                  *)
Later == 1 + Cardinality({l \in Listings : photo[l].at > 0 /\ photo[l].status # "none"})
         + BagCardinality(sent)

MarkPhotoRequested(t) ==
    /\ At(t, "mark") /\ Ends(t)
    /\ photo' = [photo EXCEPT ![task[t].of] =
                    [status |-> "requested", age |-> "fresh", at |-> Later, asker |-> task[t].who]]
    /\ UNCHANGED <<posting, reminding, offer, covers, usage, contact, blast, history, bound>>

(* An image goes to the latest request made of its sender, whichever of     *)
(* his listings it shows.                                                   *)
Asked(s) == {l \in Listings : /\ SellerOf[l] = s /\ photo[l].age # "over"
                              /\ photo[l].status \in {"requested", "received"}}

HandleIncomingSellerPhoto(t, s) ==
    /\ Part("photos")
    /\ \E l \in Asked(s) :
           /\ \A k \in Asked(s) : photo[k].at <= photo[l].at
           /\ Begin(t, [pc |-> "append", who |-> None, of |-> l, to |-> photo[l].asker,
                        first |-> photo[l].status = "requested"])
    /\ UNCHANGED <<photo, posting, reminding, offer, covers, usage, contact, blast, history>>

AppendReceivedPhoto(t) ==
    /\ At(t, "append") /\ Goto(t, "forward")
    /\ photo' = [photo EXCEPT ![task[t].of].status = "received"]
    /\ excuse' = Noted(excuse, {<<"photo", task[t].of, b>> : b \in Buyers})
    /\ UNCHANGED <<posting, reminding, offer, covers, usage, contact, blast, sent, missed, bound>>

(* The image goes on to the buyer; the first one brings his card again.     *)
ForwardPhoto(t) ==
    /\ At(t, "forward") /\ Ends(t)
    /\ sent' = Noted(sent, {<<"image", task[t].of, task[t].to>>}
                        \cup IF task[t].first THEN {<<"card", task[t].of, task[t].to>>} ELSE {})
    /\ UNCHANGED <<photo, posting, reminding, offer, covers, usage, contact, blast, excuse, missed, bound>>

(* 48 hours after a request it may be repeated; after seven days an image   *)
(* no longer answers it.                                                    *)
RequestAges(l) ==
    /\ Part("photos") /\ Spend("changes")
    /\ photo[l].status # "none" /\ photo[l].age # "over"
    /\ photo' = [photo EXCEPT ![l].age = IF @ = "fresh" THEN "old" ELSE "over"]
    /\ excuse' = Noted(excuse, {<<"photo", l, b>> : b \in Buyers})
    /\ UNCHANGED <<posting, reminding, offer, covers, usage, contact, blast, task, sent, missed>>

------------------------------------------------------------------------------
(* Reminders.                                                               *)

SendExpirationReminders(t) ==
    /\ Part("reminders") /\ ~reminding
    /\ Begin(t, [pc |-> "find", who |-> None])
    /\ reminding' = TRUE
    /\ UNCHANGED <<photo, posting, offer, covers, usage, contact, blast, history>>

NeedsReminder(p) == /\ posting[p].status = "active" /\ posting[p].near
                    /\ posting[p].reminded # posting[p].expires

FindPostingsNeedingReminder(t) ==
    /\ At(t, "find")
    /\ task' = [task EXCEPT ![t] = [pc |-> "remind", who |-> None, of |-> None,
                   todo |-> {<<p, posting[p].expires>> : p \in {q \in Postings : NeedsReminder(q)}}]]
    /\ UNCHANGED <<photo, posting, reminding, offer, covers, usage, contact, blast, history, bound>>

Remind(t) ==
    /\ At(t, "remind")
    /\ \E c \in task[t].todo :
           /\ sent' = Noted(sent, {<<"reminder", c[1], c[2]>>})
           /\ task' = [task EXCEPT ![t].todo = @ \ {c}, ![t].of = c[1], ![t].pc = "claim"]
    /\ UNCHANGED <<photo, posting, reminding, offer, covers, usage, contact, blast, excuse, missed, bound>>

ClaimReminderForPosting(t) ==
    /\ At(t, "claim") /\ Goto(t, "remind")
    /\ posting' = [posting EXCEPT ![task[t].of].reminded = posting[task[t].of].expires]
    /\ UNCHANGED <<photo, reminding, offer, covers, usage, contact, blast, history, bound>>

RemindersDone(t) ==
    /\ At(t, "remind") /\ task[t].todo = {}
    /\ Ends(t) /\ reminding' = FALSE
    /\ UNCHANGED <<photo, posting, offer, covers, usage, contact, blast, history, bound>>

(* tryHandleV4Extend, closePosting, expireStalePostings; and time, which    *)
(* brings an expiry near.                                                   *)
PostingChanges(p) ==
    /\ Part("reminders") /\ Spend("changes")
    /\ \/ posting[p].status = "active"
          /\ posting' = [posting EXCEPT ![p].expires = @ + 1, ![p].near = FALSE]
       \/ posting' = [posting EXCEPT ![p].status = "sold"]
       \/ posting[p].status = "active" /\ posting[p].near
          /\ posting' = [posting EXCEPT ![p].status = "expired"]
       \/ ~posting[p].near /\ posting' = [posting EXCEPT ![p].near = TRUE]
    /\ UNCHANGED <<photo, reminding, offer, covers, usage, contact, blast, task, history>>

------------------------------------------------------------------------------
(* Requests offered to dealers. One request may be ingested twice at once.  *)

FulfillWtb(t, w) ==
    /\ Part("offers")
    /\ Begin(t, [pc |-> "offer", who |-> None, of |-> w, todo |-> covers, to |-> None])
    /\ UNCHANGED <<photo, posting, reminding, offer, covers, usage, contact, blast, history>>

\* (A variant: the dealer is told whether or not the row was inserted.)
ClaimOrNot(t) ==
    /\ At(t, "offer")
    /\ \E d \in task[t].todo :
       LET key == <<task[t].of, d>> IN
       /\ offer' = [k \in DOMAIN offer \cup {key} |->
                       IF k \in DOMAIN offer THEN offer[k] ELSE "pending"]
       /\ task' = [task EXCEPT ![t].todo = @ \ {d}, ![t].to = d, ![t].pc = "tell"]
    /\ UNCHANGED <<photo, posting, reminding, covers, usage, contact, blast, history, bound>>

ClaimOpportunity(t) ==
    /\ At(t, "offer")
    /\ \E d \in task[t].todo :
       LET key == <<task[t].of, d>> new == key \notin DOMAIN offer IN
       /\ offer' = IF new THEN [k \in DOMAIN offer \cup {key} |->
                                   IF k = key THEN "pending" ELSE offer[k]]
                   ELSE offer
       /\ task' = [task EXCEPT ![t].todo = @ \ {d}, ![t].to = d,
                               ![t].pc = IF new THEN "tell" ELSE @]
    /\ UNCHANGED <<photo, posting, reminding, covers, usage, contact, blast, history, bound>>

TellDealer(t) ==
    /\ At(t, "tell") /\ Goto(t, "offer")
    /\ sent' = Noted(sent, {<<"offer", task[t].of, task[t].to>>})
    /\ UNCHANGED <<photo, posting, reminding, offer, covers, usage, contact, blast, excuse, missed, bound>>

Fulfilled(t) ==
    /\ At(t, "offer") /\ task[t].todo = {} /\ Ends(t)
    /\ UNCHANGED <<photo, posting, reminding, offer, covers, usage, contact, blast, history, bound>>

HandleOpportunityResponse(w, d) ==
    /\ Part("offers") /\ Spend("changes")
    /\ <<w, d>> \in DOMAIN offer /\ offer[<<w, d>>] = "pending"
    /\ \E answer \in {"accepted", "declined"} : offer' = [offer EXCEPT ![<<w, d>>] = answer]
    /\ UNCHANGED <<photo, posting, reminding, covers, usage, contact, blast, task, history>>

HandleCoverageCommand(d) ==
    /\ Part("offers") /\ Spend("changes")
    /\ covers' = IF d \in covers THEN covers \ {d} ELSE covers \cup {d}
    /\ UNCHANGED <<photo, posting, reminding, offer, usage, contact, blast, task, history>>

------------------------------------------------------------------------------
(* Market look-ups: the usage is read in two statements, the look-up        *)
(* recorded in two others.                                                  *)

LookUp(t, ph) ==
    /\ Part("lookups") /\ Free(ph)
    /\ Begin(t, [pc |-> "usage", who |-> ph, free |-> FALSE])
    /\ UNCHANGED <<photo, posting, reminding, offer, covers, usage, contact, blast, history>>

GetMarketPulseUsage(t) ==
    /\ At(t, "usage")
    /\ task' = [task EXCEPT ![t].free = usage.total < Trial,
                            ![t].pc = IF usage.total < Trial THEN "record" ELSE "weekly"]
    /\ UNCHANGED <<photo, posting, reminding, offer, covers, usage, contact, blast, history, bound>>

EvaluateMarketPulseGate(t) ==
    /\ At(t, "weekly")
    /\ IF usage.paid >= WeeklyLimit THEN Ends(t) ELSE Goto(t, "record")
    /\ UNCHANGED <<photo, posting, reminding, offer, covers, usage, contact, blast, history, bound>>

RecordMarketPulseLookup(t) ==
    /\ At(t, "record") /\ Goto(t, "count")
    /\ usage' = [usage EXCEPT !.free = IF task[t].free THEN @ + 1 ELSE @,
                              !.paid = IF task[t].free THEN @ ELSE @ + 1]
    /\ UNCHANGED <<photo, posting, reminding, offer, covers, contact, blast, history, bound>>

\* (A variant: the total counts the paid look-ups only.)
CountPaid(t) ==
    /\ At(t, "count") /\ Ends(t)
    /\ usage' = [usage EXCEPT !.total = IF task[t].free THEN @ ELSE @ + 1]
    /\ UNCHANGED <<photo, posting, reminding, offer, covers, contact, blast, history, bound>>

CountLookup(t) ==
    /\ At(t, "count") /\ Ends(t)
    /\ usage' = [usage EXCEPT !.total = @ + 1]
    /\ UNCHANGED <<photo, posting, reminding, offer, covers, contact, blast, history, bound>>

------------------------------------------------------------------------------
(* The outreach batch, and the contacts that answer while it runs.          *)

Pending == SelectSeq(Contacts, LAMBDA c : contact[c] = "new")
PlanOutreachBatch == SubSeq(Pending, 1, IF Len(Pending) < BatchLimit THEN Len(Pending)
                                        ELSE BatchLimit)

OutreachStart(t) ==
    /\ Part("blast") /\ blast # "running"
    /\ Begin(t, [pc |-> "read", who |-> None, todo |-> PlanOutreachBatch, state |-> None])
    /\ blast' = "running"
    /\ UNCHANGED <<photo, posting, reminding, offer, covers, usage, contact, history>>

ReadContact(t) ==
    /\ At(t, "read") /\ task[t].todo # <<>>
    /\ task' = [task EXCEPT ![t].state = contact[Head(task[t].todo)], ![t].pc = "intro"]
    /\ UNCHANGED <<photo, posting, reminding, offer, covers, usage, contact, blast, history, bound>>

(* saveState({ ...state, stage: "new" })                                    *)
SendIntro(t) ==
    /\ At(t, "intro")
    /\ LET c == Head(task[t].todo) IN
       /\ sent' = Noted(sent, {<<"intro", c, None>>})
       /\ contact' = [contact EXCEPT ![c] = "new"]
    /\ task' = [task EXCEPT ![t].todo = Tail(@), ![t].pc = "read"]
    /\ UNCHANGED <<photo, posting, reminding, offer, covers, usage, blast, excuse, missed, bound>>

BatchDone(t) ==
    /\ At(t, "read") /\ task[t].todo = <<>>
    /\ Ends(t) /\ blast' = "completed"
    /\ UNCHANGED <<photo, posting, reminding, offer, covers, usage, contact, history, bound>>

ContactAnswers(c) ==
    /\ Part("blast") /\ Spend("changes")
    /\ \E stage \in {"active", "opted_out"} : contact' = [contact EXCEPT ![c] = stage]
    /\ UNCHANGED <<photo, posting, reminding, offer, covers, usage, blast, task, history>>

------------------------------------------------------------------------------
(* A step that throws after its message may have gone out, and a restart.   *)

Sending(t) ==
    CASE At(t, "ask") -> {<<"photo", task[t].of, task[t].who>>}
      [] At(t, "mark") -> {<<"photo", task[t].of, task[t].who>>}
      [] At(t, "remind") -> {<<"reminder", c[1], c[2]>> : c \in task[t].todo}
      [] At(t, "claim") -> {<<"reminder", task[t].of, posting[task[t].of].expires>>}
      [] At(t, "tell") -> {<<"offer", task[t].of, task[t].to>>}
      [] At(t, "intro") -> {<<"intro", Head(task[t].todo), None>>}
      [] OTHER -> {}

(* Whose look-up is recorded, and about to be counted.                      *)
Counting(ts) == {task[t].who : t \in {x \in ts : At(x, "count")}}

(* A reminder or an offer that fails does not stop the ones after it.       *)
Throws(t) ==
    /\ ~At(t, "idle") /\ Spend("faults")
    /\ excuse' = Noted(excuse, Sending(t)) /\ missed' = missed + Cardinality(Counting({t}))
    /\ \E reached \in SUBSET Sending(t) :
           /\ Cardinality(reached) <= IF task[t].pc \in {"remind", "ask", "tell", "intro"} THEN 1 ELSE 0
           /\ sent' = Noted(sent, reached)
    /\ CASE At(t, "remind") ->
              /\ \E c \in task[t].todo : task' = [task EXCEPT ![t].todo = @ \ {c}]
              /\ UNCHANGED <<reminding, blast>>
         [] At(t, "tell") -> Goto(t, "offer") /\ UNCHANGED <<reminding, blast>>
         [] At(t, "intro") -> /\ task' = [task EXCEPT ![t].todo = Tail(@), ![t].pc = "read"]
                              /\ UNCHANGED <<reminding, blast>>
         [] OTHER -> /\ Ends(t) /\ UNCHANGED blast
                     /\ reminding' = (reminding /\ ~(At(t, "find") \/ At(t, "claim")))
    /\ UNCHANGED <<photo, posting, offer, covers, usage, contact>>

Restart ==
    /\ Spend("faults")
    /\ excuse' = Noted(excuse, UNION {Sending(t) : t \in Tasks})
    /\ missed' = missed + Cardinality(Counting(Tasks))
    /\ task' = [t \in Tasks |-> Idle] /\ reminding' = FALSE
    /\ UNCHANGED <<photo, posting, offer, covers, usage, contact, blast, sent>>

------------------------------------------------------------------------------

Init ==
    /\ bound \in Starts
    /\ photo = [l \in Listings |-> [status |-> "none", age |-> "fresh", at |-> 0, asker |-> None]]
    /\ posting = [p \in Postings |-> [status |-> "active", expires |-> 1, near |-> TRUE, reminded |-> 0]]
    /\ reminding = FALSE /\ offer = <<>> /\ covers = Dealers
    /\ usage = [total |-> 0, free |-> 0, paid |-> 0]
    /\ contact = [c \in {Contacts[i] : i \in DOMAIN Contacts} |-> "new"] /\ blast = "idle"
    /\ task = [t \in Tasks |-> Idle] /\ sent = EmptyBag /\ excuse = EmptyBag
    /\ missed = 0

Photos(t) == GetPhotoRequestRecord(t) \/ AskSeller(t) \/ MarkPhotoRequested(t)
             \/ AppendReceivedPhoto(t) \/ ForwardPhoto(t)
Reminders(t) == FindPostingsNeedingReminder(t) \/ Remind(t) \/ ClaimReminderForPosting(t)
                \/ RemindersDone(t)
Offers(t) == ClaimOpportunity(t) \/ TellDealer(t) \/ Fulfilled(t)
Lookups(t) == GetMarketPulseUsage(t) \/ EvaluateMarketPulseGate(t)
              \/ RecordMarketPulseLookup(t) \/ CountLookup(t)
Blast(t) == ReadContact(t) \/ SendIntro(t) \/ BatchDone(t)

Next ==
    \/ \E t \in Tasks :
          \/ \E b \in Buyers, l \in Listings : RequestPhotosForMatch(t, b, l)
          \/ \E l \in Listings : HandleIncomingSellerPhoto(t, SellerOf[l])
          \/ \E w \in Requests : FulfillWtb(t, w)
          \/ \E ph \in Phones : LookUp(t, ph)
          \/ SendExpirationReminders(t) \/ OutreachStart(t)
          \/ Photos(t) \/ Reminders(t) \/ Offers(t) \/ Lookups(t) \/ Blast(t) \/ Throws(t)
    \/ \E l \in Listings : RequestAges(l)
    \/ \E p \in Postings : PostingChanges(p)
    \/ \E w \in Requests, d \in Dealers : HandleOpportunityResponse(w, d)
    \/ \E d \in Dealers : HandleCoverageCommand(d)
    \/ \E c \in DOMAIN contact : ContactAnswers(c)
    \/ Restart

Spec == Init /\ [][Next]_vars

------------------------------------------------------------------------------
(* Properties.                                                              *)

TypeOK ==
    /\ \A l \in Listings : photo[l].status \in {"none", "requested", "received"}
                           /\ photo[l].asker \in Buyers \cup {None}
    /\ \A p \in Postings : posting[p].status \in {"active", "sold", "expired"}
                           /\ posting[p].reminded <= posting[p].expires
    /\ DOMAIN offer \subseteq Requests \X Dealers
    /\ blast \in {"idle", "running", "completed"} /\ reminding \in BOOLEAN

(* Nobody is asked the same thing twice, however the handlers and jobs      *)
(* overlap: a seller for photos of a listing by one buyer, unless photos    *)
(* came or 48 hours passed (requestPhotosForMatch); a poster about one      *)
(* expiry (sendExpirationReminders, claimReminderForPosting); a dealer      *)
(* about one request, failed sends included (fulfillWtb). A failure of the  *)
(* very message excuses one more of the first two.                          *)
AskedOnce ==
    \A key \in BagToSet(sent) :
        /\ key[1] \in {"photo", "reminder"} => Count(key, sent) <= 1 + Count(key, excuse)
        /\ key[1] = "offer" => Count(key, sent) <= 1

(* The look-ups of an account exceed its allowances by no more than the     *)
(* other phones that ask at the same moment, and failures between the two   *)
(* statements of a recording (getMarketPulseUsage,                          *)
(* recordMarketPulseLookup).                                                *)
LookupsBounded ==
    /\ usage.free <= Trial + Cardinality(Phones) - 1 + missed
    /\ usage.paid <= WeeklyLimit + Cardinality(Phones) - 1
=============================================================================
