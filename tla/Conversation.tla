---------------------------- MODULE Conversation ----------------------------
(***************************************************************************)
(* One customer's conversation with Fi: whatsapp-agent/src/conversation,   *)
(* flow.ts and stateStore.ts, with createDirectPosting and the admin tools *)
(* of server.ts that write the same record.                                *)
(*                                                                         *)
(* The conversation is one record in a file.  A message reads it, decides  *)
(* on an answer and writes the whole record back; messages of one phone    *)
(* are serialized, but the handlers await the database and the model in    *)
(* between, may throw or be killed there, and the admin tools and the      *)
(* decisions on posting matches write the same record outside the queue.   *)
(*                                                                         *)
(* The replies leave after the record is saved and the next message may    *)
(* be handled; the fate of the last review Fi wrote is followed.           *)
(*                                                                         *)
(* A message is abstracted to what the parsers of flow.ts make of it: what *)
(* it says, the item and side it names and the fields it fills.            *)
(***************************************************************************)
EXTENDS Naturals, Sequences, FiniteSets, SequencesExt

CONSTANTS
    Items, Dialed,   \* watches, and those whose dial must be known
    Prices,
    Scripts,         \* what may happen: what is said, what else is done, under which plan
    Results,         \* how many listings a search may find
    ItemCap,         \* maxActiveItemsFor
    Allowance,       \* approvals the plan or the trial allows
    Named,           \* the channel supplies the customer's name
    Handlers, Admin, None

Types == {"sell", "buy"}
Slots == {"reference", "noReference", "model", "dial", "location", "photo", "notes"}
Says == {"start", "stop", "help", "join", "fire", "status", "hi", "link", "mine", "market",
         "inventory", "cancel", "reset", "listings", "setting", "channel", "number",
         "approve", "pass", "photos", "escrow", "edit", "pause", "resume", "close",
         "yes", "confirm", "pick", "replace", "add", "skip", "any", "image", "question",
         "words", "request", "bare", "vague", "find"}
Messages == [says : Says, type : Types \cup {None}, item : Items \cup {None},
             fills : SUBSET Slots, price : Prices \cup {None}]

\* How the draft of a side proceeds, step by step.
Order == [sell |-> <<"details", "price", "dial", "location", "photo", "notes">>,
          buy |-> <<"details", "price", "model", "dial", "location", "notes">>]
Steps == (UNION {ToSet(Order[t]) : t \in Types}) \cup {"confirm"}
Drafts == [item : Items \cup {None}, price : Prices \cup {None}, has : SUBSET Slots,
           asked : BOOLEAN, step : Steps]
Prompts == {"escrow", "menu", "fire", "channel", "name"}
Posts == [type : Types, item : Items \cup {None}, price : Prices]

\* A change of price carries the price (parseListingEditCommand).
ASSUME ConversationAssumption ==
    /\ Dialed \subseteq Items
    /\ Scripts \subseteq [said : SUBSET Messages, beside : SUBSET {"cards", "admin", "hasty"},
                          plan : {"none", "free", "charged"}]
    /\ \A s \in Scripts : \A m \in s.said : m.says = "edit" => m.price # None
    /\ Results \subseteq Nat /\ ItemCap \in Nat /\ Allowance \in Nat /\ Named \in BOOLEAN
    /\ Admin \notin Handlers /\ None \notin Items \cup Prices \cup Messages \cup Drafts \cup Posts

VARIABLES
    conv,       \* the conversation's record
    task,       \* what each handler, and the admin tool, is waiting for
    active,     \* postings in force: the prices of each side and item's
    paused,     \* postings the customer paused
    archive,    \* items with a live row of source WA-DM in the inventory
    member,     \* the plan that STOP and "fire Fi" end
    charge,     \* its recurring charge at the payment processor
    counted,    \* approval events recorded
    offered,    \* a posting match awaits this customer's decision
    script,
    review,     \* history: the draft that the last review Fi wrote asks to confirm
    fate        \* and what became of that review

rows == <<active, paused, archive, counted>>
vars == <<conv, task, rows, member, charge, offered, script, review, fate>>

Kinds == Types \X (Items \cup {None})
Convs == [stage : {"new", "active", "opted_out"}, prompts : SUBSET Prompts,
          held : Messages \cup {None}, unclear : Items \cup {None},
          followUp : Items \cup {None}, matches : Seq({"pending", "approved", "passed"}),
          draft : [Types -> Drafts \cup {None}], confused : 0..2]
NoDraft == [t \in Types |-> None]
Fresh == [stage |-> "new", prompts |-> {}, held |-> None, unclear |-> None, followUp |-> None,
          matches |-> <<>>, draft |-> NoDraft, confused |-> 0]
Idle == [work |-> "idle"]

Open(c) == \E t \in Types : c.draft[t] # None
Undecided(c) == \E i \in DOMAIN c.matches : c.matches[i] = "pending"
ActivePostings == FoldSet(LAMBDA k, n : n + Len(active[k]), 0, Kinds)

-----------------------------------------------------------------------------
(* Drafts. *)

\* Whether step s of a draft still has its question to ask.
Gap(t, d, s) ==
    \/ s = "details" /\ \/ d.item = None
                        \/ t = "sell" /\ d.has \cap {"reference", "noReference"} = {}
    \/ s = "price" /\ d.price = None
    \/ s = "model" /\ d.has \cap {"model", "reference", "location"} = {}
    \/ s = "dial" /\ d.item \in Dialed /\ "reference" \in d.has /\ "dial" \notin d.has
    \/ s = "notes" /\ "notes" \notin d.has /\ (t = "buy" => d.asked)
    \/ s \in {"location", "photo"} /\ s \notin d.has

Asks(t, d) ==
    LET gaps == {i \in DOMAIN Order[t] : Gap(t, d, Order[t][i])}
    IN  IF gaps = {} THEN "confirm" ELSE Order[t][Min(gaps)]

Advance(t, d) ==
    LET s == Asks(t, d)
    IN  [d EXCEPT !.step = s,
                  !.asked = @ \/ (t = "buy" /\ s \in {"price", "model", "dial", "location"})]

StartDraft(c, t, m) ==
    [c EXCEPT !.draft[t] = Advance(t, [item |-> m.item, price |-> m.price, has |-> m.fills,
                                       asked |-> FALSE, step |-> "details"]),
              !.confused = 0]

\* The words Fi asks for, or others that agree.
Confirms(m) == m.says \in {"yes", "confirm"}

\* What a message names, and the part of it that the step being asked
\* takes for its answer.
Given(m) == m.fills \cup (IF m.price = None THEN {} ELSE {"price"})
                    \cup (IF m.item = None THEN {} ELSE {"item"})
BarePrice(m) == Given(m) = {"price"}

Takes(t, d, m) ==
    CASE d.step = "notes" -> {"notes"}
      [] m.says = "edit" /\ d.step # "notes" -> {"price"}
      [] m.says = "skip" /\ d.step # "notes" ->
             IF d.step = "details" THEN {"noReference"} \ d.has
             ELSE {"photo", "model"} \cap {d.step}
      [] m.says = "any" /\ d.step # "notes" -> {"dial", "location", "model"} \cap {d.step}
      [] m.says \notin {"edit", "skip", "any"} ->
             CASE d.step = "price" -> Given(m) \cap {"price"}
               [] d.step = "model" -> IF m.says = "words" /\ ~BarePrice(m) THEN {"model"} ELSE {}
               [] d.step = "location" -> IF BarePrice(m) THEN {}
                                         ELSE IF m.says \in {"image", "pick", "number", "hi"}
                                         THEN {} ELSE {"location"}
               [] d.step = "confirm" -> Given(m) \cap {"price", "dial", "location"}
               [] d.step = "details" -> IF BarePrice(m) THEN {} ELSE Given(m)
               [] d.step \in {"dial", "photo"} -> Given(m)

Fill(t, d, m) ==
    LET taken == Takes(t, d, m)
    IN  [d EXCEPT !.has = @ \cup (taken \cap Slots)
                            \cup (IF t = "sell" /\ m.says = "image" THEN {"photo"} ELSE {}),
                  !.price = IF "price" \in taken THEN m.price ELSE @,
                  !.item = IF "item" \in taken THEN m.item ELSE @]

\* (A variant: only the draft at hand is given up, the count goes on.)
ReplyCounting(c, t, m) ==
    LET changed == Takes(t, c.draft[t], m) # {}
    IN  IF changed THEN [c EXCEPT !.draft[t] = Advance(t, Fill(t, @, m)), !.confused = 0]
        ELSE IF c.confused = 3 THEN [c EXCEPT !.draft = NoDraft, !.confused = 0]
        ELSE [c EXCEPT !.confused = @ + 1]

\* An answer that is no confirmation: the third in a row that changes
\* nothing gives the draft up.  A question is answered and asks again.
Reply(c, t, m) ==
    LET d == c.draft[t]
        asking == m.says = "question" /\ ~(t = "sell" /\ d.step = "notes")
        changed == Takes(t, d, m) # {} \/ (t = "sell" /\ m.says = "image")
    IN  IF asking \/ (~changed /\ d.step = "details" /\ BarePrice(m)) THEN c
        ELSE IF changed THEN [c EXCEPT !.draft[t] = Advance(t, Fill(t, d, m)), !.confused = 0]
        ELSE IF c.confused = 2 THEN [c EXCEPT !.draft = NoDraft, !.confused = 0]
        ELSE [c EXCEPT !.confused = @ + 1]

-----------------------------------------------------------------------------
(* Handlers. *)

\* (A variant: messages of one phone overlap.)
FreeHandler == \E h \in Handlers : task[h] = Idle

\* withPhoneSerialized: a message waits for the one before it.
Free == \A h \in Handlers : task[h] = Idle

\* Only the hasty write on before a review has reached them.
Receive(m) ==
    /\ Free /\ m \in script.said
    /\ fate = "sending" => "hasty" \in script.beside
    /\ UNCHANGED <<member, charge, offered, script>>

\* The record as the handlers that look at the message's words see it:
\* an offer of escrow and the listings menu hold for one reply.
Attended == conv.stage # "opted_out"
Command(m, s) == Receive(m) /\ Attended /\ m.says = s

Save(c) == conv' = c /\ UNCHANGED <<task, rows, review, fate>>

Suspend(t) ==
    /\ \E h \in Handlers : task[h] = Idle /\ task' = [task EXCEPT ![h] = t]
    /\ UNCHANGED <<conv, rows, review, fate>>

\* A record saved on the way, before the handler goes on.
SaveAndAwait(c, d) ==
    /\ conv' = c
    /\ \E h \in Handlers :
          /\ task[h] = Idle
          /\ task' = [task EXCEPT ![h] = [work |-> "answer", to |-> d, shows |-> TRUE]]
    /\ UNCHANGED <<rows, review, fate>>

Await(w, c, shows) == Suspend([work |-> w, to |-> c, shows |-> shows])

\* The confirmation of a draft: `else` is what is saved if the cap refuses.
AwaitPost(c, t) ==
    LET d == c.draft[t]
    IN  Suspend([work |-> IF t = "sell" THEN "archive" ELSE "look",
                 to |-> [c EXCEPT !.draft[t] = None, !.confused = 0],
                 else |-> c, shows |-> FALSE,
                 post |-> [type |-> t, item |-> d.item, price |-> d.price]])

\* The record is saved, and the phone's queue goes on to the next message;
\* a review among the replies has yet to be sent.
SaveState(h) ==
    /\ task[h] # Idle /\ task[h].work = "answer"
    /\ conv' = task[h].to
    /\ task' = [task EXCEPT ![h] = Idle]
    /\ LET ready == {t \in Types : conv'.draft[t] # None /\ conv'.draft[t].step = "confirm"}
       IN  IF task[h].shows /\ ready # {}
           THEN LET t == CHOOSE t \in ready : TRUE
                IN  /\ review' = [type |-> t, item |-> conv'.draft[t].item,
                                 price |-> conv'.draft[t].price]
                    /\ fate' = "sending"
           ELSE UNCHANGED <<review, fate>>
    /\ UNCHANGED <<rows, member, charge, offered, script>>

\* The replies go out one by one, outside the queue; a throw is logged, and
\* what was not sent by then, or by a restart, never is.
ReviewSent ==
    /\ fate = "sending" /\ fate' = "seen"
    /\ UNCHANGED <<conv, task, rows, member, charge, offered, script, review>>

ReviewLost ==
    /\ fate = "sending" /\ fate' = "lost"
    /\ UNCHANGED <<conv, task, rows, member, charge, offered, script, review>>

\* cancelOwnMembership, for STOP, a confirmed "fire Fi" and a block: the
\* processor is told to stop charging, if it does; it may refuse.
StopCharge(h) ==
    /\ task[h] # Idle /\ task[h].work = "drop"
    /\ charge' \in IF charge = "stopped" THEN {"stopped"} ELSE {"stopped", "refused"}
    /\ task' = [task EXCEPT ![h].work = "unplan"]
    /\ UNCHANGED <<conv, rows, member, offered, script, review, fate>>

\* Refused or not, the plan ends.
DropPlan(h) ==
    /\ task[h] # Idle /\ task[h].work = "unplan"
    /\ member' = FALSE
    /\ task' = [task EXCEPT ![h] = IF h = Admin THEN Idle ELSE [@ EXCEPT !.work = "answer"]]
    /\ UNCHANGED <<conv, rows, charge, offered, script, review, fate>>

\* persistSellIntake
PersistSellIntake(h) ==
    /\ task[h] # Idle /\ task[h].work = "archive"
    /\ archive' = archive \cup {task[h].post.item}
    /\ task' = [task EXCEPT ![h].work = "look"]
    /\ UNCHANGED <<conv, active, paused, counted, member, charge, offered, script, review, fate>>

\* createDirectPosting, to its decision: a posting of the same item is
\* updated, the cap refuses a new one, or it is inserted.
LookUp(h) ==
    /\ task[h] # Idle /\ task[h].work = "look"
    /\ LET p == task[h].post
       IN  task' = [task EXCEPT ![h] =
               IF active[<<p.type, p.item>>] # <<>> THEN [@ EXCEPT !.work = "update"]
               ELSE IF ActivePostings < ItemCap THEN [@ EXCEPT !.work = "insert"]
               ELSE [@ EXCEPT !.work = "answer", !.to = task[h].else]]
    /\ UNCHANGED <<conv, rows, member, charge, offered, script, review, fate>>

\* createDirectPosting, the statement: the newest posting of the item is
\* overwritten, or a new one appended.
WritePosting(h) ==
    /\ task[h] # Idle /\ task[h].work \in {"update", "insert"}
    /\ LET p == task[h].post
           old == active[<<p.type, p.item>>]
       IN  active' = [active EXCEPT ![<<p.type, p.item>>] =
               IF task[h].work = "insert" THEN Append(old, p.price)
               ELSE IF old = <<>> THEN old ELSE ReplaceAt(old, Len(old), p.price)]
    /\ task' = [task EXCEPT ![h].work = "answer"]
    /\ UNCHANGED <<conv, paused, archive, counted, member, charge, offered, script, review, fate>>

\* recordApprovalEventForPhone
RecordApproval(h) ==
    /\ task[h] # Idle /\ task[h].work = "count"
    /\ counted' = counted + 1
    /\ task' = [task EXCEPT ![h].work = "answer"]
    /\ UNCHANGED <<conv, active, paused, archive, member, charge, offered, script, review, fate>>

\* A statement or a message throws, or the process is restarted.
Fail(h) ==
    /\ task[h] # Idle
    /\ task' = [task EXCEPT ![h] = Idle]
    /\ UNCHANGED <<conv, rows, member, charge, offered, script, review, fate>>

-----------------------------------------------------------------------------
(* Commands: recognised before anything Fi may be asking. *)

Start(m) ==
    /\ Receive(m) /\ m.says = "start"
    /\ Save([conv EXCEPT !.stage = "active", !.matches = <<>>, !.followUp = None, !.held = None,
                         !.draft = NoDraft,
                         !.prompts = IF Named THEN @ ELSE @ \cup {"name"}])

\* (A variant: only the messages stop.)
StopMessages(m) ==
    /\ Receive(m) /\ m.says = "stop"
    /\ Await("answer", [conv EXCEPT !.stage = "opted_out"], FALSE)

Stop(m) ==
    /\ Receive(m) /\ m.says = "stop"
    /\ Await("drop", [conv EXCEPT !.stage = "opted_out"], FALSE)

\* Anything else from someone who opted out is dropped.
Ignored(m) ==
    /\ Receive(m) /\ ~Attended /\ m.says \notin {"start", "stop", "link"}
    /\ Save(conv)

\* A checkout link or a billing request: only wording changes here.
Join(m) == Command(m, "join") /\ Await("answer", conv, FALSE)

Help(m) == Command(m, "help") /\ Save(conv)

\* handleMembershipCancelTrigger
MembershipCancelTrigger(m) ==
    /\ Command(m, "fire")
    /\ Await("answer", [conv EXCEPT !.prompts = IF member THEN @ \cup {"fire"} ELSE @], FALSE)

\* Answered without saving the record: a question about the account, a
\* greeting (of someone already greeted), a code that links another
\* channel, the customer's postings, a look at the market.
AccountQuestion(m) == Command(m, "status") /\ Save(conv)
Greeting(m) == Command(m, "hi") /\ conv.stage # "new" /\ Save(conv)
LinkCode(m) == Receive(m) /\ m.says = "link" /\ Save(conv)
MyListings(m) == Command(m, "mine") /\ Save(conv)
MarketLookup(m) == Command(m, "market") /\ Save(conv)

Cleared(c) == [c EXCEPT !.prompts = @ \cap {"name"}, !.held = None, !.followUp = None,
                        !.matches = <<>>, !.draft = NoDraft, !.confused = 0]

\* clearAllPendingState
CancelCommand(m) == (Command(m, "cancel") \/ Command(m, "reset")) /\ Save(Cleared(conv))

\* handleListingEdit, for a listing named by its number.
ManagePosting(k, act) ==
    \/ /\ act = "close" /\ active[k] # <<>>
       /\ active' = [active EXCEPT ![k] = Tail(@)] /\ UNCHANGED paused
    \/ /\ act = "pause" /\ active[k] # <<>> /\ paused[k] = None
       /\ active' = [active EXCEPT ![k] = Tail(@)]
       /\ paused' = [paused EXCEPT ![k] = Head(active[k])]
    \/ /\ act = "resume" /\ paused[k] # None
       /\ active' = [active EXCEPT ![k] = Append(@, paused[k])]
       /\ paused' = [paused EXCEPT ![k] = None]

ListingEdit(m) ==
    /\ Receive(m) /\ Attended /\ m.says \in {"close", "pause", "resume"}
    /\ \E k \in Kinds : ManagePosting(k, m.says)
    /\ UNCHANGED <<conv, task, archive, counted, review, fate>>

\* "change the price": a listing's while no draft is open, else the draft's.
PriceEdit(m) ==
    /\ Command(m, "edit") /\ ~Open(conv)
    /\ \E k \in Kinds :
          /\ active[k] # <<>>
          /\ active' = [active EXCEPT ![k] = ReplaceAt(@, 1, m.price)]
    /\ UNCHANGED <<conv, task, paused, archive, counted, review, fate>>

ListingsMenu(m) == Command(m, "listings") /\ Save([conv EXCEPT !.prompts = @ \cup {"menu"}])

\* Inventory, and more results: the record is saved as it was read.
Inventory(m) == Command(m, "inventory") /\ Await("answer", conv, FALSE)

\* The display currency, saved at once, and the pause of updates, which is
\* kept elsewhere.
Setting(m) == Command(m, "setting") /\ (Save(conv) \/ Await("answer", conv, FALSE))

\* handleNotificationChannelCommand: may have to ask for the number.
NotificationChannel(m) ==
    /\ Command(m, "channel")
    /\ \E asks \in BOOLEAN :
          Await("answer", [conv EXCEPT !.prompts = IF asks THEN @ \cup {"channel"} ELSE @], FALSE)

Decided(c, i, d) ==
    [c EXCEPT !.matches[i] = d,
              !.prompts = IF d = "approved" THEN @ \cup {"escrow"} ELSE @]

LatestPending(c) == CHOOSE i \in DOMAIN c.matches :
    /\ c.matches[i] = "pending"
    /\ \A j \in DOMAIN c.matches : c.matches[j] = "pending" => j <= i

\* (A variant: an approval is noted first and counted by whoever asks next.)
HandleDecisionUncounted(c, act) ==
    IF ~Undecided(c) \/ (act = "approve" /\ counted >= Allowance) THEN [work |-> "answer", to |-> c]
    ELSE [work |-> "answer",
          to |-> Decided(c, LatestPending(c), IF act = "pass" THEN "passed" ELSE "approved")]

\* handleDecision on the latest open match: an approval is counted against
\* the allowance and then noted; a pass is noted.
HandleDecision(c, act) ==
    IF ~Undecided(c) \/ (act = "approve" /\ counted >= Allowance) THEN [work |-> "answer", to |-> c]
    ELSE IF act = "pass" THEN [work |-> "answer", to |-> Decided(c, LatestPending(c), "passed")]
    ELSE [work |-> "count", to |-> Decided(c, LatestPending(c), "approved")]

Decision(m) ==
    /\ Receive(m) /\ Attended /\ m.says \in {"approve", "pass"} /\ conv.matches # <<>>
    /\ LET out == HandleDecision(conv, m.says)
       IN  IF m.says = "pass" THEN Save(out.to) ELSE Await(out.work, out.to, FALSE)

PhotoRequest(m) == Command(m, "photos") /\ conv.matches # <<>> /\ Await("answer", conv, FALSE)

Escrow(m) == Command(m, "escrow") /\ Save([conv EXCEPT !.prompts = @ \ {"escrow"}])

-----------------------------------------------------------------------------
(* Everything else, in the order in which the prompts get their turn. *)

Talk == {"yes", "confirm", "pick", "number", "replace", "add", "skip", "any", "image", "question",
         "words", "request", "bare", "vague", "find"}

Answering(m) ==
    /\ Receive(m) /\ Attended
    /\ \/ m.says \in Talk
       \/ m.says = "hi" /\ conv.stage = "new"
       \/ m.says = "edit" /\ Open(conv)
       \/ m.says \in {"approve", "pass", "photos"} /\ conv.matches = <<>>

Keywords(m) == m.says \in {"request", "bare", "find"}
FreshRequest(m) == m.says \in {"request", "bare"}
Prompted(p) == p \in conv.prompts
Past == [conv EXCEPT !.prompts = @ \ {"escrow", "menu"}]

EscrowYes(m) == Answering(m) /\ Prompted("escrow") /\ m.says = "yes"
                /\ Save([conv EXCEPT !.prompts = @ \ {"escrow"}])

MenuChoice(m) == Answering(m) /\ Prompted("menu") /\ m.says = "pick"
                 /\ (Save(Past) \/ Await("answer", Past, FALSE))

\* The reply was for neither of them.
Through(m) ==
    /\ Answering(m)
    /\ ~(Prompted("escrow") /\ m.says = "yes") /\ ~(Prompted("menu") /\ m.says = "pick")

FireReply(m) ==
    /\ Through(m) /\ Prompted("fire")
    /\ LET c == [Past EXCEPT !.prompts = @ \ {"fire"}]
       IN  IF Confirms(m) THEN Await("drop", c, FALSE) ELSE Save(c)

ChannelReply(m) ==
    /\ Through(m) /\ ~Prompted("fire") /\ Prompted("channel")
    /\ IF m.says = "number" THEN Await("answer", [Past EXCEPT !.prompts = @ \ {"channel"}], FALSE)
       ELSE Save(Past)

Unprompted(m) == Through(m) /\ ~Prompted("fire") /\ ~Prompted("channel")

\* handleNaturalFollowUpAnswer and startSearch: found listings replace the
\* matches on record, none leaves them.
Searched(c) == {c} \cup {[c EXCEPT !.matches = [i \in 1..n |-> "pending"]] : n \in Results \ {0}}

\* What a message that names an item, on side t, leads to: a buyer of the
\* AI pilot searches, after a question if preferences are missing; anyone
\* else starts a draft.
ItemNamed(c, t, m) ==
    {StartDraft(c, t, m)} \cup
    (IF t = "buy" THEN Searched(c) \cup {[c EXCEPT !.followUp = m.item]} ELSE {})

\* The side and item of a request, if the message is one.
Parsed(m) == IF m.says = "request" THEN {<<m.type, m.item>>} ELSE {}

\* An item whose side Fi asked for: the bare side completes the request,
\* and more words are read together with the ones before.
Clarified(c, m) ==
    IF c.unclear = None THEN {}
    ELSE IF m.says = "bare" THEN {<<m.type, c.unclear>>}
    ELSE IF m.says = "words" THEN Types \X {c.unclear} ELSE {}

\* What becomes of a message that no prompt and no draft has claimed.
Settle(c, m) ==
    LET about == IF c.unclear # None /\ m.says = "words" THEN c.unclear ELSE m.item
        clear == [c EXCEPT !.unclear = None, !.prompts = @ \ {"name"}]
        plain == [clear EXCEPT !.stage = "active"]
        requests == Parsed(m) \cup Clarified(c, m)
        settled == UNION {ItemNamed(plain, r[1], [m EXCEPT !.item = r[2]]) : r \in requests}
    IN  settled \cup
        (IF requests # {} /\ m.says # "words" THEN {}
         ELSE IF m.says = "words" /\ "name" \in c.prompts THEN {clear}
         ELSE IF c.stage = "new"
         THEN {IF Named THEN plain ELSE [plain EXCEPT !.prompts = @ \cup {"name"}]}
         ELSE IF m.says = "find" THEN {StartDraft(plain, m.type, m)}
         ELSE {plain, [plain EXCEPT !.unclear = about]})

\* A request held back while a draft was open: the reply says whether it
\* replaces the draft.  The draft is dropped, and saved so, at once.
HeldReply(m) ==
    /\ Unprompted(m) /\ conv.held # None
    /\ LET c == [Past EXCEPT !.held = None, !.draft = NoDraft]
       IN  IF m.says = "replace"
           THEN \E d \in Settle([c EXCEPT !.followUp = None], conv.held) : SaveAndAwait(c, d)
           ELSE Save(IF m.says = "add" THEN [Past EXCEPT !.held = None] ELSE Past)

\* (A variant: the open draft is answered first.)
NotHeldOrOpen(m) == Unprompted(m) /\ (conv.held = None \/ Open(conv))

NotHeld(m) == Unprompted(m) /\ conv.held = None

\* A buy request restates the buy draft, which is dropped at once.
Restate(m) ==
    /\ NotHeld(m) /\ FreshRequest(m) /\ m.type = "buy" /\ conv.draft.buy # None
    /\ LET c == [Past EXCEPT !.draft.buy = None]
       IN  \E d \in Settle([c EXCEPT !.followUp = None], m) : SaveAndAwait(c, d)

Continues(m) ==
    LET d == conv.draft.sell
    IN  /\ m.type = "sell" /\ d # None
        /\ "reference" \in d.has =>
              d.step = "confirm" /\ m.item = d.item /\ "reference" \in m.fills

Conflict(m) ==
    /\ NotHeld(m) /\ FreshRequest(m) /\ Open(conv)
    /\ ~(m.type = "buy" /\ conv.draft.buy # None) /\ ~Continues(m)
    /\ Save([Past EXCEPT !.held = m])

\* (A variant: a correction to a draft under review is only acknowledged.)
AnswerUnshown(m) ==
    /\ NotHeld(m) /\ Open(conv) /\ (FreshRequest(m) => Continues(m))
    /\ LET t == IF conv.draft.sell # None THEN "sell" ELSE "buy"
       IN  IF conv.draft[t].step = "confirm" /\ Confirms(m)
           THEN AwaitPost(Past, t)
           ELSE Await("answer", Reply(Past, t, m), conv.draft[t].step # "confirm")

\* handleSellIntakeAnswer, handleBuyIntakeAnswer
Answer(m) ==
    /\ NotHeld(m) /\ Open(conv) /\ (FreshRequest(m) => Continues(m))
    /\ LET t == IF conv.draft.sell # None THEN "sell" ELSE "buy"
       IN  IF conv.draft[t].step = "confirm" /\ Confirms(m)
           THEN AwaitPost(Past, t)
           ELSE Await("answer", Reply(Past, t, m), TRUE)

NoDraftOpen(m) == NotHeld(m) /\ ~Open(conv)

FollowUpReply(m) ==
    /\ NoDraftOpen(m) /\ conv.followUp # None /\ ~Keywords(m)
    /\ \E c \in {Past} \cup Searched([Past EXCEPT !.followUp = None]) : Await("answer", c, FALSE)

\* A decision on the search's matches in words of the customer's own.
NaturalDecision(m) ==
    /\ NoDraftOpen(m) /\ conv.followUp = None /\ conv.matches # <<>> /\ ~Keywords(m)
    /\ m.says # "hi"
    /\ \E act \in {"approve", "pass"} :
          LET out == HandleDecision([Past EXCEPT !.unclear = None], act)
          IN  Await(out.work, out.to, FALSE)

Routed(m) ==
    /\ NoDraftOpen(m) /\ (conv.followUp # None => Keywords(m))
    /\ \E c \in Settle([Past EXCEPT !.followUp = None], m) : Await("answer", c, TRUE)

-----------------------------------------------------------------------------
(* Beside the queue: server.ts writes the same record. *)

\* A card for a posting match; its decision is taken before the flow sees
\* the message, and an approval that connects marks the offer of escrow.
CardSent ==
    /\ "cards" \in script.beside /\ conv.stage # "opted_out" /\ offered' = TRUE
    /\ UNCHANGED <<conv, task, rows, member, charge, script, review, fate>>

MatchDecision ==
    /\ offered /\ ~Undecided(conv) /\ offered' = FALSE
    /\ \E marks \in BOOLEAN :
          conv' = IF marks THEN [conv EXCEPT !.prompts = @ \cup {"escrow"}] ELSE conv
    /\ UNCHANGED <<task, rows, member, charge, script, review, fate>>

BlockIdentity ==
    /\ "admin" \in script.beside
    /\ task[Admin] = Idle
    /\ conv' = [conv EXCEPT !.stage = "opted_out"]
    /\ task' = [task EXCEPT ![Admin] = [work |-> "drop", to |-> conv, shows |-> FALSE]]
    /\ UNCHANGED <<rows, member, charge, offered, script, review, fate>>

UnblockIdentity ==
    /\ "admin" \in script.beside /\ conv.stage = "opted_out"
    /\ conv' = [conv EXCEPT !.stage = "new"]
    /\ UNCHANGED <<task, rows, member, charge, offered, script, review, fate>>

ResetUserAccount ==
    /\ "admin" \in script.beside
    /\ conv' = Fresh
    /\ active' = [k \in Kinds |-> <<>>]
    /\ UNCHANGED <<task, paused, archive, counted, member, charge, offered, script, review, fate>>

-----------------------------------------------------------------------------
Init ==
    /\ conv = Fresh /\ task = [h \in Handlers \cup {Admin} |-> Idle]
    /\ active = [k \in Kinds |-> <<>>] /\ paused = [k \in Kinds |-> None]
    /\ archive = {} /\ counted = 0
    /\ offered = FALSE /\ script \in Scripts
    /\ member = (script.plan # "none")
    /\ charge = IF script.plan = "charged" THEN "running" ELSE "stopped"
    /\ review = None /\ fate = "none"

Message ==
    \E m \in script.said :
        \/ Start(m) \/ Stop(m) \/ Ignored(m) \/ Join(m) \/ Help(m)
        \/ MembershipCancelTrigger(m) \/ AccountQuestion(m) \/ Greeting(m) \/ LinkCode(m)
        \/ MyListings(m) \/ MarketLookup(m) \/ Inventory(m) \/ CancelCommand(m)
        \/ ListingEdit(m) \/ PriceEdit(m) \/ ListingsMenu(m) \/ Setting(m)
        \/ NotificationChannel(m) \/ Decision(m) \/ PhotoRequest(m) \/ Escrow(m)
        \/ EscrowYes(m) \/ MenuChoice(m) \/ FireReply(m) \/ ChannelReply(m)
        \/ HeldReply(m) \/ Restate(m) \/ Conflict(m) \/ Answer(m)
        \/ FollowUpReply(m) \/ NaturalDecision(m) \/ Routed(m)

Next ==
    \/ Message
    \/ \E h \in Handlers \cup {Admin} :
           SaveState(h) \/ StopCharge(h) \/ DropPlan(h) \/ PersistSellIntake(h)
           \/ LookUp(h) \/ WritePosting(h) \/ RecordApproval(h) \/ Fail(h)
    \/ ReviewSent \/ ReviewLost
    \/ CardSent \/ MatchDecision
    \/ BlockIdentity \/ UnblockIdentity \/ ResetUserAccount

Spec == Init /\ [][Next]_vars

-----------------------------------------------------------------------------
(* Properties. *)

\* Type invariant: the record as types.ts declares it, and what each
\* handler waits for.
TypeOK ==
    /\ conv \in Convs
    /\ \A h \in DOMAIN task : task[h] # Idle => task[h].to \in Convs
    /\ active \in [Kinds -> Seq(Prices)] /\ paused \in [Kinds -> Prices \cup {None}]
    /\ archive \subseteq Items \cup {None} /\ counted \in Nat
    /\ member \in BOOLEAN /\ charge \in {"running", "stopped", "refused"}
    /\ offered \in BOOLEAN
    /\ review \in Posts \cup {None} /\ fate \in {"none", "sending", "seen", "lost"}

\* A customer has one draft at a time, and a request held back (flow.ts
\* 3399, 3452) always waits for an open draft: no reply "replace" or "add"
\* is ever asked about nothing.
OneDraft ==
    /\ conv.draft.sell = None \/ conv.draft.buy = None
    /\ conv.held # None => Open(conv)

\* What is posted is, price and item, what the last review Fi wrote asked
\* to confirm, whatever corrections, replacements, refusals, throws and
\* restarts came before (flow.ts 2721, 2764).  A customer who waits for the
\* reply was shown that review, unless it was lost: the record is at
\* "confirm" before the review is sent (flow.ts 3466, server.ts 377), a
\* failed send is only logged (server.ts 410), and the next "confirm" then
\* posts what nobody has seen.
ReviewedBeforePosted ==
    \A h \in Handlers :
        task[h] # Idle /\ task[h].work \in {"archive", "look", "update", "insert"} =>
            /\ task[h].post = review
            /\ fate \in {"seen", "lost"} \/ "hasty" \in script.beside

\* A draft confirmed again, after a failure or a double send, updates the
\* posting it made before: no posting is inserted beside an active one of
\* the same item (postingsStore.ts 285, flow.ts 2870).
ConfirmedOnce ==
    [][\A h \in Handlers :
         task[h] # Idle /\ task[h].work = "insert" /\ active' # active =>
             active[<<task[h].post.type, task[h].post.item>>] = <<>>]_vars

\* Whoever is opted out by STOP has no plan left, and the processor was told
\* to stop charging, or had nothing to charge: the record never says so
\* before (flow.ts 2985).  It may have refused; a block is recorded first.
StopEndsPlan ==
    [][conv.stage # "opted_out" /\ conv'.stage = "opted_out" =>
           \/ ~member' /\ charge' # "running"
           \/ task[Admin] = Idle /\ task'[Admin] # Idle]_vars

\* A search result is shown as approved, its contact disclosed, only after
\* the approval was counted against the allowance (flow.ts 1682).
ApprovalsCounted ==
    Cardinality({i \in DOMAIN conv.matches : conv.matches[i] = "approved"}) <= counted
=============================================================================
