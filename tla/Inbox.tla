--------------------------------- MODULE Inbox ---------------------------------
(* What the WhatsApp agent does with a webhook before a message reaches its *)
(* handler (server.ts processIncomingMessages, conversation/stateStore.ts): *)
(* a provider delivers the same message again, under its id or another one, *)
(* content-less companions of it, and echoes of what the agent said. Every  *)
(* check is made per phone: this is the inbox of one.                       *)
EXTENDS Naturals, Sequences, FiniteSets

CONSTANTS
    Texts,            \* what the person writes
    Replies,          \* what the agent answers, ECHO_MIN_LENGTH or longer
    Blank,            \* no text, image or location
    Webhooks,         \* deliveries under way at once
    ContentWindow,    \* DUPLICATE_CONTENT_WINDOW_MS,
    PhantomWindow,    \* PHANTOM_COMPANION_WINDOW_MS and
    EchoWindow,       \* OUTBOUND_ECHO_WINDOW_MS, in ticks
    Tracked,          \* MAX_TRACKED_OUTBOUND_TEXTS_PER_PHONE
    Starts            \* bounds: [writes, copies, deliveries of one
                      \* entry, pairs, ticks, faults]

VARIABLES
    clock,
    pool,       \* what the provider may deliver: [id, body, of]
    ids,        \* processed_message_ids
    content,    \* recent_content_dedup: when each body was last let through
    recent,     \* recentMessagesByPhone: [at, hadContent]
    spoken,     \* outboundTextsByPhone: [text, at], the latest last
    said,       \* every text the agent has sent
    hook,       \* the webhooks under way
    heard,      \* messages that reached a handler, and when they were let in
    lost,       \* messages a failure or a restart took
    bound

memory == <<recent, spoken, said>>
tables == <<ids, content>>
vars == <<clock, pool, ids, content, recent, spoken, said, hook, heard, lost, bound>>

Spend(what) == bound[what] > 0 /\ bound' = [bound EXCEPT ![what] = @ - 1]
Idle == [pc |-> "idle", todo |-> <<>>, batch |-> {}, kept |-> <<>>]
At(h, pc) == hook[h].pc = pc
Current(h) == Head(hook[h].todo)

------------------------------------------------------------------------------
(* The person and the provider. The id of a message is its number; "of" is  *)
(* the message a delivery carries, 0 when no one wrote it.                  *)

NewId == 1 + Cardinality(pool)

Write(b) ==
    /\ Spend("writes")
    /\ pool' = pool \cup {[id |-> NewId, body |-> b, of |-> NewId]}
    /\ UNCHANGED <<clock, tables, memory, hook, heard, lost>>

(* A second id for one message, a phantom companion, an echo of an answer.  *)
Copy ==
    /\ Spend("copies")
    /\ \/ \E e \in pool : e.of # 0 /\ pool' = pool \cup {[e EXCEPT !.id = NewId]}
       \/ pool # {} /\ pool' = pool \cup {[id |-> NewId, body |-> Blank, of |-> 0]}
       \/ \E i \in DOMAIN spoken :
              pool' = pool \cup {[id |-> NewId, body |-> spoken[i].text, of |-> 0]}
    /\ UNCHANGED <<clock, tables, memory, hook, heard, lost>>

Receive(h, batch) ==
    /\ At(h, "idle")
    /\ hook' = [hook EXCEPT ![h] = [pc |-> "id", todo |-> batch, kept |-> <<>>,
                                   batch |-> {batch[i] : i \in DOMAIN batch}]]
    /\ UNCHANGED <<clock, pool, tables, memory, heard, lost>>

Deliver(h) ==
    \/ Spend("deliveries") /\ \E e \in pool : Receive(h, <<e>>)
    \/ Spend("pairs") /\ \E e \in pool : \E f \in pool \ {e} : Receive(h, <<e, f>>)

------------------------------------------------------------------------------
(* The whole batch is filtered first, each entry by its id and then by what *)
(* it says, with one statement each.                                        *)

Drop(h) == hook' = [hook EXCEPT ![h].todo = Tail(@), ![h].pc = "id"]
Keep(h, e) == hook' = [hook EXCEPT ![h].todo = Tail(@), ![h].pc = "id",
                                   ![h].kept = Append(@, [entry |-> e, at |-> clock])]

AlreadyProcessed(h) ==
    /\ At(h, "id") /\ hook[h].todo # <<>>
    /\ IF Current(h).id \in ids THEN Drop(h) ELSE hook' = [hook EXCEPT ![h].pc = "content"]
    /\ ids' = ids \cup {Current(h).id}
    /\ UNCHANGED <<clock, pool, content, memory, heard, lost, bound>>

(* In memory: a blank entry beside one with content, in its batch or in the *)
(* last seconds; a text the agent has said in the last half hour.           *)
Within(at, window) == clock - at < window
Companion(h, e) ==
    /\ e.body = Blank
    /\ \/ \E f \in hook[h].batch : f.body # Blank
       \/ \E r \in recent : r.hadContent /\ Within(r.at, PhantomWindow)
IsSuspectedOutboundEcho(e) ==
    \E i \in DOMAIN spoken : spoken[i].text = e.body /\ Within(spoken[i].at, EchoWindow)

Remember(e) == recent' = {r \in recent : Within(r.at, PhantomWindow)}
                             \cup {[at |-> clock, hadContent |-> e.body # Blank]}

Admit(h, e) ==
    /\ IF Companion(h, e) \/ IsSuspectedOutboundEcho(e) THEN Drop(h) ELSE Keep(h, e)
    /\ IF e.body = Blank /\ \E f \in hook[h].batch : f.body # Blank
       THEN UNCHANGED recent ELSE Remember(e)

FirstSighting(b) == b \in DOMAIN content => ~Within(content[b], ContentWindow)
Sighted(b) == [x \in DOMAIN content \cup {b} |-> IF x = b THEN clock ELSE content[x]]

\* (A variant: a row once inserted is compared with but never renewed.)
InsertedOnce(h) ==
    /\ At(h, "content")
    /\ LET e == Current(h) IN
       IF e.body = Blank THEN Admit(h, e) /\ UNCHANGED content
       ELSE IF FirstSighting(e.body)
            THEN /\ Admit(h, e)
                 /\ content' = IF e.body \in DOMAIN content THEN content ELSE Sighted(e.body)
            ELSE Drop(h) /\ UNCHANGED <<content, recent>>
    /\ UNCHANGED <<clock, pool, ids, spoken, said, heard, lost, bound>>

AlreadyProcessedContent(h) ==
    /\ At(h, "content")
    /\ LET e == Current(h) IN
       \/ e.body = Blank /\ Admit(h, e) /\ UNCHANGED content
       \/ /\ e.body # Blank /\ FirstSighting(e.body)
          /\ Admit(h, e) /\ content' = Sighted(e.body)
       \/ /\ e.body # Blank /\ ~FirstSighting(e.body)
          /\ Drop(h) /\ UNCHANGED <<content, recent>>
    /\ UNCHANGED <<clock, pool, ids, spoken, said, heard, lost, bound>>

------------------------------------------------------------------------------
(* Then what is left is handled, one after the other; recordOutboundActivity*)
(* comes before each answer is sent. Texts are kept in the order they were  *)
(* sent, so that those whose half hour is over come first.                  *)
Live == LET over == {i \in DOMAIN spoken : ~Within(spoken[i].at, EchoWindow)} IN
        SubSeq(spoken, Cardinality(over) + 1, Len(spoken))

\* (A variant: every text is kept for its half hour.)
RecordEveryText(t) ==
    /\ spoken' = Append(Live, [text |-> t, at |-> clock])
    /\ said' = said \cup {t}
    /\ recent' = {r \in recent : Within(r.at, PhantomWindow)}
                     \cup {[at |-> clock, hadContent |-> TRUE]}

RecordOutboundActivity(t) ==
    LET all == Append(Live, [text |-> t, at |-> clock]) IN
    /\ spoken' = IF Len(all) > Tracked THEN Tail(all) ELSE all
    /\ said' = said \cup {t}
    /\ recent' = {r \in recent : Within(r.at, PhantomWindow)}
                     \cup {[at |-> clock, hadContent |-> TRUE]}

ProcessIncomingMessage(h) ==
    /\ At(h, "id") /\ hook[h].todo = <<>> /\ hook[h].kept # <<>>
    /\ heard' = heard \cup {Head(hook[h].kept)}
    /\ \/ \E t \in Replies : RecordOutboundActivity(t)
       \/ UNCHANGED memory
    /\ hook' = [hook EXCEPT ![h].kept = Tail(@)]
    /\ UNCHANGED <<clock, pool, tables, lost, bound>>

Finished(h) ==
    /\ At(h, "id") /\ hook[h].todo = <<>> /\ hook[h].kept = <<>>
    /\ hook' = [hook EXCEPT ![h] = Idle]
    /\ UNCHANGED <<clock, pool, tables, memory, heard, lost, bound>>

(* A statement that fails ends the whole webhook, which was acknowledged at *)
(* once; a handler that fails, only its message.                            *)
Taken(h) == {hook[h].todo[i].of : i \in DOMAIN hook[h].todo}
                \cup {hook[h].kept[i].entry.of : i \in DOMAIN hook[h].kept}

FilterThrows(h) ==
    /\ ~At(h, "idle") /\ hook[h].todo # <<>> /\ Spend("faults")
    /\ lost' = lost \cup Taken(h) /\ hook' = [hook EXCEPT ![h] = Idle]
    /\ UNCHANGED <<clock, pool, tables, memory, heard>>

Restart ==
    /\ Spend("faults")
    /\ lost' = lost \cup UNION {Taken(h) : h \in Webhooks}
    /\ hook' = [h \in Webhooks |-> Idle]
    /\ recent' = {} /\ spoken' = <<>>
    /\ UNCHANGED <<clock, pool, tables, said, heard>>

Tick ==
    /\ Spend("ticks") /\ clock' = clock + 1
    /\ UNCHANGED <<pool, tables, memory, hook, heard, lost>>

------------------------------------------------------------------------------

Init ==
    /\ bound \in Starts /\ clock = 0
    /\ pool = {} /\ ids = {} /\ content = <<>>
    /\ recent = {} /\ spoken = <<>> /\ said = {}
    /\ hook = [h \in Webhooks |-> Idle] /\ heard = {} /\ lost = {}

Next ==
    \/ \E b \in Texts \cup {Blank} : Write(b)
    \/ \E h \in Webhooks :
          \/ Deliver(h) \/ AlreadyProcessed(h) \/ AlreadyProcessedContent(h)
          \/ ProcessIncomingMessage(h) \/ Finished(h) \/ FilterThrows(h)
    \/ Copy \/ Restart \/ Tick

Spec == Init /\ [][Next]_vars

------------------------------------------------------------------------------
(* Properties.                                                              *)

TypeOK ==
    /\ \A e \in pool : e.id \in 1..Cardinality(pool) /\ e.of <= e.id
    /\ ids \subseteq {e.id : e \in pool}
    /\ DOMAIN content \subseteq {e.body : e \in pool} \ {Blank}
    /\ \A i \in DOMAIN spoken : spoken[i].text \in Replies
    /\ Len(spoken) <= Tracked /\ lost \subseteq 0..Cardinality(pool)

(* However often a provider delivers a message, under whichever ids, in     *)
(* webhooks that overlap and across restarts, its sender is heard once; and *)
(* the same words count again only when the window of the first sighting is *)
(* over (alreadyProcessed, alreadyProcessedContent).                        *)
HandledOnce ==
    \A a, b \in heard :
        a # b =>
            /\ a.entry.id # b.entry.id
            /\ a.entry.body = b.entry.body /\ a.entry.body # Blank =>
                   a.at >= b.at + ContentWindow \/ b.at >= a.at + ContentWindow

(* No filter silences a person: words that were delivered and are not being *)
(* looked at have been heard, the agent has said them itself, or a failure  *)
(* took the delivery that was let through.                                  *)
NothingSwallowed ==
    \A e \in pool :
        /\ e.of # 0 /\ e.body # Blank /\ e.id \in ids
        => \/ \E a \in heard : a.entry.body = e.body
           \/ \E h \in Webhooks : \/ \E i \in DOMAIN hook[h].todo : hook[h].todo[i].body = e.body
                                  \/ \E i \in DOMAIN hook[h].kept : hook[h].kept[i].entry.body = e.body
           \/ e.body \in said
           \/ \E f \in pool : f.of \in lost /\ f.body = e.body

(* The two together: a person is heard, and heard once.                     *)
HeardOnce == HandledOnce /\ NothingSwallowed
=============================================================================
