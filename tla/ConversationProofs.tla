-------------------------- MODULE ConversationProofs --------------------------
(* One customer's conversation, whatever is said, fails, is restarted or     *)
(* done beside it: theorems about Conversation.                              *)
EXTENDS Conversation, Integers, FiniteSetTheorems, TLAPS

(* A draft, and the record, of the right kind. A draft under review has     *)
(* its price.                                                               *)
DraftKnown(d) ==
    /\ d = [field \in {"item", "price", "has", "asked", "step"} |-> d[field]]
    /\ d.item \in Items \cup {None} /\ d.price \in Prices \cup {None} /\ d.has \subseteq Slots
    /\ d.asked \in BOOLEAN /\ d.step \in Steps /\ (d.step = "confirm" => d.price # None)

Decisions == {"pending", "approved", "passed"}
RecordKnown(c) ==
    /\ c = [field \in {"stage", "prompts", "held", "unclear", "followUp", "matches", "draft",
                       "confused"} |-> c[field]]
    /\ c.stage \in {"new", "active", "opted_out"} /\ c.prompts \subseteq Prompts
    /\ c.held \in Messages \cup {None} /\ c.unclear \in Items \cup {None}
    /\ c.followUp \in Items \cup {None} /\ c.matches \in Seq(Decisions)
    /\ c.draft = [t \in Types |-> c.draft[t]] /\ c.confused \in 0..2
    /\ \A t \in Types : c.draft[t] = None \/ DraftKnown(c.draft[t])

Single(c) == c.draft["sell"] = None \/ c.draft["buy"] = None
Waits(c) == c.held # None => Open(c)
Approved(c) == {i \in DOMAIN c.matches : c.matches[i] = "approved"}
Good(c, n) == RecordKnown(c) /\ Single(c) /\ Waits(c) /\ Cardinality(Approved(c)) <= n

(* A draft under review is the one that the last review Fi wrote shows.     *)
PostOf(c, t) == [type |-> t, item |-> c.draft[t].item, price |-> c.draft[t].price]
Shown(c) == \A t \in Types :
    c.draft[t] # None /\ c.draft[t].step = "confirm" => review = PostOf(c, t)

(* The customer has that review, or lost it, or does not wait for it.       *)
Reached == fate \in {"seen", "lost"} \/ "hasty" \in script.beside

(* The plan is over, and with it, but for a refusal, its charge.            *)
Ended == member = FALSE /\ charge # "running"

(* What a handler is about to do and to save: an approval is counted first, *)
(* the plan ended first, the draft shown or posted as shown.                *)
Works == {"answer", "drop", "unplan", "archive", "look", "update", "insert", "count"}
USE DEF Works
Posting(x) == x.work \in {"archive", "look", "update", "insert"}
Duty(x) ==
    \/ x = Idle
    \/ /\ x.work \in Works
       /\ {"work", "to", "shows"} \subseteq DOMAIN x
       /\ Good(x.to, IF x.work = "count" THEN counted + 1 ELSE counted)
       /\ x.shows = TRUE \/ (x.shows = FALSE /\ Shown(x.to))
       /\ x.to.stage = "opted_out" => x.work \in {"drop", "unplan"} \/ Ended
       /\ Posting(x) => {"post", "else"} \subseteq DOMAIN x /\ x.post = review
                        /\ x.post \in Posts /\ x.shows = FALSE /\ Reached
       /\ x.work \in {"archive", "look"} =>
             /\ Good(x.else, counted) /\ Shown(x.else) /\ x.else.stage # "opted_out"
       /\ x.work = "insert" => active[<<x.post.type, x.post.item>>] = <<>>
       /\ x.work = "unplan" => charge # "running"

Dropping(x) ==
    \/ x = Idle
    \/ /\ {"work", "to"} \subseteq DOMAIN x
       /\ x.work \in {"drop", "unplan"} /\ RecordKnown(x.to)

(* What a step may not undo while handlers wait.                            *)
Lasting == /\ charge # "running" => charge' # "running"
           /\ Ended => Ended'
           /\ Reached => Reached'

RowsTyped == /\ active \in [Kinds -> Seq(Prices)] /\ paused \in [Kinds -> Prices \cup {None}]
             /\ archive \subseteq Items \cup {None} /\ counted \in Nat
FlagsTyped == /\ member \in BOOLEAN /\ charge \in {"running", "stopped", "refused"}
              /\ offered \in BOOLEAN /\ script \in Scripts
              /\ review \in Posts \cup {None} /\ fate \in {"none", "sending", "seen", "lost"}
              /\ fate = "none" => review = None
Alone == \A h, g \in Handlers : task[h] # Idle /\ task[g] # Idle => h = g

IInv == /\ RowsTyped /\ FlagsTyped /\ Alone /\ DOMAIN task = Handlers \cup {Admin}
        /\ Good(conv, counted) /\ Shown(conv)
        /\ \A h \in Handlers : Duty(task[h])
        /\ Dropping(task[Admin])

-----------------------------------------------------------------------------
(* Drafts.                                                                  *)

LEMMA OrderKnown ==
    ASSUME NEW t \in Types
    PROVE  /\ DOMAIN Order[t] = 1..6
           /\ \A i \in 1..6 : Order[t][i] \in Steps
           /\ Order[t][2] = "price"
           /\ \A i \in 1..6 : Order[t][i] # "confirm"
<1>1. Steps = ToSet(Order["sell"]) \cup ToSet(Order["buy"]) \cup {"confirm"}
      BY DEF Steps, Types
<1>2. CASE t = "sell"
  <2>1. Order[t] = <<"details", "price", "dial", "location", "photo", "notes">>
        BY <1>2 DEF Order
  <2>2. DOMAIN Order[t] = 1..6 /\ \A i \in 1..6 : Order[t][i] \in ToSet(Order[t])
        BY <2>1 DEF ToSet
  <2> QED  BY <1>1, <1>2, <2>1, <2>2
<1>3. CASE t = "buy"
  <2>1. Order[t] = <<"details", "price", "model", "dial", "location", "notes">>
        BY <1>3 DEF Order
  <2>2. DOMAIN Order[t] = 1..6 /\ \A i \in 1..6 : Order[t][i] \in ToSet(Order[t])
        BY <2>1 DEF ToSet
  <2> QED  BY <1>1, <1>3, <2>1, <2>2
<1> QED  BY <1>2, <1>3 DEF Types

(* The first of a nonempty set of places in the order is one of them.       *)
LEMMA FirstGap ==
    ASSUME NEW S, S \subseteq 1..6, S # {}
    PROVE  Min(S) \in S
<1>0. \A y \in S : y \in {1, 2, 3, 4, 5, 6}  OBVIOUS
<1>1. \E x \in S : \A y \in S : x <= y
  <2>1. CASE 1 \in S  BY <2>1, <1>0
  <2>2. CASE 1 \notin S /\ 2 \in S  BY <2>2, <1>0
  <2>3. CASE S \subseteq {3, 4, 5, 6}
    <3>1. CASE 3 \in S  BY <3>1, <2>3
    <3>2. CASE 3 \notin S /\ 4 \in S  BY <3>2, <2>3
    <3>3. CASE S \subseteq {5, 6} /\ 5 \in S  BY <3>3
    <3>4. CASE S = {6}  BY <3>4
    <3> QED  BY <2>3, <3>1, <3>2, <3>3, <3>4
  <2> QED  BY <1>0, <2>1, <2>2, <2>3
<1> QED  BY <1>1 DEF Min

(* What a draft asks next is a step; it is reviewed only with a price.      *)
LEMMA AskedStep ==
    ASSUME NEW t \in Types, NEW d
    PROVE  /\ Asks(t, d) \in Steps
           /\ Asks(t, d) = "confirm" => d.price # None
<1> DEFINE gaps == {i \in DOMAIN Order[t] : Gap(t, d, Order[t][i])}
<1>1. Asks(t, d) = IF gaps = {} THEN "confirm" ELSE Order[t][Min(gaps)]
      BY DEF Asks
<1>2. gaps \subseteq 1..6  BY OrderKnown
<1>3. 2 \notin gaps => d.price # None  BY OrderKnown DEF Gap
<1>4. "confirm" \in Steps  BY DEF Steps
<1> HIDE DEF gaps
<1>5. CASE gaps = {}  BY <1>1, <1>3, <1>4, <1>5
<1>6. CASE gaps # {}
  <2>1. Min(gaps) \in 1..6  BY <1>2, <1>6, FirstGap
  <2> QED  BY <1>1, <1>6, <2>1, OrderKnown
<1> QED  BY <1>5, <1>6

(* A draft that has just been asked for the next step.                      *)
LEMMA OrIsBoolean ==
    ASSUME NEW a, NEW b
    PROVE  (a \/ b) \in BOOLEAN
OBVIOUS

LEMMA Advanced ==
    ASSUME NEW t \in Types, NEW d,
           d = [field \in {"item", "price", "has", "asked", "step"} |-> d[field]],
           d.item \in Items \cup {None}, d.price \in Prices \cup {None}, d.has \subseteq Slots
    PROVE  DraftKnown(Advance(t, d))
<1> DEFINE s == Asks(t, d)
           q == t = "buy" /\ s \in {"price", "model", "dial", "location"}
           e == Advance(t, d)
<1>1. s \in Steps /\ (s = "confirm" => d.price # None)  BY AskedStep
<1>2. e = [d EXCEPT !.step = s, !.asked = @ \/ q]  BY DEF Advance
<1> HIDE DEF s, q, e
<1>3. e = [[d EXCEPT !.step = s] EXCEPT !.asked = d.asked \/ q]  BY <1>2
<1>4. (d.asked \/ q) \in BOOLEAN  BY OrIsBoolean
<1>5. /\ e = [field \in {"item", "price", "has", "asked", "step"} |-> e[field]]
      /\ e.item = d.item /\ e.price = d.price /\ e.has = d.has /\ e.step = s
      /\ e.asked = (d.asked \/ q)
  <2>1. ASSUME NEW b, e = [[d EXCEPT !.step = s] EXCEPT !.asked = b]
        PROVE  /\ e = [field \in {"item", "price", "has", "asked", "step"} |-> e[field]]
               /\ e.item = d.item /\ e.price = d.price /\ e.has = d.has /\ e.step = s
               /\ e.asked = b
        BY <2>1
  <2> QED  BY <1>3, <2>1, Zenon
<1>6. e.asked \in BOOLEAN  BY <1>4, <1>5, Zenon
<1>7. DraftKnown(e)
  <2>1. e.item \in Items \cup {None} /\ e.price \in Prices \cup {None}  BY <1>5
  <2>2. e.has \subseteq Slots /\ e.step \in Steps /\ (e.step = "confirm" => e.price # None)
        BY <1>1, <1>5
  <2>3. e = [field \in {"item", "price", "has", "asked", "step"} |-> e[field]]  BY <1>5
  <2> QED  BY <1>6, <2>1, <2>2, <2>3, Zenon DEF DraftKnown
<1> QED  BY <1>7 DEF e

(* An answer leaves a draft of the right kind, whatever it fills.           *)
LEMMA Filled ==
    ASSUME NEW t \in Types, NEW d, DraftKnown(d), NEW m \in Messages
    PROVE  DraftKnown(Advance(t, Fill(t, d, m)))
<1> DEFINE e == Fill(t, d, m)
           taken == Takes(t, d, m)
           has == d.has \cup (taken \cap Slots)
                        \cup (IF t = "sell" /\ m.says = "image" THEN {"photo"} ELSE {})
           price == IF "price" \in taken THEN m.price ELSE d.price
           item == IF "item" \in taken THEN m.item ELSE d.item
<1>1. e = [d EXCEPT !.has = has, !.price = price, !.item = item]  BY DEF Fill
<1>2. d = [field \in {"item", "price", "has", "asked", "step"} |-> d[field]]
      BY Zenon DEF DraftKnown
<1>3. /\ d.item \in Items \cup {None} /\ d.price \in Prices \cup {None}
      /\ d.has \subseteq Slots
      BY Zenon DEF DraftKnown
<1>4. m.item \in Items \cup {None} /\ m.price \in Prices \cup {None}  BY DEF Messages
<1>5. item \in Items \cup {None} /\ price \in Prices \cup {None}  BY <1>3, <1>4
<1>6. has \subseteq Slots  BY <1>3 DEF Slots
<1> HIDE DEF e, has, price, item
<1>7. e = [field \in {"item", "price", "has", "asked", "step"} |-> e[field]]
      BY <1>1, <1>2
<1>8. e.item = item /\ e.price = price /\ e.has = has  BY <1>1, <1>2
<1>9. DraftKnown(Advance(t, e))  BY <1>5, <1>6, <1>7, <1>8, Advanced
<1> QED  BY <1>9 DEF e
-----------------------------------------------------------------------------
(* The record.                                                              *)

(* Nothing but these fields says what is drafted, held and approved.        *)
LEMMA SameDrafts ==
    ASSUME NEW c, NEW d, RecordKnown(d), d.draft = c.draft, d.held = c.held,
           d.matches = c.matches
    PROVE  /\ \A n : Good(c, n) => Good(d, n)
           /\ Shown(c) => Shown(d)
<1>1. Single(c) => Single(d)  BY DEF Single
<1>2. Waits(c) => Waits(d)  BY DEF Waits, Open
<1>3. Approved(d) = Approved(c)  BY DEF Approved
<1>4. Shown(c) => Shown(d)  BY DEF Shown, PostOf
<1> QED  BY <1>1, <1>2, <1>3, <1>4 DEF Good

LEMMA PromptsSet ==
    ASSUME NEW c, RecordKnown(c), NEW p, p \subseteq Prompts,
           NEW d, d = [c EXCEPT !.prompts = p]
    PROVE  /\ RecordKnown(d) /\ d.stage = c.stage /\ d.prompts = p /\ d.held = c.held
           /\ d.unclear = c.unclear /\ d.followUp = c.followUp /\ d.matches = c.matches
           /\ d.draft = c.draft /\ d.confused = c.confused
BY DEF RecordKnown

LEMMA StageSet ==
    ASSUME NEW c, RecordKnown(c), NEW s \in {"new", "active", "opted_out"},
           NEW d, d = [c EXCEPT !.stage = s]
    PROVE  /\ RecordKnown(d) /\ d.stage = s /\ d.prompts = c.prompts /\ d.held = c.held
           /\ d.unclear = c.unclear /\ d.followUp = c.followUp /\ d.matches = c.matches
           /\ d.draft = c.draft /\ d.confused = c.confused
BY DEF RecordKnown

LEMMA ItemSet ==
    ASSUME NEW c, RecordKnown(c), NEW i \in Items \cup {None},
           NEW d, d = [c EXCEPT !.unclear = i] \/ d = [c EXCEPT !.followUp = i]
    PROVE  /\ RecordKnown(d) /\ d.stage = c.stage /\ d.prompts = c.prompts /\ d.held = c.held
           /\ d.matches = c.matches /\ d.draft = c.draft /\ d.confused = c.confused
BY DEF RecordKnown

LEMMA HeldSet ==
    ASSUME NEW c, RecordKnown(c), NEW m \in Messages \cup {None},
           NEW d, d = [c EXCEPT !.held = m]
    PROVE  /\ RecordKnown(d) /\ d.stage = c.stage /\ d.prompts = c.prompts /\ d.held = m
           /\ d.unclear = c.unclear /\ d.followUp = c.followUp /\ d.matches = c.matches
           /\ d.draft = c.draft /\ d.confused = c.confused
BY DEF RecordKnown

LEMMA MatchesSet ==
    ASSUME NEW c, RecordKnown(c), NEW s \in Seq(Decisions),
           NEW d, d = [c EXCEPT !.matches = s]
    PROVE  /\ RecordKnown(d) /\ d.stage = c.stage /\ d.prompts = c.prompts /\ d.held = c.held
           /\ d.unclear = c.unclear /\ d.followUp = c.followUp /\ d.matches = s
           /\ d.draft = c.draft /\ d.confused = c.confused
BY DEF RecordKnown

LEMMA ConfusedSet ==
    ASSUME NEW c, RecordKnown(c), NEW n \in 0..2,
           NEW d, d = [c EXCEPT !.confused = n]
    PROVE  /\ RecordKnown(d) /\ d.stage = c.stage /\ d.prompts = c.prompts /\ d.held = c.held
           /\ d.unclear = c.unclear /\ d.followUp = c.followUp /\ d.matches = c.matches
           /\ d.draft = c.draft /\ d.confused = n
BY DEF RecordKnown

LEMMA DraftsSet ==
    ASSUME NEW c, RecordKnown(c), NEW f, f = [t \in Types |-> f[t]],
           \A t \in Types : f[t] = None \/ DraftKnown(f[t]),
           NEW d, d = [c EXCEPT !.draft = f]
    PROVE  /\ RecordKnown(d) /\ d.stage = c.stage /\ d.prompts = c.prompts /\ d.held = c.held
           /\ d.unclear = c.unclear /\ d.followUp = c.followUp /\ d.matches = c.matches
           /\ d.draft = f /\ d.confused = c.confused
BY DEF RecordKnown

-----------------------------------------------------------------------------
(* What the answers make of the record.                                     *)

LEMMA NoneOpen ==
    ASSUME NEW c, RecordKnown(c), ~Open(c)
    PROVE  c.draft = NoDraft
<1>1. c.draft = [t \in Types |-> c.draft[t]]  BY DEF RecordKnown
<1>2. \A t \in Types : c.draft[t] = None  BY DEF Open
<1> QED  BY <1>1, <1>2 DEF NoDraft

LEMMA NothingDrafted ==
    ASSUME NEW c, c.draft = NoDraft
    PROVE  ~Open(c) /\ Single(c) /\ Shown(c) /\ (c.held = None => Waits(c))
BY DEF NoDraft, Open, Single, Shown, Waits, Types

(* A search replaces the matches, and with them what was approved.          *)
LEMMA SearchedGood ==
    ASSUME NEW n \in Nat, NEW c, Good(c, n), NEW d \in Searched(c)
    PROVE  Good(d, n) /\ d.stage = c.stage /\ d.draft = c.draft /\ d.held = c.held
<1>1. CASE d = c  BY <1>1
<1>2. CASE \E k \in Results \ {0} : d = [c EXCEPT !.matches = [i \in 1..k |-> "pending"]]
  <2>1. PICK k \in Results \ {0} : d = [c EXCEPT !.matches = [i \in 1..k |-> "pending"]]
        BY <1>2
  <2>2. k \in Nat  BY ConversationAssumption
  <2> DEFINE s == [i \in 1..k |-> "pending"]
  <2>3. s \in Seq(Decisions)  BY <2>2 DEF Decisions
  <2>4. DOMAIN s = 1..k /\ \A i \in 1..k : s[i] = "pending"  OBVIOUS
  <2>5. d = [c EXCEPT !.matches = s]  BY <2>1
  <2> HIDE DEF s
  <2>6. /\ RecordKnown(d) /\ d.stage = c.stage /\ d.held = c.held /\ d.draft = c.draft
        /\ d.matches = s
        BY <2>3, <2>5, MatchesSet DEF Good
  <2>7. Approved(d) = {}  BY <2>4, <2>6 DEF Approved
  <2>8. Cardinality(Approved(d)) <= n  BY <2>7, FS_EmptySet
  <2>9. Single(d) /\ Waits(d)  BY <2>6 DEF Good, Single, Waits, Open
  <2> QED  BY <2>6, <2>8, <2>9 DEF Good
<1> QED  BY <1>1, <1>2 DEF Searched

(* Where nothing is drafted a new draft is the only one.                    *)
LEMMA Started ==
    ASSUME NEW n \in Nat, NEW c, Good(c, n), ~Open(c), c.held = None, NEW t,
           NEW m \in Messages, NEW d, d = StartDraft(c, t, m)
    PROVE  Good(d, n) /\ d.stage = c.stage
<1> DEFINE blank == [item |-> m.item, price |-> m.price, has |-> m.fills,
                     asked |-> FALSE, step |-> "details"]
           first == Advance(t, blank)
           f == [c.draft EXCEPT ![t] = first]
           e == [c EXCEPT !.draft = f]
<1>0. RecordKnown(c) /\ c.draft = NoDraft  BY NoneOpen DEF Good
<1>1. t \in Types => DraftKnown(first)
  <2>1. /\ blank = [field \in {"item", "price", "has", "asked", "step"} |-> blank[field]]
        /\ blank.item = m.item /\ blank.price = m.price /\ blank.has = m.fills
        OBVIOUS
  <2>2. /\ m.item \in Items \cup {None} /\ m.price \in Prices \cup {None}
        /\ m.fills \subseteq Slots
        BY DEF Messages
  <2> HIDE DEF blank
  <2> QED  BY <2>1, <2>2, Advanced
<1>2. d = [e EXCEPT !.confused = 0]  BY DEF StartDraft
<1> HIDE DEF first
<1>3. f = [s \in Types |-> f[s]]  BY <1>0 DEF NoDraft
<1>4. \A s \in Types : f[s] = None \/ (s = t /\ DraftKnown(f[s]))
      BY <1>0, <1>1 DEF NoDraft
<1> HIDE DEF f
<1>5. RecordKnown(e) /\ e.stage = c.stage /\ e.held = c.held /\ e.matches = c.matches
      /\ e.draft = f
      BY <1>0, <1>3, <1>4, DraftsSet
<1> HIDE DEF e
<1>6. RecordKnown(d) /\ d.stage = c.stage /\ d.held = None /\ d.matches = c.matches
      /\ d.draft = f
  <2>1. 0 \in 0..2  OBVIOUS
  <2> QED  BY <1>2, <1>5, <2>1, ConfusedSet
<1>7. Single(d)  BY <1>4, <1>6 DEF Single, Types
<1>8. Waits(d)  BY <1>6 DEF Waits
<1>9. Approved(d) = Approved(c)  BY <1>6 DEF Approved
<1> QED  BY <1>6, <1>7, <1>8, <1>9 DEF Good

LEMMA NamedGood ==
    ASSUME NEW n \in Nat, NEW c, Good(c, n), ~Open(c), c.held = None, NEW t,
           NEW m \in Messages, NEW d \in ItemNamed(c, t, m)
    PROVE  Good(d, n) /\ d.stage = c.stage
<1>1. CASE d = StartDraft(c, t, m)  BY <1>1, Started
<1>2. CASE d \in Searched(c)  BY <1>2, SearchedGood
<1>3. CASE d = [c EXCEPT !.followUp = m.item]
  <2>1. m.item \in Items \cup {None}  BY DEF Messages
  <2>2. RecordKnown(c)  BY DEF Good
  <2>3. RecordKnown(d) /\ d.draft = c.draft /\ d.held = c.held /\ d.matches = c.matches
        /\ d.stage = c.stage
        BY <1>3, <2>1, <2>2, ItemSet
  <2> QED  BY <2>3, SameDrafts
<1> QED  BY <1>1, <1>2, <1>3 DEF ItemNamed

(* Whatever becomes of a message that nothing else has claimed.             *)
LEMMA SettledGood ==
    ASSUME NEW n \in Nat, NEW c, Good(c, n), ~Open(c), c.held = None,
           c.stage # "opted_out", NEW m \in Messages, NEW d \in Settle(c, m)
    PROVE  Good(d, n) /\ d.stage # "opted_out"
<1> DEFINE about == IF c.unclear # None /\ m.says = "words" THEN c.unclear ELSE m.item
           clear == [c EXCEPT !.unclear = None, !.prompts = @ \ {"name"}]
           plain == [clear EXCEPT !.stage = "active"]
           requests == Parsed(m) \cup Clarified(c, m)
           settled == UNION {ItemNamed(plain, r[1], [m EXCEPT !.item = r[2]]) : r \in requests}
           greeted == [plain EXCEPT !.prompts = @ \cup {"name"}]
           asked == [plain EXCEPT !.unclear = about]
<1>1. \/ d \in settled \/ d = clear \/ d = plain \/ d = greeted
      \/ d = StartDraft(plain, m.type, m) \/ d = asked
      BY DEF Settle
<1>2. RecordKnown(c)  BY DEF Good
<1>3. about \in Items \cup {None}  BY <1>2 DEF RecordKnown, Messages
<1>4. \A r \in requests : r[2] \in Items \cup {None}
      BY <1>2 DEF Parsed, Clarified, RecordKnown, Messages
<1>5. RecordKnown(clear) /\ clear.stage = c.stage /\ clear.draft = c.draft
      /\ clear.held = c.held /\ clear.matches = c.matches
  <2> DEFINE e == [c EXCEPT !.unclear = None]
  <2>1. RecordKnown(e) /\ e.stage = c.stage /\ e.draft = c.draft /\ e.held = c.held
        /\ e.matches = c.matches /\ e.prompts = c.prompts
        BY <1>2, ItemSet
  <2>2. clear = [e EXCEPT !.prompts = c.prompts \ {"name"}]  OBVIOUS
  <2>3. c.prompts \ {"name"} \subseteq Prompts  BY <1>2 DEF RecordKnown
  <2> HIDE DEF e, clear
  <2> QED  BY <2>1, <2>2, <2>3, PromptsSet
<1> HIDE DEF clear
<1>6. RecordKnown(plain) /\ plain.stage = "active" /\ plain.draft = c.draft
      /\ plain.held = c.held /\ plain.matches = c.matches
      BY <1>5, StageSet
<1> HIDE DEF plain, about
<1>7. Good(plain, n) /\ ~Open(plain) /\ plain.held = None
  <2>1. Good(plain, n)  BY <1>6, SameDrafts
  <2> QED  BY <1>6, <2>1 DEF Open
<1>8. CASE d = clear  BY <1>5, <1>8, SameDrafts
<1>9. CASE d = plain  BY <1>6, <1>7, <1>9
<1>10. CASE d = greeted
  <2>1. plain.prompts \cup {"name"} \subseteq Prompts  BY <1>6 DEF RecordKnown, Prompts
  <2>2. RecordKnown(d) /\ d.stage = "active" /\ d.draft = plain.draft
        /\ d.held = plain.held /\ d.matches = plain.matches
        BY <1>6, <1>10, <2>1, PromptsSet
  <2> QED  BY <1>7, <2>2, SameDrafts
<1>11. CASE d = asked
  <2>1. RecordKnown(d) /\ d.stage = "active" /\ d.draft = plain.draft
        /\ d.held = plain.held /\ d.matches = plain.matches
        BY <1>3, <1>6, <1>11, ItemSet
  <2> QED  BY <1>7, <2>1, SameDrafts
<1>12. CASE d = StartDraft(plain, m.type, m)  BY <1>6, <1>7, <1>12, Started
<1>13. CASE d \in settled
  <2>1. PICK r \in requests : d \in ItemNamed(plain, r[1], [m EXCEPT !.item = r[2]])
        BY <1>13
  <2>2. [m EXCEPT !.item = r[2]] \in Messages  BY <1>4 DEF Messages
  <2> HIDE DEF requests
  <2> QED  BY <1>6, <1>7, <2>1, <2>2, NamedGood
<1> QED  BY <1>1, <1>8, <1>9, <1>10, <1>11, <1>12, <1>13

(* An answer to the one draft that is open.                                 *)
LEMMA RepliedGood ==
    ASSUME NEW n \in Nat, NEW c, Good(c, n), c.held = None, NEW t \in Types,
           c.draft[t] # None, NEW m \in Messages, NEW d, d = Reply(c, t, m)
    PROVE  Good(d, n) /\ d.stage = c.stage
<1> DEFINE next == Advance(t, Fill(t, c.draft[t], m))
           f == [c.draft EXCEPT ![t] = next]
           e == [c EXCEPT !.draft = f]
           dropped == [c EXCEPT !.draft = NoDraft]
<1>1. \/ d = c
      \/ d = [e EXCEPT !.confused = 0]
      \/ d = [dropped EXCEPT !.confused = 0]
      \/ c.confused # 2 /\ d = [c EXCEPT !.confused = c.confused + 1]
      BY DEF Reply
<1>2. RecordKnown(c) /\ DraftKnown(c.draft[t]) /\ Single(c)  BY DEF Good, RecordKnown
<1>3. DraftKnown(next)  BY <1>2, Filled
<1> HIDE DEF next
<1>4. \A g : Approved(g) = {i \in DOMAIN g.matches : g.matches[i] = "approved"}
      BY DEF Approved
<1>5. CASE d = c  BY <1>5
<1>6. CASE d = [e EXCEPT !.confused = 0]
  <2>1. f = [s \in Types |-> f[s]] /\ f[t] = next
        /\ \A s \in Types : s # t => f[s] = c.draft[s]
        BY <1>2 DEF RecordKnown
  <2> HIDE DEF f
  <2>2. \A s \in Types : f[s] = None \/ DraftKnown(f[s])
        BY <1>2, <1>3, <2>1 DEF RecordKnown
  <2>3. RecordKnown(e) /\ e.stage = c.stage /\ e.held = c.held /\ e.matches = c.matches
        /\ e.draft = f
        BY <1>2, <2>1, <2>2, DraftsSet
  <2> HIDE DEF e
  <2>4. 0 \in 0..2  OBVIOUS
  <2>5. RecordKnown(d) /\ d.stage = c.stage /\ d.held = c.held /\ d.matches = c.matches
        /\ d.draft = f
        BY <1>6, <2>3, <2>4, ConfusedSet
  <2>6. Single(d)  BY <1>2, <2>1, <2>5 DEF Single, Types
  <2>7. Waits(d)  BY <2>5 DEF Waits
  <2> QED  BY <1>4, <2>5, <2>6, <2>7 DEF Good
<1>7. CASE d = [dropped EXCEPT !.confused = 0]
  <2>1. NoDraft = [s \in Types |-> NoDraft[s]]
        /\ \A s \in Types : NoDraft[s] = None \/ DraftKnown(NoDraft[s])
        BY DEF NoDraft
  <2>2. RecordKnown(dropped) /\ dropped.stage = c.stage /\ dropped.held = c.held
        /\ dropped.matches = c.matches /\ dropped.draft = NoDraft
        BY <1>2, <2>1, DraftsSet
  <2> HIDE DEF dropped
  <2>3. 0 \in 0..2  OBVIOUS
  <2>4. RecordKnown(d) /\ d.stage = c.stage /\ d.held = c.held /\ d.matches = c.matches
        /\ d.draft = NoDraft
        BY <1>7, <2>2, <2>3, ConfusedSet
  <2>5. Single(d) /\ Waits(d)  BY <2>4, NothingDrafted
  <2> QED  BY <1>4, <2>4, <2>5 DEF Good
<1>8. CASE c.confused # 2 /\ d = [c EXCEPT !.confused = c.confused + 1]
  <2>1. c.confused + 1 \in 0..2  BY <1>2, <1>8 DEF RecordKnown
  <2>2. RecordKnown(d) /\ d.stage = c.stage /\ d.held = c.held /\ d.matches = c.matches
        /\ d.draft = c.draft
        BY <1>2, <1>8, <2>1, ConfusedSet
  <2> QED  BY <2>2, SameDrafts
<1> QED  BY <1>1, <1>5, <1>6, <1>7, <1>8

(* An approval takes one more allowance, a pass none.                       *)
LEMMA DecidedGood ==
    ASSUME NEW n \in Nat, NEW c, Good(c, n), NEW i, NEW v \in {"approved", "passed"},
           NEW d, d = Decided(c, i, v)
    PROVE  /\ Good(d, IF v = "approved" THEN n + 1 ELSE n)
           /\ d.stage = c.stage /\ d.draft = c.draft /\ d.held = c.held
<1> DEFINE s == [c.matches EXCEPT ![i] = v]
           e == [c EXCEPT !.matches = s]
           p == IF v = "approved" THEN c.prompts \cup {"escrow"} ELSE c.prompts
<1>1. d = [e EXCEPT !.prompts = p]  BY DEF Decided
<1>2. RecordKnown(c)  BY DEF Good
<1>3. s \in Seq(Decisions) /\ DOMAIN s = DOMAIN c.matches
      /\ \A j \in DOMAIN s : j # i => s[j] = c.matches[j]
  <2>1. c.matches \in Seq(Decisions)  BY <1>2 DEF RecordKnown
  <2>2. v \in Decisions  BY DEF Decisions
  <2>3. ASSUME NEW q \in Seq(Decisions)
        PROVE  LET r == [q EXCEPT ![i] = v]
               IN  r \in Seq(Decisions) /\ DOMAIN r = DOMAIN q
                   /\ \A j \in DOMAIN r : j # i => r[j] = q[j]
    <3>0. q \in [1..Len(q) -> Decisions] /\ Len(q) \in Nat  OBVIOUS
    <3>1. [q EXCEPT ![i] = v] \in [1..Len(q) -> Decisions]  BY <2>2, <3>0, Zenon
    <3> QED  BY <3>1
  <2> QED  BY <2>1, <2>3
<1>4. v = "passed" => \A j \in DOMAIN s : s[j] = "approved" => c.matches[j] = "approved"
  <2>1. \A j \in DOMAIN s : j = i => s[j] = v  OBVIOUS
  <2> QED  BY <1>3, <2>1
<1>5. p \subseteq Prompts  BY <1>2 DEF RecordKnown, Prompts
<1> HIDE DEF s, p
<1>6. RecordKnown(e) /\ e.stage = c.stage /\ e.held = c.held /\ e.draft = c.draft
      /\ e.matches = s
      BY <1>2, <1>3, MatchesSet
<1> HIDE DEF e
<1>7. RecordKnown(d) /\ d.stage = c.stage /\ d.held = c.held /\ d.draft = c.draft
      /\ d.matches = s
  <2>1. d.draft = e.draft  BY <1>1, <1>5, <1>6, PromptsSet
  <2> QED  BY <1>1, <1>5, <1>6, <2>1, PromptsSet
<1>8. Single(d) /\ Waits(d)  BY <1>7 DEF Good, Single, Waits, Open
<1>9. Cardinality(Approved(d)) <= IF v = "approved" THEN n + 1 ELSE n
  <2>1. IsFiniteSet(Approved(c))
    <3>1. DOMAIN c.matches = 1..Len(c.matches) /\ Len(c.matches) \in Nat
          BY <1>2 DEF RecordKnown
    <3>2. Approved(c) \subseteq 1..Len(c.matches)  BY <3>1 DEF Approved
    <3>3. IsFiniteSet(1..Len(c.matches))
      <4>1. 1 \in Int /\ Len(c.matches) \in Int  BY <3>1
      <4> QED  BY <4>1, FS_Interval
    <3> QED  BY <3>2, <3>3, FS_Subset
  <2>2. Cardinality(Approved(c)) \in Nat /\ Cardinality(Approved(c)) <= n
        BY <2>1, FS_CardinalityType DEF Good
  <2>3. CASE v = "passed"
    <3>1. Approved(d) \subseteq Approved(c)  BY <1>3, <1>4, <1>7, <2>3 DEF Approved
    <3>2. Cardinality(Approved(d)) <= Cardinality(Approved(c)) /\ IsFiniteSet(Approved(d))
          BY <2>1, <3>1, FS_Subset
    <3>3. Cardinality(Approved(d)) \in Nat  BY <3>2, FS_CardinalityType
    <3> QED  BY <2>2, <2>3, <3>2, <3>3
  <2>4. CASE v = "approved"
    <3>1. Approved(d) \subseteq Approved(c) \cup {i}  BY <1>3, <1>7 DEF Approved
    <3>2. IsFiniteSet(Approved(c) \cup {i})
          /\ Cardinality(Approved(c) \cup {i}) <= Cardinality(Approved(c)) + 1
      <4>1. Cardinality(Approved(c) \cup {i})
            = IF i \in Approved(c) THEN Cardinality(Approved(c))
              ELSE Cardinality(Approved(c)) + 1
            BY <2>1, FS_AddElement
      <4>2. IsFiniteSet(Approved(c) \cup {i})  BY <2>1, FS_AddElement
      <4> QED  BY <2>2, <4>1, <4>2
    <3>3. /\ Cardinality(Approved(d)) <= Cardinality(Approved(c) \cup {i})
          /\ IsFiniteSet(Approved(d))
          BY <3>1, <3>2, FS_Subset
    <3>4. Cardinality(Approved(d)) \in Nat /\ Cardinality(Approved(c) \cup {i}) \in Nat
          BY <3>2, <3>3, FS_CardinalityType
    <3> QED  BY <2>2, <2>4, <3>2, <3>3, <3>4
  <2> QED  BY <2>3, <2>4
<1> QED  BY <1>7, <1>8, <1>9 DEF Good

-----------------------------------------------------------------------------
(* Steps: what a handler is about to do stays right while nothing it        *)
(* depends on changes.                                                      *)

LEMMA DutyKept ==
    ASSUME NEW x, Duty(x), active' = active, counted' = counted,
           review' = review, Lasting
    PROVE  Duty(x)'
<1>1. x = Idle => Duty(x)'  BY DEF Duty
<1>2. ASSUME x # Idle  PROVE Duty(x)'
  <2>1. ASSUME NEW c  PROVE Shown(c) => Shown(c)'  BY DEF Shown, PostOf
  <2>2. (x.shows = FALSE /\ Shown(x.to)) => (x.shows = FALSE /\ Shown(x.to))'
        BY <2>1, Zenon
  <2>3. Shown(x.else) => Shown(x.else)'  BY <2>1
  <2>4. (Ended => Ended') /\ (Reached => Reached')
        /\ (charge # "running" => charge' # "running")
        BY DEF Lasting
  <2> QED  BY <1>2, <2>2, <2>3, <2>4 DEF Duty
<1> QED  BY <1>1, <1>2

LEMMA Lasts ==
    ASSUME UNCHANGED <<member, charge, script, fate>>
    PROVE  Lasting
BY DEF Lasting, Ended, Reached

(* With the other handlers idle one handler's step keeps the invariant as   *)
(* far as it leaves the record and its own duty right.                      *)
LEMMA Stepped ==
    ASSUME IInv, NEW h \in Handlers, NEW x, \A g \in Handlers : g # h => task[g] = Idle,
           task' = [task EXCEPT ![h] = x], Duty(x)', RowsTyped', FlagsTyped',
           Good(conv, counted)', Shown(conv)'
    PROVE  IInv'
<1>1. /\ DOMAIN task = Handlers \cup {Admin} /\ Dropping(task[Admin]) /\ h # Admin
      BY ConversationAssumption DEF IInv
<1>2. /\ DOMAIN task' = Handlers \cup {Admin} /\ task'[Admin] = task[Admin]
      /\ task'[h] = x /\ \A g \in Handlers : g # h => task'[g] = Idle
      BY <1>1
<1>3. \A g \in Handlers : Duty(task[g])'
  <2> SUFFICES ASSUME NEW g \in Handlers  PROVE Duty(task[g])'
      OBVIOUS
  <2>1. CASE g = h  BY <1>2, <2>1 DEF Duty
  <2>2. CASE g # h  BY <1>2, <2>2 DEF Duty
  <2> QED  BY <2>1, <2>2
<1>4. Alone'  BY <1>2 DEF Alone
<1>5. Dropping(task[Admin])'  BY <1>1, <1>2 DEF Dropping
<1> QED  BY <1>2, <1>3, <1>4, <1>5 DEF IInv

(* A record that is right is saved.                                         *)
LEMMA SavedBeside ==
    ASSUME IInv, Good(conv', counted), Shown(conv'),
           offered' \in BOOLEAN, UNCHANGED <<task, rows, member, charge, script, review, fate>>
    PROVE  IInv'
<1>1. active' = active /\ paused' = paused /\ archive' = archive /\ counted' = counted
      BY DEF rows
<1>2. RowsTyped' /\ FlagsTyped'  BY <1>1, Zenon DEF IInv, RowsTyped, FlagsTyped
<1>3. Good(conv, counted)' /\ Shown(conv)'  BY <1>1 DEF Good, Shown, PostOf
<1>4. \A h \in Handlers : Duty(task[h])'
  <2> SUFFICES ASSUME NEW h \in Handlers  PROVE Duty(task[h])'
      OBVIOUS
  <2>1. PICK x : x = task[h]  OBVIOUS
  <2>2. Duty(x)  BY <2>1 DEF IInv
  <2>3. Duty(x)'  BY <1>1, <2>2, Lasts, DutyKept
  <2>4. x = task'[h]  BY <2>1
  <2> QED  BY <2>3, <2>4 DEF Duty
<1>5. Alone' /\ Dropping(task[Admin])' /\ DOMAIN task' = Handlers \cup {Admin}
      BY DEF IInv, Alone, Dropping
<1> QED  BY <1>2, <1>3, <1>4, <1>5 DEF IInv

LEMMA Saved ==
    ASSUME IInv, Good(conv', counted), Shown(conv'),
           UNCHANGED <<task, rows, member, charge, offered, script, review, fate>>
    PROVE  IInv'
<1>1. offered' \in BOOLEAN  BY Zenon DEF IInv, FlagsTyped
<1>2. UNCHANGED <<task, rows, member, charge, script, review, fate>>  OBVIOUS
<1> QED  BY <1>1, <1>2, SavedBeside, Zenon

LEMMA AwaitFields ==
    ASSUME NEW w, NEW c, NEW b, NEW x, x = [work |-> w, to |-> c, shows |-> b]
    PROVE  /\ x.work = w /\ x.to = c /\ x.shows = b /\ x # Idle
           /\ {"work", "to", "shows"} \subseteq DOMAIN x
BY DEF Idle

(* A handler that awaits with an answer in hand.                            *)
LEMMA AnswerDuty ==
    ASSUME NEW w \in {"answer", "drop", "count"}, NEW c, NEW b, NEW x,
           x = [work |-> w, to |-> c, shows |-> b],
           Good(c, IF w = "count" THEN counted + 1 ELSE counted),
           b = TRUE \/ (b = FALSE /\ Shown(c)),
           c.stage = "opted_out" => w = "drop" \/ Ended
    PROVE  Duty(x)
<1>1. /\ x.work = w /\ x.to = c /\ x.shows = b
      /\ {"work", "to", "shows"} \subseteq DOMAIN x
      BY AwaitFields
<1>2. x.shows = TRUE \/ (x.shows = FALSE /\ Shown(x.to))
  <2>1. CASE b = TRUE  BY <1>1, <2>1, Zenon
  <2>2. CASE b = FALSE /\ Shown(c)  BY <1>1, <2>2, Zenon
  <2> QED  BY <2>1, <2>2, Zenon
<1>3. ~Posting(x) /\ x.work \notin {"archive", "look"} /\ x.work # "insert"
      /\ x.work # "unplan"
      BY <1>1 DEF Posting
<1>4. Good(x.to, IF x.work = "count" THEN counted + 1 ELSE counted)
      /\ (x.to.stage = "opted_out" => x.work \in {"drop", "unplan"} \/ Ended)
      /\ x.work \in Works
      BY <1>1
<1> QED  BY <1>1, <1>2, <1>3, <1>4, Zenon DEF Duty

LEMMA Awaited ==
    ASSUME IInv, Free, NEW w \in {"answer", "drop", "count"}, NEW c, NEW b, Await(w, c, b),
           Good(c, IF w = "count" THEN counted + 1 ELSE counted),
           b = TRUE \/ (b = FALSE /\ Shown(c)),
           c.stage = "opted_out" => w = "drop" \/ Ended,
           UNCHANGED <<member, charge, offered, script>>
    PROVE  IInv'
<1>1. PICK x : x = [work |-> w, to |-> c, shows |-> b]  OBVIOUS
<1>2. PICK h \in Handlers : task[h] = Idle /\ task' = [task EXCEPT ![h] = x]
      BY <1>1 DEF Await, Suspend
<1>3. conv' = conv /\ active' = active /\ paused' = paused /\ archive' = archive
      /\ counted' = counted /\ review' = review /\ fate' = fate
      BY DEF Await, Suspend, rows
<1>4. Duty(x)  BY <1>1, AnswerDuty, Zenon
<1>5. Duty(x)'  BY <1>3, <1>4, Lasts, DutyKept
<1>6. RowsTyped' /\ FlagsTyped'  BY <1>3 DEF IInv, RowsTyped, FlagsTyped
<1>7. Good(conv, counted)' /\ Shown(conv)'  BY <1>3 DEF IInv, Good, Shown, PostOf
<1>8. \A g \in Handlers : g # h => task[g] = Idle  BY DEF Free
<1> QED  BY <1>2, <1>5, <1>6, <1>7, <1>8, Stepped

LEMMA SavedAndAwaited ==
    ASSUME IInv, Free, NEW c, NEW d, SaveAndAwait(c, d), Good(c, counted), Shown(c),
           Good(d, counted), d.stage # "opted_out", UNCHANGED <<member, charge, offered, script>>
    PROVE  IInv'
<1>1. PICK x : x = [work |-> "answer", to |-> d, shows |-> TRUE]  OBVIOUS
<1>2. PICK h \in Handlers : task[h] = Idle /\ task' = [task EXCEPT ![h] = x]
      BY <1>1 DEF SaveAndAwait
<1>3. conv' = c /\ active' = active /\ paused' = paused /\ archive' = archive
      /\ counted' = counted /\ review' = review /\ fate' = fate
      BY DEF SaveAndAwait, rows
<1>4. Duty(x)
  <2>1. "answer" \in {"answer", "drop", "count"} /\ TRUE = TRUE
        /\ Good(d, IF "answer" = "count" THEN counted + 1 ELSE counted)
        OBVIOUS
  <2> QED  BY <1>1, <2>1, AnswerDuty, Zenon
<1>5. Duty(x)'  BY <1>3, <1>4, Lasts, DutyKept
<1>6. RowsTyped' /\ FlagsTyped'  BY <1>3 DEF IInv, RowsTyped, FlagsTyped
<1>7. Good(conv, counted)' /\ Shown(conv)'  BY <1>3 DEF Good, Shown, PostOf
<1>8. \A g \in Handlers : g # h => task[g] = Idle  BY DEF Free
<1> QED  BY <1>2, <1>5, <1>6, <1>7, <1>8, Stepped

(* Drafts are given up, or one is posted: what is left has no draft.        *)
LEMMA DraftEnded ==
    ASSUME NEW n \in Nat, NEW c, Good(c, n), NEW d, d = [c EXCEPT !.draft = NoDraft]
    PROVE  /\ RecordKnown(d) /\ d.stage = c.stage /\ d.prompts = c.prompts /\ d.held = c.held
           /\ d.unclear = c.unclear /\ d.followUp = c.followUp /\ d.matches = c.matches
           /\ d.draft = NoDraft /\ d.confused = c.confused
           /\ c.held = None => Good(d, n)
<1>1. RecordKnown(c)  BY DEF Good
<1>2. NoDraft = [s \in Types |-> NoDraft[s]]
      /\ \A s \in Types : NoDraft[s] = None \/ DraftKnown(NoDraft[s])
      BY DEF NoDraft
<1>3. /\ RecordKnown(d) /\ d.stage = c.stage /\ d.prompts = c.prompts /\ d.held = c.held
      /\ d.unclear = c.unclear /\ d.followUp = c.followUp /\ d.matches = c.matches
      /\ d.draft = NoDraft /\ d.confused = c.confused
      BY <1>1, <1>2, DraftsSet
<1>4. Single(d) /\ (c.held = None => Waits(d))  BY <1>3, NothingDrafted
<1>5. Approved(d) = Approved(c)  BY <1>3 DEF Approved
<1> QED  BY <1>3, <1>4, <1>5 DEF Good

LEMMA OnlyDraft ==
    ASSUME NEW c, RecordKnown(c), Single(c), NEW t \in Types, c.draft[t] # None
    PROVE  [c.draft EXCEPT ![t] = None] = NoDraft
<1>1. c.draft = [s \in Types |-> c.draft[s]]  BY DEF RecordKnown
<1>2. \A s \in Types : s # t => c.draft[s] = None  BY DEF Single, Types
<1> QED  BY <1>1, <1>2 DEF NoDraft

(* The confirmation of the draft the customer was shown.                    *)
LEMMA AwaitedPost ==
    ASSUME IInv, Free, NEW c, NEW t \in Types, AwaitPost(c, t), Good(c, counted), Shown(c),
           c.held = None, c.draft[t] # None, c.draft[t].step = "confirm",
           c.stage # "opted_out", fate = "sending" => "hasty" \in script.beside,
           UNCHANGED <<member, charge, offered, script>>
    PROVE  IInv'
<1> DEFINE w == IF t = "sell" THEN "archive" ELSE "look"
           p == [type |-> t, item |-> c.draft[t].item, price |-> c.draft[t].price]
<1>1. PICK d : d = [c EXCEPT !.draft[t] = None, !.confused = 0]  OBVIOUS
<1>2. PICK x : x = [work |-> w, to |-> d, else |-> c, shows |-> FALSE, post |-> p]  OBVIOUS
<1>3. PICK h \in Handlers : task[h] = Idle /\ task' = [task EXCEPT ![h] = x]
      BY <1>1, <1>2 DEF AwaitPost, Suspend
<1>4. conv' = conv /\ active' = active /\ paused' = paused /\ archive' = archive
      /\ counted' = counted /\ review' = review /\ fate' = fate
      BY DEF AwaitPost, Suspend, rows
<1>5. Good(d, counted) /\ Shown(d) /\ d.stage = c.stage
  <2>1. counted \in Nat  BY DEF IInv, RowsTyped
  <2>2. PICK e : e = [c EXCEPT !.draft = NoDraft]  OBVIOUS
  <2>3. d = [e EXCEPT !.confused = 0]
    <3>1. [c.draft EXCEPT ![t] = None] = NoDraft  BY OnlyDraft DEF Good
    <3>2. d = [c EXCEPT !.draft = [c.draft EXCEPT ![t] = None], !.confused = 0]  BY <1>1
    <3> QED  BY <2>2, <3>1, <3>2
  <2>4. Good(e, counted) /\ e.stage = c.stage /\ e.draft = NoDraft
        BY <2>1, <2>2, DraftEnded
  <2>5. RecordKnown(d) /\ d.stage = c.stage /\ d.held = e.held /\ d.matches = e.matches
        /\ d.draft = e.draft
    <3>1. RecordKnown(e) /\ 0 \in 0..2  BY <2>4 DEF Good
    <3> QED  BY <2>3, <2>4, <3>1, ConfusedSet
  <2>6. Good(d, counted)  BY <2>4, <2>5, SameDrafts
  <2>7. Shown(d)  BY <2>4, <2>5, NothingDrafted
  <2> QED  BY <2>5, <2>6, <2>7
<1>6. p = review /\ p \in Posts /\ Reached
  <2>1. p = review  BY DEF Shown, PostOf
  <2>2. RecordKnown(c)  BY DEF Good
  <2>3. DraftKnown(c.draft[t])  BY <2>2 DEF RecordKnown
  <2>4. c.draft[t].item \in Items \cup {None} /\ c.draft[t].price \in Prices
        BY <2>3, Zenon DEF DraftKnown
  <2>5. p \in Posts  BY <2>4 DEF Posts
  <2>6. fate # "none"  BY <2>1, <2>5, ConversationAssumption DEF IInv, FlagsTyped
  <2>7. Reached  BY <2>6 DEF IInv, FlagsTyped, Reached
  <2> QED  BY <2>1, <2>5, <2>7
<1> HIDE DEF p
<1>7. x.work = w /\ x.to = d /\ x.else = c /\ x.post = p
      /\ {"work", "to", "else", "shows", "post"} \subseteq DOMAIN x
  <2>1. ASSUME NEW b, x = [work |-> w, to |-> d, else |-> c, shows |-> b, post |-> p]
        PROVE  x.work = w /\ x.to = d /\ x.else = c /\ x.post = p
               /\ {"work", "to", "else", "shows", "post"} \subseteq DOMAIN x
        BY <2>1
  <2> QED  BY <1>2, <2>1, Zenon
<1>8. x.shows = FALSE
  <2>1. ASSUME NEW b, x = [work |-> w, to |-> d, else |-> c, shows |-> b, post |-> p]
        PROVE  x.shows = b
        BY <2>1
  <2> QED  BY <1>2, <2>1, Zenon
<1>9. w \in {"archive", "look"}  OBVIOUS
<1> HIDE DEF w
<1>10. Duty(x)
  <2>1. x.work \in Works
        /\ x.work # "count" /\ x.work # "insert" /\ x.work # "unplan"
        BY <1>7, <1>9
  <2>2. Good(x.to, IF x.work = "count" THEN counted + 1 ELSE counted)
        BY <1>5, <1>7, <2>1
  <2>3. x.shows = TRUE \/ (x.shows = FALSE /\ Shown(x.to))  BY <1>5, <1>7, <1>8, Zenon
  <2>4. x.to.stage # "opted_out"  BY <1>5, <1>7
  <2>5. /\ {"post", "else"} \subseteq DOMAIN x /\ x.post = review /\ x.post \in Posts
        /\ {"work", "to", "shows"} \subseteq DOMAIN x
        BY <1>6, <1>7
  <2>6. Good(x.else, counted) /\ Shown(x.else) /\ x.else.stage # "opted_out"  BY <1>7
  <2> QED  BY <1>6, <1>8, <2>1, <2>2, <2>3, <2>4, <2>5, <2>6, Zenon DEF Duty
<1>11. Duty(x)'  BY <1>4, <1>10, Lasts, DutyKept
<1>12. RowsTyped' /\ FlagsTyped'  BY <1>4 DEF IInv, RowsTyped, FlagsTyped
<1>13. Good(conv, counted)' /\ Shown(conv)'  BY <1>4 DEF IInv, Good, Shown, PostOf
<1>14. \A g \in Handlers : g # h => task[g] = Idle  BY DEF Free
<1> QED  BY <1>3, <1>11, <1>12, <1>13, <1>14, Stepped

-----------------------------------------------------------------------------
(* The steps of what waits: each goes on from its own duty.                 *)

LEMMA OthersIdle ==
    ASSUME IInv, NEW h \in Handlers, task[h] # Idle
    PROVE  /\ Duty(task[h]) /\ h \in DOMAIN task
           /\ \A g \in Handlers : g # h => task[g] = Idle
BY DEF IInv, Alone

LEMMA WorkSet ==
    ASSUME NEW x, NEW w, NEW y, y = [x EXCEPT !.work = w], "work" \in DOMAIN x
    PROVE  /\ DOMAIN y = DOMAIN x /\ y.work = w
           /\ \A f \in DOMAIN x \ {"work"} : y[f] = x[f]
OBVIOUS

LEMMA DutyFacts ==
    ASSUME NEW x, Duty(x), x # Idle
    PROVE  /\ x.work \in Works
           /\ {"work", "to", "shows"} \subseteq DOMAIN x
           /\ Good(x.to, IF x.work = "count" THEN counted + 1 ELSE counted)
           /\ x.shows = TRUE \/ (x.shows = FALSE /\ Shown(x.to))
           /\ x.to.stage = "opted_out" => x.work \in {"drop", "unplan"} \/ Ended
           /\ Posting(x) => {"post", "else"} \subseteq DOMAIN x /\ x.post = review
                            /\ x.post \in Posts /\ x.shows = FALSE /\ Reached
           /\ x.work \in {"archive", "look"} =>
                 /\ Good(x.else, counted) /\ Shown(x.else) /\ x.else.stage # "opted_out"
           /\ x.work = "insert" => active[<<x.post.type, x.post.item>>] = <<>>
           /\ x.work = "unplan" => charge # "running"
BY Zenon DEF Duty

(* The admin tool's step: only a plan may be ended.                         *)
LEMMA AdminStepped ==
    ASSUME IInv, NEW x, Dropping(x), task' = [task EXCEPT ![Admin] = x],
           member' = member \/ member' = FALSE,
           charge' = charge \/ charge' \in {"stopped", "refused"},
           conv' = conv \/ conv' = [conv EXCEPT !.stage = "opted_out"],
           UNCHANGED <<rows, offered, script, review, fate>>
    PROVE  IInv'
<1>1. active' = active /\ paused' = paused /\ archive' = archive /\ counted' = counted
      /\ review' = review /\ fate' = fate
      BY DEF rows
<1>0. Lasting  BY Zenon DEF Lasting, Ended, Reached
<1>2. DOMAIN task = Handlers \cup {Admin} /\ Admin \notin Handlers
      BY ConversationAssumption DEF IInv
<1>3. /\ DOMAIN task' = Handlers \cup {Admin} /\ task'[Admin] = x
      /\ \A h \in Handlers : task'[h] = task[h]
      BY <1>2
<1>4. \A h \in Handlers : Duty(task[h])'
  <2> SUFFICES ASSUME NEW h \in Handlers  PROVE Duty(task[h])'
      OBVIOUS
  <2>1. PICK y : y = task[h]  OBVIOUS
  <2>2. Duty(y)  BY <2>1 DEF IInv
  <2>3. Duty(y)'  BY <1>0, <1>1, <2>2, DutyKept, Zenon
  <2>4. y = task'[h]  BY <1>3, <2>1
  <2> QED  BY <2>3, <2>4 DEF Duty
<1>5. Alone' /\ Dropping(task[Admin])'  BY <1>3 DEF IInv, Alone, Dropping
<1>6. RowsTyped'  BY <1>1 DEF IInv, RowsTyped
<1>7. FlagsTyped'
  <2>1. member' \in BOOLEAN  BY Zenon DEF IInv, FlagsTyped
  <2>2. charge' \in {"running", "stopped", "refused"}  BY DEF IInv, FlagsTyped
  <2> QED  BY <2>1, <2>2, Zenon DEF IInv, FlagsTyped
<1>8. Good(conv', counted) /\ Shown(conv')
  <2>1. Good(conv, counted) /\ Shown(conv)  BY DEF IInv
  <2>2. CASE conv' = conv  BY <2>1, <2>2 DEF Good, Shown, PostOf
  <2>3. CASE conv' = [conv EXCEPT !.stage = "opted_out"]
    <3>1. RecordKnown(conv)  BY <2>1 DEF Good
    <3>2. PICK d : d = [conv EXCEPT !.stage = "opted_out"]  OBVIOUS
    <3>3. RecordKnown(d) /\ d.draft = conv.draft /\ d.held = conv.held
          /\ d.matches = conv.matches
          BY <3>1, <3>2, StageSet
    <3>4. Good(d, counted) /\ Shown(d)  BY <2>1, <3>3, SameDrafts
    <3> QED  BY <2>3, <3>2, <3>4
  <2> QED  BY <2>2, <2>3
<1>9. Good(conv, counted)' /\ Shown(conv)'  BY <1>1, <1>8 DEF Good, Shown, PostOf
<1> QED  BY <1>3, <1>4, <1>5, <1>6, <1>7, <1>9 DEF IInv

LEMMA SaveStateStep ==
    ASSUME IInv, NEW h \in Handlers \cup {Admin}, SaveState(h)
    PROVE  IInv'
<1>1. h \in Handlers
  <2>1. task[Admin] = Idle \/ task[Admin].work \in {"drop", "unplan"}
        BY DEF IInv, Dropping
  <2>2. h # Admin  BY <2>1 DEF SaveState
  <2> QED  BY <2>2
<1>2. PICK x : x = task[h]  OBVIOUS
<1>3. x # Idle /\ x.work = "answer" /\ conv' = x.to /\ task' = [task EXCEPT ![h] = Idle]
      BY <1>2 DEF SaveState
<1>4. Duty(x) /\ \A g \in Handlers : g # h => task[g] = Idle
      BY <1>1, <1>2, <1>3, OthersIdle
<1>5. Good(x.to, counted) /\ (x.shows = TRUE \/ (x.shows = FALSE /\ Shown(x.to)))
  <2>1. /\ Good(x.to, IF x.work = "count" THEN counted + 1 ELSE counted)
        /\ x.shows = TRUE \/ (x.shows = FALSE /\ Shown(x.to))
        BY <1>3, <1>4, DutyFacts, Zenon
  <2>2. Good(x.to, counted)  BY <1>3, <2>1
  <2> QED  BY <2>1, <2>2
<1>6. active' = active /\ paused' = paused /\ archive' = archive /\ counted' = counted
      /\ member' = member /\ charge' = charge /\ offered' = offered /\ script' = script
      BY DEF SaveState, rows
<1> DEFINE ready == {t \in Types : x.to.draft[t] # None /\ x.to.draft[t].step = "confirm"}
           t0 == CHOOSE t \in ready : TRUE
<1>7. IF x.shows /\ ready # {} THEN review' = PostOf(x.to, t0) /\ fate' = "sending"
      ELSE review' = review /\ fate' = fate
  <2>1. LET now == {t \in Types : conv'.draft[t] # None /\ conv'.draft[t].step = "confirm"}
        IN  IF task[h].shows /\ now # {}
            THEN LET t == CHOOSE t \in now : TRUE
                 IN  /\ review' = [type |-> t, item |-> conv'.draft[t].item,
                                  price |-> conv'.draft[t].price]
                     /\ fate' = "sending"
            ELSE UNCHANGED <<review, fate>>
        BY Zenon DEF SaveState
  <2> QED  BY <1>2, <1>3, <2>1 DEF PostOf
<1>8. CASE ready = {} \/ x.shows = FALSE
  <2>1. review' = review /\ fate' = fate
    <3>1. CASE ready = {}  BY <1>7, <3>1
    <3>2. CASE x.shows = FALSE  BY <1>7, <3>2
    <3> QED  BY <1>8, <3>1, <3>2
  <2>2. Shown(x.to)
    <3>1. CASE ready = {}  BY <3>1 DEF Shown
    <3>2. CASE x.shows = FALSE  BY <1>5, <3>2, Zenon
    <3> QED  BY <1>8, <3>1, <3>2
  <2>3. FlagsTyped' /\ RowsTyped'  BY <1>6, <2>1 DEF IInv, FlagsTyped, RowsTyped
  <2>4. Good(conv, counted)' /\ Shown(conv)'
        BY <1>3, <1>5, <1>6, <2>1, <2>2 DEF Good, Shown, PostOf
  <2>5. Duty(Idle)'  BY DEF Duty
  <2>6. PICK y : y = Idle  OBVIOUS
  <2>7. Duty(y)'  BY <2>5, <2>6
  <2> QED  BY <1>1, <1>3, <1>4, <2>3, <2>4, <2>6, <2>7, Stepped
<1>9. CASE ready # {} /\ x.shows = TRUE
  <2>1. review' = PostOf(x.to, t0) /\ fate' = "sending"  BY <1>7, <1>9
  <2>2. t0 \in ready  BY <1>9
  <2>3. RecordKnown(x.to) /\ Single(x.to)  BY <1>5 DEF Good
  <2>4. \A t \in ready : t = t0  BY <2>2, <2>3 DEF Single, Types
  <2>5. review' \in Posts
    <3>1. t0 \in Types /\ x.to.draft[t0] # None /\ x.to.draft[t0].step = "confirm"
          BY <2>2
    <3> HIDE DEF t0, ready
    <3>2. DraftKnown(x.to.draft[t0])  BY <2>3, <3>1 DEF RecordKnown
    <3>3. x.to.draft[t0].item \in Items \cup {None} /\ x.to.draft[t0].price \in Prices
          BY <3>1, <3>2, Zenon DEF DraftKnown
    <3> QED  BY <2>1, <3>1, <3>3 DEF Posts, PostOf
  <2>6. FlagsTyped' /\ RowsTyped'  BY <1>6, <2>1, <2>5 DEF IInv, FlagsTyped, RowsTyped
  <2>7. Good(conv, counted)'  BY <1>3, <1>5, <1>6
  <2>8. Shown(conv)'
    <3>1. \A t \in Types : x.to.draft[t] # None /\ x.to.draft[t].step = "confirm" =>
              review' = PostOf(x.to, t)
          BY <2>1, <2>4
    <3> QED  BY <1>3, <3>1 DEF Shown, PostOf
  <2>9. PICK y : y = Idle  OBVIOUS
  <2>10. Duty(y)'  BY <2>9 DEF Duty
  <2> QED  BY <1>1, <1>3, <1>4, <2>6, <2>7, <2>8, <2>9, <2>10, Stepped
<1>10. (ready = {} \/ x.shows = FALSE) \/ (ready # {} /\ x.shows = TRUE)
  <2>1. x.shows = TRUE \/ x.shows = FALSE  BY <1>5, Zenon
  <2> HIDE DEF ready
  <2> QED  BY <2>1, Zenon
<1> QED  BY <1>8, <1>9, <1>10

(* What was waited for is done: the answer in hand is saved next.           *)
LEMMA AnswersNext ==
    ASSUME NEW x, Duty(x), x # Idle, NEW y, y = [x EXCEPT !.work = "answer"],
           Good(x.to, counted'), x.to.stage = "opted_out" => Ended',
           review' = review
    PROVE  Duty(y)'
<1>1. {"work", "to", "shows"} \subseteq DOMAIN x  BY DutyFacts
<1>2. y.work = "answer" /\ y.to = x.to /\ y.shows = x.shows /\ DOMAIN y = DOMAIN x
      BY <1>1, WorkSet
<1>3. x.shows = TRUE \/ (x.shows = FALSE /\ Shown(x.to))  BY DutyFacts, Zenon
<1>4. Shown(x.to) => Shown(y.to)'  BY <1>2 DEF Shown, PostOf
<1>5. (y.shows = TRUE \/ (y.shows = FALSE /\ Shown(y.to)))'
      BY <1>2, <1>3, <1>4, Zenon
<1>6. ~Posting(y) /\ y.work \notin {"archive", "look"} /\ y.work # "insert"
      /\ y.work # "count" /\ y.work # "unplan"
      /\ y.work \in Works
      BY <1>2 DEF Posting
<1>7. Good(y.to, IF y.work = "count" THEN counted' + 1 ELSE counted')
      BY <1>2, <1>6
<1>8. y.to.stage = "opted_out" => Ended'  BY <1>2
<1>9. {"work", "to", "shows"} \subseteq DOMAIN y  BY <1>1, <1>2
<1>10. ~Posting(y)'  BY <1>6 DEF Posting
<1> QED  BY <1>5, <1>6, <1>7, <1>8, <1>9, <1>10, Zenon DEF Duty

(* What goes on to post keeps what it posts and what it falls back on.      *)
LEMMA PostsNext ==
    ASSUME NEW x, Duty(x), x.work \in {"archive", "look"}, x # Idle,
           NEW w \in {"look", "update", "insert"}, NEW y, y = [x EXCEPT !.work = w],
           w = "insert" => active[<<x.post.type, x.post.item>>] = <<>>
    PROVE  Duty(y)
<1>1. /\ {"work", "to", "shows"} \subseteq DOMAIN x
      /\ Good(x.to, IF x.work = "count" THEN counted + 1 ELSE counted)
      /\ x.shows = TRUE \/ (x.shows = FALSE /\ Shown(x.to))
      /\ x.to.stage = "opted_out" => x.work \in {"drop", "unplan"} \/ Ended
      /\ Posting(x) => {"post", "else"} \subseteq DOMAIN x /\ x.post = review
                       /\ x.post \in Posts /\ x.shows = FALSE /\ Reached
      /\ x.work \in {"archive", "look"} =>
            /\ Good(x.else, counted) /\ Shown(x.else) /\ x.else.stage # "opted_out"
      BY DutyFacts, Zenon
<1>2. Posting(x) /\ x.work # "count" /\ x.work \notin {"drop", "unplan"}  BY DEF Posting
<1>3. {"work", "to", "shows", "post", "else"} \subseteq DOMAIN x  BY <1>1, <1>2, Zenon
<1>4. y.work = w /\ y.to = x.to /\ y.shows = x.shows /\ y.post = x.post /\ y.else = x.else
      /\ DOMAIN y = DOMAIN x
      BY <1>3, WorkSet
<1>5. x.post = review /\ x.post \in Posts /\ x.shows = FALSE /\ Reached
      BY <1>1, <1>2, Zenon
<1>6. Good(y.to, IF y.work = "count" THEN counted + 1 ELSE counted)
      BY <1>1, <1>2, <1>4
<1>7. y.to.stage = "opted_out" => Ended  BY <1>1, <1>2, <1>4
<1>8. y.shows = TRUE \/ (y.shows = FALSE /\ Shown(y.to))  BY <1>1, <1>4, Zenon
<1>9. y.post = review /\ y.post \in Posts  BY <1>4, <1>5
<1>10. y.shows = FALSE  BY <1>4, <1>5, Zenon
<1>11. Good(y.else, counted) /\ Shown(y.else) /\ y.else.stage # "opted_out"
       BY <1>1, <1>4
<1>12. /\ y.work = "insert" => active[<<y.post.type, y.post.item>>] = <<>>
       /\ y.work # "unplan"
       BY <1>4
<1>13. {"work", "to", "shows"} \subseteq DOMAIN y /\ {"post", "else"} \subseteq DOMAIN y
       /\ y.work \in Works
       BY <1>3, <1>4
<1> QED  BY <1>5, <1>6, <1>7, <1>8, <1>9, <1>10, <1>11, <1>12, <1>13, Zenon DEF Duty

LEMMA DropPlanStep ==
    ASSUME IInv, NEW h \in Handlers \cup {Admin}, DropPlan(h)
    PROVE  IInv'
<1>1. PICK x : x = task[h]  OBVIOUS
<1>2. /\ x # Idle /\ x.work = "unplan" /\ member' = FALSE /\ charge' = charge
      /\ conv' = conv /\ offered' = offered /\ script' = script
      /\ review' = review /\ fate' = fate
      BY <1>1, Zenon DEF DropPlan
<1>3. active' = active /\ paused' = paused /\ archive' = archive /\ counted' = counted
      /\ rows' = rows
      BY DEF DropPlan, rows
<1>4. task' = [task EXCEPT ![h] = IF h = Admin THEN Idle ELSE [@ EXCEPT !.work = "answer"]]
      BY DEF DropPlan
<1>5. DOMAIN task = Handlers \cup {Admin} /\ Admin \notin Handlers
      BY ConversationAssumption DEF IInv
<1>6. CASE h = Admin
  <2>1. PICK y : y = Idle  OBVIOUS
  <2>2. Dropping(y)  BY <2>1 DEF Dropping
  <2>3. task' = [task EXCEPT ![Admin] = y]  BY <1>4, <1>6, <2>1
  <2>4. UNCHANGED <<rows, offered, script, review, fate>>  BY <1>2, <1>3
  <2>5. /\ member' = member \/ member' = FALSE
        /\ charge' = charge \/ charge' \in {"stopped", "refused"}
        BY <1>2, Zenon
  <2> QED  BY <1>2, <2>2, <2>3, <2>4, <2>5, AdminStepped, Zenon
<1>7. CASE h \in Handlers
  <2>1. PICK y : y = [x EXCEPT !.work = "answer"]  OBVIOUS
  <2>2. task' = [task EXCEPT ![h] = y]  BY <1>1, <1>4, <1>5, <1>7, <2>1
  <2>3. Duty(x) /\ \A g \in Handlers : g # h => task[g] = Idle
        BY <1>1, <1>2, <1>7, OthersIdle
  <2>4. Good(x.to, counted')
    <3>1. Good(x.to, IF x.work = "count" THEN counted + 1 ELSE counted)
          BY <1>2, <2>3, DutyFacts, Zenon
    <3> QED  BY <1>2, <1>3, <3>1
  <2>0. Ended'
    <3>1. charge # "running"  BY <1>2, <2>3, DutyFacts, Zenon
    <3> QED  BY <1>2, <3>1, Zenon DEF Ended
  <2>5. Duty(y)'  BY <1>2, <2>1, <2>3, <2>4, <2>0, AnswersNext, Zenon
  <2>6. RowsTyped'  BY <1>3 DEF IInv, RowsTyped
  <2>7. FlagsTyped'
    <3>1. member' \in BOOLEAN  BY <1>2, Zenon
    <3> QED  BY <1>2, <3>1, Zenon DEF IInv, FlagsTyped
  <2>8. Good(conv, counted)' /\ Shown(conv)'
        BY <1>2, <1>3 DEF IInv, Good, Shown, PostOf
  <2> QED  BY <1>7, <2>2, <2>3, <2>5, <2>6, <2>7, <2>8, Stepped
<1> QED  BY <1>6, <1>7

(* Told to stop charging, the handler goes on to end the plan.              *)
LEMMA StopChargeStep ==
    ASSUME IInv, NEW h \in Handlers \cup {Admin}, StopCharge(h)
    PROVE  IInv'
<1>1. PICK x : x = task[h]  OBVIOUS
<1>2. x # Idle /\ x.work = "drop" /\ charge' \in {"stopped", "refused"}
      BY <1>1 DEF StopCharge
<1>3. /\ member' = member /\ offered' = offered /\ script' = script
      /\ review' = review /\ fate' = fate /\ rows' = rows /\ conv' = conv
      BY DEF StopCharge
<1>4. active' = active /\ paused' = paused /\ archive' = archive /\ counted' = counted
      BY <1>3 DEF rows
<1>5. PICK y : y = [x EXCEPT !.work = "unplan"]  OBVIOUS
<1>6. DOMAIN task = Handlers \cup {Admin} /\ Admin \notin Handlers
      BY ConversationAssumption DEF IInv
<1>7. task' = [task EXCEPT ![h] = y]  BY <1>1, <1>5, <1>6 DEF StopCharge
<1>8. CASE h = Admin
  <2>1. Dropping(y)
    <3>1. Dropping(x)  BY <1>1, <1>8 DEF IInv
    <3>2. RecordKnown(x.to) /\ {"work", "to"} \subseteq DOMAIN x
          BY <1>2, <3>1 DEF Dropping
    <3>3. y.work = "unplan" /\ y.to = x.to /\ DOMAIN y = DOMAIN x  BY <1>5, <3>2, WorkSet
    <3> QED  BY <3>2, <3>3 DEF Dropping
  <2>2. UNCHANGED <<rows, offered, script, review, fate>>  BY <1>3
  <2>3. /\ member' = member \/ member' = FALSE
        /\ charge' = charge \/ charge' \in {"stopped", "refused"}
        /\ conv' = conv \/ conv' = [conv EXCEPT !.stage = "opted_out"]
        BY <1>2, <1>3, Zenon
  <2>4. task' = [task EXCEPT ![Admin] = y]  BY <1>7, <1>8
  <2> QED  BY <2>1, <2>2, <2>3, <2>4, AdminStepped, Zenon
<1>9. CASE h \in Handlers
  <2>1. Duty(x) /\ \A g \in Handlers : g # h => task[g] = Idle
        BY <1>1, <1>2, <1>9, OthersIdle
  <2>2. /\ {"work", "to", "shows"} \subseteq DOMAIN x
        /\ Good(x.to, IF x.work = "count" THEN counted + 1 ELSE counted)
        /\ x.shows = TRUE \/ (x.shows = FALSE /\ Shown(x.to))
        BY <1>2, <2>1, DutyFacts, Zenon
  <2>3. y.work = "unplan" /\ y.to = x.to /\ y.shows = x.shows /\ DOMAIN y = DOMAIN x
        BY <1>5, <2>2, WorkSet
  <2>4. Shown(x.to) => Shown(y.to)'  BY <1>3, <2>3 DEF Shown, PostOf
  <2>5. (y.shows = TRUE \/ (y.shows = FALSE /\ Shown(y.to)))'
        BY <2>2, <2>3, <2>4, Zenon
  <2>6. /\ y.work \notin {"archive", "look", "update", "insert", "count"} /\ y.work \in Works
        /\ Good(y.to, IF y.work = "count" THEN counted' + 1 ELSE counted')
        BY <1>2, <1>4, <2>2, <2>3
  <2>7. ~Posting(y)'  BY <2>6 DEF Posting
  <2>8. {"work", "to", "shows"} \subseteq DOMAIN y /\ charge' # "running"
        /\ y.work \in {"drop", "unplan"}
        BY <1>2, <2>2, <2>3
  <2>9. Duty(y)'  BY <2>5, <2>6, <2>7, <2>8 DEF Duty
  <2>10. RowsTyped'  BY <1>4 DEF IInv, RowsTyped
  <2>11. FlagsTyped'
    <3>1. charge' \in {"running", "stopped", "refused"}  BY <1>2
    <3> QED  BY <1>3, <3>1, Zenon DEF IInv, FlagsTyped
  <2>12. Good(conv, counted)' /\ Shown(conv)'
         BY <1>3, <1>4 DEF IInv, Good, Shown, PostOf
  <2> QED  BY <1>7, <1>9, <2>1, <2>9, <2>10, <2>11, <2>12, Stepped
<1> QED  BY <1>8, <1>9

(* A review arrives, or is lost: either way it was the last one.            *)
LEMMA ReviewStep ==
    ASSUME IInv, ReviewSent \/ ReviewLost
    PROVE  IInv'
<1>1. /\ conv' = conv /\ task' = task /\ rows' = rows /\ member' = member
      /\ charge' = charge /\ offered' = offered /\ script' = script /\ review' = review
      /\ fate' \in {"seen", "lost"}
      BY DEF ReviewSent, ReviewLost
<1>2. active' = active /\ paused' = paused /\ archive' = archive /\ counted' = counted
      BY <1>1 DEF rows
<1>3. Lasting  BY <1>1, Zenon DEF Lasting, Ended, Reached
<1>4. \A h \in Handlers : Duty(task[h])'
  <2> SUFFICES ASSUME NEW h \in Handlers  PROVE Duty(task[h])'
      OBVIOUS
  <2>1. PICK x : x = task[h]  OBVIOUS
  <2>2. Duty(x)  BY <2>1 DEF IInv
  <2>3. Duty(x)'  BY <1>1, <1>2, <1>3, <2>2, DutyKept, Zenon
  <2>4. x = task'[h]  BY <1>1, <2>1
  <2> QED  BY <2>3, <2>4 DEF Duty
<1>5. RowsTyped'  BY <1>2 DEF IInv, RowsTyped
<1>6. FlagsTyped'
  <2>1. fate' \in {"none", "sending", "seen", "lost"} /\ fate' # "none"  BY <1>1
  <2> QED  BY <1>1, <2>1, Zenon DEF IInv, FlagsTyped
<1>7. Good(conv, counted)' /\ Shown(conv)'  BY <1>1, <1>2 DEF IInv, Good, Shown, PostOf
<1>8. Alone' /\ Dropping(task[Admin])' /\ DOMAIN task' = Handlers \cup {Admin}
      BY <1>1 DEF IInv, Alone, Dropping
<1> QED  BY <1>4, <1>5, <1>6, <1>7, <1>8 DEF IInv

LEMMA NotAdmin ==
    ASSUME IInv, NEW h \in Handlers \cup {Admin}, task[h] # Idle,
           task[h].work \notin {"drop", "unplan"}
    PROVE  h \in Handlers
BY DEF IInv, Dropping

LEMMA PersistSellIntakeStep ==
    ASSUME IInv, NEW h \in Handlers \cup {Admin}, PersistSellIntake(h)
    PROVE  IInv'
<1>1. PICK x : x = task[h]  OBVIOUS
<1>2. x # Idle /\ x.work = "archive"  BY <1>1 DEF PersistSellIntake
<1>3. h \in Handlers /\ h \in DOMAIN task  BY <1>1, <1>2, NotAdmin DEF IInv
<1>4. Duty(x) /\ \A g \in Handlers : g # h => task[g] = Idle
      BY <1>1, <1>2, <1>3, OthersIdle
<1>5. PICK y : y = [x EXCEPT !.work = "look"]  OBVIOUS
<1>6. task' = [task EXCEPT ![h] = y]  BY <1>1, <1>3, <1>5 DEF PersistSellIntake
<1>7. conv' = conv /\ active' = active /\ paused' = paused /\ counted' = counted
      /\ review' = review /\ fate' = fate /\ archive' = archive \cup {x.post.item}
      BY <1>1 DEF PersistSellIntake
<1>8. member' = member /\ charge' = charge /\ offered' = offered /\ script' = script
      BY DEF PersistSellIntake
<1>9. Duty(y)
  <2>1. "look" \in {"look", "update", "insert"} /\ "look" # "insert"
        /\ x.work \in {"archive", "look"}
        BY <1>2
  <2> QED  BY <1>2, <1>4, <1>5, <2>1, PostsNext, Zenon
<1>10. Duty(y)'  BY <1>7, <1>8, <1>9, DutyKept, Lasts, Zenon
<1>11. x.post.item \in Items \cup {None}
  <2>1. Posting(x)  BY <1>2 DEF Posting
  <2>2. x.post \in Posts  BY <1>2, <1>4, <2>1, DutyFacts, Zenon
  <2> QED  BY <2>2 DEF Posts
<1>12. RowsTyped'  BY <1>7, <1>11 DEF IInv, RowsTyped
<1>13. FlagsTyped'  BY <1>7, <1>8, Zenon DEF IInv, FlagsTyped
<1>14. Good(conv, counted)' /\ Shown(conv)'  BY <1>7 DEF IInv, Good, Shown, PostOf
<1> QED  BY <1>3, <1>4, <1>6, <1>10, <1>12, <1>13, <1>14, Stepped

LEMMA LookUpStep ==
    ASSUME IInv, NEW h \in Handlers \cup {Admin}, LookUp(h)
    PROVE  IInv'
<1>1. PICK x : x = task[h]  OBVIOUS
<1>2. x # Idle /\ x.work = "look"  BY <1>1 DEF LookUp
<1>3. h \in Handlers /\ h \in DOMAIN task  BY <1>1, <1>2, NotAdmin DEF IInv
<1>4. Duty(x) /\ \A g \in Handlers : g # h => task[g] = Idle
      BY <1>1, <1>2, <1>3, OthersIdle
<1>5. conv' = conv /\ active' = active /\ paused' = paused /\ counted' = counted
      /\ review' = review /\ fate' = fate /\ archive' = archive
      BY DEF LookUp, rows
<1>6. member' = member /\ charge' = charge /\ offered' = offered /\ script' = script
      BY DEF LookUp
<1>7. \E y : /\ task' = [task EXCEPT ![h] = y]
             /\ \/ y = [x EXCEPT !.work = "update"]
                \/ active[<<x.post.type, x.post.item>>] = <<>> /\ y = [x EXCEPT !.work = "insert"]
                \/ y = [x EXCEPT !.work = "answer", !.to = x.else]
  <2> DEFINE y == IF active[<<x.post.type, x.post.item>>] # <<>>
                  THEN [x EXCEPT !.work = "update"]
                  ELSE IF ActivePostings < ItemCap THEN [x EXCEPT !.work = "insert"]
                  ELSE [x EXCEPT !.work = "answer", !.to = x.else]
  <2>1. task' = [task EXCEPT ![h] = y]  BY <1>1, <1>3 DEF LookUp
  <2>2. \/ y = [x EXCEPT !.work = "update"]
        \/ active[<<x.post.type, x.post.item>>] = <<>> /\ y = [x EXCEPT !.work = "insert"]
        \/ y = [x EXCEPT !.work = "answer", !.to = x.else]
        OBVIOUS
  <2> HIDE DEF y
  <2> QED  BY <2>1, <2>2
<1>8. PICK y : /\ task' = [task EXCEPT ![h] = y]
               /\ \/ y = [x EXCEPT !.work = "update"]
                  \/ active[<<x.post.type, x.post.item>>] = <<>> /\ y = [x EXCEPT !.work = "insert"]
                  \/ y = [x EXCEPT !.work = "answer", !.to = x.else]
      BY <1>7
<1>9. x.work \in {"archive", "look"}  BY <1>2
<1>10. Duty(y)
  <2>1. CASE y = [x EXCEPT !.work = "update"]
    <3>1. "update" \in {"look", "update", "insert"} /\ "update" # "insert"  OBVIOUS
    <3> QED  BY <1>2, <1>4, <1>9, <2>1, <3>1, PostsNext, Zenon
  <2>2. CASE active[<<x.post.type, x.post.item>>] = <<>> /\ y = [x EXCEPT !.work = "insert"]
    <3>1. "insert" \in {"look", "update", "insert"}  OBVIOUS
    <3> QED  BY <1>2, <1>4, <1>9, <2>2, <3>1, PostsNext, Zenon
  <2>3. CASE y = [x EXCEPT !.work = "answer", !.to = x.else]
    <3>1. {"work", "to", "shows"} \subseteq DOMAIN x  BY <1>2, <1>4, DutyFacts, Zenon
    <3>2. Posting(x)  BY <1>2 DEF Posting
    <3>3. x.shows = FALSE  BY <1>2, <1>4, <3>2, DutyFacts, Zenon
    <3>4. Good(x.else, counted) /\ Shown(x.else) /\ x.else.stage # "opted_out"
          BY <1>2, <1>4, <1>9, DutyFacts, Zenon
    <3>5. y.work = "answer" /\ y.to = x.else /\ y.shows = x.shows /\ DOMAIN y = DOMAIN x
          BY <2>3, <3>1
    <3>6. ~Posting(y) /\ y.work \notin {"archive", "look"} /\ y.work # "insert"
          /\ y.work # "unplan" /\ y.work \in Works
          BY <3>5 DEF Posting
    <3>7. Good(y.to, IF y.work = "count" THEN counted + 1 ELSE counted)  BY <3>4, <3>5
    <3>8. y.shows = TRUE \/ (y.shows = FALSE /\ Shown(y.to))  BY <3>3, <3>4, <3>5, Zenon
    <3>9. y.to.stage # "opted_out" /\ {"work", "to", "shows"} \subseteq DOMAIN y
          BY <3>1, <3>4, <3>5
    <3> QED  BY <3>6, <3>7, <3>8, <3>9, Zenon DEF Duty
  <2> QED  BY <1>8, <2>1, <2>2, <2>3
<1>11. Duty(y)'  BY <1>5, <1>6, <1>10, DutyKept, Lasts, Zenon
<1>12. RowsTyped'  BY <1>5 DEF IInv, RowsTyped
<1>13. FlagsTyped'  BY <1>5, <1>6, Zenon DEF IInv, FlagsTyped
<1>14. Good(conv, counted)' /\ Shown(conv)'  BY <1>5 DEF IInv, Good, Shown, PostOf
<1> QED  BY <1>3, <1>4, <1>8, <1>11, <1>12, <1>13, <1>14, Stepped

(* The prices of a kind's postings stay prices.                             *)
LEMMA Prices1 ==
    ASSUME NEW s \in Seq(Prices), NEW p \in Prices, NEW i
    PROVE  ReplaceAt(s, i, p) \in Seq(Prices) /\ Append(s, p) \in Seq(Prices)
<1>1. s \in [1..Len(s) -> Prices] /\ Len(s) \in Nat  OBVIOUS
<1>2. [s EXCEPT ![i] = p] \in [1..Len(s) -> Prices]  BY <1>1, Zenon
<1>3. [s EXCEPT ![i] = p] \in Seq(Prices)  BY <1>1, <1>2
<1> QED  BY <1>3 DEF ReplaceAt

LEMMA WritePostingStep ==
    ASSUME IInv, NEW h \in Handlers \cup {Admin}, WritePosting(h)
    PROVE  IInv'
<1>1. PICK x : x = task[h]  OBVIOUS
<1>2. x # Idle /\ x.work \in {"update", "insert"}  BY <1>1 DEF WritePosting
<1>3. h \in Handlers /\ h \in DOMAIN task  BY <1>1, <1>2, NotAdmin DEF IInv
<1>4. Duty(x) /\ \A g \in Handlers : g # h => task[g] = Idle
      BY <1>1, <1>2, <1>3, OthersIdle
<1>5. PICK y : y = [x EXCEPT !.work = "answer"]  OBVIOUS
<1>6. task' = [task EXCEPT ![h] = y]  BY <1>1, <1>3, <1>5 DEF WritePosting
<1>7. conv' = conv /\ paused' = paused /\ counted' = counted
      /\ review' = review /\ fate' = fate /\ archive' = archive
      BY DEF WritePosting
<1>8. member' = member /\ charge' = charge /\ offered' = offered /\ script' = script
      BY DEF WritePosting
<1>9. x.post \in Posts
  <2>1. Posting(x)  BY <1>2 DEF Posting
  <2> QED  BY <1>2, <1>4, <2>1, DutyFacts, Zenon
<1>10. Duty(y)'
  <2>1. /\ Good(x.to, IF x.work = "count" THEN counted + 1 ELSE counted)
        /\ x.to.stage = "opted_out" => x.work \in {"drop", "unplan"} \/ Ended
        BY <1>2, <1>4, DutyFacts, Zenon
  <2>2. x.work # "count" /\ x.work \notin {"drop", "unplan"}  BY <1>2
  <2>3. Good(x.to, counted')  BY <1>7, <2>1, <2>2
  <2>4. x.to.stage = "opted_out" => Ended'
        BY <1>8, <2>1, <2>2, Zenon DEF Ended
  <2> QED  BY <1>2, <1>4, <1>5, <1>7, <2>3, <2>4, AnswersNext, Zenon
<1>11. active' \in [Kinds -> Seq(Prices)]
  <2> DEFINE k == <<x.post.type, x.post.item>>
             old == active[k]
             new == IF x.work = "insert" THEN Append(old, x.post.price)
                    ELSE IF old = <<>> THEN old ELSE ReplaceAt(old, Len(old), x.post.price)
  <2>1. active' = [active EXCEPT ![k] = new]  BY <1>1 DEF WritePosting
  <2>2. k \in Kinds /\ x.post.price \in Prices  BY <1>9 DEF Posts, Kinds
  <2> HIDE DEF k
  <2>3. active \in [Kinds -> Seq(Prices)]  BY DEF IInv, RowsTyped
  <2>4. old \in Seq(Prices)  BY <2>2, <2>3
  <2> HIDE DEF old
  <2>5. new \in Seq(Prices)  BY <2>2, <2>4, Prices1
  <2> HIDE DEF new
  <2> QED  BY <2>1, <2>2, <2>3, <2>5
<1>12. RowsTyped'  BY <1>7, <1>11 DEF IInv, RowsTyped
<1>13. FlagsTyped'  BY <1>7, <1>8, Zenon DEF IInv, FlagsTyped
<1>14. Good(conv, counted)' /\ Shown(conv)'  BY <1>7 DEF IInv, Good, Shown, PostOf
<1> QED  BY <1>3, <1>4, <1>6, <1>10, <1>12, <1>13, <1>14, Stepped

LEMMA RecordApprovalStep ==
    ASSUME IInv, NEW h \in Handlers \cup {Admin}, RecordApproval(h)
    PROVE  IInv'
<1>1. PICK x : x = task[h]  OBVIOUS
<1>2. x # Idle /\ x.work = "count"  BY <1>1 DEF RecordApproval
<1>3. h \in Handlers /\ h \in DOMAIN task  BY <1>1, <1>2, NotAdmin DEF IInv
<1>4. Duty(x) /\ \A g \in Handlers : g # h => task[g] = Idle
      BY <1>1, <1>2, <1>3, OthersIdle
<1>5. PICK y : y = [x EXCEPT !.work = "answer"]  OBVIOUS
<1>6. task' = [task EXCEPT ![h] = y]  BY <1>1, <1>3, <1>5 DEF RecordApproval
<1>7. conv' = conv /\ active' = active /\ paused' = paused /\ counted' = counted + 1
      /\ review' = review /\ fate' = fate /\ archive' = archive
      BY DEF RecordApproval
<1>8. member' = member /\ charge' = charge /\ offered' = offered /\ script' = script
      BY DEF RecordApproval
<1>9. Duty(y)'
  <2>1. /\ Good(x.to, IF x.work = "count" THEN counted + 1 ELSE counted)
        /\ x.to.stage = "opted_out" => x.work \in {"drop", "unplan"} \/ Ended
        BY <1>2, <1>4, DutyFacts, Zenon
  <2>2. x.work \notin {"drop", "unplan"}  BY <1>2
  <2>3. Good(x.to, counted')  BY <1>2, <1>7, <2>1
  <2>4. x.to.stage = "opted_out" => Ended'
        BY <1>8, <2>1, <2>2, Zenon DEF Ended
  <2> QED  BY <1>2, <1>4, <1>5, <1>7, <2>3, <2>4, AnswersNext, Zenon
<1>10. RowsTyped'  BY <1>7 DEF IInv, RowsTyped
<1>11. FlagsTyped'  BY <1>7, <1>8, Zenon DEF IInv, FlagsTyped
<1>12. Good(conv, counted)' /\ Shown(conv)'
  <2>1. Good(conv, counted) /\ counted \in Nat  BY DEF IInv, RowsTyped
  <2>2. Cardinality(Approved(conv)) <= counted + 1
    <3>1. RecordKnown(conv) /\ Cardinality(Approved(conv)) <= counted  BY <2>1 DEF Good
    <3>2. DOMAIN conv.matches = 1..Len(conv.matches) /\ Len(conv.matches) \in Nat
          BY <3>1 DEF RecordKnown
    <3>3. IsFiniteSet(1..Len(conv.matches))
      <4>1. 1 \in Int /\ Len(conv.matches) \in Int  BY <3>2
      <4> QED  BY <4>1, FS_Interval
    <3>4. Approved(conv) \subseteq 1..Len(conv.matches)  BY <3>2 DEF Approved
    <3>5. Cardinality(Approved(conv)) \in Nat
          BY <3>3, <3>4, FS_Subset, FS_CardinalityType
    <3> QED  BY <2>1, <3>1, <3>5
  <2>3. Good(conv, counted + 1)  BY <2>1, <2>2 DEF Good
  <2>4. Good(conv', counted')  BY <1>7, <2>3
  <2> QED  BY <1>7, <2>4 DEF IInv, Shown, PostOf
<1> QED  BY <1>3, <1>4, <1>6, <1>9, <1>10, <1>11, <1>12, Stepped

LEMMA FailStep ==
    ASSUME IInv, NEW h \in Handlers \cup {Admin}, Fail(h)
    PROVE  IInv'
<1>1. conv' = conv /\ active' = active /\ paused' = paused /\ counted' = counted
      /\ review' = review /\ fate' = fate /\ archive' = archive
      BY DEF Fail, rows
<1>2. /\ member' = member /\ charge' = charge /\ offered' = offered
      /\ script' = script /\ rows' = rows
      BY DEF Fail
<1>3. PICK y : y = Idle  OBVIOUS
<1>4. task' = [task EXCEPT ![h] = y] /\ task[h] # Idle  BY <1>3 DEF Fail
<1>5. CASE h = Admin
  <2>1. Dropping(y)  BY <1>3 DEF Dropping
  <2>2. UNCHANGED <<rows, offered, script, review, fate>>  BY <1>1, <1>2
  <2>3. charge' = charge \/ charge' \in {"stopped", "refused"}  BY <1>2
  <2> QED  BY <1>1, <1>2, <1>4, <1>5, <2>1, <2>2, <2>3, AdminStepped, Zenon
<1>6. CASE h \in Handlers
  <2>1. Duty(y)'  BY <1>3 DEF Duty
  <2>2. RowsTyped'  BY <1>1 DEF IInv, RowsTyped
  <2>3. FlagsTyped'  BY <1>1, <1>2, Zenon DEF IInv, FlagsTyped
  <2>4. Good(conv, counted)' /\ Shown(conv)'  BY <1>1 DEF IInv, Good, Shown, PostOf
  <2>5. \A g \in Handlers : g # h => task[g] = Idle  BY <1>4, <1>6, OthersIdle
  <2> QED  BY <1>4, <1>6, <2>1, <2>2, <2>3, <2>4, <2>5, Stepped
<1> QED  BY <1>5, <1>6

-----------------------------------------------------------------------------
(* What is done beside the queue.                                           *)

LEMMA CardSentStep ==
    ASSUME IInv, CardSent
    PROVE  IInv'
<1>1. offered' \in BOOLEAN  BY Zenon DEF CardSent
<1>2. Good(conv', counted) /\ Shown(conv')  BY DEF CardSent, IInv, Shown, PostOf
<1>3. UNCHANGED <<task, rows, member, charge, script, review, fate>>  BY DEF CardSent
<1> QED  BY <1>1, <1>2, <1>3, SavedBeside, Zenon

LEMMA PromptsGood ==
    ASSUME NEW n, NEW c, Good(c, n), NEW p, p \subseteq Prompts,
           NEW d, d = [c EXCEPT !.prompts = p]
    PROVE  Good(d, n) /\ (Shown(c) => Shown(d)) /\ d.stage = c.stage /\ d.prompts = p
           /\ d.draft = c.draft /\ d.held = c.held /\ d.matches = c.matches
<1>1. RecordKnown(c)  BY DEF Good
<1>2. /\ RecordKnown(d) /\ d.stage = c.stage /\ d.prompts = p
      /\ d.draft = c.draft /\ d.held = c.held /\ d.matches = c.matches
      BY <1>1, PromptsSet
<1> QED  BY <1>2, SameDrafts

LEMMA StageGood ==
    ASSUME NEW n, NEW c, Good(c, n), NEW s \in {"new", "active", "opted_out"},
           NEW d, d = [c EXCEPT !.stage = s]
    PROVE  Good(d, n) /\ (Shown(c) => Shown(d)) /\ d.stage = s
<1>1. RecordKnown(c)  BY DEF Good
<1>2. RecordKnown(d) /\ d.stage = s
      /\ d.draft = c.draft /\ d.held = c.held /\ d.matches = c.matches
      BY <1>1, StageSet
<1> QED  BY <1>2, SameDrafts

LEMMA MatchDecisionStep ==
    ASSUME IInv, MatchDecision
    PROVE  IInv'
<1>1. offered' \in BOOLEAN  BY Zenon DEF MatchDecision
<1>2. Good(conv, counted) /\ Shown(conv)  BY DEF IInv
<1>3. conv' = conv \/ conv' = [conv EXCEPT !.prompts = conv.prompts \cup {"escrow"}]
  <2>1. PICK marks \in BOOLEAN :
            conv' = IF marks THEN [conv EXCEPT !.prompts = @ \cup {"escrow"}] ELSE conv
        BY Zenon DEF MatchDecision
  <2>2. marks = TRUE \/ marks = FALSE  BY Zenon
  <2> DEFINE e == [conv EXCEPT !.prompts = conv.prompts \cup {"escrow"}]
  <2>3. conv' = IF marks THEN e ELSE conv  BY <2>1
  <2> HIDE DEF e
  <2>4. conv' = conv \/ conv' = e  BY <2>3
  <2> QED  BY <2>4 DEF e
<1>4. Good(conv', counted) /\ Shown(conv')
  <2>1. CASE conv' = conv  BY <1>2, <2>1 DEF Shown, PostOf
  <2>2. CASE conv' = [conv EXCEPT !.prompts = conv.prompts \cup {"escrow"}]
    <3>1. PICK p : p = conv.prompts \cup {"escrow"}  OBVIOUS
    <3>2. p \subseteq Prompts  BY <1>2, <3>1 DEF Good, RecordKnown, Prompts
    <3>3. PICK d : d = [conv EXCEPT !.prompts = p]  OBVIOUS
    <3>4. Good(d, counted) /\ Shown(d)  BY <1>2, <3>2, <3>3, PromptsGood
    <3> QED  BY <2>2, <3>1, <3>3, <3>4
  <2> QED  BY <1>3, <2>1, <2>2
<1>5. UNCHANGED <<task, rows, member, charge, script, review, fate>>  BY DEF MatchDecision
<1> QED  BY <1>1, <1>4, <1>5, SavedBeside, Zenon

LEMMA BlockIdentityStep ==
    ASSUME IInv, BlockIdentity
    PROVE  IInv'
<1>1. PICK x : x = [work |-> "drop", to |-> conv, shows |-> FALSE]  OBVIOUS
<1>2. task' = [task EXCEPT ![Admin] = x] /\ conv' = [conv EXCEPT !.stage = "opted_out"]
      /\ member' = member /\ charge' = charge
      BY <1>1 DEF BlockIdentity
<1>3. UNCHANGED <<rows, offered, script, review, fate>>  BY DEF BlockIdentity
<1>4. x.work = "drop" /\ x.to = conv /\ {"work", "to"} \subseteq DOMAIN x
      BY <1>1, AwaitFields
<1>5. RecordKnown(conv)  BY DEF IInv, Good
<1>6. Dropping(x)  BY <1>4, <1>5 DEF Dropping
<1>7. /\ member' = member \/ member' = FALSE
      /\ charge' = charge \/ charge' \in {"stopped", "refused"}
      BY <1>2, Zenon
<1> QED  BY <1>2, <1>3, <1>6, <1>7, AdminStepped, Zenon

LEMMA UnblockIdentityStep ==
    ASSUME IInv, UnblockIdentity
    PROVE  IInv'
<1>1. PICK d : d = [conv EXCEPT !.stage = "new"]  OBVIOUS
<1>2. conv' = d  BY <1>1 DEF UnblockIdentity
<1>3. UNCHANGED <<task, rows, member, charge, offered, script, review, fate>>
      BY DEF UnblockIdentity
<1>4. Good(conv, counted) /\ Shown(conv)  BY DEF IInv
<1>5. "new" \in {"new", "active", "opted_out"}  OBVIOUS
<1>6. Good(d, counted) /\ Shown(d)  BY <1>1, <1>4, <1>5, StageGood
<1> QED  BY <1>2, <1>3, <1>6, Saved

(* A record of which nothing is left is right.                              *)
LEMMA BlankGood ==
    ASSUME NEW n \in Nat, NEW d, RecordKnown(d), d.draft = NoDraft, d.held = None,
           d.matches = <<>>
    PROVE  Good(d, n) /\ Shown(d)
<1>1. Single(d) /\ Waits(d) /\ Shown(d)  BY NothingDrafted
<1>2. Approved(d) = {}  BY DEF Approved
<1>3. Cardinality(Approved(d)) <= n  BY <1>2, FS_EmptySet
<1> QED  BY <1>1, <1>3 DEF Good

LEMMA FreshGood ==
    ASSUME NEW n \in Nat
    PROVE  Good(Fresh, n) /\ Shown(Fresh) /\ Fresh.stage = "new"
<1>1. /\ Fresh = [field \in {"stage", "prompts", "held", "unclear", "followUp", "matches",
                             "draft", "confused"} |-> Fresh[field]]
      /\ Fresh.stage = "new" /\ Fresh.prompts = {} /\ Fresh.held = None
      /\ Fresh.unclear = None /\ Fresh.followUp = None /\ Fresh.matches = <<>>
      /\ Fresh.draft = NoDraft /\ Fresh.confused = 0
      BY DEF Fresh
<1>2. NoDraft = [t \in Types |-> NoDraft[t]] /\ \A t \in Types : NoDraft[t] = None
      BY DEF NoDraft
<1>3. <<>> \in Seq(Decisions)  OBVIOUS
<1>4. RecordKnown(Fresh)
  <2>1. Fresh.stage \in {"new", "active", "opted_out"} /\ Fresh.prompts \subseteq Prompts
        /\ Fresh.held \in Messages \cup {None} /\ Fresh.unclear \in Items \cup {None}
        /\ Fresh.followUp \in Items \cup {None} /\ Fresh.confused \in 0..2
        BY <1>1
  <2>2. Fresh.matches \in Seq(Decisions) /\ Fresh.draft = [t \in Types |-> Fresh.draft[t]]
        /\ \A t \in Types : Fresh.draft[t] = None \/ DraftKnown(Fresh.draft[t])
        BY <1>1, <1>2, <1>3
  <2>3. Fresh = [field \in {"stage", "prompts", "held", "unclear", "followUp", "matches",
                            "draft", "confused"} |-> Fresh[field]]
        BY <1>1
  <2> QED  BY <2>1, <2>2, <2>3, Zenon DEF RecordKnown
<1> QED  BY <1>1, <1>4, BlankGood

LEMMA ResetUserAccountStep ==
    ASSUME IInv, ResetUserAccount
    PROVE  IInv'
<1>1. conv' = Fresh /\ active' = [k \in Kinds |-> <<>>]  BY DEF ResetUserAccount
<1>2. task' = task /\ paused' = paused /\ archive' = archive /\ counted' = counted
      /\ member' = member /\ charge' = charge /\ offered' = offered /\ script' = script
      /\ review' = review /\ fate' = fate
      BY DEF ResetUserAccount
<1>3. counted \in Nat  BY DEF IInv, RowsTyped
<1>4. Good(conv, counted)' /\ Shown(conv)'
  <2>1. Good(Fresh, counted) /\ Shown(Fresh)  BY <1>3, FreshGood
  <2> QED  BY <1>1, <1>2, <2>1 DEF Good, Shown, PostOf
<1>5. RowsTyped'
  <2>1. active' \in [Kinds -> Seq(Prices)]
    <3>1. <<>> \in Seq(Prices)  OBVIOUS
    <3> QED  BY <1>1, <3>1
  <2> QED  BY <1>2, <2>1 DEF IInv, RowsTyped
<1>6. FlagsTyped'  BY <1>2, Zenon DEF IInv, FlagsTyped
<1>7. \A h \in Handlers : Duty(task[h])'
  <2> SUFFICES ASSUME NEW h \in Handlers  PROVE Duty(task[h])'
      OBVIOUS
  <2>1. PICK x : x = task[h]  OBVIOUS
  <2>2. Duty(x)  BY <2>1 DEF IInv
  <2>3. CASE x = Idle  BY <1>2, <2>1, <2>3 DEF Duty
  <2>4. CASE x # Idle
    <3>1. /\ x.work \in Works
          /\ {"work", "to", "shows"} \subseteq DOMAIN x
          /\ Good(x.to, IF x.work = "count" THEN counted + 1 ELSE counted)
          /\ x.shows = TRUE \/ (x.shows = FALSE /\ Shown(x.to))
          /\ x.to.stage = "opted_out" => x.work \in {"drop", "unplan"} \/ Ended
          /\ Posting(x) => {"post", "else"} \subseteq DOMAIN x /\ x.post = review
                           /\ x.post \in Posts /\ x.shows = FALSE /\ Reached
          /\ x.work \in {"archive", "look"} =>
                /\ Good(x.else, counted) /\ Shown(x.else) /\ x.else.stage # "opted_out"
          /\ x.work = "unplan" => charge # "running"
          BY <2>2, <2>4, DutyFacts, Zenon
    <3>2. \A c : Shown(c) => Shown(c)'  BY <1>2 DEF Shown, PostOf
    <3>0. Lasting  BY <1>2, Lasts
    <3>3. (x.shows = TRUE \/ (x.shows = FALSE /\ Shown(x.to)))'  BY <3>1, <3>2, Zenon
    <3>4. Posting(x)' <=> Posting(x)  BY DEF Posting
    <3>5. (Posting(x) => {"post", "else"} \subseteq DOMAIN x /\ x.post = review
                         /\ x.post \in Posts /\ x.shows = FALSE /\ Reached)'
          BY <1>2, <3>1, <3>4, <3>0, Zenon DEF Lasting
    <3>6. (x.to.stage = "opted_out" => x.work \in {"drop", "unplan"} \/ Ended)'
          BY <1>2, <3>1, <3>0, Zenon DEF Lasting
    <3>7. (x.work \in {"archive", "look"} =>
                /\ Good(x.else, counted) /\ Shown(x.else) /\ x.else.stage # "opted_out")'
          BY <1>2, <3>1, <3>2 DEF Good
    <3>8. x.work = "insert" => active'[<<x.post.type, x.post.item>>] = <<>>
      <4> SUFFICES ASSUME x.work = "insert"
                   PROVE  active'[<<x.post.type, x.post.item>>] = <<>>
          OBVIOUS
      <4>1. Posting(x)  BY DEF Posting
      <4>2. x.post \in Posts  BY <3>1, <4>1, Zenon
      <4>3. <<x.post.type, x.post.item>> \in Kinds  BY <4>2 DEF Posts, Kinds
      <4> QED  BY <1>1, <4>3
    <3>9. Good(x.to, IF x.work = "count" THEN counted' + 1 ELSE counted')
          BY <1>2, <3>1
    <3>10. Duty(x)'
           BY <1>2, <3>1, <3>3, <3>5, <3>6, <3>7, <3>8, <3>9, Zenon DEF Duty
    <3>11. x = task'[h]  BY <1>2, <2>1
    <3> QED  BY <3>10, <3>11 DEF Duty
  <2> QED  BY <2>3, <2>4
<1>8. Alone' /\ Dropping(task[Admin])' /\ DOMAIN task' = Handlers \cup {Admin}
      BY <1>2 DEF IInv, Alone, Dropping
<1> QED  BY <1>4, <1>5, <1>6, <1>7, <1>8 DEF IInv

-----------------------------------------------------------------------------
(* Messages.                                                                *)

LEMMA Received ==
    ASSUME IInv, NEW m, Receive(m)
    PROVE  /\ Free /\ m \in Messages /\ (m.says = "edit" => m.price # None)
           /\ UNCHANGED <<member, charge, offered, script>>
           /\ Good(conv, counted) /\ Shown(conv) /\ counted \in Nat
           /\ fate = "sending" => "hasty" \in script.beside
<1>1. script \in Scripts  BY DEF IInv, FlagsTyped
<1>2. script.said \subseteq Messages
      /\ \A k \in script.said : k.says = "edit" => k.price # None
      BY <1>1, ConversationAssumption
<1>3. /\ Free /\ m \in script.said /\ UNCHANGED <<member, charge, offered, script>>
      /\ fate = "sending" => "hasty" \in script.beside
      BY DEF Receive
<1> QED  BY <1>2, <1>3 DEF IInv, RowsTyped

LEMMA SavedAs ==
    ASSUME IInv, NEW c, Save(c), Good(c, counted), Shown(c),
           UNCHANGED <<member, charge, offered, script>>
    PROVE  IInv'
<1>1. conv' = c /\ UNCHANGED <<task, rows, review, fate>>  BY DEF Save
<1>2. UNCHANGED <<task, rows, member, charge, offered, script, review, fate>>  BY <1>1
<1> QED  BY <1>1, <1>2, Saved

LEMMA AwaitedPlain ==
    ASSUME IInv, Free, NEW c, Await("answer", c, FALSE), Good(c, counted), Shown(c),
           c.stage # "opted_out", UNCHANGED <<member, charge, offered, script>>
    PROVE  IInv'
<1>1. "answer" \in {"answer", "drop", "count"}
      /\ Good(c, IF "answer" = "count" THEN counted + 1 ELSE counted)
      OBVIOUS
<1>2. FALSE = TRUE \/ (FALSE = FALSE /\ Shown(c))  OBVIOUS
<1> QED  BY <1>1, <1>2, Awaited, Zenon

LEMMA AwaitedShown ==
    ASSUME IInv, Free, NEW c, Await("answer", c, TRUE), Good(c, counted),
           c.stage # "opted_out", UNCHANGED <<member, charge, offered, script>>
    PROVE  IInv'
<1>1. "answer" \in {"answer", "drop", "count"}
      /\ Good(c, IF "answer" = "count" THEN counted + 1 ELSE counted)
      OBVIOUS
<1>2. TRUE = TRUE \/ (TRUE = FALSE /\ Shown(c))  OBVIOUS
<1> QED  BY <1>1, <1>2, Awaited, Zenon

LEMMA AwaitedDrop ==
    ASSUME IInv, Free, NEW c, Await("drop", c, FALSE), Good(c, counted), Shown(c),
           UNCHANGED <<member, charge, offered, script>>
    PROVE  IInv'
<1>1. "drop" \in {"answer", "drop", "count"}
      /\ Good(c, IF "drop" = "count" THEN counted + 1 ELSE counted)
      OBVIOUS
<1>2. FALSE = TRUE \/ (FALSE = FALSE /\ Shown(c))  OBVIOUS
<1> QED  BY <1>1, <1>2, Awaited, Zenon

(* Answered without a change of the record, at once or after a wait.        *)
LEMMA SameStep ==
    ASSUME IInv, NEW m, Receive(m),
           \/ Save(conv)
           \/ Await("answer", conv, FALSE) /\ conv.stage # "opted_out"
    PROVE  IInv'
<1>1. /\ Free /\ UNCHANGED <<member, charge, offered, script>>
      /\ Good(conv, counted) /\ Shown(conv)
      BY Received
<1>2. CASE Save(conv)
  <2>1. conv' = conv /\ UNCHANGED <<task, rows, review, fate>>  BY <1>2 DEF Save
  <2>2. UNCHANGED <<task, rows, member, charge, offered, script, review, fate>>  BY <1>1, <2>1
  <2>3. Good(conv', counted) /\ Shown(conv')  BY <1>1, <2>1 DEF Shown, PostOf
  <2> QED  BY <2>2, <2>3, Saved
<1>3. CASE Await("answer", conv, FALSE) /\ conv.stage # "opted_out"
  <2>1. PICK c : c = conv  OBVIOUS
  <2>2. Await("answer", c, FALSE) /\ c.stage # "opted_out"
        /\ Good(c, counted) /\ Shown(c)
        BY <1>1, <1>3, <2>1, Zenon
  <2> QED  BY <1>1, <2>2, AwaitedPlain, Zenon
<1> QED  BY <1>2, <1>3

LEMMA SameSteps ==
    ASSUME IInv, NEW m,
           \/ Ignored(m) \/ Join(m) \/ Help(m) \/ AccountQuestion(m) \/ Greeting(m)
           \/ LinkCode(m) \/ MyListings(m) \/ MarketLookup(m) \/ Inventory(m)
           \/ Setting(m) \/ PhotoRequest(m)
    PROVE  IInv'
<1>1. Receive(m) /\ (Save(conv) \/ (Await("answer", conv, FALSE) /\ conv.stage # "opted_out"))
      BY Zenon DEF Ignored, Join, Help, AccountQuestion, Greeting, LinkCode, MyListings,
                   MarketLookup, Inventory, Setting, PhotoRequest, Command, Attended
<1> QED  BY <1>1, SameStep, Zenon

(* Prompts are set or taken away, at once or after a wait.                  *)
LEMMA PromptsStep ==
    ASSUME IInv, NEW m, Receive(m), NEW p, p \subseteq Prompts,
           NEW c, c = [conv EXCEPT !.prompts = p],
           \/ Save(c)
           \/ Await("answer", c, FALSE) /\ conv.stage # "opted_out"
           \/ Await("drop", c, FALSE)
    PROVE  IInv'
<1>1. /\ Free /\ UNCHANGED <<member, charge, offered, script>>
      /\ Good(conv, counted) /\ Shown(conv)
      BY Received
<1>2. Good(c, counted) /\ Shown(c) /\ c.stage = conv.stage  BY <1>1, PromptsGood
<1>3. CASE Save(c)  BY <1>1, <1>2, <1>3, SavedAs, Zenon
<1>4. CASE Await("answer", c, FALSE) /\ conv.stage # "opted_out"
  <2>1. c.stage # "opted_out"  BY <1>2, <1>4
  <2> QED  BY <1>1, <1>2, <1>4, <2>1, AwaitedPlain, Zenon
<1>5. CASE Await("drop", c, FALSE)  BY <1>1, <1>2, <1>5, AwaitedDrop, Zenon
<1> QED  BY <1>3, <1>4, <1>5

LEMMA PromptsKnown ==
    ASSUME IInv
    PROVE  conv.prompts \subseteq Prompts
BY DEF IInv, Good, RecordKnown

LEMMA PromptCommands ==
    ASSUME IInv, NEW m,
           \/ MembershipCancelTrigger(m) \/ ListingsMenu(m) \/ NotificationChannel(m)
           \/ Escrow(m) \/ EscrowYes(m)
    PROVE  IInv'
<1> USE PromptsKnown
<1>1. CASE MembershipCancelTrigger(m)
  <2>1. PICK p : p = IF member THEN conv.prompts \cup {"fire"} ELSE conv.prompts  OBVIOUS
  <2>2. p \subseteq Prompts
    <3>1. p = conv.prompts \cup {"fire"} \/ p = conv.prompts  BY <2>1
    <3> QED  BY <3>1 DEF Prompts
  <2>3. PICK c : c = [conv EXCEPT !.prompts = p]  OBVIOUS
  <2>4. Receive(m) /\ Await("answer", c, FALSE) /\ conv.stage # "opted_out"
        BY <1>1, <2>1, <2>3, Zenon DEF MembershipCancelTrigger, Command, Attended
  <2> QED  BY <2>2, <2>3, <2>4, PromptsStep, Zenon
<1>2. CASE ListingsMenu(m)
  <2>1. PICK p : p = conv.prompts \cup {"menu"}  OBVIOUS
  <2>2. p \subseteq Prompts  BY <2>1 DEF Prompts
  <2>3. PICK c : c = [conv EXCEPT !.prompts = p]  OBVIOUS
  <2>4. Receive(m) /\ Save(c)  BY <1>2, <2>1, <2>3, Zenon DEF ListingsMenu, Command
  <2> QED  BY <2>2, <2>3, <2>4, PromptsStep, Zenon
<1>3. CASE NotificationChannel(m)
  <2>1. PICK asks \in BOOLEAN :
            Await("answer", [conv EXCEPT !.prompts = IF asks THEN @ \cup {"channel"} ELSE @],
                  FALSE)
        BY <1>3, Zenon DEF NotificationChannel
  <2>2. PICK p : p = IF asks THEN conv.prompts \cup {"channel"} ELSE conv.prompts  OBVIOUS
  <2>3. p \subseteq Prompts
    <3>1. p = conv.prompts \cup {"channel"} \/ p = conv.prompts  BY <2>2
    <3> QED  BY <3>1 DEF Prompts
  <2>4. PICK c : c = [conv EXCEPT !.prompts = p]  OBVIOUS
  <2>5. Receive(m) /\ conv.stage # "opted_out"
        BY <1>3, Zenon DEF NotificationChannel, Command, Attended
  <2>6. Await("answer", c, FALSE)  BY <2>1, <2>2, <2>4, Zenon
  <2> QED  BY <2>3, <2>4, <2>5, <2>6, PromptsStep, Zenon
<1>4. CASE Escrow(m) \/ EscrowYes(m)
  <2>1. PICK p : p = conv.prompts \ {"escrow"}  OBVIOUS
  <2>2. p \subseteq Prompts  BY <2>1
  <2>3. PICK c : c = [conv EXCEPT !.prompts = p]  OBVIOUS
  <2>4. Receive(m) /\ Save(c)
        BY <1>4, <2>1, <2>3, Zenon DEF Escrow, EscrowYes, Command, Answering
  <2> QED  BY <2>2, <2>3, <2>4, PromptsStep, Zenon
<1> QED  BY <1>1, <1>2, <1>3, <1>4

LEMMA StopStep ==
    ASSUME IInv, NEW m, Stop(m)
    PROVE  IInv'
<1>1. Receive(m)  BY DEF Stop
<1>2. PICK c : c = [conv EXCEPT !.stage = "opted_out"]  OBVIOUS
<1>3. Await("drop", c, FALSE)  BY <1>2, Zenon DEF Stop
<1>4. /\ Free /\ UNCHANGED <<member, charge, offered, script>>
      /\ Good(conv, counted) /\ Shown(conv)
      BY <1>1, Received
<1>5. Good(c, counted) /\ Shown(c)
  <2>1. "opted_out" \in {"new", "active", "opted_out"}  OBVIOUS
  <2> QED  BY <1>2, <1>4, <2>1, StageGood
<1> QED  BY <1>3, <1>4, <1>5, AwaitedDrop, Zenon

LEMMA StartStep ==
    ASSUME IInv, NEW m, Start(m)
    PROVE  IInv'
<1>1. Receive(m)  BY DEF Start
<1>2. PICK p : p = IF Named THEN conv.prompts ELSE conv.prompts \cup {"name"}  OBVIOUS
<1>3. PICK c : c = [conv EXCEPT !.stage = "active", !.matches = <<>>, !.followUp = None,
                                !.held = None, !.draft = NoDraft, !.prompts = p]
      OBVIOUS
<1>4. Save(c)  BY <1>2, <1>3, Zenon DEF Start
<1>5. /\ Free /\ UNCHANGED <<member, charge, offered, script>>
      /\ RecordKnown(conv) /\ counted \in Nat
      BY <1>1, Received DEF Good
<1>6. p \subseteq Prompts
  <2>1. p = conv.prompts \cup {"name"} \/ p = conv.prompts  BY <1>2
  <2> QED  BY <2>1, PromptsKnown DEF Prompts
<1>7. NoDraft = [t \in Types |-> NoDraft[t]] /\ \A t \in Types : NoDraft[t] = None
      BY DEF NoDraft
<1>8. <<>> \in Seq(Decisions)  OBVIOUS
<1>9. RecordKnown(c) /\ c.draft = NoDraft /\ c.held = None /\ c.matches = <<>>
      BY <1>3, <1>5, <1>6, <1>7, <1>8 DEF RecordKnown
<1>10. Good(c, counted) /\ Shown(c)  BY <1>5, <1>9, BlankGood
<1> QED  BY <1>4, <1>5, <1>10, SavedAs, Zenon

LEMMA CancelCommandStep ==
    ASSUME IInv, NEW m, CancelCommand(m)
    PROVE  IInv'
<1>1. Receive(m)  BY DEF CancelCommand, Command
<1>2. PICK p : p = conv.prompts \cap {"name"}  OBVIOUS
<1>3. PICK c : c = [conv EXCEPT !.prompts = p, !.held = None, !.followUp = None,
                                !.matches = <<>>, !.draft = NoDraft, !.confused = 0]
      OBVIOUS
<1>4. Save(c)  BY <1>2, <1>3, Zenon DEF CancelCommand, Cleared
<1>5. /\ Free /\ UNCHANGED <<member, charge, offered, script>>
      /\ RecordKnown(conv) /\ counted \in Nat
      BY <1>1, Received DEF Good
<1>6. p \subseteq Prompts  BY <1>2, PromptsKnown
<1>7. NoDraft = [t \in Types |-> NoDraft[t]] /\ \A t \in Types : NoDraft[t] = None
      BY DEF NoDraft
<1>8. <<>> \in Seq(Decisions)  OBVIOUS
<1>9. RecordKnown(c) /\ c.draft = NoDraft /\ c.held = None /\ c.matches = <<>>
  <2>1. conv = [field \in {"stage", "prompts", "held", "unclear", "followUp", "matches",
                           "draft", "confused"} |-> conv[field]]
        BY <1>5 DEF RecordKnown
  <2>2. /\ c = [field \in {"stage", "prompts", "held", "unclear", "followUp", "matches",
                           "draft", "confused"} |-> c[field]]
        /\ c.stage = conv.stage /\ c.unclear = conv.unclear
        BY <1>3, <2>1
  <2>3. c.prompts = p /\ c.held = None /\ c.followUp = None /\ c.matches = <<>>
        BY <1>3, <2>1
  <2>4. c.draft = NoDraft /\ c.confused = 0  BY <1>3, <2>1
  <2>5. c.stage \in {"new", "active", "opted_out"} /\ c.unclear \in Items \cup {None}
        BY <1>5, <2>2 DEF RecordKnown
  <2>6. c.draft = [t \in Types |-> c.draft[t]]
        /\ \A t \in Types : c.draft[t] = None \/ DraftKnown(c.draft[t])
        BY <1>7, <2>4
  <2>7. c.prompts \subseteq Prompts /\ c.held \in Messages \cup {None}
        /\ c.followUp \in Items \cup {None} /\ c.matches \in Seq(Decisions)
        /\ c.confused \in 0..2
        BY <1>6, <1>8, <2>3, <2>4
  <2>8. RecordKnown(c)  BY <2>2, <2>5, <2>6, <2>7, Zenon DEF RecordKnown
  <2> QED  BY <2>3, <2>4, <2>8
<1>10. Good(c, counted) /\ Shown(c)  BY <1>5, <1>9, BlankGood
<1> QED  BY <1>4, <1>5, <1>10, SavedAs, Zenon

(* The customer's listings are edited while no handler is about to post.    *)
LEMMA EditStep ==
    ASSUME IInv, Free, active' \in [Kinds -> Seq(Prices)],
           paused' \in [Kinds -> Prices \cup {None}],
           UNCHANGED <<conv, task, archive, counted, review, fate>>,
           UNCHANGED <<member, charge, offered, script>>
    PROVE  IInv'
<1>1. conv' = conv /\ task' = task /\ archive' = archive /\ counted' = counted
      /\ review' = review /\ fate' = fate /\ member' = member /\ charge' = charge
      /\ offered' = offered /\ script' = script
      OBVIOUS
<1>2. RowsTyped'  BY <1>1 DEF IInv, RowsTyped
<1>3. FlagsTyped'  BY <1>1, Zenon DEF IInv, FlagsTyped
<1>4. Good(conv, counted)' /\ Shown(conv)'  BY <1>1 DEF IInv, Good, Shown, PostOf
<1>5. \A h \in Handlers : task'[h] = Idle  BY <1>1 DEF Free
<1>6. \A h \in Handlers : Duty(task[h])'  BY <1>5, Zenon DEF Duty
<1>7. Alone' /\ Dropping(task[Admin])' /\ DOMAIN task' = Handlers \cup {Admin}
      BY <1>1 DEF IInv, Alone, Dropping
<1> QED  BY <1>2, <1>3, <1>4, <1>6, <1>7 DEF IInv

LEMMA ListingEditStep ==
    ASSUME IInv, NEW m, ListingEdit(m)
    PROVE  IInv'
<1>1. Receive(m)  BY DEF ListingEdit
<1>2. Free /\ UNCHANGED <<member, charge, offered, script>>  BY <1>1, Received
<1>3. PICK k \in Kinds : ManagePosting(k, m.says)  BY DEF ListingEdit
<1>4. active \in [Kinds -> Seq(Prices)] /\ paused \in [Kinds -> Prices \cup {None}]
      BY DEF IInv, RowsTyped
<1>5. active[k] \in Seq(Prices) /\ paused[k] \in Prices \cup {None}  BY <1>4
<1>6. active' \in [Kinds -> Seq(Prices)] /\ paused' \in [Kinds -> Prices \cup {None}]
  <2>1. CASE /\ active[k] # <<>> /\ active' = [active EXCEPT ![k] = Tail(@)]
             /\ paused' = paused \/ paused' = [paused EXCEPT ![k] = Head(active[k])]
    <3>1. Tail(active[k]) \in Seq(Prices) /\ Head(active[k]) \in Prices  BY <1>5, <2>1
    <3> QED  BY <1>4, <2>1, <3>1
  <2>2. CASE /\ paused[k] # None /\ active' = [active EXCEPT ![k] = Append(@, paused[k])]
             /\ paused' = [paused EXCEPT ![k] = None]
    <3>1. Append(active[k], paused[k]) \in Seq(Prices)  BY <1>5, <2>2
    <3> QED  BY <1>4, <2>2, <3>1
  <2> QED  BY <1>3, <2>1, <2>2 DEF ManagePosting
<1>7. UNCHANGED <<conv, task, archive, counted, review, fate>>  BY DEF ListingEdit
<1> QED  BY <1>2, <1>6, <1>7, EditStep

LEMMA PriceEditStep ==
    ASSUME IInv, NEW m, PriceEdit(m)
    PROVE  IInv'
<1>1. Receive(m) /\ m.says = "edit"  BY DEF PriceEdit, Command
<1>2. Free /\ UNCHANGED <<member, charge, offered, script>> /\ m \in Messages /\ m.price # None
      BY <1>1, Received
<1>3. m.price \in Prices  BY <1>2 DEF Messages
<1>4. PICK k \in Kinds : active' = [active EXCEPT ![k] = ReplaceAt(@, 1, m.price)]
      BY DEF PriceEdit
<1>5. active \in [Kinds -> Seq(Prices)] /\ paused \in [Kinds -> Prices \cup {None}]
      BY DEF IInv, RowsTyped
<1>6. ReplaceAt(active[k], 1, m.price) \in Seq(Prices)  BY <1>3, <1>5, Prices1
<1>7. active' \in [Kinds -> Seq(Prices)]  BY <1>4, <1>5, <1>6
<1>8. UNCHANGED <<conv, task, paused, archive, counted, review, fate>>  BY DEF PriceEdit
<1>9. paused' \in [Kinds -> Prices \cup {None}]  BY <1>5, <1>8
<1> QED  BY <1>2, <1>7, <1>8, <1>9, EditStep

(* A decision on a match: an approval is on its way to be counted.          *)
LEMMA HandledGood ==
    ASSUME NEW c, Good(c, counted), counted \in Nat, NEW act \in {"approve", "pass"},
           NEW out, out = HandleDecision(c, act)
    PROVE  /\ out.work \in {"answer", "count"}
           /\ Good(out.to, IF out.work = "count" THEN counted + 1 ELSE counted)
           /\ out.to.stage = c.stage /\ (Shown(c) => Shown(out.to))
           /\ act = "pass" => out.work = "answer"
<1> DEFINE i == LatestPending(c)
<1>1. \/ out = [work |-> "answer", to |-> c]
      \/ act = "pass" /\ out = [work |-> "answer", to |-> Decided(c, i, "passed")]
      \/ act = "approve" /\ out = [work |-> "count", to |-> Decided(c, i, "approved")]
      BY DEF HandleDecision
<1> HIDE DEF i
<1>2. CASE out = [work |-> "answer", to |-> c]  BY <1>2
<1>3. CASE act = "pass" /\ out = [work |-> "answer", to |-> Decided(c, i, "passed")]
  <2>1. PICK d : d = Decided(c, i, "passed")  OBVIOUS
  <2>2. out.work = "answer" /\ out.to = d  BY <1>3, <2>1
  <2>3. Good(d, counted) /\ d.stage = c.stage /\ d.draft = c.draft
    <3>1. PICK v : v = "passed"  OBVIOUS
    <3>2. v \in {"approved", "passed"}  BY <3>1
    <3>3. d = Decided(c, i, v)  BY <2>1, <3>1
    <3>4. /\ Good(d, IF v = "approved" THEN counted + 1 ELSE counted)
          /\ d.stage = c.stage /\ d.draft = c.draft
          BY <3>2, <3>3, DecidedGood
    <3> QED  BY <3>1, <3>4
  <2>4. Good(d, counted)  BY <2>3
  <2>5. Shown(c) => Shown(d)  BY <2>3 DEF Shown, PostOf
  <2> QED  BY <2>2, <2>3, <2>4, <2>5
<1>4. CASE act = "approve" /\ out = [work |-> "count", to |-> Decided(c, i, "approved")]
  <2>1. PICK d : d = Decided(c, i, "approved")  OBVIOUS
  <2>2. out.work = "count" /\ out.to = d  BY <1>4, <2>1
  <2>3. Good(d, counted + 1) /\ d.stage = c.stage /\ d.draft = c.draft
    <3>1. PICK v : v = "approved"  OBVIOUS
    <3>2. v \in {"approved", "passed"}  BY <3>1
    <3>3. d = Decided(c, i, v)  BY <2>1, <3>1
    <3>4. /\ Good(d, IF v = "approved" THEN counted + 1 ELSE counted)
          /\ d.stage = c.stage /\ d.draft = c.draft
          BY <3>2, <3>3, DecidedGood
    <3> QED  BY <3>1, <3>4
  <2>4. Good(d, counted + 1)  BY <2>3
  <2>5. Shown(c) => Shown(d)  BY <2>3 DEF Shown, PostOf
  <2> QED  BY <1>4, <2>2, <2>3, <2>4, <2>5
<1> QED  BY <1>1, <1>2, <1>3, <1>4

(* The handler awaits what the decision needs.                              *)
LEMMA DecisionAwaited ==
    ASSUME IInv, Free, NEW c, Good(c, counted), Shown(c), c.stage # "opted_out",
           counted \in Nat, NEW act \in {"approve", "pass"},
           NEW out, out = HandleDecision(c, act), Await(out.work, out.to, FALSE),
           UNCHANGED <<member, charge, offered, script>>
    PROVE  IInv'
<1>1. /\ out.work \in {"answer", "count"}
      /\ Good(out.to, IF out.work = "count" THEN counted + 1 ELSE counted)
      /\ out.to.stage = c.stage /\ (Shown(c) => Shown(out.to))
      BY HandledGood
<1>2. PICK d : d = out.to  OBVIOUS
<1>3. PICK w : w = out.work  OBVIOUS
<1>4. w \in {"answer", "drop", "count"}
      /\ Good(d, IF w = "count" THEN counted + 1 ELSE counted)
      /\ d.stage # "opted_out" /\ Shown(d)
      BY <1>1, <1>2, <1>3
<1>5. Await(w, d, FALSE)  BY <1>2, <1>3, Zenon
<1>6. FALSE = TRUE \/ (FALSE = FALSE /\ Shown(d))  BY <1>4, Zenon
<1> QED  BY <1>4, <1>5, <1>6, Awaited, Zenon

LEMMA DecisionStep ==
    ASSUME IInv, NEW m, Decision(m)
    PROVE  IInv'
<1>1. Receive(m) /\ conv.stage # "opted_out"  BY DEF Decision, Attended
<1>2. /\ Free /\ UNCHANGED <<member, charge, offered, script>>
      /\ Good(conv, counted) /\ Shown(conv) /\ counted \in Nat
      BY <1>1, Received
<1>3. PICK c : c = conv  OBVIOUS
<1>4. PICK act : act = m.says  OBVIOUS
<1>5. act \in {"approve", "pass"}  BY <1>4 DEF Decision
<1>6. PICK out : out = HandleDecision(c, act)  OBVIOUS
<1>7. IF act = "pass" THEN Save(out.to) ELSE Await(out.work, out.to, FALSE)
      BY <1>3, <1>4, <1>6, Zenon DEF Decision
<1>8. Good(c, counted) /\ Shown(c) /\ c.stage # "opted_out"  BY <1>1, <1>2, <1>3
<1>9. CASE act = "pass"
  <2>1. /\ out.work = "answer"
        /\ Good(out.to, IF out.work = "count" THEN counted + 1 ELSE counted)
        /\ Shown(out.to)
        BY <1>2, <1>5, <1>6, <1>8, <1>9, HandledGood
  <2>2. PICK d : d = out.to  OBVIOUS
  <2>3. Good(d, counted) /\ Shown(d)  BY <2>1, <2>2
  <2>4. Save(d)  BY <1>7, <1>9, <2>2, Zenon
  <2> QED  BY <1>2, <2>3, <2>4, SavedAs, Zenon
<1>10. CASE act # "pass"
  <2>1. Await(out.work, out.to, FALSE)  BY <1>7, <1>10, Zenon
  <2> QED  BY <1>2, <1>5, <1>6, <1>8, <2>1, DecisionAwaited, Zenon
<1> QED  BY <1>9, <1>10

-----------------------------------------------------------------------------
(* Replies: after what Fi asked, nothing but the prompts is different.      *)

LEMMA Replied ==
    ASSUME IInv, NEW m, Answering(m)
    PROVE  /\ Free /\ m \in Messages /\ UNCHANGED <<member, charge, offered, script>>
           /\ Good(conv, counted) /\ Shown(conv) /\ counted \in Nat
           /\ Receive(m) /\ conv.stage # "opted_out"
           /\ fate = "sending" => "hasty" \in script.beside
<1>1. Receive(m) /\ conv.stage # "opted_out"  BY DEF Answering, Attended
<1> QED  BY <1>1, Received

LEMMA PastGood ==
    ASSUME Good(conv, counted), Shown(conv), NEW c, c = Past
    PROVE  /\ RecordKnown(c) /\ Good(c, counted) /\ Shown(c)
           /\ c.stage = conv.stage /\ c.draft = conv.draft /\ c.held = conv.held
           /\ c.matches = conv.matches
<1>1. PICK p : p = conv.prompts \ {"escrow", "menu"}  OBVIOUS
<1>2. c = [conv EXCEPT !.prompts = p]  BY <1>1 DEF Past
<1>3. p \subseteq Prompts  BY <1>1 DEF Good, RecordKnown
<1>4. Good(c, counted) /\ Shown(c) /\ c.stage = conv.stage /\ c.draft = conv.draft
      /\ c.held = conv.held /\ c.matches = conv.matches
      BY <1>2, <1>3, PromptsGood
<1> QED  BY <1>4 DEF Good

LEMMA MenuChoiceStep ==
    ASSUME IInv, NEW m, MenuChoice(m)
    PROVE  IInv'
<1>1. Answering(m) /\ (Save(Past) \/ Await("answer", Past, FALSE))
      BY Zenon DEF MenuChoice
<1>2. PICK p : p = conv.prompts \ {"escrow", "menu"}  OBVIOUS
<1>3. PICK c : c = [conv EXCEPT !.prompts = p]  OBVIOUS
<1>4. c = Past  BY <1>2, <1>3 DEF Past
<1>5. p \subseteq Prompts  BY <1>2, PromptsKnown
<1>6. Receive(m) /\ conv.stage # "opted_out"  BY <1>1, Replied
<1>7. Save(c) \/ Await("answer", c, FALSE)  BY <1>1, <1>4, Zenon
<1> QED  BY <1>3, <1>5, <1>6, <1>7, PromptsStep, Zenon

LEMMA FireReplyStep ==
    ASSUME IInv, NEW m, FireReply(m)
    PROVE  IInv'
<1>1. Answering(m)  BY DEF FireReply, Through
<1>2. PICK p : p = (conv.prompts \ {"escrow", "menu"}) \ {"fire"}  OBVIOUS
<1>3. PICK c : c = [conv EXCEPT !.prompts = p]  OBVIOUS
<1>4. c = [Past EXCEPT !.prompts = @ \ {"fire"}]
  <2>1. RecordKnown(conv)  BY DEF IInv, Good
  <2> QED  BY <1>2, <1>3, <2>1 DEF Past, RecordKnown
<1>5. Save(c) \/ Await("drop", c, FALSE)  BY <1>4, Zenon DEF FireReply
<1>6. p \subseteq Prompts  BY <1>2, PromptsKnown
<1>7. Receive(m)  BY <1>1, Replied
<1> QED  BY <1>3, <1>5, <1>6, <1>7, PromptsStep, Zenon

LEMMA ChannelReplyStep ==
    ASSUME IInv, NEW m, ChannelReply(m)
    PROVE  IInv'
<1>1. Answering(m)  BY DEF ChannelReply, Through
<1>2. Receive(m) /\ conv.stage # "opted_out" /\ RecordKnown(conv)
      BY <1>1, Replied DEF IInv, Good
<1>3. CASE m.says = "number"
  <2>1. PICK p : p = (conv.prompts \ {"escrow", "menu"}) \ {"channel"}  OBVIOUS
  <2>2. PICK c : c = [conv EXCEPT !.prompts = p]  OBVIOUS
  <2>3. c = [Past EXCEPT !.prompts = @ \ {"channel"}]
        BY <1>2, <2>1, <2>2 DEF Past, RecordKnown
  <2>4. Await("answer", c, FALSE)  BY <1>3, <2>3, Zenon DEF ChannelReply
  <2>5. p \subseteq Prompts  BY <2>1, PromptsKnown
  <2> QED  BY <1>2, <2>2, <2>4, <2>5, PromptsStep, Zenon
<1>4. CASE m.says # "number"
  <2>1. PICK p : p = conv.prompts \ {"escrow", "menu"}  OBVIOUS
  <2>2. PICK c : c = [conv EXCEPT !.prompts = p]  OBVIOUS
  <2>3. c = Past  BY <2>1, <2>2 DEF Past
  <2>4. Save(c)  BY <1>4, <2>3, Zenon DEF ChannelReply
  <2>5. p \subseteq Prompts  BY <2>1, PromptsKnown
  <2> QED  BY <1>2, <2>2, <2>4, <2>5, PromptsStep, Zenon
<1> QED  BY <1>3, <1>4

(* A request is held back: a draft is open for it to wait for.              *)
LEMMA ConflictStep ==
    ASSUME IInv, NEW m, Conflict(m)
    PROVE  IInv'
<1>1. Answering(m) /\ Open(conv)  BY DEF Conflict, NotHeld, Unprompted, Through
<1>2. /\ Free /\ m \in Messages /\ UNCHANGED <<member, charge, offered, script>>
      /\ Good(conv, counted) /\ Shown(conv)
      BY <1>1, Replied
<1>3. PICK q : q = Past  OBVIOUS
<1>4. RecordKnown(q) /\ Good(q, counted) /\ Shown(q) /\ q.draft = conv.draft
      BY <1>2, <1>3, PastGood
<1>5. PICK c : c = [q EXCEPT !.held = m]  OBVIOUS
<1>6. Save(c)  BY <1>3, <1>5, Zenon DEF Conflict
<1>7. RecordKnown(c) /\ c.draft = q.draft /\ c.matches = q.matches
  <2>1. m \in Messages \cup {None}  BY <1>2
  <2> QED  BY <1>4, <1>5, <2>1, HeldSet
<1>8. Good(c, counted)
  <2>1. Open(c)  BY <1>1, <1>4, <1>7 DEF Open
  <2>2. Single(c)  BY <1>4, <1>7 DEF Good, Single
  <2>3. Approved(c) = Approved(q)  BY <1>7 DEF Approved
  <2> QED  BY <1>4, <1>7, <2>1, <2>2, <2>3 DEF Good, Waits
<1>9. Shown(c)  BY <1>4, <1>7 DEF Shown, PostOf
<1> QED  BY <1>2, <1>6, <1>8, <1>9, SavedAs, Zenon

(* A held request is read again where nothing is drafted.                   *)
LEMMA ReadAgain ==
    ASSUME IInv, Free, UNCHANGED <<member, charge, offered, script>>, counted \in Nat,
           NEW c, Good(c, counted), ~Open(c), c.held = None, c.stage # "opted_out", Shown(c),
           NEW m \in Messages, NEW d \in Settle([c EXCEPT !.followUp = None], m),
           SaveAndAwait(c, d) \/ Await("answer", d, TRUE)
    PROVE  IInv'
<1>1. PICK e : e = [c EXCEPT !.followUp = None]  OBVIOUS
<1>2. RecordKnown(c)  BY DEF Good
<1>3. RecordKnown(e) /\ e.stage = c.stage /\ e.draft = c.draft /\ e.held = c.held
      /\ e.matches = c.matches
      BY <1>1, <1>2, ItemSet
<1>4. Good(e, counted)  BY <1>3, SameDrafts
<1>5. ~Open(e) /\ e.held = None /\ e.stage # "opted_out"  BY <1>3 DEF Open
<1>6. d \in Settle(e, m)  BY <1>1
<1>7. Good(d, counted) /\ d.stage # "opted_out"  BY <1>4, <1>5, <1>6, SettledGood
<1>8. CASE SaveAndAwait(c, d)  BY <1>7, <1>8, SavedAndAwaited, Zenon
<1>9. CASE Await("answer", d, TRUE)  BY <1>7, <1>9, AwaitedShown, Zenon
<1> QED  BY <1>8, <1>9

LEMMA HeldReplyStep ==
    ASSUME IInv, NEW m, HeldReply(m)
    PROVE  IInv'
<1>1. Answering(m) /\ conv.held # None  BY DEF HeldReply, Unprompted, Through
<1>2. /\ Free /\ UNCHANGED <<member, charge, offered, script>>
      /\ Good(conv, counted) /\ Shown(conv) /\ counted \in Nat /\ conv.stage # "opted_out"
      BY <1>1, Replied
<1>3. PICK q : q = Past  OBVIOUS
<1>4. RecordKnown(q) /\ Good(q, counted) /\ Shown(q) /\ q.stage = conv.stage
      /\ q.held = conv.held
      BY <1>2, <1>3, PastGood
<1>5. conv.held \in Messages  BY <1>1, <1>4 DEF RecordKnown
<1>6. PICK c : c = [q EXCEPT !.held = None]  OBVIOUS
<1>7. RecordKnown(c) /\ c.held = None /\ c.draft = q.draft /\ c.matches = q.matches
      /\ c.stage = q.stage
  <2>1. None \in Messages \cup {None}  OBVIOUS
  <2> QED  BY <1>4, <1>6, <2>1, HeldSet
<1>8. Good(c, counted) /\ Shown(c)
  <2>1. Single(c)  BY <1>4, <1>7 DEF Good, Single
  <2>2. Approved(c) = Approved(q)  BY <1>7 DEF Approved
  <2>3. Shown(c)  BY <1>4, <1>7 DEF Shown, PostOf
  <2> QED  BY <1>4, <1>7, <2>1, <2>2, <2>3 DEF Good, Waits
<1>9. CASE m.says = "replace"
  <2>1. PICK e : e = [c EXCEPT !.draft = NoDraft]  OBVIOUS
  <2>2. /\ Good(e, counted) /\ e.draft = NoDraft /\ e.held = None /\ e.stage # "opted_out"
        BY <1>2, <1>4, <1>7, <1>8, <2>1, DraftEnded
  <2>3. ~Open(e) /\ Shown(e)  BY <2>2, NothingDrafted
  <2>4. e = [q EXCEPT !.held = None, !.draft = NoDraft]
        BY <1>4, <1>6, <2>1 DEF RecordKnown
  <2>5. PICK d \in Settle([e EXCEPT !.followUp = None], conv.held) : SaveAndAwait(e, d)
        BY <1>3, <1>9, <2>4, Zenon DEF HeldReply
  <2>6. PICK r : r = conv.held  OBVIOUS
  <2>7. r \in Messages /\ d \in Settle([e EXCEPT !.followUp = None], r)
        BY <1>5, <2>5, <2>6
  <2> QED  BY <1>2, <2>2, <2>3, <2>5, <2>7, ReadAgain, Zenon
<1>10. CASE m.says = "add"
  <2>1. Save(c)  BY <1>3, <1>6, <1>10, Zenon DEF HeldReply
  <2> QED  BY <1>2, <1>8, <2>1, SavedAs, Zenon
<1>11. CASE m.says # "replace" /\ m.says # "add"
  <2>1. Save(q)  BY <1>3, <1>11, Zenon DEF HeldReply
  <2> QED  BY <1>2, <1>4, <2>1, SavedAs, Zenon
<1> QED  BY <1>9, <1>10, <1>11

LEMMA RestateStep ==
    ASSUME IInv, NEW m, Restate(m)
    PROVE  IInv'
<1>1. Answering(m) /\ conv.held = None /\ conv.draft["buy"] # None
      BY DEF Restate, NotHeld, Unprompted, Through
<1>2. /\ Free /\ m \in Messages /\ UNCHANGED <<member, charge, offered, script>>
      /\ Good(conv, counted) /\ Shown(conv) /\ counted \in Nat /\ conv.stage # "opted_out"
      BY <1>1, Replied
<1>3. PICK q : q = Past  OBVIOUS
<1>4. RecordKnown(q) /\ Good(q, counted) /\ q.stage = conv.stage /\ q.draft = conv.draft
      /\ q.held = conv.held
      BY <1>2, <1>3, PastGood
<1>5. PICK e : e = [q EXCEPT !.draft = NoDraft]  OBVIOUS
<1>6. e = [q EXCEPT !.draft.buy = None]
  <2>1. "buy" \in Types /\ Single(q)  BY <1>4 DEF Types, Good
  <2>2. [q.draft EXCEPT !["buy"] = None] = NoDraft  BY <1>1, <1>4, <2>1, OnlyDraft
  <2> QED  BY <1>5, <2>2
<1>7. Good(e, counted) /\ e.draft = NoDraft /\ e.held = None /\ e.stage # "opted_out"
      BY <1>1, <1>2, <1>4, <1>5, DraftEnded
<1>8. ~Open(e) /\ Shown(e)  BY <1>7, NothingDrafted
<1>9. PICK d \in Settle([e EXCEPT !.followUp = None], m) : SaveAndAwait(e, d)
      BY <1>3, <1>6, Zenon DEF Restate
<1> QED  BY <1>2, <1>7, <1>8, <1>9, ReadAgain, Zenon

LEMMA RoutedStep ==
    ASSUME IInv, NEW m, Routed(m)
    PROVE  IInv'
<1>1. Answering(m) /\ conv.held = None /\ ~Open(conv)
      BY DEF Routed, NoDraftOpen, NotHeld, Unprompted, Through
<1>2. /\ Free /\ m \in Messages /\ UNCHANGED <<member, charge, offered, script>>
      /\ Good(conv, counted) /\ Shown(conv) /\ counted \in Nat /\ conv.stage # "opted_out"
      BY <1>1, Replied
<1>3. PICK q : q = Past  OBVIOUS
<1>4. Good(q, counted) /\ Shown(q) /\ q.stage = conv.stage /\ q.draft = conv.draft
      /\ q.held = conv.held
      BY <1>2, <1>3, PastGood
<1>5. ~Open(q) /\ q.held = None /\ q.stage # "opted_out"  BY <1>1, <1>2, <1>4 DEF Open
<1>6. PICK d \in Settle([q EXCEPT !.followUp = None], m) : Await("answer", d, TRUE)
      BY <1>3, Zenon DEF Routed
<1> QED  BY <1>2, <1>4, <1>5, <1>6, ReadAgain, Zenon

(* The one draft that is open is answered, or posted as it was shown.       *)
LEMMA AnswerStep ==
    ASSUME IInv, NEW m, Answer(m)
    PROVE  IInv'
<1>1. Answering(m) /\ conv.held = None /\ Open(conv)
      BY DEF Answer, NotHeld, Unprompted, Through
<1>2. /\ Free /\ m \in Messages /\ UNCHANGED <<member, charge, offered, script>>
      /\ Good(conv, counted) /\ Shown(conv) /\ counted \in Nat /\ conv.stage # "opted_out"
      BY <1>1, Replied
<1>3. PICK q : q = Past  OBVIOUS
<1>4. Good(q, counted) /\ Shown(q) /\ q.stage = conv.stage /\ q.draft = conv.draft
      /\ q.held = conv.held
      BY <1>2, <1>3, PastGood
<1>5. PICK t : t = IF conv.draft["sell"] # None THEN "sell" ELSE "buy"  OBVIOUS
<1>6. t \in Types /\ q.draft[t] # None  BY <1>1, <1>4, <1>5 DEF Open, Types
<1>7. IF conv.draft[t].step = "confirm" /\ Confirms(m) THEN AwaitPost(q, t)
      ELSE Await("answer", Reply(q, t, m), TRUE)
      BY <1>3, <1>5, Zenon DEF Answer
<1>8. CASE conv.draft[t].step = "confirm" /\ Confirms(m)
  <2>1. AwaitPost(q, t)  BY <1>7, <1>8, Zenon
  <2>2. q.draft[t].step = "confirm" /\ q.held = None /\ q.stage # "opted_out"
        BY <1>1, <1>2, <1>4, <1>8
  <2>3. fate = "sending" => "hasty" \in script.beside  BY <1>1, Replied
  <2> QED  BY <1>2, <1>4, <1>6, <2>1, <2>2, <2>3, AwaitedPost, Zenon
<1>9. CASE ~(conv.draft[t].step = "confirm" /\ Confirms(m))
  <2>1. PICK d : d = Reply(q, t, m)  OBVIOUS
  <2>2. Await("answer", d, TRUE)  BY <1>7, <1>9, <2>1, Zenon
  <2>3. q.held = None  BY <1>1, <1>4
  <2>4. Good(d, counted) /\ d.stage = q.stage
        BY <1>2, <1>4, <1>6, <2>1, <2>3, RepliedGood
  <2>5. d.stage # "opted_out"  BY <1>2, <1>4, <2>4
  <2> QED  BY <1>2, <2>2, <2>4, <2>5, AwaitedShown, Zenon
<1> QED  BY <1>8, <1>9

LEMMA FollowUpReplyStep ==
    ASSUME IInv, NEW m, FollowUpReply(m)
    PROVE  IInv'
<1>1. Answering(m) /\ ~Open(conv)
      BY DEF FollowUpReply, NoDraftOpen, NotHeld, Unprompted, Through
<1>2. /\ Free /\ UNCHANGED <<member, charge, offered, script>>
      /\ Good(conv, counted) /\ Shown(conv) /\ counted \in Nat /\ conv.stage # "opted_out"
      BY <1>1, Replied
<1>3. PICK q : q = Past  OBVIOUS
<1>4. RecordKnown(q) /\ Good(q, counted) /\ Shown(q) /\ q.stage = conv.stage
      /\ q.draft = conv.draft
      BY <1>2, <1>3, PastGood
<1>5. PICK e : e = [q EXCEPT !.followUp = None]  OBVIOUS
<1>6. Good(e, counted) /\ Shown(e) /\ e.stage = q.stage /\ e.draft = q.draft
  <2>1. RecordKnown(e) /\ e.stage = q.stage /\ e.draft = q.draft /\ e.held = q.held
        /\ e.matches = q.matches
        BY <1>4, <1>5, ItemSet
  <2> QED  BY <1>4, <2>1, SameDrafts
<1>7. PICK c \in {q} \cup Searched(e) : Await("answer", c, FALSE)
      BY <1>3, <1>5, Zenon DEF FollowUpReply
<1>8. Good(c, counted) /\ Shown(c) /\ c.stage # "opted_out"
  <2>1. CASE c = q  BY <1>2, <1>4, <2>1
  <2>2. CASE c \in Searched(e)
    <3>1. Good(c, counted) /\ c.stage = e.stage /\ c.draft = e.draft
          BY <1>2, <1>6, <2>2, SearchedGood
    <3>2. Shown(c)  BY <1>6, <3>1 DEF Shown, PostOf
    <3> QED  BY <1>2, <1>4, <1>6, <3>1, <3>2
  <2> QED  BY <1>7, <2>1, <2>2
<1> QED  BY <1>2, <1>7, <1>8, AwaitedPlain, Zenon

LEMMA NaturalDecisionStep ==
    ASSUME IInv, NEW m, NaturalDecision(m)
    PROVE  IInv'
<1>1. Answering(m)  BY DEF NaturalDecision, NoDraftOpen, NotHeld, Unprompted, Through
<1>2. /\ Free /\ UNCHANGED <<member, charge, offered, script>>
      /\ Good(conv, counted) /\ Shown(conv) /\ counted \in Nat /\ conv.stage # "opted_out"
      BY <1>1, Replied
<1>3. PICK q : q = Past  OBVIOUS
<1>4. RecordKnown(q) /\ Good(q, counted) /\ Shown(q) /\ q.stage = conv.stage
      BY <1>2, <1>3, PastGood
<1>5. PICK c : c = [q EXCEPT !.unclear = None]  OBVIOUS
<1>6. Good(c, counted) /\ Shown(c) /\ c.stage = q.stage
  <2>1. RecordKnown(c) /\ c.stage = q.stage /\ c.draft = q.draft /\ c.held = q.held
        /\ c.matches = q.matches
        BY <1>4, <1>5, ItemSet
  <2> QED  BY <1>4, <2>1, SameDrafts
<1>7. PICK act \in {"approve", "pass"} :
          LET out == HandleDecision(c, act) IN Await(out.work, out.to, FALSE)
      BY <1>3, <1>5, Zenon DEF NaturalDecision
<1>8. PICK out : out = HandleDecision(c, act)  OBVIOUS
<1>9. Await(out.work, out.to, FALSE)  BY <1>7, <1>8, Zenon
<1>10. c.stage # "opted_out"  BY <1>2, <1>4, <1>6
<1> QED  BY <1>2, <1>6, <1>7, <1>8, <1>9, <1>10, DecisionAwaited, Zenon

-----------------------------------------------------------------------------
(* The invariant.                                                           *)

LEMMA InitGood ==
    ASSUME Init
    PROVE  IInv
<1>1. /\ conv = Fresh /\ task = [h \in Handlers \cup {Admin} |-> Idle]
      /\ active = [k \in Kinds |-> <<>>] /\ paused = [k \in Kinds |-> None]
      /\ archive = {} /\ counted = 0 /\ script \in Scripts /\ review = None /\ fate = "none"
      BY DEF Init
<1>2. RowsTyped
  <2>1. <<>> \in Seq(Prices)  OBVIOUS
  <2> QED  BY <1>1, <2>1 DEF RowsTyped
<1>3. FlagsTyped
  <2>1. offered \in BOOLEAN  BY Zenon DEF Init
  <2>3. member \in BOOLEAN
    <3>1. PICK b : b = (script.plan # "none")  OBVIOUS
    <3>2. b \in BOOLEAN  BY <3>1
    <3> QED  BY <3>1, <3>2, Zenon DEF Init
  <2>2. /\ review \in Posts \cup {None} /\ charge \in {"running", "stopped", "refused"}
        /\ fate \in {"none", "sending", "seen", "lost"} /\ (fate = "none" => review = None)
        BY <1>1 DEF Init
  <2> QED  BY <1>1, <2>1, <2>2, <2>3, Zenon DEF FlagsTyped
<1>4. Good(conv, counted) /\ Shown(conv)
  <2>1. 0 \in Nat  OBVIOUS
  <2> QED  BY <1>1, <2>1, FreshGood
<1>5. \A h \in Handlers \cup {Admin} : task[h] = Idle  BY <1>1
<1>6. DOMAIN task = Handlers \cup {Admin}  BY <1>1
<1>7. \A h \in Handlers : Duty(task[h])  BY <1>5, Zenon DEF Duty
<1>8. Alone /\ Dropping(task[Admin])  BY <1>5 DEF Alone, Dropping
<1> QED  BY <1>2, <1>3, <1>4, <1>6, <1>7, <1>8 DEF IInv

LEMMA StepGood ==
    ASSUME IInv, [Next]_vars
    PROVE  IInv'
<1>1. CASE UNCHANGED vars
  <2>1. UNCHANGED <<task, rows, member, charge, offered, script, review, fate>> /\ conv' = conv
        BY <1>1 DEF vars
  <2>2. Good(conv', counted) /\ Shown(conv')  BY <2>1 DEF IInv, Shown, PostOf
  <2> QED  BY <2>1, <2>2, Saved
<1>2. ASSUME NEW m \in script.said,
             \/ Start(m) \/ Stop(m) \/ Ignored(m) \/ Join(m) \/ Help(m)
             \/ MembershipCancelTrigger(m) \/ AccountQuestion(m) \/ Greeting(m) \/ LinkCode(m)
             \/ MyListings(m) \/ MarketLookup(m) \/ Inventory(m) \/ CancelCommand(m)
             \/ ListingEdit(m) \/ PriceEdit(m) \/ ListingsMenu(m) \/ Setting(m)
             \/ NotificationChannel(m) \/ Decision(m) \/ PhotoRequest(m) \/ Escrow(m)
             \/ EscrowYes(m) \/ MenuChoice(m) \/ FireReply(m) \/ ChannelReply(m)
             \/ HeldReply(m) \/ Restate(m) \/ Conflict(m) \/ Answer(m)
             \/ FollowUpReply(m) \/ NaturalDecision(m) \/ Routed(m)
      PROVE  IInv'
  <2>1. CASE \/ Ignored(m) \/ Join(m) \/ Help(m) \/ AccountQuestion(m) \/ Greeting(m)
             \/ LinkCode(m) \/ MyListings(m) \/ MarketLookup(m) \/ Inventory(m)
             \/ Setting(m) \/ PhotoRequest(m)
        BY <2>1, SameSteps, Zenon
  <2>2. CASE \/ MembershipCancelTrigger(m) \/ ListingsMenu(m) \/ NotificationChannel(m)
             \/ Escrow(m) \/ EscrowYes(m)
        BY <2>2, PromptCommands, Zenon
  <2>3. CASE \/ Start(m) \/ Stop(m) \/ CancelCommand(m) \/ ListingEdit(m) \/ PriceEdit(m)
             \/ Decision(m)
        BY <2>3, StartStep, StopStep, CancelCommandStep, ListingEditStep, PriceEditStep,
           DecisionStep, Zenon
  <2>4. CASE \/ MenuChoice(m) \/ FireReply(m) \/ ChannelReply(m)
             \/ HeldReply(m) \/ Restate(m) \/ Conflict(m) \/ Answer(m)
             \/ FollowUpReply(m) \/ NaturalDecision(m) \/ Routed(m)
        BY <2>4, MenuChoiceStep, FireReplyStep, ChannelReplyStep, HeldReplyStep, RestateStep,
           ConflictStep, AnswerStep, FollowUpReplyStep, NaturalDecisionStep, RoutedStep, Zenon
  <2> QED  BY <1>2, <2>1, <2>2, <2>3, <2>4, Zenon
<1>3. ASSUME NEW h \in Handlers \cup {Admin},
             SaveState(h) \/ StopCharge(h) \/ DropPlan(h) \/ PersistSellIntake(h)
             \/ LookUp(h) \/ WritePosting(h) \/ RecordApproval(h) \/ Fail(h)
      PROVE  IInv'
      BY <1>3, SaveStateStep, StopChargeStep, DropPlanStep, PersistSellIntakeStep, LookUpStep,
         WritePostingStep, RecordApprovalStep, FailStep, Zenon
<1>4. CASE \/ CardSent \/ MatchDecision \/ BlockIdentity \/ UnblockIdentity
           \/ ResetUserAccount
      BY <1>4, CardSentStep, MatchDecisionStep, BlockIdentityStep, UnblockIdentityStep,
         ResetUserAccountStep, Zenon
<1>5. CASE ReviewSent \/ ReviewLost  BY <1>5, ReviewStep
<1> QED  BY <1>1, <1>2, <1>3, <1>4, <1>5, Zenon DEF Next, Message

(* Whatever is said, fails, is restarted or done beside the conversation,   *)
(* what is on record and what is waited for belong together.                *)
THEOREM ConversationInvariant == Spec => []IInv
<1>1. Init => IInv  BY InitGood
<1>2. IInv /\ [Next]_vars => IInv'  BY StepGood
<1> QED  BY <1>1, <1>2, PTL DEF Spec

(* The record is always of the type types.ts gives it.                      *)
LEMMA RecordOfConvs ==
    ASSUME NEW c, RecordKnown(c)
    PROVE  c \in Convs
<1>1. ASSUME NEW d, DraftKnown(d)  PROVE d \in Drafts
  <2>1. /\ d = [field \in {"item", "price", "has", "asked", "step"} |-> d[field]]
        /\ d.item \in Items \cup {None} /\ d.price \in Prices \cup {None}
        /\ d.has \subseteq Slots /\ d.asked \in BOOLEAN /\ d.step \in Steps
        BY <1>1, Zenon DEF DraftKnown
  <2>2. ASSUME NEW B, d.asked \in B
        PROVE  d \in [item : Items \cup {None}, price : Prices \cup {None},
                      has : SUBSET Slots, asked : B, step : Steps]
    <3>1. d = [item |-> d.item, price |-> d.price, has |-> d.has, asked |-> d.asked,
               step |-> d.step]
      <4>1. d = [field \in {"item", "price", "has", "asked", "step"} |-> d[field]]
            BY <2>1, Zenon
      <4> QED  BY <4>1
    <3>2. /\ d.item \in Items \cup {None} /\ d.price \in Prices \cup {None}
          /\ d.has \subseteq Slots /\ d.step \in Steps
          BY <2>1, Zenon
    <3> QED  BY <2>2, <3>1, <3>2
  <2> QED  BY <2>1, <2>2, Zenon DEF Drafts
<1>2. c.draft \in [Types -> Drafts \cup {None}]  BY <1>1 DEF RecordKnown
<1> QED  BY <1>2 DEF RecordKnown, Convs, Decisions

THEOREM ConversationTypes == Spec => []TypeOK
<1>1. IInv => TypeOK
  <2> SUFFICES ASSUME IInv  PROVE TypeOK
      OBVIOUS
  <2>1. conv \in Convs  BY RecordOfConvs DEF IInv, Good
  <2>2. ASSUME NEW h \in DOMAIN task, task[h] # Idle  PROVE task[h].to \in Convs
    <3>1. PICK x : x = task[h]  OBVIOUS
    <3>2. RecordKnown(x.to)
      <4>1. CASE h \in Handlers
        <5>1. Duty(x) /\ x # Idle  BY <2>2, <3>1, <4>1 DEF IInv
        <5>2. Good(x.to, IF x.work = "count" THEN counted + 1 ELSE counted)
              BY <5>1, DutyFacts, Zenon
        <5> QED  BY <5>2 DEF Good
      <4>2. CASE h = Admin  BY <2>2, <3>1, <4>2 DEF IInv, Dropping
      <4> QED  BY <4>1, <4>2 DEF IInv
    <3> QED  BY <3>1, <3>2, RecordOfConvs
  <2>3. active \in [Kinds -> Seq(Prices)] /\ paused \in [Kinds -> Prices \cup {None}]
        /\ archive \subseteq Items \cup {None} /\ counted \in Nat
        BY DEF IInv, RowsTyped
  <2>4. /\ member \in BOOLEAN /\ charge \in {"running", "stopped", "refused"}
        /\ offered \in BOOLEAN /\ review \in Posts \cup {None}
        /\ fate \in {"none", "sending", "seen", "lost"}
        BY Zenon DEF IInv, FlagsTyped
  <2> QED  BY <2>1, <2>2, <2>3, <2>4, Zenon DEF TypeOK
<1> QED  BY <1>1, ConversationInvariant, PTL

(* Never two drafts, never a held request that waits for none: a reply      *)
(* "replace" or "add" is always about something (flow.ts 3399, 3452).       *)
THEOREM DraftsAreSingle == Spec => []OneDraft
<1>1. IInv => OneDraft  BY DEF IInv, Good, Single, Waits, OneDraft
<1> QED  BY <1>1, ConversationInvariant, PTL

(* Nothing is posted but what the last review Fi wrote asks to confirm      *)
(* (flow.ts 2721, 2764), whatever went wrong before; and who waits for the  *)
(* replies has seen that review, unless it was lost after the record was    *)
(* saved (flow.ts 3466, server.ts 377, 410).                                *)
THEOREM PostedAsReviewed == Spec => []ReviewedBeforePosted
<1>1. IInv => ReviewedBeforePosted
  <2> SUFFICES ASSUME IInv, NEW h \in Handlers, task[h] # Idle,
                      task[h].work \in {"archive", "look", "update", "insert"}
               PROVE  task[h].post = review /\ Reached
      BY DEF ReviewedBeforePosted, Reached
  <2>1. PICK x : x = task[h]  OBVIOUS
  <2>2. Duty(x) /\ x # Idle /\ Posting(x)  BY <2>1 DEF IInv, Posting
  <2>3. x.post = review /\ Reached  BY <2>2, DutyFacts, Zenon
  <2> QED  BY <2>1, <2>3
<1> QED  BY <1>1, ConversationInvariant, PTL

(* A match is shown as approved only after its approval was counted         *)
(* (flow.ts 1682).                                                          *)
THEOREM ApprovedAfterCount == Spec => []ApprovalsCounted
<1>1. IInv => ApprovalsCounted  BY DEF IInv, Good, Approved, ApprovalsCounted
<1> QED  BY <1>1, ConversationInvariant, PTL

(* A draft confirmed twice updates the posting it made (postingsStore.ts    *)
(* 285, flow.ts 2870): none is inserted beside an active one.               *)
THEOREM InsertedOnce == Spec => ConfirmedOnce
<1> DEFINE Fits == \A h \in Handlers :
        task[h] # Idle /\ task[h].work = "insert" /\ active' # active =>
            active[<<task[h].post.type, task[h].post.item>>] = <<>>
<1>1. IInv /\ [Next]_vars => [Fits]_vars
  <2> SUFFICES ASSUME IInv, NEW h \in Handlers, task[h] # Idle, task[h].work = "insert"
               PROVE  active[<<task[h].post.type, task[h].post.item>>] = <<>>
      OBVIOUS
  <2>1. PICK x : x = task[h]  OBVIOUS
  <2>2. Duty(x) /\ x # Idle /\ x.work = "insert"  BY <2>1 DEF IInv
  <2>3. active[<<x.post.type, x.post.item>>] = <<>>  BY <2>2, DutyFacts, Zenon
  <2> QED  BY <2>1, <2>3
<1> HIDE DEF Fits
<1>2. ConfirmedOnce <=> [][Fits]_vars  BY DEF ConfirmedOnce, Fits
<1> QED  BY <1>1, <1>2, ConversationInvariant, PTL DEF Spec

-----------------------------------------------------------------------------
(* Who opts out: only a handler that has ended the plan, or an admin whose  *)
(* tool goes on to end it.                                                  *)

LEMMA StageStays ==
    ASSUME RecordKnown(conv), conv.stage # "opted_out", NEW m,
           \/ Start(m) \/ Stop(m) \/ Ignored(m) \/ Join(m) \/ Help(m)
           \/ MembershipCancelTrigger(m) \/ AccountQuestion(m) \/ Greeting(m) \/ LinkCode(m)
           \/ MyListings(m) \/ MarketLookup(m) \/ Inventory(m) \/ CancelCommand(m)
           \/ ListingEdit(m) \/ PriceEdit(m) \/ ListingsMenu(m) \/ Setting(m)
           \/ NotificationChannel(m) \/ Decision(m) \/ PhotoRequest(m) \/ Escrow(m)
           \/ EscrowYes(m) \/ MenuChoice(m) \/ FireReply(m) \/ ChannelReply(m)
           \/ HeldReply(m) \/ Restate(m) \/ Conflict(m) \/ Answer(m)
           \/ FollowUpReply(m) \/ NaturalDecision(m) \/ Routed(m)
    PROVE  conv'.stage # "opted_out"
<1>1. {"stage", "prompts", "held", "unclear", "followUp", "matches", "draft", "confused"}
      = DOMAIN conv
      BY DEF RecordKnown
<1>2. CASE conv' = conv  BY <1>2
<1>3. CASE \/ Stop(m) \/ Ignored(m) \/ Join(m) \/ Help(m)
           \/ MembershipCancelTrigger(m) \/ AccountQuestion(m) \/ Greeting(m) \/ LinkCode(m)
           \/ MyListings(m) \/ MarketLookup(m) \/ Inventory(m)
           \/ ListingEdit(m) \/ PriceEdit(m) \/ Setting(m)
           \/ NotificationChannel(m) \/ PhotoRequest(m)
           \/ FollowUpReply(m) \/ NaturalDecision(m) \/ Routed(m)
  <2>1. conv' = conv
        BY <1>3, Zenon DEF Stop, Ignored, Join, Help, MembershipCancelTrigger,
               AccountQuestion, Greeting, LinkCode, MyListings, MarketLookup, Inventory,
               ListingEdit, PriceEdit, Setting, NotificationChannel, PhotoRequest,
               FollowUpReply, NaturalDecision, Routed, Command, Save, Await, Suspend
  <2> QED  BY <1>2, <2>1
<1>4. CASE Start(m)  BY <1>1, <1>4 DEF Start, Save
<1>5. CASE \/ CancelCommand(m) \/ ListingsMenu(m) \/ Escrow(m) \/ EscrowYes(m)
      BY <1>1, <1>5 DEF CancelCommand, ListingsMenu, Escrow, EscrowYes, Command, Save, Cleared
<1>6. \/ Past.stage = conv.stage /\ DOMAIN Past = DOMAIN conv
      BY <1>1 DEF Past
<1>7. CASE MenuChoice(m)
      BY <1>2, <1>6, <1>7 DEF MenuChoice, Save, Await, Suspend
<1>8. CASE FireReply(m) \/ ChannelReply(m)
      BY <1>1, <1>2, <1>6, <1>8 DEF FireReply, ChannelReply, Save, Await, Suspend
<1>9. CASE HeldReply(m) \/ Restate(m) \/ Conflict(m)
      BY <1>1, <1>2, <1>6, <1>9 DEF HeldReply, Restate, Conflict, Save, SaveAndAwait
<1>10. CASE Answer(m)
  <2>1. conv' = conv
        BY <1>10, Zenon DEF Answer, AwaitPost, Await, Suspend
  <2> QED  BY <1>2, <2>1
<1>11. CASE Decision(m)
  <2>1. PICK out : out = HandleDecision(conv, m.says)  OBVIOUS
  <2>2. IF m.says = "pass" THEN Save(out.to) ELSE Await(out.work, out.to, FALSE)
        BY <1>11, <2>1, Zenon DEF Decision
  <2>3. conv' = conv \/ (m.says = "pass" /\ conv' = out.to)
        BY <2>2, Zenon DEF Save, Await, Suspend
  <2>4. m.says = "pass" => out.to.stage = conv.stage
    <3>1. ASSUME NEW i  PROVE Decided(conv, i, "passed").stage = conv.stage
          BY <1>1 DEF Decided
    <3>2. m.says = "pass" =>
              \/ out = [work |-> "answer", to |-> conv]
              \/ out = [work |-> "answer", to |-> Decided(conv, LatestPending(conv), "passed")]
          BY <2>1, Zenon DEF HandleDecision
    <3> QED  BY <3>1, <3>2
  <2> QED  BY <2>3, <2>4
<1> QED  BY <1>3, <1>4, <1>5, <1>7, <1>8, <1>9, <1>10, <1>11, Zenon

(* Whoever is opted out by STOP has no plan left, and its charge was        *)
(* stopped, or the processor refused (flow.ts 2985).                        *)
THEOREM PlanEndsFirst == Spec => StopEndsPlan
<1> DEFINE Ends == conv.stage # "opted_out" /\ conv'.stage = "opted_out" =>
                       \/ ~member' /\ charge' # "running"
                       \/ task[Admin] = Idle /\ task'[Admin] # Idle
<1>1. IInv /\ [Next]_vars => [Ends]_vars
  <2> SUFFICES ASSUME IInv, Next, conv.stage # "opted_out", conv'.stage = "opted_out"
               PROVE  \/ ~member' /\ charge' # "running"
                      \/ task[Admin] = Idle /\ task'[Admin] # Idle
      OBVIOUS
  <2>1. RecordKnown(conv)  BY DEF IInv, Good
  <2>2. ASSUME Message  PROVE FALSE
    <3>1. \A m : \/ Start(m) \/ Stop(m) \/ Ignored(m) \/ Join(m) \/ Help(m)
                 \/ MembershipCancelTrigger(m) \/ AccountQuestion(m) \/ Greeting(m)
                 \/ LinkCode(m) \/ MyListings(m) \/ MarketLookup(m) \/ Inventory(m)
                 \/ CancelCommand(m) \/ ListingEdit(m) \/ PriceEdit(m) \/ ListingsMenu(m)
                 \/ Setting(m) \/ NotificationChannel(m) \/ Decision(m) \/ PhotoRequest(m)
                 \/ Escrow(m) \/ EscrowYes(m) \/ MenuChoice(m) \/ FireReply(m)
                 \/ ChannelReply(m) \/ HeldReply(m) \/ Restate(m) \/ Conflict(m)
                 \/ Answer(m) \/ FollowUpReply(m) \/ NaturalDecision(m) \/ Routed(m)
                 => conv'.stage # "opted_out"
          BY <2>1, StageStays
    <3> QED  BY <2>2, <3>1, Zenon DEF Message
  <2>3. ASSUME NEW h \in Handlers \cup {Admin},
               StopCharge(h) \/ DropPlan(h) \/ PersistSellIntake(h) \/ LookUp(h)
               \/ WritePosting(h) \/ RecordApproval(h) \/ Fail(h)
        PROVE  FALSE
    <3>1. conv' = conv
          BY <2>3, Zenon DEF StopCharge, DropPlan, PersistSellIntake, LookUp, WritePosting,
                             RecordApproval, Fail
    <3> QED  BY <3>1
  <2>0. ASSUME ReviewSent \/ ReviewLost  PROVE FALSE
        BY <2>0 DEF ReviewSent, ReviewLost
  <2>4. ASSUME CardSent \/ MatchDecision \/ UnblockIdentity \/ ResetUserAccount  PROVE FALSE
    <3>1. CASE CardSent  BY <3>1 DEF CardSent
    <3>2. CASE MatchDecision
      <4>1. [conv EXCEPT !.prompts = @ \cup {"escrow"}].stage = conv.stage
            BY <2>1 DEF RecordKnown
      <4>2. conv' = conv \/ conv' = [conv EXCEPT !.prompts = @ \cup {"escrow"}]
        <5>1. PICK marks \in BOOLEAN :
                  conv' = IF marks THEN [conv EXCEPT !.prompts = @ \cup {"escrow"}] ELSE conv
              BY <3>2, Zenon DEF MatchDecision
        <5> DEFINE e == [conv EXCEPT !.prompts = @ \cup {"escrow"}]
        <5>2. conv' = IF marks THEN e ELSE conv  BY <5>1
        <5> HIDE DEF e
        <5>3. conv' = conv \/ conv' = e  BY <5>2
        <5> QED  BY <5>3 DEF e
      <4> QED  BY <4>1, <4>2
    <3>3. CASE UnblockIdentity  BY <3>3 DEF UnblockIdentity
    <3>4. CASE ResetUserAccount
      <4>1. conv' = Fresh /\ Fresh.stage = "new"  BY <3>4 DEF ResetUserAccount, Fresh
      <4> QED  BY <4>1
    <3> QED  BY <2>4, <3>1, <3>2, <3>3, <3>4
  <2>5. ASSUME NEW h \in Handlers \cup {Admin}, SaveState(h)
        PROVE  ~member' /\ charge' # "running"
    <3>1. PICK x : x = task[h]  OBVIOUS
    <3>2. x # Idle /\ x.work = "answer" /\ conv' = x.to  BY <2>5, <3>1 DEF SaveState
    <3>3. member' = member /\ charge' = charge  BY <2>5, Zenon DEF SaveState
    <3>4. h \in Handlers  BY <3>1, <3>2, NotAdmin
    <3>5. Duty(x)  BY <3>1, <3>4 DEF IInv
    <3>6. x.to.stage = "opted_out" => x.work \in {"drop", "unplan"} \/ Ended
          BY <3>2, <3>5, DutyFacts, Zenon
    <3>7. x.to.stage = "opted_out" /\ x.work \notin {"drop", "unplan"}  BY <3>2
    <3> QED  BY <3>3, <3>6, <3>7, Zenon DEF Ended
  <2>6. ASSUME BlockIdentity  PROVE task[Admin] = Idle /\ task'[Admin] # Idle
    <3>1. PICK x : x = [work |-> "drop", to |-> conv, shows |-> FALSE]  OBVIOUS
    <3>2. task' = [task EXCEPT ![Admin] = x]  BY <2>6, <3>1 DEF BlockIdentity
    <3>3. task'[Admin] = x  BY <3>2 DEF IInv
    <3>4. x # Idle  BY <3>1, AwaitFields
    <3>5. task[Admin] = Idle  BY <2>6 DEF BlockIdentity
    <3> QED  BY <3>3, <3>4, <3>5
  <2> QED  BY <2>2, <2>3, <2>4, <2>5, <2>6, <2>0, Zenon DEF Next
<1> HIDE DEF Ends
<1>2. StopEndsPlan <=> [][Ends]_vars  BY DEF StopEndsPlan, Ends
<1> QED  BY <1>1, <1>2, ConversationInvariant, PTL DEF Spec
=============================================================================
