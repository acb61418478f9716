---------------------------- MODULE OutreachProofs ----------------------------
(* Who is asked what, and how often, for any handlers that overlap, any     *)
(* failures and restarts: theorems about Outreach, as it is part of         *)
(* Services.                                                                *)
EXTENDS Services, Integers, Sequences, Bags, FiniteSetTheorems, TLAPS

(* A task of each kind.                                                     *)
PhotoTask == [pc : {"look", "ask", "mark"}, who : Buyers, of : Listings]
ImageTask == [pc : {"append", "forward"}, who : {None}, of : Listings,
              to : Buyers \cup {None}, first : BOOLEAN]
FindTask == [pc : {"find"}, who : {None}]
RemindTask == [pc : {"remind", "claim"}, who : {None}, of : Postings \cup {None},
               todo : SUBSET (Postings \X Nat)]
OfferTask == [pc : {"offer", "tell"}, who : {None}, of : Requests, todo : SUBSET Dealers,
              to : Dealers \cup {None}]
IsLookupTask(x) == /\ x = [field \in {"pc", "who", "free"} |-> x[field]]
                   /\ x.pc \in {"usage", "weekly", "record", "count"} /\ x.who \in Phones
                   /\ x.pc = "weekly" => ~x.free
IsBlastTask(x) == /\ x = [field \in {"pc", "who", "todo", "state"} |-> x[field]]
                  /\ x.pc \in {"read", "intro"} /\ x.who = None

TaskKnown(x) ==
    \/ x = O!Idle \/ x \in PhotoTask \/ x \in ImageTask \/ x \in FindTask
    \/ x \in RemindTask /\ (x.pc = "claim" => x.of \in Postings)
    \/ x \in OfferTask /\ (x.pc = "tell" => x.to \in Dealers)
    \/ IsLookupTask(x) \/ IsBlastTask(x)

RequestKnown(r) ==
    /\ r = [status |-> r.status, age |-> r.age, at |-> r.at, asker |-> r.asker]
    /\ r.status \in {"none", "requested", "received"} /\ r.age \in {"fresh", "old", "over"}
    /\ r.asker \in Buyers \cup {None}

PostingKnown(r) ==
    /\ r = [field \in {"status", "expires", "near", "reminded"} |-> r[field]]
    /\ r.status \in {"active", "sold", "expired"}
    /\ r.expires \in Nat /\ r.reminded \in Nat /\ r.reminded <= r.expires

UsageKnown(u) == /\ u = [field \in {"total", "free", "paid"} |-> u[field]]
                 /\ u.total \in Nat /\ u.free \in Nat /\ u.paid \in Nat

TasksTyped == DOMAIN task = Tasks /\ \A t \in Tasks : TaskKnown(task[t])
PhotosTyped == DOMAIN photo = Listings /\ \A l \in Listings : RequestKnown(photo[l])
PostingsTyped == DOMAIN posting = Postings /\ \A p \in Postings : PostingKnown(posting[p])
OffersTyped == DOMAIN offer \subseteq Requests \X Dealers /\ covers \subseteq Dealers
CountsTyped == /\ UsageKnown(usage) /\ missed \in Nat
               /\ IsABag(asked) /\ IsABag(pardon)
FlagsTyped == reminding \in BOOLEAN /\ blast \in {"idle", "running", "completed"}

TypeInv == TasksTyped /\ PhotosTyped /\ PostingsTyped /\ OffersTyped /\ CountsTyped /\ FlagsTyped

-----------------------------------------------------------------------------
(* Tasks, and bags of messages.                                             *)

LEMMA Noting ==
    ASSUME NEW b, NEW S, IsABag(b)
    PROVE  /\ IsABag(O!Noted(b, S))
           /\ \A k : O!Count(k, O!Noted(b, S)) = O!Count(k, b) + (IF k \in S THEN 1 ELSE 0)
BY DEF O!Noted, O!Count, IsABag, O!BagToSet, O!SetToBag, O!(+)

LEMMA Counted ==
    ASSUME NEW b, IsABag(b)
    PROVE  \A k : O!Count(k, b) \in Nat /\ (O!Count(k, b) = 0 <=> k \notin DOMAIN b)
BY DEF O!Count, IsABag, O!BagToSet

LEMMA TaskIs ==
    ASSUME TypeInv, NEW t \in Tasks
    PROVE  LET x == task[t] IN
           /\ x.pc \in {"look", "ask", "mark"} => x \in PhotoTask
           /\ x.pc \in {"append", "forward"} => x \in ImageTask
           /\ x.pc = "find" => x \in FindTask
           /\ x.pc \in {"remind", "claim"} => x \in RemindTask
           /\ x.pc = "claim" => x.of \in Postings
           /\ x.pc \in {"offer", "tell"} => x \in OfferTask
           /\ x.pc = "tell" => x.to \in Dealers
           /\ x.pc \in {"usage", "weekly", "record", "count"} => IsLookupTask(x)
           /\ x.pc \in {"read", "intro"} => IsBlastTask(x)
           /\ x.pc = "idle" => x = O!Idle
<1> DEFINE x == task[t]
<1>1. TaskKnown(x)
    BY DEF TypeInv, TasksTyped
<1> HIDE DEF x
<1>2. CASE x = O!Idle
    BY <1>2 DEF O!Idle, x
<1>3. CASE x \in PhotoTask
    BY <1>3 DEF PhotoTask, x
<1>4. CASE x \in ImageTask
    BY <1>4 DEF ImageTask, x
<1>5. CASE x \in FindTask
    BY <1>5 DEF FindTask, x
<1>6. CASE x \in RemindTask /\ (x.pc = "claim" => x.of \in Postings)
    BY <1>6 DEF RemindTask, x
<1>7. CASE x \in OfferTask /\ (x.pc = "tell" => x.to \in Dealers)
    BY <1>7 DEF OfferTask, x
<1>8. CASE IsLookupTask(x)
    BY <1>8 DEF IsLookupTask, x
<1>9. CASE IsBlastTask(x)
    BY <1>9 DEF IsBlastTask, x
<1> QED
    BY <1>1, <1>2, <1>3, <1>4, <1>5, <1>6, <1>7, <1>8, <1>9 DEF TaskKnown

LEMMA Turning ==
    ASSUME TypeInv, NEW t \in Tasks, NEW y, task' = [task EXCEPT ![t] = y], TaskKnown(y)
    PROVE  /\ TasksTyped' /\ task'[t] = y
           /\ \A u \in Tasks : u # t => task'[u] = task[u]
<1>1. DOMAIN task = Tasks /\ \A u \in Tasks : TaskKnown(task[u])
    BY DEF TypeInv, TasksTyped
<1>2. /\ DOMAIN task' = Tasks /\ task'[t] = y
      /\ \A u \in Tasks : u # t => task'[u] = task[u]
    BY <1>1
<1>3. \A u \in Tasks : TaskKnown(task'[u])
    BY <1>1, <1>2
<1> QED
    BY <1>2, <1>3 DEF TasksTyped, TaskKnown, O!Idle, IsLookupTask, IsBlastTask

Only(t) == \A u \in Tasks : u # t => task'[u] = task[u]
Tables == <<photo, posting, reminding, offer, covers, usage, blast, missed>>

LEMMA TablesStay ==
    ASSUME TypeInv, TasksTyped', UNCHANGED Tables, IsABag(asked'), IsABag(pardon')
    PROVE  TypeInv'
BY DEF Tables, TypeInv, PhotosTyped, PostingsTyped, OffersTyped, CountsTyped, FlagsTyped,
   RequestKnown

-----------------------------------------------------------------------------
(* What each action does: photo requests.                                   *)

LEMMA RequestBegins ==
    ASSUME TypeInv, NEW t \in Tasks, NEW b \in Buyers, NEW l \in Listings,
           O!RequestPhotosForMatch(t, b, l)
    PROVE  /\ UNCHANGED <<Tables, asked, pardon>> /\ TypeInv' /\ Only(t)
           /\ task[t].pc = "idle" /\ O!Free(b)
           /\ task'[t].pc = "look" /\ task'[t].who = b
<1> DEFINE y == [pc |-> "look", who |-> b, of |-> l]
<1>1. /\ UNCHANGED <<Tables, asked, pardon>> /\ task[t].pc = "idle" /\ O!Free(b)
      /\ task' = [task EXCEPT ![t] = y]
    BY DEF O!RequestPhotosForMatch, O!Begin, O!At, O!history, Tables
<1>2. TaskKnown(y)
    BY DEF TaskKnown, PhotoTask
<1> HIDE DEF y
<1>3. TasksTyped' /\ task'[t] = y /\ Only(t)
    BY <1>1, <1>2, Turning DEF Only
<1>4. TypeInv'
    BY <1>1, <1>3, TablesStay DEF TypeInv, CountsTyped
<1> QED
    BY <1>1, <1>3, <1>4 DEF y

LEMMA RequestLooks ==
    ASSUME TypeInv, NEW t \in Tasks, O!GetPhotoRequestRecord(t)
    PROVE  /\ UNCHANGED <<Tables, asked, pardon>> /\ TypeInv' /\ Only(t) /\ task[t].pc = "look"
           /\ \/ task'[t] = O!Idle
              \/ /\ ~O!Duplicate(task[t].of) /\ task'[t].pc = "ask"
                 /\ task'[t].who = task[t].who /\ task'[t].of = task[t].of
<1> DEFINE x == task[t]
           z == [x EXCEPT !.pc = "ask"]
<1>1. /\ UNCHANGED <<Tables, asked, pardon>> /\ x.pc = "look"
      /\ \/ task' = [task EXCEPT ![t] = O!Idle]
         \/ ~O!Duplicate(x.of) /\ task' = [task EXCEPT ![t] = z]
    BY DEF O!GetPhotoRequestRecord, O!At, O!Goto, O!Ends, O!history, Tables
<1>2. z \in PhotoTask /\ z.pc = "ask" /\ z.who = x.who /\ z.of = x.of
    <2>1. x \in PhotoTask
        BY <1>1, TaskIs
    <2> QED
        BY <2>1 DEF PhotoTask
<1>3. TaskKnown(z) /\ TaskKnown(O!Idle)
    BY <1>2 DEF TaskKnown
<1> HIDE DEF z
<1>4. /\ TasksTyped' /\ Only(t)
      /\ \/ task'[t] = O!Idle
         \/ ~O!Duplicate(x.of) /\ task'[t] = z
    BY <1>1, <1>3, Turning DEF Only
<1>5. TypeInv'
    BY <1>1, <1>4, TablesStay DEF TypeInv, CountsTyped
<1> QED
    BY <1>1, <1>2, <1>4, <1>5

LEMMA SellerAsked ==
    ASSUME TypeInv, NEW t \in Tasks, O!AskSeller(t)
    PROVE  /\ UNCHANGED <<Tables, pardon>> /\ TypeInv' /\ Only(t) /\ task[t].pc = "ask"
           /\ task'[t].pc = "mark" /\ task'[t].who = task[t].who /\ task'[t].of = task[t].of
           /\ asked' = O!Noted(asked, {<<"photo", task[t].of, task[t].who>>})
<1> DEFINE x == task[t]
           z == [x EXCEPT !.pc = "mark"]
<1>1. /\ UNCHANGED <<Tables, pardon>> /\ x.pc = "ask" /\ task' = [task EXCEPT ![t] = z]
      /\ asked' = O!Noted(asked, {<<"photo", task[t].of, task[t].who>>})
    BY DEF O!AskSeller, O!At, O!Goto, Tables
<1>2. z \in PhotoTask /\ z.pc = "mark" /\ z.who = x.who /\ z.of = x.of
    <2>1. x \in PhotoTask
        BY <1>1, TaskIs
    <2> QED
        BY <2>1 DEF PhotoTask
<1>3. TaskKnown(z)
    BY <1>2 DEF TaskKnown
<1> HIDE DEF z
<1>4. TasksTyped' /\ Only(t) /\ task'[t] = z
    BY <1>1, <1>3, Turning DEF Only
<1>5. IsABag(asked') /\ IsABag(pardon')
    BY <1>1, Noting DEF TypeInv, CountsTyped
<1>6. TypeInv'
    BY <1>1, <1>4, <1>5, TablesStay
<1> QED
    BY <1>1, <1>2, <1>4, <1>6

LEMMA RequestMarked ==
    ASSUME TypeInv, NEW t \in Tasks, O!MarkPhotoRequested(t)
    PROVE  /\ UNCHANGED <<posting, reminding, offer, covers, usage, blast, missed, asked, pardon>>
           /\ TypeInv' /\ Only(t) /\ task[t].pc = "mark" /\ task'[t] = O!Idle
           /\ \A l \in Listings : O!Duplicate(l) \/ l = task[t].of => O!Duplicate(l)'
<1> DEFINE x == task[t]
<1>1. /\ UNCHANGED <<posting, reminding, offer, covers, usage, blast, missed, asked, pardon>>
      /\ x.pc = "mark" /\ task' = [task EXCEPT ![t] = O!Idle]
      /\ photo' = [photo EXCEPT ![x.of] = [status |-> "requested", age |-> "fresh",
                                           at |-> O!Later, asker |-> x.who]]
    BY DEF O!MarkPhotoRequested, O!At, O!Ends, O!history
<1>2. x.of \in Listings /\ x.who \in Buyers
    BY <1>1, TaskIs DEF PhotoTask
<1>3. DOMAIN photo = Listings /\ \A l \in Listings : RequestKnown(photo[l])
    BY DEF TypeInv, PhotosTyped
<1>4. /\ DOMAIN photo' = Listings /\ \A l \in Listings : l # x.of => photo'[l] = photo[l]
      /\ photo'[x.of] = [status |-> "requested", age |-> "fresh", at |-> O!Later, asker |-> x.who]
    BY <1>1, <1>2, <1>3
<1>5. RequestKnown(photo'[x.of])
    BY <1>2, <1>4 DEF RequestKnown
<1>6. PhotosTyped'
    BY <1>3, <1>4, <1>5 DEF PhotosTyped, RequestKnown
<1>7. TasksTyped' /\ Only(t) /\ task'[t] = O!Idle
    BY <1>1, Turning DEF Only, TaskKnown
<1>8. TypeInv'
    BY <1>1, <1>6, <1>7 DEF TypeInv, PostingsTyped, OffersTyped, CountsTyped, FlagsTyped
<1>9. ASSUME NEW l \in Listings, O!Duplicate(l) \/ l = x.of PROVE O!Duplicate(l)'
    BY <1>4, <1>9 DEF O!Duplicate
<1> QED
    BY <1>1, <1>7, <1>8, <1>9

LEMMA ImageComes ==
    ASSUME TypeInv, NEW t \in Tasks, NEW s, O!HandleIncomingSellerPhoto(t, s)
    PROVE  /\ UNCHANGED <<Tables, asked, pardon>> /\ TypeInv' /\ Only(t)
           /\ task[t].pc = "idle" /\ task'[t].pc = "append"
<1>1. UNCHANGED <<Tables, asked, pardon>> /\ task[t].pc = "idle"
    BY DEF O!HandleIncomingSellerPhoto, O!Begin, O!At, O!history, Tables
<1>2. PICK l \in Listings :
          task' = [task EXCEPT ![t] = [pc |-> "append", who |-> None, of |-> l,
                                       to |-> photo[l].asker,
                                       first |-> photo[l].status = "requested"]]
    BY DEF O!HandleIncomingSellerPhoto, O!Asked, O!Begin
<1> DEFINE y == [pc |-> "append", who |-> None, of |-> l, to |-> photo[l].asker,
                 first |-> photo[l].status = "requested"]
<1>3. photo[l].asker \in Buyers \cup {None}
    BY DEF TypeInv, PhotosTyped, RequestKnown
<1>4. y \in ImageTask /\ y.pc = "append"
    BY <1>3 DEF ImageTask
<1>5. TaskKnown(y)
    BY <1>4 DEF TaskKnown
<1> HIDE DEF y
<1>6. task' = [task EXCEPT ![t] = y]
    BY <1>2 DEF y
<1>7. TasksTyped' /\ Only(t) /\ task'[t] = y
    BY <1>5, <1>6, Turning DEF Only
<1>8. TypeInv'
    BY <1>1, <1>7, TablesStay DEF TypeInv, CountsTyped
<1> QED
    BY <1>1, <1>4, <1>7, <1>8

LEMMA ImageKept ==
    ASSUME TypeInv, NEW t \in Tasks, O!AppendReceivedPhoto(t)
    PROVE  /\ UNCHANGED <<posting, reminding, offer, covers, usage, blast, missed, asked>>
           /\ TypeInv' /\ Only(t) /\ task[t].pc = "append" /\ task'[t].pc = "forward"
           /\ \A l \in Listings : l # task[t].of /\ O!Duplicate(l) => O!Duplicate(l)'
           /\ task[t].of \in Listings
           /\ pardon' = O!Noted(pardon, {<<"photo", task[t].of, b>> : b \in Buyers})
<1> DEFINE x == task[t]
           z == [x EXCEPT !.pc = "forward"]
<1>1. /\ UNCHANGED <<posting, reminding, offer, covers, usage, blast, missed, asked>>
      /\ x.pc = "append" /\ task' = [task EXCEPT ![t] = z]
      /\ photo' = [photo EXCEPT ![x.of].status = "received"]
      /\ pardon' = O!Noted(pardon, {<<"photo", x.of, b>> : b \in Buyers})
    BY DEF O!AppendReceivedPhoto, O!At, O!Goto
<1>2. x \in ImageTask /\ x.of \in Listings
    BY <1>1, TaskIs DEF ImageTask
<1>3. z \in ImageTask /\ z.pc = "forward"
    BY <1>2 DEF ImageTask
<1>4. TaskKnown(z)
    BY <1>3 DEF TaskKnown
<1>5. DOMAIN photo = Listings /\ \A l \in Listings : RequestKnown(photo[l])
    BY DEF TypeInv, PhotosTyped
<1>6. /\ DOMAIN photo' = Listings /\ \A l \in Listings : l # x.of => photo'[l] = photo[l]
      /\ photo'[x.of] = [photo[x.of] EXCEPT !.status = "received"]
    BY <1>1, <1>2, <1>5
<1>7. RequestKnown(photo'[x.of])
    BY <1>2, <1>5, <1>6 DEF RequestKnown
<1>8. PhotosTyped'
    BY <1>5, <1>6, <1>7 DEF PhotosTyped, RequestKnown
<1> HIDE DEF z
<1>9. TasksTyped' /\ Only(t) /\ task'[t] = z
    BY <1>1, <1>4, Turning DEF Only
<1>10. IsABag(asked') /\ IsABag(pardon')
    BY <1>1, Noting DEF TypeInv, CountsTyped
<1>11. TypeInv'
    BY <1>1, <1>8, <1>9, <1>10 DEF TypeInv, PostingsTyped, OffersTyped, CountsTyped, FlagsTyped
<1>12. \A l \in Listings : l # x.of /\ O!Duplicate(l) => O!Duplicate(l)'
    BY <1>6 DEF O!Duplicate
<1> QED
    BY <1>1, <1>2, <1>3, <1>9, <1>11, <1>12

LEMMA ImageForwarded ==
    ASSUME TypeInv, NEW t \in Tasks, O!ForwardPhoto(t)
    PROVE  /\ UNCHANGED <<Tables, pardon>> /\ TypeInv' /\ Only(t)
           /\ task[t].pc = "forward" /\ task'[t] = O!Idle
           /\ \E S : /\ asked' = O!Noted(asked, S)
                     /\ \A k \in S : k[1] \in {"image", "card"}
<1> DEFINE S == {<<"image", task[t].of, task[t].to>>}
                    \cup IF task[t].first THEN {<<"card", task[t].of, task[t].to>>} ELSE {}
<1>1. /\ UNCHANGED <<Tables, pardon>> /\ task[t].pc = "forward"
      /\ task' = [task EXCEPT ![t] = O!Idle] /\ asked' = O!Noted(asked, S)
    BY DEF O!ForwardPhoto, O!At, O!Ends, Tables
<1>2. \A k \in S : k[1] \in {"image", "card"}
    OBVIOUS
<1> HIDE DEF S
<1>3. TasksTyped' /\ Only(t) /\ task'[t] = O!Idle
    BY <1>1, Turning DEF Only, TaskKnown
<1>4. IsABag(asked') /\ IsABag(pardon')
    BY <1>1, Noting DEF TypeInv, CountsTyped
<1>5. TypeInv'
    BY <1>1, <1>3, <1>4, TablesStay
<1> QED
    BY <1>1, <1>2, <1>3, <1>5

LEMMA RequestOlder ==
    ASSUME TypeInv, NEW l \in Listings, O!RequestAges(l)
    PROVE  /\ UNCHANGED <<posting, reminding, offer, covers, usage, blast, missed, asked, task>>
           /\ TypeInv'
           /\ \A k \in Listings : k # l /\ O!Duplicate(k) => O!Duplicate(k)'
           /\ pardon' = O!Noted(pardon, {<<"photo", l, b>> : b \in Buyers})
<1>1. /\ UNCHANGED <<posting, reminding, offer, covers, usage, blast, missed, asked, task>>
      /\ photo' = [photo EXCEPT ![l].age = IF @ = "fresh" THEN "old" ELSE "over"]
      /\ pardon' = O!Noted(pardon, {<<"photo", l, b>> : b \in Buyers})
    BY DEF O!RequestAges
<1>2. DOMAIN photo = Listings /\ \A k \in Listings : RequestKnown(photo[k])
    BY DEF TypeInv, PhotosTyped
<1>3. /\ DOMAIN photo' = Listings /\ \A k \in Listings : k # l => photo'[k] = photo[k]
      /\ photo'[l] = [photo[l] EXCEPT !.age = IF @ = "fresh" THEN "old" ELSE "over"]
    BY <1>1, <1>2
<1>4. RequestKnown(photo'[l])
    BY <1>2, <1>3 DEF RequestKnown
<1>5. PhotosTyped'
    BY <1>2, <1>3, <1>4 DEF PhotosTyped, RequestKnown
<1>6. IsABag(asked') /\ IsABag(pardon')
    BY <1>1, Noting DEF TypeInv, CountsTyped
<1>7. TypeInv'
    BY <1>1, <1>5, <1>6 DEF TypeInv, TasksTyped, PostingsTyped, OffersTyped, CountsTyped,
       FlagsTyped, TaskKnown, O!Idle, IsLookupTask, IsBlastTask
<1>8. \A k \in Listings : k # l /\ O!Duplicate(k) => O!Duplicate(k)'
    BY <1>3 DEF O!Duplicate
<1> QED
    BY <1>1, <1>7, <1>8

-----------------------------------------------------------------------------
(* Reminders.                                                               *)

LEMMA RemindersBegin ==
    ASSUME TypeInv, NEW t \in Tasks, O!SendExpirationReminders(t)
    PROVE  /\ UNCHANGED <<photo, posting, offer, covers, usage, blast, missed, asked, pardon>>
           /\ TypeInv' /\ Only(t) /\ task[t].pc = "idle" /\ task'[t].pc = "find"
           /\ reminding # TRUE /\ reminding' = TRUE
<1> DEFINE y == [pc |-> "find", who |-> None]
<1>1. /\ UNCHANGED <<photo, posting, offer, covers, usage, blast, missed, asked, pardon>>
      /\ task[t].pc = "idle" /\ ~reminding /\ reminding' = TRUE
      /\ task' = [task EXCEPT ![t] = y]
    BY DEF O!SendExpirationReminders, O!Begin, O!At, O!history
<1>2. y \in FindTask /\ y.pc = "find"
    BY DEF FindTask
<1>3. TaskKnown(y)
    BY <1>2 DEF TaskKnown
<1> HIDE DEF y
<1>4. TasksTyped' /\ Only(t) /\ task'[t] = y
    BY <1>1, <1>3, Turning DEF Only
<1>5. TypeInv'
    BY <1>1, <1>4 DEF TypeInv, PhotosTyped, PostingsTyped, OffersTyped, CountsTyped, FlagsTyped,
       RequestKnown
<1> QED
    BY <1>1, <1>2, <1>4, <1>5

Due(p) == posting[p].reminded # posting[p].expires

LEMMA PostingsFound ==
    ASSUME TypeInv, NEW t \in Tasks, O!FindPostingsNeedingReminder(t)
    PROVE  /\ UNCHANGED <<Tables, asked, pardon>> /\ TypeInv' /\ Only(t)
           /\ task[t].pc = "find" /\ task'[t].pc = "remind"
           /\ \A c \in task'[t].todo : /\ c[1] \in Postings /\ c = <<c[1], c[2]>>
                                       /\ c[2] = posting[c[1]].expires /\ Due(c[1])
<1> DEFINE todo == {<<p, posting[p].expires>> : p \in {q \in Postings : O!NeedsReminder(q)}}
           y == [pc |-> "remind", who |-> None, of |-> None, todo |-> todo]
<1>1. /\ UNCHANGED <<Tables, asked, pardon>> /\ task[t].pc = "find"
      /\ task' = [task EXCEPT ![t] = y]
    BY DEF O!FindPostingsNeedingReminder, O!At, O!history, Tables
<1>2. \A p \in Postings : posting[p].expires \in Nat
    BY DEF TypeInv, PostingsTyped, PostingKnown
<1>3. /\ todo \subseteq Postings \X Nat
      /\ \A c \in todo : /\ c[1] \in Postings /\ c = <<c[1], c[2]>>
                         /\ c[2] = posting[c[1]].expires /\ Due(c[1])
    BY <1>2 DEF O!NeedsReminder, Due
<1> HIDE DEF todo
<1>4. y \in RemindTask /\ y.pc = "remind" /\ y.todo = todo
    BY <1>3 DEF RemindTask
<1>5. TaskKnown(y)
    BY <1>4 DEF TaskKnown
<1> HIDE DEF y
<1>6. TasksTyped' /\ Only(t) /\ task'[t] = y
    BY <1>1, <1>5, Turning DEF Only
<1>7. TypeInv'
    BY <1>1, <1>6, TablesStay DEF TypeInv, CountsTyped
<1> QED
    BY <1>1, <1>3, <1>4, <1>6, <1>7

LEMMA Reminded ==
    ASSUME TypeInv, NEW t \in Tasks, O!Remind(t)
    PROVE  /\ UNCHANGED <<Tables, pardon>> /\ TypeInv' /\ Only(t)
           /\ task[t].pc = "remind" /\ task'[t].pc = "claim"
           /\ \E c \in task[t].todo :
                 /\ asked' = O!Noted(asked, {<<"reminder", c[1], c[2]>>})
                 /\ task'[t].todo = task[t].todo \ {c} /\ task'[t].of = c[1]
<1> DEFINE x == task[t]
<1>1. UNCHANGED <<Tables, pardon>> /\ x.pc = "remind"
    BY DEF O!Remind, O!At, Tables
<1>2. PICK c \in x.todo :
          /\ asked' = O!Noted(asked, {<<"reminder", c[1], c[2]>>})
          /\ task' = [task EXCEPT ![t].todo = @ \ {c}, ![t].of = c[1], ![t].pc = "claim"]
    BY DEF O!Remind
<1> DEFINE z == [x EXCEPT !.todo = @ \ {c}, !.of = c[1], !.pc = "claim"]
<1>3. x \in RemindTask
    BY <1>1, TaskIs
<1>4. /\ z \in RemindTask /\ z.pc = "claim" /\ z.todo = x.todo \ {c} /\ z.of = c[1]
      /\ z.of \in Postings
    BY <1>3 DEF RemindTask
<1>5. TaskKnown(z)
    BY <1>4 DEF TaskKnown
<1>6. task' = [task EXCEPT ![t] = z]
    <2>1. DOMAIN task = Tasks
        BY DEF TypeInv, TasksTyped
    <2> QED
        BY <1>2, <2>1
<1> HIDE DEF z
<1>7. TasksTyped' /\ Only(t) /\ task'[t] = z
    BY <1>5, <1>6, Turning DEF Only
<1>8. IsABag(asked') /\ IsABag(pardon')
    BY <1>1, <1>2, Noting DEF TypeInv, CountsTyped
<1>9. TypeInv'
    BY <1>1, <1>7, <1>8, TablesStay
<1> QED
    BY <1>1, <1>2, <1>4, <1>7, <1>9

LEMMA ReminderClaimed ==
    ASSUME TypeInv, NEW t \in Tasks, O!ClaimReminderForPosting(t)
    PROVE  /\ UNCHANGED <<photo, reminding, offer, covers, usage, blast, missed, asked, pardon>>
           /\ TypeInv' /\ Only(t) /\ task[t].pc = "claim" /\ task'[t].pc = "remind"
           /\ task'[t].todo = task[t].todo
           /\ \A p \in Postings :
                 /\ posting'[p].expires = posting[p].expires
                 /\ p = task[t].of => posting'[p].reminded = posting[p].expires
                 /\ p # task[t].of => posting'[p] = posting[p]
<1> DEFINE x == task[t]
           z == [x EXCEPT !.pc = "remind"]
           q == x.of
           row == [posting[q] EXCEPT !.reminded = posting[q].expires]
<1>1. /\ UNCHANGED <<photo, reminding, offer, covers, usage, blast, missed, asked, pardon>>
      /\ x.pc = "claim" /\ task' = [task EXCEPT ![t] = z]
      /\ posting' = [posting EXCEPT ![q].reminded = posting[q].expires]
    BY DEF O!ClaimReminderForPosting, O!At, O!Goto, O!history
<1>2. x \in RemindTask /\ q \in Postings
    BY <1>1, TaskIs
<1>3. z \in RemindTask /\ z.pc = "remind" /\ z.todo = x.todo
    BY <1>2 DEF RemindTask
<1>4. TaskKnown(z)
    BY <1>3 DEF TaskKnown
<1>5. DOMAIN posting = Postings /\ \A p \in Postings : PostingKnown(posting[p])
    BY DEF TypeInv, PostingsTyped
<1>6. /\ PostingKnown(row) /\ row.reminded = posting[q].expires
      /\ row.expires = posting[q].expires
    BY <1>2, <1>5 DEF PostingKnown
<1>7. posting' = [posting EXCEPT ![q] = row]
    BY <1>1, <1>2, <1>5
<1> HIDE DEF row, q, z
<1>8. /\ DOMAIN posting' = Postings /\ posting'[q] = row
      /\ \A p \in Postings : p # q => posting'[p] = posting[p]
    BY <1>2, <1>5, <1>7
<1>9. PostingsTyped'
    BY <1>5, <1>6, <1>8 DEF PostingsTyped, PostingKnown
<1>10. TasksTyped' /\ Only(t) /\ task'[t] = z
    BY <1>1, <1>4, Turning DEF Only
<1>11. TypeInv'
    BY <1>1, <1>9, <1>10 DEF TypeInv, PhotosTyped, OffersTyped, CountsTyped, FlagsTyped,
       RequestKnown
<1> QED
    BY <1>1, <1>3, <1>6, <1>8, <1>10, <1>11 DEF q

LEMMA RemindersEnd ==
    ASSUME TypeInv, NEW t \in Tasks, O!RemindersDone(t)
    PROVE  /\ UNCHANGED <<photo, posting, offer, covers, usage, blast, missed, asked, pardon>>
           /\ TypeInv' /\ Only(t) /\ task[t].pc = "remind" /\ task'[t] = O!Idle
           /\ reminding' = FALSE
<1>1. /\ UNCHANGED <<photo, posting, offer, covers, usage, blast, missed, asked, pardon>>
      /\ task[t].pc = "remind" /\ task' = [task EXCEPT ![t] = O!Idle] /\ reminding' = FALSE
    BY DEF O!RemindersDone, O!At, O!Ends, O!history
<1>2. TasksTyped' /\ Only(t) /\ task'[t] = O!Idle
    BY <1>1, Turning DEF Only, TaskKnown
<1>3. TypeInv'
    BY <1>1, <1>2 DEF TypeInv, PhotosTyped, PostingsTyped, OffersTyped, CountsTyped, FlagsTyped,
       RequestKnown
<1> QED
    BY <1>1, <1>2, <1>3

LEMMA Extended ==
    ASSUME NEW r, PostingKnown(r), NEW v
    PROVE  LET z == [r EXCEPT !.expires = @ + 1, !.near = v] IN
           PostingKnown(z) /\ z.reminded = r.reminded /\ r.expires <= z.expires
<1> DEFINE z == [r EXCEPT !.expires = @ + 1, !.near = v]
<1>1. z.status = r.status /\ z.reminded = r.reminded
    BY DEF PostingKnown
<1>2. z.expires = r.expires + 1
    BY DEF PostingKnown
<1>3. z = [field \in {"status", "expires", "near", "reminded"} |-> z[field]]
    BY DEF PostingKnown
<1> HIDE DEF z
<1>4. PostingKnown(z) /\ r.expires <= z.expires
    BY <1>1, <1>2, <1>3 DEF PostingKnown
<1> QED
    BY <1>1, <1>4 DEF z

LEMMA Nearing ==
    ASSUME NEW r, PostingKnown(r), NEW v
    PROVE  LET z == [r EXCEPT !.near = v] IN
           PostingKnown(z) /\ z.reminded = r.reminded /\ z.expires = r.expires
BY DEF PostingKnown

LEMMA PostingMoves ==
    ASSUME TypeInv, NEW p \in Postings, O!PostingChanges(p)
    PROVE  /\ UNCHANGED <<photo, reminding, offer, covers, usage, blast, task, missed, asked,
                          pardon>>
           /\ TypeInv'
           /\ \A q \in Postings : /\ posting'[q].reminded = posting[q].reminded
                                  /\ posting[q].expires <= posting'[q].expires
<1>1. UNCHANGED <<photo, reminding, offer, covers, usage, blast, task, missed, asked, pardon>>
    BY DEF O!PostingChanges, O!history
<1>2. /\ DOMAIN posting = Postings /\ PostingKnown(posting[p])
      /\ \A q \in Postings : PostingKnown(posting[q])
    BY DEF TypeInv, PostingsTyped
<1>3. \E row : /\ posting' = [posting EXCEPT ![p] = row] /\ PostingKnown(row)
               /\ row.reminded = posting[p].reminded /\ posting[p].expires <= row.expires
    <2> DEFINE a == [posting[p] EXCEPT !.expires = @ + 1, !.near = FALSE]
               b == [posting[p] EXCEPT !.status = "sold"]
               c == [posting[p] EXCEPT !.status = "expired"]
               d == [posting[p] EXCEPT !.near = TRUE]
    <2>1. PostingKnown(a) /\ a.reminded = posting[p].reminded /\ posting[p].expires <= a.expires
        BY <1>2, Extended
    <2>2. PostingKnown(b) /\ b.reminded = posting[p].reminded /\ posting[p].expires <= b.expires
        BY <1>2 DEF PostingKnown
    <2>3. PostingKnown(c) /\ c.reminded = posting[p].reminded /\ posting[p].expires <= c.expires
        BY <1>2 DEF PostingKnown
    <2>4. PostingKnown(d) /\ d.reminded = posting[p].reminded /\ posting[p].expires <= d.expires
        <3>1. PostingKnown(d) /\ d.reminded = posting[p].reminded /\ d.expires = posting[p].expires
            BY <1>2, Nearing, Zenon
        <3> HIDE DEF d
        <3> QED
            BY <3>1 DEF PostingKnown
    <2>5. \/ posting' = [posting EXCEPT ![p] = a] \/ posting' = [posting EXCEPT ![p] = b]
          \/ posting' = [posting EXCEPT ![p] = c] \/ posting' = [posting EXCEPT ![p] = d]
        BY <1>2 DEF O!PostingChanges
    <2> HIDE DEF a, b, c, d
    <2> QED
        BY <2>1, <2>2, <2>3, <2>4, <2>5
<1>4. PICK row : /\ posting' = [posting EXCEPT ![p] = row] /\ PostingKnown(row)
                 /\ row.reminded = posting[p].reminded /\ posting[p].expires <= row.expires
    BY <1>3
<1>7. /\ DOMAIN posting' = Postings /\ posting'[p] = row
      /\ \A q \in Postings : q # p => posting'[q] = posting[q]
    BY <1>2, <1>4
<1>8. \A q \in Postings : /\ posting'[q].reminded = posting[q].reminded
                          /\ posting[q].expires <= posting'[q].expires
    BY <1>2, <1>4, <1>7 DEF PostingKnown
<1>9. PostingsTyped'
    BY <1>2, <1>4, <1>7 DEF PostingsTyped, PostingKnown
<1>10. TypeInv'
    BY <1>1, <1>9 DEF TypeInv, TasksTyped, PhotosTyped, OffersTyped, CountsTyped, FlagsTyped,
       RequestKnown, TaskKnown, O!Idle, IsLookupTask, IsBlastTask
<1> QED
    BY <1>1, <1>8, <1>10

-----------------------------------------------------------------------------
(* Offers.                                                                  *)

LEMMA OffersBegin ==
    ASSUME TypeInv, NEW t \in Tasks, NEW w \in Requests, O!FulfillWtb(t, w)
    PROVE  /\ UNCHANGED <<Tables, asked, pardon>> /\ TypeInv' /\ Only(t)
           /\ task[t].pc = "idle" /\ task'[t].pc = "offer"
<1> DEFINE y == [pc |-> "offer", who |-> None, of |-> w, todo |-> covers, to |-> None]
<1>1. /\ UNCHANGED <<Tables, asked, pardon>> /\ task[t].pc = "idle"
      /\ task' = [task EXCEPT ![t] = y]
    BY DEF O!FulfillWtb, O!Begin, O!At, O!history, Tables
<1>2. y \in OfferTask /\ y.pc = "offer"
    BY DEF OfferTask, TypeInv, OffersTyped
<1>3. TaskKnown(y)
    BY <1>2 DEF TaskKnown
<1> HIDE DEF y
<1>4. TasksTyped' /\ Only(t) /\ task'[t] = y
    BY <1>1, <1>3, Turning DEF Only
<1>5. TypeInv'
    BY <1>1, <1>4, TablesStay DEF TypeInv, CountsTyped
<1> QED
    BY <1>1, <1>2, <1>4, <1>5

LEMMA OfferClaimed ==
    ASSUME TypeInv, NEW t \in Tasks, O!ClaimOpportunity(t)
    PROVE  /\ UNCHANGED <<photo, posting, reminding, covers, usage, blast, missed, asked, pardon>>
           /\ TypeInv' /\ Only(t) /\ task[t].pc = "offer" /\ task'[t].of = task[t].of
           /\ \/ /\ task'[t].pc = "tell"
                 /\ <<task[t].of, task'[t].to>> \notin DOMAIN offer
                 /\ DOMAIN offer' = DOMAIN offer \cup {<<task[t].of, task'[t].to>>}
              \/ task'[t].pc = "offer" /\ UNCHANGED offer
<1> DEFINE x == task[t]
<1>1. /\ UNCHANGED <<photo, posting, reminding, covers, usage, blast, missed, asked, pardon>>
      /\ x.pc = "offer"
    BY DEF O!ClaimOpportunity, O!At, O!history
<1>2. x \in OfferTask
    BY <1>1, TaskIs
<1>3. PICK d \in x.todo :
          LET key == <<x.of, d>> new == key \notin DOMAIN offer IN
          /\ offer' = IF new THEN [k \in DOMAIN offer \cup {key} |->
                                      IF k = key THEN "pending" ELSE offer[k]]
                      ELSE offer
          /\ task' = [task EXCEPT ![t].todo = @ \ {d}, ![t].to = d,
                                  ![t].pc = IF new THEN "tell" ELSE @]
    BY DEF O!ClaimOpportunity
<1> DEFINE key == <<x.of, d>>
           pc == IF key \notin DOMAIN offer THEN "tell" ELSE x.pc
           z == [x EXCEPT !.todo = @ \ {d}, !.to = d, !.pc = pc]
<1>4. d \in Dealers /\ x.of \in Requests /\ pc \in {"offer", "tell"}
    BY <1>1, <1>2 DEF OfferTask
<1>5. z \in OfferTask /\ z.pc = pc /\ z.to = d /\ z.of = x.of
    BY <1>2, <1>4 DEF OfferTask
<1>6. TaskKnown(z)
    BY <1>4, <1>5 DEF TaskKnown
<1>7. task' = [task EXCEPT ![t] = z]
    <2>1. DOMAIN task = Tasks
        BY DEF TypeInv, TasksTyped
    <2> QED
        BY <1>3, <2>1
<1>8. /\ key \notin DOMAIN offer => DOMAIN offer' = DOMAIN offer \cup {key}
      /\ key \in DOMAIN offer => UNCHANGED offer
    BY <1>3
<1> HIDE DEF z
<1>9. TasksTyped' /\ Only(t) /\ task'[t] = z
    BY <1>6, <1>7, Turning DEF Only
<1>10. OffersTyped'
    <2>1. DOMAIN offer' \subseteq Requests \X Dealers
        BY <1>4, <1>8 DEF TypeInv, OffersTyped
    <2> QED
        BY <1>1, <2>1 DEF TypeInv, OffersTyped
<1>11. TypeInv'
    BY <1>1, <1>9, <1>10 DEF TypeInv, PhotosTyped, PostingsTyped, CountsTyped, FlagsTyped,
       RequestKnown
<1> QED
    BY <1>1, <1>5, <1>8, <1>9, <1>11

LEMMA DealerTold ==
    ASSUME TypeInv, NEW t \in Tasks, O!TellDealer(t)
    PROVE  /\ UNCHANGED <<Tables, pardon>> /\ TypeInv' /\ Only(t)
           /\ task[t].pc = "tell" /\ task'[t].pc = "offer"
           /\ asked' = O!Noted(asked, {<<"offer", task[t].of, task[t].to>>})
<1> DEFINE x == task[t]
           z == [x EXCEPT !.pc = "offer"]
<1>1. /\ UNCHANGED <<Tables, pardon>> /\ x.pc = "tell" /\ task' = [task EXCEPT ![t] = z]
      /\ asked' = O!Noted(asked, {<<"offer", x.of, x.to>>})
    BY DEF O!TellDealer, O!At, O!Goto, Tables
<1>2. z \in OfferTask /\ z.pc = "offer"
    <2>1. x \in OfferTask
        BY <1>1, TaskIs
    <2> QED
        BY <2>1 DEF OfferTask
<1>3. TaskKnown(z)
    BY <1>2 DEF TaskKnown
<1> HIDE DEF z
<1>4. TasksTyped' /\ Only(t) /\ task'[t] = z
    BY <1>1, <1>3, Turning DEF Only
<1>5. IsABag(asked') /\ IsABag(pardon')
    BY <1>1, Noting DEF TypeInv, CountsTyped
<1>6. TypeInv'
    BY <1>1, <1>4, <1>5, TablesStay
<1> QED
    BY <1>1, <1>2, <1>4, <1>6

LEMMA OffersEnd ==
    ASSUME TypeInv, NEW t \in Tasks, O!Fulfilled(t)
    PROVE  /\ UNCHANGED <<Tables, asked, pardon>> /\ TypeInv' /\ Only(t)
           /\ task[t].pc = "offer" /\ task'[t] = O!Idle
<1>1. /\ UNCHANGED <<Tables, asked, pardon>> /\ task[t].pc = "offer"
      /\ task' = [task EXCEPT ![t] = O!Idle]
    BY DEF O!Fulfilled, O!At, O!Ends, O!history, Tables
<1>2. TasksTyped' /\ Only(t) /\ task'[t] = O!Idle
    BY <1>1, Turning DEF Only, TaskKnown
<1>3. TypeInv'
    BY <1>1, <1>2, TablesStay DEF TypeInv, CountsTyped
<1> QED
    BY <1>1, <1>2, <1>3

LEMMA DealerAnswers ==
    ASSUME TypeInv,
           \/ \E w \in Requests, d \in Dealers : O!HandleOpportunityResponse(w, d)
           \/ \E d \in Dealers : O!HandleCoverageCommand(d)
    PROVE  /\ UNCHANGED <<photo, posting, reminding, usage, blast, task, missed, asked, pardon>>
           /\ TypeInv' /\ DOMAIN offer' = DOMAIN offer
<1>1. UNCHANGED <<photo, posting, reminding, usage, blast, task, missed, asked, pardon>>
    BY DEF O!HandleOpportunityResponse, O!HandleCoverageCommand, O!history
<1>2. DOMAIN offer' = DOMAIN offer
    BY DEF O!HandleOpportunityResponse, O!HandleCoverageCommand
<1>3. covers' \subseteq Dealers
    BY DEF O!HandleOpportunityResponse, O!HandleCoverageCommand, TypeInv, OffersTyped
<1>4. TypeInv'
    BY <1>1, <1>2, <1>3 DEF TypeInv, TasksTyped, PhotosTyped, PostingsTyped, OffersTyped,
       CountsTyped, FlagsTyped, RequestKnown, TaskKnown, O!Idle, IsLookupTask, IsBlastTask
<1> QED
    BY <1>1, <1>2, <1>4

-----------------------------------------------------------------------------
(* Look-ups.                                                                *)

LEMMA LookupBegins ==
    ASSUME TypeInv, NEW t \in Tasks, NEW ph \in Phones, O!LookUp(t, ph)
    PROVE  /\ UNCHANGED <<Tables, asked, pardon>> /\ TypeInv' /\ Only(t)
           /\ task[t].pc = "idle" /\ O!Free(ph)
           /\ task'[t].pc = "usage" /\ task'[t].who = ph
<1> DEFINE y == [pc |-> "usage", who |-> ph, free |-> FALSE]
<1>1. /\ UNCHANGED <<Tables, asked, pardon>> /\ task[t].pc = "idle" /\ O!Free(ph)
      /\ task' = [task EXCEPT ![t] = y]
    BY DEF O!LookUp, O!Begin, O!At, O!history, Tables
<1>2. IsLookupTask(y) /\ y.pc = "usage" /\ y.who = ph
    BY DEF IsLookupTask
<1>3. TaskKnown(y)
    BY <1>2 DEF TaskKnown
<1> HIDE DEF y
<1>4. TasksTyped' /\ task'[t] = y /\ Only(t)
    BY <1>1, <1>3, Turning DEF Only
<1>5. TypeInv'
    BY <1>1, <1>4, TablesStay DEF TypeInv, CountsTyped
<1> QED
    BY <1>1, <1>2, <1>4, <1>5

LEMMA UsageRead ==
    ASSUME TypeInv, NEW t \in Tasks, O!GetMarketPulseUsage(t)
    PROVE  /\ UNCHANGED <<Tables, asked, pardon>> /\ TypeInv' /\ Only(t)
           /\ task[t].pc = "usage" /\ task'[t].who = task[t].who
           /\ \/ usage.total < Trial /\ task'[t].pc = "record" /\ task'[t].free
              \/ task'[t].pc = "weekly"
<1> DEFINE x == task[t]
           v == usage.total < Trial
           pc == IF v THEN "record" ELSE "weekly"
           z == [x EXCEPT !.free = v, !.pc = pc]
<1>1. /\ UNCHANGED <<Tables, asked, pardon>> /\ x.pc = "usage"
      /\ task' = [task EXCEPT ![t].free = v, ![t].pc = pc]
    BY DEF O!GetMarketPulseUsage, O!At, O!history, Tables
<1>2. IsLookupTask(x) /\ DOMAIN task = Tasks
    BY <1>1, TaskIs DEF TypeInv, TasksTyped
<1>3. task' = [task EXCEPT ![t] = z]
    BY <1>1, <1>2, Zenon
<1>4. IsLookupTask(z) /\ z.pc = pc /\ z.who = x.who /\ (z.free <=> v)
    <2>1. pc \in {"usage", "weekly", "record", "count"} /\ (pc = "weekly" => ~v)
        OBVIOUS
    <2> HIDE DEF v, pc
    <2>2. z.pc = pc /\ z.who = x.who /\ z.free = v
        BY <1>2 DEF IsLookupTask
    <2>3. z = [field \in {"pc", "who", "free"} |-> z[field]]
        BY <1>2 DEF IsLookupTask
    <2> HIDE DEF z
    <2>4. IsLookupTask(z)
        BY <1>2, <2>1, <2>2, <2>3 DEF IsLookupTask
    <2> QED
        BY <2>2, <2>4
<1>5. TaskKnown(z)
    BY <1>4 DEF TaskKnown
<1> HIDE DEF z
<1>6. TasksTyped' /\ task'[t] = z /\ Only(t)
    BY <1>3, <1>5, Turning DEF Only
<1>7. TypeInv'
    BY <1>1, <1>6, TablesStay DEF TypeInv, CountsTyped
<1> QED
    BY <1>1, <1>4, <1>6, <1>7

LEMMA GateEvaluated ==
    ASSUME TypeInv, NEW t \in Tasks, O!EvaluateMarketPulseGate(t)
    PROVE  /\ UNCHANGED <<Tables, asked, pardon>> /\ TypeInv' /\ Only(t)
           /\ task[t].pc = "weekly"
           /\ \/ task'[t] = O!Idle
              \/ /\ ~(usage.paid >= WeeklyLimit) /\ task'[t].pc = "record"
                 /\ task'[t].who = task[t].who /\ ~task'[t].free
<1> DEFINE x == task[t]
           z == [x EXCEPT !.pc = "record"]
<1>1. /\ UNCHANGED <<Tables, asked, pardon>> /\ x.pc = "weekly"
      /\ \/ task' = [task EXCEPT ![t] = O!Idle]
         \/ ~(usage.paid >= WeeklyLimit) /\ task' = [task EXCEPT ![t] = z]
    BY DEF O!EvaluateMarketPulseGate, O!At, O!Goto, O!Ends, O!history, Tables
<1>2. IsLookupTask(z) /\ z.pc = "record" /\ z.who = x.who /\ ~z.free
    <2>1. IsLookupTask(x) /\ ~x.free
        BY <1>1, TaskIs DEF IsLookupTask
    <2> QED
        BY <2>1 DEF IsLookupTask
<1>3. TaskKnown(z) /\ TaskKnown(O!Idle)
    BY <1>2 DEF TaskKnown
<1> HIDE DEF z
<1>4. /\ TasksTyped' /\ Only(t)
      /\ \/ task'[t] = O!Idle
         \/ ~(usage.paid >= WeeklyLimit) /\ task'[t] = z
    BY <1>1, <1>3, Turning DEF Only
<1>5. TypeInv'
    BY <1>1, <1>4, TablesStay DEF TypeInv, CountsTyped
<1> QED
    BY <1>1, <1>2, <1>4, <1>5

LEMMA LookupRecorded ==
    ASSUME TypeInv, NEW t \in Tasks, O!RecordMarketPulseLookup(t)
    PROVE  /\ UNCHANGED <<photo, posting, reminding, offer, covers, blast, missed, asked, pardon>>
           /\ TypeInv' /\ Only(t) /\ task[t].pc = "record"
           /\ task'[t].pc = "count" /\ task'[t].who = task[t].who
           /\ usage'.total = usage.total
           /\ IF task[t].free THEN usage'.free = usage.free + 1 /\ usage'.paid = usage.paid
              ELSE usage'.free = usage.free /\ usage'.paid = usage.paid + 1
<1> DEFINE x == task[t]
           z == [x EXCEPT !.pc = "count"]
<1>1. /\ UNCHANGED <<photo, posting, reminding, offer, covers, blast, missed, asked, pardon>>
      /\ x.pc = "record" /\ task' = [task EXCEPT ![t] = z]
    BY DEF O!RecordMarketPulseLookup, O!At, O!Goto, O!history
<1>2. UsageKnown(usage)
    BY DEF TypeInv, CountsTyped
<1>3. /\ UsageKnown(usage') /\ usage'.total = usage.total
      /\ IF x.free THEN usage'.free = usage.free + 1 /\ usage'.paid = usage.paid
         ELSE usage'.free = usage.free /\ usage'.paid = usage.paid + 1
    <2> DEFINE f == IF x.free THEN usage.free + 1 ELSE usage.free
               p == IF x.free THEN usage.paid ELSE usage.paid + 1
    <2>1. usage' = [usage EXCEPT !.free = f, !.paid = p]
        BY DEF O!RecordMarketPulseLookup
    <2>2. f \in Nat /\ p \in Nat
        BY <1>2 DEF UsageKnown
    <2> HIDE DEF f, p
    <2>3. usage'.total = usage.total /\ usage'.free = f /\ usage'.paid = p
        BY <1>2, <2>1 DEF UsageKnown
    <2>4. usage' = [field \in {"total", "free", "paid"} |-> usage'[field]]
        BY <1>2, <2>1 DEF UsageKnown
    <2>5. UsageKnown(usage')
        BY <1>2, <2>2, <2>3, <2>4 DEF UsageKnown
    <2> QED
        BY <2>3, <2>5 DEF f, p
<1>4. IsLookupTask(z) /\ z.pc = "count" /\ z.who = x.who
    <2>1. IsLookupTask(x)
        BY <1>1, TaskIs
    <2> QED
        BY <2>1 DEF IsLookupTask
<1>5. TaskKnown(z)
    BY <1>4 DEF TaskKnown
<1> HIDE DEF z
<1>6. TasksTyped' /\ task'[t] = z /\ Only(t)
    BY <1>1, <1>5, Turning DEF Only
<1>7. TypeInv'
    BY <1>1, <1>3, <1>6 DEF TypeInv, PhotosTyped, PostingsTyped, OffersTyped, CountsTyped,
       FlagsTyped, RequestKnown, PostingKnown
<1> QED
    BY <1>1, <1>3, <1>4, <1>6, <1>7

LEMMA LookupCounted ==
    ASSUME TypeInv, NEW t \in Tasks, O!CountLookup(t)
    PROVE  /\ UNCHANGED <<photo, posting, reminding, offer, covers, blast, missed, asked, pardon>>
           /\ TypeInv' /\ Only(t) /\ task[t].pc = "count" /\ task'[t] = O!Idle
           /\ usage'.total = usage.total + 1
           /\ usage'.free = usage.free /\ usage'.paid = usage.paid
<1>1. /\ UNCHANGED <<photo, posting, reminding, offer, covers, blast, missed, asked, pardon>>
      /\ task[t].pc = "count" /\ task' = [task EXCEPT ![t] = O!Idle]
      /\ usage' = [usage EXCEPT !.total = @ + 1]
    BY DEF O!CountLookup, O!At, O!Ends, O!history
<1>2. UsageKnown(usage)
    BY DEF TypeInv, CountsTyped
<1>3. /\ UsageKnown(usage') /\ usage'.total = usage.total + 1
      /\ usage'.free = usage.free /\ usage'.paid = usage.paid
    BY <1>1, <1>2 DEF UsageKnown
<1>4. TasksTyped' /\ task'[t] = O!Idle /\ Only(t)
    BY <1>1, Turning DEF Only, TaskKnown
<1>5. TypeInv'
    BY <1>1, <1>3, <1>4 DEF TypeInv, PhotosTyped, PostingsTyped, OffersTyped, CountsTyped,
       FlagsTyped, RequestKnown, PostingKnown
<1> QED
    BY <1>1, <1>3, <1>4, <1>5

-----------------------------------------------------------------------------
(* The batch, failures and restarts.                                        *)

Unseen == <<photo, posting, reminding, offer, covers, usage, missed>>

LEMMA BlastBegins ==
    ASSUME TypeInv, NEW t \in Tasks, O!OutreachStart(t)
    PROVE  /\ UNCHANGED <<Unseen, asked, pardon>> /\ TypeInv' /\ Only(t)
           /\ task[t].pc = "idle" /\ task'[t].pc = "read"
<1> DEFINE y == [pc |-> "read", who |-> None, todo |-> O!PlanOutreachBatch, state |-> None]
<1>1. /\ UNCHANGED <<Unseen, asked, pardon>> /\ task[t].pc = "idle" /\ blast' = "running"
      /\ task' = [task EXCEPT ![t] = y]
    BY DEF O!OutreachStart, O!Begin, O!At, O!history, Unseen
<1>2. IsBlastTask(y) /\ y.pc = "read"
    BY DEF IsBlastTask
<1>3. TaskKnown(y)
    BY <1>2 DEF TaskKnown
<1> HIDE DEF y
<1>4. TasksTyped' /\ task'[t] = y /\ Only(t)
    BY <1>1, <1>3, Turning DEF Only
<1>5. TypeInv'
    BY <1>1, <1>4 DEF Unseen, TypeInv, PhotosTyped, PostingsTyped, OffersTyped, CountsTyped,
       FlagsTyped, RequestKnown, PostingKnown, UsageKnown
<1> QED
    BY <1>1, <1>2, <1>4, <1>5

LEMMA ContactRead ==
    ASSUME TypeInv, NEW t \in Tasks, O!ReadContact(t)
    PROVE  /\ UNCHANGED <<Tables, asked, pardon>> /\ TypeInv' /\ Only(t)
           /\ task[t].pc = "read" /\ task'[t].pc = "intro"
<1> DEFINE x == task[t]
           stage == contact[Head(x.todo)]
           z == [x EXCEPT !.state = stage, !.pc = "intro"]
<1>1. /\ UNCHANGED <<Tables, asked, pardon>> /\ x.pc = "read"
      /\ task' = [task EXCEPT ![t].state = stage, ![t].pc = "intro"]
    BY DEF O!ReadContact, O!At, O!history, Tables
<1> HIDE DEF stage
<1>2. IsBlastTask(x) /\ DOMAIN task = Tasks
    BY <1>1, TaskIs DEF TypeInv, TasksTyped
<1>3. task' = [task EXCEPT ![t] = z]
    BY <1>1, <1>2
<1>4. IsBlastTask(z) /\ z.pc = "intro"
    BY <1>2 DEF IsBlastTask
<1>5. TaskKnown(z)
    BY <1>4 DEF TaskKnown
<1> HIDE DEF z
<1>6. TasksTyped' /\ task'[t] = z /\ Only(t)
    BY <1>3, <1>5, Turning DEF Only
<1>7. TypeInv'
    BY <1>1, <1>6, TablesStay DEF TypeInv, CountsTyped
<1> QED
    BY <1>1, <1>4, <1>6, <1>7

LEMMA IntroSent ==
    ASSUME TypeInv, NEW t \in Tasks, O!SendIntro(t)
    PROVE  /\ UNCHANGED <<Tables, pardon>> /\ TypeInv' /\ Only(t)
           /\ task[t].pc = "intro" /\ task'[t].pc = "read"
           /\ asked' = O!Noted(asked, {<<"intro", Head(task[t].todo), None>>})
<1> DEFINE x == task[t]
           rest == Tail(x.todo)
           z == [x EXCEPT !.todo = rest, !.pc = "read"]
<1>1. /\ UNCHANGED <<Tables, pardon>> /\ x.pc = "intro"
      /\ task' = [task EXCEPT ![t].todo = rest, ![t].pc = "read"]
      /\ asked' = O!Noted(asked, {<<"intro", Head(x.todo), None>>})
    BY DEF O!SendIntro, O!At, Tables
<1> HIDE DEF rest
<1>2. IsBlastTask(x) /\ DOMAIN task = Tasks
    BY <1>1, TaskIs DEF TypeInv, TasksTyped
<1>3. task' = [task EXCEPT ![t] = z]
    BY <1>1, <1>2
<1>4. IsBlastTask(z) /\ z.pc = "read"
    BY <1>2 DEF IsBlastTask
<1>5. TaskKnown(z)
    BY <1>4 DEF TaskKnown
<1> HIDE DEF z
<1>6. TasksTyped' /\ task'[t] = z /\ Only(t)
    BY <1>3, <1>5, Turning DEF Only
<1>7. IsABag(asked') /\ IsABag(pardon')
    BY <1>1, Noting DEF TypeInv, CountsTyped
<1>8. TypeInv'
    BY <1>1, <1>6, <1>7, TablesStay
<1> QED
    BY <1>1, <1>4, <1>6, <1>8

LEMMA BatchEnds ==
    ASSUME TypeInv, NEW t \in Tasks, O!BatchDone(t)
    PROVE  /\ UNCHANGED <<Unseen, asked, pardon>> /\ TypeInv' /\ Only(t)
           /\ task[t].pc = "read" /\ task'[t] = O!Idle
<1>1. /\ UNCHANGED <<Unseen, asked, pardon>> /\ task[t].pc = "read" /\ blast' = "completed"
      /\ task' = [task EXCEPT ![t] = O!Idle]
    BY DEF O!BatchDone, O!At, O!Ends, O!history, Unseen
<1>2. TasksTyped' /\ task'[t] = O!Idle /\ Only(t)
    BY <1>1, Turning DEF Only, TaskKnown
<1>3. TypeInv'
    BY <1>1, <1>2 DEF Unseen, TypeInv, PhotosTyped, PostingsTyped, OffersTyped, CountsTyped,
       FlagsTyped, RequestKnown, PostingKnown, UsageKnown
<1> QED
    BY <1>1, <1>2, <1>3

LEMMA ContactMoves ==
    ASSUME TypeInv, NEW c, O!ContactAnswers(c)
    PROVE  UNCHANGED <<Tables, task, asked, pardon>> /\ TypeInv'
<1>1. UNCHANGED <<Tables, task, asked, pardon>>
    BY DEF O!ContactAnswers, O!history, Tables
<1>2. TypeInv'
    BY <1>1 DEF Tables, TypeInv, TasksTyped, PhotosTyped, PostingsTyped, OffersTyped,
       CountsTyped, FlagsTyped, RequestKnown, PostingKnown, UsageKnown, TaskKnown, O!Idle,
       IsLookupTask, IsBlastTask
<1> QED
    BY <1>1, <1>2

LEMMA SendingIs ==
    ASSUME TypeInv, NEW t \in Tasks
    PROVE  LET x == task[t] S == O!Sending(t) IN
           /\ x.pc \in {"ask", "mark"} => S = {<<"photo", x.of, x.who>>}
           /\ x.pc = "remind" => S = {<<"reminder", c[1], c[2]>> : c \in x.todo}
           /\ x.pc = "claim" => S = {<<"reminder", x.of, posting[x.of].expires>>}
           /\ x.pc = "tell" => S = {<<"offer", x.of, x.to>>}
           /\ x.pc = "intro" => S = {<<"intro", Head(x.todo), None>>}
           /\ x.pc \notin {"ask", "mark", "remind", "claim", "tell", "intro"} => S = {}
<1> DEFINE x == task[t]
<1>1. CASE x.pc = "ask"
    BY <1>1 DEF O!Sending, O!At
<1>2. CASE x.pc = "mark"
    BY <1>2 DEF O!Sending, O!At
<1>3. CASE x.pc = "remind"
    BY <1>3 DEF O!Sending, O!At
<1>4. CASE x.pc = "claim"
    BY <1>4 DEF O!Sending, O!At
<1>5. CASE x.pc = "tell"
    BY <1>5 DEF O!Sending, O!At
<1>6. CASE x.pc = "intro"
    BY <1>6 DEF O!Sending, O!At
<1>7. CASE x.pc \notin {"ask", "mark", "remind", "claim", "tell", "intro"}
    BY <1>7 DEF O!Sending, O!At
<1> QED
    BY <1>1, <1>2, <1>3, <1>4, <1>5, <1>6, <1>7

(* What a task that throws comes to.                                        *)
Thrown(x, y) ==
    \/ x.pc = "remind" /\ \E c \in x.todo : y = [x EXCEPT !.todo = x.todo \ {c}]
    \/ x.pc = "tell" /\ y = [x EXCEPT !.pc = "offer"]
    \/ x.pc = "intro" /\ y = [x EXCEPT !.todo = Tail(x.todo), !.pc = "read"]
    \/ x.pc \notin {"remind", "tell", "intro"} /\ y = O!Idle

LEMMA ThrownKnown ==
    ASSUME TypeInv, NEW t \in Tasks, NEW y, Thrown(task[t], y)
    PROVE  /\ TaskKnown(y)
           /\ task[t].pc = "remind" => y.pc = "remind" /\ y.todo \subseteq task[t].todo
           /\ task[t].pc = "tell" => y.pc = "offer"
           /\ task[t].pc = "intro" => y.pc = "read"
           /\ task[t].pc \notin {"remind", "tell", "intro"} => y = O!Idle
<1> DEFINE x == task[t]
<1>1. CASE x.pc = "remind"
    <2>1. x \in RemindTask
        BY <1>1, TaskIs
    <2>2. PICK c \in x.todo : y = [x EXCEPT !.todo = x.todo \ {c}]
        BY <1>1 DEF Thrown
    <2>3. y \in RemindTask /\ y.pc = "remind" /\ y.todo \subseteq x.todo
        BY <1>1, <2>1, <2>2 DEF RemindTask
    <2> QED
        BY <1>1, <2>3 DEF TaskKnown
<1>2. CASE x.pc = "tell"
    <2>1. x \in OfferTask /\ y = [x EXCEPT !.pc = "offer"]
        BY <1>2, TaskIs DEF Thrown
    <2>2. y \in OfferTask /\ y.pc = "offer"
        BY <2>1 DEF OfferTask
    <2> QED
        BY <1>2, <2>2 DEF TaskKnown
<1>3. CASE x.pc = "intro"
    <2> DEFINE rest == Tail(x.todo)
    <2>1. IsBlastTask(x) /\ y = [x EXCEPT !.todo = rest, !.pc = "read"]
        BY <1>3, TaskIs DEF Thrown
    <2> HIDE DEF rest
    <2>2. IsBlastTask(y) /\ y.pc = "read"
        BY <2>1 DEF IsBlastTask
    <2> QED
        BY <1>3, <2>2 DEF TaskKnown
<1>4. CASE x.pc \notin {"remind", "tell", "intro"}
    BY <1>4 DEF Thrown, TaskKnown
<1> QED
    BY <1>1, <1>2, <1>3, <1>4

LEMMA SameCardinality ==
    ASSUME NEW S
    PROVE  O!Cardinality(S) = Cardinality(S)
BY DEF O!Cardinality, Cardinality

LEMMA TaskThrows ==
    ASSUME TypeInv, NEW t \in Tasks, O!Throws(t)
    PROVE  /\ UNCHANGED <<photo, posting, offer, covers, usage, blast>>
           /\ TypeInv' /\ Only(t) /\ Thrown(task[t], task'[t])
           /\ pardon' = O!Noted(pardon, O!Sending(t))
           /\ missed' = missed + Cardinality(O!Counting({t}))
           /\ \E S \in SUBSET O!Sending(t) :
                 /\ asked' = O!Noted(asked, S)
                 /\ task[t].pc \in {"mark", "claim"} => S = {}
           /\ task[t].pc \in {"find", "claim"} => reminding' = FALSE
           /\ task[t].pc \notin {"find", "claim"} => reminding' = reminding
<1> DEFINE x == task[t]
<1>1. /\ UNCHANGED <<photo, posting, offer, covers, usage>>
      /\ pardon' = O!Noted(pardon, O!Sending(t))
      /\ missed' = missed + Cardinality(O!Counting({t}))
    BY SameCardinality DEF O!Throws
<1>2. PICK S \in SUBSET O!Sending(t) :
          /\ Cardinality(S) <= IF x.pc \in {"remind", "ask", "tell", "intro"} THEN 1 ELSE 0
          /\ asked' = O!Noted(asked, S)
    BY SameCardinality DEF O!Throws
<1>3. x.pc \in {"mark", "claim"} => S = {}
    <2> SUFFICES ASSUME x.pc \in {"mark", "claim"} PROVE S = {}
        OBVIOUS
    <2>1. \E k : O!Sending(t) = {k}
        BY SendingIs
    <2>2. PICK k : S = {} \/ S = {k}
        BY <2>1
    <2>3. Cardinality({k}) = 1
        BY FS_Singleton
    <2>4. Cardinality(S) <= 0
        BY <1>2
    <2> QED
        BY <2>2, <2>3, <2>4
<1>4. /\ UNCHANGED blast /\ DOMAIN task = Tasks
      /\ \E y : task' = [task EXCEPT ![t] = y] /\ Thrown(x, y)
      /\ x.pc \in {"find", "claim"} => reminding' = FALSE
      /\ x.pc \notin {"find", "claim"} => reminding' = reminding
    <2>1. DOMAIN task = Tasks /\ reminding \in BOOLEAN
        BY DEF TypeInv, TasksTyped, FlagsTyped
    <2>2. CASE x.pc = "remind"
        <3>1. PICK c \in x.todo : task' = [task EXCEPT ![t].todo = @ \ {c}]
            BY <2>2 DEF O!Throws, O!At
        <3>2. task' = [task EXCEPT ![t] = [x EXCEPT !.todo = x.todo \ {c}]]
            BY <2>1, <3>1
        <3>3. Thrown(x, [x EXCEPT !.todo = x.todo \ {c}])
            BY <2>2 DEF Thrown
        <3>4. UNCHANGED <<reminding, blast>>
            BY <2>2 DEF O!Throws, O!At
        <3> QED
            BY <2>1, <2>2, <3>2, <3>3, <3>4
    <2>3. CASE x.pc = "tell"
        <3>1. /\ task' = [task EXCEPT ![t] = [x EXCEPT !.pc = "offer"]]
              /\ UNCHANGED <<reminding, blast>>
            BY <2>1, <2>3 DEF O!Throws, O!At, O!Goto
        <3>2. Thrown(x, [x EXCEPT !.pc = "offer"])
            BY <2>3 DEF Thrown
        <3> QED
            BY <2>1, <2>3, <3>1, <3>2
    <2>4. CASE x.pc = "intro"
        <3> DEFINE rest == Tail(x.todo)
        <3>1. /\ task' = [task EXCEPT ![t].todo = rest, ![t].pc = "read"]
              /\ UNCHANGED <<reminding, blast>>
            BY <2>4 DEF O!Throws, O!At
        <3>2. Thrown(x, [x EXCEPT !.todo = rest, !.pc = "read"])
            BY <2>4 DEF Thrown
        <3> HIDE DEF rest
        <3>3. task' = [task EXCEPT ![t] = [x EXCEPT !.todo = rest, !.pc = "read"]]
            BY <2>1, <3>1
        <3> QED
            BY <2>1, <2>4, <3>1, <3>2, <3>3
    <2>5. CASE x.pc \notin {"remind", "tell", "intro"}
        <3>1. /\ task' = [task EXCEPT ![t] = O!Idle] /\ UNCHANGED blast
              /\ reminding' = (reminding /\ ~(x.pc = "find" \/ x.pc = "claim"))
            BY <2>5 DEF O!Throws, O!At, O!Ends
        <3>2. Thrown(x, O!Idle)
            BY <2>5 DEF Thrown
        <3>3. /\ x.pc \in {"find", "claim"} => reminding' = FALSE
              /\ x.pc \notin {"find", "claim"} => reminding' = reminding
            BY <2>1, <3>1, Zenon
        <3> QED
            BY <2>1, <3>1, <3>2, <3>3, Zenon
    <2> QED
        BY <2>2, <2>3, <2>4, <2>5, Zenon
<1>5. PICK y : task' = [task EXCEPT ![t] = y] /\ Thrown(x, y)
    BY <1>4
<1>6. TasksTyped' /\ task'[t] = y /\ Only(t)
    BY <1>5, ThrownKnown, Turning DEF Only
<1>7. IsABag(asked') /\ IsABag(pardon')
    BY <1>1, <1>2, Noting DEF TypeInv, CountsTyped
<1>8. missed' \in Nat
    <2>1. O!Counting({t}) \subseteq {x.who}
        BY DEF O!Counting
    <2>2. IsFiniteSet(O!Counting({t}))
        <3>1. IsFiniteSet({x.who})
            BY FS_Singleton
        <3> QED
            BY <2>1, <3>1, FS_Subset
    <2>3. Cardinality(O!Counting({t})) \in Nat
        BY <2>2, FS_CardinalityType
    <2> QED
        BY <1>1, <2>3 DEF TypeInv, CountsTyped
<1>9. reminding' \in BOOLEAN
    BY <1>4, Zenon DEF TypeInv, FlagsTyped
<1>10. TypeInv'
    <2>1. UsageKnown(usage')
        BY <1>1 DEF TypeInv, CountsTyped
    <2>2. CountsTyped'
        BY <1>7, <1>8, <2>1 DEF CountsTyped, UsageKnown
    <2>3. PhotosTyped' /\ PostingsTyped' /\ OffersTyped'
        BY <1>1 DEF TypeInv, PhotosTyped, PostingsTyped, OffersTyped, RequestKnown, PostingKnown
    <2>4. FlagsTyped'
        BY <1>4, <1>9, Zenon DEF TypeInv, FlagsTyped
    <2> QED
        BY <1>6, <2>2, <2>3, <2>4 DEF TypeInv
<1> QED
    BY <1>1, <1>2, <1>3, <1>4, <1>5, <1>6, <1>10, Zenon

LEMMA AllRestart ==
    ASSUME TypeInv, O!Restart, IsFiniteSet(Phones)
    PROVE  /\ UNCHANGED <<photo, posting, offer, covers, usage, blast, asked>>
           /\ TypeInv' /\ reminding' = FALSE
           /\ \A t \in Tasks : task'[t] = O!Idle
           /\ pardon' = O!Noted(pardon, UNION {O!Sending(t) : t \in Tasks})
           /\ missed' = missed + Cardinality(O!Counting(Tasks))
<1>1. /\ UNCHANGED <<photo, posting, offer, covers, usage, blast, asked>> /\ reminding' = FALSE
      /\ task' = [t \in Tasks |-> O!Idle]
      /\ pardon' = O!Noted(pardon, UNION {O!Sending(t) : t \in Tasks})
      /\ missed' = missed + Cardinality(O!Counting(Tasks))
    BY SameCardinality DEF O!Restart
<1>2. TasksTyped'
    BY <1>1 DEF TasksTyped, TaskKnown
<1>3. missed' \in Nat
    <2>1. O!Counting(Tasks) \subseteq Phones
        BY TaskIs DEF O!Counting, O!At, IsLookupTask
    <2>2. IsFiniteSet(O!Counting(Tasks))
        BY <2>1, FS_Subset
    <2>3. Cardinality(O!Counting(Tasks)) \in Nat
        BY <2>2, FS_CardinalityType
    <2> QED
        BY <1>1, <2>3 DEF TypeInv, CountsTyped
<1>4. IsABag(asked') /\ IsABag(pardon')
    BY <1>1, Noting DEF TypeInv, CountsTyped
<1>5. CountsTyped'
    BY <1>1, <1>3, <1>4 DEF TypeInv, CountsTyped, UsageKnown
<1>6. PhotosTyped' /\ PostingsTyped' /\ OffersTyped' /\ FlagsTyped'
    BY <1>1 DEF TypeInv, PhotosTyped, PostingsTyped, OffersTyped, FlagsTyped, RequestKnown,
       PostingKnown
<1> QED
    BY <1>1, <1>2, <1>5, <1>6 DEF TypeInv

-----------------------------------------------------------------------------
(* What a step leaves alone: the tasks at certain steps, the messages of    *)
(* one kind, and so each of the parts.                                      *)

Leaves(pcs) == \A u \in Tasks :
    task[u].pc \in pcs \/ task'[u].pc \in pcs => task'[u] = task[u]

Sent(k) == O!Count(k, asked)
Excused(k) == O!Count(k, pardon)
Quiet(kind) == \A k : k[1] = kind => Sent(k)' = Sent(k) /\ Excused(k)' >= Excused(k)

PhotosStill == UNCHANGED photo /\ Leaves({"ask", "mark"}) /\ Quiet("photo")
RemindersStill == /\ UNCHANGED <<posting, reminding>> /\ Leaves({"find", "remind", "claim"})
                  /\ Quiet("reminder")
OffersStill == DOMAIN offer' = DOMAIN offer /\ Leaves({"tell"}) /\ Quiet("offer")
LookupsStill == UNCHANGED <<usage, missed>> /\ Leaves({"usage", "weekly", "record", "count"})

LEMMA Unsent ==
    ASSUME TypeInv, UNCHANGED <<asked, pardon>>
    PROVE  \A kind : Quiet(kind)
BY Counted DEF Quiet, Sent, Excused, TypeInv, CountsTyped

LEMMA OtherSent ==
    ASSUME TypeInv, NEW S, asked' = O!Noted(asked, S), UNCHANGED pardon,
           NEW kind, \A k \in S : k[1] # kind
    PROVE  Quiet(kind)
BY Counted, Noting DEF Quiet, Sent, Excused, TypeInv, CountsTyped

LEMMA OnlyExcused ==
    ASSUME TypeInv, NEW T, UNCHANGED asked, pardon' = O!Noted(pardon, T)
    PROVE  \A kind : Quiet(kind)
BY Counted, Noting DEF Quiet, Sent, Excused, TypeInv, CountsTyped

LEMMA OtherExcused ==
    ASSUME TypeInv, NEW S, NEW T, NEW kind, \A k \in S : k[1] # kind,
           asked' = O!Noted(asked, S), pardon' = O!Noted(pardon, T)
    PROVE  Quiet(kind)
BY Counted, Noting DEF Quiet, Sent, Excused, TypeInv, CountsTyped

(* A step of one task, or of none, that stays between these steps.          *)
Within(pcs) == \/ UNCHANGED task
               \/ \E t \in Tasks : Only(t) /\ task[t].pc \in pcs /\ task'[t].pc \in pcs

(* Handlers of one person's messages.                                       *)
Named(x) == x.pc \in {"look", "ask", "mark", "usage", "weekly", "record", "count"}
NamesKept == \A u \in Tasks :
    Named(task[u])' => Named(task[u]) /\ task'[u].who = task[u].who

LEMMA WithinLeaves ==
    ASSUME TypeInv, NEW pcs, NEW others, Within(pcs), pcs \cap others = {}
    PROVE  Leaves(others)
BY DEF Within, Only, Leaves

PhotosStep ==
    \/ \E t \in Tasks, b \in Buyers, l \in Listings : O!RequestPhotosForMatch(t, b, l)
    \/ \E t \in Tasks : O!GetPhotoRequestRecord(t)
    \/ \E t \in Tasks : O!AskSeller(t)
    \/ \E t \in Tasks : O!MarkPhotoRequested(t)
    \/ \E t \in Tasks, s \in {SellerOf[l] : l \in Listings} : O!HandleIncomingSellerPhoto(t, s)
    \/ \E t \in Tasks : O!AppendReceivedPhoto(t)
    \/ \E t \in Tasks : O!ForwardPhoto(t)
    \/ \E l \in Listings : O!RequestAges(l)

LEMMA PhotosLeave ==
    ASSUME TypeInv, PhotosStep
    PROVE  TypeInv' /\ RemindersStill /\ OffersStill /\ LookupsStill
<1> DEFINE pcs == {"idle", "look", "ask", "mark", "append", "forward"}
           Same == /\ UNCHANGED <<posting, reminding>> /\ DOMAIN offer' = DOMAIN offer
                   /\ UNCHANGED <<usage, missed>>
           Silent == Quiet("reminder") /\ Quiet("offer")
<1>1. ASSUME NEW t \in Tasks, NEW b \in Buyers, NEW l \in Listings,
             O!RequestPhotosForMatch(t, b, l)
      PROVE  TypeInv' /\ Within(pcs) /\ Same /\ Silent
    <2>1. TypeInv' /\ Within(pcs) /\ Same
        BY <1>1, RequestBegins DEF Within, Tables, Unseen, O!Idle
    <2>2. Silent
        BY <1>1, RequestBegins, Unsent
    <2> QED
        BY <2>1, <2>2
<1>2. ASSUME NEW t \in Tasks, O!GetPhotoRequestRecord(t)
      PROVE  TypeInv' /\ Within(pcs) /\ Same /\ Silent
    <2>1. TypeInv' /\ Within(pcs) /\ Same
        BY <1>2, RequestLooks DEF Within, Tables, Unseen, O!Idle
    <2>2. Silent
        BY <1>2, RequestLooks, Unsent
    <2> QED
        BY <2>1, <2>2
<1>3. ASSUME NEW t \in Tasks, O!AskSeller(t)
      PROVE  TypeInv' /\ Within(pcs) /\ Same /\ Silent
    <2>1. TypeInv' /\ Within(pcs) /\ Same
        BY <1>3, SellerAsked DEF Within, Tables, Unseen, O!Idle
    <2>2. Silent
        <3> DEFINE S == {<<"photo", task[t].of, task[t].who>>}
        <3>1. asked' = O!Noted(asked, S) /\ UNCHANGED pardon
            BY <1>3, SellerAsked
        <3>2. \A k \in S : k[1] = "photo"
            OBVIOUS
        <3> HIDE DEF S
        <3> QED
            BY <3>1, <3>2, OtherSent
    <2> QED
        BY <2>1, <2>2
<1>4. ASSUME NEW t \in Tasks, O!MarkPhotoRequested(t)
      PROVE  TypeInv' /\ Within(pcs) /\ Same /\ Silent
    <2>1. TypeInv' /\ Within(pcs) /\ Same
        BY <1>4, RequestMarked DEF Within, Tables, Unseen, O!Idle
    <2>2. Silent
        BY <1>4, RequestMarked, Unsent
    <2> QED
        BY <2>1, <2>2
<1>5. ASSUME NEW t \in Tasks, NEW s \in {SellerOf[l] : l \in Listings},
             O!HandleIncomingSellerPhoto(t, s)
      PROVE  TypeInv' /\ Within(pcs) /\ Same /\ Silent
    <2>1. TypeInv' /\ Within(pcs) /\ Same
        BY <1>5, ImageComes DEF Within, Tables, Unseen, O!Idle
    <2>2. Silent
        BY <1>5, ImageComes, Unsent
    <2> QED
        BY <2>1, <2>2
<1>6. ASSUME NEW t \in Tasks, O!AppendReceivedPhoto(t)
      PROVE  TypeInv' /\ Within(pcs) /\ Same /\ Silent
    <2>1. TypeInv' /\ Within(pcs) /\ Same
        BY <1>6, ImageKept DEF Within, Tables, Unseen, O!Idle
    <2>2. Silent
        <3>1. PICK S : pardon' = O!Noted(pardon, S) /\ UNCHANGED asked
            BY <1>6, ImageKept
        <3> QED
            BY <3>1, OnlyExcused
    <2> QED
        BY <2>1, <2>2
<1>7. ASSUME NEW t \in Tasks, O!ForwardPhoto(t)
      PROVE  TypeInv' /\ Within(pcs) /\ Same /\ Silent
    <2>1. TypeInv' /\ Within(pcs) /\ Same
        BY <1>7, ImageForwarded DEF Within, Tables, Unseen, O!Idle
    <2>2. Silent
        <3>1. PICK S : /\ asked' = O!Noted(asked, S) /\ UNCHANGED pardon
                       /\ \A k \in S : k[1] \in {"image", "card"}
            BY <1>7, ImageForwarded
        <3> QED
            BY <3>1, OtherSent
    <2> QED
        BY <2>1, <2>2
<1>8. ASSUME NEW l \in Listings, O!RequestAges(l)
      PROVE  TypeInv' /\ Within(pcs) /\ Same /\ Silent
    <2>1. TypeInv' /\ Within(pcs) /\ Same
        BY <1>8, RequestOlder DEF Within, Tables, Unseen, O!Idle
    <2>2. Silent
        <3>1. PICK S : pardon' = O!Noted(pardon, S) /\ UNCHANGED asked
            BY <1>8, RequestOlder
        <3> QED
            BY <3>1, OnlyExcused
    <2> QED
        BY <2>1, <2>2
<1>9. TypeInv' /\ Within(pcs) /\ Same /\ Silent
    BY <1>1, <1>2, <1>3, <1>4, <1>5, <1>6, <1>7, <1>8 DEF PhotosStep
<1>10. /\ Leaves({"find", "remind", "claim"}) /\ Leaves({"tell"})
      /\ Leaves({"usage", "weekly", "record", "count"})
    BY <1>9, WithinLeaves
<1> QED
    BY <1>9, <1>10 DEF RemindersStill, OffersStill, LookupsStill

RemindersStep ==
    \/ \E t \in Tasks : O!SendExpirationReminders(t)
    \/ \E t \in Tasks : O!FindPostingsNeedingReminder(t)
    \/ \E t \in Tasks : O!Remind(t)
    \/ \E t \in Tasks : O!ClaimReminderForPosting(t)
    \/ \E t \in Tasks : O!RemindersDone(t)
    \/ \E p \in Postings : O!PostingChanges(p)

LEMMA RemindersLeave ==
    ASSUME TypeInv, RemindersStep
    PROVE  TypeInv' /\ PhotosStill /\ OffersStill /\ LookupsStill /\ NamesKept
<1> DEFINE pcs == {"idle", "find", "remind", "claim"}
           Same == /\ UNCHANGED photo /\ DOMAIN offer' = DOMAIN offer
                   /\ UNCHANGED <<usage, missed>>
           Silent == Quiet("photo") /\ Quiet("offer")
<1>1. ASSUME NEW t \in Tasks, O!SendExpirationReminders(t)
      PROVE  TypeInv' /\ Within(pcs) /\ Same /\ Silent
    <2>1. TypeInv' /\ Within(pcs) /\ Same
        BY <1>1, RemindersBegin DEF Within, Tables, Unseen, O!Idle
    <2>2. Silent
        BY <1>1, RemindersBegin, Unsent
    <2> QED
        BY <2>1, <2>2
<1>2. ASSUME NEW t \in Tasks, O!FindPostingsNeedingReminder(t)
      PROVE  TypeInv' /\ Within(pcs) /\ Same /\ Silent
    <2>1. TypeInv' /\ Within(pcs) /\ Same
        BY <1>2, PostingsFound DEF Within, Tables, Unseen, O!Idle
    <2>2. Silent
        BY <1>2, PostingsFound, Unsent
    <2> QED
        BY <2>1, <2>2
<1>3. ASSUME NEW t \in Tasks, O!Remind(t)
      PROVE  TypeInv' /\ Within(pcs) /\ Same /\ Silent
    <2>1. TypeInv' /\ Within(pcs) /\ Same
        BY <1>3, Reminded DEF Within, Tables, Unseen, O!Idle
    <2>2. Silent
        <3>0. PICK c \in task[t].todo : asked' = O!Noted(asked, {<<"reminder", c[1], c[2]>>})
            BY <1>3, Reminded
        <3> DEFINE S == {<<"reminder", c[1], c[2]>>}
        <3>1. asked' = O!Noted(asked, S) /\ UNCHANGED pardon
            BY <1>3, Reminded, <3>0
        <3>2. \A k \in S : k[1] = "reminder"
            OBVIOUS
        <3> HIDE DEF S
        <3> QED
            BY <3>1, <3>2, OtherSent
    <2> QED
        BY <2>1, <2>2
<1>4. ASSUME NEW t \in Tasks, O!ClaimReminderForPosting(t)
      PROVE  TypeInv' /\ Within(pcs) /\ Same /\ Silent
    <2>1. TypeInv' /\ Within(pcs) /\ Same
        BY <1>4, ReminderClaimed DEF Within, Tables, Unseen, O!Idle
    <2>2. Silent
        BY <1>4, ReminderClaimed, Unsent
    <2> QED
        BY <2>1, <2>2
<1>5. ASSUME NEW t \in Tasks, O!RemindersDone(t)
      PROVE  TypeInv' /\ Within(pcs) /\ Same /\ Silent
    <2>1. TypeInv' /\ Within(pcs) /\ Same
        <3>1. TypeInv' /\ Only(t) /\ task[t].pc = "remind" /\ task'[t] = O!Idle
            BY <1>5, RemindersEnd
        <3>2. UNCHANGED <<photo, offer, usage, missed>>
            BY <1>5, RemindersEnd
        <3> QED
            BY <3>1, <3>2 DEF Within, O!Idle
    <2>2. Silent
        BY <1>5, RemindersEnd, Unsent
    <2> QED
        BY <2>1, <2>2
<1>6. ASSUME NEW p \in Postings, O!PostingChanges(p)
      PROVE  TypeInv' /\ Within(pcs) /\ Same /\ Silent
    <2>1. TypeInv' /\ Within(pcs) /\ Same
        BY <1>6, PostingMoves DEF Within, Tables, Unseen, O!Idle
    <2>2. Silent
        BY <1>6, PostingMoves, Unsent
    <2> QED
        BY <2>1, <2>2
<1>7. TypeInv' /\ Within(pcs) /\ Same /\ Silent
    BY <1>1, <1>2, <1>3, <1>4, <1>5, <1>6 DEF RemindersStep
<1>8. /\ Leaves({"ask", "mark"}) /\ Leaves({"tell"})
      /\ Leaves({"usage", "weekly", "record", "count"})
    BY <1>7, WithinLeaves
<1>9. NamesKept
    <2>1. Leaves({"look", "ask", "mark", "usage", "weekly", "record", "count"})
        BY <1>7, WithinLeaves
    <2> QED
        BY <2>1 DEF Leaves, Named, NamesKept
<1> QED
    BY <1>9, <1>7, <1>8 DEF PhotosStill, OffersStill, LookupsStill

OffersStep ==
    \/ \E t \in Tasks, w \in Requests : O!FulfillWtb(t, w)
    \/ \E t \in Tasks : O!ClaimOpportunity(t)
    \/ \E t \in Tasks : O!TellDealer(t)
    \/ \E t \in Tasks : O!Fulfilled(t)
    \/ \E w \in Requests, d \in Dealers : O!HandleOpportunityResponse(w, d)
    \/ \E d \in Dealers : O!HandleCoverageCommand(d)

LEMMA OffersLeave ==
    ASSUME TypeInv, OffersStep
    PROVE  TypeInv' /\ PhotosStill /\ RemindersStill /\ LookupsStill /\ NamesKept
<1> DEFINE pcs == {"idle", "offer", "tell"}
           Same == /\ UNCHANGED photo /\ UNCHANGED <<posting, reminding>>
                   /\ UNCHANGED <<usage, missed>>
           Silent == Quiet("photo") /\ Quiet("reminder")
<1>1. ASSUME NEW t \in Tasks, NEW w \in Requests, O!FulfillWtb(t, w)
      PROVE  TypeInv' /\ Within(pcs) /\ Same /\ Silent
    <2>1. TypeInv' /\ Within(pcs) /\ Same
        BY <1>1, OffersBegin DEF Within, Tables, Unseen, O!Idle
    <2>2. Silent
        BY <1>1, OffersBegin, Unsent
    <2> QED
        BY <2>1, <2>2
<1>2. ASSUME NEW t \in Tasks, O!ClaimOpportunity(t)
      PROVE  TypeInv' /\ Within(pcs) /\ Same /\ Silent
    <2>1. TypeInv' /\ Within(pcs) /\ Same
        BY <1>2, OfferClaimed DEF Within, Tables, Unseen, O!Idle
    <2>2. Silent
        BY <1>2, OfferClaimed, Unsent
    <2> QED
        BY <2>1, <2>2
<1>3. ASSUME NEW t \in Tasks, O!TellDealer(t)
      PROVE  TypeInv' /\ Within(pcs) /\ Same /\ Silent
    <2>1. TypeInv' /\ Within(pcs) /\ Same
        BY <1>3, DealerTold DEF Within, Tables, Unseen, O!Idle
    <2>2. Silent
        <3> DEFINE S == {<<"offer", task[t].of, task[t].to>>}
        <3>1. asked' = O!Noted(asked, S) /\ UNCHANGED pardon
            BY <1>3, DealerTold
        <3>2. \A k \in S : k[1] = "offer"
            OBVIOUS
        <3> HIDE DEF S
        <3> QED
            BY <3>1, <3>2, OtherSent
    <2> QED
        BY <2>1, <2>2
<1>4. ASSUME NEW t \in Tasks, O!Fulfilled(t)
      PROVE  TypeInv' /\ Within(pcs) /\ Same /\ Silent
    <2>1. TypeInv' /\ Within(pcs) /\ Same
        BY <1>4, OffersEnd DEF Within, Tables, Unseen, O!Idle
    <2>2. Silent
        BY <1>4, OffersEnd, Unsent
    <2> QED
        BY <2>1, <2>2
<1>5. ASSUME NEW w \in Requests, NEW d \in Dealers, O!HandleOpportunityResponse(w, d)
      PROVE  TypeInv' /\ Within(pcs) /\ Same /\ Silent
    <2>1. TypeInv' /\ Within(pcs) /\ Same
        BY <1>5, DealerAnswers DEF Within, Tables, Unseen, O!Idle
    <2>2. Silent
        BY <1>5, DealerAnswers, Unsent
    <2> QED
        BY <2>1, <2>2
<1>6. ASSUME NEW d \in Dealers, O!HandleCoverageCommand(d)
      PROVE  TypeInv' /\ Within(pcs) /\ Same /\ Silent
    <2>1. TypeInv' /\ Within(pcs) /\ Same
        BY <1>6, DealerAnswers DEF Within, Tables, Unseen, O!Idle
    <2>2. Silent
        BY <1>6, DealerAnswers, Unsent
    <2> QED
        BY <2>1, <2>2
<1>7. TypeInv' /\ Within(pcs) /\ Same /\ Silent
    BY <1>1, <1>2, <1>3, <1>4, <1>5, <1>6 DEF OffersStep
<1>8. /\ Leaves({"ask", "mark"}) /\ Leaves({"find", "remind", "claim"})
      /\ Leaves({"usage", "weekly", "record", "count"})
    BY <1>7, WithinLeaves
<1>9. NamesKept
    <2>1. Leaves({"look", "ask", "mark", "usage", "weekly", "record", "count"})
        BY <1>7, WithinLeaves
    <2> QED
        BY <2>1 DEF Leaves, Named, NamesKept
<1> QED
    BY <1>9, <1>7, <1>8 DEF PhotosStill, RemindersStill, LookupsStill

LookupsStep ==
    \/ \E t \in Tasks, ph \in Phones : O!LookUp(t, ph)
    \/ \E t \in Tasks : O!GetMarketPulseUsage(t)
    \/ \E t \in Tasks : O!EvaluateMarketPulseGate(t)
    \/ \E t \in Tasks : O!RecordMarketPulseLookup(t)
    \/ \E t \in Tasks : O!CountLookup(t)

LEMMA LookupsLeave ==
    ASSUME TypeInv, LookupsStep
    PROVE  TypeInv' /\ PhotosStill /\ RemindersStill /\ OffersStill
<1> DEFINE pcs == {"idle", "usage", "weekly", "record", "count"}
           Same == /\ UNCHANGED photo /\ UNCHANGED <<posting, reminding>>
                   /\ DOMAIN offer' = DOMAIN offer
           Silent == Quiet("photo") /\ Quiet("reminder") /\ Quiet("offer")
<1>1. ASSUME NEW t \in Tasks, NEW ph \in Phones, O!LookUp(t, ph)
      PROVE  TypeInv' /\ Within(pcs) /\ Same /\ Silent
    <2>1. TypeInv' /\ Within(pcs) /\ Same
        BY <1>1, LookupBegins DEF Within, Tables, Unseen, O!Idle
    <2>2. Silent
        BY <1>1, LookupBegins, Unsent
    <2> QED
        BY <2>1, <2>2
<1>2. ASSUME NEW t \in Tasks, O!GetMarketPulseUsage(t)
      PROVE  TypeInv' /\ Within(pcs) /\ Same /\ Silent
    <2>1. TypeInv' /\ Within(pcs) /\ Same
        BY <1>2, UsageRead DEF Within, Tables, Unseen, O!Idle
    <2>2. Silent
        BY <1>2, UsageRead, Unsent
    <2> QED
        BY <2>1, <2>2
<1>3. ASSUME NEW t \in Tasks, O!EvaluateMarketPulseGate(t)
      PROVE  TypeInv' /\ Within(pcs) /\ Same /\ Silent
    <2>1. TypeInv' /\ Within(pcs) /\ Same
        BY <1>3, GateEvaluated DEF Within, Tables, Unseen, O!Idle
    <2>2. Silent
        BY <1>3, GateEvaluated, Unsent
    <2> QED
        BY <2>1, <2>2
<1>4. ASSUME NEW t \in Tasks, O!RecordMarketPulseLookup(t)
      PROVE  TypeInv' /\ Within(pcs) /\ Same /\ Silent
    <2>1. TypeInv' /\ Within(pcs) /\ Same
        BY <1>4, LookupRecorded DEF Within, Tables, Unseen, O!Idle
    <2>2. Silent
        BY <1>4, LookupRecorded, Unsent
    <2> QED
        BY <2>1, <2>2
<1>5. ASSUME NEW t \in Tasks, O!CountLookup(t)
      PROVE  TypeInv' /\ Within(pcs) /\ Same /\ Silent
    <2>1. TypeInv' /\ Within(pcs) /\ Same
        BY <1>5, LookupCounted DEF Within, Tables, Unseen, O!Idle
    <2>2. Silent
        BY <1>5, LookupCounted, Unsent
    <2> QED
        BY <2>1, <2>2
<1>6. TypeInv' /\ Within(pcs) /\ Same /\ Silent
    BY <1>1, <1>2, <1>3, <1>4, <1>5 DEF LookupsStep
<1>7. Leaves({"ask", "mark"}) /\ Leaves({"find", "remind", "claim"}) /\ Leaves({"tell"})
    BY <1>6, WithinLeaves
<1> QED
    BY <1>6, <1>7 DEF PhotosStill, RemindersStill, OffersStill

BlastStep ==
    \/ \E t \in Tasks : O!OutreachStart(t)
    \/ \E t \in Tasks : O!ReadContact(t)
    \/ \E t \in Tasks : O!SendIntro(t)
    \/ \E t \in Tasks : O!BatchDone(t)
    \/ \E c \in DOMAIN contact : O!ContactAnswers(c)

LEMMA BlastLeave ==
    ASSUME TypeInv, BlastStep
    PROVE  TypeInv' /\ PhotosStill /\ RemindersStill /\ OffersStill /\ LookupsStill /\ NamesKept
<1> DEFINE pcs == {"idle", "read", "intro"}
           Same == /\ UNCHANGED photo /\ UNCHANGED <<posting, reminding>>
                   /\ DOMAIN offer' = DOMAIN offer
                   /\ UNCHANGED <<usage, missed>>
           Silent == Quiet("photo") /\ Quiet("reminder") /\ Quiet("offer")
<1>1. ASSUME NEW t \in Tasks, O!OutreachStart(t)
      PROVE  TypeInv' /\ Within(pcs) /\ Same /\ Silent
    <2>1. TypeInv' /\ Within(pcs) /\ Same
        BY <1>1, BlastBegins DEF Within, Tables, Unseen, O!Idle
    <2>2. Silent
        BY <1>1, BlastBegins, Unsent
    <2> QED
        BY <2>1, <2>2
<1>2. ASSUME NEW t \in Tasks, O!ReadContact(t)
      PROVE  TypeInv' /\ Within(pcs) /\ Same /\ Silent
    <2>1. TypeInv' /\ Within(pcs) /\ Same
        BY <1>2, ContactRead DEF Within, Tables, Unseen, O!Idle
    <2>2. Silent
        BY <1>2, ContactRead, Unsent
    <2> QED
        BY <2>1, <2>2
<1>3. ASSUME NEW t \in Tasks, O!SendIntro(t)
      PROVE  TypeInv' /\ Within(pcs) /\ Same /\ Silent
    <2>1. TypeInv' /\ Within(pcs) /\ Same
        BY <1>3, IntroSent DEF Within, Tables, Unseen, O!Idle
    <2>2. Silent
        <3> DEFINE S == {<<"intro", Head(task[t].todo), None>>}
        <3>1. asked' = O!Noted(asked, S) /\ UNCHANGED pardon
            BY <1>3, IntroSent
        <3>2. \A k \in S : k[1] = "intro"
            OBVIOUS
        <3> HIDE DEF S
        <3> QED
            BY <3>1, <3>2, OtherSent
    <2> QED
        BY <2>1, <2>2
<1>4. ASSUME NEW t \in Tasks, O!BatchDone(t)
      PROVE  TypeInv' /\ Within(pcs) /\ Same /\ Silent
    <2>1. TypeInv' /\ Within(pcs) /\ Same
        BY <1>4, BatchEnds DEF Within, Tables, Unseen, O!Idle
    <2>2. Silent
        BY <1>4, BatchEnds, Unsent
    <2> QED
        BY <2>1, <2>2
<1>5. ASSUME NEW c \in DOMAIN contact, O!ContactAnswers(c)
      PROVE  TypeInv' /\ Within(pcs) /\ Same /\ Silent
    <2>1. TypeInv' /\ Within(pcs) /\ Same
        BY <1>5, ContactMoves DEF Within, Tables, Unseen, O!Idle
    <2>2. Silent
        BY <1>5, ContactMoves, Unsent
    <2> QED
        BY <2>1, <2>2
<1>6. TypeInv' /\ Within(pcs) /\ Same /\ Silent
    BY <1>1, <1>2, <1>3, <1>4, <1>5 DEF BlastStep
<1>7. /\ Leaves({"ask", "mark"}) /\ Leaves({"find", "remind", "claim"}) /\ Leaves({"tell"})
      /\ Leaves({"usage", "weekly", "record", "count"})
    BY <1>6, WithinLeaves
<1>8. NamesKept
    <2>1. Leaves({"look", "ask", "mark", "usage", "weekly", "record", "count"})
        BY <1>6, WithinLeaves
    <2> QED
        BY <2>1 DEF Leaves, Named, NamesKept
<1> QED
    BY <1>8, <1>6, <1>7 DEF PhotosStill, RemindersStill, OffersStill, LookupsStill

-----------------------------------------------------------------------------
(* The invariant.                                                           *)

(* No two handlers of one person's messages run at once.                    *)
Apart == \A t, u \in Tasks :
    Named(task[t]) /\ Named(task[u]) /\ task[t].who = task[u].who => t = u

(* Who has been asked for photos: once more than is excused only while that *)
(* request is on record or about to be recorded.                            *)
AsksFor(t, l, b) == task[t].pc \in {"ask", "mark"} /\ task[t].of = l /\ task[t].who = b
PhotoKept(l, b) ==
    LET k == <<"photo", l, b>> IN
    /\ Sent(k) <= 1 + Excused(k)
    /\ \A t \in Tasks : AsksFor(t, l, b) /\ task[t].pc = "ask" => Sent(k) <= Excused(k)
    /\ O!Duplicate(l) \/ (\E t \in Tasks : AsksFor(t, l, b)) \/ Sent(k) <= Excused(k)
PhotosKept == \A l \in Listings, b \in Buyers : PhotoKept(l, b)

(* Only one run of the reminders is under way, and it has the flag.         *)
Runner(x) == x.pc \in {"find", "remind", "claim"}
OneRunner == \A t \in Tasks :
    Runner(task[t]) => reminding = TRUE /\ \A u \in Tasks : Runner(task[u]) => u = t

(* What a run still has to send has not been sent; an expiry that nobody is *)
(* told of is not the one reminded of.                                      *)
Claims(t, p) == task[t].pc = "claim" /\ task[t].of = p
ReminderKept(p, x) ==
    LET k == <<"reminder", p, x>> IN
    /\ Sent(k) <= 1 + Excused(k)
    /\ x > posting[p].expires => Sent(k) <= Excused(k)
    /\ \/ x # posting[p].expires \/ posting[p].reminded = x
       \/ \E t \in Tasks : Claims(t, p)
       \/ Sent(k) <= Excused(k)
TodoKept(t) == task[t].pc \in {"remind", "claim"} =>
    \A c \in task[t].todo : /\ c[2] <= posting[c[1]].expires
                            /\ Sent(<<"reminder", c[1], c[2]>>)
                               <= Excused(<<"reminder", c[1], c[2]>>)
RemindersKept == /\ \A p \in Postings, x \in Nat : ReminderKept(p, x)
                 /\ \A t \in Tasks : TodoKept(t)

(* Whoever tells a dealer has inserted the row, and nobody told him before. *)
Tells(t, w, d) == task[t].pc = "tell" /\ task[t].of = w /\ task[t].to = d
OfferKept(w, d) ==
    LET k == <<"offer", w, d>> IN
    /\ Sent(k) <= 1 /\ (Sent(k) = 0 \/ <<w, d>> \in DOMAIN offer)
    /\ \A t \in Tasks : Tells(t, w, d) =>
          /\ <<w, d>> \in DOMAIN offer /\ Sent(k) = 0
          /\ \A u \in Tasks : Tells(u, w, d) => u = t
OffersKept == \A w \in Requests, d \in Dealers : OfferKept(w, d)

(* The phones whose look-up was let through but not recorded, as a free one *)
(* or a paid one, and those whose look-up was recorded but not counted.     *)
FreeAsks == {ph \in Phones : \E t \in Tasks :
                task[t].pc = "record" /\ task[t].who = ph /\ task[t].free}
PaidAsks == {ph \in Phones : \E t \in Tasks :
                task[t].pc = "record" /\ task[t].who = ph /\ ~task[t].free}
Counts == {ph \in Phones : \E t \in Tasks : task[t].pc = "count" /\ task[t].who = ph}
LookupsKept ==
    /\ usage.free + Cardinality(FreeAsks) <= Trial + Cardinality(Phones) - 1 + missed
    /\ usage.paid + Cardinality(PaidAsks) <= WeeklyLimit + Cardinality(Phones) - 1
    /\ usage.free + usage.paid <= usage.total + Cardinality(Counts) + missed

KeyKnown(k) ==
    /\ k[1] = "photo" => k \in {"photo"} \X Listings \X Buyers
    /\ k[1] = "reminder" => k \in {"reminder"} \X Postings \X Nat
    /\ k[1] = "offer" => k \in {"offer"} \X Requests \X Dealers
KeysKnown == \A k \in DOMAIN asked : KeyKnown(k)

IInv == /\ TypeInv /\ KeysKnown /\ Apart /\ PhotosKept /\ OneRunner /\ RemindersKept
        /\ OffersKept /\ LookupsKept

-----------------------------------------------------------------------------
(* Failures and restarts leave alone what they do not meet.                 *)

LEMMA ThrowsLeave ==
    ASSUME TypeInv, NEW t \in Tasks, O!Throws(t)
    PROVE  /\ task[t].pc \notin {"ask", "mark"} => PhotosStill
           /\ task[t].pc \notin {"find", "remind", "claim"} => RemindersStill
           /\ task[t].pc # "tell" => OffersStill
           /\ task[t].pc \notin {"usage", "weekly", "record", "count"} => LookupsStill
           /\ NamesKept
<1> DEFINE x == task[t]
<1>1. /\ UNCHANGED <<photo, posting, offer, usage>> /\ Only(t) /\ Thrown(x, task'[t])
      /\ missed' = missed + Cardinality(O!Counting({t}))
      /\ x.pc \notin {"find", "claim"} => reminding' = reminding
    BY TaskThrows
<1>2. /\ x.pc = "remind" => task'[t].pc = "remind"
      /\ x.pc = "tell" => task'[t].pc = "offer"
      /\ x.pc = "intro" => task'[t].pc = "read"
      /\ x.pc \notin {"remind", "tell", "intro"} => task'[t].pc = "idle"
    BY <1>1, ThrownKnown DEF O!Idle
<1>3. NamesKept
    BY <1>1, <1>2 DEF NamesKept, Named, Only
<1>4. PICK S \in SUBSET O!Sending(t) :
          asked' = O!Noted(asked, S) /\ pardon' = O!Noted(pardon, O!Sending(t))
    BY TaskThrows
<1>5. ASSUME x.pc \notin {"ask", "mark"} PROVE PhotosStill
    <2>1. \A k \in S : k[1] # "photo"
        BY <1>5, SendingIs
    <2>2. Quiet("photo")
        BY <1>4, <2>1, OtherExcused
    <2>3. Leaves({"ask", "mark"})
        BY <1>1, <1>2, <1>5 DEF Leaves, Only
    <2> QED
        BY <1>1, <2>2, <2>3 DEF PhotosStill
<1>6. ASSUME x.pc \notin {"find", "remind", "claim"} PROVE RemindersStill
    <2>1. \A k \in S : k[1] # "reminder"
        BY <1>6, SendingIs
    <2>2. Quiet("reminder")
        BY <1>4, <2>1, OtherExcused
    <2>3. Leaves({"find", "remind", "claim"})
        BY <1>1, <1>2, <1>6 DEF Leaves, Only
    <2> QED
        BY <1>1, <1>6, <2>2, <2>3 DEF RemindersStill
<1>7. ASSUME x.pc # "tell" PROVE OffersStill
    <2>1. \A k \in S : k[1] # "offer"
        BY <1>7, SendingIs
    <2>2. Quiet("offer")
        BY <1>4, <2>1, OtherExcused
    <2>3. Leaves({"tell"})
        BY <1>1, <1>2, <1>7 DEF Leaves, Only
    <2> QED
        BY <1>1, <2>2, <2>3 DEF OffersStill
<1>8. ASSUME x.pc \notin {"usage", "weekly", "record", "count"} PROVE LookupsStill
    <2>1. O!Counting({t}) = {}
        BY <1>8 DEF O!Counting, O!At
    <2>2. Cardinality({}) = 0 /\ missed \in Nat
        BY FS_EmptySet DEF TypeInv, CountsTyped
    <2>3. UNCHANGED <<usage, missed>>
        BY <1>1, <2>1, <2>2
    <2>4. Leaves({"usage", "weekly", "record", "count"})
        BY <1>1, <1>2, <1>8 DEF Leaves, Only
    <2> QED
        BY <2>3, <2>4 DEF LookupsStill
<1> QED
    BY <1>3, <1>5, <1>6, <1>7, <1>8

-----------------------------------------------------------------------------
(* Nobody's messages are handled twice at once.                             *)

LEMMA NamesApart ==
    ASSUME Apart, NamesKept
    PROVE  Apart'
BY DEF Apart, NamesKept, Named

LEMMA NewName ==
    ASSUME TypeInv, Apart, NEW t \in Tasks, Only(t), NEW who, O!Free(who), task'[t].who = who
    PROVE  Apart'
<1>1. \A u \in Tasks : task[u].who # who
    BY DEF O!Free
<1> QED
    BY <1>1 DEF Apart, Only, Named

LEMMA PhotosApart ==
    ASSUME TypeInv, Apart, PhotosStep
    PROVE  Apart'
<1>1. ASSUME NEW t \in Tasks, NEW b \in Buyers, NEW l \in Listings,
             O!RequestPhotosForMatch(t, b, l)
      PROVE  Apart'
    BY <1>1, RequestBegins, NewName
<1>2. ASSUME NEW t \in Tasks, O!GetPhotoRequestRecord(t) PROVE NamesKept
    BY <1>2, RequestLooks DEF NamesKept, Named, Only, O!Idle
<1>3. ASSUME NEW t \in Tasks, O!AskSeller(t) PROVE NamesKept
    BY <1>3, SellerAsked DEF NamesKept, Named, Only
<1>4. ASSUME NEW t \in Tasks, O!MarkPhotoRequested(t) PROVE NamesKept
    BY <1>4, RequestMarked DEF NamesKept, Named, Only, O!Idle
<1>5. ASSUME NEW t \in Tasks, NEW s, O!HandleIncomingSellerPhoto(t, s) PROVE NamesKept
    BY <1>5, ImageComes DEF NamesKept, Named, Only
<1>6. ASSUME NEW t \in Tasks, O!AppendReceivedPhoto(t) PROVE NamesKept
    BY <1>6, ImageKept DEF NamesKept, Named, Only
<1>7. ASSUME NEW t \in Tasks, O!ForwardPhoto(t) PROVE NamesKept
    BY <1>7, ImageForwarded DEF NamesKept, Named, Only, O!Idle
<1>8. ASSUME NEW l \in Listings, O!RequestAges(l) PROVE NamesKept
    BY <1>8, RequestOlder DEF NamesKept, Named
<1> QED
    BY <1>1, <1>2, <1>3, <1>4, <1>5, <1>6, <1>7, <1>8, NamesApart DEF PhotosStep

LEMMA LookupsApart ==
    ASSUME TypeInv, Apart, LookupsStep
    PROVE  Apart'
<1>1. ASSUME NEW t \in Tasks, NEW ph \in Phones, O!LookUp(t, ph) PROVE Apart'
    BY <1>1, LookupBegins, NewName
<1>2. ASSUME NEW t \in Tasks, O!GetMarketPulseUsage(t) PROVE NamesKept
    BY <1>2, UsageRead DEF NamesKept, Named, Only
<1>3. ASSUME NEW t \in Tasks, O!EvaluateMarketPulseGate(t) PROVE NamesKept
    BY <1>3, GateEvaluated DEF NamesKept, Named, Only, O!Idle
<1>4. ASSUME NEW t \in Tasks, O!RecordMarketPulseLookup(t) PROVE NamesKept
    BY <1>4, LookupRecorded DEF NamesKept, Named, Only
<1>5. ASSUME NEW t \in Tasks, O!CountLookup(t) PROVE NamesKept
    BY <1>5, LookupCounted DEF NamesKept, Named, Only, O!Idle
<1> QED
    BY <1>1, <1>2, <1>3, <1>4, <1>5, NamesApart DEF LookupsStep

-----------------------------------------------------------------------------
(* Photo requests.                                                          *)

LEMMA Tallies ==
    ASSUME TypeInv
    PROVE  \A k : Sent(k) \in Nat /\ Excused(k) \in Nat
BY Counted DEF TypeInv, CountsTyped, Sent, Excused

LEMMA TalliesAfter ==
    ASSUME TypeInv'
    PROVE  \A k : Sent(k)' \in Nat /\ Excused(k)' \in Nat
BY Counted DEF TypeInv, CountsTyped, Sent, Excused

LEMMA Says ==
    ASSUME TypeInv, NEW S, asked' = O!Noted(asked, S)
    PROVE  \A k : Sent(k)' = Sent(k) + (IF k \in S THEN 1 ELSE 0)
BY Noting DEF TypeInv, CountsTyped, Sent

LEMMA Pardons ==
    ASSUME TypeInv, NEW S, pardon' = O!Noted(pardon, S)
    PROVE  \A k : Excused(k)' = Excused(k) + (IF k \in S THEN 1 ELSE 0)
BY Noting DEF TypeInv, CountsTyped, Excused

LEMMA SaysNothing ==
    ASSUME UNCHANGED <<asked, pardon>>
    PROVE  \A k : Sent(k)' = Sent(k) /\ Excused(k)' = Excused(k)
BY DEF Sent, Excused

LEMMA PhotosStay ==
    ASSUME TypeInv, TypeInv', PhotosKept, PhotosStill
    PROVE  PhotosKept'
<1> SUFFICES ASSUME NEW l \in Listings, NEW b \in Buyers
             PROVE  PhotoKept(l, b)'
    BY DEF PhotosKept
<1> DEFINE k == <<"photo", l, b>>
<1>1. Sent(k)' = Sent(k) /\ Excused(k)' >= Excused(k) /\ Sent(k) \in Nat /\ Excused(k) \in Nat
    BY Tallies DEF PhotosStill, Quiet
<1>2. Excused(k)' \in Nat
    BY TalliesAfter
<1>3. \A t \in Tasks : AsksFor(t, l, b)' <=> AsksFor(t, l, b)
    BY DEF PhotosStill, Leaves, AsksFor
<1>4. \A t \in Tasks : AsksFor(t, l, b)' => task'[t].pc = task[t].pc
    BY DEF PhotosStill, Leaves, AsksFor
<1>5. O!Duplicate(l)' <=> O!Duplicate(l)
    BY DEF PhotosStill, O!Duplicate
<1>6. PhotoKept(l, b)
    BY DEF PhotosKept
<1> HIDE DEF k
<1> QED
    BY <1>1, <1>2, <1>3, <1>4, <1>5, <1>6 DEF PhotoKept, k

(* What is asked, excused and recorded, where a step does none of it to     *)
(* this listing and buyer.                                                  *)
LEMMA PhotoElsewhere ==
    ASSUME TypeInv, PhotosKept, NEW l \in Listings, NEW b \in Buyers,
           Sent(<<"photo", l, b>>)' = Sent(<<"photo", l, b>>),
           Excused(<<"photo", l, b>>)' = Excused(<<"photo", l, b>>),
           \A t \in Tasks : AsksFor(t, l, b)' <=> AsksFor(t, l, b),
           \A t \in Tasks : AsksFor(t, l, b) => task'[t].pc = task[t].pc,
           O!Duplicate(l) => O!Duplicate(l)'
    PROVE  PhotoKept(l, b)'
<1> DEFINE k == <<"photo", l, b>>
<1>1. PhotoKept(l, b) /\ Sent(k) \in Nat /\ Excused(k) \in Nat
    BY Tallies DEF PhotosKept
<1> HIDE DEF k
<1> QED
    BY <1>1 DEF PhotoKept, k

LEMMA PhotoExcused ==
    ASSUME TypeInv, PhotosKept, NEW l \in Listings, NEW b \in Buyers,
           Sent(<<"photo", l, b>>)' = Sent(<<"photo", l, b>>),
           Excused(<<"photo", l, b>>)' = Excused(<<"photo", l, b>>) + 1
    PROVE  PhotoKept(l, b)'
<1> DEFINE k == <<"photo", l, b>>
<1>1. PhotoKept(l, b) /\ Sent(k) \in Nat /\ Excused(k) \in Nat
    BY Tallies DEF PhotosKept
<1>2. Sent(k)' <= 1 + Excused(k)' /\ Sent(k)' <= Excused(k)'
    BY <1>1 DEF PhotoKept
<1> HIDE DEF k
<1> QED
    BY <1>2 DEF PhotoKept, k

LEMMA LooksKept ==
    ASSUME TypeInv, Apart, PhotosKept, NEW t \in Tasks, O!GetPhotoRequestRecord(t)
    PROVE  PhotosKept'
<1> SUFFICES ASSUME NEW l \in Listings, NEW b \in Buyers
             PROVE  PhotoKept(l, b)'
    BY DEF PhotosKept
<1> DEFINE k == <<"photo", l, b>>
<1>1. /\ UNCHANGED <<photo, asked, pardon>> /\ Only(t) /\ task[t].pc = "look"
      /\ \/ task'[t].pc = "idle"
         \/ /\ ~O!Duplicate(task[t].of) /\ task'[t].pc = "ask"
            /\ task'[t].who = task[t].who /\ task'[t].of = task[t].of
    BY RequestLooks DEF Tables, O!Idle
<1>2. Sent(k)' = Sent(k) /\ Excused(k)' = Excused(k) /\ PhotoKept(l, b)
    BY <1>1, SaysNothing DEF PhotosKept
<1>3. O!Duplicate(l)' <=> O!Duplicate(l)
    BY <1>1 DEF O!Duplicate
<1>4. \A u \in Tasks : u # t => /\ AsksFor(u, l, b)' <=> AsksFor(u, l, b)
                                /\ task'[u].pc = task[u].pc
    BY <1>1 DEF AsksFor, Only
<1>5. ~AsksFor(t, l, b)
    BY <1>1 DEF AsksFor
<1>6. CASE ~AsksFor(t, l, b)'
    BY <1>2, <1>3, <1>4, <1>5, <1>6, PhotoElsewhere
<1>7. CASE AsksFor(t, l, b)'
    <2>1. /\ ~O!Duplicate(l) /\ task[t].of = l /\ task[t].who = b
          /\ task'[t].pc = "ask"
        BY <1>1, <1>7 DEF AsksFor
    <2>2. \A u \in Tasks : ~AsksFor(u, l, b)
        BY <1>1, <2>1 DEF Apart, AsksFor, Named
    <2>3. Sent(k) <= Excused(k) /\ Sent(k) \in Nat /\ Excused(k) \in Nat
        BY <1>2, <2>1, <2>2, Tallies DEF PhotoKept
    <2> HIDE DEF k
    <2> QED
        BY <1>2, <2>3 DEF PhotoKept, k
<1> QED
    BY <1>6, <1>7

LEMMA AskKept ==
    ASSUME TypeInv, Apart, PhotosKept, NEW t \in Tasks, O!AskSeller(t)
    PROVE  PhotosKept'
<1> SUFFICES ASSUME NEW l \in Listings, NEW b \in Buyers
             PROVE  PhotoKept(l, b)'
    BY DEF PhotosKept
<1> DEFINE k == <<"photo", l, b>>
           S == {<<"photo", task[t].of, task[t].who>>}
<1>1. /\ UNCHANGED <<photo, pardon>> /\ Only(t) /\ task[t].pc = "ask" /\ task'[t].pc = "mark"
      /\ task'[t].who = task[t].who /\ task'[t].of = task[t].of
      /\ asked' = O!Noted(asked, S)
    BY SellerAsked DEF Tables
<1>2. /\ Sent(k)' = Sent(k) + (IF k \in S THEN 1 ELSE 0) /\ Excused(k)' = Excused(k)
      /\ Sent(k) \in Nat /\ Excused(k) \in Nat /\ PhotoKept(l, b)
    BY <1>1, Says, Tallies DEF PhotosKept, Excused
<1>3. O!Duplicate(l)' <=> O!Duplicate(l)
    BY <1>1 DEF O!Duplicate
<1>4. k \in S <=> AsksFor(t, l, b)
    BY <1>1 DEF AsksFor
<1> HIDE DEF k, S
<1>5. \A u \in Tasks : u # t => /\ AsksFor(u, l, b)' <=> AsksFor(u, l, b)
                                /\ task'[u].pc = task[u].pc
    BY <1>1 DEF AsksFor, Only
<1>6. AsksFor(t, l, b)' <=> AsksFor(t, l, b)
    BY <1>1 DEF AsksFor
<1>7. CASE ~AsksFor(t, l, b)
    BY <1>2, <1>3, <1>4, <1>5, <1>6, <1>7, PhotoElsewhere DEF k
<1>8. CASE AsksFor(t, l, b)
    <2>1. Sent(k) <= Excused(k)
        BY <1>1, <1>2, <1>8 DEF PhotoKept, k
    <2>2. Sent(k)' <= 1 + Excused(k)'
        BY <1>2, <2>1
    <2>3. \A u \in Tasks : AsksFor(u, l, b)' => task'[u].pc # "ask"
        <3>1. \A u \in Tasks : AsksFor(u, l, b) => u = t
            BY <1>8 DEF Apart, AsksFor, Named
        <3> QED
            BY <1>1, <1>5, <3>1
    <2> QED
        BY <1>6, <1>8, <2>2, <2>3 DEF PhotoKept, k
<1> QED
    BY <1>7, <1>8

LEMMA MarkKept ==
    ASSUME TypeInv, Apart, PhotosKept, NEW t \in Tasks, O!MarkPhotoRequested(t)
    PROVE  PhotosKept'
<1> SUFFICES ASSUME NEW l \in Listings, NEW b \in Buyers
             PROVE  PhotoKept(l, b)'
    BY DEF PhotosKept
<1> DEFINE k == <<"photo", l, b>>
<1>1. /\ UNCHANGED <<asked, pardon>> /\ Only(t) /\ task[t].pc = "mark" /\ task'[t].pc = "idle"
      /\ O!Duplicate(l) \/ l = task[t].of => O!Duplicate(l)'
    BY RequestMarked DEF O!Idle
<1>2. /\ Sent(k)' = Sent(k) /\ Excused(k)' = Excused(k) /\ PhotoKept(l, b)
      /\ Sent(k) \in Nat /\ Excused(k) \in Nat
    BY <1>1, SaysNothing, Tallies DEF PhotosKept
<1>3. /\ ~AsksFor(t, l, b)'
      /\ \A u \in Tasks : u # t => /\ AsksFor(u, l, b)' <=> AsksFor(u, l, b)
                                   /\ task'[u].pc = task[u].pc
    BY <1>1 DEF AsksFor, Only
<1> HIDE DEF k
<1>4. CASE ~AsksFor(t, l, b)
    BY <1>1, <1>2, <1>3, <1>4, PhotoElsewhere DEF k
<1>5. CASE AsksFor(t, l, b)
    <2>1. O!Duplicate(l)'
        BY <1>1, <1>5 DEF AsksFor
    <2> QED
        BY <1>2, <1>3, <2>1 DEF PhotoKept, k
<1> QED
    BY <1>4, <1>5

LEMMA AppendKept ==
    ASSUME TypeInv, PhotosKept, NEW t \in Tasks, O!AppendReceivedPhoto(t)
    PROVE  PhotosKept'
<1> SUFFICES ASSUME NEW l \in Listings, NEW b \in Buyers
             PROVE  PhotoKept(l, b)'
    BY DEF PhotosKept
<1> DEFINE k == <<"photo", l, b>>
           S == {<<"photo", task[t].of, c>> : c \in Buyers}
<1>1. /\ UNCHANGED asked /\ Only(t) /\ task[t].pc = "append" /\ task'[t].pc = "forward"
      /\ l # task[t].of /\ O!Duplicate(l) => O!Duplicate(l)'
      /\ pardon' = O!Noted(pardon, S)
    BY ImageKept
<1>2. Sent(k)' = Sent(k) /\ Excused(k)' = Excused(k) + (IF k \in S THEN 1 ELSE 0)
    BY <1>1, Pardons DEF Sent
<1>3. k \in S <=> l = task[t].of
    OBVIOUS
<1>4. Excused(k) \in Nat
    BY Tallies
<1> HIDE DEF k, S
<1>5. \A u \in Tasks : /\ AsksFor(u, l, b)' <=> AsksFor(u, l, b)
                       /\ AsksFor(u, l, b) => task'[u].pc = task[u].pc
    BY <1>1 DEF AsksFor, Only
<1>6. CASE l = task[t].of
    BY <1>2, <1>3, <1>6, PhotoExcused DEF k
<1>7. CASE l # task[t].of
    BY <1>1, <1>2, <1>3, <1>4, <1>5, <1>7, PhotoElsewhere DEF k
<1> QED
    BY <1>6, <1>7

LEMMA AgesKept ==
    ASSUME TypeInv, PhotosKept, NEW m \in Listings, O!RequestAges(m)
    PROVE  PhotosKept'
<1> SUFFICES ASSUME NEW l \in Listings, NEW b \in Buyers
             PROVE  PhotoKept(l, b)'
    BY DEF PhotosKept
<1> DEFINE k == <<"photo", l, b>>
           S == {<<"photo", m, c>> : c \in Buyers}
<1>1. /\ UNCHANGED <<asked, task>>
      /\ l # m /\ O!Duplicate(l) => O!Duplicate(l)'
      /\ pardon' = O!Noted(pardon, S)
    BY RequestOlder
<1>2. Sent(k)' = Sent(k) /\ Excused(k)' = Excused(k) + (IF k \in S THEN 1 ELSE 0)
    BY <1>1, Pardons DEF Sent
<1>3. k \in S <=> l = m
    OBVIOUS
<1>4. Excused(k) \in Nat
    BY Tallies
<1> HIDE DEF k, S
<1>5. \A u \in Tasks : /\ AsksFor(u, l, b)' <=> AsksFor(u, l, b)
                       /\ AsksFor(u, l, b) => task'[u].pc = task[u].pc
    BY <1>1 DEF AsksFor
<1>6. CASE l = m
    BY <1>2, <1>3, <1>6, PhotoExcused DEF k
<1>7. CASE l # m
    BY <1>1, <1>2, <1>3, <1>4, <1>5, <1>7, PhotoElsewhere DEF k
<1> QED
    BY <1>6, <1>7

LEMMA PhotosMove ==
    ASSUME TypeInv, TypeInv', Apart, PhotosKept, PhotosStep
    PROVE  PhotosKept'
<1>1. ASSUME NEW t \in Tasks, NEW b \in Buyers, NEW l \in Listings,
             O!RequestPhotosForMatch(t, b, l)
      PROVE  PhotosStill
    BY <1>1, RequestBegins, Unsent DEF PhotosStill, Leaves, Only, Tables
<1>2. ASSUME NEW t \in Tasks, NEW s, O!HandleIncomingSellerPhoto(t, s) PROVE PhotosStill
    BY <1>2, ImageComes, Unsent DEF PhotosStill, Leaves, Only, Tables
<1>3. ASSUME NEW t \in Tasks, O!ForwardPhoto(t) PROVE PhotosStill
    <2>1. PICK S : /\ asked' = O!Noted(asked, S) /\ UNCHANGED pardon
                   /\ \A k \in S : k[1] \in {"image", "card"}
        BY <1>3, ImageForwarded
    <2>2. Quiet("photo")
        BY <2>1, OtherSent
    <2> QED
        BY <1>3, <2>2, ImageForwarded DEF PhotosStill, Leaves, Only, Tables, O!Idle
<1> QED
    BY <1>1, <1>2, <1>3, PhotosStay, LooksKept, AskKept, MarkKept, AppendKept, AgesKept
       DEF PhotosStep

LEMMA PhotosThrow ==
    ASSUME TypeInv, TypeInv', Apart, PhotosKept, NEW t \in Tasks, O!Throws(t)
    PROVE  PhotosKept'
<1>1. CASE task[t].pc \notin {"ask", "mark"}
    BY <1>1, ThrowsLeave, PhotosStay
<1>2. CASE task[t].pc \in {"ask", "mark"}
    <2> SUFFICES ASSUME NEW l \in Listings, NEW b \in Buyers
                 PROVE  PhotoKept(l, b)'
        BY DEF PhotosKept
    <2> DEFINE k == <<"photo", l, b>>
               T == {<<"photo", task[t].of, task[t].who>>}
    <2>1. UNCHANGED photo /\ Only(t) /\ task'[t] = O!Idle /\ O!Sending(t) = T
        BY <1>2, TaskThrows, ThrownKnown, SendingIs
    <2>2. PICK S : /\ S \subseteq T /\ asked' = O!Noted(asked, S) /\ pardon' = O!Noted(pardon, T)
                   /\ task[t].pc = "mark" => S = {}
        BY <2>1, TaskThrows
    <2>3. /\ Sent(k)' = Sent(k) + (IF k \in S THEN 1 ELSE 0)
          /\ Excused(k)' = Excused(k) + (IF k \in T THEN 1 ELSE 0)
          /\ Sent(k) \in Nat /\ Excused(k) \in Nat /\ PhotoKept(l, b)
        BY <2>2, Says, Pardons, Tallies DEF PhotosKept
    <2>4. k \in T <=> AsksFor(t, l, b)
        BY <1>2 DEF AsksFor
    <2>5. \A u \in Tasks : u # t => /\ AsksFor(u, l, b)' <=> AsksFor(u, l, b)
                                    /\ task'[u].pc = task[u].pc
        BY <2>1 DEF AsksFor, Only
    <2>6. ~AsksFor(t, l, b)'
        BY <2>1 DEF AsksFor, O!Idle
    <2>7. O!Duplicate(l)' <=> O!Duplicate(l)
        BY <2>1 DEF O!Duplicate
    <2> HIDE DEF k, T
    <2>8. CASE ~AsksFor(t, l, b)
        <3>1. Sent(k)' = Sent(k) /\ Excused(k)' = Excused(k)
            BY <2>2, <2>3, <2>4, <2>8
        <3> QED
            BY <2>5, <2>6, <2>7, <2>8, <3>1, PhotoElsewhere DEF k
    <2>9. CASE AsksFor(t, l, b)
        <3>1. Sent(k)' <= Excused(k)'
            BY <1>2, <2>2, <2>3, <2>4, <2>9 DEF PhotoKept, k
        <3>2. Excused(k)' \in Nat /\ Sent(k)' \in Nat
            BY <2>3
        <3> QED
            BY <3>1, <3>2 DEF PhotoKept, k
    <2> QED
        BY <2>8, <2>9
<1> QED
    BY <1>1, <1>2

LEMMA PhotosRestart ==
    ASSUME TypeInv, TypeInv', IsFiniteSet(Phones), PhotosKept, O!Restart
    PROVE  PhotosKept'
<1> SUFFICES ASSUME NEW l \in Listings, NEW b \in Buyers
             PROVE  PhotoKept(l, b)'
    BY DEF PhotosKept
<1> DEFINE k == <<"photo", l, b>>
           T == UNION {O!Sending(t) : t \in Tasks}
<1>1. /\ UNCHANGED <<photo, asked>> /\ pardon' = O!Noted(pardon, T)
      /\ \A t \in Tasks : task'[t] = O!Idle
    BY AllRestart
<1>2. /\ Sent(k)' = Sent(k) /\ Excused(k)' = Excused(k) + (IF k \in T THEN 1 ELSE 0)
      /\ Sent(k) \in Nat /\ Excused(k) \in Nat /\ PhotoKept(l, b)
    BY <1>1, Pardons, Tallies DEF PhotosKept, Sent
<1>3. \A t \in Tasks : AsksFor(t, l, b) => k \in T
    BY SendingIs DEF AsksFor
<1>4. O!Duplicate(l)' <=> O!Duplicate(l)
    BY <1>1 DEF O!Duplicate
<1>5. \A t \in Tasks : ~AsksFor(t, l, b)'
    BY <1>1 DEF AsksFor, O!Idle
<1> HIDE DEF k, T
<1>6. Sent(k)' <= 1 + Excused(k)' /\ (O!Duplicate(l)' \/ Sent(k)' <= Excused(k)')
    BY <1>2, <1>3, <1>4 DEF PhotoKept, k
<1> QED
    BY <1>5, <1>6 DEF PhotoKept, k

-----------------------------------------------------------------------------
(* Reminders.                                                               *)

LEMMA RunnerStay ==
    ASSUME TypeInv, OneRunner, RemindersStill
    PROVE  OneRunner'
<1>1. /\ reminding' = reminding
      /\ \A u \in Tasks : Runner(task'[u]) => task'[u] = task[u] /\ Runner(task[u])
    BY DEF RemindersStill, Leaves, Runner
<1> QED
    BY <1>1 DEF OneRunner, Runner

LEMMA RemindersStay ==
    ASSUME TypeInv, TypeInv', RemindersKept, RemindersStill
    PROVE  RemindersKept'
<1>1. /\ UNCHANGED posting
      /\ \A u \in Tasks : task[u].pc \in {"find", "remind", "claim"}
            \/ task'[u].pc \in {"find", "remind", "claim"} => task'[u] = task[u]
    BY DEF RemindersStill, Leaves
<1>2. \A p, x : /\ Sent(<<"reminder", p, x>>)' = Sent(<<"reminder", p, x>>)
                /\ Excused(<<"reminder", p, x>>)' >= Excused(<<"reminder", p, x>>)
    BY DEF RemindersStill, Quiet
<1>3. \A k : Sent(k) \in Nat /\ Excused(k) \in Nat /\ Excused(k)' \in Nat
    BY Tallies, TalliesAfter
<1>4. ASSUME NEW p \in Postings, NEW x \in Nat PROVE ReminderKept(p, x)'
    <2> DEFINE k == <<"reminder", p, x>>
    <2>1. /\ Sent(k)' = Sent(k) /\ Excused(k)' >= Excused(k)
          /\ Sent(k) \in Nat /\ Excused(k) \in Nat /\ Excused(k)' \in Nat
        BY <1>2, <1>3
    <2>2. ReminderKept(p, x)
        BY DEF RemindersKept
    <2>3. \A t \in Tasks : Claims(t, p) => Claims(t, p)'
        BY <1>1 DEF Claims
    <2> HIDE DEF k
    <2> QED
        BY <1>1, <2>1, <2>2, <2>3 DEF ReminderKept, k
<1>5. ASSUME NEW t \in Tasks PROVE TodoKept(t)'
    <2> SUFFICES ASSUME task'[t].pc \in {"remind", "claim"}, NEW c \in task'[t].todo
                 PROVE  /\ c[2] <= posting'[c[1]].expires
                        /\ Sent(<<"reminder", c[1], c[2]>>)'
                           <= Excused(<<"reminder", c[1], c[2]>>)'
        BY DEF TodoKept
    <2> DEFINE k == <<"reminder", c[1], c[2]>>
    <2>1. task'[t] = task[t]
        BY <1>1
    <2>2. c[2] <= posting[c[1]].expires /\ Sent(k) <= Excused(k)
        BY <2>1 DEF RemindersKept, TodoKept
    <2>3. /\ Sent(k)' = Sent(k) /\ Excused(k)' >= Excused(k)
          /\ Sent(k) \in Nat /\ Excused(k) \in Nat /\ Excused(k)' \in Nat
        BY <1>2, <1>3
    <2> HIDE DEF k
    <2>4. Sent(k)' <= Excused(k)'
        BY <2>2, <2>3
    <2> QED
        BY <1>1, <2>2, <2>4 DEF k
<1> QED
    BY <1>4, <1>5 DEF RemindersKept

(* Where no reminder goes out or is excused, what the run has left to do    *)
(* does not grow, and no claim or change of the posting takes away why one  *)
(* is not sent again.                                                       *)
LEMMA ReminderElsewhere ==
    ASSUME TypeInv, RemindersKept, NEW p \in Postings, NEW x \in Nat,
           Sent(<<"reminder", p, x>>)' = Sent(<<"reminder", p, x>>),
           Excused(<<"reminder", p, x>>)' = Excused(<<"reminder", p, x>>),
           posting'[p] = posting[p],
           \A t \in Tasks : Claims(t, p) => Claims(t, p)'
    PROVE  ReminderKept(p, x)'
<1> DEFINE k == <<"reminder", p, x>>
<1>1. ReminderKept(p, x) /\ Sent(k) \in Nat /\ Excused(k) \in Nat
    BY Tallies DEF RemindersKept
<1> HIDE DEF k
<1> QED
    BY <1>1 DEF ReminderKept, k

LEMMA TodoElsewhere ==
    ASSUME TypeInv, RemindersKept, NEW t \in Tasks, task[t].pc \in {"remind", "claim"},
           task'[t].todo \subseteq task[t].todo,
           \A c \in task'[t].todo :
              /\ Sent(<<"reminder", c[1], c[2]>>)' = Sent(<<"reminder", c[1], c[2]>>)
              /\ Excused(<<"reminder", c[1], c[2]>>)' = Excused(<<"reminder", c[1], c[2]>>)
              /\ posting[c[1]].expires <= posting'[c[1]].expires
              /\ posting[c[1]].expires \in Nat /\ posting'[c[1]].expires \in Nat
              /\ c[2] \in Nat
    PROVE  TodoKept(t)'
<1> SUFFICES ASSUME NEW c \in task'[t].todo
             PROVE  /\ c[2] <= posting'[c[1]].expires
                    /\ Sent(<<"reminder", c[1], c[2]>>)'
                       <= Excused(<<"reminder", c[1], c[2]>>)'
    BY DEF TodoKept
<1> DEFINE k == <<"reminder", c[1], c[2]>>
<1>1. c[2] <= posting[c[1]].expires /\ Sent(k) <= Excused(k)
    BY DEF RemindersKept, TodoKept
<1> HIDE DEF k
<1> QED
    BY <1>1 DEF k

LEMMA TodoTyped ==
    ASSUME TypeInv, NEW t \in Tasks, task[t].pc \in {"remind", "claim"}, NEW c \in task[t].todo
    PROVE  c[1] \in Postings /\ c[2] \in Nat /\ c = <<c[1], c[2]>>
<1>1. task[t] \in RemindTask
    BY TaskIs
<1> QED
    BY <1>1 DEF RemindTask

LEMMA ExpiresTyped ==
    ASSUME TypeInv
    PROVE  \A p \in Postings : posting[p].expires \in Nat /\ posting[p].reminded \in Nat
BY DEF TypeInv, PostingsTyped, PostingKnown

LEMMA BeginKept ==
    ASSUME TypeInv, OneRunner, RemindersKept, NEW t \in Tasks, O!SendExpirationReminders(t)
    PROVE  OneRunner' /\ RemindersKept'
<1>1. /\ UNCHANGED <<posting, asked, pardon>> /\ Only(t)
      /\ task[t].pc = "idle" /\ task'[t].pc = "find"
      /\ reminding # TRUE /\ reminding' = TRUE
    BY RemindersBegin
<1>2. \A u \in Tasks : ~Runner(task[u])
    BY <1>1 DEF OneRunner
<1>3. OneRunner'
    BY <1>1, <1>2 DEF OneRunner, Runner, Only
<1>4. ASSUME NEW p \in Postings, NEW x \in Nat PROVE ReminderKept(p, x)'
    <2>1. \A u \in Tasks : Claims(u, p) => Claims(u, p)'
        BY <1>2 DEF Claims, Runner
    <2>2. /\ Sent(<<"reminder", p, x>>)' = Sent(<<"reminder", p, x>>)
          /\ Excused(<<"reminder", p, x>>)' = Excused(<<"reminder", p, x>>)
          /\ posting'[p] = posting[p]
        BY <1>1, SaysNothing
    <2> QED
        BY <2>1, <2>2, ReminderElsewhere
<1>5. ASSUME NEW u \in Tasks PROVE TodoKept(u)'
    BY <1>1, <1>2 DEF TodoKept, Runner, Only
<1> QED
    BY <1>3, <1>4, <1>5 DEF RemindersKept

LEMMA FoundKept ==
    ASSUME TypeInv, OneRunner, RemindersKept, NEW t \in Tasks, O!FindPostingsNeedingReminder(t)
    PROVE  OneRunner' /\ RemindersKept'
<1>1. /\ UNCHANGED <<posting, reminding, asked, pardon>> /\ Only(t)
      /\ task[t].pc = "find" /\ task'[t].pc = "remind"
      /\ \A c \in task'[t].todo : /\ c[1] \in Postings /\ c = <<c[1], c[2]>>
                                  /\ c[2] = posting[c[1]].expires /\ Due(c[1])
    BY PostingsFound DEF Tables
<1>2. \A u \in Tasks : u # t => ~Runner(task[u])
    BY <1>1 DEF OneRunner, Runner
<1>3. OneRunner'
    BY <1>1 DEF OneRunner, Runner, Only
<1>4. \A u \in Tasks, p \in Postings : ~Claims(u, p)
    BY <1>1, <1>2 DEF Claims, Runner
<1>5. ASSUME NEW p \in Postings, NEW x \in Nat PROVE ReminderKept(p, x)'
    <2>1. /\ Sent(<<"reminder", p, x>>)' = Sent(<<"reminder", p, x>>)
          /\ Excused(<<"reminder", p, x>>)' = Excused(<<"reminder", p, x>>)
          /\ posting'[p] = posting[p]
        BY <1>1, SaysNothing
    <2> QED
        BY <1>4, <2>1, ReminderElsewhere
<1>6. ASSUME NEW u \in Tasks PROVE TodoKept(u)'
    <2>1. CASE u # t
        BY <1>1, <1>2, <2>1 DEF TodoKept, Runner, Only
    <2>2. CASE u = t
        <3> SUFFICES ASSUME NEW c \in task'[t].todo
                     PROVE  /\ c[2] <= posting'[c[1]].expires
                            /\ Sent(<<"reminder", c[1], c[2]>>)'
                               <= Excused(<<"reminder", c[1], c[2]>>)'
            BY <2>2 DEF TodoKept
        <3> DEFINE k == <<"reminder", c[1], c[2]>>
        <3>1. c[1] \in Postings /\ c[2] = posting[c[1]].expires /\ Due(c[1]) /\ c[2] \in Nat
            BY <1>1, ExpiresTyped
        <3>2. ReminderKept(c[1], c[2])
            BY <3>1 DEF RemindersKept
        <3>3. Sent(k) <= Excused(k)
            BY <1>4, <3>1, <3>2 DEF ReminderKept, Due
        <3>4. Sent(k)' = Sent(k) /\ Excused(k)' = Excused(k)
            BY <1>1, SaysNothing
        <3> HIDE DEF k
        <3> QED
            BY <1>1, <3>1, <3>3, <3>4 DEF k
    <2> QED
        BY <2>1, <2>2
<1> QED
    BY <1>3, <1>5, <1>6 DEF RemindersKept

LEMMA RemindKept ==
    ASSUME TypeInv, OneRunner, RemindersKept, NEW t \in Tasks, O!Remind(t)
    PROVE  OneRunner' /\ RemindersKept'
<1>1. /\ UNCHANGED <<posting, reminding, pardon>> /\ Only(t)
      /\ task[t].pc = "remind" /\ task'[t].pc = "claim"
    BY Reminded DEF Tables
<1>2. PICK c \in task[t].todo :
          /\ asked' = O!Noted(asked, {<<"reminder", c[1], c[2]>>})
          /\ task'[t].todo = task[t].todo \ {c} /\ task'[t].of = c[1]
    BY Reminded
<1>3. c[1] \in Postings /\ c[2] \in Nat /\ c = <<c[1], c[2]>>
    BY <1>1, TodoTyped
<1>4. \A u \in Tasks : u # t => ~Runner(task[u])
    BY <1>1 DEF OneRunner, Runner
<1>5. OneRunner'
    BY <1>1 DEF OneRunner, Runner, Only
<1>6. \A u \in Tasks, p \in Postings : ~Claims(u, p)
    BY <1>1, <1>4 DEF Claims, Runner
<1> DEFINE S == {<<"reminder", c[1], c[2]>>}
<1>7. \A k : /\ Sent(k)' = Sent(k) + (IF k \in S THEN 1 ELSE 0) /\ Excused(k)' = Excused(k)
             /\ Sent(k) \in Nat /\ Excused(k) \in Nat
    BY <1>1, <1>2, Says, Tallies DEF Excused
<1>8. ASSUME NEW p \in Postings, NEW x \in Nat PROVE ReminderKept(p, x)'
    <2> DEFINE k == <<"reminder", p, x>>
    <2>1. /\ Sent(k)' = Sent(k) + (IF k \in S THEN 1 ELSE 0) /\ Excused(k)' = Excused(k)
          /\ Sent(k) \in Nat /\ Excused(k) \in Nat
        BY <1>7
    <2>2. k \in S <=> p = c[1] /\ x = c[2]
        OBVIOUS
    <2>3. CASE ~(p = c[1] /\ x = c[2])
        <3>1. Sent(k)' = Sent(k)
            BY <2>1, <2>2, <2>3
        <3> QED
            BY <1>1, <1>6, <2>1, <3>1, ReminderElsewhere
    <2>4. CASE p = c[1] /\ x = c[2]
        <3>1. x <= posting[p].expires /\ Sent(k) <= Excused(k)
            BY <1>1, <2>4 DEF RemindersKept, TodoKept
        <3>2. Sent(k)' <= 1 + Excused(k)'
            BY <2>1, <3>1
        <3>3. Claims(t, p)'
            BY <1>1, <1>2, <2>4 DEF Claims
        <3>4. posting'[p].expires \in Nat /\ ~(x > posting'[p].expires)
            BY <1>1, <3>1, ExpiresTyped
        <3> HIDE DEF k
        <3> QED
            BY <3>2, <3>3, <3>4 DEF ReminderKept, k
    <2> QED
        BY <2>3, <2>4
<1>9. ASSUME NEW u \in Tasks PROVE TodoKept(u)'
    <2>1. CASE u # t
        BY <1>1, <1>4, <2>1 DEF TodoKept, Runner, Only
    <2>2. CASE u = t
        <3>1. ASSUME NEW d \in task'[t].todo
              PROVE  /\ Sent(<<"reminder", d[1], d[2]>>)' = Sent(<<"reminder", d[1], d[2]>>)
                     /\ Excused(<<"reminder", d[1], d[2]>>)' = Excused(<<"reminder", d[1], d[2]>>)
                     /\ posting[d[1]].expires <= posting'[d[1]].expires
                     /\ posting[d[1]].expires \in Nat /\ posting'[d[1]].expires \in Nat
                     /\ d[2] \in Nat
            <4> DEFINE k == <<"reminder", d[1], d[2]>>
            <4>1. d # c /\ d[1] \in Postings /\ d[2] \in Nat /\ d = <<d[1], d[2]>>
                BY <1>1, <1>2, <3>1, TodoTyped
            <4>2. k \notin S
                BY <1>3, <4>1
            <4>3. Sent(k)' = Sent(k) /\ Excused(k)' = Excused(k)
                BY <1>7, <4>2
            <4> HIDE DEF k
            <4> QED
                BY <1>1, <4>1, <4>3, ExpiresTyped DEF k
        <3>2. task'[t].todo \subseteq task[t].todo
            BY <1>2
        <3> QED
            BY <1>1, <2>2, <3>1, <3>2, TodoElsewhere
    <2> QED
        BY <2>1, <2>2
<1> QED
    BY <1>5, <1>8, <1>9 DEF RemindersKept

LEMMA ClaimKept ==
    ASSUME TypeInv, TypeInv', OneRunner, RemindersKept, NEW t \in Tasks,
           O!ClaimReminderForPosting(t)
    PROVE  OneRunner' /\ RemindersKept'
<1>1. /\ UNCHANGED <<reminding, asked, pardon>> /\ Only(t)
      /\ task[t].pc = "claim" /\ task'[t].pc = "remind" /\ task'[t].todo = task[t].todo
      /\ \A p \in Postings :
            /\ posting'[p].expires = posting[p].expires
            /\ p = task[t].of => posting'[p].reminded = posting[p].expires
            /\ p # task[t].of => posting'[p] = posting[p]
    BY ReminderClaimed
<1>2. \A u \in Tasks : u # t => ~Runner(task[u])
    BY <1>1 DEF OneRunner, Runner
<1>3. OneRunner'
    BY <1>1 DEF OneRunner, Runner, Only
<1>4. ASSUME NEW p \in Postings, NEW x \in Nat PROVE ReminderKept(p, x)'
    <2> DEFINE k == <<"reminder", p, x>>
    <2>1. Sent(k)' = Sent(k) /\ Excused(k)' = Excused(k)
        BY <1>1, SaysNothing
    <2>2. CASE p # task[t].of
        <3>1. \A u \in Tasks : ~Claims(u, p)
            BY <1>2, <2>2 DEF Claims, Runner
        <3> QED
            BY <1>1, <2>1, <2>2, <3>1, ReminderElsewhere
    <2>3. CASE p = task[t].of
        <3>1. /\ ReminderKept(p, x) /\ posting'[p].expires = posting[p].expires
              /\ posting'[p].reminded = posting[p].expires
            BY <1>1, <2>3 DEF RemindersKept
        <3> HIDE DEF k
        <3> QED
            BY <2>1, <3>1 DEF ReminderKept, k
    <2> QED
        BY <2>2, <2>3
<1>5. ASSUME NEW u \in Tasks PROVE TodoKept(u)'
    <2>1. CASE u # t
        BY <1>1, <1>2, <2>1 DEF TodoKept, Runner, Only
    <2>2. CASE u = t
        <3>1. ASSUME NEW d \in task'[t].todo
              PROVE  /\ Sent(<<"reminder", d[1], d[2]>>)' = Sent(<<"reminder", d[1], d[2]>>)
                     /\ Excused(<<"reminder", d[1], d[2]>>)' = Excused(<<"reminder", d[1], d[2]>>)
                     /\ posting[d[1]].expires <= posting'[d[1]].expires
                     /\ posting[d[1]].expires \in Nat /\ posting'[d[1]].expires \in Nat
                     /\ d[2] \in Nat
            <4>1. d[1] \in Postings /\ d[2] \in Nat
                BY <1>1, <3>1, TodoTyped
            <4>2. /\ Sent(<<"reminder", d[1], d[2]>>)' = Sent(<<"reminder", d[1], d[2]>>)
                  /\ Excused(<<"reminder", d[1], d[2]>>)' = Excused(<<"reminder", d[1], d[2]>>)
                BY <1>1, SaysNothing
            <4>3. posting[d[1]].expires \in Nat /\ posting'[d[1]].expires = posting[d[1]].expires
                BY <1>1, <4>1, ExpiresTyped
            <4> QED
                BY <4>1, <4>2, <4>3
        <3>2. task'[t].todo \subseteq task[t].todo
            BY <1>1
        <3> QED
            BY <1>1, <2>2, <3>1, <3>2, TodoElsewhere
    <2> QED
        BY <2>1, <2>2
<1> QED
    BY <1>3, <1>4, <1>5 DEF RemindersKept

LEMMA EndKept ==
    ASSUME TypeInv, OneRunner, RemindersKept, NEW t \in Tasks, O!RemindersDone(t)
    PROVE  OneRunner' /\ RemindersKept'
<1>1. /\ UNCHANGED <<posting, asked, pardon>> /\ Only(t)
      /\ task[t].pc = "remind" /\ task'[t].pc = "idle"
    <2>1. /\ UNCHANGED <<posting, asked, pardon>> /\ Only(t)
          /\ task[t].pc = "remind" /\ task'[t] = O!Idle
        BY RemindersEnd
    <2> QED
        BY <2>1 DEF O!Idle
<1>2. \A u \in Tasks : u # t => ~Runner(task[u])
    BY <1>1 DEF OneRunner, Runner
<1>3. \A u \in Tasks : ~Runner(task'[u])
    BY <1>1, <1>2 DEF Runner, Only
<1>4. OneRunner'
    BY <1>3 DEF OneRunner, Runner
<1>5. ASSUME NEW p \in Postings, NEW x \in Nat PROVE ReminderKept(p, x)'
    <2>1. /\ Sent(<<"reminder", p, x>>)' = Sent(<<"reminder", p, x>>)
          /\ Excused(<<"reminder", p, x>>)' = Excused(<<"reminder", p, x>>)
          /\ posting'[p] = posting[p]
        BY <1>1, SaysNothing
    <2>2. \A u \in Tasks : ~Claims(u, p)
        BY <1>1, <1>2 DEF Claims, Runner
    <2> QED
        BY <2>1, <2>2, ReminderElsewhere
<1>6. \A u \in Tasks : TodoKept(u)'
    BY <1>3 DEF TodoKept, Runner
<1> QED
    BY <1>4, <1>5, <1>6 DEF RemindersKept

LEMMA ChangeKept ==
    ASSUME TypeInv, TypeInv', OneRunner, RemindersKept, NEW q \in Postings, O!PostingChanges(q)
    PROVE  OneRunner' /\ RemindersKept'
<1>1. /\ UNCHANGED <<reminding, task, asked, pardon>>
      /\ \A p \in Postings : /\ posting'[p].reminded = posting[p].reminded
                             /\ posting[p].expires <= posting'[p].expires
    BY PostingMoves
<1>2. OneRunner'
    BY <1>1 DEF OneRunner, Runner
<1>3. \A p \in Postings : posting[p].expires \in Nat /\ posting'[p].expires \in Nat
    <2>1. \A p \in Postings : posting'[p].expires \in Nat
        BY DEF TypeInv, PostingsTyped, PostingKnown
    <2> QED
        BY <2>1, ExpiresTyped
<1>4. ASSUME NEW p \in Postings, NEW x \in Nat PROVE ReminderKept(p, x)'
    <2> DEFINE k == <<"reminder", p, x>>
    <2>1. Sent(k)' = Sent(k) /\ Excused(k)' = Excused(k) /\ ReminderKept(p, x)
        BY <1>1, SaysNothing DEF RemindersKept
    <2>2. \A t \in Tasks : Claims(t, p)' <=> Claims(t, p)
        BY <1>1 DEF Claims
    <2>3. /\ posting'[p].reminded = posting[p].reminded
          /\ posting[p].expires <= posting'[p].expires
          /\ posting[p].expires \in Nat /\ posting'[p].expires \in Nat
        BY <1>1, <1>3
    <2> HIDE DEF k
    <2> QED
        BY <2>1, <2>2, <2>3 DEF ReminderKept, k
<1>5. ASSUME NEW t \in Tasks PROVE TodoKept(t)'
    <2>1. CASE task[t].pc \notin {"remind", "claim"}
        BY <1>1, <2>1 DEF TodoKept
    <2>2. CASE task[t].pc \in {"remind", "claim"}
        <3>1. ASSUME NEW d \in task'[t].todo
              PROVE  /\ Sent(<<"reminder", d[1], d[2]>>)' = Sent(<<"reminder", d[1], d[2]>>)
                     /\ Excused(<<"reminder", d[1], d[2]>>)' = Excused(<<"reminder", d[1], d[2]>>)
                     /\ posting[d[1]].expires <= posting'[d[1]].expires
                     /\ posting[d[1]].expires \in Nat /\ posting'[d[1]].expires \in Nat
                     /\ d[2] \in Nat
            <4>1. d[1] \in Postings /\ d[2] \in Nat
                BY <1>1, <2>2, <3>1, TodoTyped
            <4>2. /\ Sent(<<"reminder", d[1], d[2]>>)' = Sent(<<"reminder", d[1], d[2]>>)
                  /\ Excused(<<"reminder", d[1], d[2]>>)' = Excused(<<"reminder", d[1], d[2]>>)
                BY <1>1, SaysNothing
            <4> QED
                BY <1>1, <1>3, <4>1, <4>2
        <3>2. task'[t].todo \subseteq task[t].todo
            BY <1>1
        <3> QED
            BY <2>2, <3>1, <3>2, TodoElsewhere
    <2> QED
        BY <2>1, <2>2
<1> QED
    BY <1>2, <1>4, <1>5 DEF RemindersKept

LEMMA RemindersMove ==
    ASSUME TypeInv, TypeInv', OneRunner, RemindersKept, RemindersStep
    PROVE  OneRunner' /\ RemindersKept'
BY BeginKept, FoundKept, RemindKept, ClaimKept, EndKept, ChangeKept DEF RemindersStep

LEMMA RemindersThrow ==
    ASSUME TypeInv, TypeInv', OneRunner, RemindersKept, NEW t \in Tasks, O!Throws(t)
    PROVE  OneRunner' /\ RemindersKept'
<1> DEFINE x == task[t]
           T == O!Sending(t)
<1>1. CASE x.pc \notin {"find", "remind", "claim"}
    BY <1>1, ThrowsLeave, RunnerStay, RemindersStay
<1>2. CASE x.pc \in {"find", "remind", "claim"}
    <2>1. /\ UNCHANGED posting /\ Only(t) /\ pardon' = O!Noted(pardon, T)
          /\ x.pc \in {"find", "claim"} => reminding' = FALSE
          /\ x.pc \notin {"find", "claim"} => reminding' = reminding
        BY TaskThrows
    <2>2. /\ x.pc = "remind" => task'[t].pc = "remind" /\ task'[t].todo \subseteq x.todo
          /\ x.pc # "remind" => task'[t] = O!Idle
        BY <1>2, TaskThrows, ThrownKnown
    <2>3. PICK S : /\ S \subseteq T /\ asked' = O!Noted(asked, S)
                   /\ x.pc = "claim" => S = {}
        BY TaskThrows
    <2>4. /\ x.pc = "remind" => T = {<<"reminder", c[1], c[2]>> : c \in x.todo}
          /\ x.pc = "claim" => T = {<<"reminder", x.of, posting[x.of].expires>>}
          /\ x.pc = "find" => T = {}
        BY SendingIs
    <2>5. \A k : /\ Sent(k)' = Sent(k) + (IF k \in S THEN 1 ELSE 0)
                 /\ Excused(k)' = Excused(k) + (IF k \in T THEN 1 ELSE 0)
                 /\ Sent(k) \in Nat /\ Excused(k) \in Nat
        BY <2>1, <2>3, Says, Pardons, Tallies
    <2>6. \A u \in Tasks : u # t => ~Runner(task[u])
        BY <1>2 DEF OneRunner, Runner
    <2>7. OneRunner'
        <3>1. \A u \in Tasks : u # t => ~Runner(task'[u])
            BY <2>1, <2>6 DEF Only
        <3>2. CASE x.pc = "remind"
            <4>1. reminding' = reminding /\ reminding = TRUE
                BY <2>1, <3>2 DEF OneRunner, Runner
            <4> QED
                BY <3>1, <4>1 DEF OneRunner, Runner
        <3>3. CASE x.pc # "remind"
            <4>1. ~Runner(task'[t])
                BY <2>2, <3>3 DEF Runner, O!Idle
            <4> QED
                BY <3>1, <4>1 DEF OneRunner, Runner
        <3> QED
            BY <3>2, <3>3
    <2> HIDE DEF T
    <2>8. ASSUME NEW p \in Postings, NEW e \in Nat PROVE ReminderKept(p, e)'
        <3> DEFINE k == <<"reminder", p, e>>
        <3>1. /\ Sent(k)' = Sent(k) + (IF k \in S THEN 1 ELSE 0)
              /\ Excused(k)' = Excused(k) + (IF k \in T THEN 1 ELSE 0)
              /\ Sent(k) \in Nat /\ Excused(k) \in Nat /\ ReminderKept(p, e)
            BY <2>5 DEF RemindersKept
        <3>2. CASE k \in T
            <4>1. Sent(k)' <= Excused(k)'
                <5>1. CASE x.pc = "remind"
                    <6>1. PICK c \in x.todo : k = <<"reminder", c[1], c[2]>>
                        BY <2>4, <3>2, <5>1
                    <6>2. Sent(k) <= Excused(k)
                        BY <5>1, <6>1 DEF RemindersKept, TodoKept
                    <6> QED
                        BY <3>1, <3>2, <6>2
                <5>2. CASE x.pc = "claim"
                    <6>1. k \notin S /\ Sent(k) <= 1 + Excused(k)
                        BY <2>3, <3>1, <5>2 DEF ReminderKept
                    <6> QED
                        BY <3>1, <3>2, <6>1
                <5>3. CASE x.pc = "find"
                    BY <2>4, <3>2, <5>3
                <5> QED
                    BY <1>2, <5>1, <5>2, <5>3
            <4>2. Sent(k)' \in Nat /\ Excused(k)' \in Nat
                BY <3>1
            <4> HIDE DEF k
            <4> QED
                BY <4>1, <4>2 DEF ReminderKept, k
        <3>3. CASE k \notin T
            <4>1. Sent(k)' = Sent(k) /\ Excused(k)' = Excused(k)
                BY <2>3, <3>1, <3>3
            <4>2. CASE \A u \in Tasks : ~Claims(u, p)
                BY <2>1, <4>1, <4>2, ReminderElsewhere
            <4>3. CASE \E u \in Tasks : Claims(u, p)
                <5>1. x.pc = "claim" /\ x.of = p
                    BY <2>6, <4>3 DEF Claims, Runner
                <5>2. e # posting[p].expires
                    BY <2>4, <3>3, <5>1
                <5> HIDE DEF k
                <5> QED
                    BY <2>1, <3>1, <4>1, <5>2 DEF ReminderKept, k
            <4> QED
                BY <4>2, <4>3
        <3> QED
            BY <3>2, <3>3
    <2>9. ASSUME NEW u \in Tasks PROVE TodoKept(u)'
        <3>1. CASE u # t
            BY <2>1, <2>6, <3>1 DEF TodoKept, Runner, Only
        <3>2. CASE u = t /\ x.pc # "remind"
            BY <2>2, <3>2 DEF TodoKept, O!Idle
        <3>3. CASE u = t /\ x.pc = "remind"
            <4> SUFFICES ASSUME NEW c \in task'[t].todo
                         PROVE  /\ c[2] <= posting'[c[1]].expires
                                /\ Sent(<<"reminder", c[1], c[2]>>)'
                                   <= Excused(<<"reminder", c[1], c[2]>>)'
                BY <3>3 DEF TodoKept
            <4> DEFINE k == <<"reminder", c[1], c[2]>>
            <4>1. c \in x.todo
                BY <2>2, <3>3
            <4>2. c[2] <= posting[c[1]].expires /\ Sent(k) <= Excused(k)
                BY <3>3, <4>1 DEF RemindersKept, TodoKept
            <4>3. k \in T
                BY <2>4, <3>3, <4>1
            <4>4. /\ Sent(k)' = Sent(k) + (IF k \in S THEN 1 ELSE 0)
                  /\ Excused(k)' = Excused(k) + (IF k \in T THEN 1 ELSE 0)
                  /\ Sent(k) \in Nat /\ Excused(k) \in Nat
                BY <2>5
            <4> HIDE DEF k
            <4>5. Sent(k)' <= Excused(k)'
                BY <4>2, <4>3, <4>4
            <4> QED
                BY <2>1, <4>2, <4>5 DEF k
        <3> QED
            BY <3>1, <3>2, <3>3
    <2> QED
        BY <2>7, <2>8, <2>9 DEF RemindersKept
<1> QED
    BY <1>1, <1>2

LEMMA RemindersRestart ==
    ASSUME TypeInv, TypeInv', IsFiniteSet(Phones), RemindersKept, O!Restart
    PROVE  OneRunner' /\ RemindersKept'
<1> DEFINE T == UNION {O!Sending(t) : t \in Tasks}
<1>1. UNCHANGED <<posting, asked>> /\ pardon' = O!Noted(pardon, T)
    BY AllRestart
<1>2. \A t \in Tasks : task'[t].pc = "idle"
    <2>1. \A t \in Tasks : task'[t] = O!Idle
        BY AllRestart
    <2> QED
        BY <2>1 DEF O!Idle
<1>3. OneRunner' /\ \A t \in Tasks : TodoKept(t)'
    BY <1>2 DEF OneRunner, Runner, TodoKept
<1>4. ASSUME NEW p \in Postings, NEW x \in Nat PROVE ReminderKept(p, x)'
    <2> DEFINE k == <<"reminder", p, x>>
    <2>1. /\ Sent(k)' = Sent(k) /\ Excused(k)' = Excused(k) + (IF k \in T THEN 1 ELSE 0)
          /\ Sent(k) \in Nat /\ Excused(k) \in Nat /\ ReminderKept(p, x)
        BY <1>1, Pardons, Tallies DEF RemindersKept, Sent
    <2>2. x = posting[p].expires /\ (\E t \in Tasks : Claims(t, p)) => k \in T
        BY SendingIs DEF Claims
    <2> HIDE DEF k, T
    <2>3. /\ Sent(k)' <= 1 + Excused(k)'
          /\ x > posting'[p].expires => Sent(k)' <= Excused(k)'
          /\ \/ x # posting'[p].expires \/ posting'[p].reminded = x
             \/ Sent(k)' <= Excused(k)'
        BY <1>1, <2>1, <2>2 DEF ReminderKept, k
    <2> QED
        BY <2>3 DEF ReminderKept, k
<1> QED
    BY <1>3, <1>4 DEF RemindersKept

-----------------------------------------------------------------------------
(* Offers.                                                                  *)

LEMMA OffersStay ==
    ASSUME TypeInv, OffersKept, OffersStill
    PROVE  OffersKept'
<1> SUFFICES ASSUME NEW w \in Requests, NEW d \in Dealers
             PROVE  OfferKept(w, d)'
    BY DEF OffersKept
<1> DEFINE k == <<"offer", w, d>>
<1>1. Sent(k)' = Sent(k) /\ DOMAIN offer' = DOMAIN offer /\ OfferKept(w, d)
    BY DEF OffersStill, Quiet, OffersKept
<1>2. \A t \in Tasks : Tells(t, w, d)' <=> Tells(t, w, d)
    BY DEF OffersStill, Leaves, Tells
<1> HIDE DEF k
<1> QED
    BY <1>1, <1>2 DEF OfferKept, k

LEMMA OfferClaimKept ==
    ASSUME TypeInv, OffersKept, NEW t \in Tasks, O!ClaimOpportunity(t)
    PROVE  OffersKept'
<1> SUFFICES ASSUME NEW w \in Requests, NEW d \in Dealers
             PROVE  OfferKept(w, d)'
    BY DEF OffersKept
<1> DEFINE k == <<"offer", w, d>>
           key == <<task[t].of, task'[t].to>>
<1>1. /\ UNCHANGED <<asked, pardon>> /\ Only(t)
      /\ task[t].pc = "offer" /\ task'[t].of = task[t].of
      /\ \/ /\ task'[t].pc = "tell" /\ key \notin DOMAIN offer
            /\ DOMAIN offer' = DOMAIN offer \cup {key}
         \/ task'[t].pc = "offer" /\ DOMAIN offer' = DOMAIN offer
    BY OfferClaimed
<1>2. Sent(k)' = Sent(k) /\ OfferKept(w, d) /\ Sent(k) \in Nat
    BY <1>1, SaysNothing, Tallies DEF OffersKept
<1>3. /\ \A u \in Tasks : u # t => (Tells(u, w, d)' <=> Tells(u, w, d))
      /\ ~Tells(t, w, d)
    BY <1>1 DEF Tells, Only
<1>4. CASE ~Tells(t, w, d)'
    <2>1. <<w, d>> \in DOMAIN offer => <<w, d>> \in DOMAIN offer'
        BY <1>1
    <2> HIDE DEF k
    <2> QED
        BY <1>2, <1>3, <1>4, <2>1 DEF OfferKept, k
<1>5. CASE Tells(t, w, d)'
    <2>1. <<w, d>> = key /\ <<w, d>> \notin DOMAIN offer /\ <<w, d>> \in DOMAIN offer'
        BY <1>1, <1>5 DEF Tells
    <2>2. Sent(k) = 0 /\ \A u \in Tasks : ~Tells(u, w, d)
        BY <1>2, <2>1 DEF OfferKept
    <2> HIDE DEF k
    <2> QED
        BY <1>2, <1>3, <2>1, <2>2 DEF OfferKept, k
<1> QED
    BY <1>4, <1>5

(* A dealer is told, or the message fails after it may have reached him:    *)
(* either way whoever told him goes on to the next.                         *)
LEMMA ToldKept ==
    ASSUME TypeInv, OffersKept, NEW t \in Tasks, Only(t), task[t].pc = "tell",
           task'[t].pc = "offer", DOMAIN offer' = DOMAIN offer,
           NEW S, S \subseteq {<<"offer", task[t].of, task[t].to>>}, asked' = O!Noted(asked, S)
    PROVE  OffersKept'
<1> SUFFICES ASSUME NEW w \in Requests, NEW d \in Dealers
             PROVE  OfferKept(w, d)'
    BY DEF OffersKept
<1> DEFINE k == <<"offer", w, d>>
<1>1. /\ Sent(k)' = Sent(k) + (IF k \in S THEN 1 ELSE 0) /\ OfferKept(w, d)
      /\ Sent(k) \in Nat
    BY Says, Tallies DEF OffersKept
<1>2. \A u \in Tasks : u # t => (Tells(u, w, d)' <=> Tells(u, w, d))
    BY DEF Tells, Only
<1>3. ~Tells(t, w, d)'
    BY DEF Tells
<1>4. k \in S => Tells(t, w, d)
    BY DEF Tells
<1> HIDE DEF k
<1>5. CASE ~Tells(t, w, d)
    <2>1. Sent(k)' = Sent(k)
        BY <1>1, <1>4, <1>5
    <2> QED
        BY <1>1, <1>2, <1>3, <2>1 DEF OfferKept, k
<1>6. CASE Tells(t, w, d)
    <2>1. /\ <<w, d>> \in DOMAIN offer' /\ Sent(k)' <= 1
          /\ \A u \in Tasks : ~Tells(u, w, d)'
        BY <1>1, <1>2, <1>3, <1>6 DEF OfferKept, k
    <2> QED
        BY <2>1 DEF OfferKept, k
<1> QED
    BY <1>5, <1>6

LEMMA OffersMove ==
    ASSUME TypeInv, OffersKept, OffersStep
    PROVE  OffersKept'
<1>1. ASSUME NEW t \in Tasks, NEW w \in Requests, O!FulfillWtb(t, w) PROVE OffersStill
    BY <1>1, OffersBegin, Unsent DEF OffersStill, Leaves, Only, Tables
<1>2. ASSUME NEW t \in Tasks, O!TellDealer(t) PROVE OffersKept'
    <2> DEFINE S == {<<"offer", task[t].of, task[t].to>>}
    <2>1. /\ UNCHANGED offer /\ Only(t) /\ task[t].pc = "tell" /\ task'[t].pc = "offer"
          /\ asked' = O!Noted(asked, S)
        BY <1>2, DealerTold DEF Tables
    <2> QED
        BY <2>1, ToldKept
<1>3. ASSUME NEW t \in Tasks, O!Fulfilled(t) PROVE OffersStill
    BY <1>3, OffersEnd, Unsent DEF OffersStill, Leaves, Only, Tables, O!Idle
<1>4. ASSUME \/ \E w \in Requests, d \in Dealers : O!HandleOpportunityResponse(w, d)
             \/ \E d \in Dealers : O!HandleCoverageCommand(d)
      PROVE  OffersStill
    BY <1>4, DealerAnswers, Unsent DEF OffersStill, Leaves
<1> QED
    BY <1>1, <1>2, <1>3, <1>4, OffersStay, OfferClaimKept DEF OffersStep

LEMMA OffersThrow ==
    ASSUME TypeInv, OffersKept, NEW t \in Tasks, O!Throws(t)
    PROVE  OffersKept'
<1>1. CASE task[t].pc # "tell"
    BY <1>1, ThrowsLeave, OffersStay
<1>2. CASE task[t].pc = "tell"
    <2>1. /\ UNCHANGED offer /\ Only(t) /\ task'[t].pc = "offer"
          /\ O!Sending(t) = {<<"offer", task[t].of, task[t].to>>}
        BY <1>2, TaskThrows, ThrownKnown, SendingIs
    <2>2. PICK S : S \subseteq O!Sending(t) /\ asked' = O!Noted(asked, S)
        BY TaskThrows
    <2> QED
        BY <1>2, <2>1, <2>2, ToldKept
<1> QED
    BY <1>1, <1>2

LEMMA OffersRestart ==
    ASSUME TypeInv, IsFiniteSet(Phones), OffersKept, O!Restart
    PROVE  OffersKept'
<1> SUFFICES ASSUME NEW w \in Requests, NEW d \in Dealers
             PROVE  OfferKept(w, d)'
    BY DEF OffersKept
<1>1. UNCHANGED <<offer, asked>> /\ \A t \in Tasks : task'[t] = O!Idle
    BY AllRestart
<1>2. \A t \in Tasks : ~Tells(t, w, d)'
    BY <1>1 DEF Tells, O!Idle
<1>3. OfferKept(w, d) /\ \A k : Sent(k)' = Sent(k)
    BY <1>1 DEF OffersKept, Sent
<1> QED
    BY <1>1, <1>2, <1>3 DEF OfferKept

-----------------------------------------------------------------------------
(* Look-ups.                                                                *)

Looking == {"usage", "weekly", "record", "count"}

LEMMA AskSets ==
    ASSUME IsFiniteSet(Phones)
    PROVE  /\ IsFiniteSet(FreeAsks) /\ IsFiniteSet(PaidAsks) /\ IsFiniteSet(Counts)
           /\ Cardinality(FreeAsks) \in Nat /\ Cardinality(PaidAsks) \in Nat
           /\ Cardinality(Counts) \in Nat
<1>1. FreeAsks \subseteq Phones /\ PaidAsks \subseteq Phones /\ Counts \subseteq Phones
    BY DEF FreeAsks, PaidAsks, Counts
<1>2. IsFiniteSet(FreeAsks) /\ IsFiniteSet(PaidAsks) /\ IsFiniteSet(Counts)
    BY <1>1, FS_Subset
<1> QED
    BY <1>2, FS_CardinalityType

LEMMA LookupsStay ==
    ASSUME TypeInv, LookupsKept, LookupsStill
    PROVE  LookupsKept'
<1>1. /\ usage' = usage /\ missed' = missed
      /\ \A u \in Tasks : task[u].pc \in Looking \/ task'[u].pc \in Looking => task'[u] = task[u]
    BY DEF LookupsStill, Leaves, Looking
<1>2. FreeAsks' = FreeAsks
    BY <1>1 DEF FreeAsks, Looking
<1>3. PaidAsks' = PaidAsks
    BY <1>1 DEF PaidAsks, Looking
<1>4. Counts' = Counts
    BY <1>1 DEF Counts, Looking
<1> QED
    BY <1>1, <1>2, <1>3, <1>4 DEF LookupsKept

(* A look-up goes on, or ends: the other phones are where they were.        *)
LEMMA LookupTurns ==
    ASSUME TypeInv, Apart, NEW t \in Tasks, Only(t), task[t].pc \in Looking,
           task'[t].who = task[t].who \/ task'[t].pc = "idle"
    PROVE  LET ph == task[t].who IN
           /\ ph \in Phones
           /\ FreeAsks' \ {ph} = FreeAsks \ {ph} /\ PaidAsks' \ {ph} = PaidAsks \ {ph}
           /\ Counts' \ {ph} = Counts \ {ph}
           /\ ph \in FreeAsks <=> task[t].pc = "record" /\ task[t].free
           /\ ph \in PaidAsks <=> task[t].pc = "record" /\ ~task[t].free
           /\ ph \in Counts <=> task[t].pc = "count"
           /\ ph \in FreeAsks' <=> task'[t].pc = "record" /\ task'[t].free
           /\ ph \in PaidAsks' <=> task'[t].pc = "record" /\ ~task'[t].free
           /\ ph \in Counts' <=> task'[t].pc = "count"
<1> DEFINE ph == task[t].who
<1>1. ph \in Phones
    BY TaskIs DEF Looking, IsLookupTask
<1>2. \A u \in Tasks : task[u].pc \in {"record", "count"} /\ task[u].who = ph => u = t
    BY DEF Apart, Named, Looking
<1>3. \A u \in Tasks : u # t => task'[u] = task[u]
    BY DEF Only
<1>4. \A u \in Tasks : task'[u].pc \in {"record", "count"} /\ task'[u].who = ph => u = t
    BY <1>2, <1>3
<1>5. \A u \in Tasks : u = t => task[u].who = ph /\ (task'[u].who = ph \/ task'[u].pc = "idle")
    OBVIOUS
<1> HIDE DEF ph
<1>6. FreeAsks' \ {ph} = FreeAsks \ {ph}
    BY <1>3, <1>5 DEF FreeAsks
<1>7. PaidAsks' \ {ph} = PaidAsks \ {ph}
    BY <1>3, <1>5 DEF PaidAsks
<1>8. Counts' \ {ph} = Counts \ {ph}
    BY <1>3, <1>5 DEF Counts
<1>9. /\ ph \in FreeAsks <=> task[t].pc = "record" /\ task[t].free
      /\ ph \in FreeAsks' <=> task'[t].pc = "record" /\ task'[t].free
    BY <1>1, <1>2, <1>4, <1>5 DEF FreeAsks
<1>10. /\ ph \in PaidAsks <=> task[t].pc = "record" /\ ~task[t].free
       /\ ph \in PaidAsks' <=> task'[t].pc = "record" /\ ~task'[t].free
    BY <1>1, <1>2, <1>4, <1>5 DEF PaidAsks
<1>11. /\ ph \in Counts <=> task[t].pc = "count"
       /\ ph \in Counts' <=> task'[t].pc = "count"
    BY <1>1, <1>2, <1>4, <1>5 DEF Counts
<1> QED
    BY <1>1, <1>6, <1>7, <1>8, <1>9, <1>10, <1>11 DEF ph

LEMMA Resized ==
    ASSUME NEW S, NEW R, IsFiniteSet(S), IsFiniteSet(R), NEW x, R \ {x} = S \ {x}
    PROVE  /\ (x \in S <=> x \in R) => Cardinality(R) = Cardinality(S)
           /\ x \in S /\ x \notin R => Cardinality(S) = Cardinality(R) + 1
           /\ x \notin S /\ x \in R => Cardinality(R) = Cardinality(S) + 1
<1>1. CASE x \in S <=> x \in R
    <2>1. R = S
        BY <1>1
    <2> QED
        BY <1>1, <2>1
<1>2. CASE x \in S /\ x \notin R
    <2>1. S = R \cup {x}
        BY <1>2
    <2>2. Cardinality(R \cup {x}) = Cardinality(R) + 1
        BY <1>2, FS_AddElement
    <2> QED
        BY <1>2, <2>1, <2>2
<1>3. CASE x \notin S /\ x \in R
    <2>1. R = S \cup {x}
        BY <1>3
    <2>2. Cardinality(S \cup {x}) = Cardinality(S) + 1
        BY <1>3, FS_AddElement
    <2> QED
        BY <1>3, <2>1, <2>2
<1> QED
    BY <1>1, <1>2, <1>3

(* The phones that are let through or about to be counted are others.       *)
LEMMA OthersLook ==
    ASSUME TypeInv, Apart, IsFiniteSet(Phones), NEW ph \in Phones, ph \notin FreeAsks,
           ph \notin PaidAsks, ph \notin Counts
    PROVE  /\ Cardinality(FreeAsks) + Cardinality(Counts) <= Cardinality(Phones) - 1
           /\ Cardinality(PaidAsks) <= Cardinality(Phones) - 1
           /\ Cardinality(Phones) \in Nat
<1> DEFINE P == Phones \ {ph}
<1>1. IsFiniteSet(P) /\ Cardinality(P) = Cardinality(Phones) - 1 /\ Cardinality(Phones) \in Nat
    BY FS_RemoveElement, FS_CardinalityType
<1>2. FreeAsks \subseteq P /\ PaidAsks \subseteq P /\ Counts \subseteq P
    BY DEF FreeAsks, PaidAsks, Counts
<1>3. FreeAsks \cap Counts = {}
    BY DEF FreeAsks, Counts, Apart, Named
<1>4. Cardinality(FreeAsks \cup Counts) = Cardinality(FreeAsks) + Cardinality(Counts)
    <2>1. Cardinality(FreeAsks \cup Counts)
          = Cardinality(FreeAsks) + Cardinality(Counts) - Cardinality(FreeAsks \cap Counts)
        BY AskSets, FS_Union
    <2>2. Cardinality(FreeAsks \cap Counts) = 0
        BY <1>3, FS_EmptySet
    <2> QED
        BY <2>1, <2>2, AskSets
<1> HIDE DEF P
<1>5. FreeAsks \cup Counts \subseteq P
    BY <1>2
<1>6. Cardinality(FreeAsks \cup Counts) <= Cardinality(P)
    BY <1>1, <1>5, FS_Subset
<1>7. Cardinality(PaidAsks) <= Cardinality(P)
    BY <1>1, <1>2, FS_Subset
<1> QED
    BY <1>1, <1>4, <1>6, <1>7

LEMMA UsageTyped ==
    ASSUME TypeInv
    PROVE  usage.total \in Nat /\ usage.free \in Nat /\ usage.paid \in Nat /\ missed \in Nat
BY DEF TypeInv, CountsTyped, UsageKnown

LEMMA LookupsMove ==
    ASSUME TypeInv, Apart, LookupsKept, LookupsStep, ServicesAssumption
    PROVE  LookupsKept'
<1> DEFINE N == Cardinality(Phones)
<1>1. /\ IsFiniteSet(Phones) /\ N \in Nat /\ Trial \in Nat /\ WeeklyLimit \in Nat
    BY FS_CardinalityType DEF ServicesAssumption
<1>2. /\ IsFiniteSet(FreeAsks) /\ IsFiniteSet(PaidAsks) /\ IsFiniteSet(Counts)
      /\ Cardinality(FreeAsks) \in Nat /\ Cardinality(PaidAsks) \in Nat
      /\ Cardinality(Counts) \in Nat
    BY <1>1, AskSets
<1>3. /\ IsFiniteSet(FreeAsks') /\ IsFiniteSet(PaidAsks') /\ IsFiniteSet(Counts')
      /\ Cardinality(FreeAsks') \in Nat /\ Cardinality(PaidAsks') \in Nat
      /\ Cardinality(Counts') \in Nat
    <2>1. FreeAsks' \subseteq Phones /\ PaidAsks' \subseteq Phones /\ Counts' \subseteq Phones
        BY DEF FreeAsks, PaidAsks, Counts
    <2>2. IsFiniteSet(FreeAsks') /\ IsFiniteSet(PaidAsks') /\ IsFiniteSet(Counts')
        BY <1>1, <2>1, FS_Subset
    <2> QED
        BY <2>2, FS_CardinalityType
<1>4. usage.total \in Nat /\ usage.free \in Nat /\ usage.paid \in Nat /\ missed \in Nat
    BY UsageTyped
<1>5. /\ usage.free + Cardinality(FreeAsks) <= Trial + N - 1 + missed
      /\ usage.paid + Cardinality(PaidAsks) <= WeeklyLimit + N - 1
      /\ usage.free + usage.paid <= usage.total + Cardinality(Counts) + missed
    BY DEF LookupsKept
<1>6. LookupsKept' <=>
      /\ usage'.free + Cardinality(FreeAsks') <= Trial + N - 1 + missed'
      /\ usage'.paid + Cardinality(PaidAsks') <= WeeklyLimit + N - 1
      /\ usage'.free + usage'.paid <= usage'.total + Cardinality(Counts') + missed'
    BY DEF LookupsKept
<1> HIDE DEF N
<1>7. ASSUME NEW t \in Tasks, NEW ph \in Phones, O!LookUp(t, ph) PROVE LookupsKept'
    <2>1. /\ UNCHANGED usage /\ UNCHANGED missed /\ Only(t)
          /\ task[t].pc = "idle" /\ task'[t].pc = "usage"
        BY <1>7, LookupBegins DEF Tables
    <2>2. FreeAsks' = FreeAsks /\ PaidAsks' = PaidAsks /\ Counts' = Counts
        BY <2>1 DEF FreeAsks, PaidAsks, Counts, Only
    <2> QED
        BY <1>5, <1>6, <2>1, <2>2
<1>8. ASSUME NEW t \in Tasks, O!GetMarketPulseUsage(t) PROVE LookupsKept'
    <2> DEFINE ph == task[t].who
    <2>1. /\ UNCHANGED usage /\ UNCHANGED missed /\ Only(t)
          /\ task[t].pc = "usage" /\ task'[t].who = ph
          /\ \/ usage.total < Trial /\ task'[t].pc = "record" /\ task'[t].free
             \/ task'[t].pc = "weekly"
        BY <1>8, UsageRead DEF Tables
    <2>2. /\ ph \in Phones /\ ph \notin FreeAsks /\ ph \notin PaidAsks /\ ph \notin Counts
          /\ FreeAsks' \ {ph} = FreeAsks \ {ph} /\ PaidAsks' \ {ph} = PaidAsks \ {ph}
          /\ Counts' \ {ph} = Counts \ {ph}
          /\ ph \in FreeAsks' <=> task'[t].pc = "record" /\ task'[t].free
          /\ ph \in PaidAsks' <=> task'[t].pc = "record" /\ ~task'[t].free
          /\ ph \in Counts' <=> task'[t].pc = "count"
        BY <2>1, LookupTurns DEF Looking
    <2> HIDE DEF ph
    <2>3. ph \notin PaidAsks' /\ ph \notin Counts'
        BY <2>1, <2>2
    <2>4. Cardinality(PaidAsks') = Cardinality(PaidAsks)
        BY <1>2, <1>3, <2>2, <2>3, Resized
    <2>5. Cardinality(Counts') = Cardinality(Counts)
        BY <1>2, <1>3, <2>2, <2>3, Resized
    <2>6. CASE usage.total < Trial /\ ph \in FreeAsks'
        <3>1. Cardinality(FreeAsks') = Cardinality(FreeAsks) + 1
            BY <1>2, <1>3, <2>2, <2>6, Resized
        <3>2. Cardinality(FreeAsks) + Cardinality(Counts) <= N - 1
            BY <1>1, <2>2, OthersLook DEF N
        <3> QED
            BY <1>1, <1>2, <1>3, <1>4, <1>5, <1>6, <2>1, <2>4, <2>5, <2>6, <3>1, <3>2
    <2>7. CASE ph \notin FreeAsks'
        <3>1. Cardinality(FreeAsks') = Cardinality(FreeAsks)
            BY <1>2, <1>3, <2>2, <2>7, Resized
        <3> QED
            BY <1>5, <1>6, <2>1, <2>4, <2>5, <3>1
    <2>8. usage.total < Trial \/ ph \notin FreeAsks'
        BY <2>1, <2>2
    <2> QED
        BY <2>6, <2>7, <2>8
<1>9. ASSUME NEW t \in Tasks, O!EvaluateMarketPulseGate(t) PROVE LookupsKept'
    <2> DEFINE ph == task[t].who
    <2>1. /\ UNCHANGED usage /\ UNCHANGED missed /\ Only(t) /\ task[t].pc = "weekly"
          /\ \/ task'[t] = O!Idle
             \/ /\ ~(usage.paid >= WeeklyLimit) /\ task'[t].pc = "record"
                /\ task'[t].who = task[t].who /\ ~task'[t].free
        BY <1>9, GateEvaluated DEF Tables
    <2>2. \/ task'[t].pc = "idle"
          \/ /\ ~(usage.paid >= WeeklyLimit) /\ task'[t].pc = "record"
             /\ task'[t].who = ph /\ ~task'[t].free
        BY <2>1 DEF O!Idle
    <2>3. /\ ph \in Phones /\ ph \notin FreeAsks /\ ph \notin PaidAsks /\ ph \notin Counts
          /\ FreeAsks' \ {ph} = FreeAsks \ {ph} /\ PaidAsks' \ {ph} = PaidAsks \ {ph}
          /\ Counts' \ {ph} = Counts \ {ph}
          /\ ph \in FreeAsks' <=> task'[t].pc = "record" /\ task'[t].free
          /\ ph \in PaidAsks' <=> task'[t].pc = "record" /\ ~task'[t].free
          /\ ph \in Counts' <=> task'[t].pc = "count"
        BY <2>1, <2>2, LookupTurns DEF Looking
    <2> HIDE DEF ph
    <2>4. ph \notin FreeAsks' /\ ph \notin Counts'
        BY <2>2, <2>3
    <2>5. Cardinality(FreeAsks') = Cardinality(FreeAsks)
        BY <1>2, <1>3, <2>3, <2>4, Resized
    <2>6. Cardinality(Counts') = Cardinality(Counts)
        BY <1>2, <1>3, <2>3, <2>4, Resized
    <2>7. CASE ~(usage.paid >= WeeklyLimit) /\ ph \in PaidAsks'
        <3>1. Cardinality(PaidAsks') = Cardinality(PaidAsks) + 1
            BY <1>2, <1>3, <2>3, <2>7, Resized
        <3>2. Cardinality(PaidAsks) <= N - 1
            BY <1>1, <2>3, OthersLook DEF N
        <3> QED
            BY <1>1, <1>2, <1>3, <1>4, <1>5, <1>6, <2>1, <2>5, <2>6, <2>7, <3>1, <3>2
    <2>8. CASE ph \notin PaidAsks'
        <3>1. Cardinality(PaidAsks') = Cardinality(PaidAsks)
            BY <1>2, <1>3, <2>3, <2>8, Resized
        <3> QED
            BY <1>5, <1>6, <2>1, <2>5, <2>6, <3>1
    <2>9. ~(usage.paid >= WeeklyLimit) \/ ph \notin PaidAsks'
        BY <2>2, <2>3
    <2> QED
        BY <2>7, <2>8, <2>9
<1>10. ASSUME NEW t \in Tasks, O!RecordMarketPulseLookup(t) PROVE LookupsKept'
    <2> DEFINE ph == task[t].who
    <2>1. /\ UNCHANGED missed /\ Only(t) /\ task[t].pc = "record"
          /\ task'[t].pc = "count" /\ task'[t].who = ph /\ usage'.total = usage.total
          /\ IF task[t].free THEN usage'.free = usage.free + 1 /\ usage'.paid = usage.paid
             ELSE usage'.free = usage.free /\ usage'.paid = usage.paid + 1
        BY <1>10, LookupRecorded
    <2>2. /\ ph \notin Counts /\ ph \in Counts'
          /\ ph \in FreeAsks <=> task[t].free
          /\ ph \in PaidAsks <=> ~task[t].free
          /\ ph \notin FreeAsks' /\ ph \notin PaidAsks'
          /\ FreeAsks' \ {ph} = FreeAsks \ {ph} /\ PaidAsks' \ {ph} = PaidAsks \ {ph}
          /\ Counts' \ {ph} = Counts \ {ph}
        BY <2>1, LookupTurns DEF Looking
    <2> HIDE DEF ph
    <2>3. Cardinality(Counts') = Cardinality(Counts) + 1
        BY <1>2, <1>3, <2>2, Resized
    <2>4. CASE task[t].free
        <3>1. Cardinality(FreeAsks) = Cardinality(FreeAsks') + 1
            BY <1>2, <1>3, <2>2, <2>4, Resized
        <3>2. Cardinality(PaidAsks') = Cardinality(PaidAsks)
            BY <1>2, <1>3, <2>2, <2>4, Resized
        <3> QED
            BY <1>1, <1>2, <1>3, <1>4, <1>5, <1>6, <2>1, <2>3, <2>4, <3>1, <3>2
    <2>5. CASE ~task[t].free
        <3>1. Cardinality(FreeAsks') = Cardinality(FreeAsks)
            BY <1>2, <1>3, <2>2, <2>5, Resized
        <3>2. Cardinality(PaidAsks) = Cardinality(PaidAsks') + 1
            BY <1>2, <1>3, <2>2, <2>5, Resized
        <3> QED
            BY <1>1, <1>2, <1>3, <1>4, <1>5, <1>6, <2>1, <2>3, <2>5, <3>1, <3>2
    <2> QED
        BY <2>4, <2>5
<1>11. ASSUME NEW t \in Tasks, O!CountLookup(t) PROVE LookupsKept'
    <2> DEFINE ph == task[t].who
    <2>1. /\ UNCHANGED missed /\ Only(t) /\ task[t].pc = "count" /\ task'[t] = O!Idle
          /\ usage'.total = usage.total + 1
          /\ usage'.free = usage.free /\ usage'.paid = usage.paid
        BY <1>11, LookupCounted
    <2>2. task'[t].pc = "idle"
        BY <2>1 DEF O!Idle
    <2>3. /\ ph \in Counts /\ ph \notin Counts'
          /\ ph \notin FreeAsks /\ ph \notin PaidAsks
          /\ ph \notin FreeAsks' /\ ph \notin PaidAsks'
          /\ FreeAsks' \ {ph} = FreeAsks \ {ph} /\ PaidAsks' \ {ph} = PaidAsks \ {ph}
          /\ Counts' \ {ph} = Counts \ {ph}
        BY <2>1, <2>2, LookupTurns DEF Looking
    <2> HIDE DEF ph
    <2>4. Cardinality(Counts) = Cardinality(Counts') + 1
        BY <1>2, <1>3, <2>3, Resized
    <2>5. /\ Cardinality(FreeAsks') = Cardinality(FreeAsks)
          /\ Cardinality(PaidAsks') = Cardinality(PaidAsks)
        BY <1>2, <1>3, <2>3, Resized
    <2> QED
        BY <1>1, <1>2, <1>3, <1>4, <1>5, <1>6, <2>1, <2>4, <2>5
<1> QED
    BY <1>7, <1>8, <1>9, <1>10, <1>11 DEF LookupsStep

LEMMA LookupsThrow ==
    ASSUME TypeInv, Apart, LookupsKept, ServicesAssumption, NEW t \in Tasks, O!Throws(t)
    PROVE  LookupsKept'
<1> DEFINE N == Cardinality(Phones)
           ph == task[t].who
<1>1. CASE task[t].pc \notin Looking
    BY <1>1, ThrowsLeave, LookupsStay DEF Looking
<1>2. CASE task[t].pc \in Looking
    <2>1. /\ UNCHANGED usage /\ Only(t) /\ task'[t].pc = "idle"
          /\ missed' = missed + Cardinality(O!Counting({t}))
        <3>1. /\ UNCHANGED usage /\ Only(t) /\ Thrown(task[t], task'[t])
              /\ missed' = missed + Cardinality(O!Counting({t}))
            BY TaskThrows
        <3>2. task'[t] = O!Idle
            BY <1>2, <3>1, ThrownKnown DEF Looking
        <3>3. task'[t].pc = "idle"
            BY <3>2 DEF O!Idle
        <3> QED
            BY <3>1, <3>3
    <2>2. /\ ph \notin FreeAsks' /\ ph \notin PaidAsks' /\ ph \notin Counts'
          /\ FreeAsks' \ {ph} = FreeAsks \ {ph} /\ PaidAsks' \ {ph} = PaidAsks \ {ph}
          /\ Counts' \ {ph} = Counts \ {ph}
          /\ ph \in Counts <=> task[t].pc = "count"
        BY <1>2, <2>1, LookupTurns
    <2>3. O!Counting({t}) = IF ph \in Counts THEN {ph} ELSE {}
        BY <2>2 DEF O!Counting, O!At
    <2> HIDE DEF ph
    <2>4. /\ IsFiniteSet(Phones) /\ N \in Nat /\ Trial \in Nat /\ WeeklyLimit \in Nat
        BY FS_CardinalityType DEF ServicesAssumption
    <2>5. /\ IsFiniteSet(FreeAsks) /\ IsFiniteSet(PaidAsks) /\ IsFiniteSet(Counts)
          /\ Cardinality(FreeAsks) \in Nat /\ Cardinality(PaidAsks) \in Nat
          /\ Cardinality(Counts) \in Nat
        BY <2>4, AskSets
    <2>6. FreeAsks' \subseteq FreeAsks /\ PaidAsks' \subseteq PaidAsks
        BY <2>2
    <2>7. /\ IsFiniteSet(FreeAsks') /\ Cardinality(FreeAsks') <= Cardinality(FreeAsks)
          /\ IsFiniteSet(PaidAsks') /\ Cardinality(PaidAsks') <= Cardinality(PaidAsks)
        BY <2>5, <2>6, FS_Subset
    <2>8. Cardinality(FreeAsks') \in Nat /\ Cardinality(PaidAsks') \in Nat
        BY <2>7, FS_CardinalityType
    <2>9. IsFiniteSet(Counts') /\ Cardinality(Counts') \in Nat
        <3>1. Counts' \subseteq Counts
            BY <2>2
        <3>2. IsFiniteSet(Counts')
            BY <2>5, <3>1, FS_Subset
        <3> QED
            BY <3>2, FS_CardinalityType
    <2>10. /\ missed' \in Nat /\ missed' >= missed
           /\ Cardinality(Counts) + missed = Cardinality(Counts') + missed'
        <3>1. CASE ph \in Counts
            <4>1. Cardinality(Counts) = Cardinality(Counts') + 1
                BY <2>2, <2>5, <2>9, <3>1, Resized
            <4>2. missed' = missed + 1
                BY <2>1, <2>3, <3>1, FS_Singleton
            <4> QED
                BY <2>9, <4>1, <4>2, UsageTyped
        <3>2. CASE ph \notin Counts
            <4>1. Cardinality(Counts) = Cardinality(Counts')
                BY <2>2, <2>5, <2>9, <3>2, Resized
            <4>2. missed' = missed
                <5>1. O!Counting({t}) = {}
                    BY <2>3, <3>2
                <5>2. Cardinality({}) = 0 /\ missed \in Nat
                    BY FS_EmptySet, UsageTyped
                <5>3. missed' = missed + Cardinality({})
                    BY <2>1, <5>1
                <5> QED
                    BY <5>2, <5>3
            <4> QED
                BY <2>9, <4>1, <4>2, UsageTyped
        <3> QED
            BY <3>1, <3>2
    <2>11. usage.total \in Nat /\ usage.free \in Nat /\ usage.paid \in Nat /\ missed \in Nat
        BY UsageTyped
    <2>12. /\ usage.free + Cardinality(FreeAsks) <= Trial + N - 1 + missed
           /\ usage.paid + Cardinality(PaidAsks) <= WeeklyLimit + N - 1
           /\ usage.free + usage.paid <= usage.total + Cardinality(Counts) + missed
        BY DEF LookupsKept
    <2>13. LookupsKept' <=>
           /\ usage.free + Cardinality(FreeAsks') <= Trial + N - 1 + missed'
           /\ usage.paid + Cardinality(PaidAsks') <= WeeklyLimit + N - 1
           /\ usage.free + usage.paid <= usage.total + Cardinality(Counts') + missed'
        BY <2>1 DEF LookupsKept
    <2> HIDE DEF N
    <2> QED
        BY <2>4, <2>5, <2>7, <2>8, <2>9, <2>10, <2>11, <2>12, <2>13
<1> QED
    BY <1>1, <1>2

LEMMA LookupsRestart ==
    ASSUME TypeInv, LookupsKept, ServicesAssumption, O!Restart
    PROVE  LookupsKept'
<1> DEFINE N == Cardinality(Phones)
<1>1. /\ IsFiniteSet(Phones) /\ N \in Nat /\ Trial \in Nat /\ WeeklyLimit \in Nat
    BY FS_CardinalityType DEF ServicesAssumption
<1>2. /\ UNCHANGED usage /\ missed' = missed + Cardinality(O!Counting(Tasks))
      /\ \A t \in Tasks : task'[t].pc = "idle"
    BY <1>1, AllRestart DEF O!Idle
<1>3. O!Counting(Tasks) = Counts
    <2>1. \A t \in Tasks : task[t].pc = "count" => task[t].who \in Phones
        BY TaskIs DEF IsLookupTask
    <2>2. O!Counting(Tasks) = {task[t].who : t \in {x \in Tasks : task[x].pc = "count"}}
        BY DEF O!Counting, O!At
    <2> QED
        BY <2>1, <2>2 DEF Counts
<1>4. FreeAsks' = {} /\ PaidAsks' = {} /\ Counts' = {}
    BY <1>2 DEF FreeAsks, PaidAsks, Counts
<1>5. Cardinality(FreeAsks') = 0 /\ Cardinality(PaidAsks') = 0 /\ Cardinality(Counts') = 0
    BY <1>4, FS_EmptySet
<1>6. /\ Cardinality(FreeAsks) \in Nat /\ Cardinality(PaidAsks) \in Nat
      /\ Cardinality(Counts) \in Nat
    BY <1>1, AskSets
<1>7. usage.total \in Nat /\ usage.free \in Nat /\ usage.paid \in Nat /\ missed \in Nat
    BY UsageTyped
<1>8. /\ usage.free + Cardinality(FreeAsks) <= Trial + N - 1 + missed
      /\ usage.paid + Cardinality(PaidAsks) <= WeeklyLimit + N - 1
      /\ usage.free + usage.paid <= usage.total + Cardinality(Counts) + missed
    BY DEF LookupsKept
<1>9. LookupsKept' <=>
      /\ usage.free + Cardinality(FreeAsks') <= Trial + N - 1 + missed'
      /\ usage.paid + Cardinality(PaidAsks') <= WeeklyLimit + N - 1
      /\ usage.free + usage.paid <= usage.total + Cardinality(Counts') + missed'
    BY <1>2 DEF LookupsKept
<1> HIDE DEF N
<1> QED
    BY <1>1, <1>2, <1>3, <1>5, <1>6, <1>7, <1>8, <1>9

-----------------------------------------------------------------------------
(* Everybody who is asked something is a seller, poster or dealer there is. *)

LEMMA KeysAsked ==
    ASSUME TypeInv, KeysKnown, NEW S, asked' = O!Noted(asked, S), \A k \in S : KeyKnown(k)
    PROVE  KeysKnown'
<1>1. DOMAIN asked' = DOMAIN asked \cup S
    BY DEF TypeInv, CountsTyped, O!Noted, IsABag, O!SetToBag, O!(+)
<1> QED
    BY <1>1 DEF KeysKnown, KeyKnown

LEMMA KeysStay ==
    ASSUME KeysKnown, UNCHANGED asked
    PROVE  KeysKnown'
BY DEF KeysKnown, KeyKnown

LEMMA SendingKnown ==
    ASSUME TypeInv, NEW t \in Tasks, NEW k \in O!Sending(t)
    PROVE  KeyKnown(k)
<1> DEFINE x == task[t]
<1>1. CASE x.pc \in {"ask", "mark"}
    <2>1. k = <<"photo", x.of, x.who>>
        BY <1>1, SendingIs
    <2>2. x.of \in Listings /\ x.who \in Buyers
        BY <1>1, TaskIs DEF PhotoTask
    <2> QED
        BY <2>1, <2>2 DEF KeyKnown
<1>2. CASE x.pc = "remind"
    <2>1. PICK c \in x.todo : k = <<"reminder", c[1], c[2]>>
        BY <1>2, SendingIs
    <2>2. c[1] \in Postings /\ c[2] \in Nat
        BY <1>2, TodoTyped
    <2> QED
        BY <2>1, <2>2 DEF KeyKnown
<1>3. CASE x.pc = "claim"
    <2>1. k = <<"reminder", x.of, posting[x.of].expires>>
        BY <1>3, SendingIs
    <2>2. x.of \in Postings /\ posting[x.of].expires \in Nat
        BY <1>3, TaskIs, ExpiresTyped
    <2> QED
        BY <2>1, <2>2 DEF KeyKnown
<1>4. CASE x.pc = "tell"
    <2>1. k = <<"offer", x.of, x.to>>
        BY <1>4, SendingIs
    <2>2. x.of \in Requests /\ x.to \in Dealers
        BY <1>4, TaskIs DEF OfferTask
    <2> QED
        BY <2>1, <2>2 DEF KeyKnown
<1>5. CASE x.pc = "intro"
    <2>1. k = <<"intro", Head(x.todo), None>>
        BY <1>5, SendingIs
    <2>2. k[1] = "intro"
        BY <2>1
    <2> QED
        BY <2>2 DEF KeyKnown
<1> QED
    BY <1>1, <1>2, <1>3, <1>4, <1>5, SendingIs

LEMMA PhotosKnown ==
    ASSUME TypeInv, KeysKnown, PhotosStep
    PROVE  KeysKnown'
<1>1. ASSUME NEW t \in Tasks, NEW b \in Buyers, NEW l \in Listings,
             O!RequestPhotosForMatch(t, b, l)
      PROVE  KeysKnown'
    BY <1>1, RequestBegins, KeysStay
<1>2. ASSUME NEW t \in Tasks, O!GetPhotoRequestRecord(t) PROVE KeysKnown'
    BY <1>2, RequestLooks, KeysStay
<1>3. ASSUME NEW t \in Tasks, O!AskSeller(t) PROVE KeysKnown'
    <2>1. /\ task[t].pc = "ask"
          /\ asked' = O!Noted(asked, {<<"photo", task[t].of, task[t].who>>})
        BY <1>3, SellerAsked
    <2>2. O!Sending(t) = {<<"photo", task[t].of, task[t].who>>}
        BY <2>1, SendingIs
    <2> QED
        BY <2>1, <2>2, SendingKnown, KeysAsked
<1>4. ASSUME NEW t \in Tasks, O!MarkPhotoRequested(t) PROVE KeysKnown'
    BY <1>4, RequestMarked, KeysStay
<1>5. ASSUME NEW t \in Tasks, NEW s, O!HandleIncomingSellerPhoto(t, s) PROVE KeysKnown'
    BY <1>5, ImageComes, KeysStay
<1>6. ASSUME NEW t \in Tasks, O!AppendReceivedPhoto(t) PROVE KeysKnown'
    BY <1>6, ImageKept, KeysStay
<1>7. ASSUME NEW t \in Tasks, O!ForwardPhoto(t) PROVE KeysKnown'
    <2>1. PICK S : asked' = O!Noted(asked, S) /\ \A k \in S : k[1] \in {"image", "card"}
        BY <1>7, ImageForwarded
    <2>2. \A k \in S : KeyKnown(k)
        BY <2>1 DEF KeyKnown
    <2> QED
        BY <2>1, <2>2, KeysAsked
<1>8. ASSUME NEW l \in Listings, O!RequestAges(l) PROVE KeysKnown'
    BY <1>8, RequestOlder, KeysStay
<1> QED
    BY <1>1, <1>2, <1>3, <1>4, <1>5, <1>6, <1>7, <1>8 DEF PhotosStep

LEMMA RemindersKnown ==
    ASSUME TypeInv, KeysKnown, RemindersStep
    PROVE  KeysKnown'
<1>1. ASSUME NEW t \in Tasks, O!SendExpirationReminders(t) PROVE KeysKnown'
    BY <1>1, RemindersBegin, KeysStay
<1>2. ASSUME NEW t \in Tasks, O!FindPostingsNeedingReminder(t) PROVE KeysKnown'
    BY <1>2, PostingsFound, KeysStay
<1>3. ASSUME NEW t \in Tasks, O!Remind(t) PROVE KeysKnown'
    <2>1. task[t].pc = "remind"
        BY <1>3, Reminded
    <2>2. PICK c \in task[t].todo : asked' = O!Noted(asked, {<<"reminder", c[1], c[2]>>})
        BY <1>3, Reminded
    <2>3. c[1] \in Postings /\ c[2] \in Nat
        BY <2>1, TodoTyped
    <2>4. KeyKnown(<<"reminder", c[1], c[2]>>)
        BY <2>3 DEF KeyKnown
    <2> QED
        BY <2>2, <2>4, KeysAsked
<1>4. ASSUME NEW t \in Tasks, O!ClaimReminderForPosting(t) PROVE KeysKnown'
    BY <1>4, ReminderClaimed, KeysStay
<1>5. ASSUME NEW t \in Tasks, O!RemindersDone(t) PROVE KeysKnown'
    BY <1>5, RemindersEnd, KeysStay
<1>6. ASSUME NEW p \in Postings, O!PostingChanges(p) PROVE KeysKnown'
    BY <1>6, PostingMoves, KeysStay
<1> QED
    BY <1>1, <1>2, <1>3, <1>4, <1>5, <1>6 DEF RemindersStep

LEMMA OffersKnown ==
    ASSUME TypeInv, KeysKnown, OffersStep
    PROVE  KeysKnown'
<1>1. ASSUME NEW t \in Tasks, NEW w \in Requests, O!FulfillWtb(t, w) PROVE KeysKnown'
    BY <1>1, OffersBegin, KeysStay
<1>2. ASSUME NEW t \in Tasks, O!ClaimOpportunity(t) PROVE KeysKnown'
    BY <1>2, OfferClaimed, KeysStay
<1>3. ASSUME NEW t \in Tasks, O!TellDealer(t) PROVE KeysKnown'
    <2>1. /\ task[t].pc = "tell"
          /\ asked' = O!Noted(asked, {<<"offer", task[t].of, task[t].to>>})
        BY <1>3, DealerTold
    <2>2. O!Sending(t) = {<<"offer", task[t].of, task[t].to>>}
        BY <2>1, SendingIs
    <2> QED
        BY <2>1, <2>2, SendingKnown, KeysAsked
<1>4. ASSUME NEW t \in Tasks, O!Fulfilled(t) PROVE KeysKnown'
    BY <1>4, OffersEnd, KeysStay
<1>5. ASSUME \/ \E w \in Requests, d \in Dealers : O!HandleOpportunityResponse(w, d)
             \/ \E d \in Dealers : O!HandleCoverageCommand(d)
      PROVE  KeysKnown'
    BY <1>5, DealerAnswers, KeysStay
<1> QED
    BY <1>1, <1>2, <1>3, <1>4, <1>5 DEF OffersStep

LEMMA LookupsKnown ==
    ASSUME TypeInv, KeysKnown, LookupsStep
    PROVE  KeysKnown'
<1>1. ASSUME NEW t \in Tasks, NEW ph \in Phones, O!LookUp(t, ph) PROVE UNCHANGED asked
    BY <1>1, LookupBegins
<1>2. ASSUME NEW t \in Tasks, O!GetMarketPulseUsage(t) PROVE UNCHANGED asked
    BY <1>2, UsageRead
<1>3. ASSUME NEW t \in Tasks, O!EvaluateMarketPulseGate(t) PROVE UNCHANGED asked
    BY <1>3, GateEvaluated
<1>4. ASSUME NEW t \in Tasks, O!RecordMarketPulseLookup(t) PROVE UNCHANGED asked
    BY <1>4, LookupRecorded
<1>5. ASSUME NEW t \in Tasks, O!CountLookup(t) PROVE UNCHANGED asked
    BY <1>5, LookupCounted
<1> QED
    BY <1>1, <1>2, <1>3, <1>4, <1>5, KeysStay DEF LookupsStep

LEMMA BlastKnown ==
    ASSUME TypeInv, KeysKnown, BlastStep
    PROVE  KeysKnown'
<1>1. ASSUME NEW t \in Tasks, O!OutreachStart(t) PROVE KeysKnown'
    BY <1>1, BlastBegins, KeysStay
<1>2. ASSUME NEW t \in Tasks, O!ReadContact(t) PROVE KeysKnown'
    BY <1>2, ContactRead, KeysStay
<1>3. ASSUME NEW t \in Tasks, O!SendIntro(t) PROVE KeysKnown'
    <2>1. /\ task[t].pc = "intro"
          /\ asked' = O!Noted(asked, {<<"intro", Head(task[t].todo), None>>})
        BY <1>3, IntroSent
    <2>2. O!Sending(t) = {<<"intro", Head(task[t].todo), None>>}
        BY <2>1, SendingIs
    <2> QED
        BY <2>1, <2>2, SendingKnown, KeysAsked
<1>4. ASSUME NEW t \in Tasks, O!BatchDone(t) PROVE KeysKnown'
    BY <1>4, BatchEnds, KeysStay
<1>5. ASSUME NEW c \in DOMAIN contact, O!ContactAnswers(c) PROVE KeysKnown'
    BY <1>5, ContactMoves, KeysStay
<1> QED
    BY <1>1, <1>2, <1>3, <1>4, <1>5 DEF BlastStep

LEMMA ThrowsKnown ==
    ASSUME TypeInv, KeysKnown, NEW t \in Tasks, O!Throws(t)
    PROVE  KeysKnown'
<1>1. PICK S \in SUBSET O!Sending(t) : asked' = O!Noted(asked, S)
    BY TaskThrows
<1>2. \A k \in S : KeyKnown(k)
    BY SendingKnown
<1> QED
    BY <1>1, <1>2, KeysAsked

-----------------------------------------------------------------------------
(* The invariant holds.                                                     *)

LEMMA OthersApart ==
    ASSUME TypeInv, Apart, \/ RemindersStep \/ OffersStep \/ BlastStep
                           \/ \E t \in Tasks : O!Throws(t)
    PROVE  Apart'
BY RemindersLeave, OffersLeave, BlastLeave, ThrowsLeave, NamesApart

LEMMA OutreachOpens ==
    ASSUME O!Init, ServicesAssumption
    PROVE  IInv
<1>1. /\ photo = [l \in Listings |-> [status |-> "none", age |-> "fresh", at |-> 0,
                                      asker |-> None]]
      /\ DOMAIN posting = Postings
      /\ \A p \in Postings : posting[p] = [status |-> "active", expires |-> 1, near |-> TRUE,
                                           reminded |-> 0]
      /\ offer = <<>> /\ covers = Dealers /\ reminding = FALSE /\ blast = "idle" /\ missed = 0
      /\ usage = [total |-> 0, free |-> 0, paid |-> 0]
      /\ task = [t \in Tasks |-> O!Idle] /\ asked = O!EmptyBag /\ pardon = O!EmptyBag
    BY DEF O!Init
<1>2. \A t \in Tasks : task[t].pc = "idle"
    BY <1>1 DEF O!Idle
<1>3. /\ asked = [k \in {} |-> 0] /\ pardon = [k \in {} |-> 0]
    BY <1>1 DEF O!EmptyBag, O!SetToBag
<1>4. IsABag(asked) /\ IsABag(pardon) /\ \A k : Sent(k) = 0 /\ Excused(k) = 0
    BY <1>3 DEF IsABag, Sent, Excused, O!Count, O!BagToSet
<1>5. TasksTyped /\ PhotosTyped
    BY <1>1 DEF TasksTyped, TaskKnown, PhotosTyped, RequestKnown
<1>6. PostingsTyped
    <2> SUFFICES ASSUME NEW p \in Postings PROVE PostingKnown(posting[p])
        BY <1>1 DEF PostingsTyped
    <2> DEFINE yes == TRUE
               r == [status |-> "active", expires |-> 1, near |-> yes, reminded |-> 0]
    <2>1. posting[p] = r
        BY <1>1
    <2> HIDE DEF yes
    <2>2. /\ r.status = "active" /\ r.expires = 1 /\ r.reminded = 0
          /\ r = [field \in {"status", "expires", "near", "reminded"} |-> r[field]]
        OBVIOUS
    <2>3. PostingKnown(r)
        BY <2>2 DEF PostingKnown
    <2> HIDE DEF r
    <2> QED
        BY <2>1, <2>3
<1>7. OffersTyped
    BY <1>1 DEF OffersTyped
<1>8. CountsTyped
    BY <1>1, <1>4 DEF CountsTyped, UsageKnown
<1>9. FlagsTyped
    BY <1>1, Zenon DEF FlagsTyped
<1>10. TypeInv
    BY <1>5, <1>6, <1>7, <1>8, <1>9 DEF TypeInv
<1>11. KeysKnown /\ Apart
    BY <1>2, <1>3 DEF KeysKnown, Apart, Named
<1>12. PhotosKept
    BY <1>2, <1>4 DEF PhotosKept, PhotoKept, AsksFor
<1>13. OneRunner
    BY <1>2 DEF OneRunner, Runner
<1>14. RemindersKept
    BY <1>2, <1>4 DEF RemindersKept, ReminderKept, TodoKept, Claims
<1>15. OffersKept
    BY <1>2, <1>4 DEF OffersKept, OfferKept, Tells
<1>16. LookupsKept
    <2>1. FreeAsks = {} /\ PaidAsks = {} /\ Counts = {}
        BY <1>2 DEF FreeAsks, PaidAsks, Counts
    <2>2. /\ Cardinality(FreeAsks) = 0 /\ Cardinality(PaidAsks) = 0 /\ Cardinality(Counts) = 0
        BY <2>1, FS_EmptySet
    <2>3. /\ Cardinality(Phones) \in Nat /\ Cardinality(Phones) # 0
          /\ Trial \in Nat /\ WeeklyLimit \in Nat
        BY FS_CardinalityType, FS_EmptySet DEF ServicesAssumption
    <2>4. usage.total = 0 /\ usage.free = 0 /\ usage.paid = 0 /\ missed = 0
        BY <1>1
    <2> QED
        BY <2>2, <2>3, <2>4 DEF LookupsKept
<1> QED
    BY <1>10, <1>11, <1>12, <1>13, <1>14, <1>15, <1>16 DEF IInv

LEMMA OutreachTurns ==
    ASSUME O!Next
    PROVE  \/ PhotosStep \/ RemindersStep \/ OffersStep \/ LookupsStep \/ BlastStep
           \/ (\E t \in Tasks : O!Throws(t)) \/ O!Restart
BY DEF O!Next, O!Photos, O!Reminders, O!Offers, O!Lookups, O!Blast, PhotosStep, RemindersStep,
       OffersStep, LookupsStep, BlastStep

LEMMA OutreachMoves ==
    ASSUME IInv, O!Next, ServicesAssumption
    PROVE  IInv'
<1>1. /\ TypeInv /\ KeysKnown /\ Apart /\ PhotosKept /\ OneRunner /\ RemindersKept
      /\ OffersKept /\ LookupsKept
    BY DEF IInv
<1>2. IsFiniteSet(Phones)
    BY DEF ServicesAssumption
<1>3. CASE PhotosStep
    <2>1. TypeInv' /\ RemindersStill /\ OffersStill /\ LookupsStill
        BY <1>1, <1>3, PhotosLeave
    <2>2. KeysKnown' /\ Apart' /\ PhotosKept'
        BY <1>1, <1>3, <2>1, PhotosKnown, PhotosApart, PhotosMove
    <2>3. OneRunner' /\ RemindersKept' /\ OffersKept' /\ LookupsKept'
        BY <1>1, <2>1, RunnerStay, RemindersStay, OffersStay, LookupsStay
    <2> QED
        BY <2>1, <2>2, <2>3 DEF IInv
<1>4. CASE RemindersStep
    <2>1. TypeInv' /\ PhotosStill /\ OffersStill /\ LookupsStill
        BY <1>1, <1>4, RemindersLeave
    <2>2. KeysKnown' /\ Apart' /\ OneRunner' /\ RemindersKept'
        BY <1>1, <1>4, <2>1, RemindersKnown, OthersApart, RemindersMove
    <2>3. PhotosKept' /\ OffersKept' /\ LookupsKept'
        BY <1>1, <2>1, PhotosStay, OffersStay, LookupsStay
    <2> QED
        BY <2>1, <2>2, <2>3 DEF IInv
<1>5. CASE OffersStep
    <2>1. TypeInv' /\ PhotosStill /\ RemindersStill /\ LookupsStill
        BY <1>1, <1>5, OffersLeave
    <2>2. KeysKnown' /\ Apart' /\ OffersKept'
        BY <1>1, <1>5, OffersKnown, OthersApart, OffersMove
    <2>3. PhotosKept' /\ OneRunner' /\ RemindersKept' /\ LookupsKept'
        BY <1>1, <2>1, PhotosStay, RunnerStay, RemindersStay, LookupsStay
    <2> QED
        BY <2>1, <2>2, <2>3 DEF IInv
<1>6. CASE LookupsStep
    <2>1. TypeInv' /\ PhotosStill /\ RemindersStill /\ OffersStill
        BY <1>1, <1>6, LookupsLeave
    <2>2. KeysKnown' /\ Apart' /\ LookupsKept'
        BY <1>1, <1>6, LookupsKnown, LookupsApart, LookupsMove
    <2>3. PhotosKept' /\ OneRunner' /\ RemindersKept' /\ OffersKept'
        BY <1>1, <2>1, PhotosStay, RunnerStay, RemindersStay, OffersStay
    <2> QED
        BY <2>1, <2>2, <2>3 DEF IInv
<1>7. CASE BlastStep
    <2>1. TypeInv' /\ PhotosStill /\ RemindersStill /\ OffersStill /\ LookupsStill
        BY <1>1, <1>7, BlastLeave
    <2>2. KeysKnown' /\ Apart'
        BY <1>1, <1>7, BlastKnown, OthersApart
    <2>3. PhotosKept' /\ OneRunner' /\ RemindersKept' /\ OffersKept' /\ LookupsKept'
        BY <1>1, <2>1, PhotosStay, RunnerStay, RemindersStay, OffersStay, LookupsStay
    <2> QED
        BY <2>1, <2>2, <2>3 DEF IInv
<1>8. ASSUME NEW t \in Tasks, O!Throws(t) PROVE IInv'
    <2>1. TypeInv'
        BY <1>1, <1>8, TaskThrows
    <2>2. KeysKnown' /\ Apart' /\ PhotosKept'
        BY <1>1, <1>8, <2>1, ThrowsKnown, OthersApart, PhotosThrow
    <2>3. OneRunner' /\ RemindersKept' /\ OffersKept' /\ LookupsKept'
        BY <1>1, <1>8, <2>1, RemindersThrow, OffersThrow, LookupsThrow
    <2> QED
        BY <2>1, <2>2, <2>3 DEF IInv
<1>9. CASE O!Restart
    <2>1. /\ TypeInv' /\ UNCHANGED asked /\ \A t \in Tasks : task'[t].pc = "idle"
        BY <1>1, <1>2, <1>9, AllRestart DEF O!Idle
    <2>2. KeysKnown' /\ Apart'
        BY <1>1, <2>1, KeysStay DEF Apart, Named
    <2>3. PhotosKept' /\ OneRunner' /\ RemindersKept' /\ OffersKept' /\ LookupsKept'
        BY <1>1, <1>2, <1>9, <2>1, PhotosRestart, RemindersRestart, OffersRestart, LookupsRestart
    <2> QED
        BY <2>1, <2>2, <2>3 DEF IInv
<1> QED
    BY <1>3, <1>4, <1>5, <1>6, <1>7, <1>8, <1>9, OutreachTurns

LEMMA OutreachRests ==
    ASSUME IInv, UNCHANGED O!vars
    PROVE  IInv'
<1>1. UNCHANGED <<Tables, task, asked, pardon>>
    BY DEF O!vars, Tables
<1>2. TypeInv'
    BY <1>1 DEF IInv, Tables, TypeInv, TasksTyped, PhotosTyped, PostingsTyped, OffersTyped,
       CountsTyped, FlagsTyped, RequestKnown, PostingKnown, UsageKnown, TaskKnown, O!Idle,
       IsLookupTask, IsBlastTask
<1>3. TypeInv
    BY DEF IInv
<1>4. PhotosStill /\ RemindersStill /\ OffersStill /\ LookupsStill /\ NamesKept
    <2>1. Quiet("photo") /\ Quiet("reminder") /\ Quiet("offer")
        BY <1>1, <1>3, Unsent
    <2> QED
        BY <1>1, <2>1 DEF PhotosStill, RemindersStill, OffersStill, LookupsStill, NamesKept,
           Leaves, Tables, Named
<1>5. KeysKnown' /\ Apart'
    BY <1>1, <1>4, KeysStay, NamesApart DEF IInv
<1>6. PhotosKept' /\ OneRunner' /\ RemindersKept' /\ OffersKept' /\ LookupsKept'
    BY <1>2, <1>3, <1>4, PhotosStay, RunnerStay, RemindersStay, OffersStay, LookupsStay DEF IInv
<1> QED
    BY <1>2, <1>5, <1>6 DEF IInv

(* The other parts run beside the outreach and do not disturb it: the whole *)
(* implements the outreach on its own (server.ts).                          *)
THEOREM ServicesRunOutreach == Spec => O!Spec
<1>1. Init => O!Init
    BY DEF Init
<1>2. [Next]_vars => [O!Next]_(O!vars)
    <2>1. OutreachOnly /\ Next => O!Next \/ UNCHANGED O!vars
        BY DEF Next, DeliveriesOnly, OutreachOnly, InboxOnly, outreach, O!Next, O!Photos,
           O!Reminders, O!Offers, O!Lookups, O!Blast, O!vars
    <2>2. DeliveriesOnly \/ InboxOnly \/ UNCHANGED vars => UNCHANGED O!vars
        BY DEF DeliveriesOnly, InboxOnly, outreach, vars, O!vars
    <2>3. Next => DeliveriesOnly \/ OutreachOnly \/ InboxOnly
        BY DEF Next
    <2> QED
        BY <2>1, <2>2, <2>3
<1> QED
    BY <1>1, <1>2, PTL DEF Spec, O!Spec

(* The types, who is asked what, who runs, what is on record and what is    *)
(* looked up hold together in every state (photoRequests.ts, reminders.ts,  *)
(* fulfillment/service.ts, marketPulseUsage.ts).                            *)
THEOREM OutreachInvariant == Spec => []IInv
<1>1. O!Init => IInv
    BY OutreachOpens, ServicesAssumption
<1>2. IInv /\ [O!Next]_(O!vars) => IInv'
    BY OutreachMoves, OutreachRests, ServicesAssumption
<1> QED
    BY <1>1, <1>2, ServicesRunOutreach, PTL DEF O!Spec

(* The outreach keeps to its types, and no posting was reminded of an       *)
(* expiry it does not have yet (claimReminderForPosting).                   *)
THEOREM OutreachTypes == Spec => []O!TypeOK
<1>1. IInv => O!TypeOK
    BY DEF IInv, TypeInv, PhotosTyped, RequestKnown, PostingsTyped, PostingKnown, OffersTyped,
       FlagsTyped, O!TypeOK
<1> QED
    BY <1>1, OutreachInvariant, PTL

(* However handlers and jobs overlap, fail and are restarted, no seller,    *)
(* poster or dealer is asked the same thing twice without an excuse, a      *)
(* dealer never (requestPhotosForMatch, sendExpirationReminders,            *)
(* fulfillWtb).                                                             *)
THEOREM NobodyAskedTwice == Spec => []AskedOnce
<1>1. IInv => AskedOnce
    <2> SUFFICES ASSUME IInv, NEW k \in DOMAIN asked
                 PROVE  /\ k[1] \in {"photo", "reminder"} => Sent(k) <= 1 + Excused(k)
                        /\ k[1] = "offer" => Sent(k) <= 1
        BY DEF AskedOnce, O!AskedOnce, O!BagToSet, Sent, Excused
    <2>1. KeyKnown(k)
        BY DEF IInv, KeysKnown
    <2>2. CASE k[1] = "photo"
        <3>1. PICK l \in Listings, b \in Buyers : k = <<"photo", l, b>>
            BY <2>1, <2>2 DEF KeyKnown
        <3>2. PhotoKept(l, b)
            BY DEF IInv, PhotosKept
        <3> QED
            BY <2>2, <3>1, <3>2 DEF PhotoKept
    <2>3. CASE k[1] = "reminder"
        <3>1. PICK p \in Postings, x \in Nat : k = <<"reminder", p, x>>
            BY <2>1, <2>3 DEF KeyKnown
        <3>2. ReminderKept(p, x)
            BY DEF IInv, RemindersKept
        <3> QED
            BY <2>3, <3>1, <3>2 DEF ReminderKept
    <2>4. CASE k[1] = "offer"
        <3>1. PICK w \in Requests, d \in Dealers : k = <<"offer", w, d>>
            BY <2>1, <2>4 DEF KeyKnown
        <3>2. OfferKept(w, d)
            BY DEF IInv, OffersKept
        <3> QED
            BY <2>4, <3>1, <3>2 DEF OfferKept
    <2> QED
        BY <2>2, <2>3, <2>4
<1> QED
    BY <1>1, OutreachInvariant, PTL

(* However the phones of an account overlap, its look-ups exceed its        *)
(* allowances by no more than one for each other phone, and one for each    *)
(* failure between the two statements of a recording (getMarketPulseUsage,  *)
(* recordMarketPulseLookup).                                                *)
THEOREM AllowancesKept == Spec => []LookupsBounded
<1>1. IInv => LookupsBounded
    <2> SUFFICES ASSUME TypeInv, LookupsKept PROVE O!LookupsBounded
        BY DEF IInv, LookupsBounded
    <2> DEFINE N == Cardinality(Phones)
    <2>1. IsFiniteSet(Phones) /\ N \in Nat /\ Trial \in Nat /\ WeeklyLimit \in Nat
        BY ServicesAssumption, FS_CardinalityType DEF ServicesAssumption
    <2>2. Cardinality(FreeAsks) \in Nat /\ Cardinality(PaidAsks) \in Nat
        BY <2>1, AskSets
    <2>3. usage.free \in Nat /\ usage.paid \in Nat /\ missed \in Nat
        BY UsageTyped
    <2>4. /\ usage.free + Cardinality(FreeAsks) <= Trial + N - 1 + missed
          /\ usage.paid + Cardinality(PaidAsks) <= WeeklyLimit + N - 1
        BY DEF LookupsKept
    <2>5. /\ usage.free <= Trial + O!Cardinality(Phones) - 1 + missed
          /\ usage.paid <= WeeklyLimit + O!Cardinality(Phones) - 1
        <3>1. O!Cardinality(Phones) = N
            BY SameCardinality
        <3> HIDE DEF N
        <3> QED
            BY <2>1, <2>2, <2>3, <2>4, <3>1
    <2> QED
        BY <2>5 DEF O!LookupsBounded
<1> QED
    BY <1>1, OutreachInvariant, PTL
=============================================================================
