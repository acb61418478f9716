--------------------------- MODULE SurfacingProofs ---------------------------
(***************************************************************************)
(* What holds of Surfacing for all listings, messages, workers, faults and *)
(* bounds.  A match changes only at the commit of a worker that has it     *)
(* locked, so that what the worker made of the row is still about the row; *)
(* the UPSERT of a notification decides which worker sends it; and every   *)
(* revision uses up one creation or material edit of a posting, of which   *)
(* each run of the matching has at most one to use.                        *)
(***************************************************************************)
EXTENDS Surfacing, FiniteSetTheorems, TLAPS

Busy == {"load", "candidates", "upsert", "insert"}
Matching == {"upsert", "insert"}
Noting == {"send", "sent", "failed"}

(* The posting at hand, in the transaction that matches it.                *)
Working(x) ==
    /\ x.pc \in Busy \cup {"create"} => x.posting \in Postings
    /\ x.pc \in Matching => x.candidates \subseteq Opposite(x.posting)
    /\ x.pc = "insert" => x.other \in Opposite(x.posting)
    /\ x.pc \notin Matching => x.writes = NoWrites
    /\ x.pc \in {"next", "create"} => x.material = FALSE
    /\ x.pc \in Noting => x.note \in Keys

(* A sync goes through its listings, a webhook through none.               *)
Errand(i, x) ==
    /\ i \in Syncs => /\ x.fetched \in [Listings -> Asks \cup {None}]
                      /\ x.left \subseteq Listings
                      /\ x.pc # "next" => x.posting \in Listings
    /\ i \notin Syncs => x.seen = {}

Sound(i, x) == x = Idle \/ (x \in JobType /\ Working(x) /\ Errand(i, x))

TypeInv == TypeOK /\ \A i \in Workers : Sound(i, w[i])

(* Nothing is a revision of a match without a row.                         *)
Revision(row) == row.rev > 0 <=> row.status # "none"

(* What an uncommitted transaction has made of a match it has locked.      *)
Rewritten(row, was, material) ==
    \/ row = was /\ was.rev > 0
    \/ row = [rev |-> 1, status |-> "surfaced"] /\ was.rev = 0
    \/ /\ row = [rev |-> was.rev + 1, status |-> "surfaced"]
       /\ material /\ was.rev > 0 /\ was.status # "approved"

LocksExclusive == \A i, j \in Workers : i # j => Owned(i) \cap Owned(j) = {}

WritesCurrent == \A i \in Workers : \A m \in Owned(i) :
    /\ Rewritten(w[i].writes[m], match[m], w[i].material)
    /\ Owns(m, w[i].posting)

LockInv == LocksExclusive /\ WritesCurrent /\ \A m \in Pairs : Revision(match[m])

(* A notice is about a revision the match has had.                         *)
Past(k) == k \in Keys /\ k[3] <= match[k[1]].rev

NoticesPast ==
    /\ \A k \in DOMAIN notice : Past(k)
    /\ \A i \in Workers : ~At(i, "idle") =>
          /\ \A mr \in w[i].surfaced : mr[2] <= match[mr[1]].rev
          /\ \A k \in w[i].undecided : Past(k)

(* A reserved notice is sent by the one worker that reserved it.           *)
NoteReserved == \A i \in Workers :
    /\ w[i].pc \in {"send", "sent", "failed"} => w[i].note \in DOMAIN notice
    /\ At(i, "send") => w[i].note \notin DOMAIN sent
    /\ At(i, "sent") => w[i].note \in DOMAIN sent

NotesExclusive == \A i, j \in Workers :
    At(i, "send") /\ At(j, "send") /\ i # j => w[i].note # w[j].note

NoticeInv == NoticesPast /\ NoteReserved /\ NotesExclusive /\ NotifiedOnce

(* Whose decision is an approval is among the approvals.                   *)
ApprovalsOnRecord == \A k \in DOMAIN recipient :
    recipient[k] = "approved" => k[2] \in approvals[k[1]]

DecisionInv == DecisionsOnRecord /\ ApprovalsOnRecord

(* The workers that have a creation or an edit to use for a match.         *)
Pending(m) == {i \in Workers : ~At(i, "idle") /\ w[i].material /\ Owns(m, w[i].posting)}

Used(rev) == IF rev = 0 THEN 1 ELSE rev

EarnedInv == \A m \in Pairs :
    Used(match[m].rev) + Cardinality(Pending(m)) <= 1 + edits[m[1]] + edits[m[2]]

IInv == TypeInv /\ LockInv /\ NoticeInv /\ DecisionInv /\ EarnedInv

-----------------------------------------------------------------------------
(* The records of workers.                                                 *)

(* A worker that is done with a posting, or with everything.               *)
Blank(x) ==
    \/ x = Idle
    \/ /\ x.pc = "next" /\ x.material = FALSE /\ x.writes = NoWrites
       /\ x.surfaced = {} /\ x.undecided = {}

(* What a job that goes on has still got of the one it was.                *)
KeptWrites(x, y) ==
    \/ y.writes = NoWrites
    \/ /\ x # Idle /\ y.writes = x.writes
       /\ y.posting = x.posting /\ y.material = x.material

KeptNotices(x, y) ==
    /\ y.surfaced = {} \/ (x # Idle /\ y.surfaced \subseteq x.surfaced)
    /\ y.undecided = {} \/ (x # Idle /\ y.undecided \subseteq x.undecided)

KeptMaterial(x, y) == y.material => x # Idle /\ x.material /\ y.posting = x.posting

Kept(x, y) == y = Idle \/ (KeptWrites(x, y) /\ KeptNotices(x, y) /\ KeptMaterial(x, y))

LEMMA JobNotIdle == Idle \notin JobType /\ \A x \in JobType : x # Idle /\ x.pc # "idle"
<1>1. ASSUME NEW x \in JobType PROVE x # Idle /\ x.pc # "idle"
  <2>1. x.pc # "idle"  BY <1>1 DEF JobType
  <2> QED  BY <2>1 DEF Idle
<1> QED  BY <1>1

LEMMA BlankKept ==
    ASSUME NEW x, NEW y, Blank(y)
    PROVE  Kept(x, y)
BY DEF Blank, Kept, KeptWrites, KeptNotices, KeptMaterial

LEMMA JobSound ==
    ASSUME NEW i \in Workers, NEW fetched, NEW left \in SUBSET Postings,
           fetched \in [Listings -> Asks \cup {None}] \cup {<<>>},
           NEW seen \in SUBSET Listings,
           i \in Syncs => fetched \in [Listings -> Asks \cup {None}] /\ left \subseteq Listings,
           i \notin Syncs => seen = {}
    PROVE  /\ Job(fetched, left, seen) \in JobType
           /\ Sound(i, Job(fetched, left, seen)) /\ Blank(Job(fetched, left, seen))
<1> DEFINE x == Job(fetched, left, seen)
<1>1. NoWrites \in [Pairs -> MatchType]  BY DEF NoWrites, NoMatch, MatchType
<1>2. /\ x \in JobType /\ x.pc = "next" /\ x.material = FALSE /\ x.writes = NoWrites
      /\ x.surfaced = {} /\ x.undecided = {}
      /\ x.fetched = fetched /\ x.left = left /\ x.seen = seen
  BY <1>1 DEF Job, JobType
<1> HIDE DEF x
<1>4. Working(x)  BY <1>2 DEF Working, Busy, Matching, Noting
<1>5. Errand(i, x)  BY <1>2 DEF Errand
<1>6. x \in JobType /\ Sound(i, x) /\ Blank(x)  BY <1>2, <1>4, <1>5 DEF Sound, Blank
<1> QED  BY <1>6 DEF x

(* A call that returns or throws leaves nothing of its posting.            *)
LEMMA OnwardSound ==
    ASSUME NEW i \in Workers, NEW x \in JobType, Errand(i, x),
           NEW seen \in SUBSET Listings, i \notin Syncs => seen = {}
    PROVE  Sound(i, Onward(x, seen)) /\ Blank(Onward(x, seen))
<1>1. x.fetched \in [Listings -> Asks \cup {None}] \cup {<<>>} /\ x.left \in SUBSET Postings
  BY DEF JobType
<1>2. i \in Syncs => x.fetched \in [Listings -> Asks \cup {None}] /\ x.left \subseteq Listings
  BY DEF Errand
<1> QED  BY <1>1, <1>2, JobSound DEF Onward

LEMMA ThrownSound ==
    ASSUME NEW i \in Workers, w[i] \in JobType, Sound(i, w[i])
    PROVE  Sound(i, Thrown(i)) /\ Blank(Thrown(i))
<1>1. Working(w[i]) /\ Errand(i, w[i])  BY JobNotIdle DEF Sound
<1>2. w[i].seen \in SUBSET Listings  BY DEF JobType
<1>3. CASE i \in Syncs  BY <1>1, <1>2, <1>3, OnwardSound DEF Thrown
<1>4. CASE i \notin Syncs  BY <1>4 DEF Thrown, Sound, Blank
<1> QED  BY <1>3, <1>4

LEMMA ReturnedSound ==
    ASSUME NEW i \in Workers, w[i] \in JobType, Sound(i, w[i]), w[i].pc # "next"
    PROVE  Sound(i, Returned(i)) /\ Blank(Returned(i))
<1>1. Working(w[i]) /\ Errand(i, w[i])  BY JobNotIdle DEF Sound
<1>2. w[i].seen \in SUBSET Listings  BY DEF JobType
<1>3. CASE i \in Syncs
  <2>1. w[i].seen \cup {w[i].posting} \in SUBSET Listings  BY <1>1, <1>2, <1>3 DEF Errand
  <2> QED  BY <1>1, <1>3, <2>1, OnwardSound DEF Returned
<1>4. CASE i \notin Syncs /\ w[i].left # {}  BY <1>1, <1>4, OnwardSound DEF Returned
<1>5. CASE i \notin Syncs /\ w[i].left = {}  BY <1>5 DEF Returned, Sound, Blank
<1> QED  BY <1>3, <1>4, <1>5

(* A step of a worker that moves it to another sound record.               *)
Moves(i, y) == w' = [w EXCEPT ![i] = y] /\ Sound(i, y)

LEMMA MovesSound ==
    ASSUME TypeInv, NEW i \in Workers, NEW y, Moves(i, y)
    PROVE  /\ w' \in [Workers -> JobType \cup {Idle}]
           /\ \A j \in Workers : Sound(j, w'[j])
           /\ w'[i] = y /\ \A j \in Workers \ {i} : w'[j] = w[j]
<1>1. w \in [Workers -> JobType \cup {Idle}] /\ \A j \in Workers : Sound(j, w[j])
  BY DEF TypeInv, TypeOK
<1>2. w' = [w EXCEPT ![i] = y] /\ Sound(i, y)  BY DEF Moves
<1>3. y \in JobType \cup {Idle}  BY <1>2 DEF Sound
<1>4. w' \in [Workers -> JobType \cup {Idle}]  BY <1>1, <1>2, <1>3
<1>5. w'[i] = y /\ \A j \in Workers \ {i} : w'[j] = w[j]  BY <1>1, <1>2
<1> QED  BY <1>1, <1>2, <1>4, <1>5

LEMMA ContinueMoves ==
    ASSUME TypeInv, NEW i \in Workers, w[i] \in JobType, w[i].pc # "next",
           NEW x \in JobType, Continue(i, x), x.writes = NoWrites,
           Errand(i, w[i]), x.fetched = w[i].fetched, x.left = w[i].left,
           x.seen = w[i].seen, x.posting = w[i].posting
    PROVE  \E y : /\ Moves(i, y)
                  /\ \/ Blank(y)
                     \/ /\ y \in JobType /\ y.pc \in {"reserve", "notify"}
                        /\ y.writes = NoWrites /\ y.surfaced = x.surfaced
                        /\ y.undecided = x.undecided /\ y.material = x.material
                        /\ y.posting = x.posting
<1>1. Sound(i, w[i])  BY DEF TypeInv
<1>2. ASSUME NEW pc \in {"reserve", "notify"}, NEW y, y = [x EXCEPT !.pc = pc]
      PROVE  /\ Sound(i, y) /\ y \in JobType /\ y.pc \in {"reserve", "notify"}
             /\ y.writes = NoWrites /\ y.surfaced = x.surfaced
             /\ y.undecided = x.undecided /\ y.material = x.material
             /\ y.posting = x.posting
  <2>1. /\ y \in JobType /\ y.pc = pc /\ y.writes = NoWrites /\ y.surfaced = x.surfaced
        /\ y.undecided = x.undecided /\ y.material = x.material /\ y.posting = x.posting
        /\ y.fetched = x.fetched /\ y.left = x.left /\ y.seen = x.seen
    BY <1>2 DEF JobType
  <2>2. Working(y)  BY <2>1 DEF Working, Busy, Matching, Noting
  <2>3. Errand(i, y)  BY <2>1 DEF Errand
  <2> QED  BY <2>1, <2>2, <2>3 DEF Sound
<1>3. CASE x.undecided # {}
  <2>1. w' = [w EXCEPT ![i] = [x EXCEPT !.pc = "reserve"]]  BY <1>3 DEF Continue
  <2> QED  BY <2>1, <1>2 DEF Moves
<1>4. CASE x.undecided = {} /\ x.surfaced # {}
  <2>1. w' = [w EXCEPT ![i] = [x EXCEPT !.pc = "notify"]]  BY <1>4 DEF Continue
  <2> QED  BY <2>1, <1>2 DEF Moves
<1>5. CASE x.undecided = {} /\ x.surfaced = {}
  <2>1. w' = [w EXCEPT ![i] = Returned(i)]  BY <1>5 DEF Continue, Return
  <2> QED  BY <2>1, <1>1, ReturnedSound DEF Moves
<1> QED  BY <1>3, <1>4, <1>5

-----------------------------------------------------------------------------
(* Every action keeps the types; most actions fall into one of these kinds.*)

(* A worker goes on with no more than it has, and changes no table that    *)
(* matches are about.                                                      *)
Quiet == \E i \in Workers : \E y :
    /\ Moves(i, y) /\ Kept(w[i], y)
    /\ y = Idle \/ y.pc \notin Noting
    /\ UNCHANGED <<deals, messages, edits>>

(* A worker has created or edited a posting.                               *)
Edited == \E i \in Workers, p \in Postings : \E y :
    /\ Moves(i, y) /\ y # Idle /\ KeptWrites(w[i], y) /\ KeptNotices(w[i], y)
    /\ y.pc \notin Noting /\ y.posting = p /\ (w[i] = Idle \/ w[i].material = FALSE)
    /\ edits' = [edits EXCEPT ![p] = @ + 1]
    /\ UNCHANGED <<deals, messages>>

(* A worker has locked a match and written what it will be.                *)
Wrote == \E i \in Workers, m \in Pairs : \E y, row :
    /\ Moves(i, y) /\ y # Idle /\ w[i] # Idle /\ KeptNotices(w[i], y) /\ y.pc \notin Noting
    /\ y.posting = w[i].posting /\ y.material = w[i].material
    /\ Owns(m, y.posting) /\ Free(i, m)
    /\ y.writes = [w[i].writes EXCEPT ![m] = row] /\ Rewritten(row, match[m], y.material)
    /\ UNCHANGED <<deals, messages, edits>>

LEMMA WorkerTyped ==
    ASSUME TypeInv, NEW i \in Workers, ~At(i, "idle")
    PROVE  /\ w[i] \in JobType /\ w[i] # Idle /\ Working(w[i]) /\ Errand(i, w[i])
           /\ Sound(i, w[i])
<1>1. w[i] \in JobType \cup {Idle} /\ Sound(i, w[i])  BY DEF TypeInv, TypeOK
<1>2. w[i] # Idle  BY DEF At, Idle
<1> QED  BY <1>1, <1>2 DEF Sound

(* A job that stays as it is but for fields that do not matter here.       *)
LEMMA SameKept ==
    ASSUME NEW x \in JobType, NEW y, y.writes = x.writes, y.posting = x.posting,
           y.material = x.material, y.surfaced = x.surfaced, y.undecided = x.undecided
    PROVE  Kept(x, y) /\ KeptWrites(x, y) /\ KeptNotices(x, y) /\ KeptMaterial(x, y)
<1>1. x # Idle  BY JobNotIdle
<1> QED  BY <1>1 DEF Kept, KeptWrites, KeptNotices, KeptMaterial

LEMMA ThrowQuiet ==
    ASSUME TypeInv, NEW i \in Workers, ~At(i, "idle"), ThrowAt(i),
           UNCHANGED <<deals, messages, edits>>
    PROVE  Quiet /\ w' \in [Workers -> JobType \cup {Idle}]
           /\ \A j \in Workers : Sound(j, w'[j])
<1>1. Sound(i, Thrown(i)) /\ Blank(Thrown(i))  BY WorkerTyped, ThrownSound
<1>2. Moves(i, Thrown(i))  BY <1>1 DEF Moves, ThrowAt
<1>3. Kept(w[i], Thrown(i))  BY <1>1, BlankKept
<1>4. Thrown(i) = Idle \/ Thrown(i).pc \notin Noting  BY <1>1 DEF Blank, Noting
<1> QED  BY <1>2, <1>3, <1>4, MovesSound DEF Quiet

LEMMA ReturnQuiet ==
    ASSUME TypeInv, NEW i \in Workers, ~At(i, "idle"), ~At(i, "next"), Return(i),
           UNCHANGED <<deals, messages, edits>>
    PROVE  Quiet /\ w' \in [Workers -> JobType \cup {Idle}]
           /\ \A j \in Workers : Sound(j, w'[j])
<1>1. Sound(i, Returned(i)) /\ Blank(Returned(i))  BY WorkerTyped, ReturnedSound DEF At
<1>2. Moves(i, Returned(i))  BY <1>1 DEF Moves, Return
<1>3. Kept(w[i], Returned(i))  BY <1>1, BlankKept
<1>4. Returned(i) = Idle \/ Returned(i).pc \notin Noting  BY <1>1 DEF Blank, Noting
<1> QED  BY <1>2, <1>3, <1>4, MovesSound DEF Quiet

(* The rows and counters, without the workers.                             *)
RowsOK ==
    /\ offered \in [Listings -> Asks \cup {None}]
    /\ status \in [Postings -> {"none", "active", "source_inactive"}]
    /\ terms \in [Postings -> Terms \cup {None}]
    /\ match \in [Pairs -> MatchType]
    /\ \A k \in DOMAIN recipient :
          k \in Keys /\ recipient[k] \in {"pending", "approved", "passed"}
    /\ \A k \in DOMAIN notice : k \in Keys /\ notice[k] \in {"pending", "sent", "failed"}
    /\ approvals \in [Pairs -> SUBSET Sides]
    /\ IsABag(sent) /\ DOMAIN sent \subseteq Keys
    /\ edits \in [Postings -> Nat]
    /\ changes \in 0..MaxEdits /\ requests \in 0..MaxRequests /\ faults \in 0..MaxFaults

WorkersOK ==
    /\ w \in [Workers -> JobType \cup {Idle}]
    /\ \A i \in Workers : Sound(i, w[i])

LEMMA TypeInvParts ==
    (TypeInv <=> RowsOK /\ WorkersOK) /\ (TypeInv' <=> RowsOK' /\ WorkersOK')
BY DEF TypeInv, TypeOK, RowsOK, WorkersOK

LEMMA RowsKept ==
    ASSUME RowsOK, UNCHANGED <<offered, postings, deals, messages, counts>>
    PROVE  RowsOK' /\ UNCHANGED <<deals, messages, edits>>
BY DEF RowsOK, postings, deals, messages, counts

(* A step of a job that keeps the record but for what y says.              *)
LEMMA QuietMove ==
    ASSUME TypeInv, NEW i \in Workers, NEW y, w' = [w EXCEPT ![i] = y],
           y \in JobType, Working(y), Errand(i, y), y.pc \notin Noting, Kept(w[i], y),
           UNCHANGED <<deals, messages, edits>>
    PROVE  Quiet /\ WorkersOK'
<1>1. Moves(i, y)  BY DEF Moves, Sound
<1> QED  BY <1>1, MovesSound DEF Quiet, WorkersOK

LEMMA LoadStep ==
    ASSUME TypeInv, NEW i \in Workers, Load(i)
    PROVE  TypeInv' /\ Quiet
<1>1. RowsOK' /\ UNCHANGED <<deals, messages, edits>>
  BY RowsKept, TypeInvParts DEF Load
<1>2. At(i, "load") /\ ~At(i, "idle") /\ ~At(i, "next")  BY DEF Load, At
<1>3. w[i] \in JobType /\ Working(w[i]) /\ Errand(i, w[i])  BY <1>2, WorkerTyped
<1>4. CASE status[w[i].posting] = "active"
  <2> DEFINE y == [w[i] EXCEPT !.pc = "candidates", !.terms = terms[w[i].posting]]
  <2>1. w' = [w EXCEPT ![i] = y]  BY <1>4 DEF Load
  <2>2. terms[w[i].posting] \in Terms \cup {None}
    BY <1>2, <1>3 DEF TypeInv, TypeOK, Working, At, Busy
  <2>3. /\ y \in JobType /\ y.pc = "candidates" /\ y.writes = w[i].writes
        /\ y.posting = w[i].posting /\ y.material = w[i].material
        /\ y.surfaced = w[i].surfaced /\ y.undecided = w[i].undecided
        /\ y.fetched = w[i].fetched /\ y.left = w[i].left /\ y.seen = w[i].seen
    BY <1>3, <2>2 DEF JobType
  <2> HIDE DEF y
  <2>4. Working(y) /\ Errand(i, y) /\ Kept(w[i], y) /\ y.pc \notin Noting
    BY <1>2, <1>3, <2>3, SameKept DEF Working, Errand, At, Busy, Matching, Noting
  <2> QED  BY <1>1, <2>1, <2>3, <2>4, QuietMove, TypeInvParts
<1>5. CASE status[w[i].posting] # "active"
  <2>1. Return(i)  BY <1>5 DEF Load
  <2> QED  BY <1>1, <1>2, <2>1, ReturnQuiet, TypeInvParts DEF WorkersOK
<1> QED  BY <1>4, <1>5

(* Ingesting a posting, from a sync's next listing or a new message.       *)
LEMMA IngestStep ==
    ASSUME TypeInv, NEW i \in Workers, NEW x \in JobType, x.pc = "next",
           Working(x), Errand(i, x), x.surfaced = {} \/ (w[i] # Idle /\ x.surfaced = w[i].surfaced),
           x.undecided = {} \/ (w[i] # Idle /\ x.undecided = w[i].undecided),
           w[i] = Idle \/ w[i].material = FALSE,
           NEW p \in Postings, i \in Syncs => p \in Listings, NEW t \in Terms \cup {None},
           Ingest(i, x, p, t), UNCHANGED <<deals, messages>>
    PROVE  /\ WorkersOK' /\ (Quiet \/ Edited)
           /\ status' \in [Postings -> {"none", "active", "source_inactive"}]
           /\ terms' \in [Postings -> Terms \cup {None}]
           /\ edits' \in [Postings -> Nat]
<1>1. /\ status \in [Postings -> {"none", "active", "source_inactive"}]
      /\ terms \in [Postings -> Terms \cup {None}] /\ edits \in [Postings -> Nat]
  BY DEF TypeInv, TypeOK
<1>2. x.writes = NoWrites /\ x.material = FALSE
  BY DEF Working, Matching
<1>3. CASE status[p] = "none"
  <2> DEFINE y == [x EXCEPT !.pc = "create", !.posting = p, !.terms = t]
  <2>1. w' = [w EXCEPT ![i] = y] /\ UNCHANGED postings  BY <1>3 DEF Ingest
  <2>2. /\ y \in JobType /\ y.pc = "create" /\ y.writes = NoWrites /\ y.posting = p
        /\ y.material = FALSE /\ y.surfaced = x.surfaced /\ y.undecided = x.undecided
        /\ y.fetched = x.fetched /\ y.left = x.left /\ y.seen = x.seen
    BY <1>2 DEF JobType
  <2> HIDE DEF y
  <2>3. Working(y) /\ Errand(i, y) /\ y.pc \notin Noting
    BY <2>2 DEF Working, Errand, Busy, Matching, Noting
  <2>4. Kept(w[i], y)  BY <2>2 DEF Kept, KeptWrites, KeptNotices, KeptMaterial
  <2> QED  BY <1>1, <2>1, <2>2, <2>3, <2>4, QuietMove DEF postings
<1>4. CASE status[p] # "none"
  <2> DEFINE y == [x EXCEPT !.pc = "load", !.posting = p, !.material = Changed(p, t)]
  <2>1. /\ w' = [w EXCEPT ![i] = y] /\ terms' = [terms EXCEPT ![p] = t]
        /\ edits' = IF terms[p] # t THEN [edits EXCEPT ![p] = @ + 1] ELSE edits
        /\ UNCHANGED status
    BY <1>4 DEF Ingest
  <2>2. /\ y \in JobType /\ y.pc = "load" /\ y.writes = NoWrites /\ y.posting = p
        /\ y.material = Changed(p, t)
        /\ y.surfaced = x.surfaced /\ y.undecided = x.undecided
        /\ y.fetched = x.fetched /\ y.left = x.left /\ y.seen = x.seen
    BY <1>2 DEF JobType, Changed
  <2> HIDE DEF y
  <2>3. Working(y) /\ Errand(i, y) /\ y.pc \notin Noting /\ y # Idle
    BY <2>2, JobNotIdle DEF Working, Errand, Busy, Matching, Noting
  <2>4. Moves(i, y)  BY <2>1, <2>2, <2>3 DEF Moves, Sound
  <2>5. WorkersOK'  BY <2>4, MovesSound DEF WorkersOK
  <2>6. KeptWrites(w[i], y) /\ KeptNotices(w[i], y)
    BY <2>2 DEF KeptWrites, KeptNotices
  <2>7. CASE terms[p] # t
    <3>1. edits' = [edits EXCEPT ![p] = @ + 1]  BY <2>1, <2>7
    <3>2. edits' \in [Postings -> Nat]
      <4>1. edits[p] + 1 \in Nat  BY <1>1
      <4> QED  BY <1>1, <3>1, <4>1
    <3>3. Edited  BY <2>2, <2>3, <2>4, <2>6, <3>1 DEF Edited
    <3> QED  BY <1>1, <2>1, <2>5, <3>2, <3>3
  <2>8. CASE terms[p] = t
    <3>1. Kept(w[i], y)  BY <2>2, <2>6, <2>8 DEF Kept, KeptMaterial, Changed
    <3>2. Quiet  BY <2>1, <2>3, <2>4, <2>8, <3>1 DEF Quiet
    <3> QED  BY <1>1, <2>1, <2>5, <2>8, <3>2
  <2> QED  BY <2>7, <2>8
<1> QED  BY <1>3, <1>4

LEMMA NextListingStep ==
    ASSUME TypeInv, NEW s \in Syncs, NextListing(s)
    PROVE  TypeInv' /\ (Quiet \/ Edited)
<1>1. PICK l \in w[s].left :
          /\ Ingest(s, [w[s] EXCEPT !.left = @ \ {l}], l, w[s].fetched[l])
          /\ UNCHANGED <<offered, deals, messages, counts>>
  BY DEF NextListing
<1>2. s \in Workers /\ At(s, "next") /\ ~At(s, "idle")  BY DEF NextListing, At, Workers
<1>3. w[s] \in JobType /\ w[s] # Idle /\ Working(w[s]) /\ Errand(s, w[s])
  BY <1>2, WorkerTyped
<1>4. l \in Listings /\ l \in Postings /\ w[s].fetched[l] \in Terms \cup {None}
  BY <1>3 DEF Errand, Postings, Terms
<1> DEFINE x == [w[s] EXCEPT !.left = @ \ {l}]
<1>5. /\ x \in JobType /\ x.pc = "next" /\ x.writes = w[s].writes
      /\ x.material = w[s].material /\ x.surfaced = w[s].surfaced
      /\ x.undecided = w[s].undecided /\ x.fetched = w[s].fetched
      /\ x.left = w[s].left \ {l} /\ x.seen = w[s].seen
  BY <1>2, <1>3 DEF JobType, At
<1>6. Ingest(s, x, l, w[s].fetched[l])  BY <1>1
<1> HIDE DEF x
<1>7. Working(x) /\ Errand(s, x) /\ w[s].material = FALSE
  BY <1>2, <1>3, <1>5 DEF Working, Errand, Busy, Matching, Noting, At
<1>8. /\ WorkersOK' /\ (Quiet \/ Edited)
      /\ status' \in [Postings -> {"none", "active", "source_inactive"}]
      /\ terms' \in [Postings -> Terms \cup {None}]
      /\ edits' \in [Postings -> Nat]
  BY <1>1, <1>2, <1>3, <1>4, <1>5, <1>6, <1>7, IngestStep
<1>9. RowsOK'
  BY <1>1, <1>8, TypeInvParts DEF RowsOK, deals, messages, counts
<1> QED  BY <1>8, <1>9, TypeInvParts

LEMMA ReceiveStep ==
    ASSUME TypeInv, NEW c \in Chats, NEW p \in Messages, NEW t \in Bids, Receive(c, p, t)
    PROVE  TypeInv' /\ (Quiet \/ Edited)
<1>1. /\ Ingest(c, Job(<<>>, {}, {}), p, t) /\ changes < MaxEdits /\ changes' = changes + 1
      /\ UNCHANGED <<offered, deals, messages, requests, faults>> /\ At(c, "idle")
  BY DEF Receive, CanStart
<1>2. c \in Workers /\ c \notin Syncs /\ p \in Postings /\ t \in Terms \cup {None}
  BY ConstantsAssumption DEF Workers, Postings, Terms
<1>3. w[c] = Idle
  BY <1>1, <1>2, JobNotIdle DEF TypeInv, TypeOK, At
<1> DEFINE x == Job(<<>>, {}, {})
<1>4. x \in JobType /\ Sound(c, x) /\ Blank(x)
  BY <1>2, JobSound
<1>5. Ingest(c, x, p, t)  BY <1>1
<1> HIDE DEF x
<1>6. Working(x) /\ Errand(c, x) /\ x.surfaced = {} /\ x.undecided = {} /\ x.pc = "next"
  BY <1>4, JobNotIdle DEF Sound, Blank
<1>7. /\ WorkersOK' /\ (Quiet \/ Edited)
      /\ status' \in [Postings -> {"none", "active", "source_inactive"}]
      /\ terms' \in [Postings -> Terms \cup {None}]
      /\ edits' \in [Postings -> Nat]
  BY <1>1, <1>2, <1>3, <1>4, <1>5, <1>6, IngestStep
<1>8. RowsOK  BY TypeInvParts
<1>9. changes' \in 0..MaxEdits
  BY <1>1, <1>8, ConstantsAssumption DEF RowsOK
<1>10. RowsOK'
  BY <1>1, <1>7, <1>8, <1>9 DEF RowsOK, deals, messages
<1> QED  BY <1>7, <1>10, TypeInvParts

LEMMA CreateStep ==
    ASSUME TypeInv, NEW i \in Workers, Create(i)
    PROVE  TypeInv' /\ (Quiet \/ Edited)
<1>1. At(i, "create") /\ ~At(i, "idle") /\ ~At(i, "next")  BY DEF Create, At
<1>2. w[i] \in JobType /\ Working(w[i]) /\ Errand(i, w[i])  BY <1>1, WorkerTyped
<1>3. RowsOK  BY TypeInvParts
<1> DEFINE p == w[i].posting
<1>4. p \in Postings /\ w[i].terms \in Terms \cup {None} /\ w[i].material = FALSE
      /\ w[i].writes = NoWrites
  BY <1>1, <1>2 DEF Working, At, JobType, Matching
<1>5. CASE status[p] = "none"
  <2> DEFINE y == [w[i] EXCEPT !.pc = "load", !.terms = None, !.material = TRUE]
  <2>1. /\ w' = [w EXCEPT ![i].pc = "load", ![i].terms = None, ![i].material = TRUE]
        /\ status' = [status EXCEPT ![p] = "active"]
        /\ terms' = [terms EXCEPT ![p] = w[i].terms]
        /\ edits' = [edits EXCEPT ![p] = @ + 1]
        /\ UNCHANGED <<offered, deals, messages, counts>>
    BY <1>5 DEF Create
  <2>2. /\ y \in JobType /\ y.pc = "load" /\ y.writes = NoWrites /\ y.posting = p
        /\ y.surfaced = w[i].surfaced /\ y.undecided = w[i].undecided
        /\ y.fetched = w[i].fetched /\ y.left = w[i].left /\ y.seen = w[i].seen
    BY <1>2, <1>4 DEF JobType
  <2>3. w' = [w EXCEPT ![i] = y]  BY <2>1, <1>2 DEF JobType
  <2>4. edits[p] + 1 \in Nat  BY <1>3, <1>4 DEF RowsOK
  <2> HIDE DEF y
  <2>5. Working(y) /\ Errand(i, y) /\ y.pc \notin Noting /\ y # Idle
    BY <1>1, <1>2, <1>4, <2>2, JobNotIdle DEF Working, Errand, Busy, Matching, Noting, At
  <2>6. Moves(i, y)  BY <2>2, <2>3, <2>5 DEF Moves, Sound
  <2>7. KeptWrites(w[i], y) /\ KeptNotices(w[i], y)
    BY <1>2, <2>2, JobNotIdle DEF KeptWrites, KeptNotices
  <2>8. Edited  BY <1>4, <2>1, <2>2, <2>5, <2>6, <2>7 DEF Edited
  <2>9. WorkersOK'  BY <2>6, MovesSound DEF WorkersOK
  <2>10. RowsOK'
    BY <1>3, <1>4, <2>1, <2>4 DEF RowsOK, deals, messages, counts
  <2> QED  BY <2>8, <2>9, <2>10, TypeInvParts
<1>6. CASE status[p] # "none"
  <2>1. ThrowAt(i) /\ UNCHANGED <<offered, postings, deals, messages, counts>>
    BY <1>6 DEF Create
  <2> QED  BY <1>1, <2>1, <1>3, RowsKept, ThrowQuiet, TypeInvParts DEF WorkersOK
<1> QED  BY <1>5, <1>6

LEMMA IdleSound ==
    ASSUME TypeInv, NEW i \in Workers, w' = [w EXCEPT ![i] = Idle],
           UNCHANGED <<deals, messages, edits>>
    PROVE  WorkersOK' /\ Quiet
<1>1. Moves(i, Idle)  BY DEF Moves, Sound
<1>2. Kept(w[i], Idle)  BY DEF Kept
<1> QED  BY <1>1, <1>2, MovesSound DEF Quiet, WorkersOK

LEMMA ThrowStep ==
    ASSUME TypeInv, NEW i \in Workers, Throw(i)
    PROVE  TypeInv' /\ Quiet
<1>1. /\ faults < MaxFaults /\ ~At(i, "idle") /\ faults' = faults + 1
      /\ UNCHANGED <<offered, postings, deals, messages, changes, requests>>
      /\ w' = [w EXCEPT ![i] = Idle] \/ ThrowAt(i)
  BY DEF Throw
<1>2. RowsOK  BY TypeInvParts
<1>3. faults' \in 0..MaxFaults  BY <1>1, <1>2, ConstantsAssumption DEF RowsOK
<1>4. RowsOK' /\ UNCHANGED <<deals, messages, edits>>
  BY <1>1, <1>2, <1>3 DEF RowsOK, postings, deals, messages
<1>5. WorkersOK' /\ Quiet  BY <1>1, <1>4, IdleSound, ThrowQuiet DEF WorkersOK
<1> QED  BY <1>4, <1>5, TypeInvParts

LEMMA VictimStep ==
    ASSUME TypeInv, NEW i \in Workers, Victim(i)
    PROVE  TypeInv' /\ Quiet
<1>1. ThrowAt(i) /\ UNCHANGED <<offered, postings, deals, messages, counts>>  BY DEF Victim
<1>2. ~At(i, "idle")
  <2>1. PICK S \in SUBSET Workers : i \in S /\ \A j \in S :
            \E k \in S \ {j} : Awaited(j) \cap Owned(k) # {}
    BY DEF Victim
  <2>2. Awaited(i) # {}  BY <2>1
  <2> QED  BY <2>2 DEF Awaited, At
<1> QED  BY <1>1, <1>2, RowsKept, ThrowQuiet, TypeInvParts DEF WorkersOK

LEMMA FetchStep ==
    ASSUME TypeInv, NEW s \in Syncs, Fetch(s)
    PROVE  TypeInv' /\ Quiet
<1> DEFINE listed == {l \in Listings : offered[l] # None}
           y == Job(offered, listed, {})
<1>1. w' = [w EXCEPT ![s] = y] /\ UNCHANGED <<offered, postings, deals, messages, counts>>
  BY DEF Fetch
<1>2. offered \in [Listings -> Asks \cup {None}] /\ s \in Workers
      /\ listed \in SUBSET Postings /\ listed \subseteq Listings
  BY DEF TypeInv, TypeOK, Workers, Postings
<1>3. y \in JobType /\ Sound(s, y) /\ Blank(y)
  <2> HIDE DEF listed
  <2> QED  BY <1>2, JobSound
<1> HIDE DEF y
<1>4. Working(y) /\ Errand(s, y) /\ y.pc \notin Noting /\ Kept(w[s], y)
  BY <1>3, JobNotIdle, BlankKept DEF Sound, Blank, Noting
<1> QED  BY <1>1, <1>2, <1>3, <1>4, QuietMove, RowsKept, TypeInvParts

LEMMA ReconcileStepTyped ==
    ASSUME TypeInv, NEW r \in Reconcilers, Reconcile(r)
    PROVE  TypeInv' /\ Quiet
<1> DEFINE active == {p \in Postings : status[p] = "active"}
           y == Job(<<>>, active, {})
<1>1. w' = [w EXCEPT ![r] = y] /\ UNCHANGED <<offered, postings, deals, messages, counts>>
  BY DEF Reconcile
<1>2. r \in Workers /\ r \notin Syncs /\ active \in SUBSET Postings
  BY ConstantsAssumption DEF Workers
<1>3. y \in JobType /\ Sound(r, y) /\ Blank(y)
  <2> HIDE DEF active
  <2> QED  BY <1>2, JobSound
<1> HIDE DEF y
<1>4. Working(y) /\ Errand(r, y) /\ y.pc \notin Noting /\ Kept(w[r], y)
  BY <1>3, JobNotIdle, BlankKept DEF Sound, Blank, Noting
<1> QED  BY <1>1, <1>2, <1>3, <1>4, QuietMove, RowsKept, TypeInvParts

LEMMA MarkMissingStep ==
    ASSUME TypeInv, NEW s \in Syncs, MarkMissing(s)
    PROVE  TypeInv' /\ Quiet
<1>1. /\ status' = [p \in Postings |->
              IF p \in Listings \ w[s].seen /\ status[p] = "active"
              THEN "source_inactive" ELSE status[p]]
      /\ w' = [w EXCEPT ![s] = Idle]
      /\ UNCHANGED <<offered, terms, edits, deals, messages, counts>>
  BY DEF MarkMissing
<1>2. RowsOK /\ s \in Workers  BY TypeInvParts DEF Workers
<1>3. status' \in [Postings -> {"none", "active", "source_inactive"}]
  BY <1>1, <1>2 DEF RowsOK
<1>4. RowsOK' /\ UNCHANGED <<deals, messages, edits>>
  BY <1>1, <1>2, <1>3 DEF RowsOK, deals, messages, counts
<1> QED  BY <1>1, <1>2, <1>4, IdleSound, TypeInvParts

LEMMA NextPostingStep ==
    ASSUME TypeInv, NEW r \in Reconcilers, NextPosting(r)
    PROVE  TypeInv' /\ Quiet
<1>1. PICK p \in w[r].left :
          /\ w' = [w EXCEPT ![r].left = @ \ {p}, ![r].posting = p, ![r].pc = "load"]
          /\ UNCHANGED <<offered, postings, deals, messages, counts>>
  BY DEF NextPosting
<1>2. r \in Workers /\ r \notin Syncs /\ At(r, "next") /\ ~At(r, "idle")
  BY ConstantsAssumption DEF NextPosting, At, Workers
<1>3. w[r] \in JobType /\ w[r] # Idle /\ Working(w[r]) /\ Errand(r, w[r])
  BY <1>2, WorkerTyped
<1>4. p \in Postings /\ w[r].writes = NoWrites /\ w[r].material = FALSE
  BY <1>2, <1>3 DEF JobType, Working, At, Matching
<1> DEFINE y == [w[r] EXCEPT !.left = @ \ {p}, !.posting = p, !.pc = "load"]
<1>5. w' = [w EXCEPT ![r] = y]  BY <1>1, <1>3 DEF JobType
<1>6. /\ y \in JobType /\ y.pc = "load" /\ y.posting = p /\ y.writes = NoWrites
      /\ y.material = FALSE /\ y.surfaced = w[r].surfaced /\ y.undecided = w[r].undecided
      /\ y.seen = w[r].seen
  BY <1>3, <1>4 DEF JobType
<1> HIDE DEF y
<1>7. Working(y) /\ Errand(r, y) /\ y.pc \notin Noting /\ Kept(w[r], y)
  BY <1>2, <1>3, <1>4, <1>6 DEF Working, Errand, Busy, Matching, Noting,
     Kept, KeptWrites, KeptNotices, KeptMaterial
<1> QED  BY <1>1, <1>2, <1>5, <1>6, <1>7, QuietMove, RowsKept, TypeInvParts

LEMMA LoadCandidatesStep ==
    ASSUME TypeInv, NEW i \in Workers, LoadCandidates(i)
    PROVE  TypeInv' /\ Quiet
<1> DEFINE fitting == {q \in Opposite(w[i].posting) :
                          status[q] = "active" /\ Fit(w[i].posting, w[i].terms, q)}
<1>1. /\ w' = [w EXCEPT ![i].pc = "upsert", ![i].terms = None, ![i].candidates = fitting]
      /\ UNCHANGED <<offered, postings, deals, messages, counts>>
      /\ At(i, "candidates") /\ ~At(i, "idle")
  BY DEF LoadCandidates, At
<1>2. w[i] \in JobType /\ w[i] # Idle /\ Working(w[i]) /\ Errand(i, w[i])
  BY <1>1, WorkerTyped
<1>3. fitting \subseteq Opposite(w[i].posting) /\ fitting \in SUBSET Postings
  BY DEF Opposite, Postings
<1> HIDE DEF fitting
<1> DEFINE y == [w[i] EXCEPT !.pc = "upsert", !.terms = None, !.candidates = fitting]
<1>4. w' = [w EXCEPT ![i] = y]  BY <1>1, <1>2 DEF JobType
<1>5. /\ y \in JobType /\ y.pc = "upsert" /\ y.candidates = fitting
      /\ y.writes = w[i].writes /\ y.posting = w[i].posting /\ y.material = w[i].material
      /\ y.surfaced = w[i].surfaced /\ y.undecided = w[i].undecided
      /\ y.fetched = w[i].fetched /\ y.left = w[i].left /\ y.seen = w[i].seen
  BY <1>2, <1>3 DEF JobType
<1> HIDE DEF y
<1>6. Working(y) /\ Errand(i, y) /\ y.pc \notin Noting /\ Kept(w[i], y)
  BY <1>1, <1>2, <1>3, <1>5, SameKept DEF Working, Errand, Busy, Matching, Noting, At
<1> QED  BY <1>1, <1>4, <1>5, <1>6, QuietMove, RowsKept, TypeInvParts

LEMMA ChangeSourceStep ==
    ASSUME TypeInv, NEW l \in Listings, NEW t \in Asks \cup {None}, ChangeSource(l, t)
    PROVE  TypeInv' /\ UNCHANGED <<deals, messages, edits, w>>
<1>1. /\ changes < MaxEdits /\ offered' = [offered EXCEPT ![l] = t]
      /\ changes' = changes + 1
      /\ UNCHANGED <<postings, deals, messages, w, requests, faults>>
  BY DEF ChangeSource
<1>2. RowsOK /\ WorkersOK  BY TypeInvParts
<1>3. changes' \in 0..MaxEdits /\ offered' \in [Listings -> Asks \cup {None}]
  BY <1>1, <1>2, ConstantsAssumption DEF RowsOK
<1>4. RowsOK'  BY <1>1, <1>2, <1>3 DEF RowsOK, postings, deals, messages
<1>5. WorkersOK'  BY <1>1, <1>2 DEF WorkersOK
<1> QED  BY <1>1, <1>4, <1>5, TypeInvParts DEF postings

LEMMA RestartStep ==
    ASSUME TypeInv, Restart
    PROVE  /\ TypeInv' /\ UNCHANGED <<deals, messages, edits>>
           /\ w' = [i \in Workers |-> Idle]
<1>1. /\ w' = [i \in Workers |-> Idle] /\ faults < MaxFaults /\ faults' = faults + 1
      /\ UNCHANGED <<offered, postings, deals, messages, changes, requests>>
  BY DEF Restart
<1>2. RowsOK  BY TypeInvParts
<1>3. faults' \in 0..MaxFaults  BY <1>1, <1>2, ConstantsAssumption DEF RowsOK
<1>4. RowsOK'  BY <1>1, <1>2, <1>3 DEF RowsOK, postings, deals, messages
<1>5. WorkersOK'  BY <1>1 DEF WorkersOK, Sound
<1> QED  BY <1>1, <1>4, <1>5, TypeInvParts DEF postings

LEMMA PairTyped ==
    ASSUME NEW p \in Postings, NEW q \in Opposite(p)
    PROVE  /\ PairOf(p, q) \in Pairs /\ Owns(PairOf(p, q), p)
           /\ q \in Postings
BY DEF Opposite, Postings, PairOf, Pairs, Owns

LEMMA RewrittenTyped ==
    ASSUME NEW row, NEW was \in MatchType, Revision(was), NEW material \in BOOLEAN,
           Rewritten(row, was, material)
    PROVE  row \in MatchType /\ Revision(row) /\ row.rev > 0 /\ row # NoMatch
<1>1. was.rev \in Nat /\ was.status \in {"none", "surfaced", "approved", "passed_all"}
  BY DEF MatchType
<1>2. CASE row = was /\ was.rev > 0  BY <1>1, <1>2 DEF NoMatch
<1>3. CASE row = [rev |-> 1, status |-> "surfaced"]
  BY <1>3 DEF MatchType, Revision, NoMatch
<1>4. CASE row = [rev |-> was.rev + 1, status |-> "surfaced"]
  <2>1. was.rev + 1 \in Nat /\ was.rev + 1 > 0  BY <1>1
  <2> QED  BY <1>4, <2>1 DEF MatchType, Revision, NoMatch
<1> QED  BY <1>2, <1>3, <1>4 DEF Rewritten

(* A worker with a row of its own making, and otherwise as it was.         *)
LEMMA WroteMove ==
    ASSUME TypeInv, LockInv, NEW i \in Workers, NEW y, w' = [w EXCEPT ![i] = y],
           w[i] \in JobType, y \in JobType, Working(y), Errand(i, y), y.pc = "upsert",
           NEW m \in Pairs, NEW row, Rewritten(row, match[m], w[i].material),
           Free(i, m), Owns(m, w[i].posting), y.posting = w[i].posting,
           y.material = w[i].material, y.surfaced = w[i].surfaced,
           y.undecided = w[i].undecided, y.writes = [w[i].writes EXCEPT ![m] = row],
           UNCHANGED <<deals, messages, edits>>
    PROVE  Wrote /\ WorkersOK'
<1>1. Moves(i, y)  BY DEF Moves, Sound
<1>2. y # Idle /\ w[i] # Idle /\ y.pc \notin Noting  BY JobNotIdle DEF Noting
<1>3. KeptNotices(w[i], y)  BY <1>2 DEF KeptNotices
<1>4. Wrote  BY <1>1, <1>2, <1>3 DEF Wrote
<1> QED  BY <1>1, <1>4, MovesSound DEF WorkersOK

LEMMA LookStep ==
    ASSUME TypeInv, LockInv, NEW i \in Workers, Look(i)
    PROVE  TypeInv' /\ (Quiet \/ Wrote)
<1>1. At(i, "upsert") /\ ~At(i, "idle")  BY DEF Look, At
<1>2. w[i] \in JobType /\ w[i] # Idle /\ Working(w[i]) /\ Errand(i, w[i])
  BY <1>1, WorkerTyped
<1>3. UNCHANGED <<offered, postings, deals, messages, counts>>  BY DEF Look
<1>4. RowsOK' /\ UNCHANGED <<deals, messages, edits>>  BY <1>3, RowsKept, TypeInvParts
<1>5. PICK q \in w[i].candidates :
      LET m == PairOf(w[i].posting, q) IN
      IF match[m].rev = 0
      THEN w' = [w EXCEPT ![i].pc = "insert", ![i].other = q, ![i].candidates = @ \ {q}]
      ELSE /\ Free(i, m)
           /\ w' = [w EXCEPT ![i].candidates = @ \ {q},
                             ![i].writes[m] = Revised(i, match[m])]
  BY DEF Look
<1> DEFINE m == PairOf(w[i].posting, q)
<1>6. /\ w[i].posting \in Postings /\ w[i].candidates \subseteq Opposite(w[i].posting)
      /\ q \in Opposite(w[i].posting)
  BY <1>1, <1>2, <1>5 DEF Working, At, Busy, Matching
<1>7. m \in Pairs /\ Owns(m, w[i].posting) /\ q \in Postings  BY <1>6, PairTyped
<1>8. CASE match[m].rev = 0
  <2> DEFINE y == [w[i] EXCEPT !.pc = "insert", !.other = q, !.candidates = @ \ {q}]
  <2>1. w' = [w EXCEPT ![i] = y]  BY <1>2, <1>5, <1>8 DEF JobType
  <2>2. /\ y \in JobType /\ y.pc = "insert" /\ y.other = q
        /\ y.candidates = w[i].candidates \ {q}
        /\ y.writes = w[i].writes /\ y.posting = w[i].posting /\ y.material = w[i].material
        /\ y.surfaced = w[i].surfaced /\ y.undecided = w[i].undecided
        /\ y.fetched = w[i].fetched /\ y.left = w[i].left /\ y.seen = w[i].seen
    BY <1>2, <1>7 DEF JobType
  <2> HIDE DEF y
  <2>3. Working(y) /\ Errand(i, y) /\ y.pc \notin Noting /\ Kept(w[i], y)
    BY <1>1, <1>2, <1>6, <2>2, SameKept DEF Working, Errand, Busy, Matching, Noting, At
  <2> QED  BY <1>4, <2>1, <2>2, <2>3, QuietMove, TypeInvParts
<1>9. CASE match[m].rev # 0
  <2> DEFINE row == Revised(i, match[m])
             y == [w[i] EXCEPT !.candidates = @ \ {q}, !.writes = [@ EXCEPT ![m] = row]]
  <2>1. Free(i, m) /\ w' = [w EXCEPT ![i].candidates = @ \ {q}, ![i].writes[m] = row]
    BY <1>5, <1>9
  <2>2. match[m] \in MatchType /\ Revision(match[m]) /\ w[i].material \in BOOLEAN
        /\ match[m].rev \in Nat
    BY <1>2, <1>7 DEF TypeInv, TypeOK, LockInv, JobType, MatchType
  <2>3. Rewritten(row, match[m], w[i].material)
    BY <1>9, <2>2 DEF Revised, Rewritten
  <2>4. row \in MatchType  BY <2>2, <2>3, RewrittenTyped
  <2> HIDE DEF row
  <2>5. w' = [w EXCEPT ![i] = y]  BY <1>2, <2>1 DEF JobType
  <2>6. w[i].writes \in [Pairs -> MatchType]  BY <1>2 DEF JobType
  <2>7. [w[i].writes EXCEPT ![m] = row] \in [Pairs -> MatchType]  BY <2>4, <2>6
  <2>8. /\ y \in JobType /\ y.pc = "upsert"
        /\ y.candidates = w[i].candidates \ {q}
        /\ y.writes = [w[i].writes EXCEPT ![m] = row]
        /\ y.posting = w[i].posting /\ y.material = w[i].material
        /\ y.surfaced = w[i].surfaced /\ y.undecided = w[i].undecided
        /\ y.fetched = w[i].fetched /\ y.left = w[i].left /\ y.seen = w[i].seen
    BY <1>1, <1>2, <2>7 DEF JobType, At
  <2> HIDE DEF y
  <2>9. Working(y) /\ Errand(i, y)
    BY <1>1, <1>2, <1>6, <2>8 DEF Working, Errand, Busy, Matching, Noting, At
  <2> HIDE DEF m
  <2>10. Wrote /\ WorkersOK'
    BY <1>2, <1>4, <1>7, <2>1, <2>3, <2>5, <2>8, <2>9, WroteMove
  <2> QED  BY <1>4, <2>10, TypeInvParts
<1> QED  BY <1>8, <1>9

LEMMA InsertStep ==
    ASSUME TypeInv, LockInv, NEW i \in Workers, Insert(i)
    PROVE  TypeInv' /\ (Quiet \/ Wrote)
<1> DEFINE m == PairOf(w[i].posting, w[i].other)
           row == [rev |-> 1, status |-> "surfaced"]
<1>1. At(i, "insert") /\ ~At(i, "idle") /\ Free(i, m)  BY DEF Insert, At
<1>2. w[i] \in JobType /\ w[i] # Idle /\ Working(w[i]) /\ Errand(i, w[i])
  BY <1>1, WorkerTyped
<1>3. UNCHANGED <<offered, postings, deals, messages, counts>>  BY DEF Insert
<1>4. RowsOK' /\ UNCHANGED <<deals, messages, edits>>  BY <1>3, RowsKept, TypeInvParts
<1>5. /\ w[i].posting \in Postings /\ w[i].candidates \subseteq Opposite(w[i].posting)
      /\ w[i].other \in Opposite(w[i].posting)
  BY <1>1, <1>2 DEF Working, At, Busy, Matching
<1>6. m \in Pairs /\ Owns(m, w[i].posting)  BY <1>5, PairTyped
<1>7. CASE match[m].rev = 0
  <2> DEFINE y == [w[i] EXCEPT !.pc = "upsert", !.other = None,
                               !.writes = [@ EXCEPT ![m] = row]]
  <2>1. w' = [w EXCEPT ![i].pc = "upsert", ![i].other = None, ![i].writes[m] = row]
    BY <1>7 DEF Insert
  <2>2. Rewritten(row, match[m], w[i].material)  BY <1>7 DEF Rewritten
  <2>3. row \in MatchType  BY DEF MatchType
  <2> HIDE DEF row
  <2>5. w' = [w EXCEPT ![i] = y]  BY <1>2, <2>1 DEF JobType
  <2>6. w[i].writes \in [Pairs -> MatchType]  BY <1>2 DEF JobType
  <2>7. [w[i].writes EXCEPT ![m] = row] \in [Pairs -> MatchType]  BY <2>3, <2>6
  <2>8. /\ y \in JobType /\ y.pc = "upsert"
        /\ y.candidates = w[i].candidates
        /\ y.writes = [w[i].writes EXCEPT ![m] = row]
        /\ y.posting = w[i].posting /\ y.material = w[i].material
        /\ y.surfaced = w[i].surfaced /\ y.undecided = w[i].undecided
        /\ y.fetched = w[i].fetched /\ y.left = w[i].left /\ y.seen = w[i].seen
    BY <1>1, <1>2, <2>7 DEF JobType, At
  <2> HIDE DEF y
  <2>9. Working(y) /\ Errand(i, y)
    BY <1>1, <1>2, <1>5, <2>8 DEF Working, Errand, Busy, Matching, Noting, At
  <2> HIDE DEF m
  <2>10. Wrote /\ WorkersOK'
    BY <1>1, <1>2, <1>4, <1>6, <2>2, <2>5, <2>8, <2>9, WroteMove
  <2> QED  BY <1>4, <2>10, TypeInvParts
<1>8. CASE match[m].rev # 0
  <2>1. ThrowAt(i)  BY <1>8 DEF Insert
  <2> QED  BY <1>1, <1>4, <2>1, ThrowQuiet, TypeInvParts DEF WorkersOK
<1> QED  BY <1>7, <1>8

(* The worker moves and keeps what the locks and the revisions are about.  *)
KeptRun(i, y) == Moves(i, y) /\ (y = Idle \/ (KeptWrites(w[i], y) /\ KeptMaterial(w[i], y)))

LEMMA BagAdd ==
    ASSUME NEW B, NEW k, IsABag(B)
    PROVE  /\ IsABag(B (+) SetToBag({k}))
           /\ DOMAIN (B (+) SetToBag({k})) = DOMAIN B \cup {k}
           /\ k \notin DOMAIN B => (B (+) SetToBag({k}))[k] = 1
           /\ \A j \in DOMAIN B : j # k => (B (+) SetToBag({k}))[j] = B[j]
BY DEF IsABag, SetToBag, (+), BagIn, BagToSet

LEMMA SendStep ==
    ASSUME TypeInv, NEW i \in Workers, Send(i)
    PROVE  /\ TypeInv' /\ UNCHANGED <<deals, notice, edits>>
           /\ \E y : /\ KeptRun(i, y) /\ KeptNotices(w[i], y) /\ y # Idle
                     /\ y.pc = "sent" /\ y.note = w[i].note
<1>1. At(i, "send") /\ ~At(i, "idle")  BY DEF Send, At
<1>2. w[i] \in JobType /\ w[i] # Idle /\ Working(w[i]) /\ Errand(i, w[i])
  BY <1>1, WorkerTyped
<1>3. /\ UNCHANGED <<offered, postings, deals, notice, counts>>
      /\ sent' = sent (+) SetToBag({w[i].note})
  BY DEF Send
<1> DEFINE y == [w[i] EXCEPT !.pc = "sent"]
<1>4. w' = [w EXCEPT ![i] = y]  BY <1>2 DEF Send, Goto, JobType
<1>5. /\ y \in JobType /\ y.pc = "sent" /\ y.note = w[i].note
      /\ y.writes = w[i].writes /\ y.posting = w[i].posting /\ y.material = w[i].material
      /\ y.surfaced = w[i].surfaced /\ y.undecided = w[i].undecided
      /\ y.fetched = w[i].fetched /\ y.left = w[i].left /\ y.seen = w[i].seen
  BY <1>2 DEF JobType
<1> HIDE DEF y
<1>6. Working(y) /\ Errand(i, y) /\ y # Idle
  BY <1>1, <1>2, <1>5, JobNotIdle DEF Working, Errand, Busy, Matching, Noting, At
<1>7. Moves(i, y) /\ KeptRun(i, y) /\ KeptNotices(w[i], y)
  BY <1>2, <1>4, <1>5, <1>6, SameKept DEF Moves, Sound, KeptRun
<1>8. WorkersOK'  BY <1>7, MovesSound DEF WorkersOK
<1>9. w[i].note \in Keys  BY <1>1, <1>2 DEF Working, At, Noting
<1>10. RowsOK  BY TypeInvParts
<1>11. IsABag(sent') /\ DOMAIN sent' \subseteq Keys
  <2>1. IsABag(sent) /\ DOMAIN sent \subseteq Keys  BY <1>10 DEF RowsOK
  <2> DEFINE B == sent (+) SetToBag({w[i].note})
  <2>2. IsABag(B) /\ DOMAIN B = DOMAIN sent \cup {w[i].note}  BY <2>1, BagAdd
  <2>3. sent' = B  BY <1>3
  <2> HIDE DEF B
  <2>4. IsABag(sent')  BY <2>2, <2>3 DEF IsABag
  <2> QED  BY <1>9, <2>1, <2>2, <2>3, <2>4
<1>12. RowsOK'  BY <1>3, <1>10, <1>11 DEF RowsOK, postings, deals, counts
<1> QED  BY <1>3, <1>5, <1>6, <1>7, <1>8, <1>12, TypeInvParts DEF postings

LEMMA SendFailsStep ==
    ASSUME TypeInv, NEW i \in Workers, SendFails(i)
    PROVE  /\ TypeInv' /\ UNCHANGED <<deals, messages, edits>>
           /\ \E y : /\ KeptRun(i, y) /\ KeptNotices(w[i], y) /\ y # Idle
                     /\ y.pc = "failed" /\ y.note = w[i].note
<1>1. At(i, "send") /\ ~At(i, "idle")  BY DEF SendFails, At
<1>2. w[i] \in JobType /\ w[i] # Idle /\ Working(w[i]) /\ Errand(i, w[i])
  BY <1>1, WorkerTyped
<1>3. /\ UNCHANGED <<offered, postings, deals, messages, changes, requests>>
      /\ faults < MaxFaults /\ faults' = faults + 1
  BY DEF SendFails
<1> DEFINE y == [w[i] EXCEPT !.pc = "failed"]
<1>4. w' = [w EXCEPT ![i] = y]  BY <1>2 DEF SendFails, Goto, JobType
<1>5. /\ y \in JobType /\ y.pc = "failed" /\ y.note = w[i].note
      /\ y.writes = w[i].writes /\ y.posting = w[i].posting /\ y.material = w[i].material
      /\ y.surfaced = w[i].surfaced /\ y.undecided = w[i].undecided
      /\ y.fetched = w[i].fetched /\ y.left = w[i].left /\ y.seen = w[i].seen
  BY <1>2 DEF JobType
<1> HIDE DEF y
<1>6. Working(y) /\ Errand(i, y) /\ y # Idle
  BY <1>1, <1>2, <1>5, JobNotIdle DEF Working, Errand, Busy, Matching, Noting, At
<1>7. Moves(i, y) /\ KeptRun(i, y) /\ KeptNotices(w[i], y)
  BY <1>2, <1>4, <1>5, <1>6, SameKept DEF Moves, Sound, KeptRun
<1>8. WorkersOK'  BY <1>7, MovesSound DEF WorkersOK
<1>9. RowsOK  BY TypeInvParts
<1>10. faults' \in 0..MaxFaults  BY <1>3, <1>9, ConstantsAssumption DEF RowsOK
<1>11. RowsOK'  BY <1>3, <1>9, <1>10 DEF RowsOK, postings, deals, messages
<1> QED  BY <1>3, <1>5, <1>6, <1>7, <1>8, <1>11, TypeInvParts DEF postings

(* What Continue leaves of the record it is given.                         *)
LEMMA ContinueKept ==
    ASSUME NEW x, NEW y, NEW z \in JobType,
           Blank(y) \/ (/\ y \in JobType /\ y.pc \in {"reserve", "notify"}
                        /\ y.writes = NoWrites /\ y.surfaced = z.surfaced
                        /\ y.undecided = z.undecided /\ y.material = z.material
                        /\ y.posting = z.posting),
           x \in JobType, z.posting = x.posting, z.material => x.material
    PROVE  /\ y = Idle \/ (KeptWrites(x, y) /\ KeptMaterial(x, y) /\ y.pc \notin Noting)
           /\ y = Idle \/ y.surfaced \subseteq z.surfaced
           /\ y = Idle \/ y.undecided \subseteq z.undecided
<1>1. x # Idle  BY JobNotIdle
<1>2. CASE Blank(y)  BY <1>2 DEF Blank, KeptWrites, KeptMaterial, Noting
<1>3. CASE y \in JobType /\ y.pc \in {"reserve", "notify"}
           /\ y.writes = NoWrites /\ y.surfaced = z.surfaced
           /\ y.undecided = z.undecided /\ y.material = z.material
           /\ y.posting = z.posting
  BY <1>1, <1>3 DEF KeptWrites, KeptMaterial, Noting
<1> QED  BY <1>2, <1>3

LEMMA MarkStep ==
    ASSUME TypeInv, NEW i \in Workers, Mark(i), w[i].note \in DOMAIN notice
    PROVE  /\ TypeInv' /\ UNCHANGED <<deals, sent, edits>>
           /\ DOMAIN notice' = DOMAIN notice
           /\ \E y : KeptRun(i, y) /\ (y = Idle \/ (y.pc \notin Noting /\ KeptNotices(w[i], y)))
<1>1. ~At(i, "idle") /\ ~At(i, "next") /\ w[i].pc \in {"sent", "failed"}  BY DEF Mark, At
<1>2. w[i] \in JobType /\ w[i] # Idle /\ Working(w[i]) /\ Errand(i, w[i])
  BY <1>1, WorkerTyped
<1>3. /\ UNCHANGED <<offered, postings, deals, sent, counts>>
      /\ notice' = [notice EXCEPT ![w[i].note] = w[i].pc]
  BY DEF Mark
<1> DEFINE x == [w[i] EXCEPT !.note = None]
<1>4. Continue(i, x)  BY DEF Mark
<1>5. /\ x \in JobType /\ x.writes = w[i].writes /\ x.posting = w[i].posting
      /\ x.material = w[i].material /\ x.surfaced = w[i].surfaced
      /\ x.undecided = w[i].undecided /\ x.fetched = w[i].fetched
      /\ x.left = w[i].left /\ x.seen = w[i].seen
  BY <1>2 DEF JobType
<1> HIDE DEF x
<1>6. x.writes = NoWrites  BY <1>1, <1>2, <1>5 DEF Working, Matching
<1>7. PICK y : /\ Moves(i, y)
               /\ \/ Blank(y)
                  \/ /\ y \in JobType /\ y.pc \in {"reserve", "notify"}
                     /\ y.writes = NoWrites /\ y.surfaced = x.surfaced
                     /\ y.undecided = x.undecided /\ y.material = x.material
                     /\ y.posting = x.posting
  BY <1>1, <1>2, <1>4, <1>5, <1>6, ContinueMoves DEF At
<1>8. KeptRun(i, y) /\ (y = Idle \/ (y.pc \notin Noting /\ KeptNotices(w[i], y)))
  BY <1>2, <1>5, <1>7, ContinueKept DEF KeptRun, KeptNotices
<1>9. WorkersOK'  BY <1>7, MovesSound DEF WorkersOK
<1>10. RowsOK  BY TypeInvParts
<1>11. DOMAIN notice' = DOMAIN notice
       /\ \A k \in DOMAIN notice' : notice'[k] \in {notice[k], w[i].pc}
  BY <1>3
<1>12. \A k \in DOMAIN notice' : k \in Keys /\ notice'[k] \in {"pending", "sent", "failed"}
  BY <1>1, <1>10, <1>11 DEF RowsOK
<1>13. RowsOK'  BY <1>3, <1>10, <1>12 DEF RowsOK, postings, deals, counts
<1> QED  BY <1>3, <1>8, <1>9, <1>11, <1>13, TypeInvParts DEF postings

LEMMA InsertedRows ==
    ASSUME NEW rows, NEW keys
    PROVE  /\ DOMAIN Inserted(rows, keys) = DOMAIN rows \cup keys
           /\ \A k \in DOMAIN rows : Inserted(rows, keys)[k] = rows[k]
           /\ \A k \in keys \ DOMAIN rows : Inserted(rows, keys)[k] = "pending"
BY DEF Inserted

LEMMA ReadRecipientsStep ==
    ASSUME TypeInv, NEW i \in Workers, ReadRecipients(i)
    PROVE  /\ TypeInv' /\ UNCHANGED <<deals, messages, edits>> /\ w[i] # Idle
           /\ \E y, mr : /\ KeptRun(i, y) /\ mr \in w[i].surfaced
                         /\ \/ y = Idle
                            \/ /\ y.pc \notin Noting /\ y.surfaced \subseteq w[i].surfaced
                               /\ y.undecided \subseteq Undecided(mr[1], mr[2])
<1>1. At(i, "notify") /\ ~At(i, "idle") /\ ~At(i, "next")  BY DEF ReadRecipients, At
<1>2. w[i] \in JobType /\ w[i] # Idle /\ Working(w[i]) /\ Errand(i, w[i])
  BY <1>1, WorkerTyped
<1>3. RowsOK' /\ UNCHANGED <<deals, messages, edits>>
  BY RowsKept, TypeInvParts DEF ReadRecipients
<1>4. PICK mr \in w[i].surfaced :
          Continue(i, [w[i] EXCEPT !.surfaced = @ \ {mr},
                                   !.undecided = Undecided(mr[1], mr[2])])
  BY DEF ReadRecipients
<1> DEFINE keys == Undecided(mr[1], mr[2])
<1>5. keys \in SUBSET Keys
  BY DEF TypeInv, TypeOK, Undecided
<1> HIDE DEF keys
<1> DEFINE x == [w[i] EXCEPT !.surfaced = @ \ {mr}, !.undecided = keys]
<1>6. Continue(i, x)  BY <1>4 DEF keys
<1>7. /\ x \in JobType /\ x.writes = w[i].writes /\ x.posting = w[i].posting
      /\ x.material = w[i].material /\ x.surfaced = w[i].surfaced \ {mr}
      /\ x.undecided = keys /\ x.fetched = w[i].fetched
      /\ x.left = w[i].left /\ x.seen = w[i].seen
  BY <1>2, <1>5 DEF JobType
<1> HIDE DEF x
<1>8. x.writes = NoWrites  BY <1>1, <1>2, <1>7 DEF Working, Matching, At
<1>9. PICK y : /\ Moves(i, y)
               /\ \/ Blank(y)
                  \/ /\ y \in JobType /\ y.pc \in {"reserve", "notify"}
                     /\ y.writes = NoWrites /\ y.surfaced = x.surfaced
                     /\ y.undecided = x.undecided /\ y.material = x.material
                     /\ y.posting = x.posting
  BY <1>1, <1>2, <1>6, <1>7, <1>8, ContinueMoves DEF At
<1>10. KeptRun(i, y) /\ \/ y = Idle
                        \/ /\ y.pc \notin Noting /\ y.surfaced \subseteq w[i].surfaced
                           /\ y.undecided \subseteq Undecided(mr[1], mr[2])
  BY <1>2, <1>7, <1>9, ContinueKept DEF KeptRun, keys
<1>11. WorkersOK'  BY <1>9, MovesSound DEF WorkersOK
<1> QED  BY <1>2, <1>3, <1>4, <1>10, <1>11, TypeInvParts

(* A notice that is reserved already is passed over; another is the        *)
(* worker's to send.                                                       *)
Reserves == \E i \in Workers, k \in Keys : \E y :
    /\ KeptRun(i, y) /\ KeptNotices(w[i], y) /\ y # Idle /\ y.pc = "send" /\ y.note = k
    /\ w[i] # Idle /\ k \in w[i].undecided /\ k \notin DOMAIN notice
    /\ notice' = Inserted(notice, {k})
    /\ UNCHANGED <<deals, sent, edits>>

LEMMA ReserveStep ==
    ASSUME TypeInv, NEW i \in Workers, Reserve(i)
    PROVE  TypeInv' /\ (Quiet \/ Reserves)
<1>1. At(i, "reserve") /\ ~At(i, "idle") /\ ~At(i, "next")  BY DEF Reserve, At
<1>2. w[i] \in JobType /\ w[i] # Idle /\ Working(w[i]) /\ Errand(i, w[i])
  BY <1>1, WorkerTyped
<1>3. UNCHANGED <<offered, postings, deals, sent, counts>>  BY DEF Reserve
<1>4. PICK k \in w[i].undecided :
        IF Reserved(k)
        THEN Continue(i, [w[i] EXCEPT !.undecided = @ \ {k}]) /\ UNCHANGED notice
        ELSE /\ Free(i, k[1])
             /\ notice' = Inserted(notice, {k})
             /\ w' = [w EXCEPT ![i].undecided = @ \ {k}, ![i].pc = "send", ![i].note = k]
  BY DEF Reserve
<1>5. k \in Keys /\ w[i].writes = NoWrites
  BY <1>1, <1>2 DEF JobType, Working, At, Matching
<1>6. RowsOK  BY TypeInvParts
<1>7. CASE Reserved(k)
  <2> DEFINE x == [w[i] EXCEPT !.undecided = @ \ {k}]
  <2>1. Continue(i, x) /\ UNCHANGED notice  BY <1>4, <1>7
  <2>2. /\ x \in JobType /\ x.writes = w[i].writes /\ x.posting = w[i].posting
        /\ x.material = w[i].material /\ x.surfaced = w[i].surfaced
        /\ x.undecided = w[i].undecided \ {k} /\ x.fetched = w[i].fetched
        /\ x.left = w[i].left /\ x.seen = w[i].seen
    BY <1>2 DEF JobType
  <2> HIDE DEF x
  <2>3. PICK y : /\ Moves(i, y)
                 /\ \/ Blank(y)
                    \/ /\ y \in JobType /\ y.pc \in {"reserve", "notify"}
                       /\ y.writes = NoWrites /\ y.surfaced = x.surfaced
                       /\ y.undecided = x.undecided /\ y.material = x.material
                       /\ y.posting = x.posting
    BY <1>1, <1>2, <1>5, <2>1, <2>2, ContinueMoves DEF At
  <2>4. Kept(w[i], y) /\ (y = Idle \/ y.pc \notin Noting)
    BY <1>2, <2>2, <2>3, ContinueKept DEF Kept, KeptNotices
  <2>5. RowsOK' /\ UNCHANGED <<deals, messages, edits>>
    BY <1>3, <1>6, <2>1, RowsKept DEF messages
  <2>6. Quiet  BY <2>3, <2>4, <2>5 DEF Quiet
  <2>7. WorkersOK'  BY <2>3, MovesSound DEF WorkersOK
  <2> QED  BY <2>5, <2>6, <2>7, TypeInvParts
<1>8. CASE ~Reserved(k)
  <2> DEFINE y == [w[i] EXCEPT !.undecided = @ \ {k}, !.pc = "send", !.note = k]
  <2>1. /\ notice' = Inserted(notice, {k})
        /\ w' = [w EXCEPT ![i].undecided = @ \ {k}, ![i].pc = "send", ![i].note = k]
    BY <1>4, <1>8
  <2>2. w' = [w EXCEPT ![i] = y]  BY <1>2, <2>1 DEF JobType
  <2>3. /\ y \in JobType /\ y.pc = "send" /\ y.note = k
        /\ y.writes = w[i].writes /\ y.posting = w[i].posting /\ y.material = w[i].material
        /\ y.surfaced = w[i].surfaced /\ y.undecided = w[i].undecided \ {k}
        /\ y.fetched = w[i].fetched /\ y.left = w[i].left /\ y.seen = w[i].seen
    BY <1>2, <1>5 DEF JobType
  <2> HIDE DEF y
  <2>4. Working(y) /\ Errand(i, y) /\ y # Idle
    BY <1>1, <1>2, <1>5, <2>3, JobNotIdle DEF Working, Errand, Busy, Matching, Noting, At
  <2>5. Moves(i, y)  BY <2>2, <2>3, <2>4 DEF Moves, Sound
  <2>6. KeptRun(i, y) /\ KeptNotices(w[i], y)
    BY <1>2, <2>3, <2>5 DEF KeptRun, KeptWrites, KeptMaterial, KeptNotices
  <2>7. k \notin DOMAIN notice  BY <1>8 DEF Reserved
  <2>8. UNCHANGED <<deals, sent, edits>>  BY <1>3 DEF postings
  <2>9. Reserves  BY <1>2, <1>5, <2>1, <2>3, <2>4, <2>6, <2>7, <2>8 DEF Reserves
  <2>10. WorkersOK'  BY <2>5, MovesSound DEF WorkersOK
  <2>11. \A j \in DOMAIN notice' : j \in Keys /\ notice'[j] \in {"pending", "sent", "failed"}
    <3>1. /\ DOMAIN notice' = DOMAIN notice \cup {k}
          /\ \A j \in DOMAIN notice : notice'[j] = notice[j]
          /\ \A j \in {k} \ DOMAIN notice : notice'[j] = "pending"
      BY ZenonT(40), <2>1, InsertedRows
    <3> QED  BY <1>5, <1>6, <3>1 DEF RowsOK
  <2>12. RowsOK'  BY <1>3, <1>6, <2>11 DEF RowsOK, postings, deals, counts
  <2> QED  BY <2>9, <2>10, <2>12, TypeInvParts
<1> QED  BY <1>7, <1>8

LEMMA CommitStep ==
    ASSUME TypeInv, LockInv, NEW i \in Workers, Commit(i)
    PROVE  /\ TypeInv' /\ UNCHANGED <<approvals, messages, edits>> /\ w[i] # Idle
           /\ Owned(i) = Written(w[i].writes)
           /\ \A m \in Written(w[i].writes) :
                 w[i].writes[m] \in MatchType /\ w[i].writes[m].rev > 0
                 /\ Revision(w[i].writes[m])
           /\ \E y : /\ KeptRun(i, y)
                     /\ \/ y = Idle
                        \/ /\ y.pc \notin Noting /\ y.material = FALSE
                           /\ y.writes = NoWrites
                           /\ y.undecided \subseteq w[i].undecided
                           /\ y.surfaced \subseteq
                                {<<m, w[i].writes[m].rev>> : m \in Written(w[i].writes)}
<1> DEFINE writes == w[i].writes
           revisions == {<<m, writes[m].rev>> : m \in Written(writes)}
           x == [w[i] EXCEPT !.writes = NoWrites, !.material = FALSE, !.surfaced = revisions]
<1>1. At(i, "upsert") /\ ~At(i, "idle") /\ ~At(i, "next")  BY DEF Commit, At
<1>2. w[i] \in JobType /\ w[i] # Idle /\ Working(w[i]) /\ Errand(i, w[i])
  BY <1>1, WorkerTyped
<1>3. /\ match' = [m \in Pairs |-> IF m \in Written(writes) THEN writes[m] ELSE match[m]]
      /\ recipient' = Inserted(recipient, Recipients(writes))
      /\ Continue(i, x)
      /\ UNCHANGED <<offered, postings, approvals, messages, counts>>
  BY DEF Commit
<1>4. RowsOK  BY TypeInvParts
<1>5. Owned(i) = Written(writes)  BY <1>1 DEF Owned
<1>6. \A m \in Written(writes) :
         m \in Pairs /\ writes[m] \in MatchType /\ writes[m].rev > 0 /\ Revision(writes[m])
  <2> SUFFICES ASSUME NEW m \in Written(writes)
               PROVE  /\ m \in Pairs /\ writes[m] \in MatchType /\ writes[m].rev > 0
                      /\ Revision(writes[m])
    OBVIOUS
  <2>1. m \in Pairs  BY DEF Written
  <2>2. Rewritten(writes[m], match[m], w[i].material)
    BY <1>5 DEF LockInv, WritesCurrent
  <2>3. match[m] \in MatchType /\ Revision(match[m]) /\ w[i].material \in BOOLEAN
    BY <1>2, <1>4, <2>1 DEF RowsOK, LockInv, JobType
  <2> QED  BY <2>1, <2>2, <2>3, RewrittenTyped
<1>7. revisions \in SUBSET (Pairs \X (Nat \ {0}))
  BY <1>6 DEF MatchType
<1>8. Recipients(writes) \subseteq Keys
  BY <1>6 DEF MatchType, Recipients, Keys
<1>9. NoWrites \in [Pairs -> MatchType]  BY DEF NoWrites, NoMatch, MatchType
<1>10. /\ x \in JobType /\ x.writes = NoWrites /\ x.posting = w[i].posting
       /\ x.material = FALSE /\ x.surfaced = revisions
       /\ x.undecided = w[i].undecided /\ x.fetched = w[i].fetched
       /\ x.left = w[i].left /\ x.seen = w[i].seen
  <2> HIDE DEF revisions
  <2> QED  BY <1>2, <1>7, <1>9 DEF JobType
<1> HIDE DEF x
<1>11. PICK y : /\ Moves(i, y)
                /\ \/ Blank(y)
                   \/ /\ y \in JobType /\ y.pc \in {"reserve", "notify"}
                      /\ y.writes = NoWrites /\ y.surfaced = x.surfaced
                      /\ y.undecided = x.undecided /\ y.material = x.material
                      /\ y.posting = x.posting
  BY <1>1, <1>2, <1>3, <1>10, ContinueMoves DEF At
<1>12. KeptRun(i, y)
  BY <1>2, <1>10, <1>11, ContinueKept DEF KeptRun
<1>13. \/ y = Idle
       \/ /\ y.pc \notin Noting /\ y.material = FALSE /\ y.writes = NoWrites
          /\ y.undecided \subseteq w[i].undecided /\ y.surfaced \subseteq revisions
  <2> HIDE DEF revisions
  <2> QED  BY <1>10, <1>11 DEF Blank, Noting
<1>14. WorkersOK'  BY <1>11, MovesSound DEF WorkersOK
<1>15. match' \in [Pairs -> MatchType]  BY <1>3, <1>4, <1>6 DEF RowsOK
<1>16. \A k \in DOMAIN recipient' :
          k \in Keys /\ recipient'[k] \in {"pending", "approved", "passed"}
  <2>1. /\ DOMAIN recipient' = DOMAIN recipient \cup Recipients(writes)
        /\ \A k \in DOMAIN recipient : recipient'[k] = recipient[k]
        /\ \A k \in Recipients(writes) \ DOMAIN recipient : recipient'[k] = "pending"
    <3> HIDE DEF writes
    <3> QED  BY <1>3, InsertedRows
  <2>2. \A k \in DOMAIN recipient : k \in Keys
           /\ recipient[k] \in {"pending", "approved", "passed"}
    BY <1>4 DEF RowsOK
  <2> HIDE DEF writes
  <2> QED  BY <1>8, <2>1, <2>2
<1>17. RowsOK'
  BY <1>3, <1>4, <1>15, <1>16 DEF RowsOK, postings, messages, counts
<1>18. UNCHANGED edits  BY <1>3 DEF postings
<1> QED  BY <1>2, <1>3, <1>5, <1>6, <1>12, <1>13, <1>14, <1>17, <1>18, TypeInvParts

(* A party decides.                                                        *)
LEMMA DecideTyped ==
    ASSUME TypeInv, NEW m \in Pairs, NEW s \in Sides,
           NEW decision \in {"approved", "passed"}, Decide(m, s, decision),
           approvals' \in [Pairs -> SUBSET Sides]
    PROVE  TypeInv' /\ UNCHANGED <<messages, edits, w>>
<1> DEFINE key == <<m, s, match[m].rev>>
           decisions == IF recipient[key] = "approved" THEN recipient
                        ELSE [recipient EXCEPT ![key] = decision]
<1>1. /\ requests < MaxRequests /\ requests' = requests + 1
      /\ recipient' = decisions
      /\ match' = [match EXCEPT ![m].status = StatusAfter(m, decisions)]
      /\ UNCHANGED <<offered, postings, messages, w, changes, faults>>
  BY DEF Decide
<1>2. RowsOK /\ WorkersOK  BY TypeInvParts
<1>3. requests' \in 0..MaxRequests  BY <1>1, <1>2, ConstantsAssumption DEF RowsOK
<1>4. \A k \in DOMAIN recipient' :
         k \in DOMAIN recipient /\ recipient'[k] \in {recipient[k], decision}
  BY <1>1
<1>5. \A k \in DOMAIN recipient' :
         k \in Keys /\ recipient'[k] \in {"pending", "approved", "passed"}
  BY <1>2, <1>4 DEF RowsOK
<1>6. match[m] \in MatchType  BY <1>2 DEF RowsOK
<1>7. StatusAfter(m, decisions) \in {"approved", "passed_all", match[m].status}
  BY DEF StatusAfter
<1> HIDE DEF decisions
<1>8. [match[m] EXCEPT !.status = StatusAfter(m, decisions)] \in MatchType
  BY <1>6, <1>7 DEF MatchType
<1>9. match' = [match EXCEPT ![m] = [match[m] EXCEPT !.status = StatusAfter(m, decisions)]]
  BY <1>1
<1>10. match' \in [Pairs -> MatchType]  BY <1>2, <1>8, <1>9 DEF RowsOK
<1>11. RowsOK'  BY <1>1, <1>2, <1>3, <1>5, <1>10 DEF RowsOK, postings, messages
<1>12. WorkersOK'  BY <1>1, <1>2 DEF WorkersOK
<1> QED  BY <1>1, <1>11, <1>12, TypeInvParts DEF postings

LEMMA ApproveTyped ==
    ASSUME TypeInv, NEW m \in Pairs, NEW s \in Sides, Approve(m, s)
    PROVE  TypeInv' /\ UNCHANGED <<messages, edits, w>>
<1>1. Decide(m, s, "approved") /\ approvals' = [approvals EXCEPT ![m] = @ \cup {s}]
  BY DEF Approve
<1>2. approvals' \in [Pairs -> SUBSET Sides]  BY <1>1 DEF TypeInv, TypeOK
<1> QED  BY <1>1, <1>2, DecideTyped

LEMMA PassTyped ==
    ASSUME TypeInv, NEW m \in Pairs, NEW s \in Sides, Pass(m, s)
    PROVE  TypeInv' /\ UNCHANGED <<messages, edits, w>>
<1>1. Decide(m, s, "passed") /\ UNCHANGED approvals  BY DEF Pass
<1>2. approvals' \in [Pairs -> SUBSET Sides]  BY <1>1 DEF TypeInv, TypeOK
<1> QED  BY <1>1, <1>2, DecideTyped

(* The one distinction every later step makes.                             *)
Decided == \E m \in Pairs, s \in Sides : Approve(m, s) \/ Pass(m, s)

Committed == \E i \in Workers : Commit(i)

Noted == \E i \in Workers :
    \/ Send(i) \/ SendFails(i) \/ ReadRecipients(i) \/ (Mark(i) /\ NoteReserved)

Still == UNCHANGED <<deals, messages, edits, w>>
Restarted == UNCHANGED <<deals, messages, edits>> /\ w' = [i \in Workers |-> Idle]

LEMMA Kinds ==
    ASSUME TypeInv, LockInv, NoteReserved, [Next]_vars
    PROVE  /\ TypeInv'
           /\ \/ Quiet \/ Edited \/ Wrote \/ Reserves \/ Noted \/ Committed \/ Decided
              \/ Still \/ Restarted
<1>1. ASSUME NEW i \in Workers, RunStep(i)
      PROVE  TypeInv' /\ (Quiet \/ Edited \/ Wrote \/ Reserves \/ Noted \/ Committed)
  <2>1. ASSUME Mark(i)  PROVE TypeInv' /\ Noted
    <3>1. w[i].note \in DOMAIN notice
      BY <2>1 DEF NoteReserved, Mark, At
    <3> QED  BY <2>1, <3>1, MarkStep DEF Noted
  <2> QED
    BY <1>1, <2>1, CreateStep, LoadStep, LoadCandidatesStep, LookStep, InsertStep, VictimStep,
       CommitStep, ReadRecipientsStep, ReserveStep, SendStep DEF RunStep, Noted, Committed
<1>2. ASSUME NEW i \in Workers, SendFails(i)  PROVE TypeInv' /\ Noted
  BY <1>2, SendFailsStep DEF Noted
<1>3. ASSUME NEW i \in Workers, Throw(i)  PROVE TypeInv' /\ Quiet
  BY <1>3, ThrowStep
<1>4. ASSUME NEW s \in Syncs, SyncStep(s)  PROVE TypeInv' /\ (Quiet \/ Edited)
  BY <1>4, FetchStep, NextListingStep, MarkMissingStep DEF SyncStep
<1>5. ASSUME NEW r \in Reconcilers, ReconcileStep(r)  PROVE TypeInv' /\ Quiet
  BY <1>5, ReconcileStepTyped, NextPostingStep DEF ReconcileStep
<1>6. ASSUME NEW l \in Listings, NEW t \in Asks \cup {None}, ChangeSource(l, t)
      PROVE  TypeInv' /\ Still
  BY <1>6, ChangeSourceStep DEF Still
<1>7. ASSUME NEW c \in Chats, NEW p \in Messages, NEW t \in Bids, Receive(c, p, t)
      PROVE  TypeInv' /\ (Quiet \/ Edited)
  BY <1>7, ReceiveStep
<1>8. ASSUME NEW m \in Pairs, NEW s \in Sides, Approve(m, s) \/ Pass(m, s)
      PROVE  TypeInv' /\ Decided
  BY <1>8, ApproveTyped, PassTyped DEF Decided
<1>9. ASSUME Restart  PROVE TypeInv' /\ Restarted
  BY <1>9, RestartStep DEF Restarted
<1>10. ASSUME UNCHANGED vars  PROVE TypeInv' /\ Still
  <2>1. UNCHANGED <<offered, postings, deals, messages, counts>> /\ UNCHANGED w
    BY <1>10 DEF vars
  <2>2. WorkersOK'  BY <2>1, TypeInvParts DEF WorkersOK
  <2> QED  BY <2>1, <2>2, RowsKept, TypeInvParts DEF Still
<1> QED
  BY <1>1, <1>2, <1>3, <1>4, <1>5, <1>6, <1>7, <1>8, <1>9, <1>10 DEF Next

-----------------------------------------------------------------------------
(* Locks.                                                                  *)

LEMMA OwnedNext ==
    ASSUME TypeInv, NEW i \in Workers, NEW y, Moves(i, y)
    PROVE  /\ \A j \in Workers \ {i} : Owned(j)' = Owned(j) /\ w'[j] = w[j]
           /\ w'[i] = y
           /\ Owned(i)' = IF y = Idle THEN {} ELSE Written(y.writes)
<1>1. w'[i] = y /\ \A j \in Workers \ {i} : w'[j] = w[j]  BY MovesSound
<1>2. y = Idle \/ y.pc # "idle"  BY JobNotIdle DEF Moves, Sound
<1>3. Owned(i)' = IF y = Idle THEN {} ELSE Written(y.writes)
  BY <1>1, <1>2 DEF Owned, At, Idle
<1>4. \A j \in Workers \ {i} : Owned(j)' = Owned(j)  BY <1>1 DEF Owned, At
<1> QED  BY <1>1, <1>3, <1>4

LEMMA LockMove ==
    ASSUME TypeInv, LockInv, NEW i \in Workers, NEW y, Moves(i, y),
           y # Idle => \A m \in Written(y.writes) :
               /\ Free(i, m) /\ Owns(m, y.posting)
               /\ Rewritten(y.writes[m], match'[m], y.material),
           \A j \in Workers \ {i} : \A m \in Owned(j) : match'[m] = match[m],
           \A m \in Pairs : Revision(match'[m])
    PROVE  LockInv'
<1>1. /\ \A j \in Workers \ {i} : Owned(j)' = Owned(j) /\ w'[j] = w[j]
      /\ w'[i] = y
      /\ Owned(i)' = IF y = Idle THEN {} ELSE Written(y.writes)
  BY OwnedNext
<1>2. LocksExclusive'
  <2> SUFFICES ASSUME NEW j \in Workers, NEW k \in Workers, j # k, NEW m,
                      m \in Owned(j)', m \in Owned(k)'
               PROVE  FALSE
    BY DEF LocksExclusive
  <2>1. CASE j # i /\ k # i  BY <1>1, <2>1 DEF LockInv, LocksExclusive
  <2>2. CASE j = i  BY <1>1, <2>2 DEF Free
  <2>3. CASE k = i  BY <1>1, <2>3 DEF Free
  <2> QED  BY <2>1, <2>2, <2>3
<1>3. WritesCurrent'
  <2> SUFFICES ASSUME NEW j \in Workers, NEW m, m \in Owned(j)'
               PROVE  /\ Rewritten(w'[j].writes[m], match'[m], w'[j].material)
                      /\ Owns(m, w'[j].posting)
    BY DEF WritesCurrent
  <2>1. CASE j = i  BY <1>1, <2>1
  <2>2. CASE j # i  BY <1>1, <2>2 DEF LockInv, WritesCurrent
  <2> QED  BY <2>1, <2>2
<1>4. (\A m \in Pairs : Revision(match[m]))'  OBVIOUS
<1> QED  BY <1>2, <1>3, <1>4 DEF LockInv

LEMMA NothingWritten == Written(NoWrites) = {}
BY DEF Written, NoWrites

LEMMA LockKept ==
    ASSUME TypeInv, LockInv, NEW i \in Workers, NEW y, Moves(i, y),
           y = Idle \/ KeptWrites(w[i], y), UNCHANGED match
    PROVE  LockInv'
<1>1. y # Idle => \A m \in Written(y.writes) :
          /\ Free(i, m) /\ Owns(m, y.posting)
          /\ Rewritten(y.writes[m], match'[m], y.material)
  <2> SUFFICES ASSUME y # Idle, NEW m \in Written(y.writes)
               PROVE  /\ Free(i, m) /\ Owns(m, y.posting)
                      /\ Rewritten(y.writes[m], match'[m], y.material)
    OBVIOUS
  <2>1. /\ w[i] # Idle /\ y.writes = w[i].writes /\ y.posting = w[i].posting
        /\ y.material = w[i].material
    BY NothingWritten DEF KeptWrites
  <2>2. ~At(i, "idle")  BY <2>1, JobNotIdle DEF TypeInv, TypeOK, At
  <2>3. m \in Owned(i)  BY <2>1, <2>2 DEF Owned
  <2> QED  BY <2>1, <2>3 DEF LockInv, LocksExclusive, WritesCurrent, Free
<1> QED  BY <1>1, LockMove DEF LockInv

(* What the runs of a match do without a lock.                             *)
LEMMA NotedRun ==
    ASSUME TypeInv, Noted
    PROVE  UNCHANGED <<deals, edits>> /\ \E i \in Workers : \E y : KeptRun(i, y)
BY SendStep, SendFailsStep, ReadRecipientsStep, MarkStep DEF Noted, NoteReserved, Mark, At

LEMMA WroteLock ==
    ASSUME TypeInv, LockInv, Wrote
    PROVE  LockInv'
<1>1. PICK i \in Workers, m \in Pairs : \E y, row :
          /\ Moves(i, y) /\ y # Idle /\ w[i] # Idle /\ KeptNotices(w[i], y) /\ y.pc \notin Noting
          /\ y.posting = w[i].posting /\ y.material = w[i].material
          /\ Owns(m, y.posting) /\ Free(i, m)
          /\ y.writes = [w[i].writes EXCEPT ![m] = row] /\ Rewritten(row, match[m], y.material)
          /\ UNCHANGED <<deals, messages, edits>>
  BY DEF Wrote
<1>2. PICK y, row :
          /\ Moves(i, y) /\ y # Idle /\ w[i] # Idle
          /\ y.posting = w[i].posting /\ y.material = w[i].material
          /\ Owns(m, y.posting) /\ Free(i, m)
          /\ y.writes = [w[i].writes EXCEPT ![m] = row] /\ Rewritten(row, match[m], y.material)
          /\ UNCHANGED <<deals, messages, edits>>
  BY <1>1
<1>3. ~At(i, "idle") /\ w[i].writes \in [Pairs -> MatchType]
  BY <1>2, JobNotIdle DEF TypeInv, TypeOK, At, JobType
<1>4. UNCHANGED match  BY <1>2 DEF deals
<1>5. ASSUME NEW n \in Written(y.writes)
      PROVE  /\ Free(i, n) /\ Owns(n, y.posting)
             /\ Rewritten(y.writes[n], match'[n], y.material)
  <2>1. n \in Pairs  BY <1>5 DEF Written
  <2>2. CASE n = m
    <3>1. y.writes[n] = row  BY <1>2, <1>3, <2>1, <2>2
    <3> QED  BY <1>2, <1>4, <2>2, <3>1
  <2>3. CASE n # m
    <3>1. y.writes[n] = w[i].writes[n]  BY <1>2, <1>3, <2>1, <2>3
    <3>2. n \in Owned(i)  BY <1>3, <1>5, <2>1, <3>1 DEF Owned, Written
    <3>3. Free(i, n)  BY <3>2 DEF LockInv, LocksExclusive, Free
    <3> QED  BY <1>2, <1>4, <3>1, <3>2, <3>3 DEF LockInv, WritesCurrent
  <2> QED  BY <2>2, <2>3
<1> QED  BY <1>2, <1>4, <1>5, LockMove DEF LockInv

(* A commit makes of every match it has locked what it has written.        *)
LEMMA CommittedMatch ==
    ASSUME TypeInv, LockInv, NEW i \in Workers, Commit(i)
    PROVE  /\ \A m \in Owned(i) : match'[m] = w[i].writes[m]
           /\ \A m \in Pairs \ Owned(i) : match'[m] = match[m]
           /\ Owned(i) \subseteq Pairs
           /\ \A m \in Owned(i) : Rewritten(match'[m], match[m], w[i].material)
                                  /\ Owns(m, w[i].posting) /\ Revision(match'[m])
<1>1. match' = [m \in Pairs |-> IF m \in Written(w[i].writes) THEN w[i].writes[m] ELSE match[m]]
  BY DEF Commit
<1>2. Owned(i) = Written(w[i].writes)
      /\ \A m \in Written(w[i].writes) : Revision(w[i].writes[m])
  BY CommitStep
<1>3. Owned(i) \subseteq Pairs  BY <1>2 DEF Written
<1> QED  BY <1>1, <1>2, <1>3 DEF LockInv, WritesCurrent

LEMMA CommittedLock ==
    ASSUME TypeInv, LockInv, Committed
    PROVE  LockInv'
<1>1. PICK i \in Workers : Commit(i)  BY DEF Committed
<1>2. PICK y : KeptRun(i, y) /\ (y = Idle \/ y.writes = NoWrites)  BY <1>1, CommitStep
<1>3. Moves(i, y)  BY <1>2 DEF KeptRun
<1>4. \A j \in Workers \ {i} : \A m \in Owned(j) : match'[m] = match[m]
  <2> SUFFICES ASSUME NEW j \in Workers \ {i}, NEW m \in Owned(j)
               PROVE  match'[m] = match[m]
    OBVIOUS
  <2>1. m \notin Owned(i)  BY DEF LockInv, LocksExclusive
  <2>2. m \in Pairs  BY DEF Owned, Written
  <2> QED  BY <1>1, <2>1, <2>2, CommittedMatch
<1>5. \A m \in Pairs : Revision(match'[m])
  BY <1>1, CommittedMatch DEF LockInv
<1>6. y # Idle => Written(y.writes) = {}  BY <1>2, NothingWritten
<1> QED  BY <1>3, <1>4, <1>5, <1>6, LockMove

(* A decision is about a match no worker has locked.                       *)
LEMMA DecidedMatch ==
    ASSUME TypeInv, NEW m \in Pairs, NEW s \in Sides, Approve(m, s) \/ Pass(m, s)
    PROVE  /\ Unlocked(m) /\ Holds(m, s)
           /\ match'[m].rev = match[m].rev
           /\ \A n \in Pairs \ {m} : match'[n] = match[n]
           /\ match'[m].status = StatusAfter(m, recipient')
           /\ match' = [match EXCEPT ![m].status = StatusAfter(m, recipient')]
<1>1. PICK decision \in {"approved", "passed"} : Decide(m, s, decision)
  BY DEF Approve, Pass
<1>2. match' = [match EXCEPT ![m].status = StatusAfter(m, recipient')]
      /\ Unlocked(m) /\ Holds(m, s)
  BY <1>1 DEF Decide
<1>3. match \in [Pairs -> MatchType]  BY DEF TypeInv, TypeOK
<1>4. match[m].rev \in Nat /\ match[m] = [rev |-> match[m].rev, status |-> match[m].status]
  BY <1>3 DEF MatchType
<1> QED  BY <1>2, <1>3, <1>4 DEF MatchType

LEMMA StatusKnown ==
    ASSUME NEW m, NEW decisions
    PROVE  StatusAfter(m, decisions) \in {"approved", "passed_all", match[m].status}
BY DEF StatusAfter

(* A message is about a revision the match has had: the match has a row.   *)
LEMMA HeldMatched ==
    ASSUME TypeInv, NoticeInv, NEW m \in Pairs, NEW s, Holds(m, s)
    PROVE  match[m].rev > 0
<1>1. PICK k \in DOMAIN sent : k[1] = m  BY DEF Holds
<1>2. Past(k)  BY <1>1 DEF NoticeInv, NotifiedOnce, NoticesPast
<1>3. k[3] > 0 /\ k[3] \in Nat  BY <1>2 DEF Past, Keys
<1>4. match[m].rev \in Nat  BY DEF TypeInv, TypeOK, MatchType
<1> QED  BY <1>1, <1>2, <1>3, <1>4 DEF Past

LEMMA DecidedLock ==
    ASSUME TypeInv, LockInv, NoticeInv, Decided
    PROVE  LockInv'
<1>1. PICK m \in Pairs, s \in Sides : Approve(m, s) \/ Pass(m, s)  BY DEF Decided
<1>2. /\ Unlocked(m) /\ match'[m].rev = match[m].rev
      /\ \A n \in Pairs \ {m} : match'[n] = match[n]
      /\ match'[m].status = StatusAfter(m, recipient')
      /\ Holds(m, s)
  BY <1>1, DecidedMatch
<1>3. UNCHANGED w  BY <1>1, ApproveTyped, PassTyped
<1>4. \A j \in Workers : Owned(j)' = Owned(j)  BY <1>3 DEF Owned, At
<1>5. \A n \in Pairs : Revision(match'[n])
  <2>1. match[m].rev > 0  BY <1>2, HeldMatched
  <2>2. match'[m].status # "none"
    BY <1>2, <2>1, StatusKnown DEF LockInv, Revision
  <2>3. Revision(match'[m])  BY <1>2, <2>1, <2>2 DEF Revision
  <2> QED  BY <1>2, <2>3 DEF LockInv
<1>6. LocksExclusive'  BY <1>4 DEF LockInv, LocksExclusive
<1>7. WritesCurrent'
  <2> SUFFICES ASSUME NEW j \in Workers, NEW n, n \in Owned(j)'
               PROVE  /\ Rewritten(w'[j].writes[n], match'[n], w'[j].material)
                      /\ Owns(n, w'[j].posting)
    BY DEF WritesCurrent
  <2>1. n \in Owned(j) /\ n \in Pairs  BY <1>4 DEF Owned, Written
  <2>2. match'[n] = match[n]  BY <1>2, <2>1 DEF Unlocked
  <2> QED  BY <1>3, <2>1, <2>2 DEF LockInv, WritesCurrent
<1> QED  BY <1>5, <1>6, <1>7 DEF LockInv

LEMMA LockStep ==
    ASSUME TypeInv, LockInv, NoticeInv, [Next]_vars
    PROVE  LockInv'
<1>1. CASE Quiet  BY <1>1, LockKept DEF Quiet, Kept, deals
<1>2. CASE Edited  BY <1>2, LockKept DEF Edited, deals
<1>3. CASE Wrote  BY <1>3, WroteLock
<1>4. CASE Reserves  BY <1>4, LockKept DEF Reserves, KeptRun, deals
<1>5. CASE Noted  BY <1>5, NotedRun, LockKept DEF KeptRun, deals
<1>6. CASE Committed  BY <1>6, CommittedLock
<1>7. CASE Decided  BY <1>7, DecidedLock
<1>8. CASE Still
  <2>1. UNCHANGED <<match, w>>  BY <1>8 DEF Still, deals
  <2> QED  BY <2>1 DEF LockInv, LocksExclusive, WritesCurrent, Owned, At
<1>9. CASE Restarted
  <2>1. UNCHANGED match /\ \A j \in Workers : Owned(j)' = {}
    BY <1>9 DEF Restarted, deals, Owned, At, Idle
  <2> QED  BY <2>1 DEF LockInv, LocksExclusive, WritesCurrent
<1> QED
  BY <1>1, <1>2, <1>3, <1>4, <1>5, <1>6, <1>7, <1>8, <1>9, Kinds DEF NoticeInv

-----------------------------------------------------------------------------
(* Notices.                                                                *)

(* No revision is taken back.                                              *)
LEMMA RevisionsGrow ==
    ASSUME TypeInv, LockInv, NoticeInv, [Next]_vars
    PROVE  \A m \in Pairs : match[m].rev \in Nat /\ match'[m].rev >= match[m].rev
<1>1. \A m \in Pairs : match[m].rev \in Nat  BY DEF TypeInv, TypeOK, MatchType
<1>2. CASE UNCHANGED match  BY <1>1, <1>2
<1>3. CASE Committed
  <2>1. PICK i \in Workers : Commit(i)  BY <1>3 DEF Committed
  <2>2. ASSUME NEW m \in Owned(i)  PROVE match'[m].rev >= match[m].rev
    <3>1. m \in Pairs /\ Rewritten(match'[m], match[m], w[i].material)
      BY <2>1, CommittedMatch
    <3>2. match[m].rev \in Nat  BY <1>1, <3>1
    <3>3. \/ match'[m].rev = match[m].rev
          \/ match'[m].rev = 1 /\ match[m].rev = 0
          \/ match'[m].rev = match[m].rev + 1
      BY <3>1 DEF Rewritten
    <3> QED  BY <3>2, <3>3
  <2> QED  BY <1>1, <2>1, <2>2, CommittedMatch
<1>4. CASE Decided  BY <1>1, <1>4, DecidedMatch DEF Decided
<1>5. UNCHANGED match \/ Committed \/ Decided
  <2>1. Quiet \/ Edited \/ Wrote \/ Reserves \/ Noted \/ Committed \/ Decided
        \/ Still \/ Restarted
    BY Kinds DEF NoticeInv
  <2>2. Noted => UNCHANGED match  BY NotedRun DEF deals
  <2> QED  BY <2>1, <2>2 DEF Quiet, Edited, Wrote, Reserves, Still, Restarted, deals
<1> QED  BY <1>2, <1>3, <1>4, <1>5

LEMMA PastKept ==
    ASSUME \A m \in Pairs : match[m].rev \in Nat /\ match'[m].rev >= match[m].rev,
           \A m \in Pairs : match'[m].rev \in Nat, NEW k, Past(k)
    PROVE  Past(k)'
<1>1. k \in Keys /\ k[1] \in Pairs /\ k[3] \in Nat  BY DEF Past, Keys
<1>2. match[k[1]].rev \in Nat /\ match'[k[1]].rev \in Nat
      /\ match'[k[1]].rev >= match[k[1]].rev
  BY <1>1
<1>3. k[3] <= match[k[1]].rev  BY DEF Past
<1>4. k[3] <= match'[k[1]].rev  BY <1>1, <1>2, <1>3
<1> QED  BY <1>1, <1>4 DEF Past

LEMMA NoticeMove ==
    ASSUME TypeInv, TypeInv', NoticeInv, NEW i \in Workers, NEW y, Moves(i, y),
           \A m \in Pairs : match[m].rev \in Nat /\ match'[m].rev >= match[m].rev,
           DOMAIN notice \subseteq DOMAIN notice', DOMAIN sent \subseteq DOMAIN sent',
           \A k \in DOMAIN notice' \ DOMAIN notice : Past(k),
           y # Idle => /\ \A mr \in y.surfaced : mr[2] <= match'[mr[1]].rev
                       /\ \A k \in y.undecided : k \in Keys /\ k[3] <= match'[k[1]].rev,
           y.pc \in Noting => y.note \in DOMAIN notice',
           y.pc = "send" => y.note \notin DOMAIN sent',
           y.pc = "sent" => y.note \in DOMAIN sent',
           \A j \in Workers \ {i} : At(j, "send") =>
               w[j].note \notin DOMAIN sent' /\ (y.pc = "send" => w[j].note # y.note),
           NotifiedOnce'
    PROVE  NoticeInv'
<1>1. w'[i] = y /\ \A j \in Workers \ {i} : w'[j] = w[j]  BY MovesSound
<1>2. \A m \in Pairs : match'[m].rev \in Nat  BY DEF TypeInv, TypeOK, MatchType
<1>3. \A k : Past(k) => Past(k)'  BY <1>2, PastKept
<1>4. \A k \in DOMAIN notice' : Past(k)'
  BY <1>3 DEF NoticeInv, NoticesPast
<1>5. ASSUME NEW j \in Workers, ~At(j, "idle")'
      PROVE  /\ \A mr \in w'[j].surfaced : mr[2] <= match'[mr[1]].rev
             /\ \A k \in w'[j].undecided : Past(k)'
  <2>1. CASE j = i
    <3>1. y # Idle  BY <1>1, <1>5, <2>1 DEF At, Idle
    <3> QED  BY <1>1, <2>1, <3>1 DEF Past
  <2>2. CASE j # i
    <3>1. w'[j] = w[j] /\ ~At(j, "idle")  BY <1>1, <1>5, <2>2 DEF At
    <3>2. \A k \in w'[j].undecided : Past(k)'
      BY <1>3, <3>1 DEF NoticeInv, NoticesPast
    <3>3. ASSUME NEW mr \in w'[j].surfaced  PROVE mr[2] <= match'[mr[1]].rev
      <4>1. mr[2] <= match[mr[1]].rev  BY <3>1, <3>3 DEF NoticeInv, NoticesPast
      <4>2. w[j] \in JobType  BY <3>1, WorkerTyped
      <4>3. mr[1] \in Pairs /\ mr[2] \in Nat  BY <3>1, <3>3, <4>2 DEF JobType
      <4>4. match[mr[1]].rev \in Nat /\ match'[mr[1]].rev \in Nat
            /\ match'[mr[1]].rev >= match[mr[1]].rev
        BY <1>2, <4>3
      <4> QED  BY <4>1, <4>3, <4>4
    <3> QED  BY <3>2, <3>3
  <2> QED  BY <2>1, <2>2
<1>6. NoticesPast'
  <2>1. (\A j \in Workers : ~At(j, "idle") =>
             /\ \A mr \in w[j].surfaced : mr[2] <= match[mr[1]].rev
             /\ \A k \in w[j].undecided : Past(k))'
    BY <1>5
  <2>2. (\A k \in DOMAIN notice : Past(k))'  BY <1>4
  <2> QED  BY <2>1, <2>2 DEF NoticesPast
<1>7. NoteReserved'
  <2> SUFFICES ASSUME NEW j \in Workers
               PROVE  /\ w'[j].pc \in Noting => w'[j].note \in DOMAIN notice'
                      /\ w'[j].pc = "send" => w'[j].note \notin DOMAIN sent'
                      /\ w'[j].pc = "sent" => w'[j].note \in DOMAIN sent'
    BY DEF NoteReserved, At, Noting
  <2>1. CASE j = i  BY <1>1, <2>1
  <2>2. CASE j # i  BY <1>1, <2>2 DEF NoticeInv, NoteReserved, Noting, At
  <2> QED  BY <2>1, <2>2
<1>8. NotesExclusive'
  <2> SUFFICES ASSUME NEW j \in Workers, NEW k \in Workers, w'[j].pc = "send",
                      w'[k].pc = "send", j # k
               PROVE  w'[j].note # w'[k].note
    BY DEF NotesExclusive, At
  <2>1. CASE j # i /\ k # i  BY <1>1, <2>1 DEF NoticeInv, NotesExclusive, At
  <2>2. CASE j = i  BY <1>1, <2>2 DEF At
  <2>3. CASE k = i  BY <1>1, <2>3 DEF At
  <2> QED  BY <2>1, <2>2, <2>3
<1> QED  BY <1>6, <1>7, <1>8 DEF NoticeInv

(* A worker that keeps its notices and sends nothing.                      *)
LEMMA NoticeKept ==
    ASSUME TypeInv, TypeInv', NoticeInv, NEW i \in Workers, NEW y, Moves(i, y),
           y = Idle \/ (KeptNotices(w[i], y) /\ y.pc \notin Noting),
           UNCHANGED <<match, messages>>
    PROVE  NoticeInv'
<1>1. \A m \in Pairs : match[m].rev \in Nat /\ match'[m].rev >= match[m].rev
  BY DEF TypeInv, TypeOK, MatchType
<1>2. UNCHANGED <<notice, sent>>  BY DEF messages
<1>3. NotifiedOnce'  BY <1>2 DEF NoticeInv, NotifiedOnce
<1>4. y # Idle => /\ \A mr \in y.surfaced : mr[2] <= match'[mr[1]].rev
                  /\ \A k \in y.undecided : k \in Keys /\ k[3] <= match'[k[1]].rev
  <2> SUFFICES ASSUME y # Idle
               PROVE  /\ \A mr \in y.surfaced : mr[2] <= match'[mr[1]].rev
                      /\ \A k \in y.undecided : k \in Keys /\ k[3] <= match'[k[1]].rev
    OBVIOUS
  <2>1. w[i] # Idle => ~At(i, "idle")  BY JobNotIdle DEF TypeInv, TypeOK, At
  <2> QED  BY <2>1 DEF KeptNotices, NoticeInv, NoticesPast, Past
<1>5. y.pc \notin Noting  BY DEF Idle, Noting
<1>6. \A j \in Workers \ {i} : At(j, "send") => w[j].note \notin DOMAIN sent'
  BY <1>2 DEF NoticeInv, NoteReserved
<1> QED  BY <1>1, <1>2, <1>3, <1>4, <1>5, <1>6, NoticeMove DEF Noting

(* A worker with a job to do is not an idle one.                           *)
LEMMA JobAtWork ==
    ASSUME TypeInv, NEW i \in Workers, w[i] # Idle
    PROVE  ~At(i, "idle") /\ w[i] \in JobType
BY JobNotIdle DEF TypeInv, TypeOK, At

LEMMA HeldNotices ==
    ASSUME TypeInv, NoticeInv, NEW i \in Workers, NEW y, y # Idle,
           KeptNotices(w[i], y),
           \A m \in Pairs : match[m].rev \in Nat /\ match'[m].rev \in Nat
                            /\ match'[m].rev >= match[m].rev
    PROVE  /\ \A mr \in y.surfaced : mr[2] <= match'[mr[1]].rev
           /\ \A k \in y.undecided : k \in Keys /\ k[3] <= match'[k[1]].rev
<1>1. ASSUME NEW mr \in y.surfaced  PROVE mr[2] <= match'[mr[1]].rev
  <2>1. w[i] # Idle /\ mr \in w[i].surfaced  BY <1>1 DEF KeptNotices
  <2>2. ~At(i, "idle") /\ w[i] \in JobType  BY <2>1, JobAtWork
  <2>3. mr[1] \in Pairs /\ mr[2] \in Nat  BY <2>1, <2>2 DEF JobType
  <2>4. mr[2] <= match[mr[1]].rev  BY <2>1, <2>2 DEF NoticeInv, NoticesPast
  <2>5. match[mr[1]].rev \in Nat /\ match'[mr[1]].rev \in Nat
        /\ match'[mr[1]].rev >= match[mr[1]].rev
    BY <2>3
  <2> QED  BY <2>3, <2>4, <2>5
<1>2. ASSUME NEW k \in y.undecided  PROVE k \in Keys /\ k[3] <= match'[k[1]].rev
  <2>1. w[i] # Idle /\ k \in w[i].undecided  BY <1>2 DEF KeptNotices
  <2>2. ~At(i, "idle") /\ w[i] \in JobType  BY <2>1, JobAtWork
  <2>3. Past(k)  BY <2>1, <2>2 DEF NoticeInv, NoticesPast
  <2>4. Past(k)'  BY <2>3, PastKept
  <2> QED  BY <2>4 DEF Past
<1> QED  BY <1>1, <1>2

LEMMA SameRevisions ==
    ASSUME TypeInv, TypeInv', UNCHANGED match
    PROVE  \A m \in Pairs : match[m].rev \in Nat /\ match'[m].rev \in Nat
                            /\ match'[m].rev >= match[m].rev
BY DEF TypeInv, TypeOK, MatchType

LEMMA ReservesNotice ==
    ASSUME TypeInv, TypeInv', NoticeInv, Reserves
    PROVE  NoticeInv'
<1>1. PICK i \in Workers, k \in Keys : \E y :
          /\ KeptRun(i, y) /\ KeptNotices(w[i], y) /\ y # Idle /\ y.pc = "send" /\ y.note = k
          /\ w[i] # Idle /\ k \in w[i].undecided /\ k \notin DOMAIN notice
          /\ notice' = Inserted(notice, {k})
          /\ UNCHANGED <<deals, sent, edits>>
  BY DEF Reserves
<1>2. PICK y :
          /\ Moves(i, y) /\ KeptNotices(w[i], y) /\ y # Idle /\ y.pc = "send" /\ y.note = k
          /\ w[i] # Idle /\ k \in w[i].undecided /\ k \notin DOMAIN notice
          /\ notice' = Inserted(notice, {k})
          /\ UNCHANGED <<deals, sent, edits>>
  BY <1>1 DEF KeptRun
<1>3. UNCHANGED <<match, sent>>  BY <1>2 DEF deals
<1>4. \A m \in Pairs : match[m].rev \in Nat /\ match'[m].rev \in Nat
                       /\ match'[m].rev >= match[m].rev
  BY <1>3, SameRevisions
<1>5. /\ DOMAIN notice' = DOMAIN notice \cup {k}
      /\ \A j \in DOMAIN notice : notice'[j] = notice[j]
      /\ notice'[k] = "pending"
  BY <1>2 DEF Inserted
<1>6. Past(k)
  BY <1>2, JobAtWork DEF NoticeInv, NoticesPast
<1>7. DOMAIN sent \subseteq DOMAIN notice  BY DEF NoticeInv, NotifiedOnce
<1>8. NotifiedOnce'
  BY <1>2, <1>3, <1>5 DEF NoticeInv, NotifiedOnce
<1>9. \A j \in Workers \ {i} : At(j, "send") =>
          w[j].note \notin DOMAIN sent' /\ w[j].note # k
  BY <1>2, <1>3 DEF NoticeInv, NoteReserved, At
<1>10. /\ \A mr \in y.surfaced : mr[2] <= match'[mr[1]].rev
       /\ \A j \in y.undecided : j \in Keys /\ j[3] <= match'[j[1]].rev
  BY <1>2, <1>4, HeldNotices
<1>11. y.note \in DOMAIN notice' /\ y.note \notin DOMAIN sent'
  BY <1>2, <1>3, <1>5, <1>7
<1>12. \A j \in DOMAIN notice' \ DOMAIN notice : Past(j)  BY <1>5, <1>6
<1> QED  BY <1>2, <1>3, <1>4, <1>5, <1>8, <1>9, <1>10, <1>11, <1>12, NoticeMove

LEMMA SendNotice ==
    ASSUME TypeInv, TypeInv', NoticeInv, NEW i \in Workers, Send(i)
    PROVE  NoticeInv'
<1>1. PICK y : /\ Moves(i, y) /\ KeptNotices(w[i], y) /\ y # Idle
               /\ y.pc = "sent" /\ y.note = w[i].note
  BY SendStep DEF KeptRun
<1>2. UNCHANGED <<match, notice>>  BY SendStep DEF deals
<1>3. At(i, "send") /\ sent' = sent (+) SetToBag({w[i].note})  BY DEF Send
<1> DEFINE k == w[i].note
<1>4. k \in DOMAIN notice /\ k \notin DOMAIN sent  BY <1>3 DEF NoticeInv, NoteReserved, At
<1>5. IsABag(sent)  BY DEF TypeInv, TypeOK
<1>6. /\ DOMAIN sent' = DOMAIN sent \cup {k} /\ sent'[k] = 1
      /\ \A j \in DOMAIN sent : j # k => sent'[j] = sent[j]
  <2> DEFINE B == sent (+) SetToBag({k})
  <2>1. /\ DOMAIN B = DOMAIN sent \cup {k} /\ B[k] = 1
        /\ \A j \in DOMAIN sent : j # k => B[j] = sent[j]
    <3> HIDE DEF k
    <3> QED  BY <1>4, <1>5, BagAdd
  <2>2. sent' = B  BY <1>3
  <2> HIDE DEF B, k
  <2> QED  BY <2>1, <2>2
<1>7. NotifiedOnce'
  BY <1>2, <1>4, <1>6 DEF NoticeInv, NotifiedOnce
<1>8. \A m \in Pairs : match[m].rev \in Nat /\ match'[m].rev \in Nat
                       /\ match'[m].rev >= match[m].rev
  BY <1>2, SameRevisions
<1>9. /\ \A mr \in y.surfaced : mr[2] <= match'[mr[1]].rev
      /\ \A j \in y.undecided : j \in Keys /\ j[3] <= match'[j[1]].rev
  BY <1>1, <1>8, HeldNotices
<1>10. \A j \in Workers \ {i} : At(j, "send") => w[j].note \notin DOMAIN sent'
  BY <1>3, <1>6 DEF NoticeInv, NoteReserved, NotesExclusive
<1>11. y.note \in DOMAIN notice' /\ y.note \in DOMAIN sent'
  BY <1>1, <1>2, <1>4, <1>6
<1> QED  BY <1>1, <1>2, <1>6, <1>7, <1>8, <1>9, <1>10, <1>11, NoticeMove

LEMMA SendFailsNotice ==
    ASSUME TypeInv, TypeInv', NoticeInv, NEW i \in Workers, SendFails(i)
    PROVE  NoticeInv'
<1>1. PICK y : /\ Moves(i, y) /\ KeptNotices(w[i], y) /\ y # Idle
               /\ y.pc = "failed" /\ y.note = w[i].note
  BY SendFailsStep DEF KeptRun
<1>2. UNCHANGED <<match, notice, sent>>  BY SendFailsStep DEF deals, messages
<1>3. w[i].note \in DOMAIN notice  BY DEF SendFails, NoticeInv, NoteReserved, At
<1>4. NotifiedOnce'  BY <1>2 DEF NoticeInv, NotifiedOnce
<1>5. \A m \in Pairs : match[m].rev \in Nat /\ match'[m].rev \in Nat
                       /\ match'[m].rev >= match[m].rev
  BY <1>2, SameRevisions
<1>6. /\ \A mr \in y.surfaced : mr[2] <= match'[mr[1]].rev
      /\ \A j \in y.undecided : j \in Keys /\ j[3] <= match'[j[1]].rev
  BY <1>1, <1>5, HeldNotices
<1>7. \A j \in Workers \ {i} : At(j, "send") => w[j].note \notin DOMAIN sent'
  BY <1>2 DEF NoticeInv, NoteReserved
<1> QED  BY <1>1, <1>2, <1>3, <1>4, <1>5, <1>6, <1>7, NoticeMove

LEMMA MarkNotice ==
    ASSUME TypeInv, TypeInv', NoticeInv, NEW i \in Workers, Mark(i)
    PROVE  NoticeInv'
<1>1. w[i].note \in DOMAIN notice /\ w[i].pc \in {"sent", "failed"}
  BY DEF Mark, NoticeInv, NoteReserved, At
<1>2. PICK y : /\ Moves(i, y)
               /\ (y = Idle \/ (y.pc \notin Noting /\ KeptNotices(w[i], y)))
  BY <1>1, MarkStep DEF KeptRun
<1>3. UNCHANGED <<match, sent>> /\ DOMAIN notice' = DOMAIN notice
  BY <1>1, MarkStep DEF deals
<1>4. notice' = [notice EXCEPT ![w[i].note] = w[i].pc]  BY DEF Mark
<1>5. NotifiedOnce'
  <2>1. \A k \in DOMAIN notice' : notice'[k] = "sent" =>
            (k = w[i].note /\ w[i].pc = "sent") \/ notice[k] = "sent"
    BY <1>3, <1>4
  <2>2. w[i].pc = "sent" => w[i].note \in DOMAIN sent
    BY DEF NoticeInv, NoteReserved, At
  <2> QED  BY <1>3, <2>1, <2>2 DEF NoticeInv, NotifiedOnce
<1>6. \A m \in Pairs : match[m].rev \in Nat /\ match'[m].rev \in Nat
                       /\ match'[m].rev >= match[m].rev
  BY <1>3, SameRevisions
<1>7. y # Idle => /\ \A mr \in y.surfaced : mr[2] <= match'[mr[1]].rev
                  /\ \A j \in y.undecided : j \in Keys /\ j[3] <= match'[j[1]].rev
  BY <1>2, <1>6, HeldNotices
<1>8. \A j \in Workers \ {i} : At(j, "send") => w[j].note \notin DOMAIN sent'
  BY <1>3 DEF NoticeInv, NoteReserved
<1>9. y.pc \notin Noting  BY <1>2 DEF Idle, Noting
<1> QED  BY <1>2, <1>3, <1>5, <1>6, <1>7, <1>8, <1>9, NoticeMove DEF Noting

LEMMA UndecidedKeys ==
    ASSUME NEW m, NEW r, NEW k \in Undecided(m, r)
    PROVE  k \in DOMAIN recipient /\ k[1] = m /\ k[3] = r
<1>1. \E s \in Sides : k = <<m, s, r>> /\ <<m, s, r>> \in DOMAIN recipient
  BY DEF Undecided
<1> QED  BY <1>1

LEMMA ReadNotice ==
    ASSUME TypeInv, TypeInv', NoticeInv, NEW i \in Workers, ReadRecipients(i)
    PROVE  NoticeInv'
<1>1. PICK y, mr : /\ KeptRun(i, y) /\ mr \in w[i].surfaced
                   /\ \/ y = Idle
                      \/ /\ y.pc \notin Noting /\ y.surfaced \subseteq w[i].surfaced
                         /\ y.undecided \subseteq Undecided(mr[1], mr[2])
  BY ReadRecipientsStep
<1>2. Moves(i, y)  BY <1>1 DEF KeptRun
<1>3. UNCHANGED <<match, messages, notice, sent>> /\ w[i] # Idle
  BY ReadRecipientsStep DEF deals, messages
<1>4. w[i] \in JobType /\ ~At(i, "idle")  BY <1>3, JobAtWork
<1>5. mr[1] \in Pairs /\ mr[2] \in Nat /\ mr[2] <= match[mr[1]].rev
  BY <1>1, <1>4 DEF JobType, NoticeInv, NoticesPast
<1>6. \A m \in Pairs : match[m].rev \in Nat /\ match'[m].rev \in Nat
                       /\ match'[m].rev >= match[m].rev
  BY <1>3, SameRevisions
<1>7. \A k \in Undecided(mr[1], mr[2]) : k \in Keys /\ k[3] <= match'[k[1]].rev
  <2> SUFFICES ASSUME NEW k \in Undecided(mr[1], mr[2])
               PROVE  k \in Keys /\ k[3] <= match'[k[1]].rev
    OBVIOUS
  <2>1. k \in DOMAIN recipient /\ k[1] = mr[1] /\ k[3] = mr[2]  BY UndecidedKeys
  <2>2. k \in Keys  BY <2>1 DEF TypeInv, TypeOK
  <2> QED  BY <1>3, <1>5, <2>1, <2>2
<1>8. y # Idle => \A sr \in y.surfaced : sr[2] <= match'[sr[1]].rev
  BY <1>1, <1>3, <1>4 DEF NoticeInv, NoticesPast
<1>9. NotifiedOnce'  BY <1>3 DEF NoticeInv, NotifiedOnce
<1>10. \A j \in Workers \ {i} : At(j, "send") => w[j].note \notin DOMAIN sent'
  BY <1>3 DEF NoticeInv, NoteReserved
<1>11. y.pc \notin Noting  BY <1>1 DEF Idle, Noting
<1> QED  BY <1>1, <1>2, <1>3, <1>6, <1>7, <1>8, <1>9, <1>10, <1>11, NoticeMove DEF Noting

LEMMA CommittedNotice ==
    ASSUME TypeInv, TypeInv', LockInv, NoticeInv, NEW i \in Workers, Commit(i),
           \A m \in Pairs : match[m].rev \in Nat /\ match'[m].rev >= match[m].rev
    PROVE  NoticeInv'
<1> DEFINE revisions == {<<m, w[i].writes[m].rev>> : m \in Written(w[i].writes)}
<1>1. PICK y : /\ KeptRun(i, y)
               /\ \/ y = Idle
                  \/ /\ y.pc \notin Noting /\ y.undecided \subseteq w[i].undecided
                     /\ y.surfaced \subseteq revisions
  BY CommitStep
<1>2. Moves(i, y)  BY <1>1 DEF KeptRun
<1>3. UNCHANGED <<notice, sent>> /\ w[i] # Idle /\ Owned(i) = Written(w[i].writes)
  BY CommitStep DEF messages
<1>4. \A m \in Pairs : match[m].rev \in Nat /\ match'[m].rev \in Nat
                       /\ match'[m].rev >= match[m].rev
  BY DEF TypeInv, TypeOK, MatchType
<1>5. \A sr \in revisions : sr[2] <= match'[sr[1]].rev
  <2> SUFFICES ASSUME NEW m \in Written(w[i].writes)
               PROVE  w[i].writes[m].rev <= match'[m].rev
    OBVIOUS
  <2>1. m \in Pairs /\ match'[m] = w[i].writes[m]  BY <1>3, CommittedMatch
  <2> QED  BY <1>4, <2>1
<1> HIDE DEF revisions
<1>6. ~At(i, "idle")  BY <1>3, JobAtWork
<1>7. \A k \in w[i].undecided : k \in Keys /\ k[3] <= match'[k[1]].rev
  <2> SUFFICES ASSUME NEW k \in w[i].undecided
               PROVE  k \in Keys /\ k[3] <= match'[k[1]].rev
    OBVIOUS
  <2>1. Past(k)  BY <1>6 DEF NoticeInv, NoticesPast
  <2>2. Past(k)'  BY <1>4, <2>1, PastKept
  <2> QED  BY <2>2 DEF Past
<1>8. y # Idle => /\ \A sr \in y.surfaced : sr[2] <= match'[sr[1]].rev
                  /\ \A k \in y.undecided : k \in Keys /\ k[3] <= match'[k[1]].rev
  BY <1>1, <1>5, <1>7
<1>9. NotifiedOnce'  BY <1>3 DEF NoticeInv, NotifiedOnce
<1>10. \A j \in Workers \ {i} : At(j, "send") => w[j].note \notin DOMAIN sent'
  BY <1>3 DEF NoticeInv, NoteReserved
<1>11. y.pc \notin Noting  BY <1>1 DEF Idle, Noting
<1> QED  BY <1>2, <1>3, <1>4, <1>8, <1>9, <1>10, <1>11, NoticeMove DEF Noting

(* A step no worker takes.                                                 *)
LEMMA StillNotice ==
    ASSUME TypeInv, TypeInv', NoticeInv, UNCHANGED <<w, notice, sent>>,
           \A m \in Pairs : match[m].rev \in Nat /\ match'[m].rev = match[m].rev
    PROVE  NoticeInv'
<1>1. ASSUME NEW k  PROVE Past(k) => Past(k)'  BY DEF Past, Keys
<1>2. ASSUME NEW i \in Workers, ~At(i, "idle")'
      PROVE  /\ \A mr \in w'[i].surfaced : mr[2] <= match'[mr[1]].rev
             /\ \A k \in w'[i].undecided : Past(k)'
  <2>1. ~At(i, "idle")  BY <1>2 DEF At
  <2>2. w[i] \in JobType  BY <2>1, WorkerTyped
  <2>3. \A mr \in w[i].surfaced : mr[1] \in Pairs /\ mr[2] <= match[mr[1]].rev
    BY <2>1, <2>2 DEF NoticeInv, NoticesPast, JobType
  <2> QED  BY <1>1, <2>1, <2>3 DEF NoticeInv, NoticesPast
<1>3. NoticesPast'
  <2>1. (\A i \in Workers : ~At(i, "idle") =>
             /\ \A mr \in w[i].surfaced : mr[2] <= match[mr[1]].rev
             /\ \A k \in w[i].undecided : Past(k))'
    BY <1>2
  <2>2. (\A k \in DOMAIN notice : Past(k))'  BY <1>1 DEF NoticeInv, NoticesPast
  <2> QED  BY <2>1, <2>2 DEF NoticesPast
<1>4. NoteReserved' /\ NotesExclusive' /\ NotifiedOnce'
  BY DEF NoticeInv, NoteReserved, NotesExclusive, NotifiedOnce, At
<1> QED  BY <1>3, <1>4 DEF NoticeInv

LEMMA NoticeStep ==
    ASSUME TypeInv, LockInv, NoticeInv, [Next]_vars
    PROVE  NoticeInv'
<1>1. TypeInv' /\ (Quiet \/ Edited \/ Wrote \/ Reserves \/ Noted \/ Committed \/ Decided
                   \/ Still \/ Restarted)
  BY Kinds DEF NoticeInv
<1>2. CASE Quiet
  <2>1. PICK i \in Workers : \E y :
            /\ Moves(i, y) /\ Kept(w[i], y) /\ (y = Idle \/ y.pc \notin Noting)
            /\ UNCHANGED <<deals, messages, edits>>
    BY <1>2 DEF Quiet
  <2> QED  BY <1>1, <2>1, NoticeKept DEF Kept, deals
<1>3. CASE Edited  BY <1>1, <1>3, NoticeKept DEF Edited, deals
<1>4. CASE Wrote  BY <1>1, <1>4, NoticeKept DEF Wrote, deals
<1>5. CASE Reserves  BY <1>1, <1>5, ReservesNotice
<1>6. CASE Noted
  BY <1>1, <1>6, SendNotice, SendFailsNotice, ReadNotice, MarkNotice DEF Noted
<1>7. CASE Committed  BY <1>1, <1>7, RevisionsGrow, CommittedNotice DEF Committed
<1>8. CASE Decided
  <2>1. PICK m \in Pairs, s \in Sides : Approve(m, s) \/ Pass(m, s)  BY <1>8 DEF Decided
  <2>2. UNCHANGED <<w, notice, sent>>
    BY <2>1, ApproveTyped, PassTyped DEF messages
  <2>3. \A n \in Pairs : match[n].rev \in Nat /\ match'[n].rev = match[n].rev
    BY <2>1, DecidedMatch DEF TypeInv, TypeOK, MatchType
  <2> QED  BY <1>1, <2>2, <2>3, StillNotice
<1>9. CASE Still
  <2>1. UNCHANGED <<w, notice, sent>>
        /\ \A n \in Pairs : match[n].rev \in Nat /\ match'[n].rev = match[n].rev
    BY <1>9 DEF Still, deals, messages, TypeInv, TypeOK, MatchType
  <2> QED  BY <1>1, <2>1, StillNotice
<1>10. CASE Restarted
  <2>1. UNCHANGED <<match, notice, sent>> /\ \A j \in Workers : w'[j] = Idle
    BY <1>10 DEF Restarted, deals, messages
  <2>2. NoticesPast'  BY <2>1 DEF NoticeInv, NoticesPast, Past, At, Idle
  <2>3. NoteReserved' /\ NotesExclusive'
    BY <2>1 DEF NoteReserved, NotesExclusive, At, Idle
  <2>4. NotifiedOnce'  BY <2>1 DEF NoticeInv, NotifiedOnce
  <2> QED  BY <2>2, <2>3, <2>4 DEF NoticeInv
<1> QED  BY <1>1, <1>2, <1>3, <1>4, <1>5, <1>6, <1>7, <1>8, <1>9, <1>10

-----------------------------------------------------------------------------
(* Decisions.                                                              *)

LEMMA CommittedDecision ==
    ASSUME TypeInv, LockInv, DecisionInv, NEW i \in Workers, Commit(i)
    PROVE  DecisionInv'
<1>1. /\ \A m \in Owned(i) : match'[m] = w[i].writes[m]
      /\ \A m \in Pairs \ Owned(i) : match'[m] = match[m]
      /\ Owned(i) \subseteq Pairs
      /\ \A m \in Owned(i) : Rewritten(match'[m], match[m], w[i].material)
                             /\ Owns(m, w[i].posting) /\ Revision(match'[m])
  BY CommittedMatch
<1>2. /\ UNCHANGED approvals /\ Owned(i) = Written(w[i].writes)
      /\ recipient' = Inserted(recipient, Recipients(w[i].writes))
  BY CommitStep DEF Commit
<1> DEFINE keys == Recipients(w[i].writes)
<1>3. /\ DOMAIN recipient' = DOMAIN recipient \cup keys
      /\ \A k \in DOMAIN recipient : recipient'[k] = recipient[k]
      /\ \A k \in keys \ DOMAIN recipient : recipient'[k] = "pending"
  <2> HIDE DEF keys
  <2>1. recipient' = Inserted(recipient, keys)  BY <1>2 DEF keys
  <2> QED  BY <2>1 DEF Inserted
<1>4. \A m \in Owned(i), s \in Sides : <<m, s, match'[m].rev>> \in keys
  BY <1>1, <1>2 DEF Recipients
<1> HIDE DEF keys
<1>5. ApprovalsOnRecord'
  BY <1>2, <1>3 DEF DecisionInv, ApprovalsOnRecord
<1>6. ASSUME NEW m \in Pairs
      PROVE  /\ \A r \in 1..match'[m].rev, s \in Sides : <<m, s, r>> \in DOMAIN recipient'
             /\ (match'[m].status = "approved") <=> (approvals'[m] # {})
             /\ \A s \in approvals'[m] : recipient'[<<m, s, match'[m].rev>>] = "approved"
  <2>1. /\ \A r \in 1..match[m].rev, s \in Sides : <<m, s, r>> \in DOMAIN recipient
        /\ (match[m].status = "approved") <=> (approvals[m] # {})
        /\ \A s \in approvals[m] : recipient[<<m, s, match[m].rev>>] = "approved"
    BY DEF DecisionInv, DecisionsOnRecord
  <2>2. match[m].rev \in Nat /\ approvals[m] \subseteq Sides /\ Revision(match[m])
    BY DEF TypeInv, TypeOK, MatchType, LockInv
  <2>3. CASE match'[m] = match[m]
    <3>1. \A s \in approvals[m] : <<m, s, match[m].rev>> \in DOMAIN recipient
      <4> SUFFICES ASSUME NEW s \in approvals[m]
                   PROVE  <<m, s, match[m].rev>> \in DOMAIN recipient
        OBVIOUS
      <4>1. match[m].status = "approved"  BY <2>1
      <4>2. match[m].rev > 0  BY <2>2, <4>1 DEF Revision
      <4>3. match[m].rev \in 1..match[m].rev  BY <2>2, <4>2
      <4> QED  BY <2>1, <2>2, <4>3
    <3> QED  BY <1>2, <1>3, <2>1, <2>3, <3>1
  <2>4. CASE match'[m] # match[m]
    <3>1. m \in Owned(i)  BY <1>1, <2>4
    <3>2. /\ match'[m].status = "surfaced" /\ match[m].status # "approved"
          /\ match'[m].rev = match[m].rev + 1
      <4>1. Rewritten(match'[m], match[m], w[i].material)  BY <1>1, <3>1
      <4> QED  BY <2>2, <2>4, <4>1 DEF Rewritten, Revision
    <3>3. approvals'[m] = {}  BY <1>2, <2>1, <3>2
    <3>4. ASSUME NEW r \in 1..match'[m].rev, NEW s \in Sides
          PROVE  <<m, s, r>> \in DOMAIN recipient'
      <4>1. CASE r \in 1..match[m].rev  BY <1>3, <2>1, <4>1
      <4>2. CASE r = match'[m].rev  BY <1>3, <1>4, <3>1, <4>2
      <4> QED  BY <2>2, <3>2, <4>1, <4>2
    <3> QED  BY <3>2, <3>3, <3>4
  <2> QED  BY <2>3, <2>4
<1>7. DecisionsOnRecord'  BY <1>6 DEF DecisionsOnRecord
<1> QED  BY <1>5, <1>7 DEF DecisionInv

(* What a decision does to the table of decisions and to the approvals.    *)
LEMMA DecidedRows ==
    ASSUME TypeInv, LockInv, NoticeInv, DecisionInv, NEW m \in Pairs, NEW s \in Sides,
           Approve(m, s) \/ Pass(m, s)
    PROVE  LET key == <<m, s, match[m].rev>> IN
           /\ match[m].rev > 0 /\ key \in DOMAIN recipient
           /\ DOMAIN recipient' = DOMAIN recipient
           /\ \A k \in DOMAIN recipient \ {key} : recipient'[k] = recipient[k]
           /\ recipient[key] = "approved" => recipient'[key] = "approved"
           /\ recipient'[key] = "approved" => s \in approvals'[m]
           /\ s \in approvals'[m] \ approvals[m] => recipient'[key] = "approved"
           /\ \A n \in Pairs : approvals[n] \subseteq approvals'[n]
           /\ \A n \in Pairs \ {m} : approvals'[n] = approvals[n]
           /\ approvals'[m] \subseteq approvals[m] \cup {s}
<1> DEFINE key == <<m, s, match[m].rev>>
<1>1. PICK decision \in {"approved", "passed"} :
          /\ Decide(m, s, decision)
          /\ decision = "approved" => approvals' = [approvals EXCEPT ![m] = @ \cup {s}]
          /\ decision = "passed" => UNCHANGED approvals
  BY DEF Approve, Pass
<1>2. recipient' = IF recipient[key] = "approved" THEN recipient
                   ELSE [recipient EXCEPT ![key] = decision]
  BY <1>1 DEF Decide
<1>3. approvals \in [Pairs -> SUBSET Sides] /\ match[m].rev \in Nat
  BY DEF TypeInv, TypeOK, MatchType
<1>4. match[m].rev > 0
  BY DecidedMatch, HeldMatched
<1>5. key \in DOMAIN recipient
  <2>1. match[m].rev \in 1..match[m].rev  BY <1>3, <1>4
  <2> QED  BY <2>1 DEF DecisionInv, DecisionsOnRecord
<1>6. recipient[key] = "approved" => s \in approvals[m]
  BY <1>5 DEF DecisionInv, ApprovalsOnRecord
<1> HIDE DEF key
<1>7. /\ DOMAIN recipient' = DOMAIN recipient
      /\ \A k \in DOMAIN recipient \ {key} : recipient'[k] = recipient[k]
      /\ recipient[key] = "approved" => recipient'[key] = "approved"
      /\ recipient[key] # "approved" => recipient'[key] = decision
  BY <1>2, <1>5
<1>8. /\ \A n \in Pairs : approvals[n] \subseteq approvals'[n]
      /\ \A n \in Pairs \ {m} : approvals'[n] = approvals[n]
      /\ approvals'[m] \subseteq approvals[m] \cup {s}
      /\ decision = "approved" => s \in approvals'[m]
      /\ s \in approvals'[m] \ approvals[m] => decision = "approved"
  BY <1>1, <1>3
<1>9. /\ recipient'[key] = "approved" => s \in approvals'[m]
      /\ s \in approvals'[m] \ approvals[m] => recipient'[key] = "approved"
  BY <1>6, <1>7, <1>8
<1> QED  BY <1>4, <1>5, <1>7, <1>8, <1>9 DEF key

LEMMA DecidedDecision ==
    ASSUME TypeInv, LockInv, NoticeInv, DecisionInv, NEW m \in Pairs, NEW s \in Sides,
           Approve(m, s) \/ Pass(m, s)
    PROVE  DecisionInv'
<1> DEFINE key == <<m, s, match[m].rev>>
<1>1. /\ match[m].rev > 0 /\ key \in DOMAIN recipient
      /\ DOMAIN recipient' = DOMAIN recipient
      /\ \A k \in DOMAIN recipient \ {key} : recipient'[k] = recipient[k]
      /\ recipient[key] = "approved" => recipient'[key] = "approved"
      /\ recipient'[key] = "approved" => s \in approvals'[m]
      /\ s \in approvals'[m] \ approvals[m] => recipient'[key] = "approved"
      /\ \A n \in Pairs : approvals[n] \subseteq approvals'[n]
      /\ \A n \in Pairs \ {m} : approvals'[n] = approvals[n]
      /\ approvals'[m] \subseteq approvals[m] \cup {s}
  BY DecidedRows
<1>2. /\ match'[m].rev = match[m].rev
      /\ \A n \in Pairs \ {m} : match'[n] = match[n]
      /\ match'[m].status = StatusAfter(m, recipient')
  BY DecidedMatch
<1>3. \A k \in DOMAIN recipient : k \in Keys  BY DEF TypeInv, TypeOK
<1>4. ApprovalsOnRecord'
  <2> SUFFICES ASSUME NEW k \in DOMAIN recipient', recipient'[k] = "approved"
               PROVE  k[2] \in approvals'[k[1]]
    BY DEF ApprovalsOnRecord
  <2>1. CASE k = key  BY <1>1, <2>1
  <2>2. CASE k # key
    <3>1. k \in DOMAIN recipient /\ recipient[k] = "approved"  BY <1>1, <2>2
    <3>2. k[2] \in approvals[k[1]] /\ k[1] \in Pairs
      BY <1>3, <3>1 DEF DecisionInv, ApprovalsOnRecord, Keys
    <3> QED  BY <1>1, <3>2
  <2> QED  BY <2>1, <2>2
<1>5. ASSUME NEW n \in Pairs \ {m}
      PROVE  /\ \A r \in 1..match'[n].rev, t \in Sides : <<n, t, r>> \in DOMAIN recipient'
             /\ (match'[n].status = "approved") <=> (approvals'[n] # {})
             /\ \A t \in approvals'[n] : recipient'[<<n, t, match'[n].rev>>] = "approved"
  <2>1. /\ \A r \in 1..match[n].rev, t \in Sides : <<n, t, r>> \in DOMAIN recipient
        /\ (match[n].status = "approved") <=> (approvals[n] # {})
        /\ \A t \in approvals[n] : recipient[<<n, t, match[n].rev>>] = "approved"
    BY DEF DecisionInv, DecisionsOnRecord
  <2>2. match'[n] = match[n] /\ approvals'[n] = approvals[n]  BY <1>1, <1>2
  <2>3. ASSUME NEW t \in approvals[n]
        PROVE  <<n, t, match[n].rev>> \in DOMAIN recipient \ {key}
    <3>1. match[n].status = "approved" /\ Revision(match[n]) /\ match[n].rev \in Nat
          /\ t \in Sides
      BY <2>1, <2>3 DEF LockInv, TypeInv, TypeOK, MatchType
    <3>2. match[n].rev \in 1..match[n].rev  BY <3>1 DEF Revision
    <3> QED  BY <2>1, <3>1, <3>2
  <2> QED  BY <1>1, <2>1, <2>2, <2>3
<1>6. /\ \A r \in 1..match'[m].rev, t \in Sides : <<m, t, r>> \in DOMAIN recipient'
      /\ (match'[m].status = "approved") <=> (approvals'[m] # {})
      /\ \A t \in approvals'[m] : recipient'[<<m, t, match'[m].rev>>] = "approved"
  <2>1. /\ \A r \in 1..match[m].rev, t \in Sides : <<m, t, r>> \in DOMAIN recipient
        /\ (match[m].status = "approved") <=> (approvals[m] # {})
        /\ \A t \in approvals[m] : recipient[<<m, t, match[m].rev>>] = "approved"
    BY DEF DecisionInv, DecisionsOnRecord
  <2>2. \A t \in Sides : <<m, t, match[m].rev>> \in DOMAIN recipient
    <3>1. match[m].rev \in 1..match[m].rev  BY <1>1 DEF TypeInv, TypeOK, MatchType
    <3> QED  BY <2>1, <3>1
  <2>3. approvals'[m] \subseteq Sides  BY <1>1 DEF TypeInv, TypeOK
  <2>4. \A t \in approvals'[m] : recipient'[<<m, t, match[m].rev>>] = "approved"
    <3> SUFFICES ASSUME NEW t \in approvals'[m]
                 PROVE  recipient'[<<m, t, match[m].rev>>] = "approved"
      OBVIOUS
    <3>1. CASE t = s  BY <1>1, <2>1, <3>1
    <3>2. CASE t # s
      <4>1. t \in approvals[m] /\ t \in Sides  BY <1>1, <2>3, <3>2
      <4>2. <<m, t, match[m].rev>> \in DOMAIN recipient \ {key}  BY <2>2, <3>2, <4>1
      <4> QED  BY <1>1, <2>1, <4>1, <4>2
    <3> QED  BY <3>1, <3>2
  <2>5. \A t \in Sides : recipient'[<<m, t, match[m].rev>>] = "approved" => t \in approvals'[m]
    <3> SUFFICES ASSUME NEW t \in Sides, recipient'[<<m, t, match[m].rev>>] = "approved"
                 PROVE  t \in approvals'[m]
      OBVIOUS
    <3>1. <<m, t, match[m].rev>> \in DOMAIN recipient'  BY <1>1, <2>2
    <3> QED  BY <1>4, <3>1 DEF ApprovalsOnRecord
  <2> DEFINE current == {recipient'[<<m, t, match[m].rev>>] : t \in Sides}
  <2>6. "approved" \in current <=> approvals'[m] # {}  BY <2>3, <2>4, <2>5
  <2>7. match'[m].status =
            IF "approved" \in current THEN "approved"
            ELSE IF current = {"passed"} THEN "passed_all" ELSE match[m].status
    BY <1>2 DEF StatusAfter
  <2>8. approvals[m] \subseteq approvals'[m]  BY <1>1
  <2> HIDE DEF current
  <2>9. (match'[m].status = "approved") <=> (approvals'[m] # {})
    BY <2>1, <2>6, <2>7, <2>8
  <2> QED  BY <1>1, <1>2, <2>1, <2>4, <2>9
<1>7. DecisionsOnRecord'  BY <1>5, <1>6 DEF DecisionsOnRecord
<1> QED  BY <1>4, <1>7 DEF DecisionInv

LEMMA DecisionStep ==
    ASSUME TypeInv, LockInv, NoticeInv, DecisionInv, [Next]_vars
    PROVE  DecisionInv'
<1>1. CASE UNCHANGED deals
  BY <1>1 DEF deals, DecisionInv, DecisionsOnRecord, ApprovalsOnRecord
<1>2. CASE Committed  BY <1>2, CommittedDecision DEF Committed
<1>3. CASE Decided  BY <1>3, DecidedDecision DEF Decided
<1>4. UNCHANGED deals \/ Committed \/ Decided
  <2>1. Quiet \/ Edited \/ Wrote \/ Reserves \/ Noted \/ Committed \/ Decided
        \/ Still \/ Restarted
    BY Kinds DEF NoticeInv
  <2>2. Noted => UNCHANGED deals  BY NotedRun
  <2> QED  BY <2>1, <2>2 DEF Quiet, Edited, Wrote, Reserves, Still, Restarted
<1> QED  BY <1>1, <1>2, <1>3, <1>4

-----------------------------------------------------------------------------
(* Approved matches.                                                       *)

LEMMA FinalStep ==
    ASSUME TypeInv, LockInv, NoticeInv, DecisionInv, [Next]_vars
    PROVE  \A m \in Pairs : /\ match'[m].rev >= match[m].rev
                            /\ match[m].status = "approved" => match'[m] = match[m]
<1>1. \A m \in Pairs : match'[m].rev >= match[m].rev  BY RevisionsGrow
<1>2. ASSUME NEW m \in Pairs, match[m].status = "approved"  PROVE match'[m] = match[m]
  <2>1. CASE UNCHANGED match  BY <2>1
  <2>2. CASE Committed
    <3>1. PICK i \in Workers : Commit(i)  BY <2>2 DEF Committed
    <3>2. match[m].rev \in Nat /\ match[m].rev > 0
      BY <1>2 DEF TypeInv, TypeOK, MatchType, LockInv, Revision
    <3>3. m \in Owned(i) => Rewritten(match'[m], match[m], w[i].material)
      BY <3>1, CommittedMatch
    <3> QED  BY <1>2, <3>1, <3>2, <3>3, CommittedMatch DEF Rewritten
  <2>3. CASE Decided
    <3>1. PICK n \in Pairs, s \in Sides : Approve(n, s) \/ Pass(n, s)  BY <2>3 DEF Decided
    <3>2. CASE n # m  BY <3>1, <3>2, DecidedMatch
    <3>3. CASE n = m
      <4>1. DecisionInv'  BY <3>1, DecidedDecision
      <4>2. approvals[m] # {}  BY <1>2 DEF DecisionInv, DecisionsOnRecord
      <4>3. approvals[m] \subseteq approvals'[m]  BY <3>1, <3>3, DecidedRows
      <4>4. match'[m].status = "approved"
        BY <4>1, <4>2, <4>3 DEF DecisionInv, DecisionsOnRecord
      <4>5. match' = [match EXCEPT ![m].status = match'[m].status]
        BY <3>1, <3>3, DecidedMatch
      <4>6. match \in [Pairs -> MatchType] /\ match[m] \in MatchType
        BY DEF TypeInv, TypeOK
      <4>7. match'[m] = [match[m] EXCEPT !.status = "approved"]
        BY <4>4, <4>5, <4>6
      <4> QED  BY <1>2, <4>6, <4>7 DEF MatchType
    <3> QED  BY <3>2, <3>3
  <2>4. UNCHANGED match \/ Committed \/ Decided
    <3>1. Quiet \/ Edited \/ Wrote \/ Reserves \/ Noted \/ Committed \/ Decided
          \/ Still \/ Restarted
      BY Kinds DEF NoticeInv
    <3>2. Noted => UNCHANGED match  BY NotedRun DEF deals
    <3> QED  BY <3>1, <3>2 DEF Quiet, Edited, Wrote, Reserves, Still, Restarted, deals
  <2> QED  BY <2>1, <2>2, <2>3, <2>4
<1> QED  BY <1>1, <1>2

-----------------------------------------------------------------------------
(* Revisions.                                                              *)

LEMMA PendingCount ==
    ASSUME NEW A \in SUBSET Workers, NEW B \in SUBSET Workers, NEW i
    PROVE  /\ Cardinality(A) \in Nat /\ Cardinality(B) \in Nat
           /\ A \subseteq B => Cardinality(A) <= Cardinality(B)
           /\ A \subseteq B \cup {i} => Cardinality(A) <= Cardinality(B) + 1
           /\ A \subseteq B \ {i} /\ i \in B => Cardinality(A) <= Cardinality(B) - 1
<1>1. IsFiniteSet(Workers)  BY ConstantsAssumption
<1>2. IsFiniteSet(A) /\ IsFiniteSet(B)  BY <1>1, FS_Subset
<1>3. Cardinality(A) \in Nat /\ Cardinality(B) \in Nat  BY <1>2, FS_CardinalityType
<1>4. ASSUME A \subseteq B  PROVE Cardinality(A) <= Cardinality(B)
  BY <1>2, <1>4, FS_Subset
<1>5. ASSUME A \subseteq B \cup {i}  PROVE Cardinality(A) <= Cardinality(B) + 1
  <2> DEFINE C == B \cup {i}
  <2>1. IsFiniteSet(C) /\ Cardinality(C) \in {Cardinality(B), Cardinality(B) + 1}
    BY <1>2, FS_AddElement
  <2>2. Cardinality(A) <= Cardinality(C)  BY <1>5, <2>1, FS_Subset
  <2> HIDE DEF C
  <2> QED  BY <1>3, <2>1, <2>2
<1>6. ASSUME A \subseteq B \ {i}, i \in B  PROVE Cardinality(A) <= Cardinality(B) - 1
  <2> DEFINE C == B \ {i}
  <2>1. IsFiniteSet(C) /\ Cardinality(C) = Cardinality(B) - 1
    BY <1>2, <1>6, FS_RemoveElement
  <2>2. Cardinality(A) <= Cardinality(C)  BY <1>6, <2>1, FS_Subset
  <2> HIDE DEF C
  <2> QED  BY <1>3, <2>1, <2>2
<1> QED  BY <1>3, <1>4, <1>5, <1>6

(* The sets of pending workers around a step of one of them.               *)
LEMMA PendingNext ==
    ASSUME TypeInv, NEW i \in Workers, NEW y, Moves(i, y), NEW m
    PROVE  /\ Pending(m) \in SUBSET Workers /\ Pending(m)' \in SUBSET Workers
           /\ Pending(m)' \subseteq Pending(m) \cup {i}
           /\ (y = Idle \/ KeptMaterial(w[i], y)) => Pending(m)' \subseteq Pending(m)
           /\ (y = Idle \/ y.material = FALSE \/ ~Owns(m, y.posting)) =>
                  Pending(m)' \subseteq Pending(m) \ {i}
<1>1. w'[i] = y /\ \A j \in Workers \ {i} : w'[j] = w[j]  BY MovesSound
<1>2. Pending(m)' \subseteq Pending(m) \cup {i}  BY <1>1 DEF Pending, At
<1>3. i \in Pending(m)' => y # Idle /\ y.material /\ Owns(m, y.posting)
  BY <1>1 DEF Pending, At, Idle
<1>4. ASSUME KeptMaterial(w[i], y), y # Idle, i \in Pending(m)'  PROVE i \in Pending(m)
  <2>1. w[i] # Idle /\ w[i].material /\ y.posting = w[i].posting
    BY <1>3, <1>4 DEF KeptMaterial
  <2>2. ~At(i, "idle")  BY <2>1, JobAtWork
  <2> QED  BY <1>3, <1>4, <2>1, <2>2 DEF Pending
<1>5. Pending(m) \in SUBSET Workers /\ Pending(m)' \in SUBSET Workers  BY DEF Pending
<1> QED  BY <1>2, <1>3, <1>4, <1>5

(* The types the sums are about.                                           *)
LEMMA EarnedTyped ==
    ASSUME TypeInv, NEW m \in Pairs
    PROVE  /\ match[m].rev \in Nat /\ edits[m[1]] \in Nat /\ edits[m[2]] \in Nat
           /\ m[1] \in Postings /\ m[2] \in Postings
<1>1. m[1] \in Postings /\ m[2] \in Postings  BY DEF Pairs, Postings
<1>2. match[m] \in MatchType /\ edits \in [Postings -> Nat]  BY DEF TypeInv, TypeOK
<1> QED  BY <1>1, <1>2 DEF MatchType

(* Nothing is used up, and nothing pending is added.                       *)
LEMMA EarnedKept ==
    ASSUME TypeInv, EarnedInv, UNCHANGED edits,
           \A m \in Pairs : /\ match'[m].rev = match[m].rev
                            /\ Pending(m)' \subseteq Pending(m)
    PROVE  EarnedInv'
<1> SUFFICES ASSUME NEW m \in Pairs
             PROVE  Used(match'[m].rev) + Cardinality(Pending(m)')
                        <= 1 + edits'[m[1]] + edits'[m[2]]
  BY DEF EarnedInv
<1>1. match[m].rev \in Nat /\ edits[m[1]] \in Nat /\ edits[m[2]] \in Nat  BY EarnedTyped
<1>2. Pending(m) \in SUBSET Workers /\ Pending(m)' \in SUBSET Workers  BY DEF Pending
<1>3. /\ Cardinality(Pending(m)) \in Nat /\ Cardinality(Pending(m)') \in Nat
      /\ Cardinality(Pending(m)') <= Cardinality(Pending(m))
  BY <1>2, PendingCount
<1>4. Used(match[m].rev) + Cardinality(Pending(m)) <= 1 + edits[m[1]] + edits[m[2]]
  BY DEF EarnedInv
<1>5. Used(match'[m].rev) = Used(match[m].rev) /\ Used(match[m].rev) \in Nat
  BY <1>1 DEF Used
<1> QED  BY <1>1, <1>3, <1>4, <1>5

LEMMA EditedEarned ==
    ASSUME TypeInv, EarnedInv, Edited
    PROVE  EarnedInv'
<1>1. PICK i \in Workers, p \in Postings : \E y :
          /\ Moves(i, y) /\ y.posting = p
          /\ edits' = [edits EXCEPT ![p] = @ + 1]
          /\ UNCHANGED deals
  BY DEF Edited
<1>2. PICK y : /\ Moves(i, y) /\ y.posting = p
               /\ edits' = [edits EXCEPT ![p] = @ + 1]
               /\ UNCHANGED match
  BY <1>1 DEF deals
<1> SUFFICES ASSUME NEW m \in Pairs
             PROVE  Used(match'[m].rev) + Cardinality(Pending(m)')
                        <= 1 + edits'[m[1]] + edits'[m[2]]
  BY DEF EarnedInv
<1>3. /\ match[m].rev \in Nat /\ edits[m[1]] \in Nat /\ edits[m[2]] \in Nat
      /\ m[1] \in Postings /\ m[2] \in Postings
  BY EarnedTyped
<1>4. Used(match[m].rev) + Cardinality(Pending(m)) <= 1 + edits[m[1]] + edits[m[2]]
  BY DEF EarnedInv
<1>5. Used(match'[m].rev) = Used(match[m].rev) /\ Used(match[m].rev) \in Nat
  BY <1>2, <1>3 DEF Used
<1>6. edits \in [Postings -> Nat]  BY DEF TypeInv, TypeOK
<1>7. CASE Owns(m, p)
  <2>1. Cardinality(Pending(m)) \in Nat /\ Cardinality(Pending(m)') \in Nat
        /\ Cardinality(Pending(m)') <= Cardinality(Pending(m)) + 1
    BY <1>2, PendingNext, PendingCount
  <2>2. /\ edits'[m[1]] \in {edits[m[1]], edits[m[1]] + 1}
        /\ edits'[m[2]] \in {edits[m[2]], edits[m[2]] + 1}
        /\ edits'[m[1]] = edits[m[1]] + 1 \/ edits'[m[2]] = edits[m[2]] + 1
    BY <1>2, <1>3, <1>6, <1>7 DEF Owns
  <2> QED  BY <1>3, <1>4, <1>5, <2>1, <2>2
<1>8. CASE ~Owns(m, p)
  <2>1. Pending(m)' \subseteq Pending(m) /\ Pending(m) \in SUBSET Workers
        /\ Pending(m)' \in SUBSET Workers
    BY <1>2, <1>8, PendingNext
  <2>2. Cardinality(Pending(m)) \in Nat /\ Cardinality(Pending(m)') \in Nat
        /\ Cardinality(Pending(m)') <= Cardinality(Pending(m))
    BY <2>1, PendingCount
  <2>3. edits'[m[1]] = edits[m[1]] /\ edits'[m[2]] = edits[m[2]]
    BY <1>2, <1>3, <1>6, <1>8 DEF Owns
  <2> QED  BY <1>3, <1>4, <1>5, <2>2, <2>3
<1> QED  BY <1>7, <1>8

LEMMA CommittedEarned ==
    ASSUME TypeInv, LockInv, EarnedInv, NEW i \in Workers, Commit(i)
    PROVE  EarnedInv'
<1>1. PICK y : Moves(i, y) /\ (y = Idle \/ y.material = FALSE)
  BY CommitStep DEF KeptRun
<1>2. UNCHANGED edits /\ w[i] # Idle  BY CommitStep
<1> SUFFICES ASSUME NEW m \in Pairs
             PROVE  Used(match'[m].rev) + Cardinality(Pending(m)')
                        <= 1 + edits'[m[1]] + edits'[m[2]]
  BY DEF EarnedInv
<1>3. match[m].rev \in Nat /\ edits[m[1]] \in Nat /\ edits[m[2]] \in Nat  BY EarnedTyped
<1>4. Used(match[m].rev) + Cardinality(Pending(m)) <= 1 + edits[m[1]] + edits[m[2]]
  BY DEF EarnedInv
<1>5. /\ Pending(m) \in SUBSET Workers /\ Pending(m)' \in SUBSET Workers
      /\ Pending(m)' \subseteq Pending(m) \ {i}
  BY <1>1, PendingNext
<1>6. /\ Cardinality(Pending(m)) \in Nat /\ Cardinality(Pending(m)') \in Nat
      /\ Cardinality(Pending(m)') <= Cardinality(Pending(m))
      /\ i \in Pending(m) => Cardinality(Pending(m)') <= Cardinality(Pending(m)) - 1
  BY <1>5, PendingCount
<1>7. CASE Used(match'[m].rev) = Used(match[m].rev)
  <2>1. Used(match[m].rev) \in Nat  BY <1>3 DEF Used
  <2> QED  BY <1>2, <1>3, <1>4, <1>6, <1>7, <2>1
<1>8. CASE Used(match'[m].rev) # Used(match[m].rev)
  <2>1. m \in Owned(i)  BY <1>8, CommittedMatch
  <2>2. Rewritten(match'[m], match[m], w[i].material) /\ Owns(m, w[i].posting)
    BY <2>1, CommittedMatch
  <2>3. /\ match'[m].rev = match[m].rev + 1 /\ w[i].material /\ match[m].rev > 0
    BY <1>3, <1>8, <2>2 DEF Rewritten, Used
  <2>4. i \in Pending(m)  BY <1>2, <2>2, <2>3, JobAtWork DEF Pending
  <2>5. Used(match'[m].rev) = Used(match[m].rev) + 1 /\ Used(match[m].rev) \in Nat
    BY <1>3, <2>3 DEF Used
  <2> QED  BY <1>2, <1>3, <1>4, <1>6, <2>4, <2>5
<1> QED  BY <1>7, <1>8

LEMMA EarnedStep ==
    ASSUME TypeInv, LockInv, NoticeInv, EarnedInv, [Next]_vars
    PROVE  EarnedInv'
<1>1. ASSUME NEW i \in Workers, NEW y, Moves(i, y), y = Idle \/ KeptMaterial(w[i], y),
             UNCHANGED <<match, edits>>
      PROVE  EarnedInv'
  <2>1. \A m \in Pairs : Pending(m)' \subseteq Pending(m)  BY <1>1, PendingNext
  <2> QED  BY <1>1, <2>1, EarnedKept
<1>2. CASE Quiet  BY <1>1, <1>2 DEF Quiet, Kept, deals
<1>3. CASE Edited  BY <1>3, EditedEarned
<1>4. CASE Wrote
  <2>1. PICK i \in Workers : \E y :
            /\ Moves(i, y) /\ w[i] # Idle /\ y.posting = w[i].posting
            /\ y.material = w[i].material /\ UNCHANGED <<match, edits>>
    BY <1>4 DEF Wrote, deals
  <2> QED  BY <1>1, <2>1 DEF KeptMaterial
<1>5. CASE Reserves  BY <1>1, <1>5 DEF Reserves, KeptRun, deals
<1>6. CASE Noted  BY <1>1, <1>6, NotedRun DEF KeptRun, deals
<1>7. CASE Committed  BY <1>7, CommittedEarned DEF Committed
<1>8. CASE Decided
  <2>1. PICK m \in Pairs, s \in Sides : Approve(m, s) \/ Pass(m, s)  BY <1>8 DEF Decided
  <2>2. UNCHANGED <<w, edits>>  BY <2>1, ApproveTyped, PassTyped
  <2>3. \A n \in Pairs : match'[n].rev = match[n].rev /\ Pending(n)' \subseteq Pending(n)
    BY <2>1, <2>2, DecidedMatch DEF Pending, At
  <2> QED  BY <2>2, <2>3, EarnedKept
<1>9. CASE Still
  <2>1. UNCHANGED <<w, edits, match>>  BY <1>9 DEF Still, deals
  <2>2. \A n \in Pairs : match'[n].rev = match[n].rev /\ Pending(n)' \subseteq Pending(n)
    BY <2>1 DEF Pending, At
  <2> QED  BY <2>1, <2>2, EarnedKept
<1>10. CASE Restarted
  <2>1. UNCHANGED <<match, edits>> /\ \A j \in Workers : w'[j] = Idle
    BY <1>10 DEF Restarted, deals
  <2>2. \A n \in Pairs : match'[n].rev = match[n].rev /\ Pending(n)' \subseteq Pending(n)
    BY <2>1 DEF Pending, At, Idle
  <2> QED  BY <2>1, <2>2, EarnedKept
<1> QED
  BY <1>2, <1>3, <1>4, <1>5, <1>6, <1>7, <1>8, <1>9, <1>10, Kinds DEF NoticeInv

-----------------------------------------------------------------------------
(* The invariant and what follows.                                         *)

LEMMA InitIInv == Init => IInv
<1> SUFFICES ASSUME Init PROVE IInv
  OBVIOUS
<1>1. /\ offered = [l \in Listings |-> None] /\ status = [p \in Postings |-> "none"]
      /\ terms = [p \in Postings |-> None] /\ match = [m \in Pairs |-> NoMatch]
      /\ recipient = <<>> /\ notice = <<>> /\ approvals = [m \in Pairs |-> {}]
      /\ sent = EmptyBag /\ edits = [p \in Postings |-> 0]
      /\ w = [i \in Workers |-> Idle]
      /\ changes = 0 /\ requests = 0 /\ faults = 0
  BY DEF Init
<1>2. DOMAIN recipient = {} /\ DOMAIN notice = {}  BY <1>1
<1>3. IsABag(sent) /\ DOMAIN sent = {}  BY <1>1 DEF EmptyBag, SetToBag, IsABag
<1>4. NoMatch \in MatchType /\ NoMatch.rev = 0 /\ NoMatch.status = "none"
  BY DEF NoMatch, MatchType
<1>5. RowsOK
  BY <1>1, <1>2, <1>3, <1>4, ConstantsAssumption DEF RowsOK
<1>6. WorkersOK  BY <1>1 DEF WorkersOK, Sound
<1>7. \A i \in Workers : At(i, "idle") /\ Owned(i) = {}
  BY <1>1 DEF At, Idle, Owned
<1>8. LockInv
  <2>1. \A m \in Pairs : Revision(match[m])  BY <1>1, <1>4 DEF Revision
  <2> QED  BY <1>7, <2>1 DEF LockInv, LocksExclusive, WritesCurrent
<1>9. NoticeInv
  BY <1>1, <1>2, <1>3, <1>7 DEF NoticeInv, NoticesPast, NoteReserved, NotesExclusive,
     NotifiedOnce, At, Idle
<1>10. DecisionInv
  BY <1>1, <1>2, <1>4 DEF DecisionInv, DecisionsOnRecord, ApprovalsOnRecord
<1>11. EarnedInv
  <2> SUFFICES ASSUME NEW m \in Pairs
               PROVE  Used(match[m].rev) + Cardinality(Pending(m))
                          <= 1 + edits[m[1]] + edits[m[2]]
    BY DEF EarnedInv
  <2>1. Pending(m) = {}  BY <1>7 DEF Pending
  <2>2. Cardinality(Pending(m)) = 0  BY <2>1, FS_EmptySet
  <2>3. Used(match[m].rev) = 1  BY <1>1, <1>4 DEF Used
  <2>4. edits[m[1]] = 0 /\ edits[m[2]] = 0  BY <1>1 DEF Pairs, Postings
  <2> QED  BY <2>2, <2>3, <2>4
<1> QED  BY <1>5, <1>6, <1>8, <1>9, <1>10, <1>11, TypeInvParts DEF IInv

LEMMA StepIInv == IInv /\ [Next]_vars => IInv'
<1> SUFFICES ASSUME IInv, [Next]_vars PROVE IInv'
  OBVIOUS
<1>1. TypeInv /\ LockInv /\ NoticeInv /\ DecisionInv /\ EarnedInv /\ NoteReserved
  BY DEF IInv, NoticeInv
<1>2. TypeInv'  BY <1>1, Kinds
<1>3. LockInv'  BY <1>1, LockStep
<1>4. NoticeInv'  BY <1>1, NoticeStep
<1>5. DecisionInv'  BY <1>1, DecisionStep
<1>6. EarnedInv'  BY <1>1, EarnedStep
<1> QED  BY <1>2, <1>3, <1>4, <1>5, <1>6 DEF IInv

LEMMA Invariance == Spec => []IInv
<1>1. Init => IInv  BY InitIInv
<1>2. IInv /\ [Next]_vars => IInv'  BY StepIInv
<1> QED  BY <1>1, <1>2, PTL DEF Spec

(* Every row, counter and local variable keeps its type, at every step of  *)
(* a sync, a webhook and a reconciliation.                                 *)
THEOREM TypeCorrect == Spec => []TypeOK
<1>1. IInv => TypeOK  BY DEF IInv, TypeInv
<1> QED  BY <1>1, Invariance, PTL

(* A recipient is notified once of each revision of a match, however many  *)
(* runs of the matching meet on it, and only what was sent is marked so    *)
(* (createAndSendNotificationsForMatchRevision).                           *)
THEOREM NotifiedOnlyOnce == Spec => []NotifiedOnce
<1>1. IInv => NotifiedOnce  BY DEF IInv, NoticeInv
<1> QED  BY <1>1, Invariance, PTL

LEMMA RevisionsEarned == IInv => RevisionsAreEarned
<1> SUFFICES ASSUME IInv, NEW m \in Pairs
             PROVE  match[m].rev <= 1 + edits[m[1]] + edits[m[2]]
  BY DEF RevisionsAreEarned
<1>1. Used(match[m].rev) + Cardinality(Pending(m)) <= 1 + edits[m[1]] + edits[m[2]]
  BY DEF IInv, EarnedInv
<1>2. match[m].rev \in Nat /\ edits[m[1]] \in Nat /\ edits[m[2]] \in Nat
  BY EarnedTyped DEF IInv
<1>3. Pending(m) \in SUBSET Workers  BY DEF Pending
<1>4. Cardinality(Pending(m)) \in Nat  BY <1>3, PendingCount
<1>5. match[m].rev <= Used(match[m].rev) /\ Used(match[m].rev) \in Nat
  BY <1>2 DEF Used
<1> QED  BY <1>1, <1>2, <1>4, <1>5

(* Every revision has its recipients, who has approved is on record at the *)
(* revision the match stays at, and after its first revision a match has   *)
(* no more than its postings have had creations and material edits         *)
(* (upsertMatch, ensureRecipients, syncMatchStatusAfterDecision).          *)
THEOREM RevisionsAreAccounted == Spec => []RevisionsAccounted
<1>1. IInv => RevisionsAccounted
  BY RevisionsEarned DEF IInv, DecisionInv, RevisionsAccounted
<1> QED  BY <1>1, Invariance, PTL

(* No revision is taken back, and an approved match stays as it is         *)
(* (upsertMatch).                                                          *)
THEOREM ApprovalIsFinal == Spec => ApprovedIsFinal
<1>1. IInv /\ [Next]_vars =>
          [\A m \in Pairs : /\ match'[m].rev >= match[m].rev
                            /\ match[m].status = "approved" => match'[m] = match[m]]_vars
  BY FinalStep DEF IInv
<1> QED  BY <1>1, Invariance, PTL DEF Spec, ApprovedIsFinal
=============================================================================
