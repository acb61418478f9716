------------------------- MODULE MatchApprovalProofs -------------------------
(***************************************************************************)
(* What holds of MatchApproval for all accounts, postings, matches,        *)
(* handlers, limits, faults and bounds.  The argument is that of two       *)
(* locks: whoever is deciding on a match has its row, and whoever is past  *)
(* the gate has the account's row, so that what was read under a lock is   *)
(* still true at the commit; and that every message is preceded by an      *)
(* UPDATE or INSERT that only one call can win.                            *)
(***************************************************************************)
EXTENDS MatchApproval, FiniteSetTheorems, TLAPS

(* The stages of the transaction of approveMatch with the match's row, and *)
(* with the account's row besides.                                         *)
PastGate == {"read", "intro", "refer", "commit"}
PastLock == PastGate \cup {"gate"}

(* Stages belong to operations, and the gate has said what is billed.       *)
StageKnown == \A i \in Handlers :
    /\ At(i, "gate") => h[i].op = "approve"
    /\ At(i, "answer") \/ At(i, "approvers") => h[i].op = "confirm"
    /\ h[i].pc \in PastGate /\ h[i].op = "approve" =>
          h[i].kind \in {"complimentary_approval", "paid_approval"}

TypeInv == TypeOK /\ StageKnown

(* A call is one of a party, about a party's contact.                      *)
CallerIsParty == \A i \in Handlers :
    ~At(i, "idle") => h[i].u \in Parties(h[i].m) /\ h[i].to \in Parties(h[i].m)

(* No row is locked for update twice.                                      *)
LocksExclusive == \A i, j \in Handlers : i # j => h[i].own \cap h[j].own = {}

(* What an approval has read is still so when it commits.                  *)
MatchLocked == \A i \in Handlers :
    h[i].pc \in PastLock /\ h[i].op = "approve" =>
        /\ MatchRow(h[i].m) \in h[i].own
        /\ h[i].u \notin approvals[h[i].m]

AccountLocked == \A i \in Handlers :
    h[i].pc \in PastGate /\ h[i].op = "approve" =>
        /\ UserRow(h[i].u) \in h[i].own
        /\ h[i].kind = "complimentary_approval" => trialUsed[h[i].u] < ComplimentaryLimit

LockInv == CallerIsParty /\ LocksExclusive /\ MatchLocked /\ AccountLocked

(* Only parties approve.                                                   *)
ApproversAreParties == \A m \in Matches : approvals[m] \subseteq Parties(m)

AccountInv == ApprovalsAccounted /\ ApproversAreParties

(* The consent an account's contact needs, as of any time before.          *)
Entitled(m, u) ==
    /\ u \in approvals[m]
    /\ LET v == Other(m, u) IN PostingOf(m, v) \in Shareable \/ v \in consented[m]

ConsentOnRecord ==
    /\ \A m \in Matches, u \in Users : confirmed[m][u] = "yes" => u \in consented[m]
    /\ \A i \in Handlers : h[i].pc \in {"claim", "tell"} => Entitled(h[i].m, h[i].to)

DisclosureInv == ConsentOnRecord /\ ContactAuthorized

(* A message has been claimed by the call that sends it, and by no other.  *)
Telling(i, m, u) == At(i, "tell") /\ h[i].m = m /\ h[i].to = u
Requesting(i, m, u) == At(i, "request") /\ h[i].m = m /\ Other(m, h[i].u) = u
Converting(i, u) == At(i, "convert") /\ h[i].u = u

ToldOnce == \A m \in Matches, u \in Users :
    /\ told[m][u] <= 1
    /\ told[m][u] = 1 => u \in delivered[m]
    /\ \A i \in Handlers : Telling(i, m, u) =>
          /\ u \in delivered[m] /\ told[m][u] = 0
          /\ \A j \in Handlers : Telling(j, m, u) => i = j

AskedOnce == \A m \in Matches, u \in Users :
    /\ asked[m][u] <= 1
    /\ asked[m][u] = 1 => confirmed[m][u] # "none"
    /\ \A i \in Handlers : Requesting(i, m, u) =>
          /\ confirmed[m][u] # "none" /\ asked[m][u] = 0
          /\ \A j \in Handlers : Requesting(j, m, u) => i = j

ConvertedOnce == \A u \in Users :
    /\ converted[u] <= 1
    /\ converted[u] = 1 => trialUsed[u] >= ComplimentaryLimit
    /\ \A i \in Handlers : Converting(i, u) =>
          /\ trialUsed[u] >= ComplimentaryLimit /\ converted[u] = 0
          /\ \A j \in Handlers : Converting(j, u) => i = j

MessageInv == ToldOnce /\ AskedOnce /\ ConvertedOnce

IInv == TypeInv /\ LockInv /\ AccountInv /\ DisclosureInv /\ MessageInv

-----------------------------------------------------------------------------
(* Facts about the two parties of a match.                                 *)

LEMMA PartiesAreUsers ==
    ASSUME NEW m \in Matches
    PROVE  /\ Parties(m) \subseteq Users
           /\ \A u : /\ Other(m, u) \in Parties(m) /\ Other(m, u) # u
                    /\ PostingOf(m, u) \in {FsPosting[m], WtbPosting[m]}
                    /\ PostingOf(m, u) \in Postings
<1>1. FsPosting[m] \in Postings /\ WtbPosting[m] \in Postings
  BY ConstantsAssumption
<1>2. OwnerOf[FsPosting[m]] \in Users /\ OwnerOf[WtbPosting[m]] \in Users
  BY <1>1, ConstantsAssumption
<1>3. OwnerOf[FsPosting[m]] # OwnerOf[WtbPosting[m]]
  BY ConstantsAssumption
<1>4. ASSUME NEW u PROVE Other(m, u) \in Parties(m) /\ Other(m, u) # u
  <2>1. \E v \in Parties(m) : v # u
    BY <1>3 DEF Parties
  <2> QED
    BY <2>1 DEF Other
<1> QED
  BY <1>1, <1>2, <1>4 DEF Parties, PostingOf

(* A match has no third party.                                             *)
LEMMA OtherOfOther ==
    ASSUME NEW m \in Matches, NEW u \in Parties(m)
    PROVE  Other(m, Other(m, u)) = u
<1>1. Other(m, u) \in Parties(m) /\ Other(m, u) # u
  BY PartiesAreUsers
<1>2. Other(m, Other(m, u)) \in Parties(m) /\ Other(m, Other(m, u)) # Other(m, u)
  BY PartiesAreUsers
<1> QED
  BY <1>1, <1>2 DEF Parties

-----------------------------------------------------------------------------
(* Types.                                                                  *)

LEMMA AwakeIsTyped ==
    ASSUME TypeOK, NEW i \in Handlers, h[i].pc # "idle"
    PROVE  h[i] \in HandlerType
BY DEF TypeOK, Idle

LEMMA InitTyped == Init => TypeInv
BY ConstantsAssumption DEF Init, TypeInv, TypeOK, StageKnown, At, PastGate, Idle

(* A step of one handler, to the state x, keeps the others' types.         *)
StageOf(x) ==
    /\ x.pc = "gate" => x.op = "approve"
    /\ x.pc \in {"answer", "approvers"} => x.op = "confirm"
    /\ x.pc \in PastGate /\ x.op = "approve" =>
          x.kind \in {"complimentary_approval", "paid_approval"}

HandlersTyped == h \in [Handlers -> HandlerType \cup {Idle}] /\ StageKnown

LEMMA MoveTyped ==
    ASSUME TypeInv, NEW i \in Handlers, NEW x \in HandlerType \cup {Idle}, StageOf(x),
           h' = [h EXCEPT ![i] = x]
    PROVE  HandlersTyped'
BY DEF TypeInv, TypeOK, StageKnown, StageOf, At, HandlersTyped

LEMMA FinishTyped ==
    ASSUME TypeInv, NEW i \in Handlers, Finish(i)
    PROVE  HandlersTyped'
<1>1. StageOf(Idle)
  BY DEF StageOf, Idle, PastGate
<1> QED
  BY <1>1, MoveTyped DEF Finish

LEMMA GotoTyped ==
    ASSUME TypeInv, NEW i \in Handlers, h[i].pc # "idle", NEW pc, Goto(i, pc),
           pc \in {"commit", "convert", "reveal", "claim", "tell", "ask", "request",
                   "approvers", "waiting"},
           pc = "commit" => h[i].pc \in PastGate,
           pc = "approvers" => h[i].op = "confirm"
    PROVE  HandlersTyped'
<1> DEFINE x == [h[i] EXCEPT !.pc = pc]
<1>1. h[i] \in HandlerType /\ x \in HandlerType
  BY AwakeIsTyped DEF HandlerType, TypeInv
<1>2. x.pc = pc /\ x.op = h[i].op /\ x.kind = h[i].kind
  BY <1>1 DEF HandlerType
<1>3. StageOf(x)
  BY <1>2 DEF TypeInv, StageOf, StageKnown, PastGate, At
<1>4. h' = [h EXCEPT ![i] = x]
  BY DEF Goto
<1> HIDE DEF x
<1> QED
  BY <1>1, <1>3, <1>4, MoveTyped

LEMMA AfterDeliveryTyped ==
    ASSUME TypeInv, NEW i \in Handlers, h[i].pc # "idle", AfterDelivery(i)
    PROVE  HandlersTyped'
BY GotoTyped, FinishTyped DEF AfterDelivery

(* The transaction of an approval, and what follows it.                    *)
LEMMA LockMatchTyped ==
    ASSUME TypeInv, NEW i \in Handlers, LockMatch(i)
    PROVE  TypeInv'
<1> DEFINE x == [h[i] EXCEPT !.pc = "gate", !.own = @ \cup {MatchRow(h[i].m)}]
<1>1. h[i] \in HandlerType /\ h[i].op = "approve"
  BY AwakeIsTyped DEF LockMatch, At, TypeInv
<1>2. x \in HandlerType /\ StageOf(x)
  BY <1>1 DEF HandlerType, Rows, StageOf, PastGate
<1>3. Finish(i) \/ h' = [h EXCEPT ![i] = x]
  BY DEF LockMatch
<1>4. HandlersTyped'
  <2> HIDE DEF x
  <2> QED
    BY <1>2, <1>3, MoveTyped, FinishTyped
<1> QED
  BY <1>4 DEF LockMatch, TypeInv, TypeOK, HandlersTyped, billing, decisions, connection

LEMMA GateTyped ==
    ASSUME TypeInv, NEW i \in Handlers, Gate(i)
    PROVE  TypeInv'
<1> DEFINE x(kind) == [h[i] EXCEPT !.pc = "read", !.kind = kind,
                                   !.own = @ \cup {UserRow(h[i].u)}]
<1>1. h[i] \in HandlerType
  BY AwakeIsTyped DEF Gate, At, TypeInv
<1>2. \A kind \in {"complimentary_approval", "paid_approval"} :
          x(kind) \in HandlerType /\ StageOf(x(kind))
  BY ZenonT(40), <1>1 DEF HandlerType, Rows, StageOf, PastGate
<1>3. Finish(i) \/ \E kind \in {"complimentary_approval", "paid_approval"} :
                       h' = [h EXCEPT ![i] = x(kind)]
  BY DEF Gate
<1>4. HandlersTyped'
  <2> HIDE DEF x
  <2> QED
    BY <1>2, <1>3, MoveTyped, FinishTyped
<1> QED
  BY <1>4 DEF Gate, TypeInv, TypeOK, HandlersTyped, billing, decisions, connection

LEMMA CommitApprovalTyped ==
    ASSUME TypeInv, NEW i \in Handlers, CommitApproval(i)
    PROVE  TypeInv'
<1> DEFINE m == h[i].m
           u == h[i].u
           p == PostingOf(m, u)
           x(pc) == [Unlock(h[i]) EXCEPT !.pc = pc]
<1>1. /\ h[i] \in HandlerType
      /\ h[i].kind \in {"complimentary_approval", "paid_approval"}
  BY AwakeIsTyped DEF CommitApproval, At, TypeInv, StageKnown, PastGate
<1>2. m \in Matches /\ u \in Users /\ p \in Postings
  BY <1>1, PartiesAreUsers DEF HandlerType
<1>3. \A pc \in {"convert", "reveal"} : x(pc) \in HandlerType /\ StageOf(x(pc))
  BY <1>1 DEF HandlerType, Unlock, StageOf, PastGate
<1>4. \E pc \in {"convert", "reveal"} : h' = [h EXCEPT ![i] = x(pc)]
  BY DEF CommitApproval
<1>5. HandlersTyped'
  <2> HIDE DEF x
  <2> QED
    BY <1>3, <1>4, MoveTyped
<1>6. ledger' \in [Matches -> [Users -> Seq({"complimentary_approval", "paid_approval"})]]
  <2> DEFINE row == [ledger[m] EXCEPT ![u] = Append(@, h[i].kind)]
  <2>1. row \in [Users -> Seq({"complimentary_approval", "paid_approval"})]
    BY <1>1, <1>2 DEF TypeInv, TypeOK
  <2>2. ledger' = [ledger EXCEPT ![m] = row]
    BY DEF CommitApproval
  <2> HIDE DEF row
  <2> QED
    BY <1>2, <2>1, <2>2 DEF TypeInv, TypeOK
<1>7. approvals' \in [Matches -> SUBSET Users]
  BY <1>2 DEF CommitApproval, TypeInv, TypeOK
<1>8. trialUsed' \in [Users -> Nat]
  BY <1>2 DEF CommitApproval, TypeInv, TypeOK
<1>9. /\ approvedCount' \in [Postings -> Nat]
      /\ postingStatus' \in [Postings -> {"active", "completed_match_limit"}]
  <2>1. approvedCount' = [approvedCount EXCEPT ![p] = @ + 1]
    BY DEF CommitApproval
  <2>2. \/ postingStatus' = postingStatus
        \/ postingStatus' = [postingStatus EXCEPT ![p] = "completed_match_limit"]
    BY DEF CommitApproval
  <2> HIDE DEF p
  <2>3. approvedCount' \in [Postings -> Nat]
    BY <1>2, <2>1 DEF TypeInv, TypeOK
  <2>4. postingStatus' \in [Postings -> {"active", "completed_match_limit"}]
    BY <1>2, <2>2 DEF TypeInv, TypeOK
  <2> QED
    BY <2>3, <2>4
<1>10. /\ decision' \in [Matches -> [Users -> {"pending", "approved", "passed"}]]
       /\ matchStatus' \in [Matches -> {"surfaced", "approved", "passed_all"}]
  BY <1>2 DEF CommitApproval, TypeInv, TypeOK
<1>11. intro' \in [Matches -> {"none", "pending", "contact_shared", "completed"}]
  BY <1>1, <1>2 DEF CommitApproval, TypeInv, TypeOK, HandlerType
<1> QED
  BY <1>5, <1>6, <1>7, <1>8, <1>9, <1>10, <1>11
     DEF CommitApproval, TypeInv, TypeOK, HandlersTyped

LEMMA ConvertTyped ==
    ASSUME TypeInv, NEW i \in Handlers, Convert(i)
    PROVE  TypeInv'
<1>1. HandlersTyped'
  BY GotoTyped DEF Convert, At
<1>2. converted' \in [Users -> Nat]
  BY SMTT(20), AwakeIsTyped DEF Convert, At, TypeInv, TypeOK, HandlerType
<1> QED
  BY <1>1, <1>2 DEF Convert, TypeInv, TypeOK, HandlersTyped, decisions, connection

(* syncIntroduction.                                                       *)
LEMMA SyncTyped ==
    ASSUME TypeInv, NEW i \in Handlers,
           ReadApprovals(i) \/ ReadConfirmations(i) \/ WriteIntro(i) \/ ReferIntro(i)
    PROVE  TypeInv'
<1> SUFFICES HandlersTyped'
  BY DEF ReadApprovals, ReadConfirmations, WriteIntro, ReferIntro, TypeInv, TypeOK,
         HandlersTyped, billing, decisions, connection
<1>1. h[i] \in HandlerType
  BY AwakeIsTyped DEF ReadApprovals, ReadConfirmations, WriteIntro, ReferIntro, At, TypeInv
<1>2. h[i].pc \in PastGate /\ h[i].op = "approve" =>
          h[i].kind \in {"complimentary_approval", "paid_approval"}
  BY DEF TypeInv, StageKnown
<1>3. h[i].m \in Matches
  BY <1>1 DEF HandlerType
<1>4. CASE ReadApprovals(i)
  <2> DEFINE x == [h[i] EXCEPT !.pc = "read", !.who = approvals[h[i].m]]
  <2>1. h[i].op = "confirm"
    BY <1>4 DEF ReadApprovals, TypeInv, StageKnown
  <2>2. approvals[h[i].m] \in SUBSET Users
    BY <1>3 DEF TypeInv, TypeOK
  <2>3. x \in HandlerType /\ StageOf(x)
    BY <1>1, <2>1, <2>2 DEF HandlerType, StageOf, PastGate
  <2>4. h' = [h EXCEPT ![i] = x]
    BY <1>4 DEF ReadApprovals
  <2> HIDE DEF x
  <2> QED
    BY <2>3, <2>4, MoveTyped
<1>5. CASE ReadConfirmations(i)
  <2> DEFINE x(who) == [h[i] EXCEPT !.pc = "intro", !.seen = IntroStatus(h[i].m, who)]
  <2>1. \A who : IntroStatus(h[i].m, who) \in {"pending", "contact_shared", "completed"}
    BY DEF IntroStatus
  <2>2. \A who : x(who) \in HandlerType /\ StageOf(x(who))
    BY <1>1, <1>2, <1>5, <2>1 DEF ReadConfirmations, At, HandlerType, StageOf, PastGate
  <2>3. \E who : h' = [h EXCEPT ![i] = x(who)]
    BY <1>5 DEF ReadConfirmations
  <2> HIDE DEF x
  <2> QED
    BY <2>2, <2>3, MoveTyped
<1>6. CASE WriteIntro(i)
  <2> DEFINE x(pc) == [h[i] EXCEPT !.pc = pc, !.own = @ \cup {IntroRow(h[i].m)}]
  <2>1. \A pc \in {"refer", "commit"} : x(pc) \in HandlerType /\ StageOf(x(pc))
    BY <1>1, <1>2, <1>6 DEF WriteIntro, At, HandlerType, Rows, StageOf, PastGate
  <2>2. \E pc \in {"refer", "commit"} : h' = [h EXCEPT ![i] = x(pc)]
    BY <1>6 DEF WriteIntro
  <2> HIDE DEF x
  <2> QED
    BY <2>1, <2>2, MoveTyped
<1>7. CASE ReferIntro(i)
  <2> DEFINE x == [h[i] EXCEPT !.pc = "commit", !.ref = Refers(i)]
  <2>1. Refers(i) = {MatchRow(h[i].m)} \cup {UserRow(u) : u \in Parties(h[i].m)}
    BY <1>7 DEF ReferIntro, Refers, At
  <2>2. Refers(i) \subseteq Rows
    BY <1>3, <2>1, PartiesAreUsers DEF Rows
  <2>3. x \in HandlerType /\ StageOf(x)
    BY <1>1, <1>2, <1>7, <2>2 DEF ReferIntro, At, HandlerType, StageOf, PastGate
  <2>4. h' = [h EXCEPT ![i] = x]
    BY <1>7 DEF ReferIntro
  <2> HIDE DEF x
  <2> QED
    BY <2>3, <2>4, MoveTyped
<1> QED
  BY <1>4, <1>5, <1>6, <1>7

(* Delivery, and the request for a confirmation.                           *)
LEMMA MessagesTyped ==
    ASSUME TypeInv, NEW i \in Handlers,
           Reveal(i) \/ Claim(i) \/ Tell(i) \/ Ask(i) \/ SendRequest(i)
    PROVE  TypeInv'
<1> USE DEF At, billing, decisions, connection
<1>1. h[i].pc # "idle" /\ h[i] \in HandlerType
  BY AwakeIsTyped DEF Reveal, Claim, Tell, Ask, SendRequest, TypeInv
<1>2. h[i].m \in Matches /\ h[i].to \in Users /\ Other(h[i].m, h[i].u) \in Users
  BY <1>1, PartiesAreUsers DEF HandlerType
<1>3. HandlersTyped'
  BY <1>1, GotoTyped, FinishTyped, AfterDeliveryTyped
     DEF Reveal, Claim, Tell, Ask, SendRequest
<1>4. CASE Reveal(i)
  BY <1>3, <1>4 DEF Reveal, TypeInv, TypeOK, HandlersTyped
<1>5. CASE Claim(i)
  <2>1. UNCHANGED delivered \/ delivered' = [delivered EXCEPT ![h[i].m] = @ \cup {h[i].to}]
    BY <1>5 DEF Claim
  <2>2. delivered' \in [Matches -> SUBSET Users]
    <3>1. delivered \in [Matches -> SUBSET Users]
      BY DEF TypeInv, TypeOK
    <3> QED
      BY <1>2, <2>1, <3>1
  <2> QED
    BY <1>3, <1>5, <2>2 DEF Claim, TypeInv, TypeOK, HandlersTyped
<1>6. CASE Tell(i)
  <2>1. told' \in [Matches -> [Users -> Nat]]
    <3>1. told \in [Matches -> [Users -> Nat]]
      BY DEF TypeInv, TypeOK
    <3>2. told' = [told EXCEPT ![h[i].m][h[i].to] = @ + 1]
      BY <1>6 DEF Tell
    <3> QED
      BY <1>2, <3>1, <3>2
  <2> QED
    BY <1>3, <1>6, <2>1 DEF Tell, TypeInv, TypeOK, HandlersTyped
<1>7. CASE Ask(i)
  <2>1. \/ UNCHANGED confirmed
        \/ confirmed' = [confirmed EXCEPT ![h[i].m][Other(h[i].m, h[i].u)] = "no"]
    BY <1>7 DEF Ask, Placeholder
  <2>2. confirmed' \in [Matches -> [Users -> {"none", "no", "yes"}]]
    <3>1. confirmed \in [Matches -> [Users -> {"none", "no", "yes"}]]
      BY DEF TypeInv, TypeOK
    <3> QED
      BY <1>2, <2>1, <3>1
  <2> QED
    BY <1>3, <1>7, <2>2 DEF Ask, TypeInv, TypeOK, HandlersTyped
<1>8. CASE SendRequest(i)
  <2>1. asked' \in [Matches -> [Users -> Nat]]
    <3>1. asked \in [Matches -> [Users -> Nat]]
      BY DEF TypeInv, TypeOK
    <3>2. asked' = [asked EXCEPT ![h[i].m][Other(h[i].m, h[i].u)] = @ + 1]
      BY <1>8 DEF SendRequest
    <3> QED
      BY <1>2, <3>1, <3>2
  <2> QED
    BY <1>3, <1>8, <2>1 DEF SendRequest, TypeInv, TypeOK, HandlersTyped
<1> QED
  BY <1>4, <1>5, <1>6, <1>7, <1>8

(* passMatch and confirmCounterparty.                                      *)
LEMMA AnswersTyped ==
    ASSUME TypeInv, NEW i \in Handlers,
           Pass(i) \/ Answer(i) \/ CommitSync(i) \/ FindWaiting(i)
    PROVE  TypeInv'
<1> USE DEF At, billing, decisions, connection
<1>1. h[i].pc # "idle" /\ h[i] \in HandlerType
  BY AwakeIsTyped DEF Pass, Answer, CommitSync, FindWaiting, TypeInv
<1>2. h[i].m \in Matches /\ h[i].u \in Users /\ Other(h[i].m, h[i].u) \in Users
  BY <1>1, PartiesAreUsers DEF HandlerType
<1>3. CASE Pass(i)
  <2> DEFINE m == h[i].m
             u == h[i].u
             d == IF KeepsDecision(m, u) THEN decision[m]
                                         ELSE [decision[m] EXCEPT ![u] = "passed"]
  <2>1. HandlersTyped'
    BY <1>3, FinishTyped DEF Pass
  <2>2. d \in [Users -> {"pending", "approved", "passed"}]
    BY <1>2 DEF TypeInv, TypeOK
  <2>3. decision' = [decision EXCEPT ![m] = d]
    BY <1>3 DEF Pass
  <2>4. matchStatus' \in [Matches -> {"surfaced", "approved", "passed_all"}]
    BY <1>2, <1>3 DEF Pass, TypeInv, TypeOK
  <2> HIDE DEF d
  <2>5. decision' \in [Matches -> [Users -> {"pending", "approved", "passed"}]]
    BY <1>2, <2>2, <2>3 DEF TypeInv, TypeOK
  <2> QED
    BY <1>3, <2>1, <2>4, <2>5 DEF Pass, TypeInv, TypeOK, HandlersTyped
<1>4. CASE Answer(i)
  <2>1. HandlersTyped'
    BY <1>1, <1>4, GotoTyped DEF Answer, TypeInv, StageKnown
  <2>2. confirmed' \in [Matches -> [Users -> {"none", "no", "yes"}]]
    BY <1>2, <1>4 DEF Answer, TypeInv, TypeOK
  <2>3. consented' \in [Matches -> SUBSET Users]
    BY <1>2, <1>4 DEF Answer, TypeInv, TypeOK
  <2> QED
    BY <1>4, <2>1, <2>2, <2>3 DEF Answer, TypeInv, TypeOK, HandlersTyped
<1>5. CASE CommitSync(i)
  <2> DEFINE x == [Unlock(h[i]) EXCEPT !.pc = "waiting"]
  <2>1. x \in HandlerType /\ StageOf(x)
    BY <1>1 DEF HandlerType, Unlock, StageOf, PastGate
  <2>2. Finish(i) \/ h' = [h EXCEPT ![i] = x]
    BY <1>5 DEF CommitSync
  <2>3. intro' \in [Matches -> {"none", "pending", "contact_shared", "completed"}]
    BY <1>1, <1>2, <1>5 DEF CommitSync, TypeInv, TypeOK, HandlerType
  <2> HIDE DEF x
  <2>4. HandlersTyped'
    BY <2>1, <2>2, MoveTyped, FinishTyped
  <2> QED
    BY <1>5, <2>3, <2>4 DEF CommitSync, TypeInv, TypeOK, HandlersTyped
<1>6. CASE FindWaiting(i)
  <2> DEFINE x == [h[i] EXCEPT !.pc = "reveal", !.to = Other(h[i].m, h[i].u)]
  <2>1. x \in HandlerType /\ StageOf(x)
    BY <1>1, <1>2 DEF HandlerType, StageOf, PastGate
  <2>2. Finish(i) \/ h' = [h EXCEPT ![i] = x]
    BY <1>6 DEF FindWaiting
  <2> HIDE DEF x
  <2>3. HandlersTyped'
    BY <2>1, <2>2, MoveTyped, FinishTyped
  <2> QED
    BY <1>6, <2>3 DEF FindWaiting, TypeInv, TypeOK, HandlersTyped
<1> QED
  BY <1>3, <1>4, <1>5, <1>6

(* Requests, the administrator, and failures.                              *)
LEMMA RequestTyped ==
    ASSUME TypeInv, NEW i \in Handlers, NEW c \in Calls, Request(i, c)
    PROVE  TypeInv'
<1>1. \A pc \in {"answer", "lock"} : Start(c, pc) \in HandlerType
  BY DEF Calls, Start, HandlerType
<1>2. \A pc \in {"answer", "lock"} : (pc = "answer" => c.op = "confirm") => StageOf(Start(c, pc))
  BY DEF Start, StageOf, PastGate
<1>3. HandlersTyped'
  BY <1>1, <1>2, MoveTyped DEF Request
<1> QED
  BY <1>3, ConstantsAssumption
     DEF Request, TypeInv, TypeOK, HandlersTyped, billing, decisions, connection

LEMMA EnvironmentTyped ==
    ASSUME TypeInv,
           \/ \E u \in Managed : SetOverride(u)
           \/ \E i \in Handlers : Victim(i) \/ Throw(i) \/ SendFails(i)
           \/ Restart
    PROVE  TypeInv'
<1> USE DEF billing, decisions, connection
<1>1. CASE \E u \in Managed : SetOverride(u)
  BY <1>1, ConstantsAssumption DEF SetOverride, TypeInv, TypeOK, StageKnown, At
<1>2. ASSUME NEW i \in Handlers, Victim(i) \/ Throw(i) \/ SendFails(i) PROVE TypeInv'
  <2>1. HandlersTyped'
    BY <1>2, GotoTyped, FinishTyped, AfterDeliveryTyped DEF Victim, Throw, SendFails, At
  <2>2. requests' \in 0..MaxRequests /\ faults' \in 0..MaxFaults
    BY <1>2, ConstantsAssumption DEF Victim, Throw, SendFails, TypeInv, TypeOK
  <2> QED
    BY <1>2, <2>1, <2>2 DEF Victim, Throw, SendFails, TypeInv, TypeOK, HandlersTyped
<1>3. CASE Restart
  BY <1>3, ConstantsAssumption
     DEF Restart, TypeInv, TypeOK, StageKnown, At, Idle, PastGate
<1> QED
  BY <1>1, <1>2, <1>3

LEMMA NextTyped == TypeInv /\ [Next]_vars => TypeInv'
<1> SUFFICES ASSUME TypeInv, [Next]_vars PROVE TypeInv'
  OBVIOUS
<1>1. CASE \E i \in Handlers, c \in Calls : Request(i, c)
  BY <1>1, RequestTyped
<1>2. CASE \E i \in Handlers : Step(i)
  BY <1>2, LockMatchTyped, GateTyped, CommitApprovalTyped, ConvertTyped, SyncTyped,
     MessagesTyped, AnswersTyped, EnvironmentTyped DEF Step
<1>3. CASE \/ \E u \in Managed : SetOverride(u)
           \/ \E i \in Handlers : Throw(i) \/ SendFails(i)
           \/ Restart
  BY <1>3, EnvironmentTyped
<1>4. CASE UNCHANGED vars
  BY <1>4 DEF vars, billing, decisions, connection, TypeInv, TypeOK, StageKnown, At
<1> QED
  BY <1>1, <1>2, <1>3, <1>4 DEF Next

(* Every row and every local holds what it can: in particular the gate has *)
(* said what is billed by the time an approval commits.                    *)
THEOREM TypeCorrect == Spec => []TypeOK
<1>1. TypeInv => TypeOK
  BY DEF TypeInv
<1> QED
  BY <1>1, InitTyped, NextTyped, PTL DEF Spec

-----------------------------------------------------------------------------
(* What a step does to the handlers: it moves one of them, which ends its  *)
(* call or goes on with the same one.                                      *)

Moved(i) == \A j \in Handlers \ {i} : h'[j] = h[j]

SameCall(i) == /\ h[i].pc # "idle"
               /\ h'[i].op = h[i].op /\ h'[i].m = h[i].m /\ h'[i].u = h[i].u

(* No row is locked for update that was not, and none is let go of before  *)
(* the transaction is over.                                                *)
LocksNothing(i) ==
    \/ h'[i] = Idle
    \/ /\ SameCall(i) /\ h'[i].to \in Parties(h[i].m)
       /\ h'[i].own \subseteq h[i].own
       /\ h'[i].op = "approve" /\ h'[i].pc \in PastLock =>
             h[i].pc \in PastLock /\ h'[i].own = h[i].own
       /\ h'[i].op = "approve" /\ h'[i].pc \in PastGate =>
             h[i].pc \in PastGate /\ h'[i].kind = h[i].kind

LEMMA GotoMoves ==
    ASSUME TypeInv, NEW i \in Handlers, h[i].pc # "idle", NEW pc, Goto(i, pc)
    PROVE  /\ Moved(i) /\ SameCall(i)
           /\ h'[i].pc = pc /\ h'[i].to = h[i].to /\ h'[i].kind = h[i].kind
           /\ h'[i].own = h[i].own
<1>1. h[i] \in HandlerType /\ h \in [Handlers -> HandlerType \cup {Idle}]
  BY AwakeIsTyped DEF TypeInv, TypeOK
<1>2. h'[i] = [h[i] EXCEPT !.pc = pc] /\ Moved(i)
  BY <1>1 DEF Goto, Moved
<1> QED
  BY <1>1, <1>2 DEF HandlerType, SameCall

LEMMA FinishMoves ==
    ASSUME TypeInv, NEW i \in Handlers, Finish(i)
    PROVE  Moved(i) /\ h'[i] = Idle
BY DEF TypeInv, TypeOK, Finish, Moved

LEMMA AfterDeliveryMoves ==
    ASSUME TypeInv, NEW i \in Handlers, h[i].pc # "idle", AfterDelivery(i)
    PROVE  /\ Moved(i)
           /\ \/ h'[i] = Idle
              \/ SameCall(i) /\ h'[i].pc = "ask" /\ h'[i].to = h[i].to /\ h'[i].own = h[i].own
BY GotoMoves, FinishMoves DEF AfterDelivery

(* The steps that neither lock a row nor commit an approval.               *)
Onward(i) ==
    \/ Convert(i) \/ ReadApprovals(i) \/ ReadConfirmations(i) \/ ReferIntro(i)
    \/ Reveal(i) \/ Claim(i) \/ Tell(i) \/ Ask(i) \/ SendRequest(i) \/ Pass(i)
    \/ Answer(i) \/ CommitSync(i) \/ FindWaiting(i)
    \/ Victim(i) \/ Throw(i) \/ SendFails(i)

LEMMA OnwardMoves ==
    ASSUME TypeInv, LockInv, NEW i \in Handlers, Onward(i)
    PROVE  Moved(i) /\ LocksNothing(i)
<1> USE DEF At
<1>1. CASE h[i].pc = "idle"
  <2>1. Victim(i)
    BY <1>1 DEF Onward, Convert, ReadApprovals, ReadConfirmations, ReferIntro, Reveal, Claim,
                Tell, Ask, SendRequest, Pass, Answer, CommitSync, FindWaiting, Throw, SendFails
  <2> QED
    BY <2>1, FinishMoves DEF Victim, LocksNothing
<1>2. CASE h[i].pc # "idle"
  <2>1. /\ h[i] \in HandlerType /\ h \in [Handlers -> HandlerType \cup {Idle}]
        /\ h[i].to \in Parties(h[i].m) /\ h[i].u \in Parties(h[i].m) /\ h[i].m \in Matches
    BY <1>2, AwakeIsTyped DEF TypeInv, TypeOK, LockInv, CallerIsParty, HandlerType
  <2>2. CASE Convert(i) \/ Reveal(i) \/ Claim(i) \/ Tell(i) \/ Ask(i) \/ SendRequest(i)
              \/ Pass(i) \/ Victim(i) \/ Throw(i) \/ SendFails(i)
    <3>1. \/ Finish(i) \/ AfterDelivery(i)
          \/ \E pc \in {"reveal", "claim", "tell", "ask", "request"} : Goto(i, pc)
      BY <2>2 DEF Convert, Reveal, Claim, Tell, Ask, SendRequest, Pass, Victim, Throw, SendFails
    <3> QED
      BY <1>2, <2>1, <3>1, GotoMoves, FinishMoves, AfterDeliveryMoves
         DEF LocksNothing, PastLock, PastGate
  <2>3. CASE Answer(i)
    BY <1>2, <2>1, <2>3, GotoMoves DEF Answer, LocksNothing, PastLock, PastGate
  <2>4. CASE ReadApprovals(i)
    <3>1. h'[i] = [h[i] EXCEPT !.pc = "read", !.who = approvals[h[i].m]] /\ Moved(i)
      BY <2>1, <2>4 DEF ReadApprovals, Moved
    <3>2. h[i].op = "confirm"
      BY <2>4 DEF ReadApprovals, TypeInv, StageKnown
    <3> QED
      BY <1>2, <2>1, <3>1, <3>2 DEF HandlerType, LocksNothing, SameCall
  <2>5. CASE ReadConfirmations(i)
    <3>1. /\ \E seen : h'[i] = [h[i] EXCEPT !.pc = "intro", !.seen = seen]
          /\ Moved(i) /\ h[i].pc = "read"
      BY <2>1, <2>5 DEF ReadConfirmations, Moved
    <3> QED
      BY <1>2, <2>1, <3>1 DEF HandlerType, LocksNothing, SameCall, PastLock, PastGate
  <2>6. CASE ReferIntro(i)
    <3>1. /\ \E ref : h'[i] = [h[i] EXCEPT !.pc = "commit", !.ref = ref]
          /\ Moved(i) /\ h[i].pc = "refer"
      BY <2>1, <2>6 DEF ReferIntro, Moved
    <3> QED
      BY <1>2, <2>1, <3>1 DEF HandlerType, LocksNothing, SameCall, PastLock, PastGate
  <2>7. CASE CommitSync(i)
    <3>1. CASE Finish(i)
      BY <3>1, FinishMoves DEF LocksNothing
    <3>2. CASE h' = [h EXCEPT ![i] = [Unlock(@) EXCEPT !.pc = "waiting"]]
      <4>1. h'[i] = [Unlock(h[i]) EXCEPT !.pc = "waiting"] /\ Moved(i)
        BY <2>1, <3>2 DEF Moved
      <4> QED
        BY <1>2, <2>1, <4>1
           DEF HandlerType, Unlock, LocksNothing, SameCall, PastLock, PastGate
    <3> QED
      BY <2>7, <3>1, <3>2 DEF CommitSync
  <2>8. CASE FindWaiting(i)
    <3>1. CASE Finish(i)
      BY <3>1, FinishMoves DEF LocksNothing
    <3>2. CASE h' = [h EXCEPT ![i].pc = "reveal", ![i].to = Other(h[i].m, h[i].u)]
      <4>1. /\ h'[i] = [h[i] EXCEPT !.pc = "reveal", !.to = Other(h[i].m, h[i].u)]
            /\ Moved(i)
        BY <2>1, <3>2 DEF Moved
      <4> QED
        BY <1>2, <2>1, <4>1, PartiesAreUsers
           DEF HandlerType, LocksNothing, SameCall, PastLock, PastGate
    <3> QED
      BY <2>8, <3>1, <3>2 DEF FindWaiting
  <2> QED
    BY <2>2, <2>3, <2>4, <2>5, <2>6, <2>7, <2>8 DEF Onward
<1> QED
  BY <1>1, <1>2

-----------------------------------------------------------------------------
(* The locks.                                                              *)

LEMMA InitLockInv == Init => LockInv
BY DEF Init, LockInv, CallerIsParty, LocksExclusive, MatchLocked, AccountLocked, At, Idle,
       PastLock, PastGate

LEMMA OnwardKeepsLockInv ==
    ASSUME TypeInv, LockInv, NEW i \in Handlers, Onward(i)
    PROVE  LockInv'
<1>1. Moved(i) /\ LocksNothing(i)
  BY OnwardMoves
<1>2. UNCHANGED <<approvals, trialUsed>>
  BY DEF Onward, Convert, ReadApprovals, ReadConfirmations, ReferIntro, Reveal, Claim, Tell,
         Ask, SendRequest, Pass, Answer, CommitSync, FindWaiting, Victim, Throw, SendFails,
         billing, decisions
<1>3. CallerIsParty'
  BY <1>1 DEF LockInv, CallerIsParty, Moved, LocksNothing, SameCall, At, Idle
<1>4. LocksExclusive'
  BY <1>1 DEF LockInv, LocksExclusive, Moved, LocksNothing, Idle
<1>5. MatchLocked'
  BY <1>1, <1>2
     DEF LockInv, MatchLocked, Moved, LocksNothing, SameCall, Idle, PastLock, PastGate
<1>6. AccountLocked'
  BY <1>1, <1>2
     DEF LockInv, AccountLocked, Moved, LocksNothing, SameCall, Idle, PastLock, PastGate
<1> QED
  BY <1>3, <1>4, <1>5, <1>6 DEF LockInv

(* A row that is granted is nobody else's.                                 *)
LEMMA GrantedRow ==
    ASSUME NEW i \in Handlers, Granted(i), NEW r \in Updates(i), NEW j \in Handlers \ {i}
    PROVE  r \notin h[j].own
BY DEF Granted, Blockers

LEMMA LockingKeepsLockInv ==
    ASSUME TypeInv, LockInv, NEW i \in Handlers, LockMatch(i) \/ Gate(i) \/ WriteIntro(i)
    PROVE  LockInv'
<1> USE DEF At
<1>1. /\ h[i].pc # "idle" /\ h[i] \in HandlerType
      /\ h \in [Handlers -> HandlerType \cup {Idle}]
      /\ h[i].to \in Parties(h[i].m) /\ h[i].u \in Parties(h[i].m)
  BY AwakeIsTyped DEF LockMatch, Gate, WriteIntro, TypeInv, TypeOK, LockInv, CallerIsParty
<1>2. UNCHANGED <<approvals, trialUsed>> /\ Granted(i)
  BY DEF LockMatch, Gate, WriteIntro, billing, decisions
<1>3. CASE Finish(i)
  <2>1. Moved(i) /\ h'[i] = Idle
    BY <1>3, FinishMoves
  <2> QED
    BY <1>2, <2>1 DEF LockInv, CallerIsParty, LocksExclusive, MatchLocked, AccountLocked, Moved,
                      Idle, PastLock, PastGate
<1>4. CASE ~Finish(i)
  <2>1. \E r : /\ Updates(i) = {r} /\ h'[i].own = h[i].own \cup {r}
               /\ h'[i].pc = "gate" => r = MatchRow(h[i].m)
               /\ h'[i].pc = "read" => r = UserRow(h[i].u)
    <3>1. CASE LockMatch(i)
      BY <1>1, <1>4, <3>1 DEF LockMatch, Updates, HandlerType
    <3>2. CASE Gate(i)
      BY <1>1, <1>4, <3>2 DEF Gate, Updates, HandlerType
    <3>3. CASE WriteIntro(i)
      BY <1>1, <1>4, <3>3 DEF WriteIntro, Updates, HandlerType
    <3> QED
      BY <3>1, <3>2, <3>3
  <2>2. /\ Moved(i) /\ SameCall(i) /\ h'[i].to = h[i].to
        /\ \/ /\ h'[i].pc = "gate" /\ h[i].u \notin approvals[h[i].m]
           \/ /\ h'[i].pc = "read" /\ h[i].pc = "gate"
              /\ h'[i].kind = "complimentary_approval" => trialUsed[h[i].u] < ComplimentaryLimit
           \/ /\ h'[i].pc \in {"refer", "commit"} /\ h[i].pc = "intro" /\ h'[i].kind = h[i].kind
    <3>1. CASE LockMatch(i)
      BY <1>1, <1>4, <3>1 DEF LockMatch, Moved, SameCall, HandlerType
    <3>2. CASE Gate(i)
      BY <1>1, <1>4, <3>2 DEF Gate, Moved, SameCall, HandlerType
    <3>3. CASE WriteIntro(i)
      BY <1>1, <1>4, <3>3 DEF WriteIntro, Moved, SameCall, HandlerType
    <3> QED
      BY <3>1, <3>2, <3>3
  <2>3. CallerIsParty'
    BY <1>1, <2>2 DEF LockInv, CallerIsParty, Moved, SameCall
  <2>4. LocksExclusive'
    <3>1. \A j \in Handlers \ {i} : h'[i].own \cap h[j].own = {}
      BY <1>2, <2>1, GrantedRow DEF LockInv, LocksExclusive
    <3> QED
      BY <2>2, <3>1 DEF LockInv, LocksExclusive, Moved
  <2>5. MatchLocked'
    BY <1>2, <2>1, <2>2
       DEF LockInv, MatchLocked, TypeInv, StageKnown, Moved, SameCall, PastLock, PastGate
  <2>6. AccountLocked'
    BY <1>2, <2>1, <2>2
       DEF LockInv, AccountLocked, TypeInv, StageKnown, Moved, SameCall, PastLock, PastGate
  <2> QED
    BY <2>3, <2>4, <2>5, <2>6 DEF LockInv
<1> QED
  BY <1>3, <1>4

(* Who commits has both rows, so no other call has read what it changes.   *)
LEMMA CommitMoves ==
    ASSUME TypeInv, NEW i \in Handlers, CommitApproval(i)
    PROVE  /\ Moved(i) /\ SameCall(i) /\ h'[i].to = h[i].to /\ h'[i].own = {}
           /\ h'[i].pc \in {"convert", "reveal"}
           /\ h'[i].pc = "convert" => h[i].kind = "complimentary_approval" /\ LastFree(h[i].u)
           /\ h[i].pc = "commit" /\ h[i].op = "approve"
           /\ h[i].m \in Matches /\ h[i].u \in Users
<1>1. /\ h[i] \in HandlerType /\ h \in [Handlers -> HandlerType \cup {Idle}]
      /\ h[i].pc = "commit" /\ h[i].op = "approve"
  BY AwakeIsTyped DEF CommitApproval, At, TypeInv, TypeOK
<1>2. /\ Moved(i)
      /\ \E pc \in {"convert", "reveal"} :
            /\ h'[i] = [Unlock(h[i]) EXCEPT !.pc = pc]
            /\ pc = "convert" => h[i].kind = "complimentary_approval" /\ LastFree(h[i].u)
  BY <1>1 DEF CommitApproval, Moved
<1> QED
  BY <1>1, <1>2 DEF HandlerType, Unlock, SameCall

LEMMA CommitIsAlone ==
    ASSUME LockInv, NEW i \in Handlers, CommitApproval(i), NEW j \in Handlers \ {i},
           h[j].op = "approve"
    PROVE  /\ h[j].pc \in PastLock => h[j].m # h[i].m
           /\ h[j].pc \in PastGate => h[j].u # h[i].u
BY DEF CommitApproval, At, LockInv, LocksExclusive, MatchLocked, AccountLocked,
       PastLock, PastGate

LEMMA CommitKeepsLockInv ==
    ASSUME TypeInv, LockInv, NEW i \in Handlers, CommitApproval(i)
    PROVE  LockInv'
<1> DEFINE m == h[i].m
           u == h[i].u
<1>1. /\ Moved(i) /\ SameCall(i) /\ h'[i].to = h[i].to /\ h'[i].own = {}
      /\ h'[i].pc \notin PastLock /\ h'[i].pc \notin PastGate
      /\ m \in Matches /\ u \in Users /\ h[i].pc # "idle"
  BY CommitMoves DEF PastLock, PastGate
<1>2. /\ approvals' = [approvals EXCEPT ![m] = @ \cup {u}]
      /\ trialUsed' = trialUsed \/ trialUsed' = [trialUsed EXCEPT ![u] = @ + 1]
  BY DEF CommitApproval
<1>3. CallerIsParty'
  BY <1>1 DEF LockInv, CallerIsParty, Moved, SameCall, At
<1>4. LocksExclusive'
  BY <1>1 DEF LockInv, LocksExclusive, Moved
<1>5. MatchLocked'
  <2>1. ASSUME NEW j \in Handlers, h'[j].pc \in PastLock, h'[j].op = "approve"
        PROVE  MatchRow(h'[j].m) \in h'[j].own /\ h'[j].u \notin approvals'[h'[j].m]
    <3>1. j \in Handlers \ {i} /\ h'[j] = h[j]
      BY <1>1, <2>1 DEF Moved
    <3>2. h[j].m # m /\ h[j].m \in Matches
      BY <2>1, <3>1, CommitIsAlone, AwakeIsTyped DEF TypeInv, PastLock, PastGate, HandlerType
    <3>3. approvals'[h[j].m] = approvals[h[j].m]
      BY <1>2, <3>2 DEF TypeInv, TypeOK
    <3> QED
      BY <2>1, <3>1, <3>3 DEF LockInv, MatchLocked
  <2> QED
    BY <2>1 DEF MatchLocked
<1>6. AccountLocked'
  <2>1. ASSUME NEW j \in Handlers, h'[j].pc \in PastGate, h'[j].op = "approve"
        PROVE  /\ UserRow(h'[j].u) \in h'[j].own
               /\ h'[j].kind = "complimentary_approval" => trialUsed'[h'[j].u] < ComplimentaryLimit
    <3>1. j \in Handlers \ {i} /\ h'[j] = h[j]
      BY <1>1, <2>1 DEF Moved
    <3>2. h[j].u # u /\ h[j].u \in Users
      BY <2>1, <3>1, CommitIsAlone, AwakeIsTyped DEF TypeInv, PastGate, HandlerType
    <3>3. trialUsed'[h[j].u] = trialUsed[h[j].u]
      BY <1>2, <3>2 DEF TypeInv, TypeOK
    <3> QED
      BY <2>1, <3>1, <3>3 DEF LockInv, AccountLocked
  <2> QED
    BY <2>1 DEF AccountLocked
<1> QED
  BY <1>3, <1>4, <1>5, <1>6 DEF LockInv

(* A new call, the administrator, and a restart.                           *)
LEMMA RequestMoves ==
    ASSUME TypeInv, NEW i \in Handlers, NEW c \in Calls, Request(i, c)
    PROVE  /\ Moved(i) /\ h[i].pc = "idle"
           /\ h'[i].pc \in {"answer", "lock"} /\ h'[i].own = {}
           /\ h'[i].u \in Parties(h'[i].m) /\ h'[i].to = h'[i].u
BY DEF Request, Start, TypeInv, TypeOK, Moved, At

LEMMA OutsideKeepsLockInv ==
    ASSUME TypeInv, LockInv,
           \/ \E i \in Handlers, c \in Calls : Request(i, c)
           \/ \E u \in Managed : SetOverride(u)
           \/ Restart
           \/ UNCHANGED vars
    PROVE  LockInv'
<1> USE DEF LockInv, CallerIsParty, LocksExclusive, MatchLocked, AccountLocked, At
<1>1. CASE \E i \in Handlers, c \in Calls : Request(i, c)
  <2>1. PICK i \in Handlers, c \in Calls : Request(i, c)
    BY <1>1
  <2>2. UNCHANGED <<approvals, trialUsed>>
    BY <2>1 DEF Request, billing, decisions
  <2> QED
    BY <2>1, <2>2, RequestMoves DEF Moved, PastLock, PastGate
<1>2. CASE \E u \in Managed : SetOverride(u)
  BY <1>2 DEF SetOverride, decisions
<1>3. CASE Restart
  BY <1>3 DEF Restart, Idle, PastLock, PastGate
<1>4. CASE UNCHANGED vars
  BY <1>4 DEF vars, billing, decisions
<1> QED
  BY <1>1, <1>2, <1>3, <1>4

LEMMA NextKeepsLockInv == TypeInv /\ LockInv /\ [Next]_vars => LockInv'
<1> SUFFICES ASSUME TypeInv, LockInv, [Next]_vars PROVE LockInv'
  OBVIOUS
<1>1. CASE \E i \in Handlers : Step(i) \/ Throw(i) \/ SendFails(i)
  BY <1>1, OnwardKeepsLockInv, LockingKeepsLockInv, CommitKeepsLockInv DEF Step, Onward
<1>2. CASE ~\E i \in Handlers : Step(i) \/ Throw(i) \/ SendFails(i)
  BY <1>2, OutsideKeepsLockInv DEF Next
<1> QED
  BY <1>1, <1>2

-----------------------------------------------------------------------------
(* The accounts.                                                           *)

LEMMA InitAccountInv == Init => AccountInv
<1> SUFFICES ASSUME Init PROVE AccountInv
  OBVIOUS
<1>1. \A u \in Users : ComplimentaryOf(u) = {}
  BY DEF Init, ComplimentaryOf
<1>2. \A p \in Postings : ApprovedFor(p) = {}
  BY ConstantsAssumption DEF Init, ApprovedFor
<1>3. ApprovalsBilledOnce
  <2>1. \A m \in Matches, u \in Users : ledger[m][u] = <<>> /\ approvals[m] = {}
    BY DEF Init
  <2>2. Len(<<>>) = 0 /\ Cardinality({}) = 0
    BY FS_EmptySet
  <2>3. \A u \in Users : trialUsed[u] = 0 /\ 0 <= ComplimentaryLimit
    BY ConstantsAssumption DEF Init
  <2> QED
    BY <1>1, <2>1, <2>2, <2>3 DEF ApprovalsBilledOnce
<1>4. PostingsStopAtLimit
  <2>1. \A p \in Postings : /\ approvedCount[p] = 0 /\ ~ 0 >= MatchLimit
                           /\ postingStatus[p] # "completed_match_limit"
    BY ConstantsAssumption DEF Init
  <2> QED
    BY <1>2, <2>1, FS_EmptySet DEF PostingsStopAtLimit
<1>5. ApprovalsStand /\ ApproversAreParties
  BY DEF Init, ApprovalsStand, ApproversAreParties
<1> QED
  BY <1>3, <1>4, <1>5 DEF AccountInv, ApprovalsAccounted

(* The approval and its entry in the ledger.                               *)
LEMMA CommitBillsOnce ==
    ASSUME IInv, NEW i \in Handlers, CommitApproval(i)
    PROVE  ApprovalsBilledOnce'
<1> DEFINE m == h[i].m
           u == h[i].u
           kind == h[i].kind
           Billed(n, v) == Len(ledger[n][v]) = IF v \in approvals[n] THEN 1 ELSE 0
<1>1. /\ m \in Matches /\ u \in Users /\ u \notin approvals[m]
      /\ kind \in {"complimentary_approval", "paid_approval"}
      /\ kind = "complimentary_approval" => trialUsed[u] < ComplimentaryLimit
  <2>1. h[i].pc \in PastGate /\ h[i].pc \in PastLock /\ h[i].op = "approve"
    BY CommitMoves DEF IInv, PastGate, PastLock
  <2> QED
    BY <2>1, CommitMoves
       DEF IInv, TypeInv, StageKnown, LockInv, MatchLocked, AccountLocked
<1>2. /\ ledger \in [Matches -> [Users -> Seq({"complimentary_approval", "paid_approval"})]]
      /\ approvals \in [Matches -> SUBSET Users] /\ trialUsed \in [Users -> Nat]
  BY DEF IInv, TypeInv, TypeOK
<1>3. /\ \A n \in Matches, v \in Users : Billed(n, v)
      /\ \A v \in Users : /\ trialUsed[v] = Cardinality(ComplimentaryOf(v))
                          /\ trialUsed[v] <= ComplimentaryLimit
  BY DEF IInv, AccountInv, ApprovalsAccounted, ApprovalsBilledOnce
<1>4. /\ ledger' = [ledger EXCEPT ![m][u] = Append(@, kind)]
      /\ approvals' = [approvals EXCEPT ![m] = @ \cup {u}]
      /\ trialUsed' = IF kind = "complimentary_approval"
                      THEN [trialUsed EXCEPT ![u] = @ + 1] ELSE trialUsed
  BY DEF CommitApproval
<1> HIDE DEF m, u, kind
<1>5. ledger[m][u] = <<>>
  <2>1. ledger[m][u] \in Seq({"complimentary_approval", "paid_approval"}) /\ Len(ledger[m][u]) = 0
    BY <1>1, <1>2, <1>3
  <2> QED
    BY <2>1
<1>6. /\ ledger'[m][u] = <<kind>>
      /\ \A n \in Matches, v \in Users : <<n, v>> # <<m, u>> => ledger'[n][v] = ledger[n][v]
  BY <1>1, <1>2, <1>4, <1>5
<1>7. \A n \in Matches, v \in Users :
          v \in approvals'[n] <=> v \in approvals[n] \/ <<n, v>> = <<m, u>>
  BY <1>1, <1>2, <1>4
<1>8. \A n \in Matches, v \in Users : Len(ledger'[n][v]) = IF v \in approvals'[n] THEN 1 ELSE 0
  <2> TAKE n \in Matches, v \in Users
  <2>1. CASE <<n, v>> = <<m, u>>
    <3>1. Len(<<kind>>) = 1
      OBVIOUS
    <3> QED
      BY <1>6, <1>7, <2>1, <3>1
  <2>2. CASE <<n, v>> # <<m, u>>
    BY <1>3, <1>6, <1>7, <2>2
  <2> QED
    BY <2>1, <2>2
<1>9. ASSUME NEW v \in Users
      PROVE  /\ trialUsed'[v] = Cardinality(ComplimentaryOf(v)')
             /\ trialUsed'[v] <= ComplimentaryLimit
  <2>1. IsFiniteSet(ComplimentaryOf(v))
    <3>1. ComplimentaryOf(v) \subseteq Matches
      BY DEF ComplimentaryOf
    <3> QED
      BY <3>1, FS_Subset, ConstantsAssumption
  <2>2. CASE v = u /\ kind = "complimentary_approval"
    <3>1. m \notin ComplimentaryOf(v)
      BY <1>5, <2>2 DEF ComplimentaryOf
    <3>2. ComplimentaryOf(v)' = ComplimentaryOf(v) \cup {m}
      BY <1>1, <1>6, <2>2 DEF ComplimentaryOf
    <3>3. Cardinality(ComplimentaryOf(v)') = Cardinality(ComplimentaryOf(v)) + 1
      BY <2>1, <3>1, <3>2, FS_AddElement
    <3>4. trialUsed'[v] = trialUsed[v] + 1 /\ trialUsed[v] < ComplimentaryLimit
      BY <1>1, <1>2, <1>4, <2>2
    <3> QED
      BY <1>2, <1>3, <3>3, <3>4, ConstantsAssumption
  <2>3. CASE ~(v = u /\ kind = "complimentary_approval")
    <3>1. ComplimentaryOf(v)' = ComplimentaryOf(v)
      <4>1. v = u => kind = "paid_approval"
        BY <1>1, <2>3
      <4>2. <<"paid_approval">> # <<"complimentary_approval">>
            /\ <<>> # <<"complimentary_approval">>
        OBVIOUS
      <4> QED
        BY <1>5, <1>6, <4>1, <4>2 DEF ComplimentaryOf
    <3>2. trialUsed'[v] = trialUsed[v]
      BY <1>1, <1>2, <1>4, <2>3
    <3> QED
      BY <1>3, <3>1, <3>2
  <2> QED
    BY <2>2, <2>3
<1> QED
  BY <1>8, <1>9 DEF ApprovalsBilledOnce

(* The count of the approver's posting.                                    *)
LEMMA CommitCounts ==
    ASSUME IInv, NEW i \in Handlers, CommitApproval(i)
    PROVE  PostingsStopAtLimit'
<1> DEFINE m == h[i].m
           u == h[i].u
           p == PostingOf(m, u)
<1>1. m \in Matches /\ u \in Users /\ u \notin approvals[m] /\ u \in Parties(m)
  BY CommitMoves DEF IInv, LockInv, MatchLocked, CallerIsParty, PastLock, PastGate, At
<1>2. p \in Postings /\ p \in {FsPosting[m], WtbPosting[m]} /\ OwnerOf[p] = u
  BY <1>1, PartiesAreUsers DEF PostingOf, Parties
<1>3. /\ approvals' = [approvals EXCEPT ![m] = @ \cup {u}]
      /\ approvedCount' = [approvedCount EXCEPT ![p] = @ + 1]
      /\ postingStatus' = IF approvedCount[p] + 1 >= MatchLimit
                          THEN [postingStatus EXCEPT ![p] = "completed_match_limit"]
                          ELSE postingStatus
  BY DEF CommitApproval
<1>4. /\ approvals \in [Matches -> SUBSET Users] /\ approvedCount \in [Postings -> Nat]
      /\ postingStatus \in [Postings -> {"active", "completed_match_limit"}]
  BY DEF IInv, TypeInv, TypeOK
<1>5. \A q \in Postings :
          /\ approvedCount[q] = Cardinality(ApprovedFor(q))
          /\ (postingStatus[q] = "completed_match_limit") <=> (approvedCount[q] >= MatchLimit)
  BY DEF IInv, AccountInv, ApprovalsAccounted, PostingsStopAtLimit
<1> HIDE DEF m, u, p
<1>6. ASSUME NEW q \in Postings
      PROVE  /\ approvedCount'[q] = Cardinality(ApprovedFor(q)')
             /\ (postingStatus'[q] = "completed_match_limit") <=> (approvedCount'[q] >= MatchLimit)
  <2>1. CASE q = p
    <3>1. IsFiniteSet(ApprovedFor(q))
      <4>1. ApprovedFor(q) \subseteq Matches
        BY DEF ApprovedFor
      <4> QED
        BY <4>1, FS_Subset, ConstantsAssumption
    <3>2. m \notin ApprovedFor(q) /\ ApprovedFor(q)' = ApprovedFor(q) \cup {m}
      BY <1>1, <1>2, <1>3, <1>4, <2>1 DEF ApprovedFor
    <3>3. approvedCount'[q] = approvedCount[q] + 1
      BY <1>3, <1>4, <2>1
    <3>4. approvedCount'[q] = Cardinality(ApprovedFor(q)')
      BY <1>5, <3>1, <3>2, <3>3, FS_AddElement
    <3>5. (postingStatus'[q] = "completed_match_limit") <=> (approvedCount'[q] >= MatchLimit)
      BY <1>3, <1>4, <1>5, <2>1, <3>3, ConstantsAssumption
    <3> QED
      BY <3>4, <3>5
  <2>2. CASE q # p
    <3>1. OwnerOf[q] = u => m \notin {n \in Matches : q \in {FsPosting[n], WtbPosting[n]}}
      BY <1>1, <1>2, <2>2, ConstantsAssumption
    <3>2. ApprovedFor(q)' = ApprovedFor(q)
      BY <1>1, <1>3, <1>4, <3>1 DEF ApprovedFor
    <3>3. approvedCount'[q] = approvedCount[q] /\ postingStatus'[q] = postingStatus[q]
      BY <1>3, <1>4, <2>2
    <3> QED
      BY <1>5, <3>2, <3>3
  <2> QED
    BY <2>1, <2>2
<1> QED
  BY <1>6 DEF PostingsStopAtLimit

(* The decision, and the status of the match.                              *)
LEMMA CommitDecides ==
    ASSUME IInv, NEW i \in Handlers, CommitApproval(i)
    PROVE  ApprovalsStand' /\ ApproversAreParties'
<1> DEFINE m == h[i].m
           u == h[i].u
<1>1. m \in Matches /\ u \in Users /\ u \in Parties(m)
  BY CommitMoves DEF IInv, LockInv, CallerIsParty, At
<1>2. /\ approvals' = [approvals EXCEPT ![m] = @ \cup {u}]
      /\ decision' = [decision EXCEPT ![m][u] = "approved"]
      /\ matchStatus' = [matchStatus EXCEPT ![m] = "approved"]
  BY DEF CommitApproval
<1>3. /\ approvals \in [Matches -> SUBSET Users]
      /\ decision \in [Matches -> [Users -> {"pending", "approved", "passed"}]]
      /\ matchStatus \in [Matches -> {"surfaced", "approved", "passed_all"}]
  BY DEF IInv, TypeInv, TypeOK
<1>4. ApprovalsStand /\ ApproversAreParties
  BY DEF IInv, AccountInv, ApprovalsAccounted
<1> HIDE DEF m, u
<1>5. ApprovalsStand'
  BY <1>1, <1>2, <1>3, <1>4 DEF ApprovalsStand
<1>6. ApproversAreParties'
  BY <1>1, <1>2, <1>3, <1>4 DEF ApproversAreParties, Parties
<1> QED
  BY <1>5, <1>6

(* A pass leaves what was approved.                                        *)
LEMMA PassKeepsAccountInv ==
    ASSUME IInv, NEW i \in Handlers, Pass(i)
    PROVE  AccountInv'
<1> DEFINE m == h[i].m
           u == h[i].u
           d == IF KeepsDecision(m, u) THEN decision[m] ELSE [decision[m] EXCEPT ![u] = "passed"]
<1>1. m \in Matches /\ u \in Users
  BY AwakeIsTyped DEF Pass, At, IInv, TypeInv, HandlerType
<1>2. /\ decision' = [decision EXCEPT ![m] = d]
      /\ matchStatus' = [matchStatus EXCEPT ![m] =
            IF \E v \in Parties(m) : d[v] = "approved" THEN "approved"
            ELSE IF \A v \in Parties(m) : d[v] = "passed" THEN "passed_all" ELSE @]
  BY DEF Pass
<1>3. /\ approvals \in [Matches -> SUBSET Users]
      /\ decision \in [Matches -> [Users -> {"pending", "approved", "passed"}]]
      /\ matchStatus \in [Matches -> {"surfaced", "approved", "passed_all"}]
  BY DEF IInv, TypeInv, TypeOK
<1>4. UNCHANGED <<ledger, trialUsed, approvals, approvedCount, postingStatus>>
  BY DEF Pass, billing
<1>5. ApprovalsStand /\ ApproversAreParties /\ ApprovalsBilledOnce /\ PostingsStopAtLimit
  BY DEF IInv, AccountInv, ApprovalsAccounted
<1>6. \A v \in Users : (d[v] = "approved") <=> (decision[m][v] = "approved")
  BY <1>1, <1>3 DEF KeepsDecision
<1> HIDE DEF m, u, d
<1>7. \A n \in Matches, v \in Users :
          (decision'[n][v] = "approved") <=> (decision[n][v] = "approved")
  BY <1>1, <1>2, <1>3, <1>6
<1>8. \A n \in Matches : (approvals[n] # {}) <=> (matchStatus'[n] = "approved")
  <2>1. (approvals[m] # {}) <=> \E v \in Parties(m) : d[v] = "approved"
    BY <1>1, <1>3, <1>5, <1>6, PartiesAreUsers DEF ApprovalsStand, ApproversAreParties
  <2>2. (approvals[m] # {}) <=> (matchStatus'[m] = "approved")
    BY <1>1, <1>2, <1>3, <1>5, <2>1 DEF ApprovalsStand
  <2> QED
    BY <1>1, <1>2, <1>3, <1>5, <2>2 DEF ApprovalsStand
<1>9. ApprovalsStand'
  BY <1>4, <1>5, <1>7, <1>8 DEF ApprovalsStand
<1>10. ApproversAreParties' /\ ApprovalsBilledOnce' /\ PostingsStopAtLimit'
  BY <1>4, <1>5 DEF ApproversAreParties, ApprovalsBilledOnce, PostingsStopAtLimit,
                    ComplimentaryOf, ApprovedFor
<1> QED
  BY <1>9, <1>10 DEF AccountInv, ApprovalsAccounted

LEMMA NextKeepsAccountInv == IInv /\ [Next]_vars => AccountInv'
<1> SUFFICES ASSUME IInv, [Next]_vars PROVE AccountInv'
  OBVIOUS
<1>1. CASE \E i \in Handlers : CommitApproval(i)
  BY <1>1, CommitBillsOnce, CommitCounts, CommitDecides DEF AccountInv, ApprovalsAccounted
<1>2. CASE \E i \in Handlers : Pass(i)
  BY <1>2, PassKeepsAccountInv
<1>3. CASE ~\E i \in Handlers : CommitApproval(i) \/ Pass(i)
  <2>1. UNCHANGED <<ledger, trialUsed, decisions>>
    BY <1>3 DEF Next, Step, Request, SetOverride, LockMatch, Gate, Convert, ReadApprovals,
                ReadConfirmations, WriteIntro, ReferIntro, Reveal, Claim, Tell, Ask,
                SendRequest, Answer, CommitSync, FindWaiting, Victim, Throw, SendFails,
                Restart, vars, billing
  <2> QED
    BY <2>1 DEF IInv, AccountInv, ApprovalsAccounted, ApprovalsBilledOnce, PostingsStopAtLimit,
                ApprovalsStand, ApproversAreParties, ComplimentaryOf, ApprovedFor, decisions
<1> QED
  BY <1>1, <1>2, <1>3

-----------------------------------------------------------------------------
(* Disclosure.                                                             *)

LEMMA InitDisclosureInv == Init => DisclosureInv
BY DEF Init, DisclosureInv, ConsentOnRecord, ContactAuthorized, Idle

(* A step that tells nobody keeps what is disclosed entitled, as approvals *)
(* and consent are only added to; entering a delivery takes the title.     *)
LEMMA DisclosureKept ==
    ASSUME TypeInv, TypeInv', DisclosureInv, NEW i \in Handlers, Moved(i),
           \A m \in Matches : approvals[m] \subseteq approvals'[m] /\ consented[m] \subseteq consented'[m],
           \A m \in Matches, u \in Users :
               confirmed'[m][u] = "yes" => confirmed[m][u] = "yes" \/ u \in consented'[m],
           \A m \in Matches, u \in Users :
               told'[m][u] > 0 => told[m][u] > 0 \/ Entitled(m, u),
           h'[i].pc \in {"claim", "tell"} => Entitled(h'[i].m, h'[i].to)
    PROVE  DisclosureInv'
<1>1. \A m \in Matches, u \in Users : Entitled(m, u) => Entitled(m, u)'
  BY DEF Entitled
<1>2. ASSUME NEW j \in Handlers, h'[j].pc \in {"claim", "tell"}
      PROVE  h'[j].m \in Matches /\ h'[j].to \in Users /\ Entitled(h'[j].m, h'[j].to)
  <2>1. h'[j] \in HandlerType
    BY <1>2 DEF TypeInv, TypeOK, Idle
  <2>2. Entitled(h'[j].m, h'[j].to)
    BY <1>2 DEF Moved, DisclosureInv, ConsentOnRecord
  <2> QED
    BY <2>1, <2>2 DEF HandlerType
<1>3. ConsentOnRecord'
  <2>1. \A m \in Matches, u \in Users : (confirmed[m][u] = "yes" => u \in consented[m])'
    BY DEF DisclosureInv, ConsentOnRecord
  <2>2. \A j \in Handlers : h'[j].pc \in {"claim", "tell"} => Entitled(h[j].m, h[j].to)'
    BY <1>1, <1>2 DEF Entitled
  <2> QED
    BY <2>1, <2>2 DEF ConsentOnRecord
<1>4. ContactAuthorized'
  <2>1. \A m \in Matches, u \in Users : told'[m][u] > 0 => Entitled(m, u)'
    BY <1>1 DEF DisclosureInv, ContactAuthorized, Entitled
  <2> QED
    BY <2>1 DEF ContactAuthorized, Entitled
<1> QED
  BY <1>3, <1>4 DEF DisclosureInv

(* The stages at which a message is about to be sent are entered by one    *)
(* action each.                                                            *)
LEMMA Entering ==
    ASSUME TypeInv, LockInv, NEW i \in Handlers, Step(i) \/ Throw(i) \/ SendFails(i)
    PROVE  /\ Moved(i)
           /\ h'[i].pc = "claim" => Reveal(i)
           /\ h'[i].pc = "tell" => Claim(i)
           /\ h'[i].pc = "request" => Ask(i)
           /\ h'[i].pc = "convert" => CommitApproval(i)
<1> USE DEF At
<1>1. h \in [Handlers -> HandlerType \cup {Idle}] /\ (h[i].pc # "idle" => h[i] \in HandlerType)
  BY AwakeIsTyped DEF TypeInv, TypeOK
<1>2. CASE Finish(i) \/ (h[i].pc # "idle" /\ AfterDelivery(i))
  BY <1>2, FinishMoves, AfterDeliveryMoves DEF Idle
<1>3. CASE CommitApproval(i)
  BY <1>3, CommitMoves
<1>4. CASE Convert(i) \/ Reveal(i) \/ Claim(i) \/ Tell(i)
  BY <1>4, GotoMoves, AfterDeliveryMoves DEF Convert, Reveal, Claim, Tell, Idle
<1>5. CASE Ask(i) \/ SendRequest(i) \/ Pass(i) \/ Answer(i)
  BY SMTT(20), <1>5, GotoMoves, FinishMoves DEF Ask, SendRequest, Pass, Answer, Idle
<1>6. CASE Victim(i) \/ Throw(i) \/ SendFails(i)
  BY <1>6, GotoMoves, FinishMoves, AfterDeliveryMoves DEF Victim, Throw, SendFails, Idle
<1>7. ASSUME ~Finish(i),
             LockMatch(i) \/ Gate(i) \/ ReadApprovals(i) \/ ReadConfirmations(i)
                \/ WriteIntro(i) \/ ReferIntro(i) \/ CommitSync(i) \/ FindWaiting(i)
      PROVE  Moved(i) /\ h'[i].pc \notin {"claim", "tell", "request", "convert"}
  <2>1. CASE LockMatch(i)
    BY <1>1, <1>7, <2>1 DEF LockMatch, HandlerType, Moved
  <2>2. CASE Gate(i)
    BY <1>1, <1>7, <2>2 DEF Gate, HandlerType, Moved
  <2>3. CASE ReadApprovals(i)
    BY <1>1, <2>3 DEF ReadApprovals, HandlerType, Moved
  <2>4. CASE ReadConfirmations(i)
    BY <1>1, <2>4 DEF ReadConfirmations, HandlerType, Moved
  <2>5. CASE WriteIntro(i)
    BY <1>1, <2>5 DEF WriteIntro, HandlerType, Moved
  <2>6. CASE ReferIntro(i)
    BY <1>1, <2>6 DEF ReferIntro, HandlerType, Moved
  <2>7. CASE CommitSync(i)
    BY ZenonT(40), <1>1, <1>7, <2>7 DEF CommitSync, HandlerType, Unlock, Moved
  <2>8. CASE FindWaiting(i)
    BY <1>1, <1>7, <2>8 DEF FindWaiting, HandlerType, Moved
  <2> QED
    BY <1>7, <2>1, <2>2, <2>3, <2>4, <2>5, <2>6, <2>7, <2>8
<1>8. CASE \/ LockMatch(i) \/ Gate(i) \/ ReadApprovals(i) \/ ReadConfirmations(i)
           \/ WriteIntro(i) \/ ReferIntro(i) \/ CommitSync(i) \/ FindWaiting(i)
  <2>1. CASE Finish(i)
    BY <1>2, <2>1
  <2>2. CASE ~Finish(i)
    <3>1. Moved(i) /\ h'[i].pc \notin {"claim", "tell", "request", "convert"}
      BY <1>7, <1>8, <2>2
    <3> QED
      BY <3>1
  <2> QED
    BY <2>1, <2>2
<1> QED
  BY <1>3, <1>4, <1>5, <1>6, <1>8 DEF Step

(* Delivery: the title is taken with the answer of getRevealedContact, and *)
(* is still good when the contact is sent.                                 *)
LEMMA TellKeepsDisclosureInv ==
    ASSUME TypeInv, TypeInv', LockInv, DisclosureInv, NEW i \in Handlers,
           Reveal(i) \/ Claim(i) \/ Tell(i)
    PROVE  DisclosureInv'
<1> USE DEF At
<1>1. /\ h[i].pc # "idle" /\ h[i] \in HandlerType
      /\ h[i].m \in Matches /\ h[i].to \in Users /\ Other(h[i].m, h[i].to) \in Users
  BY AwakeIsTyped, PartiesAreUsers DEF Reveal, Claim, Tell, TypeInv, HandlerType
<1>2. Moved(i) /\ UNCHANGED <<approvals, consented, confirmed>>
  BY Entering DEF Step, Reveal, Claim, Tell, decisions, connection
<1>3. h[i].pc \in {"claim", "tell"} => Entitled(h[i].m, h[i].to)
  BY DEF DisclosureInv, ConsentOnRecord
<1>4. h'[i].pc \in {"claim", "tell"} => Entitled(h'[i].m, h'[i].to)
  <2>1. CASE Reveal(i)
    <3>1. CASE Revealed(h[i].m, h[i].to)
      <4>1. Entitled(h[i].m, h[i].to)
        BY <1>1, <3>1 DEF Revealed, Releasable, Entitled, DisclosureInv, ConsentOnRecord
      <4> QED
        BY <1>1, <2>1, <3>1, <4>1, GotoMoves DEF Reveal, SameCall
    <3>2. CASE ~Revealed(h[i].m, h[i].to)
      BY <1>1, <2>1, <3>2, AfterDeliveryMoves DEF Reveal, Idle
    <3> QED
      BY <3>1, <3>2
  <2>2. CASE Claim(i)
    <3>1. Goto(i, "tell") \/ AfterDelivery(i)
      BY <2>2 DEF Claim
    <3> QED
      BY <1>1, <1>3, <2>2, <3>1, GotoMoves, AfterDeliveryMoves DEF Claim, SameCall, Idle
  <2>3. CASE Tell(i)
    BY <1>1, <2>3, AfterDeliveryMoves DEF Tell, Idle
  <2> QED
    BY <2>1, <2>2, <2>3
<1>5. \A m \in Matches, u \in Users : told'[m][u] > 0 => told[m][u] > 0 \/ Entitled(m, u)
  <2>1. CASE Tell(i)
    <3>1. told' = [told EXCEPT ![h[i].m][h[i].to] = @ + 1] /\ Entitled(h[i].m, h[i].to)
      BY <1>3, <2>1 DEF Tell
    <3>2. told \in [Matches -> [Users -> Nat]]
      BY DEF TypeInv, TypeOK
    <3> QED
      BY <1>1, <3>1, <3>2
  <2>2. CASE ~Tell(i)
    BY <2>2 DEF Reveal, Claim, connection
  <2> QED
    BY <2>1, <2>2
<1> QED
  BY <1>2, <1>4, <1>5, DisclosureKept

(* Every other step tells nobody, and takes back neither an approval nor   *)
(* the record of a consent.                                                *)
LEMMA OthersKeepDisclosureInv ==
    ASSUME TypeInv, TypeInv', LockInv, DisclosureInv, NEW i \in Handlers,
           Step(i) \/ Throw(i) \/ SendFails(i), ~(Reveal(i) \/ Claim(i) \/ Tell(i))
    PROVE  DisclosureInv'
<1>1. Moved(i) /\ h'[i].pc \notin {"claim", "tell"}
  BY Entering
<1>2. /\ approvals \in [Matches -> SUBSET Users] /\ consented \in [Matches -> SUBSET Users]
      /\ confirmed \in [Matches -> [Users -> {"none", "no", "yes"}]]
      /\ h[i].pc # "idle" => h[i].m \in Matches /\ h[i].u \in Users
      /\ h[i].pc # "idle" => Other(h[i].m, h[i].u) \in Users
  BY AwakeIsTyped, PartiesAreUsers DEF TypeInv, TypeOK, HandlerType
<1>3. /\ UNCHANGED told
      /\ UNCHANGED approvals \/ approvals' = [approvals EXCEPT ![h[i].m] = @ \cup {h[i].u}]
      /\ UNCHANGED consented \/ consented' = [consented EXCEPT ![h[i].m] = @ \cup {h[i].u}]
      /\ \/ UNCHANGED confirmed
         \/ /\ h[i].pc # "idle"
            /\ \/ confirmed' = [confirmed EXCEPT ![h[i].m][Other(h[i].m, h[i].u)] = "no"]
               \/ confirmed' = [confirmed EXCEPT ![h[i].m][h[i].u] = "no"]
               \/ /\ confirmed' = [confirmed EXCEPT ![h[i].m][h[i].u] = "yes"]
                  /\ consented' = [consented EXCEPT ![h[i].m] = @ \cup {h[i].u}]
  BY DEF Step, LockMatch, Gate, CommitApproval, Convert, ReadApprovals, ReadConfirmations,
         WriteIntro, ReferIntro, Ask, Placeholder, SendRequest, Pass, Answer, CommitSync,
         FindWaiting, Victim, Throw, SendFails, decisions, connection, At
<1>4. \A m \in Matches : approvals[m] \subseteq approvals'[m] /\ consented[m] \subseteq consented'[m]
  BY <1>2, <1>3
<1>5. \A m \in Matches, u \in Users :
          confirmed'[m][u] = "yes" => confirmed[m][u] = "yes" \/ u \in consented'[m]
  BY <1>2, <1>3
<1> QED
  BY <1>1, <1>3, <1>4, <1>5, DisclosureKept

LEMMA NextKeepsDisclosureInv == IInv /\ TypeInv' /\ [Next]_vars => DisclosureInv'
<1> SUFFICES ASSUME IInv, TypeInv', [Next]_vars PROVE DisclosureInv'
  OBVIOUS
<1> USE DEF IInv
<1>1. CASE \E i \in Handlers : Step(i) \/ Throw(i) \/ SendFails(i)
  BY <1>1, TellKeepsDisclosureInv, OthersKeepDisclosureInv
<1>2. CASE \E i \in Handlers, c \in Calls : Request(i, c)
  <2>1. PICK i \in Handlers, c \in Calls : Request(i, c)
    BY <1>2
  <2>2. UNCHANGED <<approvals, consented, confirmed, told>>
    BY <2>1 DEF Request, decisions, connection
  <2> QED
    BY <2>1, <2>2, RequestMoves, DisclosureKept
<1>3. CASE (\E u \in Managed : SetOverride(u)) \/ Restart \/ UNCHANGED vars
  <2>1. UNCHANGED <<approvals, consented, confirmed, told>>
    BY <1>3 DEF SetOverride, Restart, vars, decisions, connection
  <2>2. UNCHANGED h \/ h' = [i \in Handlers |-> Idle]
    BY <1>3 DEF SetOverride, Restart, vars
  <2> QED
    BY <2>1, <2>2 DEF DisclosureInv, ConsentOnRecord, ContactAuthorized, Entitled, Idle
<1> QED
  BY <1>1, <1>2, <1>3 DEF Next

-----------------------------------------------------------------------------
(* Messages.  Each of the three parts of MessageInv is kept by every step  *)
(* that neither sends its message nor comes to be about to; what remains   *)
(* is one action that claims the message and one that sends it.            *)

LEMMA InitMessageInv == Init => MessageInv
BY DEF Init, MessageInv, ToldOnce, AskedOnce, ConvertedOnce, Telling, Requesting, Converting,
       At, Idle

LEMMA ToldOnceKept ==
    ASSUME ToldOnce, NEW i \in Handlers, Moved(i), h'[i].pc # "tell", UNCHANGED told,
           \A m \in Matches : delivered[m] \subseteq delivered'[m]
    PROVE  ToldOnce'
<1>1. ASSUME NEW m \in Matches, NEW u \in Users, NEW j \in Handlers, Telling(j, m, u)'
      PROVE  Telling(j, m, u)
  BY <1>1 DEF Telling, At, Moved
<1> QED
  BY <1>1 DEF ToldOnce

LEMMA AskedOnceKept ==
    ASSUME AskedOnce, NEW i \in Handlers, Moved(i), h'[i].pc # "request", UNCHANGED asked,
           \A m \in Matches, u \in Users : confirmed'[m][u] = "none" => confirmed[m][u] = "none"
    PROVE  AskedOnce'
<1>1. ASSUME NEW m \in Matches, NEW u \in Users, NEW j \in Handlers, Requesting(j, m, u)'
      PROVE  Requesting(j, m, u)
  BY <1>1 DEF Requesting, At, Moved, Other, Parties
<1> QED
  BY <1>1 DEF AskedOnce

LEMMA ConvertedOnceKept ==
    ASSUME ConvertedOnce, NEW i \in Handlers, Moved(i), h'[i].pc # "convert",
           UNCHANGED converted, TypeInv, TypeInv',
           \A u \in Users : trialUsed[u] <= trialUsed'[u]
    PROVE  ConvertedOnce'
<1>1. ASSUME NEW u \in Users, NEW j \in Handlers, Converting(j, u)'
      PROVE  Converting(j, u)
  BY <1>1 DEF Converting, At, Moved
<1>2. trialUsed \in [Users -> Nat] /\ trialUsed' \in [Users -> Nat]
  BY DEF TypeInv, TypeOK
<1>3. \A u \in Users : trialUsed[u] >= ComplimentaryLimit => trialUsed'[u] >= ComplimentaryLimit
  BY <1>2, ConstantsAssumption
<1> QED
  BY <1>1, <1>3 DEF ConvertedOnce

(* The contact: claimed by setting the delivery's column, then sent.       *)
LEMMA ClaimKeepsToldOnce ==
    ASSUME TypeInv, ToldOnce, NEW i \in Handlers, Claim(i)
    PROVE  ToldOnce'
<1> DEFINE m == h[i].m
           u == h[i].to
<1>1. /\ h[i].pc = "claim" /\ h[i] \in HandlerType /\ m \in Matches /\ u \in Users
      /\ told \in [Matches -> [Users -> Nat]] /\ delivered \in [Matches -> SUBSET Users]
  BY AwakeIsTyped DEF Claim, At, TypeInv, TypeOK, HandlerType
<1>2. UNCHANGED told
  BY DEF Claim
<1>3. CASE Undelivered(m, u)
  <2>1. Moved(i) /\ h'[i].pc = "tell" /\ h'[i].m = m /\ h'[i].to = u
    BY <1>1, <1>3, GotoMoves DEF Claim, SameCall
  <2>2. delivered' = [delivered EXCEPT ![m] = @ \cup {u}] /\ u \notin delivered[m]
    BY <1>3 DEF Claim, Undelivered
  <2>3. told[m][u] = 0 /\ \A j \in Handlers : ~Telling(j, m, u)
    <3>1. told[m][u] \in Nat
      BY <1>1
    <3> HIDE DEF m, u
    <3>2. told[m][u] <= 1 /\ told[m][u] # 1
      BY <1>1, <2>2 DEF ToldOnce
    <3>3. \A j \in Handlers : ~Telling(j, m, u)
      BY <1>1, <2>2 DEF ToldOnce
    <3> QED
      BY <3>1, <3>2, <3>3
  <2>4. \A j \in Handlers, n \in Matches, v \in Users :
            Telling(j, n, v)' <=> IF j = i THEN n = m /\ v = u ELSE Telling(j, n, v)
    BY <2>1 DEF Moved, Telling, At
  <2>5. \A n \in Matches : delivered[n] \subseteq delivered'[n]
    BY <1>1, <2>2
  <2>6. u \in delivered'[m]
    BY <1>1, <2>2
  <2> HIDE DEF m, u
  <2>7. ASSUME NEW n \in Matches, NEW v \in Users
        PROVE  /\ told'[n][v] <= 1
               /\ told'[n][v] = 1 => v \in delivered'[n]
               /\ \A j \in Handlers : Telling(j, n, v)' =>
                     /\ v \in delivered'[n] /\ told'[n][v] = 0
                     /\ \A k \in Handlers : Telling(k, n, v)' => j = k
    BY <1>2, <2>3, <2>4, <2>5, <2>6 DEF ToldOnce
  <2> QED
    BY <2>7 DEF ToldOnce
<1>4. CASE ~Undelivered(m, u)
  BY <1>1, <1>4, AfterDeliveryMoves, ToldOnceKept DEF Claim, Idle
<1> QED
  BY <1>3, <1>4

LEMMA TellKeepsToldOnce ==
    ASSUME TypeInv, ToldOnce, NEW i \in Handlers, Tell(i)
    PROVE  ToldOnce'
<1> DEFINE m == h[i].m
           u == h[i].to
<1>1. /\ h[i].pc = "tell" /\ h[i] \in HandlerType /\ m \in Matches /\ u \in Users
      /\ told \in [Matches -> [Users -> Nat]]
  BY AwakeIsTyped DEF Tell, At, TypeInv, TypeOK, HandlerType
<1>2. told' = [told EXCEPT ![m][u] = @ + 1] /\ UNCHANGED delivered
  BY DEF Tell
<1>3. Moved(i) /\ h'[i].pc # "tell"
  BY <1>1, AfterDeliveryMoves DEF Tell, Idle
<1>4. /\ u \in delivered[m] /\ told[m][u] = 0
      /\ \A j \in Handlers \ {i} : ~Telling(j, m, u)
  BY <1>1 DEF ToldOnce, Telling, At
<1>5. \A j \in Handlers, n \in Matches, v \in Users :
          Telling(j, n, v)' => j # i /\ Telling(j, n, v)
  BY <1>3 DEF Moved, Telling, At
<1> HIDE DEF m, u
<1>6. \A n \in Matches, v \in Users : told'[n][v] = IF n = m /\ v = u THEN 1 ELSE told[n][v]
  BY <1>1, <1>2, <1>4
<1>7. ASSUME NEW n \in Matches, NEW v \in Users
      PROVE  /\ told'[n][v] <= 1
             /\ told'[n][v] = 1 => v \in delivered'[n]
             /\ \A j \in Handlers : Telling(j, n, v)' =>
                   /\ v \in delivered'[n] /\ told'[n][v] = 0
                   /\ \A k \in Handlers : Telling(k, n, v)' => j = k
  BY <1>2, <1>4, <1>5, <1>6 DEF ToldOnce
<1> QED
  BY <1>7 DEF ToldOnce

(* The request: claimed by inserting the placeholder, then sent.           *)
LEMMA AskKeepsAskedOnce ==
    ASSUME TypeInv, AskedOnce, NEW i \in Handlers, Ask(i)
    PROVE  AskedOnce'
<1> DEFINE m == h[i].m
           v == Other(m, h[i].u)
<1>1. /\ h[i].pc = "ask" /\ h[i] \in HandlerType /\ m \in Matches /\ v \in Users
      /\ confirmed \in [Matches -> [Users -> {"none", "no", "yes"}]]
      /\ asked \in [Matches -> [Users -> Nat]]
  BY AwakeIsTyped, PartiesAreUsers DEF Ask, At, TypeInv, TypeOK, HandlerType
<1>2. UNCHANGED asked
  BY DEF Ask
<1>3. CASE PostingOf(m, v) \notin Shareable /\ confirmed[m][v] = "none"
  <2>1. Moved(i) /\ h'[i].pc = "request" /\ h'[i].m = m /\ h'[i].u = h[i].u
    BY <1>1, <1>3, GotoMoves DEF Ask, SameCall
  <2>2. confirmed' = [confirmed EXCEPT ![m][v] = "no"]
    BY <1>3 DEF Ask, Placeholder
  <2>3. asked[m][v] = 0 /\ \A j \in Handlers : ~Requesting(j, m, v)
    <3>1. asked[m][v] \in Nat
      BY <1>1
    <3> HIDE DEF m, v
    <3>2. asked[m][v] <= 1 /\ asked[m][v] # 1
      BY <1>1, <1>3 DEF AskedOnce
    <3>3. \A j \in Handlers : ~Requesting(j, m, v)
      BY <1>1, <1>3 DEF AskedOnce
    <3> QED
      BY <3>1, <3>2, <3>3
  <2>4. \A j \in Handlers, n \in Matches, w \in Users :
            Requesting(j, n, w)' <=> IF j = i THEN n = m /\ w = v ELSE Requesting(j, n, w)
    BY <2>1 DEF Moved, Requesting, At, Other, Parties
  <2> HIDE DEF m, v
  <2>5. \A n \in Matches, w \in Users :
            confirmed'[n][w] = IF n = m /\ w = v THEN "no" ELSE confirmed[n][w]
    BY <1>1, <2>2
  <2>6. ASSUME NEW n \in Matches, NEW w \in Users
        PROVE  /\ asked'[n][w] <= 1
               /\ asked'[n][w] = 1 => confirmed'[n][w] # "none"
               /\ \A j \in Handlers : Requesting(j, n, w)' =>
                     /\ confirmed'[n][w] # "none" /\ asked'[n][w] = 0
                     /\ \A k \in Handlers : Requesting(k, n, w)' => j = k
    BY <1>2, <2>3, <2>4, <2>5 DEF AskedOnce
  <2> QED
    BY <2>6 DEF AskedOnce
<1>4. CASE ~(PostingOf(m, v) \notin Shareable /\ confirmed[m][v] = "none")
  <2>1. Moved(i) /\ h'[i].pc # "request"
    BY <1>4, FinishMoves DEF Ask, Idle
  <2>2. UNCHANGED confirmed \/ confirmed' = [confirmed EXCEPT ![m][v] = "no"]
    BY DEF Ask, Placeholder
  <2>3. \A n \in Matches, w \in Users : confirmed'[n][w] = "none" => confirmed[n][w] = "none"
    BY <1>1, <2>2
  <2> QED
    BY <1>2, <2>1, <2>3, AskedOnceKept
<1> QED
  BY <1>3, <1>4

LEMMA SendRequestKeepsAskedOnce ==
    ASSUME TypeInv, AskedOnce, NEW i \in Handlers, SendRequest(i)
    PROVE  AskedOnce'
<1> DEFINE m == h[i].m
           v == Other(m, h[i].u)
<1>1. /\ h[i].pc = "request" /\ h[i] \in HandlerType /\ m \in Matches /\ v \in Users
      /\ asked \in [Matches -> [Users -> Nat]]
  BY AwakeIsTyped, PartiesAreUsers DEF SendRequest, At, TypeInv, TypeOK, HandlerType
<1>2. asked' = [asked EXCEPT ![m][v] = @ + 1] /\ UNCHANGED confirmed
  BY DEF SendRequest
<1>3. Moved(i) /\ h'[i].pc # "request"
  BY FinishMoves DEF SendRequest, Idle
<1>4. /\ confirmed[m][v] # "none" /\ asked[m][v] = 0
      /\ \A j \in Handlers \ {i} : ~Requesting(j, m, v)
  BY <1>1 DEF AskedOnce, Requesting, At
<1>5. \A j \in Handlers, n \in Matches, w \in Users :
          Requesting(j, n, w)' => j # i /\ Requesting(j, n, w)
  BY <1>3 DEF Moved, Requesting, At, Other, Parties
<1> HIDE DEF m, v
<1>6. \A n \in Matches, w \in Users : asked'[n][w] = IF n = m /\ w = v THEN 1 ELSE asked[n][w]
  BY <1>1, <1>2, <1>4
<1>7. ASSUME NEW n \in Matches, NEW w \in Users
      PROVE  /\ asked'[n][w] <= 1
             /\ asked'[n][w] = 1 => confirmed'[n][w] # "none"
             /\ \A j \in Handlers : Requesting(j, n, w)' =>
                   /\ confirmed'[n][w] # "none" /\ asked'[n][w] = 0
                   /\ \A k \in Handlers : Requesting(k, n, w)' => j = k
  BY <1>2, <1>4, <1>5, <1>6 DEF AskedOnce
<1> QED
  BY <1>7 DEF AskedOnce

(* The message at the end of the trial: only the commit that makes the     *)
(* last use of it sends one, under the lock of the account's row.          *)
LEMMA CommitKeepsConvertedOnce ==
    ASSUME TypeInv, TypeInv', ConvertedOnce, NEW i \in Handlers, CommitApproval(i)
    PROVE  ConvertedOnce'
<1> DEFINE u == h[i].u
<1>1. /\ Moved(i) /\ h'[i].u = u /\ u \in Users
      /\ h'[i].pc = "convert" => h[i].kind = "complimentary_approval" /\ LastFree(u)
  BY CommitMoves DEF SameCall
<1>2. /\ trialUsed \in [Users -> Nat] /\ trialUsed' \in [Users -> Nat] /\ UNCHANGED converted
      /\ trialUsed' = IF h[i].kind = "complimentary_approval"
                     THEN [trialUsed EXCEPT ![u] = @ + 1] ELSE trialUsed
  BY DEF CommitApproval, TypeInv, TypeOK
<1> HIDE DEF u
<1>3. \A v \in Users : trialUsed[v] <= trialUsed'[v]
  BY <1>1, <1>2
<1>4. CASE h'[i].pc = "convert"
  <2>1. trialUsed'[u] >= ComplimentaryLimit /\ ~ trialUsed[u] >= ComplimentaryLimit
    BY <1>1, <1>2, <1>4, ConstantsAssumption DEF LastFree
  <2>2. converted \in [Users -> Nat]
    BY DEF TypeInv, TypeOK
  <2>3. converted[u] = 0 /\ \A j \in Handlers : ~Converting(j, u)
    BY <1>1, <2>1, <2>2 DEF ConvertedOnce
  <2>4. \A j \in Handlers, v \in Users :
            Converting(j, v)' <=> IF j = i THEN v = u ELSE Converting(j, v)
    BY <1>1, <1>4 DEF Moved, Converting, At
  <2>5. \A v \in Users : trialUsed[v] >= ComplimentaryLimit => trialUsed'[v] >= ComplimentaryLimit
    BY <1>2, <1>3, ConstantsAssumption
  <2>6. ASSUME NEW v \in Users
        PROVE  /\ converted'[v] <= 1
               /\ converted'[v] = 1 => trialUsed'[v] >= ComplimentaryLimit
               /\ \A j \in Handlers : Converting(j, v)' =>
                     /\ trialUsed'[v] >= ComplimentaryLimit /\ converted'[v] = 0
                     /\ \A k \in Handlers : Converting(k, v)' => j = k
    BY <1>2, <2>1, <2>3, <2>4, <2>5 DEF ConvertedOnce
  <2> QED
    BY <2>6 DEF ConvertedOnce
<1>5. CASE h'[i].pc # "convert"
  BY <1>1, <1>2, <1>3, <1>5, ConvertedOnceKept
<1> QED
  BY <1>4, <1>5

LEMMA ConvertKeepsConvertedOnce ==
    ASSUME TypeInv, ConvertedOnce, NEW i \in Handlers, Convert(i)
    PROVE  ConvertedOnce'
<1> DEFINE u == h[i].u
<1>1. /\ h[i].pc = "convert" /\ h[i] \in HandlerType /\ u \in Users
      /\ converted \in [Users -> Nat]
  BY AwakeIsTyped DEF Convert, At, TypeInv, TypeOK, HandlerType
<1>2. converted' = [converted EXCEPT ![u] = @ + 1] /\ UNCHANGED trialUsed
  BY DEF Convert
<1>3. Moved(i) /\ h'[i].pc # "convert"
  BY <1>1, GotoMoves DEF Convert
<1>4. /\ trialUsed[u] >= ComplimentaryLimit /\ converted[u] = 0
      /\ \A j \in Handlers \ {i} : ~Converting(j, u)
  BY <1>1 DEF ConvertedOnce, Converting, At
<1>5. \A j \in Handlers, v \in Users : Converting(j, v)' => j # i /\ Converting(j, v)
  BY <1>3 DEF Moved, Converting, At
<1> HIDE DEF u
<1>6. \A v \in Users : converted'[v] = IF v = u THEN 1 ELSE converted[v]
  BY <1>1, <1>2, <1>4
<1>7. ASSUME NEW v \in Users
      PROVE  /\ converted'[v] <= 1
             /\ converted'[v] = 1 => trialUsed'[v] >= ComplimentaryLimit
             /\ \A j \in Handlers : Converting(j, v)' =>
                   /\ trialUsed'[v] >= ComplimentaryLimit /\ converted'[v] = 0
                   /\ \A k \in Handlers : Converting(k, v)' => j = k
  BY <1>2, <1>4, <1>5, <1>6 DEF ConvertedOnce
<1> QED
  BY <1>7 DEF ConvertedOnce

LEMMA NextKeepsMessageInv == IInv /\ TypeInv' /\ [Next]_vars => MessageInv'
<1> SUFFICES ASSUME IInv, TypeInv', [Next]_vars PROVE MessageInv'
  OBVIOUS
<1> USE DEF IInv, MessageInv
<1>1. CASE \E i \in Handlers : Step(i) \/ Throw(i) \/ SendFails(i)
  <2>1. PICK i \in Handlers : Step(i) \/ Throw(i) \/ SendFails(i)
    BY <1>1
  <2>2. /\ Moved(i)
        /\ h'[i].pc = "tell" => Claim(i)
        /\ h'[i].pc = "request" => Ask(i)
        /\ h'[i].pc = "convert" => CommitApproval(i)
    BY <2>1, Entering
  <2>3. h[i].pc # "idle" => h[i].m \in Matches /\ h[i].u \in Users
    BY AwakeIsTyped DEF TypeInv, HandlerType
  <2>4. ToldOnce'
    <3>1. CASE Claim(i) \/ Tell(i)
      BY <3>1, ClaimKeepsToldOnce, TellKeepsToldOnce
    <3>2. CASE ~(Claim(i) \/ Tell(i))
      <4>1. UNCHANGED <<told, delivered>>
        BY <2>1, <3>2
           DEF Step, LockMatch, Gate, CommitApproval, Convert, ReadApprovals, ReadConfirmations,
               WriteIntro, ReferIntro, Reveal, Ask, SendRequest, Pass, Answer, CommitSync,
               FindWaiting, Victim, Throw, SendFails, connection
      <4> QED
        BY <2>2, <3>2, <4>1, ToldOnceKept
    <3> QED
      BY <3>1, <3>2
  <2>5. AskedOnce'
    <3>1. CASE Ask(i) \/ SendRequest(i)
      BY <3>1, AskKeepsAskedOnce, SendRequestKeepsAskedOnce
    <3>2. CASE ~(Ask(i) \/ SendRequest(i))
      <4>1. /\ UNCHANGED asked
            /\ \/ UNCHANGED confirmed
               \/ /\ h[i].pc # "idle"
                  /\ \E answer \in {"yes", "no"} :
                        confirmed' = [confirmed EXCEPT ![h[i].m][h[i].u] = answer]
        BY <2>1, <3>2
           DEF Step, LockMatch, Gate, CommitApproval, Convert, ReadApprovals, ReadConfirmations,
               WriteIntro, ReferIntro, Reveal, Claim, Tell, Pass, Answer, CommitSync,
               FindWaiting, Victim, Throw, SendFails, connection, At
      <4>2. confirmed \in [Matches -> [Users -> {"none", "no", "yes"}]]
        BY DEF TypeInv, TypeOK
      <4>3. \A m \in Matches, u \in Users : confirmed'[m][u] = "none" => confirmed[m][u] = "none"
        BY <2>3, <4>1, <4>2
      <4> QED
        BY <2>2, <3>2, <4>1, <4>3, AskedOnceKept
    <3> QED
      BY <3>1, <3>2
  <2>6. ConvertedOnce'
    <3>1. CASE CommitApproval(i) \/ Convert(i)
      BY <3>1, CommitKeepsConvertedOnce, ConvertKeepsConvertedOnce
    <3>2. CASE ~(CommitApproval(i) \/ Convert(i))
      <4>1. UNCHANGED <<converted, trialUsed>>
        BY <2>1, <3>2
           DEF Step, LockMatch, Gate, ReadApprovals, ReadConfirmations, WriteIntro, ReferIntro,
               Reveal, Claim, Tell, Ask, SendRequest, Pass, Answer, CommitSync, FindWaiting,
               Victim, Throw, SendFails, billing
      <4>2. \A u \in Users : trialUsed[u] <= trialUsed'[u]
        BY <4>1 DEF TypeInv, TypeOK
      <4> QED
        BY <2>2, <3>2, <4>1, <4>2, ConvertedOnceKept
    <3> QED
      BY <3>1, <3>2
  <2> QED
    BY <2>4, <2>5, <2>6
<1>2. CASE \/ \E i \in Handlers, c \in Calls : Request(i, c)
           \/ (\E u \in Managed : SetOverride(u)) \/ Restart \/ UNCHANGED vars
  <2>1. UNCHANGED <<told, delivered, asked, confirmed, converted, trialUsed>>
    BY <1>2 DEF Request, SetOverride, Restart, vars, billing, connection
  <2>2. \A j \in Handlers : h'[j] = h[j] \/ h'[j].pc \in {"idle", "answer", "lock"}
    BY <1>2, RequestMoves DEF Moved, SetOverride, Restart, vars, Idle
  <2>3. \A u \in Users, j \in Handlers :
            /\ \A m \in Matches : /\ Telling(j, m, u)' => Telling(j, m, u)
                                  /\ Requesting(j, m, u)' => Requesting(j, m, u)
            /\ Converting(j, u)' => Converting(j, u)
    BY <2>2 DEF Telling, Requesting, Converting, At, Other, Parties
  <2>4. ToldOnce'
    BY <2>1, <2>3 DEF ToldOnce
  <2>5. AskedOnce'
    BY <2>1, <2>3 DEF AskedOnce
  <2>6. ConvertedOnce'
    BY <2>1, <2>3 DEF ConvertedOnce
  <2> QED
    BY <2>4, <2>5, <2>6
<1> QED
  BY <1>1, <1>2 DEF Next

-----------------------------------------------------------------------------
(* The theorems.                                                           *)

LEMMA InductiveInvariant == Spec => []IInv
<1>1. Init => IInv
  BY InitTyped, InitLockInv, InitAccountInv, InitDisclosureInv, InitMessageInv DEF IInv
<1>2. IInv /\ [Next]_vars => IInv'
  BY NextTyped, NextKeepsLockInv, NextKeepsAccountInv, NextKeepsDisclosureInv,
     NextKeepsMessageInv DEF IInv
<1> QED
  BY <1>1, <1>2, PTL DEF Spec

(* An approval and its entry in the ledger exist together and once, no     *)
(* limit is passed, and no pass takes an approval back (approveMatch,      *)
(* checkApprovalGate, passMatch).                                          *)
THEOREM ApprovalsAreAccounted == Spec => []ApprovalsAccounted
<1>1. IInv => ApprovalsAccounted
  BY DEF IInv, AccountInv
<1> QED
  BY <1>1, InductiveInvariant, PTL

(* Who is told the other party's contact has approved, and the other has   *)
(* consented (deliverConnectionIfRevealed).                                *)
THEOREM DisclosureIsAuthorized == Spec => []ContactAuthorized
<1>1. IInv => ContactAuthorized
  BY DEF IInv, DisclosureInv
<1> QED
  BY <1>1, InductiveInvariant, PTL

(* The contact, the request for a confirmation and the message at the end  *)
(* of the trial are sent once at most.                                     *)
THEOREM MessagesAreSentOnce == Spec => []MessagesSentOnce
<1>1. IInv => MessagesSentOnce
  BY DEF IInv, MessageInv, ToldOnce, AskedOnce, ConvertedOnce, MessagesSentOnce
<1> QED
  BY <1>1, InductiveInvariant, PTL

(* A yes is only taken back by the party that gave it: the placeholder of  *)
(* a request never overwrites an answer (ON CONFLICT DO NOTHING).          *)
THEOREM ConsentIsKept == Spec => ConsentKept
<1> DEFINE Kept == \A m \in Matches, u \in Users :
          confirmed[m][u] = "yes" /\ confirmed'[m][u] # "yes" =>
             \E i \in Handlers : At(i, "answer") /\ h[i].m = m /\ h[i].u = u /\ ~h[i].yes
<1>1. ASSUME TypeInv, [Next]_vars PROVE Kept \/ UNCHANGED vars
  <2>1. confirmed \in [Matches -> [Users -> {"none", "no", "yes"}]]
    BY <1>1 DEF TypeInv, TypeOK
  <2>2. ASSUME NEW i \in Handlers, Ask(i) PROVE Kept
    <3>1. /\ h[i].m \in Matches /\ Other(h[i].m, h[i].u) \in Users
          /\ \/ UNCHANGED confirmed
             \/ /\ confirmed[h[i].m][Other(h[i].m, h[i].u)] = "none"
                /\ confirmed' = [confirmed EXCEPT ![h[i].m][Other(h[i].m, h[i].u)] = "no"]
      BY <1>1, <2>2, AwakeIsTyped, PartiesAreUsers DEF Ask, Placeholder, At, TypeInv, HandlerType
    <3> QED
      BY <2>1, <3>1
  <2>3. ASSUME NEW i \in Handlers, Answer(i) PROVE Kept
    <3>1. /\ h[i].m \in Matches /\ h[i].u \in Users /\ At(i, "answer")
          /\ confirmed' = [confirmed EXCEPT ![h[i].m][h[i].u] = IF h[i].yes THEN "yes" ELSE "no"]
      BY <1>1, <2>3, AwakeIsTyped DEF Answer, At, TypeInv, HandlerType
    <3> QED
      BY <2>1, <3>1
  <2>4. CASE ~\E i \in Handlers : Ask(i) \/ Answer(i)
    <3>1. UNCHANGED confirmed
      BY ZenonT(40), <1>1, <2>4
         DEF Next, Step, Request, SetOverride, LockMatch, Gate, CommitApproval, Convert,
             ReadApprovals, ReadConfirmations, WriteIntro, ReferIntro, Reveal, Claim, Tell,
             SendRequest, Pass, CommitSync, FindWaiting, Victim, Throw, SendFails, Restart,
             vars, connection
    <3> QED
      BY <3>1
  <2> QED
    BY <2>2, <2>3, <2>4
<1>2. TypeInv /\ [Next]_vars => [Kept]_vars
  BY <1>1
<1>3. Spec => []TypeInv
  BY InitTyped, NextTyped, PTL DEF Spec
<1> QED
  BY <1>2, <1>3, PTL DEF Spec, ConsentKept
=============================================================================
