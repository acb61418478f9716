---------------------- MODULE CheckoutActivationProofs ----------------------
(***************************************************************************)
(* What holds of CheckoutActivation for every set of sessions, workers and *)
(* faults.  A few invariants carry it.  ClaimInv: whoever works on a       *)
(* checkout holds a fresh claim on a pending row, so nobody else can win   *)
(* it, as long as claims are respected.  PaymentInv: under every fault,    *)
(* charges, ledger and plans balance with the work under way and the       *)
(* attempts that were cut short, a count over the activators.              *)
(* CurrentOrCarried and MembershipInv: a subscription goes one way, from   *)
(* the worker that created it to the row, and from the row to the worker   *)
(* that retires it.                                                        *)
(***************************************************************************)
EXTENDS CheckoutActivation, FiniteSetTheorems, TLAPS

(* The steps at which a worker's session matters.                          *)
OnSession == Holding \cup {"retire", "clear"}

SessionKnown == \A a \in Workers : w[a].pc \in OnSession => w[a].s \in Sessions

TypeInv == TypeOK /\ SessionKnown

(* No claim is released by a sweep that lost it, and none outlives the     *)
(* patience of its holder.                                                 *)
ClaimsRespected == Faults \cap {"claim", "slow"} = {}

ClaimKept == \A s \in Sessions : \A a \in Activators :
    Holds(a, s) => status[s] = "pending" /\ claim[s] = "fresh"

ClaimInv == ExclusiveActivation /\ ClaimKept

-----------------------------------------------------------------------------
(* Types.                                                                  *)

LEMMA IdleTyped == Idle \in WorkerState /\ Between \in WorkerState
BY DEF Local, Idle, Between, WorkerState, Stages, Throwing

LEMMA DoneTyped == \A a : Done(a) \in WorkerState /\ Done(a).pc \notin OnSession
BY IdleTyped DEF Done, Local, Idle, Between, OnSession, Holding, Paid

LEMMA InitTypeInv == Init => TypeInv
BY ConstantsAssumption, IdleTyped
   DEF Init, TypeInv, TypeOK, SessionKnown, Local, Idle, OnSession, Holding, Paid,
       Entitlement, NoMembership

(* A worker moves from one stage of its work to another.                   *)
LEMMA GotoTyped ==
  ASSUME TypeInv, NEW a \in Workers, NEW pc \in Stages, Goto(a, pc),
         pc \in OnSession => w[a].s \in Sessions
  PROVE  w' \in [Workers -> WorkerState] /\ SessionKnown'
BY DEF TypeInv, TypeOK, SessionKnown, Goto, Local, WorkerState

LEMMA ReturnTyped ==
  ASSUME TypeInv, NEW a \in Workers, Return(a)
  PROVE  w' \in [Workers -> WorkerState] /\ SessionKnown'
BY DoneTyped DEF TypeInv, TypeOK, SessionKnown, Return

LEMMA RequestsTyped ==
  ASSUME TypeInv, Requests
  PROVE  TypeInv'
<1> USE DEF TypeInv, TypeOK, Fault, Consumed
<1> USE DEF rows, processor, count
<1>1. CASE \E s \in Sessions : Join(s)
  BY <1>1, ConstantsAssumption DEF Join, SessionKnown
<1>2. CASE \E s \in Sessions : OpenPage(s)
  BY <1>2, ConstantsAssumption DEF OpenPage, SessionKnown
<1>3. CASE \E s \in Sessions : SaveCard(s)
  BY <1>3, ConstantsAssumption DEF SaveCard, SessionKnown
<1>4. CASE \E s \in Sessions : Age(s)
  BY <1>4, ConstantsAssumption DEF Age, SessionKnown
<1>5. CASE \E s \in Sessions : ClaimAges(s)
  BY <1>5, ConstantsAssumption DEF ClaimAges, SessionKnown
<1>6. CASE LoseWebhook
  BY <1>6 DEF LoseWebhook, SessionKnown
<1>7. CASE \E h \in Handlers, s \in Sessions : CardWebhook(h, s)
  <2>1. PICK h \in Handlers, s \in Sessions : CardWebhook(h, s)
    BY <1>7
  <2>2. Local("charge", s, None, None) \in WorkerState
    BY DEF Local, Idle, WorkerState, Stages, Throwing
  <2>3. w' \in [Workers -> WorkerState] /\ SessionKnown'
    BY <2>1, <2>2 DEF CardWebhook, SessionKnown, Local
  <2>4. claim' \in [Sessions -> {"free", "fresh", "stale"}]
    BY <2>1 DEF CardWebhook
  <2>5. cardHooks' \subseteq Sessions /\ faults' \in 0..MaxFaults
    <3>1. Consumed(cardHooks, s, cardHooks')
      BY <2>1 DEF CardWebhook
    <3>2. cardHooks' \subseteq Sessions
      BY <3>1
    <3>3. faults' \in 0..MaxFaults
      BY <3>1, ConstantsAssumption
    <3> QED
      BY <3>2, <3>3
  <2>6. UNCHANGED <<status, page, old, ent, ledger, card, charges, made, live,
                    cancelHooks, todo, aborted>>
    BY <2>1 DEF CardWebhook
  <2> QED
    BY <2>3, <2>4, <2>5, <2>6
<1>8. CASE \E h \in Handlers, id \in cancelHooks : CancelWebhook(h, id)
  <2>1. PICK h \in Handlers, id \in cancelHooks : CancelWebhook(h, id)
    BY <1>8
  <2>2. \A p \in Phones : Local("unplan", None, None, p) \in WorkerState
    BY DEF Local, Idle, WorkerState, Stages, Throwing
  <2>3. w' \in [Workers -> WorkerState] /\ SessionKnown'
    BY <2>1, <2>2 DEF CancelWebhook, SessionKnown, Local, OnSession, Holding, Paid
  <2> QED
    BY <2>1, <2>3, ConstantsAssumption DEF CancelWebhook
<1>9. CASE \E c \in Cancellers, p \in Phones : CancelStart(c, p)
  <2>1. PICK c \in Cancellers, p \in Phones : CancelStart(c, p)
    BY <1>9
  <2> DEFINE new == Local(IF ent[p].sub = None THEN "unplan" ELSE "stopArb",
                     None, ent[p].sub, p)
  <2>2. new \in WorkerState /\ new.pc \notin OnSession
    BY DEF Local, Idle, WorkerState, Stages, Throwing, Entitlement, OnSession, Holding, Paid
  <2>3. w' \in [Workers -> WorkerState] /\ SessionKnown'
    BY <2>1, <2>2 DEF CancelStart, SessionKnown
  <2> QED
    BY <2>1, <2>3 DEF CancelStart
<1> QED
  BY <1>1, <1>2, <1>3, <1>4, <1>5, <1>6, <1>7, <1>8, <1>9 DEF Requests

LEMMA ActivationTyped ==
  ASSUME TypeInv, NEW a \in Activators, ActivationStep(a)
  PROVE  TypeInv'
<1> USE DEF TypeInv, TypeOK, rows, processor, count
<1>a. a \in Workers
  BY DEF Workers
<1>b. \A pc \in OnSession \cup {"retire", "clear", "decline"} : pc \in Stages
  BY DEF OnSession, Holding, Paid, Stages, Throwing
<1>1. CASE Charge(a)
  <2>1. w[a].pc \in OnSession /\ (Goto(a, "arb") \/ Goto(a, "decline"))
    BY <1>1 DEF Charge, OnSession, Holding
  <2>2. w' \in [Workers -> WorkerState] /\ SessionKnown'
    BY <1>a, <2>1, GotoTyped DEF SessionKnown, Stages, Throwing
  <2>3. charges' \in [Sessions -> Nat]
    BY <1>1 DEF Charge
  <2> QED
    BY <1>1, <2>2, <2>3 DEF Charge
<1>2. CASE Decline(a)
  BY <1>2, <1>a, ReturnTyped DEF Decline
<1>3. CASE CreateArb(a)
  <2>1. w[a].s \in Sessions
    BY <1>3, <1>a DEF CreateArb, SessionKnown, OnSession, Holding, Paid
  <2> DEFINE id == <<w[a].s, made[w[a].s] + 1>>
  <2>2. id \in SubIds
    BY <2>1 DEF SubIds
  <2>3. Local("activate", w[a].s, id, None) \in WorkerState
    BY <2>1, <2>2 DEF Local, WorkerState, Stages, Throwing
  <2>4. w' \in [Workers -> WorkerState] /\ SessionKnown'
    BY <1>3, <1>a, <2>1, <2>3 DEF CreateArb, SessionKnown, Local
  <2>5. live' \subseteq SubIds
    BY <1>3, <2>2 DEF CreateArb
  <2>6. made' \in [Sessions -> Nat]
    <3>1. made' = [made EXCEPT ![w[a].s] = made[w[a].s] + 1]
      BY <1>3 DEF CreateArb
    <3> QED
      BY <2>1, <3>1
  <2> QED
    BY <1>3, <2>4, <2>5, <2>6 DEF CreateArb
<1>4. CASE Activate(a)
  <2> DEFINE s == w[a].s
             new == Membership(ent[Owner[s]], s, w[a].sub)
  <2>1. s \in Sessions /\ Owner[s] \in Phones /\ PlanOf[s] \in Plans
    BY <1>4, <1>a, ConstantsAssumption
       DEF Activate, SessionKnown, OnSession, Holding, Paid
  <2>2. w[a].sub \in SubIds \cup {None} /\ ent[Owner[s]] \in Entitlement
    BY <1>a, <2>1 DEF WorkerState
  <2>3. new \in Entitlement
    BY <2>1, <2>2 DEF Membership, SupersededBy, Entitlement
  <2>4. Local("record", s, new.superseded, None) \in WorkerState
    BY <2>1, <2>3 DEF Local, WorkerState, Stages, Throwing, Entitlement
  <2>5. w' \in [Workers -> WorkerState] /\ SessionKnown'
    BY <1>4, <1>a, <2>1, <2>4 DEF Activate, SessionKnown, Local
  <2>6. ent' \in [Phones -> Entitlement]
    BY <1>4, <2>3 DEF Activate
  <2> QED
    BY <1>4, <2>5, <2>6 DEF Activate
<1>5. CASE Record(a)
  <2>1. w[a].pc \in OnSession /\ Goto(a, "complete")
    BY <1>5 DEF Record, OnSession, Holding, Paid
  <2>2. w' \in [Workers -> WorkerState] /\ SessionKnown'
    BY <1>a, <2>1, GotoTyped DEF SessionKnown, Stages, Throwing
  <2>3. ledger' \in [Sessions -> Nat]
    <3>1. ledger' = [ledger EXCEPT ![w[a].s] = ledger[w[a].s] + 1]
      BY <1>5 DEF Record
    <3>2. w[a].s \in Sessions
      BY <1>a, <2>1 DEF SessionKnown
    <3> QED
      BY <3>1, <3>2
  <2> QED
    BY <1>5, <2>2, <2>3 DEF Record
<1>6. CASE Complete(a)
  <2>1. w[a].pc \in OnSession /\ (Goto(a, "retire") \/ Return(a))
    BY <1>6 DEF Complete, OnSession, Holding, Paid
  <2>2. w' \in [Workers -> WorkerState] /\ SessionKnown'
    BY <1>a, <2>1, GotoTyped, ReturnTyped DEF SessionKnown, Stages, Throwing
  <2>3. status' \in [Sessions -> {"none", "pending", "completed", "failed"}]
    BY <1>6 DEF Complete
  <2> QED
    BY <1>6, <2>2, <2>3 DEF Complete
<1>7. CASE Retire(a)
  <2>1. w[a].pc \in OnSession /\ Goto(a, "clear")
    BY <1>7 DEF Retire, OnSession
  <2>2. w' \in [Workers -> WorkerState] /\ SessionKnown'
    BY <1>a, <2>1, GotoTyped DEF SessionKnown, Stages, Throwing
  <2>3. live' \subseteq SubIds /\ cancelHooks' \subseteq SubIds
    BY <1>7 DEF Retire, CancelArb
  <2> QED
    BY <1>7, <2>2, <2>3 DEF Retire
<1>8. CASE Clear(a)
  <2>1. w' \in [Workers -> WorkerState] /\ SessionKnown'
    BY <1>8, <1>a, ReturnTyped DEF Clear
  <2>2. ent' \in [Phones -> Entitlement]
    <3> DEFINE p == Owner[w[a].s]
    <3>1. w[a].s \in Sessions /\ p \in Phones
      BY <1>8, <1>a, ConstantsAssumption DEF Clear, SessionKnown, OnSession
    <3>2. [ent[p] EXCEPT !.superseded = None] \in Entitlement
      BY <3>1 DEF Entitlement
    <3>3. ent' = [ent EXCEPT ![p] = [ent[p] EXCEPT !.superseded = None]]
      BY <1>8 DEF Clear
    <3> QED
      BY <3>2, <3>3
  <2> QED
    BY <1>8, <2>1, <2>2 DEF Clear
<1> QED
  BY <1>1, <1>2, <1>3, <1>4, <1>5, <1>6, <1>7, <1>8 DEF ActivationStep

LEMMA SweepTyped ==
  ASSUME TypeInv, NEW b \in Sweepers, SweepStep(b)
  PROVE  TypeInv'
<1> USE DEF TypeInv, TypeOK, rows, processor, count
<1>a. b \in Workers
  BY DEF Workers, Activators
<1>1. CASE SweepStart(b)
  <2>1. Listed \subseteq Sessions
    BY DEF Listed
  <2>2. w' \in [Workers -> WorkerState] /\ SessionKnown'
    BY <1>1, <1>a, IdleTyped
       DEF SweepStart, SessionKnown, Between, Local, OnSession, Holding, Paid
  <2> QED
    BY <1>1, <2>1, <2>2 DEF SweepStart
<1>2. CASE SweepEnd(b)
  <2>1. w' \in [Workers -> WorkerState] /\ SessionKnown'
    BY <1>2, <1>a, IdleTyped
       DEF SweepEnd, SessionKnown, Idle, Local, OnSession, Holding, Paid
  <2> QED
    BY <1>2, <2>1 DEF SweepEnd
<1>3. CASE SweepClaim(b)
  <2>1. PICK s \in Sessions :
          /\ todo' = [todo EXCEPT ![b] = @ \ {s}]
          /\ \/ /\ claim' = [claim EXCEPT ![s] = "fresh"]
                /\ w' = [w EXCEPT ![b] = Local("entitle", s, None, None)]
             \/ UNCHANGED <<claim, w>>
          /\ UNCHANGED <<status, page, old, ent, ledger, processor, count>>
    BY <1>3 DEF SweepClaim
  <2>2. Local("entitle", s, None, None) \in WorkerState
    BY DEF Local, WorkerState, Stages, Throwing
  <2>3. w' \in [Workers -> WorkerState] /\ SessionKnown'
    BY <2>1, <2>2, <1>a DEF SessionKnown, Local
  <2>4. claim' \in [Sessions -> {"free", "fresh", "stale"}]
    BY <2>1
  <2>5. todo' \in [Sweepers -> SUBSET Sessions]
    BY <2>1
  <2> QED
    BY <2>1, <2>3, <2>4, <2>5
<1>4. CASE ReadEntitlement(b)
  <2>1. /\ w[b].pc \in OnSession
        /\ Goto(b, "resolve") \/ Goto(b, "cards")
    BY <1>4 DEF ReadEntitlement, AfterEntitlement, OnSession, Holding
  <2>2. w' \in [Workers -> WorkerState] /\ SessionKnown'
    BY <1>a, <2>1, GotoTyped DEF SessionKnown, Stages, Throwing
  <2> QED
    BY <1>4, <2>2 DEF ReadEntitlement
<1>5. CASE Resolve(b)
  <2>1. w' \in [Workers -> WorkerState] /\ SessionKnown'
    BY <1>5, <1>a, ReturnTyped DEF Resolve
  <2> QED
    BY <1>5, <2>1 DEF Resolve
<1>6. CASE ReadCards(b)
  <2>1. /\ w[b].pc \in OnSession
        /\ Goto(b, "charge") \/ Goto(b, "release")
    BY <1>6 DEF ReadCards, OnSession, Holding
  <2>2. w' \in [Workers -> WorkerState] /\ SessionKnown'
    BY <1>a, <2>1, GotoTyped DEF SessionKnown, Stages, Throwing
  <2> QED
    BY <1>6, <2>2 DEF ReadCards
<1>7. CASE Release(b)
  <2>1. w' \in [Workers -> WorkerState] /\ SessionKnown'
    BY <1>7, <1>a, ReturnTyped DEF Release
  <2>2. claim' \in [Sessions -> {"free", "fresh", "stale"}]
    BY <1>7 DEF Release
  <2> QED
    BY <1>7, <2>1, <2>2 DEF Release
<1> QED
  BY <1>1, <1>2, <1>3, <1>4, <1>5, <1>6, <1>7 DEF SweepStep

LEMMA CancelTyped ==
  ASSUME TypeInv, NEW c \in Workers, CancelStep(c)
  PROVE  TypeInv'
<1> USE DEF TypeInv, TypeOK, rows, processor, count
<1>1. CASE StopArb(c)
  <2>1. Local("unplan", None, None, w[c].phone) \in WorkerState
    BY DEF Local, WorkerState, Stages, Throwing
  <2>2. w' \in [Workers -> WorkerState] /\ SessionKnown'
    BY <1>1, <2>1 DEF StopArb, SessionKnown, Local, OnSession, Holding, Paid
  <2>3. live' \subseteq SubIds /\ cancelHooks' \subseteq SubIds
    BY <1>1 DEF StopArb, CancelArb
  <2> QED
    BY <1>1, <2>2, <2>3 DEF StopArb
<1>2. CASE Unplan(c)
  <2> DEFINE p == w[c].phone
             new == [ent[p] EXCEPT !.plan = None, !.canceled = TRUE]
  <2>1. ent' = [ent EXCEPT ![p] = new]
    BY <1>2 DEF Unplan
  <2>2. ASSUME p \in Phones PROVE new \in Entitlement
    <3>1. ent[p] \in Entitlement
      BY <2>2
    <3> HIDE DEF p
    <3> QED
      BY <3>1 DEF Entitlement
  <2>3. ent' \in [Phones -> Entitlement]
    BY <2>1, <2>2
  <2>4. w' \in [Workers -> WorkerState] /\ SessionKnown'
    BY <1>2, IdleTyped
       DEF Unplan, SessionKnown, Idle, Local, OnSession, Holding, Paid
  <2> QED
    BY <1>2, <2>3, <2>4 DEF Unplan
<1> QED
  BY <1>1, <1>2 DEF CancelStep

(* Where a worker is after an exception.                                   *)
LEMMA AfterThrowTyped ==
  ASSUME TypeInv, NEW a \in Workers, w[a].pc \in Throwing
  PROVE  /\ AfterThrow(a) \in WorkerState
         /\ AfterThrow(a).pc \in OnSession => AfterThrow(a).s \in Sessions
<1> USE DEF TypeInv, TypeOK
<1>1. CASE w[a].pc \in {"retire", "clear"}
  BY <1>1, DoneTyped DEF AfterThrow
<1>2. CASE w[a].pc = "stopArb"
  BY <1>2 DEF AfterThrow, Local, WorkerState, Stages, OnSession, Holding, Paid
<1>3. CASE w[a].pc \notin {"retire", "clear", "stopArb"}
  <2>1. w[a].s \in Sessions
    BY <1>3 DEF Throwing, SessionKnown, OnSession, Holding, Paid
  <2>2. Local("release", w[a].s, None, None) \in WorkerState
    BY <2>1 DEF Local, WorkerState, Stages
  <2>3. AfterThrow(a) \in {Idle, Local("release", w[a].s, None, None)}
    BY <1>3 DEF AfterThrow
  <2> QED
    BY <2>1, <2>2, <2>3, IdleTyped DEF Idle, Local, OnSession, Holding, Paid
<1> QED
  BY <1>1, <1>2, <1>3

LEMMA FailuresTyped ==
  ASSUME TypeInv, Failures
  PROVE  TypeInv'
<1> USE DEF TypeInv, TypeOK, rows, processor, count
<1>a. \A kind : Fault(kind) => faults' \in 0..MaxFaults
  BY ConstantsAssumption DEF Fault
<1>1. CASE \E b \in Sweepers : SweepClaimThrows(b)
  <2>1. PICK b \in Sweepers, s \in Sessions :
          /\ Fault("claim")
          /\ todo' = [todo EXCEPT ![b] = @ \ {s}]
          /\ w' = [w EXCEPT ![b] = Local("release", s, None, None)]
          /\ aborted' = [aborted EXCEPT ![s] = @ + 1]
          /\ UNCHANGED <<rows, ent, ledger, processor>>
    BY <1>1 DEF SweepClaimThrows
  <2>2. Local("release", s, None, None) \in WorkerState
    BY DEF Local, WorkerState, Stages
  <2>3. w' \in [Workers -> WorkerState] /\ SessionKnown'
    BY <2>1, <2>2 DEF SessionKnown, Local, Workers, Activators
  <2>4. faults' \in 0..MaxFaults
    BY <1>a, <2>1
  <2> QED
    BY <2>1, <2>3, <2>4
<1>2. CASE \E a \in Workers : Throw(a)
  <2>1. PICK a \in Workers : Throw(a)
    BY <1>2
  <2>2. /\ AfterThrow(a) \in WorkerState
        /\ AfterThrow(a).pc \in OnSession => AfterThrow(a).s \in Sessions
    BY <2>1, AfterThrowTyped DEF Throw
  <2>3. w' \in [Workers -> WorkerState] /\ SessionKnown'
    BY <2>1, <2>2 DEF Throw, SessionKnown
  <2>4. faults' \in 0..MaxFaults
    BY <1>a, <2>1 DEF Throw
  <2>5. aborted' \in [Sessions -> Nat]
    <3>1. w[a].pc \in Paid => w[a].s \in Sessions
      BY <2>1 DEF SessionKnown, OnSession, Holding
    <3>2. \/ UNCHANGED aborted
          \/ /\ w[a].s \in Sessions
             /\ aborted' = [aborted EXCEPT ![w[a].s] = aborted[w[a].s] + 1]
      BY <2>1, <3>1 DEF Throw
    <3> QED
      BY <3>2
  <2> QED
    BY <2>1, <2>3, <2>4, <2>5 DEF Throw
<1>3. CASE \E id \in live : ProcessorEnds(id)
  <2>1. PICK id \in live : ProcessorEnds(id)
    BY <1>3
  <2>2. faults' \in 0..MaxFaults
    BY <1>a, <2>1 DEF ProcessorEnds
  <2>3. live' \subseteq SubIds /\ cancelHooks' \subseteq SubIds
    BY <2>1 DEF ProcessorEnds
  <2> QED
    BY <2>1, <2>2, <2>3 DEF ProcessorEnds, SessionKnown
<1>4. CASE Crash
  <2>1. faults' \in 0..MaxFaults
    BY <1>a, <1>4 DEF Crash
  <2>2. w' \in [Workers -> WorkerState] /\ SessionKnown'
    BY <1>4, IdleTyped DEF Crash, SessionKnown, Idle, Local, OnSession, Holding, Paid
  <2>3. aborted' \in [Sessions -> Nat]
    BY <1>4 DEF Crash
  <2> QED
    BY <1>4, <2>1, <2>2, <2>3 DEF Crash
<1> QED
  BY <1>1, <1>2, <1>3, <1>4 DEF Failures

LEMMA StepTypeInv == TypeInv /\ [Next]_vars => TypeInv'
<1> SUFFICES ASSUME TypeInv, [Next]_vars PROVE TypeInv'
  OBVIOUS
<1>1. CASE Next
  BY <1>1, RequestsTyped, ActivationTyped, SweepTyped, CancelTyped, FailuresTyped
     DEF Next, Progress
<1>2. CASE UNCHANGED vars
  BY <1>2 DEF vars, rows, processor, count, TypeInv, TypeOK, SessionKnown
<1> QED
  BY <1>1, <1>2

(* Every row, local variable and counter keeps its type, whatever fails    *)
(* and however handlers, sweeps and cancellations interleave; a worker     *)
(* past its claim always knows which checkout it works on.                 *)
THEOREM TypeCorrect == Spec => []TypeOK
<1>1. Spec => []TypeInv
  BY InitTypeInv, StepTypeInv, PTL DEF Spec
<1>2. TypeInv => TypeOK
  BY DEF TypeInv
<1> QED
  BY <1>1, <1>2, PTL

-----------------------------------------------------------------------------
(* Claims.  What a step does to ClaimInv depends only on what it does to   *)
(* the rows and to one worker, so the actions fall into a few kinds, each  *)
(* with its lemma.                                                         *)

LEMMA InitClaimInv == Init => ClaimInv
BY DEF Init, ClaimInv, ExclusiveActivation, ClaimKept, Holds, Idle, Local,
       Holding, Paid, Workers

(* A worker moves on, keeping its claim or dropping it unreleased.         *)
LEMMA MoveKeepsClaimInv ==
  ASSUME TypeInv, ClaimInv, NEW a \in Workers, NEW r,
         w' = [w EXCEPT ![a] = r],
         UNCHANGED <<status, claim>>,
         r.pc \in Holding => w[a].pc \in Holding /\ r.s = w[a].s
  PROVE  ClaimInv'
<1>1. \A b \in Activators, s \in Sessions : Holds(b, s)' => Holds(b, s)
  BY DEF Holds, TypeInv, TypeOK, Workers
<1>2. ExclusiveActivation'
  BY <1>1 DEF ClaimInv, ExclusiveActivation
<1>3. ClaimKept'
  BY <1>1 DEF ClaimInv, ClaimKept
<1> QED
  BY <1>2, <1>3 DEF ClaimInv

(* A claim is won: nobody held the checkout, for its claim was not fresh.  *)
LEMMA WinKeepsClaimInv ==
  ASSUME TypeInv, ClaimInv, NEW a \in Activators, NEW s \in Sessions,
         NEW pc \in {"charge", "entitle"},
         w[a].pc \in {"idle", "next"}, Claimable(s),
         w' = [w EXCEPT ![a] = Local(pc, s, None, None)],
         claim' = [claim EXCEPT ![s] = "fresh"],
         UNCHANGED status
  PROVE  ClaimInv'
<1>1. ~Held(s)
  BY DEF ClaimInv, ClaimKept, Held, Claimable
<1>2. \A b \in Activators, t \in Sessions :
        Holds(b, t)' => Holds(b, t) \/ (b = a /\ t = s)
  BY DEF Holds, TypeInv, TypeOK, Workers, Local
<1>3. ~Holds(a, s) /\ \A t \in Sessions : ~Holds(a, t)
  BY DEF Holds, Holding, Paid
<1>4. ExclusiveActivation'
  <2> SUFFICES ASSUME NEW t \in Sessions, NEW b \in Activators, NEW c \in Activators,
                      Holds(b, t)', Holds(c, t)'
               PROVE  b = c
    BY DEF ExclusiveActivation
  <2>1. CASE t = s
    BY <1>1, <1>2, <2>1 DEF Held
  <2>2. CASE t # s
    BY <1>2, <2>2 DEF ClaimInv, ExclusiveActivation
  <2> QED
    BY <2>1, <2>2
<1>5. ClaimKept'
  <2> SUFFICES ASSUME NEW t \in Sessions, NEW b \in Activators, Holds(b, t)'
               PROVE  status'[t] = "pending" /\ claim'[t] = "fresh"
    BY DEF ClaimKept
  <2>1. CASE t = s
    BY <2>1 DEF Claimable, TypeInv, TypeOK
  <2>2. CASE t # s
    BY <1>2, <2>2 DEF ClaimInv, ClaimKept, TypeInv, TypeOK
  <2> QED
    BY <2>1, <2>2
<1> QED
  BY <1>4, <1>5 DEF ClaimInv

(* The holder of a checkout resolves it and lets go of it.                 *)
LEMMA ResolveKeepsClaimInv ==
  ASSUME TypeInv, ClaimInv, NEW a \in Activators, NEW r,
         NEW outcome \in {"completed", "failed"},
         w[a].pc \in Holding, r.pc \notin Holding,
         w' = [w EXCEPT ![a] = r],
         status' = [status EXCEPT ![w[a].s] = outcome],
         UNCHANGED claim
  PROVE  ClaimInv'
<1> DEFINE s == w[a].s
<1>1. s \in Sessions /\ Holds(a, s)
  BY DEF TypeInv, SessionKnown, OnSession, Holds, Workers
<1>2. \A b \in Activators, t \in Sessions :
        Holds(b, t)' => Holds(b, t) /\ b # a
  BY DEF Holds, TypeInv, TypeOK, Workers
<1>3. \A b \in Activators, t \in Sessions : Holds(b, t)' => t # s
  BY <1>1, <1>2 DEF ClaimInv, ExclusiveActivation
<1>4. ExclusiveActivation'
  BY <1>2 DEF ClaimInv, ExclusiveActivation
<1>5. ClaimKept'
  BY <1>2, <1>3 DEF ClaimInv, ClaimKept, TypeInv, TypeOK
<1> QED
  BY <1>4, <1>5 DEF ClaimInv

(* The holder gives its claim back.                                        *)
LEMMA ReleaseKeepsClaimInv ==
  ASSUME TypeInv, ClaimInv, NEW b \in Sweepers, Release(b)
  PROVE  ClaimInv'
<1> DEFINE s == w[b].s
<1>1. s \in Sessions /\ b \in Activators /\ Holds(b, s)
  BY DEF TypeInv, SessionKnown, OnSession, Holds, Holding, Release, Workers, Activators
<1>2. w' = [w EXCEPT ![b] = Done(b)] /\ Done(b).pc \notin Holding
  BY DoneTyped DEF Release, Return, OnSession
<1>3. \A c \in Activators, t \in Sessions :
        Holds(c, t)' => Holds(c, t) /\ c # b
  BY <1>1, <1>2 DEF Holds, TypeInv, TypeOK, Workers
<1>4. \A c \in Activators, t \in Sessions : Holds(c, t)' => t # s
  BY <1>1, <1>3 DEF ClaimInv, ExclusiveActivation
<1>5. ExclusiveActivation'
  BY <1>3 DEF ClaimInv, ExclusiveActivation
<1>6. /\ UNCHANGED status
      /\ \A t \in Sessions : t # s => claim'[t] = claim[t]
  BY DEF Release, TypeInv, TypeOK
<1>7. ClaimKept'
  BY <1>3, <1>4, <1>6 DEF ClaimInv, ClaimKept
<1> QED
  BY <1>5, <1>7 DEF ClaimInv

(* What an exception makes of a worker's claim: it is kept or dropped.     *)
LEMMA AfterThrowHolds ==
  ASSUME NEW a \in Workers, w[a].pc \in Throwing, AfterThrow(a).pc \in Holding
  PROVE  w[a].pc \in Holding /\ AfterThrow(a).s = w[a].s
<1>1. CASE w[a].pc \in {"retire", "clear"}
  BY <1>1, DoneTyped DEF AfterThrow, OnSession
<1>2. CASE w[a].pc = "stopArb"
  BY <1>2 DEF AfterThrow, Local, Holding, Paid
<1>3. CASE w[a].pc \notin {"retire", "clear", "stopArb"}
  <2>1. w[a].pc \in Holding
    BY <1>3 DEF Throwing, Holding, Paid
  <2>2. AfterThrow(a) \in {Idle, Local("release", w[a].s, None, None)}
    BY <1>3 DEF AfterThrow
  <2>3. Idle.pc \notin Holding
    BY DEF Idle, Local, Holding, Paid
  <2> QED
    BY <2>1, <2>2, <2>3 DEF Local
<1> QED
  BY <1>1, <1>2, <1>3

LEMMA ThrowKeepsClaimInv ==
  ASSUME TypeInv, ClaimInv, NEW a \in Workers, Throw(a)
  PROVE  ClaimInv'
<1> DEFINE r == AfterThrow(a)
<1>1. /\ w' = [w EXCEPT ![a] = r]
      /\ w[a].pc \in Throwing
      /\ UNCHANGED <<status, claim>>
  BY DEF Throw, rows
<1>2. r.pc \in Holding => w[a].pc \in Holding /\ r.s = w[a].s
  BY <1>1, AfterThrowHolds
<1> HIDE DEF r
<1> QED
  BY <1>1, <1>2, MoveKeepsClaimInv

LEMMA CrashKeepsClaimInv ==
  ASSUME Crash
  PROVE  ClaimInv'
<1>1. \A a \in Activators, s \in Sessions : ~Holds(a, s)'
  BY DEF Crash, Holds, Workers, Idle, Local, Holding, Paid
<1> QED
  BY <1>1 DEF ClaimInv, ExclusiveActivation, ClaimKept

LEMMA RequestsKeepClaimInv ==
  ASSUME ClaimsRespected, TypeInv, ClaimInv, Requests
  PROVE  ClaimInv'
<1> USE DEF rows, processor, count
<1>1. CASE \E s \in Sessions : Join(s)
  <2>1. PICK s \in Sessions : Join(s)
    BY <1>1
  <2>2. UNCHANGED <<claim, w>>
    BY <2>1 DEF Join
  <2>3. \A t \in Sessions : status[t] = "pending" => status'[t] = "pending"
    BY <2>1 DEF Join, TypeInv, TypeOK
  <2>4. \A t \in Sessions :
          status'[t] \in {"none", "pending"} => status[t] \in {"none", "pending"}
    BY <2>1 DEF Join, TypeInv, TypeOK
  <2> QED
    BY <2>2, <2>3, <2>4 DEF ClaimInv, ExclusiveActivation, ClaimKept, Holds
<1>2. CASE \E s \in Sessions : ClaimAges(s)
  <2>1. PICK s \in Sessions : ClaimAges(s)
    BY <1>2
  <2>2. ~Held(s) /\ claim' = [claim EXCEPT ![s] = "stale"]
        /\ UNCHANGED <<status, w>>
    BY <2>1 DEF ClaimAges, ClaimsRespected, Fault
  <2>3. \A t \in Sessions, a \in Activators : Holds(a, t) => claim'[t] = claim[t]
    BY <2>2 DEF Held, TypeInv, TypeOK
  <2> QED
    BY <2>2, <2>3 DEF ClaimInv, ExclusiveActivation, ClaimKept, Holds
<1>3. CASE \/ \E s \in Sessions : OpenPage(s) \/ SaveCard(s) \/ Age(s)
           \/ LoseWebhook
  <2>1. UNCHANGED <<status, claim, w>>
    BY <1>3 DEF OpenPage, SaveCard, Age, LoseWebhook
  <2> QED
    BY <2>1 DEF ClaimInv, ExclusiveActivation, ClaimKept, Holds
<1>4. CASE \E h \in Handlers, s \in Sessions : CardWebhook(h, s)
  <2>1. PICK h \in Handlers, s \in Sessions : CardWebhook(h, s)
    BY <1>4
  <2>2. UNCHANGED status /\ w[h].pc = "idle"
    BY <2>1 DEF CardWebhook
  <2>3. CASE UNCHANGED <<claim, w>>
    BY <2>2, <2>3 DEF ClaimInv, ExclusiveActivation, ClaimKept, Holds
  <2>4. CASE /\ Claimable(s)
             /\ claim' = [claim EXCEPT ![s] = "fresh"]
             /\ w' = [w EXCEPT ![h] = Local("charge", s, None, None)]
    BY <2>2, <2>4, WinKeepsClaimInv DEF Activators
  <2> QED
    BY <2>1, <2>3, <2>4 DEF CardWebhook
<1>5. CASE \E h \in Handlers, id \in cancelHooks : CancelWebhook(h, id)
  <2>1. PICK h \in Handlers, id \in cancelHooks : CancelWebhook(h, id)
    BY <1>5
  <2>2. UNCHANGED <<status, claim>> /\ w[h].pc = "idle"
    BY <2>1 DEF CancelWebhook
  <2>3. CASE UNCHANGED w
    BY <2>2, <2>3 DEF ClaimInv, ExclusiveActivation, ClaimKept, Holds
  <2>4. CASE \E p \in Phones : w' = [w EXCEPT ![h] = Local("unplan", None, None, p)]
    <3>1. PICK p \in Phones : w' = [w EXCEPT ![h] = Local("unplan", None, None, p)]
      BY <2>4
    <3>2. Local("unplan", None, None, p).pc \notin Holding
      BY DEF Local, Holding, Paid
    <3>3. h \in Workers
      BY DEF Workers, Activators
    <3> QED
      BY <2>2, <3>1, <3>2, <3>3, MoveKeepsClaimInv
  <2> QED
    BY <2>1, <2>3, <2>4 DEF CancelWebhook
<1>6. CASE \E c \in Cancellers, p \in Phones : CancelStart(c, p)
  <2>1. PICK c \in Cancellers, p \in Phones : CancelStart(c, p)
    BY <1>6
  <2> DEFINE r == Local(IF ent[p].sub = None THEN "unplan" ELSE "stopArb",
                        None, ent[p].sub, p)
  <2>2. /\ w' = [w EXCEPT ![c] = r]
        /\ UNCHANGED <<status, claim>>
        /\ c \in Workers
    BY <2>1 DEF CancelStart, Paid, Workers
  <2>3. r.pc \notin Holding
    BY DEF Local, Holding, Paid
  <2> HIDE DEF r
  <2> QED
    BY <2>2, <2>3, MoveKeepsClaimInv
<1> QED
  BY <1>1, <1>2, <1>3, <1>4, <1>5, <1>6 DEF Requests

LEMMA ProgressKeepsClaimInv ==
  ASSUME TypeInv, ClaimInv, Progress
  PROVE  ClaimInv'
<1> USE DEF rows, processor, count
<1>1. ASSUME NEW a \in Workers, NEW pc, Goto(a, pc), w[a].pc \in Holding,
             UNCHANGED <<status, claim>>
      PROVE  ClaimInv'
  <2> DEFINE r == Local(pc, w[a].s, w[a].sub, w[a].phone)
  <2>1. w' = [w EXCEPT ![a] = r] /\ r.s = w[a].s /\ r.pc = pc
    BY <1>1 DEF Goto, Local
  <2> HIDE DEF r
  <2> QED
    BY <1>1, <2>1, MoveKeepsClaimInv
<1>2. ASSUME NEW a \in Workers, NEW r, w' = [w EXCEPT ![a] = r],
             r.pc \notin Holding, UNCHANGED <<status, claim>>
      PROVE  ClaimInv'
  BY <1>2, MoveKeepsClaimInv
<1>3. \A a \in Workers : Return(a) =>
        w' = [w EXCEPT ![a] = Done(a)] /\ Done(a).pc \notin Holding
  BY DoneTyped DEF Return, OnSession
<1>4. CASE \E a \in Activators : ActivationStep(a)
  <2>1. PICK a \in Activators : ActivationStep(a)
    BY <1>4
  <2>a. a \in Workers
    BY DEF Workers
  <2>2. CASE Charge(a)
    <3>1. /\ Goto(a, "arb") \/ Goto(a, "decline")
          /\ w[a].pc \in Holding /\ UNCHANGED <<status, claim>>
      BY <2>2 DEF Charge, Holding
    <3> QED
      BY <1>1, <2>a, <3>1
  <2>3. CASE Decline(a)
    <3>1. w[a].pc \in Holding /\ UNCHANGED claim
          /\ status' = [status EXCEPT ![w[a].s] = "failed"] /\ Return(a)
      BY <2>3 DEF Decline, Holding
    <3> QED
      BY <1>3, <2>a, <3>1, ResolveKeepsClaimInv
  <2>4. CASE CreateArb(a)
    <3> DEFINE r == Local("activate", w[a].s, <<w[a].s, made[w[a].s] + 1>>, None)
    <3>1. /\ w' = [w EXCEPT ![a] = r]
          /\ UNCHANGED <<status, claim>>
          /\ w[a].pc \in Holding
      BY <2>4 DEF CreateArb, Holding, Paid
    <3>2. r.pc \in Paid /\ r.s = w[a].s
      BY DEF Local, Paid
    <3> HIDE DEF r
    <3> QED
      BY <2>a, <3>1, <3>2, MoveKeepsClaimInv
  <2>5. CASE Activate(a)
    <3> DEFINE r == Local("record", w[a].s,
                      Membership(ent[Owner[w[a].s]], w[a].s, w[a].sub).superseded, None)
    <3>1. /\ w' = [w EXCEPT ![a] = r]
          /\ UNCHANGED <<status, claim>>
          /\ w[a].pc \in Holding
      BY <2>5 DEF Activate, Holding, Paid
    <3>2. r.pc \in Paid /\ r.s = w[a].s
      BY DEF Local, Paid
    <3> HIDE DEF r
    <3> QED
      BY <2>a, <3>1, <3>2, MoveKeepsClaimInv
  <2>6. CASE Record(a)
    <3>1. /\ Goto(a, "complete") /\ w[a].pc \in Holding
          /\ UNCHANGED <<status, claim>>
      BY <2>6 DEF Record, Holding, Paid
    <3> QED
      BY <1>1, <2>a, <3>1 DEF Paid
  <2>7. CASE Complete(a)
    <3>1. w[a].pc \in Holding /\ UNCHANGED claim
          /\ status' = [status EXCEPT ![w[a].s] = "completed"]
      BY <2>7 DEF Complete, Holding, Paid
    <3> DEFINE r == Local("retire", w[a].s, w[a].sub, w[a].phone)
    <3>2. r.pc \notin Holding
      BY DEF Local, Holding, Paid
    <3>3. Return(a) \/ w' = [w EXCEPT ![a] = r]
      BY <2>7 DEF Complete, Goto
    <3> HIDE DEF r
    <3> QED
      BY <1>3, <2>a, <3>1, <3>2, <3>3, ResolveKeepsClaimInv
  <2>8. CASE Retire(a)
    <3> DEFINE r == Local("clear", w[a].s, w[a].sub, w[a].phone)
    <3>1. r.pc \notin Holding
      BY DEF Local, Holding, Paid
    <3>2. /\ w' = [w EXCEPT ![a] = r]
          /\ UNCHANGED <<status, claim>>
      BY <2>8 DEF Retire, Goto, Paid
    <3> HIDE DEF r
    <3> QED
      BY <1>2, <2>a, <3>1, <3>2
  <2>9. CASE Clear(a)
    <3>1. /\ Return(a)
          /\ UNCHANGED <<status, claim>>
      BY <2>9 DEF Clear, Paid
    <3> QED
      BY <1>2, <1>3, <2>a, <3>1
  <2> QED
    BY <2>1, <2>2, <2>3, <2>4, <2>5, <2>6, <2>7, <2>8, <2>9 DEF ActivationStep
<1>5. CASE \E b \in Sweepers : SweepStep(b)
  <2>1. PICK b \in Sweepers : SweepStep(b)
    BY <1>5
  <2>a. b \in Workers /\ b \in Activators
    BY DEF Workers, Activators
  <2>b. Idle.pc \notin Holding /\ Between.pc \notin Holding
    BY DEF Idle, Between, Local, Holding, Paid
  <2>2. CASE SweepStart(b) \/ SweepEnd(b)
    <3>1. /\ \E r \in {Idle, Between} : w' = [w EXCEPT ![b] = r]
          /\ UNCHANGED <<status, claim>>
      BY <2>2 DEF SweepStart, SweepEnd, Paid
    <3> QED
      BY <1>2, <2>a, <2>b, <3>1
  <2>3. CASE SweepClaim(b)
    <3>1. PICK s \in Sessions :
            /\ w[b].pc = "next"
            /\ \/ /\ Claimable(s)
                  /\ claim' = [claim EXCEPT ![s] = "fresh"]
                  /\ w' = [w EXCEPT ![b] = Local("entitle", s, None, None)]
               \/ UNCHANGED <<claim, w>>
            /\ UNCHANGED status
      BY <2>3 DEF SweepClaim
    <3>2. CASE UNCHANGED <<claim, w>>
      BY <3>1, <3>2 DEF ClaimInv, ExclusiveActivation, ClaimKept, Holds
    <3> QED
      BY <2>a, <3>1, <3>2, WinKeepsClaimInv
  <2>4. CASE ReadEntitlement(b)
    <3>1. PICK pc : Goto(b, pc)
      BY <2>4 DEF ReadEntitlement
    <3>2. /\ w[b].pc \in Holding
          /\ UNCHANGED <<status, claim>>
      BY <2>4 DEF ReadEntitlement, Holding, Paid
    <3> QED
      BY <1>1, <2>a, <3>1, <3>2
  <2>5. CASE Resolve(b)
    <3>1. w[b].pc \in Holding /\ UNCHANGED claim
          /\ status' = [status EXCEPT ![w[b].s] = "completed"] /\ Return(b)
      BY <2>5 DEF Resolve, Holding
    <3> QED
      BY <1>3, <2>a, <3>1, ResolveKeepsClaimInv
  <2>6. CASE ReadCards(b)
    <3>1. PICK pc : Goto(b, pc)
      BY <2>6 DEF ReadCards
    <3>2. /\ w[b].pc \in Holding
          /\ UNCHANGED <<status, claim>>
      BY <2>6 DEF ReadCards, Holding, Paid
    <3> QED
      BY <1>1, <2>a, <3>1, <3>2
  <2>7. CASE Release(b)
    BY <2>7, ReleaseKeepsClaimInv
  <2> QED
    BY <2>1, <2>2, <2>3, <2>4, <2>5, <2>6, <2>7 DEF SweepStep
<1>6. CASE \E c \in Workers : CancelStep(c)
  <2>1. PICK c \in Workers : CancelStep(c)
    BY <1>6
  <2>2. /\ \E r \in {Idle, Local("unplan", None, None, w[c].phone)} :
             w' = [w EXCEPT ![c] = r]
        /\ UNCHANGED <<status, claim>>
    BY <2>1 DEF CancelStep, StopArb, Unplan, Paid
  <2>3. \A r \in {Idle, Local("unplan", None, None, w[c].phone)} : r.pc \notin Holding
    BY DEF Idle, Local, Holding, Paid
  <2> QED
    BY <1>2, <2>2, <2>3
<1> QED
  BY <1>4, <1>5, <1>6 DEF Progress

LEMMA FailuresKeepClaimInv ==
  ASSUME ClaimsRespected, TypeInv, ClaimInv, Failures
  PROVE  ClaimInv'
<1>1. ~\E b \in Sweepers : SweepClaimThrows(b)
  BY DEF SweepClaimThrows, Fault, ClaimsRespected
<1>2. CASE \E a \in Workers : Throw(a)
  BY <1>2, ThrowKeepsClaimInv
<1>3. CASE \E id \in live : ProcessorEnds(id)
  <2>1. UNCHANGED <<status, claim, w>>
    BY <1>3 DEF ProcessorEnds, rows
  <2> QED
    BY <2>1 DEF ClaimInv, ExclusiveActivation, ClaimKept, Holds
<1>4. CASE Crash
  BY <1>4, CrashKeepsClaimInv
<1> QED
  BY <1>1, <1>2, <1>3, <1>4 DEF Failures

LEMMA StepClaimInv ==
  ASSUME ClaimsRespected
  PROVE  TypeInv /\ ClaimInv /\ [Next]_vars => ClaimInv'
<1> SUFFICES ASSUME TypeInv, ClaimInv, [Next]_vars PROVE ClaimInv'
  OBVIOUS
<1>1. CASE Next
  BY <1>1, RequestsKeepClaimInv, ProgressKeepsClaimInv, FailuresKeepClaimInv DEF Next
<1>2. CASE UNCHANGED vars
  BY <1>2 DEF vars, rows, processor, count, ClaimInv, ExclusiveActivation,
     ClaimKept, Holds
<1> QED
  BY <1>1, <1>2

LEMMA ClaimInvariant ==
  ASSUME ClaimsRespected
  PROVE  Spec => [](TypeInv /\ ClaimInv)
<1>1. Init => TypeInv /\ ClaimInv
  BY InitTypeInv, InitClaimInv
<1>2. TypeInv /\ ClaimInv /\ [Next]_vars => (TypeInv /\ ClaimInv)'
  BY StepTypeInv, StepClaimInv
<1> QED
  BY <1>1, <1>2, PTL DEF Spec

(* The claim of claimCheckoutSessionForActivation is a mutual exclusion:   *)
(* with any number of webhook handlers, sweeps, throws, crashes, duplicate *)
(* and lost webhooks, one of them works on a checkout at a time, as long   *)
(* as no claim is stale under its holder and no claim statement throws.    *)
THEOREM ActivationIsExclusive ==
  ASSUME ClaimsRespected
  PROVE  Spec => []ExclusiveActivation
<1>1. TypeInv /\ ClaimInv => ExclusiveActivation
  BY DEF ClaimInv
<1> QED
  BY <1>1, ClaimInvariant, PTL

-----------------------------------------------------------------------------
(* Only the holder of a pending checkout resolves it or charges it.        *)
LEMMA ResolvedStaysResolved ==
  ASSUME TypeInv, ClaimInv, [Next]_vars,
         NEW s \in Sessions, status[s] \in {"completed", "failed"}
  PROVE  status'[s] = status[s] /\ charges'[s] = charges[s]
<1> USE DEF rows, processor, count
<1>1. \A a \in Activators : ~Holds(a, s)
  BY DEF ClaimInv, ClaimKept
<1>2. CASE UNCHANGED <<status, charges>>
  BY <1>2
<1>3. CASE \E t \in Sessions : Join(t)
  BY <1>3 DEF Join, TypeInv, TypeOK
<1>4. CASE \E a \in Activators : Charge(a) \/ Decline(a) \/ Complete(a)
  <2>1. PICK a \in Activators : Charge(a) \/ Decline(a) \/ Complete(a)
    BY <1>4
  <2>2. w[a].pc \in Holding
    BY <2>1 DEF Charge, Decline, Complete, Holding, Paid
  <2>3. w[a].s # s
    BY <1>1, <2>2 DEF Holds
  <2> QED
    BY <2>1, <2>3 DEF Charge, Decline, Complete, TypeInv, TypeOK
<1>5. CASE \E b \in Sweepers : Resolve(b)
  <2>1. PICK b \in Sweepers : Resolve(b)
    BY <1>5
  <2>2. w[b].s # s
    BY <1>1, <2>1 DEF Resolve, Holds, Holding, Activators
  <2> QED
    BY <2>1, <2>2 DEF Resolve, TypeInv, TypeOK
<1>6. CASE Requests /\ ~\E t \in Sessions : Join(t)
  BY <1>2, <1>6 DEF Requests, OpenPage, SaveCard, Age, ClaimAges, LoseWebhook,
     CardWebhook, CancelWebhook, CancelStart
<1>7. CASE \E a \in Activators :
             CreateArb(a) \/ Activate(a) \/ Record(a) \/ Retire(a) \/ Clear(a)
  BY <1>2, <1>7 DEF CreateArb, Activate, Record, Retire, Clear
<1>8. CASE \E b \in Sweepers :
             \/ SweepStart(b) \/ SweepEnd(b) \/ SweepClaim(b)
             \/ ReadEntitlement(b) \/ ReadCards(b) \/ Release(b)
  BY <1>2, <1>8 DEF SweepStart, SweepEnd, SweepClaim, ReadEntitlement,
     ReadCards, Release
<1>9. CASE \E c \in Workers : CancelStep(c)
  BY <1>2, <1>9 DEF CancelStep, StopArb, Unplan
<1>10. CASE Failures
  BY <1>2, <1>10 DEF Failures, SweepClaimThrows, Throw, ProcessorEnds, Crash
<1>11. CASE UNCHANGED vars
  BY <1>2, <1>11 DEF vars
<1> QED
  BY <1>3, <1>4, <1>5, <1>6, <1>7, <1>8, <1>9, <1>10, <1>11
     DEF Next, Progress, ActivationStep, SweepStep

(* Under the same condition a completed or failed checkout keeps its       *)
(* outcome and is never charged, although markCheckoutSessionStatus and    *)
(* the processor would both accept it.                                     *)
THEOREM OutcomeIsFinal ==
  ASSUME ClaimsRespected
  PROVE  Spec => OutcomeFinal
<1>1. TypeInv /\ ClaimInv /\ [Next]_vars =>
        [\A s \in Sessions : status[s] \in {"completed", "failed"} =>
            status'[s] = status[s] /\ charges'[s] = charges[s]]_vars
  BY ResolvedStaysResolved
<1> QED
  BY <1>1, ClaimInvariant, PTL DEF Spec, OutcomeFinal

-----------------------------------------------------------------------------
(* Payments.  Every step is a transfer between the sides of a few sums:    *)
(* holders of a checkout, the room for one more, its charges, its ledger   *)
(* rows, the work under way and the attempts that were cut short.          *)

(* The activators that are at one of some stages of their work on a        *)
(* checkout, and how many they are.                                        *)
Working(s, stages) == {a \in Activators : w[a].s = s /\ w[a].pc \in stages}
Number(s, stages) == Cardinality(Working(s, stages))

(* What one of them, in a local state, counts for.                         *)
Share(a, x, s, stages) ==
    IF a \in Activators /\ x.s = s /\ x.pc \in stages THEN 1 ELSE 0

(* Charged, and not yet in the ledger.                                     *)
Booking == {"arb", "activate", "record"}

Unresolved(s) == status[s] \in {"none", "pending"}

(* The claim on the checkout can be won, now or once the row is there.     *)
Room(s) == IF Unresolved(s) /\ claim[s] # "fresh" THEN 1 ELSE 0
Due(s) == IF Unresolved(s) THEN 1 ELSE 0

WorkersCounted == \A s \in Sessions : IsFiniteSet(Working(s, Holding))

(* What is booked or about to be has been charged.                         *)
BookedAfterCharge(s) == ledger[s] + Number(s, Booking) <= charges[s]

(* Whoever may work on a checkout, and whatever it was charged, is paid    *)
(* for by the one claim it started with, by paid work, or by a fault.      *)
AttemptsCovered(s) ==
    /\ Number(s, Holding) + Room(s) + charges[s] <= 1 + aborted[s] + Number(s, Paid)
    /\ Due(s) + charges[s] <= 1 + aborted[s] + Number(s, Paid)

(* The same of charges that are not in the ledger; resolving the checkout  *)
(* uses up the claim.                                                      *)
BooksCovered(s) ==
    /\ Number(s, Holding) + Room(s) + charges[s]
         <= Due(s) + aborted[s] + ledger[s] + Number(s, Booking)
    /\ charges[s] <= aborted[s] + ledger[s] + Number(s, Booking)

Balanced(s) == BookedAfterCharge(s) /\ AttemptsCovered(s) /\ BooksCovered(s)

PaymentInv == WorkersCounted /\ (\A s \in Sessions : Balanced(s)) /\ PlansArePaidFor

(* A set that gains or loses one member at most.                           *)
LEMMA Recount ==
  ASSUME NEW S, NEW T, NEW a, IsFiniteSet(S), S \ {a} = T \ {a}
  PROVE  /\ IsFiniteSet(T)
         /\ Cardinality(S) \in Nat /\ Cardinality(T) \in Nat
         /\ Cardinality(T) = Cardinality(S) - (IF a \in S THEN 1 ELSE 0) + (IF a \in T THEN 1 ELSE 0)
<1> DEFINE R == S \ {a}
<1>1. IsFiniteSet(R) /\ Cardinality(R) \in Nat /\ a \notin R
  BY FS_RemoveElement, FS_CardinalityType
<1>2. S = (IF a \in S THEN R \cup {a} ELSE R) /\ T = (IF a \in T THEN R \cup {a} ELSE R)
  OBVIOUS
<1>3. IsFiniteSet(R \cup {a}) /\ Cardinality(R \cup {a}) = Cardinality(R) + 1
  BY <1>1, FS_AddElement
<1> HIDE DEF R
<1>4. IsFiniteSet(T)
  BY <1>1, <1>2, <1>3
<1>5. Cardinality(S) = Cardinality(R) + (IF a \in S THEN 1 ELSE 0)
  <2>1. CASE a \in S
    BY <1>2, <1>3, <2>1
  <2>2. CASE a \notin S
    BY <1>1, <1>2, <2>2
  <2> QED
    BY <2>1, <2>2
<1>6. Cardinality(T) = Cardinality(R) + (IF a \in T THEN 1 ELSE 0)
  <2>1. CASE a \in T
    BY <1>2, <1>3, <2>1
  <2>2. CASE a \notin T
    BY <1>1, <1>2, <2>2
  <2> QED
    BY <2>1, <2>2
<1>7. (IF a \in S THEN 1 ELSE 0) \in Int /\ (IF a \in T THEN 1 ELSE 0) \in Int
  OBVIOUS
<1>8. Cardinality(S) \in Nat /\ Cardinality(T) \in Nat
  BY <1>4, FS_CardinalityType
<1> QED
  BY <1>1, <1>4, <1>5, <1>6, <1>7, <1>8

(* One worker moves: the count of any stages changes by what it leaves and *)
(* what it enters.                                                         *)
LEMMA MoveNumber ==
  ASSUME TypeInv, NEW a \in Workers, NEW r, w' = [w EXCEPT ![a] = r],
         NEW s \in Sessions, NEW stages, IsFiniteSet(Working(s, stages))
  PROVE  /\ IsFiniteSet(Working(s, stages)')
         /\ Number(s, stages) \in Nat /\ Number(s, stages)' \in Nat
         /\ Number(s, stages)' = Number(s, stages)
              - Share(a, w[a], s, stages)
              + Share(a, r, s, stages)
<1> DEFINE S == Working(s, stages)
           T == Working(s, stages)'
<1>1. \A b \in Activators : w'[b] = IF b = a THEN r ELSE w[b]
  BY DEF TypeInv, TypeOK, Workers
<1>2. S \ {a} = T \ {a}
  BY <1>1 DEF Working
<1>3. /\ a \in S <=> a \in Activators /\ w[a].s = s /\ w[a].pc \in stages
      /\ a \in T <=> a \in Activators /\ r.s = s /\ r.pc \in stages
  BY <1>1 DEF Working
<1> HIDE DEF S, T
<1>4. /\ IsFiniteSet(T)
      /\ Cardinality(S) \in Nat /\ Cardinality(T) \in Nat
      /\ Cardinality(T) = Cardinality(S) - (IF a \in S THEN 1 ELSE 0) + (IF a \in T THEN 1 ELSE 0)
  BY <1>2, Recount DEF S
<1>5. /\ (IF a \in S THEN 1 ELSE 0) = Share(a, w[a], s, stages)
      /\ (IF a \in T THEN 1 ELSE 0) = Share(a, r, s, stages)
  BY <1>3 DEF Share
<1>6. Number(s, stages) = Cardinality(S) /\ Number(s, stages)' = Cardinality(T)
  BY DEF Number, S, T
<1> QED
  BY <1>4, <1>5, <1>6 DEF S, T

LEMMA StagesCounted ==
  ASSUME WorkersCounted, NEW s \in Sessions
  PROVE  /\ \A stages \in {Holding, Paid, Booking} :
              IsFiniteSet(Working(s, stages)) /\ Number(s, stages) \in Nat
         /\ Number(s, Booking) <= Number(s, Paid)
         /\ Number(s, Paid) <= Number(s, Holding)
<1>1. Working(s, Booking) \subseteq Working(s, Paid)
      /\ Working(s, Paid) \subseteq Working(s, Holding)
  BY DEF Working, Booking, Paid, Holding
<1>2. IsFiniteSet(Working(s, Holding))
  BY DEF WorkersCounted
<1>3. IsFiniteSet(Working(s, Paid)) /\ IsFiniteSet(Working(s, Booking))
  BY <1>1, <1>2, FS_Subset
<1>4. Number(s, Booking) <= Number(s, Paid) /\ Number(s, Paid) <= Number(s, Holding)
  BY <1>1, <1>2, <1>3, FS_Subset DEF Number
<1>5. \A stages \in {Holding, Paid, Booking} : Number(s, stages) \in Nat
  BY <1>2, <1>3, FS_CardinalityType DEF Number
<1> QED
  BY <1>2, <1>3, <1>4, <1>5

(* The three counts a move changes.                                        *)
LEMMA MoveNumbers ==
  ASSUME TypeInv, WorkersCounted, NEW a \in Workers, NEW r,
         w' = [w EXCEPT ![a] = r], NEW s \in Sessions
  PROVE  /\ IsFiniteSet(Working(s, Holding)')
         /\ \A stages \in {Holding, Paid, Booking} :
              /\ Number(s, stages) \in Nat /\ Number(s, stages)' \in Nat
              /\ Number(s, stages)' = Number(s, stages)
                   - Share(a, w[a], s, stages)
                   + Share(a, r, s, stages)
<1>1. \A stages \in {Holding, Paid, Booking} : IsFiniteSet(Working(s, stages))
  BY StagesCounted
<1>2. ASSUME NEW stages \in {Holding, Paid, Booking}
      PROVE  /\ IsFiniteSet(Working(s, stages)')
             /\ Number(s, stages) \in Nat /\ Number(s, stages)' \in Nat
             /\ Number(s, stages)' = Number(s, stages)
                  - Share(a, w[a], s, stages)
                  + Share(a, r, s, stages)
  <2>1. IsFiniteSet(Working(s, stages))
    BY <1>1
  <2> QED
    BY <2>1, MoveNumber
<1>3. IsFiniteSet(Working(s, Holding)')
  BY <1>2
<1> QED
  BY <1>2, <1>3

(* A step that leaves every count and every number of the books alone.     *)
LEMMA StillBalanced ==
  ASSUME WorkersCounted, \A s \in Sessions : Balanced(s),
         UNCHANGED <<w, status, claim, charges, ledger, aborted>>
  PROVE  WorkersCounted' /\ \A s \in Sessions : Balanced(s)'
<1>1. \A s \in Sessions, stages \in {Holding, Paid, Booking} :
        Working(s, stages)' = Working(s, stages) /\ Number(s, stages)' = Number(s, stages)
  BY DEF Working, Number
<1>2. \A s \in Sessions : Room(s)' = Room(s) /\ Due(s)' = Due(s)
  BY DEF Room, Due, Unresolved
<1> QED
  BY <1>1, <1>2 DEF WorkersCounted, Balanced, BookedAfterCharge, AttemptsCovered,
     BooksCovered

LEMMA PaidStages == Booking \subseteq Paid /\ Paid \subseteq Holding
BY DEF Booking, Paid, Holding

(* A worker moves within its part of the work, or drops a claim unreleased *)
(* without having paid work.                                               *)
LEMMA MoveBalances ==
  ASSUME TypeInv, WorkersCounted, \A s \in Sessions : Balanced(s),
         NEW a \in Workers, NEW r, w' = [w EXCEPT ![a] = r],
         UNCHANGED <<status, claim, charges, ledger, aborted>>,
         r.pc \in Holding => w[a].pc \in Holding /\ r.s = w[a].s,
         r.pc \in Paid <=> w[a].pc \in Paid,
         r.pc \in Booking <=> w[a].pc \in Booking
  PROVE  WorkersCounted' /\ \A s \in Sessions : Balanced(s)'
<1>1. SUFFICES ASSUME NEW s \in Sessions
               PROVE  IsFiniteSet(Working(s, Holding)') /\ Balanced(s)'
  BY DEF WorkersCounted
<1>2. /\ IsFiniteSet(Working(s, Holding)')
      /\ \A stages \in {Holding, Paid, Booking} :
           /\ Number(s, stages) \in Nat /\ Number(s, stages)' \in Nat
           /\ Number(s, stages)' = Number(s, stages)
                - Share(a, w[a], s, stages) + Share(a, r, s, stages)
  BY MoveNumbers
<1>3. /\ Number(s, Holding)' <= Number(s, Holding)
      /\ Number(s, Paid)' = Number(s, Paid)
      /\ Number(s, Booking)' = Number(s, Booking)
  BY <1>2, PaidStages DEF Share
<1>4. Room(s)' = Room(s) /\ Room(s) \in Nat /\ Due(s)' = Due(s) /\ Due(s) \in Nat
  BY DEF Room, Unresolved, Due
<1>5. /\ charges'[s] = charges[s] /\ ledger'[s] = ledger[s] /\ aborted'[s] = aborted[s]
      /\ charges[s] \in Nat /\ ledger[s] \in Nat /\ aborted[s] \in Nat
  BY DEF TypeInv, TypeOK
<1>7. Balanced(s)
  OBVIOUS
<1>8. BookedAfterCharge(s)' /\ AttemptsCovered(s)'
  BY <1>2, <1>3, <1>4, <1>5, <1>7
     DEF Balanced, BookedAfterCharge, AttemptsCovered
<1>9. BooksCovered(s)'
  BY <1>2, <1>3, <1>4, <1>5, <1>7 DEF Balanced, BooksCovered
<1> QED
  BY <1>2, <1>8, <1>9 DEF Balanced

(* The numbers the balances are made of.                                   *)
LEMMA Amounts ==
  ASSUME TypeInv, NEW s \in Sessions
  PROVE  /\ charges[s] \in Nat /\ ledger[s] \in Nat /\ aborted[s] \in Nat
         /\ Room(s) \in {0, 1} /\ Due(s) \in {0, 1}
BY DEF TypeInv, TypeOK, Room, Due

(* A claim is won: one more holder, and no room for another.               *)
LEMMA WinBalances ==
  ASSUME TypeInv, WorkersCounted, \A s \in Sessions : Balanced(s),
         NEW a \in Activators, NEW t \in Sessions,
         NEW pc \in {"charge", "entitle"},
         w[a].pc \in {"idle", "next"}, Claimable(t),
         w' = [w EXCEPT ![a] = Local(pc, t, None, None)],
         claim' = [claim EXCEPT ![t] = "fresh"],
         UNCHANGED <<status, charges, ledger, aborted>>
  PROVE  WorkersCounted' /\ \A s \in Sessions : Balanced(s)'
<1>1. SUFFICES ASSUME NEW s \in Sessions
               PROVE  IsFiniteSet(Working(s, Holding)') /\ Balanced(s)'
  BY DEF WorkersCounted
<1> DEFINE r == Local(pc, t, None, None)
<1>2. r.s = t /\ r.pc \in Holding /\ r.pc \notin Paid /\ r.pc \notin Booking
  BY DEF Local, Holding, Paid, Booking
<1>3. w[a].pc \notin Holding /\ w[a].pc \notin Paid /\ w[a].pc \notin Booking
  BY DEF Holding, Paid, Booking
<1>4. a \in Workers
  BY DEF Workers
<1> HIDE DEF r
<1>5. /\ IsFiniteSet(Working(s, Holding)')
      /\ \A stages \in {Holding, Paid, Booking} :
           /\ Number(s, stages) \in Nat /\ Number(s, stages)' \in Nat
           /\ Number(s, stages)' = Number(s, stages)
                - Share(a, w[a], s, stages) + Share(a, r, s, stages)
  BY <1>4, MoveNumbers DEF r
<1>6. /\ Number(s, Holding)' <= Number(s, Holding) + (IF s = t THEN 1 ELSE 0)
      /\ Number(s, Paid)' = Number(s, Paid)
      /\ Number(s, Booking)' = Number(s, Booking)
  BY <1>2, <1>3, <1>5 DEF Share
<1>7. Room(s)' = (IF s = t THEN 0 ELSE Room(s)) /\ Due(s)' = Due(s)
      /\ (s = t => Room(s) = 1)
  BY DEF Room, Due, Unresolved, Claimable, TypeInv, TypeOK
<1>8. charges'[s] = charges[s] /\ ledger'[s] = ledger[s] /\ aborted'[s] = aborted[s]
  OBVIOUS
<1>9. /\ charges[s] \in Nat /\ ledger[s] \in Nat /\ aborted[s] \in Nat
      /\ Room(s) \in {0, 1} /\ Due(s) \in {0, 1}
  BY Amounts
<1>10. Balanced(s)
  OBVIOUS
<1>11. BookedAfterCharge(s)' /\ AttemptsCovered(s)'
  BY <1>5, <1>6, <1>7, <1>8, <1>9, <1>10
     DEF Balanced, BookedAfterCharge, AttemptsCovered
<1>12. BooksCovered(s)'
  BY <1>5, <1>6, <1>7, <1>8, <1>9, <1>10 DEF Balanced, BooksCovered
<1> QED
  BY <1>5, <1>11, <1>12 DEF Balanced

(* The holder of a checkout resolves it and lets go of it; the payment, if *)
(* there is one, is in the ledger.                                         *)
LEMMA ResolveBalances ==
  ASSUME TypeInv, WorkersCounted, \A s \in Sessions : Balanced(s),
         NEW a \in Activators, NEW r, NEW outcome \in {"completed", "failed"},
         w[a].pc \in Holding, w[a].pc \notin Booking,
         r.pc \notin Holding,
         w' = [w EXCEPT ![a] = r],
         status' = [status EXCEPT ![w[a].s] = outcome],
         UNCHANGED <<claim, charges, ledger, aborted>>
  PROVE  WorkersCounted' /\ \A s \in Sessions : Balanced(s)'
<1>1. SUFFICES ASSUME NEW s \in Sessions
               PROVE  IsFiniteSet(Working(s, Holding)') /\ Balanced(s)'
  BY DEF WorkersCounted
<1>4. a \in Workers
  BY DEF Workers
<1>5. /\ IsFiniteSet(Working(s, Holding)')
      /\ \A stages \in {Holding, Paid, Booking} :
           /\ Number(s, stages) \in Nat /\ Number(s, stages)' \in Nat
           /\ Number(s, stages)' = Number(s, stages)
                - Share(a, w[a], s, stages) + Share(a, r, s, stages)
  BY <1>4, MoveNumbers
<1>6. /\ Number(s, Holding)' = Number(s, Holding) - (IF s = w[a].s THEN 1 ELSE 0)
      /\ Number(s, Paid)' >= Number(s, Paid) - (IF s = w[a].s THEN 1 ELSE 0)
      /\ Number(s, Booking)' = Number(s, Booking)
  BY <1>5, PaidStages DEF Share
<1>7. /\ Room(s)' <= Room(s) /\ Room(s)' \in {0, 1}
      /\ s # w[a].s => Room(s)' = Room(s) /\ Due(s)' = Due(s)
      /\ s = w[a].s => Room(s)' = 0 /\ Due(s)' = 0
  BY DEF Room, Due, Unresolved, TypeInv, TypeOK
<1>8. charges'[s] = charges[s] /\ ledger'[s] = ledger[s] /\ aborted'[s] = aborted[s]
  OBVIOUS
<1>9. /\ charges[s] \in Nat /\ ledger[s] \in Nat /\ aborted[s] \in Nat
      /\ Room(s) \in {0, 1} /\ Due(s) \in {0, 1}
  BY Amounts
<1>10. Balanced(s)
  OBVIOUS
<1>11. BookedAfterCharge(s)' /\ AttemptsCovered(s)'
  BY <1>5, <1>6, <1>7, <1>8, <1>9, <1>10
     DEF Balanced, BookedAfterCharge, AttemptsCovered
<1>12. BooksCovered(s)'
  BY <1>5, <1>6, <1>7, <1>8, <1>9, <1>10 DEF Balanced, BooksCovered
<1> QED
  BY <1>5, <1>11, <1>12 DEF Balanced

(* A claim is given back, be it the releaser's own or another's: the       *)
(* holder leaves as the room opens.                                        *)
LEMMA ReleaseBalances ==
  ASSUME TypeInv, WorkersCounted, \A s \in Sessions : Balanced(s),
         NEW b \in Sweepers, Release(b)
  PROVE  WorkersCounted' /\ \A s \in Sessions : Balanced(s)'
<1>1. SUFFICES ASSUME NEW s \in Sessions
               PROVE  IsFiniteSet(Working(s, Holding)') /\ Balanced(s)'
  BY DEF WorkersCounted
<1> DEFINE r == Done(b)
<1>2. /\ w' = [w EXCEPT ![b] = r] /\ w[b].pc = "release"
      /\ UNCHANGED <<status, charges, ledger, aborted>>
      /\ \A t \in Sessions : t # w[b].s => claim'[t] = claim[t]
  BY DEF Release, Return, processor, count, TypeInv, TypeOK
<1>3. r.pc \notin Holding
  BY DoneTyped DEF OnSession
<1>4. b \in Workers /\ b \in Activators
  BY DEF Workers, Activators
<1> HIDE DEF r
<1>5. /\ IsFiniteSet(Working(s, Holding)')
      /\ \A stages \in {Holding, Paid, Booking} :
           /\ Number(s, stages) \in Nat /\ Number(s, stages)' \in Nat
           /\ Number(s, stages)' = Number(s, stages)
                - Share(b, w[b], s, stages) + Share(b, r, s, stages)
  BY <1>2, <1>4, MoveNumbers
<1>6. /\ Number(s, Holding)' = Number(s, Holding) - (IF s = w[b].s THEN 1 ELSE 0)
      /\ Number(s, Paid)' = Number(s, Paid)
      /\ Number(s, Booking)' = Number(s, Booking)
  BY <1>2, <1>3, <1>4, <1>5 DEF Share, Holding, Paid, Booking
<1>7. /\ Room(s)' \in {0, 1} /\ Due(s)' = Due(s)
      /\ s # w[b].s => Room(s)' = Room(s)
  BY <1>2 DEF Room, Due, Unresolved
<1>8. charges'[s] = charges[s] /\ ledger'[s] = ledger[s] /\ aborted'[s] = aborted[s]
  BY <1>2
<1>9. /\ charges[s] \in Nat /\ ledger[s] \in Nat /\ aborted[s] \in Nat
      /\ Room(s) \in {0, 1} /\ Due(s) \in {0, 1}
  BY Amounts
<1>10. Balanced(s)
  OBVIOUS
<1>11. BookedAfterCharge(s)' /\ AttemptsCovered(s)'
  BY <1>5, <1>6, <1>7, <1>8, <1>9, <1>10
     DEF Balanced, BookedAfterCharge, AttemptsCovered
<1>12. BooksCovered(s)'
  BY <1>5, <1>6, <1>7, <1>8, <1>9, <1>10 DEF Balanced, BooksCovered
<1> QED
  BY <1>5, <1>11, <1>12 DEF Balanced

(* The card is charged, and the holder now has paid work and a payment to  *)
(* book; or the payment is booked.                                         *)
LEMMA PayBalances ==
  ASSUME TypeInv, WorkersCounted, \A s \in Sessions : Balanced(s),
         NEW a \in Activators, NEW t \in Sessions, NEW r,
         w[a].s = t, r.s = t, w' = [w EXCEPT ![a] = r],
         UNCHANGED <<status, claim, aborted>>,
         \/ /\ w[a].pc = "charge" /\ r.pc = "arb"
            /\ charges' = [charges EXCEPT ![t] = charges[t] + 1]
            /\ UNCHANGED ledger
         \/ /\ w[a].pc = "record" /\ r.pc = "complete"
            /\ ledger' = [ledger EXCEPT ![t] = ledger[t] + 1]
            /\ UNCHANGED charges
  PROVE  WorkersCounted' /\ \A s \in Sessions : Balanced(s)'
<1>1. SUFFICES ASSUME NEW s \in Sessions
               PROVE  IsFiniteSet(Working(s, Holding)') /\ Balanced(s)'
  BY DEF WorkersCounted
<1>2. a \in Workers
  BY DEF Workers
<1>3. /\ IsFiniteSet(Working(s, Holding)')
      /\ \A stages \in {Holding, Paid, Booking} :
           /\ Number(s, stages) \in Nat /\ Number(s, stages)' \in Nat
           /\ Number(s, stages)' = Number(s, stages)
                - Share(a, w[a], s, stages) + Share(a, r, s, stages)
  BY <1>2, MoveNumbers
<1>4. Room(s)' = Room(s) /\ Due(s)' = Due(s) /\ aborted'[s] = aborted[s]
  BY DEF Room, Due, Unresolved
<1>5. /\ charges[s] \in Nat /\ ledger[s] \in Nat /\ aborted[s] \in Nat
      /\ Room(s) \in {0, 1} /\ Due(s) \in {0, 1}
  BY Amounts
<1>6. Balanced(s)
  OBVIOUS
<1> DEFINE one == IF s = t THEN 1 ELSE 0
<1>7. CASE w[a].pc = "charge"
  <2>1. /\ Number(s, Holding)' = Number(s, Holding)
        /\ Number(s, Paid)' = Number(s, Paid) + one
        /\ Number(s, Booking)' = Number(s, Booking) + one
    BY <1>3, <1>7 DEF Share, Holding, Paid, Booking
  <2>2. charges'[s] = charges[s] + one /\ ledger'[s] = ledger[s]
    BY <1>5, <1>7 DEF TypeInv, TypeOK
  <2>3. BookedAfterCharge(s)' /\ AttemptsCovered(s)'
    BY <1>3, <1>4, <1>5, <1>6, <2>1, <2>2
       DEF Balanced, BookedAfterCharge, AttemptsCovered
  <2>4. BooksCovered(s)'
    BY <1>3, <1>4, <1>5, <1>6, <2>1, <2>2 DEF Balanced, BooksCovered
  <2> QED
    BY <1>3, <2>3, <2>4 DEF Balanced
<1>8. CASE w[a].pc = "record"
  <2>1. /\ Number(s, Holding)' = Number(s, Holding)
        /\ Number(s, Paid)' = Number(s, Paid)
        /\ Number(s, Booking)' = Number(s, Booking) - one
    BY <1>3, <1>8 DEF Share, Holding, Paid, Booking
  <2>2. ledger'[s] = ledger[s] + one /\ charges'[s] = charges[s]
    BY <1>5, <1>8 DEF TypeInv, TypeOK
  <2>3. BookedAfterCharge(s)' /\ AttemptsCovered(s)'
    BY <1>3, <1>4, <1>5, <1>6, <2>1, <2>2
       DEF Balanced, BookedAfterCharge, AttemptsCovered
  <2>4. BooksCovered(s)'
    BY <1>3, <1>4, <1>5, <1>6, <2>1, <2>2 DEF Balanced, BooksCovered
  <2> QED
    BY <1>3, <2>3, <2>4 DEF Balanced
<1> QED
  BY <1>7, <1>8

(* Something goes wrong with a claim or an attempt, and is counted: one    *)
(* holder, or the room for one, may be added, and paid work may end.       *)
LEMMA AbortBalances ==
  ASSUME TypeInv, WorkersCounted, \A s \in Sessions : Balanced(s),
         NEW a \in Workers, NEW t \in Sessions, NEW r, w' = [w EXCEPT ![a] = r],
         UNCHANGED <<status, claim, charges, ledger>>,
         aborted' = [aborted EXCEPT ![t] = aborted[t] + 1],
         r.pc \in Holding => r.s = t /\ r.pc = "release",
         r.pc \notin Paid,
         \/ w[a].pc \notin Holding
         \/ w[a].pc \in Paid /\ w[a].s = t
  PROVE  WorkersCounted' /\ \A s \in Sessions : Balanced(s)'
<1>1. SUFFICES ASSUME NEW s \in Sessions
               PROVE  IsFiniteSet(Working(s, Holding)') /\ Balanced(s)'
  BY DEF WorkersCounted
<1>3. /\ IsFiniteSet(Working(s, Holding)')
      /\ \A stages \in {Holding, Paid, Booking} :
           /\ Number(s, stages) \in Nat /\ Number(s, stages)' \in Nat
           /\ Number(s, stages)' = Number(s, stages)
                - Share(a, w[a], s, stages) + Share(a, r, s, stages)
  BY MoveNumbers
<1>4. Room(s)' = Room(s) /\ Due(s)' = Due(s)
      /\ charges'[s] = charges[s] /\ ledger'[s] = ledger[s]
  BY DEF Room, Due, Unresolved
<1>5. /\ charges[s] \in Nat /\ ledger[s] \in Nat /\ aborted[s] \in Nat
      /\ Room(s) \in {0, 1} /\ Due(s) \in {0, 1}
  BY Amounts
<1>6. Balanced(s)
  OBVIOUS
<1> DEFINE one == IF s = t THEN 1 ELSE 0
<1>7. aborted'[s] = aborted[s] + one
  BY <1>5 DEF TypeInv, TypeOK
<1>8. /\ Number(s, Booking)' <= Number(s, Booking)
      /\ Number(s, Booking)' >= Number(s, Booking) - one
      /\ Number(s, Paid)' >= Number(s, Paid) - one
      /\ Number(s, Holding)' - Number(s, Paid)'
           <= Number(s, Holding) - Number(s, Paid) + one
      /\ Number(s, Holding)' - Number(s, Booking)'
           <= Number(s, Holding) - Number(s, Booking) + one
  BY <1>3, PaidStages DEF Share
<1>9. BookedAfterCharge(s)' /\ AttemptsCovered(s)'
  BY <1>3, <1>4, <1>5, <1>6, <1>7, <1>8
     DEF Balanced, BookedAfterCharge, AttemptsCovered
<1>10. BooksCovered(s)'
  BY <1>3, <1>4, <1>5, <1>6, <1>7, <1>8 DEF Balanced, BooksCovered
<1> QED
  BY <1>3, <1>9, <1>10 DEF Balanced

(* A claim grows stale: nobody holds it, or the abandonment is counted.    *)
LEMMA AgeBalances ==
  ASSUME TypeInv, WorkersCounted, \A s \in Sessions : Balanced(s),
         NEW t \in Sessions, ClaimAges(t)
  PROVE  WorkersCounted' /\ \A s \in Sessions : Balanced(s)'
<1>1. UNCHANGED <<w, status, charges, ledger>>
      /\ claim' = [claim EXCEPT ![t] = "stale"]
      /\ \/ ~Held(t) /\ UNCHANGED aborted
         \/ aborted' = [aborted EXCEPT ![t] = aborted[t] + 1]
  BY DEF ClaimAges, processor, count
<1>2. \A s \in Sessions, stages \in {Holding, Paid, Booking} :
        Working(s, stages)' = Working(s, stages) /\ Number(s, stages)' = Number(s, stages)
  BY <1>1 DEF Working, Number
<1>3. SUFFICES ASSUME NEW s \in Sessions PROVE Balanced(s)'
  BY <1>2 DEF WorkersCounted
<1>4. \A stages \in {Holding, Paid, Booking} : Number(s, stages) \in Nat
  BY StagesCounted
<1>5. Number(s, Booking) <= Number(s, Paid) /\ Number(s, Paid) <= Number(s, Holding)
  BY StagesCounted
<1>6. /\ charges[s] \in Nat /\ ledger[s] \in Nat /\ aborted[s] \in Nat
      /\ Room(s) \in {0, 1} /\ Due(s) \in {0, 1}
  BY Amounts
<1>7. /\ Room(s)' \in {0, 1} /\ Due(s)' = Due(s)
      /\ s # t => Room(s)' = Room(s) /\ aborted'[s] = aborted[s]
      /\ charges'[s] = charges[s] /\ ledger'[s] = ledger[s]
  BY <1>1 DEF Room, Due, Unresolved, TypeInv, TypeOK
<1>8. Balanced(s)
  OBVIOUS
<1>9. CASE s # t
  <2>1. BookedAfterCharge(s)' /\ AttemptsCovered(s)' /\ BooksCovered(s)'
    BY <1>2, <1>7, <1>8, <1>9
       DEF Balanced, BookedAfterCharge, AttemptsCovered, BooksCovered
  <2> QED
    BY <2>1 DEF Balanced
<1>10. CASE s = t /\ aborted' = [aborted EXCEPT ![t] = aborted[t] + 1]
  <2>1. aborted'[s] = aborted[s] + 1
    BY <1>10 DEF TypeInv, TypeOK
  <2>2. BookedAfterCharge(s)' /\ AttemptsCovered(s)' /\ BooksCovered(s)'
    BY <1>2, <1>4, <1>6, <1>7, <1>8, <2>1
       DEF Balanced, BookedAfterCharge, AttemptsCovered, BooksCovered
  <2> QED
    BY <2>2 DEF Balanced
<1>11. CASE s = t /\ ~Held(t) /\ UNCHANGED aborted
  <2>1. status[s] = "pending" /\ claim[s] = "fresh"
    BY <1>11 DEF ClaimAges
  <2>2. Due(s) = 1
    BY <2>1 DEF Due, Unresolved
  <2>3. Working(s, Holding) = {}
    BY <1>11 DEF Held, Holds, Working
  <2>4. Number(s, Holding) = 0
    BY <2>3, FS_EmptySet DEF Number
  <2>5. aborted'[s] = aborted[s] /\ Room(s)' = 1
    BY <1>1, <1>11, <2>1 DEF Room, Unresolved, TypeInv, TypeOK
  <2>6. BookedAfterCharge(s)' /\ AttemptsCovered(s)' /\ BooksCovered(s)'
    BY <1>2, <1>4, <1>5, <1>6, <1>7, <1>8, <2>2, <2>4, <2>5
       DEF Balanced, BookedAfterCharge, AttemptsCovered, BooksCovered
  <2> QED
    BY <2>6 DEF Balanced
<1> QED
  BY <1>1, <1>9, <1>10, <1>11

(* The process restarts: nobody works on anything, and a checkout with     *)
(* paid work counts one attempt cut short.                                 *)
LEMMA CrashBalances ==
  ASSUME TypeInv, WorkersCounted, \A s \in Sessions : Balanced(s), Crash
  PROVE  WorkersCounted' /\ \A s \in Sessions : Balanced(s)'
<1>1. SUFFICES ASSUME NEW s \in Sessions
               PROVE  IsFiniteSet(Working(s, Holding)') /\ Balanced(s)'
  BY DEF WorkersCounted
<1>2. \A stages \in {Holding, Paid, Booking} : Working(s, stages)' = {}
  <2>1. \A a \in Activators : w'[a].pc = "idle"
    BY DEF Crash, Workers, Idle, Local
  <2>2. \A stages \in {Holding, Paid, Booking} : "idle" \notin stages
    BY DEF Holding, Paid, Booking
  <2> QED
    BY <2>1, <2>2 DEF Working
<1>3. \A stages \in {Holding, Paid, Booking} : Number(s, stages)' = 0
  BY <1>2, FS_EmptySet DEF Number
<1>4. IsFiniteSet(Working(s, Holding)')
  BY <1>2, FS_EmptySet
<1>5. /\ \A stages \in {Holding, Paid, Booking} : Number(s, stages) \in Nat
      /\ Number(s, Booking) <= Number(s, Paid) /\ Number(s, Paid) <= Number(s, Holding)
  BY StagesCounted
<1>6. /\ charges[s] \in Nat /\ ledger[s] \in Nat /\ aborted[s] \in Nat
      /\ Room(s) \in {0, 1} /\ Due(s) \in {0, 1}
  BY Amounts
<1>7. Room(s)' = Room(s) /\ Due(s)' = Due(s) /\ Room(s) <= Due(s)
      /\ charges'[s] = charges[s] /\ ledger'[s] = ledger[s]
  BY DEF Crash, rows, processor, Room, Due, Unresolved
<1>8. \/ aborted'[s] = aborted[s] + 1
      \/ aborted'[s] = aborted[s] /\ Number(s, Paid) = 0
  <2>1. aborted'[s] = IF Working(s, Paid) # {} THEN aborted[s] + 1 ELSE aborted[s]
    BY DEF Crash, Working
  <2>2. Working(s, Paid) = {} => Number(s, Paid) = 0
    BY FS_EmptySet DEF Number
  <2> QED
    BY <2>1, <2>2
<1>9. Balanced(s)
  OBVIOUS
<1>10. BookedAfterCharge(s)' /\ AttemptsCovered(s)' /\ BooksCovered(s)'
  BY <1>3, <1>5, <1>6, <1>7, <1>8, <1>9
     DEF Balanced, BookedAfterCharge, AttemptsCovered, BooksCovered
<1> QED
  BY <1>4, <1>10 DEF Balanced

(* A plan is granted by work that has been charged, and charges stay.      *)
LEMMA PlansStayPaid ==
  ASSUME TypeInv, WorkersCounted, \A s \in Sessions : Balanced(s), PlansArePaidFor,
         \/ UNCHANGED ent /\ \A s \in Sessions :
               charges'[s] \in Nat /\ charges'[s] >= charges[s]
         \/ /\ UNCHANGED charges
            /\ \A p \in Phones : ent'[p].plan \in {None, ent[p].plan}
         \/ \E a \in Activators : Activate(a)
  PROVE  PlansArePaidFor'
<1>1. SUFFICES ASSUME NEW p \in Phones, ent'[p].plan # None
               PROVE  \E s \in Sessions :
                        Owner[s] = p /\ PlanOf[s] = ent'[p].plan /\ charges'[s] > 0
  BY DEF PlansArePaidFor
<1>2. ASSUME ent'[p].plan = ent[p].plan, \A s \in Sessions : charges'[s] >= charges[s],
             \A s \in Sessions : charges'[s] \in Int
      PROVE  \E s \in Sessions :
               Owner[s] = p /\ PlanOf[s] = ent'[p].plan /\ charges'[s] > 0
  <2>1. PICK s \in Sessions : Owner[s] = p /\ PlanOf[s] = ent[p].plan /\ charges[s] > 0
    BY <1>1, <1>2 DEF PlansArePaidFor
  <2>2. charges[s] \in Int /\ charges'[s] >= charges[s] /\ charges'[s] \in Int
    BY <1>2 DEF TypeInv, TypeOK
  <2> QED
    BY <1>2, <2>1, <2>2
<1>3. \A s \in Sessions : charges[s] \in Int /\ charges[s] >= charges[s]
  BY DEF TypeInv, TypeOK
<1>4. CASE UNCHANGED charges /\ \A q \in Phones : ent'[q].plan \in {None, ent[q].plan}
  BY <1>1, <1>2, <1>3, <1>4
<1>5. CASE \E a \in Activators : Activate(a)
  <2>1. PICK a \in Activators : Activate(a)
    BY <1>5
  <2> DEFINE s == w[a].s
             new == Membership(ent[Owner[s]], s, w[a].sub)
  <2>2. /\ w[a].pc = "activate" /\ UNCHANGED charges
        /\ ent' = [ent EXCEPT ![Owner[s]] = new]
    BY <2>1 DEF Activate, processor
  <2>3. s \in Sessions
    BY <2>2 DEF TypeInv, SessionKnown, OnSession, Holding, Paid, Workers
  <2>4. new.plan = PlanOf[s]
    BY DEF Membership
  <2> HIDE DEF new
  <2>5. ent'[p].plan = IF p = Owner[s] THEN PlanOf[s] ELSE ent[p].plan
    BY <2>2, <2>4 DEF TypeInv, TypeOK
  <2>6. charges[s] > 0
    <3>1. a \in Working(s, Booking)
      BY <2>2 DEF Working, Booking
    <3>2. IsFiniteSet(Working(s, Booking)) /\ Number(s, Booking) \in Nat
      BY <2>3, StagesCounted
    <3>3. Number(s, Booking) # 0
      BY <3>1, <3>2, FS_EmptySet DEF Number
    <3>4. BookedAfterCharge(s) /\ charges[s] \in Nat /\ ledger[s] \in Nat
      BY <2>3, Amounts DEF Balanced
    <3> HIDE DEF s
    <3> QED
      BY <3>2, <3>3, <3>4 DEF BookedAfterCharge
  <2>7. CASE p = Owner[s]
    BY <2>2, <2>3, <2>5, <2>6, <2>7
  <2>8. CASE p # Owner[s]
    BY <1>2, <1>3, <2>2, <2>5, <2>8
  <2> QED
    BY <2>7, <2>8
<1>6. CASE UNCHANGED ent /\ \A s \in Sessions :
             charges'[s] \in Nat /\ charges'[s] >= charges[s]
  BY <1>2, <1>6
<1> QED
  BY <1>4, <1>5, <1>6

LEMMA RequestsBalance ==
  ASSUME TypeInv, WorkersCounted, \A s \in Sessions : Balanced(s), Requests
  PROVE  WorkersCounted' /\ \A s \in Sessions : Balanced(s)'
<1> USE DEF rows, processor, count
<1>1. CASE \E s \in Sessions : Join(s)
  <2>1. PICK s \in Sessions : Join(s)
    BY <1>1
  <2>2. /\ UNCHANGED <<claim, charges, ledger, aborted, w>>
        /\ \A t \in Sessions : Unresolved(t)' = Unresolved(t)
    BY <2>1 DEF Join, Unresolved, TypeInv, TypeOK
  <2>3. \A t \in Sessions, stages \in {Holding, Paid, Booking} :
          Working(t, stages)' = Working(t, stages) /\ Number(t, stages)' = Number(t, stages)
    BY <2>2 DEF Working, Number
  <2>4. \A t \in Sessions : Room(t)' = Room(t) /\ Due(t)' = Due(t)
    BY <2>2 DEF Room, Due
  <2> QED
    BY <2>2, <2>3, <2>4 DEF WorkersCounted, Balanced, BookedAfterCharge,
       AttemptsCovered, BooksCovered
<1>2. CASE \E s \in Sessions : ClaimAges(s)
  BY <1>2, AgeBalances
<1>3. CASE \/ \E s \in Sessions : OpenPage(s) \/ SaveCard(s) \/ Age(s)
           \/ LoseWebhook
  <2>1. UNCHANGED <<w, status, claim, charges, ledger, aborted>>
    BY <1>3 DEF OpenPage, SaveCard, Age, LoseWebhook
  <2> QED
    BY <2>1, StillBalanced
<1>4. CASE \E h \in Handlers, s \in Sessions : CardWebhook(h, s)
  <2>1. PICK h \in Handlers, s \in Sessions : CardWebhook(h, s)
    BY <1>4
  <2>2. UNCHANGED <<status, charges, ledger, aborted>> /\ w[h].pc = "idle"
        /\ h \in Activators
    BY <2>1 DEF CardWebhook, Activators
  <2>3. CASE UNCHANGED <<claim, w>>
    BY <2>2, <2>3, StillBalanced
  <2>4. CASE /\ Claimable(s)
             /\ claim' = [claim EXCEPT ![s] = "fresh"]
             /\ w' = [w EXCEPT ![h] = Local("charge", s, None, None)]
    BY <2>2, <2>4, WinBalances
  <2> QED
    BY <2>1, <2>3, <2>4 DEF CardWebhook
<1>5. CASE \E h \in Handlers, id \in cancelHooks : CancelWebhook(h, id)
  <2>1. PICK h \in Handlers, id \in cancelHooks : CancelWebhook(h, id)
    BY <1>5
  <2>2. UNCHANGED <<status, claim, charges, ledger, aborted>> /\ w[h].pc = "idle"
    BY <2>1 DEF CancelWebhook
  <2>3. CASE UNCHANGED w
    BY <2>2, <2>3, StillBalanced
  <2>4. CASE \E p \in Phones : w' = [w EXCEPT ![h] = Local("unplan", None, None, p)]
    <3>1. PICK p \in Phones : w' = [w EXCEPT ![h] = Local("unplan", None, None, p)]
      BY <2>4
    <3>2. Local("unplan", None, None, p).pc \notin Holding
      BY DEF Local, Holding, Paid
    <3>3. w[h].pc \notin Holding /\ h \in Workers
      BY <2>2 DEF Holding, Paid, Workers, Activators
    <3> QED
      BY <2>2, <3>1, <3>2, <3>3, PaidStages, MoveBalances
  <2> QED
    BY <2>1, <2>3, <2>4 DEF CancelWebhook
<1>6. CASE \E c \in Cancellers, p \in Phones : CancelStart(c, p)
  <2>1. PICK c \in Cancellers, p \in Phones : CancelStart(c, p)
    BY <1>6
  <2> DEFINE r == Local(IF ent[p].sub = None THEN "unplan" ELSE "stopArb",
                        None, ent[p].sub, p)
  <2>2. /\ w' = [w EXCEPT ![c] = r]
        /\ UNCHANGED <<status, claim, charges, ledger, aborted>>
        /\ w[c].pc \notin Holding /\ c \in Workers
    BY <2>1 DEF CancelStart, Holding, Paid, Workers
  <2>3. r.pc \notin Holding
    BY DEF Local, Holding, Paid
  <2> HIDE DEF r
  <2> QED
    BY <2>2, <2>3, PaidStages, MoveBalances
<1> QED
  BY <1>1, <1>2, <1>3, <1>4, <1>5, <1>6 DEF Requests

LEMMA ActivationBalances ==
  ASSUME TypeInv, WorkersCounted, \A s \in Sessions : Balanced(s),
         NEW a \in Activators, ActivationStep(a)
  PROVE  WorkersCounted' /\ \A s \in Sessions : Balanced(s)'
<1> USE DEF rows, processor, count
<1>a. a \in Workers
  BY DEF Workers
<1>b. Return(a) => w' = [w EXCEPT ![a] = Done(a)] /\ Done(a).pc \notin Holding
  BY DoneTyped DEF Return, OnSession
<1>c. w[a].pc \in Holding => w[a].s \in Sessions
  BY <1>a DEF TypeInv, SessionKnown, OnSession
<1>1. ASSUME NEW pc, Goto(a, pc), w[a].pc \in Holding,
             pc \in Paid <=> w[a].pc \in Paid,
             pc \in Booking <=> w[a].pc \in Booking,
             UNCHANGED <<status, claim, charges, ledger, aborted>>
      PROVE  WorkersCounted' /\ \A s \in Sessions : Balanced(s)'
  <2> DEFINE r == Local(pc, w[a].s, w[a].sub, w[a].phone)
  <2>1. w' = [w EXCEPT ![a] = r] /\ r.s = w[a].s /\ r.pc = pc
    BY <1>1 DEF Goto, Local
  <2> HIDE DEF r
  <2> QED
    BY <1>a, <1>1, <2>1, MoveBalances
<1>2. CASE Charge(a)
  <2>1. w[a].pc = "charge" /\ UNCHANGED <<status, claim, ledger, aborted>>
    BY <1>2 DEF Charge
  <2>2. CASE UNCHANGED charges /\ Goto(a, "decline")
    BY <1>1, <2>1, <2>2 DEF Holding, Paid, Booking
  <2>3. CASE /\ charges' = [charges EXCEPT ![w[a].s] = charges[w[a].s] + 1]
             /\ Goto(a, "arb")
    <3> DEFINE r == Local("arb", w[a].s, w[a].sub, w[a].phone)
    <3>1. w' = [w EXCEPT ![a] = r] /\ r.s = w[a].s /\ r.pc = "arb"
      BY <2>3 DEF Goto, Local
    <3>2. w[a].s \in Sessions
      BY <1>c, <2>1 DEF Holding
    <3> HIDE DEF r
    <3> QED
      BY <2>1, <2>3, <3>1, <3>2, PayBalances
  <2> QED
    BY <1>2, <2>2, <2>3 DEF Charge
<1>3. CASE Decline(a)
  <2>1. /\ w[a].pc \in Holding /\ w[a].pc \notin Booking
        /\ UNCHANGED <<claim, charges, ledger, aborted>>
        /\ status' = [status EXCEPT ![w[a].s] = "failed"] /\ Return(a)
    BY <1>3 DEF Decline, Holding, Booking
  <2> QED
    BY <1>b, <2>1, ResolveBalances
<1>4. CASE CreateArb(a)
  <2> DEFINE r == Local("activate", w[a].s, <<w[a].s, made[w[a].s] + 1>>, None)
  <2>1. /\ w' = [w EXCEPT ![a] = r]
        /\ UNCHANGED <<status, claim, charges, ledger, aborted>>
        /\ w[a].pc = "arb"
    BY <1>4 DEF CreateArb
  <2>2. r.pc = "activate" /\ r.s = w[a].s
    BY DEF Local
  <2> HIDE DEF r
  <2> QED
    BY <1>a, <2>1, <2>2, MoveBalances DEF Holding, Paid, Booking
<1>5. CASE Activate(a)
  <2> DEFINE r == Local("record", w[a].s,
                    Membership(ent[Owner[w[a].s]], w[a].s, w[a].sub).superseded, None)
  <2>1. /\ w' = [w EXCEPT ![a] = r]
        /\ UNCHANGED <<status, claim, charges, ledger, aborted>>
        /\ w[a].pc = "activate"
    BY <1>5 DEF Activate
  <2>2. r.pc = "record" /\ r.s = w[a].s
    BY DEF Local
  <2> HIDE DEF r
  <2> QED
    BY <1>a, <2>1, <2>2, MoveBalances DEF Holding, Paid, Booking
<1>6. CASE Record(a)
  <2> DEFINE r == Local("complete", w[a].s, w[a].sub, w[a].phone)
  <2>1. /\ w' = [w EXCEPT ![a] = r] /\ r.s = w[a].s /\ r.pc = "complete"
        /\ w[a].pc = "record"
        /\ ledger' = [ledger EXCEPT ![w[a].s] = ledger[w[a].s] + 1]
        /\ UNCHANGED <<status, claim, charges, aborted>>
    BY <1>6 DEF Record, Goto, Local
  <2>2. w[a].s \in Sessions
    BY <1>c, <2>1 DEF Holding, Paid
  <2> HIDE DEF r
  <2> QED
    BY <2>1, <2>2, PayBalances
<1>7. CASE Complete(a)
  <2>1. /\ w[a].pc \in Holding /\ w[a].pc \notin Booking
        /\ UNCHANGED <<claim, charges, ledger, aborted>>
        /\ status' = [status EXCEPT ![w[a].s] = "completed"]
    BY <1>7 DEF Complete, Holding, Paid, Booking
  <2> DEFINE r == Local("retire", w[a].s, w[a].sub, w[a].phone)
  <2>2. r.pc \notin Holding
    BY DEF Local, Holding, Paid
  <2>3. Return(a) \/ w' = [w EXCEPT ![a] = r]
    BY <1>7 DEF Complete, Goto
  <2> HIDE DEF r
  <2> QED
    BY <1>b, <2>1, <2>2, <2>3, ResolveBalances
<1>8. ASSUME NEW r, w' = [w EXCEPT ![a] = r], r.pc \notin Holding,
             w[a].pc \notin Holding,
             UNCHANGED <<status, claim, charges, ledger, aborted>>
      PROVE  WorkersCounted' /\ \A s \in Sessions : Balanced(s)'
  BY <1>a, <1>8, PaidStages, MoveBalances
<1>9. CASE Retire(a)
  <2> DEFINE r == Local("clear", w[a].s, w[a].sub, w[a].phone)
  <2>1. r.pc \notin Holding
    BY DEF Local, Holding, Paid
  <2>2. /\ w' = [w EXCEPT ![a] = r] /\ w[a].pc \notin Holding
        /\ UNCHANGED <<status, claim, charges, ledger, aborted>>
    BY <1>9 DEF Retire, Goto, Holding, Paid
  <2> HIDE DEF r
  <2> QED
    BY <1>8, <2>1, <2>2
<1>10. CASE Clear(a)
  <2>1. /\ Return(a) /\ w[a].pc \notin Holding
        /\ UNCHANGED <<status, claim, charges, ledger, aborted>>
    BY <1>10 DEF Clear, Holding, Paid
  <2> QED
    BY <1>b, <1>8, <2>1
<1> QED
  BY <1>2, <1>3, <1>4, <1>5, <1>6, <1>7, <1>9, <1>10 DEF ActivationStep

LEMMA SweepBalances ==
  ASSUME TypeInv, WorkersCounted, \A s \in Sessions : Balanced(s),
         NEW b \in Sweepers, SweepStep(b)
  PROVE  WorkersCounted' /\ \A s \in Sessions : Balanced(s)'
<1> USE DEF rows, processor, count
<1>a. b \in Workers /\ b \in Activators
  BY DEF Workers, Activators
<1>b. Idle.pc \notin Holding /\ Between.pc \notin Holding
  BY DEF Idle, Between, Local, Holding, Paid
<1>c. Return(b) => w' = [w EXCEPT ![b] = Done(b)] /\ Done(b).pc \notin Holding
  BY DoneTyped DEF Return, OnSession
<1>1. ASSUME NEW pc \in {"resolve", "cards", "charge", "release"}, Goto(b, pc),
             w[b].pc \in {"entitle", "cards"},
             UNCHANGED <<status, claim, charges, ledger, aborted>>
      PROVE  WorkersCounted' /\ \A s \in Sessions : Balanced(s)'
  <2> DEFINE r == Local(pc, w[b].s, w[b].sub, w[b].phone)
  <2>1. w' = [w EXCEPT ![b] = r] /\ r.s = w[b].s /\ r.pc = pc
    BY <1>1 DEF Goto, Local
  <2>2. /\ pc \notin Paid /\ pc \notin Booking
        /\ w[b].pc \in Holding /\ w[b].pc \notin Paid /\ w[b].pc \notin Booking
    BY <1>1 DEF Holding, Paid, Booking
  <2> HIDE DEF r
  <2> QED
    BY <1>a, <1>1, <2>1, <2>2, MoveBalances
<1>2. CASE SweepStart(b) \/ SweepEnd(b)
  <2>1. /\ \E r \in {Idle, Between} : w' = [w EXCEPT ![b] = r]
        /\ w[b].pc \notin Holding
        /\ UNCHANGED <<status, claim, charges, ledger, aborted>>
    BY <1>2 DEF SweepStart, SweepEnd, Holding, Paid
  <2> QED
    BY <1>a, <1>b, <2>1, PaidStages, MoveBalances
<1>3. CASE SweepClaim(b)
  <2>1. PICK s \in Sessions :
          /\ w[b].pc = "next"
          /\ \/ /\ Claimable(s)
                /\ claim' = [claim EXCEPT ![s] = "fresh"]
                /\ w' = [w EXCEPT ![b] = Local("entitle", s, None, None)]
             \/ UNCHANGED <<claim, w>>
          /\ UNCHANGED <<status, charges, ledger, aborted>>
    BY <1>3 DEF SweepClaim
  <2>2. CASE UNCHANGED <<claim, w>>
    BY <2>1, <2>2, StillBalanced
  <2> QED
    BY <1>a, <2>1, <2>2, WinBalances
<1>4. CASE ReadEntitlement(b)
  BY <1>1, <1>4 DEF ReadEntitlement, AfterEntitlement
<1>5. CASE Resolve(b)
  <2>1. /\ w[b].pc \in Holding /\ w[b].pc \notin Booking
        /\ UNCHANGED <<claim, charges, ledger, aborted>>
        /\ status' = [status EXCEPT ![w[b].s] = "completed"] /\ Return(b)
    BY <1>5 DEF Resolve, Holding, Booking
  <2> QED
    BY <1>a, <1>c, <2>1, ResolveBalances
<1>6. CASE ReadCards(b)
  BY <1>1, <1>6 DEF ReadCards
<1>7. CASE Release(b)
  BY <1>7, ReleaseBalances
<1> QED
  BY <1>2, <1>3, <1>4, <1>5, <1>6, <1>7 DEF SweepStep

LEMMA FailuresBalance ==
  ASSUME TypeInv, WorkersCounted, \A s \in Sessions : Balanced(s), Failures
  PROVE  WorkersCounted' /\ \A s \in Sessions : Balanced(s)'
<1> USE DEF rows, processor, count
<1>1. CASE \E b \in Sweepers : SweepClaimThrows(b)
  <2>1. PICK b \in Sweepers, s \in Sessions :
          /\ w[b].pc = "next"
          /\ w' = [w EXCEPT ![b] = Local("release", s, None, None)]
          /\ aborted' = [aborted EXCEPT ![s] = aborted[s] + 1]
          /\ UNCHANGED <<status, claim, charges, ledger>>
    BY <1>1 DEF SweepClaimThrows
  <2> DEFINE r == Local("release", s, None, None)
  <2>2. r.s = s /\ r.pc = "release" /\ r.pc \notin Paid
    BY DEF Local, Paid
  <2>3. b \in Workers /\ w[b].pc \notin Holding
    BY <2>1 DEF Workers, Activators, Holding, Paid
  <2> HIDE DEF r
  <2> QED
    BY <2>1, <2>2, <2>3, AbortBalances DEF r
<1>2. CASE \E a \in Workers : Throw(a)
  <2>1. PICK a \in Workers : Throw(a)
    BY <1>2
  <2> DEFINE s == w[a].s
             r == AfterThrow(a)
  <2>2. /\ w' = [w EXCEPT ![a] = r]
        /\ w[a].pc \in Throwing
        /\ UNCHANGED <<status, claim, charges, ledger>>
    BY <2>1 DEF Throw
  <2>3. r.pc \in Holding => w[a].pc \in Holding /\ r.s = s /\ r.pc = "release"
    <3>1. CASE w[a].pc \in {"retire", "clear"}
      BY <3>1, DoneTyped DEF AfterThrow, OnSession
    <3>2. CASE w[a].pc \notin {"retire", "clear"}
      <4>1. r \in {Idle, Local("unplan", None, None, w[a].phone),
                   Local("release", w[a].s, None, None)}
        BY <3>2 DEF AfterThrow
      <4>2. Idle.pc \notin Holding /\ Local("unplan", None, None, w[a].phone).pc \notin Holding
            /\ Local("release", w[a].s, None, None).pc = "release"
        BY DEF Idle, Local, Holding, Paid
      <4>3. r.pc \in Holding => w[a].pc \in Holding /\ r.s = s
        BY <2>2, AfterThrowHolds
      <4> HIDE DEF r
      <4> QED
        BY <4>1, <4>2, <4>3
    <3> QED
      BY <3>1, <3>2
  <2>4. r.pc \notin Paid /\ r.pc \notin Booking
    <3> HIDE DEF r
    <3> QED
      BY <2>3, PaidStages DEF Paid, Booking
  <2>5. CASE w[a].pc \notin Paid
    <3>1. UNCHANGED aborted
      BY <2>1, <2>5 DEF Throw
    <3> HIDE DEF r
    <3> QED
      BY <2>2, <2>3, <2>4, <2>5, <3>1, PaidStages, MoveBalances
  <2>6. CASE w[a].pc \in Paid
    <3>1. s \in Sessions
      BY <2>6 DEF TypeInv, SessionKnown, OnSession, Holding
    <3>2. aborted' = [aborted EXCEPT ![s] = aborted[s] + 1]
      BY <2>1, <2>6 DEF Throw
    <3> HIDE DEF r
    <3> QED
      BY <2>2, <2>3, <2>4, <2>6, <3>1, <3>2, AbortBalances
  <2> QED
    BY <2>5, <2>6
<1>3. CASE \E id \in live : ProcessorEnds(id)
  <2>1. UNCHANGED <<w, status, claim, charges, ledger, aborted>>
    BY <1>3 DEF ProcessorEnds
  <2> QED
    BY <2>1, StillBalanced
<1>4. CASE Crash
  BY <1>4, CrashBalances
<1> QED
  BY <1>1, <1>2, <1>3, <1>4 DEF Failures

LEMMA StepBalances ==
  ASSUME TypeInv, WorkersCounted, \A s \in Sessions : Balanced(s), [Next]_vars
  PROVE  WorkersCounted' /\ \A s \in Sessions : Balanced(s)'
<1>1. CASE Requests
  BY <1>1, RequestsBalance
<1>2. CASE \E a \in Activators : ActivationStep(a)
  BY <1>2, ActivationBalances
<1>3. CASE \E b \in Sweepers : SweepStep(b)
  BY <1>3, SweepBalances
<1>4. CASE \E c \in Workers : CancelStep(c)
  <2>1. PICK c \in Workers : CancelStep(c)
    BY <1>4
  <2>2. /\ \E r \in {Idle, Local("unplan", None, None, w[c].phone)} :
             w' = [w EXCEPT ![c] = r]
        /\ w[c].pc \notin Holding
        /\ UNCHANGED <<status, claim, charges, ledger, aborted>>
    BY <2>1 DEF CancelStep, StopArb, Unplan, Holding, Paid, rows, processor, count
  <2>3. \A r \in {Idle, Local("unplan", None, None, w[c].phone)} : r.pc \notin Holding
    BY DEF Idle, Local, Holding, Paid
  <2> QED
    BY <2>2, <2>3, PaidStages, MoveBalances
<1>5. CASE Failures
  BY <1>5, FailuresBalance
<1>6. CASE UNCHANGED vars
  BY <1>6, StillBalanced DEF vars, rows, processor, count
<1> QED
  BY <1>1, <1>2, <1>3, <1>4, <1>5, <1>6 DEF Next, Progress

LEMMA StepPlansPaid ==
  ASSUME TypeInv, WorkersCounted, \A s \in Sessions : Balanced(s), PlansArePaidFor,
         [Next]_vars
  PROVE  PlansArePaidFor'
<1> USE DEF rows, processor, count
<1>1. CASE UNCHANGED <<ent, charges>>
  BY <1>1, PlansStayPaid DEF TypeInv, TypeOK
<1>2. CASE \E a \in Activators : Charge(a)
  <2>1. \A s \in Sessions : charges'[s] \in Nat /\ charges'[s] >= charges[s]
    BY <1>2 DEF Charge, TypeInv, TypeOK
  <2> QED
    BY <1>2, <2>1, PlansStayPaid DEF Charge
<1>3. CASE \E a \in Activators : Activate(a)
  BY <1>3, PlansStayPaid
<1>4. CASE \E a \in Activators : Clear(a)
  <2>1. UNCHANGED charges /\ \A p \in Phones : ent'[p].plan = ent[p].plan
    BY <1>4 DEF Clear, TypeInv, TypeOK, Entitlement
  <2> QED
    BY <2>1, PlansStayPaid
<1>5. CASE \E c \in Workers : Unplan(c)
  <2>1. UNCHANGED charges /\ \A p \in Phones : ent'[p].plan \in {None, ent[p].plan}
    BY <1>5 DEF Unplan, TypeInv, TypeOK, Entitlement
  <2> QED
    BY <2>1, PlansStayPaid
<1>6. CASE Requests
  BY <1>1, <1>6 DEF Requests, Join, OpenPage, SaveCard, Age, ClaimAges, LoseWebhook,
     CardWebhook, CancelWebhook, CancelStart
<1>7. CASE \E a \in Activators :
             Decline(a) \/ CreateArb(a) \/ Record(a) \/ Complete(a) \/ Retire(a)
  BY <1>1, <1>7 DEF Decline, CreateArb, Record, Complete, Retire
<1>8. CASE \E b \in Sweepers : SweepStep(b)
  BY <1>1, <1>8 DEF SweepStep, SweepStart, SweepEnd, SweepClaim, ReadEntitlement,
     Resolve, ReadCards, Release
<1>9. CASE \E c \in Workers : StopArb(c)
  BY <1>1, <1>9 DEF StopArb
<1>10. CASE Failures
  BY <1>1, <1>10 DEF Failures, SweepClaimThrows, Throw, ProcessorEnds, Crash
<1>11. CASE UNCHANGED vars
  BY <1>1, <1>11 DEF vars
<1> QED
  BY <1>2, <1>3, <1>4, <1>5, <1>6, <1>7, <1>8, <1>9, <1>10, <1>11
     DEF Next, Progress, ActivationStep, CancelStep

LEMMA InitPaymentInv == Init => PaymentInv
<1> SUFFICES ASSUME Init PROVE PaymentInv
  OBVIOUS
<1>1. PlansArePaidFor
  BY DEF Init, PlansArePaidFor, NoMembership
<1>2. \A s \in Sessions, stages \in {Holding, Paid, Booking} : Working(s, stages) = {}
  BY DEF Init, Working, Workers, Idle, Local, Holding, Paid, Booking
<1>3. \A s \in Sessions, stages \in {Holding, Paid, Booking} : Number(s, stages) = 0
  BY <1>2, FS_EmptySet DEF Number
<1>4. WorkersCounted
  BY <1>2, FS_EmptySet DEF WorkersCounted
<1>5. ASSUME NEW s \in Sessions PROVE Balanced(s)
  <2>1. Room(s) = 1 /\ Due(s) = 1 /\ charges[s] = 0 /\ ledger[s] = 0 /\ aborted[s] = 0
    BY DEF Init, Room, Due, Unresolved
  <2> QED
    BY <1>3, <2>1 DEF Balanced, BookedAfterCharge, AttemptsCovered, BooksCovered
<1> QED
  BY <1>1, <1>4, <1>5 DEF PaymentInv

LEMMA PaymentInvariant == Spec => [](TypeInv /\ PaymentInv)
<1>1. Init => TypeInv /\ PaymentInv
  BY InitTypeInv, InitPaymentInv
<1>2. TypeInv /\ PaymentInv /\ [Next]_vars => (TypeInv /\ PaymentInv)'
  BY StepTypeInv, StepBalances, StepPlansPaid DEF PaymentInv
<1> QED
  BY <1>1, <1>2, PTL DEF Spec

(* What the invariant says of the numbers alone: a checkout is charged no  *)
(* more often than once and once for each attempt cut short, and what the  *)
(* ledger misses of a resolved one is owed to such attempts.               *)
LEMMA BalancedAccounts ==
  ASSUME TypeInv, PaymentInv
  PROVE  ChargesAccounted /\ PaymentsAccounted
<1>1. ASSUME NEW s \in Sessions
      PROVE  /\ charges[s] <= 1 + aborted[s]
             /\ ledger[s] <= charges[s]
             /\ status[s] = "completed" => charges[s] <= ledger[s] + aborted[s]
  <2>1. /\ \A stages \in {Holding, Paid, Booking} : Number(s, stages) \in Nat
        /\ Number(s, Booking) <= Number(s, Paid) /\ Number(s, Paid) <= Number(s, Holding)
    BY StagesCounted DEF PaymentInv
  <2>2. /\ charges[s] \in Nat /\ ledger[s] \in Nat /\ aborted[s] \in Nat
        /\ Room(s) \in {0, 1} /\ Due(s) \in {0, 1}
    BY Amounts
  <2>3. BookedAfterCharge(s) /\ AttemptsCovered(s) /\ BooksCovered(s)
    BY DEF PaymentInv, Balanced
  <2>4. status[s] = "completed" => Due(s) = 0
    BY DEF Due, Unresolved
  <2> QED
    BY <2>1, <2>2, <2>3, <2>4 DEF BookedAfterCharge, AttemptsCovered, BooksCovered
<1> QED
  BY <1>1 DEF ChargesAccounted, PaymentsAccounted, ChargesBooked, PaymentInv

(* No charge but those of attempts cut short is a second one, every charge *)
(* ends up in billing_ledger and every plan is paid for, whatever fails:   *)
(* nothing is booked before it is charged, a completed     *)
(* checkout has every charge booked but those of attempts cut short, and   *)
(* no account has a plan it was never charged for (recordMembershipPayment,*)
(* activateMembership).                                                    *)
THEOREM PaymentsAreAccounted == Spec => []PaymentsAccounted
<1>1. TypeInv /\ PaymentInv => PaymentsAccounted
  BY BalancedAccounts
<1> QED
  BY <1>1, PaymentInvariant, PTL

(* Whatever fails, every charge of a checkout beyond the first is owed to  *)
(* an attempt that was cut short after charging, or to a claim that was    *)
(* taken from its holder (claimCheckoutSessionForActivation).              *)
THEOREM ChargesAreAccounted == Spec => []ChargesAccounted
<1>1. TypeInv /\ PaymentInv => ChargesAccounted
  BY BalancedAccounts
<1> QED
  BY <1>1, PaymentInvariant, PTL

-----------------------------------------------------------------------------
(* Nothing fails between the charge and the completed row.                 *)
PaidWorkSucceeds == Faults \cap (Paid \cup {"crash"}) = {}

NothingAborted == \A s \in Sessions : aborted[s] = 0

LEMMA NothingAbortedInvariant ==
  ASSUME ClaimsRespected, PaidWorkSucceeds
  PROVE  Spec => []NothingAborted
<1>1. Init => NothingAborted
  BY DEF Init, NothingAborted
<1>2. NothingAborted /\ [Next]_vars => NothingAborted'
  <2> SUFFICES ASSUME NothingAborted, [Next]_vars PROVE NothingAborted'
    OBVIOUS
  <2> USE DEF rows, processor, count
  <2>1. UNCHANGED aborted => NothingAborted'
    BY DEF NothingAborted
  <2>2. CASE \E a \in Workers : Throw(a)
    BY <2>1, <2>2 DEF Throw, Fault, PaidWorkSucceeds
  <2>3. ~Crash
    BY DEF Crash, Fault, PaidWorkSucceeds
  <2>4. CASE Failures /\ ~\E a \in Workers : Throw(a)
    BY <2>1, <2>3, <2>4
       DEF Failures, SweepClaimThrows, ProcessorEnds, Fault, ClaimsRespected
  <2>5. CASE Requests
    BY <2>1, <2>5 DEF Requests, Join, OpenPage, SaveCard, Age, ClaimAges,
       LoseWebhook, CardWebhook, CancelWebhook, CancelStart, Fault,
       ClaimsRespected
  <2>6. CASE \E a \in Activators : ActivationStep(a)
    BY <2>1, <2>6 DEF ActivationStep, Charge, Decline, CreateArb, Activate,
       Record, Complete, Retire, Clear
  <2>7. CASE \E b \in Sweepers : SweepStep(b)
    BY <2>1, <2>7 DEF SweepStep, SweepStart, SweepEnd, SweepClaim,
       ReadEntitlement, Resolve, ReadCards, Release
  <2>8. CASE \E c \in Workers : CancelStep(c)
    BY <2>1, <2>8 DEF CancelStep, StopArb, Unplan
  <2>9. CASE UNCHANGED vars
    BY <2>1, <2>9 DEF vars
  <2> QED
    BY <2>2, <2>4, <2>5, <2>6, <2>7, <2>8, <2>9 DEF Next, Progress
<1> QED
  BY <1>1, <1>2, PTL DEF Spec

(* A checkout is charged once at most, through lost, late and duplicated   *)
(* webhooks, overlapping sweeps and every failure before the charge, when  *)
(* no claim is broken and no step between the charge and the completed row *)
(* fails; the run DoubleCharge shows that the second one is needed.        *)
THEOREM ChargedOnce ==
  ASSUME ClaimsRespected, PaidWorkSucceeds
  PROVE  Spec => []NoDoubleCharge
<1>1. ChargesAccounted /\ NothingAborted => NoDoubleCharge
  BY DEF ChargesAccounted, NothingAborted, NoDoubleCharge
<1> QED
  BY <1>1, ChargesAreAccounted, NothingAbortedInvariant, PTL

-----------------------------------------------------------------------------
(* Subscriptions.                                                          *)

(* The steps at which an activation holds a subscription in hand that may  *)
(* be on no row: the one it created, then the one it replaced.             *)
Late == {"activate", "record", "complete", "retire"}

Carries(a, id) ==
    w[a].sub = id /\ w[a].pc \in Late /\ Owner[w[a].s] = Owner[id[1]]

CurrentOrCarried == \A id \in live :
    ent[Owner[id[1]]].sub = id \/ \E a \in Activators : Carries(a, id)

(* Nothing fails between the created subscription and the retired one.     *)
LateWorkSucceeds == Faults \cap (Late \cup {"crash"}) = {}

(* A worker moves, and puts down no subscription that is still billing.    *)
LEMMA MoveKeepsCurrentOrCarried ==
  ASSUME TypeInv, CurrentOrCarried, NEW a \in Workers, NEW r,
         w' = [w EXCEPT ![a] = r], live' \subseteq live,
         \A p \in Phones : ent'[p].sub = ent[p].sub,
         w[a].pc \in Late /\ w[a].sub \in live' =>
           r.pc \in Late /\ r.sub = w[a].sub /\ r.s = w[a].s
  PROVE  CurrentOrCarried'
<1>1. SUFFICES ASSUME NEW id \in live'
               PROVE  \/ ent'[Owner[id[1]]].sub = id
                      \/ \E b \in Activators : Carries(b, id)'
  BY DEF CurrentOrCarried
<1>2. id \in live /\ Owner[id[1]] \in Phones
  BY <1>1, ConstantsAssumption DEF TypeInv, TypeOK, SubIds
<1>3. \A b \in Activators : Carries(b, id) => Carries(b, id)'
  BY <1>1 DEF Carries, TypeInv, TypeOK, Workers
<1> QED
  BY <1>2, <1>3 DEF CurrentOrCarried

LEMMA StillCurrentOrCarried ==
  ASSUME TypeInv, CurrentOrCarried, UNCHANGED <<w, ent>>, live' \subseteq live
  PROVE  CurrentOrCarried'
BY DEF CurrentOrCarried, Carries

LEMMA CreateKeepsCurrentOrCarried ==
  ASSUME TypeInv, CurrentOrCarried, NEW a \in Activators, CreateArb(a)
  PROVE  CurrentOrCarried'
<1>1. PICK s, new, r :
        /\ s = w[a].s /\ new = <<s, made[s] + 1>>
        /\ r = Local("activate", s, new, None)
  OBVIOUS
<1>2. /\ r.pc = "activate" /\ r.s = s /\ r.sub = new /\ new[1] = s
      /\ w' = [w EXCEPT ![a] = r] /\ live' = live \cup {new} /\ UNCHANGED ent
      /\ w[a].pc = "arb" /\ a \in Workers
  BY <1>1 DEF CreateArb, Workers, Local
<1>3. \A b \in Activators : w'[b] = IF b = a THEN r ELSE w[b]
  BY <1>2 DEF TypeInv, TypeOK, Workers
<1>4. Carries(a, new)'
  BY <1>2, <1>3 DEF Carries, Late
<1>5. \A id \in live, b \in Activators : Carries(b, id) => Carries(b, id)'
  BY <1>2, <1>3 DEF Carries, Late
<1> QED
  BY <1>2, <1>4, <1>5 DEF CurrentOrCarried

(* The subscription in hand becomes current, and the one it replaces is    *)
(* taken in hand.                                                          *)
LEMMA ActivateKeepsCurrentOrCarried ==
  ASSUME TypeInv, CurrentOrCarried, NEW a \in Activators, Activate(a)
  PROVE  CurrentOrCarried'
<1> DEFINE s == w[a].s
           p == Owner[s]
           new == Membership(ent[p], s, w[a].sub)
           r == Local("record", s, new.superseded, None)
<1>1. /\ w' = [w EXCEPT ![a] = r] /\ ent' = [ent EXCEPT ![p] = new] /\ UNCHANGED live
      /\ w[a].pc = "activate" /\ a \in Workers
  BY DEF Activate, Workers, processor
<1>2. r.pc = "record" /\ r.s = s /\ r.sub = new.superseded
  BY DEF Local
<1>3. s \in Sessions /\ p \in Phones
  BY <1>1, ConstantsAssumption DEF TypeInv, SessionKnown, OnSession, Holding, Paid
<1>4. new.sub = w[a].sub
  BY DEF Membership
<1>5. ent[p].sub # None /\ ent[p].sub # w[a].sub => new.superseded = ent[p].sub
  BY DEF Membership, SupersededBy
<1> HIDE DEF r, new
<1>6. \A b \in Activators : w'[b] = IF b = a THEN r ELSE w[b]
  BY <1>1 DEF TypeInv, TypeOK, Workers
<1>7. \A q \in Phones : ent'[q] = IF q = p THEN new ELSE ent[q]
  BY <1>1 DEF TypeInv, TypeOK
<1>8. SUFFICES ASSUME NEW id \in live
               PROVE  \/ ent'[Owner[id[1]]].sub = id
                      \/ \E b \in Activators : Carries(b, id)'
  BY <1>1 DEF CurrentOrCarried
<1>9. id \in SubIds /\ Owner[id[1]] \in Phones /\ id # None
  BY ConstantsAssumption DEF TypeInv, TypeOK, SubIds
<1>10. CASE ent[Owner[id[1]]].sub = id
  <2>1. CASE Owner[id[1]] # p
    BY <1>7, <1>9, <1>10, <2>1
  <2>2. CASE Owner[id[1]] = p /\ id = w[a].sub
    BY <1>4, <1>7, <1>9, <2>2
  <2>3. CASE Owner[id[1]] = p /\ id # w[a].sub
    <3>1. r.sub = id
      BY <1>2, <1>5, <1>9, <1>10, <2>3
    <3>2. Carries(a, id)'
      BY <1>2, <1>6, <2>3, <3>1 DEF Carries, Late
    <3> QED
      BY <3>2
  <2> QED
    BY <2>1, <2>2, <2>3
<1>11. ASSUME NEW b \in Activators, Carries(b, id)
       PROVE  ent'[Owner[id[1]]].sub = id \/ Carries(b, id)'
  <2>1. CASE b = a
    <3>1. id = w[a].sub /\ Owner[id[1]] = p
      BY <1>11, <2>1 DEF Carries
    <3> QED
      BY <1>4, <1>7, <1>9, <3>1
  <2>2. CASE b # a
    BY <1>6, <1>11, <2>2 DEF Carries
  <2> QED
    BY <2>1, <2>2
<1> QED
  BY <1>10, <1>11 DEF CurrentOrCarried

LEMMA StepCurrentOrCarried ==
  ASSUME LateWorkSucceeds, TypeInv, CurrentOrCarried, [Next]_vars
  PROVE  CurrentOrCarried'
<1> USE DEF rows, processor, count
<1>1. \A a \in Activators : a \in Workers
  BY DEF Workers
<1>2. ASSUME NEW a \in Workers, NEW r, w' = [w EXCEPT ![a] = r],
             w[a].pc \notin Late, UNCHANGED ent, live' \subseteq live
      PROVE  CurrentOrCarried'
  BY <1>2, MoveKeepsCurrentOrCarried
<1>3. ASSUME NEW a \in Workers, NEW pc, Goto(a, pc),
             w[a].pc \in Late => pc \in Late,
             UNCHANGED ent, live' \subseteq live
      PROVE  CurrentOrCarried'
  <2> DEFINE r == Local(pc, w[a].s, w[a].sub, w[a].phone)
  <2>1. w' = [w EXCEPT ![a] = r] /\ r.s = w[a].s /\ r.sub = w[a].sub /\ r.pc = pc
    BY <1>3 DEF Goto, Local
  <2> HIDE DEF r
  <2> QED
    BY <1>3, <2>1, MoveKeepsCurrentOrCarried
<1>4. CASE \E a \in Activators : Charge(a) \/ Decline(a)
  BY <1>1, <1>2, <1>4 DEF Charge, Decline, Goto, Return, Late
<1>5. CASE \E a \in Activators : CreateArb(a)
  BY <1>5, CreateKeepsCurrentOrCarried
<1>6. CASE \E a \in Activators : Activate(a)
  BY <1>6, ActivateKeepsCurrentOrCarried
<1>7. CASE \E a \in Activators : Record(a)
  BY <1>1, <1>3, <1>7 DEF Record, Late
<1>8. CASE \E a \in Activators : Complete(a)
  <2>1. PICK a \in Activators : Complete(a)
    BY <1>8
  <2>2. UNCHANGED <<ent, live>>
    BY <2>1 DEF Complete
  <2>3. CASE w[a].sub = None
    <3>1. w' = [w EXCEPT ![a] = Done(a)]
      BY <2>1, <2>3 DEF Complete, Return
    <3>2. w[a].sub \notin live
      BY <2>3, ConstantsAssumption DEF TypeInv, TypeOK, SubIds
    <3> QED
      BY <1>1, <2>2, <3>1, <3>2, MoveKeepsCurrentOrCarried
  <2>4. CASE w[a].sub # None
    BY <1>1, <1>3, <2>1, <2>2, <2>4 DEF Complete, Late
  <2> QED
    BY <2>3, <2>4
<1>9. CASE \E a \in Activators : Retire(a)
  <2>1. PICK a \in Activators : Retire(a)
    BY <1>9
  <2> DEFINE r == Local("clear", w[a].s, w[a].sub, w[a].phone)
  <2>2. /\ UNCHANGED ent /\ live' = live \ {w[a].sub}
        /\ w' = [w EXCEPT ![a] = r]
    BY <2>1 DEF Retire, CancelArb, Goto
  <2> HIDE DEF r
  <2> QED
    BY <1>1, <2>2, MoveKeepsCurrentOrCarried
<1>10. CASE \E a \in Activators : Clear(a)
  <2>1. PICK a \in Activators : Clear(a)
    BY <1>10
  <2>2. /\ UNCHANGED live /\ w' = [w EXCEPT ![a] = Done(a)] /\ w[a].pc \notin Late
        /\ \A p \in Phones : ent'[p].sub = ent[p].sub
    BY <2>1 DEF Clear, Return, Late, TypeInv, TypeOK, Entitlement
  <2> QED
    BY <1>1, <2>2, MoveKeepsCurrentOrCarried
<1>11. CASE \E b \in Sweepers : SweepStep(b)
  <2>1. PICK b \in Sweepers : SweepStep(b)
    BY <1>11
  <2>2. b \in Workers /\ UNCHANGED <<ent, live>>
    BY <2>1 DEF Workers, Activators, SweepStep, SweepStart, SweepEnd, SweepClaim,
       ReadEntitlement, Resolve, ReadCards, Release
  <2>3. UNCHANGED w \/ (w[b].pc \notin Late /\ \E r : w' = [w EXCEPT ![b] = r])
    BY <2>1 DEF SweepStep, SweepStart, SweepEnd, SweepClaim,
       ReadEntitlement, Resolve, ReadCards, Release, Goto, Return, Late
  <2> QED
    BY <1>2, <2>2, <2>3, StillCurrentOrCarried
<1>12. CASE \E c \in Workers : StopArb(c)
  <2>1. PICK c \in Workers : StopArb(c)
    BY <1>12
  <2>2. /\ UNCHANGED ent /\ live' \subseteq live /\ w[c].pc \notin Late
        /\ \E r : w' = [w EXCEPT ![c] = r]
    BY <2>1 DEF StopArb, CancelArb, Late
  <2> QED
    BY <1>2, <2>2
<1>13. CASE \E c \in Workers : Unplan(c)
  <2>1. PICK c \in Workers : Unplan(c)
    BY <1>13
  <2>2. /\ UNCHANGED live /\ w' = [w EXCEPT ![c] = Idle] /\ w[c].pc \notin Late
        /\ \A p \in Phones : ent'[p].sub = ent[p].sub
    BY <2>1 DEF Unplan, Late, TypeInv, TypeOK, Entitlement
  <2> QED
    BY <2>2, MoveKeepsCurrentOrCarried
<1>14. CASE Requests
  <2>1. UNCHANGED <<ent, live>>
    BY <1>14 DEF Requests, Join, OpenPage, SaveCard, Age, ClaimAges, LoseWebhook,
       CardWebhook, CancelWebhook, CancelStart
  <2>2. \/ UNCHANGED w
        \/ \E a \in Workers : w[a].pc \notin Late /\ \E r : w' = [w EXCEPT ![a] = r]
    BY <1>14 DEF Requests, Join, OpenPage, SaveCard, Age, ClaimAges, LoseWebhook,
       CardWebhook, CancelWebhook, CancelStart, Workers, Activators, Late
  <2> QED
    BY <1>2, <2>1, <2>2, StillCurrentOrCarried
<1>15. CASE Failures
  <2>1. CASE \E b \in Sweepers : SweepClaimThrows(b)
    <3>1. /\ UNCHANGED <<ent, live>>
          /\ \E b \in Workers : w[b].pc \notin Late /\ \E r : w' = [w EXCEPT ![b] = r]
      BY <2>1 DEF SweepClaimThrows, Workers, Activators, Late
    <3> QED
      BY <1>2, <3>1
  <2>2. CASE \E a \in Workers : Throw(a)
    <3>1. /\ UNCHANGED <<ent, live>>
          /\ \E a \in Workers : w[a].pc \notin Late /\ \E r : w' = [w EXCEPT ![a] = r]
      BY <2>2 DEF Throw, Fault, LateWorkSucceeds
    <3> QED
      BY <1>2, <3>1
  <2>3. CASE \E id \in live : ProcessorEnds(id)
    BY <2>3, StillCurrentOrCarried DEF ProcessorEnds
  <2>4. ~Crash
    BY DEF Crash, Fault, LateWorkSucceeds
  <2> QED
    BY <1>15, <2>1, <2>2, <2>3, <2>4 DEF Failures
<1>16. CASE UNCHANGED vars
  BY <1>16, StillCurrentOrCarried DEF vars
<1> QED
  BY <1>4, <1>5, <1>6, <1>7, <1>8, <1>9, <1>10, <1>11, <1>12, <1>13, <1>14, <1>15, <1>16
     DEF Next, Progress, ActivationStep, CancelStep

(* What an account pays and what it has, once nothing concerning it runs.  *)
LEMMA NothingUnseen ==
  ASSUME TypeInv, CurrentOrCarried
  PROVE  SubscriptionsOnRecord /\ OneSubscriptionEach
<1>1. SubscriptionsOnRecord
  BY DEF SubscriptionsOnRecord, CurrentOrCarried, Carries, Inhand, Workers
<1>2. ASSUME NEW p \in Phones, Quiet(p)
      PROVE  Cardinality({id \in live : Owner[id[1]] = p}) <= 1
  <2> DEFINE mine == {id \in live : Owner[id[1]] = p}
  <2>1. \A id \in live : Owner[id[1]] = p => ent[p].sub = id
    <3>1. ASSUME NEW id \in live, Owner[id[1]] = p, NEW a \in Activators, Carries(a, id)
          PROVE  FALSE
      <4>1. w[a].s \in Sessions /\ Owner[w[a].s] = p /\ a \in Workers
        BY <3>1 DEF Carries, Late, TypeInv, SessionKnown, OnSession, Holding, Paid, Workers
      <4> QED
        BY <1>2, <4>1, ConstantsAssumption DEF Quiet
    <3> QED
      BY <3>1 DEF CurrentOrCarried
  <2>2. mine \subseteq {ent[p].sub}
    BY <2>1
  <2>3. IsFiniteSet({ent[p].sub}) /\ Cardinality({ent[p].sub}) = 1
    BY FS_Singleton
  <2> HIDE DEF mine
  <2>4. Cardinality(mine) <= Cardinality({ent[p].sub})
    BY <2>2, <2>3, FS_Subset
  <2> QED
    BY <2>3, <2>4 DEF mine
<1>3. OneSubscriptionEach
  BY <1>2 DEF OneSubscriptionEach
<1> QED
  BY <1>1, <1>3

(* However activations, cancellations and late webhooks interleave, no     *)
(* subscription goes on billing unknown to the row of its owner and to a   *)
(* running call, and an account at rest pays one at most, as long as no    *)
(* step from the created subscription to the retired one fails             *)
(* (activateMembership, retireSupersededSubscription).                     *)
THEOREM SubscriptionsAreOnRecord ==
  ASSUME LateWorkSucceeds
  PROVE  Spec => [](SubscriptionsOnRecord /\ OneSubscriptionEach)
<1>1. Init => TypeInv /\ CurrentOrCarried
  BY InitTypeInv DEF Init, CurrentOrCarried
<1>2. TypeInv /\ CurrentOrCarried /\ [Next]_vars => (TypeInv /\ CurrentOrCarried)'
  BY StepTypeInv, StepCurrentOrCarried
<1>3. TypeInv /\ CurrentOrCarried => SubscriptionsOnRecord /\ OneSubscriptionEach
  BY NothingUnseen
<1> QED
  BY <1>1, <1>2, <1>3, PTL DEF Spec

-----------------------------------------------------------------------------
(* Subscriptions go one way: created in hand, current on a row, replaced.  *)
Leaving == {"record", "complete", "retire", "clear"}

Current(id) == \E p \in Phones : ent[p].sub = id

Created(id) == \E a \in Activators : w[a].sub = id /\ w[a].pc = "activate"

Replaced(id) ==
    \/ id \in cancelHooks
    \/ \E p \in Phones : ent[p].superseded = id
    \/ \E a \in Activators : w[a].sub = id /\ w[a].pc \in Leaving

OneWay == \A id \in SubIds :
    /\ Replaced(id) => ~Current(id) /\ ~Created(id)
    /\ Created(id) => ~Current(id)
    /\ Replaced(id) \/ Current(id) \/ Created(id) => id[2] <= made[id[1]]

OnePlace == \A id \in SubIds :
    /\ \A p, q \in Phones : ent[p].sub = id /\ ent[q].sub = id => p = q
    /\ \A a, b \in Activators :
         /\ w[a].sub = id /\ w[a].pc = "activate"
         /\ w[b].sub = id /\ w[b].pc = "activate"
         => a = b

MembersOnly == \A p \in Phones : ent[p].sub # None => Active(p)

NobodyCancels == \A a \in Workers : w[a].pc \notin {"unplan", "stopArb"}

MembershipInv == OneWay /\ OnePlace /\ MembersOnly /\ NobodyCancels

(* Nobody cancels a membership, and the processor ends none by itself.     *)
NoCancellations == Cancellers = {} /\ "ends" \notin Faults

LEMMA OneWayKept ==
  ASSUME TypeInv, OneWay, OnePlace,
         \A p \in Phones : ent'[p].sub = ent[p].sub
              /\ ent'[p].superseded \in {None, ent[p].superseded},
         \A id \in SubIds : id \in cancelHooks' => Replaced(id),
         \A a \in Activators :
           /\ w'[a].pc = "activate" => w[a].pc = "activate" /\ w'[a].sub = w[a].sub
           /\ w'[a].pc \in Leaving => w[a].pc \in Leaving /\ w'[a].sub = w[a].sub,
         made' = made
  PROVE  OneWay' /\ OnePlace'
<1>1. ASSUME NEW id \in SubIds
      PROVE  /\ Current(id)' => Current(id)
             /\ Created(id)' => Created(id)
             /\ Replaced(id)' => Replaced(id)
  <2>1. id # None
    BY ConstantsAssumption DEF SubIds
  <2> QED
    BY <2>1 DEF Current, Created, Replaced
<1>2. OneWay'
  BY <1>1 DEF OneWay
<1>3. OnePlace'
  BY DEF OnePlace
<1> QED
  BY <1>2, <1>3

LEMMA CreateOneWay ==
  ASSUME TypeInv, OneWay, OnePlace, NEW a \in Activators, CreateArb(a)
  PROVE  OneWay' /\ OnePlace'
<1>1. PICK s, new, r :
        /\ s = w[a].s /\ new = <<s, made[s] + 1>>
        /\ r = Local("activate", s, new, None)
  OBVIOUS
<1>2. /\ r.pc = "activate" /\ r.s = s /\ r.sub = new
      /\ w' = [w EXCEPT ![a] = r] /\ UNCHANGED <<ent, cancelHooks>>
      /\ made' = [made EXCEPT ![s] = made[s] + 1]
      /\ w[a].pc = "arb" /\ a \in Workers
  BY <1>1 DEF CreateArb, Workers, Local
<1>3. s \in Sessions /\ made[s] \in Nat
  BY <1>1, <1>2 DEF TypeInv, TypeOK, SessionKnown, OnSession, Holding, Paid
<1>4. new \in SubIds /\ new[1] = s /\ new[2] = made[s] + 1
  BY <1>1, <1>3 DEF SubIds
<1>5. \A b \in Activators : w'[b] = IF b = a THEN r ELSE w[b]
  BY <1>2 DEF TypeInv, TypeOK, Workers
<1>6. \A t \in Sessions : made'[t] \in Nat /\ made[t] \in Nat /\ made'[t] >= made[t]
  BY <1>2, <1>3 DEF TypeInv, TypeOK
<1>7. made'[s] = made[s] + 1
  BY <1>2, <1>3 DEF TypeInv, TypeOK
<1>8. ~Replaced(new) /\ ~Current(new) /\ ~Created(new)
  BY <1>3, <1>4 DEF OneWay
<1>9. ASSUME NEW id \in SubIds
      PROVE  /\ Current(id)' <=> Current(id)
             /\ Created(id)' => Created(id) \/ id = new
             /\ Replaced(id)' => Replaced(id)
  <2>1. Current(id)' <=> Current(id)
    BY <1>2 DEF Current
  <2>2. Created(id)' => Created(id) \/ id = new
    BY <1>2, <1>5 DEF Created
  <2>3. Replaced(id)' => Replaced(id)
    BY <1>2, <1>5 DEF Replaced, Leaving
  <2> QED
    BY <2>1, <2>2, <2>3
<1>10. OneWay'
  <2> SUFFICES ASSUME NEW id \in SubIds
               PROVE /\ Replaced(id)' => ~Current(id)' /\ ~Created(id)'
                     /\ Created(id)' => ~Current(id)'
                     /\ Replaced(id)' \/ Current(id)' \/ Created(id)'
                          => id[2] <= made'[id[1]]
    BY DEF OneWay
  <2>1. id[1] \in Sessions /\ id[2] \in Nat
    BY DEF SubIds
  <2>2. CASE id = new
    BY <1>3, <1>4, <1>7, <1>8, <1>9, <2>2
  <2>3. CASE id # new
    <3>1. /\ Replaced(id) => ~Current(id) /\ ~Created(id)
          /\ Created(id) => ~Current(id)
          /\ Replaced(id) \/ Current(id) \/ Created(id) => id[2] <= made[id[1]]
      BY DEF OneWay
    <3>2. id[2] <= made[id[1]] => id[2] <= made'[id[1]]
      BY <1>6, <2>1
    <3> QED
      BY <1>9, <2>3, <3>1, <3>2
  <2> QED
    BY <2>2, <2>3
<1>11. OnePlace'
  <2>1. \A b \in Activators : w[b].pc = "activate" => w[b].sub # new
    BY <1>8 DEF Created
  <2>2. \A id \in SubIds, p, q \in Phones : ent'[p].sub = id /\ ent'[q].sub = id => p = q
    BY <1>2 DEF OnePlace
  <2>3. ASSUME NEW id \in SubIds, NEW b \in Activators, NEW c \in Activators,
               w'[b].sub = id, w'[b].pc = "activate",
               w'[c].sub = id, w'[c].pc = "activate"
        PROVE  b = c
    BY <1>2, <1>5, <2>1, <2>3 DEF OnePlace
  <2> QED
    BY <2>2, <2>3 DEF OnePlace
<1> QED
  BY <1>10, <1>11

LEMMA ActivateOneWay ==
  ASSUME TypeInv, OneWay, OnePlace, NEW a \in Activators, Activate(a)
  PROVE  OneWay' /\ OnePlace'
<1>1. PICK s, p, new, r :
        /\ s = w[a].s /\ p = Owner[s] /\ new = Membership(ent[p], s, w[a].sub)
        /\ r = Local("record", s, new.superseded, None)
  OBVIOUS
<1>2. /\ w' = [w EXCEPT ![a] = r] /\ ent' = [ent EXCEPT ![p] = new]
      /\ UNCHANGED <<made, cancelHooks>>
      /\ w[a].pc = "activate" /\ a \in Workers
      /\ r.pc = "record" /\ r.s = s /\ r.sub = new.superseded
      /\ new.sub = w[a].sub
  BY <1>1 DEF Activate, Workers, processor, Local, Membership
<1>3. s \in Sessions /\ p \in Phones
  BY <1>1, <1>2, ConstantsAssumption DEF TypeInv, SessionKnown, OnSession, Holding, Paid
<1>4. new.superseded = IF ent[p].sub # None /\ ent[p].sub # w[a].sub
                       THEN ent[p].sub ELSE ent[p].superseded
  BY <1>1 DEF Membership, SupersededBy
<1>5. \A b \in Activators : w'[b] = IF b = a THEN r ELSE w[b]
  BY <1>2 DEF TypeInv, TypeOK, Workers
<1>6. \A q \in Phones : ent'[q] = IF q = p THEN new ELSE ent[q]
  BY <1>2, <1>3 DEF TypeInv, TypeOK
<1>7. ASSUME NEW id \in SubIds, id = w[a].sub
      PROVE  Created(id) /\ ~Current(id) /\ ~Replaced(id) /\ ~Created(id)' /\ ~Replaced(id)'
  <2>1. Created(id) /\ ~Current(id) /\ ~Replaced(id)
    BY <1>2, <1>7 DEF Created, OneWay
  <2>2. ~Created(id)'
    BY <1>2, <1>5, <1>7 DEF Created, OnePlace
  <2>3. \A q \in Phones : ent[q].sub # id /\ ent[q].superseded # id
    BY <2>1 DEF Current, Replaced
  <2>4. new.superseded # id
    BY <1>3, <1>4, <1>7, <2>3
  <2>5. ~Replaced(id)'
    BY <1>2, <1>5, <1>6, <2>1, <2>3, <2>4 DEF Replaced, Leaving
  <2> QED
    BY <2>1, <2>2, <2>5
<1>8. ASSUME NEW id \in SubIds, id # w[a].sub
      PROVE  /\ Current(id)' => Current(id) /\ ent[p].sub # id
             /\ Created(id)' => Created(id)
             /\ Replaced(id)' => Replaced(id) \/ ent[p].sub = id
  <2>1. id # None
    BY ConstantsAssumption DEF SubIds
  <2>2. Current(id)' => Current(id) /\ ent[p].sub # id
    <3>1. SUFFICES ASSUME NEW q \in Phones, ent'[q].sub = id
                   PROVE  Current(id) /\ ent[p].sub # id
      BY DEF Current
    <3>2. q # p /\ ent[q].sub = id
      BY <1>2, <1>6, <1>8, <3>1
    <3> QED
      BY <1>3, <3>2 DEF Current, OnePlace
  <2>3. Created(id)' => Created(id)
    BY <1>2, <1>5 DEF Created
  <2>4. new.superseded = id => ent[p].sub = id \/ ent[p].superseded = id
    BY <1>4
  <2>5. Replaced(id)' => Replaced(id) \/ ent[p].sub = id
    BY <1>2, <1>3, <1>5, <1>6, <2>4 DEF Replaced, Leaving
  <2> QED
    BY <2>2, <2>3, <2>5
<1>9. OneWay'
  <2> SUFFICES ASSUME NEW id \in SubIds
               PROVE /\ Replaced(id)' => ~Current(id)' /\ ~Created(id)'
                     /\ Created(id)' => ~Current(id)'
                     /\ Replaced(id)' \/ Current(id)' \/ Created(id)'
                          => id[2] <= made'[id[1]]
    BY DEF OneWay
  <2>1. /\ Replaced(id) => ~Current(id) /\ ~Created(id)
        /\ Created(id) => ~Current(id)
        /\ Replaced(id) \/ Current(id) \/ Created(id) => id[2] <= made[id[1]]
    BY DEF OneWay
  <2>2. CASE id = w[a].sub
    BY <1>2, <1>7, <2>1, <2>2
  <2>3. CASE id # w[a].sub
    <3>1. ent[p].sub = id => Current(id)
      BY <1>3 DEF Current
    <3> QED
      BY <1>2, <1>8, <2>1, <2>3, <3>1
  <2> QED
    BY <2>2, <2>3
<1>10. OnePlace'
  <2>1. ASSUME NEW id \in SubIds, NEW x \in Phones, NEW y \in Phones,
               ent'[x].sub = id, ent'[y].sub = id
        PROVE  x = y
    <3>1. CASE id = w[a].sub
      <4>1. \A q \in Phones : ent[q].sub # id
        BY <1>7, <3>1 DEF Current
      <4> QED
        BY <1>6, <2>1, <4>1
    <3>2. CASE id # w[a].sub
      BY <1>2, <1>6, <2>1, <3>2 DEF OnePlace
    <3> QED
      BY <3>1, <3>2
  <2>2. ASSUME NEW id \in SubIds, NEW b \in Activators, NEW c \in Activators,
               w'[b].sub = id, w'[b].pc = "activate",
               w'[c].sub = id, w'[c].pc = "activate"
        PROVE  b = c
    BY <1>2, <1>5, <2>2 DEF OnePlace
  <2> QED
    BY <2>1, <2>2 DEF OnePlace
<1> QED
  BY <1>9, <1>10

(* A worker moves on with the subscription it has, or without one, and     *)
(* cancels only one that was replaced.                                     *)
LEMMA MoveKeepsMembershipInv ==
  ASSUME TypeInv, MembershipInv, NEW a \in Workers, NEW r,
         w' = [w EXCEPT ![a] = r], UNCHANGED made,
         \A p \in Phones : /\ ent'[p].sub = ent[p].sub
                           /\ ent'[p].superseded \in {None, ent[p].superseded}
                           /\ ent'[p].plan = ent[p].plan
                           /\ ent'[p].canceled = ent[p].canceled,
         \A id \in SubIds : id \in cancelHooks' => Replaced(id),
         r.pc \notin {"activate", "unplan", "stopArb"},
         r.pc \in Leaving => w[a].pc \in Leaving /\ r.sub = w[a].sub
  PROVE  MembershipInv'
<1>1. \A b \in Workers : w'[b] = IF b = a THEN r ELSE w[b]
  BY DEF TypeInv, TypeOK
<1>2. \A b \in Activators :
        /\ w'[b].pc = "activate" => w[b].pc = "activate" /\ w'[b].sub = w[b].sub
        /\ w'[b].pc \in Leaving => w[b].pc \in Leaving /\ w'[b].sub = w[b].sub
  BY <1>1 DEF Workers
<1>3. OneWay' /\ OnePlace'
  BY <1>2, OneWayKept DEF MembershipInv
<1>4. MembersOnly'
  BY DEF MembershipInv, MembersOnly, Active
<1>5. NobodyCancels'
  BY <1>1 DEF MembershipInv, NobodyCancels
<1> QED
  BY <1>3, <1>4, <1>5 DEF MembershipInv

LEMMA StillMembershipInv ==
  ASSUME TypeInv, MembershipInv, UNCHANGED <<w, ent, made>>,
         \A id \in SubIds : id \in cancelHooks' => Replaced(id)
  PROVE  MembershipInv'
<1>1. OneWay' /\ OnePlace'
  BY OneWayKept DEF MembershipInv
<1>2. MembersOnly' /\ NobodyCancels'
  BY DEF MembershipInv, MembersOnly, Active, NobodyCancels
<1> QED
  BY <1>1, <1>2 DEF MembershipInv

LEMMA ActivationKeepsMembershipInv ==
  ASSUME TypeInv, MembershipInv, NEW a \in Activators, ActivationStep(a)
  PROVE  MembershipInv'
<1> USE DEF rows, processor, count
<1>a. a \in Workers
  BY DEF Workers
<1>b. \A id \in SubIds : id \in cancelHooks => Replaced(id)
  BY DEF Replaced
<1>c. Done(a).pc \notin {"activate", "unplan", "stopArb"} /\ Done(a).pc \notin Leaving
  BY DEF Done, Idle, Between, Local, Leaving
<1>1. ASSUME NEW pc, Goto(a, pc), pc \notin {"activate", "unplan", "stopArb"},
             pc \in Leaving => w[a].pc \in Leaving,
             UNCHANGED <<ent, made>>,
             \A id \in SubIds : id \in cancelHooks' => Replaced(id)
      PROVE  MembershipInv'
  <2> DEFINE r == Local(pc, w[a].s, w[a].sub, w[a].phone)
  <2>1. w' = [w EXCEPT ![a] = r] /\ r.sub = w[a].sub /\ r.pc = pc
    BY <1>1 DEF Goto, Local
  <2> HIDE DEF r
  <2> QED
    BY <1>a, <1>1, <2>1, MoveKeepsMembershipInv
<1>2. CASE Charge(a)
  BY <1>1, <1>2, <1>b DEF Charge, Leaving
<1>3. CASE Decline(a)
  BY <1>3, <1>a, <1>b, <1>c, MoveKeepsMembershipInv DEF Decline, Return
<1>4. CASE CreateArb(a)
  <2>1. OneWay' /\ OnePlace'
    BY <1>4, CreateOneWay DEF MembershipInv
  <2>2. MembersOnly' /\ NobodyCancels'
    BY <1>4, <1>a DEF CreateArb, MembershipInv, MembersOnly, Active, NobodyCancels,
       Local, TypeInv, TypeOK
  <2> QED
    BY <2>1, <2>2 DEF MembershipInv
<1>5. CASE Activate(a)
  <2>1. OneWay' /\ OnePlace'
    BY <1>5, ActivateOneWay DEF MembershipInv
  <2>2. NobodyCancels'
    BY <1>5, <1>a DEF Activate, MembershipInv, NobodyCancels, Local, TypeInv, TypeOK
  <2>3. MembersOnly'
    <3> DEFINE s == w[a].s
               new == Membership(ent[Owner[s]], s, w[a].sub)
    <3>1. ent' = [ent EXCEPT ![Owner[s]] = new] /\ s \in Sessions
      BY <1>5, <1>a DEF Activate, TypeInv, SessionKnown, OnSession, Holding, Paid
    <3>2. new.plan # None /\ new.canceled = FALSE
      BY <3>1, ConstantsAssumption DEF Membership
    <3> HIDE DEF new
    <3> QED
      BY <3>1, <3>2 DEF MembershipInv, MembersOnly, Active, TypeInv, TypeOK
  <2> QED
    BY <2>1, <2>2, <2>3 DEF MembershipInv
<1>6. CASE Record(a)
  BY <1>1, <1>6, <1>b DEF Record, Leaving
<1>7. CASE Complete(a)
  <2>1. CASE Return(a)
    BY <1>7, <2>1, <1>a, <1>b, <1>c, MoveKeepsMembershipInv DEF Complete, Return
  <2>2. CASE Goto(a, "retire")
    BY <1>1, <1>7, <2>2, <1>b DEF Complete, Leaving
  <2> QED
    BY <1>7, <2>1, <2>2 DEF Complete
<1>8. CASE Retire(a)
  <2>1. \A id \in SubIds : id \in cancelHooks' => Replaced(id)
    BY <1>8 DEF Retire, CancelArb, Replaced, Leaving
  <2> QED
    BY <1>1, <1>8, <2>1 DEF Retire, Leaving
<1>9. CASE Clear(a)
  <2>1. /\ w' = [w EXCEPT ![a] = Done(a)] /\ UNCHANGED <<made, cancelHooks>>
        /\ \A p \in Phones : /\ ent'[p].sub = ent[p].sub
                             /\ ent'[p].superseded \in {None, ent[p].superseded}
                             /\ ent'[p].plan = ent[p].plan
                             /\ ent'[p].canceled = ent[p].canceled
    BY <1>9 DEF Clear, Return, TypeInv, TypeOK, Entitlement
  <2> QED
    BY <1>a, <1>b, <1>c, <2>1, MoveKeepsMembershipInv
<1> QED
  BY <1>2, <1>3, <1>4, <1>5, <1>6, <1>7, <1>8, <1>9 DEF ActivationStep

LEMMA StepMembershipInv ==
  ASSUME NoCancellations, TypeInv, MembershipInv, [Next]_vars
  PROVE  MembershipInv'
<1> USE DEF rows, processor, count
<1>a. \A id \in SubIds : id \in cancelHooks => Replaced(id)
  BY DEF Replaced
<1>1. ASSUME NEW a \in Workers, NEW r, w' = [w EXCEPT ![a] = r],
             UNCHANGED <<ent, made, cancelHooks>>,
             r.pc \notin Leaving \cup {"activate", "unplan", "stopArb"}
      PROVE  MembershipInv'
  BY <1>1, <1>a, MoveKeepsMembershipInv
<1>2. CASE \E a \in Activators : ActivationStep(a)
  BY <1>2, ActivationKeepsMembershipInv
<1>3. CASE \E b \in Sweepers : SweepStep(b)
  <2>1. PICK b \in Sweepers : SweepStep(b)
    BY <1>3
  <2>2. b \in Workers /\ UNCHANGED <<ent, made, cancelHooks>>
    BY <2>1 DEF Workers, Activators, SweepStep, SweepStart, SweepEnd, SweepClaim,
       ReadEntitlement, Resolve, ReadCards, Release
  <2>3. \/ UNCHANGED w
        \/ \E r : /\ w' = [w EXCEPT ![b] = r]
                  /\ r.pc \notin Leaving \cup {"activate", "unplan", "stopArb"}
    <3>1. CASE SweepStart(b) \/ SweepEnd(b)
      BY <3>1 DEF SweepStart, SweepEnd, Idle, Between, Local, Leaving
    <3>2. CASE SweepClaim(b)
      BY <3>2 DEF SweepClaim, Local, Leaving
    <3>3. ASSUME NEW pc \in {"resolve", "cards", "charge", "release"}, Goto(b, pc)
          PROVE  \E r : /\ w' = [w EXCEPT ![b] = r]
                        /\ r.pc \notin Leaving \cup {"activate", "unplan", "stopArb"}
      <4> DEFINE r == Local(pc, w[b].s, w[b].sub, w[b].phone)
      <4>1. w' = [w EXCEPT ![b] = r] /\ r.pc = pc
        BY <3>3 DEF Goto, Local
      <4> HIDE DEF r
      <4> QED
        BY <4>1 DEF Leaving
    <3>4. CASE ReadEntitlement(b)
      BY <3>4, <3>3 DEF ReadEntitlement, AfterEntitlement
    <3>5. CASE ReadCards(b)
      BY <3>5, <3>3 DEF ReadCards
    <3>6. CASE Resolve(b) \/ Release(b)
      BY <3>6 DEF Resolve, Release, Return, Done, Idle, Between, Local, Leaving
    <3> QED
      BY <2>1, <3>1, <3>2, <3>4, <3>5, <3>6 DEF SweepStep
  <2> QED
    BY <1>1, <1>a, <2>2, <2>3, StillMembershipInv
<1>4. ~\E c \in Workers : CancelStep(c)
  BY DEF CancelStep, StopArb, Unplan, MembershipInv, NobodyCancels
<1>5. CASE Requests
  <2>1. CASE \E h \in Handlers, s \in Sessions : CardWebhook(h, s)
    <3>1. PICK h \in Handlers, s \in Sessions : CardWebhook(h, s)
      BY <2>1
    <3>2. h \in Workers /\ UNCHANGED <<ent, made, cancelHooks>>
      BY <3>1 DEF CardWebhook, Workers, Activators
    <3>3. UNCHANGED w \/ w' = [w EXCEPT ![h] = Local("charge", s, None, None)]
      BY <3>1 DEF CardWebhook
    <3>4. Local("charge", s, None, None).pc
            \notin Leaving \cup {"activate", "unplan", "stopArb"}
      BY DEF Local, Leaving
    <3> QED
      BY <1>1, <1>a, <3>2, <3>3, <3>4, StillMembershipInv
  <2>2. CASE \E h \in Handlers, id \in cancelHooks : CancelWebhook(h, id)
    <3>1. PICK h \in Handlers, id \in cancelHooks : CancelWebhook(h, id)
      BY <2>2
    <3>2. id \in SubIds
      BY DEF TypeInv, TypeOK
    <3>3. \A p \in Phones : ~Bills(p, id)
      BY <1>a, <3>2 DEF MembershipInv, OneWay, Current, Bills
    <3>4. UNCHANGED <<w, ent, made>>
      BY <3>1, <3>3 DEF CancelWebhook
    <3>5. cancelHooks' \subseteq cancelHooks
      <4>1. Consumed(cancelHooks, id, cancelHooks')
        BY <3>1 DEF CancelWebhook
      <4> QED
        BY <4>1 DEF Consumed
    <3> QED
      BY <1>a, <3>4, <3>5, StillMembershipInv
  <2>3. CASE \/ \E s \in Sessions : Join(s) \/ OpenPage(s) \/ SaveCard(s)
                                      \/ Age(s) \/ ClaimAges(s)
             \/ LoseWebhook
    <3>1. UNCHANGED <<w, ent, made>> /\ cancelHooks' \subseteq cancelHooks
      BY <2>3 DEF Join, OpenPage, SaveCard, Age, ClaimAges, LoseWebhook
    <3> QED
      BY <1>a, <3>1, StillMembershipInv
  <2>4. ~\E c \in Cancellers, p \in Phones : CancelStart(c, p)
    BY DEF NoCancellations
  <2> QED
    BY <1>5, <2>1, <2>2, <2>3, <2>4 DEF Requests
<1>6. CASE Failures
  <2>1. CASE \E b \in Sweepers : SweepClaimThrows(b)
    <3>1. PICK b \in Sweepers, s \in Sessions :
            w' = [w EXCEPT ![b] = Local("release", s, None, None)]
      BY <2>1 DEF SweepClaimThrows
    <3>2. b \in Workers /\ UNCHANGED <<ent, made, cancelHooks>>
      BY <2>1 DEF SweepClaimThrows, Workers, Activators
    <3>3. Local("release", s, None, None).pc
            \notin Leaving \cup {"activate", "unplan", "stopArb"}
      BY DEF Local, Leaving
    <3> QED
      BY <1>1, <3>1, <3>2, <3>3
  <2>2. CASE \E a \in Workers : Throw(a)
    <3>1. PICK a \in Workers : Throw(a)
      BY <2>2
    <3>2. w' = [w EXCEPT ![a] = AfterThrow(a)] /\ UNCHANGED <<ent, made, cancelHooks>>
      BY <3>1 DEF Throw
    <3>3. AfterThrow(a).pc \notin Leaving \cup {"activate", "unplan", "stopArb"}
      BY DEF AfterThrow, Done, Idle, Between, Local, Leaving, MembershipInv, NobodyCancels
    <3> QED
      BY <1>1, <3>2, <3>3
  <2>3. ~\E id \in live : ProcessorEnds(id)
    BY DEF ProcessorEnds, Fault, NoCancellations
  <2>4. CASE Crash
    <3>1. \A a \in Activators : w'[a].pc = "idle"
      BY <2>4 DEF Crash, Idle, Local, Workers
    <3>2. UNCHANGED <<ent, made, cancelHooks>>
      BY <2>4 DEF Crash
    <3>3. OneWay' /\ OnePlace'
      BY <1>a, <3>1, <3>2, OneWayKept DEF MembershipInv, Leaving
    <3>4. MembersOnly' /\ NobodyCancels'
      BY <2>4 DEF Crash, Idle, Local, MembershipInv, MembersOnly, Active, NobodyCancels
    <3> QED
      BY <3>3, <3>4 DEF MembershipInv
  <2> QED
    BY <1>6, <2>1, <2>2, <2>3, <2>4 DEF Failures
<1>7. CASE UNCHANGED vars
  BY <1>7, <1>a, StillMembershipInv DEF vars
<1> QED
  BY <1>2, <1>3, <1>4, <1>5, <1>6, <1>7 DEF Next, Progress

LEMMA InitMembershipInv == Init => MembershipInv
<1> SUFFICES ASSUME Init PROVE MembershipInv
  OBVIOUS
<1>1. \A a \in Workers : w[a].pc = "idle"
  BY DEF Init, Idle, Local
<1>2. \A p \in Phones : ent[p].sub = None /\ ent[p].superseded = None
  BY DEF Init, NoMembership
<1>3. \A id \in SubIds : id # None
  BY ConstantsAssumption DEF SubIds
<1>4. \A id \in SubIds : ~Replaced(id) /\ ~Current(id) /\ ~Created(id)
  BY <1>1, <1>2, <1>3 DEF Init, Replaced, Current, Created, Leaving, Workers
<1>5. OneWay
  BY <1>4 DEF OneWay
<1>6. OnePlace
  BY <1>1, <1>2, <1>3 DEF OnePlace, Workers
<1> QED
  BY <1>1, <1>2, <1>5, <1>6 DEF MembershipInv, MembersOnly, NobodyCancels

(* When nobody cancels, an account whose subscription bills is a member,   *)
(* through every failure of an activation: what a late cancellation event  *)
(* names was replaced, and is no longer on any row                         *)
(* (findPhoneByAuthnetSubscriptionId, activateMembership).                 *)
THEOREM BilledAccountsStayMembers ==
  ASSUME NoCancellations
  PROVE  Spec => []BilledAccountsAreMembers
<1>1. Init => TypeInv /\ MembershipInv
  BY InitTypeInv, InitMembershipInv
<1>2. TypeInv /\ MembershipInv /\ [Next]_vars => (TypeInv /\ MembershipInv)'
  BY StepTypeInv, StepMembershipInv
<1>3. TypeInv /\ MembershipInv => BilledAccountsAreMembers
  BY ConstantsAssumption DEF MembershipInv, MembersOnly, BilledAccountsAreMembers,
     TypeInv, TypeOK, SubIds
<1> QED
  BY <1>1, <1>2, <1>3, PTL DEF Spec

(* Both together, as the run CheckoutRaces checks them.                    *)
THEOREM SubscriptionsAreAccounted ==
  ASSUME LateWorkSucceeds, NoCancellations
  PROVE  Spec => []SubscriptionsAccounted
<1>1. SubscriptionsOnRecord /\ OneSubscriptionEach /\ BilledAccountsAreMembers
        => SubscriptionsAccounted
  BY DEF SubscriptionsAccounted
<1> QED
  BY <1>1, SubscriptionsAreOnRecord, BilledAccountsStayMembers, PTL

-----------------------------------------------------------------------------
(* The refinement of Purchases. A step of the payments is allowed by the    *)
(* balances of its checkout, because the activator that takes it is counted *)
(* among the holders and not, or not any more, among those it would weigh   *)
(* against.                                                                 *)

(* A set has more members than a part of it that lacks one.                 *)
LEMMA OneMore ==
  ASSUME NEW S, NEW T, IsFiniteSet(S), T \subseteq S, NEW a \in S, a \notin T
  PROVE  Cardinality(S) \in Nat /\ Cardinality(T) \in Nat
         /\ Cardinality(T) + 1 <= Cardinality(S)
<1>1. IsFiniteSet(T)
  BY FS_Subset
<1>2. IsFiniteSet(T \cup {a}) /\ Cardinality(T \cup {a}) = Cardinality(T) + 1
  BY <1>1, FS_AddElement
<1>3. T \cup {a} \subseteq S
  OBVIOUS
<1>4. Cardinality(T \cup {a}) <= Cardinality(S)
  BY <1>3, FS_Subset
<1> QED
  BY <1>1, <1>2, <1>4, FS_CardinalityType

(* What the balances say to an activator at work on a checkout.             *)
LEMMA AtWork ==
  ASSUME TypeInv, PaymentInv, NEW a \in Activators, w[a].pc \in Holding,
         NEW s \in Sessions, s = w[a].s
  PROVE  /\ charges[s] \in Nat /\ ledger[s] \in Nat /\ aborted[s] \in Nat
         /\ w[a].pc \in Booking => ledger[s] < charges[s]
         /\ w[a].pc \notin Paid =>
               /\ charges[s] <= aborted[s]
               /\ ~Unresolved(s) => charges[s] < ledger[s] + aborted[s]
         /\ w[a].pc \notin Booking =>
               /\ charges[s] <= ledger[s] + aborted[s]
               /\ Unresolved(s) \/ aborted[s] > 0
<1> DEFINE H == Number(s, Holding)
           P == Number(s, Paid)
           B == Number(s, Booking)
<1>1. /\ charges[s] \in Nat /\ ledger[s] \in Nat /\ aborted[s] \in Nat
      /\ Room(s) \in {0, 1} /\ Due(s) = IF Unresolved(s) THEN 1 ELSE 0
  BY Amounts DEF Due
<1>2. /\ IsFiniteSet(Working(s, Holding)) /\ IsFiniteSet(Working(s, Booking))
      /\ H \in Nat /\ P \in Nat /\ B \in Nat /\ B <= P /\ P <= H
  BY StagesCounted DEF PaymentInv
<1>3. a \in Working(s, Holding) /\ Working(s, Booking) \subseteq Working(s, Holding)
      /\ Working(s, Paid) \subseteq Working(s, Holding)
  BY PaidStages DEF Working
<1>4. w[a].pc \in Booking => B >= 1
  <2>1. SUFFICES ASSUME w[a].pc \in Booking PROVE B >= 1
    OBVIOUS
  <2>2. a \in Working(s, Booking)
    BY <2>1 DEF Working
  <2>3. Cardinality({}) + 1 <= Cardinality(Working(s, Booking))
    BY <1>2, <2>2, OneMore
  <2> QED
    BY <2>3, FS_EmptySet DEF Number
<1>5. w[a].pc \notin Paid => P + 1 <= H
  BY <1>2, <1>3, OneMore DEF Number, Working
<1>6. w[a].pc \notin Booking => B + 1 <= H
  BY <1>2, <1>3, OneMore DEF Number, Working
<1>7. /\ ledger[s] + B <= charges[s]
      /\ H + Room(s) + charges[s] <= 1 + aborted[s] + P
      /\ H + Room(s) + charges[s] <= Due(s) + aborted[s] + ledger[s] + B
  BY DEF PaymentInv, Balanced, BookedAfterCharge, AttemptsCovered, BooksCovered
<1> HIDE DEF H, P, B
<1>8. w[a].pc \notin Paid => w[a].pc \notin Booking
  BY PaidStages
<1> QED
  BY <1>1, <1>2, <1>4, <1>5, <1>6, <1>7, <1>8

(* What Purchases sees of a state.                                          *)
Outcome == [s \in Sessions |-> IF status[s] \in {"none", "pending"} THEN "open" ELSE status[s]]
PlanOfAccount == [p \in Phones |-> ent[p].plan]
Quietly == UNCHANGED <<charges, ledger, aborted, Outcome, PlanOfAccount>>

(* Nothing is charged and nobody has a plan yet.                            *)
LEMMA InitImplementsPurchases == Init => Purchase!Init
BY DEF Init, Purchase!Init, NoMembership

(* What leaves the books alone.                                             *)
LEMMA QuietSteps ==
  ASSUME TypeInv,
         \/ Requests /\ UNCHANGED aborted
         \/ \E a \in Activators : CreateArb(a) \/ Retire(a) \/ Clear(a)
         \/ \E b \in Sweepers : \/ SweepStart(b) \/ SweepEnd(b) \/ SweepClaim(b)
                                \/ ReadEntitlement(b) \/ ReadCards(b) \/ Release(b)
         \/ \E c \in Workers : StopArb(c)
         \/ \E id \in live : ProcessorEnds(id)
         \/ UNCHANGED vars
  PROVE  Quietly
<1> USE DEF rows, processor, count
<1>1. CASE UNCHANGED <<status, charges, ledger, aborted, ent>>
  BY <1>1 DEF Quietly, Outcome, PlanOfAccount
<1>2. CASE \E s \in Sessions : Join(s)
  BY <1>2 DEF Join, Quietly, Outcome, PlanOfAccount, TypeInv, TypeOK
<1>3. CASE \E a \in Activators : Clear(a)
  <2>1. PlanOfAccount' = PlanOfAccount
    BY <1>3 DEF Clear, PlanOfAccount, TypeInv, TypeOK, Entitlement
  <2> QED
    BY <1>3, <2>1 DEF Clear, Quietly, Outcome
<1>4. CASE Requests /\ UNCHANGED aborted /\ ~\E s \in Sessions : Join(s)
  BY <1>1, <1>4 DEF Requests, OpenPage, SaveCard, Age, ClaimAges, LoseWebhook,
     CardWebhook, CancelWebhook, CancelStart
<1>5. CASE \E a \in Activators : CreateArb(a) \/ Retire(a)
  BY <1>1, <1>5 DEF CreateArb, Retire
<1>6. CASE \E b \in Sweepers : \/ SweepStart(b) \/ SweepEnd(b) \/ SweepClaim(b)
                               \/ ReadEntitlement(b) \/ ReadCards(b) \/ Release(b)
  BY <1>1, <1>6 DEF SweepStart, SweepEnd, SweepClaim, ReadEntitlement, ReadCards, Release
<1>7. CASE (\E c \in Workers : StopArb(c)) \/ (\E id \in live : ProcessorEnds(id))
  BY <1>1, <1>7 DEF StopArb, ProcessorEnds
<1>8. CASE UNCHANGED vars
  BY <1>1, <1>8 DEF vars
<1> QED
  BY <1>2, <1>3, <1>4, <1>5, <1>6, <1>7, <1>8

(* Purchases does not see such a step.                                      *)
LEMMA QuietIsStutter == Quietly => UNCHANGED Purchase!vars
BY DEF Quietly, Outcome, PlanOfAccount, Purchase!vars

(* What cuts attempts short.                                                *)
LEMMA FaultsAreExcused ==
  ASSUME TypeInv,
         \/ \E s \in Sessions : ClaimAges(s)
         \/ \E b \in Sweepers : SweepClaimThrows(b)
         \/ \E a \in Workers : Throw(a)
         \/ Crash
  PROVE  [Purchase!Next]_(Purchase!vars)
<1> USE DEF rows, processor, count
<1>1. UNCHANGED <<status, charges, ledger, ent>>
  BY DEF ClaimAges, SweepClaimThrows, Throw, Crash
<1>2. CASE UNCHANGED aborted
  BY <1>1, <1>2, QuietIsStutter DEF Quietly, Outcome, PlanOfAccount
<1>3. ASSUME NEW some \in SUBSET Sessions,
             aborted' = [s \in Sessions |-> IF s \in some THEN aborted[s] + 1 ELSE aborted[s]]
      PROVE  Purchase!Next
  BY <1>1, <1>3 DEF Purchase!Next, Purchase!CutShort
<1>4. ASSUME NEW s \in Sessions, aborted' = [aborted EXCEPT ![s] = @ + 1]
      PROVE  Purchase!Next
  <2>1. aborted' = [t \in Sessions |-> IF t \in {s} THEN aborted[t] + 1 ELSE aborted[t]]
    BY <1>4 DEF TypeInv, TypeOK
  <2> QED
    BY <2>1, <1>3
<1>5. CASE Crash
  <2> DEFINE cut == {s \in Sessions : \E a \in Activators : w[a].s = s /\ w[a].pc \in Paid}
  <2>1. aborted' = [s \in Sessions |-> IF s \in cut THEN aborted[s] + 1 ELSE aborted[s]]
    BY <1>5 DEF Crash
  <2> QED
    BY <2>1, <1>3
<1>6. CASE \E s \in Sessions : ClaimAges(s)
  BY <1>2, <1>4, <1>6 DEF ClaimAges
<1>7. CASE \E b \in Sweepers : SweepClaimThrows(b)
  BY <1>4, <1>7 DEF SweepClaimThrows
<1>8. CASE \E a \in Workers : Throw(a)
  <2>1. PICK a \in Workers : Throw(a)
    BY <1>8
  <2>2. w[a].pc \in Paid => w[a].s \in Sessions
    BY DEF TypeInv, SessionKnown, OnSession, Holding
  <2> QED
    BY <1>2, <1>4, <2>1, <2>2 DEF Throw
<1> QED
  BY <1>5, <1>6, <1>7, <1>8

(* The steps of an activation that move the books.                          *)
LEMMA PaymentsImplement ==
  ASSUME TypeInv, PaymentInv, NEW a \in Activators,
         \/ Charge(a) \/ Record(a) \/ Activate(a)
         \/ Decline(a) \/ Complete(a) \/ (a \in Sweepers /\ Resolve(a))
  PROVE  [Purchase!Next]_(Purchase!vars)
<1> USE DEF rows, processor, count
<1>1. w[a].pc \in Holding
  BY DEF Charge, Record, Activate, Decline, Complete, Resolve, Holding, Paid
<1>2. PICK s \in Sessions : s = w[a].s
  BY <1>1 DEF TypeInv, SessionKnown, OnSession, Workers
<1>3. Outcome[s] # "open" <=> ~Unresolved(s)
  BY DEF Outcome, Unresolved, TypeInv, TypeOK
<1>4. CASE Charge(a)
  <2>1. w[a].pc = "charge" /\ UNCHANGED <<status, ledger, aborted, ent>>
    BY <1>4 DEF Charge
  <2>2. CASE UNCHANGED charges
    BY <2>1, <2>2, QuietIsStutter DEF Quietly, Outcome, PlanOfAccount
  <2>3. CASE charges' = [charges EXCEPT ![s] = @ + 1]
    <3>1. /\ charges[s] <= aborted[s]
          /\ Outcome[s] # "open" => charges[s] < ledger[s] + aborted[s]
      BY <1>1, <1>2, <1>3, <2>1, AtWork DEF Paid
    <3> QED
      BY <2>1, <2>3, <3>1 DEF Purchase!Next, Purchase!Charge, Outcome
  <2> QED
    BY <1>2, <1>4, <2>2, <2>3 DEF Charge
<1>5. CASE Record(a)
  <2>1. /\ w[a].pc = "record" /\ UNCHANGED <<status, charges, aborted, ent>>
        /\ ledger' = [ledger EXCEPT ![s] = @ + 1]
    BY <1>2, <1>5 DEF Record
  <2>2. ledger[s] < charges[s]
    BY <1>1, <1>2, <2>1, AtWork DEF Booking
  <2> QED
    BY <2>1, <2>2 DEF Purchase!Next, Purchase!Book
<1>6. CASE Activate(a)
  <2>1. w[a].pc = "activate" /\ UNCHANGED <<status, charges, aborted, ledger>>
    BY <1>6 DEF Activate
  <2>2. ledger[s] < charges[s]
    BY <1>1, <1>2, <2>1, AtWork DEF Booking
  <2>3. PlanOfAccount' = [PlanOfAccount EXCEPT ![Owner[s]] = PlanOf[s]]
    BY <1>2, <1>6, ConstantsAssumption
       DEF Activate, Membership, PlanOfAccount, TypeInv, TypeOK, Entitlement
  <2> QED
    BY <2>1, <2>2, <2>3 DEF Purchase!Next, Purchase!Grant, PlanOfAccount
<1>7. CASE Decline(a) \/ Complete(a) \/ (a \in Sweepers /\ Resolve(a))
  <2>1. PICK as \in {"completed", "failed"} : status' = [status EXCEPT ![s] = as]
    BY <1>2, <1>7 DEF Decline, Complete, Resolve
  <2>2. w[a].pc \in {"decline", "complete", "resolve"}
        /\ UNCHANGED <<charges, ledger, aborted, ent>>
    BY <1>7 DEF Decline, Complete, Resolve
  <2>3. /\ charges[s] <= ledger[s] + aborted[s]
        /\ Outcome[s] = "open" \/ aborted[s] > 0
    BY <1>1, <1>2, <1>3, <2>2, AtWork DEF Booking
  <2>4. Outcome' = [Outcome EXCEPT ![s] = as]
    BY <2>1 DEF Outcome, TypeInv, TypeOK
  <2> QED
    BY <2>2, <2>3, <2>4 DEF Purchase!Next, Purchase!Settle, Outcome
<1> QED
  BY <1>4, <1>5, <1>6, <1>7

(* Every step is one of Purchases, or one it does not see.                  *)
LEMMA NextImplementsPurchases ==
  ASSUME TypeInv, PaymentInv, [Next]_vars
  PROVE  [Purchase!Next]_(Purchase!vars)
<1>1. CASE \E c \in Workers : Unplan(c)
  <2>1. PICK c \in Workers : Unplan(c)
    BY <1>1
  <2>2. UNCHANGED <<status, charges, ledger, aborted>>
    BY <2>1 DEF Unplan, rows, processor, count
  <2>3. PlanOfAccount' = [PlanOfAccount EXCEPT ![w[c].phone] = None]
    BY <2>1 DEF Unplan, PlanOfAccount, TypeInv, TypeOK, Entitlement
  <2>4. CASE w[c].phone \in Phones
    BY <2>2, <2>3, <2>4 DEF Purchase!Next, Purchase!Revoke, PlanOfAccount
  <2>5. CASE w[c].phone \notin Phones
    <3>1. PlanOfAccount' = PlanOfAccount
      BY <2>3, <2>5 DEF PlanOfAccount
    <3> QED
      BY <2>2, <3>1, QuietIsStutter DEF Quietly, Outcome
  <2> QED
    BY <2>4, <2>5
<1>2. CASE Requests
  <2>1. (\E s \in Sessions : ClaimAges(s)) \/ UNCHANGED aborted
    BY <1>2 DEF Requests, Join, OpenPage, SaveCard, Age, LoseWebhook, CardWebhook,
       CancelWebhook, CancelStart, count
  <2> QED
    BY <1>2, <2>1, FaultsAreExcused, QuietSteps, QuietIsStutter
<1>3. CASE \E b \in Sweepers : Resolve(b)
  BY <1>3, PaymentsImplement DEF Activators
<1>4. CASE \E a \in Activators : Charge(a) \/ Record(a) \/ Activate(a) \/ Decline(a) \/ Complete(a)
  <2>1. PICK a \in Activators :
             Charge(a) \/ Record(a) \/ Activate(a) \/ Decline(a) \/ Complete(a)
    BY <1>4
  <2> QED
    BY <2>1, PaymentsImplement
<1>5. CASE \E a \in Activators : CreateArb(a) \/ Retire(a) \/ Clear(a)
  BY <1>5, QuietSteps, QuietIsStutter
<1>6. CASE \E b \in Sweepers : \/ SweepStart(b) \/ SweepEnd(b) \/ SweepClaim(b)
                               \/ ReadEntitlement(b) \/ ReadCards(b) \/ Release(b)
  BY <1>6, QuietSteps, QuietIsStutter
<1>7. CASE \/ \E c \in Workers : StopArb(c)
           \/ \E id \in live : ProcessorEnds(id)
           \/ UNCHANGED vars
  BY <1>7, QuietSteps, QuietIsStutter
<1>8. CASE \/ \E b \in Sweepers : SweepClaimThrows(b)
           \/ \E a \in Workers : Throw(a)
           \/ Crash
  BY <1>8, FaultsAreExcused
<1> QED
  BY <1>1, <1>2, <1>3, <1>4, <1>5, <1>6, <1>7, <1>8
     DEF Next, Progress, ActivationStep, SweepStep, CancelStep, Failures

(* Webhooks, sweeps, cancellations and every failure included, checkouts    *)
(* are charged, booked and settled and plans granted as Purchases says: a   *)
(* second charge, a charge that is not booked and a change of a settled     *)
(* checkout each need an attempt that was cut short                         *)
(* (activateClaimedCheckout, runCheckoutReconciliation).                    *)
THEOREM RefinesPurchases == Spec => ImplementsPurchases
BY InitImplementsPurchases, NextImplementsPurchases, PaymentInvariant, PTL
   DEF Spec, ImplementsPurchases, Purchase!Spec

(* The promise keeps the books by itself: what it allows never charges more *)
(* than what was cut short excuses, and grants no plan for nothing.         *)
Counts == /\ charges \in [Sessions -> Nat] /\ ledger \in [Sessions -> Nat]
          /\ aborted \in [Sessions -> Nat]

LEMMA PromiseStep ==
  ASSUME Counts, Purchase!BooksBalance, [Purchase!Next]_(Purchase!vars)
  PROVE  Counts' /\ Purchase!BooksBalance'
<1> USE DEF Counts, Purchase!BooksBalance
<1>1. ASSUME NEW s \in Sessions, Purchase!Charge(s)
      PROVE  Counts' /\ Purchase!BooksBalance'
  BY <1>1 DEF Purchase!Charge
<1>2. ASSUME NEW s \in Sessions, Purchase!Book(s)
      PROVE  Counts' /\ Purchase!BooksBalance'
  BY <1>2 DEF Purchase!Book
<1>3. ASSUME NEW s \in Sessions, Purchase!Grant(s)
      PROVE  Counts' /\ Purchase!BooksBalance'
  <2>1. UNCHANGED <<charges, ledger, aborted, Outcome>> /\ charges[s] > 0
        /\ PlanOfAccount' = [PlanOfAccount EXCEPT ![Owner[s]] = PlanOf[s]]
    BY <1>3 DEF Purchase!Grant, Outcome, PlanOfAccount
  <2>2. ASSUME NEW p \in Phones, PlanOfAccount'[p] # None
        PROVE  \E t \in Sessions :
                  Owner[t] = p /\ PlanOf[t] = PlanOfAccount'[p] /\ charges'[t] > 0
    <3>1. CASE p = Owner[s]
      <4>1. PlanOfAccount'[p] = PlanOf[s] /\ charges'[s] > 0
        BY <2>1, <3>1 DEF PlanOfAccount
      <4> QED
        BY <3>1, <4>1
    <3>2. CASE p # Owner[s]
      <4>1. PlanOfAccount'[p] = PlanOfAccount[p]
        BY <2>1, <3>2
      <4> QED
        BY <2>1, <2>2, <4>1 DEF PlanOfAccount
    <3> QED
      BY <3>1, <3>2
  <2> QED
    BY <2>1, <2>2 DEF Outcome, PlanOfAccount
<1>4. ASSUME NEW s \in Sessions, NEW as, Purchase!Settle(s, as)
      PROVE  Counts' /\ Purchase!BooksBalance'
  <2>1. /\ UNCHANGED <<charges, ledger, aborted, PlanOfAccount>>
        /\ charges[s] <= ledger[s] + aborted[s]
        /\ Outcome' = [Outcome EXCEPT ![s] = as]
    BY <1>4 DEF Purchase!Settle, Outcome, PlanOfAccount
  <2>2. ASSUME NEW t \in Sessions, Outcome'[t] # "open"
        PROVE  charges'[t] <= ledger'[t] + aborted'[t]
    <3>1. t = s \/ Outcome'[t] = Outcome[t]
      BY <2>1 DEF Outcome
    <3> QED
      BY <2>1, <2>2, <3>1 DEF Outcome
  <2> QED
    BY <2>1, <2>2 DEF Outcome, PlanOfAccount
<1>5. ASSUME NEW p \in Phones, Purchase!Revoke(p)
      PROVE  Counts' /\ Purchase!BooksBalance'
  BY <1>5 DEF Purchase!Revoke
<1>6. ASSUME NEW some \in SUBSET Sessions, Purchase!CutShort(some)
      PROVE  Counts' /\ Purchase!BooksBalance'
  BY <1>6 DEF Purchase!CutShort
<1>7. CASE UNCHANGED Purchase!vars
  BY <1>7 DEF Purchase!vars
<1> QED
  BY <1>1, <1>2, <1>3, <1>4, <1>5, <1>6, <1>7 DEF Purchase!Next

(* What Purchases promises keeps the books balanced, whatever the program   *)
(* below it does (activateClaimedCheckout, runCheckoutReconciliation).      *)
THEOREM PromiseKeepsBooks == ImplementsPurchases => []Purchase!BooksBalance
<1>1. Purchase!Init => Counts /\ Purchase!BooksBalance
  BY DEF Purchase!Init, Counts, Purchase!BooksBalance
<1> QED
  BY <1>1, PromiseStep, PTL DEF ImplementsPurchases, Purchase!Spec

(* So the program never books what it did not charge, owes every charge     *)
(* beyond the first and every unbooked one to an attempt cut short, and     *)
(* lets no account hold a plan that no checkout of it was charged for.      *)
COROLLARY BooksAlwaysBalance == Spec => []Purchase!BooksBalance
BY RefinesPurchases, PromiseKeepsBooks, PTL
=============================================================================
