------------------------- MODULE CheckoutActivation -------------------------
(***************************************************************************)
(* Turning a saved card into a paid membership in whatsapp-agent/billing.  *)
(*                                                                         *)
(* A checkout session is a database row; its card, its charges and its     *)
(* recurring subscriptions live at the payment processor (Authorize.net).  *)
(* Three kinds of asynchronous activity meet on these rows:                *)
(*   Handlers    one invocation of POST /webhook/authorizenet each,        *)
(*   Sweepers    one runCheckoutReconciliation each (boot, timer, admin),  *)
(*   Cancellers  one cancelOwnMembership each (STOP, "fire Fi", block).    *)
(* A step of the model is what runs between two awaits: one SQL statement  *)
(* or one call of the processor.                                           *)
(***************************************************************************)
EXTENDS Integers, FiniteSets

CONSTANTS
    Phones,      \* accounts
    Sessions,    \* checkout sessions, numbered in the order of created_at
    Owner,       \* the phone column of each session (never updated)
    PlanOf,      \* the plan column of each session (never updated)
    Plans,       \* membership tiers
    Handlers, Sweepers, Cancellers,
    SweepLimit,  \* the LIMIT of findStalePendingCheckouts
    Faults,      \* which of the things that can go wrong do go wrong
    MaxFaults,   \* how many of them may happen in one behaviour
    None         \* SQL NULL, an unset local variable

Activators == Handlers \cup Sweepers
Workers == Activators \cup Cancellers

(* The calls that may throw are named by the step that makes them; the     *)
(* other faults are a claim statement that throws, a claim that outlives   *)
(* its holder's patience, a webhook delivered twice, a restart of the      *)
(* process, and a subscription the processor ends by itself.               *)
Throwing == {"entitle", "resolve", "cards", "charge", "decline", "arb",
             "activate", "record", "complete", "retire", "clear", "stopArb"}
FaultKinds == Throwing \cup {"claim", "slow", "dup", "crash", "ends"}

ASSUME ConstantsAssumption ==
    /\ Sessions \subseteq Nat /\ IsFiniteSet(Sessions)
    /\ Owner \in [Sessions -> Phones]
    /\ PlanOf \in [Sessions -> Plans]
    /\ Handlers \cap Sweepers = {}
    /\ Activators \cap Cancellers = {}
    /\ SweepLimit \in Nat
    /\ Faults \subseteq FaultKinds
    /\ MaxFaults \in Nat
    /\ None \notin Plans /\ None \notin Sessions /\ None \notin Phones
    /\ None \notin Sessions \X Nat

VARIABLES
    \* checkout_sessions
    status,      \* "none" until the row is inserted
    page,        \* authnet_customer_profile_id is set: /pay/:id was opened
    old,         \* created_at is further back than minAgeMinutes
    claim,       \* claimed_at: NULL, recent, or older than the stale window
    \* account_entitlements and billing_ledger
    ent,
    ledger,      \* membership_payment rows, by the session they pay for
    \* the payment processor
    card,        \* a payment profile is saved for the session's profile
    charges,     \* month-1 charges taken for a session
    made,        \* subscriptions created for a session
    live,        \* subscriptions that are still billing
    cardHooks, cancelHooks,   \* webhooks on their way
    \* the process
    w,           \* the local state of every worker
    todo,        \* each sweeper's list of stale checkouts, yet to be visited
    \* bookkeeping
    faults,      \* faults so far
    aborted      \* attempts at a session cut short after money moved, and
                 \* claims on it that faults may have cost their holders

rows == <<status, page, old, claim>>
processor == <<card, charges, made, live, cardHooks, cancelHooks>>
count == <<faults, aborted>>
vars == <<rows, ent, ledger, processor, w, todo, count>>

SubIds == Sessions \X Nat
Local(pc, s, sub, phone) == [pc |-> pc, s |-> s, sub |-> sub, phone |-> phone]
Idle == Local("idle", None, None, None)
Between == Local("next", None, None, None)

NoMembership == [plan |-> None, canceled |-> FALSE, sub |-> None,
                 superseded |-> None]

Init ==
    /\ status = [s \in Sessions |-> "none"]
    /\ page = [s \in Sessions |-> FALSE]
    /\ old = [s \in Sessions |-> FALSE]
    /\ claim = [s \in Sessions |-> "free"]
    /\ ent = [p \in Phones |-> NoMembership]
    /\ ledger = [s \in Sessions |-> 0]
    /\ card = [s \in Sessions |-> FALSE]
    /\ charges = [s \in Sessions |-> 0]
    /\ made = [s \in Sessions |-> 0]
    /\ live = {}
    /\ cardHooks = {}
    /\ cancelHooks = {}
    /\ w = [a \in Workers |-> Idle]
    /\ todo = [b \in Sweepers |-> {}]
    /\ faults = 0
    /\ aborted = [s \in Sessions |-> 0]

-----------------------------------------------------------------------------
(* Faults, claims, and who holds one.                                      *)

Fault(kind) ==
    /\ kind \in Faults
    /\ faults < MaxFaults
    /\ faults' = faults + 1

(* The steps an activator takes between winning a claim and giving it up.  *)
Paid == {"arb", "activate", "record", "complete"}
Holding == {"entitle", "resolve", "cards", "charge", "decline", "release"}
             \cup Paid

Holds(a, s) == w[a].s = s /\ w[a].pc \in Holding
Held(s) == \E a \in Activators : Holds(a, s)

(* Variant: the read-then-act check the claim replaced.                    *)
ClaimableStatusOnly(s) == status[s] = "pending"

(* Variant: no stale window, a dead claim strands its checkout.            *)
ClaimableFreeOnly(s) == status[s] = "pending" /\ claim[s] = "free"

Claimable(s) == status[s] = "pending" /\ claim[s] # "fresh"

(* The worker's next local state when its handler or loop body ends.       *)
Done(a) == IF a \in Sweepers THEN Between ELSE Idle

Goto(a, pc) == w' = [w EXCEPT ![a] = Local(pc, w[a].s, w[a].sub, w[a].phone)]
Return(a) == w' = [w EXCEPT ![a] = Done(a)]

-----------------------------------------------------------------------------
(* The customer, the clock and the network.                                *)

Join(s) ==
    /\ status[s] = "none"
    /\ \A t \in Sessions : t < s => status[t] # "none"
    /\ status' = [status EXCEPT ![s] = "pending"]
    /\ UNCHANGED <<page, old, claim, ent, ledger, processor, w, todo, count>>

OpenPage(s) ==
    /\ status[s] = "pending" /\ ~page[s]
    /\ page' = [page EXCEPT ![s] = TRUE]
    /\ UNCHANGED <<status, old, claim, ent, ledger, processor, w, todo, count>>

SaveCard(s) ==
    /\ page[s] /\ ~card[s]
    /\ card' = [card EXCEPT ![s] = TRUE]
    /\ cardHooks' = cardHooks \cup {s}
    /\ UNCHANGED <<rows, ent, ledger, charges, made, live, cancelHooks,
                   w, todo, count>>

Age(s) ==
    /\ status[s] = "pending" /\ ~old[s]
    /\ \A t \in Sessions : t < s => status[t] # "pending" \/ old[t]
    /\ old' = [old EXCEPT ![s] = TRUE]
    /\ UNCHANGED <<status, page, claim, ent, ledger, processor, w, todo, count>>

(* A claim outlives the stale window only when nobody is working under it: *)
(* the window is longer than an activation takes, unless one is "slow".    *)
ClaimAges(s) ==
    /\ status[s] = "pending" /\ claim[s] = "fresh"
    /\ \/ ~Held(s) /\ UNCHANGED count
       \/ Held(s) /\ Fault("slow") /\ aborted' = [aborted EXCEPT ![s] = @ + 1]
    /\ claim' = [claim EXCEPT ![s] = "stale"]
    /\ UNCHANGED <<status, page, old, ent, ledger, processor, w, todo>>

LoseWebhook ==
    /\ \/ \E s \in cardHooks :
             cardHooks' = cardHooks \ {s} /\ UNCHANGED cancelHooks
       \/ \E id \in cancelHooks :
             cancelHooks' = cancelHooks \ {id} /\ UNCHANGED cardHooks
    /\ UNCHANGED <<rows, ent, ledger, card, charges, made, live, w, todo, count>>

ProcessorEnds(id) ==
    /\ id \in live
    /\ Fault("ends")
    /\ live' = live \ {id}
    /\ cancelHooks' = cancelHooks \cup {id}
    /\ UNCHANGED <<rows, ent, ledger, card, charges, made, cardHooks,
                   w, todo, aborted>>

-----------------------------------------------------------------------------
(* handleAuthorizeNetWebhookEvent.                                         *)

(* The event leaves the network, or stays in it to be delivered again.     *)
Consumed(hooks, event, left) ==
    \/ left = hooks \ {event} /\ UNCHANGED faults
    \/ left = hooks /\ Fault("dup")

(* paymentProfile.created: the claim is won and the charge comes next, or  *)
(* it is not and the event is dropped.  No look at the entitlement.        *)
CardWebhook(h, s) ==
    /\ w[h].pc = "idle" /\ s \in cardHooks
    /\ Consumed(cardHooks, s, cardHooks')
    /\ \/ /\ Claimable(s)
          /\ claim' = [claim EXCEPT ![s] = "fresh"]
          /\ w' = [w EXCEPT ![h] = Local("charge", s, None, None)]
       \/ ~Claimable(s) /\ UNCHANGED <<claim, w>>
    /\ UNCHANGED <<status, page, old, ent, ledger, card, charges, made, live,
                   cancelHooks, todo, aborted>>

(* findPhoneByAuthnetSubscriptionId.                                       *)
Bills(p, id) == ent[p].sub = id

(* subscription suspended, cancelled, terminated: first the phone whose    *)
(* row names this subscription, then (Unplan) the plan of that phone.      *)
CancelWebhook(h, id) ==
    /\ w[h].pc = "idle" /\ id \in cancelHooks
    /\ Consumed(cancelHooks, id, cancelHooks')
    /\ \/ \E p \in Phones :
             /\ Bills(p, id)
             /\ w' = [w EXCEPT ![h] = Local("unplan", None, None, p)]
       \/ (\A p \in Phones : ~Bills(p, id)) /\ UNCHANGED w
    /\ UNCHANGED <<rows, ent, ledger, card, charges, made, live, cardHooks,
                   todo, aborted>>

-----------------------------------------------------------------------------
(* runCheckoutReconciliation.                                              *)

Swept(s) == status[s] = "pending" /\ page[s] /\ old[s]

(* findStalePendingCheckouts: the SweepLimit oldest.                       *)
Listed == {s \in Sessions :
             /\ Swept(s)
             /\ Cardinality({t \in Sessions : Swept(t) /\ t <= s}) <= SweepLimit}

SweepStart(b) ==
    /\ w[b].pc = "idle" /\ Listed # {}
    /\ todo' = [todo EXCEPT ![b] = Listed]
    /\ w' = [w EXCEPT ![b] = Between]
    /\ UNCHANGED <<rows, ent, ledger, processor, count>>

SweepEnd(b) ==
    /\ w[b].pc = "next" /\ todo[b] = {}
    /\ w' = [w EXCEPT ![b] = Idle]
    /\ UNCHANGED <<rows, ent, ledger, processor, todo, count>>

IsNext(b, s) == s \in todo[b] /\ \A t \in todo[b] : s <= t

SweepClaim(b) == \E s \in Sessions :
    /\ w[b].pc = "next" /\ IsNext(b, s)
    /\ todo' = [todo EXCEPT ![b] = @ \ {s}]
    /\ \/ /\ Claimable(s)
          /\ claim' = [claim EXCEPT ![s] = "fresh"]
          /\ w' = [w EXCEPT ![b] = Local("entitle", s, None, None)]
       \/ ~Claimable(s) /\ UNCHANGED <<claim, w>>
    /\ UNCHANGED <<status, page, old, ent, ledger, processor, count>>

(* The claim statement itself throws: the loop's catch releases the        *)
(* candidate's claim, which this sweep may never have held.                *)
SweepClaimThrows(b) == \E s \in Sessions :
    /\ w[b].pc = "next" /\ IsNext(b, s)
    /\ Fault("claim")
    /\ todo' = [todo EXCEPT ![b] = @ \ {s}]
    /\ w' = [w EXCEPT ![b] = Local("release", s, None, None)]
    /\ aborted' = [aborted EXCEPT ![s] = @ + 1]
    /\ UNCHANGED <<rows, ent, ledger, processor>>

Active(p) == ent[p].plan # None /\ ~ent[p].canceled

(* An account with an active plan has its session resolved uncharged.      *)
AfterEntitlement(s) == IF Active(Owner[s]) THEN "resolve" ELSE "cards"

ReadEntitlement(b) ==
    /\ w[b].pc = "entitle"
    /\ Goto(b, AfterEntitlement(w[b].s))
    /\ UNCHANGED <<rows, ent, ledger, processor, todo, count>>

Resolve(b) ==
    /\ w[b].pc = "resolve"
    /\ status' = [status EXCEPT ![w[b].s] = "completed"]
    /\ Return(b)
    /\ UNCHANGED <<page, old, claim, ent, ledger, processor, todo, count>>

ReadCards(b) ==
    /\ w[b].pc = "cards"
    /\ Goto(b, IF card[w[b].s] THEN "charge" ELSE "release")
    /\ UNCHANGED <<rows, ent, ledger, processor, todo, count>>

(* releaseCheckoutSessionClaim, whoever holds the claim.                   *)
Release(b) ==
    /\ w[b].pc = "release"
    /\ claim' = IF status[w[b].s] = "pending"
                THEN [claim EXCEPT ![w[b].s] = "free"] ELSE claim
    /\ Return(b)
    /\ UNCHANGED <<status, page, old, ent, ledger, processor, todo, count>>

-----------------------------------------------------------------------------
(* activateClaimedCheckout, shared by the webhook and the sweep.           *)

Charge(a) ==
    /\ w[a].pc = "charge"
    /\ \/ /\ charges' = [charges EXCEPT ![w[a].s] = @ + 1]
          /\ Goto(a, "arb")
       \/ Goto(a, "decline") /\ UNCHANGED charges
    /\ UNCHANGED <<rows, ent, ledger, card, made, live, cardHooks, cancelHooks,
                   todo, count>>

(* Variant: a status the table's CHECK constraint does not admit.          *)
DeclineByName(a) ==
    /\ w[a].pc = "decline"
    /\ status' = [status EXCEPT ![w[a].s] = "declined"]
    /\ Return(a)
    /\ UNCHANGED <<page, old, claim, ent, ledger, processor, todo, count>>

Decline(a) ==
    /\ w[a].pc = "decline"
    /\ status' = [status EXCEPT ![w[a].s] = "failed"]
    /\ Return(a)
    /\ UNCHANGED <<page, old, claim, ent, ledger, processor, todo, count>>

CreateArb(a) == LET s == w[a].s id == <<s, made[s] + 1>> IN
    /\ w[a].pc = "arb"
    /\ made' = [made EXCEPT ![s] = @ + 1]
    /\ live' = live \cup {id}
    /\ w' = [w EXCEPT ![a] = Local("activate", s, id, None)]
    /\ UNCHANGED <<rows, ent, ledger, card, charges, cardHooks, cancelHooks,
                   todo, count>>

(* Variant: the replaced subscription is not captured.                     *)
SupersededByLost(e, id) == e.superseded

(* superseded_subscription_id as the upsert of activateMembership sets it. *)
SupersededBy(e, id) ==
    IF e.sub # None /\ e.sub # id THEN e.sub ELSE e.superseded

Membership(e, s, id) ==
    [plan |-> PlanOf[s], canceled |-> FALSE, sub |-> id,
     superseded |-> SupersededBy(e, id)]

Activate(a) == LET s == w[a].s p == Owner[s]
                   new == Membership(ent[p], s, w[a].sub) IN
    /\ w[a].pc = "activate"
    /\ ent' = [ent EXCEPT ![p] = new]
    /\ w' = [w EXCEPT ![a] = Local("record", s, new.superseded, None)]
    /\ UNCHANGED <<rows, ledger, processor, todo, count>>

(* Variant: only the webhook's copy of the activation books the payment.   *)
RecordByWebhookOnly(a) ==
    /\ w[a].pc = "record"
    /\ ledger' = IF a \in Handlers THEN [ledger EXCEPT ![w[a].s] = @ + 1] ELSE ledger
    /\ Goto(a, "complete")
    /\ UNCHANGED <<rows, ent, processor, todo, count>>

(* recordMembershipPayment.                                                *)
Record(a) ==
    /\ w[a].pc = "record"
    /\ ledger' = [ledger EXCEPT ![w[a].s] = @ + 1]
    /\ Goto(a, "complete")
    /\ UNCHANGED <<rows, ent, processor, todo, count>>

(* Variant: the session is left pending after a successful activation.     *)
CompleteUnmarked(a) ==
    /\ w[a].pc = "complete"
    /\ IF w[a].sub = None THEN Return(a) ELSE Goto(a, "retire")
    /\ UNCHANGED <<rows, ent, ledger, processor, todo, count>>

Complete(a) ==
    /\ w[a].pc = "complete"
    /\ status' = [status EXCEPT ![w[a].s] = "completed"]
    /\ IF w[a].sub = None THEN Return(a) ELSE Goto(a, "retire")
    /\ UNCHANGED <<page, old, claim, ent, ledger, processor, todo, count>>

(* cancelArbSubscription: the processor stops billing and tells the        *)
(* webhook; cancelling a subscription that has ended is a success.         *)
CancelArb(id) ==
    /\ live' = live \ {id}
    /\ cancelHooks' = IF id \in live THEN cancelHooks \cup {id} ELSE cancelHooks

Retire(a) ==
    /\ w[a].pc = "retire"
    /\ CancelArb(w[a].sub)
    /\ Goto(a, "clear")
    /\ UNCHANGED <<rows, ent, ledger, card, charges, made, cardHooks,
                   todo, count>>

(* clearSupersededSubscription, whatever the column names by now.          *)
Clear(a) ==
    /\ w[a].pc = "clear"
    /\ ent' = [ent EXCEPT ![Owner[w[a].s]].superseded = None]
    /\ Return(a)
    /\ UNCHANGED <<rows, ledger, processor, todo, count>>

-----------------------------------------------------------------------------
(* cancelOwnMembership.                                                    *)

CancelStart(c, p) ==
    /\ w[c].pc = "idle"
    /\ w' = [w EXCEPT ![c] =
               Local(IF ent[p].sub = None THEN "unplan" ELSE "stopArb",
                     None, ent[p].sub, p)]
    /\ UNCHANGED <<rows, ent, ledger, processor, todo, count>>

StopArb(c) ==
    /\ w[c].pc = "stopArb"
    /\ CancelArb(w[c].sub)
    /\ w' = [w EXCEPT ![c] = Local("unplan", None, None, w[c].phone)]
    /\ UNCHANGED <<rows, ent, ledger, card, charges, made, cardHooks,
                   todo, count>>

(* cancelMembership, for a canceller and for a cancellation webhook.       *)
Unplan(a) ==
    /\ w[a].pc = "unplan"
    /\ ent' = [ent EXCEPT ![w[a].phone].plan = None, ![w[a].phone].canceled = TRUE]
    /\ w' = [w EXCEPT ![a] = Idle]
    /\ UNCHANGED <<rows, ledger, processor, todo, count>>

-----------------------------------------------------------------------------
(* A call throws without effect; one whose effect happened and whose       *)
(* answer was lost is the step itself, followed by a throw of the next     *)
(* call.  Retiring never throws to its caller; a failed ARB                *)
(* cancellation still clears the plan; a handler only logs and keeps its   *)
(* claim; a sweep's catch releases the claim.                              *)
AfterThrow(a) ==
    IF w[a].pc \in {"retire", "clear"} THEN Done(a)
    ELSE IF w[a].pc = "stopArb" THEN Local("unplan", None, None, w[a].phone)
    ELSE IF a \in Sweepers THEN Local("release", w[a].s, None, None)
    ELSE Idle

Throw(a) ==
    /\ w[a].pc \in Throwing
    /\ Fault(w[a].pc)
    /\ w' = [w EXCEPT ![a] = AfterThrow(a)]
    /\ aborted' = IF w[a].pc \in Paid
                  THEN [aborted EXCEPT ![w[a].s] = @ + 1] ELSE aborted
    /\ UNCHANGED <<rows, ent, ledger, processor, todo>>

(* The process restarts: what only memory held is gone.                    *)
Crash ==
    /\ Fault("crash")
    /\ w' = [a \in Workers |-> Idle]
    /\ todo' = [b \in Sweepers |-> {}]
    /\ aborted' = [s \in Sessions |->
         IF \E a \in Activators : w[a].s = s /\ w[a].pc \in Paid
         THEN aborted[s] + 1 ELSE aborted[s]]
    /\ UNCHANGED <<rows, ent, ledger, processor>>

-----------------------------------------------------------------------------
ActivationStep(a) ==
    \/ Charge(a) \/ Decline(a) \/ CreateArb(a) \/ Activate(a)
    \/ Record(a) \/ Complete(a) \/ Retire(a) \/ Clear(a)

SweepStep(b) ==
    \/ SweepStart(b) \/ SweepEnd(b) \/ SweepClaim(b) \/ ReadEntitlement(b)
    \/ Resolve(b) \/ ReadCards(b) \/ Release(b)

CancelStep(c) == StopArb(c) \/ Unplan(c)

Progress ==
    \/ \E a \in Activators : ActivationStep(a)
    \/ \E b \in Sweepers : SweepStep(b)
    \/ \E c \in Workers : CancelStep(c)

Requests ==
    \/ \E s \in Sessions : Join(s) \/ OpenPage(s) \/ SaveCard(s)
                             \/ Age(s) \/ ClaimAges(s)
    \/ LoseWebhook
    \/ \E h \in Handlers, s \in Sessions : CardWebhook(h, s)
    \/ \E h \in Handlers, id \in cancelHooks : CancelWebhook(h, id)
    \/ \E c \in Cancellers, p \in Phones : CancelStart(c, p)

Failures ==
    \/ \E b \in Sweepers : SweepClaimThrows(b)
    \/ \E a \in Workers : Throw(a)
    \/ \E id \in live : ProcessorEnds(id)
    \/ Crash

Next == Progress \/ Requests \/ Failures

Spec == Init /\ [][Next]_vars

(* A started asynchronous function goes on, the sweep's timer keeps        *)
(* firing, and time passes.  Nothing is assumed of customers or webhooks.  *)
Fairness ==
    /\ \A a \in Handlers : WF_vars(ActivationStep(a) \/ CancelStep(a))
    /\ \A b \in Sweepers : WF_vars(ActivationStep(b) \/ SweepStep(b))
    /\ \A c \in Cancellers : WF_vars(CancelStep(c))
    /\ \A s \in Sessions : WF_vars(Age(s)) /\ WF_vars(ClaimAges(s))

FairSpec == Spec /\ Fairness

-----------------------------------------------------------------------------
(* Properties.                                                             *)

Stages == {"idle", "next", "unplan", "release"} \cup Throwing
WorkerState == [pc : Stages, s : Sessions \cup {None},
                sub : SubIds \cup {None}, phone : Phones \cup {None}]
Entitlement == [plan : Plans \cup {None}, canceled : BOOLEAN,
                sub : SubIds \cup {None}, superseded : SubIds \cup {None}]

(* Every row, every local variable and every counter keeps its type, and   *)
(* a worker between a claim and its release knows its session.             *)
TypeOK ==
    /\ status \in [Sessions -> {"none", "pending", "completed", "failed"}]
    /\ page \in [Sessions -> BOOLEAN]
    /\ old \in [Sessions -> BOOLEAN]
    /\ claim \in [Sessions -> {"free", "fresh", "stale"}]
    /\ ent \in [Phones -> Entitlement]
    /\ ledger \in [Sessions -> Nat]
    /\ card \in [Sessions -> BOOLEAN]
    /\ charges \in [Sessions -> Nat]
    /\ made \in [Sessions -> Nat]
    /\ live \subseteq SubIds
    /\ cardHooks \subseteq Sessions
    /\ cancelHooks \subseteq SubIds
    /\ w \in [Workers -> WorkerState]
    /\ todo \in [Sweepers -> SUBSET Sessions]
    /\ faults \in 0..MaxFaults
    /\ aborted \in [Sessions -> Nat]

(* At most one webhook handler or sweep works on a checkout at a time:     *)
(* "exactly one wins" the claim, and nobody else gives it up.              *)
ExclusiveActivation ==
    \A s \in Sessions : \A a, b \in Activators :
        Holds(a, s) /\ Holds(b, s) => a = b

(* Concurrency alone never charges a customer twice: a second charge of a  *)
(* checkout needs another attempt that was cut short after its charge, or  *)
(* whose claim expired or was given up by a sweep that never had it.       *)
ChargesAccounted == \A s \in Sessions : charges[s] <= 1 + aborted[s]

(* "Every step is guarded so a sweep can never charge twice."              *)
NoDoubleCharge == \A s \in Sessions : charges[s] <= 1

(* A completed or failed checkout keeps its outcome and is never charged   *)
(* again, though markCheckoutSessionStatus asks for no particular status.  *)
OutcomeFinal ==
    [][\A s \in Sessions : status[s] \in {"completed", "failed"} =>
          status'[s] = status[s] /\ charges'[s] = charges[s]]_vars

(* Every charge ends up in billing_ledger: never booked before it is       *)
(* taken, and all booked once the checkout is completed, the attempts that *)
(* were cut short excepted.                                                *)
ChargesBooked == \A s \in Sessions :
    /\ ledger[s] <= charges[s]
    /\ status[s] = "completed" => charges[s] <= ledger[s] + aborted[s]

Inhand(id) == \E a \in Workers : w[a].sub = id

(* No subscription goes on billing unknown to Fi: it is on its owner's row *)
(* as the current or the superseded one, or a running call still has it.   *)
SubscriptionsOnRecord == \A id \in live :
    LET e == ent[Owner[id[1]]] IN
    e.sub = id \/ e.superseded = id \/ Inhand(id)

Quiet(p) == \A a \in Workers :
    w[a].phone # p /\ (w[a].s = None \/ Owner[w[a].s] # p)

(* An account whose current subscription bills every month has a plan,     *)
(* once the calls that concern it have returned.                           *)
BilledAccountsAreMembers == \A p \in Phones :
    Quiet(p) /\ ent[p].sub \in live => Active(p)

(* Once nothing concerning an account runs and no fault happened, it pays  *)
(* one subscription at most: an upgrade retires what it replaced.          *)
OneSubscriptionEach == \A p \in Phones :
    Quiet(p) => Cardinality({id \in live : Owner[id[1]] = p}) <= 1

(* A plan is never granted without a charge for that very plan.            *)
PlansArePaidFor == \A p \in Phones : ent[p].plan # None =>
    \E s \in Sessions : Owner[s] = p /\ PlanOf[s] = ent[p].plan /\ charges[s] > 0

(* Concurrent activations, cancellations and late events leave no account  *)
(* paying unseen, without a plan, or twice (activateMembership,            *)
(* retireSupersededSubscription).                                          *)
SubscriptionsAccounted ==
    SubscriptionsOnRecord /\ BilledAccountsAreMembers /\ OneSubscriptionEach

(* Whatever fails on the way, charges, ledger and plans agree              *)
(* (activateClaimedCheckout, recordMembershipPayment).                     *)
PaymentsAccounted == ChargesAccounted /\ ChargesBooked /\ PlansArePaidFor

(* Refinement: whatever webhooks, sweeps, cancellations and failures do, a  *)
(* checkout is charged, booked and settled and plans are granted as         *)
(* Purchases says, step by step (activateClaimedCheckout,                   *)
(* markCheckoutSessionStatus, recordMembershipPayment).                     *)
Purchase == INSTANCE Purchases WITH
    outcome <- [s \in Sessions |-> IF status[s] \in {"none", "pending"}
                                   THEN "open" ELSE status[s]],
    charged <- charges,
    booked <- ledger,
    plan <- [p \in Phones |-> ent[p].plan],
    excused <- aborted
ImplementsPurchases == Purchase!Spec

(* A customer who saved a card sees the checkout resolved, whatever        *)
(* happens to the webhook and through finitely many failures.              *)
SavedCardResolved == \A s \in Sessions :
    (card[s] /\ status[s] = "pending") ~> (status[s] \in {"completed", "failed"})

=============================================================================
