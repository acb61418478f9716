------------------------------- MODULE Purchases -------------------------------
(* What the checkouts promise customers and books, without the webhooks,    *)
(* sweeps, claims and subscriptions they are made of: a checkout is charged *)
(* once, booked, and settled once with its charge in the ledger; a plan is  *)
(* granted by a checkout that was charged. What goes beyond that is owed to *)
(* attempts that were cut short (whatsapp-agent/src/billing                 *)
(* checkoutReconciliation.ts, entitlementStore.ts).                         *)
EXTENDS Naturals

CONSTANTS Phones, Sessions, Owner, PlanOf, None

VARIABLES
    outcome,    \* of a checkout: "open", "completed" or "failed"
    charged,    \* charges taken for it
    booked,     \* payments of it in the ledger
    plan,       \* of an account, None without one
    excused     \* attempts at a checkout that were cut short

vars == <<outcome, charged, booked, plan, excused>>

Init ==
    /\ outcome = [s \in Sessions |-> "open"]
    /\ charged = [s \in Sessions |-> 0] /\ booked = [s \in Sessions |-> 0]
    /\ plan = [p \in Phones |-> None]
    /\ excused = [s \in Sessions |-> 0]

(* A charge before or beside one that was cut short; of a checkout that is  *)
(* settled, only for one that the ledger will never have.                   *)
Charge(s) ==
    /\ charged[s] <= excused[s]
    /\ outcome[s] # "open" => charged[s] < booked[s] + excused[s]
    /\ charged' = [charged EXCEPT ![s] = @ + 1]
    /\ UNCHANGED <<outcome, booked, plan, excused>>

Book(s) ==
    /\ booked[s] < charged[s]
    /\ booked' = [booked EXCEPT ![s] = @ + 1]
    /\ UNCHANGED <<outcome, charged, plan, excused>>

Settle(s, as) ==
    /\ outcome[s] = "open" \/ excused[s] > 0
    /\ charged[s] <= booked[s] + excused[s]
    /\ outcome' = [outcome EXCEPT ![s] = as]
    /\ UNCHANGED <<charged, booked, plan, excused>>

Grant(s) ==
    /\ booked[s] < charged[s]
    /\ plan' = [plan EXCEPT ![Owner[s]] = PlanOf[s]]
    /\ UNCHANGED <<outcome, charged, booked, excused>>

Revoke(p) ==
    /\ plan' = [plan EXCEPT ![p] = None]
    /\ UNCHANGED <<outcome, charged, booked, excused>>

(* A restart cuts every attempt short at once.                              *)
CutShort(some) ==
    /\ excused' = [s \in Sessions |-> IF s \in some THEN excused[s] + 1 ELSE excused[s]]
    /\ UNCHANGED <<outcome, charged, booked, plan>>

Next ==
    \/ \E s \in Sessions :
          \/ Charge(s) \/ Book(s) \/ Grant(s)
          \/ Settle(s, "completed") \/ Settle(s, "failed")
    \/ \E p \in Phones : Revoke(p)
    \/ \E some \in SUBSET Sessions : CutShort(some)

Spec == Init /\ [][Next]_vars

------------------------------------------------------------------------------

(* What is charged twice, or charged and missing in the ledger of a settled *)
(* checkout, was cut short, and no plan is free.                            *)
BooksBalance ==
    /\ \A s \in Sessions :
          /\ charged[s] <= 1 + excused[s] /\ booked[s] <= charged[s]
          /\ outcome[s] # "open" => charged[s] <= booked[s] + excused[s]
    /\ \A p \in Phones : plan[p] # None =>
          \E s \in Sessions : Owner[s] = p /\ PlanOf[s] = plan[p] /\ charged[s] > 0
=============================================================================
