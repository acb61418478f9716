---------------------------- MODULE ApprovalUsage ----------------------------
(***************************************************************************)
(* How many more introductions an account of the agent may ask for, in     *)
(* whatsapp-agent/src/postings/approvalUsage.ts.                           *)
(*                                                                         *)
(* Two flows spend the same allowance.  A reply to a match card runs       *)
(* approveMatch, one transaction that holds the account's row (see         *)
(* AgentMatching, which uses RecordApproval).  A reply to a list of search *)
(* results runs handleDecision of the conversation: it reads the usage,    *)
(* and then records the approval with one autocommitted statement after    *)
(* another.  Calls of the conversation queue up per phone, those of the    *)
(* match cards do not; here every account has one phone.                   *)
(***************************************************************************)
EXTENDS Integers, FiniteSets

CONSTANTS
    Users,
    Members,      \* accounts with a plan and a search to decide on
    Entitlements, \* what their plans may be
    Trial,        \* config.trial.maxApprovedMatches
    Grant,        \* tasks_granted to each account by the returning campaign
    WeeklyLimit,  \* of the capped plans
    Bounds        \* the bounds a behaviour may be under: how many edits,
                  \* calls, sweeps, changes of switches, faults and results

Bounded == {"edits", "calls", "sweeps", "changes", "faults", "results", "failed"}
Endless == 99     \* sweeps that are not counted
Plans == {"none", "weekly", "unlimited", "override"}

ASSUME UsageAssumption ==
    /\ Members \subseteq Users /\ Entitlements \subseteq Plans
    /\ Trial \in Nat /\ WeeklyLimit \in Nat \ {0}
    /\ Grant \in [Users -> Nat]
    /\ Bounds \subseteq [Bounded -> Nat]

VARIABLES
    approvals,   \* rows of approvals for a match: pairs of match and account
    free,        \* rows of approvals with is_complimentary, by account
    weekly,      \* the other rows, of the last seven days
    ledger,      \* rows of billing_ledger with amount 0, by account
    total,       \* canonical_users.total_approved_count
    tasksUsed,   \* fi_returning_promotions.tasks_used
    plan,        \* account_entitlements
    userLock,    \* canonical_users rows held by a transaction
    undecided,   \* results of the last search still pending
    search,      \* handleDecision at work for each account
    left         \* what may still happen of it, and the faults so far

usage == <<approvals, free, weekly, ledger, total, tasksUsed>>
searching == <<undecided, search>>
faults == left.failed

Left(x) == left[x] > 0
Spend(x) ==
    /\ Left(x)
    /\ left' = [left EXCEPT ![x] = @ - 1, !.failed = IF x = "faults" THEN @ + 1 ELSE @]

-----------------------------------------------------------------------------
(* The gate: evaluateApprovalGate on a getApprovalUsage snapshot, and the  *)
(* same conditions in approveMatch.                                        *)

Paying(u) == plan[u] \in {"weekly", "unlimited"}
IsComplimentary(u) == total[u] < Trial \/ tasksUsed[u] < Grant[u]

Allows(entitlement, comp, used) ==
    \/ comp
    \/ entitlement \in {"unlimited", "override"}
    \/ entitlement = "weekly" /\ used < WeeklyLimit

(* (Defect: the account's counter is left alone.)                          *)
RecordApprovalUncounted(m, u, comp) ==
    /\ approvals' = approvals \cup {<<m, u>>}
    /\ free' = IF comp THEN [free EXCEPT ![u] = @ + 1] ELSE free
    /\ weekly' = IF comp THEN weekly ELSE [weekly EXCEPT ![u] = @ + 1]
    /\ ledger' = [ledger EXCEPT ![u] = @ + 1]
    /\ tasksUsed' = IF comp /\ tasksUsed[u] < Grant[u]
                    THEN [tasksUsed EXCEPT ![u] = @ + 1] ELSE tasksUsed
    /\ total' = total

(* recordApprovalEvent for a match, inside a transaction.                  *)
RecordApproval(m, u, comp) ==
    IF <<m, u>> \in approvals THEN UNCHANGED usage
    ELSE /\ approvals' = approvals \cup {<<m, u>>}
         /\ free' = IF comp THEN [free EXCEPT ![u] = @ + 1] ELSE free
         /\ weekly' = IF comp THEN weekly ELSE [weekly EXCEPT ![u] = @ + 1]
         /\ ledger' = [ledger EXCEPT ![u] = @ + 1]
         /\ total' = [total EXCEPT ![u] = @ + 1]
         /\ tasksUsed' = IF comp /\ tasksUsed[u] < Grant[u]
                         THEN [tasksUsed EXCEPT ![u] = @ + 1] ELSE tasksUsed

-----------------------------------------------------------------------------
(* handleDecision for a search result: recordApprovalEventForPhone.  The   *)
(* foreign keys of the inserted rows, and the UPDATE, wait for userLock.   *)

NotSearching == [pc |-> "idle", comp |-> FALSE]
Doing(u, pc) == search[u].pc = pc
Proceed(u, pc) == search' = [search EXCEPT ![u].pc = pc]
Waits(u) == u \in userLock

Ask(u) ==
    /\ Doing(u, "idle") /\ undecided[u] > 0
    /\ Allows(plan[u], IsComplimentary(u), weekly[u])
    /\ search' = [search EXCEPT ![u] = [pc |-> "insert", comp |-> IsComplimentary(u)]]
    /\ UNCHANGED <<usage, plan, userLock, undecided, left>>

(* (Defect: a second reply is not queued behind the first.)                *)
SearchPassUnqueued(u) ==
    /\ undecided[u] > 0
    /\ undecided' = [undecided EXCEPT ![u] = @ - 1]
    /\ UNCHANGED <<usage, plan, userLock, search, left>>

SearchPass(u) ==
    /\ Doing(u, "idle") /\ undecided[u] > 0
    /\ undecided' = [undecided EXCEPT ![u] = @ - 1]
    /\ UNCHANGED <<usage, plan, userLock, search, left>>

InsertApproval(u) ==
    /\ Doing(u, "insert") /\ ~Waits(u)
    /\ IF search[u].comp
       THEN free' = [free EXCEPT ![u] = @ + 1] /\ UNCHANGED weekly
       ELSE weekly' = [weekly EXCEPT ![u] = @ + 1] /\ UNCHANGED free
    /\ Proceed(u, "ledger")
    /\ UNCHANGED <<approvals, ledger, total, tasksUsed, plan, userLock, undecided, left>>

InsertLedger(u) ==
    /\ Doing(u, "ledger") /\ ~Waits(u)
    /\ ledger' = [ledger EXCEPT ![u] = @ + 1]
    /\ Proceed(u, "count")
    /\ UNCHANGED <<approvals, free, weekly, total, tasksUsed, plan, userLock, undecided, left>>

CountApproval(u) ==
    /\ Doing(u, "count") /\ ~Waits(u)
    /\ total' = [total EXCEPT ![u] = @ + 1]
    /\ Proceed(u, IF search[u].comp THEN "task" ELSE "decide")
    /\ UNCHANGED <<approvals, free, weekly, ledger, tasksUsed, plan, userLock, undecided, left>>

UseTask(u) ==
    /\ Doing(u, "task")
    /\ tasksUsed' = IF tasksUsed[u] < Grant[u] THEN [tasksUsed EXCEPT ![u] = @ + 1] ELSE tasksUsed
    /\ Proceed(u, "decide")
    /\ UNCHANGED <<approvals, free, weekly, ledger, total, plan, userLock, undecided, left>>

(* Only now is the result no longer pending.                               *)
Decide(u) ==
    /\ Doing(u, "decide")
    /\ search' = [search EXCEPT ![u] = NotSearching]
    /\ undecided' = [undecided EXCEPT ![u] = @ - 1]
    /\ UNCHANGED <<usage, plan, userLock, left>>

SearchThrows(u) ==
    /\ search[u].pc \in {"insert", "ledger", "count", "task"}
    /\ Spend("faults")
    /\ search' = [search EXCEPT ![u] = NotSearching]
    /\ UNCHANGED <<usage, plan, userLock, undecided>>

-----------------------------------------------------------------------------
(* An administrator assigns a plan; an approval becomes a week old.        *)

SetPlan(u, e) ==
    /\ u \in Members /\ e # plan[u] /\ Spend("changes")
    /\ plan' = [plan EXCEPT ![u] = e]
    /\ UNCHANGED <<usage, userLock, searching>>

WeekPasses(u) ==
    /\ weekly[u] > 0 /\ Spend("changes")
    /\ weekly' = [weekly EXCEPT ![u] = @ - 1]
    /\ UNCHANGED <<approvals, free, ledger, total, tasksUsed, plan, userLock, searching>>

UsageInit ==
    /\ approvals = {} /\ userLock = {}
    /\ free = [u \in Users |-> 0] /\ weekly = free /\ ledger = free
    /\ total = free /\ tasksUsed = free
    /\ plan \in {[u \in Users |-> IF u \in Members THEN e ELSE "none"] : e \in Entitlements}
    /\ search = [u \in Users |-> NotSearching]
    /\ left \in Bounds
    /\ undecided = [u \in Users |-> IF u \in Members THEN left.results ELSE 0]

UsageStep(u) ==
    \/ InsertApproval(u) \/ InsertLedger(u) \/ CountApproval(u) \/ UseTask(u) \/ Decide(u)
=============================================================================
