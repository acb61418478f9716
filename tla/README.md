# A verification project for luxfi

luxfi brokers watches over WhatsApp. "Fi" reads listings (for sale, FS) and
requests (want to buy, WTB), pairs them, tells both owners, and introduces them
to each other once they agree; members pay monthly. The repository holds two
programs that share the idea and little code:

* `src/backend`: the MVP service on PostgreSQL: sync of the WatchFacts
  inventory, chat webhooks, matching, approvals, introductions, accounts.
* `src/whatsapp-agent`: the production agent: a conversation per phone, its own
  postings and matching, billing through Authorize.net, scheduled messages, an
  admin dashboard.

Both are single Node processes: between two `await`s nothing else runs, across
an `await` anything may. The hard part is therefore never one function. It is
what several handlers, timers and webhooks do to the same rows, what a failure
between two awaits leaves behind, and what PostgreSQL's row locks make wait,
fail or deadlock. The models here are at that granularity: a step is one
SQL statement (or one transaction from its first lock on, when nothing of it is
visible before the commit), one call of an external service, or one message.

## 1. Inventory

| component | state | operations | what is hard | what makes it correct |
|---|---|---|---|---|
| Checkout activation (`whatsapp-agent/src/billing`, `server.ts`) | `checkout_sessions` (status, claim), `account_entitlements`, `billing_ledger`; cards, charges and subscriptions at the processor | card webhook, reconciliation sweep (boot, timer, admin), cancellation, subscription webhooks | webhook, sweeps and retries meet on one checkout; failures after money moved; lost, late, repeated webhooks | one charge per checkout; no subscription bills unseen; what is charged is granted and booked; a saved card is resolved |
| Match approval (`backend/src/services/approval`, `entitlement`) | `matches`, `match_recipients`, `approvals`, `billing_ledger`, `canonical_users.trial_approvals_used`, `counterparty_confirmations`, `introductions` | approve, pass, confirm, override | concurrent approvals of one account, of one match; consent and approval in either order; row locks in different orders | billed once; limits hold; a contact only with consent; every message once; every call ends |
| Matching, sync, notification (`backend/src/services/matching`, `notification`, `sync`, `posting`, `chatIngestion`) | `postings`, `matches` with revisions, `match_recipients`, `notifications` | FS sync, chat message, reconciliation | overlapping syncs; two transactions creating one match; edits while recipients decide | one notification per revision; decisions stay; qualifying pairs are matched |
| Monitor lifecycle, accounts (`monitor`, `conversation`, `canonicalUser`, `vouch`) | `postings.expires_at`, `canonical_users`, `channel_identities` | reminders, expiry, extension, merge | reminder sent before it is marked; merges lock two accounts | not modelled, but for the conversion message |
| v4 postings and approval limits (`whatsapp-agent/src/postings`, `handleDecision` of `conversation/flow.ts`) | `postings`, `matches`, `match_recipients`, `approvals`, `billing_ledger`, counters of accounts and grants; timers in memory | ingest, match, send cards, pass, approve, reconcile, pause, close | almost no transactions: matching and cards are one statement after another; two flows spend one allowance; overlapping sweeps; timers lost in a restart | allowances spent once; a posting stops at its limit; contacts on record only; a batch stays near its cap; owners are told in the end |
| Scheduled deliveries (`lifecycle`, `marketUpdates`) | `lifecycle_deliveries` and `market_update_deliveries` with leases, `briefing_posting_state`, `market_update_watch_state`, pauses and activity in `user_lifecycle` | briefings, dormant messages, weekly digests, resends, the welcome-back broadcast | ticks overlap a run that is still sending; leases end; briefings are claimed and then built, digests built and then claimed; a resend writes the same rows | a message a day; nudges spaced and never beside a briefing; what is marked known was told |
| Outreach (`photoRequests`, `reminders`, `fulfillment`, `blast`, `marketPulseUsage`) | photo-request columns, `reminder_sent_for_expires_at`, opportunities, coverage, `blast-status.json`, look-up counters | ask for photos, remind, offer a request to dealers, introduce the service, meter look-ups | all read, then send, then write, and overlap | nobody is asked twice; look-ups bounded |
| Inbox (`server.ts`, `conversation/stateStore.ts`) | `processed_message_ids`, `recent_content_dedup`, recent and spoken texts in memory | webhooks, their filters | duplicates at once, under other ids, phantom companions, echoes; restarts | a person is heard, and heard once |
| Conversation (`conversation/flow.ts`, `stateStore.ts`, `createDirectPosting`) | one record per phone in a file: stage, prompts, drafts, a held request, matches | some forty kinds of message, each a handler | long dialogues; prompts that overlap; the record is read, awaited over and written back whole, beside admin tools | one draft; posted as reviewed; approvals counted; a stop ends the plan |
| Inventory sync (`watchfacts/syncInventory`, `inventoryDb`, `api`, `aiEnrich`, `postings/ingest`) | `inventory_listings`, the AI cache, mirrored `postings`, `sync_meta`, a flag | sync from the database or page by page, split, upsert, sweep, mirror, match | the floor changes while it is read; rows change sides; any statement may fail | sweeps take only what was not read; what changed is matched |
| Match scoring, market guide, FX, geo, AI, admin, concierge | tables of their own, caches | imports, queries | heuristics on text | not modelled |

`PROJECT.json` has the list with the source files, and forty hazards with the line
where each bites and the property that guards it.

How they interact. In the backend, a sync, a chat webhook and the
reconciliation all call `runMatchingForPosting`, which writes matches and
recipients in one transaction and then calls the notification service. A
button press on a notification calls `approveMatch` or `passMatch`; an approval
calls the entitlement gate inside its transaction and the introduction and
delivery code after it. In the agent, `join` and `upgrade` insert a checkout;
the processor's webhook and the sweep both end in `activateClaimedCheckout`;
STOP, "fire Fi" and an operator's block end in `cancelOwnMembership`. The
agent's postings come from its own conversation, from monitored groups and from
the inventory; each calls `runImmediateMatch`, a timer calls
`runReconciliation`, and both call `upsertMatch` and `notifyMatch`, at once or
from staggered timers. Cards and search results are answered in different
flows, `approveMatch` and `handleDecision`, that meet in `recordApprovalEvent`.
Every webhook passes the inbox first; what it lets through goes to the handlers
of outreach and postings and, at last, to the conversation. The inventory sync
feeds the postings; the schedulers read them.

## 2. Modules

| module | models | runs |
|---|---|---|
| `Purchases` | what the checkouts promise customers and books: the abstract specification | through `CheckoutFailures` |
| `CheckoutActivation` | saved card to paid membership, tier changes, cancellation, failures | `CheckoutRaces`, `CheckoutFailures`, `DoubleCharge` |
| `CheckoutActivationProofs` | theorems about it, the refinement among them | |
| `MatchApproval` | approve, pass, confirm, delivery, with row locks and deadlocks | `Introductions`, `IntroductionsFinish` |
| `MatchApprovalProofs` | theorems about it | |
| `Surfacing` | sync, ingestion, matching, notification | `Surfacing`, `SurfacingProgress` |
| `SurfacingProofs` | theorems about it | |
| `ApprovalUsage` | the allowance of an account, and decisions on search results | through `AgentMatching` |
| `AgentMatching` (extends `ApprovalUsage`) | the agent's postings, matches, cards and replies | `AgentMatching`, `AgentCards` |
| `AgentMatchingProofs` | theorems about the two | |
| `Conversation` | one phone's dialogue, its state file, its postings | `Conversation` |
| `ConversationProofs` | theorems about it | |
| `ListingBoard` | what a sync promises about the inventory: the abstract specification | through `Inventory` |
| `Inventory` | the sync, statement by statement | `Inventory` |
| `InventoryProofs` | theorems about it, the refinement among them | |
| `Deliveries` | claims, leases, sends and marks of the scheduled messages | through `Services` |
| `Outreach` | photo requests, reminders, offers, look-ups, the outreach batch | through `Services` |
| `OutreachProofs` | theorems about it, as part of `Services` | |
| `Inbox` | the filters in front of the handlers | through `Services` |
| `Services` | the composition of the last three | `Services` |
| `ServicesProofs` (extends `OutreachProofs`) | theorems about the scheduler, the inbox and the whole | |
| `MC...` | the instances for TLC | |

Each module defines, just before some of its operators, a *variant* or
*defect*: the operator as a plausible bug would write it. A property is kept
only when substituting one of them makes TLC find it violated.

### CheckoutActivation

`status`, `page`, `old` and `claim` are the columns of a `checkout_sessions`
row. `claimed_at` is abstracted to NULL (`free`), recent (`fresh`) and older
than `staleClaimMinutes` (`stale`); `created_at` to whether it is past
`minAgeMinutes`. `ent` is `account_entitlements`, `ledger` the
`membership_payment` rows. `card`, `charges`, `made`, `live` and the two sets of
webhooks are the processor's, modelled from the calls in `authorizeNet.ts`.
`w` is the local state of every running function: where it is, its session, and
the subscription id it carries. The actions follow the awaits of
`handleAuthorizeNetWebhookEvent` (`CardWebhook`, `CancelWebhook`),
`runCheckoutReconciliation` (`SweepStart` to `Release`),
`activateClaimedCheckout` (`Charge` to `Clear`) and `cancelOwnMembership`
(`CancelStart`, `StopArb`, `Unplan`). `Throw` lets any of these awaits reject, and
`AfterThrow` is what the respective `catch` does. `Crash` is a restart: what
only memory held is gone.

The processor's charge may be declined at any time. A webhook may be lost, late,
or delivered twice. An activation outlives the claim's 15-minute window only as
a fault, `slow`; this is how "long enough" enters the model.

`Purchases` says what all this is for, with neither claims nor webhooks: a
checkout is charged once (`Charge`), booked (`Book`), settled once and only with
its charge in the ledger (`Settle`), and a plan is granted for a charge
(`Grant`). What goes beyond that is allowed as often as attempts were cut short
(`CutShort`: a throw, a stale claim or a restart in the middle of paid work, or
a sweep that releases a claim it does not hold). The refinement mapping takes the
status of a row (`none` and `pending` are open), the charges at the processor,
the ledger, the plan of the entitlement row, and `aborted`.

### MatchApproval

One handler is one HTTP request or button press. A transaction's writes become
visible at `CommitApproval` or `CommitSync`; what it locks on the way (`own`:
FOR UPDATE, an UPDATE, an upsert; `ref`: the share locks of foreign keys)
decides which statements of others have to wait, and `Victim` is PostgreSQL
ending one transaction of a cycle. The code after the commit
(`deliverConnectionIfRevealed`, `requestCounterpartyConfirmationIfNeeded`, the
conversion message) is one autocommitted statement or message per step.
Throws, `{ ok: false }` sends and restarts are the faults.

Abstractions: the revision of a match is fixed (`Surfacing` changes it); the
fields of contacts are one fact, whether the posting has a contact method that
is authorized for sharing; callers are parties of the match; the two postings
of a match belong to different accounts, as `computeMatch` requires.

### Surfacing

A worker is one `runFsSync`, one chat webhook or one `reconcileMatches`. It
ingests or picks a posting and runs the matching for it: `Load`,
`LoadCandidates`, then for each candidate `Look` (SELECT FOR UPDATE) and, when
the row is absent, `Insert`, and `Commit`. The writes of the open transaction
are in `writes` and lock their matches. A concurrent insert of the same match
waits for the unique index and then fails the whole transaction, as
`upsertMatch` (without ON CONFLICT) does. Then the notification service
reserves, sends and marks for each undecided recipient.

Abstractions: the material fields of a posting are one value, and `computeMatch`
a relation `Fits` on them; the unordered candidate query is any order; an
approval is one step here, since `MatchApproval` has its details; expiry,
images and the WTB sync are left out.

### ApprovalUsage

`free` and `weekly` count the rows of `approvals` by account (`weekly`: the rows
that are not complimentary and not yet seven days old; `WeekPasses` ages one),
`approvals` are the rows that name a match, `total` and `tasksUsed` are the two
counters a free approval depends on, `plan` is what `weeklyLimitFor` makes of the
entitlement. `Ask` is `handleDecision` up to its gate; `InsertApproval`,
`InsertLedger`, `CountApproval` and `UseTask` are the statements of
`recordApprovalEvent`, each of which autocommits in this flow, and `Decide`
marks the result. `RecordApproval` is the same function inside the transaction
of `approveMatch`. The foreign keys of the inserts and the UPDATE of the counter
wait for the row that transaction holds (`userLock`). Messages of one phone are
queued (`handleIncomingMessage`), so `search` has one entry per account; replies
to cards do not pass through that queue.

### AgentMatching

A handler is one webhook request, sync, timer or reconciliation. `Ingest` stores
a posting and starts `runImmediateMatch`: `Search`, then for each candidate
`Select` and `Upsert`, two statements without a lock, so a revision may be lost
(`Upsert` overwrites whatever came in between) and an insert may fail
(`InsertConflict` ends the run). `Told` sends the cards at once or leaves them to
the timers of `Finish`. `Gate`, `Hold`, `Claim`, `Skip`, `Send`, `Mark` and
`Discard` are `notifyOneRecipient` for the one side and then the other;
`Reconcile` comes to the same steps for every pair, with no initiating posting
and thus no cap. `PassMatch` and `Pass` are the read and the write of
`passMatch`; `ApproveMatch` reads the entitlement, `Lock` takes the account and
the latest recipient row, `Commit` or `Refuse` ends the transaction.
`recipient` has a row per match, account and revision; `sent` and `initial` only
record what went out: every card, and the cards of a posting's initial batches
that were noted as shown (`Mark`), which is what the gate of the next one counts.

Abstractions: the compared fields of a posting are one value of `Terms`, and the
pair of values a match was scored on stands for its score and reasons; a counterpart's
phone is its account; the reads of `Gate`, of `Ask` and of
`Reconcile` are one step each, since what they read is used later in any case;
a photo, the number of active groups and the wording of a card are left out. A
dictated posting is edited only while it is active, as `createDirectPosting`
makes a new one otherwise; its item cap and its search for the draft to update
are left out. STOP takes the paid plan away in the same step, because
`CheckoutActivation` has the calls of `cancelOwnMembership`.

### Conversation

`conv` is the record of one phone in `conversations.json` (`types.ts`): stage,
the one-shot prompts, the held request, the draft of each side, the matches of
the last search. A message is what the parsers of `flow.ts` make of it (`Says`,
the item, side, price and fields it names), because what the dialogue does
depends on nothing else. Every branch of `handleIncomingMessageInner` is an
action or a disjunct, guarded as in the code and in its order: commands before
prompts (`Command`), prompts before held requests, those before drafts, and new
requests last. `task` is what a handler awaits: a handler that awaits in the
middle (`SaveAndAwait`, `Await`, `AwaitPost`) has a copy of the record, and writes
it back whole (`SaveState`), or never when it throws or the process dies (`Fail`,
which also releases the queue of the phone). `Free` is that queue. The admin
tools (`BlockIdentity`, `UnblockIdentity`, `ResetUserAccount`) and replies to
match cards (`MatchDecision`) write outside it. `LookUp` and `WritePosting` are
`createDirectPosting`: the search for the posting to update, the item cap, the
write. STOP, a confirmed "fire Fi" and a block end a plan in two steps of
`cancelOwnMembership`: `StopCharge` asks the payment processor, which may refuse
(`arbCancelFailed`), and `DropPlan` takes the plan away all the same; a
conversation has no plan, a free one or a charged one (`script.plan`).

A reply is not part of the step that saves the record: `processIncomingMessages`
sends the replies one by one afterwards, when the queue of the phone may already
be at its next message (`server.ts:376-401`). `review` and `fate` are history:
the last review Fi wrote, and whether it is on its way, was seen (`ReviewSent`) or
was lost (`ReviewLost`: a send that throws is only logged, line 410, and a restart
forgets it). Only the last review is followed: one that is overtaken by another
counts with it. Customers wait for a review before they write on, except the
hasty ones (`"hasty"` in `script.beside`).

### ListingBoard and Inventory

A run of `Inventory` is one `runInventorySync`: flag, attempt on record, source
opened, then for each side fetch (`FetchOpenAuctions`, or `FetchPage` by page
while the floor moves), `EnrichAndSplitListings`, `UpsertListings`,
`MarkMissingInactive`, `SaveAiEnrichment`, the batches of
`MirrorApiPostingsBulk`, each followed by its `RunImmediateMatch`,
`MarkApiPostingsInactive` and the outcome. `listing` has a row for each type and
external id; the type of a row comes from its words (`Keyword`) and only then
from the side it was listed on, which is why the two sides can meet in one
table. `Fails` has a failure at each step with the `catch` it runs into;
`Restart` loses the run and the flag.

`ListingBoard` says what all this is for: a run only adds to the board what it
has just read (`Store`), and takes off a side exactly what it has not
(`Retire`), only after it has read something. The refinement mapping takes the
rows that are on offer, the keys the run has stamped, and the sides it has swept.

### Deliveries

A job is the visit of one user by a run of a scheduler: `pc` goes from `select`
over `claim`, `build` and `send` to `finish` (a digest is built before its
claim; a dormant message asks `due` and `briefed` first). The row of the user was
read when the run began. `ledger` is `lifecycle_deliveries` and
`market_update_deliveries`, with "the lease is over" as `stale`; what there is to
report is a version number per user, `known` the version the next message
compares with. Nothing in `index.ts` keeps a tick from starting while another
runs, so jobs overlap freely. `Throws` is a failure in or outside the `try`
block, after a send that may have gone out; `LeaseEnds` and `Restart` are the
others. A day has five half hours here.

### Outreach

A task is one handler or job. `RequestPhotosForMatch`, `GetPhotoRequestRecord`,
`AskSeller` and `MarkPhotoRequested` are one request for photos;
`HandleIncomingSellerPhoto` to `ForwardPhoto` the answer;
`SendExpirationReminders` to `RemindersDone` one reminder run with its flag;
`FulfillWtb`, `ClaimOpportunity`, `TellDealer` an offered request; `LookUp` to
`CountLookup` a metered look-up with its two reads and two writes;
`OutreachStart` to `BatchDone` the batch with its status file. The age of a
photo request is fresh, over 48 hours, or over seven days. Messages of one
person are queued, those of different persons are not. `missed` counts the
look-ups that a failure or a restart kept from being counted.

### Inbox

The inbox of one phone. An entry has an id, a body and the message it carries.
`AlreadyProcessed` and `AlreadyProcessedContent` are the two inserts, the second
followed without an await by the checks in memory (`Companion`,
`IsSuspectedOutboundEcho`); the whole batch is filtered before any of it is
handled (`ProcessIncomingMessage`). `RecordOutboundActivity` is what an answer
leaves in memory: the texts that are still within their half hour (`Live`, those
at the end of the list, which is in the order of sending) and the new one. `said`
is a history of all of them: a person who writes what the agent once said is
taken for an echo, which `HeardOnce` admits. `lost` are messages whose webhook failed after the
acknowledgement, or that a restart took.

### Services

The three above keep tables and memory of their own and meet only in a person's
phone, so their product has no race of its own. `Services` instantiates them
side by side; an element of `Starts` bounds all three and lets one of them move
in a behaviour.

## 3. Runs and bounds

| run | states | shows |
|---|---|---|
| `CheckoutRaces` | one account, three checkouts (a membership, two tier changes), two handlers and a sweep, one failure before money moves | one activation at a time, no second charge, no subscription that bills unseen, beside its replacement or for a non-member (`SubscriptionsAccounted`), outcomes final |
| `CheckoutFailures` | one checkout, a handler, a sweep that starts over and a cancellation, any two failures | second charges are owed to failures, charges are booked and plans paid for (`PaymentsAccounted`), a saved card is resolved; the checkouts implement `Purchases` |
| `Introductions` | two matches of one buyer, two calls at a time, any three requests, one fault; trial limit 1, match limit 2 | billing, limits and decisions (`ApprovalsAccounted`), disclosure, no repeated message, consent kept |
| `IntroductionsFinish` | one match, two calls at a time, any four requests, no fault | a revealable contact is delivered; every call ends despite waits and deadlocks |
| `Surfacing` | one listing, two messages, two syncs and a webhook, two of them at work at a time, three changes, one decision | one notification per revision, approved matches are final, decisions stay on record and revisions are earned (`RevisionsAccounted`) |
| `SurfacingProgress` | one listing, one message, sync, webhook and reconciliation, one fault | qualifying pairs become matches; without faults recipients are told |
| `AgentMatching` | a dictated listing, a mirrored one, a request from a group; two handlers at a time; six scenarios (below); cap 1 or 2, match limit 2, one free approval and one granted task, one approval a week | allowances; limits, disclosure on record and the cap of the initial batch (`RepliesAccounted`) |
| `AgentCards` | one pair, two handlers, sweeps without end, five scenarios | owners end up with a card of the current revision, or have decided |
| `Conversation` | one phone, two watches, two prices, two handlers; eight conversations, each a set of four to eleven messages in any order and number; item cap 1, one approval; any await may throw, any review be late or lost, any cancellation of the charge be refused | one draft at a time, posted as last reviewed, confirmed once, approvals counted, a stop ends the plan and tries to end its charge |
| `Inventory` | two auctions, one on each side; plain, of the other side, or a lot of two watches; three changes of the floor, three syncs, one failure; pages and batches of one row | the sync implements `ListingBoard`; what changed is matched |
| `Services` | one user and two jobs over up to three days; two listings, buyers, dealers and phones, three contacts and two tasks; two webhooks, one text and an answer that a person may repeat; one failure | deliveries spaced, news told, nobody asked twice, look-ups bounded, people heard once |
| `DoubleCharge` | one checkout, sweeps only, one failed call | expects a violation (section 4) |

Why these bounds are enough to be of interest. Every race in this code is a
race of two functions on one row, and the runs have at least two that can be
anywhere in their bodies at once; `CheckoutRaces` has three, because a
superseded subscription needs three activations of one account to be
overwritten. Limits are set to 1 or 2 so that they are reached. Two faults in
`CheckoutFailures` let a recovery itself fail. Requests are bounded by
`MaxRequests`, edits by `MaxEdits`, workers at work by `MaxBusy`, failures by
`MaxFaults`; these are bounds of one behaviour and not of the code.

The product of all that can happen in `AgentMatching` is out of TLC's reach, so
`Starts` is a set of scenarios, each a record of bounds (`edits`, `calls`,
`sweeps`, `changes` of switches, plans and postings, `faults`, `results` of a
search) with the postings stored at first: three replies beside a search result;
two replies, a search result and either a change or a fault; a new posting with
two overlapping sweeps; two edits (restaggered cards); an edit, a sweep and a
fault. The variable `left` counts them down, `failed` in it counts the faults.
The limits the properties allow are reached: with the "+ 1" of `AllowanceKept`
or the term of `Handlers` in `InitialBatchCapped` removed, TLC finds a
violation.

The new instances have the case of interest at their bounds: in `Conversation`
every kind of message is in one of the conversations, and two handlers are
enough because a third is either queued or behind a dead one; the customers who
replace a draft (`Replacing`) and who pause postings (`Pausing`) are hasty, the
one who leaves (`Leaving`) does so with each plan; in `Inventory` a
row that moves between the sides needs two auctions and a sync after the first,
and the page size of one makes an auction that is opened while the pages are
read shift them; in `Services` the start records are a morning with a failure or
with a third run, an evening, two days of dormant messages, a resend among
briefings, a welcome; each part of outreach with a failure; and, for the inbox,
the same words over two windows, one message under three ids, batches, restarts.

What the bounds leave out of a hazard:

* `CheckoutRaces` has no call that fails after money moved, so no failing cancel
  call of a replaced subscription. `SubscriptionsAreOnRecord` assumes that it
  succeeds (`LateWorkSucceeds`): one column keeps the id of a subscription that
  could not be cancelled, and the next change of tier overwrites it.
* `IntroductionsFinish` has one match. The cycle of an approval and a
  confirmation is in it; two matches that share an account or a posting, approved
  at once and taking the locks in different orders, are in `Introductions` only,
  where deadlocks happen and are resolved but `CallsEnd` is not checked.
* `SurfacingProgress` has one pair: its fault ends a reconciliation half way, but
  two runs that lock several matches in opposite orders need two pairs.
* `AskedOnce` and `LookupsBounded` are upper bounds with excuses that add up. An
  image that is taken for an answer, or a request that has aged, allows one more
  photo request whether or not one was made; the bound on look-ups is within one
  week, because the week's end is not modelled.

In `CheckoutRaces` and `Surfacing`, workers of a kind (and messages) are
interchangeable and declared symmetric; neither run has a liveness property.
Deadlock checking is off (except in `AgentCards`, whose sweeps go on for ever), because each system may stop: when nobody calls and
every bounded event has happened, there is no step left (a conversation, a day or a
queue of webhooks ends in the same way). That nothing waits for
ever is stated where it matters, as `CallsEnd`, `RecipientsAreTold`,
`QualifyingIsMatched` and `SavedCardResolved`.

### Fairness

* Checkout: a function that has been started goes on (its awaits settle), the
  sweep's timer keeps firing (`index.ts` starts it and every tick runs it), and
  time passes (`Age`, `ClaimAges`). Nothing is assumed of customers or webhooks,
  so `SavedCardResolved` holds although every webhook may be lost. It is checked
  with fewer pending checkouts than the sweep's limit: with more abandoned ones
  than that, the oldest fill every sweep (a hazard on the list).
* Approval: weak fairness of each call's own next step; nobody is obliged to
  call.
* Surfacing: strong fairness of each run's steps, because PostgreSQL queues lock
  waiters, so that a run that waits is next in line when the holder is done,
  even though others take the row again and again; weak fairness of the timers.
* Agent: weak fairness of `Reconcile`, which `index.ts:67-77` starts at boot and
  on an interval, of the timers of staggered cards, and of what has been begun,
  the statements of a search decision included. A handler that waits for the
  account's row waits for a transaction that awaits nothing else. Nothing is
  assumed of people or of switches. In `AgentCards` sweeps are not counted
  (`Endless`), everything else is bounded, and so "in the end" is after the last
  fault.

Nothing is assumed fair in `Conversation`, `Inventory` and `Services`: their
properties are safety properties and hold whether or not anything goes on. What
should happen in the end there is not promised by the code: a sync whose flag
was never released, a batch whose status stayed "running" and an offer whose
message failed are never taken up again.

## 4. What the code does not keep

One run expects a violation: `DoubleCharge`. "A sweep can never charge twice"
(`checkoutReconciliation.ts:124`), but if the subscription call fails after the
charge, the catch releases the claim and the next sweep charges again.

Other differences between the code and what its comments or documents say are
in the models as the code has them, and no run is spent on them.

Billing and backend:

* The sweep "MUST do exactly what the webhook does"
  (`checkoutReconciliation.ts:29`). An upgrade whose webhook is lost is taken for
  already active (line 158): completed without a charge, and the old plan kept.
* Listings are retired when missing from the fetch (`sync.service.ts:126`), but a
  listing whose ingestion or matching threw is retired though it was fetched;
  losing the race for a match's insert is enough.
* `introductions.status`, the "match-level summary" of
  `migrations/004_introduction_delivery_tracking.sql:5`, can stay behind: a
  confirmation derives it before a concurrent approval commits and writes it
  after (`ReadApprovals`, then `WriteIntro`, in `MatchApproval`).

Postings of the agent:

* "So no second message is sent" (`notify.ts:346-349`): the claim is an ON
  CONFLICT DO UPDATE of every row not yet delivered (line 412); two sweeps that
  reach it before either has marked its delivery both send the card.
* A held-back card is sent by the next sweep, since sweeps have no initiating
  posting: the cap delays an initial batch more than it bounds it. Cards of
  earlier revisions of one match count against it. `RepliesAccounted` bounds what
  initial batches *note* as shown, and no more can be said of what they send: a
  restart after the send loses the note, overlapping claims send one card twice,
  and a row that was claimed while its counterpart paid stays outside the count
  (the DO UPDATE of `notify.ts:412` leaves `counterpart_was_paying` as it is).
  With these together TLC finds four cards sent under a cap of one.
* An older revision's card may arrive after a newer one's, and two upserts of one
  match may write the same revision number; `OwnersSeeMatches` is what remains
  true.
* `passMatch` may overwrite a decision "approved" by row id. The approval itself
  and its count stay, which is what `RepliesAccounted` says.
* Approving a match again after its revision has grown is a new approval to the
  code: it is refused when the posting has closed meanwhile, although the contact
  was shown before (`notify.ts:671-673` wants a repeated click to work for ever).
* "One active posting per user per item" (`postingsStore.ts:285`), but a paused
  posting is not looked for and is resumed without looking (line 683): pause, post
  again, resume leaves two. The race of two linked identities does the same.

Conversation:

* The answer to "fire Fi" is to be "the very next reply" (`types.ts:200-203`);
  commands that return before `flow.ts:3348` leave the question open, and a later
  "yes" meant for something else ends the membership.
* `persistSellIntake` archives a row before the item cap refuses the posting
  (`flow.ts:2724` says such a draft is never persisted).
* `clearAllPendingState` (`flow.ts:1103`) leaves the clarification and the name
  question; the guard of `server.ts:183-186` against reading a reply as a match
  decision leaves out the escrow, fire, listings, channel and name prompts.
* `handleNaturalFollowUpAnswer`: "Only one round is ever asked"
  (`flow.ts:1836-1840`); a reply that fills nothing is asked again.
* A handler that read the record before an operator blocked the phone writes the
  block away (`server.ts:521-522`), and so may it lose `markPendingEscrowOffer`.
* A draft is on record at "confirm" (`flow.ts:3466`, `3472`) before its review is
  sent (`server.ts:376-401`). If the send fails, which is only logged (line 410), if
  the process restarts before it, or if the customer writes on in the meantime,
  the next "confirm" posts a price or an item nobody was shown. No comment or
  document says otherwise, so no run expects a violation;
  `ReviewedBeforePosted` says what remains true: what is posted is what the last
  review says, and the customer saw it unless it was lost or not waited for.
* After a STOP whose cancellation the processor refuses (`flow.ts:2998-3000`), the
  customer is marked as stopped and the plan is gone, but the charge goes on until
  somebody follows it up by hand. A STOP during which the database throws is not
  saved at all.

Inventory:

* A bundle that was split comes back undivided at the second sync: its hash is
  unchanged, so the row passes through unsplit (`aiEnrich.ts:71`), while lines
  39-42 say it is replaced by its parts.
* The flag stays set for good when `recordSyncAttempt` or `browser.close` throws
  (`syncInventory.ts:306`, `359`).
* A mirrored posting that was retired or expired is updated and touched when its
  listing returns, but never made active again (`postingsStore.ts:582`).

Deliveries and outreach:

* The digest compares with "the LAST successful Market Edge run"
  (`marketUpdates.ts:36-37`); `market_update_watch_state` is overwritten at each
  build, sent or not. A preview of the resend writes `known_match_ids`, too.
* The recipients of the welcome-back broadcast exclude opted-out users when it is
  scheduled (`lifecycle.ts:335-336`); a STOP before the timer fires does not stop
  it (line 375).
* Re-running the outreach batch "is safe and picks up where the last batch left
  off" (`whatsapp-agent/README.md:105-107`): `blast.ts:104` leaves a contact that
  was written to at stage "new", so the next batch begins with the same ones;
  and it writes back the state read before the message, so that an answer or an
  opt-out in between is undone.
* `blast-status.json` says "running" for ever after a restart
  (`server.ts:979`); a claimed offer whose message fails is never retried
  (`fulfillment/service.ts:33`); a second first photo sends the buyer's card
  again (`photoRequests.ts:76`); an image goes to the latest request made of its
  sender, whichever listing it shows (`inventoryDb.ts:787`); a reminder for one
  expiry may mark the next as reminded of (`reminders.ts:63`).
* The id of a message is recorded before it is handled and the webhook is
  acknowledged first: a restart in between loses it (`HeardOnce` excuses it).

## 5. What is proved

Every theorem holds for all values of the constants that the named assumption of
its module admits: any accounts, postings, handlers, limits, bounds and fault
sets. Each rests on an inductive invariant, a conjunction of named parts that
TLC checked on the module's run before it was proved; one lemma per action says
which parts the action can disturb and why it does not. All the fault actions
and restarts are among the steps, unless an assumption is named.

### CheckoutActivationProofs

Under `ConstantsAssumption` (sessions are natural numbers, kinds of worker are
disjoint, `None` is no value of the rows).

* `TypeCorrect`: `Spec => []TypeOK`. `TypeOK` alone is not inductive: a worker
  between a claim and its release indexes the rows by its session, so
  `TypeInv` adds `SessionKnown`.
* `ChargesAreAccounted`, `PaymentsAreAccounted`: whatever fails, claims that are
  won twice included. The invariant `PaymentInv` is a balance for each checkout:
  the activations that hold it, the claim that can still be won (`Room`) and the
  charges made never exceed one, plus the attempts that were aborted, plus the
  paid work under way (`AttemptsCovered`); and the same against the ledger and
  what is on its way there (`BooksCovered`).
* `RefinesPurchases`: `Spec => ImplementsPurchases`, with every fault. The balances
  of `PaymentInv` bound sets of activations; lemma `AtWork` turns them into what
  one activation may rely on: it holds the checkout and, before its charge, is
  none of the paid ones, so that there are no more charges than attempts cut
  short; before its booking the ledger lacks its charge; and when it settles, all
  charges are booked or excused. These are the guards of `Charge`, `Book`, `Grant`
  and `Settle`. `BooksAlwaysBalance` follows, since `Purchases` keeps its books by
  itself (`PromiseKeepsBooks`).
* `ActivationIsExclusive`: assumes `ClaimsRespected`, that neither the `claim` nor
  the `slow` fault is among the faults. Both break exclusiveness in the code:
  `SweepClaimThrows` lets a sweep release a claim it does not hold, and a claim
  that goes stale under its holder can be won again. The invariant is `ClaimInv`:
  whoever works on a checkout holds a fresh claim on a pending row
  (`ClaimKept`), so that no one else can win it.
* `OutcomeIsFinal`: from the same invariant. `markCheckoutSessionStatus` has no
  condition on the status it replaces; that nobody calls it on a resolved row
  is `ClaimKept`.
* `ChargedOnce`: with `PaidWorkSucceeds` besides (no call fails and no restart
  happens between the charge and the completed row), no checkout is charged
  twice. `DoubleCharge` shows that this assumption cannot be dropped.
* `SubscriptionsAreOnRecord`: with `LateWorkSucceeds` (nothing fails between the
  created subscription and the retired one, the assumption under which the code
  keeps its word), a live subscription is its account's current one or carried
  by an activation that has yet to put it there or to retire it; hence an account
  nobody works on has one at most.
* `BilledAccountsStayMembers`: with `NoCancellations`. That no late webhook about
  an *old* subscription takes the plan away needs the invariant `MembershipInv`:
  subscriptions go one way, created, current, replaced, and never back
  (`OneWay`), and are in one place at a time (`OnePlace`).
* `SubscriptionsAreAccounted` puts the last two together.

### MatchApprovalProofs

Under its `ConstantsAssumption` (the two postings of a match have different
owners; matches and calls are finitely many).

* `TypeCorrect`.
* `ApprovalsAreAccounted`: two locks carry it. Between its lock of the match and
  its commit a call has the match for itself (`MatchLocked`), so what it read
  there is still so when it writes; from the entitlement gate on it has the
  account's row as well, and the trial approval it was granted is still below
  the limit at the commit (`AccountLocked`). `LocksExclusive` says what makes
  locks of that kind: no row is in the hands of two, and share locks exclude the
  strong ones.
* `DisclosureIsAuthorized`: a call that has read "revealable" and not yet sent the
  contact sends it though consent may have been taken back; what it relies on
  is that consent was given before (`ConsentOnRecord`), which is what the property
  says.
* `MessagesAreSentOnce`: a message is claimed by an UPDATE or INSERT that only one
  of two calls wins; the invariant says that who is about to send has won, and
  nobody else is about to.
* `ConsentIsKept`: an action property; the placeholder's ON CONFLICT DO NOTHING is
  the step that matters.

### SurfacingProofs

Under its `ConstantsAssumption`.

* `TypeCorrect`.
* `NotifiedOnlyOnce`: the reservation of a notification belongs to the run that
  will send it and to no other (`NoteReserved`, `NotesExclusive`), and it is about
  a revision the match has had (`NoticesPast`).
* `RevisionsAreAccounted`: the writes of an open transaction are on matches it has
  locked and still agree with what it read (`WritesCurrent`). That revisions are
  earned is a count: those used, and the creations and edits that running
  matchings still have to spend, are at most as many as there were
  (`EarnedInv`); an edit is spent by the run that made it, once for each match.
* `ApprovalIsFinal`: an action property, from the same locks.

### AgentMatchingProofs

Under `UsageAssumption` and `MatchingAssumption`, about `AgentMatching` and, in
it, `ApprovalUsage`.

* `TypeCorrect`.
* `AllowanceIsKept`: in the replies to cards, reading the usage and recording the
  approval are one transaction with the account locked; the search decision is
  not. So free approvals, beyond the allowance, are covered by the one being
  counted and by failures; and the invariant has to say what a search decision
  has recorded and not yet counted at each of its statements.
* `RepliesAreAccounted`: the row a transaction has locked is still there when it
  commits (`RowInv`; the latest row of a match exists because revisions are
  bounded, by a least-number argument), a posting at its limit is done, and a
  contact is only shown for an approval on record. For the cap (`BatchInv`): what
  the initial batches noted, with the handlers that have passed the gate
  (`Admitted`), stays below the cap plus one for every other handler; a handler
  is admitted only while the rows shown are fewer than the cap, and what was
  noted, with the rows about to be discarded, is among those rows but for
  failures.

### InventoryProofs

Under `InventoryAssumption`: every trading floor, every way of splitting, every
page and batch size.

* `RefinesBoard`: `Spec => ImplementsBoard`, the sync implements `ListingBoard`.
  A step maps to `Store` (`UpsertListings`), to `Retire` (`MarkMissingInactive`),
  to `Turn` (a run begins, ends, fails for good or is cut off) or to a stutter.
  That a sweep by timestamp retires exactly what was not read needs the
  invariant `BoardInv` (theorem `BoardInvariant`): timestamps on record are no
  later than the run's, the keys it has stamped are those with its own, they are
  on offer, and what is on offer on a swept side is among them. That the second
  side's upsert keeps a swept side clean is the last part, and that `Retire` never
  follows an empty fetch is `RowsOK`, whose base is the lemma that splitting
  leaves at least one row of each (`SplitKeepsSome`).
* `SweptOffersFresh`: `Spec => []Board!SweptIsFresh`, what the abstract
  specification is for.
* `ChangesAreTested`: `Spec => []ChangedAreTested`. The invariant adds that a run
  under way has the flag, so that no other run can begin and discard its list.
* `InventoryTypes`: `Spec => []TypeOK`. `TypeInv` says of the floor that what is on
  it says something (`FloorOK`), and of a run that the sales, rows, cache entries
  and postings in its hands have the types of what they become (`HandsOK`): a page
  is cut out of a list that changes, a lot is split into rows of its own ids, and a
  batch that fails has stored some of its rows.

### ServicesProofs: the scheduler

Under `ServicesAssumption`: any users, jobs, length of the day and hours of the
messages. The theorems are about `Spec` of `Services`; the first of them reduces
that to the scheduler.

* `ServicesRunDeliveries`: `Spec => D!Spec`. A step of the inbox or of the outreach is a
  stutter of the scheduler, so the inductive invariant need only survive
  `D!Next`.
* `SchedulerInvariant`, `SchedulerTypes`: `SchedulerInv` is `SchedulerTyped` (a job's
  stage fits its kind, and a job that holds a claim has its row in the ledger) and
  the four parts below.
* `DeliveredOnce`: `Spec => []D!OneDelivery`. `DeliveryInv` is a balance for each
  message: those that were sent and the jobs that are about to send or to mark
  it as failed (`Owing`) exceed the excuses by one at most, and by none when it can
  be claimed, or could be after a restart (`Lapsed`). A claim turns the one into
  the other; the lease that ends and the restart that makes the row claimable
  are paid for by the excuse they note.
* `NewsTold`: `Spec => []NewsIsTold`. `NewsInv` says it version by version: each one that is
  known was told, or is among those a briefing on its way will tell.
* `MessagesSpaced`: `VisitsAreShort` implies `Spec => []DeliveriesSpaced`. A run compares
  the time it began with the row it read, which another run may have been about
  to stamp. So the row need not know of the last dormant message
  (`NudgesKnown`), but one it does not know of is no further back than a visit
  lasts (`TimelyInv`), hence of the same day, for which the ledger has a row
  that nobody can claim while nothing has failed for that user (`Delivered`,
  `NudgesOnce`, `RecordInv`). The stamp of the slower run cannot set the row back,
  for the same reason. Likewise a briefing under way when the dormant message is
  sent would be of another day (`NoBriefing`).
* What `VisitsAreShort` assumes: from the hour of the briefing to that of the dormant
  message, and from one day's dormant hour to the next, it is longer than a
  visit lasts (`MaxLag`, from the start of the run to its last step for that user).
  The settings begin as 8 and 10 o'clock (`postings/db.ts:409-412`). The code does
  not check it: with the hours the other way round (`setLifecycleSettings`), or
  when a run takes hours, a briefing follows the dormant message of the same day,
  since only `runDormantReengagement` asks about the other kind.

### ServicesProofs: the inbox

Under `ServicesAssumption`, which here says that the windows and the number of
tracked texts are numbers: any texts and answers (they may overlap), any number
of webhooks, deliveries, failures and restarts.

* `ServicesRunInbox`: `Spec => I!Spec`, as above.
* `InboxInvariant`, `InboxTypes`: `InboxInv` is `MailTyped` and three parts. `Admitted`
  is what any webhook let in, handled or not; `Owned` are the ids a webhook has in
  hand: those it let in, and the one it has recorded and whose words it looks at.
  * `Unique`: an id that is in hand or was handled is recorded, and no two
    webhooks have one in hand, nor one that was handled. It has to speak of the
    stage between the two inserts, where the id is recorded and nothing else is.
  * `WordsApart`: of two entries with the same words that were let in, one came
    a window after the other, and `content` has the time of the later. That is
    why a row has to be renewed: with the time of the first (`InsertedOnce`), the
    second and a third could be close together.
  * `Answered`: words whose id is recorded were let in by someone, are being looked
    at, were said by the agent, or were lost. It needs its own account of words
    that are in `content` (`Accounted`): words are turned away as a repetition
    only if the sighting they repeat was let in, said or lost itself. An echo is
    only taken for one if the agent said it, although the list that is compared
    with forgets (`SpokenTyped` relates it to `said`).
* `PeopleAreHeardOnce`: `Spec => []HeardOnce`, from the three parts.

`ServicesTypes` puts the three parts' types together: `Spec => []TypeOK`.

### OutreachProofs

Under `ServicesAssumption`, which here says that an account has finitely many
phones, one at least, and that its two allowances are numbers. Again about
`Spec` of `Services`, and reduced to the outreach by `ServicesRunOutreach`.

* `OutreachInvariant`, `OutreachTypes`: `IInv` is `TypeInv` (a task's fields fit its
  stage, and a message is only sent to a seller, poster or dealer there is) and
  one part for each of the services. A step belongs to one service and leaves
  the parts of the others alone (`PhotosStill`, `RemindersStill`, `OffersStill`,
  `LookupsStill`); a failure or a restart touches all of them.
* `NobodyAskedTwice`: `Spec => []AskedOnce`, three arguments for three mechanisms.
  Photo requests have no claim: `PhotosKept` says that a pair was asked once more
  than is excused only while the request is on record and fresh or its handler
  is about to record it. That needs `Apart`: nobody's messages are handled twice at
  once. Reminders have one flag in memory: `OneRunner` says that who runs has it,
  `RemindersKept` that what a run still has to send has not been sent, and that an
  expiry of which somebody was told is the one reminded of, or about to be, also
  when the posting is extended between the message and the claim. Offers
  have an insert that only one can make: `OffersKept` says that who tells a
  dealer made it, and nobody was told before.
* `AllowancesKept`: `Spec => []LookupsBounded`. `LookupsKept` adds to what is recorded
  the phones that were let through (`FreeAsks`, `PaidAsks`), and bounds the total,
  which the gate reads, from below by what is recorded less what is about to be
  counted or never will be (`Counts`, `missed`). A phone that is let through is
  none of those, by `Apart`, so that they are fewer than the phones.

### ConversationProofs

Under `ConversationAssumption`: any watches, prices, conversations, results of
a search, item cap and allowance, and any number of handlers. `IInv` says of the
record that it is right (`Good`: known fields, one draft, a held request with a
draft to wait for, no more approvals than were counted) and that a draft under
review is the one the last review shows (`Shown`), and the same of every copy of
the record that a handler will write back (`Duty`). This is where a stale copy
would hurt: that one handler at a time has work (`Alone`) comes from `Free`, the
queue of the phone; the admin tools write between a handler's read and its
write, and the theorems hold because no part of `Duty` mentions the record that
is overwritten.

* `ConversationInvariant`, `ConversationTypes`.
* `DraftsAreSingle`: `Spec => []OneDraft`. The lemmas about `Settle`, `StartDraft` and
  `Reply` say when a draft is begun: only where none is open and nothing is held.
* `PostedAsReviewed`: `Spec => []ReviewedBeforePosted`. Nothing is posted but what
  the last review says, whether that review arrived or not: an answer to a draft
  always writes one, and a reply that writes none saves a record without a draft,
  or one whose draft is under that review (the item cap's refusal, `else`).
  `AskedStep` adds that a draft under review has its price, so that what is posted
  is a posting. The second half, that the review was seen or lost before (`Reached`),
  rests on `Receive`, which is an assumption about customers and not a guard of
  the code, and on `Lasting`: a new review is written only by a handler at
  "answer", and while one is at work no other handler posts. It is false for
  hasty customers, and for them the theorem does not claim it.
* `ApprovedAfterCount`: `Spec => []ApprovalsCounted`. A handler that waits to count an
  approval may save one more than is counted (`count` in `Duty`).
* `InsertedOnce`: the action property `ConfirmedOnce`. Between the look for a
  posting of the same item and the insert nobody adds one: the customer's
  other messages wait, and the reset of an account only takes postings away.
* `PlanEndsFirst`: the action property `StopEndsPlan`. A copy of the record says
  "opted out" only in the hands of who is about to end the plan, or has, with its
  charge stopped or refused (`Ended`, which nothing undoes: `Lasting`);
  `StageStays` says of every other message that it does not opt anybody out. That
  a refused charge ends is not claimed.

### What stays with TLC

Liveness (`SavedCardResolved`, `RevealedIsDelivered`, `CallsEnd`,
`QualifyingIsMatched`, `RecipientsAreTold`, `OwnersSeeMatches`) is out of the
prover's reach, as is ENABLED, of which fairness is made. Every other property
the runs check is a theorem.

## 6. Assumptions about what is outside `src`

PostgreSQL: READ COMMITTED, row locks and foreign-key share locks as its manual
describes them, deadlock detection ends one member of a cycle. Authorize.net:
cancelling an ended subscription succeeds; a call whose effect happened and whose
answer was lost is the model's step followed by a throw of the next call, which
leaves the same state (a lost answer of the charge is the fault `arb`).
WatchFacts: each fetch, or page of one, is a snapshot of the open auctions, the
newest first. Messaging providers: a webhook may come again at any time, under
its id or another; a send that throws may have reached its person.

## 7. Not modelled, and why

Pure text and number work (parsing, normalization, scores, market prices, AI
calls) has no protocol and is better tested; the models take its results as
inputs. Channels, signature checks, admin views and configuration are I/O. The
backend's monitor job is the same send-then-mark as `Outreach`'s reminders;
merging of accounts and the connection pool of the backend are hazards on the
list without a model. Group monitoring, the concierge and the closing of
duplicate postings are single statements. A cancellation that races an
activation is in the model, but the code does not say which should win, so no
property decides it.

## 8. Plan

1. The modules above: done.
2. Theorems: of the checkout, the approvals, the surfacing, the agent's
   matching, the scheduler, the outreach, the inbox, the conversation and the
   inventory: done, every safety property the runs check.
3. Abstract specifications: the inventory's and the purchase, done; an
   introduction (disclosed only after approval and consent) implemented by
   `MatchApproval` is left.
4. The backend's connection pool, the monitor job, and account merging.
