# Formal models of vortex-core

vortex-core is a multi-tenant ERP platform in Rust (axum, sqlx, PostgreSQL).
One or more server processes share one PostgreSQL server; every tenant has a
database of its own there. Almost all state lives in tables, and almost all of
the program's hard behaviour comes from *sequences of separately committed SQL
statements* run by several processes at once, plus a few in-process structures
behind async locks. This directory models the parts where the order of those
steps decides whether the system is correct.

Paths below are relative to the repository; `framework` stands for
`crates/vortex-framework/src`, and so on.

## Inventory

| Part (source) | State | Operations | Interacts through | Hard behaviour | Correct when |
|---|---|---|---|---|---|
| **Job queue** (framework/jobs.rs, migration 129, `/settings/jobs`) | `ir_job` rows; the tasks a worker has spawned | enqueue, claim a batch, run, record the outcome, retry, cancel | producers insert rows; workers on all servers poll them | claims race; a worker dies between claim and outcome; outcomes are written by id alone | one execution per job; a dead job was really tried; an enqueued job settles, or others endlessly go first |
| **Batch engine** (framework/batch.rs, batch_admin.rs) | `batch_run`, `batch_run_item`, chunk jobs | add_items, start, chunk handler, retry_exceptions, pause, resume, cancel | enqueues chunk jobs on the job queue; counters on the run row | every function is several autocommitted statements; chunks overlap; pause races a chunk | completed means all items done; counters agree with rows; no item is lost |
| **Audit ledger** (security/audit/pg.rs, verify.rs, migration 114) | `audit_log`, `audit_chain_head` | write (one transaction), verify_chain | every component writes entries; the verifier reads rows | concurrent first writers of a chain; a connection lost before or after commit | a chain never forks or gaps; an acknowledged entry is in it; the verifier's walk finds no broken link and no wrong hash |
| **Pool manager** (orm/pool_manager.rs) | map of pools (async RwLock), reservations (mutex) | get_pool, remove_pool, evict_idle_pools | every request asks for its tenant's pool | two locks, released between steps; futures dropped at awaits; eviction waits for borrowers under the write lock | the budget holds, beside what was registered; no reservation leaks; no pool is replaced; calls return |
| **Stock ledger** (inventory/service.rs, handlers.rs) | `stock_move`, `stock_quant` | enter, validate, cancel a move; apply a count | sales and purchase post moves | a count locks a row that may not exist yet | on hand is what the done moves say; a count lands on what was counted |
| **Sales** (sales/handlers.rs, plugin.rs) | `sales_order` and its lines, per revision | edit, send, lose, expire, confirm, revise, cancel, deliver, confirm service, invoice | stock ledger, accounting drafts | every request is several autocommitted statements after one look at the state | one revision of a family ships, no more than was ordered; bills follow deliveries |
| **Purchase** (purchase/handlers.rs) | `purchase_order` and its line | edit, send, confirm, revise, cancel, receive, bill | stock ledger, accounting drafts | as above | receipts are recorded; an order is billed once |
| **Journal and fiscal year** (accounting/service.rs, documents.rs, closing.rs) | `acc_move`, lines, lock date, year | draft, expand, post, reset, reverse, close, reopen, lock | numbers, audit ledger | the lock date and the year are read on other connections; line expansion is separate | a closed year stays as closed; an invoice has its lines once |
| **Settlement** (accounting/documents.rs) | residuals, payment states, `acc_partial_reconcile` | pay, match, refresh, cancel by reversal, reset | journal | two payments read the same open amount | nothing is settled twice; residual and state say what the matches say |
| **Assets, cheques, recurring, bank lines** (accounting/assets.rs, banking.rs, recurring.rs) | schedules and their marks | depreciate, dispose, clear, bounce, generate, match with an existing or a new entry | journal, scheduler | post first, record afterwards | every period, cheque and occurrence is posted once; a counterpart exists for a line that is matched with it |
| **Workflow and change requests** (workflow, change) | instances, history | create, number, transition | policies, audit ledger | the instance is read without a lock; three separate writes | the history explains the state; nobody approves their own request |
| **Approvals** (framework/approval.rs, contact status) | requests, decisions | ask, decide, apply | the record's stage | several deciders; the last vote applies the transition | no transition without the quorum of every step |
| **Scheduler** (framework/scheduler) | `scheduled_actions` | register, claim, run, record | handlers of every component | claims of several servers; a crash before the result | one fire per interval; every claim is accounted for |
| **Snapshots** (framework/snapshot.rs) | sets, records | create, freeze in batches, seal | reports | the seal check and the inserts are separate | a sealed set never changes |
| **Record cache** (orm/cache.rs, connection.rs, model_impl.rs) | cached records per server | find, save, delete, drop, notify, listen | LISTEN/NOTIFY | a fill races a drop; copies are keyed by the reader's company | a copy that is stale is about to be dropped |
| **Intake** (framework/intake.rs) | forms, submissions, blobs, target records | submit, hold, approve, reject, sweep, delete the form | file store | approval races rejection and the sweep | a submission settles once and its upload stays with it |
| Sequences, idempotency keys | counters, keys | one statement each | documents, API | - | atomic by themselves |
| Policy, sessions, access control, cryptography | tables | evaluate, log in, check | middleware | - | not a question of order |
| Forms, lists, reports, i18n, mail, files, plugins, CLI, ORM text generation | - | rendering, I/O, SQL text | - | - | not modelled |

The parts in bold have a module.
`PROJECT.json` lists all of these with their files and status, and the hazards
of the code, each at its line with the property that would catch it.

## Modules

    JobDelivery  <== implements == JobQueue          CoreProofs
         ^ used by
    BatchRun                                         BatchRunProofs
    AuditLedger  <== implements == AuditChain        CoreProofs
                                   PoolManager       PoolManagerProofs -> Sums

    StockLedger                                      BusinessProofs
       ^ extended by SalesOrders, PurchaseOrders        (trade)
    Postings, PeriodEntries                             (books)
    Settlement                                       SettlementProofs -> Sums
    ChangeRequests, Approvals, Scheduler,            BackOfficeProofs
    Snapshots, RecordCache, Intake
       all of these composed in MCBusiness           MCBusinessProofs

`MCJobQueue`, `MCBatchRun`, `MCAuditChain`, `MCPoolManager` and `MCBusiness`
give the constants their values for TLC.

Conventions. An action has the name of the function or statement it models. A
statement outside a transaction is one step. A definition named
`X_Something`, introduced as "a slip", is `X` with a plausible bug; it is not
part of any specification and is used to confirm that a property would notice.
Bounds (`MaxCrashes`, `MaxClock`, ...) appear only in guards, so a theorem
holds for every value of them. Modules that are extended together (`CoreProofs`,
`MCBusiness`) share no names: where they would, `Init`, `Next` and the like
carry a prefix (`AuditInit`, `SettlementNext`).

### JobQueue and JobDelivery

`status`, `attempts`, `lockedBy` are the columns of `ir_job`; `due` replaces
`run_at <= NOW()`. `locks[w]` are the rows that the claim statement of worker
`w` holds between its `SELECT .. FOR UPDATE SKIP LOCKED` and the commit of its
`UPDATE`: the claim is the one statement split in two, because SKIP LOCKED
makes its middle visible. `runs` holds one record per `run_one` task, with the
attempt it was spawned for.

| code | action |
|---|---|
| `enqueue` | `enqueue`; `enqueue_more`, the same INSERT under a name that a settled job no longer needs, so that producers never have to stop |
| `JobWorker::tick` | `ClaimSelect`, `ClaimUpdate`, or `ClaimAnswerLost` when the connection drops after the commit |
| `run_one` | `RunHandler`, then `RecordSuccess`, `RecordDead`, `RecordRetry`, or `RecordNothing` (`let _ =` drops a failed UPDATE; so does a backoff `POWER(2, attempts)::int` that overflows) |
| process crash | `Crash` |
| jobs page, retry, cancel | `jobs_list`, `job_retry` (from any page that once offered it: the UPDATE names only the id), `job_cancel` |

`JobDelivery` is the producer's view: wait, attempt, retry up to the limit, end
done, dead or withdrawn; void once an operator resubmits a job under a running
attempt. `Delivers` says that JobQueue implements it (`status`, `attempts` and
the overlapped jobs are the mapping).

### BatchRun

The items of one run, its counters and its status, with `JobDelivery` as the
queue of its chunk jobs. `call` holds the position of each caller inside
`start`, `add_items`, `retry_exceptions` and `resume`; `exec` the position of
each chunk handler. Every SQL statement is a step, with one exception:
`DispatchPage` joins the SELECT of a page of pending ids and the INSERT of its
chunk job. An item that stops being pending between those two would only be an
id in the payload that `LoadItems`, which reads item status again, leaves out.
`BeginChunk` may find no run at all: without the tenant's pool the handler gets
the primary one (`jobs.rs:45-52`), where the run is not, and ends with success;
its items stay pending, and the fault is counted.
Taking the queue at its contract assumes that no operator resubmits a chunk job
while an attempt at it is under way (`void` stays empty).

### AuditChain and AuditLedger

`log` and `head` are committed rows; `call[e]` is the transaction that writes
entry `e`: `Begin`, `LockHead`, `InsertRow`, `AdvanceHead`, `Commit` follow
`PgAuditStorage::write`. `LockHead` waits for the holder of the head row, but a
head that is not committed yet cannot be waited for; `InsertRow` waits on the
unique index for an uncommitted row at the same place and fails on a committed
one. A hash is the sequence of entries it was computed over, so SHA-256 is
taken as injective. `Route` gives the chains an entry may end up in: an entry
of a tenant without an open pool falls back to the primary database.
`BrokenLinks` and `HashMismatches` are the verifier's walk over links and
hashes, and all that is said of it: signatures and clock skew, which it also
looks at, are not modelled. `AuditLedger` says
that histories only grow at their end and that an acknowledged entry is in one.

### PoolManager

`pools` is the map with, per entry, its size, last use and the tasks it was
given to (a close waits for any subset of them: those with a connection);
`creating` the reservations; `call[t]` where task `t` is inside `get_pool`;
`closing` the one task that closes a pool while holding the write lock, with
the borrowers it waits for. A step that needs the lock of `pools` is guarded by
`Unlocked`; the critical section of the `creating` mutex is one step
(`Reserve`). `Cancel` drops the future at any await, `ConnectFails` is a failed
connect; both release the reservation because `Reservation` does so on drop.
`Granted` is what the doc comment's budget speaks of. `stale` only observes
that a reservation was computed from a sum that has since grown. The pool that
`register_pool` put in has one of `PrimarySizes`, which nothing relates to the
global budget: `register_pool` inserts without a look at it.

### The business modules

These share one way of modelling a request handler. A handler reads something,
checks it, and then commits several statements one after the other, with
nothing locked in between. The model keeps one record per actor (`req`, `buy`,
`clerk`, `desk`, `runner`, `errand`, `signer`, `freezer`, `callers`,
`handling`) with the position of its current request and what it has read; each
statement is an action. A request may end after any of them (`AbandonSale`,
`AbandonPurchase`, `Drop`, `LeaveDesk`, `Halt`, `LoseRequest`, `LoseTask`,
`LoseRun`, `StopFreeze`, `CutShort`, `CallEnds`): the client disconnects, the
statement fails, the process dies.

The code is right when requests do not meet and often not when they do. So that
the properties say exactly that, each module has variables that only observe: a
record is put into such a set when two requests relied on it at the same time,
or when one that had begun to change it ended early (`overlapped`, `edited`,
`dropped`, `twice`, `late`, `retired`, `raced`, `outdated`, `crossed`, `behind`,
`overlaid`, `entangled`, `severed`, `unread`, `contested`, `halved`,
`bypassed`, `rests`, `lost`, `overtaken`, `doubted`, `disputed`, `unfinished`,
`uncounted`). No guard reads them. A property names the ones it
excepts, and thereby which interleavings the code does not survive.

**StockLedger.** `quant` is `stock_quant` by location, `flow` the done moves
added up by route. `PostDone` is `service.rs::post_move` (a move row and two
`adjust_quant`) as sales and purchase call it; `create_move`, `validate_move`,
`cancel_move` are the pages; a count is `BeginCount`, `ReadOnHand` (the `FOR
UPDATE` that locks the row if there is one), `CommitCount` or `RollbackCount`.

**SalesOrders** and **PurchaseOrders** extend it.

| code (sales; purchase) | actions |
|---|---|
| `save_quote`, `add_line`, `delete_line` | `EditCheck` then `save_quote`, `InsertLine`, `add_line`, `delete_line`, `EditEnds`; `Look` then `WriteLine` |
| `confirm_order` | `CountLines`, `confirm_order` (the unique index refuses a second live revision), `SupersedeOthers`; `Look`, `confirm_po`, `SupersedeOtherRfqs` |
| `revise_quote`; `revise_rfq` | `ReadSource`, `RefuseIfLive`, `revise_quote`, `CloneLines`, `SupersedeSource`; `Look`, `RefuseIfLivePo`, `revise_rfq`, `CloneLine`, `SupersedeRfq` |
| `process_delivery`, `process_service_confirmation`; `process_receipt` | `FulfilCheck`, `ReadOutstanding`, per line `ServeLine` and `AdvanceDelivered` (or `AdvanceLost`), `CountOutstanding` (or `CountFails`), `MarkDelivered`; `Look`, `ReadMissing`, `process_receipt`, `AdvanceReceived`, `CountMissing` (or `CountFails_`), `MarkReceived` |
| `create_customer_invoice`; `create_vendor_bill` | `InvoiceCheck`, `ReadBillable`, `create_customer_invoice`, `AdvanceInvoiced` per line; `BillCheck`, `ReadBillLines`, `create_vendor_bill`, `LinkBill` |
| `mark_sent`, `mark_lost`, expiry, `cancel_order` | one statement each, one action each |

**Postings.** `mv` holds per move its kind, state, year, how many sets of
ledger lines it has and whether it was reversed. `post_invoice` is
`post_request`, `WipeLines`, `ExpandLines`, `CommitLines`, then
`service.rs::post_move`: `LockMove` (`FOR UPDATE`), `ReadLockDate`,
`ReadFiscalYear` (both on other connections), `post_move`. `reset_to_draft`
ends in `unpost_move`; `reverse_move` is followed by `CreateCounter` and
`LinkReversal`, which lock nothing of the original. Closing is
`close_fiscal_year`, `CountDrafts`, `ReadBalances`, `PostClosingEntry`,
`MarkClosed`, `AdvanceLock`; reopening `reopen_fiscal_year`, `MarkOpen`. Amounts
are abstracted to which moves a closing entry takes out (`zeroed`).

**Settlement.** `entry` is what `acc_move` says of invoices and payments
(posted, total, residual, payment state, reconciled), `pairs` the rows of
`acc_partial_reconcile`, `credited` those against a reversal. A payment is
`post_settlement` (match chosen legs) or `register_payment`, then
`ReadLegs`/`NewPayment`/`ReadInvoice`, one `MatchNext` per leg, and
`refresh_payment_state` for each entry touched (`ReadOpen`,
`refresh_payment_state`, `FlagReconciled`). `cancel_document` is
`ReadToCancel`, `PostReversal`, `FlagReversed`, `MatchReversal`,
`MarkReversed`; the resets are `reset_document`, `Unpost` and
`reset_payment_to_draft`, `FindAffected`, `DeletePairs`, `Unpost`; `repost`
posts an entry again.

**PeriodEntries.** Four records of the same shape. `confirm_asset`,
`InsertMonth`, `SetRunning` build the plan; `ReadDue`, `post_due_depreciation`,
`FlagMonth`, `MarkFully` is a run; `ReadAccumulated`, `dispose_asset`,
`SetDisposed`, `DropPlanned` a disposal; `ReadCheque`, `PostCheque`,
`FlagCheque` clear or bounce. A recurring entry is `ReadNextDate` (the date
that the list of `generate_due` or the button hands on), `ReadTemplate` (which
reads `next_date` again), `generate_occurrence` and `AdvanceNextDate`; without
`auto_post` the entry stays a draft, which the lock date does not refuse, and
the date is advanced just the same. A draft that a refused posting of a
template with `auto_post` leaves behind is not counted. A statement line is
matched by `match_line`, which looks at nothing: with an entry that is there
(`match_one`, which also stands for each line of `auto_match`, from a page that
may be old), or with one posted for it (`ReadLine`, `quick_counterpart`,
`MatchCounterpart`). `posted` counts the journal entries made.

**ChangeRequests.** `cr_transition` reads the instance, the edge, the policy
and the requester (`lost` is a failed look at the requester, which
`unwrap_or_default` turns into nobody); then `LogTransition`,
`record_transition`, `update_instance_state`, three commits. Creation is
`create_instance`, `generate_cr_number` (count + 1, refused by the unique index
when two draw the same, and tried again), `InsertRequest`.

**Approvals.** `change_contact_status`, `requires_approval`, then `MoveRecord`
or `create_request` and `InsertRequest_`. `create_request` takes a failed look
for a pending request for none, so a record can have two. `decide` is the eligibility check,
`Vote` the inserted decision, then `RejectRequest`, or `CountApprovals` and
`Advance` or `apply_transition` and `Resolve`.

**Scheduler.** A server starts with the definitions of its release
(`upsert_definition`): a new action takes interval and enabled flag from it; of
one that is there only the interval is refreshed (`Refreshed`), next call and
active flag stay. `claim_due` is one UPDATE that moves `next_call` on past the
present, `HandlerDone` and `record_result` the rest of the supervisor's loop,
`LoseRun` a death or a failed result, `Operator` an UPDATE made by hand. `rests`
keeps the interval that was in force at the last claim.

**Snapshots.** `create_set`, `freeze` (check, then the keys to insert),
`InsertBatch` (`ON CONFLICT DO NOTHING`), `seal`.

**RecordCache.** One record of one model that has opted in. `copies` holds per
server and company scope the version cached (scope 0 is a context without a
company). `find`, `SelectRow`, `put`; `save`, `InsertRow` or `UpdateRow`,
`AfterWrite`, `invalidate_record`, `Notify`; `delete`, `DeleteRow`, and the
same drop. `Listen` applies a notification, `Disconnect` loses those on their
way, `Reconnect` listens again (the copies held meanwhile stay), `Forget` is expiry or
eviction. The eviction order is not tracked: a `put` at the limit evicts any
copy. No caller outside `vortex-orm` uses the cache yet, and it is off unless
configured.

**Intake.** One form. `submit` (uploads stored first; `within_cap` is the count
of the day), then
`Hold`, or `insert_target_record`, `link_attachments`, `Settle`;
`approve_submission` joins the same three steps; `reject_submission`;
`sweep_orphaned_attachments` and `delete_form` run `CheckReference`,
`DeleteBlob`, `ClearPointers`, `EndReclaim`. The sweep's grace period is an
operator's setting and may be zero, so it is left out; whether the form holds
submissions may change between them.

**MCBusiness** composes them. Sales and purchases act on the same stock ledger.
The others share no table in these models, so `focus`, chosen at the start and
never changed, says which of them moves; a product of independent components
would show nothing more. `Scope` bounds what a component does at once. `Init`
starts sales also with an older quotation beside
a sent or confirmed order, settlement also with a partly paid invoice, and a
purchase as RFQ or confirmed order, states that earlier requests lead to.

## Runs

| run | question | instance |
|---|---|---|
| `jobqueue` | do claims, retries, dead-lettering, crashes and operator actions keep one execution per job and the delivery contract, and what can starve a job while producers never stop? | 3 names for jobs, used again and again, with 3, 2 and 1 attempts, one of them of a higher priority, 2 workers, batch of 2, 1 crash, 1 lost statement, 1 operator retry, integers up to 3 so that the backoff of the third attempt overflows |
| `jobqueue_restart` | does a job survive a restart of its server, as the docs promise? **violated** | 2 jobs, 1 crash |
| `batch` | do completion and counters stay tied to the item rows, and is no item counted twice? | 2 items, 2 chunk jobs of up to 2 items and 2 attempts, 2 callers, 2 dispatches, 2 other calls, 1 crash, 2 failing statements |
| `batch_live` | is every pending item of a running run processed? | 2 items, 4 chunk jobs of 1 item, 1 caller, no faults |
| `batch_stranded` | can a finished run be left in running? **violated** | as above |
| `batch_overlap` | is the processor run only for pending items? **violated** | as above |
| `audit` | do racing writers keep every chain intact and verifiable? | 4 writers, 2 chains (one entry may go to either), 1 lost connection, 2 clock values |
| `audit_range` | does verifying a timestamp range give false alarms? **violated** | as above, no faults |
| `pool` | do failures, cancellations, evictions and races leak, replace or block? | 2 tasks, 2 tenants and the primary, 3 connections in all (1 to 2 per tenant; 1 or 4 for the primary, which is registered and may so exceed the budget by itself), 3 calls, 1 fault, 1 removal, clock to 2 |
| `pool_budget` | is the budget hard? **violated** | 2 calls, nothing goes wrong |
| `business` | do stock, orders, bills, books, histories, outcomes, snapshots, copies and submissions stay in agreement, but for the interleavings the properties name? | two actors, see below; 1.7 million distinct states |
| `skipped_depreciation` | is a month that could not be posted retried? **violated** | one asset of two months |

What `business` checks, by component:

| component | property | it says |
|---|---|---|
| stock | `OnHandIsTheMoves` | the balance of a location is what its done moves brought in less what they took out, whoever posts them |
| | `CountLandsOnCounted` | a count that found a row to lock ends at the counted quantity |
| sales | `ShipmentsMatchOrders` | no line ships beyond the order, two revisions never both ship, delivered means fulfilled - except after overlapping deliveries, stale edits, lost updates, or an overwritten revision |
| | `BillsFollowDeliveries` | nothing is billed beyond what was delivered, except by two invoices at once, one cut short, or a stale edit |
| purchase | `PurchasesMatchReceipts` | billed once, receipts recorded, one revision receives; same kind of exceptions |
| journal | `ClosedYearIsCovered` | the closing entries of a closed year take out exactly what is posted in it, except for requests that looked before it closed and two closes at once |
| | `LedgerLinesOnce` | a posted invoice has its lines once, unless two requests expanded them together |
| settlement | `BooksAgree` | nothing is settled beyond its total; at rest residual, state and flag are what the matches say, a cancelled invoice is out in full, a draft has no matches |
| period entries | `PostedAsRecorded` | what is posted for a month, cheque, occurrence or counterpart is what its row records, but for two requests on one row, one cut off in between, and a suggestion taken for a line that has its counterpart |
| change requests | `HistoryExplainsState` | every history row has its audit entry, the state is one the history leads to, no self-approval, and a request that was not raced or cut short has a history that is one path |
| approvals | `QuorumBeforeTransition` | no transition is applied for a request without every step's quorum of eligible approvers, without exception (a gate that was not seen makes no request: `bypassed`) |
| | `OutcomeIsTheDecision` | a request's status is what was decided and it was applied once if approved, unless two people decided at once or a decision was lost halfway |
| scheduler | `OneFirePerInterval` | after a claim the next one is not due before the interval in force then is over, whatever releases set since, unless an operator put it forward; and each claim is a result, a loss or a run going on |
| snapshots | `SealedStaysAsSealed` | a sealed set keeps what it was sealed with; only a freeze under way may add |
| cache | `StaleCopiesAreDropped` | a stale copy is about to be dropped, unless a crossing find put it back, the write named another company, or the drop was lost |
| intake | `SubmissionsSettleOnce` | one record per accepted submission, none for a held or rejected one, linked uploads stay, the cap is overrun only by what is under way |

Why these bounds suffice for the questions asked: the races are between two
parties (two claims, two callers, two first writers, two creations), so two of
each meet in every order; three jobs with a batch of two leave one row out of a
claim, so that priority and SKIP LOCKED matter; two entries behind the first
two of a chain make links between non-first rows; three connections fit the
primary and one tenant of two, or two tenants of one, so creation under
pressure, refusal and eviction all occur. One fault of each kind can fall
between any two steps. The theorems below remove the bounds for the safety
properties they name.

Bounds of `business`. Every component has the same two actors, interchangeable
(`Alike`, the symmetry set). Sales: two lines (2 stocked, 1 service), 2
revisions, 3 multi-statement requests, 1 fault; so a delivery can meet another,
a revision or an edit, and a third request sees the outcome. Purchase: 2
wanted, 2 revisions, 3 requests, 1 fault. Stock: quantities to 2, 1 entered
draft, 3 counts (two can overlap after a first one has made the row). Postings:
2 moves, 3 requests: an invoice, and the closing entry or reversal beside it.
Settlement: 1 invoice of 2, 2 payments, 2 requests, 1 that ends early; the
partly paid start stands for a third. Period entries: 2 months, 4 runs, 1 that
dies; a template without `auto_post` is run with nothing else, and a suggestion
is taken while the other records are untouched. Change requests: 2 instances,
one attempt at a number (the code makes five), 3 transitions, 1 loss. Approvals:
3 members, of whom m1 holds the role of the first step, m3 that of the second
and m2 both; two steps asking for 1 and 2 approvals; 1 lapse, or a second
request by the same user once the first was approved. Two requests that are
pending together, which takes a failed look, are beyond the run (5.1 million
states for approvals alone, in which nothing was found); the theorems cover them. Scheduler: 2
servers, 2 actions of interval 2, time to 3, 1 upset, so a server can be a full
interval behind; after the upset releases may define interval 1 or 2 for one
action. Snapshots: 2 keys in batches of one, 2 versions, 3 freezes. Cache: 2
servers, 2 companies, room for 1 copy, 3 calls, 2 writes, 1 gap of the
listener. Intake: 3 submissions at a cap of 1, so that one can come too late
for the cap to be overrun by concurrency, or 2 and a slip; 3 records.
Larger instances of the last two (calls without a bound: 13.8 million states; three submissions at a cap of 2:
12.7 million) found nothing else; they take too long to be kept as runs.

Deadlock checking is off in every configuration: bounded calls and clocks end,
and a queue with nothing to do rests. That nobody waits for ever is stated by
the liveness properties instead.

### Fairness

- JobQueue: the clock passes each `run_at`; a live worker polls, its handlers
  return and its statements complete (`Progress(w)`, weakly fair as a whole:
  `tick` awaits all it spawned before the next poll). Nothing is assumed of
  operators, faults or producers. Under this a job need not settle: producers
  that never stop insert jobs of a higher priority, and the claim's `ORDER BY
  priority DESC LIMIT n` takes these first. `SettlesUnlessOutranked` says that
  only such a stream starves it.
- BatchRun: a call that has started runs on, and chunk jobs are taken and run.
  The latter is `SettlesUnlessOutranked` of the queue, and takes besides that
  jobs of a chunk's priority or above do not arrive without end; the live run
  has no crashes.
- PoolManager: tasks are polled and connects return; a closing pool with no
  borrower left finishes. Callers give their connection back without asking
  for another pool first.
- The modules of `business` state safety only and assume no fairness: a request
  may stop anywhere, which is what the code allows (a client that disconnects
  drops the handler at its next await).

### What is violated

Each of these is listed under `findings` with the line it contradicts.

1. A crash between claim and outcome leaves a job in `running` for ever; no
   code looks for such rows, and Retry is offered only for dead and cancelled
   ones (`jobqueue_restart`). The `jobqueue` run shows that faults of this kind
   (and a backoff overflow from 32 attempts on) are the only way there.
2. `start` marks the run running after it has enqueued all chunks; if workers
   finish first, nobody completes the run (`batch_stranded`). Counters still
   agree, and no item is lost.
3. Overlapping chunks may run the processor for an item that has been finished
   since they loaded it (`batch_overlap`); the item row itself stays right
   (`SucceededIsFinal`).
4. Verification limited to a range that starts after a chain's first entry
   reports a broken link (`audit_range`); a full one reports neither a broken
   link nor a wrong hash (`LinksAndHashesClean`).
5. Two creations can exceed the connection budget, because the committed sum is
   read under one lock and used under another (`pool_budget`).
   `OnlyStaleSumOvercommits` shows this to be the only cause, but for a
   registered pool that takes more than the budget by itself
   (`pool_manager.rs:438`); beside that one nothing is opened (`PinnedAlone`).
6. A month that is behind the lock date is skipped; when the last month posts,
   the asset is marked fully depreciated although the skipped one is still
   planned, and `post_due_depreciation` looks only at running assets
   (`skipped_depreciation`).

Disagreements of text and code met while modelling, described by the models but
given no run of their own:

- `open_counterpart_line` is documented for "a posted document"; its SQL has no
  state filter, so an out-of-date page can match a draft (`crossed`).
- `revise_quote` copies the lines without `display_type`; a section or note row
  then violates `chk_sol_qty`, the error is ignored and the revision has no
  lines at all.
- workflow/engine.rs (5-12) and store.rs say that history and audit entry are
  written "in the same transaction"; there are three commits, hence `severed`.
- workflow/store.rs:9-11 says that the store "uses `FOR UPDATE` locking on
  instance rows during transitions so concurrent state changes on the same
  instance serialize correctly"; `get_instance` is a plain SELECT and the state
  is written by id, so two transitions can both commit (`entangled`).
- snapshot.rs:18-19 calls a sealed set "immutable"; `freeze` looks at the seal
  once and then inserts in batches, so a set sealed meanwhile still gains
  records (`overtaken`).
- A failed look at a change request's requester, at the approval rules or at
  the count of open lines falls back to a default (`unwrap_or_default`,
  `unwrap_or(0)`) and opens the gate it was for (`unread`, `bypassed`, the
  `"count"` marks).
- "The record stays put" while an approval is pending; an ungated button may
  move it, and `apply_transition` does not compare the stage it came from. A
  failed UPDATE of it still ends as approved (`halved`).
- `create_vendor_bill` calls itself idempotent; it checks and later links
  (`twice`).
- sequence.rs promises "no-gap"; `next` commits on a connection of its own, so
  a posting that fails afterwards leaves a gap.
- model_impl.rs:583 ("so a stale copy can't outlive it - locally and on every
  other app instance") and connection.rs:222 ("never stale") do not hold for a
  find that crosses the write, a context without company, the old company of a
  record that moved, and a lost NOTIFY (`doubted`).
- intake.rs:1025-1026 says a failed blob deletion "will be retried on the next
  run"; the sweep clears the pointer all the same. intake.rs:1035 says "never
  reclaim a blob a live record still points at"; a reference check that fails
  counts as no reference, and an approval may link between check and deletion
  (`disputed`). "No record is ever written" for a rejected
  submission overlooks an approval that had read it before.

## Proofs

All are checked by tlapm with SMT, Zenon and the PTL backend, for every value
of the constants that satisfies the named ASSUMEs (each also evaluated by TLC).
Every safety property, action property and type invariant that a passing run
checks has a theorem. The
assumptions are about sizes and bounds (a bound is a natural number, there is
at least one of what the code cannot do without); the pool manager also assumes
finitely many tasks and databases, which every process has and a sum over them
needs, but nothing of the size of the registered pool. `OneCast` of `MCBusiness`, one set of actors for all components, is for the
symmetry of its run; no proof uses it. Leaves on which one prover is known to do
better name it (`ZenonT(90)`, `SMTT(60)`): the time is room for a slower machine,
not what they take.

All proofs have the same layout: an invariant made of named parts, a lemma per
action (one step per part the action can disturb), and a last theorem that
joins them by PTL. What makes an invariant inductive is mostly the same thing:
*what a request has read is still so, unless somebody it relied on was
recorded as having crossed it*.

**CoreProofs, job queue.** `Typing`, `Ownership`, `Exclusion`, `Exhaustion`,
`Staffing`, `Delivery`. `ExecutionOwnsRow` is not inductive alone: a claim is
two steps, so the invariant also says that rows locked by a claim are pending,
due, held by one worker and not executed by anyone unless overlapped. That is
what makes the status-blind outcome UPDATE safe. `Exhaustion` adds how failed
runs and attempts are related in each status. `Staffing`
proves that until the first crash or lost statement every running row has its
task, so that only these leave a job in `running`. `Delivery` maps every step to a
step of `JobDelivery` or a stutter under the same invariant.

**CoreProofs, audit chain.** `AuditTypes`, `Integrity`, `Collisions`, `WalkFindsNothing`,
`Refinement`. The invariant has three parts: `ShapeInv` (values), `WritersInv`
(where open transactions stand: those that found no head want position 0 with
no predecessor; one that found a head is at it, holds it and is alone; two
uncommitted rows never share a place) and `OnceInv` (a committed row belongs to
an ended transaction). ChainIntact follows with these: a commit extends a chain
at its head, or is the first commit of an empty one.

**BatchRunProofs.** `BatchTypes`, `CompletedIsDone`, `SucceededStays`,
`CountersHold`, `ChunkJobsAreJobs`. `CompletedIsDone` adds to the property only that
nobody completes a run before its first start (`Unstarted`). `CountersHold`
rests on `Accounts`: what callers have inserted and chunks have written and not
yet added to the counters, plus the counters, are the rows there are. The sum
over callers and chunks is written as the cardinality of a set with one element
per unit (`Heap`), so that the theorems about finite sets apply. `ChunkJobsAreJobs` maps every step
to a step of `JobDelivery` at one chunk job or a stutter; `Delivery` says that the
job table keeps that contract, so the engine may rely on it.

**PoolManagerProofs.** `Typing`, `Reservations`, `BudgetIsKept`,
`PoolsAreKept`, `FreshPoolsAreKept`. `Reservations` follows from `CloserInv` (a
task named by the write lock is in that stage of its call) and `HeldInv`
(reservations and opening calls correspond one to one): `Cancel` and
`CloseDone` need the first so that they never touch an opening call.
`BudgetIsKept` shows that the connections of pools and of openings together
stay within the budget, or only the registered pool is open and nothing is being
opened, unless a reservation was computed from a sum that had grown since: a share is at most what the budget leaves after the sum read and
the reservations, the two sums do not count an opening twice (`HeldInv`), and
an insert turns the one kind into the other. `PoolsAreKept` and
`FreshPoolsAreKept` classify every change of the map (`EveryPoolsChange`) and
use that the evictor's reading of the clock is never ahead of the clock.

**Sums.** Lemmas about `SumFunction` and `SumFunctionOnSet`, with which the
models write sums. The library's induction theorems take an operator as a
parameter and cannot be used; each induction here is on a set of
counterexamples instead, of which a least one is taken and refuted. In this way
the recursion of the fold is shown to have a solution on every finite set; then
the lemmas say what a sum is after one term changes, is added or taken out, and
that it is no less than any of its terms.

**BusinessProofs, trade.** `CountsLand`: a count lands on what was counted.
The invariant `ReadIsCurrent` says what the row lock is worth: while a count
that found a row is under way, what it has read is the balance there is, since
everyone who would change it waits. `OnHandIsBacked`: goods that leave one
location arrive in another. `ReceiptsMatch`, `ShipmentsMatch`, `BillsFollow`:
for each line of each revision the invariant says what has been shipped,
received or billed in terms of what the order records and of the one request
that is between the movement and its UPDATE (`Shipping`, `Invoiced`,
`Received`); two such requests, a lost UPDATE or a stale edit put the line among
the exceptions the property names. That one revision of a family ships rests on
the partial unique index and on `Sold` and `Begun`: a revision that ships or
receives is the live one, or was and has been given up since.
These are proved of each family by itself. `OnHandInTrade`,
`CountsLandInTrade` and `OrdersMatchInTrade` then prove them of `TradeSpec`, in
which stock users, salespeople and buyers act on one ledger at any time (in
`MCBusiness` one of the three moves in a behaviour): sales and purchases touch
the ledger only by `PostDone`, which waits for the row a count has locked.
`TradeTypes` adds the three type invariants under the same specification.

**BusinessProofs, books.** `PostingTypes`, `ClosedBooksBalance`,
`InvoiceLinesOnce`. The first half of the invariant follows a close through
its statements: `DeltaRight` (what it has read is still the difference between
the year and the closing entries, but for outdated moves), `MarkRight` (after
its entry the two are equal), `OneCloses` (two requests at this point make
every move outdated). The second half says that an invoice never expanded twice
at once has no lines while a request expands it. `EntriesAreRecorded`: per
month, cheque, occurrence and counterpart, what is posted is what its row says
plus the one entry of the run that has posted and not yet recorded; a line
matched with an existing entry has no counterpart, unless the suggestion
crossed the posting of one.
`PeriodRowsTyped` is the type invariant of these rows.

**SettlementProofs.** `SettlementTypes`, `BooksAgreeAlways`. The property
speaks of rest: when no request is under way, residual, state and flag are what
the matches say. Its invariant `BookInv` speaks of every state. For each entry
(`Booked`): no more is settled than the total (`Within`); a draft has no
matches unless its reset is under way (`DraftUnmatched`); residual and state are those
of the matches unless a request has still to refresh them (`Agrees`); the flag
says whether anything is left unless a request has still to set it (`Flagged`);
an invoice with a match against its reversal is out in full unless the request
that cancels it has still to mark it (`Reversed`). And for each request
(`Reliable`): what it has read is still so, for an entry nobody crossed it on
(`LegsLeft`, `OpenHolds`, `FlagHolds`, `ReversalHolds`, `CancelHolds`,
`ResetHolds`). Two lemmas carry most of the proof: a step that changes the
matches or row of one entry keeps everything about all others (`EntryStep`),
and one that only moves a request keeps all (`DeskStep`). Amounts are sums over
the matches of an entry, hence `Sums`.

**BackOfficeProofs.** *Approvals*: `ApprovalTypes`, `NothingWithoutAQuorum`,
`OutcomeIsDecided`. The invariant carries the quorum to the transition: the
steps before the one a request, or a task deciding on it, is at have their
quorum (`Standing`); a task past its count knows that of its own step (`SignerKnows`);
decisions come from holders other than the requester (`FromHolders`). Decisions
are never taken back (`QuorumGrows`), so what a task knows stays true whatever
others do. *Change requests*: `HistoryExplains`; every history row leads from
one state to the next, and while nobody else has written, what a handler has
read is the end of that path. *Scheduler*: `FiresOncePerInterval` becomes
inductive with `NothingOfOthers` (nothing is claimed of others), `Rested` (until
an upset every claim lies before the time its action may be called again), and the three cardinalities of `ClaimsBalance` kept apart
by the lemmas for a claim, a result and a loss. *Snapshots*: `SealedSetsStay`,
inductive together with the types. *Record cache*: `CopiesAreDropped`; the
property itself is inductive with the types and with where calls run: whatever
makes a copy stale has the drop before it, in the writer's own steps or on the
channel of its server, or notes that it has not. *Intake*: `SettledOnce`; a
submission is held by one worker at a time, what it has stored is its own until
it is linked, and the daily cap is overrun only by what is under way. The type
invariants are theorems too (`ChangeTypes`, `SchedulerTypes`, `SnapshotTypes`,
`CacheTypes`, `IntakeTypes`). `ChangeTypes` is the one that needs an argument:
a number stays within the number of instances because each request that counts
has an instance of its own that is not numbered yet (`NumbersInv`,
`ANumberIsLeft`).

**MCBusinessProofs.** `EachPartIsItself`: a behaviour of `MCBusiness` is a
behaviour of every part, of `TradeSpec` for the three that share the ledger.
`ComposedTypes` and `ComposedAgreement` follow from it and the theorems about
the parts, and state for every value of the constants what the run `business`
checks on its instance.

**Model-checked only.** Liveness under fairness (`SettlesUnlessOutranked`,
`PendingItemsProgress`, `EveryCallReturns`), which these provers cannot reach;
and the six disagreements, which are counterexamples.

## Not modelled

`PROJECT.json` gives the reason per component. In the modelled parts:

- signing, clock-skew checks and the payload of audit entries, so nothing is
  said of the signatures and skews a verification reports (a key registered
  between its two reads, or a writer that waited long for a connection, make it
  report an honest entry); the
  single-database mode and `close_all` of the pool manager; what job handlers do
  beyond success or failure; wording and rendering of pages;
- lots, serial numbers and valuation of stock; prices, credit checks,
  `duplicate_order` and printable fulfilment documents; landed cost;
- write-offs in `post_settlement` and documents in foreign currency;
  `settle_documents` and `apply_payment`, which nothing calls; e-invoice status
  checks; statement import, contra entries and `finalize_statement`;
- statements whose failure the code ignores beyond those named by an action:
  the DELETE of `save_quote`, the look at the next revision number;
- connections as a resource: posting asks the pool for another connection
  while it holds one, the one hazard of `PROJECT.json` without a property (the
  wait ends with the acquire timeout);
- writes in plain SQL that go past the record cache; its `invalidate_model`,
  `invalidate_company`, `clear` and `cleanup`, which nothing calls;
- field allow-lists, nonces, captchas, the portal's pages and the saving of a
  form's settings in intake;
- the taking of a number (`Sequences`) and of an idempotency key, which is one
  statement each.

Most of the source is rendering, SQL text, forms and routing, whose order of
steps no other process can observe; that is why the share of lines the modules
stand for is small beside the size of the repository.

## Plan

1. Connections as a resource of `Postings`, over the contract of the pool
   manager, to state when the acquire timeout is reached.
2. Liveness of the scheduler (a due action of a live server is claimed) and of
   approvals, under the fairness of their loops, for TLC.
