# Purchase Tracker Dashboard: TLA+ models

The repository is a Django application with which three plants of one company
follow their purchases: it mirrors purchase orders from Drive sheets, lets the
plants enter what arrived against them, keeps the raw-material (RM) store's
books, matches orders with the inward register, and derives what was consumed.
The modules in this directory model the parts in which a mistake is expensive
and a test unlikely to meet it: the two ledgers people write to concurrently,
the background work that rewrites data underneath them, the engine that decides
which receipt belongs to which order line, the derived consumption ledger, the
files of an order with the readings made of them, and the sign-in with its sessions.

Paths below are relative to the repository (`apps/...`); `PROJECT.json` gives for
every definition the lines it stands for, for every run what it checks, and under
`hazards` every place where the code is hard to test.

## 1. Inventory

| Part | State it keeps | Operations | Talks to | Modelled in |
|---|---|---|---|---|
| RM stock ledger (`stock_service.py`, `stock_rules.py`) | lots, vouchers, lines, allocations, number sequences; a balance is replayed, never stored | `receive_mir`, `post_voucher`, `approve_adjustment`, `reject_adjustment`, `cancel_voucher`, `check_mir_cancel`, `check_mir_rejection` | inside the transactions of MIR entry | `StockLedger`, `StockTxn` |
| MIR entry (`mir_service.py`, `procurement_rules.py`) | MIRs, lines, mismatches, closures and reviews of PO lines | `post_mir`, `cancel_mir`, `record_rejection`, `resolve_mismatch`, `close_po_line`, `reopen_po_line`, `clear_line_review` | RM stock, material master, PO lines | `MirEntry` |
| PO projection (`procurement_sync.py`) | purchase orders, lines, their change log | `project_plant_orders`, `write_lines` | rewrites rows MIR entry reads and approvals write | `MirEntry`, `PlantMatch`, `Paperwork` |
| Material master (`materials.py`) | materials, category, factors | `material_for`, `set_category`, `change_category` | MIR entry, projection | `MirEntry` |
| Sync pipeline (`sync_trigger.py`) | cache keys with an expiry, `SyncRun` rows | trigger, scheduled run, steps, release | runs the syncs, matching and consumption | `SyncPipeline` |
| Re-match queue (`rematch.py`) | a pending key and a result key | `request_rematch`, `run_rematch`, `status` | matching | `SyncPipeline` |
| Matching engines (`matching_core.py`) | match rows | `run_full_match` | orders, MIR rows, decisions | `PlantMatch`, `AssignPairs` |
| Match decisions (`manual_receipts.py`) | pins, added and removed receipts | `apply_change` | read by the next match | `PlantMatch` |
| Consumption ledger (`consumption_engine.py`, `consumption_ledger.py`) | daily rows, coverage, events | stock snapshot, `rebuild_plant_consumption` | stock sheets | `ConsumptionLedger` |
| Sign-in, sessions, devices (`auth_backend.py`, `auth_serializers.py`, `token_revocation.py`, `device_service.py`, `users_views.py`) | failure counter, lock-out, pending sign-ins, spent tokens, token version, devices, roles | sign in, refresh, sign out, change and reset a password, edit and delete accounts | one-time codes | `Access` |
| One-time codes (`otp_service.py`) | code rows, attempts, daily count | `generate_otp`, `verify_otp` | sign-in | `Access` |
| Documents and readings (`documents.py`, `po_extraction.py`) | `Document` rows (revision, status, SHA-256), `PoExtraction` rows, the orders the application owns | `upload_po`, `withdraw`, `request`, `run`, `approve`, `reject` | PO projection (the same orders), task queue, R2 | `Paperwork` |
| Previews, licences, parsers, alerts, backups, views, front end | see section 6 | | | not modelled |

What is hard about them:

* **Time.** A voucher can be dated some days back, so whether it fits depends on
  every later day; a bounded rebuild replaces a window whose edges meet rows
  written earlier.
* **Concurrency.** Web requests are READ COMMITTED statements and short
  transactions. Some decide on rows they locked, some on sums over rows they did
  not, and some write back a whole row they read long before.
* **Undoing.** Cancelling, withdrawing, rejecting late, reopening and removing a
  receipt must hold against everything that runs later.
* **Background work.** Cache keys expire under the run that holds them, workers
  are killed, tasks are delivered twice, and a flag is cleared before or after the
  work it announces.
* **Precedence.** Eight stages hand out the same receipts, and what a person
  decided must survive all of them.

## 2. Modules

```
StockRules --- StockSums                    totals and the replay, proved
   |
StockLedger --refines--> LotBook            every stock operation as one step
   |   \--- StockReplay                     min_running_balance against its meaning
StockTxn    --refines--> StockLedger        the same operations as transactions
       \--- StockProofs                     about all three
MirEntry --- MirEntryProofs                 receipts, closures, and the projection under them
SyncPipeline --- SyncProofs                 pipelines and re-matches on the task queue
Assignment --- AssignPairs                  the optimal assignment: its meaning, the search
     \-------- PlantMatch --- PlantMatchProofs   run_full_match and the decisions it reads
ConsumptionEngine --- ConsumptionLedger     one interval; the trailing-window rebuild
                           \--- ConsumptionProofs
Access --- AccessProofs                     sign-in, sessions, codes, account edits
Paperwork --- PaperworkProofs               files, readings, approvals, the projection beside them
MC*                                         instances for TLC
```

**StockRules / StockReplay.** `MinRunningBalance` and `MinRunningBalanceFrom` are
`stock_rules.min_running_balance` as written: movements netted by day, days
sorted, balance carried to the start date, running minimum. `StockReplay` builds
every sequence of up to `MaxEvents` movements and compares the result with what
its callers rely on: what fits the answer may leave, what does not may not.
Elsewhere "the replay is not negative" is written as a quantifier over days; this
module is the justification.

**StockLedger.** One plant's store. `doc` and `lot` are the MIR (or the old
opening balance) a lot came in on and its quantities; `voucher` the rows of
`StockVoucher` with lines and allocations folded into one signed quantity per lot
(a voucher names a lot at most once; `_receipt` and the issue-line check refuse a
second line). Each operation is an action: guards from the `_evaluate_*`
functions, then the insert or update, subject to the table's check constraints
(`Storable`). A pending difference moves nothing until approved and is then
re-checked on its own day. `Tick` is midnight.

**LotBook.** A map from lot and day to balance, never negative, changed only by a
document of one day that shifts that day and every later one by the same amount.
`StockLedger` implements it with the refinement `book <- HeldBook`.

**StockTxn.** Every operation of `StockLedger` except the arrival of goods as a
transaction: `Start` (payload), `Acquire` one row lock at a time in the order the code
takes them, `CheckHead` (the status of the locked row), `CheckLots` (the rules on
what is committed then), `Commit` (writes without looking again) or `Rollback`.
Locks last until the commit, as in PostgreSQL; a deadlock fails one transaction in
it. `CommitsAreSteps` says each commit is a step of `StockLedger`: what was decided
under locks still holds when it is written.

**MirEntry.** One domestic order of one plant. `post_mir` is two steps: evaluate
(lock the PO lines, read what is open on them and which materials have no
category) and save. The projection is one transaction in steps: read the lines,
look for receipts line by line without a lock, write each line (which waits for
its row lock and keeps it), publish all of it at the commit. Cancelling,
rejecting, resolving, closing, reopening, clearing a review and re-filing a
material are single steps. Whether RM stock refuses a cancellation or a rejection is
`StockLedger`'s subject; here either may simply not happen. What a payload
contains is chosen at the save, because the checks `evaluate` makes on it read no
state. Time windows (7 days to edit, 30 to reject) are left to choice.

**SyncPipeline.** One plant. Task rows go from `queued` to `running` and away;
`PickUp`, `EndStep`, `MatchRead`, `MatchEnd` are what a worker does, with the steps
of `_PLANT_COMMANDS` that nothing distinguishes folded into one (`"sheets"`).
`Trigger` takes the in-progress key with `cache.add`; the scheduled run takes it
when it starts and skips the plant if it cannot; `_run_pipeline`'s `finally`
deletes the key whoever holds it. `RequestRematch` and `PickUp` set and clear the
pending key as `rematch.py` does, and `Save` is separate from the request that
follows it. Faults: a step fails, a worker dies without a `finally`, an
unacknowledged task is delivered again from its beginning. The match holds one
advisory lock from before it reads until its commit. Time is a countdown per key
and a count-up per run, so there is no clock.

**Assignment / AssignPairs.** `Heaviest` says what a maximum-weight assignment is;
`AssignPairs` is the search of `_assign_pairs`: lines in order of their best pair,
a queue of lines to displace, the best chain end so far, the budget of dequeues,
the walk that flips a chain and refuses a cycle.

**PlantMatch.** `run_full_match` stage by stage over one plant's lines and MIR
rows: pins, added receipts, Bills of Entry, the pins and additions that waited for
them, groups by order number, rate groups, the assignment of the rest, and the
passes that join added receipts, split shared ones and pool twins. Within a
stage, lines are taken in any order where the code's order is that of rows whose
ids no property depends on. A pair's weight is a small number computed from the
evidence the code ranks (`PairWeight`), a call of `_assign_pairs` is any member of
`Heaviest`, which is what `AssignPairs` shows of it in the same run. Between matches
`apply_change` is one action per kind of change, the PO sheet may rewrite an order's lines
(`NewSheet`) and orders retire and return.

**ConsumptionEngine / ConsumptionLedger.** The engine is pure: the classification
of an interval, the daily shares with their half-even rounding, and `Walk`, the two
loops over a lot's readings in one (which readings are kept, and whether the lot has
moved so far). A lot's intervals are a set: no two end on one day. The ledger is one material at one plant: people edit the
sheet, `Sync` takes the day's snapshot over an earlier one of the same day,
`Rebuild` reads from `Lookback + Anchor` days back and replaces the rows, events
and coverage from `Lookback` days back. A reading keeps, as history, what was
truly used, so the properties compare the ledger with the truth and not with a
second computation.

**Access.** Requests of two accounts as interleaved steps, one per statement or
`transaction.atomic` block, because `ATOMIC_REQUESTS` is off. A request carries
the copy of the account row it read (`snap`); saves with `update_fields` write
those columns, `update_user`'s plain `save()` writes them all. A token has the
version of its `ver` claim and, as history, the password checked at its sign-in (`given`), what
completed that sign-in (`by`) and the password of the row it was issued on (`pwd`). `given`
and `pwd` differ only where an emailed code completed the sign-in, or the change that issued
it: `pending` is the browser session's `pending_user_id`, with the password that was checked
when it was left.
Lapsing locks, expiring codes and tokens, pruning and a crash between two
statements are actions. Two histories explain the exceptions: `wrong`, the wrong
passwords that should count, and `spoiled`, the accounts an edit acted on an old
copy of.

**Paperwork.** One PO number at one plant. `docs` are its files in the order they were
made; `request` is what an open web request has locked and read. An upload locks the plant,
refuses a file on record, is numbered, may fail at R2 (rolled back), then supersedes and
commits: the UPDATE takes the rows current in its snapshot, waits for those that are locked, and
leaves out those that are current no longer. A withdrawal locks its row, finds the previous file
without a lock and saves it as current. `reading` are the extraction rows with the tasks queued
for them; a worker finds the row queued, claims it, and saves the whole row at its end; it can
be killed and its task delivered again, or a task be delivered twice. `StartApprove` locks
reading, plant and file (one statement, `select_related`), then the order's row if there is one;
`FinishApprove` writes the order as the application's. `StartProjection` reads the order without
a lock and skips one the application owns; `EndProjection` saves the row it read with the sheet's
header and lines; whoever inserts second is rolled back. Three histories name the exceptions:
`raced` (the withdrawal of a current file overlapped another filing), `twice` (two workers had
found the same reading queued) and `killed`.

Three runs put two models that share nothing side by side, so that one run answers for both:
`MCStockLedger` replays movements in a store nothing has come to, `MCStockMixes` uses a store
for issues of its MIR or for differences of its opening balance, `MCPlantMatch` searches graphs in a plant with nothing to
match. No step belongs to both.

## 3. Runs

| Run | Question | Result |
|---|---|---|
| `stock_ledger` | With every operation atomic: a day below zero, more returned than issued, anything before its receipt; is it a `LotBook`? Does `min_running_balance` answer what its callers ask, for any four dated movements in any order? | no violation; yes |
| `stock_txn` | Issues, returns, cancellations and rejections as concurrent transactions over midnights, or, in other behaviours, differences of an opening balance entered, approved, turned down and withdrawn at once: is each commit a step of `StockLedger`? | yes, and a difference is decided once |
| `stock_live` | Two lots and their locks, within one day: does every request end, which can deadlock, is the numbering without gaps? | all end; only with a return |
| `mir_entry` | Two lines, two posts, a projection that adds, re-points, retires lines, and the managers: over-receipts flagged, nothing booked to a blocked line or unfiled material, mismatches and closures follow their MIR and survive the projection | yes |
| `sync` | One pipeline at a time while the keys last; consumption after its own stock sync; matches in order; only dead runs called stopped; every save matched in the end, or reported failed | yes |
| `access` | Wrong passwords and codes counted under concurrency, one successor per refresh token, no session older than the password but for what an emailed code completes, an admin always left, revoked tokens stay dead | yes, with the exception `access_revoked` shows |
| `matching` | Removed receipts stay off through every stage; a receipt is counted once; decisions are only lost to other people's decisions; `_assign_pairs` returns the heaviest assignment of every 3 by 3 graph, and its flips gain what the search said | yes, with the exceptions in the properties |
| `consumption` | The ledger never says more was used than was, is exact while the sheets are sound, leaves no day unexplained | yes |
| `paperwork` | The newest file not withdrawn is current; an order the application owns holds what an approved reading said; decisions on readings stand; every reading asked for ends | yes, with the exceptions in the properties |
| `stock_withdraw` | `cancel_voucher` promises to "withdraw a pending difference" | refuted |
| `access_revoked` | `revoke_all_sessions` ends every session for good | refuted |
| `paperwork_held` | An order the application owns "is never written here", by the projection | refuted |

**What the three violations show.** `stock_withdraw`: a withdrawn difference leaves
`decided_at` null, and the constraint `stock_adjustment_decided` refuses an ADJUST
row that is not PENDING without one, so the request fails with a database error.
`access_revoked`: `update_user` reads the account outside the transaction of its
save and writes every column back; a password change, reset or sign-out everywhere
that commits in between loses its token version, and the tokens it had
revoked work again.
`paperwork_held`: `project_plant_orders` reads the orders once, without a lock, decides by the
copy whether the application owns one, and saves the whole row; an approval that commits
between the two is written over, `source` included, and its reading stays APPROVED.

### Bounds, and why they are enough

* **Stock.** *Days* 2 or 3: a backdated voucher needs a receipt day, its own day and
  a later day on which the stock is gone. `BackDays` is 1 instead of 7 so that the
  window's edge is inside the instance. *Vouchers* 2 or 3 rows: issue, return,
  cancellation. *Quantities* one unit in the runs and any in the proofs; a rejection may
  ask for one more. *Requests* two at a time: every conflict in the code is between two
  holders of one row, and a cycle through three would need three lots. *Straddle* is how
  many midnights may pass between a request's date check and its commit; `StockLedger` allows a
  voucher's date, and the last day of a rejection, that much slack.
* **MIR entry.** Two lines, two MIRs (one to be wrong, one to interleave with), one
  projection, one edit by a manager. `Deliveries` are one unit on each line, or two on
  the first: short (after a rejection), exact and over receipts of one or two lines.
* **Sync.** Two task rows and two workers: every conflict is between two runs. Keys
  last one or two ticks against a timeout of one, so a run can outlive its key, die, and
  be delivered again while another runs; one fault; two saves, since a save can be
  folded into the run of the one before.
* **Matching.** Three lines, four rows, three documents, seven sheets chosen so that
  every stage has work and has to compete (`MCPlantMatch` says what each is for); two
  changes by people or sheets with a full match possible before, between and after.
* **Consumption.** One lot, since lots only add up; eleven days against a window of
  five, an anchor of four, broken runs of one and outages of up to two days (the code's
  45, 30, 3 and whatever the outage is): on the eleventh day a window first leaves out a
  reading. `WindowAssumption` is what the
  windows have to bridge, and with one day less TLC finds a counterexample: of the window to
  `ExactWhenSound`, of the anchor to `NeverOverstated`. The code's numbers
  bridge outages of seven days with three broken cells in a row. Two
  oddities: a new period and a broken cell, a failed step and a restatement. Amounts
  are whole units (see below).
* **Access.** Two accounts, two requests in flight, four in all, one event; limits of
  one or two stand for those of the code. A sign-in with a code takes two
  requests, which leaves two to race it.
* **Paperwork.** Three revisions (one to restore, one to supersede, one to upload), two
  withdrawals, two requests: every conflict is between two holders of a row. One reading,
  since readings share only the order, and two workers, since two can be on one reading; one
  fault; two changes of the sheet, so that the projection both makes and rewrites the
  order. `RevisionsDistinct` needs no instance: it is proved. `paperwork_held` needs
  one file, no withdrawal and no fault.
* Deadlock checking is off where a bound lets the model come to rest; it says
  nothing of the program, which waits for the next request. In `stock_live` and
  `sync` the temporal properties say what must go on.

### Fairness

* `stock_live`: `SF(Run(r))` for each request. PostgreSQL queues the transactions
  waiting for a row and ends a deadlock by failing one of them; a worker carries
  its request to the end. Nothing is assumed about people.
* `sync` (`FairSpec`): the clock ticks, workers take rows and finish steps, the
  broker delivers again (weak fairness). A re-match request and the start of a match are
  strongly fair, because only this model's bound on rows, or another holder of the
  advisory lock, takes their turn away, and PostgreSQL serves its waiters in turn.
  Nobody need ever save or press a button.
* `paperwork` (`FairSpec`): weak fairness of each worker, and of an approval once it is under
  way, which holds the lock a worker may wait for. Requests, decisions and
  the projection need never come.

### Differences from the docs that no run states

* A password reset revokes every session and trusted device so that "whoever reset the password
  signs in fresh, and so must anyone else" (`password_views.py:248`), and the e-mail says "Every
  session signed in with the old password has been signed out" (`password_service.py:145`). A
  sign-in waiting for its login code is neither: `pending_user_id` and the code stay, `device_verify`
  looks only at those (`device_views.py:83-95`), and the session it issues has the new
  version. `NoSessionOutlivesPassword` therefore allows what a code completed on the account as
  it was after the change; without that alternative TLC finds, with two accounts and four requests:
  sign-in, reset, login code. The other case of it is two changes of one password at once:
  when both have saved and revoked, each issues its session on the password saved last.
* A gain posted by a count stays on the lot of a cancelled MIR, whose lots "then
  hold nothing" (`mir_service.py:675`).
* Two returns over the same two lots in opposite order deadlock, though "two postings never
  deadlock" (`stock_service.py:460`); `DeadlockNeedsReturn` bounds it.
* The open quantity of a line moves between check and save when another MIR of it is
  cancelled or rejected (`mir_service.py:267` says it cannot), always upwards: an over-receipt
  is never missed, a short one can be.
* A receipt committed between the projection's look for receipts and its UPDATE
  leaves a re-pointed line without the promised review flag
  (`procurement_sync.py:25`).
* A pin or addition that names the receipt of the line's own Bill of Entry waits for
  that bill's settlement, where a sibling line may take its row; the comment at
  `matching_core.py:4031` excepts nothing. Decisions on different lines for one
  document are settled in the order of the lines, not of the decisions
  (3747-3749). A line of a shared Bill of Entry that gets one more receipt by
  hand counts its rows in full while its siblings count shares.
* A daily share is rounded to thousandths, and when that rounds up far enough the
  last day is negative and dropped (`consumption_ledger.py:320`): three thousandths over five
  days become four, though "a rollup must never lose units to rounding". An
  outage longer than the window loses the shares of the days before it; a lot whose first
  reading is broken books its whole period.
* The anchor days are "purely to give the first in-range interval a predecessor"
  (`consumption_ledger.py:78`), but they do more: when they are fewer than the days a run of broken
  cells and its recovery can take, a window opens on a broken cell, and its recovery books
  the whole period's issues in the rows it writes (`WindowAssumption`).
* Even wide windows may open on a broken cell. The recovery after it then lies in the anchor, but
  it counts as movement, so an emptied lot that was logged as a close-out
  is judged again as consumption. Its event is deleted, and of the interval only the days
  from the window on get rows: the days before them are left without a row, without coverage
  and without an event, though an excluded interval is "never silently dropped"
  (`consumption_engine.py:158`). TLC finds it within the eleven days when `NoSilentDays` includes
  the lots in `lows`.
* A post locks the lines of an order in id order, the projection updates them in sheet
  order: one that waits for the other can deadlock, and PostgreSQL fails one of them
  (`procurement_sync.py:174`).
* "Only one revision per PO is CURRENT" (`core/models/procurement.py:650`): a withdrawal restores the
  previous file from a look it took without a lock, so one that overlaps an upload or another
  withdrawal leaves two current files, or a withdrawn one current (`raced`).
* A worker killed while it reads leaves the reading RUNNING for good: the task is delivered again,
  and `run` returns at once because the row is not QUEUED, though "a failure is recorded on the
  row" (`po_extraction.py:214`). Three attempts of 600 s are longer than the task's 900 s. Such a
  reading cannot be rejected either.
* A task delivered twice before it is claimed puts two workers on one reading; the later one
  saves its whole row over a decision (`po_extraction.py:243`).
* `save_draft` reads its row with `select_for_update` outside any transaction
  (`po_extraction.py:509`; requests are not atomic), which Django refuses at evaluation: corrections
  cannot be kept without approving. An approval does not look at whether its file was
  withdrawn in the meantime.

## 4. Proofs

All for every value of the constants that the modules' assumptions allow. Every
invariant below was first checked by TLC on the instance of its run.

**Stock totals and the replay** (`StockSums`). `Total` is a recursive function, so first
its equation is shown to have a solution, then that changing one row changes the
total by that row's difference (`TotalOneChanged`). The provers cannot instantiate an
induction theorem that takes a predicate; induction over data is therefore done in
its set form (`Climb`: a set with 0 that is closed under successor up to n
holds 0..n). With it `AscendingLists` shows that `sorted()` of a finite set of
days exists, and `ReplaySteps` and `ReplayLowest` that the loop of
`min_running_balance` keeps the end-of-day balance of the last day seen and the lowest so far.
`RoomFromDay` and `RoomAnyDay` say what the two forms of its answer mean.
`RoomExact` (`StockProofs`) states it of `StockReplay`, so what
`StockLedger` writes as a quantifier over days is what the code computes,
for any number of movements of any size in any order.

**Stock ledger** (`StockProofs`). `LedgerInvariant`:
`Spec => []LedgerInv`, and from it `StockNeverNegative`, `ReturnsStayWithinIssue`,
`NothingMovesBeforeReceipt`, `LedgerTypeCorrect`. `NoNegativeDay` is not
inductive alone: cancelling an issue adds stock only if its lines are negative,
and approving a difference is safe only if the row is what its kind says; an issue
can be cancelled without replaying its lots only because no posted return depends
on it; a MIR can arrive on any past day only because nothing refers to its lots
yet. These facts are `Shape`, `ReturnsWithinIssue` and `NothingBeforeReceipt`, and the
conjunction `LedgerInv` is inductive. `LedgerImplementsBook` maps every action to a
document of one day or to a stutter.

**Stock transactions** (`StockProofs`). `CommitsRefine`: whatever the
interleaving of requests, every commit is one atomic operation of `StockLedger`.
`TxnInv` says what the code's locks are for. No two requests hold one row (`Exclusive`); what a request concluded from the rows it locked
(`Knows`) is still true when it commits, because another request's commit changes only
rows it holds itself (`Undisturbed`). So a check made before the commit is a guard
at the commit, and each kind of request is one action of `StockLedger`
(the ledger's own `LedgerInv` then holds in every state of the requests:
`NeverNegativeConcurrently`). From the same invariant: `NumberedInOrder` (the
row of the number sequence has one holder until its commit) and `DecisionsTakeEffectOnce`
(the head of a difference is read under its lock). `DeadlocksNeedReturns`: every
request but a return takes its locks in ascending rank, so in a circle of waiting
requests without one the ranks would have to rise all the way round.

**Sync** (`SyncProofs`). `MatchesInOrder`: a match never replaces the outcome of
one that read newer edits; inductive with the facts that the advisory lock has one
holder and that what the holder read lies between what is stored and what is saved
(`MatchInv`). `ConsumptionIsFresh`: a run past its sheets either wrote
snapshots or knows it did not (`RowFresh`). `PipelinesApart`: as long as no run has
outlived its key and none was delivered twice, the in-progress key is there exactly while one
run holds it, and outlasts it (`KeyInv`). `StoppedMeansDead`: a re-match that
runs wrote the result, or one that started later did, and the result key is as young as
that run (`AgeInv`); this needs a task to be cut off no later than the result key's
`_RUNNING_TTL_SECONDS`, which is the code's reason for that number (`rematch.py:42`) and
an assumption on the two constants here.

**Access** (`AccessProofs`). The core is `Typed /\ Behind /\ Rotated /\ Vouched /\
OneSuccessor /\ AdminRemains`: no copy a request carries and no token is ahead of its
account's version, unless the account is spoiled; a token that was rotated is spent; a
sign-in on a trusted browser was checked against the row its token is issued on.
From it `RotatedOnce`, `NeverWithoutAdmin`, and the action property `NoRevival`.
`FailuresAllCounted` adds that the count is written under the account's row lock by a
request that read it under that lock (`TallyInv`); `TriesWithinLimit` that the two
codes of one user are locked separately, so that one try may be under way on
each when the day's limit is reached (`TriesInv`); `SessionsEndWithPassword` that a version
and the password it stands for belong together in every token, copy and account that is not
spoiled (`PairInv`); with `Vouched`, a session no code completed gave that password. The actions are grouped by what they may do to a row (`Mild`) and to
the sessions, so that each fact is proved once and cited for some thirty handlers.

**MIR entry** (`MirEntryProofs`). All seven properties of `mir_entry`. The invariant
says what the row locks are for: two transactions never hold one line (`OneHolder`),
and while a post holds it the line cannot be blocked (`HeldOpen`), lose the room the
post compared its quantities with (`HeldRoom`), or be re-pointed to a material
without a category (`HeldFiled`). The last two are not about the line alone: room
depends on other MIRs, and a post holds no lock on those, but cancelling or rejecting
can only add room, and only a post holding the line can take it. With MIRs numbered
without gaps (`MirsOK`) and the projection knowing which lines exist (`SyncOK`) they
are inductive, and the action properties follow in one step. The quantity accepted is a
sum over MIRs: `TotalOneChanged` again.

**Matching** (`PlantMatchProofs`). `RemovalsHold`: a removed receipt stays off. Every
stage takes rows either from `Found`, which excludes removals, or from a decision; no
pin names a receipt its line has removed (`PinsKept`), and a stage's list of work
holds only decisions in force (`Work`). The groups of one order number redistribute
rows between lines and rely on each line counting its own primary row (`MainCounted`).
`CountedOnce` and `DecisionsKept` share one invariant about who holds which row
(`HeldInv`): what is still queued holds nothing yet (`Queued`); a row a line counts is
its own, given by a stage or by a decision (`Own`); outside the groups people ask for a
row is counted in full once or in parts (`Once`); a decision that was worked is kept, or
the rows of its document are held by other decisions (`Kept`). `Own` has to
come first: a later stage may take only what `Found` offers, and that excludes rows
somebody owns.

**Paperwork** (`PaperworkProofs`). `RevisionsApart`, `AppOrdersApproved`, `DecisionsStand`. The
revision an upload takes is one more than the largest there is, read when it starts and used
when it commits; it is still that only because the plant's row has one holder (`OneHolder`),
which makes `NextInLine` inductive with `InOrder`, from which distinctness follows. An
approval writes an order whose reading nobody can touch meanwhile (`ReadyHeld`); the whole-row saves of a
worker and of the projection are harmless because no other worker is on the row
(`WorkersApart`) and because what the projection read was the sheet's (`SawSheetOrder`).
`CurrentIsNewest`: until a withdrawal of a current file has overlapped another filing, what
an open request is about to supersede or restore is still what it read (`FileInv`).

**Consumption** (`ConsumptionProofs`). `NoSilentDaysHolds`, for every number of lots and days
and all windows that bridge the outages (`WindowAssumption`). First the engine: `Walk`
is a recursive function, so `WalkSteps` shows that its equation has a
solution, `WalkStands` that it always stands on a reading it kept, and `Covering` that the
intervals leave no day between the first reading and the last uncovered. A rebuild deletes the
events that end in its range, and an event may reach back before it; what has to be shown
is that it is found again (`Regained`): the new walk reads the same readings from
some reading that both keep (`SameWalk`, `FollowingLocal`: a decision to leave a reading out looks
ahead by `MaxBrokenRun + 1` readings only), stands between the same two readings, and still calls
the interval something that is logged (`LoggedStill`). The last needs that the
shorter walk has not seen more movement than the longer one did, which is what a window opened on
a dip breaks, hence `lows`. The invariant relates the ledger to the readings at the last rebuild
(`ReadAs`), of which today's are the same with some replaced and some added
(`Grown`, `Synchronised`).

`NeverOverstatedHolds` and `ExactHolds` are about the sum over all days of rows that several
rebuilds wrote, each a rounded share of an interval, and no formula over the rows alone is
inductive: a rebuild keeps the rows before its range, which an earlier one booked for readings some
of which have been replaced since. `TallyInv` therefore says that the rows are the sum of one
*part* per lot (`Reckoned`), and of each part that there are readings, those of
the last rebuild, which explain it (`Explained`). For every day on which a later
rebuild may take over (`Carried`), the part up to that day is at most what the sheet had issued by
some earlier sound reading, plus the shares, up to that day, of the interval the day lies in; while
the books are clean it is exactly that. It adds up at the last reading (`AddsUp`). `Arrived` is the
step from one interval to the next, where the last day takes what the rounded
shares leave (`SharesAdd`). `CarriedThrough` walks through the range of one rebuild.
`CarriedOver` is the seam between two: the new window meets the walk of the old one before
the range begins (`WindowsMeet`), and if the interval over the seam now ends elsewhere, what is
owed of it has not become less. The bound is that of a *sound* reading which the walk
is not just dipping below (`Anchored`): a broken cell's own figure, 0, bounds nothing, and its recovery
gains the whole period's. The hypotheses do their work here: whole units and at most
45 days keep a rounded last day from going negative (`ShareBounds`), `Lookback` bridges a run
of broken reads in the rows kept, `Anchor` one before the first row written. That the sheet
and the snapshots agree (`UpToDate`, `Faithful`) comes from the steps of the sheet and the sync. The
totals come from `StockSums` (`TotalClimbs`, `TotalRests`, `TotalMonotone`, `TotalSwap`: days
first or lots first is the same).

Only model-checked:

* liveness (`EveryRequestEnds`, `EverySaveMatched`, `EveryReadingEnds`) and all that rests on
  `ENABLED`;
* the assignment search: that its result is the heaviest assignment is a statement about all
  assignments of a graph, and that its flips gain what the search said (`FlipGainsItsEnd`)
  one about sums along chains of any length.

## 5. How to read a module

Constants marked *bound* exist for TLC; the others are settings of the code, named
beside them. A definition called `X_Word` next to `X` is a mutant: the mistake one
might make there, which some property must notice (`PROJECT.json`, `mutants`).

## 6. Not modelled, and why

* *Stock:* `set_location`, `update_setting` (labels nobody decides on), values, rates,
  taxes, units and factors, numbering across financial years.
* *MIR entry:* import receipts against a Bill of Entry, `edit_mir`, mismatches of rate,
  tax, dates and totals. A post takes its locks in one
  step, so deadlocks between posts and with the projection are not represented.
* *Sync:* the company-wide locks of RoDTEP and licences (the same pattern, no state
  shared with a plant), the stalled report, several plants at once.
* *Matching:* how a score is computed from texts, quantities and dates (weights rank
  the same evidence), saved match details, data-quality flags, dismissals, and the
  pass that follows a receipt into the stock sheet.
* *Consumption:* Achhad's dated daily matrix, `--all`, the labels `observed` and
  `spread`, rates and period reports, which only read. A rebuild is one step,
  as it follows the stock sync in one pipeline.
* *Access:* Google sign-in, throttles, the session's maximum age, creating
  accounts, delivery of codes, password rules.
* *Paperwork:* invoices (the same code under the MIR's lock), the Bill of Entry branch of
  an approval and its shipments, `save_draft` (see section 3), what a file contains and what
  `problems` finds in it. Writing an order's
  lines on approval is `write_lines`, which `MirEntry` has.
* *Whole parts:* receipts without a
  PO, licences, RoDTEP, sheet parsers, alerts and e-mail, backups, HTTP views and
  the browser front end. They parse, format or forward; their control is a
  sequence of independent writes, and the larger part of the repository's lines
  is theirs.

## 7. Plan left

1. *Models:* import receipts and `edit_mir` in `MirEntry`, with partial lock sets; the
   Achhad matrix in `ConsumptionLedger` (a snapshot taken before an issue of the cutoff day
   counts it a second time); licence balances and
   the shipments of a Bill of Entry; receipts without a PO.
2. *Proofs:* `FlipGainsItsEnd`.
