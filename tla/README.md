# Verification of the Inventory Bot

TLA+ models of the Bkper Inventory Bot (`src/`), the TLC runs that check them on
small instances and the proofs that hold for every instance. `PROJECT.json` lists
components, runs, mutants, findings, hazards and theorems, and maps every
definition to the lines of source it stands for.

## The system

The bot keeps two Bkper books in step. Users record transactions in a **Financial
Book** and check them; the **event bot** (`events/src`) replicates them as
quantities in the **Inventory Book**; the **menu server** (`menu/server/src`)
calculates, on demand, the cost of goods sold of each good account by FIFO, and
undoes calculations (reset).

| Component | State | Operations | Correct when |
|---|---|---|---|
| Event webhook, dispatch (`index.ts`, `EventHandler`) | none | choose the handler, answer result or error | every event reaches its handler |
| Replication (`EventHandlerTransaction`, `...Checked`) | Inventory Book transactions, the good account with its groups and properties, Buy and Sell | query the remote id, read or create the accounts, post the replica, flag the account | one replica per transaction about goods, in the end; a backdated one flags the account |
| Deletion interceptors (`InterceptorOrderProcessorDelete*`) | both books | trash the replica, its splits or its cost of sales, flag the account | nothing dangles; what was calculated from the deleted transaction is flagged |
| Guards of the Inventory Book (`InterceptorFlagRebuild`, `EventHandlerTransactionPosted`, `...Unchecked`) | account flag | undo a post, flag after a changed tick | edits by hand are noticed |
| Calculation (`CalculateCostOfSalesService`, `...Processor`) | copies of the account and its transactions; three maps of transactions to create and update | read account, list, apply credit notes, cost each sale purchase by purchase, fire three batches, store the calculation date | FIFO; quantity and cost conserved; both books agree |
| Reset (`ResetCostOfSalesService`, `...Processor`) | maps of transactions to update and trash | read account, list, fire three batches, clear the account | purchases, sales and credit notes are as they were recorded |
| Good account (`GoodAccount`) | `needs_rebuild`, `cogs_calc_date` | read, set, clear, `update` | the flag is not lost |
| FIFO order (`BotService.compareToFIFO`) | none | compare | a consistent comparator, oldest first |
| Menu server entry points (`Bot.ts`) | none | context of the page, validate, choice of the accounts, a run over them | the right accounts, each with a result |
| Menu page (`BotViewScript`) | context, buttons, list, results | load, press, callbacks | one run per page; buttons come back |

How they interact: there are no locks and no transactions across calls. A handler
and a script run are sequences of calls to Bkper that work on copies read at the
start. Handlers fire whenever a user edits something, also between two calls of a
run or of another handler; events may come twice; two users may start runs on one
account, since `validate` looks at the backlog only. A run or a handler may die
after any call (time limit, failed call). What is hard, therefore: check-then-create
on remote ids, writes through stale copies, transactions recorded while a run is in
progress, cascades that stop half-way, runs that die between two batches or overlap,
rounding of unit costs over many partial sales, duplicated codes, and pages whose
callbacks come late.

## Modules

| Module | Models |
|---|---|
| `FifoOrder` | the comparator `compareToFIFO` as a pure operator, and the order of recording as its reference |
| `CostOfSales` (extends `FifoOrder`) | the core: one good account, both books, handlers in one step each, and one script run (calculation or reset) at a time, one action per call |
| `Deletions` (extends `CostOfSales`) | edits of users and the handlers that clean up after them, call by call (see below for what is one step), composed with the handlers and runs of `CostOfSales` |
| `EventHandlers` | the handlers of checked transactions, one action per call, several at a time, with repeated events and failures; calculations and resets in one step |
| `Replication` | the abstract specification that `EventHandlers` implements (`RefinesPromise`, `RefinesFairPromise`) |
| `ScriptRuns` | calculations and resets of several users on one account, one action per call |
| `Menu` | the page, its callbacks, the server calls of its buttons and the choice of accounts |
| `MC...` | instances for TLC; the `.cfg` files choose bounds |
| `SumTheorems` | lemmas about sums over finite sets |
| `CostOfSalesProofs`, `CostedSalesProofs`, `FifoOrderProofs`, `DeletionsProofs`, `EventHandlersProofs`, `ScriptRunsProofs`, `MenuProofs` | theorems |

### State and code

**CostOfSales.** `buy[p]` is the root purchase transaction `p` in the Inventory Book:
`quantity` and `cost` are the properties `original_quantity` and
`good_purchase_cost`, `amount` its current amount, `totalCost` the property
`total_cost`; `seen` says that `additional_costs` and `credit_note` are set.
`splits[p]` sums up the child transactions with `parent_id` p: their `quantity` and
`cost`, the quantity of those made by credit notes (`credited`), and how much of that is
unchecked (`loose`). `sell[s].checked` is the tick, `sell[s].logged` the `purchase_log` of
a sale, and `sell[s].bot` says that its agent is the bot.
`cogs[s]` is the sequence of `#COGS` transactions whose remote id is the sale.
`extras[c]` sums up the additional costs and credits checked for purchase code `c`.
`props` holds the two account properties. The rest is the memory of the run: `copy`
(the account it read), `local` (its purchase objects, which it mutates), `queue`
(what it has yet to process), `current` (the variables of `processSale`), `plan`
(the processor's maps) and `pc`, the next call. `basis` is a history variable: the
cost of a purchase at the moment a sale first draws on it, with the extra costs
found then. Each call that reads or writes a book is an action. In memory,
`processSale` takes one step per purchase, because it looks up extra costs in the
Financial Book for each; each credit note and each sale is a step too, so handlers
interleave with all of them.

A split made by a credit note carries the property `credit_note`, so a reset puts it in
its batch of updates, unchecked (`ResetCostOfSalesService.ts:30,78`), before it trashes it
in the next batch. A reset that dies in between leaves it `loose`. To the next calculation
it is a purchase: it is counted in the stock, and in the map of purchases it replaces its
root or is replaced by it. `queue.splits` are the purchases of which such a split was
kept; `local[p]` is then a copy of the split. How many unchecked splits there are is
abstracted: the one kept has any amount from 1 to `loose`, and the creation instant of its
purchase. Since such a split has no `total_cost` and no `original_quantity`,
`BkperApp.newAmount` may throw when a sale draws on it, which ends the run
(`RejectSplit`), or take the missing property for zero. `torn` is a history variable: a run
has died while such splits were unchecked.

**Deletions.** An edit (`DeletePurchase`, `TickSale`, ...) changes a book and starts
`job`, the handler of its event; `job.step` is the next call. Which step comes first
is what the interceptors conclude from properties, account types and descriptions;
for edits they do not recognise it is `answer`. Unchecking a purchase or sale and
trashing it are two steps, and each split of the cascade is trashed in a step of its own
(`SplitsLeft` is what may be left of the totals). One step are a lookup with the call that
follows it, and unchecking with trashing for a split or a cost of sales. A handler may die
before any of its calls, the first included, and its event may be delivered again; it then
finds nothing (`NotFound`) if the transaction was trashed. `gone` are the transactions
users have deleted. `missed` is a history variable: an edit of something that a
calculation had used went by without flagging the account, because it was not
recognised, was dated after the last costed sale, or its handler died.

**EventHandlers.** `asked` and `events` are what users have checked and what Bkper
has yet to deliver; `handler[h]` is an instance of the cloud function at work, with
its transaction, its next call and `copy`, the account as it read it.
`replicas[t]` counts the transactions of the Inventory Book with the remote id `t`;
`costed` are the sales a calculation has taken. `Foreign` are the transactions about a good
of another currency. The code compares the exchange code of the good, which it finds by the
property `good` of a sale or as the debit account of a purchase; a credit note has no
`good` and debits somebody else, so that one of a foreign good is replicated
(`CodeOfGood`).

**ScriptRuns.** One purchase, sales of one unit. Splits and costs of sales are
identified by run and sale, because a reset trashes what it has listed and no more, and of
the costs of a sale the first it finds (`FirstOfEach`). A calculation appends its costs to
what is there, as in `CostOfSales`. `mixed`, `tainted` and `orphans` are history variables:
a calculation and a reset overlapped; any runs overlapped or one died; the costs of sales
that the last reset that ran alone has left behind.

**Menu.** `page[v]` is the state of the page in the browser, `job[j]` a server call
with its callbacks; a page that is reloaded detaches its job. A page may be opened for an
account of any type: `getAccountsToCalculate` lists it without looking at the type
(`Bot.ts:110-112`), while a reset takes the accounts of type ASSET of the whole book
(`Bot.ts:174`).

### Assumptions

- A Bkper batch call is atomic, and Bkper does not send the bot the events of its
  own changes (the interceptors test the agent id).
- `MergeProps` says whether `Account.update` keeps stored properties that the sent
  copy lacks. The repository does not show it. The runs use TRUE; with FALSE every
  purchase would erase the rebuild flag, since `checkInventoryAccount` compares
  property objects by reference and so always writes.
- Both books are closed up to the same date; the bot does not record locked dates.
- Extra costs fall within the window of `getAdditionalCostsAndCreditNotes`, and
  every financial account of a purchase has a group with an exchange code.
- When `compareToFIFO` ties, any of the tied transactions may go first; when two
  transactions have one key in a `Map`, any of them may be the one kept. Both
  include what the code does, whatever order the query returns.
- Quantities are integers (the Inventory Book has no fraction digits), costs are
  integers in units of the last digit that `Amount.div` keeps, so rounding is real
  rounding: `UnitCost(5, 2) = 3`.
- A cost of sales is posted with all the digits of `saleCost`. If Bkper rounds the amount
  of a `#COGS` transaction to the fraction digits of the Financial Book, `BooksTieOut` and
  `UnflaggedTieOut` hold up to that rounding; neither is modelled.
- `OneAtATime` (`EventHandlers`): Bkper delivers the events of one transaction one
  after the other. The bot has no protection of its own: two handlers of one
  transaction may both find no replica and post one each.
- `QuietRuns` (`EventHandlers`): calculations wait until no handler is at work.
  Resets do not. Only `BackdatedFlagged` needs it: a calculation between the read and the
  flag of a handler makes its copy of the account stale and leaves the sale unflagged.
- `Prompt` (`Deletions`): the kinds and steps of handlers at which no run starts.
  `MCDeleted` lists the edits whose handlers change nothing (when these answer makes no
  difference), posts and ticks by hand, and the step between unchecking and trashing
  the transaction of a deleted sale: a calculation that came there would cost the sale
  again, and only one of its two costs would be trashed. Everywhere else deletions may have
  whole runs between their calls. Users and handlers delete only between script runs,
  because what Bkper does with a batch that updates a transaction trashed meanwhile
  is not visible in the repository. Script runs do not die in `Deletions`.
- The calls that fill a page succeed (`Menu`); they have no failure handler.

## Runs

| Run | Shows |
|---|---|
| `books_without_crashes` | handlers only between runs, no run dies, books may be closed: `StockConserved`, `CostConserved`, `NoEmptyPurchase`, `BooksTieOut` (cost of sales in the Financial Book = cost that left the Inventory Book), `FifoAllocation` (the allocation equals the closed form of FIFO), `BackdatedSaleFlagged` |
| `handlers_during_runs` | handlers between the calls of a run, and a run that dies between any two of them: `StockNeverUndercounted`, a later reset repairs the Inventory Book (`ResetRestores`), and `FlagKept`; unless a reset has died with splits of credit notes unchecked, `CogsOnlyForCostedSales`, `ResetLeavesNoCogs` (the reset repairs the Financial Book too), and `EverySaleCosted` (no sale of a run finds too few purchases) as long as no such split is there |
| `shared_codes_terminate` | purchases with one code, credit notes with one number: still balanced, and every run ends (`Terminates`) |
| `deleted_transactions` | deletions in the Financial Book, of purchases and sales in the Inventory Book, sales posted and ticks changed by hand, handlers that die before any call, runs between their calls: `ResetRepairs` (purchases, splits, credit notes and the sales that the bot posted); and unless an edit was missed, `NothingDangling`, `UnflaggedTieOut`, `UnflaggedStock` |
| `replicated_once` | two handlers at a time, resets between their calls, a repeated event or a failure: `AtMostOnce`, `RefinesPromise`, `PurchaseHasBook`, `BackdatedFlagged`, `StaleCopyHarmless` |
| `replicated_eventually` | no failures, fair delivery: `RefinesFairPromise` |
| `overlapping_runs` | two users whose runs overlap and die: `NeverUndercounted` unless a calculation and a reset overlapped, `LoneResetRestores` (the Inventory Book), `SoundAfterReset` (one cost for each sale, besides those the reset has not found) |
| `menu` | pages for an account (an asset or not), a group and the book, early presses, reloads, refused and failed calls: `OneRunPerPage`, `ListedAccountsAnswered`, `ButtonsComeBack` |
| `comparator_oldest_first` | **violated**: `getMilliseconds()` is the millisecond within the second |
| `late_additional_cost` | **violated**: an additional cost checked after the first sale never enters a cost and flags nothing |
| `purchase_deleted_unflagged` | **violated**: a deleted purchase that a calculation had drawn on does not flag the account when it is dated after the last costed sale |
| `sale_without_invoice` | **violated**: a sale without the optional `sale_invoice` is never replicated |

Every property of a passing run has a mutant in `PROJECT.json`: a plausible slip in
a mapped definition under which TLC finds the property violated.

### Disagreements without a run

Met while modelling, seen with TLC on variants of the runs above; the passing
properties are stated so that they do not depend on them.

- A sale recorded between the listing and the storing of the calculation date, or a
  calculation that comes between the read and the flag of a handler, leaves an
  uncosted sale before the calculation date unflagged (`Concurrent = TRUE` with
  `BackdatedSaleFlagged`, `QuietRuns = FALSE` with `BackdatedFlagged`).
- With a shared purchase code a sale is costed in part and gets a cost of sales but
  no `purchase_log`; the reset searches by `purchase_log` and leaves that cost
  (`MCShared` with `ResetLeavesNoCogs`).
- A reset that dies after its batch of updates leaves the splits of credit notes unchecked
  and alive. The next calculation counts them as stock: with purchases of 2, a credit note
  of 1 and two sales of 1, it passes the comparison of totals, runs out of purchases for the
  second sale and still posts its cost, which no reset finds. `EverySaleCosted`,
  `CogsOnlyForCostedSales` and `ResetLeavesNoCogs` fail without their exceptions
  (`NoLooseSplits`, `torn`).
- A sale posted by hand that a calculation has costed before its handler trashed it is
  passed by when the account is reset (`ResetCostOfSalesService.ts:34`): `ResetRepairs`
  speaks of the sales that the bot posted.
- On a page opened for an account that is no asset, the results of a reset lack that
  account. `ListedAccountsAnswered` asks only for the assets.
- A reset that overlaps a calculation can leave a cost of sales that no later reset
  finds, for the same reason. `LoneResetRestores` is about the Inventory Book only, and
  `SoundAfterReset` sets these costs (`orphans`) apart.
- A deleted sale is taken for a sale when it *debits* an INCOMING account
  (`InterceptorOrderProcessorDeleteFinancial.ts:70`); sales credit it. `DebitIncoming`
  is the set of sales for which the test succeeds.
- A deleted credit note leaves its transaction in the Inventory Book (line 42). A
  deleted additional cost looks for the good under the account that is paid, and
  does not flag (line 45). A deleted cost of sales is looked for under
  `#cost_of_sale`, while `addCostOfSales` writes `#COGS` (line 82). A deletion in the
  Inventory Book expects the account types the other way round
  (`InterceptorOrderProcessorDeleteGoods.ts:65`). All of these set `missed`.
- A sale posted or unticked in the Inventory Book by hand may be costed by a
  calculation before its handler reacts, and a sale that is being trashed may be costed
  again once it is unchecked (`Prompt = {}`).
- A page opened for an account that the Inventory Book does not have yet works on
  all accounts; a reset takes no notice of the account or group of the page.
- A handler that dies after posting and before the flag is not repeated: the next
  delivery finds the replica.

### Bounds

Two purchases, two sales, one or two credit notes (`CostOfSales`): enough for a sale
that takes several purchases, a purchase that serves several sales, a backdated
transaction and one transaction that arrives during a run. Quantities up to 3 and
cost 5 give splits with a rounded unit cost. `MaxExtra` bounds the extra costs of a
code, `MaxLock` the closing date, `MaxCrashes` the runs that die, and `MaxCogs` stops
calculations once a sale has that many superfluous costs of sales; the number of
calculations and resets is not bounded. Purchases and sales differ in order and
creation instant, so no symmetry is declared.

`deleted_transactions` has one purchase, one sale and one credit note, two dates, the
quantities 1 and 3 (a purchase of 3 serves the credit note and the sale and has something
left) and one handler that dies, which is every edit followed by every other with runs in
between (2.6 million states). Extra amounts are 0 there: deletions of additional costs and
credits occur, but change no cost; costs with extra amounts are the subject of
`books_without_crashes`.
`replicated_once` has a purchase, two sales, a credit note and a transaction of
another currency (the credit note is about that good too), two handlers, one pending event each, and one failure or repeated
delivery. `replicated_eventually` has two handlers and four transactions, one of
them not about goods. `overlapping_runs` has two users, two sales and two calculations with
traces in the books; users, sales and runs are symmetric. `menu` has one page, two
calls (one may be left over from before a reload), two goods and an account that is
no asset; pages are opened for a good, for that account, for a group and for the book.

### Fairness

- `CostOfSales!FairSpec`: weak fairness of the steps of a calculation and of a reset:
  a script that has started executes its next statement. `Terminates` is checked
  without crashes (a crash also ends a run).
- `EventHandlers!FairSpec`: weak fairness of the calls of a handler, and strong
  fairness of the delivery of the events of each transaction, because a free handler
  may again and again be taken by another transaction. Failures are excluded in that
  run: a failed handler is not repeated by the code.
- `Menu!FairSpec`: weak fairness of the answers of the server. Nothing is assumed about
  users; the page has no timers.

## Proofs

`CostOfSalesProofs` proves for any finite sets of transactions, any codes, dates,
quantities and costs, with `Concurrent` and any number of crashes:

- `TypeCorrect`: `TypeOK`. Needs `TypeInv`: `processSale` has a sale at hand, and
  the reset trashes only existing costs of sales. `SplitsInv` is proved along with it: the
  unchecked splits of a purchase are among its splits, and one that a run has kept has not
  shrunk in the book.
- `StockSafe`, `DivisionSafe`, `ResetComplete`: from the inductive invariant
  `SafetyInv`, whose parts are `UnpostedInv` (what is not recorded is blank),
  `BookInv` (what is left and what is split off cover the purchase), `MemoryInv` (a
  run handles only transactions that exist), `CalculationInv` (until the batches
  are fired, the copy of a purchase and its planned splits make up the purchase in
  the book; after the first batch, copy and splits cover it) and `ResetInv` (what a
  reset has not collected needs no reset). The properties alone are not inductive:
  the write of a stale copy is safe only because of what `CalculationInv` says
  about that copy. `LooseInv` says that splits are unchecked only between two calls of a
  reset, or when `torn`.
- `StockConservation`, `CostConservation`: from `ConservationInv` in addition,
  which says that each purchase, or between the batches its copy, is `Balanced`.
  The point of the argument is `RemainingFacts`: whatever the unit cost was rounded
  to, what is split off and what remains add up.
- `FlagSafe`: `FlagKept`, if `MergeProps`.

`CostedSalesProofs` goes on to what the calculation computes. All of it assumes
`OwnPurchaseCodes`: every purchase has its own code, without which a purchase drops
out of a map after its quantity was counted and the statements are false (see
above).

- `SalesCostedToTheEnd` (`EverySaleCosted`): from `EnoughInv`: as long as no splits are
  unchecked, what the run has yet to return and to sell is at most what is left of the
  copies it holds. The comparison of totals establishes it, each credit note and each
  purchase drawn on takes the same quantity off both sides, and a purchase that is used
  up leaves the map with nothing in it.
- `CogsSafe` (`CogsOnlyForCostedSales`) and `ResetTrashesCogs` (`ResetLeavesNoCogs`):
  from `PlaceInv` (a sale is in the queue, at hand or costed, never in two of these,
  and not yet checked in the book), `OpenInv` (a run draws on purchases that are not
  checked) and `CogsInv`, which follows the costs through the batches. They need
  `EnoughInv`: a sale costed in part is posted without being checked. Hence the exception
  for books in which a reset has died with splits of credit notes unchecked: `torn` is
  never taken back, since the cost of such a sale survives every later reset.
- `BooksAgree` (`BooksTieOut`): from `TieInv`, the same equation between the sum of the
  costs of the sales and the sum of the costs that left the purchases, in the plan
  during a calculation, then for plan and books together between its batches.
- `BackdatedSalesFlagged` (`BackdatedSaleFlagged`, as long as no run has died), if not
  `Concurrent`: from `DateInv`: every sale up to the last date of the run is checked
  or on its way to be. This does not need `MergeProps`.
- `FifoOrderKept` (`FifoAllocation`), if `NoTies`: from `FifoInv`: the run has drawn
  exactly what it has costed, and on a purchase only when those that
  `compareToFIFO` places before it were used up. That these two facts determine the
  closed form is the last lemma. `NoTies` is needed: among tied purchases the
  closed form names no order.

Sums are where these proofs would need induction over data. `SumTheorems` gets it
from the library's theorem that the strict subset order of a finite set is
well-founded: a set of counterexamples has a minimal one, from which one element is
taken. It shows that the recursion of `MapThenSumSet` is well defined and that sums
can be split, compared, and taken one element at a time in any order.

`DeletionsProofs`, for any number of transactions, edits, runs and handlers that die:

- `DeletionTypes` (`DeletionTypeOK`), with `JobInv`: how far a handler is says what it
  has trashed.
- `ResetRepairsBooks` (`ResetRepairs`), without any hypothesis on codes, properties or
  `Prompt`. `SafetyInv` does not hold here, since edits leave splits without purchases
  and sales costed but unchecked. `RepairInv` keeps what a reset relies on: nothing is left of a purchase
  that is gone but its splits, a run holds only what is there, a calculation creates
  splits only for purchases it writes, and what a reset has not collected needs no
  repair; `CalmInv` that no splits are unchecked when a run lists them, as runs do not die
  here.
- `DeletionsLeaveNothing` (`NothingDangling`), if `OwnPurchaseCodes`, `MergeProps` and
  `Prompt` contains the handlers of posts and ticks and the step between unchecking and
  trashing a sale: from `CascadeInv` (splits and costs without their transaction are those
  that the handler at work trashes next),
  `TickInv` (a costed sale without its tick keeps the account flagged, or is about to be
  trashed, so that no calculation takes it again) and `HandInv` (a sale posted by hand is
  about to be trashed, so that a reset has nothing of it to pass by), with `EnoughInv` and
  `PlaceInv` carried over from the engine.
- `UnflaggedBooksAgree` (`UnflaggedTieOut`), under the same hypotheses: `TiedBooks`, the
  equations of `TieInv`, hold unless the account is `Off`: flagged, about to be flagged
  by the handler at work, or with an edit that was missed. An edit or a call of a
  handler after which the account is in order was `Noticed`: it has taken away only
  purchases and sales that no calculation had used, which add nothing to either side;
  `UsedInv` says so of what the handler trashes next. `FlagStep` and `EngineOff` show
  that only the last call of a reset ends `Off`, and by `RepairInv` and `CascadeInv`
  that call finds both sides empty (`ClearedBooks`).
- `UnflaggedUnits` (`UnflaggedStock`), under the same hypotheses: `UnitsTied`, the equation
  between the units that have left the purchases and those of costed sales and applied
  credit notes, holds unless the account is `Off`. The batch that updates the Inventory
  Book keeps it because of `UnitsInv`: during a calculation the units taken off the
  copies are those of the sales costed, of the credit notes processed and of the sale at
  hand, none of which counted as processed before. An unused purchase may go because of
  `CoveredInv`: what is left of a purchase and its splits cover it, and no more than it is
  left, so that one without splits is whole.
- `StockSafeUnderEdits` (`StockNeverUndercounted`), also when edits were missed: from
  `CoveredInv`. A handler trashes a purchase before its splits, never the other way round.

`FifoOrderProofs`: the comparator is antisymmetric and transitive, ties included, as
`Array.sort` needs it.

`EventHandlersProofs`, for any transactions and any number of handlers, events and
failures:

- `ReplicatedAtMostOnce`, `ReplicationPromise`, if `OneAtATime`: from `Apart` (no two
  handlers have one transaction) and `HandlerInv` (a handler past its query works on
  a transaction that has been checked and has no replica). Without `Apart` the
  second is not inductive: another handler could post.
- `PurchasesHaveBook`: from `AccountInv`, which ties the groups of the account to
  where each handler is.
- `LateSalesFlagged`, if `QuietRuns`: from `CopyInv`: the copy of a handler is never
  behind what is stored unless the account is flagged, and a late sale that is not
  flagged has a handler about to flag it.
- `StaleCopies`: `StaleCopyHarmless`, also when calculations do not wait.
- `HandlersTypeCorrect`.

`ScriptRunsProofs`, for any number of users, sales and runs:

- `ScriptsTypeCorrect`, and `LoneResetRepairs` (`LoneResetRestores`), from what a reset
  that is alone has collected at each of its calls (`LoneInv`).
- `UnitsNeverLost` (`NeverUndercounted`): from `IdInv` (splits carry the id of their
  run, so those of two runs are different ones) and `CountInv`: each copy that a
  calculation has yet to write, with the splits already created, covers the purchase.
- `SoundFromThenOn` (`SoundAfterReset`): from `SoundInv`, which says at each call of
  the one run at work what the books will be when it returns, the costs in `orphans` set
  apart.

`MenuProofs`, for any number of pages, accounts and calls: `OneRun` from `MenuInv`
(buttons are disabled from the arrival of the location to the end of the loading, and
while the page has a run), `MenuTypeCorrect` and `ResultsComplete` from `ListInv` (a run
has the context of its page, and the assets of a context only grow; an account that is no
asset stays in the context of the page that was opened for it).

The assumptions are the named `ASSUME`s of the modules: quantities and dates are
positive, costs natural, names of the right sorts, and the constants named above.

Every invariant and every action property of the passing runs is stated by one of these
theorems. Only model-checked is liveness, which is out of the prover's reach:
`Terminates`, `RefinesFairPromise`, `ButtonsComeBack`.

## Not modelled, and plan

1. An abstract specification of the ledger (a FIFO queue of purchases from which
   sales draw in one step) that a calculation without interference implements.
2. Two overlapping runs with the full data of `CostOfSales`.
3. In `Deletions`: deletions of credit notes and of splits in the Inventory Book,
   purchases and credit notes posted there by hand, and script runs that die between
   edits.

Left out for good: `EventHandlerTransactionUpdated`, which the webhook never calls
and whose methods throw; HTTP, authentication and the application context; the
search for the books of a collection (a fixed pair of books is modelled); texts of
results and responses, query strings and date arithmetic; `pushTrash` and
`cleanTrash` of `GoodAccount`, which nothing calls.
