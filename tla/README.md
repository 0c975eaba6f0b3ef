# Formal models of the NEXUS trading runtime

TLA+ modules, TLC configurations and TLAPS proofs about the parts of this
repository that hold money-like state and act on it by themselves:

- the autonomy worker that trades one research position on a Bybit demo
  account, the three files that carry a trade across ticks and restarts, and
  the container supervisor that decides which worker may run;
- the durable order ledger with its reconciliation, and the certified bounded
  session that trades through it;
- the billing events that decide a member's subscription.

The repository holds much more (about 5 500 files: research pipelines, web and
mobile front ends, data capture). The unified deployment
(`deploy/zeabur_unified/start.sh`) runs two processes, the web application with
`EXCHANGE_WRITE=false` and the worker. The bounded session is started by a signed
request (`backend/nexus_bounded_runtime/bootstrap.py`) in a process that may write
to the exchange; billing runs in the web process.

## 1. Inventory

`RA/` stands for `backend/nexus_research_ai_autonomy/`, `DX/` for
`backend/nexus_demo_execution/`, `BR/` for `backend/nexus_bounded_runtime/`,
`BI/` for `backend/nexus_billing/`.

| Component | State it keeps | Operations | Correct when |
|---|---|---|---|
| Container supervisor, `deploy/zeabur_unified/start.sh` | child pids, STOP file on the shared volume | launch, watch both children, trap, STOP then SIGTERM | the worker is ended gracefully; a dead child takes the container down and trading resumes |
| Worker service, `RA/research_autonomy_service.py`, `runtime/single_instance_guard.py` | flock, STOP file | acquire, boot, start, loop, stop, release | one trader per volume; it stops only when asked; it is never locked out for good |
| Scheduler tick, `RA/research_autonomy_scheduler.py`, `RA/research_cycle_v30.py` | health counters (not read back) | restart recovery, reconcile, manage ticks, one opportunity cycle, exception path | an open position is managed, never forgotten, before anything is entered |
| Position lifecycle manager, `RA/position_lifecycle_manager.py`, `RA/position_manager.py` | in-memory position, `research_pnl_position.json` | recover from the exchange, manage cycle, save / clear checkpoint | the position on the exchange is the truth; the checkpoint only lends it an identity |
| Management and settlement, `RA/trade_manage_v30.py`, `RA/trade_completion_v30.py`, `RA/same_setup_reentry_guard.py` | `research_pnl_entry_context.json`, `last_trade_closure.json` | one manage tick, close, settlement poll, finalize, persist closure | each closed trade leaves one closure with its own identity, and that debt is kept until it is accounted for |
| Entry path, `RA/v30_production_cycle.py`, `RA/research_pnl_trade_v30.py`, `RA/bybit_demo_real_transport.py` | order in flight | pending-accounting guard and retry, order, checkpoint, entry context | at most one position; no entry while a closure is pending |
| Wallet accounting, `DX/wallet_lifecycle_accounting.py` | none | reconcile wallet before / after with fills and closed PnL | `ACCOUNTING_COMPLETE` only when they agree |
| Demo write client, `DX/demo_write_client.py` | write counters | positions, orders, executions, signed HTTP | an error is never taken for an answer |
| Order ledger, `DX/durable_order_ledger.py`, `DX/order_reconciliation.py` | PostgreSQL intents, fills | intent before submission, transitions, restart recovery | legal transitions only, an unknown order is reconciled, never resubmitted |
| Certified bounded session, `BR/certified_{entry,exit,session}.py`, `DX/bounded_autonomous_engine.py` | the supervised trade, kill switch, deadline | start with startup reconciliation, entry, lookups after a lost reply, supervision, durable close and its fallback, finalisation | nothing is sent before it is recorded, nothing is sent over an unknown order, the session ends |
| Runtime lease, `BR/runtime_lease.py`, `durable_lease_store.py`, `bounded_start_auth.py` | lease row | signed one-shot start, claim, renew, expire | one process runs sessions |
| Billing, `BI/service.py`, `event_repository.py`, `repository.py`, `subscription.py`, `routes.py` | event ledger and subscription row in PostgreSQL | webhook, claim, decide, transition, mark, record an error | no event is lost or booked without effect; the lifecycle is never left; the plan is what an event says |
| Checkpoint and recovery libraries | generic checkpoint files | atomic store, migrate, recover | a torn file is never loaded |
| Entitlements, usage metering, auth, capture supervisor, data lake, ingest, control plane, strategy research, legacy engines, web and mobile | their own | | not on the trading path of the deployment |

How they interact. `start.sh` launches the worker, which takes the flock and
runs `run_forever`. Each iteration calls `run_one_autonomy_tick`: it reads the
exchange (`reconcile_research_position`), and then either runs `MaxTicks`
manage ticks on the open position or one opportunity cycle. A manage tick that
closes the position settles it (`_finalize_from_context`): clear the checkpoint,
write the closure, clear the entry context, three writes with nothing atomic
about the three together. An entry first consults the closure (pause while it
is pending, retry its accounting), sends a market order with resting stop loss
and take profit, and writes checkpoint and then context. The exchange is the
fourth party: it fills the resting orders when it likes and its replies can be
lost. A new lifecycle manager is built on every invocation, so all that
survives between ticks is on disk or on the exchange.

The bounded session is a thread of the process that received the start request.
It shares the order ledger with the next session and, through PostgreSQL, with
the next process; nothing else survives a crash. Every order goes through three
transactions and two requests (record, mark SUBMITTING, send, reply, lookup),
and a close through one more (CLOSE_PENDING of its entry). The webhook is served
by four threads of one gunicorn process; each SQL statement of
`process_provider_event` commits on its own.

What is hard: the exchange moves between any two statements of the worker; a
failed position read looks like an answer; a lost reply hides an order that did
fill; an acknowledgement is taken for a fill; a crash separates the fill from its two files and the three writes of
settlement; a record names its trade through a file of its own that may be a
trade behind; containers overlap during a redeploy on one volume; an order whose
reply was lost arrives after the lookups gave up; a restart meets intents in
every state; two deliveries of one event read the subscription before either
writes it. `PROJECT.json` lists 40 such hazards at their lines, each with the
properties that cover it.

## 2. Modules

| Module | Content |
|---|---|
| `ResearchTrade` | the worker's trade lifecycle with the exchange, the files, crashes and lost replies |
| `TradeSlot` | abstract specification: a one-slot ledger with at most one unsettled debt, which is settled only when the slot is empty |
| `ResearchTradeProofs` | theorems about `ResearchTrade` |
| `ResearchTradeRefinement` | proof that `ResearchTrade` implements `TradeSlot` |
| `ResearchTradeRecords` | theorems about what checkpoint, context and closure say of each other |
| `MCResearchTrade` | the environments the runs use |
| `WalletReconcile` | the arithmetic that matches a closed trade with the wallet, with its theorems |
| `WorkerSupervision` | containers, supervisors, workers, the flock and the STOP file |
| `TradingTerm` | abstract specification: trading is an office held for one term at a time, left only after notice |
| `WorkerSupervisionProofs` | theorems about `WorkerSupervision`, and that it implements `TradingTerm` |
| `OrderLedger` | the durable ledger, the exchange's orders, reconciliation and the bounded session |
| `SubmitOnce` | abstract specification: an order is recorded, committed, sent at most once, retired when over |
| `OrderLedgerProofs` | theorems about `OrderLedger` |
| `OrderLedgerRefinement` | proof that `OrderLedger` implements `SubmitOnce` |
| `BillingEvents` | billing events, their ledger and the subscription row, statement by statement |
| `MCBillingEvents` | the events and starting rows the run uses |
| `SubscriptionBook` | abstract specification: what an event does to the account, how it is booked and what is promised to the provider |
| `BillingEventsProofs` | theorems about `BillingEvents`, and that it implements `SubscriptionBook` |

### ResearchTrade

State: the exchange (`row`: the open trades summed in each one-way position
row; `opened`: trades whose entry order it has taken; `last`: the latest fill;
`late`: trades closed where settlement does not look), the disk (`ckpt`, `ctx`, `closure`, one file each), the worker
(`pc`, the manager's position `mpos`, `ticks`, the filled order `entry`, the
closure record `outcome`), and two observers no action reads (`accounted`: trades
that became ACCOUNTING_COMPLETE or never filled; `calm`).

A trade is an identity. Prices, sizes, sides, stops and wording are
abstracted; the management decision and the candidate selection are
nondeterministic choices (hold or exit; wait or enter). Kept are every read of
the exchange and what its failure is taken for, every write of a file and its
order, and every early return. `pc` has a value for each point between two of
those, so that a crash or an exit by the exchange can fall there:

| Phase | Code | Actions |
|---|---|---|
| boot, idle | `restart_recovery`, first half of `run_one_autonomy_tick` | `Boot`, `ReconcileOpen`, `ReconcileFlat` |
| tick, query, evaluate, save, close | `manage_tick_once` | `TickOnOpen`, `TickRecovers`, `TickFindsNone`, `QueryOpen`, `QueryEmpty`, `QueryRaises`, `EvaluateHold`, `EvaluateExit`, `SaveThenHold`, `SaveThenClose`, `CloseFills`, `CloseUnfilled`, `CloseFails`, `CloseFillsUnseen` |
| finalize | `finalize_closed_trade` with its settlement poll | `FinalizeComplete`, `FinalizePending`, `FinalizeNotZero`, `FinalizeRaises` |
| clearCkpt, persist, clearCtx | `_finalize_from_context`, `clear_entry_context` | `ClearCheckpoint`, `PersistClosure`, `ClearContext` |
| gate, select | `run_research_demo_loop` | `GatePasses`, `GateSettles`, `Wait`, `Enter`, `EnterUnfilled`, `EnterUnseen` |
| entryCkpt, entryCtx | end of `run_research_pnl_trade_v30` | `EntryCheckpoint`, `EntryContext` |

Environment: `ExchangeExit`, `Crash`, `Restart`, and the failures that ride on
the worker's own actions. The constant `Events` says which kinds happen
(`exit`, `read`, `post`, `ack`, `void`, `late`, `raise`, `crash`): properties that hold in all
environments are separated from those that need one, and the theorems can name
the hypothesis they need.

Some points a reader may look for:
- `ReadsFlat`: `recover_from_exchange` replaces a failed query by an empty
  list, so a failed read and a flat account are one action.
- `QueryEmpty` and `QueryRaises`: in `manage_tick_once` a `DemoWriteError` is
  taken for an empty row; any other exception ends the invocation.
- `EvaluateExit` clears the checkpoint before the close is sent, and
  `SaveThenClose` writes it again: both are in the code, in that order.
- `CloseUnfilled` (event `ack`): `reduce_only_close` returns on the
  acknowledgement, and nobody acts on the `position_zero` it stores.
  `manage_tick_once` goes on to settlement, so a closure can be written, and
  checkpoint and context removed, while the row is open or partly open; what is
  left of the order may fill at any time (`ExchangeExit`).
- `EnterUnfilled` (event `void`): an order number is enough to be accepted, so
  checkpoint and context are written whether or not the order fills.
- `Reconciles(t)` stands for fills, closed PnL and wallet agreeing: the closing
  execution is looked for within 15 minutes of the entry, and the wallet has
  moved by `t`'s result only as long as no later trade has filled.
- `GateSettles` uses the stored `zero`: the retry rebuilds the record from what
  was stored, it does not read the position again.

### WorkerSupervision

State: the container the platform wants, where each container's supervisor and
worker are, the holder of the flock, the STOP file, and the observer `asked`.
Worker actions follow `run_forever` (a STOP file of an earlier life is removed
at start; the tick looks at STOP again; `scheduler.stop()` writes STOP itself
before the lock is released); supervisor actions follow `start.sh` (launch,
either child gone, retirement, `kill -0`, `touch STOP`, SIGTERM at once).
`Redeploy`, `WebGone`, `BootFailed` and `Dies` are disruptions. The worker
installs no SIGTERM handler, so `SendTerm` ends it wherever it is.

### WalletReconcile

`reconcile_wallet_before_after` over integers, amounts being multiples of the
exchange's smallest unit; a missing amount counts as 0, as `_d` has it. It has
no state. `ResearchTrade` uses its outcome as `Reconciles(t)`: theorem
`LaterResultIsSeen` says why a later trade's fill makes an earlier one
irreconcilable (up to a coincidence of amounts, which the model leaves out), and
`UnknownResultMovesNothing` why a close that is not found does.

### OrderLedger

State: the intents' rows (`ledger`, `closes`), the exchange (`order` by
orderLinkId, `pos`), and the process, which a crash loses (`pc`, the intent
being submitted, the supervised entry, lookup rounds, what the startup
reconciliation still has to look up, the kill switch, the deadline). Intents are
numbered in the order of `created_at`.

| Phase | Code | Actions |
|---|---|---|
| down, up, startup | process start, `start`, `_ensure_certified_stores`, `startup_reconcile` | `Boot`, `Start`, `StartupReconcile`, `StartupDone`, `StartupFails` |
| loop, orders | `run_loop`, `_try_entry`, `_supervise` | `TryEntry`, `CheckOrders`, `NoEntry`, `PositionGone`, `ForceFlat`, `LeaveLoop` |
| persistEntry, persistClose, pend, mark | `persist_durable_intent`, `persist_durable_close_intent` | `PersistEntry`, `PersistClose`, `PendEntry`, `MarkSubmitting` |
| submit, reply, confirm, recheck | `submit_after_persist`, `submit_close_after_persist` | `Send`, `ReplyMissing`, `ReplyAck`, `Confirm`, `Submitted` |
| lookup, relook | `reconcile_submit_unknown` | `Lookup`, `Relook`, `GiveUp` |
| wait, settleEntry, settleClose | `_wait_fill`, end of `submit_close_after_persist` | `WaitFill`, `SettleEntry`, `SettleClose` |
| exit, finalize | `_force_flat`, `_record_exit`, `_finalize` | `Flattened`, `CloseFallback`, `RecordExit`, `Finalize` |

Environment: `OrderStep` (an order arrives late, rests, fills in parts, is
rejected or cancelled), `ProtectiveExit`, `CallFails` (any request or
transaction raises), `TimeUp`, `Crash`. One position of one symbol is modelled,
an entry being worth two lots so that it can fill in part. `CANCEL_REQUESTED` is
left out, nothing requests it; so are the history table and the fee and PnL
columns. One process at a time runs sessions: that is what the runtime lease is
for, which is assumed here and not modelled.

### BillingEvents

State: PostgreSQL (`ledger` of the events, `status`, `plan` and `sid` of one
account's row), the threads (`pc`, `job`), the provider (`kind`: what each event
says, `overlap`: whether deliveries ever overlap, `acked`: what it will not
deliver again on its own), and two observers no action reads (`fate`: what an
event was seen to do; `last`: the event that last changed the row). Each SQL
statement is an action: `Insert`, `Lookup`, `Reclaim` (`begin_processing`),
`Read`, `Create` (`ensure_subscription` and the decision), `Check`, `Apply`
(`apply_provider_transition`), `MarkProcessed`, `MarkRejected`, `RecordError`,
`Answer`. `Deliver` is a first delivery, a retry or a duplicate. Faults:
`StatementFails` (inside the `try` it leads to `record_transient_error` and 500,
outside it straight to 500), `ReplyLost`, `Crash`. The columns no decision reads
(cancellation schedule, customer, dates) are left out, and so is the second
execution `PostgresPool.execute` may make of one statement when its commit was
not confirmed: it writes the same values to the same row.

## 3. Runs

| Run | Environment and bounds | Properties |
|---|---|---|
| `trade_all` | all events but `void`; 2 symbols, 3 trades, 2 ticks, 1 crash (about 942 000 states) | `TypeOK`, `CheckpointNamesOpenTrade`, `NoEntryWhilePending`, `PendingNotOverwritten`, `CompleteStaysComplete`, `CalmEntryAfterAccounting` |
| `trade_readable` | all but `read` and `late`; 2 symbols, 3 trades, 2 ticks, 2 crashes (about 161 000 states) | `AtMostOnePosition`, `ImplementsSlot`, `EventuallyFlat` |
| `trade_settles` | `exit`, `raise` and `void`; 2 symbols, 3 trades, 2 ticks (about 7 600 states) | `ContextOfManagedTrade`, `PendingEventuallyAccounted` |
| `trade_readfail` | `read` | violates `AtMostOnePosition` |
| `trade_unseenexit` | `exit` | violates `EntryAfterAccounting` |
| `trade_late` | `late` | violates `PendingEventuallyAccounted` |
| `supervision` | 2 containers, 3 disruptions (about 4 000 states) | `TypeOK`, `OneTrader`, `StopsOnlyWhenAsked`, `TradingResumes`, `ImplementsTerm` |
| `ledger` | 3 intents, 1 lookup round (about 780 000 states) | `TypeOK`, `NeverWrittenOff`, `FillsAreReal`, `PersistedBeforeSent`, `OneOpenEntry`, `LeftTradeBlocksStart`, `UnknownBlocksEntry`, `OrphanBlocksEntries`, `ImplementsSubmitOnce`, `SessionEnds` |
| `ledger_ackclose` | 2 intents | violates `ClosedOnlyWhenFlat` |
| `ledger_restart` | 2 intents | violates `RestartRecovers` |
| `billing` | 2 events of 8 kinds, 5 starting rows, 2 threads, 1 fault (about 2 700 000 states) | `TypeOK`, `ProcessedTookEffect`, `AckedIsSettled`, `RedeliveryConverges`, `PlanFollowsEvent`, `SerialLifecycle`, `ImplementsBook`, `EventsSettle` |
| `supervision_term` | 2 containers, 1 disruption | violates `GracefulShutdown` |

Bounds. Two symbols distinguish "the same row" from "another row", which is all
the code can tell (it compares symbols). Three trades are an open one and two
predecessors, so that a context can be two trades old and a debt can meet a
second closure. `trade_all` leaves out `void`, which together with `read` breaks
`CheckpointNamesOpenTrade` (section 4); `trade_readable` leaves out `late`, which
keeps a closure pending, as `FinalizePending` followed by `Wait` does. Two manage ticks give a first, and a last that returns.
One or two crashes reach every pair of writes, and a crash during recovery from
a crash. Two containers overlap, and three disruptions let one be replaced and
come back. `Trades` bounds the run: when all are used up `Enter` is disabled,
the worker goes on waiting, and liveness is still meaningful because `Wait` and
`GateSettles` stay enabled. Deadlock checking is on in every run.

In `ledger`, three intents are an entry, its close and the next entry; the code
makes three lookups after a lost reply (`BOUNDED_RECONCILE_ATTEMPTS`), the run
one, since what a further round can find an order's late arrival already shows,
and the safety theorems hold for every number of both. Crashes and failing
calls are not bounded there. In `billing`, two events are the smallest number
that can be out of order, two threads that can overlap; the kinds are one for
each decision the code makes, two plans included. One fault is enough to cut a
delivery at every statement; two faults were also checked once (about 5 300 000
states with one kind fewer) and change nothing. Each `ResearchTrade` run also
evaluates `WalletReconcile` on small amounts against its reference.

What the passing runs show:
- Whatever fails (`trade_all`): a checkpoint never names a trade its row does
  not contain; no order is placed while a closure is pending, and a pending
  closure is never replaced by another trade's; a completed closure does not go
  back to pending (up to the first crash); and as long as nothing but the worker
  has acted every trade is accounted for before the next.
- While position queries answer (`trade_readable`): the worker is a one-slot
  ledger. At most one position is open, a debt is settled only on a flat account
  and before the next order, and an open position is always found again and
  closed.
- A pending closure is settled, and is the managed trade's (`trade_settles`), but
  only in this environment: no reply or read is lost, no worker dies, and an
  acknowledged close fills before the settlement has looked for the last time,
  within 15 minutes of the entry. Section 5 says what breaks it.
- The order ledger (`ledger`): whatever is lost, late or cut, an intent is never
  written off while its order may still execute and never filled by an
  acknowledgement; no entry is sent over one whose outcome is unknown; an order
  is sent at most once (`SubmitOnce`); and every session ends. An entry that was
  executed or never sent and has no session to look after it (`Orphan`: its trade
  ended by take profit, stop loss or the fallback, or its process died) stays open
  for ever, as far as sessions go (the one-off recovery tool
  `p1_run8_accounting_recovery.py`, run by hand, is not modelled), and no other
  entry is recorded beside it (`OrphanBlocksEntries`); and
  a process that has left a trade on record never starts another session, because
  the kill switch stays engaged (`LeftTradeBlocksStart`). The code holds the
  supervised trade twice, in a local of `run_loop` and in `_last_known_active`;
  the second property is also why one variable, `active`, can stand for both.
- The containers (`supervision`): besides one trader and no unasked stop, all
  containers together behave as one term of trading after another
  (`ImplementsTerm`): the office is vacant between two workers, a notice of an
  earlier term does not count, and after a notice no tick begins and the worker
  may only leave.
- Billing (`billing`): however deliveries overlap, an event is booked as
  processed only after it took effect, and acknowledged only after it took
  effect or was refused; the plan is only ever what an event says. Without
  overlap an ended subscription stays ended, an event that was the last to
  change the row is neither repeated nor rejected, and every event settles. Each
  step is one of `SubscriptionBook` (`ImplementsBook`): an event takes effect, is
  recognised or is refused, is booked for that, and promised to the provider only
  after; without overlap each of these agrees with the row as it is at that step,
  and a promised event is never touched again.

What they do not show for billing, each refuted by TLC when the property is
stated without its hypothesis:
- with overlap the lifecycle can be left: two threads check against the same
  row, and the second `UPDATE` does not compare the status it was decided on, so
  `expired` can become `active`; a late duplicate can also send an acknowledged
  event back to `processing` or `received`;
- even without overlap an event can take effect twice: checkout applied, crash
  before `mark_processed`, `payment_failed` processed, checkout delivered again.
  `event_repository.py:9-11` speaks of "at-most-once *effect* while still
  recovering from crashes"; `RedeliveryConverges` is the part of it that holds;
- a terminal ledger row is not final: the read that follows `mark_processed`
  (`service.py:146`) can raise, and `record_transient_error` then writes
  `received` over `processed`;
- order of arrival matters where the lifecycle allows both orders: an activation
  without a plan that arrives before the checkout leaves the account active on
  the free plan, and the checkout is then rejected as active to active.

### Fairness

The service loop does not block for good and the supervisor restarts a dead
worker (`WF` of `Worker`, `Restart`). Strong fairness is assumed of five
actions because each competes with another outcome of the same statement that
cannot win for ever:
- position queries do not fail for ever (`ReconcileOpen`, `QueryOpen`);
- a held position's horizon expires (`SaveThenClose`): `opened_at` is in the
  checkpoint and only grows older. A failed query drops the checkpoint
  (`position_lifecycle_manager.py:163-169`) and the recovered position begins anew
  at `:249`, so with `read` the code does not guarantee this, and no run that
  checks a liveness property has that event. Without it, the checkpoint of an open
  row is lost by a crash (bounded), by an entry nobody saw (once for each position)
  or by an unfilled close (after which the horizon had already expired or an exit
  been decided, so `SaveThenClose` had been taken);
- a close order that can fill eventually does, so closes are not left unfilled for
  ever (`CloseFills`);
- exchange rows and wallet of a trade whose close is found eventually agree
  (`GateSettles`).

Nothing is assumed of entries, of `FinalizeComplete` or of the exchange. In
`WorkerSupervision` processes are scheduled, and the platform restarts the wanted
container and retires the others (weak fairness of each worker and each
supervisor).

In `OrderLedger` the session's thread keeps running and its deadline comes (`WF`
of `SessionStep` and `TimeUp`: every request has a time limit, and `run_loop`
compares the clock on each round); nothing is assumed of the exchange, the
operator or of crashes. In `BillingEvents` each thread keeps running (`WF` of
`Process`) and the provider delivers an event that was not answered 2xx again,
whenever that stays possible again and again (`SF` of `Retry`); Stripe stops
after some days, which is longer than any bounded number of faults.

## 4. Theorems

All hold for every value of the constants, and are checked with `tlapm`.

| Theorem | Statement | Inductive invariant |
|---|---|---|
| `TypeCorrect` | `Spec => []TypeOK` | `TypeOK` itself, which says in which phases each record is in memory |
| `CheckpointIdentity` | without `read` or without `void`: `Spec => []CheckpointNamesOpenTrade` | `IdentityInv`, and `SlotInv` where reads answer |
| `NoEntryOnDebt` | `Spec => NoEntryWhilePending`, in every environment | `DebtInv` |
| `SinglePosition` | without `read`: `Spec => []AtMostOnePosition` | `SlotInv` |
| `DebtIsKept` | `Spec => PendingNotOverwritten`, in every environment | `DebtInv` |
| `Refinement` | without `read`: `Spec => ImplementsSlot` | `SlotInv`, `DebtInv` and `FilledInv` |
| `SupervisionTypeCorrect` | `Spec => []TypeOK` | `TypeOK` |
| `SingleTrader` | `Spec => []OneTrader` | `OwnerInv` |
| `StopIsAskedFor` | `Spec => []StopsOnlyWhenAsked` | `OwnerInv` and `StopInv` |
| `SupervisionRefinesTerm` | `Spec => ImplementsTerm` | `TermInv` |
| `ContextIdentity` | without `read` and `post`: `Spec => []ContextOfManagedTrade` | `SlotInv` and `NamedInv` |
| `SettledOnce` | `Spec => CompleteStaysComplete`, in every environment | `FiledInv` |
| `CalmIsAccounted` | `Spec => CalmEntryAfterAccounting` | `CalmInv` |
| `LateIsAccounted` | with no events but `late`: `Spec => EntryAfterAccounting` | `CalmInv` |
| `BlockedForGood` | without `read`: a debt that cannot be paid stays, no trade is entered again, and `PendingEventuallyAccounted` is lost | `SlotInv` and `DebtInv` |
| `PassesIffExplained`, `UnknownResultMovesNothing`, `LaterResultIsSeen` | what `reconcile_wallet_before_after` accepts, for all amounts | (no state) |
| `LedgerTypeCorrect`, `WrittenOffIsOver`, `LedgerFillsAreReal`, `IntentBeforeOrder`, `SingleOpenEntry`, `NoEntryOverUnknown` | `OrderLedger`'s `TypeOK`, `NeverWrittenOff`, `FillsAreReal`, `PersistedBeforeSent`, `OneOpenEntry`, `UnknownBlocksEntry` | `Inv` of `OrderLedgerProofs` |
| `LedgerImplementsSubmitOnce` | `Spec => ImplementsSubmitOnce` | the same `Inv` |
| `OrphanHoldsLedger` | `Spec => OrphanBlocksEntries` | the same `Inv` |
| `NoStartBesideTrade` | `Spec => []LeftTradeBlocksStart` | `Inv` and `LeftInv` |
| `EntryClosedByAck` | an entry becomes CLOSED only when executed, by the session that closes it, after the exchange took its close | `Inv` and `AckInv` |
| `WhenStartFails` | `Spec => []` (`RestartRecovers` exactly when no intent to look up is in `Refusals`) | `Inv` and `TodoInv` |
| `BillingTypeCorrect`, `ProcessedIsReal`, `NoEventLost`, `PlanIsPaidFor`, `LifecycleKept`, `RedeliveryRecognised` | `BillingEvents`' `TypeOK`, `ProcessedTookEffect`, `AckedIsSettled`, `PlanFollowsEvent`, `SerialLifecycle`, `RedeliveryConverges` | `Inv` of `BillingEventsProofs` |
| `BillingImplementsBook` | `Spec => ImplementsBook` | the same `Inv` |

`AtMostOnePosition` is not inductive: a state with one open row, and a worker
about to enter, satisfies it and steps out of it. `SlotInv` adds what each phase
knows while reads answer: an entry is attempted on a flat account, management and
settlement have no other row open than their own, and a closure record is complete
only on a flat account. `DebtInv` needs no hypothesis: a trade is ordered with
nothing owed, and a context that is on disk beside a debt is the debt's own, so
that even a settlement repeated after a crash, or begun before the close has
filled, writes the same trade. For the same reason `CheckpointNamesOpenTrade` needs
the manager's position and the fresh order to name their rows, and `OneTrader`
needs every worker past its lock to be the owner of the flock. The hypothesis
`"read" \notin Events` is needed for the first: run `trade_readfail` refutes the
conclusion without it. That of `CheckpointIdentity` is needed too: a failed read
sends an order beside an open row, the order never fills, and the checkpoint
written for it names a trade the row does not contain (TLC finds it with these two
events). `Refinement` maps the ledger's slot to the open trade, its used set to
`opened` and its debt to the pending closure's trade; fills, orders that never
fill, closes, new debts and settlements map to the ledger's steps and all others
to stutters. A debt may be reported while its slot is occupied, because the code
records a closure after an acknowledgement; it is settled only when the slot is
empty, since a record is complete only when the row was seen empty.

The records of a trade. `ContextOfManagedTrade` needs the checkpoint too: it is
what names the next managed position, and between the two writes of an entry it
is the fresh order's (`NamedInv`). Its hypotheses cannot be dropped: with `post` or
`read` alone, or after a crash, TLC finds a position recovered without a name beside
the context of an earlier trade, and the code settles it as that trade. `CompleteStaysComplete` needs that the closure on disk is
never the context's trade (`FiledInv`), which is why the context is removed
after the closure is written. `CalmInv` follows a trade from order to closure:
as long as nothing but the worker acts, only the last trade can be open or
unaccounted for, and on a flat account between two invocations its closure says
so.

What accounting can and cannot do. `LateIsAccounted` drops the word "calm" where
that is possible: if closes may only be late, the pause does its work in every
execution. TLC refutes the conclusion for each of `exit`, `read`, `post`, `raise`
and `crash` alone (`trade_unseenexit` is the run for `exit`), and finds no
counterexample with `late`, `ack` and `void` together, for which the theorem is not
proved. `BlockedForGood` is the general form of finding 3: `Blocked` is a pending
closure whose closing execution is outside the window, after which a trade has
filled, or whose stored record says the position was not zero and which has no
context left to be settled with again; no step of worker, exchange or platform
changes any of that while reads answer. `trade_settles` is the other half: in its
environment no closure is `Blocked`.

The supervision. `TermInv` adds to the owner of the flock what the phase of its
term says of it: who owns the flock is between its lock and its exit (`HeldInv`,
the converse of `OwnerInv`), and a stop that was asked for is still to be seen on
the volume (`NoticeInv`). Each step of the owner is then a step of the term, and those of
all other workers and supervisors are a notice or a stutter.

The order ledger. The single properties say too little of the session's memory.
`Evidence` ties every state of an intent to what the exchange must have done for
it to be written; `CurInv` says which states the intent being submitted can have
at each point, `ActiveInv` the same of the supervised entry, and `CalmInv` that
an entry is recorded only with nothing unfinished. A crash empties the session
and leaves `Evidence`, so the next start is covered. For the proof, steps are
split into those that write nothing durable, those that move one intent, the
request itself, and the exchange's. In the refinement an intent's states map to
recorded, committed and retired, an order's to unsent, flying, filling and over;
each of those groups implements one abstract action or a stutter.

`OrphanBlocksEntries` is an action property that carries its own induction: an
orphan is an orphan after every step. Of the steps that move a row, those of the
intent being submitted are not about it, those of the supervised entry are not
either, and a lookup answers FILLED or nothing, neither of which is final.
`LeftInv` says for each point where the session goes next and that an exception
engages the kill switch before `_finalize`; only a test calls its `release`.
`WhenStartFails` turns finding 6 into a complete list: `Evidence` excludes most
pairs of ledger and order state, and of those that are left the transition table
refuses exactly eight, the `Refusals`, in a start. Four have the intent
SUBMITTING, as in the run; in two its order was cancelled while the ledger says
ACCEPTED or SUBMIT_UNKNOWN, in two its close was prepared (CLOSE_PENDING) and the
process died. `EntryClosedByAck` is the positive side of finding 5: no lookup,
restart or lost reply closes an entry.

Billing. `Told` ties the event ledger, the answers and the threads about to
write either to what was seen to happen. `LastShows` says the row says what the
last event to change it says, overlap or not. For the lifecycle, `Serial` and
`Decided` say that without overlap a decision still holds when it is acted on;
the only assumptions on the constants are that kinds are what
`normalize_stripe_event` can produce and that an account without a row is on the
default plan. For the refinement `Settled` adds that, without overlap, an answered
event is booked and no thread has it in hand, and `Decided` that an event about to
be rejected still has no legal transition. Claims and error marks map to `Reopen`
or a stutter, the decision of `Read` to `Recognise` when the row converges, the
`UPDATE` to `Take`, the marks to `Book` and `Refuse`, the answer to `Promise`.

Only model-checked: `EventuallyFlat`, `PendingEventuallyAccounted`,
`TradingResumes`, `SessionEnds` and `EventsSettle` (liveness under fairness is
out of the prover's reach). Every safety and action property of a passing run is
also a theorem, and of the properties the violation runs refute, `AtMostOnePosition`,
`EntryAfterAccounting`, `PendingEventuallyAccounted` and `RestartRecovers` have a
theorem that says under which hypothesis, or in which states, they hold or fail, and
of `ClosedOnlyWhenFlat` `EntryClosedByAck` is the part that holds.
`GracefulShutdown` has none.

The one hazard without a property is the tolerance of the wallet formulas
(`wallet_lifecycle_accounting.py:132`), which the `WalletReconcile` theorems are
about.

## 5. Findings

Each is a violation run whose trace is short enough to replay by hand.

1. `trade_readfail`. A failed position query reads as a flat account, so a
   second trade is entered beside the open one. `research_cycle_v30.py:3`:
   "Position-first. Max concurrent Research = 1."
2. `trade_unseenexit`. A stop or take profit filled between two invocations is
   found as a flat account: no closure is written, nothing is pending and the
   next entry goes ahead. `v30_production_cycle.py:269` says an unaccounted
   closed trade pauses any new entry.
3. `trade_late`. Settlement looks for the closing execution within 900 000 ms
   of the entry, while a position may be held for 3600 s. The closure of such
   a trade stays pending, and blocks every later entry.
4. `supervision_term`. SIGTERM follows the STOP file at once and the worker
   dies in the middle of a tick. `start.sh:64`: "Prefer graceful STOP file".

5. `ledger_ackclose`. The acknowledgement of a close moves its entry to CLOSED
   whatever the lookup said of the close. `p1_qualification.py:583`, the code it
   mirrors: "Position flat is not a full CLOSED."; `demo_write_client.py:396`:
   "acknowledgement is never treated as a fill".
6. `ledger_restart`. A crash between the order and its reply leaves the intent
   SUBMITTING; the restart sees New or Filled, which `ALLOWED_TRANSITIONS` does
   not allow from there, so `transition` raises through `startup_reconcile` and
   every later start fails. `durable_order_ledger.py:40` calls the link id
   "retry/restart stable".

`PendingEventuallyAccounted` is also lost, besides `late`, in three ways:
- a close that is acknowledged and has not filled, or not fully, when the
  settlement stops waiting (`ack`, with no other failure) stores `position_zero` as
  false; its context is removed, the retry rebuilds the record from what was
  stored, and entries stay blocked although the position closes later;
- a failed last poll stores the same (`read`);
- an exit, or the fill of a close, that the worker did not see leaves an entry
  context behind that a later trade without context of its own is then settled
  with (`post` or `read` alone; `exit` with `crash`; two crashes): the closure names the earlier
  trade and its `wallet_before` can never reconcile.

These are listed as hazards, not as runs of their own: the property is the same.

## 6. Not modelled

Inside the modelled components: back-off and health counters (nothing modelled
reads them); the price comparison of the same-setup re-entry guard, sizing and
feasibility gates (each ends in WAIT, as `Wait` does); reflection bundles;
reconciliation from the checkpoint when there is no demo client (not the
deployed configuration); rows of zero size or entry price; orders that arrive
after the worker gave up on them (the request window is 5 s; `OrderLedger` has
them for the bounded session), and entry orders that fill only after their cycle
has ended (a market order fills when it is taken or, as `void` has it, not at all); the pid metadata beside the lock. In
`OrderLedger`: candidate selection, margin and guards (a choice between an entry
and none), several symbols, the runtime lease and its expiry, exports and
lessons. In `BillingEvents`: checkout and portal requests (no local state), the
cancellation schedule, signature checks, and web processes that do not crash
together.

Components without a module are in `PROJECT.json` with the reason: they are
planned below, or do no trading (capture, data lake, research batches, web,
mobile), or are disabled in the deployment (legacy engines).

## 7. Plan

Done: the trade lifecycle and its files, the supervisor, the order ledger with
the bounded session, billing events, wallet arithmetic, and their proofs. Next,
in this order:

1. `RuntimeLease`: `claim_or_resume` of the durable lease store as a compare and
   set, expiry and renewal against a session in flight, as the reason for the
   one process `OrderLedger` assumes.
2. `UsageMetering`: counters and limits of `BI/usage_repository.py` under
   concurrent requests.
3. `CheckpointStore`: the atomic write, the corrupt-file fallback, migration.
4. `ControlPlane`: operator modes of `backend/nexus_private_control`.
5. The composition of `WorkerSupervision` with the trade lifecycle, where
   SIGTERM is the crash, and the scheduler's back-off.

## Running

    tlc -workers 2 -config ResearchTrade_all.cfg MCResearchTrade
    tlc -workers 2 -config WorkerSupervision.cfg WorkerSupervision
    tlc -workers 2 -config OrderLedger.cfg OrderLedger
    tlc -workers 2 -config BillingEvents.cfg MCBillingEvents
    tlapm ResearchTradeRecords.tla
    tlapm WorkerSupervisionProofs.tla
    tlapm OrderLedgerProofs.tla
    tlapm OrderLedgerRefinement.tla
    tlapm BillingEventsProofs.tla
