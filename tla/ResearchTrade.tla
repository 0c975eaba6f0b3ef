--------------------------- MODULE ResearchTrade ---------------------------
(***************************************************************************)
(* The research trade lifecycle of the autonomy worker: one scheduler tick *)
(* reads the exchange (reconcile), then either manages the open position   *)
(* or runs one opportunity cycle that may enter a new one.  Three files    *)
(* carry a trade across ticks and restarts: the position checkpoint, the   *)
(* entry context and the last trade closure.  The exchange moves on its    *)
(* own (stop loss and take profit are resting on it), its replies can be   *)
(* lost, and the worker can die between any two of its writes.             *)
(*                                                                         *)
(* Prices, sides and sizes are abstracted: a trade is an identity, and a   *)
(* symbol's one-way position row is the set of trades whose fills it sums. *)
(***************************************************************************)
EXTENDS Naturals, FiniteSets

CONSTANTS
    Symbols,     \* instruments the scan may select
    Trades,      \* identities of the market orders that may be placed
    None,        \* an absent file, no managed position, no record
    Unknown,     \* a position recovered from a bare exchange row
    Events,      \* what the environment may do, a subset of EventKinds
    MaxTicks,    \* manage ticks per scheduler invocation
    MaxCrashes   \* bound on worker deaths

(***************************************************************************)
(* exit:  the exchange fills a resting stop loss or take profit            *)
(* read:  a position query fails (network error or a non-zero retCode)     *)
(* post:  an order reaches the exchange but its reply is lost, or it is    *)
(*        lost before it gets there                                        *)
(* ack:   a close is acknowledged, and not or only partly filled when the  *)
(*        settlement looks; what is left may fill later, as an exit does   *)
(* void:  an entry order is acknowledged and never fills                   *)
(* late:  a position is closed more than 15 minutes after its entry        *)
(* raise: the wallet snapshot read of the settlement loop raises           *)
(* crash: the worker process dies                                          *)
(***************************************************************************)
EventKinds == {"exit", "read", "post", "ack", "void", "late", "raise", "crash"}

Holding == [sym : Symbols, trade : Trades \cup {Unknown}]
Order   == [sym : Symbols, trade : Trades]
Managed == [sym : Symbols, trade : Trades \cup {Unknown}, open : BOOLEAN]
Closure == [trade : Trades, complete : BOOLEAN, zero : BOOLEAN]

(* None stands for an absent file or record, so it is none itself.         *)
ASSUME ConstantsAssumption ==
    /\ None \notin Trades \cup Holding \cup Order \cup Managed \cup Closure
    /\ Unknown \notin Trades \cup {None}
    /\ Events \subseteq EventKinds
    /\ MaxTicks \in Nat \ {0}
    /\ MaxCrashes \in Nat

VARIABLES
    row,        \* exchange: symbol -> trades open in its position row
    opened,     \* exchange: trades whose entry order it has taken
    last,       \* exchange: the trade filled most recently
    late,       \* exchange: trades whose close settlement cannot find
    ckpt,       \* disk: research_pnl_position.json
    ctx,        \* disk: research_pnl_entry_context.json
    closure,    \* disk: last_trade_closure.json
    pc,         \* where the worker is
    mpos,       \* memory: the lifecycle manager's position
    ticks,      \* memory: manage ticks spent in this invocation
    entry,      \* memory: the order just filled, not yet on disk
    outcome,    \* memory: the closure record not yet on disk
    crashes,    \* deaths so far
    accounted,  \* observer: trades that became ACCOUNTING_COMPLETE or never filled
    calm        \* observer: no event has happened yet

exchange == <<row, opened, last, late>>
disk     == <<ckpt, ctx, closure>>
memory   == <<mpos, ticks, entry, outcome>>
observer == <<accounted, calm>>
vars     == <<exchange, disk, pc, memory, crashes, observer>>

ManagePhase == {"tick", "query", "evaluate", "save", "close", "finalize"}
SettlePhase == {"clearCkpt", "persist", "clearCtx"}
EntryPhase  == {"gate", "select"}
FilledPhase == {"entryCkpt", "entryCtx"}
Phases == {"down", "boot", "idle"}
            \cup ManagePhase \cup SettlePhase \cup EntryPhase \cup FilledPhase

Init ==
    /\ row = [s \in Symbols |-> {}]
    /\ opened = {} /\ last = None /\ late = {}
    /\ ckpt = None /\ ctx = None /\ closure = None
    /\ pc = "boot"
    /\ mpos = None /\ ticks = 0 /\ entry = None /\ outcome = None
    /\ crashes = 0
    /\ accounted = {} /\ calm = TRUE

AllFlat == \A s \in Symbols : row[s] = {}
Pending == closure # None /\ ~closure.complete

(* An event of kind k is admitted, and the execution is no longer calm.    *)
Happens(k) == k \in Events /\ calm' = FALSE

(* The exchange closes the row of s.  The closing execution is looked for  *)
(* within 15 minutes of the entry only.                                    *)
Empties(s) ==
    /\ row[s] # {}
    /\ row' = [row EXCEPT ![s] = {}]
    /\ \/ late' = late
       \/ "late" \in Events /\ late' = late \cup row[s]

(* The wallet has moved from t's wallet_before by t's own result: t's      *)
(* close is found and no later trade has filled.                           *)
Reconciles(t) == t = last /\ t \notin late

(* The invocation returns to the service loop and its manager is dropped.  *)
Return ==
    /\ pc' = "idle"
    /\ mpos' = None /\ ticks' = 0 /\ entry' = None /\ outcome' = None

(* A manage tick that did not close: sleep and tick again, or return.      *)
EndTick ==
    \/ /\ ticks + 1 < MaxTicks
       /\ pc' = "tick" /\ ticks' = ticks + 1
       /\ UNCHANGED <<mpos, entry, outcome>>
    \/ ticks + 1 >= MaxTicks /\ Return

-----------------------------------------------------------------------------
\* Mutant: a bare row is recovered without any trade identity.
RecoveredUnnamed(s) ==
    [sym   |-> s,
     trade |-> IF ckpt # None /\ ckpt.sym = s THEN ckpt.trade ELSE None,
     open  |-> TRUE]

(* Exchange-first recovery.  The row decides that a position exists; the   *)
(* checkpoint only says which trade it is, when the symbol agrees.         *)
Recovered(s) ==
    [sym   |-> s,
     trade |-> IF ckpt # None /\ ckpt.sym = s THEN ckpt.trade ELSE Unknown,
     open  |-> TRUE]

(* A failed query is indistinguishable from a flat account.                *)
ReadsFlat ==
    \/ AllFlat /\ UNCHANGED calm
    \/ Happens("read")
\* Mutant: only a checkpointed position is recovered.
RecoverCheckpointed ==
    /\ ckpt # None /\ row[ckpt.sym] # {} /\ mpos' = Recovered(ckpt.sym)
    /\ UNCHANGED <<ckpt, calm>>

(* recover_from_exchange finds a row.                                      *)
RecoverOpen ==
    /\ \E s \in Symbols : row[s] # {} /\ mpos' = Recovered(s)
    /\ UNCHANGED <<ckpt, calm>>
\* Mutant: a flat account leaves the checkpoint behind.
RecoverFlatKeeps == ReadsFlat /\ ckpt' = ckpt

(* recover_from_exchange finds none, and drops the checkpoint.             *)
RecoverFlat == ReadsFlat /\ ckpt' = None

Boot ==
    /\ pc = "boot" /\ pc' = "idle"
    /\ \/ ~AllFlat /\ UNCHANGED <<ckpt, calm>>
       \/ RecoverFlat
    /\ UNCHANGED <<exchange, ctx, closure, memory, crashes, accounted>>

ReconcileOpen ==
    /\ pc = "idle" /\ pc' = "tick"
    /\ RecoverOpen
    /\ UNCHANGED <<exchange, ctx, closure, ticks, entry, outcome, crashes, accounted>>
\* Mutant: the absence of a checkpoint is taken for a flat account.
ReconcileByCheckpoint ==
    /\ pc = "idle" /\ pc' = "gate"
    /\ ckpt = None
    /\ UNCHANGED <<exchange, disk, memory, crashes, observer>>

ReconcileFlat ==
    /\ pc = "idle" /\ pc' = "gate"
    /\ RecoverFlat
    /\ UNCHANGED <<exchange, ctx, closure, memory, crashes, accounted>>

-----------------------------------------------------------------------------
(* Manage ticks.                                                           *)

TickOnOpen ==
    /\ pc = "tick" /\ mpos.open
    /\ pc' = "query"
    /\ UNCHANGED <<exchange, disk, memory, crashes, observer>>

TickRecovers ==
    /\ pc = "tick" /\ ~mpos.open
    /\ pc' = "query"
    /\ RecoverOpen
    /\ UNCHANGED <<exchange, ctx, closure, ticks, entry, outcome, crashes, accounted>>

TickFindsNone ==
    /\ pc = "tick" /\ ~mpos.open
    /\ RecoverFlat
    /\ EndTick
    /\ UNCHANGED <<exchange, ctx, closure, crashes, accounted>>

QueryOpen ==
    /\ pc = "query" /\ row[mpos.sym] # {}
    /\ pc' = "evaluate"
    /\ UNCHANGED <<exchange, disk, memory, crashes, observer>>

(* An empty row means the exchange closed it.  A DemoWriteError is taken   *)
(* for an empty row as well.                                               *)
QueryEmpty ==
    /\ pc = "query"
    /\ \/ row[mpos.sym] = {} /\ UNCHANGED calm
       \/ Happens("read")
    /\ pc' = "finalize"
    /\ UNCHANGED <<exchange, disk, memory, crashes, accounted>>

(* Any other failure of the query leaves the tick as an exception.         *)
QueryRaises ==
    /\ pc = "query" /\ Happens("read")
    /\ Return
    /\ UNCHANGED <<exchange, disk, crashes, accounted>>

EvaluateHold ==
    /\ pc = "evaluate" /\ pc' = "save"
    /\ UNCHANGED <<exchange, disk, memory, crashes, observer>>

(* The manager marks its position CLOSED and drops the checkpoint before   *)
(* the close order is sent.                                                *)
EvaluateExit ==
    /\ pc = "evaluate" /\ pc' = "save"
    /\ mpos' = [mpos EXCEPT !.open = FALSE]
    /\ ckpt' = None
    /\ UNCHANGED <<exchange, ctx, closure, ticks, entry, outcome, crashes, observer>>

SaveManaged == ckpt' = [sym |-> mpos.sym, trade |-> mpos.trade]

SaveThenHold ==
    /\ pc = "save" /\ mpos.open
    /\ SaveManaged
    /\ EndTick
    /\ UNCHANGED <<exchange, ctx, closure, crashes, observer>>

(* A managed exit, or a held position whose horizon has expired.           *)
SaveThenClose ==
    /\ pc = "save" /\ pc' = "close"
    /\ SaveManaged
    /\ UNCHANGED <<exchange, ctx, closure, memory, crashes, observer>>

CloseFills ==
    /\ pc = "close" /\ Empties(mpos.sym)
    /\ pc' = "finalize"
    /\ UNCHANGED <<opened, last, disk, memory, crashes, observer>>

(* The acknowledgement is enough to settle: the position read after it is  *)
(* stored and not acted on.                                                *)
CloseUnfilled ==
    /\ pc = "close" /\ row[mpos.sym] # {}
    /\ Happens("ack")
    /\ pc' = "finalize"
    /\ UNCHANGED <<exchange, disk, memory, crashes, accounted>>

(* Reduce-only on an empty row is rejected; an order can also be lost.     *)
CloseFails ==
    /\ pc = "close"
    /\ \/ row[mpos.sym] = {} /\ UNCHANGED calm
       \/ Happens("post")
    /\ EndTick
    /\ UNCHANGED <<exchange, disk, crashes, accounted>>

(* The close fills, but its reply or the position query after it is lost.  *)
CloseFillsUnseen ==
    /\ pc = "close" /\ Empties(mpos.sym)
    /\ Happens("post") \/ Happens("read")
    /\ EndTick
    /\ UNCHANGED <<opened, last, disk, crashes, accounted>>

-----------------------------------------------------------------------------
(* Settlement of a closed trade.  The record carries the identity found in *)
(* the entry context, and position_zero as the last poll of the row saw it.*)

Record(complete, zero) ==
    /\ ctx # None
    /\ outcome' = [trade |-> ctx, complete |-> complete, zero |-> zero]
    /\ pc' = "clearCkpt"
    /\ UNCHANGED <<exchange, disk, mpos, ticks, entry, crashes, accounted>>

\* Mutant: fills and wallet are enough, the row is not polled.
FinalizeUnpolled ==
    /\ pc = "finalize"
    /\ Reconciles(ctx)
    /\ Record(TRUE, TRUE)
    /\ UNCHANGED calm

FinalizeComplete ==
    /\ pc = "finalize" /\ row[mpos.sym] = {}
    /\ Reconciles(ctx)
    /\ Record(TRUE, TRUE)
    /\ UNCHANGED calm
\* Mutant: position_zero is not stored with a pending record.
FinalizePendingNoZero ==
    /\ pc = "finalize" /\ row[mpos.sym] = {}
    /\ Record(FALSE, FALSE)
    /\ UNCHANGED calm

\* Mutant: a trade is recorded only once its accounting is complete.
FinalizePendingDropped ==
    /\ pc = "finalize" /\ row[mpos.sym] = {}
    /\ Return
    /\ UNCHANGED <<exchange, disk, crashes, observer>>

(* Fills, closed PnL or the wallet did not reconcile within the wait.      *)
FinalizePending ==
    /\ pc = "finalize" /\ row[mpos.sym] = {}
    /\ Record(FALSE, TRUE)
    /\ UNCHANGED calm

(* The last poll saw the row open, or failed.                              *)
FinalizeNotZero ==
    /\ pc = "finalize"
    /\ \/ row[mpos.sym] # {} /\ UNCHANGED calm
       \/ Happens("read")
    /\ Record(FALSE, FALSE)

(* Without a context there is no decision_id to record and it raises; the  *)
(* wallet snapshot may raise too.  Nothing is recorded.                    *)
FinalizeRaises ==
    /\ pc = "finalize"
    /\ \/ ctx = None /\ UNCHANGED calm
       \/ Happens("raise")
    /\ Return
    /\ UNCHANGED <<exchange, disk, crashes, accounted>>

ClearCheckpoint ==
    /\ pc = "clearCkpt" /\ pc' = "persist"
    /\ ckpt' = None
    /\ UNCHANGED <<exchange, ctx, closure, memory, crashes, observer>>

Account(c) ==
    accounted' = IF c.complete THEN accounted \cup {c.trade} ELSE accounted

PersistClosure ==
    /\ pc = "persist" /\ pc' = "clearCtx"
    /\ closure' = outcome
    /\ Account(outcome)
    /\ UNCHANGED <<exchange, ckpt, ctx, memory, crashes, calm>>
\* Mutant: the context outlives the trade.
ClearContextForgotten ==
    /\ pc = "clearCtx"
    /\ Return
    /\ UNCHANGED <<exchange, disk, crashes, observer>>

ClearContext ==
    /\ pc = "clearCtx"
    /\ ctx' = None
    /\ Return
    /\ UNCHANGED <<exchange, ckpt, closure, crashes, observer>>

-----------------------------------------------------------------------------
(* One opportunity cycle on a flat account.                                *)

(* Writes disabled, no candidate, a gate, a guard or an exception: WAIT.   *)
Wait ==
    /\ pc \in EntryPhase
    /\ Return
    /\ UNCHANGED <<exchange, disk, crashes, observer>>
\* Mutant: the pending-accounting guard is gone.
GateUnguarded ==
    /\ pc = "gate"
    /\ pc' = "select"
    /\ UNCHANGED <<exchange, disk, memory, crashes, observer>>

GatePasses ==
    /\ pc = "gate" /\ ~Pending
    /\ pc' = "select"
    /\ UNCHANGED <<exchange, disk, memory, crashes, observer>>
\* Mutant: the closure is not reloaded after the retry.
GateRetriesBlindly ==
    /\ pc = "gate" /\ Pending
    /\ pc' = "select"
    /\ UNCHANGED <<exchange, disk, memory, crashes, observer>>

(* The retry rebuilds the record from the stored lifecycle: it can only    *)
(* complete when position_zero was stored as true.                         *)
GateSettles ==
    /\ pc = "gate" /\ Pending /\ closure.zero
    /\ Reconciles(closure.trade)
    /\ closure' = [closure EXCEPT !.complete = TRUE]
    /\ Account(closure')
    /\ pc' = "select"
    /\ UNCHANGED <<exchange, ckpt, ctx, memory, crashes, calm>>

Fill(s, t) ==
    /\ t \notin opened
    /\ opened' = opened \cup {t} /\ last' = t
    /\ UNCHANGED late
    /\ row' = [row EXCEPT ![s] = @ \cup {t}]

Enter ==
    /\ pc = "select" /\ pc' = "entryCkpt"
    /\ \E s \in Symbols, t \in Trades :
          Fill(s, t) /\ entry' = [sym |-> s, trade |-> t]
    /\ UNCHANGED <<disk, mpos, ticks, outcome, crashes, observer>>

(* An order number is enough to be accepted: the files of a trade are      *)
(* written whether or not its order has filled.                            *)
EnterUnfilled ==
    /\ pc = "select" /\ pc' = "entryCkpt"
    /\ Happens("void")
    /\ \E s \in Symbols, t \in Trades \ opened :
          /\ opened' = opened \cup {t} /\ accounted' = accounted \cup {t}
          /\ entry' = [sym |-> s, trade |-> t]
    /\ UNCHANGED <<row, last, late, disk, mpos, ticks, outcome, crashes>>

(* The order fills, but its reply or the position query after it is lost:  *)
(* reported as not accepted, nothing is written.                           *)
EnterUnseen ==
    /\ pc = "select"
    /\ Happens("post") \/ Happens("read")
    /\ \E s \in Symbols, t \in Trades : Fill(s, t)
    /\ Return
    /\ UNCHANGED <<disk, crashes, accounted>>

EntryCheckpoint ==
    /\ pc = "entryCkpt" /\ pc' = "entryCtx"
    /\ ckpt' = entry
    /\ UNCHANGED <<exchange, ctx, closure, memory, crashes, observer>>
\* Mutant: an existing context is not replaced.
EntryContextKept ==
    /\ pc = "entryCtx"
    /\ ctx' = IF ctx = None THEN entry.trade ELSE ctx
    /\ Return
    /\ UNCHANGED <<exchange, ckpt, closure, crashes, observer>>

EntryContext ==
    /\ pc = "entryCtx"
    /\ ctx' = entry.trade
    /\ Return
    /\ UNCHANGED <<exchange, ckpt, closure, crashes, observer>>

-----------------------------------------------------------------------------
(* The environment.                                                        *)

(* A resting protective order (tpslMode Full) closes the whole row, or the *)
(* rest of an acknowledged close fills.                                    *)
ExchangeExit ==
    /\ Happens("exit")
    /\ \E s \in Symbols : Empties(s)
    /\ UNCHANGED <<opened, last, disk, pc, memory, crashes, accounted>>

Crash ==
    /\ pc # "down" /\ crashes < MaxCrashes
    /\ Happens("crash")
    /\ pc' = "down" /\ crashes' = crashes + 1
    /\ mpos' = None /\ ticks' = 0 /\ entry' = None /\ outcome' = None
    /\ UNCHANGED <<exchange, disk, accounted>>

Restart ==
    /\ pc = "down" /\ pc' = "boot"
    /\ UNCHANGED <<exchange, disk, memory, crashes, observer>>

Reconcile == Boot \/ ReconcileOpen \/ ReconcileFlat
Tick      == TickOnOpen \/ TickRecovers \/ TickFindsNone
Query     == QueryOpen \/ QueryEmpty \/ QueryRaises
Evaluate  == EvaluateHold \/ EvaluateExit \/ SaveThenHold \/ SaveThenClose
Close     == CloseFills \/ CloseUnfilled \/ CloseFails \/ CloseFillsUnseen
Finalize  == \/ FinalizeComplete \/ FinalizePending
             \/ FinalizeNotZero \/ FinalizeRaises
Settle    == ClearCheckpoint \/ PersistClosure \/ ClearContext
Cycle     == \/ Wait \/ GatePasses \/ GateSettles
             \/ Enter \/ EnterUnfilled \/ EnterUnseen
             \/ EntryCheckpoint \/ EntryContext

Worker == \/ Reconcile \/ Tick \/ Query \/ Evaluate
          \/ Close \/ Finalize \/ Settle \/ Cycle

Next == Worker \/ ExchangeExit \/ Crash \/ Restart

Spec == Init /\ [][Next]_vars

(***************************************************************************)
(* Fairness.  The service loop never blocks for good and the supervisor    *)
(* restarts a dead worker.  Position queries do not fail for ever.  A held *)
(* position's age grows, its opening time being in the checkpoint, so that *)
(* its horizon expires: assumed only where position queries answer, as a   *)
(* failed one drops the checkpoint and the recovered position begins anew. *)
(* Crashes, lost entries and unfilled closes do that too, but a bounded    *)
(* number of times.  A close order that can fill eventually does; fills,   *)
(* closed PnL and wallet of a trade whose close is found eventually agree, *)
(* so a retry that can complete eventually does.                           *)
(***************************************************************************)
Fairness ==
    /\ WF_vars(Worker)
    /\ WF_vars(Restart)
    /\ SF_vars(ReconcileOpen)
    /\ SF_vars(QueryOpen)
    /\ SF_vars(SaveThenClose)
    /\ SF_vars(CloseFills)
    /\ SF_vars(GateSettles)

FairSpec == Spec /\ Fairness

-----------------------------------------------------------------------------
(* Properties.                                                             *)

(* Every variable stays in its type, and each memory record is present     *)
(* exactly in the phases that use it.                                      *)
TypeOK ==
    /\ row \in [Symbols -> SUBSET Trades]
    /\ opened \in SUBSET Trades
    /\ last \in Trades \cup {None}
    /\ late \in SUBSET Trades
    /\ ckpt \in Holding \cup {None}
    /\ ctx \in Trades \cup {None}
    /\ closure \in Closure \cup {None}
    /\ pc \in Phases
    /\ mpos \in Managed \cup {None}
    /\ (pc \in ManagePhase \cup SettlePhase) <=> mpos # None
    /\ ticks \in 0 .. MaxTicks - 1
    /\ entry \in Order \cup {None}
    /\ (pc \in FilledPhase) <=> entry # None
    /\ outcome \in Closure \cup {None}
    /\ (pc \in SettlePhase) <=> outcome # None
    /\ crashes \in 0 .. MaxCrashes
    /\ accounted \in SUBSET Trades
    /\ calm \in BOOLEAN

(* "Max concurrent Research = 1": across crashes, lost replies and exits   *)
(* made by the exchange, at most one trade is open on the account.         *)
AtMostOnePosition ==
    \A s1, s2 \in Symbols : \A t1 \in row[s1], t2 \in row[s2] :
        s1 = s2 /\ t1 = t2

(* In every environment, a closure still waiting for its accounting is     *)
(* never replaced by that of another trade: last_trade_closure.json has    *)
(* room for one debt only, and a trade may be reported while it is open.   *)
PendingNotOverwritten ==
    [][Pending => closure'.trade = closure.trade]_vars

(* The lifecycle implements the one-slot ledger of TradeSlot.              *)
OpenTrades == UNION {row[s] : s \in Symbols}
OpenTrade  == IF AllFlat THEN None ELSE CHOOSE t \in Trades : t \in OpenTrades
Debt       == IF Pending THEN closure.trade ELSE None
Slot == INSTANCE TradeSlot WITH
    slot <- OpenTrade, used <- opened, unsettled <- Debt
ImplementsSlot == Slot!SlotSpec

(* The checkpoint never lends an open row the identity (decision, stops,   *)
(* opening time) of a trade that row does not contain, whatever reads,     *)
(* replies or processes fail in between.  Only a failed read followed by   *)
(* an entry order that never fills can do it, see CheckpointIdentity.      *)
CheckpointNamesOpenTrade ==
    ckpt # None /\ ckpt.trade # Unknown /\ row[ckpt.sym] # {}
        => ckpt.trade \in row[ckpt.sym]

(* GLOBAL_PENDING_ACCOUNTING: the exchange takes no entry order from the   *)
(* worker while the recorded closure lacks its accounting.                 *)
NoEntryWhilePending == [][opened' # opened => ~Pending]_vars

(* While no worker has died, the trade being managed has a name and the    *)
(* entry context on disk is its own: its wallet_before, order id and       *)
(* decision are what the closure is accounted with.  Where replies can be  *)
(* lost or reads fail it does not hold: an exit leaves the context of its  *)
(* trade behind, an entry nobody saw adds none, and the recovered position *)
(* is settled with the earlier trade's.                                    *)
ContextOfManagedTrade ==
    crashes = 0 /\ mpos # None /\ ctx # None => mpos.trade = ctx

(* While no worker has died, a completed closure never becomes pending     *)
(* again for the same trade.                                               *)
Completed == closure # None /\ closure.complete
CompleteStaysComplete ==
    [][crashes = 0 /\ Completed /\ closure'.trade = closure.trade
          => closure'.complete]_vars

(* As long as nothing but the worker has acted, every earlier trade is     *)
(* accounted for before the next one is entered.                           *)
CalmEntryAfterAccounting ==
    [][calm' /\ opened' # opened => opened \subseteq accounted]_vars

(* "if previous closed trade is not yet accounting-complete, pause any new *)
(* Research demo entry", stated for every execution.                       *)
EntryAfterAccounting ==
    [][opened' # opened => opened \subseteq accounted]_vars

(* While position queries answer, whatever else is lost, restarted or left *)
(* unfilled on the way, an open position is found again and closed.        *)
EventuallyFlat == ~AllFlat ~> AllFlat

(* "Closure should be updated to ACCOUNTING_COMPLETE": a pending closure   *)
(* is eventually settled, so that entries can resume.                      *)
PendingEventuallyAccounted == Pending ~> ~Pending

-----------------------------------------------------------------------------
(* Inductive invariants, used by the proofs.                               *)

(* When reads answer: an entry is attempted on a flat account, management  *)
(* and settlement have no other row open than their own, and a record is   *)
(* complete only on a flat account whose last trade it reconciles.         *)
SlotInv ==
    /\ AtMostOnePosition
    /\ pc \in EntryPhase => AllFlat
    /\ pc \in ManagePhase \cup SettlePhase =>
          \A s \in Symbols : s # mpos.sym => row[s] = {}
    /\ outcome # None /\ outcome.complete =>
          AllFlat /\ Reconciles(outcome.trade)

(* In every environment: a trade is entered with nothing owed, settlement  *)
(* records the context's trade, and a context beside a debt is the debt's. *)
DebtInv ==
    /\ pc \in {"select"} \cup FilledPhase => ~Pending
    /\ outcome # None => outcome.trade = ctx
    /\ Pending /\ ctx # None => ctx = closure.trade

(* A holding names a trade of its row, or its row is empty or unnamed.     *)
Names(h) ==
    h.trade # Unknown /\ row[h.sym] # {} => h.trade \in row[h.sym]

(* The checkpoint, the managed position and the fresh order name their     *)
(* rows, and an order is only sent once the checkpoint is gone.            *)
IdentityInv ==
    /\ ckpt # None => Names(ckpt)
    /\ mpos # None => Names(mpos)
    /\ entry # None => Names(entry)
    /\ pc \in EntryPhase => ckpt = None

=============================================================================
