------------------------ MODULE ResearchTradeRecords ------------------------
(***************************************************************************)
(* What the three files of a trade say about each other: theorems about    *)
(* ResearchTrade for every set of symbols, trades and events and every     *)
(* bound.                                                                  *)
(***************************************************************************)
EXTENDS ResearchTradeProofs

(* Until the first crash, where no reply and no read is lost: a position   *)
(* that is open between two invocations has a checkpoint that names the    *)
(* context's trade, and so has one whose close may turn out unfilled; the  *)
(* two files differ only between their two writes.                         *)
NamedInv == crashes = 0 =>
    /\ pc # "down"
    /\ pc = "entryCtx" => ckpt = entry
    /\ pc \in FilledPhase => \A s \in Symbols : s # entry.sym => row[s] = {}
    /\ mpos # None /\ ctx # None => mpos.trade = ctx
    /\ ctx # None /\ (pc \in {"boot", "idle"} \/ (pc = "tick" /\ ~mpos.open)) =>
          \A s \in Symbols : row[s] # {} => ckpt = [sym |-> s, trade |-> ctx]
    /\ ctx # None /\ pc \in {"close", "finalize"} /\ row[mpos.sym] # {} =>
          ckpt = [sym |-> mpos.sym, trade |-> ctx]

(* Every record is of a trade whose order was taken.  Until the first      *)
(* crash, the closure on disk is not the context's trade, save between its *)
(* write and the removal of the context.                                   *)
FiledInv ==
    /\ ctx # None => ctx \in opened
    /\ closure # None => closure.trade \in opened
    /\ outcome # None => outcome.trade \in opened
    /\ entry # None => entry.trade \in opened
    /\ crashes = 0 =>
          /\ outcome # None => outcome.trade = ctx
          /\ closure # None /\ pc # "clearCtx" => closure.trade # ctx
          /\ closure # None /\ entry # None => entry.trade # closure.trade

(* As long as nothing but the worker has acted, the last trade is the only *)
(* one that may be open or unaccounted for, and whenever the account is    *)
(* flat between two invocations its closure says so.                       *)
CalmInv == calm =>
    /\ pc # "down"
    /\ \A s \in Symbols : row[s] \subseteq {last}
    /\ \A s1, s2 \in Symbols : row[s1] # {} /\ row[s2] # {} => s1 = s2
    /\ opened \subseteq accounted \cup {last}
    /\ pc \in ManagePhase \ {"finalize"} => row[mpos.sym] # {}
    /\ pc \in EntryPhase \cup SettlePhase \cup {"finalize", "boot"} => AllFlat
    /\ ~AllFlat /\ pc \notin FilledPhase => ctx = last
    /\ pc \in SettlePhase \cup {"finalize"} => ctx = last
    /\ entry # None => entry.trade = last /\ row[entry.sym] # {}
    /\ outcome # None => outcome.trade = last
    /\ pc = "clearCtx" => closure = outcome
    /\ pc = "select" => ~Pending
    /\ AllFlat /\ pc \in EntryPhase \cup {"boot", "idle", "clearCtx"} =>
          opened \subseteq accounted \/ (Pending /\ closure.trade = last)

-----------------------------------------------------------------------------
(* Every step keeps the names of checkpoint, position and context together. *)
LEMMA NamedInvStep ==
  ASSUME "read" \notin Events, "post" \notin Events,
         TypeOK, SlotInv, NamedInv, [Next]_vars
  PROVE  NamedInv'
<1>. USE ConstantsAssumption DEF NamedInv, SlotInv, AllFlat, AtMostOnePosition,
        ManagePhase, SettlePhase, EntryPhase, FilledPhase, Order, Managed,
        TypeOK, exchange, disk, memory, observer, Return, Happens
<1>1. CASE Reconcile
  <2>1. CASE Boot
    BY <2>1 DEF Boot, RecoverFlat, ReadsFlat
  <2>2. CASE ReconcileOpen
    BY <2>2 DEF ReconcileOpen, RecoverOpen, Recovered
  <2>3. CASE ReconcileFlat
    BY <2>3 DEF ReconcileFlat, RecoverFlat, ReadsFlat
  <2>. QED BY <1>1, <2>1, <2>2, <2>3 DEF Reconcile
<1>2. CASE Tick
  <2>1. CASE TickOnOpen
    BY <2>1 DEF TickOnOpen
  <2>2. CASE TickRecovers
    BY <2>2 DEF TickRecovers, RecoverOpen, Recovered
  <2>3. CASE TickFindsNone
    BY <2>3 DEF TickFindsNone, RecoverFlat, ReadsFlat, EndTick
  <2>. QED BY <1>2, <2>1, <2>2, <2>3 DEF Tick
<1>3. CASE Query
  <2>1. CASE QueryOpen
    BY <2>1 DEF QueryOpen
  <2>2. CASE QueryEmpty
    BY <2>2 DEF QueryEmpty
  <2>3. CASE QueryRaises
    BY <2>3 DEF QueryRaises
  <2>. QED BY <1>3, <2>1, <2>2, <2>3 DEF Query
<1>4. CASE Evaluate
  <2>1. CASE EvaluateHold
    BY <2>1 DEF EvaluateHold
  <2>2. CASE EvaluateExit
    BY <2>2 DEF EvaluateExit
  <2>3. CASE SaveThenHold
    BY <2>3 DEF SaveThenHold, SaveManaged, EndTick
  <2>4. CASE SaveThenClose
    BY <2>4 DEF SaveThenClose, SaveManaged
  <2>. QED BY <1>4, <2>1, <2>2, <2>3, <2>4 DEF Evaluate
<1>5. CASE Close
  <2>1. CASE CloseFills
    BY <2>1 DEF CloseFills, Empties
  <2>2. CASE CloseFails
    BY <2>2 DEF CloseFails, EndTick
  <2>3. CASE CloseFillsUnseen
    BY <2>3 DEF CloseFillsUnseen, Empties, EndTick
  <2>4. CASE CloseUnfilled
    BY <2>4 DEF CloseUnfilled
  <2>. QED BY <1>5, <2>1, <2>2, <2>3, <2>4 DEF Close
<1>6. CASE Finalize
  <2>1. CASE FinalizeComplete
    BY <2>1 DEF FinalizeComplete, Record
  <2>2. CASE FinalizePending
    BY <2>2 DEF FinalizePending, Record
  <2>3. CASE FinalizeNotZero
    BY <2>3 DEF FinalizeNotZero, Record
  <2>4. CASE FinalizeRaises
    BY <2>4 DEF FinalizeRaises
  <2>. QED BY <1>6, <2>1, <2>2, <2>3, <2>4 DEF Finalize
<1>7. CASE Settle
  <2>1. CASE ClearCheckpoint
    BY <2>1 DEF ClearCheckpoint
  <2>2. CASE PersistClosure
    BY <2>2 DEF PersistClosure, Account
  <2>3. CASE ClearContext
    BY <2>3 DEF ClearContext
  <2>. QED BY <1>7, <2>1, <2>2, <2>3 DEF Settle
<1>8. CASE Cycle
  <2>1. CASE Wait
    BY <2>1 DEF Wait
  <2>2. CASE GatePasses
    BY <2>2 DEF GatePasses
  <2>3. CASE GateSettles
    BY <2>3 DEF GateSettles, Account, Closure
  <2>4. CASE Enter
    BY <2>4 DEF Enter, Fill
  <2>5. CASE EnterUnseen
    BY <2>5 DEF EnterUnseen, Fill
  <2>6. CASE EntryCheckpoint
    BY <2>6 DEF EntryCheckpoint
  <2>7. CASE EntryContext
    BY <2>7 DEF EntryContext
  <2>8. CASE EnterUnfilled
    BY <2>8 DEF EnterUnfilled
  <2>. QED BY <1>8, <2>1, <2>2, <2>3, <2>4, <2>5, <2>6, <2>7, <2>8 DEF Cycle
<1>9. CASE ExchangeExit
  BY <1>9 DEF ExchangeExit, Empties
<1>10. CASE Crash
  BY <1>10 DEF Crash
<1>11. CASE Restart
  BY <1>11 DEF Restart
<1>12. CASE UNCHANGED vars
  BY <1>12 DEF vars
<1>. QED
  BY <1>1, <1>2, <1>3, <1>4, <1>5, <1>6, <1>7, <1>8, <1>9, <1>10, <1>11, <1>12
  DEF Next, Worker

(* While no worker has died and no reply or read is lost, whatever else    *)
(* happens, the trade being managed has a name and it is the context's:    *)
(* exits by the exchange, orders and closes that do not fill and raising   *)
(* settlements leave stale files, and none of them reaches a position.     *)
THEOREM ContextIdentity ==
  ASSUME "read" \notin Events, "post" \notin Events
  PROVE  Spec => []ContextOfManagedTrade
<1>1. Init => NamedInv
  BY DEF Init, NamedInv, FilledPhase
<1>2. TypeOK /\ SlotInv /\ NamedInv /\ [Next]_vars => NamedInv'
  BY NamedInvStep
<1>3. NamedInv => ContextOfManagedTrade
  BY DEF NamedInv, ContextOfManagedTrade
<1>. QED
  BY <1>1, <1>2, <1>3, TypeCorrect, SlotInvInvariant, PTL DEF Spec

-----------------------------------------------------------------------------
(* Every step keeps the closure apart from the context. *)
LEMMA FiledInvStep ==
  ASSUME TypeOK, FiledInv, [Next]_vars
  PROVE  FiledInv'
<1>. USE ConstantsAssumption DEF FiledInv, ManagePhase, SettlePhase,
        EntryPhase, FilledPhase, Pending, Order, Closure, TypeOK, exchange,
        disk, memory, observer, Return
<1>1. CASE Reconcile
  <2>1. CASE Boot
    BY <2>1 DEF Boot, RecoverFlat, ReadsFlat
  <2>2. CASE ReconcileOpen
    BY <2>2 DEF ReconcileOpen, RecoverOpen, Recovered
  <2>3. CASE ReconcileFlat
    BY <2>3 DEF ReconcileFlat, RecoverFlat, ReadsFlat
  <2>. QED BY <1>1, <2>1, <2>2, <2>3 DEF Reconcile
<1>2. CASE Tick
  <2>1. CASE TickOnOpen
    BY <2>1 DEF TickOnOpen
  <2>2. CASE TickRecovers
    BY <2>2 DEF TickRecovers, RecoverOpen, Recovered
  <2>3. CASE TickFindsNone
    BY <2>3 DEF TickFindsNone, RecoverFlat, ReadsFlat, EndTick
  <2>. QED BY <1>2, <2>1, <2>2, <2>3 DEF Tick
<1>3. CASE Query
  <2>1. CASE QueryOpen
    BY <2>1 DEF QueryOpen
  <2>2. CASE QueryEmpty
    BY <2>2 DEF QueryEmpty
  <2>3. CASE QueryRaises
    BY <2>3 DEF QueryRaises
  <2>. QED BY <1>3, <2>1, <2>2, <2>3 DEF Query
<1>4. CASE Evaluate
  <2>1. CASE EvaluateHold
    BY <2>1 DEF EvaluateHold
  <2>2. CASE EvaluateExit
    BY <2>2 DEF EvaluateExit
  <2>3. CASE SaveThenHold
    BY <2>3 DEF SaveThenHold, SaveManaged, EndTick
  <2>4. CASE SaveThenClose
    BY <2>4 DEF SaveThenClose, SaveManaged
  <2>. QED BY <1>4, <2>1, <2>2, <2>3, <2>4 DEF Evaluate
<1>5. CASE Close
  <2>1. CASE CloseFills
    BY <2>1 DEF CloseFills, Empties
  <2>2. CASE CloseFails
    BY <2>2 DEF CloseFails, EndTick
  <2>3. CASE CloseFillsUnseen
    BY <2>3 DEF CloseFillsUnseen, Empties, EndTick
  <2>4. CASE CloseUnfilled
    BY <2>4 DEF CloseUnfilled
  <2>. QED BY <1>5, <2>1, <2>2, <2>3, <2>4 DEF Close
<1>6. CASE Finalize
  <2>1. CASE FinalizeComplete
    BY <2>1 DEF FinalizeComplete, Record
  <2>2. CASE FinalizePending
    BY <2>2 DEF FinalizePending, Record
  <2>3. CASE FinalizeNotZero
    BY <2>3 DEF FinalizeNotZero, Record
  <2>4. CASE FinalizeRaises
    BY <2>4 DEF FinalizeRaises
  <2>. QED BY <1>6, <2>1, <2>2, <2>3, <2>4 DEF Finalize
<1>7. CASE Settle
  <2>1. CASE ClearCheckpoint
    BY <2>1 DEF ClearCheckpoint
  <2>2. CASE PersistClosure
    BY <2>2 DEF PersistClosure, Account
  <2>3. CASE ClearContext
    BY <2>3 DEF ClearContext
  <2>. QED BY <1>7, <2>1, <2>2, <2>3 DEF Settle
<1>8. CASE Cycle
  <2>1. CASE Wait
    BY <2>1 DEF Wait
  <2>2. CASE GatePasses
    BY <2>2 DEF GatePasses
  <2>3. CASE GateSettles
    BY <2>3 DEF GateSettles, Account, Closure
  <2>4. CASE Enter
    BY <2>4 DEF Enter, Fill
  <2>5. CASE EnterUnseen
    BY <2>5 DEF EnterUnseen, Fill
  <2>6. CASE EntryCheckpoint
    BY <2>6 DEF EntryCheckpoint
  <2>7. CASE EntryContext
    BY <2>7 DEF EntryContext
  <2>8. CASE EnterUnfilled
    BY <2>8 DEF EnterUnfilled
  <2>. QED BY <1>8, <2>1, <2>2, <2>3, <2>4, <2>5, <2>6, <2>7, <2>8 DEF Cycle
<1>9. CASE ExchangeExit
  BY <1>9 DEF ExchangeExit, Empties
<1>10. CASE Crash
  BY <1>10 DEF Crash
<1>11. CASE Restart
  BY <1>11 DEF Restart
<1>12. CASE UNCHANGED vars
  BY <1>12 DEF vars
<1>. QED
  BY <1>1, <1>2, <1>3, <1>4, <1>5, <1>6, <1>7, <1>8, <1>9, <1>10, <1>11, <1>12
  DEF Next, Worker

(* While no worker has died, a trade is settled once: PersistClosure never *)
(* replaces a complete closure by a pending one of the same trade.         *)
THEOREM SettledOnce == Spec => CompleteStaysComplete
<1>1. Init => FiledInv
  BY DEF Init, FiledInv
<1>2. TypeOK /\ FiledInv /\ [Next]_vars => FiledInv'
  BY FiledInvStep
<1>3. TypeOK /\ FiledInv /\ [Next]_vars
        => [crashes = 0 /\ Completed /\ closure'.trade = closure.trade
              => closure'.complete]_vars
  <2>. SUFFICES ASSUME TypeOK, FiledInv, Next, crashes = 0, Completed,
                       closure'.trade = closure.trade
                PROVE  closure'.complete
    BY DEF vars
  <2>. USE DEF exchange, disk, memory
  <2>1. CASE PersistClosure
    BY <2>1 DEF PersistClosure, FiledInv, TypeOK, SettlePhase, Completed
  <2>2. CASE GateSettles
    BY <2>2 DEF GateSettles, Pending, Completed
  <2>3. CASE ~PersistClosure /\ ~GateSettles
    BY <2>3, ClosureKept DEF Completed
  <2>. QED BY <2>1, <2>2, <2>3
<1>. QED
  BY <1>1, <1>2, <1>3, TypeCorrect, PTL DEF Spec, CompleteStaysComplete

-----------------------------------------------------------------------------
(* As long as it is calm, every step keeps the chain from order to closure. *)
LEMMA CalmInvStep ==
  ASSUME TypeOK, CalmInv, [Next]_vars
  PROVE  CalmInv'
<1>. USE ConstantsAssumption DEF CalmInv, ManagePhase, SettlePhase,
        EntryPhase, FilledPhase, AllFlat, Pending, Happens, Order, Managed,
        TypeOK, exchange, disk, memory, observer, Return
<1>1. CASE Reconcile
  <2>1. CASE Boot
    BY <2>1 DEF Boot, RecoverFlat, ReadsFlat
  <2>2. CASE ReconcileOpen
    BY <2>2 DEF ReconcileOpen, RecoverOpen, Recovered
  <2>3. CASE ReconcileFlat
    BY <2>3 DEF ReconcileFlat, RecoverFlat, ReadsFlat
  <2>. QED BY <1>1, <2>1, <2>2, <2>3 DEF Reconcile
<1>2. CASE Tick
  <2>1. CASE TickOnOpen
    BY <2>1 DEF TickOnOpen
  <2>2. CASE TickRecovers
    BY <2>2 DEF TickRecovers, RecoverOpen, Recovered
  <2>3. CASE TickFindsNone
    BY <2>3 DEF TickFindsNone, RecoverFlat, ReadsFlat, EndTick
  <2>. QED BY <1>2, <2>1, <2>2, <2>3 DEF Tick
<1>3. CASE Query
  <2>1. CASE QueryOpen
    BY <2>1 DEF QueryOpen
  <2>2. CASE QueryEmpty
    BY <2>2 DEF QueryEmpty
  <2>3. CASE QueryRaises
    BY <2>3 DEF QueryRaises
  <2>. QED BY <1>3, <2>1, <2>2, <2>3 DEF Query
<1>4. CASE Evaluate
  <2>1. CASE EvaluateHold
    BY <2>1 DEF EvaluateHold
  <2>2. CASE EvaluateExit
    BY <2>2 DEF EvaluateExit
  <2>3. CASE SaveThenHold
    BY <2>3 DEF SaveThenHold, SaveManaged, EndTick
  <2>4. CASE SaveThenClose
    BY <2>4 DEF SaveThenClose, SaveManaged
  <2>. QED BY <1>4, <2>1, <2>2, <2>3, <2>4 DEF Evaluate
<1>5. CASE Close
  <2>1. CASE CloseFills
    BY <2>1 DEF CloseFills, Empties
  <2>2. CASE CloseFails
    BY <2>2 DEF CloseFails, EndTick
  <2>3. CASE CloseFillsUnseen
    BY <2>3 DEF CloseFillsUnseen, Empties, EndTick
  <2>4. CASE CloseUnfilled
    BY <2>4 DEF CloseUnfilled
  <2>. QED BY <1>5, <2>1, <2>2, <2>3, <2>4 DEF Close
<1>6. CASE Finalize
  <2>1. CASE FinalizeComplete
    BY <2>1 DEF FinalizeComplete, Record
  <2>2. CASE FinalizePending
    BY <2>2 DEF FinalizePending, Record
  <2>3. CASE FinalizeNotZero
    BY <2>3 DEF FinalizeNotZero, Record
  <2>4. CASE FinalizeRaises
    BY <2>4 DEF FinalizeRaises
  <2>. QED BY <1>6, <2>1, <2>2, <2>3, <2>4 DEF Finalize
<1>7. CASE Settle
  <2>1. CASE ClearCheckpoint
    BY <2>1 DEF ClearCheckpoint
  <2>2. CASE PersistClosure
    BY <2>2 DEF PersistClosure, Account
  <2>3. CASE ClearContext
    BY <2>3 DEF ClearContext
  <2>. QED BY <1>7, <2>1, <2>2, <2>3 DEF Settle
<1>8. CASE Cycle
  <2>1. CASE Wait
    BY <2>1 DEF Wait
  <2>2. CASE GatePasses
    BY <2>2 DEF GatePasses
  <2>3. CASE GateSettles
    BY <2>3 DEF GateSettles, Account, Closure
  <2>4. CASE Enter
    BY <2>4 DEF Enter, Fill
  <2>5. CASE EnterUnseen
    BY <2>5 DEF EnterUnseen, Fill
  <2>6. CASE EntryCheckpoint
    BY <2>6 DEF EntryCheckpoint
  <2>7. CASE EntryContext
    BY <2>7 DEF EntryContext
  <2>8. CASE EnterUnfilled
    BY <2>8 DEF EnterUnfilled
  <2>. QED BY <1>8, <2>1, <2>2, <2>3, <2>4, <2>5, <2>6, <2>7, <2>8 DEF Cycle
<1>9. CASE ExchangeExit
  BY <1>9 DEF ExchangeExit, Empties
<1>10. CASE Crash
  BY <1>10 DEF Crash
<1>11. CASE Restart
  BY <1>11 DEF Restart
<1>12. CASE UNCHANGED vars
  BY <1>12 DEF vars
<1>. QED
  BY <1>1, <1>2, <1>3, <1>4, <1>5, <1>6, <1>7, <1>8, <1>9, <1>10, <1>11, <1>12
  DEF Next, Worker

(* The pause while accounting is pending does what it is for as long as    *)
(* nothing but the worker acts: every earlier trade is accounted for       *)
(* before the next order fills.                                            *)
THEOREM CalmIsAccounted == Spec => CalmEntryAfterAccounting
<1>1. Init => CalmInv
  BY DEF Init, CalmInv, AllFlat, ManagePhase, SettlePhase, EntryPhase, FilledPhase
<1>2. TypeOK /\ CalmInv /\ [Next]_vars => CalmInv'
  BY CalmInvStep
<1>3. TypeOK /\ CalmInv /\ [Next]_vars
        => [calm' /\ opened' # opened => opened \subseteq accounted]_vars
  <2>. SUFFICES ASSUME TypeOK, CalmInv, Next, calm', opened' # opened
                PROVE  opened \subseteq accounted
    BY DEF vars
  <2>. USE DEF exchange, disk, memory
  <2>1. CASE Enter
    BY <2>1 DEF Enter, CalmInv, observer, EntryPhase
  <2>2. CASE EnterUnseen
    BY <2>2 DEF EnterUnseen, Happens
  <2>3. CASE EnterUnfilled
    BY <2>3 DEF EnterUnfilled, Happens
  <2>. QED BY <2>1, <2>2, <2>3, OpenedKept
<1>. QED
  BY <1>1, <1>2, <1>3, TypeCorrect, PTL DEF Spec, CalmEntryAfterAccounting

(* The pause does so in every execution when the only thing that can go      *)
(* wrong is a close the settlement looks for too late: the trade stays       *)
(* pending and blocks.  An exit made by the exchange is already enough to    *)
(* enter a trade over an unaccounted one.                                    *)
THEOREM LateIsAccounted ==
  ASSUME Events \subseteq {"late"}
  PROVE  Spec => EntryAfterAccounting
<1>1. Init => calm
  BY DEF Init
<1>2. calm /\ [Next]_vars => calm'
  <2>. SUFFICES ASSUME calm, [Next]_vars PROVE calm'
    OBVIOUS
  <2>1. \A k \in EventKinds \ {"late"} : ~Happens(k)
    BY DEF Happens
  <2>2. CASE Reconcile \/ Tick \/ Query
    BY <2>1, <2>2
    DEF EventKinds, Reconcile, Boot, ReconcileOpen, ReconcileFlat,
        Tick, TickOnOpen, TickRecovers, TickFindsNone, RecoverOpen,
        RecoverFlat, ReadsFlat, Query, QueryOpen, QueryEmpty, QueryRaises,
        observer
  <2>3. CASE Evaluate \/ Close \/ Finalize \/ Settle
    BY <2>1, <2>3
    DEF EventKinds, Evaluate, EvaluateHold, EvaluateExit, SaveThenHold,
        SaveThenClose, Close, CloseFills, CloseUnfilled, CloseFails,
        CloseFillsUnseen,
        Finalize, FinalizeComplete, FinalizePending, FinalizeNotZero,
        FinalizeRaises, Settle, ClearCheckpoint, PersistClosure,
        ClearContext, observer
  <2>4. CASE Cycle \/ Restart \/ UNCHANGED vars
    BY <2>1, <2>4
    DEF EventKinds, Cycle, Wait, GatePasses, GateSettles, Enter,
        EnterUnfilled, EnterUnseen, EntryCheckpoint, EntryContext, Restart, observer, vars
  <2>5. ~ExchangeExit /\ ~Crash
    BY <2>1 DEF EventKinds, ExchangeExit, Crash
  <2>. QED BY <2>2, <2>3, <2>4, <2>5 DEF Next, Worker
<1>3. calm' => ([calm' /\ opened' # opened => opened \subseteq accounted]_vars
                  => [opened' # opened => opened \subseteq accounted]_vars)
  OBVIOUS
<1>. QED
  BY <1>1, <1>2, <1>3, CalmIsAccounted, PTL
  DEF Spec, CalmEntryAfterAccounting, EntryAfterAccounting

-----------------------------------------------------------------------------
(* A debt that cannot be paid: the closing execution is outside the window *)
(* or a later trade has moved the wallet, or the stored record says the    *)
(* position was not zero and no context is left to settle it with again.   *)
Blocked ==
    /\ Pending
    /\ ~Reconciles(closure.trade) \/ (~closure.zero /\ ctx = None)

(* Only the end of an entry writes a context. *)
LEMMA ContextWritten ==
  ASSUME [Next]_vars, ~EntryContext
  PROVE  ctx' \in {ctx, None}
<1>. USE DEF disk
<1>1. CASE Reconcile \/ Tick \/ Query
  BY <1>1
  DEF Reconcile, Boot, ReconcileOpen, ReconcileFlat,
      Tick, TickOnOpen, TickRecovers, TickFindsNone,
      Query, QueryOpen, QueryEmpty, QueryRaises
<1>2. CASE Evaluate \/ Close
  BY <1>2
  DEF Evaluate, EvaluateHold, EvaluateExit, SaveThenHold, SaveThenClose,
      Close, CloseFills, CloseUnfilled, CloseFails, CloseFillsUnseen
<1>3. CASE Finalize \/ Settle \/ Cycle
  BY <1>3
  DEF Finalize, FinalizeComplete, FinalizePending, FinalizeNotZero,
      FinalizeRaises, Record, Settle, ClearCheckpoint, PersistClosure,
      ClearContext, Cycle, Wait, GatePasses, GateSettles, Enter,
      EnterUnfilled, EnterUnseen, EntryCheckpoint
<1>4. CASE ExchangeExit \/ Crash \/ Restart \/ UNCHANGED vars
  BY <1>4 DEF ExchangeExit, Crash, Restart, vars
<1>. QED
  BY <1>1, <1>2, <1>3, <1>4 DEF Next, Worker

(* Nothing changes it: no order is sent, so that the last trade stays the  *)
(* last and no context is written, and settlement can only repeat the      *)
(* pending record.                                                         *)
LEMMA BlockedStep ==
  ASSUME TypeOK, SlotInv, DebtInv, Blocked, [Next]_vars
  PROVE  Blocked' /\ opened' = opened
<1>1. pc \notin {"select"} \cup FilledPhase
  BY DEF Blocked, DebtInv
<1>2. ~Enter /\ ~EnterUnfilled /\ ~EnterUnseen /\ ~EntryContext /\ ~GateSettles
  BY <1>1 DEF Enter, EnterUnfilled, EnterUnseen, EntryContext, FilledPhase,
              GateSettles, Blocked
<1>3. opened' = opened /\ last' = last /\ late \subseteq late'
  <2>. USE DEF exchange
  <2>1. CASE Reconcile \/ Tick \/ Query
    BY <2>1
    DEF Reconcile, Boot, ReconcileOpen, ReconcileFlat,
        Tick, TickOnOpen, TickRecovers, TickFindsNone,
        Query, QueryOpen, QueryEmpty, QueryRaises
  <2>2. CASE Evaluate \/ Close \/ ExchangeExit
    BY <2>2
    DEF Evaluate, EvaluateHold, EvaluateExit, SaveThenHold, SaveThenClose,
        Close, CloseFills, CloseUnfilled, CloseFails, CloseFillsUnseen,
        ExchangeExit, Empties
  <2>3. CASE Finalize \/ Settle \/ Cycle
    BY <1>2, <2>3
    DEF Finalize, FinalizeComplete, FinalizePending, FinalizeNotZero,
        FinalizeRaises, Record, Settle, ClearCheckpoint, PersistClosure,
        ClearContext, Cycle, Wait, GatePasses, EntryCheckpoint
  <2>4. CASE Crash \/ Restart \/ UNCHANGED vars
    BY <2>4 DEF Crash, Restart, vars
  <2>. QED BY <2>1, <2>2, <2>3, <2>4 DEF Next, Worker
<1>4. ctx = None => ctx' = None
  BY <1>2, ContextWritten
<1>5. CASE PersistClosure
  <2>1. /\ closure' = outcome /\ outcome # None /\ pc = "persist"
        /\ outcome.trade = ctx /\ ctx = closure.trade /\ ctx # None
    BY <1>5, ConstantsAssumption
    DEF PersistClosure, TypeOK, SettlePhase, Closure, DebtInv, Blocked
  <2>2. ~Reconciles(closure.trade)
    BY <2>1 DEF Blocked
  <2>3. ~outcome.complete
    BY <2>1, <2>2 DEF SlotInv
  <2>. QED
    BY <1>3, <2>1, <2>2, <2>3, ConstantsAssumption
    DEF Blocked, Pending, Reconciles, TypeOK
<1>6. CASE ~PersistClosure
  <2>1. closure' = closure
    BY <1>2, <1>6, ClosureKept DEF vars, disk
  <2>. QED
    BY <1>3, <1>4, <2>1 DEF Blocked, Pending, Reconciles
<1>. QED BY <1>5, <1>6

(* When position queries answer, such a debt stays: no retry, restart or     *)
(* later event settles it and no trade is entered again, so that "Closure    *)
(* should be updated to ACCOUNTING_COMPLETE" fails in every execution that   *)
(* comes to it, not only in the one a run shows.  A close that was           *)
(* acknowledged and had not filled when the settlement looked comes to it.   *)
THEOREM BlockedForGood ==
  ASSUME "read" \notin Events
  PROVE  Spec => /\ [](Blocked => []Blocked)
                 /\ [][Blocked => opened' = opened]_vars
                 /\ <>Blocked => ~PendingEventuallyAccounted
<1>1. TypeOK /\ SlotInv /\ DebtInv /\ Blocked /\ [Next]_vars => Blocked'
  BY BlockedStep
<1>2. TypeOK /\ SlotInv /\ DebtInv /\ [Next]_vars
        => [Blocked => opened' = opened]_vars
  BY BlockedStep
<1>3. Blocked => Pending
  BY DEF Blocked
<1>. QED
  BY <1>1, <1>2, <1>3, TypeCorrect, SlotInvInvariant, DebtInvInvariant, PTL
  DEF Spec, PendingEventuallyAccounted

=============================================================================
