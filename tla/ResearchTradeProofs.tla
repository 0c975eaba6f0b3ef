------------------------ MODULE ResearchTradeProofs ------------------------
(***************************************************************************)
(* Theorems about ResearchTrade, for every set of symbols, trades and      *)
(* events and every bound.                                                 *)
(***************************************************************************)
EXTENDS ResearchTrade, TLAPS

(* Every step leaves the calm flag a truth value. *)
LEMMA CalmType == calm \in BOOLEAN /\ [Next]_vars => calm' \in BOOLEAN
<1>. SUFFICES ASSUME calm \in BOOLEAN, [Next]_vars PROVE calm' \in BOOLEAN
  OBVIOUS
<1>. USE DEF observer, Happens, RecoverFlat, RecoverOpen, ReadsFlat
<1>1. CASE Reconcile
  BY <1>1 DEF Reconcile, Boot, ReconcileOpen, ReconcileFlat
<1>2. CASE Tick
  BY <1>2 DEF Tick, TickOnOpen, TickRecovers, TickFindsNone
<1>3. CASE Query
  BY <1>3 DEF Query, QueryOpen, QueryEmpty, QueryRaises
<1>4. CASE Evaluate
  BY <1>4 DEF Evaluate, EvaluateHold, EvaluateExit, SaveThenHold, SaveThenClose
<1>5. CASE Close
  BY <1>5 DEF Close, CloseFills, CloseUnfilled, CloseFails, CloseFillsUnseen
<1>6. CASE Finalize
  BY <1>6 DEF Finalize, FinalizeComplete, FinalizePending, FinalizeNotZero,
              FinalizeRaises
<1>7. CASE Settle
  BY <1>7 DEF Settle, ClearCheckpoint, PersistClosure, ClearContext
<1>8. CASE Cycle
  BY <1>8 DEF Cycle, Wait, GatePasses, GateSettles, Enter, EnterUnfilled,
              EnterUnseen, EntryCheckpoint, EntryContext
<1>9. CASE ExchangeExit \/ Crash \/ Restart
  BY <1>9 DEF ExchangeExit, Crash, Restart
<1>10. CASE UNCHANGED vars
  BY <1>10 DEF vars
<1>. QED
  BY <1>1, <1>2, <1>3, <1>4, <1>5, <1>6, <1>7, <1>8, <1>9, <1>10
  DEF Next, Worker

(* What recovery builds from a row and the checkpoint is a managed position. *)
LEMMA RecoveredType ==
  ASSUME TypeOK, NEW s \in Symbols
  PROVE  Recovered(s) \in Managed /\ Recovered(s) # None
<1>1. Recovered(s).trade \in Trades \cup {Unknown}
  BY ConstantsAssumption DEF TypeOK, Recovered, Holding
<1>2. Recovered(s) \in Managed
  BY <1>1 DEF Recovered, Managed
<1>. QED
  BY <1>2, ConstantsAssumption

(* What settlement computes is a closure record. *)
LEMMA RecordType ==
  ASSUME TypeOK, NEW complete \in BOOLEAN, NEW zero \in BOOLEAN,
         Record(complete, zero)
  PROVE  outcome' \in Closure /\ outcome' # None /\ pc' = "clearCkpt"
<1>1. outcome' \in Closure /\ pc' = "clearCkpt"
  BY DEF TypeOK, Record, Closure
<1>. QED
  BY <1>1, ConstantsAssumption

(* Type correctness: each record is in memory exactly in the phases that   *)
(* use it, so no handler reads a position, an order or a closure record    *)
(* that an earlier step has dropped.                                       *)
THEOREM TypeCorrect == Spec => []TypeOK
<1>. USE ConstantsAssumption
     DEF Holding, Order, Managed, Closure, Phases, ManagePhase, SettlePhase,
         EntryPhase, FilledPhase
<1>1. Init => TypeOK
  BY DEF Init, TypeOK
<1>2. TypeOK /\ [Next]_vars => TypeOK'
  <2>. SUFFICES ASSUME TypeOK, [Next]_vars PROVE TypeOK'
    OBVIOUS
  <2>. USE DEF TypeOK, exchange, disk, memory, observer, Return
  <2>0. calm' \in BOOLEAN
    BY CalmType DEF TypeOK
  <2>1. CASE Reconcile
    <3>1. CASE Boot
      BY <2>0, <3>1 DEF Boot, RecoverFlat, ReadsFlat
    <3>2. CASE ReconcileOpen
      BY <2>0, <3>2, RecoveredType DEF ReconcileOpen, RecoverOpen
    <3>3. CASE ReconcileFlat
      BY <2>0, <3>3 DEF ReconcileFlat, RecoverFlat, ReadsFlat
    <3>. QED BY <2>1, <3>1, <3>2, <3>3 DEF Reconcile
  <2>2. CASE Tick
    <3>1. CASE TickOnOpen
      BY <2>0, <3>1 DEF TickOnOpen
    <3>2. CASE TickRecovers
      BY <2>0, <3>2, RecoveredType DEF TickRecovers, RecoverOpen
    <3>3. CASE TickFindsNone
      BY <2>0, <3>3 DEF TickFindsNone, RecoverFlat, ReadsFlat, EndTick
    <3>. QED BY <2>2, <3>1, <3>2, <3>3 DEF Tick
  <2>3. CASE Query
    BY <2>0, <2>3 DEF Query, QueryOpen, QueryEmpty, QueryRaises
  <2>4. CASE Evaluate
    <3>1. CASE EvaluateHold
      BY <2>0, <3>1 DEF EvaluateHold
    <3>2. CASE EvaluateExit
      BY <2>0, <3>2 DEF EvaluateExit
    <3>3. CASE SaveThenHold
      BY <2>0, <3>3 DEF SaveThenHold, SaveManaged, EndTick
    <3>4. CASE SaveThenClose
      BY <2>0, <3>4 DEF SaveThenClose, SaveManaged
    <3>. QED BY <2>4, <3>1, <3>2, <3>3, <3>4 DEF Evaluate
  <2>5. CASE Close
    <3>1. CASE CloseFills
      BY <2>0, <3>1 DEF CloseFills, Empties
    <3>2. CASE CloseFails
      BY <2>0, <3>2 DEF CloseFails, EndTick
    <3>3. CASE CloseFillsUnseen
      BY <2>0, <3>3 DEF CloseFillsUnseen, Empties, EndTick
    <3>4. CASE CloseUnfilled
      BY <2>0, <3>4 DEF CloseUnfilled
    <3>. QED BY <2>5, <3>1, <3>2, <3>3, <3>4 DEF Close
  <2>6. CASE Finalize
    <3>1. CASE FinalizeRaises
      BY <2>0, <3>1 DEF FinalizeRaises
    <3>2. ASSUME NEW c \in BOOLEAN, NEW z \in BOOLEAN,
                 pc = "finalize", Record(c, z)
          PROVE  TypeOK'
      <4>1. outcome' \in Closure /\ outcome' # None /\ pc' = "clearCkpt"
        BY <3>2, RecordType
      <4>. QED BY <2>0, <3>2, <4>1 DEF Record
    <3>. QED
      BY <2>6, <3>1, <3>2
      DEF Finalize, FinalizeComplete, FinalizePending, FinalizeNotZero
  <2>7. CASE Settle
    BY <2>0, <2>7 DEF Settle, ClearCheckpoint, PersistClosure, ClearContext, Account
  <2>8. CASE Cycle
    <3>1. CASE Wait
      BY <2>0, <3>1 DEF Wait
    <3>2. CASE GatePasses
      BY <2>0, <3>2 DEF GatePasses
    <3>3. CASE GateSettles
      BY <2>0, <3>3 DEF GateSettles, Account, Pending
    <3>4. CASE Enter
      BY <2>0, <3>4 DEF Enter, Fill
    <3>5. CASE EnterUnseen
      BY <2>0, <3>5 DEF EnterUnseen, Fill
    <3>6. CASE EntryCheckpoint
      BY <2>0, <3>6 DEF EntryCheckpoint
    <3>7. CASE EntryContext
      BY <2>0, <3>7 DEF EntryContext
    <3>8. CASE EnterUnfilled
      BY <2>0, <3>8 DEF EnterUnfilled
    <3>. QED BY <2>8, <3>1, <3>2, <3>3, <3>4, <3>5, <3>6, <3>7, <3>8 DEF Cycle
  <2>9. CASE ExchangeExit
    BY <2>0, <2>9 DEF ExchangeExit, Empties
  <2>10. CASE Crash
    BY <2>0, <2>10 DEF Crash
  <2>11. CASE Restart
    BY <2>0, <2>11 DEF Restart
  <2>12. CASE UNCHANGED vars
    BY <2>0, <2>12 DEF vars
  <2>. QED
    BY <2>1, <2>2, <2>3, <2>4, <2>5, <2>6, <2>7, <2>8, <2>9, <2>10, <2>11, <2>12
    DEF Next, Worker
<1>. QED
  BY <1>1, <1>2, PTL DEF Spec

(* When position queries answer, every step keeps the slot discipline. *)
LEMMA SlotInvStep ==
  ASSUME "read" \notin Events, TypeOK, SlotInv, [Next]_vars
  PROVE  SlotInv'
<1>. USE DEF SlotInv, AtMostOnePosition, AllFlat, Reconciles, TypeOK,
             ManagePhase, SettlePhase, EntryPhase, FilledPhase,
             exchange, disk, memory, observer, Return, Happens
<1>1. CASE Reconcile
  <2>1. CASE Boot
    BY <1>1, <2>1 DEF Boot
  <2>2. CASE ReconcileOpen
    BY <2>2 DEF ReconcileOpen, RecoverOpen, Recovered
  <2>3. CASE ReconcileFlat
    BY <2>3 DEF ReconcileFlat, RecoverFlat, ReadsFlat
  <2>. QED BY <1>1, <2>1, <2>2, <2>3 DEF Reconcile
<1>2. CASE Tick
  <2>1. CASE TickOnOpen
    BY <2>1 DEF TickOnOpen
  <2>2. CASE TickRecovers
    BY <2>2 DEF TickRecovers, RecoverOpen, Recovered
  <2>3. CASE TickFindsNone
    BY <2>3 DEF TickFindsNone, RecoverFlat, ReadsFlat, EndTick
  <2>. QED BY <1>2, <2>1, <2>2, <2>3 DEF Tick
<1>3. CASE Query
  BY <1>3 DEF Query, QueryOpen, QueryEmpty, QueryRaises
<1>4. CASE Evaluate
  BY <1>4 DEF Evaluate, EvaluateHold, EvaluateExit, SaveThenHold,
              SaveThenClose, EndTick, Managed
<1>5. CASE Close
  <2>1. CASE CloseFills
    BY <2>1 DEF CloseFills, Empties, Managed
  <2>2. CASE CloseFails
    BY <2>2 DEF CloseFails, EndTick
  <2>3. CASE CloseFillsUnseen
    BY <2>3 DEF CloseFillsUnseen, Empties, EndTick, Managed
  <2>4. CASE CloseUnfilled
    BY <2>4 DEF CloseUnfilled
  <2>. QED BY <1>5, <2>1, <2>2, <2>3, <2>4 DEF Close
<1>6. CASE Finalize
  BY <1>6 DEF Finalize, FinalizeComplete, FinalizePending, FinalizeNotZero,
              FinalizeRaises, Record
<1>7. CASE Settle
  BY <1>7 DEF Settle, ClearCheckpoint, PersistClosure, ClearContext
<1>8. CASE Cycle
  <2>1. CASE Wait
    BY <2>1 DEF Wait
  <2>2. CASE GatePasses
    BY <2>2 DEF GatePasses
  <2>3. CASE GateSettles
    BY <2>3 DEF GateSettles, Closure
  <2>4. CASE Enter
    BY <2>4 DEF Enter, Fill
  <2>5. CASE EnterUnseen
    BY <2>5 DEF EnterUnseen, Fill
  <2>6. CASE EntryCheckpoint \/ EntryContext
    BY <2>6 DEF EntryCheckpoint, EntryContext
  <2>7. CASE EnterUnfilled
    BY <2>7 DEF EnterUnfilled
  <2>. QED BY <1>8, <2>1, <2>2, <2>3, <2>4, <2>5, <2>6, <2>7 DEF Cycle
<1>9. CASE ExchangeExit
  BY <1>9 DEF ExchangeExit, Empties
<1>10. CASE Crash
  BY <1>10 DEF Crash
<1>11. CASE Restart
  BY <1>11 DEF Restart
<1>12. CASE UNCHANGED vars
  BY <1>12 DEF vars
<1>. QED
  BY <1>1, <1>2, <1>3, <1>4, <1>5, <1>6, <1>7, <1>8, <1>9, <1>10, <1>11, <1>12
  DEF Next, Worker

LEMMA SlotInvInvariant ==
  ASSUME "read" \notin Events
  PROVE  Spec => []SlotInv
<1>1. Init => SlotInv
  BY DEF Init, SlotInv, AtMostOnePosition, AllFlat, ManagePhase,
         SettlePhase, EntryPhase
<1>2. TypeOK /\ SlotInv /\ [Next]_vars => SlotInv'
  BY SlotInvStep
<1>. QED
  BY <1>1, <1>2, TypeCorrect, PTL DEF Spec

(* "Max concurrent Research = 1" holds for every number of symbols, trades *)
(* and crashes, lost replies and exits made by the exchange included, as   *)
(* long as position queries answer.                                        *)
THEOREM SinglePosition ==
  ASSUME "read" \notin Events
  PROVE  Spec => []AtMostOnePosition
<1>1. SlotInv => AtMostOnePosition
  BY DEF SlotInv
<1>. QED
  BY <1>1, SlotInvInvariant, PTL

(* The checkpoint never lends an open row the identity of a trade that row *)
(* does not contain, whatever the environment does: recovery believes the  *)
(* checkpoint only when the row's symbol agrees, and every path that can   *)
(* reach a new order drops the checkpoint first.  The exception takes two  *)
(* events: a failed read sends an order beside the open row, and that      *)
(* order never fills.                                                      *)
THEOREM CheckpointIdentity ==
  ASSUME "read" \notin Events \/ "void" \notin Events
  PROVE  Spec => []CheckpointNamesOpenTrade
<1>. DEFINE VoidOnFlat == "void" \notin Events \/ (pc = "select" => AllFlat)
<1>. USE DEF ManagePhase, SettlePhase, EntryPhase, FilledPhase, Names
<1>1. Init => IdentityInv
  BY DEF Init, IdentityInv
<1>2. TypeOK /\ VoidOnFlat /\ IdentityInv /\ [Next]_vars => IdentityInv'
  <2>. SUFFICES ASSUME TypeOK, VoidOnFlat, IdentityInv, [Next]_vars
                PROVE  IdentityInv'
    OBVIOUS
  <2>. USE DEF TypeOK, IdentityInv, exchange, disk, memory, observer, Return
  <2>1. CASE Reconcile
    <3>1. CASE Boot
      BY <3>1 DEF Boot, RecoverFlat
    <3>2. CASE ReconcileOpen
      BY <3>2 DEF ReconcileOpen, RecoverOpen, Recovered, Holding
    <3>3. CASE ReconcileFlat
      BY <3>3 DEF ReconcileFlat, RecoverFlat
    <3>. QED BY <2>1, <3>1, <3>2, <3>3 DEF Reconcile
  <2>2. CASE Tick
    <3>1. CASE TickOnOpen
      BY <3>1 DEF TickOnOpen
    <3>2. CASE TickRecovers
      BY <3>2 DEF TickRecovers, RecoverOpen, Recovered, Holding
    <3>3. CASE TickFindsNone
      BY <3>3 DEF TickFindsNone, RecoverFlat, EndTick
    <3>. QED BY <2>2, <3>1, <3>2, <3>3 DEF Tick
  <2>3. CASE Query
    BY <2>3 DEF Query, QueryOpen, QueryEmpty, QueryRaises
  <2>4. CASE Evaluate
    <3>1. CASE EvaluateHold
      BY <3>1 DEF EvaluateHold
    <3>2. CASE EvaluateExit
      BY <3>2 DEF EvaluateExit, Managed
    <3>3. CASE SaveThenHold
      BY <3>3 DEF SaveThenHold, SaveManaged, EndTick, Managed
    <3>4. CASE SaveThenClose
      BY <3>4 DEF SaveThenClose, SaveManaged, Managed
    <3>. QED BY <2>4, <3>1, <3>2, <3>3, <3>4 DEF Evaluate
  <2>5. CASE Close
    <3>1. CASE CloseFills
      BY <3>1 DEF CloseFills, Empties, Managed, Holding
    <3>2. CASE CloseFails
      BY <3>2 DEF CloseFails, EndTick
    <3>3. CASE CloseFillsUnseen
      BY <3>3 DEF CloseFillsUnseen, Empties, EndTick, Managed, Holding
    <3>4. CASE CloseUnfilled
      BY <3>4 DEF CloseUnfilled
    <3>. QED BY <2>5, <3>1, <3>2, <3>3, <3>4 DEF Close
  <2>6. CASE Finalize
    BY <2>6 DEF Finalize, FinalizeComplete, FinalizePending, FinalizeNotZero,
                FinalizeRaises, Record
  <2>7. CASE Settle
    BY <2>7 DEF Settle, ClearCheckpoint, PersistClosure, ClearContext
  <2>8. CASE Cycle
    <3>1. CASE Wait
      BY <3>1 DEF Wait
    <3>2. CASE GatePasses
      BY <3>2 DEF GatePasses
    <3>3. CASE GateSettles
      BY <3>3 DEF GateSettles
    <3>4. CASE Enter
      BY <3>4 DEF Enter, Fill
    <3>5. CASE EnterUnseen
      BY <3>5 DEF EnterUnseen, Fill
    <3>6. CASE EntryCheckpoint
      BY <3>6 DEF EntryCheckpoint
    <3>7. CASE EntryContext
      BY <3>7 DEF EntryContext
    <3>8. CASE EnterUnfilled
      BY <3>8 DEF EnterUnfilled, Happens, AllFlat
    <3>. QED BY <2>8, <3>1, <3>2, <3>3, <3>4, <3>5, <3>6, <3>7, <3>8 DEF Cycle
  <2>9. CASE ExchangeExit
    BY <2>9 DEF ExchangeExit, Empties, Holding, Managed, Order
  <2>10. CASE Crash
    BY <2>10 DEF Crash
  <2>11. CASE Restart
    BY <2>11 DEF Restart
  <2>12. CASE UNCHANGED vars
    BY <2>12 DEF vars
  <2>. QED
    BY <2>1, <2>2, <2>3, <2>4, <2>5, <2>6, <2>7, <2>8, <2>9, <2>10, <2>11, <2>12
    DEF Next, Worker
<1>3. IdentityInv => CheckpointNamesOpenTrade
  BY DEF IdentityInv, CheckpointNamesOpenTrade
<1>4. Spec => []VoidOnFlat
  <2>1. CASE "void" \notin Events
    <3>1. VoidOnFlat
      BY <2>1
    <3>. QED BY <3>1, PTL
  <2>2. CASE "read" \notin Events
    <3>1. SlotInv => VoidOnFlat
      BY DEF SlotInv
    <3>. QED BY <2>2, <3>1, SlotInvInvariant, PTL
  <2>. QED BY <2>1, <2>2
<1>. QED
  BY <1>1, <1>2, <1>3, <1>4, TypeCorrect, PTL DEF Spec

-----------------------------------------------------------------------------
(* Every step keeps debt, record and context together: settlement clears   *)
(* the context after the closure is written, and a new one is only written *)
(* for an order that was sent with nothing owed.                           *)
LEMMA DebtInvStep ==
  ASSUME TypeOK, DebtInv, [Next]_vars
  PROVE  DebtInv'
<1>. USE ConstantsAssumption DEF DebtInv, Pending, TypeOK, ManagePhase,
         SettlePhase, EntryPhase, FilledPhase, exchange, disk, memory,
         Return, EndTick
<1>1. CASE Reconcile \/ Tick \/ Query
  BY <1>1
  DEF Reconcile, Boot, ReconcileOpen, ReconcileFlat,
      Tick, TickOnOpen, TickRecovers, TickFindsNone,
      Query, QueryOpen, QueryEmpty, QueryRaises
<1>2. CASE Evaluate \/ Close
  BY <1>2
  DEF Evaluate, EvaluateHold, EvaluateExit, SaveThenHold, SaveThenClose,
      Close, CloseFills, CloseUnfilled, CloseFails, CloseFillsUnseen
<1>3. CASE Finalize
  BY <1>3 DEF Finalize, FinalizeComplete, FinalizePending, FinalizeNotZero,
              FinalizeRaises, Record
<1>4. CASE Settle
  BY <1>4 DEF Settle, ClearCheckpoint, PersistClosure, ClearContext
<1>5. CASE Cycle
  <2>1. CASE Wait \/ GatePasses \/ EntryCheckpoint
    BY <2>1 DEF Wait, GatePasses, EntryCheckpoint
  <2>2. CASE GateSettles
    BY <2>2 DEF GateSettles, Closure
  <2>3. CASE Enter \/ EnterUnfilled \/ EnterUnseen
    BY <2>3 DEF Enter, EnterUnfilled, EnterUnseen
  <2>4. CASE EntryContext
    BY <2>4 DEF EntryContext
  <2>. QED BY <1>5, <2>1, <2>2, <2>3, <2>4 DEF Cycle
<1>6. CASE ExchangeExit \/ Crash \/ Restart
  BY <1>6 DEF ExchangeExit, Crash, Restart
<1>7. CASE UNCHANGED vars
  BY <1>7 DEF vars
<1>. QED
  BY <1>1, <1>2, <1>3, <1>4, <1>5, <1>6, <1>7 DEF Next, Worker

LEMMA DebtInvInvariant == Spec => []DebtInv
<1>1. Init => DebtInv
  BY DEF Init, DebtInv, Pending, FilledPhase
<1>2. TypeOK /\ DebtInv /\ [Next]_vars => DebtInv'
  BY DebtInvStep
<1>. QED
  BY <1>1, <1>2, TypeCorrect, PTL DEF Spec

(* Only settlement and the retry of the guard write the closure. *)
LEMMA ClosureKept ==
  ASSUME Next, ~PersistClosure, ~GateSettles
  PROVE  UNCHANGED closure
<1>. USE DEF disk
<1>. QED
  BY
    DEF Next, Worker, Reconcile, Boot, ReconcileOpen, ReconcileFlat,
        Tick, TickOnOpen, TickRecovers, TickFindsNone,
        Query, QueryOpen, QueryEmpty, QueryRaises,
        Evaluate, EvaluateHold, EvaluateExit, SaveThenHold, SaveThenClose,
        Close, CloseFills, CloseUnfilled, CloseFails, CloseFillsUnseen,
        Finalize, FinalizeComplete, FinalizePending, FinalizeNotZero,
        FinalizeRaises, Record,
        Settle, ClearCheckpoint, ClearContext,
        Cycle, Wait, GatePasses, Enter, EnterUnfilled, EnterUnseen,
        EntryCheckpoint, EntryContext, ExchangeExit, Crash, Restart

(* In every environment last_trade_closure.json, which has room for one,   *)
(* never loses a trade whose accounting is still awaited: whatever is      *)
(* written over a pending closure, after a crash between the writes of     *)
(* settlement or beside a position that is still open, names its trade.    *)
THEOREM DebtIsKept == Spec => PendingNotOverwritten
<1>1. TypeOK /\ DebtInv /\ [Next]_vars
        => [Pending => closure'.trade = closure.trade]_vars
  <2>. SUFFICES ASSUME TypeOK, DebtInv, Next, Pending
                PROVE  closure'.trade = closure.trade
    BY DEF vars
  <2>1. CASE PersistClosure
    <3>1. closure' = outcome /\ outcome # None /\ outcome.trade \in Trades
      BY <2>1 DEF PersistClosure, TypeOK, SettlePhase, Closure
    <3>. QED BY <3>1, ConstantsAssumption DEF DebtInv
  <2>2. CASE GateSettles
    BY <2>2 DEF GateSettles, TypeOK, Closure, Pending
  <2>3. CASE ~PersistClosure /\ ~GateSettles
    BY <2>3, ClosureKept
  <2>. QED BY <2>1, <2>2, <2>3
<1>. QED
  BY <1>1, DebtInvInvariant, TypeCorrect, PTL DEF Spec, PendingNotOverwritten

(* Only an entry order adds to the orders taken. *)
LEMMA OpenedKept ==
  ASSUME Next, ~Enter, ~EnterUnfilled, ~EnterUnseen
  PROVE  UNCHANGED opened
<1>. USE DEF exchange
<1>. QED
  BY
    DEF Next, Worker, Reconcile, Boot, ReconcileOpen, ReconcileFlat,
        Tick, TickOnOpen, TickRecovers, TickFindsNone,
        Query, QueryOpen, QueryEmpty, QueryRaises,
        Evaluate, EvaluateHold, EvaluateExit, SaveThenHold, SaveThenClose,
        Close, CloseFills, CloseUnfilled, CloseFails, CloseFillsUnseen,
        Finalize, FinalizeComplete, FinalizePending, FinalizeNotZero,
        FinalizeRaises, Record,
        Settle, ClearCheckpoint, PersistClosure, ClearContext,
        Cycle, Wait, GatePasses, GateSettles, EntryCheckpoint, EntryContext,
        ExchangeExit, Crash, Restart

(* GLOBAL_PENDING_ACCOUNTING, in every environment: an order is only sent  *)
(* from a cycle that has passed the guard, and nothing can write a pending *)
(* closure between the guard and the order.                                *)
THEOREM NoEntryOnDebt == Spec => NoEntryWhilePending
<1>1. DebtInv /\ [Next]_vars => [opened' # opened => ~Pending]_vars
  <2>. SUFFICES ASSUME DebtInv, Next, opened' # opened PROVE ~Pending
    BY DEF vars
  <2>1. pc = "select"
    BY OpenedKept DEF Enter, EnterUnfilled, EnterUnseen
  <2>. QED BY <2>1 DEF DebtInv
<1>. QED
  BY <1>1, DebtInvInvariant, PTL DEF Spec, NoEntryWhilePending

=============================================================================
