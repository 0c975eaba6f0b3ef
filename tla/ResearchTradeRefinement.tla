---------------------- MODULE ResearchTradeRefinement ----------------------
(***************************************************************************)
(* The research trade lifecycle implements the one-slot ledger of          *)
(* TradeSlot for every set of symbols and trades, as long as position      *)
(* queries answer.                                                         *)
(***************************************************************************)
EXTENDS ResearchTradeProofs

(* Every file and record of the worker names a trade whose order was taken. *)
FilledInv ==
    /\ \A s \in Symbols : row[s] \subseteq opened
    /\ entry # None => entry.trade \in opened
    /\ ctx # None => ctx \in opened
    /\ outcome # None => outcome.trade \in opened

(* No step names a trade before the exchange has taken its order. *)
LEMMA FilledStep ==
  ASSUME TypeOK, FilledInv, [Next]_vars
  PROVE  FilledInv'
<1>. USE DEF FilledInv, exchange, disk, memory, Return, EndTick
<1>1. CASE Reconcile \/ Tick \/ Query
  BY <1>1
  DEF Reconcile, Boot, ReconcileOpen, ReconcileFlat, RecoverOpen, RecoverFlat,
      Tick, TickOnOpen, TickRecovers, TickFindsNone,
      Query, QueryOpen, QueryEmpty, QueryRaises
<1>2. CASE Evaluate
  BY <1>2 DEF Evaluate, EvaluateHold, EvaluateExit, SaveThenHold, SaveThenClose
<1>3. CASE Close
  BY <1>3
  DEF Close, CloseFills, CloseUnfilled, CloseFails, CloseFillsUnseen, Empties,
      TypeOK
<1>4. CASE Finalize
  BY <1>4 DEF Finalize, FinalizeComplete, FinalizePending, FinalizeNotZero,
              FinalizeRaises, Record
<1>5. CASE Settle
  BY <1>5 DEF Settle, ClearCheckpoint, PersistClosure, ClearContext
<1>6. CASE Enter \/ EnterUnfilled \/ EnterUnseen
  BY <1>6 DEF Enter, EnterUnfilled, EnterUnseen, Fill, TypeOK
<1>7. CASE Cycle /\ ~Enter /\ ~EnterUnfilled /\ ~EnterUnseen
  BY <1>7, ConstantsAssumption
  DEF Cycle, Wait, GatePasses, GateSettles, EntryCheckpoint, EntryContext,
      TypeOK, FilledPhase
<1>8. CASE ExchangeExit
  BY <1>8 DEF ExchangeExit, Empties, TypeOK
<1>9. CASE Crash \/ Restart
  BY <1>9 DEF Crash, Restart
<1>10. CASE UNCHANGED vars
  BY <1>10 DEF vars
<1>. QED
  BY <1>1, <1>2, <1>3, <1>4, <1>5, <1>6, <1>7, <1>8, <1>9, <1>10
  DEF Next, Worker

LEMMA FilledInvariant == Spec => []FilledInv
<1>1. Init => FilledInv
  BY DEF Init, FilledInv
<1>. QED
  BY <1>1, FilledStep, TypeCorrect, PTL DEF Spec

(* Only a fill or a close is seen in the slot. *)
LEMMA RowKept ==
  ASSUME Next, ~Enter, ~EnterUnseen, ~CloseFills, ~CloseFillsUnseen,
         ~ExchangeExit
  PROVE  UNCHANGED row
<1>. USE DEF exchange
<1>1. CASE Reconcile \/ Tick \/ Query
  BY <1>1
  DEF Reconcile, Boot, ReconcileOpen, ReconcileFlat,
      Tick, TickOnOpen, TickRecovers, TickFindsNone,
      Query, QueryOpen, QueryEmpty, QueryRaises
<1>2. CASE Evaluate \/ Close \/ Finalize \/ Settle
  BY <1>2
  DEF Evaluate, EvaluateHold, EvaluateExit, SaveThenHold, SaveThenClose,
      Close, CloseUnfilled, CloseFails,
      Finalize, FinalizeComplete, FinalizePending, FinalizeNotZero,
      FinalizeRaises, Record, Settle, ClearCheckpoint, PersistClosure,
      ClearContext
<1>3. CASE Cycle \/ Crash \/ Restart
  BY <1>3
  DEF Cycle, Wait, GatePasses, GateSettles, EnterUnfilled, EntryCheckpoint,
      EntryContext, Crash, Restart
<1>. QED
  BY <1>1, <1>2, <1>3 DEF Next, Worker

(* A flat account shows an empty slot, an open row a full one, and the     *)
(* slot shows the one open trade.                                          *)
LEMMA SlotShown ==
  ASSUME TypeOK
  PROVE  /\ AllFlat => OpenTrade = None
         /\ ~AllFlat => OpenTrade # None
         /\ Pending => Debt = closure.trade /\ Debt \in Trades
         /\ ~Pending => Debt = None
<1>1. ASSUME ~AllFlat PROVE OpenTrade # None
  <2>1. \E t \in Trades : t \in OpenTrades
    BY <1>1 DEF AllFlat, OpenTrades, TypeOK
  <2>. QED
    BY <1>1, <2>1, ConstantsAssumption DEF OpenTrade
<1>. QED
  BY <1>1 DEF OpenTrade, Debt, Pending, TypeOK, Closure

(* An order that fills on a flat account takes the slot. *)
LEMMA FillTakes ==
  ASSUME TypeOK, AllFlat, NEW s \in Symbols, NEW t \in Trades, Fill(s, t)
  PROVE  OpenTrade' = t /\ t \notin opened /\ opened' = opened \cup {t}
<1>1. row' = [r \in Symbols |-> IF r = s THEN {t} ELSE {}]
  BY DEF Fill, AllFlat, TypeOK
<1>2. OpenTrades' = {t} /\ ~AllFlat'
  BY <1>1 DEF OpenTrades, AllFlat
<1>. QED
  BY <1>2 DEF OpenTrade, Fill

(* The initial state is that of an empty ledger. *)
LEMMA InitMaps == Init => Slot!SlotInit
  BY DEF Init, AllFlat, OpenTrade, Pending, Debt, Slot!SlotInit

(* Every step is a step of the ledger or invisible to it. *)
LEMMA StepMaps ==
  ASSUME "read" \notin Events, TypeOK, TypeOK', SlotInv, SlotInv', DebtInv,
         FilledInv, [Next]_vars
  PROVE  [Slot!SlotNext]_Slot!slotVars
<1>. USE DEF exchange, disk
<1>1. CASE Enter \/ EnterUnfilled \/ EnterUnseen
  <2>1. pc = "select" /\ UNCHANGED closure
    BY <1>1 DEF Enter, EnterUnfilled, EnterUnseen
  <2>2. AllFlat /\ ~Pending
    BY <2>1 DEF SlotInv, DebtInv, EntryPhase
  <2>3. OpenTrade = None /\ Debt = None /\ Debt' = Debt
    BY <2>1, <2>2, SlotShown DEF Debt, Pending
  <2>4. CASE EnterUnfilled
    <3>1. PICK t \in Trades \ opened : opened' = opened \cup {t}
      BY <2>4 DEF EnterUnfilled
    <3>2. OpenTrade' = OpenTrade
      BY <2>4 DEF EnterUnfilled, OpenTrade, OpenTrades, AllFlat
    <3>. QED
      BY <2>3, <3>1, <3>2 DEF Slot!Waste, Slot!SlotNext
  <2>5. CASE Enter \/ EnterUnseen
    <3>1. PICK s \in Symbols, t \in Trades : Fill(s, t)
      BY <2>5 DEF Enter, EnterUnseen
    <3>2. Slot!Take(t)
      BY <2>2, <2>3, <3>1, FillTakes DEF Slot!Take
    <3>. QED
      BY <3>2 DEF Slot!SlotNext
  <2>. QED
    BY <1>1, <2>4, <2>5
<1>2. CASE CloseFills \/ CloseFillsUnseen \/ ExchangeExit
  <2>1. UNCHANGED <<opened, closure>>
    BY <1>2 DEF CloseFills, CloseFillsUnseen, ExchangeExit
  <2>2. ~AllFlat /\ AllFlat'
    <3>1. PICK s \in Symbols : row[s] # {} /\ row' = [row EXCEPT ![s] = {}]
      BY <1>2, ConstantsAssumption
      DEF CloseFills, CloseFillsUnseen, ExchangeExit, Empties, TypeOK, Managed,
          ManagePhase
    <3>. QED
      BY <3>1 DEF AllFlat, TypeOK, SlotInv, AtMostOnePosition
  <2>3. OpenTrade # None /\ OpenTrade' = None /\ Debt' = Debt
    BY <2>1, <2>2, SlotShown DEF OpenTrade, Debt, Pending
  <2>. QED
    BY <2>1, <2>3 DEF Slot!Leave, Slot!SlotNext
<1>3. CASE PersistClosure
  <2>1. /\ closure' = outcome /\ outcome # None
        /\ UNCHANGED <<row, opened>>
    BY <1>3 DEF PersistClosure, TypeOK, SettlePhase
  <2>2. /\ outcome.trade \in Trades \cap opened /\ OpenTrade' = OpenTrade
        /\ Pending => closure.trade = outcome.trade
    BY <2>1, ConstantsAssumption
    DEF DebtInv, FilledInv, TypeOK, Closure, OpenTrade, OpenTrades, AllFlat
  <2>3. CASE outcome.complete
    <3>1. OpenTrade = None /\ Debt' = None
      BY <2>1, <2>3, SlotShown DEF SlotInv, Debt, Pending
    <3>. QED
      BY <2>1, <2>2, <3>1 DEF Slot!Settled, Slot!SlotNext, Slot!slotVars
  <2>4. CASE ~outcome.complete
    <3>1. Debt' = outcome.trade
      BY <2>1, <2>4, ConstantsAssumption DEF Debt, Pending, TypeOK
    <3>2. Debt \in {None, outcome.trade}
      BY <2>2 DEF Debt
    <3>. QED
      BY <2>1, <2>2, <3>1, <3>2 DEF Slot!Report, Slot!SlotNext, Slot!slotVars
  <2>. QED
    BY <2>3, <2>4
<1>4. CASE GateSettles
  <2>1. /\ Pending /\ ~Pending' /\ UNCHANGED <<row, opened>>
        /\ pc = "gate"
    BY <1>4 DEF GateSettles, Pending, TypeOK, Closure
  <2>2. Debt # None /\ Debt' = None /\ OpenTrade = None /\ OpenTrade' = OpenTrade
    BY <2>1, SlotShown, ConstantsAssumption
    DEF Debt, OpenTrade, OpenTrades, AllFlat, SlotInv, EntryPhase
  <2>. QED
    BY <2>1, <2>2 DEF Slot!Settled, Slot!SlotNext
<1>5. CASE /\ ~Enter /\ ~EnterUnfilled /\ ~EnterUnseen
           /\ ~CloseFills /\ ~CloseFillsUnseen /\ ~ExchangeExit
           /\ ~PersistClosure /\ ~GateSettles
  <2>1. UNCHANGED <<row, opened, closure>>
    BY <1>5, RowKept, OpenedKept, ClosureKept DEF vars
  <2>. QED
    BY <2>1 DEF OpenTrade, OpenTrades, AllFlat, Debt, Pending, Slot!slotVars
<1>. QED
  BY <1>1, <1>2, <1>3, <1>4, <1>5

(* When position queries answer, the worker with its three files, its      *)
(* ticks, crashes, lost replies, unfilled orders and exits made by the     *)
(* exchange is a one-slot ledger: a trade is ordered once, for an empty    *)
(* slot, with nothing owed; one that was ordered may be reported at any    *)
(* time, also while a position is open, and its accounting is then settled *)
(* before the next order and only with the slot empty.                     *)
THEOREM Refinement ==
  ASSUME "read" \notin Events
  PROVE  Spec => ImplementsSlot
<1>. QED
  BY InitMaps, StepMaps, TypeCorrect, SlotInvInvariant, DebtInvInvariant,
     FilledInvariant, PTL
  DEF Spec, ImplementsSlot, Slot!SlotSpec

=============================================================================
