-------------------------- MODULE OrderLedgerProofs --------------------------
(***************************************************************************)
(* Theorems about OrderLedger, for every number of intents and of lookups: *)
(* sessions, crashes, restarts and lost replies in any order and number.   *)
(*                                                                         *)
(* The argument has three parts.  Evidence: the state of an intent is one  *)
(* the order of that intent justifies.  Place: what the session's program  *)
(* counter tells of the intent it is submitting and of the entry it is     *)
(* closing.  OneOpenEntry then follows from the guard of _try_entry,       *)
(* because nothing but PersistEntry opens an entry.                        *)
(***************************************************************************)
EXTENDS OrderLedger, TLAPS

Executed == {"PartiallyFilled", "Filled", "Cancelled"}

(* The exchange has done what state s says of intent i. *)
Justifies(i, s) ==
    /\ s \in {"NONE", "INTENT_CREATED"} => order[i] = "unsent"
    /\ s = "NONE" => i \notin closes
    /\ s = "REJECTED" => order[i] = "Rejected"
    /\ s = "CANCELLED" => order[i] = "Cancelled"
    /\ s = "FILLED" => order[i] = "Filled"
    /\ s \in {"PARTIALLY_FILLED", "CLOSE_PENDING"} => order[i] \in Executed
    /\ s = "CLOSED" => order[i] # "unsent" /\ (i \in closes \/ order[i] \in Executed)

Evidence == \A i \in Intents : Justifies(i, ledger[i])

(* The intent being submitted. *)
CurInv ==
    /\ pc \in {"pend", "mark", "submit", "reply", "confirm", "recheck", "lookup",
               "relook", "wait", "settleEntry", "settleClose"} => cur \in Intents
    /\ pc = "pend" => cur \in closes
    /\ pc \in {"pend", "mark"} => ledger[cur] = "INTENT_CREATED"
    /\ pc \in {"submit", "reply"} => ledger[cur] = "SUBMITTING"
    /\ pc = "submit" => order[cur] = "unsent"
    /\ pc \in {"reply", "confirm", "recheck", "settleEntry", "settleClose"}
          => order[cur] # "unsent"
    /\ pc \in {"confirm", "recheck"} => ledger[cur] = "ACCEPTED"
    /\ pc \in {"lookup", "relook"} => ledger[cur] \in {"SUBMIT_UNKNOWN", RR}
    /\ pc = "lookup" /\ tries > 0 => ledger[cur] = RR
    /\ pc = "relook" => tries < Attempts
    /\ pc = "wait" => cur \notin closes /\ ledger[cur] # "NONE"
    /\ pc \in {"settleEntry", "settleClose"} => cur \in closes

(* The entry of the supervised trade, and the entry being closed. *)
ActiveInv ==
    /\ active # 0 => active \in Intents \ closes /\ ledger[active] # "NONE"
    /\ pc \in {"persistClose", "pend"} => active # 0
    /\ pc = "settleEntry" => active # 0 /\ ledger[active] = "CLOSE_PENDING"
    /\ pc \in {"mark", "submit", "reply", "confirm"} /\ cur \in closes
          => active # 0 /\ ledger[active] = "CLOSE_PENDING"

(* Between _try_entry and create_intent no intent is unfinished. *)
CalmInv == pc \in {"orders", "persistEntry"} => Unfinished = {}

-----------------------------------------------------------------------------
(* Lemmas about the operators *)

LEMMA MoveType ==
  ASSUME ledger \in [Intents -> LedgerStates], NEW i \in Intents,
         NEW s \in LedgerStates, Moved(i, s)
  PROVE  ledger' \in [Intents -> LedgerStates]
BY DEF Moved

(* What a lookup answers is a state of the ledger the order justifies. *)
LEMMA ReconcileJustifies ==
  ASSUME TypeOK, NEW i \in Intents
  PROVE  /\ reconcile_intent(i) \in LedgerStates \ {"NONE", "INTENT_CREATED"}
         /\ Justifies(i, reconcile_intent(i))
BY DEF reconcile_intent, exchange_state, Visible, Justifies, LedgerStates, RR, Final,
       Executed, OrderStates

(* The transition table leads out of an unfinished state only, and never back *)
(* to an unsent intent.                                                       *)
LEMMA MoveFromOpen ==
  ASSUME TypeOK, NEW i \in Intents, NEW s, CanMove(i, s), s # ledger[i]
  PROVE  /\ ledger[i] \notin Final \union {"NONE"}
         /\ s \in LedgerStates \ {"NONE", "INTENT_CREATED"}
<1>1. <<ledger[i], s>> \in AllowedTransitions
  BY DEF CanMove
<1>. QED BY <1>1 DEF AllowedTransitions, LedgerStates, RR, Final

-----------------------------------------------------------------------------
(* Types *)

(* Steps that touch neither the ledger nor the exchange. *)
Quiet == \/ Boot \/ Start \/ StartupDone \/ StartupFails \/ TimeUp \/ TryEntry
         \/ CheckOrders \/ NoEntry \/ PositionGone \/ ForceFlat \/ LeaveLoop
         \/ RecordExit \/ Finalize \/ CloseFallback \/ WaitFill \/ CallFails \/ Crash

(* Steps that write the ledger. *)
Writes == \/ StartupReconcile \/ PersistEntry \/ PersistClose \/ PendEntry
          \/ MarkSubmitting \/ ReplyMissing \/ ReplyAck \/ Confirm \/ Lookup
          \/ Relook \/ GiveUp \/ SettleEntry \/ SettleClose

LEMMA NextSplit ==
  ASSUME [Next]_vars
  PROVE  Quiet \/ Writes \/ Send \/ ExchangeStep \/ UNCHANGED vars
BY Zenon DEF Next, SessionStep, StartStep, LoopStep, SubmitStep, Quiet, Writes

Typed == /\ ledger \in [Intents -> LedgerStates]
         /\ closes \subseteq Intents
         /\ order \in [Intents -> OrderStates]
         /\ pos \in Nat
         /\ pc \in Points
         /\ cur \in 0 .. MaxIntents
         /\ active \in 0 .. MaxIntents
         /\ tries \in 0 .. Attempts
         /\ todo \subseteq Intents
         /\ ret \in {"loop", "finalize", "up"}

Flags == /\ unresolved \in BOOLEAN /\ stores \in BOOLEAN
         /\ kill \in BOOLEAN /\ over \in BOOLEAN

LEMMA TypeSplit == TypeOK <=> Typed /\ Flags
BY Zenon DEF TypeOK, Typed, Flags

LEMMA QuietFlags == ASSUME Flags, Quiet PROVE Flags'
BY Zenon DEF Flags, Quiet, Boot, Start, StartupDone, StartupFails, TimeUp, TryEntry,
       CheckOrders, NoEntry, PositionGone, ForceFlat, LeaveLoop, RecordExit, Finalize,
       CloseFallback, WaitFill, CallFails, Crash, Leave, Raise

LEMMA QuietTyped == ASSUME Typed, Quiet PROVE Typed'
<1>. USE ConstantsAssumption
     DEF Typed, durable, exchange, Goto, Points, Intents
<1>1. CASE Boot \/ Start \/ StartupDone \/ StartupFails \/ TimeUp
  BY <1>1 DEF Boot, Start, StartupDone, StartupFails, TimeUp, Leave, Unfinished
<1>2. CASE TryEntry \/ CheckOrders \/ NoEntry \/ PositionGone \/ ForceFlat
  BY <1>2 DEF TryEntry, CheckOrders, NoEntry, PositionGone, ForceFlat
<1>3. CASE Finalize \/ CloseFallback
  BY <1>3 DEF Finalize, CloseFallback, Flattened
<1>4. CASE RecordExit
  BY <1>4 DEF RecordExit
<1>5. CASE WaitFill
  BY <1>5 DEF WaitFill
<1>6. CASE LeaveLoop
  <2>1. /\ pc' \in {"persistClose", "finalize"}
        /\ ret' \in {"finalize", "up"}
        /\ UNCHANGED <<ledger, closes, order, pos, cur, active, tries, todo>>
    BY <1>6, Zenon DEF LeaveLoop
  <2>. QED BY <2>1
<1>7. CASE CallFails
  <2>1. /\ pc' \in {"up", "finalize"}
        /\ ret' = "up"
        /\ tries' = 0
        /\ UNCHANGED <<ledger, closes, order, pos, cur, active, todo>>
    BY <1>7, Zenon DEF CallFails, Raise
  <2>. QED BY <2>1
<1>8. CASE Crash
  BY <1>8 DEF Crash
<1>. QED BY <1>1, <1>2, <1>3, <1>6, <1>7, <1>8, <1>4, <1>5 DEF Quiet

LEMMA WritesFlags == ASSUME Flags, Writes \/ Send \/ ExchangeStep \/ UNCHANGED vars PROVE Flags'
<1>. USE DEF Flags, session
<1>1. CASE StartupReconcile
  BY <1>1, Zenon DEF StartupReconcile, Leave
<1>2. CASE Writes /\ ~StartupReconcile
  BY <1>2, Zenon DEF Writes, PersistEntry, PersistClose, PendEntry, MarkSubmitting,
         ReplyMissing, ReplyAck, Confirm, Lookup, Relook, GiveUp, SettleEntry,
         SettleClose, Raise
<1>3. CASE Send \/ ExchangeStep \/ UNCHANGED vars
  BY <1>3, Zenon DEF Send, ExchangeStep, OrderStep, ProtectiveExit, vars
<1>. QED BY <1>1, <1>2, <1>3, Zenon

(* The ledger moves by one row at most, to a state of the table. *)
LEMMA WritesTyped ==
  ASSUME TypeOK, CurInv, Writes
  PROVE  Typed'
<1>. USE ConstantsAssumption
     DEF Typed, exchange, Goto, Points, Intents, Final, RR
<1>0. Typed
  BY TypeSplit, Zenon
<1>1. CASE StartupReconcile
  <2>1. PICK i \in todo :
          \/ Moved(i, reconcile_intent(i)) /\ todo' \subseteq todo /\ pc' = pc
          \/ ledger' = ledger /\ todo' = {} /\ pc' = "up"
    BY <1>1, Zenon DEF StartupReconcile, Leave
  <2>. QED BY <1>0, <1>1, <2>1, MoveType, ReconcileJustifies DEF StartupReconcile
<1>2. CASE PersistEntry
  BY <1>0, <1>2 DEF PersistEntry, Moved, LedgerStates
<1>3. CASE PersistClose
  BY <1>0, <1>3 DEF PersistClose, Moved, LedgerStates
<1>4. CASE PendEntry
  BY <1>0, <1>4 DEF PendEntry, Moved, LedgerStates
<1>5. CASE MarkSubmitting
  BY <1>0, <1>5 DEF MarkSubmitting, Moved, LedgerStates
<1>6. CASE ReplyMissing
  <2>1. /\ ledger' = [ledger EXCEPT ![cur] = "SUBMIT_UNKNOWN"]
        /\ pc' = "lookup" /\ tries' = 0
        /\ UNCHANGED <<closes, order, pos, cur, active, todo, ret>>
    BY <1>6 DEF ReplyMissing, Moved
  <2>2. 0 \in 0 .. Attempts
    BY ConstantsAssumption
  <2>3. ledger' \in [Intents -> LedgerStates]
    BY <1>0, <2>1 DEF LedgerStates
  <2>. QED BY <1>0, <2>1, <2>2, <2>3
<1>7. CASE ReplyAck
  BY <1>0, <1>7 DEF ReplyAck, Moved, LedgerStates
<1>8. CASE Lookup
  BY <1>0, <1>8 DEF Lookup, Moved, LedgerStates
<1>9. CASE GiveUp
  BY <1>0, <1>9 DEF GiveUp, Moved, LedgerStates, Flattened
<1>10. CASE SettleEntry \/ SettleClose
  BY <1>0, <1>10 DEF SettleEntry, SettleClose, Moved, LedgerStates, Flattened
<1>11. CASE Confirm \/ Relook
  <2>1. cur \in Intents
    BY <1>11 DEF Confirm, Relook, CurInv
  <2>2. /\ Moved(cur, reconcile_intent(cur)) \/ ledger' = ledger
        /\ pc' \in {"up", "exit", "finalize", "lookup", "wait", "settleEntry"}
        /\ ret' \in {ret, "up"}
        /\ UNCHANGED <<closes, order, pos, cur, active, todo>>
    BY <1>11, Zenon DEF Confirm, Relook, Raise, Submitted
  <2>3. ledger' \in [Intents -> LedgerStates]
    BY <1>0, <2>1, <2>2, MoveType, ReconcileJustifies
  <2>4. CASE Confirm
    BY <1>0, <2>2, <2>3, <2>4 DEF Confirm
  <2>5. CASE Relook
    <3>1. tries' \in {0, tries + 1}
      BY <2>5, Zenon DEF Relook
    <3>2. tries < Attempts
      BY <2>5 DEF Relook, CurInv
    <3>. QED BY <1>0, <2>2, <2>3, <3>1, <3>2
  <2>. QED BY <1>11, <2>4, <2>5
<1>. QED BY <1>1, <1>2, <1>8, <1>9, <1>10, <1>11, <1>3, <1>4, <1>5, <1>6, <1>7 DEF Writes

LEMMA ExchangeTyped ==
  ASSUME Typed, Send \/ ExchangeStep \/ UNCHANGED vars
  PROVE  Typed'
<1>. USE DEF Typed, OrderStates, Points, Goto
<1>1. CASE Send
  BY <1>1 DEF Send, durable
<1>2. CASE ExchangeStep
  <2>1. CASE ProtectiveExit
    BY <2>1 DEF ProtectiveExit, durable, session
  <2>2. ASSUME NEW i \in Intents, OrderStep(i) PROVE Typed'
    <3>1. PICK s \in OrderStates :
            /\ i \in closes => (s = "PartiallyFilled" => pos > 1) /\ (s = "Filled" => pos > 0)
            /\ order' = [order EXCEPT ![i] = s]
            /\ pos' = PosAfter(i, s)
      BY <2>2, Zenon DEF OrderStep
    <3>2. pos' \in Nat
      BY <3>1 DEF PosAfter
    <3>. QED BY <2>2, <3>1, <3>2 DEF OrderStep, durable, session
  <2>. QED BY <1>2, <2>1, <2>2 DEF ExchangeStep
<1>3. CASE UNCHANGED vars
  BY <1>3 DEF vars
<1>. QED BY <1>1, <1>2, <1>3

-----------------------------------------------------------------------------
(* What a step does to the ledger *)

Sent == LedgerStates \ {"NONE", "INTENT_CREATED"}

(* An unfinished intent goes to a state its order justifies. *)
Advances(i, s) == /\ ledger[i] \notin Final \union {"NONE"}
                  /\ Justifies(i, s)
                  /\ Moved(i, s)

Effect == /\ UNCHANGED <<closes, order>>
          /\ UNCHANGED ledger \/ \E i \in Intents : \E s \in Sent : Advances(i, s)

LEMMA MoveAdvances ==
  ASSUME TypeOK, NEW i \in Intents, NEW s, CanMove(i, s), Justifies(i, s), Moved(i, s)
  PROVE  UNCHANGED ledger \/ \E t \in Sent : Advances(i, t)
<1>1. CASE s = ledger[i]
  BY <1>1, TypeSplit DEF Moved, Typed
<1>2. CASE s # ledger[i]
  BY <1>2, MoveFromOpen, Zenon DEF Advances, Sent
<1>. QED BY <1>1, <1>2

(* Every write but that of a new row advances an intent, or changes nothing. *)
LEMMA WritesAdvance ==
  ASSUME TypeOK, Evidence, CurInv, ActiveInv, Writes, ~PersistEntry, ~PersistClose
  PROVE  Effect
<1>. USE DEF exchange
<1>0. Typed
  BY TypeSplit, Zenon
<1>1. CASE StartupReconcile
  <2>1. PICK i \in todo :
          \/ CanMove(i, reconcile_intent(i)) /\ Moved(i, reconcile_intent(i))
          \/ ledger' = ledger
    BY <1>1, Zenon DEF StartupReconcile
  <2>2. i \in Intents
    BY <1>0 DEF Typed
  <2>3. UNCHANGED <<closes, order>>
    BY <1>1 DEF StartupReconcile
  <2>. QED BY <2>1, <2>2, <2>3, MoveAdvances, ReconcileJustifies, Zenon DEF Effect
<1>2. CASE PendEntry
  <2>1. active \in Intents /\ CanMove(active, "CLOSE_PENDING")
        /\ Moved(active, "CLOSE_PENDING") /\ UNCHANGED <<closes, order>>
    BY <1>2 DEF PendEntry, ActiveInv
  <2>2. ledger[active] \in {"PARTIALLY_FILLED", "FILLED", "CLOSE_PENDING"}
    BY <2>1 DEF CanMove, AllowedTransitions, RR, Final
  <2>3. Justifies(active, "CLOSE_PENDING")
    BY <2>1, <2>2 DEF Evidence, Justifies, Executed
  <2>. QED BY <2>1, <2>3, MoveAdvances, Zenon DEF Effect
<1>3. CASE MarkSubmitting
  <2>1. cur \in Intents /\ ledger[cur] = "INTENT_CREATED"
        /\ Moved(cur, "SUBMITTING") /\ UNCHANGED <<closes, order>>
    BY <1>3 DEF MarkSubmitting, CurInv
  <2>. QED BY <2>1 DEF Effect, Advances, Sent, LedgerStates, Final, Justifies
<1>4. CASE ReplyMissing \/ ReplyAck
  <2>1. cur \in Intents /\ ledger[cur] = "SUBMITTING" /\ UNCHANGED <<closes, order>>
    BY <1>4 DEF ReplyMissing, ReplyAck, CurInv
  <2>2. Moved(cur, "SUBMIT_UNKNOWN") \/ Moved(cur, "ACCEPTED")
    BY <1>4, Zenon DEF ReplyMissing, ReplyAck
  <2>. QED BY <2>1, <2>2 DEF Effect, Advances, Sent, LedgerStates, Final, Justifies
<1>5. CASE Lookup
  <2>1. cur \in Intents /\ ledger[cur] \in {"SUBMIT_UNKNOWN", RR}
        /\ UNCHANGED <<closes, order>>
    BY <1>5 DEF Lookup, CurInv
  <2>2. Moved(cur, "ACCEPTED") \/ ledger' = ledger
    BY <1>5, Zenon DEF Lookup
  <2>. QED BY <2>1, <2>2 DEF Effect, Advances, Sent, LedgerStates, RR, Final, Justifies
<1>6. CASE Confirm \/ Relook
  <2>1. cur \in Intents /\ UNCHANGED <<closes, order>>
    BY <1>6 DEF Confirm, Relook, CurInv
  <2>2. \/ CanMove(cur, reconcile_intent(cur)) /\ Moved(cur, reconcile_intent(cur))
        \/ ledger' = ledger
    BY <1>6, Zenon DEF Confirm, Relook
  <2>. QED BY <2>1, <2>2, MoveAdvances, ReconcileJustifies, Zenon DEF Effect
<1>7. CASE GiveUp
  <2>1. tries > 0
    BY <1>0, <1>7, ConstantsAssumption DEF GiveUp, Typed
  <2>2. ledger[cur] = RR
    BY <1>7, <2>1 DEF GiveUp, CurInv
  <2>. QED BY <1>7, <2>2 DEF GiveUp, Effect, RR
<1>8. CASE SettleEntry
  <2>1. active \in Intents /\ ledger[active] = "CLOSE_PENDING"
        /\ UNCHANGED <<closes, order>>
    BY <1>8 DEF SettleEntry, ActiveInv
  <2>2. (CanMove(active, "CLOSED") /\ Moved(active, "CLOSED")) \/ ledger' = ledger
    BY <1>8, Zenon DEF SettleEntry
  <2>3. Justifies(active, "CLOSED")
    BY <2>1 DEF Evidence, Justifies, Executed
  <2>. QED BY <2>1, <2>2, <2>3, MoveAdvances, Zenon DEF Effect
<1>9. CASE SettleClose
  <2>1. cur \in Intents /\ cur \in closes /\ order[cur] # "unsent"
        /\ UNCHANGED <<closes, order>>
    BY <1>9 DEF SettleClose, CurInv
  <2>2. (CanMove(cur, "CLOSED") /\ Moved(cur, "CLOSED")) \/ ledger' = ledger
    BY <1>9, Zenon DEF SettleClose
  <2>3. Justifies(cur, "CLOSED")
    BY <2>1 DEF Justifies
  <2>. QED BY <2>1, <2>2, <2>3, MoveAdvances, Zenon DEF Effect
<1>. QED BY <1>1, <1>2, <1>3, <1>4, <1>5, <1>6, <1>7, <1>8, <1>9, Zenon DEF Writes

LEMMA QuietEffect == ASSUME Quiet PROVE Effect
BY Zenon DEF Effect, durable, exchange, Quiet, Boot, Start, StartupDone, StartupFails,
       TimeUp, TryEntry, CheckOrders, NoEntry, PositionGone, ForceFlat, LeaveLoop,
       RecordExit, Finalize, CloseFallback, WaitFill, CallFails, Crash

-----------------------------------------------------------------------------
(* The inductive invariant *)

Inv == TypeOK /\ Evidence /\ CurInv /\ ActiveInv /\ CalmInv /\ OneOpenEntry

LEMMA TypeStep == ASSUME Inv, [Next]_vars PROVE TypeOK'
<1>1. Flags' /\ Typed'
  BY NextSplit, TypeSplit, QuietFlags, QuietTyped, WritesFlags, WritesTyped,
     ExchangeTyped, Zenon DEF Inv
<1>. QED BY <1>1, Zenon DEF Typed, Flags, TypeOK

(* A step advances an intent or does nothing to the ledger, or it is one of *)
(* the four that open a row or move an order.                               *)
LEMMA StepEffect ==
  ASSUME Inv, [Next]_vars
  PROVE  Effect \/ PersistEntry \/ PersistClose \/ Send \/ \E i \in Intents : OrderStep(i)
<1>1. CASE UNCHANGED vars \/ ProtectiveExit
  BY <1>1 DEF vars, ProtectiveExit, durable, Effect
<1>. QED BY <1>1, NextSplit, QuietEffect, WritesAdvance, Zenon DEF Inv, ExchangeStep

LEMMA OrderStepEffect ==
  ASSUME TypeOK, NEW i \in Intents, OrderStep(i)
  PROVE  /\ UNCHANGED <<ledger, closes>>
         /\ \E s \in OrderStates : /\ <<order[i], s>> \in OrderMoves
                                 /\ order' = [order EXCEPT ![i] = s]
BY Zenon DEF OrderStep, durable

LEMMA EvidenceStep == ASSUME Inv, [Next]_vars PROVE Evidence'
<1>. USE DEF Evidence, Justifies
<1>0. TypeOK /\ Evidence /\ CurInv /\ Typed
  BY TypeSplit, Zenon DEF Inv
<1>1. CASE Effect
  <2>1. CASE UNCHANGED ledger
    BY <1>0, <1>1, <2>1 DEF Effect
  <2>2. ASSUME NEW i \in Intents, NEW s \in Sent, Advances(i, s) PROVE Evidence'
    BY <1>0, <1>1, <2>2 DEF Effect, Advances, Moved, Typed
  <2>. QED BY <1>1, <2>1, <2>2 DEF Effect
<1>2. CASE PersistEntry
  BY <1>0, <1>2 DEF PersistEntry, Fresh, Moved, exchange, Typed
<1>3. CASE PersistClose
  BY <1>0, <1>3 DEF PersistClose, Fresh, Moved, exchange, Typed
<1>4. CASE Send
  BY <1>0, <1>4 DEF Send, durable, CurInv, Typed
<1>5. ASSUME NEW i \in Intents, OrderStep(i) PROVE Evidence'
  <2>1. PICK s \in OrderStates : /\ <<order[i], s>> \in OrderMoves
                                 /\ order' = [order EXCEPT ![i] = s]
    BY <1>0, <1>5, OrderStepEffect
  <2>2. UNCHANGED <<ledger, closes>>
    BY <1>0, <1>5, OrderStepEffect
  <2>3. order[i] # "unsent" /\ s # "unsent"
        /\ (order[i] \in Executed => s \in Executed)
        /\ order[i] \notin {"Filled", "Cancelled", "Rejected"}
    BY <2>1 DEF OrderMoves, Executed
  <2>. QED BY <1>0, <2>1, <2>2, <2>3 DEF Typed
<1>. QED BY <1>1, <1>2, <1>3, <1>4, <1>5, StepEffect

LEMMA OneOpenStep == ASSUME Inv, [Next]_vars PROVE OneOpenEntry'
<1>. USE DEF OneOpenEntry, Unfinished
<1>0. TypeOK /\ OneOpenEntry /\ CalmInv /\ Typed
  BY TypeSplit, Zenon DEF Inv
<1>1. CASE Effect
  <2>1. CASE UNCHANGED ledger
    BY <1>0, <1>1, <2>1 DEF Effect
  <2>2. ASSUME NEW i \in Intents, NEW s \in Sent, Advances(i, s) PROVE OneOpenEntry'
    BY <1>0, <1>1, <2>2 DEF Effect, Advances, Moved, Typed
  <2>. QED BY <1>1, <2>1, <2>2 DEF Effect
<1>2. CASE PersistEntry
  BY <1>0, <1>2 DEF PersistEntry, CalmInv, Moved, Typed
<1>3. CASE PersistClose
  BY <1>0, <1>3 DEF PersistClose, Moved, Typed
<1>4. CASE Send \/ \E i \in Intents : OrderStep(i)
  BY <1>0, <1>4 DEF Send, OrderStep, durable
<1>. QED BY <1>1, <1>2, <1>3, <1>4, StepEffect

-----------------------------------------------------------------------------
(* The program counter *)

Places == CurInv /\ ActiveInv /\ CalmInv

Idle == {"down", "up", "startup", "loop", "exit", "finalize"}

LEMMA IdlePlaces ==
  ASSUME ActiveInv, UNCHANGED <<ledger, closes>>, active' \in {active, 0}, pc' \in Idle
  PROVE  Places'
BY DEF Places, CurInv, ActiveInv, CalmInv, Idle

LEMMA QuietPlaces == ASSUME Inv, Quiet PROVE Places'
<1>0. TypeOK /\ CurInv /\ ActiveInv /\ CalmInv /\ Typed
  BY TypeSplit, Zenon DEF Inv
<1>. USE <1>0 DEF durable, exchange, Goto
<1>1. CASE Boot \/ StartupFails \/ StartupDone \/ CallFails \/ Crash \/ NoEntry
           \/ CloseFallback \/ PositionGone
  <2>1. pc' \in Idle /\ UNCHANGED <<ledger, closes>> /\ active' \in {active, 0}
    BY <1>1, Zenon
    DEF Idle, Boot, StartupFails, StartupDone, CallFails, Crash, NoEntry,
        CloseFallback, PositionGone, Leave, Raise, Flattened
  <2>. QED BY <2>1, IdlePlaces
<1>2. CASE Start
  <2>1. pc' \in Idle /\ UNCHANGED <<ledger, closes>> /\ active' = active
    BY <1>2, Zenon DEF Idle, Start
  <2>. QED BY <2>1, IdlePlaces
<1>3. CASE RecordExit
  <2>1. pc' \in Idle /\ UNCHANGED <<ledger, closes>> /\ active' = 0
    BY <1>3 DEF Idle, RecordExit, Typed
  <2>. QED BY <2>1, IdlePlaces
<1>4. CASE TimeUp
  BY <1>4 DEF TimeUp, Places, CurInv, ActiveInv, CalmInv, Unfinished
<1>5. CASE TryEntry \/ CheckOrders
  <2>1. /\ UNCHANGED <<ledger, closes, active>>
        /\ pc' \in {"loop", "orders", "persistEntry"}
        /\ Unfinished = {}
    BY <1>5, Zenon DEF TryEntry, CheckOrders, CalmInv
  <2>. QED BY <2>1 DEF Places, CurInv, ActiveInv, CalmInv, Unfinished
<1>6. CASE ForceFlat \/ LeaveLoop \/ Finalize
  <2>1. /\ UNCHANGED <<ledger, closes, active>>
        /\ pc' = "up" \/ pc' = "finalize" \/ (pc' = "persistClose" /\ active # 0)
    <3>1. CASE LeaveLoop
      <4>1. CASE active = 0
        BY <3>1, <4>1, Zenon DEF LeaveLoop
      <4>2. CASE active # 0
        BY <3>1, <4>2, Zenon DEF LeaveLoop
      <4>. QED BY <4>1, <4>2
    <3>2. CASE ForceFlat \/ Finalize
      BY <3>2, Zenon DEF ForceFlat, Finalize
    <3>. QED BY <1>6, <3>1, <3>2
  <2>. QED BY <2>1 DEF Places, CurInv, ActiveInv, CalmInv, Idle
<1>7. CASE WaitFill
  <2>1. /\ UNCHANGED <<ledger, closes>>
        /\ pc' = "loop"
        /\ active' \in {active, cur}
        /\ cur \in Intents \ closes /\ ledger[cur] # "NONE"
    BY <1>7 DEF WaitFill, CurInv
  <2>. QED BY <2>1 DEF Places, CurInv, ActiveInv, CalmInv
<1>. QED BY <1>1, <1>2, <1>3, <1>4, <1>5, <1>6, <1>7, Zenon DEF Quiet

LEMMA WritesPlaces == ASSUME Inv, Writes PROVE Places'
<1>0. TypeOK /\ CurInv /\ ActiveInv /\ CalmInv /\ Typed
  BY TypeSplit, Zenon DEF Inv
<1>. USE <1>0 DEF exchange, Goto
<1>1. CASE StartupReconcile
  <2>1. /\ pc' \in {"startup", "up"} /\ UNCHANGED <<closes, active>>
        /\ UNCHANGED ledger
           \/ \E i \in todo : CanMove(i, reconcile_intent(i)) /\ Moved(i, reconcile_intent(i))
    BY <1>1, Zenon DEF StartupReconcile, Leave
  <2>2. \A i \in Intents : ledger[i] # "NONE" => ledger'[i] # "NONE"
    BY <2>1, ReconcileJustifies DEF Moved, Typed
  <2>. QED BY <2>1, <2>2 DEF Places, CurInv, ActiveInv, CalmInv, Idle
<1>2. CASE PersistEntry
  <2>1. PICK i \in Intents : ledger[i] = "NONE" /\ Moved(i, "INTENT_CREATED") /\ cur' = i
    BY <1>2 DEF PersistEntry, Fresh
  <2>2. i \notin closes
    BY <2>1 DEF Inv, Evidence, Justifies
  <2>. QED BY <1>2, <2>1, <2>2
           DEF PersistEntry, Moved, Places, CurInv, ActiveInv, CalmInv, Typed
<1>3. CASE PersistClose
  BY <1>3
  DEF PersistClose, Fresh, Moved, Places, CurInv, ActiveInv, CalmInv, Unfinished, Typed
<1>4. CASE PendEntry
  BY <1>4 DEF PendEntry, Moved, Places, CurInv, ActiveInv, CalmInv, Typed
<1>5. CASE MarkSubmitting
  <2>1. order[cur] = "unsent"
    BY <1>5 DEF MarkSubmitting, Inv, Evidence, Justifies, CurInv
  <2>. QED BY <1>5, <2>1 DEF MarkSubmitting, Moved, Places, CurInv, ActiveInv, CalmInv, Typed
<1>6. CASE ReplyMissing
  BY <1>6 DEF ReplyMissing, Moved, Places, CurInv, ActiveInv, CalmInv, RR, Typed
<1>7. CASE ReplyAck
  BY <1>7 DEF ReplyAck, Moved, Places, CurInv, ActiveInv, CalmInv, Typed
<1>8. CASE Confirm
  <2>1. /\ UNCHANGED <<closes, order, cur, active>>
        /\ cur \in Intents /\ order[cur] # "unsent" /\ ledger[cur] = "ACCEPTED"
        /\ Moved(cur, reconcile_intent(cur)) \/ UNCHANGED ledger
    BY <1>8 DEF Confirm, CurInv
  <2>2. ledger'[cur] # "NONE" /\ \A i \in Intents \ {cur} : ledger'[i] = ledger[i]
    BY <2>1, ReconcileJustifies DEF Moved, Typed
  <2>3. \/ pc' \in {"up", "exit", "finalize"}
        \/ pc' = "wait" /\ cur \notin closes
        \/ pc' = "settleEntry" /\ cur \in closes /\ pc = "confirm"
    BY <1>8, Zenon DEF Confirm, Submitted, Raise
  <2>. QED BY <2>1, <2>2, <2>3 DEF Places, CurInv, ActiveInv, CalmInv
<1>9. CASE Lookup
  <2>1. cur \in Intents /\ ledger[cur] \in {"SUBMIT_UNKNOWN", RR} /\ tries < Attempts
        /\ UNCHANGED <<closes, order, cur, active>>
    BY <1>9 DEF Lookup, CurInv
  <2>2. \/ Visible(cur) /\ Moved(cur, "ACCEPTED") /\ pc' = "recheck"
        \/ UNCHANGED <<ledger, tries>> /\ pc' = "relook"
    BY <1>9, Zenon DEF Lookup
  <2>. QED BY <2>1, <2>2 DEF Visible, Moved, Places, CurInv, ActiveInv, CalmInv, Typed
<1>10. CASE Relook
  <2>1. /\ UNCHANGED <<closes, order, cur, active>>
        /\ cur \in Intents /\ ledger[cur] \in {"SUBMIT_UNKNOWN", RR}
    BY <1>10 DEF Relook, CurInv
  <2>2. \/ Moved(cur, RR) /\ pc' = "lookup"
        \/ /\ Moved(cur, reconcile_intent(cur))
           /\ pc' \in {"up", "exit"} \/ (pc' = "wait" /\ cur \notin closes)
        \/ UNCHANGED ledger /\ pc' \in {"up", "finalize"}
    <3>1. reconcile_intent(cur) # "SUBMIT_UNKNOWN"
      BY DEF reconcile_intent, exchange_state, RR
    <3>2. CASE ~CanMove(cur, reconcile_intent(cur))
      BY <1>10, <3>2, Zenon DEF Relook, Raise
    <3>3. CASE CanMove(cur, reconcile_intent(cur)) /\ reconcile_intent(cur) = RR
      BY <1>10, <3>3, Zenon DEF Relook
    <3>4. CASE CanMove(cur, reconcile_intent(cur)) /\ reconcile_intent(cur) # RR
      <4>1. Moved(cur, reconcile_intent(cur)) /\ Submitted("recovered")
        BY <1>10, <3>1, <3>4, Zenon DEF Relook
      <4>2. pc' \in {"up", "exit"} \/ (pc' = "wait" /\ cur \notin closes)
        BY <4>1, SMT DEF Submitted
      <4>. QED BY <4>1, <4>2
    <3>. QED BY <3>2, <3>3, <3>4, Zenon
  <2>3. ledger'[cur] # "NONE" /\ \A i \in Intents \ {cur} : ledger'[i] = ledger[i]
    BY <2>1, <2>2, ReconcileJustifies DEF Moved, Typed, RR
  <2>. QED BY <2>1, <2>2, <2>3 DEF Moved, Places, CurInv, ActiveInv, CalmInv, Typed
<1>11. CASE GiveUp
  <2>1. pc' \in Idle /\ UNCHANGED <<closes, active>>
    BY <1>11, Zenon DEF GiveUp, Flattened, Idle
  <2>2. UNCHANGED ledger \/ Moved(cur, "REJECTED")
    BY <1>11, Zenon DEF GiveUp
  <2>. QED BY <2>1, <2>2 DEF Moved, Idle, Places, CurInv, ActiveInv, CalmInv, Typed
<1>12. CASE SettleEntry
  <2>1. /\ UNCHANGED <<closes, order, cur, active>> /\ pc' = "settleClose"
        /\ cur \in closes /\ cur \in Intents /\ order[cur] # "unsent"
        /\ UNCHANGED ledger \/ Moved(active, "CLOSED")
    BY <1>12 DEF SettleEntry, CurInv
  <2>. QED BY <2>1 DEF Moved, Places, CurInv, ActiveInv, CalmInv, Typed
<1>13. CASE SettleClose
  <2>1. pc' \in Idle /\ UNCHANGED <<closes, active>>
    BY <1>13, Zenon DEF SettleClose, Flattened, Idle
  <2>2. UNCHANGED ledger \/ Moved(cur, "CLOSED")
    BY <1>13, Zenon DEF SettleClose
  <2>. QED BY <2>1, <2>2 DEF Moved, Idle, Places, CurInv, ActiveInv, CalmInv, Typed
<1>. QED BY <1>1, <1>2, <1>3, <1>4, <1>5, <1>6, <1>7, <1>8, <1>9, <1>10, <1>11, <1>12,
            <1>13, Zenon DEF Writes

LEMMA MovingPlaces == ASSUME Inv, Send \/ ExchangeStep \/ UNCHANGED vars PROVE Places'
<1>0. TypeOK /\ CurInv /\ ActiveInv /\ CalmInv /\ Typed
  BY TypeSplit, Zenon DEF Inv
<1>. USE <1>0 DEF Places, CurInv, ActiveInv, CalmInv, Unfinished
<1>1. CASE Send
  BY <1>1 DEF Send, durable, Goto, Typed
<1>2. ASSUME NEW i \in Intents, OrderStep(i) PROVE Places'
  <2>1. PICK s \in OrderStates : /\ <<order[i], s>> \in OrderMoves
                                 /\ order' = [order EXCEPT ![i] = s]
    BY <1>2, OrderStepEffect
  <2>2. UNCHANGED <<ledger, closes>> /\ order[i] # "unsent" /\ s # "unsent"
    BY <1>2, <2>1, OrderStepEffect DEF OrderMoves
  <2>3. UNCHANGED <<pc, cur, active, tries>>
    BY <1>2, Zenon DEF OrderStep, session
  <2>. QED BY <2>1, <2>2, <2>3 DEF Typed
<1>3. CASE ProtectiveExit \/ UNCHANGED vars
  BY <1>3 DEF ProtectiveExit, durable, session, vars
<1>. QED BY <1>1, <1>2, <1>3, Zenon DEF ExchangeStep

LEMMA InvStep == ASSUME Inv, [Next]_vars PROVE Inv'
<1>1. Places'
  BY NextSplit, QuietPlaces, WritesPlaces, MovingPlaces, Zenon
<1>. QED BY <1>1, TypeStep, EvidenceStep, OneOpenStep, Zenon DEF Places, Inv

LEMMA LedgerInvariant == Spec => []Inv
<1>1. Init => Inv
  <2>. SUFFICES ASSUME Init PROVE Inv
    OBVIOUS
  <2>1. Flags
    BY Zenon DEF Init, Flags
  <2>2. Typed
    BY ConstantsAssumption DEF Init, Typed, LedgerStates, OrderStates, Points
  <2>3. Evidence /\ CurInv /\ ActiveInv /\ CalmInv /\ OneOpenEntry
    BY DEF Init, Evidence, Justifies, CurInv, ActiveInv, CalmInv, OneOpenEntry, Unfinished
  <2>. QED BY <2>1, <2>2, <2>3, TypeSplit, Zenon DEF Inv
<1>2. Inv /\ [Next]_vars => Inv'
  BY InvStep
<1>. QED BY <1>1, <1>2, PTL DEF Spec

-----------------------------------------------------------------------------
(* What follows *)

(* Every variable of the ledger, the exchange and the session keeps its     *)
(* type, whatever happens.                                                  *)
THEOREM LedgerTypeCorrect == Spec => []TypeOK
<1>1. Inv => TypeOK
  BY DEF Inv
<1>. QED BY <1>1, LedgerInvariant, PTL

(* No reply, lookup or restart makes the ledger write off an order that the *)
(* exchange still has or may still get: "submit_unknown_proven_absent" is   *)
(* never concluded.                                                         *)
THEOREM WrittenOffIsOver == Spec => []NeverWrittenOff
<1>1. Inv => NeverWrittenOff
  BY DEF Inv, Evidence, Justifies, NeverWrittenOff
<1>. QED BY <1>1, LedgerInvariant, PTL

(* A fill in the ledger is a fill of the exchange. *)
THEOREM LedgerFillsAreReal == Spec => []FillsAreReal
<1>1. Inv => FillsAreReal
  BY DEF Inv, Evidence, Justifies, FillsAreReal, Executed
<1>. QED BY <1>1, LedgerInvariant, PTL

(* Persist before submit, across any crash. *)
THEOREM IntentBeforeOrder == Spec => []PersistedBeforeSent
<1>1. Inv => PersistedBeforeSent
  BY DEF Inv, Evidence, Justifies, PersistedBeforeSent
<1>. QED BY <1>1, LedgerInvariant, PTL

(* One unfinished entry at a time, over any number of sessions. *)
THEOREM SingleOpenEntry == Spec => []OneOpenEntry
<1>1. Inv => OneOpenEntry
  BY DEF Inv
<1>. QED BY <1>1, LedgerInvariant, PTL

(* No entry is sent while the outcome of an earlier one is unknown. *)
THEOREM NoEntryOverUnknown == Spec => UnknownBlocksEntry
<1>1. ASSUME Inv, [Next]_vars,
             NEW i \in Intents \ closes, NEW j \in Intents \ closes,
             order[i] = "unsent", order'[i] = "sent"
      PROVE  order[j] \notin {"sent", "queued", "Created", "New"}
  <2>0. TypeOK /\ Evidence /\ CurInv /\ OneOpenEntry /\ Typed
    BY <1>1, TypeSplit, Zenon DEF Inv
  <2>1. CASE Send
    <3>1. cur = i /\ ledger[i] = "SUBMITTING"
      BY <1>1, <2>0, <2>1 DEF Send, CurInv, Typed
    <3>2. i \in Unfinished \ closes
      BY <3>1 DEF Unfinished, Final
    <3>3. j # i => ledger[j] \in Final \union {"NONE"}
      BY <2>0, <3>2 DEF OneOpenEntry, Unfinished
    <3>4. CASE j = i
      BY <1>1, <3>4
    <3>5. CASE j # i
      BY <2>0, <3>3, <3>5 DEF Evidence, Justifies, Final, Executed
    <3>. QED BY <3>4, <3>5
  <2>2. ASSUME NEW k \in Intents, OrderStep(k) PROVE FALSE
    <3>1. PICK s \in OrderStates : /\ <<order[k], s>> \in OrderMoves
                                   /\ order' = [order EXCEPT ![k] = s]
      BY <2>0, <2>2, OrderStepEffect
    <3>2. s # "sent"
      BY <3>1 DEF OrderMoves
    <3>. QED BY <1>1, <2>0, <3>1, <3>2 DEF Typed
  <2>3. CASE Effect \/ PersistEntry \/ PersistClose
    BY <1>1, <2>3 DEF Effect, PersistEntry, PersistClose, exchange
  <2>. QED BY <1>1, <2>1, <2>2, <2>3, StepEffect
<1>2. Inv /\ [Next]_vars =>
        [\A i, j \in Intents \ closes :
            (order[i] = "unsent" /\ order'[i] = "sent")
               => order[j] \notin {"sent", "queued", "Created", "New"}]_vars
  BY <1>1
<1>. QED BY <1>2, LedgerInvariant, PTL DEF Spec, UnknownBlocksEntry

-----------------------------------------------------------------------------
(* An orphan entry *)

(* The steps that move the row of the intent being submitted. *)
MovesCur == \/ MarkSubmitting \/ ReplyMissing \/ ReplyAck \/ Confirm \/ Lookup
            \/ Relook \/ GiveUp \/ SettleClose

(* No such step is about the orphan, whose own submission is over. *)
LEMMA OthersMoved ==
  ASSUME Inv, NEW i \in Intents, Orphan(i), MovesCur
  PROVE  cur # i /\ ledger'[i] = ledger[i] /\ UNCHANGED <<closes, order>>
<1>0. Typed /\ CurInv
  BY TypeSplit, Zenon DEF Inv
<1>1. cur # i
  BY <1>0 DEF MovesCur, MarkSubmitting, ReplyMissing, ReplyAck, Confirm, Lookup, Relook,
         GiveUp, SettleClose, Orphan, Submitting, CurInv
<1>2. /\ UNCHANGED <<closes, order>>
      /\ ledger' = ledger \/ \E s : Moved(cur, s)
  BY Zenon DEF MovesCur, MarkSubmitting, ReplyMissing, ReplyAck, Confirm, Lookup, Relook,
         GiveUp, SettleClose, exchange
<1>. QED BY <1>0, <1>1, <1>2 DEF Moved, Typed

(* The exchange and the ledger leave the orphan where it is: a filled order  *)
(* stays filled, an order that was not sent is nobody's to send, and what a  *)
(* lookup says of either is not final.                                       *)
LEMMA OrphanKept ==
  ASSUME Inv, [Next]_vars, NEW i \in Intents, Orphan(i)
  PROVE  /\ order'[i] = order[i]
         /\ ledger'[i] \notin Final \union {"NONE"}
         /\ i \notin closes'
<1>0. TypeOK /\ Typed /\ CurInv /\ ActiveInv
  BY TypeSplit, Zenon DEF Inv
<1>1. /\ order[i] \in {"unsent", "Filled"} /\ ledger[i] \notin Final \union {"NONE"}
      /\ i \notin closes /\ active # i
  BY DEF Orphan, Unfinished
<1>2. CASE Quiet \/ UNCHANGED vars \/ ProtectiveExit
  <2>1. UNCHANGED <<ledger, closes, order>>
    BY <1>2, QuietEffect, Zenon
    DEF vars, ProtectiveExit, durable, exchange, Quiet, Boot, Start, StartupDone,
        StartupFails, TimeUp, TryEntry, CheckOrders, NoEntry, PositionGone, ForceFlat,
        LeaveLoop, RecordExit, Finalize, CloseFallback, WaitFill, CallFails, Crash
  <2>. QED BY <1>1, <2>1
<1>3. CASE MovesCur
  BY <1>1, <1>3, OthersMoved
<1>4. CASE StartupReconcile
  <2>1. PICK j \in todo : ledger' = ledger \/ Moved(j, reconcile_intent(j))
    BY <1>4, Zenon DEF StartupReconcile
  <2>2. reconcile_intent(i) \in {"FILLED", RR}
    BY <1>1 DEF reconcile_intent, exchange_state, Visible
  <2>3. UNCHANGED <<closes, order>>
    BY <1>4 DEF StartupReconcile, exchange
  <2>. QED BY <1>0, <1>1, <2>1, <2>2, <2>3 DEF Moved, Typed, Final, RR
<1>5. CASE PersistEntry \/ PersistClose
  BY <1>0, <1>1, <1>5 DEF PersistEntry, PersistClose, Fresh, Moved, exchange, Typed
<1>6. CASE PendEntry \/ SettleEntry
  BY <1>0, <1>1, <1>6 DEF PendEntry, SettleEntry, Moved, exchange, Typed
<1>7. CASE Send
  <2>1. cur # i
    BY <1>7 DEF Send, Orphan, Submitting
  <2>. QED BY <1>0, <1>1, <1>7, <2>1 DEF Send, durable, Typed
<1>8. ASSUME NEW j \in Intents, OrderStep(j)
      PROVE  order'[i] = order[i] /\ UNCHANGED <<ledger, closes>>
  <2>1. PICK s \in OrderStates : /\ <<order[j], s>> \in OrderMoves
                                 /\ order' = [order EXCEPT ![j] = s]
    BY <1>0, <1>8, OrderStepEffect
  <2>2. order[j] \notin {"unsent", "Filled"}
    BY <2>1 DEF OrderMoves
  <2>. QED BY <1>0, <1>1, <1>8, <2>1, <2>2, OrderStepEffect DEF Typed
<1>. QED BY <1>1, <1>2, <1>3, <1>4, <1>5, <1>6, <1>7, <1>8, NextSplit, Zenon
         DEF Writes, MovesCur, ExchangeStep

(* No session comes to look after the orphan. *)
LEMMA OrphanAlone ==
  ASSUME Inv, [Next]_vars, NEW i \in Intents, Orphan(i)
  PROVE  active' # i /\ (pc' \in Submitting => cur' # i)
<1>0. Typed /\ CurInv
  BY TypeSplit, Zenon DEF Inv
<1>1. /\ active # i /\ (pc \in Submitting => cur # i)
      /\ ledger[i] # "NONE" /\ i \notin closes /\ i # 0
  BY DEF Orphan, Unfinished, Intents
<1>. USE DEF Submitting, Goto
<1>2. CASE Quiet
  <2>1. CASE WaitFill
    BY <1>1, <2>1 DEF WaitFill
  <2>2. CASE Start \/ CheckOrders \/ RecordExit
    BY <1>0, <1>1, <2>2 DEF Start, CheckOrders, RecordExit, Typed
  <2>3. CASE TimeUp
    BY <1>1, <2>3 DEF TimeUp
  <2>4. CASE Crash
    BY <1>0, <1>1, <2>4 DEF Crash
  <2>5. CASE Boot \/ StartupDone \/ StartupFails \/ TryEntry \/ NoEntry \/ PositionGone
             \/ ForceFlat \/ LeaveLoop \/ Finalize \/ CloseFallback \/ CallFails
    <3>1. pc' \notin Submitting /\ active' = active
      BY <2>5, Zenon DEF Boot, StartupDone, StartupFails, TryEntry, NoEntry, PositionGone,
             ForceFlat, LeaveLoop, Finalize, CloseFallback, CallFails, Raise, Leave,
             Flattened
    <3>. QED BY <1>1, <3>1
  <2>. QED BY <1>2, <2>1, <2>2, <2>3, <2>4, <2>5, Zenon DEF Quiet
<1>3. CASE MovesCur
  <2>1. cur' = cur /\ active' = active
    BY <1>3, Zenon DEF MovesCur, MarkSubmitting, ReplyMissing, ReplyAck, Confirm, Lookup,
           Relook, GiveUp, SettleClose
  <2>. QED BY <1>1, <1>3, <2>1, OthersMoved
<1>4. CASE StartupReconcile
  BY <1>1, <1>4 DEF StartupReconcile, Leave
<1>5. CASE PersistEntry \/ PersistClose
  BY <1>1, <1>5 DEF PersistEntry, PersistClose, Fresh
<1>6. CASE PendEntry
  BY <1>0, <1>1, <1>6 DEF PendEntry, CurInv
<1>7. CASE SettleEntry
  BY <1>1, <1>7 DEF SettleEntry
<1>8. CASE Send \/ ExchangeStep \/ UNCHANGED vars
  <2>1. CASE Send
    BY <1>1, <2>1 DEF Send
  <2>2. CASE ExchangeStep \/ UNCHANGED vars
    <3>1. UNCHANGED <<pc, cur, active>>
      BY <2>2, Zenon DEF ExchangeStep, ProtectiveExit, OrderStep, session, vars
    <3>. QED BY <1>1, <3>1
  <2>. QED BY <1>8, <2>1, <2>2
<1>. QED BY <1>2, <1>3, <1>4, <1>5, <1>6, <1>7, <1>8, NextSplit, Zenon
         DEF Writes, MovesCur

(* No entry is recorded beside it: _try_entry finds it unfinished. *)
LEMMA OrphanOnly ==
  ASSUME Inv, [Next]_vars, NEW i \in Intents, Orphan(i)
  PROVE  Entries' = Entries
<1>0. Typed /\ CalmInv /\ Evidence
  BY TypeSplit, Zenon DEF Inv
<1>. USE DEF Entries
<1>1. CASE Effect
  <2>1. CASE UNCHANGED ledger
    BY <1>1, <2>1 DEF Effect
  <2>2. ASSUME NEW j \in Intents, NEW s \in Sent, Advances(j, s)
        PROVE  Entries' = Entries
    BY <1>0, <1>1, <2>2 DEF Effect, Advances, Sent, Moved, Typed
  <2>. QED BY <1>1, <2>1, <2>2 DEF Effect
<1>2. ~PersistEntry
  BY <1>0 DEF PersistEntry, CalmInv, Orphan
<1>3. CASE PersistClose
  BY <1>0, <1>3 DEF PersistClose, Fresh, Moved, Typed
<1>4. CASE Send \/ \E j \in Intents : OrderStep(j)
  <2>1. UNCHANGED <<ledger, closes>>
    BY <1>4, Zenon DEF Send, OrderStep, durable
  <2>. QED BY <2>1
<1>. QED BY <1>1, <1>2, <1>3, <1>4, StepEffect

(* A trade that ended on the exchange, or that a restart found open, or an   *)
(* intent whose process died before it sent the order, holds its entry in    *)
(* the ledger for ever, and every later session is refused its entries: the  *)
(* single-open-entry promise is kept by never trading again.                 *)
THEOREM OrphanHoldsLedger == Spec => OrphanBlocksEntries
<1>1. ASSUME Inv, [Next]_vars, NEW i \in Intents, Orphan(i)
      PROVE  Orphan(i)' /\ Entries' = Entries
  BY <1>1, OrphanKept, OrphanAlone, OrphanOnly DEF Orphan, Unfinished
<1>2. Inv /\ [Next]_vars =>
        [\A i \in Intents : Orphan(i) => Orphan(i)' /\ Entries' = Entries]_vars
  BY <1>1
<1>. QED BY <1>2, LedgerInvariant, PTL DEF Spec, OrphanBlocksEntries

-----------------------------------------------------------------------------
(* The trade a session leaves behind *)

(* Where the session goes on, and what it means that a trade is on record. *)
LeftInv ==
    /\ pc \notin {"down", "up"} => stores
    /\ active # 0 => stores /\ pc \notin {"down", "startup"}
    /\ active # 0 /\ (ret = "up" \/ pc \in {"up", "finalize"}) => kill
    /\ pc = "finalize" => ret = "up"
    /\ pc \in {"startup", "loop", "orders", "persistEntry"} => ret = "loop"
    /\ pc \in Submitting /\ cur \notin closes => ret = "loop"

(* An exception engages the kill switch, unless nothing is left to finalize. *)
LEMMA RaiseLeft ==
  ASSUME Typed, LeftInv, pc \notin {"down", "up"}, Raise, UNCHANGED <<active, stores, closes>>
  PROVE  LeftInv'
<1>1. ret' = "up" /\ (ret # "up" => kill') /\ (kill => kill')
  BY Zenon DEF Raise
<1>2. pc' \in {"up", "finalize"}
  BY Zenon DEF Raise, Goto
<1>. QED BY <1>1, <1>2 DEF LeftInv, Submitting

LEMMA LeftQuiet == ASSUME Inv, LeftInv, Quiet PROVE LeftInv'
<1>0. Typed /\ CurInv /\ ActiveInv
  BY TypeSplit, Zenon DEF Inv
<1>. USE <1>0 DEF durable, exchange, Goto
<1>1. CASE Boot \/ Crash
  BY <1>1 DEF Boot, Crash, LeftInv, Submitting
<1>2. CASE Start
  <2>1. CASE stores
    <3>1. pc' = IF kill THEN "up" ELSE "loop"
      BY <1>2, <2>1, Zenon DEF Start
    <3>. QED BY <1>2, <2>1, <3>1 DEF Start, LeftInv, Submitting
  <2>2. CASE ~stores
    <3>1. pc' = "startup" /\ stores' /\ ret' = "loop" /\ UNCHANGED <<active, kill, closes>>
      BY <1>2, <2>2, Zenon DEF Start
    <3>. QED BY <2>2, <3>1 DEF LeftInv, Submitting
  <2>. QED BY <2>1, <2>2
<1>3. CASE StartupDone \/ StartupFails
  <2>1. /\ pc = "startup" /\ pc' \in {"up", "loop"}
        /\ UNCHANGED <<active, ret, stores, kill, closes>>
    BY <1>3, Zenon DEF StartupDone, StartupFails, Leave
  <2>. QED BY <2>1 DEF LeftInv, Submitting
<1>4. CASE TimeUp
  <2>1. UNCHANGED <<pc, active, ret, stores, closes, cur>>
    BY <1>4, Zenon DEF TimeUp
  <2>2. kill => kill'
    BY <1>4, Zenon DEF TimeUp
  <2>. QED BY <2>1, <2>2 DEF LeftInv
<1>5. CASE TryEntry \/ CheckOrders
  <2>1. /\ pc \in {"loop", "orders"} /\ pc' \in {"loop", "orders", "persistEntry"}
        /\ UNCHANGED <<active, ret, stores, closes, cur>>
    BY <1>5, Zenon DEF TryEntry, CheckOrders
  <2>2. kill => kill'
    BY <1>5, Zenon DEF TryEntry, CheckOrders
  <2>. QED BY <2>1, <2>2 DEF LeftInv, Submitting
<1>6. CASE NoEntry \/ PositionGone
  <2>1. /\ pc \in {"loop", "persistEntry", "mark"} /\ (pc = "mark" => cur \notin closes)
        /\ pc' \in {"loop", "exit"} /\ (pc = "loop" => pc' = "exit")
        /\ UNCHANGED <<active, ret, stores, kill>>
    BY <1>6 DEF NoEntry, PositionGone
  <2>. QED BY <2>1 DEF LeftInv, Submitting
<1>13. CASE ForceFlat
  <2>1. /\ pc = "loop" /\ pc' = "persistClose"
        /\ UNCHANGED <<active, ret, stores>>
    BY <1>13 DEF ForceFlat
  <2>2. kill => kill'
    BY <1>13, Zenon DEF ForceFlat
  <2>. QED BY <2>1, <2>2 DEF LeftInv, Submitting
<1>7. CASE LeaveLoop
  <2>1. CASE active = 0
    <3>1. pc = "loop" /\ pc' = "finalize" /\ ret' = "up" /\ UNCHANGED <<active, stores, kill>>
      BY <1>7, <2>1, Zenon DEF LeaveLoop
    <3>. QED BY <2>1, <3>1 DEF LeftInv, Submitting
  <2>2. CASE active # 0
    <3>1. /\ pc = "loop" /\ pc' = "persistClose" /\ ret' = "finalize"
          /\ UNCHANGED <<active, stores, kill>>
      BY <1>7, <2>2, Zenon DEF LeaveLoop
    <3>. QED BY <2>2, <3>1 DEF LeftInv, Submitting
  <2>. QED BY <2>1, <2>2
<1>8. CASE RecordExit
  <2>1. /\ pc = "exit" /\ active' = 0 /\ pc' = ret
        /\ ret' = IF ret = "finalize" THEN "up" ELSE ret
        /\ UNCHANGED <<stores, closes, cur>>
    BY <1>8 DEF RecordExit
  <2>2. ret \in {"loop", "finalize", "up"}
    BY DEF Typed
  <2>. QED BY <2>1, <2>2 DEF LeftInv, Submitting
<1>9. CASE Finalize
  <2>1. /\ pc = "finalize" /\ pc' \in {"persistClose", "up"}
        /\ UNCHANGED <<active, ret, stores, kill>>
    BY <1>9, Zenon DEF Finalize
  <2>. QED BY <2>1 DEF LeftInv, Submitting
<1>10. CASE CloseFallback
  <2>1. /\ pc \notin {"down", "up"} /\ pc' = IF ret = "up" THEN "up" ELSE "exit"
        /\ UNCHANGED <<active, ret, stores, kill>>
    BY <1>10, Zenon DEF CloseFallback, Flattened
  <2>. QED BY <2>1 DEF LeftInv, Submitting
<1>11. CASE WaitFill
  <2>1. /\ pc = "wait" /\ pc' = "loop" /\ cur \notin closes
        /\ UNCHANGED <<ret, stores>> /\ (kill => kill')
    BY <1>11, Zenon DEF WaitFill, CurInv
  <2>. QED BY <2>1 DEF LeftInv, Submitting
<1>12. CASE CallFails
  <2>1. pc \notin {"down", "up"} /\ Raise /\ UNCHANGED <<active, stores, closes>>
    BY <1>12 DEF CallFails
  <2>. QED BY <2>1, RaiseLeft
<1>. QED BY <1>1, <1>2, <1>3, <1>4, <1>5, <1>6, <1>7, <1>8, <1>9, <1>10, <1>11, <1>12, <1>13,
            Zenon DEF Quiet

LEMMA LeftOther ==
  ASSUME Inv, LeftInv, Writes \/ Send \/ ExchangeStep \/ UNCHANGED vars
  PROVE  LeftInv'
<1>0. Typed /\ CurInv /\ ActiveInv
  BY TypeSplit, Zenon DEF Inv
<1>. USE <1>0 DEF exchange, Goto
<1>1. CASE StartupReconcile
  <2>1. /\ pc = "startup" /\ pc' \in {"startup", "up"}
        /\ UNCHANGED <<active, ret, stores, kill>>
    BY <1>1, Zenon DEF StartupReconcile, Leave
  <2>. QED BY <2>1 DEF LeftInv, Submitting
<1>2. CASE PersistEntry
  BY <1>2 DEF PersistEntry, LeftInv, Submitting
<1>3. CASE PersistClose
  BY <1>3 DEF PersistClose, LeftInv, Submitting
<1>4. CASE PendEntry
  BY <1>4 DEF PendEntry, LeftInv, Submitting, CurInv
<1>5. CASE Confirm \/ Relook
  <2>1. /\ pc \in {"confirm", "recheck", "relook"}
        /\ UNCHANGED <<active, stores, closes, cur>>
        /\ \/ Raise
           \/ UNCHANGED <<ret, kill>> /\ (pc' = "lookup" \/ \E n : Submitted(n))
    BY <1>5, Zenon DEF Confirm, Relook
  <2>2. CASE Raise
    BY <2>1, <2>2, RaiseLeft
  <2>3. CASE UNCHANGED <<ret, kill>> /\ pc' = "lookup"
    BY <2>1, <2>3 DEF LeftInv, Submitting
  <2>4. ASSUME UNCHANGED <<ret, kill>>, NEW n, Submitted(n) PROVE LeftInv'
    <3>1. \/ pc' = "wait"
          \/ cur \in closes /\ pc' = "settleEntry"
          \/ cur \in closes /\ pc' = IF ret = "up" THEN "up" ELSE "exit"
      BY <2>4, Zenon DEF Submitted
    <3>. QED BY <2>1, <2>4, <3>1 DEF LeftInv, Submitting
  <2>. QED BY <2>1, <2>2, <2>3, <2>4
<1>6. CASE GiveUp
  <2>1. /\ pc = "lookup" /\ UNCHANGED <<active, ret, stores, kill, closes, cur>>
        /\ \/ cur \in closes /\ pc' = IF ret = "up" THEN "up" ELSE "exit"
           \/ cur \notin closes /\ pc' = "loop"
    BY <1>6, Zenon DEF GiveUp, Flattened
  <2>. QED BY <2>1 DEF LeftInv, Submitting
<1>7. CASE SettleClose
  <2>1. /\ pc = "settleClose" /\ UNCHANGED <<active, ret, stores, kill>>
        /\ pc' = IF ret = "up" THEN "up" ELSE "exit"
    BY <1>7, Zenon DEF SettleClose, Flattened
  <2>. QED BY <2>1 DEF LeftInv, Submitting
<1>8. CASE MarkSubmitting \/ ReplyMissing \/ ReplyAck \/ Lookup \/ SettleEntry \/ Send
  <2>1. /\ pc \in Submitting \union {"settleEntry"}
        /\ pc' \in Submitting \union {"settleClose"}
        /\ pc = "settleEntry" <=> pc' = "settleClose"
        /\ UNCHANGED <<active, ret, stores, kill, closes, cur>>
    BY <1>8 DEF MarkSubmitting, ReplyMissing, ReplyAck, Lookup, SettleEntry, Send,
           durable, Submitting
  <2>. QED BY <2>1 DEF LeftInv, Submitting
<1>9. CASE ExchangeStep \/ UNCHANGED vars
  <2>1. UNCHANGED <<pc, active, ret, stores, kill, closes, cur>>
    BY <1>9, Zenon DEF ExchangeStep, ProtectiveExit, OrderStep, durable, session, vars
  <2>. QED BY <2>1 DEF LeftInv
<1>. QED BY <1>1, <1>2, <1>3, <1>4, <1>5, <1>6, <1>7, <1>8, <1>9, Zenon DEF Writes

(* No session of a process starts beside the trade an earlier one left. *)
THEOREM NoStartBesideTrade == Spec => []LeftTradeBlocksStart
<1>1. Init => LeftInv
  BY DEF Init, LeftInv, Submitting
<1>2. Inv /\ LeftInv /\ [Next]_vars => LeftInv'
  BY NextSplit, LeftQuiet, LeftOther, Zenon
<1>3. LeftInv => LeftTradeBlocksStart
  BY DEF LeftInv, LeftTradeBlocksStart
<1>. QED BY <1>1, <1>2, <1>3, LedgerInvariant, PTL DEF Spec

-----------------------------------------------------------------------------
(* The intents a start cannot take up *)

(* What a death leaves in the ledger beside an order that went on: the process *)
(* died between sending and recording the reply, its acknowledged or unknown   *)
(* order was cancelled, or its entry was being closed.                         *)
Refusals ==
    UNION {{"SUBMITTING"} \X {"New", "PartiallyFilled", "Filled", "Cancelled"},
           {"SUBMIT_UNKNOWN", "ACCEPTED"} \X {"Cancelled"},
           {"CLOSE_PENDING"} \X {"Filled", "Cancelled"}}

(* Only unfinished intents are looked up. *)
TodoInv == /\ todo \subseteq Unfinished
           /\ pc # "startup" => todo = {}

LEMMA TodoStep == ASSUME Inv, TodoInv, [Next]_vars PROVE TodoInv'
<1>0. Typed
  BY TypeSplit, Zenon DEF Inv
<1>. USE DEF TodoInv, Goto
<1>1. CASE Start \/ StartupDone \/ StartupFails \/ Crash
  BY <1>1 DEF Start, StartupDone, StartupFails, Crash, Leave, Unfinished, durable
<1>2. CASE StartupReconcile
  <2>1. PICK i \in todo :
          \/ /\ ledger' = [ledger EXCEPT ![i] = reconcile_intent(i)]
             /\ todo' = todo \ {i} /\ pc' = pc
          \/ Leave /\ ledger' = ledger
    BY <1>2, Zenon DEF StartupReconcile, Moved
  <2>. QED BY <1>0, <1>2, <2>1 DEF StartupReconcile, Leave, Typed, Unfinished
<1>3. CASE ExchangeStep \/ UNCHANGED vars
  <2>1. UNCHANGED <<pc, todo, ledger>>
    BY <1>3, Zenon DEF ExchangeStep, ProtectiveExit, OrderStep, durable, session, vars
  <2>. QED BY <2>1 DEF Unfinished
<1>4. CASE TimeUp
  BY <1>4 DEF TimeUp, durable, Unfinished
<1>5. ASSUME Quiet \/ Writes \/ Send,
             ~Start, ~StartupDone, ~StartupFails, ~Crash, ~StartupReconcile, ~TimeUp
      PROVE  pc # "startup" /\ pc' # "startup" /\ todo' = todo
  <2>1. CASE Quiet
    BY <1>0, <1>5, <2>1 DEF Quiet, Boot, TryEntry, CheckOrders, NoEntry, PositionGone, ForceFlat,
           LeaveLoop, RecordExit, Finalize, CloseFallback, WaitFill, CallFails, Raise,
           Flattened, Typed
  <2>2. CASE Writes \/ Send
    BY <1>0, <1>5, <2>2 DEF Writes, Send, PersistEntry, PersistClose, PendEntry, MarkSubmitting,
           ReplyMissing, ReplyAck, Confirm, Lookup, Relook, GiveUp, SettleEntry,
           SettleClose, Raise, Flattened, Submitted
  <2>. QED BY <1>5, <2>1, <2>2
<1>6. CASE /\ Quiet \/ Writes \/ Send
           /\ ~(Start \/ StartupDone \/ StartupFails \/ Crash) /\ ~StartupReconcile
           /\ ~TimeUp
  <2>1. pc # "startup" /\ pc' # "startup" /\ todo' = todo
    BY <1>5, <1>6, Zenon
  <2>. QED BY <2>1
<1>. QED BY <1>1, <1>2, <1>3, <1>4, <1>6, NextSplit, Zenon

(* Of an unfinished intent, whatever happened, the table refuses exactly the *)
(* answers of Refusals.                                                      *)
LEMMA RefusedAnswers ==
  ASSUME TypeOK, Evidence, NEW i \in Unfinished
  PROVE  Visible(i) /\ ~CanMove(i, reconcile_intent(i))
            <=> <<ledger[i], order[i]>> \in Refusals
<1>0. i \in Intents /\ ledger[i] \in LedgerStates \ (Final \union {"NONE"})
      /\ order[i] \in OrderStates /\ Justifies(i, ledger[i])
  BY DEF TypeOK, Unfinished, Evidence
<1>1. Visible(i) => reconcile_intent(i) = exchange_state(i)
  BY DEF reconcile_intent
<1>. USE <1>0, <1>1
     DEF Visible, exchange_state, CanMove, AllowedTransitions, Refusals, RR, Final,
         Justifies, Executed, OrderStates
<1>2. CASE ledger[i] \in {"INTENT_CREATED", "SUBMITTING"}
  BY <1>2
<1>3. CASE ledger[i] \in {"SUBMIT_UNKNOWN", "ACCEPTED"}
  BY <1>3
<1>4. CASE ledger[i] \in {"NEW", RR}
  BY <1>4
<1>5. CASE ledger[i] \in {"PARTIALLY_FILLED", "FILLED", "CLOSE_PENDING"}
  BY <1>5
<1>. QED BY <1>2, <1>3, <1>4, <1>5 DEF LedgerStates

(* A start can take up everything the last process left, save exactly the  *)
(* intents of Refusals: one of them makes reconcile_intent raise and the   *)
(* start fail, whatever happened before and however many intents there are. *)
THEOREM WhenStartFails ==
  Spec => [](RestartRecovers <=>
               (pc = "startup" =>
                  \A i \in todo : <<ledger[i], order[i]>> \notin Refusals))
<1>1. Init => TodoInv
  BY DEF Init, TodoInv
<1>2. Inv /\ TodoInv /\ [Next]_vars => TodoInv'
  BY TodoStep
<1>3. Inv /\ TodoInv =>
        (RestartRecovers <=>
           (pc = "startup" => \A i \in todo : <<ledger[i], order[i]>> \notin Refusals))
  BY RefusedAnswers DEF Inv, TodoInv, RestartRecovers
<1>. QED BY <1>1, <1>2, <1>3, LedgerInvariant, PTL DEF Spec

-----------------------------------------------------------------------------
(* What closes an entry *)

(* The exchange has the order of c: a request that was taken, not a fill. *)
Acknowledged(c) == order[c] \notin {"unsent", "sent"}

(* The session speaks of an acknowledgement only after one. *)
AckInv == pc \in {"confirm", "settleEntry"} => Acknowledged(cur)

(* CLOSED is written to the supervised entry, executed before, by a session  *)
(* whose close of it was acknowledged.                                       *)
ClosedByAck(i) == /\ i = active
                  /\ order[i] \in Executed
                  /\ cur \in closes /\ Acknowledged(cur)

LEMMA AckStep == ASSUME Inv, AckInv, [Next]_vars PROVE AckInv'
<1>0. Typed /\ CurInv
  BY TypeSplit, Zenon DEF Inv
<1>. USE DEF AckInv, Acknowledged, Goto
<1>1. CASE ReplyAck \/ Confirm
  BY <1>0, <1>1 DEF ReplyAck, Confirm, CurInv, exchange, Raise, Submitted, Typed
<1>2. CASE TimeUp \/ ProtectiveExit \/ UNCHANGED vars
  BY <1>2, Zenon DEF TimeUp, ProtectiveExit, session, exchange, vars
<1>3. ASSUME NEW i \in Intents, OrderStep(i) PROVE AckInv'
  <2>1. PICK s \in OrderStates : /\ <<order[i], s>> \in OrderMoves
                                 /\ order' = [order EXCEPT ![i] = s]
    BY <1>3, OrderStepEffect DEF Inv
  <2>2. s \notin {"unsent", "sent"}
    BY <2>1 DEF OrderMoves
  <2>3. UNCHANGED <<pc, cur>>
    BY <1>3, Zenon DEF OrderStep, session
  <2>. QED BY <1>0, <2>1, <2>2, <2>3 DEF CurInv, Typed
<1>4. CASE Quiet /\ ~TimeUp
  BY <1>0, <1>4 DEF Quiet, Boot, Start, StartupDone, StartupFails, TryEntry, CheckOrders,
         NoEntry, PositionGone, ForceFlat, LeaveLoop, RecordExit, Finalize, CloseFallback,
         WaitFill, CallFails, Crash, Leave, Raise, Flattened, Typed
<1>5. CASE Send \/ (Writes /\ ~ReplyAck /\ ~Confirm)
  BY <1>0, <1>5 DEF Send, Writes, StartupReconcile, PersistEntry, PersistClose, PendEntry,
         MarkSubmitting, ReplyMissing, Lookup, Relook, GiveUp, SettleEntry, SettleClose,
         Leave, Raise, Flattened, Submitted, Typed
<1>. QED BY <1>1, <1>2, <1>3, <1>4, <1>5, NextSplit, Zenon DEF ExchangeStep

LEMMA ClosedStep ==
  ASSUME Inv, AckInv, [Next]_vars, NEW i \in Intents \ closes,
         ledger[i] # "CLOSED", ledger'[i] = "CLOSED"
  PROVE  ClosedByAck(i)
<1>0. TypeOK /\ Typed /\ CurInv /\ ActiveInv /\ Evidence
  BY TypeSplit, Zenon DEF Inv
<1>1. \A j \in Intents : reconcile_intent(j) # "CLOSED"
  BY DEF reconcile_intent, exchange_state, RR
<1>2. ASSUME NEW j, NEW s, s # "CLOSED", Moved(j, s) PROVE FALSE
  BY <1>0, <1>2 DEF Moved, Typed
<1>3. CASE SettleEntry
  <2>1. i = active /\ ledger[i] = "CLOSE_PENDING"
    BY <1>0, <1>3 DEF SettleEntry, Moved, ActiveInv, Typed
  <2>. QED BY <1>0, <1>3, <2>1
           DEF SettleEntry, ClosedByAck, AckInv, CurInv, Evidence, Justifies
<1>4. CASE SettleClose
  BY <1>0, <1>4 DEF SettleClose, Moved, CurInv, Typed
<1>5. CASE StartupReconcile
  <2>1. \E j \in todo : ledger' = ledger \/ Moved(j, reconcile_intent(j))
    BY <1>5, Zenon DEF StartupReconcile
  <2>. QED BY <1>0, <1>1, <1>2, <2>1 DEF Typed
<1>6. CASE Confirm \/ Relook
  <2>1. cur \in Intents /\ (ledger' = ledger \/ Moved(cur, reconcile_intent(cur)))
    BY <1>0, <1>6 DEF Confirm, Relook, CurInv
  <2>. QED BY <1>1, <1>2, <2>1
<1>7. CASE \/ PersistEntry \/ PersistClose \/ PendEntry \/ MarkSubmitting
           \/ ReplyMissing \/ ReplyAck \/ Lookup \/ GiveUp
  <2>1. \/ ledger' = ledger
        \/ \E j, s : s # "CLOSED" /\ Moved(j, s)
    BY <1>7 DEF PersistEntry, PersistClose, PendEntry, MarkSubmitting, ReplyMissing,
           ReplyAck, Lookup, GiveUp
  <2>. QED BY <1>2, <2>1
<1>8. CASE Quiet \/ Send \/ ExchangeStep \/ UNCHANGED vars
  <2>1. ledger' = ledger
    BY <1>8, QuietEffect, Zenon
    DEF Quiet, Boot, Start, StartupDone, StartupFails, TimeUp, TryEntry, CheckOrders,
        NoEntry, PositionGone, ForceFlat, LeaveLoop, RecordExit, Finalize,
        CloseFallback, WaitFill, CallFails, Crash, Send, ExchangeStep, ProtectiveExit,
        OrderStep, durable, vars
  <2>. QED BY <2>1
<1>. QED BY <1>3, <1>4, <1>5, <1>6, <1>7, <1>8, NextSplit, Zenon DEF Writes

(* No entry becomes CLOSED by a lookup, a restart or a lost reply: only the  *)
(* session that closes it says so, and only after the exchange took the      *)
(* close.  That the close has filled is what it does not say.                *)
THEOREM EntryClosedByAck ==
  Spec => [][\A i \in Intents \ closes :
               (ledger[i] # "CLOSED" /\ ledger'[i] = "CLOSED") => ClosedByAck(i)]_vars
<1>1. Init => AckInv
  BY DEF Init, AckInv
<1>2. Inv /\ AckInv /\ [Next]_vars => AckInv'
  BY AckStep
<1>3. Inv /\ AckInv /\ [Next]_vars
        => [\A i \in Intents \ closes :
              (ledger[i] # "CLOSED" /\ ledger'[i] = "CLOSED") => ClosedByAck(i)]_vars
  BY ClosedStep
<1>. QED BY <1>1, <1>2, <1>3, LedgerInvariant, PTL DEF Spec

=============================================================================
