----------------------- MODULE OrderLedgerRefinement -----------------------
(***************************************************************************)
(* The order ledger implements SubmitOnce for every number of intents: a   *)
(* step of the session, of the exchange or of fate is a step of SubmitOnce *)
(* or is invisible to it.                                                  *)
(***************************************************************************)
EXTENDS OrderLedgerProofs

Step == Once!SNext \/ UNCHANGED <<RecordOf, closes, WireOf>>

(* The mapping as facts about one row. *)
LEMMA RecordAt ==
  ASSUME NEW i \in Intents
  PROVE  /\ RecordOf[i] = "none" <=> ledger[i] = "NONE"
         /\ RecordOf[i] = "recorded" <=> ledger[i] = "INTENT_CREATED"
         /\ RecordOf[i] = "retired" <=> ledger[i] \in Final
         /\ RecordOf[i] = "committed" <=>
               ledger[i] \notin Final \union {"NONE", "INTENT_CREATED"}
BY DEF RecordOf, Final

LEMMA WireAt ==
  ASSUME NEW i \in Intents
  PROVE  /\ WireOf[i] = "unsent" <=> order[i] = "unsent"
         /\ WireOf[i] = "flying" <=> order[i] \in {"sent", "queued", "Created", "New"}
         /\ WireOf[i] = "filling" <=> order[i] = "PartiallyFilled"
BY DEF WireOf

(* A write of the ledger commits an intent, retires one, or is invisible. *)
LEMMA AdvanceImplements ==
  ASSUME Inv, Effect
  PROVE  Step
<1>0. Typed
  BY TypeSplit, Zenon DEF Inv
<1>1. WireOf' = WireOf /\ closes' = closes
  BY DEF Effect, WireOf
<1>2. CASE UNCHANGED ledger
  BY <1>1, <1>2 DEF RecordOf, Step
<1>3. ASSUME NEW i \in Intents, NEW s \in Sent, Advances(i, s)
      PROVE  Step
  <2>1. ledger' = [ledger EXCEPT ![i] = s] /\ ledger[i] \notin Final \union {"NONE"}
    BY <1>3 DEF Advances, Moved
  <2>2. CASE s \in Final
    <3>1. RecordOf' = [RecordOf EXCEPT ![i] = "retired"]
      BY <1>0, <2>1, <2>2 DEF RecordOf, Typed, Final
    <3>2. WireOf[i] # "unsent" /\ (i \in closes \/ WireOf[i] # "flying")
      BY <1>3, <2>2, WireAt DEF Advances, Justifies, Final, Executed
    <3>3. CASE ledger[i] = "INTENT_CREATED"
      BY <2>2, <3>2, <3>3, WireAt DEF Inv, Evidence, Justifies
    <3>4. CASE ledger[i] # "INTENT_CREATED"
      <4>1. RecordOf[i] = "committed"
        BY <2>1, <3>4, RecordAt
      <4>. QED BY <1>1, <3>1, <3>2, <4>1 DEF Step, Once!SNext, Once!Retire
    <3>. QED BY <3>3, <3>4
  <2>3. CASE s \notin Final
    <3>1. RecordOf' = [RecordOf EXCEPT ![i] = "committed"]
      BY <1>0, <2>1, <2>3 DEF RecordOf, Typed, Sent, LedgerStates
    <3>2. CASE ledger[i] = "INTENT_CREATED"
      <4>1. RecordOf[i] = "recorded"
        BY <3>2, RecordAt
      <4>. QED BY <1>1, <3>1, <4>1 DEF Step, Once!SNext, Once!Commit
    <3>3. CASE ledger[i] # "INTENT_CREATED"
      <4>1. RecordOf[i] = "committed"
        BY <2>1, <3>3, RecordAt
      <4>2. RecordOf' = RecordOf
        BY <3>1, <4>1 DEF RecordOf
      <4>. QED BY <1>1, <4>2 DEF Step
    <3>. QED BY <3>2, <3>3
  <2>. QED BY <2>2, <2>3
<1>. QED BY <1>2, <1>3 DEF Effect

(* A new row is recorded; an entry finds no other entry open. *)
LEMMA PersistImplements ==
  ASSUME Inv, PersistEntry \/ PersistClose
  PROVE  Step
<1>0. Typed /\ CalmInv
  BY TypeSplit, Zenon DEF Inv
<1>1. PICK i \in Intents :
        /\ ledger[i] = "NONE"
        /\ ledger' = [ledger EXCEPT ![i] = "INTENT_CREATED"]
        /\ (closes' = closes /\ PersistEntry) \/ closes' = closes \union {i}
  BY DEF PersistEntry, PersistClose, Fresh, Moved
<1>2. RecordOf' = [RecordOf EXCEPT ![i] = "recorded"]
  BY <1>0, <1>1 DEF RecordOf, Typed, Final
<1>3. RecordOf[i] = "none"
  BY <1>1, RecordAt
<1>4. WireOf' = WireOf
  BY DEF PersistEntry, PersistClose, exchange, WireOf
<1>5. PersistEntry => Once!OpenEntries = {}
  BY <1>0, RecordAt DEF PersistEntry, CalmInv, Unfinished, Once!OpenEntries, Final
<1>. QED BY <1>1, <1>2, <1>3, <1>4, <1>5 DEF Step, Once!SNext, Once!Record

LEMMA SendImplements == ASSUME Inv, Send PROVE Step
<1>0. Typed
  BY TypeSplit, Zenon DEF Inv
<1>1. cur \in Intents /\ ledger[cur] = "SUBMITTING" /\ order[cur] = "unsent"
      /\ order' = [order EXCEPT ![cur] = "sent"] /\ UNCHANGED <<ledger, closes>>
  BY DEF Send, Inv, CurInv, durable
<1>2. RecordOf[cur] = "committed" /\ WireOf[cur] = "unsent"
  BY <1>1, RecordAt, WireAt DEF Final
<1>3. WireOf' = [WireOf EXCEPT ![cur] = "flying"] /\ RecordOf' = RecordOf
  BY <1>0, <1>1 DEF WireOf, RecordOf, Typed
<1>. QED BY <1>1, <1>2, <1>3 DEF Step, Once!SNext, Once!Dispatch

LEMMA OrderImplements ==
  ASSUME Inv, NEW i \in Intents, OrderStep(i)
  PROVE  Step
<1>0. TypeOK /\ Typed
  BY TypeSplit, Zenon DEF Inv
<1>1. PICK s \in OrderStates : /\ <<order[i], s>> \in OrderMoves
                               /\ order' = [order EXCEPT ![i] = s]
  BY <1>0, OrderStepEffect
<1>2. RecordOf' = RecordOf /\ closes' = closes
  BY <1>0, OrderStepEffect DEF RecordOf
<1>3. CASE s \in {"queued", "Created", "New"}
  <2>1. WireOf' = WireOf
    BY <1>0, <1>1, <1>3 DEF OrderMoves, WireOf, Typed
  <2>. QED BY <1>2, <2>1 DEF Step
<1>4. CASE s = "PartiallyFilled"
  <2>1. order[i] = "New"
    BY <1>1, <1>4 DEF OrderMoves
  <2>2. WireOf' = [WireOf EXCEPT ![i] = "filling"] /\ WireOf[i] = "flying"
    BY <1>0, <1>1, <1>4, <2>1 DEF WireOf, Typed
  <2>. QED BY <1>2, <2>2 DEF Step, Once!SNext, Once!Advance
<1>5. CASE s \in {"Filled", "Cancelled", "Rejected"}
  <2>1. order[i] \in {"queued", "Created", "New", "PartiallyFilled"}
    BY <1>1, <1>5 DEF OrderMoves
  <2>2. WireOf' = [WireOf EXCEPT ![i] = "over"] /\ WireOf[i] \in {"flying", "filling"}
    BY <1>0, <1>1, <1>5, <2>1 DEF WireOf, Typed
  <2>. QED BY <1>2, <2>2 DEF Step, Once!SNext, Once!Advance
<1>. QED BY <1>1, <1>3, <1>4, <1>5 DEF OrderMoves

(* Orders are recorded, committed, sent at most once and retired as         *)
(* SubmitOnce says, over any number of sessions, crashes and lost replies.  *)
THEOREM LedgerImplementsSubmitOnce == Spec => ImplementsSubmitOnce
<1>1. Init => Once!SInit
  BY DEF Init, Once!SInit, RecordOf, WireOf
<1>2. Inv /\ [Next]_vars => [Once!SNext]_<<RecordOf, closes, WireOf>>
  BY StepEffect, AdvanceImplements, PersistImplements, SendImplements, OrderImplements,
     Zenon DEF Step
<1>. QED BY <1>1, <1>2, LedgerInvariant, PTL DEF Spec, ImplementsSubmitOnce, Once!SSpec, Once!svars
=============================================================================
