---------------------------- MODULE OrderLedger ----------------------------
(***************************************************************************)
(* The durable order ledger, its reconciliation with the exchange and the  *)
(* certified bounded session that drives them:                             *)
(*   backend/nexus_demo_execution/durable_order_ledger.py                  *)
(*   backend/nexus_demo_execution/order_reconciliation.py                  *)
(*   backend/nexus_bounded_runtime/certified_{entry,exit,session}.py       *)
(*   backend/nexus_demo_execution/bounded_autonomous_engine.py (the loop)  *)
(*                                                                         *)
(* Every database transaction and every exchange request is one step, so   *)
(* the process may crash between any two of them.  A request may be lost,  *)
(* may take effect after its reply was given up, and may be acknowledged   *)
(* before a lookup shows it.                                               *)
(***************************************************************************)
EXTENDS Integers

CONSTANTS MaxIntents,   \* bound: intents the ledger ever holds
          Attempts      \* BOUNDED_RECONCILE_ATTEMPTS

ASSUME ConstantsAssumption == /\ MaxIntents \in Nat
                              /\ Attempts \in Nat \ {0}

Intents == 1 .. MaxIntents      \* in the order of created_at

VARIABLES
    (* PostgreSQL: nexus.bybit_demo_order_intents *)
    ledger,     \* [Intents -> LedgerStates], "NONE" when there is no row
    closes,     \* the intents with reduce_only set
    (* the exchange *)
    order,      \* [Intents -> OrderStates], the order of each orderLinkId
    pos,        \* size of the position, an entry order being worth two lots
    (* the process; a crash loses all of it *)
    pc,         \* where the session is
    cur,        \* the intent being submitted
    active,     \* entry intent of the supervised trade, 0 when there is none
    tries,      \* lookups made by reconcile_submit_unknown
    todo,       \* intents startup_reconcile has not looked up yet
    unresolved, \* startup_reconcile met an intent it could not resolve
    ret,        \* where the session goes on after the exit it is doing
    stores,     \* _ensure_certified_stores has installed the ledger
    kill,       \* the kill switch is engaged
    over        \* the deadline has passed or a stop was asked for

durable  == <<ledger, closes>>
exchange == <<order, pos>>
session  == <<pc, cur, active, tries, todo, unresolved, ret, stores, kill, over>>
vars == <<ledger, closes, order, pos,
          pc, cur, active, tries, todo, unresolved, ret, stores, kill, over>>

-----------------------------------------------------------------------------
(* The ledger's state machine.  CANCEL_REQUESTED is left out: nothing asks *)
(* for it.                                                                 *)

Final == {"CLOSED", "CANCELLED", "REJECTED"}
RR == "RECONCILIATION_REQUIRED"

AllowedTransitions ==
    UNION {{"INTENT_CREATED"} \X {"SUBMITTING", RR},
           {"SUBMITTING"} \X {"SUBMIT_UNKNOWN", "ACCEPTED", "REJECTED", RR},
           {"SUBMIT_UNKNOWN"} \X {"ACCEPTED", "NEW", "PARTIALLY_FILLED", "FILLED",
                                 "REJECTED", RR},
           {"ACCEPTED"} \X {"NEW", "PARTIALLY_FILLED", "FILLED", "REJECTED", RR},
           {"NEW"} \X {"PARTIALLY_FILLED", "FILLED", "CANCELLED", "REJECTED", RR},
           {"PARTIALLY_FILLED"} \X {"FILLED", "CANCELLED", "CLOSE_PENDING", RR},
           {"FILLED"} \X {"CLOSE_PENDING", "CLOSED", RR},
           {"CLOSE_PENDING"} \X {"CLOSED", "PARTIALLY_FILLED", RR},
           {RR} \X ({"ACCEPTED", "NEW", "PARTIALLY_FILLED", "FILLED"} \union Final)}

LedgerStates == {"NONE", "INTENT_CREATED", "SUBMITTING", "SUBMIT_UNKNOWN", "ACCEPTED",
                 "NEW", "PARTIALLY_FILLED", "FILLED", "CLOSE_PENDING", RR} \union Final

\* transition() raises ValueError unless this holds
CanMove(i, s) == s = ledger[i] \/ <<ledger[i], s>> \in AllowedTransitions

Moved(i, s) == ledger' = [ledger EXCEPT ![i] = s]

Unfinished == {i \in Intents : ledger[i] \notin Final \union {"NONE"}}

Fresh(i) == /\ ledger[i] = "NONE"
            /\ \A j \in Intents : j < i => ledger[j] # "NONE"

-----------------------------------------------------------------------------
(* The exchange.  "sent" is a request on its way, which may never arrive;  *)
(* "queued" one the exchange took but no lookup shows; "Created" stands    *)
(* for every status the ledger has no state for.                           *)

OrderStates == {"unsent", "sent", "queued", "Created", "New",
                "PartiallyFilled", "Filled", "Cancelled", "Rejected"}

Visible(i) == order[i] \notin {"unsent", "sent", "queued"}

exchange_state(i) == CASE order[i] = "New"             -> "NEW"
                       [] order[i] = "PartiallyFilled" -> "PARTIALLY_FILLED"
                       [] order[i] = "Filled"          -> "FILLED"
                       [] order[i] = "Cancelled"       -> "CANCELLED"
                       [] order[i] = "Rejected"        -> "REJECTED"
                       [] OTHER                        -> RR

OrderMoves == UNION {{"sent"} \X {"queued"},
                     {"queued"} \X {"Created", "New", "Rejected"},
                     {"Created"} \X {"New", "Rejected"},
                     {"New"} \X {"PartiallyFilled", "Filled", "Cancelled"},
                     {"PartiallyFilled"} \X {"Filled", "Cancelled"}}

PosAfter(i, s) ==
    CASE s = "PartiallyFilled" -> IF i \in closes THEN pos - 1 ELSE pos + 1
      [] s = "Filled" -> IF i \in closes THEN 0
                         ELSE pos + (IF order[i] = "New" THEN 2 ELSE 1)
      [] OTHER -> pos

\* an order advances; a reduce-only order needs something to reduce
OrderStep(i) ==
    /\ \E s \in OrderStates :
        /\ <<order[i], s>> \in OrderMoves
        /\ i \in closes => /\ s = "PartiallyFilled" => pos > 1
                           /\ s = "Filled" => pos > 0
        /\ order' = [order EXCEPT ![i] = s]
        /\ pos' = PosAfter(i, s)
    /\ UNCHANGED <<durable, session>>

\* take-profit, stop-loss, or a close outside the ledger: a manual one, or
\* the one CloseFallback, GiveUp and Finalize send under a one-off link id
ProtectiveExit == /\ pos > 0
                  /\ pos' = 0
                  /\ UNCHANGED <<durable, order, session>>

ExchangeStep == ProtectiveExit \/ \E i \in Intents : OrderStep(i)

-----------------------------------------------------------------------------
(* Reconciliation of one intent: an absent order is an unresolved one *)

\* Mutant: an absent order is taken for one that never existed.
ReconcileTrustsAbsence(i) == IF Visible(i) THEN exchange_state(i) ELSE "REJECTED"

reconcile_intent(i) == IF Visible(i) THEN exchange_state(i) ELSE RR

Goto(p) == pc' = p

\* Mutant: _safe_run finalizes without engaging the kill switch.
RaiseQuietly == /\ Goto(IF ret = "up" THEN "up" ELSE "finalize")
                /\ ret' = "up"
                /\ UNCHANGED kill

\* An exception leaves the loop for _finalize; inside _finalize it is swallowed.
Raise == /\ Goto(IF ret = "up" THEN "up" ELSE "finalize")
         /\ ret' = "up"
         /\ kill' = (kill \/ ret # "up")

-----------------------------------------------------------------------------
(* start(): stores, startup reconciliation, run loop *)

Boot == /\ pc = "down"
        /\ Goto("up")
        /\ UNCHANGED <<durable, exchange, cur, active, tries, todo, unresolved, ret,
                       stores, kill, over>>

\* The stores are kept even when the reconciliation that follows refuses to
\* start, and a later start finds them and does not reconcile again.
Start == /\ pc = "up"
         /\ stores' = TRUE
         /\ over' = FALSE
         /\ ret' = "loop"
         /\ todo' = IF stores THEN {} ELSE Unfinished
         /\ unresolved' = FALSE
         /\ Goto(IF ~stores THEN "startup" ELSE IF kill THEN "up" ELSE "loop")
         /\ UNCHANGED <<durable, exchange, cur, active, tries, kill>>

\* start() returns without a session
Leave == Goto("up") /\ todo' = {} /\ unresolved' = FALSE

StartupReconcile ==
    /\ pc = "startup"
    /\ \E i \in todo :
        /\ \A j \in todo : i <= j
        /\ LET s == reconcile_intent(i)
           IN IF CanMove(i, s)
              THEN /\ Moved(i, s)
                   /\ todo' = todo \ {i}
                   /\ unresolved' = (unresolved \/ s = RR)
                   /\ UNCHANGED pc
              ELSE Leave /\ UNCHANGED ledger
    /\ UNCHANGED <<closes, exchange, cur, active, tries, ret, stores, kill, over>>

\* no unresolved intent and no position without an unfinished owner
StartupDone ==
    /\ pc = "startup"
    /\ todo = {}
    /\ LET orphan == pos > 0 /\ Unfinished = {}
       IN Goto(IF unresolved \/ orphan \/ kill THEN "up" ELSE "loop")
    /\ unresolved' = FALSE
    /\ over' = FALSE
    /\ UNCHANGED <<durable, exchange, cur, active, tries, todo, ret, stores, kill>>

\* a lookup or list_positions fails: start() reports failure
StartupFails ==
    /\ pc = "startup"
    /\ Leave
    /\ UNCHANGED <<durable, exchange, cur, active, tries, ret, stores, kill, over>>

-----------------------------------------------------------------------------
(* The run loop *)

\* the deadline passes, or the operator stops the session
TimeUp == /\ pc \notin {"down", "up"}
          /\ ~over
          /\ over' = TRUE
          /\ kill' \in {kill, TRUE}
          /\ UNCHANGED <<durable, exchange, pc, cur, active, tries, todo, unresolved,
                         ret, stores>>

\* Mutant: unfinished() is not asked before an entry.
TryEntryAnyway == /\ pc = "loop"
                  /\ active = 0
                  /\ ~over /\ ~kill
                  /\ IF pos > 0
                     THEN kill' = TRUE /\ UNCHANGED pc
                     ELSE Goto("orders") /\ UNCHANGED kill
                  /\ UNCHANGED <<durable, exchange, cur, active, tries, todo, unresolved,
                                 ret, stores, over>>

\* _try_entry: the ledger and the positions, then the open orders
TryEntry == /\ pc = "loop"
            /\ active = 0
            /\ ~over /\ ~kill
            /\ Unfinished = {}
            /\ IF pos > 0
               THEN kill' = TRUE /\ UNCHANGED pc
               ELSE Goto("orders") /\ UNCHANGED kill
            /\ UNCHANGED <<durable, exchange, cur, active, tries, todo, unresolved, ret,
                           stores, over>>

OpenOrders == {i \in Intents : order[i] \in {"Created", "New", "PartiallyFilled"}}

CheckOrders == /\ pc = "orders"
               /\ \/ OpenOrders = {} /\ Goto("persistEntry") /\ UNCHANGED kill
                  \/ Goto("loop") /\ kill' = TRUE   \* theirs, or one outside the ledger
               /\ UNCHANGED <<durable, exchange, cur, active, tries, todo, unresolved,
                              ret, stores, over>>

\* no candidate passes, or the intent cannot be written
NoEntry == /\ pc \in {"persistEntry", "mark"}
           /\ pc = "mark" => cur \notin closes
           /\ Goto("loop")
           /\ UNCHANGED <<durable, exchange, cur, active, tries, todo, unresolved, ret,
                          stores, kill, over>>

\* Mutant: the order is sent before its intent is marked SUBMITTING.
PersistEntryUnmarked ==
    /\ pc = "persistEntry"
    /\ \E i \in Intents : Fresh(i) /\ Moved(i, "INTENT_CREATED") /\ cur' = i
    /\ Goto("submit")
    /\ UNCHANGED <<closes, exchange, active, tries, todo, unresolved, ret, stores, kill,
                   over>>

PersistEntry == /\ pc = "persistEntry"
                /\ \E i \in Intents : Fresh(i) /\ Moved(i, "INTENT_CREATED") /\ cur' = i
                /\ Goto("mark")
                /\ UNCHANGED <<closes, exchange, active, tries, todo, unresolved, ret,
                               stores, kill, over>>

\* _supervise finds the position gone: TP_SL_OR_EXTERNAL
PositionGone == /\ pc = "loop"
                /\ active # 0
                /\ ~over /\ ~kill
                /\ pos = 0
                /\ Goto("exit")
                /\ UNCHANGED <<durable, exchange, cur, active, tries, todo, unresolved,
                               ret, stores, kill, over>>

\* _supervise: time stop, protection missing or risk kill
ForceFlat == /\ pc = "loop"
             /\ active # 0
             /\ ~over /\ ~kill
             /\ pos > 0
             /\ Goto("persistClose")
             /\ kill' \in {kill, TRUE}
             /\ UNCHANGED <<durable, exchange, cur, active, tries, todo, unresolved, ret,
                            stores, over>>

LeaveLoop == /\ pc = "loop"
             /\ over \/ kill
             /\ Goto(IF active # 0 THEN "persistClose" ELSE "finalize")
             /\ ret' = IF active # 0 THEN "finalize" ELSE "up"
             /\ UNCHANGED <<durable, exchange, cur, active, tries, todo, unresolved,
                            stores, kill, over>>

\* _record_exit: the learning closure may kill the session, or raise
RecordExit == /\ pc = "exit"
              /\ active' = 0
              /\ kill' \in {kill, TRUE}
              /\ Goto(ret)
              /\ ret' = IF ret = "finalize" THEN "up" ELSE ret
              /\ UNCHANGED <<durable, exchange, cur, tries, todo, unresolved, stores, over>>

\* _finalize: flatten what list_positions shows; a position without a trade
\* is closed outside the ledger
Finalize == /\ pc = "finalize"
            /\ \/ pos > 0 /\ active # 0 /\ Goto("persistClose")
               \/ Goto("up")   \* nothing to close, no trade, or the read fails
            /\ UNCHANGED <<durable, exchange, cur, active, tries, todo, unresolved, ret,
                           stores, kill, over>>

-----------------------------------------------------------------------------
(* Submission: persist, mark, send, learn the outcome *)

PersistClose == /\ pc = "persistClose"
                /\ \E i \in Intents : /\ Fresh(i)
                                      /\ Moved(i, "INTENT_CREATED")
                                      /\ closes' = closes \union {i}
                                      /\ cur' = i
                /\ Goto("pend")
                /\ UNCHANGED <<exchange, active, tries, todo, unresolved, ret, stores,
                               kill, over>>

PendEntry == /\ pc = "pend"
             /\ CanMove(active, "CLOSE_PENDING")
             /\ Moved(active, "CLOSE_PENDING")
             /\ Goto("mark")
             /\ UNCHANGED <<closes, exchange, cur, active, tries, todo, unresolved, ret,
                            stores, kill, over>>

\* where a flattening ends: the exit is recorded, or the session is over
Flattened == Goto(IF ret = "up" THEN "up" ELSE "exit")

\* The durable close could not be prepared: close outside the ledger.  The
\* entry's state may not allow CLOSE_PENDING, or the database may fail.
CloseFallback == /\ pc \in {"persistClose", "pend", "mark"}
                 /\ pc = "mark" => cur \in closes
                 /\ Flattened
                 /\ UNCHANGED <<durable, exchange, cur, active, tries, todo, unresolved,
                                ret, stores, kill, over>>

MarkSubmitting == /\ pc = "mark"
                  /\ Moved(cur, "SUBMITTING")
                  /\ Goto("submit")
                  /\ UNCHANGED <<closes, exchange, cur, active, tries, todo, unresolved,
                                 ret, stores, kill, over>>

Send == /\ pc = "submit"
        /\ order' = [order EXCEPT ![cur] = "sent"]
        /\ Goto("reply")
        /\ UNCHANGED <<durable, pos, cur, active, tries, todo, unresolved, ret,
                       stores, kill, over>>

\* The request raises, with or without effect, its reply has no order id, or
\* set_leverage raises before an entry is sent.
ReplyMissing == /\ \/ pc = "reply"
                   \/ pc = "submit" /\ cur \notin closes
                /\ Moved(cur, "SUBMIT_UNKNOWN")
                /\ tries' = 0
                /\ Goto("lookup")
                /\ UNCHANGED <<closes, exchange, cur, active, todo, unresolved, ret,
                               stores, kill, over>>

\* Mutant: the acknowledgement of a market order is taken for its fill.
ReplyAckAsFill ==
    /\ pc = "reply"
    /\ order[cur] # "sent"
    /\ Moved(cur, "FILLED")
    /\ Goto("confirm")
    /\ UNCHANGED <<closes, exchange, cur, active, tries, todo, unresolved, ret, stores,
                   kill, over>>

ReplyAck == /\ pc = "reply"
            /\ order[cur] # "sent"
            /\ Moved(cur, "ACCEPTED")
            /\ Goto("confirm")
            /\ UNCHANGED <<closes, exchange, cur, active, tries, todo, unresolved, ret,
                           stores, kill, over>>

\* what follows a submission that reports ok
Submitted(next) == Goto(IF cur \notin closes THEN "wait"
                        ELSE IF next = "settle" THEN "settleEntry"
                        ELSE IF ret = "up" THEN "up" ELSE "exit")

\* reconcile_intent after the acknowledgement, or after the exact lookup of
\* reconcile_submit_unknown; the ledger refuses some answers
Confirm == /\ pc \in {"confirm", "recheck"}
           /\ LET s == reconcile_intent(cur)
              IN IF CanMove(cur, s)
                 THEN /\ Moved(cur, s)
                      /\ Submitted(IF pc = "confirm" THEN "settle" ELSE "recovered")
                      /\ UNCHANGED <<ret, kill>>
                 ELSE Raise /\ UNCHANGED ledger
           /\ UNCHANGED <<closes, exchange, cur, active, tries, todo, unresolved, stores, over>>

-----------------------------------------------------------------------------
(* reconcile_submit_unknown: at most Attempts rounds of an exact lookup *)
(* and, when that finds nothing, of reconcile_intent                    *)

\* Mutant: one round too many.
LookupOnceMore ==
    /\ pc = "lookup"
    /\ tries <= Attempts
    /\ IF Visible(cur)
       THEN Moved(cur, "ACCEPTED") /\ Goto("recheck") /\ tries' = 0
       ELSE Goto("relook") /\ UNCHANGED <<ledger, tries>>
    /\ UNCHANGED <<closes, exchange, cur, active, todo, unresolved, ret, stores, kill,
                   over>>

Lookup == /\ pc = "lookup"
          /\ tries < Attempts
          /\ IF Visible(cur)
             THEN Moved(cur, "ACCEPTED") /\ Goto("recheck") /\ tries' = 0
             ELSE Goto("relook") /\ UNCHANGED <<ledger, tries>>
          /\ UNCHANGED <<closes, exchange, cur, active, todo, unresolved, ret,
                         stores, kill, over>>

\* Mutant: the rounds are not counted.
RelookForever ==
    /\ pc = "relook"
    /\ LET s == reconcile_intent(cur)
       IN IF CanMove(cur, s)
          THEN /\ Moved(cur, s)
               /\ IF s \in {RR, "SUBMIT_UNKNOWN"}
                  THEN Goto("lookup") ELSE Submitted("recovered")
               /\ UNCHANGED <<ret, kill>>
          ELSE Raise /\ UNCHANGED ledger
    /\ UNCHANGED <<closes, exchange, cur, active, tries, todo, unresolved, stores, over>>

Relook == /\ pc = "relook"
          /\ LET s == reconcile_intent(cur)
             IN IF CanMove(cur, s)
                THEN /\ Moved(cur, s)
                     /\ IF s \in {RR, "SUBMIT_UNKNOWN"}
                        THEN Goto("lookup") /\ tries' = tries + 1
                        ELSE Submitted("recovered") /\ tries' = 0
                     /\ UNCHANGED <<ret, kill>>
                ELSE Raise /\ tries' = 0 /\ UNCHANGED ledger
          /\ UNCHANGED <<closes, exchange, cur, active, todo, unresolved, stores, over>>

\* Mutant: whatever the rounds did not find is proven absent.
GiveUpWritesOff ==
    /\ pc = "lookup"
    /\ tries >= Attempts
    /\ Moved(cur, "REJECTED")
    /\ IF cur \in closes THEN Flattened ELSE Goto("loop")
    /\ tries' = 0
    /\ UNCHANGED <<closes, exchange, cur, active, todo, unresolved, ret, stores, kill,
                   over>>

\* Mutant: the order is sent again under its orderLinkId.
GiveUpRetries ==
    /\ pc = "lookup"
    /\ tries >= Attempts
    /\ Goto("submit")
    /\ tries' = 0
    /\ UNCHANGED <<durable, exchange, cur, active, todo, unresolved, ret, stores, kill,
                   over>>

\* The rounds are used up: an intent still SUBMIT_UNKNOWN is proven absent,
\* any other is held.  A close that is not ok falls back.
GiveUp == /\ pc = "lookup"
          /\ tries >= Attempts
          /\ IF ledger[cur] = "SUBMIT_UNKNOWN"
             THEN Moved(cur, "REJECTED") ELSE UNCHANGED ledger
          /\ IF cur \in closes THEN Flattened ELSE Goto("loop")
          /\ tries' = 0
          /\ UNCHANGED <<closes, exchange, cur, active, todo, unresolved, ret,
                         stores, kill, over>>

-----------------------------------------------------------------------------
(* After an entry: _wait_fill.  After an acknowledged close: both intents *)
(* are moved to CLOSED, a refusal being ignored.                          *)

WaitFill == /\ pc = "wait"
            /\ Goto("loop")
            /\ IF pos > 0 THEN active' = cur /\ UNCHANGED kill
                          ELSE kill' = TRUE /\ UNCHANGED active
            /\ UNCHANGED <<durable, exchange, cur, tries, todo, unresolved, ret, stores, over>>

SettleEntry == /\ pc = "settleEntry"
               /\ IF CanMove(active, "CLOSED")
                  THEN Moved(active, "CLOSED") ELSE UNCHANGED ledger
               /\ Goto("settleClose")
               /\ UNCHANGED <<closes, exchange, cur, active, tries, todo, unresolved, ret,
                              stores, kill, over>>

SettleClose == /\ pc = "settleClose"
               /\ IF CanMove(cur, "CLOSED")
                  THEN Moved(cur, "CLOSED") ELSE UNCHANGED ledger
               /\ Flattened
               /\ UNCHANGED <<closes, exchange, cur, active, tries, todo, unresolved, ret,
                              stores, kill, over>>

\* an exchange read or a database transaction raises and nobody catches it
CallFails == /\ pc \in {"loop", "orders", "persistEntry", "submit", "reply", "confirm",
                        "recheck", "lookup", "relook", "wait", "settleEntry",
                        "settleClose", "exit"}
             /\ Raise
             /\ tries' = 0
             /\ UNCHANGED <<durable, exchange, cur, active, todo, unresolved, stores,
                            over>>

-----------------------------------------------------------------------------
(* A crash or a redeployment: the kill switch and all of the session's *)
(* memory are gone, the ledger and the exchange are not.               *)

Crash == /\ pc # "down"
         /\ Goto("down")
         /\ cur' = 0 /\ active' = 0 /\ tries' = 0
         /\ todo' = {} /\ unresolved' = FALSE
         /\ ret' = "loop"
         /\ stores' = FALSE /\ kill' = FALSE /\ over' = FALSE
         /\ UNCHANGED <<durable, exchange>>

Init == /\ ledger = [i \in Intents |-> "NONE"]
        /\ closes = {}
        /\ order = [i \in Intents |-> "unsent"]
        /\ pos = 0
        /\ pc = "down" /\ cur = 0 /\ active = 0 /\ tries = 0
        /\ todo = {} /\ unresolved = FALSE /\ ret = "loop"
        /\ stores = FALSE /\ kill = FALSE /\ over = FALSE

StartStep  == StartupReconcile \/ StartupDone \/ StartupFails
LoopStep   == \/ TryEntry \/ CheckOrders \/ NoEntry \/ PositionGone \/ ForceFlat
              \/ LeaveLoop \/ RecordExit \/ Finalize \/ WaitFill
SubmitStep == \/ PersistEntry \/ PersistClose \/ PendEntry \/ CloseFallback
              \/ MarkSubmitting \/ Send \/ ReplyMissing \/ ReplyAck \/ Confirm
              \/ Lookup \/ Relook \/ GiveUp \/ SettleEntry \/ SettleClose

SessionStep == StartStep \/ LoopStep \/ SubmitStep

Next == Boot \/ Start \/ SessionStep \/ CallFails \/ TimeUp \/ Crash \/ ExchangeStep

\* The session's thread keeps running and its deadline comes; nothing is
\* assumed of the exchange, the operator or of crashes.
Fairness == WF_vars(SessionStep) /\ WF_vars(TimeUp)

Spec == Init /\ [][Next]_vars /\ Fairness

-----------------------------------------------------------------------------
(* Properties *)

Points == {"down", "up", "startup", "loop", "orders", "persistEntry", "persistClose",
           "pend", "mark", "submit", "reply", "confirm", "recheck", "lookup", "relook",
           "wait", "settleEntry", "settleClose", "exit", "finalize"}

\* Every variable has its type.
TypeOK == /\ ledger \in [Intents -> LedgerStates]
          /\ closes \subseteq Intents
          /\ order \in [Intents -> OrderStates]
          /\ pos \in Nat
          /\ pc \in Points
          /\ cur \in 0 .. MaxIntents
          /\ active \in 0 .. MaxIntents
          /\ tries \in 0 .. Attempts
          /\ todo \subseteq Intents
          /\ ret \in {"loop", "finalize", "up"}
          /\ unresolved \in BOOLEAN /\ stores \in BOOLEAN
          /\ kill \in BOOLEAN /\ over \in BOOLEAN

\* An intent the ledger has written off cannot still be executed: a rejected
\* or cancelled intent has an order the exchange itself ended that way, even
\* when the reply was lost or the process died after sending it.
NeverWrittenOff ==
    \A i \in Intents :
        /\ ledger[i] = "REJECTED" => order[i] = "Rejected"
        /\ ledger[i] = "CANCELLED" => order[i] = "Cancelled"

\* "acknowledgement is never treated as a fill": the ledger says an order is
\* filled, or a close is pending on it, only when the exchange filled it.
FillsAreReal ==
    \A i \in Intents :
        /\ ledger[i] = "FILLED" => order[i] = "Filled"
        /\ ledger[i] \in {"PARTIALLY_FILLED", "CLOSE_PENDING"} =>
              order[i] \in {"PartiallyFilled", "Filled", "Cancelled"}

\* Intent before submission, across crashes: whatever reached the exchange
\* under an orderLinkId belongs to an intent already marked SUBMITTING.
PersistedBeforeSent ==
    \A i \in Intents : order[i] # "unsent" => ledger[i] \notin {"NONE", "INTENT_CREATED"}

\* The ledger never carries two unfinished entries, however often the process
\* is restarted and whatever the startup reconciliation was told.
OneOpenEntry ==
    \A i, j \in Unfinished \ closes : i = j

\* No entry is sent while an earlier entry may still arrive at the exchange
\* or rests there unfilled, a request whose reply was lost included.
UnknownBlocksEntry ==
    [][\A i, j \in Intents \ closes :
          (order[i] = "unsent" /\ order'[i] = "sent")
              => order[j] \notin {"sent", "queued", "Created", "New"}]_vars

\* The session is between recording an entry and learning what became of it.
Submitting == {"mark", "submit", "reply", "confirm", "recheck", "lookup", "relook", "wait"}

\* An entry the ledger holds open and no session looks after, executed or
\* never sent: its trade ended by take profit, stop loss or the fallback, the
\* process that supervised it is gone, or died before it sent the order.
Orphan(i) == /\ i \in Unfinished \ closes
             /\ order[i] \in {"unsent", "Filled"}
             /\ active # i
             /\ pc \in Submitting => cur # i

Entries == {i \in Intents : ledger[i] # "NONE"} \ closes

\* An orphan entry is never sent, written off, closed or supervised again by
\* any session, restart or lookup, and as long as it is there (for ever, then)
\* no other entry is recorded.
OrphanBlocksEntries ==
    [][\A i \in Intents : Orphan(i) => Orphan(i)' /\ Entries' = Entries]_vars

\* A session that ends with its trade still on record, because an exception or
\* a stop cut the flattening short, leaves the kill switch engaged: no later
\* session of the process starts beside that trade.
LeftTradeBlocksStart == active # 0 /\ pc \in {"up", "startup"} => kill /\ stores

\* What SubmitOnce sees of an intent and of its order.
RecordOf == [i \in Intents |-> IF ledger[i] = "NONE" THEN "none"
                              ELSE IF ledger[i] = "INTENT_CREATED" THEN "recorded"
                              ELSE IF ledger[i] \in Final THEN "retired" ELSE "committed"]
WireOf == [i \in Intents |-> IF order[i] = "unsent" THEN "unsent"
                            ELSE IF order[i] \in {"sent", "queued", "Created", "New"}
                                 THEN "flying"
                            ELSE IF order[i] = "PartiallyFilled" THEN "filling" ELSE "over"]

Once == INSTANCE SubmitOnce WITH Ids <- Intents, record <- RecordOf,
                                 closing <- closes, wire <- WireOf

\* Sessions, lookups, restarts and crashes included, every order is recorded,
\* committed, sent at most once and retired as SubmitOnce says.
ImplementsSubmitOnce == Once!SSpec

\* A started session comes to its end: the reconciliation rounds, the waits
\* and the flattening cannot keep the loop from its deadline.
SessionEnds == pc \notin {"down", "up"} ~> pc \in {"down", "up"}

\* The acknowledgement of a close is not its fill: an entry becomes CLOSED
\* only when the exchange shows no position any more.
ClosedOnlyWhenFlat ==
    [][\A i \in Intents \ closes :
          (ledger[i] # "CLOSED" /\ ledger'[i] = "CLOSED") => pos = 0]_vars

\* The startup reconciliation can record every answer the exchange gives to a
\* lookup by orderLinkId.
RestartRecovers ==
    pc = "startup" => \A i \in todo : Visible(i) => CanMove(i, reconcile_intent(i))

=============================================================================
