------------------------------ MODULE TradeSlot ------------------------------
(***************************************************************************)
(* What the research trade lifecycle promises, without its worker, files   *)
(* or ticks: one slot for one open trade, and a report on a trade that     *)
(* must be settled before the slot is used again.                          *)
(***************************************************************************)
CONSTANTS Trades, None

VARIABLES
    slot,       \* the open trade, or None
    used,       \* trades ever ordered
    unsettled   \* the trade whose accounting is awaited, or None

slotVars == <<slot, used, unsettled>>

SlotInit == slot = None /\ used = {} /\ unsettled = None

(* A trade is entered at most once, into an empty slot, with nothing owed. *)
Take(t) ==
    /\ slot = None /\ unsettled = None /\ t \notin used
    /\ slot' = t /\ used' = used \cup {t}
    /\ UNCHANGED unsettled

(* An order can be spent on nothing.                                       *)
Waste(t) ==
    /\ slot = None /\ unsettled = None /\ t \notin used
    /\ used' = used \cup {t}
    /\ UNCHANGED <<slot, unsettled>>

Leave ==
    /\ slot # None
    /\ slot' = None
    /\ UNCHANGED <<used, unsettled>>

(* A trade is reported before its accounting is complete, and the report   *)
(* may come before the slot is empty.                                      *)
Report(t) ==
    /\ unsettled = None /\ t \in used
    /\ unsettled' = t
    /\ UNCHANGED <<slot, used>>

(* It is settled only when the slot is empty.                              *)
Settled ==
    /\ slot = None /\ unsettled # None
    /\ unsettled' = None
    /\ UNCHANGED <<slot, used>>

SlotNext == (\E t \in Trades : Take(t) \/ Waste(t) \/ Report(t)) \/ Leave \/ Settled

SlotSpec == SlotInit /\ [][SlotNext]_slotVars

=============================================================================
