----------------------------- MODULE SubmitOnce -----------------------------
(***************************************************************************)
(* What a durable order ledger promises, without its states, sessions,     *)
(* lookups or crashes: an order is recorded, then committed, then goes to  *)
(* the exchange at most once, and its record is retired only when it has   *)
(* been sent; an entry is recorded only when no earlier entry is open, and *)
(* retired only when the exchange has said what became of it.              *)
(***************************************************************************)
CONSTANT Ids

VARIABLES
    record,     \* [Ids -> {"none", "recorded", "committed", "retired"}]
    closing,    \* the orders that close a position
    wire        \* [Ids -> {"unsent", "flying", "filling", "over"}]

svars == <<record, closing, wire>>

SInit == /\ record = [i \in Ids |-> "none"]
         /\ closing = {}
         /\ wire = [i \in Ids |-> "unsent"]

OpenEntries == {i \in Ids \ closing : record[i] \in {"recorded", "committed"}}

Record(i) == /\ record[i] = "none"
             /\ record' = [record EXCEPT ![i] = "recorded"]
             /\ \/ OpenEntries = {} /\ closing' = closing
                \/ closing' = closing \union {i}
             /\ wire' = wire

Commit(i) == /\ record[i] = "recorded"
             /\ record' = [record EXCEPT ![i] = "committed"]
             /\ UNCHANGED <<closing, wire>>

Dispatch(i) == /\ record[i] = "committed"
               /\ wire[i] = "unsent"
               /\ wire' = [wire EXCEPT ![i] = "flying"]
               /\ UNCHANGED <<record, closing>>

Advance(i) == /\ \/ wire[i] = "flying"  /\ wire' = [wire EXCEPT ![i] = "filling"]
                 \/ wire[i] \in {"flying", "filling"}
                    /\ wire' = [wire EXCEPT ![i] = "over"]
              /\ UNCHANGED <<record, closing>>

Retire(i) == /\ record[i] = "committed"
             /\ wire[i] # "unsent"
             /\ i \in closing \/ wire[i] # "flying"
             /\ record' = [record EXCEPT ![i] = "retired"]
             /\ UNCHANGED <<closing, wire>>

SNext == \E i \in Ids : Record(i) \/ Commit(i) \/ Dispatch(i) \/ Advance(i) \/ Retire(i)

SSpec == SInit /\ [][SNext]_svars
=============================================================================
