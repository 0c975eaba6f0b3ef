-------------------------- MODULE SubscriptionBook --------------------------
(***************************************************************************)
(* What the billing ledger promises the provider and the account, without  *)
(* threads, statements, retries or crashes.  An event takes effect on the  *)
(* row, is recognised in it, or is refused; it is booked for what it did,  *)
(* and promised (answered with 2xx) when it did something.  While events   *)
(* are handled one at a time each of these looks at the row as it is, and  *)
(* a promised event is settled: booked, and never touched again.           *)
(***************************************************************************)
CONSTANTS Events, Legal, Free, None

VARIABLES status, plan, sid,    \* the subscription
          kind, overlap,        \* what events say; whether handling overlaps
          booked,               \* [Events -> {"open", "processed", "rejected"}]
          promised,
          fate, last            \* what each event did; the last to change the row

account == <<status, plan, sid, last>>
given   == <<kind, overlap>>
bvars   == <<account, given, booked, promised, fate>>

Serially(P) == overlap \/ P

IsLegal(e) == <<status, kind[e].to>> \in Legal

Shows(e) == /\ status = kind[e].to
            /\ kind[e].plan # None => plan = kind[e].plan
            /\ kind[e].sid # None /\ sid # None => sid = kind[e].sid

Unsettled(e) == Serially(e \notin promised)

Did(e, what) == fate' = [fate EXCEPT ![e] = @ \union {what}]
Books(e, s) == booked' = [booked EXCEPT ![e] = s]

BInit == /\ booked = [e \in Events |-> "open"]
         /\ promised = {}
         /\ fate = [e \in Events |-> {}]
         /\ last = None

OpenAccount == /\ status = "none"
               /\ status' = "inactive" /\ plan' = Free /\ sid' = None
               /\ UNCHANGED <<last, given, booked, promised, fate>>

Take(e) == /\ Unsettled(e)
           /\ Serially(IsLegal(e) /\ last # e)
           /\ status' = kind[e].to
           /\ plan' = IF kind[e].plan = None THEN plan ELSE kind[e].plan
           /\ sid' = IF kind[e].sid = None THEN sid ELSE kind[e].sid
           /\ last' = e
           /\ Did(e, "took")
           /\ UNCHANGED <<given, booked, promised>>

Recognise(e) == /\ Unsettled(e)
                /\ Shows(e)
                /\ Did(e, "took")
                /\ UNCHANGED <<account, given, booked, promised>>

Refuse(e) == /\ Unsettled(e)
             /\ Serially(kind[e].to = "bad" \/ ~(Shows(e) \/ IsLegal(e)))
             /\ Did(e, "refused")
             /\ Books(e, "rejected")
             /\ UNCHANGED <<account, given, promised>>

Book(e) == /\ Unsettled(e)
           /\ "took" \in fate[e]
           /\ Books(e, "processed")
           /\ UNCHANGED <<account, given, promised, fate>>

Reopen(e) == /\ Unsettled(e)
             /\ Books(e, "open")
             /\ UNCHANGED <<account, given, promised, fate>>

Promise(e) == /\ fate[e] # {}
              /\ Serially(booked[e] # "open")
              /\ promised' = promised \union {e}
              /\ UNCHANGED <<account, given, booked, fate>>

BNext == \/ OpenAccount
         \/ \E e \in Events : \/ Take(e) \/ Recognise(e) \/ Refuse(e)
                              \/ Book(e) \/ Reopen(e) \/ Promise(e)

BSpec == BInit /\ [][BNext]_bvars

=============================================================================
