---------------------------- MODULE BillingEvents ----------------------------
(***************************************************************************)
(* Provider events applied to one account's subscription:                  *)
(*   backend/nexus_billing/service.py           process_provider_event     *)
(*   backend/nexus_billing/event_repository.py  the billing-event ledger   *)
(*   backend/nexus_billing/repository.py        the subscription row       *)
(*   backend/nexus_billing/routes.py            the Stripe webhook         *)
(*                                                                         *)
(* Each SQL statement commits by itself (PostgresPool.execute, fetchall)   *)
(* and is one step.  The provider delivers an event again until it is      *)
(* answered 2xx, and sometimes once more; gunicorn serves the webhook with *)
(* several threads, so deliveries may overlap.  The process may die and a  *)
(* statement may fail at any point.  Of the row, the columns a decision    *)
(* depends on are kept: the cancellation schedule, the customer and the    *)
(* dates are written along with them and never read here.                  *)
(***************************************************************************)
EXTENDS Naturals

CONSTANTS Events,     \* provider events of one account
          Kinds,      \* what an event may say
          Workers,    \* threads serving the webhook
          Plans,      \* the paid plans
          Sids,       \* provider subscription ids
          Free,       \* the default plan
          None,       \* a field an event or a row does not carry
          StartRows,  \* what the subscription may be when the events arrive
          MaxFaults   \* bound: crashes, failed statements and lost replies

\* "none" while the account has no row
Statuses == {"none", "inactive", "trialing", "active", "past_due", "canceled", "expired"}

\* What normalize_stripe_event makes of a provider event: the status it stands
\* for, the plan it carries and its subscription.  "bad" is one that
\* _reject_reason refuses.
NormalizedEvents ==
    LET maybe(S) == S \union {None} IN
    UNION {[to: {"active"}, plan: Plans, sid: maybe(Sids)],              \* checkout
           [to: {"active", "trialing"}, plan: maybe(Plans), sid: Sids],  \* subscription ..
           [to: {"past_due", "canceled", "expired"}, plan: {None}, sid: Sids],
           [to: {"active", "past_due"}, plan: {None}, sid: maybe(Sids)], \* invoice
           [to: {"bad"}, plan: maybe(Plans), sid: maybe(Sids)]}

ASSUME KindsAssumption == Kinds \subseteq NormalizedEvents

ASSUME StartRowsAssumption ==
    /\ StartRows \subseteq [status: Statuses, plan: Plans \union {Free},
                            sid: Sids \union {None}]
    /\ \A r \in StartRows : r.status = "none" => r.plan = Free /\ r.sid = None

ASSUME NoneAssumption == None \notin Events

VARIABLES
    (* PostgreSQL *)
    ledger,     \* [Events -> LedgerStates], "none" when there is no row
    status,     \* of the subscription
    plan,
    sid,
    (* the webhook's threads; a crash loses them all *)
    pc,
    job,        \* the event each thread is processing
    (* the provider *)
    kind,       \* [Events -> Kinds], what each event says
    overlap,    \* whether two deliveries are ever under way at once
    acked,      \* events answered with 2xx
    faults,
    (* history, read by the properties only *)
    fate,       \* what each event was seen to do: "took" effect, was "refused"
    last        \* the event that last changed the subscription

row      == <<status, plan, sid>>
provider == <<kind, overlap>>
history  == <<fate, last>>
vars == <<ledger, status, plan, sid, pc, job, kind, overlap, acked, faults, fate, last>>

-----------------------------------------------------------------------------
(* The lifecycle and the ledger's states *)

ALLOWED_TRANSITIONS ==
    UNION {{"inactive"} \X {"trialing", "active"},
           {"trialing"} \X {"active", "canceled", "expired"},
           {"active"}   \X {"past_due", "canceled", "expired"},
           {"past_due"} \X {"active", "canceled", "expired"},
           {"canceled"} \X {"expired"}}

can_transition(from, to) == <<from, to>> \in ALLOWED_TRANSITIONS

Terminal == {"processed", "rejected"}
LedgerStates == {"none", "received", "processing"} \union Terminal

\* _converges: the row already says what the event says
Converges(e) ==
    /\ kind[e].plan # None => plan = kind[e].plan
    /\ kind[e].sid # None /\ sid # None => sid = kind[e].sid

-----------------------------------------------------------------------------

Goto(w, p) == pc' = [pc EXCEPT ![w] = p]

Set(e, s) == ledger' = [ledger EXCEPT ![e] = s]

\* The thread answers and is free again; only a 2xx keeps the provider quiet.
Answers(w, ok) == /\ Goto(w, "idle")
                  /\ job' = [job EXCEPT ![w] = None]
                  /\ acked' = IF ok THEN acked \union {job[w]} ELSE acked

Tell(e, what) == fate' = [fate EXCEPT ![e] = @ \union {what}]

\* A delivery: a first one, a retry of one not answered, or a duplicate.
Deliver(w, e) ==
    /\ pc[w] = "idle"
    /\ overlap \/ \A v \in Workers : pc[v] = "idle"
    /\ Goto(w, "insert")
    /\ job' = [job EXCEPT ![w] = e]
    /\ UNCHANGED <<ledger, row, provider, acked, faults, history>>

-----------------------------------------------------------------------------
(* begin_processing: INSERT .. ON CONFLICT DO NOTHING, SELECT, UPDATE *)

Claimed(e) == IF kind[e].to = "bad" THEN "reject" ELSE "read"

\* Mutant: the event is booked as processed when it is claimed.
InsertProcessed(w) ==
    /\ pc[w] = "insert"
    /\ IF ledger[job[w]] = "none"
       THEN Set(job[w], "processed") /\ Goto(w, Claimed(job[w]))
       ELSE Goto(w, "lookup") /\ UNCHANGED ledger
    /\ UNCHANGED <<row, job, provider, acked, faults, history>>

Insert(w) ==
    /\ pc[w] = "insert"
    /\ IF ledger[job[w]] = "none"
       THEN Set(job[w], "processing") /\ Goto(w, Claimed(job[w]))
       ELSE Goto(w, "lookup") /\ UNCHANGED ledger
    /\ UNCHANGED <<row, job, provider, acked, faults, history>>

\* Mutant: an event in "processing" is taken for one another thread looks after.
LookupDefers(w) ==
    /\ pc[w] = "lookup"
    /\ IF ledger[job[w]] \in Terminal \union {"processing"}
       THEN Answers(w, TRUE)
       ELSE Goto(w, "reclaim") /\ UNCHANGED <<job, acked>>
    /\ UNCHANGED <<ledger, row, provider, faults, history>>

\* Mutant: only a processed event is known again.
LookupRetriesRejected(w) ==
    /\ pc[w] = "lookup"
    /\ IF ledger[job[w]] = "processed"
       THEN Answers(w, TRUE)
       ELSE Goto(w, "reclaim") /\ UNCHANGED <<job, acked>>
    /\ UNCHANGED <<ledger, row, provider, faults, history>>

\* already_processed, already_rejected, or another attempt
Lookup(w) ==
    /\ pc[w] = "lookup"
    /\ IF ledger[job[w]] \in Terminal
       THEN Answers(w, TRUE)
       ELSE Goto(w, "reclaim") /\ UNCHANGED <<job, acked>>
    /\ UNCHANGED <<ledger, row, provider, faults, history>>

Reclaim(w) ==
    /\ pc[w] = "reclaim"
    /\ Set(job[w], "processing")
    /\ Goto(w, Claimed(job[w]))
    /\ UNCHANGED <<row, job, provider, acked, faults, history>>

-----------------------------------------------------------------------------
(* The subscription: ensure_subscription, the decision, the transition *)

\* Mutant: a row already in the event's state is refused like any other.
ReadWithoutConvergence(w) ==
    LET e == job[w] IN
    /\ pc[w] = "read"
    /\ Goto(w, IF status = "none" THEN "create"
               ELSE IF can_transition(status, kind[e].to) THEN "check" ELSE "reject")
    /\ UNCHANGED <<ledger, row, job, provider, acked, faults, history>>

\* Mutant: the provider knows best, whatever it says is written.
ReadTrustsProvider(w) ==
    /\ pc[w] = "read"
    /\ Goto(w, IF status = "none" THEN "create" ELSE "apply")
    /\ UNCHANGED <<ledger, row, job, provider, acked, faults, history>>

Read(w) ==
    LET e == job[w] IN
    /\ pc[w] = "read"
    /\ \/ status = "none" /\ Goto(w, "create") /\ UNCHANGED fate
       \/ status = kind[e].to /\ Converges(e) /\ Goto(w, "mark") /\ Tell(e, "took")
       \/ /\ status # "none"
          /\ ~(status = kind[e].to /\ Converges(e))
          /\ Goto(w, IF can_transition(status, kind[e].to) THEN "check" ELSE "reject")
          /\ UNCHANGED fate
    /\ UNCHANGED <<ledger, row, job, provider, acked, faults, last>>

\* The account's first row; a second thread's INSERT hits the unique index.
Create(w) ==
    /\ pc[w] = "create"
    /\ IF status = "none"
       THEN status' = "inactive" /\ plan' = Free /\ sid' = None /\ Goto(w, "read")
       ELSE Goto(w, "failed") /\ UNCHANGED row
    /\ UNCHANGED <<ledger, job, provider, acked, faults, history>>

\* apply_provider_transition reads the row again and asserts the transition
Check(w) ==
    /\ pc[w] = "check"
    /\ Goto(w, IF can_transition(status, kind[job[w]].to) THEN "apply" ELSE "failed")
    /\ UNCHANGED <<ledger, row, job, provider, acked, faults, history>>

\* Mutant: an event without a plan resets the plan.
ApplyResetsPlan(w) ==
    LET e == job[w] IN
    /\ pc[w] = "apply"
    /\ status' = kind[e].to
    /\ plan' = IF kind[e].plan = None THEN Free ELSE kind[e].plan
    /\ sid' = IF kind[e].sid = None THEN sid ELSE kind[e].sid
    /\ last' = e
    /\ Tell(e, "took")
    /\ Goto(w, "mark")
    /\ UNCHANGED <<ledger, job, provider, acked, faults>>

\* Mutant: a plan the event does not carry is written all the same.
ApplyWritesNull(w) ==
    LET e == job[w] IN
    /\ pc[w] = "apply"
    /\ status' = kind[e].to
    /\ plan' = kind[e].plan
    /\ sid' = IF kind[e].sid = None THEN sid ELSE kind[e].sid
    /\ last' = e
    /\ Tell(e, "took")
    /\ Goto(w, "mark")
    /\ UNCHANGED <<ledger, job, provider, acked, faults>>

\* ... and updates the columns the event speaks of, wherever the row is now
Apply(w) ==
    LET e == job[w] IN
    /\ pc[w] = "apply"
    /\ status' = kind[e].to
    /\ plan' = IF kind[e].plan = None THEN plan ELSE kind[e].plan
    /\ sid' = IF kind[e].sid = None THEN sid ELSE kind[e].sid
    /\ last' = e
    /\ Tell(e, "took")
    /\ Goto(w, "mark")
    /\ UNCHANGED <<ledger, job, provider, acked, faults>>

-----------------------------------------------------------------------------
(* The outcome *)

MarkProcessed(w) ==
    /\ pc[w] = "mark"
    /\ Set(job[w], "processed")
    /\ Goto(w, "answer")
    /\ UNCHANGED <<row, job, provider, acked, faults, history>>

MarkRejected(w) ==
    /\ pc[w] = "reject"
    /\ Set(job[w], "rejected")
    /\ Goto(w, "answer")
    /\ Tell(job[w], "refused")
    /\ UNCHANGED <<row, job, provider, acked, faults, last>>

Answer(w) ==
    /\ pc[w] = "answer"
    /\ Answers(w, TRUE)
    /\ UNCHANGED <<ledger, row, provider, faults, history>>

\* Mutant: the webhook answers 200 to a retryable error.
RecordErrorAcks(w) ==
    /\ pc[w] = "failed"
    /\ Set(job[w], "received")
    /\ Answers(w, TRUE)
    /\ UNCHANGED <<row, provider, faults, history>>

\* record_transient_error; the webhook answers 500
RecordError(w) ==
    /\ pc[w] = "failed"
    /\ Set(job[w], "received")
    /\ Answers(w, FALSE)
    /\ UNCHANGED <<row, provider, faults, history>>

\* inside the try block of process_provider_event
Guarded(w) == \/ pc[w] \in {"read", "create", "check", "apply", "mark"}
              \/ pc[w] \in {"reject", "answer"} /\ kind[job[w]].to # "bad"

-----------------------------------------------------------------------------
(* Faults *)

Fault == faults < MaxFaults /\ faults' = faults + 1

\* A statement raises.  Failing after a mark took effect, or in the read that
\* follows a converged mark, is a failure at "answer".
StatementFails(w) ==
    /\ pc[w] # "idle"
    /\ Fault
    /\ IF Guarded(w) THEN Goto(w, "failed") /\ UNCHANGED <<job, acked>>
                     ELSE Answers(w, FALSE)
    /\ UNCHANGED <<ledger, row, provider, history>>

\* The answer is lost, or came after the provider's time limit.
ReplyLost(w) ==
    /\ pc[w] = "answer"
    /\ Fault
    /\ Answers(w, FALSE)
    /\ UNCHANGED <<ledger, row, provider, history>>

Crash ==
    /\ Fault
    /\ pc' = [w \in Workers |-> "idle"]
    /\ job' = [w \in Workers |-> None]
    /\ UNCHANGED <<ledger, row, provider, acked, history>>

-----------------------------------------------------------------------------
Init == /\ ledger = [e \in Events |-> "none"]
        /\ \E r \in StartRows : status = r.status /\ plan = r.plan /\ sid = r.sid
        /\ pc = [w \in Workers |-> "idle"]
        /\ job = [w \in Workers |-> None]
        /\ kind \in [Events -> Kinds]
        /\ overlap \in BOOLEAN
        /\ acked = {}
        /\ faults = 0
        /\ fate = [e \in Events |-> {}]
        /\ last = None

Process(w) == \/ Insert(w) \/ Lookup(w) \/ Reclaim(w) \/ Read(w) \/ Create(w) \/ Check(w)
              \/ Apply(w) \/ MarkProcessed(w) \/ MarkRejected(w) \/ Answer(w) \/ RecordError(w)

Next == \/ \E w \in Workers : \/ \E e \in Events : Deliver(w, e)
                              \/ Process(w) \/ StatementFails(w) \/ ReplyLost(w)
        \/ Crash

Retry(e) == e \notin acked /\ \E w \in Workers : Deliver(w, e)

\* Threads keep running; the provider retries what was not answered 2xx.
Fairness == /\ \A w \in Workers : WF_vars(Process(w))
            /\ \A e \in Events : SF_vars(Retry(e))

Spec == Init /\ [][Next]_vars /\ Fairness

-----------------------------------------------------------------------------
(* Properties *)

Points == {"idle", "insert", "lookup", "reclaim", "read", "create", "check", "apply",
           "mark", "reject", "answer", "failed"}

\* Every variable has its type, and a busy thread its event.
TypeOK == /\ ledger \in [Events -> LedgerStates]
          /\ status \in Statuses
          /\ plan \in Plans \union {Free}
          /\ sid \in Sids \union {None}
          /\ pc \in [Workers -> Points]
          /\ job \in [Workers -> Events \union {None}]
          /\ \A w \in Workers : pc[w] # "idle" => job[w] \in Events
          /\ kind \in [Events -> Kinds]
          /\ overlap \in BOOLEAN
          /\ acked \subseteq Events
          /\ faults \in Nat
          /\ fate \in [Events -> SUBSET {"took", "refused"}]
          /\ last \in Events \union {None}

\* "Never mark it permanently processed": the ledger says an event is processed
\* only when the subscription has stood where the event put it, however
\* deliveries overlap and wherever they are cut.
ProcessedTookEffect ==
    \A e \in Events : ledger[e] = "processed" => "took" \in fate[e]

\* The provider gives up on an event only when it took effect or was refused:
\* no error, crash or overlap loses a delivery behind a 2xx.
AckedIsSettled == \A e \in acked : fate[e] # {}

\* The plan changes only to the one named by the event that changes the row: a
\* thread that handles a failure, recovery or cancellation at the same time
\* cannot undo it.
PlanFollowsEvent ==
    [][plan' # plan => /\ last' \in Events
                       /\ kind[last'].plan = plan']_vars

\* While deliveries do not overlap, an ended subscription stays ended and a
\* payment can only fail on an active one, whatever order the events come in,
\* through retries, failures and crashes.
SerialLifecycle ==
    [][~overlap => /\ status = "expired" => status' = "expired"
                   /\ status = "canceled" => status' \in {"canceled", "expired"}
                   /\ status' = "past_due" => status \in {"past_due", "active"}]_vars

\* An event whose delivery was cut after it changed the row is recognised when
\* it comes again: neither written a second time nor "falsely rejected", unless
\* another event has changed the row meanwhile.
RedeliveryConverges ==
    \A w \in Workers :
        ~overlap /\ pc[w] \in {"apply", "reject"} => last # job[w]

\* What SubscriptionBook sees of the ledger.
BookOf == [e \in Events |-> IF ledger[e] \in Terminal THEN ledger[e] ELSE "open"]

TheBook == INSTANCE SubscriptionBook WITH Legal <- ALLOWED_TRANSITIONS,
                                          booked <- BookOf, promised <- acked

\* Retries, failed statements and crashes included, events take effect, are
\* refused, booked and answered as SubscriptionBook says: while deliveries do not
\* overlap, each on the row as it is, and never again once answered with 2xx.
ImplementsBook == TheBook!BSpec

\* While deliveries do not overlap, every event ends up processed or rejected
\* for good, whatever was cut on the way.
EventsSettle ==
    ~overlap => \A e \in Events : <>[](ledger[e] \in Terminal)

=============================================================================
