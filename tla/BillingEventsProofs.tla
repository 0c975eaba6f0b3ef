------------------------- MODULE BillingEventsProofs -------------------------
(***************************************************************************)
(* What BillingEvents promises for any number of events, threads and       *)
(* faults, and for every set of event kinds and starting rows.             *)
(***************************************************************************)
EXTENDS BillingEvents, TLAPS

(* The parts of the inductive invariant *)

\* Only events that are not refused get as far as the subscription.
Admitted == \A w \in Workers :
    pc[w] \in {"read", "create", "check", "apply", "mark"} => kind[job[w]].to # "bad"

\* The ledger, the answers and the threads about to write either agree with
\* what the events were seen to do.
Told ==
    /\ \A e \in Events : ledger[e] = "processed" => "took" \in fate[e]
    /\ \A e \in Events : ledger[e] = "rejected" => "refused" \in fate[e]
    /\ \A e \in acked : fate[e] # {}
    /\ \A w \in Workers : pc[w] = "mark" => "took" \in fate[job[w]]
    /\ \A w \in Workers : pc[w] = "answer" => fate[job[w]] # {}

\* An account without a row is on the default plan.
NoRow == status = "none" => plan = Free

\* The row says what the last event to change it says.
LastShows == last \in Events => status = kind[last].to /\ Converges(last)

\* Without overlap one thread works at a time ...
Serial == ~overlap => \A v, w \in Workers : pc[v] # "idle" /\ pc[w] # "idle" => v = w

\* ... and what it decided on the row it read still holds.
Decided == ~overlap => \A w \in Workers :
    /\ pc[w] \in {"check", "apply"} => can_transition(status, kind[job[w]].to)
    /\ pc[w] = "reject" /\ kind[job[w]].to # "bad" =>
           /\ ~(status = kind[job[w]].to /\ Converges(job[w]))
           /\ ~can_transition(status, kind[job[w]].to)

\* ... and an event that was answered with 2xx is booked and left alone.
Settled == ~overlap =>
    /\ \A e \in acked : ledger[e] \in Terminal
    /\ \A w \in Workers : /\ pc[w] \notin {"idle", "insert", "lookup"} => job[w] \notin acked
                          /\ pc[w] = "answer" => ledger[job[w]] \in Terminal

Inv == TypeOK /\ Admitted /\ Told /\ NoRow /\ LastShows /\ Serial /\ Decided /\ Settled

-----------------------------------------------------------------------------
(* Init *)

LEMMA InvInit == Init => Inv
  BY StartRowsAssumption, NoneAssumption
  DEF Init, Inv, TypeOK, Admitted, Told, NoRow, LastShows, Serial, Decided, Settled,
      LedgerStates, Points, Statuses

\* What an event may say.
LEMMA KindType == ASSUME TypeOK, NEW e \in Events
                  PROVE  /\ kind[e].to \in Statuses \union {"bad"}
                         /\ kind[e].to # "none"
                         /\ kind[e].plan \in Plans \union {None}
                         /\ kind[e].sid \in Sids \union {None}
  BY KindsAssumption DEF TypeOK, NormalizedEvents, Statuses

\* No status leads back to itself, and none leads out of expired.
LEMMA Lifecycle == \A from, to :
    can_transition(from, to) => /\ from # to
                                /\ from # "expired"
                                /\ from = "canceled" => to = "expired"
                                /\ to = "past_due" => from = "active"
  BY DEF can_transition, ALLOWED_TRANSITIONS

-----------------------------------------------------------------------------
(* Steps *)

LEMMA TypeNext == TypeOK /\ Admitted /\ [Next]_vars => TypeOK'
<1> SUFFICES ASSUME TypeOK /\ Admitted, [Next]_vars
             PROVE  TypeOK'
  OBVIOUS
<1> USE DEF TypeOK, Points, LedgerStates, Terminal, Statuses
<1>1. ASSUME NEW w \in Workers, NEW e \in Events, Deliver(w, e)
      PROVE  TypeOK'
  BY <1>1 DEF Deliver, Goto, row, provider, history
<1>2. ASSUME NEW w \in Workers, Insert(w)
      PROVE  TypeOK'
  BY <1>2 DEF Insert, Goto, Set, Claimed, row, provider, history
<1>3. ASSUME NEW w \in Workers, Lookup(w)
      PROVE  TypeOK'
  BY <1>3 DEF Lookup, Goto, Answers, Terminal, row, provider, history
<1>4. ASSUME NEW w \in Workers, Reclaim(w)
      PROVE  TypeOK'
  BY <1>4 DEF Reclaim, Goto, Set, Claimed, row, provider, history
<1>5. ASSUME NEW w \in Workers, Read(w)
      PROVE  TypeOK'
  BY <1>5 DEF Read, Goto, Tell, row, provider, history
<1>6. ASSUME NEW w \in Workers, Create(w)
      PROVE  TypeOK'
  BY <1>6 DEF Create, Goto, row, provider, history
<1>7. ASSUME NEW w \in Workers, Check(w)
      PROVE  TypeOK'
  BY <1>7 DEF Check, Goto, row, provider, history
<1>8. ASSUME NEW w \in Workers, Apply(w)
      PROVE  TypeOK'
  BY <1>8, KindType DEF Apply, Goto, Tell, row, provider, history, Admitted
<1>9. ASSUME NEW w \in Workers, MarkProcessed(w)
      PROVE  TypeOK'
  BY <1>9 DEF MarkProcessed, Goto, Set, row, provider, history
<1>10. ASSUME NEW w \in Workers, MarkRejected(w)
      PROVE  TypeOK'
  BY <1>10 DEF MarkRejected, Goto, Set, Tell, row, provider, history
<1>11. ASSUME NEW w \in Workers, Answer(w)
      PROVE  TypeOK'
  BY <1>11 DEF Answer, Answers, Goto, row, provider, history
<1>12. ASSUME NEW w \in Workers, RecordError(w)
      PROVE  TypeOK'
  BY <1>12 DEF RecordError, Answers, Goto, Set, row, provider, history
<1>13. ASSUME NEW w \in Workers, StatementFails(w)
      PROVE  TypeOK'
  BY <1>13 DEF StatementFails, Fault, Guarded, Answers, Goto, row, provider, history
<1>14. ASSUME NEW w \in Workers, ReplyLost(w)
      PROVE  TypeOK'
  BY <1>14 DEF ReplyLost, Fault, Answers, Goto, row, provider, history
<1>15. CASE Crash
  BY <1>15 DEF Crash, Fault, row, provider, history
<1>16. CASE UNCHANGED vars
  BY <1>16 DEF vars
<1> QED
  BY <1>1, <1>2, <1>3, <1>4, <1>5, <1>6, <1>7, <1>8, <1>9, <1>10, <1>11, <1>12, <1>13, <1>14, <1>15, <1>16 DEF Next, Process

LEMMA AdmittedNext == TypeOK /\ Admitted /\ [Next]_vars => Admitted'
<1> SUFFICES ASSUME TypeOK /\ Admitted, [Next]_vars
             PROVE  Admitted'
  OBVIOUS
<1> USE DEF TypeOK, Admitted
<1>1. ASSUME NEW w \in Workers, NEW e \in Events, Deliver(w, e)
      PROVE  Admitted'
  BY <1>1 DEF Deliver, Goto, row, provider, history
<1>2. ASSUME NEW w \in Workers, Insert(w)
      PROVE  Admitted'
  BY <1>2 DEF Insert, Goto, Set, Claimed, row, provider, history
<1>3. ASSUME NEW w \in Workers, Lookup(w)
      PROVE  Admitted'
  BY <1>3 DEF Lookup, Goto, Answers, Terminal, row, provider, history
<1>4. ASSUME NEW w \in Workers, Reclaim(w)
      PROVE  Admitted'
  BY <1>4 DEF Reclaim, Goto, Set, Claimed, row, provider, history
<1>5. ASSUME NEW w \in Workers, Read(w)
      PROVE  Admitted'
  BY <1>5 DEF Read, Goto, Tell, row, provider, history
<1>6. ASSUME NEW w \in Workers, Create(w)
      PROVE  Admitted'
  BY <1>6 DEF Create, Goto, row, provider, history
<1>7. ASSUME NEW w \in Workers, Check(w)
      PROVE  Admitted'
  BY <1>7 DEF Check, Goto, row, provider, history
<1>8. ASSUME NEW w \in Workers, Apply(w)
      PROVE  Admitted'
  BY <1>8 DEF Apply, Goto, Tell, row, provider, history
<1>9. ASSUME NEW w \in Workers, MarkProcessed(w)
      PROVE  Admitted'
  BY <1>9 DEF MarkProcessed, Goto, Set, row, provider, history
<1>10. ASSUME NEW w \in Workers, MarkRejected(w)
      PROVE  Admitted'
  BY <1>10 DEF MarkRejected, Goto, Set, Tell, row, provider, history
<1>11. ASSUME NEW w \in Workers, Answer(w)
      PROVE  Admitted'
  BY <1>11 DEF Answer, Answers, Goto, row, provider, history
<1>12. ASSUME NEW w \in Workers, RecordError(w)
      PROVE  Admitted'
  BY <1>12 DEF RecordError, Answers, Goto, Set, row, provider, history
<1>13. ASSUME NEW w \in Workers, StatementFails(w)
      PROVE  Admitted'
  BY <1>13 DEF StatementFails, Fault, Guarded, Answers, Goto, row, provider, history
<1>14. ASSUME NEW w \in Workers, ReplyLost(w)
      PROVE  Admitted'
  BY <1>14 DEF ReplyLost, Fault, Answers, Goto, row, provider, history
<1>15. CASE Crash
  BY <1>15 DEF Crash, Fault, row, provider, history
<1>16. CASE UNCHANGED vars
  BY <1>16 DEF vars
<1> QED
  BY <1>1, <1>2, <1>3, <1>4, <1>5, <1>6, <1>7, <1>8, <1>9, <1>10, <1>11, <1>12, <1>13, <1>14, <1>15, <1>16 DEF Next, Process

LEMMA ToldNext == TypeOK /\ Told /\ [Next]_vars => Told'
<1> SUFFICES ASSUME TypeOK /\ Told, [Next]_vars
             PROVE  Told'
  OBVIOUS
<1> USE DEF TypeOK, Told, LedgerStates, Terminal
<1>1. ASSUME NEW w \in Workers, NEW e \in Events, Deliver(w, e)
      PROVE  Told'
  BY <1>1 DEF Deliver, Goto, row, provider, history
<1>2. ASSUME NEW w \in Workers, Insert(w)
      PROVE  Told'
  BY <1>2 DEF Insert, Goto, Set, Claimed, row, provider, history
<1>3. ASSUME NEW w \in Workers, Lookup(w)
      PROVE  Told'
  BY <1>3 DEF Lookup, Goto, Answers, Terminal, row, provider, history
<1>4. ASSUME NEW w \in Workers, Reclaim(w)
      PROVE  Told'
  BY <1>4 DEF Reclaim, Goto, Set, Claimed, row, provider, history
<1>5. ASSUME NEW w \in Workers, Read(w)
      PROVE  Told'
  BY <1>5 DEF Read, Goto, Tell, row, provider, history
<1>6. ASSUME NEW w \in Workers, Create(w)
      PROVE  Told'
  BY <1>6 DEF Create, Goto, row, provider, history
<1>7. ASSUME NEW w \in Workers, Check(w)
      PROVE  Told'
  BY <1>7 DEF Check, Goto, row, provider, history
<1>8. ASSUME NEW w \in Workers, Apply(w)
      PROVE  Told'
  BY <1>8 DEF Apply, Goto, Tell, row, provider, history
<1>9. ASSUME NEW w \in Workers, MarkProcessed(w)
      PROVE  Told'
  BY <1>9 DEF MarkProcessed, Goto, Set, row, provider, history
<1>10. ASSUME NEW w \in Workers, MarkRejected(w)
      PROVE  Told'
  BY <1>10 DEF MarkRejected, Goto, Set, Tell, row, provider, history
<1>11. ASSUME NEW w \in Workers, Answer(w)
      PROVE  Told'
  BY <1>11 DEF Answer, Answers, Goto, row, provider, history
<1>12. ASSUME NEW w \in Workers, RecordError(w)
      PROVE  Told'
  BY <1>12 DEF RecordError, Answers, Goto, Set, row, provider, history
<1>13. ASSUME NEW w \in Workers, StatementFails(w)
      PROVE  Told'
  BY <1>13 DEF StatementFails, Fault, Guarded, Answers, Goto, row, provider, history
<1>14. ASSUME NEW w \in Workers, ReplyLost(w)
      PROVE  Told'
  BY <1>14 DEF ReplyLost, Fault, Answers, Goto, row, provider, history
<1>15. CASE Crash
  BY <1>15 DEF Crash, Fault, row, provider, history
<1>16. CASE UNCHANGED vars
  BY <1>16 DEF vars
<1> QED
  BY <1>1, <1>2, <1>3, <1>4, <1>5, <1>6, <1>7, <1>8, <1>9, <1>10, <1>11, <1>12, <1>13, <1>14, <1>15, <1>16 DEF Next, Process

LEMMA NoRowNext == TypeOK /\ NoRow /\ [Next]_vars => NoRow'
<1> SUFFICES ASSUME TypeOK /\ NoRow, [Next]_vars
             PROVE  NoRow'
  OBVIOUS
<1> USE DEF NoRow
<1>1. ASSUME NEW w \in Workers, NEW e \in Events, Deliver(w, e)
      PROVE  NoRow'
  BY <1>1 DEF Deliver, Goto, row, provider, history
<1>2. ASSUME NEW w \in Workers, Insert(w)
      PROVE  NoRow'
  BY <1>2 DEF Insert, Goto, Set, Claimed, row, provider, history
<1>3. ASSUME NEW w \in Workers, Lookup(w)
      PROVE  NoRow'
  BY <1>3 DEF Lookup, Goto, Answers, Terminal, row, provider, history
<1>4. ASSUME NEW w \in Workers, Reclaim(w)
      PROVE  NoRow'
  BY <1>4 DEF Reclaim, Goto, Set, Claimed, row, provider, history
<1>5. ASSUME NEW w \in Workers, Read(w)
      PROVE  NoRow'
  BY <1>5 DEF Read, Goto, Tell, row, provider, history
<1>6. ASSUME NEW w \in Workers, Create(w)
      PROVE  NoRow'
  BY <1>6 DEF Create, Goto, row, provider, history
<1>7. ASSUME NEW w \in Workers, Check(w)
      PROVE  NoRow'
  BY <1>7 DEF Check, Goto, row, provider, history
<1>8. ASSUME NEW w \in Workers, Apply(w)
      PROVE  NoRow'
  BY <1>8, KindType DEF Apply, Goto, Tell, row, provider, history, TypeOK
<1>9. ASSUME NEW w \in Workers, MarkProcessed(w)
      PROVE  NoRow'
  BY <1>9 DEF MarkProcessed, Goto, Set, row, provider, history
<1>10. ASSUME NEW w \in Workers, MarkRejected(w)
      PROVE  NoRow'
  BY <1>10 DEF MarkRejected, Goto, Set, Tell, row, provider, history
<1>11. ASSUME NEW w \in Workers, Answer(w)
      PROVE  NoRow'
  BY <1>11 DEF Answer, Answers, Goto, row, provider, history
<1>12. ASSUME NEW w \in Workers, RecordError(w)
      PROVE  NoRow'
  BY <1>12 DEF RecordError, Answers, Goto, Set, row, provider, history
<1>13. ASSUME NEW w \in Workers, StatementFails(w)
      PROVE  NoRow'
  BY <1>13 DEF StatementFails, Fault, Guarded, Answers, Goto, row, provider, history
<1>14. ASSUME NEW w \in Workers, ReplyLost(w)
      PROVE  NoRow'
  BY <1>14 DEF ReplyLost, Fault, Answers, Goto, row, provider, history
<1>15. CASE Crash
  BY <1>15 DEF Crash, Fault, row, provider, history
<1>16. CASE UNCHANGED vars
  BY <1>16 DEF vars
<1> QED
  BY <1>1, <1>2, <1>3, <1>4, <1>5, <1>6, <1>7, <1>8, <1>9, <1>10, <1>11, <1>12, <1>13, <1>14, <1>15, <1>16 DEF Next, Process

LEMMA LastShowsNext == TypeOK /\ LastShows /\ [Next]_vars => LastShows'
<1> SUFFICES ASSUME TypeOK /\ LastShows, [Next]_vars
             PROVE  LastShows'
  OBVIOUS
<1> USE DEF LastShows, Converges
<1>1. ASSUME NEW w \in Workers, NEW e \in Events, Deliver(w, e)
      PROVE  LastShows'
  BY <1>1 DEF Deliver, Goto, row, provider, history
<1>2. ASSUME NEW w \in Workers, Insert(w)
      PROVE  LastShows'
  BY <1>2 DEF Insert, Goto, Set, Claimed, row, provider, history
<1>3. ASSUME NEW w \in Workers, Lookup(w)
      PROVE  LastShows'
  BY <1>3 DEF Lookup, Goto, Answers, Terminal, row, provider, history
<1>4. ASSUME NEW w \in Workers, Reclaim(w)
      PROVE  LastShows'
  BY <1>4 DEF Reclaim, Goto, Set, Claimed, row, provider, history
<1>5. ASSUME NEW w \in Workers, Read(w)
      PROVE  LastShows'
  BY <1>5 DEF Read, Goto, Tell, row, provider, history
<1>6. ASSUME NEW w \in Workers, Create(w)
      PROVE  LastShows'
  BY <1>6, KindType DEF Create, Goto, row, provider, history
<1>7. ASSUME NEW w \in Workers, Check(w)
      PROVE  LastShows'
  BY <1>7 DEF Check, Goto, row, provider, history
<1>8. ASSUME NEW w \in Workers, Apply(w)
      PROVE  LastShows'
  BY <1>8, KindType DEF Apply, Goto, Tell, row, provider, history
<1>9. ASSUME NEW w \in Workers, MarkProcessed(w)
      PROVE  LastShows'
  BY <1>9 DEF MarkProcessed, Goto, Set, row, provider, history
<1>10. ASSUME NEW w \in Workers, MarkRejected(w)
      PROVE  LastShows'
  BY <1>10 DEF MarkRejected, Goto, Set, Tell, row, provider, history
<1>11. ASSUME NEW w \in Workers, Answer(w)
      PROVE  LastShows'
  BY <1>11 DEF Answer, Answers, Goto, row, provider, history
<1>12. ASSUME NEW w \in Workers, RecordError(w)
      PROVE  LastShows'
  BY <1>12 DEF RecordError, Answers, Goto, Set, row, provider, history
<1>13. ASSUME NEW w \in Workers, StatementFails(w)
      PROVE  LastShows'
  BY <1>13 DEF StatementFails, Fault, Guarded, Answers, Goto, row, provider, history
<1>14. ASSUME NEW w \in Workers, ReplyLost(w)
      PROVE  LastShows'
  BY <1>14 DEF ReplyLost, Fault, Answers, Goto, row, provider, history
<1>15. CASE Crash
  BY <1>15 DEF Crash, Fault, row, provider, history
<1>16. CASE UNCHANGED vars
  BY <1>16 DEF vars
<1> QED
  BY <1>1, <1>2, <1>3, <1>4, <1>5, <1>6, <1>7, <1>8, <1>9, <1>10, <1>11, <1>12, <1>13, <1>14, <1>15, <1>16 DEF Next, Process

LEMMA SerialNext == TypeOK /\ Serial /\ [Next]_vars => Serial'
<1> SUFFICES ASSUME TypeOK /\ Serial, [Next]_vars
             PROVE  Serial'
  OBVIOUS
<1> USE DEF TypeOK, Serial
<1>1. ASSUME NEW w \in Workers, NEW e \in Events, Deliver(w, e)
      PROVE  Serial'
  BY <1>1 DEF Deliver, Goto, row, provider, history
<1>2. ASSUME NEW w \in Workers, Insert(w)
      PROVE  Serial'
  BY <1>2 DEF Insert, Goto, Set, Claimed, row, provider, history
<1>3. ASSUME NEW w \in Workers, Lookup(w)
      PROVE  Serial'
  BY <1>3 DEF Lookup, Goto, Answers, Terminal, row, provider, history
<1>4. ASSUME NEW w \in Workers, Reclaim(w)
      PROVE  Serial'
  BY <1>4 DEF Reclaim, Goto, Set, Claimed, row, provider, history
<1>5. ASSUME NEW w \in Workers, Read(w)
      PROVE  Serial'
  BY <1>5 DEF Read, Goto, Tell, row, provider, history
<1>6. ASSUME NEW w \in Workers, Create(w)
      PROVE  Serial'
  BY <1>6 DEF Create, Goto, row, provider, history
<1>7. ASSUME NEW w \in Workers, Check(w)
      PROVE  Serial'
  BY <1>7 DEF Check, Goto, row, provider, history
<1>8. ASSUME NEW w \in Workers, Apply(w)
      PROVE  Serial'
  BY <1>8 DEF Apply, Goto, Tell, row, provider, history
<1>9. ASSUME NEW w \in Workers, MarkProcessed(w)
      PROVE  Serial'
  BY <1>9 DEF MarkProcessed, Goto, Set, row, provider, history
<1>10. ASSUME NEW w \in Workers, MarkRejected(w)
      PROVE  Serial'
  BY <1>10 DEF MarkRejected, Goto, Set, Tell, row, provider, history
<1>11. ASSUME NEW w \in Workers, Answer(w)
      PROVE  Serial'
  BY <1>11 DEF Answer, Answers, Goto, row, provider, history
<1>12. ASSUME NEW w \in Workers, RecordError(w)
      PROVE  Serial'
  BY <1>12 DEF RecordError, Answers, Goto, Set, row, provider, history
<1>13. ASSUME NEW w \in Workers, StatementFails(w)
      PROVE  Serial'
  BY <1>13 DEF StatementFails, Fault, Guarded, Answers, Goto, row, provider, history
<1>14. ASSUME NEW w \in Workers, ReplyLost(w)
      PROVE  Serial'
  BY <1>14 DEF ReplyLost, Fault, Answers, Goto, row, provider, history
<1>15. CASE Crash
  BY <1>15 DEF Crash, Fault, row, provider, history
<1>16. CASE UNCHANGED vars
  BY <1>16 DEF vars
<1> QED
  BY <1>1, <1>2, <1>3, <1>4, <1>5, <1>6, <1>7, <1>8, <1>9, <1>10, <1>11, <1>12, <1>13, <1>14, <1>15, <1>16 DEF Next, Process

LEMMA DecidedNext == TypeOK /\ Serial /\ Decided /\ [Next]_vars => Decided'
<1> SUFFICES ASSUME TypeOK /\ Serial /\ Decided, [Next]_vars
             PROVE  Decided'
  OBVIOUS
<1> USE DEF TypeOK, Serial, Decided, Converges
<1>1. ASSUME NEW w \in Workers, NEW e \in Events, Deliver(w, e)
      PROVE  Decided'
  BY <1>1 DEF Deliver, Goto, row, provider, history
<1>2. ASSUME NEW w \in Workers, Insert(w)
      PROVE  Decided'
  BY <1>2 DEF Insert, Goto, Set, Claimed, row, provider, history
<1>3. ASSUME NEW w \in Workers, Lookup(w)
      PROVE  Decided'
  BY <1>3 DEF Lookup, Goto, Answers, Terminal, row, provider, history
<1>4. ASSUME NEW w \in Workers, Reclaim(w)
      PROVE  Decided'
  BY <1>4 DEF Reclaim, Goto, Set, Claimed, row, provider, history
<1>5. ASSUME NEW w \in Workers, Read(w)
      PROVE  Decided'
  BY <1>5 DEF Read, Goto, Tell, row, provider, history
<1>6. ASSUME NEW w \in Workers, Create(w)
      PROVE  Decided'
  BY <1>6 DEF Create, Goto, row, provider, history
<1>7. ASSUME NEW w \in Workers, Check(w)
      PROVE  Decided'
  BY <1>7 DEF Check, Goto, row, provider, history
<1>8. ASSUME NEW w \in Workers, Apply(w)
      PROVE  Decided'
  BY <1>8 DEF Apply, Goto, Tell, row, provider, history
<1>9. ASSUME NEW w \in Workers, MarkProcessed(w)
      PROVE  Decided'
  BY <1>9 DEF MarkProcessed, Goto, Set, row, provider, history
<1>10. ASSUME NEW w \in Workers, MarkRejected(w)
      PROVE  Decided'
  BY <1>10 DEF MarkRejected, Goto, Set, Tell, row, provider, history
<1>11. ASSUME NEW w \in Workers, Answer(w)
      PROVE  Decided'
  BY <1>11 DEF Answer, Answers, Goto, row, provider, history
<1>12. ASSUME NEW w \in Workers, RecordError(w)
      PROVE  Decided'
  BY <1>12 DEF RecordError, Answers, Goto, Set, row, provider, history
<1>13. ASSUME NEW w \in Workers, StatementFails(w)
      PROVE  Decided'
  BY <1>13 DEF StatementFails, Fault, Guarded, Answers, Goto, row, provider, history
<1>14. ASSUME NEW w \in Workers, ReplyLost(w)
      PROVE  Decided'
  BY <1>14 DEF ReplyLost, Fault, Answers, Goto, row, provider, history
<1>15. CASE Crash
  BY <1>15 DEF Crash, Fault, row, provider, history
<1>16. CASE UNCHANGED vars
  BY <1>16 DEF vars
<1> QED
  BY <1>1, <1>2, <1>3, <1>4, <1>5, <1>6, <1>7, <1>8, <1>9, <1>10, <1>11, <1>12, <1>13, <1>14, <1>15, <1>16 DEF Next, Process

LEMMA SettledNext == TypeOK /\ Serial /\ Settled /\ [Next]_vars => Settled'
<1> SUFFICES ASSUME TypeOK /\ Serial /\ Settled, [Next]_vars
             PROVE  Settled'
  OBVIOUS
<1> USE DEF TypeOK, Serial, Settled, Terminal
<1>1. ASSUME NEW w \in Workers, NEW e \in Events, Deliver(w, e)
      PROVE  Settled'
  BY <1>1 DEF Deliver, Goto, row, provider, history
<1>2. ASSUME NEW w \in Workers, Insert(w)
      PROVE  Settled'
  BY <1>2 DEF Insert, Goto, Set, Claimed, row, provider, history
<1>3. ASSUME NEW w \in Workers, Lookup(w)
      PROVE  Settled'
  BY <1>3 DEF Lookup, Goto, Answers, Terminal, row, provider, history
<1>4. ASSUME NEW w \in Workers, Reclaim(w)
      PROVE  Settled'
  BY <1>4 DEF Reclaim, Goto, Set, Claimed, row, provider, history
<1>5. ASSUME NEW w \in Workers, Read(w)
      PROVE  Settled'
  BY <1>5 DEF Read, Goto, Tell, row, provider, history
<1>6. ASSUME NEW w \in Workers, Create(w)
      PROVE  Settled'
  BY <1>6 DEF Create, Goto, row, provider, history
<1>7. ASSUME NEW w \in Workers, Check(w)
      PROVE  Settled'
  BY <1>7 DEF Check, Goto, row, provider, history
<1>8. ASSUME NEW w \in Workers, Apply(w)
      PROVE  Settled'
  BY <1>8 DEF Apply, Goto, Tell, row, provider, history
<1>9. ASSUME NEW w \in Workers, MarkProcessed(w)
      PROVE  Settled'
  BY <1>9 DEF MarkProcessed, Goto, Set, row, provider, history
<1>10. ASSUME NEW w \in Workers, MarkRejected(w)
      PROVE  Settled'
  BY <1>10 DEF MarkRejected, Goto, Set, Tell, row, provider, history
<1>11. ASSUME NEW w \in Workers, Answer(w)
      PROVE  Settled'
  BY <1>11 DEF Answer, Answers, Goto, row, provider, history
<1>12. ASSUME NEW w \in Workers, RecordError(w)
      PROVE  Settled'
  BY <1>12 DEF RecordError, Answers, Goto, Set, row, provider, history
<1>13. ASSUME NEW w \in Workers, StatementFails(w)
      PROVE  Settled'
  BY <1>13 DEF StatementFails, Fault, Guarded, Answers, Goto, row, provider, history
<1>14. ASSUME NEW w \in Workers, ReplyLost(w)
      PROVE  Settled'
  BY <1>14 DEF ReplyLost, Fault, Answers, Goto, row, provider, history
<1>15. CASE Crash
  BY <1>15 DEF Crash, Fault, row, provider, history
<1>16. CASE UNCHANGED vars
  BY <1>16 DEF vars
<1> QED
  BY <1>1, <1>2, <1>3, <1>4, <1>5, <1>6, <1>7, <1>8, <1>9, <1>10, <1>11, <1>12, <1>13, <1>14, <1>15, <1>16 DEF Next, Process

-----------------------------------------------------------------------------
(* The theorems *)

LEMMA InvNext == Inv /\ [Next]_vars => Inv'
  BY TypeNext, AdmittedNext, ToldNext, NoRowNext, LastShowsNext, SerialNext, DecidedNext,
     SettledNext DEF Inv

LEMMA Invariance == Spec => []Inv
<1>1. Init => Inv
  BY InvInit
<1>2. Inv /\ [Next]_vars => Inv'
  BY InvNext
<1> QED
  BY <1>1, <1>2, PTL DEF Spec

\* Every column of the row, every ledger state and every thread keep their
\* types, whatever events arrive and wherever they are cut: process_provider_event
\* never writes a column the event does not speak of.
THEOREM BillingTypeCorrect == Spec => []TypeOK
<1>1. Inv => TypeOK
  BY DEF Inv
<1> QED
  BY <1>1, Invariance, PTL

\* mark_processed books only events the subscription has followed.
THEOREM ProcessedIsReal == Spec => []ProcessedTookEffect
<1>1. Inv => ProcessedTookEffect
  BY DEF Inv, Told, ProcessedTookEffect
<1> QED
  BY <1>1, Invariance, PTL

\* A 2xx of the webhook never loses an event that neither took effect nor was
\* refused.
THEOREM NoEventLost == Spec => []AckedIsSettled
<1>1. Inv => AckedIsSettled
  BY DEF Inv, Told, AckedIsSettled
<1> QED
  BY <1>1, Invariance, PTL

\* apply_provider_transition and ensure_subscription change the plan only to the
\* one the event carries.
THEOREM PlanIsPaidFor == Spec => PlanFollowsEvent
<1>1. Inv /\ [Next]_vars => [plan' # plan => /\ last' \in Events
                                             /\ kind[last'].plan = plan']_vars
  <2> SUFFICES ASSUME Inv, Next, plan' # plan
               PROVE  last' \in Events /\ kind[last'].plan = plan'
    BY DEF vars
  <2>1. PICK w \in Workers : Create(w) \/ Apply(w)
    BY DEF Next, Process, Deliver, Insert, Lookup, Reclaim, Read, Check, MarkProcessed,
           MarkRejected, Answer, RecordError, StatementFails, ReplyLost, Crash, row
  <2>2. CASE Create(w)
    BY <2>2 DEF Create, Inv, NoRow, row
  <2>3. CASE Apply(w)
    BY <2>3 DEF Apply, Inv, TypeOK
  <2> QED
    BY <2>1, <2>2, <2>3
<1> QED
  BY <1>1, Invariance, PTL DEF Spec, PlanFollowsEvent

\* Without overlap the decision can_transition makes on the status that was read
\* still holds when the row is written.
THEOREM LifecycleKept == Spec => SerialLifecycle
<1> DEFINE Kept == ~overlap => /\ status = "expired" => status' = "expired"
                               /\ status = "canceled" => status' \in {"canceled", "expired"}
                               /\ status' = "past_due" => status \in {"past_due", "active"}
<1>1. Inv /\ [Next]_vars => [Kept]_vars
  <2> SUFFICES ASSUME Inv, Next, ~overlap, status' # status
               PROVE  Kept
    BY DEF vars
  <2>1. PICK w \in Workers : Create(w) \/ Apply(w)
    BY DEF Next, Process, Deliver, Insert, Lookup, Reclaim, Read, Check, MarkProcessed,
           MarkRejected, Answer, RecordError, StatementFails, ReplyLost, Crash, row
  <2>2. CASE Create(w)
    BY <2>2 DEF Create, row
  <2>3. CASE Apply(w)
    <3>1. can_transition(status, kind[job[w]].to)
      BY <2>3 DEF Apply, Inv, Decided
    <3>2. status' = kind[job[w]].to
      BY <2>3 DEF Apply
    <3> QED
      BY <3>1, <3>2, Lifecycle
  <2> QED
    BY <2>1, <2>2, <2>3
<1> QED
  BY <1>1, Invariance, PTL DEF Spec, SerialLifecycle

\* An event about to be written or refused is not the one the row shows.
LEMMA NotTheLast ==
  ASSUME Inv, ~overlap, NEW w \in Workers, pc[w] \in {"apply", "reject"}
  PROVE  last # job[w]
<1>. SUFFICES ASSUME last = job[w] PROVE FALSE
  OBVIOUS
<1>1. job[w] \in Events /\ status = kind[job[w]].to /\ Converges(job[w])
  BY DEF Inv, TypeOK, LastShows
<1>2. CASE pc[w] = "apply"
  BY <1>1, <1>2, Lifecycle DEF Inv, Decided
<1>3. CASE pc[w] = "reject"
  BY <1>1, <1>3 DEF Inv, Decided, TypeOK, Statuses
<1>. QED BY <1>2, <1>3

\* _converges recognises an event that has already been applied.
THEOREM RedeliveryRecognised == Spec => []RedeliveryConverges
<1>1. Inv => RedeliveryConverges
  BY NotTheLast DEF RedeliveryConverges
<1> QED
  BY <1>1, Invariance, PTL

-----------------------------------------------------------------------------
(* The refinement of SubscriptionBook *)

AStep == TheBook!BNext \/ UNCHANGED TheBook!bvars

\* What writing one row of the ledger is in the book.
LEMMA BookSet ==
  ASSUME TypeOK, NEW e \in Events, NEW s, Set(e, s)
  PROVE  BookOf' = [BookOf EXCEPT ![e] = IF s \in Terminal THEN s ELSE "open"]
BY DEF TypeOK, Set, BookOf

LEMMA BookSame == ASSUME UNCHANGED ledger PROVE UNCHANGED BookOf
BY DEF BookOf

\* A thread that answers 2xx promises an event that was settled.
LEMMA AnswerPromises ==
  ASSUME Inv, NEW e \in Events, fate[e] # {}, ~overlap => ledger[e] \in Terminal,
         acked' = acked \union {e}, UNCHANGED <<ledger, row, provider, history>>
  PROVE  AStep
<1>1. UNCHANGED BookOf
  BY BookSame
<1>2. ~overlap => BookOf[e] # "open"
  BY DEF BookOf, Terminal
<1>. QED BY <1>1, <1>2
         DEF AStep, row, provider, history, TheBook!BNext, TheBook!Promise,
             TheBook!Serially, TheBook!account, TheBook!given

\* Writing "received" or "processing" opens the event again, or changes nothing.
LEMMA SetReopens ==
  ASSUME Inv, NEW e \in Events, NEW s \in {"received", "processing"}, Set(e, s),
         ~overlap => e \notin acked, UNCHANGED <<row, provider, acked, history>>
  PROVE  AStep
<1>1. BookOf' = [BookOf EXCEPT ![e] = "open"]
  BY BookSet DEF Inv, Terminal
<1>. QED BY <1>1
         DEF AStep, row, provider, history, TheBook!BNext, TheBook!Reopen, TheBook!Books,
             TheBook!Unsettled, TheBook!Serially, TheBook!account, TheBook!given

LEMMA Invisible ==
  ASSUME UNCHANGED <<BookOf, row, provider, acked, history>>
  PROVE  AStep
BY DEF AStep, row, provider, history, TheBook!bvars, TheBook!account, TheBook!given

LEMMA ClaimImplements ==
  ASSUME Inv, NEW w \in Workers, Insert(w) \/ Lookup(w) \/ Reclaim(w)
  PROVE  AStep
<1>0. TypeOK /\ Told /\ Settled
  BY DEF Inv
<1>1. job[w] \in Events
  BY <1>0 DEF TypeOK, Insert, Lookup, Reclaim
<1>2. CASE Insert(w)
  <2>1. CASE ledger[job[w]] = "none"
    <3>1. BookOf' = [BookOf EXCEPT ![job[w]] = "open"] /\ BookOf[job[w]] = "open"
      BY <1>0, <1>1, <1>2, <2>1, BookSet DEF Insert, BookOf, Terminal
    <3>2. UNCHANGED BookOf
      BY <3>1 DEF BookOf
    <3>. QED BY <1>2, <3>2, Invisible DEF Insert
  <2>2. CASE ledger[job[w]] # "none"
    BY <1>2, <2>2, BookSame, Invisible DEF Insert
  <2>. QED BY <2>1, <2>2
<1>3. CASE Lookup(w)
  <2>1. CASE ledger[job[w]] \in Terminal
    <3>1. fate[job[w]] # {}
      BY <1>0, <1>1, <2>1 DEF Told, Terminal
    <3>2. acked' = acked \union {job[w]} /\ UNCHANGED <<ledger, row, provider, history>>
      BY <1>3, <2>1 DEF Lookup, Answers
    <3>. QED BY <1>1, <2>1, <3>1, <3>2, AnswerPromises
  <2>2. CASE ledger[job[w]] \notin Terminal
    BY <1>3, <2>2, BookSame, Invisible DEF Lookup
  <2>. QED BY <2>1, <2>2
<1>4. CASE Reclaim(w)
  <2>1. Set(job[w], "processing") /\ UNCHANGED <<row, provider, acked, history>>
    BY <1>4 DEF Reclaim
  <2>2. ~overlap => job[w] \notin acked
    BY <1>0, <1>4 DEF Settled, Reclaim
  <2>. QED BY <1>1, <2>1, <2>2, SetReopens
<1>. QED BY <1>2, <1>3, <1>4

LEMMA DecideImplements ==
  ASSUME Inv, NEW w \in Workers, Read(w) \/ Create(w) \/ Check(w) \/ Apply(w)
  PROVE  AStep
<1>0. TypeOK /\ Decided /\ Settled
  BY DEF Inv
<1>1. /\ job[w] \in Events
      /\ ~overlap => job[w] \notin acked
      /\ UNCHANGED <<BookOf, provider, acked>>
  BY <1>0, BookSame DEF TypeOK, Settled, Read, Create, Check, Apply
<1>. USE DEF provider, history, row
<1>2. CASE Read(w)
  <2>1. CASE UNCHANGED fate
    BY <1>1, <1>2, <2>1, Invisible DEF Read
  <2>2. CASE status = kind[job[w]].to /\ Converges(job[w]) /\ Tell(job[w], "took")
    BY <1>1, <1>2, <2>2
    DEF Read, Tell, Converges, AStep, TheBook!BNext, TheBook!Recognise, TheBook!Did,
        TheBook!Shows, TheBook!Unsettled, TheBook!Serially, TheBook!account, TheBook!given
  <2>. QED BY <1>2, <2>1, <2>2 DEF Read
<1>3. CASE Create(w)
  <2>1. CASE status = "none"
    BY <1>1, <1>3, <2>1
    DEF Create, AStep, TheBook!BNext, TheBook!OpenAccount, TheBook!given
  <2>2. CASE status # "none"
    BY <1>1, <1>3, <2>2, Invisible DEF Create
  <2>. QED BY <2>1, <2>2
<1>4. CASE Check(w)
  BY <1>1, <1>4, Invisible DEF Check
<1>5. CASE Apply(w)
  <2>1. ~overlap => /\ <<status, kind[job[w]].to>> \in ALLOWED_TRANSITIONS
                    /\ last # job[w]
    BY <1>0, <1>5, NotTheLast DEF Apply, Decided, can_transition
  <2>2. TheBook!Unsettled(job[w])
    BY <1>1 DEF TheBook!Unsettled, TheBook!Serially
  <2>3. TheBook!Serially(TheBook!IsLegal(job[w]) /\ last # job[w])
    BY <2>1 DEF TheBook!Serially, TheBook!IsLegal
  <2>4. TheBook!Did(job[w], "took")
    BY <1>5 DEF Apply, Tell, TheBook!Did
  <2>5. TheBook!Take(job[w])
    BY <1>1, <1>5, <2>2, <2>3, <2>4 DEF Apply, TheBook!Take, TheBook!given
  <2>. QED BY <1>1, <2>5 DEF AStep, TheBook!BNext
<1>. QED BY <1>2, <1>3, <1>4, <1>5

LEMMA OutcomeImplements ==
  ASSUME Inv, NEW w \in Workers,
         MarkProcessed(w) \/ MarkRejected(w) \/ Answer(w) \/ RecordError(w)
  PROVE  AStep
<1>0. TypeOK /\ Told /\ Decided /\ Settled
  BY DEF Inv
<1>1. job[w] \in Events /\ (~overlap => job[w] \notin acked)
  BY <1>0 DEF TypeOK, Settled, MarkProcessed, MarkRejected, Answer, RecordError
<1>2. CASE MarkProcessed(w)
  <2>1. BookOf' = [BookOf EXCEPT ![job[w]] = "processed"]
    BY <1>0, <1>1, <1>2, BookSet DEF MarkProcessed, Terminal
  <2>2. "took" \in fate[job[w]]
    BY <1>0, <1>2 DEF Told, MarkProcessed
  <2>. QED BY <1>1, <1>2, <2>1, <2>2
           DEF MarkProcessed, AStep, row, provider, history, TheBook!BNext, TheBook!Book,
               TheBook!Books, TheBook!Unsettled, TheBook!Serially, TheBook!account,
               TheBook!given
<1>3. CASE MarkRejected(w)
  <2>1. BookOf' = [BookOf EXCEPT ![job[w]] = "rejected"]
    BY <1>0, <1>1, <1>3, BookSet DEF MarkRejected, Terminal
  <2>2. TheBook!Serially(\/ kind[job[w]].to = "bad"
                         \/ ~(TheBook!Shows(job[w]) \/ TheBook!IsLegal(job[w])))
    BY <1>0, <1>3
    DEF Decided, MarkRejected, Converges, can_transition, TheBook!Serially, TheBook!Shows,
        TheBook!IsLegal
  <2>3. TheBook!Refuse(job[w])
    BY <1>1, <1>3, <2>1, <2>2
    DEF MarkRejected, Tell, row, provider, TheBook!Refuse, TheBook!Did, TheBook!Books,
        TheBook!Unsettled, TheBook!Serially, TheBook!account, TheBook!given
  <2>. QED BY <1>1, <2>3 DEF AStep, TheBook!BNext
<1>4. CASE Answer(w)
  <2>1. fate[job[w]] # {} /\ (~overlap => ledger[job[w]] \in Terminal)
    BY <1>0, <1>4 DEF Told, Settled, Answer
  <2>2. acked' = acked \union {job[w]} /\ UNCHANGED <<ledger, row, provider, history>>
    BY <1>4 DEF Answer, Answers
  <2>. QED BY <1>1, <2>1, <2>2, AnswerPromises
<1>5. CASE RecordError(w)
  <2>1. Set(job[w], "received") /\ UNCHANGED <<row, provider, acked, history>>
    BY <1>5 DEF RecordError, Answers
  <2>. QED BY <1>1, <2>1, SetReopens
<1>. QED BY <1>2, <1>3, <1>4, <1>5

LEMMA FaultImplements ==
  ASSUME \/ \E w \in Workers : \/ \E e \in Events : Deliver(w, e)
                               \/ StatementFails(w) \/ ReplyLost(w)
         \/ Crash \/ UNCHANGED vars
  PROVE  AStep
<1>1. UNCHANGED <<ledger, row, provider, acked, history>>
  BY DEF Deliver, StatementFails, ReplyLost, Crash, Answers, vars, row, provider, history
<1>. QED BY <1>1, BookSame, Invisible

\* The webhook, its threads, retries and crashes implement SubscriptionBook: for
\* any number of events, and in full when deliveries do not overlap.
THEOREM BillingImplementsBook == Spec => ImplementsBook
<1>1. Init => TheBook!BInit
  BY DEF Init, TheBook!BInit, BookOf, Terminal
<1>2. Inv /\ [Next]_vars => [TheBook!BNext]_(TheBook!bvars)
  BY ClaimImplements, DecideImplements, OutcomeImplements, FaultImplements
  DEF AStep, Next, Process
<1>. QED BY <1>1, <1>2, Invariance, PTL DEF Spec, ImplementsBook, TheBook!BSpec

=============================================================================
