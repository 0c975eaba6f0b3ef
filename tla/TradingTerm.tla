---------------------------- MODULE TradingTerm ----------------------------
(***************************************************************************)
(* What the containers' supervision promises: trading is an office held    *)
(* for one term at a time.  A holder prepares, serves, ticks, and leaves;  *)
(* the office is vacant before the next one takes it.  Once the holder has *)
(* been given notice it begins no tick and may only resign, and it resigns *)
(* for no other reason.  It may be gone at any moment.                     *)
(***************************************************************************)
CONSTANTS Candidates, Nobody

VARIABLES holder,   \* who holds the office
          phase,    \* of its term
          notice    \* the holder was asked to stop since it began to serve

tvars == <<holder, phase, notice>>

TInit == holder = Nobody /\ phase = "vacant" /\ notice = FALSE

Take(c) == /\ phase = "vacant"
           /\ holder' = c
           /\ phase' = "preparing"
           /\ UNCHANGED notice

Goes(from, to) == phase = from /\ phase' = to /\ UNCHANGED holder

\* A notice from before the term is not for this holder.
BeginService == Goes("preparing", "serving") /\ notice' = FALSE

BeginTick == ~notice /\ Goes("serving", "ticking") /\ UNCHANGED notice

EndTick == Goes("ticking", "serving") /\ UNCHANGED notice

GiveNotice == notice' = TRUE /\ UNCHANGED <<holder, phase>>

Resign == notice /\ Goes("serving", "leaving") /\ UNCHANGED notice

\* The end of the term, in its time or not.
Vacate == /\ phase # "vacant"
          /\ holder' = Nobody
          /\ phase' = "vacant"
          /\ UNCHANGED notice

TNext == \/ \E c \in Candidates : Take(c)
         \/ BeginService \/ BeginTick \/ EndTick \/ GiveNotice \/ Resign \/ Vacate

TSpec == TInit /\ [][TNext]_tvars

=============================================================================
