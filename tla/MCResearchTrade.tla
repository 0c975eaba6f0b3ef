-------------------------- MODULE MCResearchTrade --------------------------
(* Constant values for model checking ResearchTrade. *)
EXTENDS ResearchTrade, Integers

\* Everything but an entry order that never fills.
EventsFilling == EventKinds \ {"void"}

\* Reads answer; everything else may go wrong.  A late close only keeps a
\* closure pending, as FinalizePending followed by Wait does.
EventsReadable == EventKinds \ {"read", "late"}

\* Exits by the exchange, raising wallet reads and entry orders that never
\* fill: every close that is acknowledged fills before the settlement has
\* looked for the last time, and a closure carries its own trade's context and
\* can be matched.
EventsSettling == {"exit", "raise", "void"}

\* What Reconciles(t) abstracts, on small amounts: the nearest formula is
\* within the tolerance exactly when one of the three is.
Wallet == INSTANCE WalletReconcile

ASSUME WalletOnSmallAmounts ==
    \A after \in -4 .. 4, pnl \in -2 .. 2 \cup {None}, fees \in -2 .. 2, fund \in -1 .. 1,
       tol \in 0 .. 1 :
        LET result == IF pnl = None THEN 0 ELSE pnl
            fee    == IF fees < 0 THEN 0 - fees ELSE fees
        IN  Wallet!Passes(0, after, pnl, fees, fund, tol) <=>
              \E e \in {result - fee + fund, result + fund, fund - fee} :
                 after - e \in (0 - tol) .. tol

=============================================================================
