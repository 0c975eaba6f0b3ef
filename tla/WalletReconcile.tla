--------------------------- MODULE WalletReconcile ---------------------------
(***************************************************************************)
(* How a closed trade is matched with the wallet, from                     *)
(*   backend/nexus_demo_execution/wallet_lifecycle_accounting.py           *)
(* Amounts are whole multiples of the smallest unit of the exchange's      *)
(* decimals; Decimal adds and compares them exactly.  Anything that is not *)
(* a number counts as zero.                                                *)
(***************************************************************************)
EXTENDS Integers, TLAPS

_d(v) == IF v \in Int THEN v ELSE 0

Abs(x) == IF x < 0 THEN 0 - x ELSE x

\* What the wallet may have moved by: Bybit's closed PnL includes the fees or
\* it does not, or there is none.
Candidates(realized, fee, funding) ==
    <<realized - fee + funding, realized + funding, funding - fee>>

\* The loop over the candidates keeps the first of the nearest.
Nearest(actual, exp) ==
    LET err(i) == Abs(actual - exp[i]) IN
    exp[CHOOSE i \in 1 .. 3 : \A j \in 1 .. 3 :
            err(i) <= err(j) /\ (j < i => err(i) < err(j))]

\* WALLET_RECONCILIATION_PASS of reconcile_wallet_before_after
Passes(before, after, realized, fees, funding, tol) ==
    LET actual   == _d(after) - _d(before)
        expected == Nearest(actual, Candidates(_d(realized), Abs(_d(fees)), _d(funding)))
    IN  Abs(actual - expected) <= tol

-----------------------------------------------------------------------------

\* The loop returns one of the candidates, and none is nearer.
LEMMA NearestIsNearest ==
    ASSUME NEW actual \in Int, NEW x \in Int, NEW y \in Int, NEW z \in Int
    PROVE  LET n == Nearest(actual, <<x, y, z>>) IN
           /\ n \in {x, y, z}
           /\ \A c \in {x, y, z} : Abs(actual - n) <= Abs(actual - c)
<1> DEFINE exp == <<x, y, z>>
           err(i) == Abs(actual - exp[i])
           First(i) == \A j \in 1 .. 3 : err(i) <= err(j) /\ (j < i => err(i) < err(j))
<1>1. err(1) \in Int /\ err(2) \in Int /\ err(3) \in Int
  BY DEF Abs
<1>2. exp[1] = x /\ exp[2] = y /\ exp[3] = z
  OBVIOUS
<1> HIDE DEF exp, err
<1>3. 1 .. 3 = {1, 2, 3}
  OBVIOUS
<1>4. \E i \in 1 .. 3 : First(i)
  <2>1. CASE err(1) <= err(2) /\ err(1) <= err(3)
    <3>1. First(1)
      BY <1>1, <1>3, <2>1
    <3> QED
      BY <1>3, <3>1
  <2>2. CASE err(2) < err(1) /\ err(2) <= err(3)
    <3>1. First(2)
      BY <1>1, <1>3, <2>2
    <3> QED
      BY <1>3, <3>1
  <2>3. CASE err(3) < err(1) /\ err(3) < err(2)
    <3>1. First(3)
      BY <1>1, <1>3, <2>3
    <3> QED
      BY <1>3, <3>1
  <2> QED
    BY <1>1, <2>1, <2>2, <2>3
<1> DEFINE best == CHOOSE i \in 1 .. 3 : First(i)
<1>5. best \in 1 .. 3 /\ First(best)
  BY <1>4
<1>6. Nearest(actual, exp) = exp[best]
  BY DEF Nearest, exp, err
<1> HIDE DEF best
<1>7. \A j \in 1 .. 3 : err(best) <= err(j)
  BY <1>5
<1>8. err(best) = Abs(actual - exp[best])
  BY DEF err
<1>9. err(1) = Abs(actual - x) /\ err(2) = Abs(actual - y) /\ err(3) = Abs(actual - z)
  BY <1>2 DEF err
<1>10. exp[best] \in {x, y, z}
  BY <1>2, <1>3, <1>5
<1> QED
  BY <1>3, <1>6, <1>7, <1>8, <1>9, <1>10 DEF exp

\* The choice of the nearest formula never rejects a wallet that one of the
\* three explains, and never accepts one that none explains.
THEOREM PassesIffExplained ==
    ASSUME NEW before \in Int, NEW after \in Int, NEW realized, NEW fees, NEW funding,
           NEW tol \in Nat
    PROVE  LET pnl == _d(realized)  fee == Abs(_d(fees))  fund == _d(funding) IN
           Passes(before, after, realized, fees, funding, tol)
             <=> \/ Abs(after - before - (pnl - fee + fund)) <= tol
                 \/ Abs(after - before - (pnl + fund)) <= tol
                 \/ Abs(after - before - (fund - fee)) <= tol
<1> DEFINE pnl == _d(realized)
           fee == Abs(_d(fees))
           fund == _d(funding)
           x == pnl - fee + fund
           y == pnl + fund
           z == fund - fee
           actual == after - before
           n == Nearest(actual, <<x, y, z>>)
<1>1. pnl \in Int /\ fee \in Int /\ fund \in Int
  BY DEF _d, Abs
<1>2. x \in Int /\ y \in Int /\ z \in Int /\ actual \in Int
  BY <1>1
<1>3. Passes(before, after, realized, fees, funding, tol) <=> Abs(actual - n) <= tol
  BY DEF Passes, Candidates, _d
<1> HIDE DEF pnl, fee, fund, x, y, z, actual
<1>4. n \in {x, y, z} /\ \A c \in {x, y, z} : Abs(actual - n) <= Abs(actual - c)
  BY <1>2, NearestIsNearest
<1> HIDE DEF n
<1>5. \A c \in {x, y, z} : Abs(actual - c) \in Int
  BY <1>2 DEF Abs
<1>6. Abs(actual - n) <= tol
        <=> Abs(actual - x) <= tol \/ Abs(actual - y) <= tol \/ Abs(actual - z) <= tol
  BY <1>4, <1>5
<1> QED
  BY <1>3, <1>6 DEF pnl, fee, fund, x, y, z, actual

\* A trade whose closed PnL was not found is accepted only when the wallet has
\* moved by nothing but its funding and, perhaps, its fees: a gain or a loss
\* beyond the tolerance cannot pass without the exchange's own figure.
THEOREM UnknownResultMovesNothing ==
    ASSUME NEW before \in Int, NEW after \in Int, NEW realized, realized \notin Int,
           NEW fees, NEW funding, NEW tol \in Nat,
           Passes(before, after, realized, fees, funding, tol)
    PROVE  \/ Abs(after - before - _d(funding)) <= tol
           \/ Abs(after - before - (_d(funding) - Abs(_d(fees)))) <= tol
<1>1. _d(realized) = 0 /\ _d(funding) \in Int /\ Abs(_d(fees)) \in Int
  BY DEF _d, Abs
<1>2. /\ _d(realized) - Abs(_d(fees)) + _d(funding) = _d(funding) - Abs(_d(fees))
      /\ _d(realized) + _d(funding) = _d(funding)
  BY <1>1
<1> QED
  BY <1>2, PassesIffExplained

\* A later trade's result in the wallet keeps an earlier one pending, unless it
\* happens to cancel the earlier trade's result or its fees.
THEOREM LaterResultIsSeen ==
    ASSUME NEW before \in Int, NEW pnl \in Int, NEW fee \in Nat, NEW fund \in Int,
           NEW later \in Int, NEW tol \in Nat,
           Abs(later) > tol, Abs(later - fee) > tol, Abs(later + pnl) > tol
    PROVE  ~Passes(before, before + pnl - fee + fund + later, pnl, fee, fund, tol)
<1> DEFINE after == before + pnl - fee + fund + later
<1>1. _d(pnl) = pnl /\ _d(fund) = fund /\ Abs(_d(fee)) = fee
  BY DEF _d, Abs
<1>2. /\ after - before - (pnl - fee + fund) = later
      /\ after - before - (pnl + fund) = later - fee
      /\ after - before - (fund - fee) = later + pnl
  OBVIOUS
<1>3. after \in Int
  OBVIOUS
<1> HIDE DEF after
<1>4. /\ Abs(later) \in Int
      /\ Abs(later - fee) \in Int
      /\ Abs(later + pnl) \in Int
  BY DEF Abs
<1>5. Passes(before, after, pnl, fee, fund, tol)
        <=> \/ Abs(after - before - (pnl - fee + fund)) <= tol
            \/ Abs(after - before - (pnl + fund)) <= tol
            \/ Abs(after - before - (fund - fee)) <= tol
  BY <1>1, <1>3, PassesIffExplained
<1>6. ~Passes(before, after, pnl, fee, fund, tol)
  BY <1>2, <1>4, <1>5
<1> QED
  BY <1>6 DEF after

=============================================================================
