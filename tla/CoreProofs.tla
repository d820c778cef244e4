----------------------------- MODULE CoreProofs -----------------------------
(***************************************************************************)
(* Theorems about the pure rules, the whole betting program and its index. *)
(*                                                                         *)
(* Part 1 proves what BolaoRulesCases says of the rules, for every input:  *)
(* CasesSpec has the one variable `input`, which the program's states do   *)
(* not have.  Part 2 needs its lemma that the final prize fits in the pool.*)
(*                                                                         *)
(* Part 3 proves that the index follows the chain.                         *)
(***************************************************************************)
EXTENDS BolaoCoreMC, BolaoRulesCases, BolaoMatchesProofs

----------------------------------------------------------------------------
(***************************************************************************)
(* PART 1: the pure rules.                                                 *)
(***************************************************************************)

(* An input is one of the four kinds of cases.                             *)
CasesInv ==
    \/ input = [kind |-> "none"]
    \/ input \in Comparisons \cup Boards \cup Settlements \cup Quotes

LEMMA CasesAlways == CasesSpec => []CasesInv
<1>1. CasesInit => CasesInv
  BY DEF CasesInit, CasesInv
<1>2. CasesInv /\ [CasesNext]_input => CasesInv'
  BY DEF CasesNext, CasesInv
<1>. QED
  BY <1>1, <1>2, PTL DEF CasesSpec

LEMMA CaseKinds ==
    ASSUME CasesInv
    PROVE  /\ input.kind = "comparison" => input \in Comparisons
           /\ input.kind = "board" => input \in Boards
           /\ input.kind = "settlement" => input \in Settlements
           /\ input.kind = "quote" => input \in Quotes
<1>1. input \in Comparisons => input.kind = "comparison"
  BY DEF Comparisons
<1>2. input \in Boards => input.kind = "board"
  BY DEF Boards
<1>3. input \in Settlements => input.kind = "settlement"
  BY DEF Settlements
<1>4. input \in Quotes => input.kind = "quote"
  BY DEF Quotes
<1>5. input = [kind |-> "none"] => input.kind = "none"
  OBVIOUS
<1>. QED
  BY <1>1, <1>2, <1>3, <1>4, <1>5 DEF CasesInv

----------------------------------------------------------------------------
(* Comparing predictions with results.                                     *)

LEMMA SameComparison ==
    ASSUME NEW bet \in Predictions, NEW final \in Predictions,
           NEW weight \in 1 .. MAX_POINTS_WEIGHT,
           WellFormedBet(bet, weight), WellFormedResult(final, weight)
    PROVE  PointsFor(bet, final, weight) > 0 <=> EligibleForPayout(bet, final, weight)
<1>. DEFINE pens == IsKnockout(weight) /\ IsDraw(final.score)
                        => bet.penalty_winner # "None"
                           /\ bet.penalty_winner = final.penalty_winner
            betOutcome == IF ~IsKnockout(weight) THEN Outcome(bet.score)
                          ELSE IF IsDraw(bet.score) /\ bet.penalty_winner = "None" THEN 0
                          ELSE AdvanceOutcome(bet)
            finalOutcome == IF IsKnockout(weight) THEN AdvanceOutcome(final)
                            ELSE Outcome(final.score)
<1>1. weight \in Nat /\ weight > 0 /\ 3 * weight > 0
  BY DEF MAX_POINTS_WEIGHT
<1>2. PointsFor(bet, final, weight) > 0
          <=> (bet.score = final.score /\ pens) \/ betOutcome = finalOutcome
  <2>1. PointsFor(bet, final, weight) =
            CASE bet.score = final.score /\ pens -> 3 * weight
              [] betOutcome = finalOutcome -> weight
              [] OTHER -> 0
    BY DEF PointsFor
  <2>. HIDE DEF pens, betOutcome, finalOutcome
  <2>2. CASE bet.score = final.score /\ pens /\ betOutcome # finalOutcome
    BY <1>1, <2>1, <2>2
  <2>3. CASE ~(bet.score = final.score /\ pens) /\ betOutcome = finalOutcome
    BY <1>1, <2>1, <2>3
  <2>4. CASE (bet.score = final.score /\ pens) /\ betOutcome = finalOutcome
    BY <1>1, <2>1, <2>4
  <2>5. CASE ~(bet.score = final.score /\ pens) /\ betOutcome # finalOutcome
    BY <1>1, <2>1, <2>5
  <2>. QED
    BY <2>2, <2>3, <2>4, <2>5
<1>3. bet.penalty_winner \in PenaltyWinners /\ final.penalty_winner \in PenaltyWinners
  BY DEF Predictions
<1>4. CASE bet.score # final.score
  <2>1. ~(IsKnockout(weight) /\ IsDraw(bet.score) /\ bet.penalty_winner = "None")
    BY DEF WellFormedBet
  <2>. QED
    BY <1>2, <1>4, <2>1 DEF EligibleForPayout
<1>5. CASE bet.score = final.score /\ ~pens
  <2>1. IsKnockout(weight) /\ IsDraw(final.score) /\ IsDraw(bet.score)
    BY <1>5
  <2>2. bet.penalty_winner \in {"Home", "Away"} /\ final.penalty_winner \in {"Home", "Away"}
    BY <1>3, <2>1 DEF WellFormedBet, WellFormedResult, PenaltyWinners
  <2>3. betOutcome # finalOutcome
    BY <1>5, <2>1, <2>2 DEF AdvanceOutcome
  <2>. QED
    BY <1>2, <1>5, <2>1, <2>3 DEF EligibleForPayout
<1>6. CASE bet.score = final.score /\ pens
  BY <1>2, <1>6 DEF EligibleForPayout
<1>. QED
  BY <1>4, <1>5, <1>6

(* In every phase and for every score, points are awarded exactly to the   *)
(* bets that share the pool.                                               *)
THEOREM PointsGoWithPayouts == CasesSpec => []PaidIffPoints
<1>1. CasesInv => PaidIffPoints
  <2>. SUFFICES ASSUME CasesInv, input.kind = "comparison"
                PROVE  PointsFor(input.bet, input.final, input.weight) > 0
                           <=> EligibleForPayout(input.bet, input.final, input.weight)
    BY DEF PaidIffPoints
  <2>1. input \in Comparisons
    BY CaseKinds
  <2>2. /\ input.bet \in Predictions /\ input.final \in Predictions
        /\ input.weight \in 1 .. MAX_POINTS_WEIGHT
        /\ WellFormedBet(input.bet, input.weight)
        /\ WellFormedResult(input.final, input.weight)
    BY <2>1, CasesAssumption DEF Comparisons, Predictions, Scores
  <2>. QED
    BY <2>2, SameComparison
<1>. QED
  BY <1>1, CasesAlways, PTL

----------------------------------------------------------------------------
(* The minimum bet.                                                        *)

(* The minimum bet is the least number of coins that is worth the target,  *)
(* at every price.                                                         *)
THEOREM MinBetIsLeast == CasesSpec => []MinBetIsWorthTheTarget
<1>1. ASSUME NEW target \in Nat \ {0}, NEW price \in Nat \ {0}
      PROVE  LET bet == MinBet(target, price)
             IN  bet * price >= target /\ (bet - 1) * price < target
  <2>. DEFINE x == target + price - 1
              q == x \div price
  <2>1. x \in Nat
    OBVIOUS
  <2>2. q \in Int /\ q * price <= x /\ x < (q + 1) * price
    <3>. HIDE DEF x
    <3>. QED
      BY <2>1
  <2>. HIDE DEF q
  <2>3. (q + 1) * price = q * price + price /\ (q - 1) * price = q * price - price
    BY <2>2
  <2>4. q * price \in Int
    BY <2>2
  <2>5. q * price >= target /\ (q - 1) * price < target
    BY <2>2, <2>3, <2>4
  <2>6. MinBet(target, price) = q
    BY DEF MinBet, q
  <2>. QED
    BY <2>5, <2>6
<1>2. CasesInv => MinBetIsWorthTheTarget
  <2>. SUFFICES ASSUME CasesInv, input.kind = "quote"
                PROVE  LET bet == MinBet(MinBetTarget, input.price)
                       IN  /\ bet * input.price >= MinBetTarget
                           /\ (bet - 1) * input.price < MinBetTarget
    BY DEF MinBetIsWorthTheTarget
  <2>1. input.price \in Nat \ {0} /\ MinBetTarget \in Nat \ {0}
    BY CaseKinds, CasesAssumption DEF Quotes
  <2>. QED
    BY <1>1, <2>1
<1>. QED
  BY <1>2, CasesAlways, PTL

----------------------------------------------------------------------------
(* The final prize never gives away more than there is.                    *)

\* The shares of the first n places, in basis points.
PlaceSum(n) == SumOver(FINAL_PRIZE_TOP5_BPS, 1 .. n)

First5(n) == IF n < 5 THEN n ELSE 5

LEMMA PlacesNat ==
    /\ DOMAIN FINAL_PRIZE_TOP5_BPS = 1 .. 5
    /\ \A i \in 1 .. 5 : FINAL_PRIZE_TOP5_BPS[i] \in Nat
BY DEF FINAL_PRIZE_TOP5_BPS

LEMMA PlacesSplit ==
    ASSUME NEW k \in 0 .. 5, NEW n \in 0 .. 5, k <= n
    PROVE  /\ PlaceSum(n) = PlaceSum(k) + Top5ShareSum(k + 1, n)
           /\ PlaceSum(n) \in Nat /\ PlaceSum(k) \in Nat /\ Top5ShareSum(k + 1, n) \in Nat
<1>1. 1 .. k \in SUBSET (1 .. n) /\ (1 .. n) \ (1 .. k) = k + 1 .. n
  OBVIOUS
<1>2. IsFiniteSet(1 .. n) /\ IsFiniteSet(1 .. k) /\ IsFiniteSet(k + 1 .. n)
  <2>1. 1 \in Int /\ n \in Int /\ k \in Int /\ k + 1 \in Int
    OBVIOUS
  <2>. QED
    BY <2>1, FS_Interval
<1>3. /\ \A i \in 1 .. n : FINAL_PRIZE_TOP5_BPS[i] \in Nat
      /\ \A i \in 1 .. k : FINAL_PRIZE_TOP5_BPS[i] \in Nat
      /\ \A i \in k + 1 .. n : FINAL_PRIZE_TOP5_BPS[i] \in Nat
  BY PlacesNat
<1>4. PlaceSum(n) = PlaceSum(k) + Top5ShareSum(k + 1, n)
  <2>1. SumOver(FINAL_PRIZE_TOP5_BPS, 1 .. n)
            = SumOver(FINAL_PRIZE_TOP5_BPS, 1 .. k)
                  + SumOver(FINAL_PRIZE_TOP5_BPS, (1 .. n) \ (1 .. k))
    BY <1>1, <1>2, <1>3, SumOverSplit
  <2>. QED
    BY <1>1, <2>1 DEF PlaceSum, Top5ShareSum
<1>5. PlaceSum(n) \in Nat
  BY <1>2, <1>3, SumOverNat DEF PlaceSum
<1>6. PlaceSum(k) \in Nat
  BY <1>2, <1>3, SumOverNat DEF PlaceSum
<1>7. Top5ShareSum(k + 1, n) \in Nat
  BY <1>2, <1>3, SumOverNat DEF Top5ShareSum
<1>. QED
  BY <1>4, <1>5, <1>6, <1>7

LEMMA PlaceSums ==
    /\ PlaceSum(0) = 0 /\ PlaceSum(1) = 4500 /\ PlaceSum(2) = 7000
    /\ PlaceSum(3) = 8500 /\ PlaceSum(4) = 9500 /\ PlaceSum(5) = 10000
<1>. DEFINE F == FINAL_PRIZE_TOP5_BPS
<1>1. F[1] = 4500 /\ F[2] = 2500 /\ F[3] = 1500 /\ F[4] = 1000 /\ F[5] = 500
  BY DEF FINAL_PRIZE_TOP5_BPS
<1>2. \A n \in 1 .. 5 : SumOver(F, 1 .. n) = F[n] + SumOver(F, 1 .. n - 1)
  <2>. SUFFICES ASSUME NEW n \in 1 .. 5
                PROVE  SumOver(F, 1 .. n) = F[n] + SumOver(F, 1 .. n - 1)
    OBVIOUS
  <2>1. n \in 1 .. n /\ (1 .. n) \ {n} = 1 .. n - 1
    OBVIOUS
  <2>3. IsFiniteSet(1 .. n)
    <3>1. 1 \in Int /\ n \in Int
      OBVIOUS
    <3>. QED
      BY <3>1, FS_Interval
  <2>2. \A i \in 1 .. n : F[i] \in Nat
    BY PlacesNat
  <2>. HIDE DEF F
  <2>. QED
    BY <2>1, <2>2, <2>3, SumOverRemove
<1>3. SumOver(F, 1 .. 0) = 0
  <2>1. 1 .. 0 = {}
    OBVIOUS
  <2>. QED
    BY <2>1, SumOverEmpty
<1>4. /\ 1 .. 1 - 1 = 1 .. 0 /\ 1 .. 2 - 1 = 1 .. 1 /\ 1 .. 3 - 1 = 1 .. 2
      /\ 1 .. 4 - 1 = 1 .. 3 /\ 1 .. 5 - 1 = 1 .. 4
  OBVIOUS
<1>. HIDE DEF F
<1>5. SumOver(F, 1 .. 1) = 4500
  BY <1>1, <1>2, <1>3, <1>4
<1>6. SumOver(F, 1 .. 2) = 7000
  BY <1>1, <1>2, <1>4, <1>5
<1>7. SumOver(F, 1 .. 3) = 8500
  BY <1>1, <1>2, <1>4, <1>6
<1>8. SumOver(F, 1 .. 4) = 9500
  BY <1>1, <1>2, <1>4, <1>7
<1>9. SumOver(F, 1 .. 5) = 10000
  BY <1>1, <1>2, <1>4, <1>8
<1>. QED
  BY <1>3, <1>5, <1>6, <1>7, <1>8, <1>9 DEF PlaceSum, F

(* The five places share the whole pool. *)
LEMMA PlacesAreAll == PlaceSum(5) = BPS_DENOMINATOR
BY PlaceSums DEF BPS_DENOMINATOR

(* What a group of tied wallets gets is at most the share of its places.   *)
LEMMA GroupFits ==
    ASSUME NEW pool \in Nat, NEW k \in Nat, NEW size \in Nat \ {0}, NEW p,
           p = IF k + 1 > 5 THEN 0
               ELSE Bps(pool, Top5ShareSum(k + 1, First5(k + size))) \div size
    PROVE  /\ p \in Nat
           /\ (size * p) * BPS_DENOMINATOR
                  <= pool * (PlaceSum(First5(k + size)) - PlaceSum(First5(k)))
<1>1. CASE k + 1 > 5
  <2>1. First5(k + size) = 5 /\ First5(k) = 5 /\ p = 0
    BY <1>1 DEF First5
  <2>2. PlaceSum(5) - PlaceSum(5) = 0
    BY PlacesAreAll DEF BPS_DENOMINATOR
  <2>3. (size * 0) * BPS_DENOMINATOR <= pool * 0
    BY DEF BPS_DENOMINATOR
  <2>. QED
    BY <2>1, <2>2, <2>3
<1>2. CASE k + 1 <= 5
  <2>. DEFINE n == First5(k + size)
              s == Top5ShareSum(k + 1, n)
              amount == (pool * s) \div 10000
  <2>1. n \in 0 .. 5 /\ k \in 0 .. 5 /\ k <= n /\ First5(k) = k
    BY <1>2 DEF First5
  <2>2. s \in Nat /\ PlaceSum(n) - PlaceSum(k) = s
    <3>. HIDE DEF n
    <3>1. /\ PlaceSum(n) = PlaceSum(k) + Top5ShareSum(k + 1, n)
          /\ PlaceSum(n) \in Nat /\ PlaceSum(k) \in Nat /\ Top5ShareSum(k + 1, n) \in Nat
      BY <2>1, PlacesSplit
    <3>. QED
      BY <3>1
  <2>3. p = amount \div size
    BY <1>2 DEF Bps, BPS_DENOMINATOR
  <2>. HIDE DEF s, n
  <2>4. pool * s \in Nat
    BY <2>2
  <2>5. amount \in Nat /\ amount * 10000 <= pool * s
    <3>1. \A x \in Nat : x \div 10000 \in Nat /\ (x \div 10000) * 10000 <= x
      OBVIOUS
    <3>. QED
      BY <2>4, <3>1
  <2>. HIDE DEF amount
  <2>6. p \in Nat /\ size * p <= amount
    BY <2>3, <2>5
  <2>7. (size * p) * 10000 <= amount * 10000
    <3>1. size * p \in Nat
      BY <2>6
    <3>. QED
      BY <2>5, <2>6, <3>1
  <2>8. (size * p) * 10000 <= pool * s
    <3>1. (size * p) * 10000 \in Nat /\ amount * 10000 \in Nat
      BY <2>5, <2>6
    <3>. QED
      BY <2>4, <2>5, <2>7, <3>1
  <2>. QED
    BY <2>1, <2>2, <2>6, <2>8 DEF BPS_DENOMINATOR, n
<1>. QED
  BY <1>1, <1>2

\* With a wallet, T has all that have as many points or more.
Podiumed(points, T) == \A v \in T, w \in DOMAIN points : points[w] >= points[v] => w \in T

(* The prizes of the wallets in such a set are within the share of as many *)
(* places.                                                                 *)
LEMMA PrizesOf ==
    ASSUME NEW W, IsFiniteSet(W), NEW points \in [W -> Nat], NEW pool \in Nat
    PROVE  /\ \A w \in W : PrizeFor(points, pool, w) \in Nat
           /\ \A T \in SUBSET W : Podiumed(points, T) =>
                 SumOver(Allocations(points, pool), T) * BPS_DENOMINATOR
                     <= pool * PlaceSum(First5(Cardinality(T)))
<1>. DEFINE A == Allocations(points, pool)
<1>1. ASSUME NEW w \in W
      PROVE  LET size == Cardinality(TiedWith(points, w))
                 k == Cardinality(Ahead(points, w))
             IN  /\ PrizeFor(points, pool, w) \in Nat
                 /\ size \in Nat \ {0} /\ k \in Nat
                 /\ (size * PrizeFor(points, pool, w)) * BPS_DENOMINATOR
                        <= pool * (PlaceSum(First5(k + size)) - PlaceSum(First5(k)))
  <2>. DEFINE size == Cardinality(TiedWith(points, w))
              k == Cardinality(Ahead(points, w))
  <2>1. TiedWith(points, w) \in SUBSET W /\ Ahead(points, w) \in SUBSET W /\ w \in TiedWith(points, w)
    BY DEF TiedWith, Ahead
  <2>2. size \in Nat \ {0} /\ k \in Nat
    BY <2>1, FS_Subset, FS_CardinalityType, FS_EmptySet
  <2>3. PrizeFor(points, pool, w)
            = IF k + 1 > 5 THEN 0
              ELSE Bps(pool, Top5ShareSum(k + 1, First5(k + size))) \div size
    BY DEF PrizeFor, StartPos, EndPos, First5
  <2>. HIDE DEF size, k
  <2>4. /\ PrizeFor(points, pool, w) \in Nat
        /\ (size * PrizeFor(points, pool, w)) * BPS_DENOMINATOR
               <= pool * (PlaceSum(First5(k + size)) - PlaceSum(First5(k)))
    BY <2>2, <2>3, GroupFits
  <2>. QED
    BY <2>2, <2>4 DEF size, k
<1>2. \A w \in W : PrizeFor(points, pool, w) \in Nat
  BY <1>1
<1>3. DOMAIN points = W /\ \A w \in W : A[w] = PrizeFor(points, pool, w) /\ A[w] \in Nat
  BY <1>2 DEF Allocations
<1>. DEFINE Fits(T) == SumOver(A, T) * BPS_DENOMINATOR <= pool * PlaceSum(First5(Cardinality(T)))
            B == {T \in SUBSET W : Podiumed(points, T) /\ ~Fits(T)}
<1>. HIDE DEF A
<1>4. SUFFICES ASSUME B # {}
               PROVE  FALSE
  BY <1>2 DEF A
<1>5. PICK T \in B : \A V \in SUBSET T : V # T => V \notin B
  <2>. HIDE DEF B
  <2>1. B \subseteq SUBSET W
    BY DEF B
  <2>. QED
    BY <1>4, <2>1, MinimalSubset
<1>6. T \in SUBSET W /\ Podiumed(points, T) /\ ~Fits(T)
  BY <1>5
<1>7. T # {}
  <2>1. Fits({})
    <3>1. SumOver(A, {}) = 0 /\ Cardinality({}) = 0 /\ First5(0) = 0 /\ 1 .. 0 = {}
      BY SumOverEmpty, FS_EmptySet DEF First5
    <3>2. PlaceSum(0) = 0
      BY <3>1, SumOverEmpty DEF PlaceSum
    <3>. QED
      BY <3>1, <3>2 DEF BPS_DENOMINATOR
  <2>. QED
    BY <1>6, <2>1
<1>8. PICK w \in T : \A v \in T : points[w] <= points[v]
  BY <1>6, <1>7, LeastValue
<1>. DEFINE G == TiedWith(points, w)
            R == T \ G
            k == Cardinality(R)
            size == Cardinality(G)
            p == PrizeFor(points, pool, w)
<1>9. w \in W /\ points \in [W -> Nat] /\ DOMAIN points = W
  BY <1>6, <1>8
<1>10. G \in SUBSET T /\ w \in G
  BY <1>6, <1>8, <1>9 DEF Podiumed, TiedWith
<1>11. R = Ahead(points, w)
  BY <1>6, <1>8, <1>9 DEF Podiumed, TiedWith, Ahead
<1>12. Podiumed(points, R)
  BY <1>6, <1>8, <1>9, <1>11 DEF Podiumed, Ahead
<1>13. R \in SUBSET W /\ R \in SUBSET T /\ R # T
  BY <1>6, <1>10
<1>14. Fits(R)
  BY <1>5, <1>12, <1>13
<1>15. /\ IsFiniteSet(T) /\ IsFiniteSet(G) /\ IsFiniteSet(R)
       /\ k \in Nat /\ size \in Nat /\ Cardinality(T) \in Nat
  BY <1>6, <1>10, <1>13, FS_Subset, FS_CardinalityType
<1>16. Cardinality(T) = k + size
  <2>1. T \cap G = G
    BY <1>10
  <2>2. k = Cardinality(T) - Cardinality(T \cap G)
    BY <1>15, FS_Difference
  <2>3. k = Cardinality(T) - size
    BY <2>1, <2>2
  <2>. HIDE DEF k, size
  <2>. QED
    BY <1>15, <2>3
<1>17. /\ p \in Nat /\ size \in Nat \ {0}
       /\ (size * p) * BPS_DENOMINATOR
              <= pool * (PlaceSum(First5(k + size)) - PlaceSum(First5(k)))
  BY <1>1, <1>9, <1>11
<1>18. SumOver(A, G) = size * p
  <2>1. \A v \in G : A[v] = p
    <3>. SUFFICES ASSUME NEW v \in G
                  PROVE  A[v] = p
      OBVIOUS
    <3>1. v \in W /\ points[v] = points[w]
      BY <1>9 DEF TiedWith
    <3>2. TiedWith(points, v) = TiedWith(points, w) /\ Ahead(points, v) = Ahead(points, w)
      BY <3>1 DEF TiedWith, Ahead
    <3>3. PrizeFor(points, pool, v) = PrizeFor(points, pool, w)
      BY <3>2 DEF PrizeFor, StartPos, EndPos
    <3>. QED
      BY <1>3, <3>1, <3>3
  <2>. HIDE DEF G, p
  <2>. QED
    BY <1>15, <1>17, <2>1, SumOverConstant DEF size
<1>19. SumOver(A, T) = SumOver(A, G) + SumOver(A, R)
  <2>1. \A v \in T : A[v] \in Nat
    BY <1>3, <1>6
  <2>. HIDE DEF G
  <2>. QED
    BY <1>10, <1>15, <2>1, SumOverSplit
<1>20. SumOver(A, R) \in Nat
  <2>1. \A v \in R : A[v] \in Nat
    BY <1>3, <1>13
  <2>. HIDE DEF R
  <2>. QED
    BY <1>15, <2>1, SumOverNat
<1>21. PlaceSum(First5(k + size)) \in Nat /\ PlaceSum(First5(k)) \in Nat
  <2>. HIDE DEF k, size
  <2>1. First5(k + size) \in 0 .. 5 /\ First5(k) \in 0 .. 5
    BY <1>15 DEF First5
  <2>. QED
    BY <2>1, PlacesSplit
<1>. HIDE DEF G, R, k, size, p
<1>22. /\ SumOver(A, R) * 10000 <= pool * PlaceSum(First5(k))
       /\ (size * p) * 10000 <= pool * (PlaceSum(First5(k + size)) - PlaceSum(First5(k)))
       /\ ~(SumOver(A, T) * 10000 <= pool * PlaceSum(First5(k + size)))
  BY <1>6, <1>14, <1>16, <1>17 DEF k, BPS_DENOMINATOR
<1>23. size * p \in Nat
  BY <1>17
<1>24. \A a, b, x, y \in Nat :
          a * 10000 <= pool * x /\ b * 10000 <= pool * (y - x) => (b + a) * 10000 <= pool * y
  OBVIOUS
<1>. HIDE DEF Fits
<1>. QED
  BY <1>18, <1>19, <1>20, <1>21, <1>22, <1>23, <1>24

(* What finalize_final_prize_pool allocates never exceeds the pool.        *)
LEMMA PrizesFit ==
    ASSUME NEW W, IsFiniteSet(W), NEW points \in [W -> Nat], NEW pool \in Nat
    PROVE  TotalAllocated(points, pool) \in Nat /\ TotalAllocated(points, pool) <= pool
<1>. DEFINE n == First5(Cardinality(W))
            total == TotalAllocated(points, pool)
<1>1. Podiumed(points, W) /\ DOMAIN points = W
  BY DEF Podiumed
<1>2. total \in Nat
  <2>1. \A w \in W : Allocations(points, pool)[w] \in Nat
    BY PrizesOf DEF Allocations
  <2>. QED
    BY <1>1, <2>1, SumOverNat DEF TotalAllocated
<1>3. total * 10000 <= pool * PlaceSum(n)
  BY <1>1, PrizesOf DEF TotalAllocated, BPS_DENOMINATOR
<1>4. n \in 0 .. 5
  BY FS_CardinalityType DEF First5
<1>. HIDE DEF n, total
<1>5. PlaceSum(n) \in Nat /\ PlaceSum(n) <= 10000
  <2>1. /\ PlaceSum(5) = PlaceSum(n) + Top5ShareSum(n + 1, 5)
        /\ PlaceSum(n) \in Nat /\ Top5ShareSum(n + 1, 5) \in Nat
    BY <1>4, PlacesSplit
  <2>. QED
    BY <2>1, PlacesAreAll DEF BPS_DENOMINATOR
<1>6. \A x \in Nat : x <= 10000 => pool * x <= pool * 10000
  OBVIOUS
<1>7. pool * PlaceSum(n) \in Nat /\ pool * PlaceSum(n) <= pool * 10000
  BY <1>5, <1>6
<1>8. total <= pool
  BY <1>2, <1>3, <1>7
<1>. QED
  BY <1>2, <1>8 DEF total

----------------------------------------------------------------------------
(* The shares of a pool.                                                   *)

LEMMA ShareBounds ==
    ASSUME NEW stake \in Nat, NEW pool \in Nat, NEW winnerStake \in Nat \ {0},
           winnerStake <= pool
    PROVE  /\ Share(stake, pool, winnerStake) \in Nat
           /\ Share(stake, pool, winnerStake) * winnerStake <= stake * pool
           /\ Share(stake, pool, winnerStake) >= stake
<1>. DEFINE x == stake * pool
            q == x \div winnerStake
<1>1. x \in Nat /\ stake * winnerStake <= x
  OBVIOUS
<1>2. q \in Nat /\ q * winnerStake <= x /\ x < (q + 1) * winnerStake
  <2>. HIDE DEF x
  <2>. QED
    BY <1>1
<1>. HIDE DEF q
<1>3. q >= stake
  <2>1. SUFFICES ASSUME q + 1 <= stake
                 PROVE  FALSE
    BY <1>2
  <2>2. (q + 1) * winnerStake <= stake * winnerStake
    BY <1>2, <2>1
  <2>3. (q + 1) * winnerStake \in Nat /\ stake * winnerStake \in Nat
    BY <1>2
  <2>. HIDE DEF x
  <2>. QED
    BY <1>1, <1>2, <2>2, <2>3
<1>4. Share(stake, pool, winnerStake) = q
  BY DEF Share, q
<1>. QED
  BY <1>2, <1>3, <1>4

(* However many bets of whatever stakes won, their floored shares fit in   *)
(* the pool together, and none is less than its stake.                     *)
THEOREM SettlementsFit == CasesSpec => []SharesFitThePool
<1>1. ASSUME NEW stakes \in [Wallets -> Stakes], NEW winners \in SUBSET Wallets, winners # {}
      PROVE  LET pool == SumOver(stakes, Wallets)
                 winnerStake == SumOver(stakes, winners)
                 share == [w \in winners |-> Share(stakes[w], pool, winnerStake)]
             IN  /\ SumOver(share, winners) <= pool
                 /\ \A w \in winners : share[w] >= stakes[w]
  <2>. DEFINE pool == SumOver(stakes, Wallets)
              winnerStake == SumOver(stakes, winners)
              losers == SumOver(stakes, Wallets \ winners)
              share == [w \in winners |-> Share(stakes[w], pool, winnerStake)]
              paidOut == SumOver(share, winners)
  <2>1. IsFiniteSet(Wallets) /\ IsFiniteSet(winners) /\ IsFiniteSet(Wallets \ winners)
    BY CasesAssumption, FS_Subset
  <2>2. \A w \in Wallets : stakes[w] \in Nat \ {0}
    BY CasesAssumption
  <2>3. pool \in Nat /\ losers \in Nat /\ winnerStake \in Nat
    BY <2>1, <2>2, SumOverNat
  <2>4. pool = winnerStake + losers
    BY <2>1, <2>2, SumOverSplit
  <2>5. winnerStake # 0
    <3>1. PICK w \in winners : TRUE
      BY <1>1
    <3>2. winnerStake = stakes[w] + SumOver(stakes, winners \ {w})
      BY <2>1, <2>2, SumOverRemove
    <3>3. SumOver(stakes, winners \ {w}) \in Nat
      BY <2>1, <2>2, FS_Subset, SumOverNat
    <3>. HIDE DEF winnerStake
    <3>. QED
      BY <2>2, <3>2, <3>3
  <2>. HIDE DEF pool, winnerStake, losers
  <2>6. winnerStake <= pool
    BY <2>3, <2>4
  <2>7. \A w \in winners :
            /\ share[w] \in Nat
            /\ share[w] * winnerStake <= stakes[w] * pool
            /\ share[w] >= stakes[w]
    BY <2>2, <2>3, <2>5, <2>6, ShareBounds
  <2>. HIDE DEF share
  <2>8. SumOver(share, winners) * winnerStake <= SumOver(stakes, winners) * pool
    BY <2>1, <2>2, <2>3, <2>7, SumOverScaled
  <2>9. paidOut \in Nat
    BY <2>1, <2>7, SumOverNat
  <2>10. paidOut * winnerStake <= winnerStake * pool
    BY <2>8 DEF winnerStake
  <2>. HIDE DEF paidOut
  <2>11. \A a, b, w \in Nat : w # 0 /\ a * w <= w * b => a <= b
    OBVIOUS
  <2>12. paidOut <= pool
    BY <2>3, <2>5, <2>9, <2>10, <2>11
  <2>. QED
    BY <2>7, <2>12 DEF pool, winnerStake, share, paidOut
<1>2. CasesInv => SharesFitThePool
  <2>. SUFFICES ASSUME CasesInv, input.kind = "settlement"
                PROVE  SharesFitThePool
    BY DEF SharesFitThePool
  <2>. DEFINE pool == SumOver(input.stakes, Wallets)
              winnerStake == SumOver(input.stakes, input.winners)
              share == [w \in input.winners |-> Share(input.stakes[w], pool, winnerStake)]
  <2>1. /\ input.stakes \in [Wallets -> Stakes] /\ input.winners \in SUBSET Wallets
        /\ input.winners # {}
    <3>1. input \in Settlements
      BY CaseKinds
    <3>. QED
      BY <3>1 DEF Settlements
  <2>2. /\ SumOver(share, input.winners) <= pool
        /\ \A w \in input.winners : share[w] >= input.stakes[w]
    BY <1>1, <2>1
  <2>. QED
    BY <2>2 DEF SharesFitThePool
<1>. QED
  BY <1>2, CasesAlways, PTL

----------------------------------------------------------------------------
(* The final prize is fair.                                                *)

(* Of n and m wallets, those with the larger shares get no less each.      *)
LEMMA DivFair ==
    ASSUME NEW pool \in Nat, NEW a \in Nat, NEW b \in Nat, NEW f \in Nat,
           NEW n \in Nat \ {0}, NEW m \in Nat \ {0}, a >= n * f, b <= m * f
    PROVE  Bps(pool, a) \div n >= Bps(pool, b) \div m
<1>. DEFINE x == pool * a
            y == pool * b
            z == pool * f
            bx == x \div 10000
            by == y \div 10000
            q == z \div 10000
            pn == bx \div n
            pm == by \div m
<1>1. x \in Nat /\ y \in Nat /\ z \in Nat
  OBVIOUS
<1>2. n * z <= x /\ y <= m * z
  <2>1. \A c, d \in Nat : c <= d => pool * c <= pool * d
    OBVIOUS
  <2>2. n * f \in Nat /\ m * f \in Nat
    OBVIOUS
  <2>3. pool * (n * f) <= x /\ y <= pool * (m * f)
    BY <2>1, <2>2
  <2>4. pool * (n * f) = n * z /\ pool * (m * f) = m * z
    OBVIOUS
  <2>. QED
    BY <2>3, <2>4
<1>3. bx \in Nat /\ x < (bx + 1) * 10000
  <2>. HIDE DEF x
  <2>. QED
    BY <1>1
<1>4. by \in Nat /\ by * 10000 <= y
  <2>. HIDE DEF y
  <2>. QED
    BY <1>1
<1>5. q \in Nat /\ q * 10000 <= z /\ z < (q + 1) * 10000
  <2>. HIDE DEF z
  <2>. QED
    BY <1>1
<1>6. pn = bx \div n /\ pm = by \div m /\ Bps(pool, a) = bx /\ Bps(pool, b) = by
  BY DEF Bps, BPS_DENOMINATOR
<1>. HIDE DEF x, y, z, bx, by, q
<1>7. pn \in Nat /\ bx < (pn + 1) * n
  BY <1>3
<1>8. pm \in Nat /\ pm * m <= by
  BY <1>4
<1>. HIDE DEF pn, pm
<1>9. n * q <= bx
  <2>1. n * (q * 10000) <= n * z
    BY <1>1, <1>5
  <2>2. n * q \in Nat /\ n * (q * 10000) = (n * q) * 10000 /\ n * z \in Nat
    BY <1>1, <1>5
  <2>3. (n * q) * 10000 < (bx + 1) * 10000
    BY <1>1, <1>2, <1>3, <2>1, <2>2
  <2>. QED
    BY <1>3, <2>2, <2>3
<1>10. q <= pn
  <2>1. SUFFICES ASSUME pn + 1 <= q
                 PROVE  FALSE
    BY <1>5, <1>7
  <2>2. (pn + 1) * n <= n * q
    BY <1>5, <1>7, <2>1
  <2>3. (pn + 1) * n \in Nat /\ n * q \in Nat
    BY <1>5, <1>7
  <2>. QED
    BY <1>3, <1>7, <1>9, <2>2, <2>3
<1>11. pm <= q
  <2>1. SUFFICES ASSUME q + 1 <= pm
                 PROVE  FALSE
    BY <1>5, <1>8
  <2>2. (q + 1) * m <= pm * m
    BY <1>5, <1>8, <2>1
  <2>3. (q + 1) * m \in Nat /\ pm * m \in Nat /\ m * z \in Nat
    BY <1>1, <1>5, <1>8
  <2>4. ((q + 1) * m) * 10000 <= m * z
    BY <1>1, <1>2, <1>4, <1>8, <2>2, <2>3
  <2>5. ((q + 1) * m) * 10000 = m * ((q + 1) * 10000)
    BY <1>5
  <2>6. m * z < m * ((q + 1) * 10000)
    <3>1. \A c, d \in Nat : c < d => m * c < m * d
      OBVIOUS
    <3>2. (q + 1) * 10000 \in Nat
      BY <1>5
    <3>. QED
      BY <1>1, <1>5, <3>1, <3>2
  <2>7. m * ((q + 1) * 10000) \in Nat
    BY <1>5
  <2>. QED
    BY <2>3, <2>4, <2>5, <2>6, <2>7
<1>. QED
  BY <1>5, <1>6, <1>7, <1>8, <1>10, <1>11

(* A group of n wallets behind k others and one of m behind j, no earlier. *)
LEMMA GroupsFair ==
    ASSUME NEW pool \in Nat, NEW k \in Nat, NEW n \in Nat \ {0},
           NEW j \in Nat, NEW m \in Nat \ {0}, k + n <= j, j + 1 <= 5
    PROVE  Bps(pool, Top5ShareSum(k + 1, First5(k + n))) \div n
               >= Bps(pool, Top5ShareSum(j + 1, First5(j + m))) \div m
<1>. DEFINE f == FINAL_PRIZE_TOP5_BPS[j + 1]
            e == First5(j + m)
            a == Top5ShareSum(k + 1, First5(k + n))
            b == Top5ShareSum(j + 1, e)
<1>1. j \in 0 .. 4 /\ k \in 0 .. 4 /\ n \in 1 .. 4 /\ k + n \in 1 .. 4 /\ First5(k + n) = k + n
  BY DEF First5
<1>2. e \in j + 1 .. 5 /\ e - j <= m
  BY <1>1 DEF First5
<1>3. f \in Nat /\ f = IF j = 0 THEN 4500 ELSE IF j = 1 THEN 2500 ELSE IF j = 2 THEN 1500
                      ELSE IF j = 3 THEN 1000 ELSE 500
  BY <1>1 DEF FINAL_PRIZE_TOP5_BPS
<1>4. a \in Nat /\ a = PlaceSum(k + n) - PlaceSum(k)
  <2>1. k + n \in 0 .. 5 /\ k \in 0 .. 5 /\ k <= k + n
    BY <1>1
  <2>2. /\ PlaceSum(k + n) = PlaceSum(k) + Top5ShareSum(k + 1, k + n)
        /\ PlaceSum(k) \in Nat /\ Top5ShareSum(k + 1, k + n) \in Nat
    BY <2>1, PlacesSplit
  <2>. QED
    BY <1>1, <2>2
<1>. HIDE DEF e
<1>5. b \in Nat /\ b = PlaceSum(e) - PlaceSum(j)
  <2>1. e \in 0 .. 5 /\ j \in 0 .. 5 /\ j <= e
    BY <1>1, <1>2
  <2>2. /\ PlaceSum(e) = PlaceSum(j) + Top5ShareSum(j + 1, e)
        /\ PlaceSum(j) \in Nat /\ Top5ShareSum(j + 1, e) \in Nat
    BY <2>1, PlacesSplit
  <2>. QED
    BY <2>2
<1>. HIDE DEF a, b, f
<1>6. a >= n * f
  <2>1. CASE n = 1
    BY <1>1, <1>3, <1>4, <2>1, PlaceSums
  <2>2. CASE n = 2
    BY <1>1, <1>3, <1>4, <2>2, PlaceSums
  <2>3. CASE n = 3
    BY <1>1, <1>3, <1>4, <2>3, PlaceSums
  <2>4. CASE n = 4
    BY <1>1, <1>3, <1>4, <2>4, PlaceSums
  <2>. QED
    BY <1>1, <2>1, <2>2, <2>3, <2>4
<1>7. b <= (e - j) * f
  <2>1. CASE j = 0
    BY <1>2, <1>3, <1>5, <2>1, PlaceSums
  <2>2. CASE j = 1
    BY <1>2, <1>3, <1>5, <2>2, PlaceSums
  <2>3. CASE j = 2
    BY <1>2, <1>3, <1>5, <2>3, PlaceSums
  <2>4. CASE j = 3
    BY <1>2, <1>3, <1>5, <2>4, PlaceSums
  <2>5. CASE j = 4
    BY <1>2, <1>3, <1>5, <2>5, PlaceSums
  <2>. QED
    BY <1>1, <2>1, <2>2, <2>3, <2>4, <2>5
<1>8. (e - j) * f <= m * f
  <2>1. \A c, d \in Nat : c <= d => c * f <= d * f
    BY <1>3
  <2>2. e - j \in Nat
    BY <1>1, <1>2
  <2>. QED
    BY <1>2, <2>1, <2>2
<1>9. b <= m * f
  <2>1. (e - j) * f \in Nat /\ m * f \in Nat
    BY <1>1, <1>2, <1>3
  <2>. QED
    BY <1>5, <1>7, <1>8, <2>1
<1>10. Bps(pool, a) \div n >= Bps(pool, b) \div m
  <2>1. a \in Nat /\ b \in Nat /\ f \in Nat
    BY <1>3, <1>4, <1>5
  <2>. QED
    BY <1>6, <1>9, <2>1, DivFair, Zenon
<1>. QED
  BY <1>10 DEF a, b, e

LEMMA PrizeOfGroup ==
    ASSUME NEW W, IsFiniteSet(W), NEW points \in [W -> Nat], NEW pool \in Nat, NEW w \in W
    PROVE  LET size == Cardinality(TiedWith(points, w))
               k == Cardinality(Ahead(points, w))
           IN  /\ size \in Nat \ {0} /\ k \in Nat
               /\ PrizeFor(points, pool, w)
                      = IF k + 1 > 5 THEN 0
                        ELSE Bps(pool, Top5ShareSum(k + 1, First5(k + size))) \div size
<1>1. TiedWith(points, w) \in SUBSET W /\ Ahead(points, w) \in SUBSET W /\ w \in TiedWith(points, w)
  BY DEF TiedWith, Ahead
<1>2. Cardinality(TiedWith(points, w)) \in Nat \ {0} /\ Cardinality(Ahead(points, w)) \in Nat
  BY <1>1, FS_Subset, FS_CardinalityType, FS_EmptySet
<1>. QED
  BY <1>2 DEF PrizeFor, StartPos, EndPos, First5

(* The prizes fit in the pool, and nobody gets less than one behind.       *)
LEMMA PrizesFair ==
    ASSUME NEW W, IsFiniteSet(W), NEW points \in [W -> Nat], NEW pool \in Nat,
           NEW v \in W, NEW w \in W, points[v] >= points[w]
    PROVE  PrizeFor(points, pool, v) >= PrizeFor(points, pool, w)
<1>. DEFINE n == Cardinality(TiedWith(points, v))
            k == Cardinality(Ahead(points, v))
            m == Cardinality(TiedWith(points, w))
            j == Cardinality(Ahead(points, w))
            pv == PrizeFor(points, pool, v)
            pw == PrizeFor(points, pool, w)
<1>1. /\ n \in Nat \ {0} /\ k \in Nat
      /\ pv = IF k + 1 > 5 THEN 0
              ELSE Bps(pool, Top5ShareSum(k + 1, First5(k + n))) \div n
  BY PrizeOfGroup
<1>2. /\ m \in Nat \ {0} /\ j \in Nat
      /\ pw = IF j + 1 > 5 THEN 0
              ELSE Bps(pool, Top5ShareSum(j + 1, First5(j + m))) \div m
  BY PrizeOfGroup
<1>3. pv \in Nat /\ pw \in Nat
  BY PrizesOf
<1>4. CASE points[v] = points[w]
  <2>1. TiedWith(points, v) = TiedWith(points, w) /\ Ahead(points, v) = Ahead(points, w)
    BY <1>4 DEF TiedWith, Ahead
  <2>2. pv = pw
    BY <2>1 DEF PrizeFor, StartPos, EndPos
  <2>. QED
    BY <1>3, <2>2
<1>5. CASE points[v] > points[w] /\ j + 1 <= 5
  <2>. DEFINE T == TiedWith(points, v)
              A == Ahead(points, v)
              B == Ahead(points, w)
  <2>1. T \subseteq W /\ A \subseteq W /\ B \subseteq W
    BY DEF TiedWith, Ahead
  <2>2. T \cap A = {} /\ A \cup T \subseteq B
    BY <1>5 DEF TiedWith, Ahead
  <2>. HIDE DEF T, A, B
  <2>3. IsFiniteSet(T) /\ IsFiniteSet(A) /\ IsFiniteSet(B)
    BY <2>1, FS_Subset
  <2>4. Cardinality(A \cup T) = Cardinality(A) + Cardinality(T)
    <3>1. Cardinality(A \cup T) = Cardinality(A) + Cardinality(T) - Cardinality(A \cap T)
      BY <2>3, FS_Union
    <3>2. A \cap T = {} /\ Cardinality({}) = 0
      BY <2>2, FS_EmptySet
    <3>3. Cardinality(A) \in Nat /\ Cardinality(T) \in Nat
      BY <2>3, FS_CardinalityType
    <3>. QED
      BY <3>1, <3>2, <3>3
  <2>5. Cardinality(A \cup T) <= Cardinality(B)
    BY <2>2, <2>3, FS_Subset
  <2>6. k + n <= j
    BY <2>4, <2>5 DEF T, A, B
  <2>. HIDE DEF k, n, j, m, pv, pw
  <2>7. pv = Bps(pool, Top5ShareSum(k + 1, First5(k + n))) \div n
    BY <1>1, <1>2, <1>5, <2>6
  <2>8. pw = Bps(pool, Top5ShareSum(j + 1, First5(j + m))) \div m
    BY <1>2, <1>5
  <2>9. Bps(pool, Top5ShareSum(k + 1, First5(k + n))) \div n
            >= Bps(pool, Top5ShareSum(j + 1, First5(j + m))) \div m
    BY <1>1, <1>2, <1>5, <2>6, GroupsFair
  <2>10. pv >= pw
    BY <2>7, <2>8, <2>9
  <2>. QED
    BY <2>10 DEF pv, pw
<1>6. CASE j + 1 > 5
  <2>1. pw = 0
    BY <1>2, <1>6
  <2>. QED
    BY <1>3, <2>1
<1>7. points[v] \in Nat /\ points[w] \in Nat
  OBVIOUS
<1>. QED
  BY <1>2, <1>4, <1>5, <1>6, <1>7

LEMMA BoardTyped ==
    ASSUME CasesInv, input.kind = "board"
    PROVE  \E W \in SUBSET Wallets :
              /\ W # {} /\ IsFiniteSet(W)
              /\ input.points \in [W -> Nat] /\ input.pool \in Nat
<1>1. input \in Boards
  BY CaseKinds
<1>2. PICK W \in (SUBSET Wallets) \ {{}} :
          input \in [kind : {"board"}, points : [W -> PointValues], pool : Pools]
  BY <1>1 DEF Boards
<1>3. IsFiniteSet(W)
  BY <1>2, CasesAssumption, FS_Subset
<1>4. input.points \in [W -> Nat] /\ input.pool \in Nat
  BY <1>2, CasesAssumption
<1>. QED
  BY <1>2, <1>3, <1>4

(* However many wallets tie on whichever places, the final prize is never  *)
(* more than the pool and nobody gets less than somebody behind.           *)
THEOREM FinalPrizeIsFair == CasesSpec => []PrizesAreFair
<1>1. CasesInv => PrizesAreFair
  <2>. SUFFICES ASSUME CasesInv, input.kind = "board"
                PROVE  PrizesAreFair
    BY DEF PrizesAreFair
  <2>1. PICK W \in SUBSET Wallets :
            /\ W # {} /\ IsFiniteSet(W)
            /\ input.points \in [W -> Nat] /\ input.pool \in Nat
    BY BoardTyped
  <2>2. TotalAllocated(input.points, input.pool) <= input.pool
    BY <2>1, PrizesFit
  <2>3. \A v, w \in W : input.points[v] >= input.points[w] =>
            PrizeFor(input.points, input.pool, v) >= PrizeFor(input.points, input.pool, w)
    BY <2>1, PrizesFair
  <2>4. DOMAIN input.points = W
    BY <2>1
  <2>. QED
    BY <2>2, <2>3, <2>4 DEF PrizesAreFair, Allocations
<1>. QED
  BY <1>1, CasesAlways, PTL

----------------------------------------------------------------------------
(* The loop of finalize_final_prize_pool computes those prizes.            *)

LEMMA LeastOf ==
    ASSUME NEW B \in SUBSET Nat, B # {}
    PROVE  \E n \in B : \A k \in B : n <= k
<1>1. PICK n \in B : TRUE
  OBVIOUS
<1>. DEFINE W == 0 .. n
            id == [k \in W |-> k]
            T == B \cap W
<1>2. IsFiniteSet(W)
  <2>1. 0 \in Int /\ n \in Int
    OBVIOUS
  <2>. QED
    BY <2>1, FS_Interval
<1>3. id \in [W -> Nat] /\ T \in SUBSET W /\ n \in T
  BY <1>1
<1>4. PICK w \in T : \A v \in T : id[w] <= id[v]
  <2>. HIDE DEF id, T, W
  <2>. QED
    BY <1>2, <1>3, LeastValue
<1>5. w \in B /\ w <= n /\ \A v \in T : w <= v
  BY <1>4
<1>6. \A k \in B : w <= k
  BY <1>5
<1>. QED
  BY <1>5, <1>6

\* The states of the loop, first to last, as FinalPrizeLoop defines them.
LoopStart(points) ==
    [i |-> 1, position |-> 1, total |-> 0, alloc |-> [w \in DOMAIN points |-> 0]]

LoopStep(board, points, pool, st) ==
    IF st.i <= Len(board) /\ st.position <= 5 THEN LoopBody(board, points, pool, st) ELSE st

IsRun(run, last, board, points, pool) ==
    run = [n \in 0 .. last |->
              IF n = 0 THEN LoopStart(points)
              ELSE LoopStep(board, points, pool, run[n - 1])]

LEMMA RunDef ==
    ASSUME NEW board, NEW points, NEW pool
    PROVE  FinalPrizeLoop(board, points, pool)
               = (CHOOSE run : IsRun(run, Len(board), board, points, pool))[Len(board)]
BY DEF FinalPrizeLoop, IsRun, LoopStart, LoopStep

LEMMA RunExists ==
    ASSUME NEW board, NEW points, NEW pool, NEW last \in Nat
    PROVE  \E run : IsRun(run, last, board, points, pool)
<1>. DEFINE Step(st) == LoopStep(board, points, pool, st)
            start == LoopStart(points)
            Runs(g, n) == g = [k \in 0 .. n |-> IF k = 0 THEN start ELSE Step(g[k - 1])]
            B == {n \in Nat : ~ \E g : Runs(g, n)}
<1>1. SUFFICES ASSUME B # {}
               PROVE  FALSE
  BY <1>1 DEF IsRun
<1>2. PICK n \in B : \A k \in B : n <= k
  <2>. HIDE DEF B
  <2>1. B \in SUBSET Nat
    BY DEF B
  <2>. QED
    BY <1>1, <2>1, LeastOf
<1>3. n \in Nat /\ ~ \E g : Runs(g, n)
  BY <1>2
<1>. HIDE DEF Step, start
<1>4. CASE n = 0
  <2>. DEFINE g == [k \in 0 .. n |-> start]
  <2>1. \A k \in 0 .. n : k = 0
    BY <1>4
  <2>2. Runs(g, n)
    BY <2>1
  <2>. QED
    BY <1>3, <2>2
<1>5. CASE n # 0
  <2>1. n - 1 \in Nat /\ n - 1 \notin B
    BY <1>2, <1>3, <1>5
  <2>2. PICK g : Runs(g, n - 1)
    BY <2>1
  <2>. DEFINE h == [k \in 0 .. n |-> IF k = 0 THEN start ELSE Step(g[k - 1])]
  <2>3. \A k \in 0 .. n - 1 : g[k] = IF k = 0 THEN start ELSE Step(g[k - 1])
    BY <2>1, <2>2
  <2>4. \A k \in 0 .. n - 1 : h[k] = g[k]
    BY <1>3, <2>3
  <2>5. \A k \in 0 .. n : (k # 0 => k - 1 \in 0 .. n - 1)
    BY <1>3
  <2>6. h = [k \in 0 .. n |-> IF k = 0 THEN start ELSE Step(h[k - 1])]
    <3>. HIDE DEF Runs
    <3>1. \A k \in 0 .. n : h[k] = IF k = 0 THEN start ELSE Step(h[k - 1])
      BY <2>4, <2>5
    <3>. QED
      BY <3>1
  <2>7. Runs(h, n)
    BY <2>6
  <2>. HIDE DEF h
  <2>. QED
    BY <1>3, <2>7
<1>. QED
  BY <1>4, <1>5

(* The states that the loop goes through. *)
LEMMA LoopRun ==
    ASSUME NEW board, NEW points, NEW pool, Len(board) \in Nat
    PROVE  \E run : /\ FinalPrizeLoop(board, points, pool) = run[Len(board)]
                    /\ run[0] = LoopStart(points)
                    /\ \A n \in 0 .. Len(board) - 1 :
                          run[n + 1] = LoopStep(board, points, pool, run[n])
<1>. DEFINE last == Len(board)
<1>1. PICK run : run = CHOOSE g : IsRun(g, last, board, points, pool)
  OBVIOUS
<1>2. IsRun(run, last, board, points, pool)
  BY <1>1, RunExists
<1>3. FinalPrizeLoop(board, points, pool) = run[last]
  BY <1>1, RunDef
<1>4. \A n \in 0 .. last : run[n] = IF n = 0 THEN LoopStart(points)
                                   ELSE LoopStep(board, points, pool, run[n - 1])
  <2>. HIDE DEF last
  <2>. QED
    BY <1>2 DEF IsRun
<1>. HIDE DEF last
<1>5. last \in Nat
  BY DEF last
<1>6. run[0] = LoopStart(points)
  BY <1>4, <1>5
<1>7. \A n \in 0 .. last - 1 : run[n + 1] = LoopStep(board, points, pool, run[n])
  <2>. SUFFICES ASSUME NEW n \in 0 .. last - 1
                PROVE  run[n + 1] = LoopStep(board, points, pool, run[n])
    OBVIOUS
  <2>1. n + 1 \in 0 .. last /\ n + 1 # 0 /\ (n + 1) - 1 = n
    BY <1>5
  <2>. QED
    BY <1>4, <2>1
<1>. QED
  BY <1>3, <1>6, <1>7 DEF last

\* A leaderboard of n wallets: every wallet once, by points.
Sorted(board, points, n) ==
    /\ n \in Nat
    /\ board \in [1 .. n -> DOMAIN points] /\ Len(board) = n
    /\ \A i, j \in 1 .. n : i # j => board[i] # board[j]
    /\ \A w \in DOMAIN points : \E k \in 1 .. n : board[k] = w
    /\ \A i, j \in 1 .. n : i <= j => points[board[i]] >= points[board[j]]

LEMMA SortedBoardsSorted ==
    ASSUME NEW W, IsFiniteSet(W), NEW points \in [W -> Nat], NEW board \in SortedBoards(points)
    PROVE  Sorted(board, points, Cardinality(W))
<1>. DEFINE n == Cardinality(W)
            val == [k \in 1 .. n |-> points[board[k]]]
<1>1. n \in Nat /\ DOMAIN points = W
  BY FS_CardinalityType
<1>2. /\ board \in [1 .. n -> W]
      /\ \A i, j \in 1 .. n : i # j => board[i] # board[j]
      /\ \A i \in 1 .. n - 1 : points[board[i]] >= points[board[i + 1]]
  BY <1>1 DEF SortedBoards
<1>. HIDE DEF n
<1>3. Len(board) = n
  BY <1>1, <1>2
<1>4. \A w \in W : \E k \in 1 .. n : board[k] = w
  <2>1. board \in Injection(1 .. n, W)
    BY <1>2 DEF Injection, IsInjective
  <2>2. Cardinality(1 .. n) = n
    <3>1. 1 \in Int /\ n \in Int
      BY <1>1
    <3>. QED
      BY <1>1, <3>1, FS_Interval
  <2>3. board \in Surjection(1 .. n, W)
    BY <2>1, <2>2, FS_Injection DEF n
  <2>. QED
    BY <2>3 DEF Surjection
<1>5. \A i, j \in 1 .. n : i <= j => points[board[i]] >= points[board[j]]
  <2>. SUFFICES ASSUME NEW i \in 1 .. n
                PROVE  \A j \in 1 .. n : i <= j => points[board[i]] >= points[board[j]]
    OBVIOUS
  <2>. DEFINE B == {j \in 1 .. n : i <= j /\ ~(points[board[i]] >= points[board[j]])}
  <2>1. SUFFICES ASSUME B # {}
                 PROVE  FALSE
    BY <2>1
  <2>2. PICK j \in B : \A k \in B : j <= k
    <3>1. B \in SUBSET Nat
      BY <1>1
    <3>. HIDE DEF B
    <3>. QED
      BY <2>1, <3>1, LeastOf
  <2>3. \A k \in 1 .. n : points[board[k]] \in Nat
    BY <1>2
  <2>4. j # i
    BY <2>2, <2>3
  <2>5. j - 1 \in 1 .. n - 1 /\ i <= j - 1 /\ j - 1 \in 1 .. n /\ (j - 1) + 1 = j
    BY <1>1, <2>2, <2>4
  <2>6. j - 1 \notin B
    BY <2>2, <2>5
  <2>7. points[board[i]] >= points[board[j - 1]]
    BY <2>5, <2>6
  <2>8. points[board[j - 1]] >= points[board[j]]
    BY <1>2, <2>5
  <2>9. j \in 1 .. n /\ ~(points[board[i]] >= points[board[j]])
    BY <2>2
  <2>. HIDE DEF B
  <2>. QED
    BY <2>3, <2>5, <2>7, <2>8, <2>9
<1>. QED
  BY <1>1, <1>2, <1>3, <1>4, <1>5 DEF Sorted, n

(* The inner loop stops at the first wallet with fewer points. *)
LEMMA GroupEnds ==
    ASSUME NEW W, NEW points \in [W -> Nat], NEW board, NEW n, Sorted(board, points, n),
           NEW i \in 1 .. n
    PROVE  LET j == GroupEnd(board, points, i)
           IN  /\ j \in i + 1 .. n + 1
               /\ \A k \in i .. j - 1 : points[board[k]] = points[board[i]]
               /\ \A k \in j .. n : points[board[k]] < points[board[i]]
<1>. DEFINE Ends(j) == /\ \A k \in i .. j - 1 : points[board[k]] = points[board[i]]
                       /\ j <= n => points[board[j]] # points[board[i]]
            B == {j \in i + 1 .. n + 1 : j <= n => points[board[j]] # points[board[i]]}
            e == GroupEnd(board, points, i)
<1>1. /\ n \in Nat /\ Len(board) = n
      /\ \A p, q \in 1 .. n : p <= q => points[board[p]] >= points[board[q]]
      /\ \A k \in 1 .. n : points[board[k]] \in Nat
  BY DEF Sorted
<1>2. \E j \in i + 1 .. n + 1 : Ends(j)
  <2>1. n + 1 \in B
    BY <1>1
  <2>2. B \in SUBSET Nat
    BY <1>1
  <2>3. PICK j \in B : \A k \in B : j <= k
    <3>. HIDE DEF B
    <3>. QED
      BY <2>1, <2>2, LeastOf
  <2>4. \A k \in i + 1 .. j - 1 : k \in i + 1 .. n + 1 /\ k <= n /\ k \notin B
    BY <1>1, <2>3
  <2>5. \A k \in i .. j - 1 : points[board[k]] = points[board[i]]
    BY <1>1, <2>4
  <2>6. j \in i + 1 .. n + 1 /\ (j <= n => points[board[j]] # points[board[i]])
    BY <2>3
  <2>. HIDE DEF B
  <2>. QED
    BY <2>5, <2>6
<1>3. e = CHOOSE j \in i + 1 .. n + 1 : Ends(j)
  BY <1>1 DEF GroupEnd
<1>4. e \in i + 1 .. n + 1 /\ Ends(e)
  <2>. HIDE DEF Ends, e
  <2>. QED
    BY <1>2, <1>3
<1>. HIDE DEF e
<1>5. \A k \in e .. n : points[board[k]] < points[board[i]]
  <2>. SUFFICES ASSUME NEW k \in e .. n
                PROVE  points[board[k]] < points[board[i]]
    OBVIOUS
  <2>1. e <= n /\ e \in 1 .. n /\ k \in 1 .. n /\ e <= k /\ i <= e
    BY <1>1, <1>4
  <2>2. points[board[e]] # points[board[i]]
    BY <1>4, <2>1
  <2>3. points[board[i]] >= points[board[e]] /\ points[board[e]] >= points[board[k]]
    BY <1>1, <2>1
  <2>4. points[board[i]] \in Nat /\ points[board[e]] \in Nat /\ points[board[k]] \in Nat
    BY <1>1, <2>1
  <2>. QED
    BY <2>2, <2>3, <2>4
<1>. QED
  BY <1>4, <1>5 DEF e

\* The wallets on the places first .. last of the board.
OnPlaces(board, first, last) == {board[k] : k \in first .. last}

LEMMA PlacesCount ==
    ASSUME NEW W, NEW points \in [W -> Nat], NEW board, NEW n, Sorted(board, points, n),
           NEW first \in 1 .. n + 1, NEW last \in 0 .. n, first <= last + 1
    PROVE  /\ IsFiniteSet(OnPlaces(board, first, last))
           /\ OnPlaces(board, first, last) \in SUBSET W
           /\ Cardinality(OnPlaces(board, first, last)) = last - first + 1
<1>. DEFINE S == first .. last
            T == OnPlaces(board, first, last)
            f == [k \in S |-> board[k]]
<1>1. /\ n \in Nat /\ board \in [1 .. n -> W]
      /\ \A i, j \in 1 .. n : i # j => board[i] # board[j]
  BY DEF Sorted
<1>2. S \subseteq 1 .. n
  BY <1>1
<1>3. IsFiniteSet(S) /\ Cardinality(S) = last - first + 1
  <2>1. first \in Int /\ last \in Int
    BY <1>1
  <2>2. IsFiniteSet(first .. last)
        /\ Cardinality(first .. last) = IF first > last THEN 0 ELSE last - first + 1
    BY <2>1, FS_Interval
  <2>. QED
    BY <2>1, <2>2
<1>4. T = {board[k] : k \in S}
  BY DEF OnPlaces
<1>. HIDE DEF S, T
<1>5. f \in Surjection(S, T)
  BY <1>4 DEF Surjection
<1>6. f \in Injection(S, T)
  BY <1>1, <1>2, <1>4 DEF Injection, IsInjective
<1>7. IsFiniteSet(T) /\ Cardinality(T) = Cardinality(S)
  BY <1>3, <1>5, <1>6, FS_Surjection
<1>8. T \in SUBSET W
  BY <1>1, <1>2, <1>4
<1>. QED
  BY <1>3, <1>7, <1>8 DEF T

\* No group of tied wallets spans place i - 1 and place i.
GroupStarts(board, points, n, i) ==
    \A p \in 1 .. i - 1, q \in i .. n : points[board[p]] > points[board[q]]

(* A group's wallets, the places it takes and its prize. *)
LEMMA GroupPrize ==
    ASSUME NEW W, IsFiniteSet(W), NEW points \in [W -> Nat], NEW pool \in Nat,
           NEW board, NEW n, Sorted(board, points, n), NEW i \in 1 .. n,
           GroupStarts(board, points, n, i),
           NEW j \in i + 1 .. n + 1,
           \A k \in i .. j - 1 : points[board[k]] = points[board[i]],
           \A k \in j .. n : points[board[k]] < points[board[i]],
           NEW w \in OnPlaces(board, i, j - 1)
    PROVE  /\ w \in W /\ OnPlaces(board, i, j - 1) = TiedWith(points, w)
           /\ PrizeFor(points, pool, w)
                  = IF i > 5 THEN 0
                    ELSE Bps(pool, Top5ShareSum(i, First5(j - 1))) \div (j - i)
<1>1. /\ n \in Nat /\ board \in [1 .. n -> W] /\ DOMAIN points = W
      /\ \A u \in W : \E k \in 1 .. n : board[k] = u
      /\ \A k \in 1 .. n : points[board[k]] \in Nat
  BY DEF Sorted
<1>2. PICK k0 \in i .. j - 1 : w = board[k0]
  BY DEF OnPlaces
<1>3. w \in W /\ points[w] = points[board[i]]
  BY <1>1, <1>2
<1>4. OnPlaces(board, i, j - 1) = TiedWith(points, w)
  <2>1. ASSUME NEW u \in OnPlaces(board, i, j - 1) PROVE u \in TiedWith(points, w)
    <3>1. PICK k \in i .. j - 1 : u = board[k]
      BY <2>1 DEF OnPlaces
    <3>. QED
      BY <1>1, <1>3, <3>1 DEF TiedWith
  <2>2. ASSUME NEW u \in TiedWith(points, w) PROVE u \in OnPlaces(board, i, j - 1)
    <3>1. u \in W /\ points[u] = points[board[i]]
      BY <1>1, <1>3 DEF TiedWith
    <3>2. PICK k \in 1 .. n : u = board[k]
      BY <1>1, <3>1
    <3>3. ~(k <= i - 1)
      BY <1>1, <3>1, <3>2 DEF GroupStarts
    <3>4. ~(j <= k)
      BY <1>1, <3>1, <3>2
    <3>5. k \in i .. j - 1
      BY <1>1, <3>3, <3>4
    <3>. QED
      BY <3>2, <3>5 DEF OnPlaces
  <2>. QED
    BY <2>1, <2>2
<1>5. OnPlaces(board, 1, i - 1) = Ahead(points, w)
  <2>1. ASSUME NEW u \in OnPlaces(board, 1, i - 1) PROVE u \in Ahead(points, w)
    <3>1. PICK k \in 1 .. i - 1 : u = board[k]
      BY <2>1 DEF OnPlaces
    <3>2. points[board[k]] > points[board[i]] /\ board[k] \in W
      BY <1>1, <3>1 DEF GroupStarts
    <3>. QED
      BY <1>1, <1>3, <3>1, <3>2 DEF Ahead
  <2>2. ASSUME NEW u \in Ahead(points, w) PROVE u \in OnPlaces(board, 1, i - 1)
    <3>1. u \in W /\ points[u] > points[board[i]]
      BY <1>1, <1>3 DEF Ahead
    <3>2. PICK k \in 1 .. n : u = board[k]
      BY <1>1, <3>1
    <3>3. ~(k \in i .. j - 1)
      BY <1>1, <3>1, <3>2
    <3>4. ~(j <= k)
      BY <1>1, <3>1, <3>2
    <3>5. k \in 1 .. i - 1
      BY <1>1, <3>3, <3>4
    <3>. QED
      BY <3>2, <3>5 DEF OnPlaces
  <2>. QED
    BY <2>1, <2>2
<1>6. Cardinality(TiedWith(points, w)) = j - i
  <2>1. i \in 1 .. n + 1 /\ j - 1 \in 0 .. n /\ i <= (j - 1) + 1
    BY <1>1
  <2>2. Cardinality(OnPlaces(board, i, j - 1)) = (j - 1) - i + 1
    BY <2>1, PlacesCount
  <2>. QED
    BY <1>1, <1>4, <2>2
<1>7. Cardinality(Ahead(points, w)) = i - 1
  <2>1. 1 \in 1 .. n + 1 /\ i - 1 \in 0 .. n /\ 1 <= (i - 1) + 1
    BY <1>1
  <2>2. Cardinality(OnPlaces(board, 1, i - 1)) = (i - 1) - 1 + 1
    BY <2>1, PlacesCount
  <2>. QED
    BY <1>1, <1>5, <2>2
<1>8. StartPos(points, w) = i /\ EndPos(points, w) = j - 1
  BY <1>1, <1>6, <1>7 DEF StartPos, EndPos
<1>9. PrizeFor(points, pool, w)
          = IF i > 5 THEN 0 ELSE Bps(pool, Top5ShareSum(i, First5(j - 1))) \div (j - i)
  BY <1>6, <1>8 DEF PrizeFor, First5
<1>. QED
  BY <1>3, <1>4, <1>9

\* After the groups before place i: they have their prizes, nobody else has.
LoopInv(st, board, points, pool, n) ==
    /\ st.i \in 1 .. n + 1 /\ st.position = st.i
    /\ GroupStarts(board, points, n, st.i)
    /\ st.alloc = [w \in DOMAIN points |->
                     IF w \in OnPlaces(board, 1, st.i - 1) THEN PrizeFor(points, pool, w) ELSE 0]
    /\ st.total = SumOver(Allocations(points, pool), OnPlaces(board, 1, st.i - 1))

LEMMA LoopStarts ==
    ASSUME NEW W, NEW points \in [W -> Nat], NEW pool, NEW board, NEW n \in Nat
    PROVE  LoopInv(LoopStart(points), board, points, pool, n)
<1>1. OnPlaces(board, 1, 0) = {}
  <2>1. 1 .. 0 = {}
    OBVIOUS
  <2>. QED
    BY <2>1 DEF OnPlaces
<1>2. LoopStart(points).i = 1 /\ LoopStart(points).i - 1 = 0
  BY DEF LoopStart
<1>3. GroupStarts(board, points, n, 1)
  BY DEF GroupStarts
<1>4. SumOver(Allocations(points, pool), {}) = 0
  BY SumOverEmpty
<1>. QED
  BY <1>1, <1>2, <1>3, <1>4 DEF LoopInv, LoopStart

LEMMA LoopBodyKeeps ==
    ASSUME NEW W, IsFiniteSet(W), NEW points \in [W -> Nat], NEW pool \in Nat,
           NEW board, NEW n, Sorted(board, points, n),
           NEW st, LoopInv(st, board, points, pool, n), st.i <= n, st.position <= 5
    PROVE  /\ LoopInv(LoopBody(board, points, pool, st), board, points, pool, n)
           /\ LoopBody(board, points, pool, st).i > st.i
<1>. DEFINE i == st.i
            j == GroupEnd(board, points, i)
            size == j - i
            perWallet == Bps(pool, Top5ShareSum(i, First5(j - 1))) \div size
            A == Allocations(points, pool)
            Before == OnPlaces(board, 1, i - 1)
            Group == OnPlaces(board, i, j - 1)
            After == OnPlaces(board, 1, j - 1)
            next == LoopBody(board, points, pool, st)
<1>1. /\ i \in 1 .. n /\ i <= 5 /\ st.position = i /\ GroupStarts(board, points, n, i)
      /\ st.alloc = [w \in DOMAIN points |->
                        IF w \in Before THEN PrizeFor(points, pool, w) ELSE 0]
      /\ st.total = SumOver(A, Before)
  BY DEF LoopInv, Sorted
<1>2. /\ j \in i + 1 .. n + 1
      /\ \A k \in i .. j - 1 : points[board[k]] = points[board[i]]
      /\ \A k \in j .. n : points[board[k]] < points[board[i]]
  BY <1>1, GroupEnds
<1>3. /\ n \in Nat /\ board \in [1 .. n -> W] /\ DOMAIN points = W
      /\ \A p, q \in 1 .. n : p # q => board[p] # board[q]
      /\ \A k \in 1 .. n : points[board[k]] \in Nat
  BY DEF Sorted
<1>4. next = [i |-> j, position |-> i + size,
              alloc |-> [w \in DOMAIN st.alloc |-> IF w \in Group THEN perWallet ELSE st.alloc[w]],
              total |-> st.total + perWallet * size]
  <2>1. i + size - 1 = j - 1
    BY <1>1, <1>2
  <2>2. \A w : w \in Group <=> \E k \in i .. j - 1 : board[k] = w
    BY DEF OnPlaces
  <2>3. First5(j - 1) = IF j - 1 < 5 THEN j - 1 ELSE 5
    BY DEF First5
  <2>4. LoopBody(board, points, pool, st) =
            [i |-> j, position |-> i + size,
             alloc |-> [w \in DOMAIN st.alloc |->
                           IF \E k \in i .. j - 1 : board[k] = w THEN perWallet
                           ELSE st.alloc[w]],
             total |-> st.total + perWallet * size]
    BY <1>1, <2>1, <2>3 DEF LoopBody
  <2>. HIDE DEF i, j, size, perWallet, Group
  <2>. QED
    BY <2>2, <2>4
<1>5. \A w \in Group : w \in W /\ PrizeFor(points, pool, w) = perWallet
  <2>. SUFFICES ASSUME NEW w \in Group
                PROVE  w \in W /\ PrizeFor(points, pool, w) = perWallet
    OBVIOUS
  <2>. HIDE DEF i, j
  <2>1. /\ w \in W
        /\ PrizeFor(points, pool, w)
               = IF i > 5 THEN 0
                 ELSE Bps(pool, Top5ShareSum(i, First5(j - 1))) \div (j - i)
    BY <1>1, <1>2, GroupPrize
  <2>. QED
    BY <1>1, <1>3, <2>1
<1>. HIDE DEF i, j, perWallet
<1>6. Before \cup Group = After /\ Before \cap Group = {}
  <2>1. 1 .. j - 1 = (1 .. i - 1) \cup (i .. j - 1)
    BY <1>1, <1>2
  <2>2. Before \cup Group = After
    BY <2>1 DEF OnPlaces
  <2>3. \A p \in 1 .. i - 1, q \in i .. j - 1 : p \in 1 .. n /\ q \in 1 .. n /\ p # q
    BY <1>1, <1>2, <1>3
  <2>4. Before \cap Group = {}
    BY <1>3, <2>3 DEF OnPlaces
  <2>. QED
    BY <2>2, <2>4
<1>7. /\ IsFiniteSet(After) /\ After \in SUBSET W
      /\ IsFiniteSet(Group) /\ Cardinality(Group) = size
  <2>1. /\ 1 \in 1 .. n + 1 /\ j - 1 \in 0 .. n /\ 1 <= (j - 1) + 1
        /\ i \in 1 .. n + 1 /\ i <= (j - 1) + 1
    BY <1>1, <1>2, <1>3
  <2>2. IsFiniteSet(After) /\ After \in SUBSET W
    BY <2>1, PlacesCount
  <2>3. IsFiniteSet(Group) /\ Cardinality(Group) = (j - 1) - i + 1
    BY <2>1, PlacesCount
  <2>4. (j - 1) - i + 1 = size
    BY <1>1, <1>2
  <2>. QED
    BY <2>2, <2>3, <2>4
<1>8. \A w \in W : A[w] = PrizeFor(points, pool, w) /\ A[w] \in Nat
  BY <1>3, PrizesOf DEF Allocations
<1>. HIDE DEF Before, Group, After, A
<1>9. perWallet \in Nat
  <2>1. board[i] \in Group
    BY <1>1, <1>2 DEF Group, OnPlaces
  <2>. QED
    BY <1>5, <1>8, <2>1
<1>10. SumOver(A, Group) = size * perWallet
  <2>1. \A w \in Group : A[w] = perWallet
    BY <1>5, <1>8
  <2>. HIDE DEF size
  <2>. QED
    BY <1>7, <1>9, <2>1, SumOverConstant
<1>11. next.total = SumOver(A, After)
  <2>1. Group \in SUBSET After /\ After \ Group = Before /\ Before \in SUBSET W
    BY <1>6, <1>7
  <2>2. \A w \in After : A[w] \in Nat
    BY <1>7, <1>8
  <2>3. SumOver(A, After) = SumOver(A, Group) + SumOver(A, Before)
    BY <1>7, <2>1, <2>2, SumOverSplit
  <2>4. IsFiniteSet(Before)
    BY <1>6, <1>7, FS_Subset
  <2>5. SumOver(A, Before) \in Nat
    BY <1>8, <2>1, <2>4, SumOverNat
  <2>6. next.total = st.total + perWallet * size
    BY <1>4
  <2>7. size \in Nat
    BY <1>1, <1>2
  <2>8. perWallet * size = size * perWallet /\ size * perWallet \in Nat
    BY <1>9, <2>7
  <2>. HIDE DEF next, size
  <2>. QED
    BY <1>1, <1>10, <2>3, <2>5, <2>6, <2>8
<1>12. next.alloc = [w \in DOMAIN points |->
                        IF w \in After THEN PrizeFor(points, pool, w) ELSE 0]
  <2>1. next.alloc = [w \in W |-> IF w \in Group THEN perWallet
                                  ELSE IF w \in Before THEN PrizeFor(points, pool, w) ELSE 0]
    BY <1>1, <1>3, <1>4
  <2>. HIDE DEF next
  <2>. QED
    BY <1>3, <1>5, <1>6, <2>1
<1>13. GroupStarts(board, points, n, j)
  <2>. SUFFICES ASSUME NEW p \in 1 .. j - 1, NEW q \in j .. n
                PROVE  points[board[p]] > points[board[q]]
    BY DEF GroupStarts
  <2>1. p \in 1 .. n /\ q \in 1 .. n /\ i \in 1 .. n
    BY <1>1, <1>2, <1>3
  <2>2. points[board[q]] < points[board[i]]
    BY <1>2
  <2>3. points[board[p]] >= points[board[i]]
    <3>1. CASE p <= i - 1
      <4>1. points[board[p]] > points[board[i]]
        BY <1>1, <1>3, <2>1, <3>1 DEF GroupStarts
      <4>. QED
        BY <1>3, <2>1, <4>1
    <3>2. CASE p >= i
      <4>1. points[board[p]] = points[board[i]]
        BY <1>1, <1>2, <2>1, <3>2
      <4>. QED
        BY <1>3, <2>1, <4>1
    <3>. QED
      BY <1>1, <2>1, <3>1, <3>2
  <2>4. /\ points[board[p]] \in Nat /\ points[board[q]] \in Nat
        /\ points[board[i]] \in Nat
    BY <1>3, <2>1
  <2>. QED
    BY <2>2, <2>3, <2>4
<1>14. next.i = j /\ next.position = j /\ j \in 1 .. n + 1 /\ j > i
  BY <1>1, <1>2, <1>4
<1>15. LoopInv(next, board, points, pool, n)
  <2>. HIDE DEF next
  <2>. QED
    BY <1>11, <1>12, <1>13, <1>14 DEF LoopInv, After, A
<1>16. next.i > st.i
  BY <1>14 DEF i
<1>. QED
  BY <1>15, <1>16

(* When the loop is over every wallet has its prize: those it did not reach*)
(* are behind the fifth place.                                             *)
LEMMA LoopEnds ==
    ASSUME NEW W, IsFiniteSet(W), NEW points \in [W -> Nat], NEW pool \in Nat,
           NEW board, NEW n, Sorted(board, points, n),
           NEW st, LoopInv(st, board, points, pool, n), st.i > n \/ st.i > 5
    PROVE  /\ st.alloc = Allocations(points, pool)
           /\ st.total = TotalAllocated(points, pool)
<1>. DEFINE i == st.i
            Before == OnPlaces(board, 1, i - 1)
            A == Allocations(points, pool)
<1>1. /\ i \in 1 .. n + 1 /\ GroupStarts(board, points, n, i)
      /\ st.alloc = [w \in DOMAIN points |->
                        IF w \in Before THEN PrizeFor(points, pool, w) ELSE 0]
      /\ st.total = SumOver(A, Before)
      /\ i > n \/ i > 5
  BY DEF LoopInv
<1>2. /\ n \in Nat /\ board \in [1 .. n -> W] /\ DOMAIN points = W
      /\ \A u \in W : \E k \in 1 .. n : board[k] = u
  BY DEF Sorted
<1>3. \A w \in W : A[w] = PrizeFor(points, pool, w) /\ A[w] \in Nat
  BY <1>2, PrizesOf DEF Allocations
<1>. HIDE DEF i
<1>4. IsFiniteSet(Before) /\ Before \in SUBSET W /\ Cardinality(Before) = i - 1
  <2>1. 1 \in 1 .. n + 1 /\ i - 1 \in 0 .. n /\ 1 <= (i - 1) + 1
    BY <1>1, <1>2
  <2>2. /\ IsFiniteSet(Before) /\ Before \in SUBSET W
        /\ Cardinality(Before) = (i - 1) - 1 + 1
    BY <2>1, PlacesCount
  <2>. QED
    BY <1>1, <1>2, <2>2
<1>5. \A w \in W : w \notin Before => PrizeFor(points, pool, w) = 0
  <2>. SUFFICES ASSUME NEW w \in W, w \notin Before
                PROVE  PrizeFor(points, pool, w) = 0
    OBVIOUS
  <2>1. PICK k \in 1 .. n : board[k] = w
    BY <1>2
  <2>2. ~(k <= i - 1)
    BY <1>1, <1>2, <2>1 DEF OnPlaces
  <2>3. i <= k /\ i > 5
    BY <1>1, <1>2, <2>2
  <2>4. Before \subseteq Ahead(points, w)
    <3>. SUFFICES ASSUME NEW u \in Before
                  PROVE  u \in Ahead(points, w)
      OBVIOUS
    <3>1. PICK p \in 1 .. i - 1 : u = board[p]
      BY DEF OnPlaces
    <3>2. points[board[p]] > points[board[k]]
      BY <1>1, <1>2, <2>3 DEF GroupStarts
    <3>. QED
      BY <1>2, <1>4, <2>1, <3>1, <3>2 DEF Ahead
  <2>5. Ahead(points, w) \in SUBSET W
    BY <1>2 DEF Ahead
  <2>. HIDE DEF Before
  <2>6. IsFiniteSet(Ahead(points, w))
    BY <2>5, FS_Subset
  <2>7. i - 1 <= Cardinality(Ahead(points, w)) /\ Cardinality(Ahead(points, w)) \in Nat
    BY <1>4, <2>4, <2>6, FS_Subset, FS_CardinalityType
  <2>8. StartPos(points, w) > 5
    BY <1>1, <1>2, <2>3, <2>7 DEF StartPos
  <2>. QED
    BY <2>8 DEF PrizeFor
<1>. HIDE DEF Before
<1>6. st.alloc = Allocations(points, pool)
  BY <1>1, <1>2, <1>5 DEF Allocations
<1>7. SumOver(A, Before) = SumOver(A, W)
  <2>1. \A w \in W \ Before : A[w] = 0
    BY <1>3, <1>5
  <2>. HIDE DEF A
  <2>. QED
    BY <1>3, <1>4, <2>1, SumOverWithin
<1>. QED
  BY <1>1, <1>2, <1>6, <1>7 DEF TotalAllocated

(* On every leaderboard, however ties are sorted, the loop gives each      *)
(* wallet the prize of its rank and counts what it gave.                   *)
LEMMA LoopComputes ==
    ASSUME NEW W, IsFiniteSet(W), NEW points \in [W -> Nat], NEW pool \in Nat,
           NEW board \in SortedBoards(points)
    PROVE  LET end == FinalPrizeLoop(board, points, pool)
           IN  /\ end.alloc = Allocations(points, pool)
               /\ end.total = TotalAllocated(points, pool)
<1>. DEFINE n == Cardinality(W)
<1>1. Sorted(board, points, n)
  BY SortedBoardsSorted
<1>. HIDE DEF n
<1>2. n \in Nat /\ Len(board) = n
  BY <1>1 DEF Sorted
<1>3. PICK run : /\ FinalPrizeLoop(board, points, pool) = run[n]
                 /\ run[0] = LoopStart(points)
                 /\ \A k \in 0 .. n - 1 :
                       run[k + 1] = LoopStep(board, points, pool, run[k])
  BY <1>2, LoopRun
<1>. DEFINE Good(k) == /\ LoopInv(run[k], board, points, pool, n)
                       /\ run[k].i > k \/ run[k].i > n \/ run[k].i > 5
            B == {k \in 0 .. n : ~Good(k)}
<1>4. \A k \in 0 .. n : Good(k)
  <2>1. SUFFICES ASSUME B # {}
                 PROVE  FALSE
    BY <2>1
  <2>2. PICK k \in B : \A l \in B : k <= l
    <3>1. B \in SUBSET Nat
      BY <1>2
    <3>. HIDE DEF B
    <3>. QED
      BY <2>1, <3>1, LeastOf
  <2>3. k \in 0 .. n /\ ~Good(k)
    BY <2>2
  <2>4. k # 0
    <3>1. LoopInv(run[0], board, points, pool, n)
      BY <1>2, <1>3, LoopStarts
    <3>2. run[0].i > 0
      BY <1>3 DEF LoopStart
    <3>3. Good(0)
      BY <3>1, <3>2
    <3>. HIDE DEF Good
    <3>. QED
      BY <2>3, <3>3
  <2>5. k - 1 \in 0 .. n - 1 /\ (k - 1) + 1 = k /\ Good(k - 1)
    <3>1. k - 1 \in 0 .. n /\ ~(k <= k - 1)
      BY <1>2, <2>3, <2>4
    <3>2. k - 1 \notin B
      BY <2>2, <3>1
    <3>3. Good(k - 1)
      BY <3>1, <3>2
    <3>. HIDE DEF Good
    <3>. QED
      BY <1>2, <2>3, <2>4, <3>3
  <2>. DEFINE st == run[k - 1]
  <2>6. LoopInv(st, board, points, pool, n) /\ (st.i > k - 1 \/ st.i > n \/ st.i > 5)
    BY <2>5
  <2>7. run[k] = LoopStep(board, points, pool, st)
    BY <1>3, <2>5
  <2>. HIDE DEF st
  <2>8. st.i \in 1 .. n + 1 /\ st.position = st.i
    BY <2>6 DEF LoopInv
  <2>9. CASE st.i <= n /\ st.position <= 5
    <3>1. run[k] = LoopBody(board, points, pool, st)
      BY <1>2, <2>7, <2>9 DEF LoopStep
    <3>2. LoopInv(run[k], board, points, pool, n) /\ run[k].i > st.i
      BY <1>1, <2>6, <2>9, <3>1, LoopBodyKeeps
    <3>3. run[k].i \in 1 .. n + 1
      BY <3>2 DEF LoopInv
    <3>4. run[k].i > k
      BY <1>2, <2>3, <2>6, <2>8, <2>9, <3>2, <3>3
    <3>. QED
      BY <2>3, <3>2, <3>4
  <2>10. CASE ~(st.i <= n /\ st.position <= 5)
    <3>1. run[k] = st
      BY <1>2, <2>7, <2>10 DEF LoopStep
    <3>2. st.i > n \/ st.i > 5
      BY <1>2, <2>8, <2>10
    <3>. QED
      BY <2>3, <2>6, <3>1, <3>2
  <2>. QED
    BY <2>9, <2>10
<1>5. Good(n)
  BY <1>2, <1>4
<1>. DEFINE end == run[n]
<1>6. LoopInv(end, board, points, pool, n) /\ (end.i > n \/ end.i > 5)
  BY <1>5
<1>. HIDE DEF end
<1>7. end.alloc = Allocations(points, pool) /\ end.total = TotalAllocated(points, pool)
  BY <1>1, <1>6, LoopEnds
<1>. QED
  BY <1>3, <1>7 DEF end

(* The loop of finalize_final_prize_pool, as written, is the ranking:      *)
(* every wallet's prize and the total, for leaderboards of any length with *)
(* any ties in any order.                                                  *)
THEOREM LoopIsTheRanking == CasesSpec => []LoopMatchesRanking
<1>1. CasesInv => LoopMatchesRanking
  <2>. SUFFICES ASSUME CasesInv, input.kind = "board"
                PROVE  LoopMatchesRanking
    BY DEF LoopMatchesRanking
  <2>. DEFINE points == input.points
              pool == input.pool
  <2>1. PICK W \in SUBSET Wallets :
            /\ W # {} /\ IsFiniteSet(W)
            /\ points \in [W -> Nat] /\ pool \in Nat
    BY BoardTyped
  <2>2. ASSUME NEW board \in SortedBoards(points)
        PROVE  /\ FinalPrizeLoop(board, points, pool).alloc = Allocations(points, pool)
               /\ FinalPrizeLoop(board, points, pool).total = TotalAllocated(points, pool)
    <3>. HIDE DEF points, pool
    <3>. QED
      BY <2>1, <2>2, LoopComputes
  <2>. QED
    BY <2>2 DEF LoopMatchesRanking
<1>. QED
  BY <1>1, CasesAlways, PTL

----------------------------------------------------------------------------
(***************************************************************************)
(* PART 2: the whole program.                                              *)
(***************************************************************************)

----------------------------------------------------------------------------
(* Types.                                                                  *)

\* What the podium, the final prize and the withdrawals leave alone.
OthersKept ==
    UNCHANGED <<adminVars, boardVars, matches, bets, pending_refunds, callVars,
                paid, refunded>>

LEMMA OwnStepFrame ==
    ASSUME PrizeStep \/ WithdrawStep
    PROVE  OthersKept
<1>1. ASSUME NEW u \in Users, NEW pick \in PodiumInputs, NEW value \in PodiumValues,
             SubmitPodiumPick(u, pick, value)
      PROVE  OthersKept
  BY <1>1 DEF SubmitPodiumPick, OthersKept
<1>2. ASSUME NEW u \in Users, ClaimFinalPrize(u)
      PROVE  OthersKept
  BY <1>2 DEF ClaimFinalPrize, OthersKept
<1>3. ASSUME NEW caller \in Accounts, NEW podium \in PodiumInputs, FinalizePodium(caller, podium)
      PROVE  OthersKept
  BY <1>3 DEF FinalizePodium, OthersKept
<1>4. ASSUME NEW caller \in Accounts, FinalizeFinalPrizePool(caller)
      PROVE  OthersKept
  BY <1>4 DEF FinalizeFinalPrizePool, OthersKept
<1>5. ASSUME NEW caller \in Accounts, WithdrawProtocolFees(caller) \/ DrainVaraTo(caller)
      PROVE  OthersKept
  BY <1>5 DEF WithdrawProtocolFees, DrainVaraTo, OthersKept
<1>6. ASSUME NEW caller \in Accounts, NEW amount \in WithdrawAmounts,
             WithdrawSurplusVara(caller, amount) \/ ForceWithdrawVara(caller, amount)
      PROVE  OthersKept
  BY <1>6 DEF WithdrawSurplusVara, ForceWithdrawVara, OthersKept
<1>. QED
  BY <1>1, <1>2, <1>3, <1>4, <1>5, <1>6 DEF PrizeStep, WithdrawStep

LEMMA PodiumCuts ==
    ASSUME NEW value \in Nat
    PROVE  /\ PodiumFee(value) \in Nat /\ PodiumPrizeCut(value) \in Nat
           /\ PodiumFee(value) + PodiumPrizeCut(value) <= value
BY DEF PodiumFee, PodiumPrizeCut, Bps, BPS_DENOMINATOR, PODIUM_PROTOCOL_FEE_BPS,
       PODIUM_FINAL_PRIZE_BPS

(* The wallets of the leaderboard and their points. *)
LEMMA LeaderboardTyped ==
    ASSUME MatchesInv
    PROVE  /\ IsFiniteSet(Leaderboard) /\ Leaderboard \in SUBSET Users
           /\ [u \in Leaderboard |-> user_points[u]] \in [Leaderboard -> Nat]
<1>1. Leaderboard \in SUBSET Users
  BY DEF Leaderboard
<1>2. IsFiniteSet(Leaderboard)
  BY <1>1, MatchesAssumption, FS_Subset
<1>. QED
  BY <1>1, <1>2 DEF MatchesInv, MatchesTypeOK

\* The amounts that the program's own steps change, and their types.
OwnTyped ==
    /\ user_points' \in [Users -> Nat]
    /\ protocol_fee_accumulated' \in Nat
    /\ final_prize_accumulated' \in Nat
    /\ balance' \in Nat
    /\ CoreTypeOK'

LEMMA PickTyped ==
    ASSUME MatchesInv, CoreTypeOK,
           NEW u \in Users, NEW pick \in PodiumInputs, NEW value \in PodiumValues,
           SubmitPodiumPick(u, pick, value)
    PROVE  OwnTyped
<1>1. value \in Nat /\ pick \in Podiums
  BY CoreAssumption DEF Podiums
<1>2. PodiumFee(value) \in Nat /\ PodiumPrizeCut(value) \in Nat
  BY <1>1, PodiumCuts
<1>. QED
  BY <1>1, <1>2 DEF SubmitPodiumPick, MatchesInv, MatchesTypeOK, CoreTypeOK, OwnTyped,
                    prizeVars, historyVars

LEMMA BonusNat ==
    ASSUME NEW pick, NEW podium
    PROVE  PodiumBonus(pick, podium) \in Nat
BY DEF PodiumBonus

LEMMA PodiumTyped ==
    ASSUME MatchesInv, CoreTypeOK,
           NEW caller \in Accounts, NEW podium \in PodiumInputs, FinalizePodium(caller, podium)
    PROVE  OwnTyped
<1>1. podium \in Podiums
  BY CoreAssumption DEF Podiums
<1>2. \A u \in Users : PodiumBonus(podium_picks[u], podium) \in Nat
  BY BonusNat
<1>. QED
  BY <1>1, <1>2 DEF FinalizePodium, MatchesInv, MatchesTypeOK, CoreTypeOK, OwnTyped,
                    prizeVars, historyVars, potVars

LEMMA AllocationTyped ==
    ASSUME MatchesInv, CoreTypeOK, NEW caller \in Accounts, FinalizeFinalPrizePool(caller)
    PROVE  OwnTyped
<1>. DEFINE points == [u \in Leaderboard |-> user_points[u]]
            pool == final_prize_accumulated
            total == TotalAllocated(points, pool)
<1>1. pool \in Nat /\ balance \in Nat
  BY DEF MatchesInv, MatchesTypeOK
<1>2. total \in Nat /\ total <= pool
  BY <1>1, LeaderboardTyped, PrizesFit
<1>3. \A u \in Leaderboard : PrizeFor(points, pool, u) \in Nat
  BY <1>1, LeaderboardTyped, PrizesOf
<1>4. /\ final_prize_allocations' =
             [u \in Users |-> IF u \in Leaderboard THEN PrizeFor(points, pool, u) ELSE 0]
      /\ final_prize_claimable_total' = total
      /\ balance >= SaturatingSub(pool, total)
      /\ balance' = balance - SaturatingSub(pool, total)
      /\ final_prize_accumulated' = 0 /\ final_prize_finalized' = TRUE
      /\ UNCHANGED <<user_points, protocol_fee_accumulated, podiumVars,
                     final_prize_claimed, historyVars>>
  BY DEF FinalizeFinalPrizePool
<1>. HIDE DEF points, pool, total
<1>5. final_prize_allocations' \in [Users -> Nat]
  BY <1>3, <1>4
<1>6. balance' \in Nat
  BY <1>1, <1>2, <1>4 DEF SaturatingSub
<1>7. /\ user_points' \in [Users -> Nat] /\ protocol_fee_accumulated' \in Nat
      /\ final_prize_accumulated' \in Nat /\ final_prize_claimable_total' \in Nat
  BY <1>2, <1>4 DEF MatchesInv, MatchesTypeOK
<1>8. /\ podium_picks' \in [Users -> Podiums \cup {NoPodium}]
      /\ podium_result' \in Podiums \cup {NoPodium}
      /\ final_prize_claimed' \in [Users -> BOOLEAN]
      /\ forced' \in Nat /\ raided' \in Nat
  BY <1>4 DEF CoreTypeOK, podiumVars, historyVars
<1>9. final_prize_finalized' \in BOOLEAN
  BY <1>4
<1>. QED
  BY <1>5, <1>6, <1>7, <1>8, <1>9 DEF CoreTypeOK, OwnTyped

LEMMA PrizeClaimTyped ==
    ASSUME MatchesInv, CoreTypeOK, NEW u \in Users, ClaimFinalPrize(u)
    PROVE  OwnTyped
<1>1. final_prize_allocations[u] \in Nat /\ final_prize_claimable_total \in Nat /\ balance \in Nat
  BY DEF MatchesInv, MatchesTypeOK, CoreTypeOK
<1>2. SaturatingSub(final_prize_claimable_total, final_prize_allocations[u]) \in Nat
  BY <1>1 DEF SaturatingSub
<1>3. balance' \in Nat
  BY <1>1 DEF ClaimFinalPrize
<1>. QED
  BY <1>2, <1>3 DEF ClaimFinalPrize, MatchesInv, MatchesTypeOK, CoreTypeOK, OwnTyped,
                    podiumVars, historyVars, potVars

LEMMA WithdrawTyped ==
    ASSUME MatchesInv, CoreTypeOK, WithdrawStep
    PROVE  OwnTyped
<1>1. balance \in Nat /\ protocol_fee_accumulated \in Nat /\ forced \in Nat /\ raided \in Nat
  BY DEF MatchesInv, MatchesTypeOK, CoreTypeOK
<1>. DEFINE Taken == /\ UNCHANGED <<user_points, final_prize_accumulated, podiumVars, prizeVars>>
                     /\ protocol_fee_accumulated' \in Nat /\ balance' \in Nat
                     /\ forced' \in Nat /\ raided' \in Nat
<1>2. Taken
  <2>1. ASSUME NEW caller \in Accounts, WithdrawProtocolFees(caller)
        PROVE  Taken
    BY <1>1, <2>1 DEF WithdrawProtocolFees, coreVars, historyVars
  <2>2. ASSUME NEW caller \in Accounts, NEW amount \in WithdrawAmounts,
               WithdrawSurplusVara(caller, amount)
        PROVE  Taken
    <3>1. amount \in Nat /\ TotalLockedVara \in Nat
      BY CoreAssumption, LockedIsBooked DEF TotalLockedVara, CoreTypeOK
    <3>2. balance' \in Nat
      BY <1>1, <2>2, <3>1 DEF WithdrawSurplusVara, SaturatingSub
    <3>. QED
      BY <1>1, <2>2, <3>1, <3>2 DEF WithdrawSurplusVara, potVars
  <2>3. ASSUME NEW caller \in Accounts, NEW amount \in WithdrawAmounts,
               ForceWithdrawVara(caller, amount)
        PROVE  Taken
    <3>1. amount \in Nat
      BY CoreAssumption
    <3>. QED
      BY <1>1, <2>3, <3>1 DEF ForceWithdrawVara, potVars
  <2>4. ASSUME NEW caller \in Accounts, DrainVaraTo(caller)
        PROVE  Taken
    BY <1>1, <2>4 DEF DrainVaraTo, potVars
  <2>. QED
    BY <2>1, <2>2, <2>3, <2>4 DEF WithdrawStep
<1>. QED
  BY <1>2 DEF MatchesInv, MatchesTypeOK, CoreTypeOK, OwnTyped, podiumVars, prizeVars

LEMMA OwnStepTyped ==
    ASSUME MatchesInv, CoreTypeOK, PrizeStep \/ WithdrawStep
    PROVE  OwnTyped
<1>1. ASSUME NEW u \in Users, NEW pick \in PodiumInputs, NEW value \in PodiumValues,
             SubmitPodiumPick(u, pick, value)
      PROVE  OwnTyped
  BY <1>1, PickTyped
<1>2. ASSUME NEW u \in Users, ClaimFinalPrize(u)
      PROVE  OwnTyped
  BY <1>2, PrizeClaimTyped
<1>3. ASSUME NEW caller \in Accounts, NEW podium \in PodiumInputs, FinalizePodium(caller, podium)
      PROVE  OwnTyped
  BY <1>3, PodiumTyped
<1>4. ASSUME NEW caller \in Accounts, FinalizeFinalPrizePool(caller)
      PROVE  OwnTyped
  BY <1>4, AllocationTyped
<1>. QED
  BY <1>1, <1>2, <1>3, <1>4, WithdrawTyped DEF PrizeStep

LEMMA OwnStepInv ==
    ASSUME MatchesInv, OthersKept, OwnTyped
    PROVE  MatchesInv'
<1>1. AdminTypeOK'
  BY AdminFrame DEF MatchesInv, OthersKept
<1>2. MatchesTypeOK'
  BY DEF MatchesInv, MatchesTypeOK, OthersKept, OwnTyped, boardVars, callVars
<1>3. QueriesRegistered' /\ ReturnsHaveBets' /\ IdsAreAssigned'
  BY DEF MatchesInv, QueriesRegistered, ReturnsHaveBets, IdsAreAssigned, Registered,
         OthersKept, boardVars, callVars
<1>. QED
  BY <1>1, <1>2, <1>3 DEF MatchesInv

(* Every step of the program is one of MatchesNext that leaves podium and  *)
(* prize alone, one of the program's own, or a stutter.                    *)
LEMMA StepKinds ==
    ASSUME [Next]_vars
    PROVE  \/ [MatchesNext]_allMatchesVars /\ UNCHANGED coreVars
           \/ PrizeStep \/ WithdrawStep
BY DEF Next, vars, MatchesNext

TypeInv == MatchesInv /\ CoreTypeOK

LEMMA CoreInitTyped == Init => TypeInv
<1>1. CoreInit => CoreTypeOK
  <2>. SUFFICES ASSUME CoreInit
                PROVE  CoreTypeOK
    OBVIOUS
  <2>1. /\ podium_picks \in [Users -> Podiums \cup {NoPodium}]
        /\ podium_result \in Podiums \cup {NoPodium}
        /\ final_prize_allocations \in [Users -> Nat]
        /\ final_prize_claimable_total \in Nat
        /\ forced \in Nat /\ raided \in Nat
    BY DEF CoreInit
  <2>2. final_prize_finalized \in BOOLEAN /\ final_prize_claimed \in [Users -> BOOLEAN]
    BY DEF CoreInit
  <2>. QED
    BY <2>1, <2>2 DEF CoreTypeOK
<1>. QED
  BY <1>1, MatchesInitInv DEF Init, TypeInv

LEMMA TypeInvStep ==
    ASSUME TypeInv, [Next]_vars
    PROVE  TypeInv'
<1>1. CASE [MatchesNext]_allMatchesVars /\ UNCHANGED coreVars
  <2>1. MatchesInv'
    BY <1>1, MatchesInvNext DEF TypeInv
  <2>2. CoreTypeOK'
    BY <1>1 DEF TypeInv, CoreTypeOK, coreVars, podiumVars, prizeVars, historyVars
  <2>. QED
    BY <2>1, <2>2 DEF TypeInv
<1>2. CASE PrizeStep \/ WithdrawStep
  BY <1>2, OwnStepFrame, OwnStepTyped, OwnStepInv DEF TypeInv, OwnTyped
<1>. QED
  BY <1>1, <1>2, StepKinds

(* Podium, prize and withdrawals keep every variable of the program in its *)
(* type, whatever the order of the handlers.                               *)
THEOREM CoreTypes == Spec => []TypeOK
<1>1. TypeInv /\ [Next]_vars => TypeInv'
  BY TypeInvStep
<1>2. TypeInv => TypeOK
  BY DEF TypeInv, TypeOK, MatchesInv
<1>. QED
  BY <1>1, <1>2, CoreInitTyped, PTL DEF Spec

----------------------------------------------------------------------------
(* The final prize is owed exactly.                                        *)

\* What the final prize owes each wallet.
PrizeDue == [u \in Users |-> IF final_prize_claimed[u] THEN 0 ELSE final_prize_allocations[u]]

PrizeBooked ==
    /\ ~final_prize_finalized =>
          \A u \in Users : final_prize_allocations[u] = 0 /\ ~final_prize_claimed[u]
    /\ final_prize_claimable_total = SumOver(PrizeDue, Users)

LEMMA PrizeDueNat ==
    ASSUME CoreTypeOK
    PROVE  /\ \A u \in Users : PrizeDue[u] \in Nat
           /\ SumOver(PrizeDue, Users) \in Nat /\ IsFiniteSet(Users)
<1>1. \A u \in Users : PrizeDue[u] \in Nat
  BY DEF PrizeDue, CoreTypeOK
<1>. HIDE DEF PrizeDue
<1>. QED
  BY <1>1, SumOverNat, MatchesAssumption

LEMMA PrizeBookedIsEnough ==
    ASSUME CoreTypeOK, PrizeBooked
    PROVE  PrizeBooksBalance
<1>. DEFINE open == {u \in Users : ~final_prize_claimed[u]}
<1>1. open \in SUBSET Users
  OBVIOUS
<1>2. /\ \A u \in open : final_prize_allocations[u] = PrizeDue[u]
      /\ \A u \in Users \ open : PrizeDue[u] = 0
  BY DEF PrizeDue
<1>. HIDE DEF open, PrizeDue
<1>3. SumOver(final_prize_allocations, open) = SumOver(PrizeDue, Users)
  BY <1>1, <1>2, PrizeDueNat, SumOverWithin
<1>. QED
  BY <1>3 DEF PrizeBooksBalance, PrizeBooked, open

LEMMA PrizeBookedInit ==
    ASSUME CoreInit
    PROVE  PrizeBooked
<1>1. \A u \in Users : PrizeDue[u] = 0
  BY DEF CoreInit, PrizeDue
<1>. HIDE DEF PrizeDue
<1>2. SumOver(PrizeDue, Users) = 0
  BY <1>1, SumOverZero, MatchesAssumption
<1>. QED
  BY <1>2 DEF PrizeBooked, CoreInit

LEMMA PrizeUntouched ==
    ASSUME PrizeBooked, UNCHANGED prizeVars
    PROVE  PrizeBooked'
<1>1. PrizeDue' = PrizeDue
  BY DEF PrizeDue, prizeVars
<1>. QED
  BY <1>1 DEF PrizeBooked, prizeVars

LEMMA PrizeAllocated ==
    ASSUME MatchesInv, CoreTypeOK, PrizeBooked,
           NEW caller \in Accounts, FinalizeFinalPrizePool(caller)
    PROVE  PrizeBooked'
<1>. DEFINE points == [u \in Leaderboard |-> user_points[u]]
            pool == final_prize_accumulated
            A == Allocations(points, pool)
<1>1. /\ final_prize_allocations' =
             [u \in Users |-> IF u \in Leaderboard THEN PrizeFor(points, pool, u) ELSE 0]
      /\ final_prize_claimable_total' = TotalAllocated(points, pool)
      /\ final_prize_finalized' = TRUE
      /\ ~final_prize_finalized
      /\ UNCHANGED final_prize_claimed
  BY DEF FinalizeFinalPrizePool
<1>2. \A u \in Users : PrizeDue'[u] = final_prize_allocations'[u]
  BY <1>1 DEF PrizeDue, PrizeBooked
<1>3. Leaderboard \in SUBSET Users
  BY LeaderboardTyped
<1>4. /\ \A u \in Leaderboard : A[u] = PrizeDue'[u]
      /\ \A u \in Users \ Leaderboard : PrizeDue'[u] = 0
  BY <1>1, <1>2, <1>3 DEF Allocations
<1>5. DOMAIN points = Leaderboard /\ TotalAllocated(points, pool) = SumOver(A, DOMAIN points)
  BY DEF TotalAllocated
<1>6. \A u \in Users : PrizeDue'[u] \in Nat
  <2>1. \A u \in Leaderboard : PrizeFor(points, pool, u) \in Nat
    BY LeaderboardTyped, PrizesOf DEF MatchesInv, MatchesTypeOK
  <2>. HIDE DEF points, pool
  <2>. QED
    BY <1>1, <1>2, <2>1
<1>. HIDE DEF A, PrizeDue, points, pool
<1>7. SumOver(A, Leaderboard) = SumOver(PrizeDue', Users)
  BY <1>3, <1>4, <1>6, SumOverWithin, MatchesAssumption
<1>. QED
  BY <1>1, <1>5, <1>7 DEF PrizeBooked

LEMMA PrizeClaimed ==
    ASSUME CoreTypeOK, PrizeBooked, NEW u \in Users, ClaimFinalPrize(u)
    PROVE  /\ PrizeBooked'
           /\ final_prize_claimable_total'
                  = final_prize_claimable_total - final_prize_allocations[u]
<1>1. /\ \A v \in Users \ {u} : PrizeDue[v] = PrizeDue'[v]
      /\ PrizeDue[u] = final_prize_allocations[u] /\ PrizeDue'[u] = 0
      /\ final_prize_finalized /\ UNCHANGED final_prize_finalized
      /\ final_prize_claimable_total' =
             SaturatingSub(final_prize_claimable_total, final_prize_allocations[u])
  BY DEF PrizeDue, ClaimFinalPrize, CoreTypeOK
<1>2. \A v \in Users : PrizeDue[v] \in Nat /\ PrizeDue'[v] \in Nat
  BY <1>1, PrizeDueNat
<1>. HIDE DEF PrizeDue
<1>3. SumOver(PrizeDue', Users) = SumOver(PrizeDue, Users) - PrizeDue[u] + PrizeDue'[u]
  BY <1>1, <1>2, PrizeDueNat, SumOverChange
<1>4. SumOver(PrizeDue, Users) \in Nat /\ SumOver(PrizeDue', Users) \in Nat
  BY <1>2, PrizeDueNat, SumOverNat
<1>5. PrizeDue[u] \in Nat /\ PrizeDue'[u] = 0
  BY <1>1, <1>2
<1>6. /\ final_prize_claimable_total = SumOver(PrizeDue, Users)
      /\ final_prize_claimable_total' = SaturatingSub(final_prize_claimable_total, PrizeDue[u])
  BY <1>1 DEF PrizeBooked
<1>7. /\ final_prize_claimable_total' = SumOver(PrizeDue', Users)
      /\ final_prize_claimable_total' = final_prize_claimable_total - PrizeDue[u]
  BY <1>3, <1>4, <1>5, <1>6 DEF SaturatingSub
<1>. QED
  BY <1>1, <1>7 DEF PrizeBooked

LEMMA PrizeBookedStep ==
    ASSUME TypeInv, PrizeBooked, [Next]_vars
    PROVE  PrizeBooked'
<1>1. CASE UNCHANGED coreVars
  BY <1>1, PrizeUntouched DEF coreVars
<1>2. ASSUME NEW u \in Users, NEW pick \in PodiumInputs, NEW value \in PodiumValues,
             SubmitPodiumPick(u, pick, value)
      PROVE  PrizeBooked'
  BY <1>2, PrizeUntouched DEF SubmitPodiumPick
<1>3. ASSUME NEW caller \in Accounts, NEW podium \in PodiumInputs, FinalizePodium(caller, podium)
      PROVE  PrizeBooked'
  BY <1>3, PrizeUntouched DEF FinalizePodium
<1>4. CASE WithdrawStep
  <2>1. UNCHANGED prizeVars
    BY <1>4 DEF WithdrawStep, WithdrawProtocolFees, WithdrawSurplusVara, ForceWithdrawVara,
                DrainVaraTo, coreVars
  <2>. QED
    BY <2>1, PrizeUntouched
<1>. QED
  BY <1>1, <1>2, <1>3, <1>4, PrizeAllocated, PrizeClaimed, StepKinds DEF PrizeStep, TypeInv

(* What the final prize still owes is, to the coin, the sum of the         *)
(* allocations that were not claimed (finalize_final_prize_pool,           *)
(* claim_final_prize).                                                     *)
THEOREM PrizeIsOwedExactly == Spec => []PrizeBooksBalance
<1>1. Init => TypeInv /\ PrizeBooked
  BY CoreInitTyped, PrizeBookedInit DEF Init
<1>2. TypeInv /\ PrizeBooked /\ [Next]_vars => TypeInv' /\ PrizeBooked'
  BY TypeInvStep, PrizeBookedStep
<1>3. TypeInv /\ PrizeBooked => PrizeBooksBalance
  BY PrizeBookedIsEnough DEF TypeInv
<1>. QED
  BY <1>1, <1>2, <1>3, PTL DEF Spec

----------------------------------------------------------------------------
(* Solvency.                                                               *)

\* What is known of matches, bets and refunds.
MatchMoney == KickedOff /\ RefundsInv /\ SharesInv /\ PoolsInv

LEMMA MatchMoneyKept ==
    ASSUME MatchesInv, MatchMoney, OthersKept
    PROVE  MatchMoney'
<1>1. /\ Registered' = Registered /\ UNCHANGED <<matches, bets, phases, now>>
      /\ UNCHANGED <<pending_refunds, refunded>>
  BY DEF OthersKept, Registered, adminVars, boardVars
<1>2. KickedOff'
  BY <1>1 DEF MatchMoney, KickedOff, Status
<1>3. RefundsInv'
  <2>1. OpenUntilDecided'
    BY <1>1 DEF MatchMoney, RefundsInv, OpenUntilDecided, Status
  <2>2. \A u \in Users, m \in MatchIds : Voided(u, m)' <=> Voided(u, m)
    BY <1>1 DEF Voided, IsCancelled, Status
  <2>. QED
    BY <1>1, <2>1, <2>2, DueKept DEF MatchMoney, refundVars
<1>4. SharesInv'
  <2>. SUFFICES ASSUME NEW m \in Registered
                PROVE  SharesBooked(m)'
    BY <1>1 DEF SharesInv
  <2>. QED
    BY <1>1, Untouched DEF MatchMoney, Weight
<1>5. PoolsInv'
  BY <1>1, HeldKept DEF MatchMoney, PoolsInv
<1>. QED
  BY <1>2, <1>3, <1>4, <1>5 DEF MatchMoney

(* What the program's own steps do to the books is what they do to the two *)
(* pots.                                                                   *)
LEMMA OwnBooks ==
    ASSUME MatchesInv, OthersKept, OwnTyped
    PROVE  /\ Books' - protocol_fee_accumulated' - final_prize_accumulated'
                  = Books - protocol_fee_accumulated - final_prize_accumulated
           /\ Books \in Nat /\ Books' \in Nat
           /\ protocol_fee_accumulated \in Nat /\ final_prize_accumulated \in Nat
           /\ protocol_fee_accumulated' \in Nat /\ final_prize_accumulated' \in Nat
           /\ balance \in Nat /\ balance' \in Nat
<1>1. UNCHANGED <<matches, bets, returns, pending_refunds>>
  BY DEF OthersKept, callVars
<1>2. Left' = Left
  BY <1>1 DEF Left
<1>3. Owed' = Owed
  BY <1>1 DEF Owed, OwedBy, StakeOf
<1>4. /\ SumOver(Left, MatchIds)' = SumOver(Left, MatchIds)
      /\ SumOver(Owed, ReturnSlots)' = SumOver(Owed, ReturnSlots)
      /\ SumOver(pending_refunds, Users)' = SumOver(pending_refunds, Users)
  BY <1>1, <1>2, <1>3
<1>. HIDE DEF Left, Owed
<1>. QED
  BY <1>4, SumsNat DEF Books, OwnTyped

\* The program holds what is on its books and what the final prize owes.
SolvencyInv == balance + forced + raided >= Books + final_prize_claimable_total

LEMMA CoreNat ==
    ASSUME CoreTypeOK
    PROVE  forced \in Nat /\ raided \in Nat /\ final_prize_claimable_total \in Nat
BY DEF CoreTypeOK

LEMMA PickSolvent ==
    ASSUME MatchesInv, CoreTypeOK, SolvencyInv, OthersKept, OwnTyped,
           NEW u \in Users, NEW pick \in PodiumInputs, NEW value \in PodiumValues,
           SubmitPodiumPick(u, pick, value)
    PROVE  SolvencyInv'
<1>1. /\ balance' = balance + value
      /\ protocol_fee_accumulated' = protocol_fee_accumulated + PodiumFee(value)
      /\ final_prize_accumulated' = final_prize_accumulated + PodiumPrizeCut(value)
      /\ UNCHANGED <<final_prize_claimable_total, forced, raided>>
  BY DEF SubmitPodiumPick, prizeVars, historyVars
<1>2. /\ value \in Nat /\ PodiumFee(value) \in Nat /\ PodiumPrizeCut(value) \in Nat
      /\ PodiumFee(value) + PodiumPrizeCut(value) <= value
  BY CoreAssumption, PodiumCuts
<1>. HIDE DEF Books
<1>. QED
  BY <1>1, <1>2, CoreNat, OwnBooks DEF SolvencyInv

LEMMA PodiumSolvent ==
    ASSUME MatchesInv, CoreTypeOK, SolvencyInv, OthersKept, OwnTyped,
           NEW caller \in Accounts, NEW podium \in PodiumInputs, FinalizePodium(caller, podium)
    PROVE  SolvencyInv'
<1>1. UNCHANGED <<balance, protocol_fee_accumulated, final_prize_accumulated,
                  final_prize_claimable_total, forced, raided>>
  BY DEF FinalizePodium, prizeVars, historyVars, potVars
<1>. HIDE DEF Books
<1>. QED
  BY <1>1, CoreNat, OwnBooks DEF SolvencyInv

LEMMA AllocationSolvent ==
    ASSUME MatchesInv, CoreTypeOK, SolvencyInv, PrizeBooked, OthersKept, OwnTyped,
           NEW caller \in Accounts, FinalizeFinalPrizePool(caller)
    PROVE  SolvencyInv'
<1>. DEFINE points == [u \in Leaderboard |-> user_points[u]]
            pool == final_prize_accumulated
            total == TotalAllocated(points, pool)
<1>1. /\ balance' = balance - SaturatingSub(pool, total)
      /\ final_prize_accumulated' = 0
      /\ final_prize_claimable_total' = total
      /\ UNCHANGED <<protocol_fee_accumulated, forced, raided>>
  BY DEF FinalizeFinalPrizePool, historyVars
<1>2. pool \in Nat /\ total \in Nat /\ total <= pool
  BY LeaderboardTyped, PrizesFit DEF MatchesInv, MatchesTypeOK
<1>3. pool = final_prize_accumulated
  OBVIOUS
<1>. HIDE DEF Books, total, pool, points
<1>4. SaturatingSub(pool, total) = pool - total
  BY <1>2 DEF SaturatingSub
<1>. QED
  BY <1>1, <1>2, <1>3, <1>4, CoreNat, OwnBooks DEF SolvencyInv

LEMMA ClaimSolvent ==
    ASSUME MatchesInv, CoreTypeOK, SolvencyInv, PrizeBooked, OthersKept, OwnTyped,
           NEW u \in Users, ClaimFinalPrize(u)
    PROVE  SolvencyInv'
<1>1. /\ balance' = balance - final_prize_allocations[u]
      /\ final_prize_allocations[u] \in Nat
      /\ UNCHANGED <<protocol_fee_accumulated, final_prize_accumulated, forced, raided>>
  BY DEF ClaimFinalPrize, CoreTypeOK, historyVars, potVars
<1>2. final_prize_claimable_total'
          = final_prize_claimable_total - final_prize_allocations[u]
  BY PrizeClaimed
<1>. HIDE DEF Books
<1>. QED
  BY <1>1, <1>2, CoreNat, OwnBooks DEF SolvencyInv

(* A surplus withdrawal that finds no call suspended leaves what is on the *)
(* books, for then the books are what it looks at.                         *)
LEMMA SurplusSolvent ==
    ASSUME MatchesInv, CoreTypeOK, SolvencyInv, OthersKept, OwnTyped,
           NEW caller \in Accounts, NEW amount \in WithdrawAmounts,
           WithdrawSurplusVara(caller, amount)
    PROVE  SolvencyInv'
<1>1. /\ balance' = balance - amount
      /\ amount <= SaturatingSub(balance, TotalLockedVara)
      /\ raided' = raided + (IF ReturnsUnderWay THEN amount ELSE 0)
      /\ UNCHANGED <<protocol_fee_accumulated, final_prize_accumulated,
                     final_prize_claimable_total, forced>>
  BY DEF WithdrawSurplusVara, prizeVars, potVars
<1>2. amount \in Nat \ {0}
  BY CoreAssumption
<1>3. CASE ReturnsUnderWay
  <2>. HIDE DEF Books
  <2>. QED
    BY <1>1, <1>2, <1>3, CoreNat, OwnBooks DEF SolvencyInv
<1>4. CASE ~ReturnsUnderWay
  <2>1. \A s \in ReturnSlots : Owed[s] = 0
    BY <1>4 DEF ReturnsUnderWay, Owed, OwedBy
  <2>. HIDE DEF Owed, Left
  <2>2. SumOver(Owed, ReturnSlots) = 0
    BY <2>1, SumOverZero, MatchesAssumption
  <2>3. Books = LockedInMatches
    BY <2>2, LockedIsBooked, SumsNat DEF Books
  <2>4. raided' = raided
    BY <1>1, <1>4, CoreNat
  <2>. HIDE DEF Books
  <2>5. TotalLockedVara = Books + final_prize_claimable_total
    BY <2>3 DEF TotalLockedVara
  <2>6. balance - amount >= Books + final_prize_claimable_total
    BY <1>1, <1>2, <2>5, CoreNat, OwnBooks DEF SaturatingSub
  <2>. QED
    BY <1>1, <1>2, <2>4, <2>6, CoreNat, OwnBooks DEF SolvencyInv
<1>. QED
  BY <1>3, <1>4

LEMMA WithdrawSolvent ==
    ASSUME MatchesInv, CoreTypeOK, SolvencyInv, OthersKept, OwnTyped, WithdrawStep
    PROVE  SolvencyInv'
<1>1. ASSUME NEW caller \in Accounts, WithdrawProtocolFees(caller)
      PROVE  SolvencyInv'
  <2>1. /\ balance' = balance - protocol_fee_accumulated
        /\ protocol_fee_accumulated' = 0
        /\ UNCHANGED <<final_prize_accumulated, final_prize_claimable_total, forced, raided>>
    BY <1>1 DEF WithdrawProtocolFees, coreVars, prizeVars, historyVars
  <2>. HIDE DEF Books
  <2>. QED
    BY <2>1, CoreNat, OwnBooks DEF SolvencyInv
<1>2. ASSUME NEW caller \in Accounts, NEW amount \in WithdrawAmounts,
             ForceWithdrawVara(caller, amount)
      PROVE  SolvencyInv'
  <2>1. /\ balance' = balance - amount /\ forced' = forced + amount
        /\ UNCHANGED <<protocol_fee_accumulated, final_prize_accumulated,
                       final_prize_claimable_total, raided>>
    BY <1>2 DEF ForceWithdrawVara, prizeVars, potVars
  <2>2. amount \in Nat
    BY CoreAssumption
  <2>. HIDE DEF Books
  <2>. QED
    BY <2>1, <2>2, CoreNat, OwnBooks DEF SolvencyInv
<1>3. ASSUME NEW caller \in Accounts, DrainVaraTo(caller)
      PROVE  SolvencyInv'
  <2>1. /\ balance' = 0 /\ forced' = forced + balance
        /\ UNCHANGED <<protocol_fee_accumulated, final_prize_accumulated,
                       final_prize_claimable_total, raided>>
    BY <1>3 DEF DrainVaraTo, prizeVars, potVars
  <2>. HIDE DEF Books
  <2>. QED
    BY <2>1, CoreNat, OwnBooks DEF SolvencyInv
<1>. QED
  BY <1>1, <1>2, <1>3, SurplusSolvent DEF WithdrawStep

LEMMA OwnSolvent ==
    ASSUME MatchesInv, CoreTypeOK, SolvencyInv, PrizeBooked, PrizeStep \/ WithdrawStep
    PROVE  SolvencyInv'
<1>1. OthersKept /\ OwnTyped
  BY OwnStepFrame, OwnStepTyped
<1>2. CASE PrizeStep
  <2>1. ASSUME NEW u \in Users, ClaimFinalPrize(u)
        PROVE  SolvencyInv'
    BY <1>1, <2>1, ClaimSolvent
  <2>2. ASSUME NEW caller \in Accounts, FinalizeFinalPrizePool(caller)
        PROVE  SolvencyInv'
    BY <1>1, <2>2, AllocationSolvent
  <2>. QED
    BY <1>1, <1>2, <2>1, <2>2, PickSolvent, PodiumSolvent DEF PrizeStep
<1>. QED
  BY <1>1, <1>2, WithdrawSolvent

LEMMA SolventIsEnough ==
    ASSUME MatchesInv, CoreTypeOK, SolvencyInv
    PROVE  Solvent
<1>. HIDE DEF Left, Owed
<1>. QED
  BY LockedIsBooked, PayoutsAreOwed, SumsNat, CoreNat DEF Solvent, SolvencyInv, Books

\* The inductive invariant of the whole program.
CoreInv == TypeInv /\ PrizeBooked /\ MatchMoney /\ SolvencyInv

LEMMA CoreInvInit == Init => CoreInv
<1>. SUFFICES ASSUME Init
              PROVE  CoreInv
  OBVIOUS
<1>1. AdminInit /\ MatchesInit /\ CoreInit
  BY DEF Init
<1>2. KickedOff /\ SharesInv
  BY <1>1 DEF MatchesInit, KickedOff, SharesInv, Registered
<1>3. TypeInv /\ PrizeBooked
  BY <1>1, CoreInitTyped, PrizeBookedInit
<1>4. RefundsInv /\ PoolsInv /\ BooksInv
  BY <1>1, RefundsInit, PoolsInit, BooksInit
<1>5. forced = 0 /\ raided = 0 /\ final_prize_claimable_total = 0
  BY <1>1 DEF CoreInit
<1>6. BooksTyped
  BY <1>3, BooksNat DEF TypeInv
<1>. HIDE DEF Books
<1>7. SolvencyInv
  BY <1>4, <1>5, <1>6 DEF SolvencyInv, BooksInv, BooksTyped
<1>. QED
  BY <1>2, <1>3, <1>4, <1>7 DEF CoreInv, MatchMoney

LEMMA CoreInvStep ==
    ASSUME ~EarlyReports, CoreInv, [Next]_vars
    PROVE  /\ TypeInv' /\ PrizeBooked' /\ MatchMoney'
           /\ SolvencyInv' \/ (BooksKept /\ UNCHANGED coreVars)
<1>1. TypeInv' /\ PrizeBooked'
  BY TypeInvStep, PrizeBookedStep DEF CoreInv
<1>2. CASE [MatchesNext]_allMatchesVars /\ UNCHANGED coreVars
  <2>1. KickedOff' /\ RefundsInv' /\ SharesInv' /\ PoolsInv' /\ BooksKept
    BY <1>2, MoneyStep DEF CoreInv, TypeInv, MatchMoney
  <2>. QED
    BY <1>1, <1>2, <2>1 DEF MatchMoney
<1>3. CASE PrizeStep \/ WithdrawStep
  BY <1>1, <1>3, OwnStepFrame, OwnSolvent, MatchMoneyKept DEF CoreInv, TypeInv
<1>. QED
  BY <1>2, <1>3, StepKinds

(* The program always holds what it counts as locked and the payouts of    *)
(* suspended calls, up to what an admin took past the books or as surplus  *)
(* while a call was suspended (total_locked_vara, withdraw_surplus_vara,   *)
(* the payouts, the final prize); provided no oracle reports a result      *)
(* before the kick-off.                                                    *)
THEOREM StaysSolvent ==
    ASSUME ~EarlyReports
    PROVE  Spec => []Solvent
<1>1. CoreInv /\ [Next]_vars
          => /\ TypeInv' /\ PrizeBooked' /\ MatchMoney'
             /\ SolvencyInv' \/ (BooksKept /\ UNCHANGED coreVars)
  BY CoreInvStep
<1>. DEFINE Typed == BooksTyped /\ CoreTypeOK
<1>2. TypeInv => Typed
  BY BooksNat DEF TypeInv
<1>3. SolvencyInv /\ BooksKept /\ UNCHANGED coreVars /\ Typed /\ Typed' => SolvencyInv'
  <2>. SUFFICES ASSUME SolvencyInv, BooksKept, UNCHANGED coreVars, Typed, Typed'
                PROVE  SolvencyInv'
    OBVIOUS
  <2>. DEFINE held == forced + raided
              owed == final_prize_claimable_total
  <2>1. held' = held /\ owed' = owed /\ held \in Nat /\ owed \in Nat
    BY DEF CoreTypeOK, coreVars, historyVars, prizeVars
  <2>2. balance \in Nat /\ balance' \in Nat /\ Books \in Nat /\ Books' \in Nat
    BY DEF BooksTyped
  <2>3. forced \in Nat /\ raided \in Nat /\ UNCHANGED <<forced, raided>>
    BY DEF CoreTypeOK, coreVars, historyVars
  <2>4. \A x, y, v, w, f, r, o \in Nat :
            v + f + r >= w + o /\ x + w >= v + y => x + f + r >= y + o
    OBVIOUS
  <2>. HIDE DEF Books
  <2>5. /\ balance + forced + raided >= Books + owed /\ balance' + Books >= balance + Books'
    BY DEF SolvencyInv, BooksKept
  <2>6. balance' + forced + raided >= Books' + owed
    BY <2>1, <2>2, <2>3, <2>4, <2>5
  <2>. QED
    BY <2>1, <2>3, <2>6 DEF SolvencyInv
<1>4. CoreInv => Solvent
  BY SolventIsEnough DEF CoreInv, TypeInv
<1>. HIDE DEF Typed
<1>. QED
  BY <1>1, <1>2, <1>3, <1>4, CoreInvInit, PTL DEF Spec, CoreInv
----------------------------------------------------------------------------
(* Points.                                                                 *)

Decided(m) == m \in Registered /\ Status(m) = "Finalized"

\* What u's bet on m has earned.
EarnedOn(u, m) ==
    IF Decided(m) /\ bets[<<u, m>>] # NoBet
    THEN PointsFor(bets[<<u, m>>].prediction, matches[m].result.final, Weight(m))
    ELSE 0

Earned(u) == [m \in MatchIds |-> EarnedOn(u, m)]

PointsInv ==
    \A u \in Users :
        user_points[u] =
            SumOver(Earned(u), MatchIds) + PodiumBonus(podium_picks[u], podium_result)

\* The podium is announced when picks have ended.
PicksEnded ==
    podium_result # NoPodium => r32_lock_time # NoTime /\ now >= r32_lock_time

LEMMA EarnedNat ==
    ASSUME MatchesInv, NEW u \in Users
    PROVE  /\ \A m \in MatchIds : EarnedOn(u, m) \in Nat /\ Earned(u)[m] = EarnedOn(u, m)
           /\ SumOver(Earned(u), MatchIds) \in Nat
           /\ IsFiniteSet(MatchIds)
<1>1. \A m \in MatchIds : EarnedOn(u, m) \in Nat
  <2>. SUFFICES ASSUME NEW m \in MatchIds, Decided(m), bets[<<u, m>>] # NoBet
                PROVE  EarnedOn(u, m) \in Nat
    BY DEF EarnedOn
  <2>1. Weight(m) \in Nat
    BY WeightNat DEF Decided, MatchesInv
  <2>. QED
    BY <2>1, PointsNat DEF EarnedOn
<1>2. \A m \in MatchIds : Earned(u)[m] = EarnedOn(u, m)
  BY DEF Earned
<1>3. IsFiniteSet(MatchIds)
  BY MatchesAssumption
<1>4. SumOver(Earned(u), MatchIds) \in Nat
  BY <1>1, <1>2, <1>3, SumOverNat
<1>. QED
  BY <1>1, <1>2, <1>3, <1>4

LEMMA PointsInvIsEnough ==
    ASSUME MatchesInv, PointsInv
    PROVE  PointsAddUp
<1>. SUFFICES ASSUME NEW u \in Users
              PROVE  MatchPoints(u) = SumOver(Earned(u), MatchIds)
  BY DEF PointsAddUp, PointsInv
<1>. DEFINE decided == {m \in Registered : Status(m) = "Finalized" /\ bets[<<u, m>>] # NoBet}
            points == [m \in decided |-> PointsFor(bets[<<u, m>>].prediction,
                                                   matches[m].result.final, Weight(m))]
<1>1. decided \in SUBSET MatchIds
  BY DEF Registered
<1>2. /\ \A m \in decided : points[m] = Earned(u)[m]
      /\ \A m \in MatchIds \ decided : Earned(u)[m] = 0
  BY <1>1 DEF Earned, EarnedOn, Decided
<1>3. \A m \in MatchIds : Earned(u)[m] \in Nat
  BY EarnedNat
<1>4. MatchPoints(u) = SumOver(points, decided)
  BY DEF MatchPoints
<1>. HIDE DEF decided, points
<1>. QED
  BY <1>1, <1>2, <1>3, <1>4, EarnedNat, SumOverWithin

(* A match earns the same as long as its result, its phase's weight and the*)
(* predictions on it stay.                                                 *)
LEMMA EarnedLike ==
    ASSUME NEW u \in Users, NEW m \in MatchIds,
           Decided(m) \/ Decided(m)',
           m \in Registered /\ m \in Registered',
           matches'[m].result = matches[m].result,
           matches'[m].phase = matches[m].phase,
           phases'[matches[m].phase] = phases[matches[m].phase],
           bets'[<<u, m>>] # NoBet <=> bets[<<u, m>>] # NoBet,
           bets'[<<u, m>>].prediction = bets[<<u, m>>].prediction
    PROVE  EarnedOn(u, m)' = EarnedOn(u, m)
BY DEF EarnedOn, Decided, Status, Weight

LEMMA EarnedNothing ==
    ASSUME NEW u \in Users, NEW m \in MatchIds, ~Decided(m), ~Decided(m)'
    PROVE  EarnedOn(u, m)' = EarnedOn(u, m)
BY DEF EarnedOn

(* The matches a step does not touch. *)
LEMMA EarnedElsewhere ==
    ASSUME SharesInv, MatchesInv, NEW u \in Users, NEW m \in MatchIds,
           PhaseAdded \/ UNCHANGED phases,
           matches'[m] = matches[m], bets'[<<u, m>>] = bets[<<u, m>>]
    PROVE  EarnedOn(u, m)' = EarnedOn(u, m)
<1>1. CASE Decided(m)
  <2>1. m \in Registered /\ m \in Registered'
    BY <1>1 DEF Decided, Registered
  <2>2. Weight(m) # 0 /\ matches[m].phase \in PhaseNames
    BY <2>1, MatchTyped DEF SharesInv, SharesBooked, MatchesInv, Matches
  <2>3. phases'[matches[m].phase] = phases[matches[m].phase]
    BY <2>2 DEF PhaseAdded, Weight, MatchesInv, MatchesTypeOK
  <2>. QED
    BY <1>1, <2>1, <2>3, EarnedLike
<1>2. CASE ~Decided(m)
  BY <1>2, EarnedNothing DEF Decided, Registered, Status
<1>. QED
  BY <1>1, <1>2
\* No match earns anything in this step.
NothingEarned == \A u \in Users, m \in MatchIds : EarnedOn(u, m)' = EarnedOn(u, m)

LEMMA EarnedOneTouched ==
    ASSUME SharesInv, MatchesInv, UNCHANGED phases, NEW n \in MatchIds,
           \A m \in MatchIds \ {n} : matches'[m] = matches[m],
           \A u \in Users, m \in MatchIds \ {n} : bets'[<<u, m>>] = bets[<<u, m>>],
           \A u \in Users : EarnedOn(u, n)' = EarnedOn(u, n)
    PROVE  NothingEarned
<1>. SUFFICES ASSUME NEW u \in Users, NEW m \in MatchIds, m # n
              PROVE  EarnedOn(u, m)' = EarnedOn(u, m)
  BY DEF NothingEarned
<1>. QED
  BY EarnedElsewhere

LEMMA AddedEarnsNothing ==
    ASSUME MatchesInv, SharesInv, PhaseAdded \/ MatchAdded
    PROVE  NothingEarned
<1>1. CASE PhaseAdded
  <2>1. UNCHANGED matches /\ UNCHANGED bets
    BY <1>1 DEF PhaseAdded
  <2>. QED
    BY <1>1, <2>1, EarnedElsewhere DEF NothingEarned
<1>2. CASE MatchAdded
  <2>1. PICK phase \in PhaseNames, kickOff \in KickOffs, n \in MatchIds \ Registered :
            matches' = [matches EXCEPT ![n] = NewMatch(phase, kickOff)]
    BY <1>2 DEF MatchAdded
  <2>2. /\ matches'[n] = NewMatch(phase, kickOff)
        /\ \A m \in MatchIds \ {n} : matches'[m] = matches[m]
    BY <2>1 DEF MatchesInv, MatchesTypeOK
  <2>3. ~Decided(n) /\ ~Decided(n)'
    BY <2>1, <2>2 DEF Decided, Status, NewMatch, Unresolved
  <2>4. UNCHANGED phases /\ UNCHANGED bets
    BY <1>2 DEF MatchAdded
  <2>. QED
    BY <2>2, <2>3, <2>4, EarnedNothing, EarnedOneTouched
<1>. QED
  BY <1>1, <1>2

LEMMA PlacedEarnsNothing ==
    ASSUME MatchesInv, KickedOff, now \in Nat, SharesInv,
           NEW u \in Users, NEW n \in MatchIds, BetPlaced(u, n)
    PROVE  NothingEarned
<1>1. PICK p \in Guesses, stake \in Nat, principal \in Nat :
          RecordBet(u, n, p, stake, principal)
  BY DEF BetPlaced
<1>2. n \in Registered /\ BettingOpen(n) /\ matches[n] \in Matches
  BY MatchTyped DEF BetPlaced, MatchesInv
<1>3. Status(n) # "Finalized"
  BY <1>2, MatchesAssumption DEF KickedOff, BettingOpen, SaturatingSub, Matches
<1>4. matches'[n] = [matches[n] EXCEPT !.match_prize_pool = @ + stake]
  BY <1>1 DEF RecordBet, MatchesInv, MatchesTypeOK
<1>5. /\ \A m \in MatchIds \ {n} : matches'[m] = matches[m]
      /\ \A v \in Users, m \in MatchIds \ {n} : bets'[<<v, m>>] = bets[<<v, m>>]
  BY <1>1 DEF RecordBet, MatchesInv, MatchesTypeOK
<1>6. ~Decided(n) /\ ~Decided(n)'
  BY <1>2, <1>3, <1>4 DEF Decided, Status, Matches
<1>7. UNCHANGED phases
  BY DEF BetPlaced
<1>. QED
  BY <1>5, <1>6, <1>7, EarnedNothing, EarnedOneTouched

LEMMA UndecidedEarnsNothing ==
    ASSUME MatchesInv, SharesInv, NEW n \in MatchIds, ResultSet(n) \/ MatchVoided(n)
    PROVE  NothingEarned
<1>1. n \in Registered /\ matches[n] \in Matches /\ Status(n) \in Undecided
  BY MatchTyped DEF ResultSet, MatchVoided, VoidMatch, MatchesInv, Undecided
<1>2. matches'[n].result.status # "Finalized"
  <2>1. CASE ResultSet(n)
    BY <1>1, <2>1 DEF ResultSet, MatchesInv, MatchesTypeOK, Matches, Undecided
  <2>2. CASE MatchVoided(n)
    BY <1>1, <2>2 DEF MatchVoided, VoidMatch, MatchesInv, MatchesTypeOK, Matches, Cancelled
  <2>. QED
    BY <2>1, <2>2
<1>3. /\ \A m \in MatchIds \ {n} : matches'[m] = matches[m]
      /\ \A v \in Users, m \in MatchIds \ {n} : bets'[<<v, m>>] = bets[<<v, m>>]
  <2>1. CASE ResultSet(n)
    BY <2>1 DEF ResultSet, MatchesInv, MatchesTypeOK
  <2>2. CASE MatchVoided(n)
    BY <2>2 DEF MatchVoided, VoidMatch, MatchesInv, MatchesTypeOK
  <2>. QED
    BY <2>1, <2>2
<1>4. ~Decided(n) /\ ~Decided(n)'
  BY <1>1, <1>2 DEF Decided, Status, Undecided
<1>5. UNCHANGED phases
  BY DEF ResultSet, MatchVoided
<1>. QED
  BY <1>3, <1>4, <1>5, EarnedNothing, EarnedOneTouched

(* Claims and sweeps leave predictions and results alone. *)
LEMMA SameResultEarnsNothing ==
    ASSUME MatchesInv, SharesInv, UNCHANGED phases, NEW n \in Registered,
           NEW new \in Matches, matches' = [matches EXCEPT ![n] = new],
           new.result = matches[n].result, new.phase = matches[n].phase,
           \A v \in Users, m \in MatchIds \ {n} : bets'[<<v, m>>] = bets[<<v, m>>],
           \A v \in Users : /\ bets'[<<v, n>>] # NoBet <=> bets[<<v, n>>] # NoBet
                            /\ bets'[<<v, n>>].prediction = bets[<<v, n>>].prediction
    PROVE  NothingEarned
<1>1. n \in MatchIds
  BY DEF Registered
<1>2. matches'[n] = new /\ \A m \in MatchIds \ {n} : matches'[m] = matches[m]
  BY <1>1 DEF MatchesInv, MatchesTypeOK
<1>3. n \in Registered'
  BY <1>1, <1>2, MarkerAssumption DEF Registered
<1>4. ASSUME NEW v \in Users
      PROVE  EarnedOn(v, n)' = EarnedOn(v, n)
  <2>1. CASE Decided(n) \/ Decided(n)'
    BY <1>1, <1>2, <1>3, <2>1, EarnedLike
  <2>2. CASE ~Decided(n) /\ ~Decided(n)'
    BY <1>1, <2>2, EarnedNothing
  <2>. QED
    BY <2>1, <2>2
<1>. QED
  BY <1>1, <1>2, <1>4, EarnedOneTouched

LEMMA SweptEarnsNothing ==
    ASSUME MatchesInv, SharesInv, NEW n \in MatchIds, PoolSwept(n)
    PROVE  NothingEarned
<1>. DEFINE new == [matches[n] EXCEPT !.match_prize_pool = 0, !.dust_swept = TRUE]
<1>1. n \in Registered /\ matches[n] \in Matches
  BY MatchTyped DEF PoolSwept, MatchesInv
<1>2. new \in Matches /\ new.result = matches[n].result /\ new.phase = matches[n].phase
  BY <1>1 DEF Matches
<1>3. matches' = [matches EXCEPT ![n] = new] /\ UNCHANGED phases /\ UNCHANGED bets
  BY DEF PoolSwept
<1>. HIDE DEF new
<1>. QED
  BY <1>1, <1>2, <1>3, SameResultEarnsNothing

LEMMA ClaimEarnsNothing ==
    ASSUME MatchesInv, SharesInv, NEW u \in Users, NEW n \in MatchIds, BetClaimed(u, n)
    PROVE  NothingEarned
<1>. DEFINE new == [matches[n] EXCEPT !.total_claimed = @ + ShareOf(u, n)]
<1>1. n \in Registered /\ bets[<<u, n>>] # NoBet /\ ShareOf(u, n) \in Nat
  BY ClaimableTyped DEF BetClaimed, MatchesInv
<1>2. matches[n] \in Matches /\ bets[<<u, n>>] \in Bets
  BY <1>1, MatchTyped, BettorsBet DEF MatchesInv
<1>3. new \in Matches /\ new.result = matches[n].result /\ new.phase = matches[n].phase
  <2>1. matches[n].total_claimed + ShareOf(u, n) \in Nat
    BY <1>1, <1>2 DEF Matches
  <2>. QED
    BY <1>2, <2>1 DEF Matches
<1>4. matches' = [matches EXCEPT ![n] = new] /\ UNCHANGED phases
  BY DEF BetClaimed, MarkClaimed
<1>5. /\ \A v \in Users, m \in MatchIds \ {n} : bets'[<<v, m>>] = bets[<<v, m>>]
      /\ \A v \in Users \ {u} : bets'[<<v, n>>] = bets[<<v, n>>]
      /\ bets'[<<u, n>>] = [bets[<<u, n>>] EXCEPT !.claimed = TRUE]
  BY DEF BetClaimed, MarkClaimed, MatchesInv, MatchesTypeOK
<1>6. /\ bets'[<<u, n>>].prediction = bets[<<u, n>>].prediction
      /\ bets'[<<u, n>>] # NoBet
  BY <1>2, <1>5, MarkerAssumption DEF Bets
<1>7. \A v \in Users : /\ bets'[<<v, n>>] # NoBet <=> bets[<<v, n>>] # NoBet
                       /\ bets'[<<v, n>>].prediction = bets[<<v, n>>].prediction
  BY <1>1, <1>5, <1>6
<1>. HIDE DEF new
<1>. QED
  BY <1>1, <1>3, <1>4, <1>5, <1>7, SameResultEarnsNothing

LEMMA OnlyFinalizeEarns ==
    ASSUME MatchesInv, KickedOff, SharesInv, [MatchesNext]_allMatchesVars,
           ~\E m \in MatchIds : FinalizeResult(m)
    PROVE  NothingEarned /\ UNCHANGED user_points
<1>1. NothingEarned
  <2>1. ASSUME UNCHANGED <<phases, matches, bets>>
        PROVE  NothingEarned
    BY <2>1, EarnedElsewhere DEF NothingEarned
  <2>2. now \in Nat
    BY TimePasses
  <2>. QED
    BY <2>1, <2>2, StepMoney, AddedEarnsNothing, PlacedEarnsNothing, UndecidedEarnsNothing,
       SweptEarnsNothing, ClaimEarnsNothing DEF MoneyMoves, RefundSent
<1>2. UNCHANGED user_points
  <2>1. RegisterStep \/ BetStep => UNCHANGED user_points
    BY DEF RegisterStep, RegisterPhase, RegisterMatch, BetStep, PlaceBet,
           PlaceBetFromFreebetLedger
  <2>2. ResultStep => UNCHANGED user_points
    BY DEF ResultStep, ProposeResult, ProposeFromOracle, OracleReply, OracleReplyFailed,
           CancelProposedResult, CancelMatch, CancelMatchWithFreebets
  <2>3. PayoutStep => UNCHANGED user_points
    BY DEF PayoutStep, ClaimMatchReward, ClaimFreebetReward, ReturnNext, ReturnDone,
           ReturnRejected, ReturnAbandoned, ClaimRefund, AdminPushRefund, SendRefund,
           SweepMatchDust
  <2>. QED
    BY <2>1, <2>2, <2>3 DEF MatchesNext, MatchesStep, matchesVars, allMatchesVars
<1>. QED
  BY <1>1, <1>2

(* A match is finalized once, and pays its bettors' points then. *)
LEMMA FinalizeEarns ==
    ASSUME MatchesInv, SharesInv, NEW n \in MatchIds, FinalizeResult(n), NEW u \in Users
    PROVE  /\ user_points'[u] - user_points[u]
                  = SumOver(Earned(u)', MatchIds) - SumOver(Earned(u), MatchIds)
           /\ SumOver(Earned(u)', MatchIds) \in Nat
<1>. DEFINE f == matches[n].result.final
            points == IF u \in Bettors(n)
                      THEN PointsFor(bets[<<u, n>>].prediction, f, Weight(n)) ELSE 0
<1>1. /\ n \in Registered /\ matches[n] \in Matches /\ Status(n) = "Proposed"
      /\ UNCHANGED phases /\ UNCHANGED bets
  BY MatchTyped DEF FinalizeResult, MatchesInv, boardVars
<1>2. user_points'[u] = user_points[u] + points
  BY DEF FinalizeResult, PointsAfter
<1>3. EarnedOn(u, n) = 0
  BY <1>1 DEF EarnedOn, Decided
<1>4. /\ matches'[n].result = Finalized(f) /\ matches'[n].phase = matches[n].phase
      /\ n \in Registered'
  <2>1. matches'[n].result = Finalized(f) /\ matches'[n].phase = matches[n].phase
    BY <1>1 DEF FinalizeResult, MatchesInv, MatchesTypeOK, Matches
  <2>2. n \in Registered'
    BY <1>1, FinalizeTyped DEF MatchesInv, StepTyped
  <2>. QED
    BY <2>1, <2>2
<1>5. EarnedOn(u, n)' = points
  BY <1>1, <1>4 DEF EarnedOn, Decided, Status, Weight, Finalized, Bettors
<1>6. \A m \in MatchIds \ {n} : EarnedOn(u, m)' = EarnedOn(u, m)
  <2>1. \A m \in MatchIds \ {n} : matches'[m] = matches[m]
    BY DEF FinalizeResult, MatchesInv, MatchesTypeOK
  <2>. QED
    BY <1>1, <2>1, EarnedElsewhere
<1>7. points \in Nat
  <2>1. Weight(n) \in Nat
    BY <1>1, WeightNat DEF MatchesInv
  <2>. QED
    BY <2>1, PointsNat
<1>. DEFINE before == Earned(u)
            after == Earned(u)'
<1>8. /\ \A m \in MatchIds : before[m] = EarnedOn(u, m) /\ after[m] = EarnedOn(u, m)'
      /\ \A m \in MatchIds : before[m] \in Nat
  BY EarnedNat DEF Earned
<1>. HIDE DEF before, after, points
<1>9. /\ before[n] = 0 /\ after[n] = points
      /\ \A m \in MatchIds \ {n} : before[m] = after[m]
      /\ \A m \in MatchIds : before[m] \in Nat /\ after[m] \in Nat
  BY <1>3, <1>5, <1>6, <1>7, <1>8
<1>10. SumOver(after, MatchIds) = SumOver(before, MatchIds) - before[n] + after[n]
  BY <1>9, EarnedNat, SumOverChange
<1>11. SumOver(before, MatchIds) \in Nat
  BY <1>9, EarnedNat, SumOverNat
<1>12. user_points[u] \in Nat
  BY DEF MatchesInv, MatchesTypeOK
<1>13. user_points'[u] - user_points[u]
           = SumOver(after, MatchIds) - SumOver(before, MatchIds)
  BY <1>2, <1>7, <1>9, <1>10, <1>11, <1>12
<1>14. SumOver(after, MatchIds) \in Nat
  BY <1>9, EarnedNat, SumOverNat
<1>. QED
  BY <1>13, <1>14 DEF before, after

LEMMA PointsMatchStep ==
    ASSUME MatchesInv, KickedOff, SharesInv, PointsInv,
           [MatchesNext]_allMatchesVars, UNCHANGED podiumVars
    PROVE  PointsInv'
<1>. SUFFICES ASSUME NEW u \in Users
              PROVE  user_points'[u] = SumOver(Earned(u)', MatchIds)
                                           + PodiumBonus(podium_picks'[u], podium_result')
  BY DEF PointsInv
<1>. DEFINE sum == SumOver(Earned(u), MatchIds)
            after == SumOver(Earned(u)', MatchIds)
            bonus == PodiumBonus(podium_picks[u], podium_result)
<1>1. user_points[u] \in Nat /\ sum \in Nat
  BY EarnedNat DEF MatchesInv, MatchesTypeOK
<1>2. user_points'[u] - user_points[u] = after - sum /\ after \in Nat
  <2>1. CASE \E n \in MatchIds : FinalizeResult(n)
    BY <2>1, FinalizeEarns
  <2>2. CASE ~\E n \in MatchIds : FinalizeResult(n)
    <3>1. NothingEarned /\ UNCHANGED user_points
      BY <2>2, OnlyFinalizeEarns
    <3>2. Earned(u)' = Earned(u)
      BY <3>1 DEF NothingEarned, Earned
    <3>. QED
      BY <1>1, <3>1, <3>2
  <2>. QED
    BY <2>1, <2>2
<1>3. user_points'[u] \in Nat
  BY MatchesInvNext DEF MatchesInv, MatchesTypeOK
<1>4. user_points[u] = sum + bonus /\ bonus \in Nat
  BY BonusNat DEF PointsInv
<1>5. PodiumBonus(podium_picks'[u], podium_result') = bonus
  BY DEF podiumVars
<1>. HIDE DEF sum, after, bonus
<1>6. user_points'[u] = after + bonus
  BY <1>1, <1>2, <1>3, <1>4
<1>. QED
  BY <1>5, <1>6 DEF after

(* A match registered later cannot bring the end of the picks forward into *)
(* the past.                                                               *)
LEMMA PicksStayEnded ==
    ASSUME MatchesInv, PicksEnded, [MatchesNext]_allMatchesVars, UNCHANGED podium_result
    PROVE  PicksEnded'
<1>. SUFFICES ASSUME podium_result # NoPodium
              PROVE  r32_lock_time' # NoTime /\ now' >= r32_lock_time'
  BY DEF PicksEnded
<1>1. /\ now \in Nat /\ now' \in Nat /\ now' >= now
      /\ r32_lock_time \in Nat /\ r32_lock_time # NoTime /\ now >= r32_lock_time
  BY TimePasses DEF PicksEnded, MatchesInv, MatchesTypeOK
<1>2. UNCHANGED r32_lock_time
  <2>1. ASSUME NEW caller, NEW phase \in PhaseNames, NEW kickOff \in KickOffs,
               RegisterMatch(caller, phase, kickOff)
        PROVE  UNCHANGED r32_lock_time
    <3>1. kickOff \in Nat /\ kickOff > now
      BY <2>1, MatchesAssumption DEF RegisterMatch
    <3>2. ~(kickOff < r32_lock_time)
      BY <1>1, <3>1
    <3>. QED
      BY <1>1, <2>1, <3>2 DEF RegisterMatch
  <2>2. RegisterStep => UNCHANGED r32_lock_time
    <3>1. ASSUME NEW caller, NEW phase, NEW weight, RegisterPhase(caller, phase, weight)
          PROVE  UNCHANGED r32_lock_time
      BY <3>1 DEF RegisterPhase
    <3>. QED
      BY <2>1, <3>1, Zenon DEF RegisterStep
  <2>3. BetStep => UNCHANGED r32_lock_time
    BY DEF BetStep, PlaceBet, PlaceBetFromFreebetLedger, boardVars
  <2>4. ResultStep => UNCHANGED r32_lock_time
    BY DEF ResultStep, ProposeResult, ProposeFromOracle, OracleReply, OracleReplyFailed,
           CancelProposedResult, CancelMatch, CancelMatchWithFreebets, FinalizeResult, boardVars
  <2>5. PayoutStep => UNCHANGED r32_lock_time
    BY DEF PayoutStep, ClaimMatchReward, ClaimFreebetReward, ReturnNext, ReturnDone,
           ReturnRejected, ReturnAbandoned, ClaimRefund, AdminPushRefund, SendRefund,
           SweepMatchDust, boardVars
  <2>. QED
    BY <2>2, <2>3, <2>4, <2>5
       DEF MatchesNext, MatchesStep, matchesVars, allMatchesVars, boardVars
<1>. QED
  BY <1>1, <1>2

(* Points of the podium: a bonus comes once, and for a pick made in time. *)
LEMMA PointsOwnStep ==
    ASSUME ~EarlyReports, MatchesInv, CoreTypeOK, PicksEnded, PointsInv,
           PrizeStep \/ WithdrawStep
    PROVE  PointsInv' /\ PicksEnded'
<1>1. OthersKept
  BY OwnStepFrame
<1>2. \A u \in Users : Earned(u)' = Earned(u)
  BY <1>1 DEF Earned, EarnedOn, Decided, Registered, Status, Weight, OthersKept, boardVars
<1>3. UNCHANGED <<r32_lock_time, now>>
  BY <1>1 DEF OthersKept, boardVars, adminVars
<1>4. ASSUME UNCHANGED <<user_points, podiumVars>>
      PROVE  PointsInv' /\ PicksEnded'
  BY <1>2, <1>3, <1>4 DEF PointsInv, PicksEnded, podiumVars
<1>5. ASSUME NEW v \in Users, NEW pick \in PodiumInputs, NEW value \in PodiumValues,
             SubmitPodiumPick(v, pick, value)
      PROVE  PointsInv' /\ PicksEnded'
  <2>1. /\ r32_lock_time # NoTime /\ now < r32_lock_time
        /\ UNCHANGED user_points /\ UNCHANGED podium_result
    BY <1>5 DEF SubmitPodiumPick
  <2>2. now \in Nat /\ r32_lock_time \in Nat
    BY <2>1, AdminAssumption DEF MatchesInv, MatchesTypeOK, AdminTypeOK
  <2>3. podium_result = NoPodium
    BY <2>1, <2>2 DEF PicksEnded
  <2>4. \A u \in Users : PodiumBonus(podium_picks'[u], podium_result')
                            = PodiumBonus(podium_picks[u], podium_result)
    BY <2>1, <2>3 DEF PodiumBonus
  <2>. QED
    BY <1>2, <1>3, <2>1, <2>3, <2>4 DEF PointsInv, PicksEnded
<1>6. ASSUME NEW caller \in Accounts, NEW podium \in PodiumInputs, FinalizePodium(caller, podium)
      PROVE  PointsInv' /\ PicksEnded'
  <2>1. /\ podium_result = NoPodium /\ podium_result' = podium /\ UNCHANGED podium_picks
        /\ user_points' = [u \in Users |->
                               user_points[u] + PodiumBonus(podium_picks[u], podium)]
        /\ r32_lock_time # NoTime /\ now >= r32_lock_time
    BY <1>6 DEF FinalizePodium, KnownPodiums
  <2>2. ASSUME NEW u \in Users
        PROVE  user_points'[u] = SumOver(Earned(u)', MatchIds)
                                     + PodiumBonus(podium_picks'[u], podium_result')
    <3>. DEFINE sum == SumOver(Earned(u), MatchIds)
                bonus == PodiumBonus(podium_picks[u], podium)
    <3>1. PodiumBonus(podium_picks[u], podium_result) = 0
      BY <2>1 DEF PodiumBonus
    <3>2. user_points[u] = sum + 0 /\ sum \in Nat
      BY <3>1, EarnedNat DEF PointsInv
    <3>3. user_points'[u] = user_points[u] + bonus
      BY <2>1
    <3>4. /\ SumOver(Earned(u)', MatchIds) = sum
          /\ PodiumBonus(podium_picks'[u], podium_result') = bonus
      BY <1>2, <2>1
    <3>. HIDE DEF sum, bonus
    <3>. QED
      BY <3>2, <3>3, <3>4
  <2>. QED
    BY <1>3, <2>1, <2>2 DEF PointsInv, PicksEnded
<1>7. ASSUME NEW u \in Users, ClaimFinalPrize(u)
      PROVE  PointsInv' /\ PicksEnded'
  BY <1>4, <1>7 DEF ClaimFinalPrize
<1>8. ASSUME NEW caller \in Accounts, FinalizeFinalPrizePool(caller)
      PROVE  PointsInv' /\ PicksEnded'
  BY <1>4, <1>8 DEF FinalizeFinalPrizePool
<1>9. CASE WithdrawStep
  BY <1>4, <1>9 DEF WithdrawStep, WithdrawProtocolFees, WithdrawSurplusVara,
                    ForceWithdrawVara, DrainVaraTo, coreVars
<1>. QED
  BY <1>5, <1>6, <1>7, <1>8, <1>9 DEF PrizeStep

LEMMA PointsInit ==
    ASSUME Init
    PROVE  PointsInv /\ PicksEnded
<1>1. MatchesInit /\ CoreInit /\ MatchesInv
  BY CoreInitTyped DEF Init, TypeInv
<1>2. ASSUME NEW u \in Users
      PROVE  user_points[u] = SumOver(Earned(u), MatchIds)
                                  + PodiumBonus(podium_picks[u], podium_result)
  <2>1. \A m \in MatchIds : Earned(u)[m] = 0
    BY <1>1 DEF MatchesInit, Earned, EarnedOn, Decided, Registered
  <2>2. SumOver(Earned(u), MatchIds) = 0
    BY <2>1, SumOverZero, MatchesAssumption
  <2>3. user_points[u] = 0 /\ PodiumBonus(podium_picks[u], podium_result) = 0
    BY <1>1 DEF MatchesInit, CoreInit, PodiumBonus
  <2>. QED
    BY <2>2, <2>3
<1>. QED
  BY <1>1, <1>2 DEF PointsInv, PicksEnded, CoreInit

(* A wallet's points are those of its bets on finalized matches, each once,*)
(* and the bonus of its podium pick, once, whatever order bets, results,   *)
(* cancellations and picks come in (finalize_result, finalize_podium,      *)
(* submit_podium_pick); provided no oracle reports before the kick-off, and*)
(* no admin announces a podium before the Round of 32.                     *)
THEOREM PointsAreEarnedOnce ==
    ASSUME ~EarlyReports
    PROVE  Spec => []PointsAddUp
<1>. DEFINE I == TypeInv /\ KickedOff /\ RefundsInv /\ SharesInv /\ PoolsInv
                 /\ PicksEnded /\ PointsInv
<1>1. Init => I
  BY CoreInvInit, PointsInit DEF CoreInv, MatchMoney
<1>2. I /\ [Next]_vars => I'
  <2>. SUFFICES ASSUME I, [Next]_vars
                PROVE  I'
    OBVIOUS
  <2>1. TypeInv'
    BY TypeInvStep
  <2>2. CASE [MatchesNext]_allMatchesVars /\ UNCHANGED coreVars
    <3>1. KickedOff' /\ RefundsInv' /\ SharesInv' /\ PoolsInv'
      BY <2>2, MoneyStep DEF TypeInv
    <3>2. PointsInv'
      BY <2>2, PointsMatchStep DEF TypeInv, coreVars
    <3>3. PicksEnded'
      BY <2>2, PicksStayEnded DEF TypeInv, coreVars, podiumVars
    <3>. QED
      BY <2>1, <3>1, <3>2, <3>3
  <2>3. CASE PrizeStep \/ WithdrawStep
    <3>1. MatchMoney'
      BY <2>3, OwnStepFrame, MatchMoneyKept DEF TypeInv, MatchMoney
    <3>2. PointsInv' /\ PicksEnded'
      BY <2>3, PointsOwnStep DEF TypeInv
    <3>. QED
      BY <2>1, <3>1, <3>2 DEF MatchMoney
  <2>. QED
    BY <2>2, <2>3, StepKinds
<1>3. I => PointsAddUp
  BY PointsInvIsEnough DEF TypeInv
<1>. HIDE DEF I
<1>. QED
  BY <1>1, <1>2, <1>3, PTL DEF Spec

----------------------------------------------------------------------------
(***************************************************************************)
(* PART 3: the index.                                                      *)
(*                                                                         *)
(* A batch of the indexer works on maps that hold the rows of some wallets *)
(* and matches only, and the tables lag behind the chain.  The proof goes  *)
(* through tables that are loaded as a whole and follow the chain event by *)
(* event: Replayed(v, e) is what one event makes of them.                  *)
(*                                                                         *)
(*   3.1  reading in batches comes to the same as replaying the events one *)
(*        by one, whatever the bounds of the batches (BatchReplays);       *)
(*   3.2  every handler emits the events that make up for what it changes  *)
(*        (ChainMoves): tables that say what the chain says do so again;   *)
(*   3.3  so the tables, with what is in the backlog, always lead to what  *)
(*        the chain says (IndexInv).                                       *)
(*                                                                         *)
(* Everything about wallets leaves out those with a podium bonus, whose    *)
(* rows the indexer starts anew (the run "podiumrow").                     *)
(***************************************************************************)

----------------------------------------------------------------------------
(* 3.1  Events, batches and replays.                                       *)

Methods ==
    {"MatchRegistered", "BetAccepted", "ResultProposed", "ResultFinalized",
     "SettlementPrepared", "MatchCancelled", "PointsAwarded", "PodiumBonusAwarded",
     "MatchRewardClaimed", "FinalPrizeClaimed", "RefundClaimed"}

Events ==
    [method : Methods, match : MatchIds \cup {NoMatchId},
     result : Predictions \cup {NoResult}, amounts : UNION {[us -> Nat] : us \in SUBSET Users}]

\* What an event tells of the match or the wallets it names.
IsInformed(e) ==
    /\ e \in Events
    /\ e.method \in MatchMethods \cup {"MatchRegistered"} => e.match \in MatchIds
    /\ e.method = "BetAccepted" => e.result \in Predictions

NewRow == [status |-> "UNRESOLVED", pool |-> 0, count |-> 0]

\* The row of a wallet that e names, and that of one whose bet was decided.
StatWith(e, u, s) ==
    CASE e.method = "BetAccepted" -> [s EXCEPT !.bets = @ + 1, !.staked = @ + e.amounts[u]]
      [] e.method \in {"PointsAwarded", "PodiumBonusAwarded"} ->
            [s EXCEPT !.points = @ + e.amounts[u]]
      [] e.method = "MatchRewardClaimed" -> [s EXCEPT !.claimed = @ + e.amounts[u]]
      [] e.method = "FinalPrizeClaimed" -> [s EXCEPT !.prize = @ + e.amounts[u]]
      [] e.method = "RefundClaimed" -> [s EXCEPT !.refund = @ + e.amounts[u]]
      [] OTHER -> s

StatScored(e, s, guess) ==
    LET exact == guess.score = e.result.score
        outcome == ScoreOutcome(guess) = ScoreOutcome(e.result)
    IN  [s EXCEPT !.exact = IF exact THEN @ + 1 ELSE @,
                  !.outcome = IF ~exact /\ outcome THEN @ + 1 ELSE @]

\* The row of the match that e names.
RowWith(e, r) ==
    CASE e.method = "BetAccepted" ->
            [r EXCEPT !.pool = @ + SumOver(e.amounts, DOMAIN e.amounts), !.count = @ + 1]
      [] e.method = "ResultProposed" -> [r EXCEPT !.status = "PROPOSED"]
      [] e.method = "ResultFinalized" -> [r EXCEPT !.status = "FINALIZED"]
      [] e.method = "SettlementPrepared" -> [r EXCEPT !.status = "SETTLED"]
      [] e.method = "MatchCancelled" -> [r EXCEPT !.status = "CANCELLED", !.pool = 0]
      [] OTHER -> r

WalletMethods == UserMethods \cup {"PodiumBonusAwarded"}

Touches(e, u) == e.method \in WalletMethods /\ u \in DOMAIN e.amounts

BetAfter(table, e, k) ==
    IF e.method = "BetAccepted" /\ k[1] \in DOMAIN e.amounts /\ k[2] = e.match
    THEN e.result ELSE table[k]

(* What one event makes of tables that are loaded as a whole: the index    *)
(* without its batches.                                                    *)
StatAfter(v, e, u) ==
    LET guess == v.bets[<<u, e.match>>]
    IN  IF e.method = "ResultFinalized" /\ guess # NoRow
        THEN StatScored(e, v.stats[u], guess)
        ELSE IF Touches(e, u) THEN StatWith(e, u, v.stats[u])
        ELSE v.stats[u]

RowAfter(v, e, m) ==
    IF m # e.match THEN v.rows[m]
    ELSE IF e.method = "MatchRegistered" THEN NewRow
    ELSE IF v.rows[m] = NoRow THEN NoRow
    ELSE RowWith(e, v.rows[m])

Replayed(v, e) ==
    [stats |-> [u \in Users |-> StatAfter(v, e, u)],
     rows |-> [m \in MatchIds |-> RowAfter(v, e, m)],
     bets |-> [k \in Users \X MatchIds |-> BetAfter(v.bets, e, k)]]

Tables ==
    [stats : [Users -> Stats], rows : [MatchIds -> Rows \cup {NoRow}],
     bets : [Users \X MatchIds -> Predictions \cup {NoRow}]]

LEMMA StatWithTyped ==
    ASSUME NEW e, IsInformed(e), NEW u, Touches(e, u), NEW s \in Stats
    PROVE  StatWith(e, u, s) \in Stats
<1>1. e.amounts[u] \in Nat
  BY DEF IsInformed, Events, Touches
<1>. DEFINE x == e.amounts[u]
<1>2. /\ s.bets + 1 \in Nat /\ s.staked + x \in Nat /\ s.points + x \in Nat
      /\ s.claimed + x \in Nat /\ s.prize + x \in Nat /\ s.refund + x \in Nat
  BY <1>1 DEF Stats
<1>3. /\ [s EXCEPT !.bets = s.bets + 1, !.staked = s.staked + x] \in Stats
      /\ [s EXCEPT !.points = s.points + x] \in Stats
      /\ [s EXCEPT !.claimed = s.claimed + x] \in Stats
      /\ [s EXCEPT !.prize = s.prize + x] \in Stats
      /\ [s EXCEPT !.refund = s.refund + x] \in Stats
  <2>. HIDE DEF x
  <2>. QED
    BY <1>2 DEF Stats
<1>. QED
  BY <1>3 DEF StatWith

LEMMA StatScoredTyped ==
    ASSUME NEW e, NEW guess, NEW s \in Stats
    PROVE  StatScored(e, s, guess) \in Stats
<1>. DEFINE x == guess.score = e.result.score
            y == ScoreOutcome(guess) = ScoreOutcome(e.result)
            a == IF x THEN s.exact + 1 ELSE s.exact
            b == IF ~x /\ y THEN s.outcome + 1 ELSE s.outcome
<1>1. a \in Nat /\ b \in Nat
  <2>. HIDE DEF x, y
  <2>. QED
    BY DEF Stats
<1>2. StatScored(e, s, guess) = [s EXCEPT !.exact = a, !.outcome = b]
  BY DEF StatScored
<1>. HIDE DEF a, b
<1>. QED
  BY <1>1, <1>2 DEF Stats

LEMMA AmountsNat ==
    ASSUME NEW e, e \in Events
    PROVE  /\ DOMAIN e.amounts \subseteq Users
           /\ \A u \in DOMAIN e.amounts : e.amounts[u] \in Nat
           /\ SumOver(e.amounts, DOMAIN e.amounts) \in Nat
<1>1. PICK us \in SUBSET Users : e.amounts \in [us -> Nat]
  BY DEF Events
<1>2. IsFiniteSet(us)
  BY FS_Subset, MatchesAssumption
<1>. QED
  BY <1>1, <1>2, SumOverNat

LEMMA RowWithTyped ==
    ASSUME NEW e, e \in Events, NEW r \in Rows
    PROVE  RowWith(e, r) \in Rows
<1>. DEFINE x == r.pool + SumOver(e.amounts, DOMAIN e.amounts)
            y == r.count + 1
<1>1. x \in Nat /\ y \in Nat
  BY AmountsNat DEF Rows
<1>2. [r EXCEPT !.pool = x, !.count = y] \in Rows
  <2>. HIDE DEF x, y
  <2>. QED
    BY <1>1 DEF Rows
<1>3. \A st \in {"PROPOSED", "FINALIZED", "SETTLED"} : [r EXCEPT !.status = st] \in Rows
  BY DEF Rows
<1>4. [r EXCEPT !.status = "CANCELLED", !.pool = 0] \in Rows
  BY DEF Rows
<1>. QED
  BY <1>2, <1>3, <1>4 DEF RowWith

LEMMA ReplayedTyped ==
    ASSUME NEW v \in Tables, NEW e, IsInformed(e)
    PROVE  Replayed(v, e) \in Tables
<1>1. ASSUME NEW u \in Users
      PROVE  StatAfter(v, e, u) \in Stats
  <2>1. v.stats[u] \in Stats
    BY DEF Tables
  <2>. QED
    BY <2>1, StatWithTyped, StatScoredTyped DEF StatAfter
<1>2. ASSUME NEW m \in MatchIds
      PROVE  RowAfter(v, e, m) \in Rows \cup {NoRow}
  <2>1. v.rows[m] \in Rows \cup {NoRow} /\ NewRow \in Rows
    BY DEF Tables, NewRow, Rows
  <2>. QED
    BY <2>1, RowWithTyped DEF RowAfter, IsInformed
<1>3. ASSUME NEW k \in Users \X MatchIds
      PROVE  BetAfter(v.bets, e, k) \in Predictions \cup {NoRow}
  BY DEF BetAfter, IsInformed, Tables
<1>. QED
  BY <1>1, <1>2, <1>3 DEF Replayed, Tables

\* The maps of a batch.
Maps ==
    [stats : [Users -> Stats \cup {NoRow}], rows : [MatchIds -> Rows \cup {NoRow}],
     bets : [Users \X MatchIds -> Predictions \cup {NoRow}]]

Started(s) == IF s = NoRow THEN NewStat ELSE s

\* The bet that a batch finds in its map or else in the table.
GuessIn(map, k) == IF map.bets[k] = NoRow THEN bet_rows[k] ELSE map.bets[k]

(* What handleEvent makes of the maps of a batch, wallet by wallet, match  *)
(* by match and bet by bet.                                                *)
MapStatAfter(map, e, u) ==
    LET guess == GuessIn(map, <<u, e.match>>)
        found == IF map.stats[u] = NoRow THEN user_stat[u] ELSE map.stats[u]
    IN  IF e.method = "ResultFinalized" /\ guess # NoRow
        THEN StatScored(e, Started(found), guess)
        ELSE IF Touches(e, u) THEN StatWith(e, u, Started(map.stats[u]))
        ELSE map.stats[u]

IsOutcome(map, e, next) ==
    /\ next = [stats |-> next.stats, rows |-> next.rows, bets |-> next.bets]
    /\ next.stats = [u \in Users |-> MapStatAfter(map, e, u)]
    /\ next.rows = [m \in MatchIds |-> RowAfter(map, e, m)]
    /\ next.bets = [k \in Users \X MatchIds |-> BetAfter(map.bets, e, k)]

(* handleEvent entry by entry: events about wallets alone, ...             *)
LEMMA WalletOutcome ==
    ASSUME NEW map \in Maps, NEW e, IsInformed(e),
           e.method \in WalletMethods, e.method # "BetAccepted"
    PROVE  IsOutcome(map, e, HandleEvent(map, e))
<1>. DEFINE stats == [u \in Users |->
                IF u \notin DOMAIN e.amounts THEN map.stats[u]
                ELSE StatWith(e, u, Started(map.stats[u]))]
<1>1. HandleEvent(map, e) = [map EXCEPT !.stats = stats]
  <2>1. CASE e.method \in {"PointsAwarded", "PodiumBonusAwarded"}
    BY <2>1 DEF HandleEvent, TouchUsers, StatWith, Started
  <2>2. CASE e.method = "MatchRewardClaimed"
    BY <2>2 DEF HandleEvent, TouchUsers, StatWith, Started
  <2>3. CASE e.method = "FinalPrizeClaimed"
    BY <2>3 DEF HandleEvent, TouchUsers, StatWith, Started
  <2>4. CASE e.method = "RefundClaimed"
    BY <2>4 DEF HandleEvent, TouchUsers, StatWith, Started
  <2>. QED
    BY <2>1, <2>2, <2>3, <2>4 DEF WalletMethods, UserMethods
<1>2. \A u \in Users : stats[u] = MapStatAfter(map, e, u)
  BY DEF MapStatAfter, Touches, WalletMethods, UserMethods
<1>3. \A m \in MatchIds : map.rows[m] = RowAfter(map, e, m)
  BY DEF RowAfter, RowWith, WalletMethods, UserMethods
<1>4. \A k \in Users \X MatchIds : map.bets[k] = BetAfter(map.bets, e, k)
  BY DEF BetAfter
<1>. HIDE DEF stats
<1>5. /\ HandleEvent(map, e).stats = stats
      /\ HandleEvent(map, e).rows = map.rows
      /\ HandleEvent(map, e).bets = map.bets
      /\ HandleEvent(map, e) = [stats |-> stats, rows |-> map.rows, bets |-> map.bets]
  BY <1>1 DEF Maps
<1>6. stats = [u \in Users |-> MapStatAfter(map, e, u)]
  BY <1>2 DEF stats
<1>7. /\ map.rows = [m \in MatchIds |-> RowAfter(map, e, m)]
      /\ map.bets = [k \in Users \X MatchIds |-> BetAfter(map.bets, e, k)]
  BY <1>3, <1>4 DEF Maps
<1>. QED
  BY <1>5, <1>6, <1>7 DEF IsOutcome

LEMMA TouchedRow ==
    ASSUME NEW map \in Maps, NEW m \in MatchIds, NEW new, NEW next,
           next = IF map.rows[m] = NoRow THEN map ELSE [map EXCEPT !.rows[m] = new]
    PROVE  /\ next = [stats |-> map.stats, rows |-> next.rows, bets |-> map.bets]
           /\ next.stats = map.stats /\ next.bets = map.bets
           /\ next.rows = [n \in MatchIds |->
                  IF n # m THEN map.rows[n] ELSE IF map.rows[m] = NoRow THEN NoRow ELSE new]
<1>1. CASE map.rows[m] = NoRow
  BY <1>1 DEF Maps
<1>2. CASE map.rows[m] # NoRow
  <2>. DEFINE rows == [map.rows EXCEPT ![m] = new]
  <2>1. rows = [n \in MatchIds |->
                  IF n # m THEN map.rows[n] ELSE IF map.rows[m] = NoRow THEN NoRow ELSE new]
    BY <1>2 DEF Maps
  <2>2. next = [map EXCEPT !.rows = rows]
    BY <1>2
  <2>. HIDE DEF rows
  <2>3. next = [stats |-> map.stats, rows |-> rows, bets |-> map.bets]
    BY <2>2 DEF Maps
  <2>. QED
    BY <2>1, <2>3
<1>. QED
  BY <1>1, <1>2

\* The methods that change a match only.
StatusMethods == {"ResultProposed", "SettlementPrepared", "MatchCancelled"}

(* ... those that set the status of a match, ...                           *)
LEMMA MatchOutcome ==
    ASSUME NEW map \in Maps, NEW e, IsInformed(e), e.method \in StatusMethods
    PROVE  IsOutcome(map, e, HandleEvent(map, e))
<1>. DEFINE m == e.match
            r == map.rows[m]
            new == RowWith(e, r)
            next == HandleEvent(map, e)
<1>1. m \in MatchIds
  BY DEF IsInformed, StatusMethods, MatchMethods
<1>2. next = IF r = NoRow THEN map ELSE [map EXCEPT !.rows[m] = new]
  <2>1. CASE e.method = "ResultProposed"
    BY <2>1 DEF HandleEvent, SetsStatus, TouchMatch, RowWith
  <2>2. CASE e.method = "SettlementPrepared"
    BY <2>2 DEF HandleEvent, SetsStatus, TouchMatch, RowWith
  <2>3. CASE e.method = "MatchCancelled"
    BY <2>3 DEF HandleEvent, TouchMatch, RowWith
  <2>. QED
    BY <2>1, <2>2, <2>3 DEF StatusMethods
<1>3. \A u \in Users : map.stats[u] = MapStatAfter(map, e, u)
  BY DEF MapStatAfter, Touches, WalletMethods, UserMethods, StatusMethods
<1>4. \A k \in Users \X MatchIds : map.bets[k] = BetAfter(map.bets, e, k)
  BY DEF BetAfter, StatusMethods
<1>5. /\ map.stats = [u \in Users |-> MapStatAfter(map, e, u)]
      /\ map.bets = [k \in Users \X MatchIds |-> BetAfter(map.bets, e, k)]
  BY <1>3, <1>4 DEF Maps
<1>6. \A n \in MatchIds : RowAfter(map, e, n) =
          IF n # m THEN map.rows[n] ELSE IF map.rows[m] = NoRow THEN NoRow ELSE new
  BY DEF RowAfter, StatusMethods
<1>. HIDE DEF m, new, next
<1>7. /\ next = [stats |-> map.stats, rows |-> next.rows, bets |-> map.bets]
      /\ next.stats = map.stats /\ next.bets = map.bets
      /\ next.rows = [n \in MatchIds |->
             IF n # m THEN map.rows[n] ELSE IF map.rows[m] = NoRow THEN NoRow ELSE new]
  BY <1>1, <1>2, TouchedRow
<1>8. next.rows = [n \in MatchIds |-> RowAfter(map, e, n)]
  BY <1>6, <1>7
<1>9. IsOutcome(map, e, next)
  BY <1>5, <1>7, <1>8 DEF IsOutcome
<1>. QED
  BY <1>9 DEF next

(* ... a registered match, ...                                             *)
LEMMA RegisteredOutcome ==
    ASSUME NEW map \in Maps, NEW e, IsInformed(e), e.method = "MatchRegistered"
    PROVE  IsOutcome(map, e, HandleEvent(map, e))
<1>. DEFINE rows == [map.rows EXCEPT ![e.match] = NewRow]
            next == HandleEvent(map, e)
<1>1. next = [map EXCEPT !.rows = rows]
  BY DEF HandleEvent, OnMatchRegistered, NewRow
<1>2. rows = [n \in MatchIds |-> RowAfter(map, e, n)]
  BY DEF RowAfter, Maps, IsInformed
<1>3. \A u \in Users : map.stats[u] = MapStatAfter(map, e, u)
  BY DEF MapStatAfter, Touches, WalletMethods, UserMethods
<1>4. \A k \in Users \X MatchIds : map.bets[k] = BetAfter(map.bets, e, k)
  BY DEF BetAfter
<1>5. /\ map.stats = [u \in Users |-> MapStatAfter(map, e, u)]
      /\ map.bets = [k \in Users \X MatchIds |-> BetAfter(map.bets, e, k)]
  BY <1>3, <1>4 DEF Maps
<1>. HIDE DEF rows, next
<1>6. next = [stats |-> map.stats, rows |-> rows, bets |-> map.bets]
  BY <1>1 DEF Maps
<1>7. IsOutcome(map, e, next)
  BY <1>2, <1>5, <1>6 DEF IsOutcome
<1>. QED
  BY <1>7 DEF next

(* ... an accepted bet, ...                                                *)
LEMMA BetOutcome ==
    ASSUME NEW map \in Maps, NEW e, IsInformed(e), e.method = "BetAccepted"
    PROVE  IsOutcome(map, e, HandleEvent(map, e))
<1>. DEFINE m == e.match
            us == DOMAIN e.amounts
            guesses == [k \in Users \X MatchIds |-> BetAfter(map.bets, e, k)]
            kept == [map EXCEPT !.bets = guesses]
            new == RowWith(e, kept.rows[m])
            counted == IF kept.rows[m] = NoRow THEN kept ELSE [kept EXCEPT !.rows[m] = new]
            stats == [u \in Users |-> IF u \notin us THEN counted.stats[u]
                                      ELSE StatWith(e, u, Started(counted.stats[u]))]
            next == HandleEvent(map, e)
<1>1. m \in MatchIds
  BY DEF IsInformed, MatchMethods
<1>2. next = [counted EXCEPT !.stats = stats]
  BY DEF HandleEvent, OnBetAccepted, TouchUsers, TouchMatch, RowWith, StatWith, Started, BetAfter
<1>3. kept \in Maps /\ kept = [stats |-> map.stats, rows |-> map.rows, bets |-> guesses]
  <2>1. guesses \in [Users \X MatchIds -> Predictions \cup {NoRow}]
    BY DEF BetAfter, IsInformed, Maps
  <2>. HIDE DEF guesses
  <2>. QED
    BY <2>1 DEF Maps
<1>. HIDE DEF m, guesses, kept, new
<1>4. /\ counted = [stats |-> kept.stats, rows |-> counted.rows, bets |-> kept.bets]
      /\ counted.stats = kept.stats /\ counted.bets = kept.bets
      /\ counted.rows = [n \in MatchIds |->
             IF n # m THEN kept.rows[n] ELSE IF kept.rows[m] = NoRow THEN NoRow ELSE new]
  BY <1>1, <1>3, TouchedRow
<1>5. kept.stats = map.stats /\ kept.rows = map.rows /\ kept.bets = guesses
  BY <1>3
<1>6. stats = [u \in Users |-> MapStatAfter(map, e, u)]
  <2>1. \A u \in Users : stats[u] = MapStatAfter(map, e, u)
    BY <1>4, <1>5 DEF MapStatAfter, Touches, WalletMethods, UserMethods
  <2>. QED
    BY <2>1
<1>7. counted.rows = [n \in MatchIds |-> RowAfter(map, e, n)]
  <2>1. \A n \in MatchIds : counted.rows[n] = RowAfter(map, e, n)
    BY <1>4, <1>5 DEF RowAfter, m, new
  <2>. QED
    BY <1>4, <2>1
<1>. HIDE DEF counted, stats, next
<1>8. next = [stats |-> stats, rows |-> counted.rows, bets |-> guesses]
  BY <1>2, <1>4, <1>5
<1>9. IsOutcome(map, e, next)
  BY <1>6, <1>7, <1>8 DEF IsOutcome, guesses
<1>. QED
  BY <1>9 DEF next

(* ... and a final result, which also scores the guesses.                  *)
LEMMA FinalizedOutcome ==
    ASSUME NEW map \in Maps, NEW e, IsInformed(e), e.method = "ResultFinalized"
    PROVE  IsOutcome(map, e, HandleEvent(map, e))
<1>. DEFINE m == e.match
            new == RowWith(e, map.rows[m])
            set == IF map.rows[m] = NoRow THEN map ELSE [map EXCEPT !.rows[m] = new]
            next == HandleEvent(map, e)
            Guess(u) == IF set.bets[<<u, m>>] = NoRow THEN bet_rows[<<u, m>>]
                        ELSE set.bets[<<u, m>>]
            bettors == {u \in Users : Guess(u) # NoRow}
            found == [u \in Users |-> IF u \in bettors /\ set.stats[u] = NoRow
                                      THEN user_stat[u] ELSE set.stats[u]]
            loaded == [set EXCEPT !.stats = found]
            stats == [u \in Users |->
                         IF u \notin bettors THEN loaded.stats[u]
                         ELSE StatScored(e, Started(loaded.stats[u]), Guess(u))]
<1>1. m \in MatchIds
  BY DEF IsInformed, MatchMethods
<1>2. next = [loaded EXCEPT !.stats = stats]
  <2>1. SetsStatus(map, e, "FINALIZED") = set
    BY DEF SetsStatus, TouchMatch, RowWith
  <2>2. next = ProjectAccuracy(set, m, e.result)
    BY <2>1 DEF HandleEvent
  <2>. HIDE DEF set, m
  <2>3. ProjectAccuracy(set, m, e.result) =
            TouchUsers(loaded, bettors, LAMBDA u, s : StatScored(e, s, Guess(u)))
    BY DEF ProjectAccuracy, StatScored
  <2>. HIDE DEF loaded
  <2>4. TouchUsers(loaded, bettors, LAMBDA u, s : StatScored(e, s, Guess(u)))
            = [loaded EXCEPT !.stats = stats]
    BY DEF TouchUsers, Started
  <2>. QED
    BY <2>2, <2>3, <2>4
<1>. HIDE DEF m, new
<1>3. /\ set = [stats |-> map.stats, rows |-> set.rows, bets |-> map.bets]
      /\ set.stats = map.stats /\ set.bets = map.bets
      /\ set.rows = [n \in MatchIds |->
             IF n # m THEN map.rows[n] ELSE IF map.rows[m] = NoRow THEN NoRow ELSE new]
  BY <1>1, TouchedRow
<1>4. /\ loaded = [stats |-> found, rows |-> set.rows, bets |-> map.bets]
      /\ loaded.stats = found
  <2>. HIDE DEF set, found
  <2>. QED
    BY <1>3
<1>5. stats = [u \in Users |-> MapStatAfter(map, e, u)]
  <2>1. \A u \in Users : stats[u] = MapStatAfter(map, e, u)
    <3>. SUFFICES ASSUME NEW u \in Users
                  PROVE  stats[u] = MapStatAfter(map, e, u)
      OBVIOUS
    <3>. HIDE DEF set
    <3>1. Guess(u) = GuessIn(map, <<u, m>>)
      BY <1>3 DEF GuessIn
    <3>2. loaded.stats[u] = IF u \in bettors /\ map.stats[u] = NoRow
                            THEN user_stat[u] ELSE map.stats[u]
      BY <1>3, <1>4
    <3>. HIDE DEF loaded
    <3>3. CASE Guess(u) = NoRow
      <4>1. stats[u] = map.stats[u]
        BY <3>2, <3>3
      <4>. QED
        BY <3>1, <3>3, <4>1 DEF MapStatAfter, Touches, WalletMethods, UserMethods, m
    <3>4. CASE Guess(u) # NoRow
      <4>1. stats[u] = StatScored(e, Started(IF map.stats[u] = NoRow THEN user_stat[u]
                                             ELSE map.stats[u]), Guess(u))
        BY <3>2, <3>4
      <4>. QED
        BY <3>1, <3>4, <4>1 DEF MapStatAfter, m
    <3>. QED
      BY <3>3, <3>4
  <2>. QED
    BY <2>1
<1>6. set.rows = [n \in MatchIds |-> RowAfter(map, e, n)]
  <2>1. \A n \in MatchIds : set.rows[n] = RowAfter(map, e, n)
    BY <1>3 DEF RowAfter, m, new
  <2>. QED
    BY <1>3, <2>1
<1>7. map.bets = [k \in Users \X MatchIds |-> BetAfter(map.bets, e, k)]
  BY DEF BetAfter, Maps
<1>. HIDE DEF set, loaded, found, stats, next
<1>8. next = [stats |-> stats, rows |-> set.rows, bets |-> map.bets]
  BY <1>2, <1>4
<1>9. IsOutcome(map, e, next)
  BY <1>5, <1>6, <1>7, <1>8 DEF IsOutcome
<1>. QED
  BY <1>9 DEF next

(* Every event changes each entry of the maps as IsOutcome says.           *)
LEMMA EventOutcome ==
    ASSUME NEW map \in Maps, NEW e, IsInformed(e)
    PROVE  IsOutcome(map, e, HandleEvent(map, e))
BY WalletOutcome, MatchOutcome, RegisteredOutcome, BetOutcome, FinalizedOutcome
   DEF IsInformed, Events, Methods, WalletMethods, UserMethods, StatusMethods

IndexTyped ==
    /\ bet_rows \in [Users \X MatchIds -> Predictions \cup {NoRow}]
    /\ bolao_match \in [MatchIds -> Rows \cup {NoRow}]
    /\ user_stat \in [Users -> Stats \cup {NoRow}]

\* A wallet without a podium bonus.
Good(u) == PodiumBonus(podium_picks[u], podium_result) = 0

\* What a batch saves: its entry, or else what the table has.
Merged(entry, row) == IF entry = NoRow THEN row ELSE entry

(* The maps of a batch say what the tables v say: us and ids are the       *)
(* wallets and matches it has loaded.                                      *)
Agree(map, v, us, ids) ==
    /\ \A u \in Users : Good(u) =>
          /\ v.stats[u] = Started(Merged(map.stats[u], user_stat[u]))
          /\ u \in us /\ map.stats[u] = NoRow => user_stat[u] = NoRow
    /\ \A m \in MatchIds :
          /\ v.rows[m] = Merged(map.rows[m], bolao_match[m])
          /\ m \in ids /\ map.rows[m] = NoRow => bolao_match[m] = NoRow
    /\ \A k \in Users \X MatchIds : v.bets[k] = Merged(map.bets[k], bet_rows[k])

Loaded(e, us, ids) ==
    /\ e.method \in UserMethods => DOMAIN e.amounts \subseteq us
    /\ e.method \in MatchMethods => e.match \in ids

BonusNotGood(e) ==
    e.method = "PodiumBonusAwarded" => \A u \in DOMAIN e.amounts : ~Good(u)

LEMMA EventTyped ==
    ASSUME NEW map \in Maps, NEW e, IsInformed(e), IndexTyped
    PROVE  HandleEvent(map, e) \in Maps
<1>. DEFINE next == HandleEvent(map, e)
<1>1. IsOutcome(map, e, next)
  BY EventOutcome
<1>. HIDE DEF next
<1>2. ASSUME NEW u \in Users
      PROVE  MapStatAfter(map, e, u) \in Stats \cup {NoRow}
  <2>1. map.stats[u] \in Stats \cup {NoRow} /\ user_stat[u] \in Stats \cup {NoRow}
    BY DEF Maps, IndexTyped
  <2>2. NewStat \in Stats
    BY DEF NewStat, Stats
  <2>3. \A s \in Stats \cup {NoRow} : Started(s) \in Stats
    BY <2>2 DEF Started
  <2>. QED
    BY <2>1, <2>3, StatWithTyped, StatScoredTyped DEF MapStatAfter
<1>3. ASSUME NEW m \in MatchIds
      PROVE  RowAfter(map, e, m) \in Rows \cup {NoRow}
  <2>1. map.rows[m] \in Rows \cup {NoRow} /\ NewRow \in Rows
    BY DEF Maps, NewRow, Rows
  <2>. QED
    BY <2>1, RowWithTyped DEF RowAfter, IsInformed
<1>4. ASSUME NEW k \in Users \X MatchIds
      PROVE  BetAfter(map.bets, e, k) \in Predictions \cup {NoRow}
  BY DEF BetAfter, IsInformed, Maps
<1>5. /\ next.stats \in [Users -> Stats \cup {NoRow}]
      /\ next.rows \in [MatchIds -> Rows \cup {NoRow}]
      /\ next.bets \in [Users \X MatchIds -> Predictions \cup {NoRow}]
  BY <1>1, <1>2, <1>3, <1>4 DEF IsOutcome
<1>6. next \in Maps
  BY <1>1, <1>5 DEF IsOutcome, Maps
<1>. QED
  BY <1>6 DEF next

(* A wallet's row stays the one a replay gives: in its entry, or in the    *)
(* table when there is no entry.                                           *)
LEMMA StatsAgree ==
    ASSUME NEW map \in Maps, NEW v \in Tables, NEW e, IsInformed(e), IndexTyped,
           NEW us, NEW ids, Agree(map, v, us, ids), Loaded(e, us, ids), BonusNotGood(e),
           NEW u \in Users, Good(u)
    PROVE  LET new == MapStatAfter(map, e, u)
           IN  /\ StatAfter(v, e, u) = Started(Merged(new, user_stat[u]))
               /\ u \in us /\ new = NoRow => user_stat[u] = NoRow
<1>. DEFINE new == MapStatAfter(map, e, u)
            guess == v.bets[<<u, e.match>>]
            found == IF map.stats[u] = NoRow THEN user_stat[u] ELSE map.stats[u]
<1>1. /\ v.stats[u] = Started(Merged(map.stats[u], user_stat[u]))
      /\ u \in us /\ map.stats[u] = NoRow => user_stat[u] = NoRow
  BY DEF Agree
<1>2. /\ v.stats[u] \in Stats
      /\ map.stats[u] \in Stats \cup {NoRow} /\ user_stat[u] \in Stats \cup {NoRow}
  BY DEF Tables, Maps, IndexTyped
<1>3. v.stats[u] = Started(found)
  BY <1>1 DEF Merged
<1>4. e.method = "ResultFinalized" => guess = GuessIn(map, <<u, e.match>>)
  BY DEF Agree, GuessIn, Merged, IsInformed, MatchMethods
<1>5. CASE e.method = "ResultFinalized" /\ guess # NoRow
  <2>1. new = StatScored(e, v.stats[u], guess)
    BY <1>3, <1>4, <1>5 DEF MapStatAfter
  <2>2. new \in Stats
    BY <1>2, <2>1, StatScoredTyped
  <2>3. new # NoRow
    BY <2>2, IndexerAssumption
  <2>4. StatAfter(v, e, u) = new
    BY <1>5, <2>1 DEF StatAfter
  <2>. QED
    BY <2>3, <2>4 DEF Merged, Started
<1>6. CASE ~(e.method = "ResultFinalized" /\ guess # NoRow) /\ Touches(e, u)
  <2>1. e.method \in UserMethods /\ u \in us
    BY <1>6 DEF Touches, WalletMethods, Loaded, BonusNotGood
  <2>2. v.stats[u] = Started(map.stats[u])
    BY <1>1, <1>2, <2>1 DEF Merged
  <2>3. new = StatWith(e, u, v.stats[u])
    BY <1>4, <1>6, <2>2 DEF MapStatAfter
  <2>4. new \in Stats
    BY <1>2, <1>6, <2>3, StatWithTyped
  <2>5. new # NoRow
    BY <2>4, IndexerAssumption
  <2>6. StatAfter(v, e, u) = new
    BY <1>6, <2>3 DEF StatAfter
  <2>. QED
    BY <2>5, <2>6 DEF Merged, Started
<1>7. CASE ~(e.method = "ResultFinalized" /\ guess # NoRow) /\ ~Touches(e, u)
  <2>1. new = map.stats[u]
    BY <1>4, <1>7 DEF MapStatAfter
  <2>2. StatAfter(v, e, u) = v.stats[u]
    BY <1>7 DEF StatAfter
  <2>. QED
    BY <1>1, <2>1, <2>2
<1>. QED
  BY <1>5, <1>6, <1>7

(* So does the row of a match.                                             *)
LEMMA RowsAgree ==
    ASSUME NEW map \in Maps, NEW v \in Tables, NEW e, IsInformed(e), IndexTyped,
           NEW us, NEW ids, Agree(map, v, us, ids), Loaded(e, us, ids), NEW m \in MatchIds
    PROVE  LET new == RowAfter(map, e, m)
           IN  /\ RowAfter(v, e, m) = Merged(new, bolao_match[m])
               /\ m \in ids /\ new = NoRow => bolao_match[m] = NoRow
<1>. DEFINE new == RowAfter(map, e, m)
            r == map.rows[m]
<1>1. /\ v.rows[m] = Merged(r, bolao_match[m])
      /\ m \in ids /\ r = NoRow => bolao_match[m] = NoRow
  BY DEF Agree
<1>2. r \in Rows \cup {NoRow}
  BY DEF Maps
<1>3. CASE m # e.match
  BY <1>1, <1>3 DEF RowAfter
<1>4. CASE m = e.match /\ e.method = "MatchRegistered"
  <2>1. NewRow \in Rows
    BY DEF NewRow, Rows
  <2>2. NewRow # NoRow
    BY <2>1, IndexerAssumption
  <2>. QED
    BY <1>4, <2>2 DEF RowAfter, Merged
<1>5. CASE m = e.match /\ e.method # "MatchRegistered" /\ r # NoRow
  <2>1. new = RowWith(e, r) /\ v.rows[m] = r
    BY <1>1, <1>5 DEF RowAfter, Merged
  <2>2. new \in Rows
    BY <1>2, <1>5, <2>1, RowWithTyped DEF IsInformed
  <2>3. new # NoRow
    BY <2>2, IndexerAssumption
  <2>4. RowAfter(v, e, m) = new
    BY <1>5, <2>1 DEF RowAfter
  <2>. QED
    BY <2>3, <2>4 DEF Merged
<1>6. CASE m = e.match /\ e.method # "MatchRegistered" /\ r = NoRow
  <2>1. new = NoRow /\ v.rows[m] = bolao_match[m]
    BY <1>1, <1>6 DEF RowAfter, Merged
  <2>2. CASE e.method \in MatchMethods
    <3>1. m \in ids
      BY <1>6, <2>2 DEF Loaded
    <3>2. bolao_match[m] = NoRow
      BY <1>1, <1>6, <3>1
    <3>. QED
      BY <1>6, <2>1, <3>2 DEF RowAfter, Merged
  <2>3. CASE e.method \notin MatchMethods
    <3>1. \A s : RowWith(e, s) = s
      BY <2>3 DEF RowWith, MatchMethods
    <3>2. RowAfter(v, e, m) = v.rows[m]
      BY <1>6, <3>1 DEF RowAfter
    <3>. QED
      BY <1>1, <1>6, <2>1, <3>2 DEF Merged
  <2>. QED
    BY <2>2, <2>3
<1>. QED
  BY <1>3, <1>4, <1>5, <1>6

(* A batch's maps and replayed tables agree after an event if they did     *)
(* before.                                                                 *)
LEMMA EventAgrees ==
    ASSUME NEW map \in Maps, NEW v \in Tables, NEW e, IsInformed(e), IndexTyped,
           NEW us, NEW ids, Agree(map, v, us, ids), Loaded(e, us, ids), BonusNotGood(e)
    PROVE  /\ HandleEvent(map, e) \in Maps
           /\ Replayed(v, e) \in Tables
           /\ Agree(HandleEvent(map, e), Replayed(v, e), us, ids)
<1>. DEFINE next == HandleEvent(map, e)
            w == Replayed(v, e)
<1>1. next \in Maps /\ w \in Tables
  BY EventTyped, ReplayedTyped
<1>2. /\ \A u \in Users : next.stats[u] = MapStatAfter(map, e, u)
      /\ \A m \in MatchIds : next.rows[m] = RowAfter(map, e, m)
      /\ \A k \in Users \X MatchIds : next.bets[k] = BetAfter(map.bets, e, k)
  <2>1. IsOutcome(map, e, next)
    BY EventOutcome
  <2>. HIDE DEF next
  <2>. QED
    BY <2>1 DEF IsOutcome
<1>3. /\ \A u \in Users : w.stats[u] = StatAfter(v, e, u)
      /\ \A m \in MatchIds : w.rows[m] = RowAfter(v, e, m)
      /\ \A k \in Users \X MatchIds : w.bets[k] = BetAfter(v.bets, e, k)
  BY DEF Replayed
<1>. HIDE DEF next, w
<1>4. \A u \in Users : Good(u) =>
          /\ w.stats[u] = Started(Merged(next.stats[u], user_stat[u]))
          /\ u \in us /\ next.stats[u] = NoRow => user_stat[u] = NoRow
  BY <1>2, <1>3, StatsAgree
<1>5. \A m \in MatchIds :
          /\ w.rows[m] = Merged(next.rows[m], bolao_match[m])
          /\ m \in ids /\ next.rows[m] = NoRow => bolao_match[m] = NoRow
  BY <1>2, <1>3, RowsAgree
<1>6. \A k \in Users \X MatchIds : w.bets[k] = Merged(next.bets[k], bet_rows[k])
  <2>1. e.method = "BetAccepted" => e.result # NoRow
    BY IndexerAssumption DEF IsInformed
  <2>2. \A k \in Users \X MatchIds : v.bets[k] = Merged(map.bets[k], bet_rows[k])
    BY DEF Agree
  <2>. QED
    BY <1>2, <1>3, <2>1, <2>2 DEF BetAfter, Merged
<1>7. Agree(next, w, us, ids)
  BY <1>4, <1>5, <1>6 DEF Agree
<1>. QED
  BY <1>1, <1>7 DEF next, w

(* The two loops of a batch: over the events of a message, and over the    *)
(* messages of a batch.                                                    *)
FoldStep(kind, s, map, i) ==
    IF kind = "events" THEN HandleEvent(map, s[i]) ELSE HandleMessage(map, s[i])

IsFold(run, n, kind, s, map) ==
    run = [i \in 0 .. n |-> IF i = 0 THEN map ELSE FoldStep(kind, s, run[i - 1], i)]

(* The two recursive functions of a batch as runs of a fold.               *)
LEMMA HandleMessageDef ==
    ASSUME NEW map, NEW message
    PROVE  HandleMessage(map, message)
               = (CHOOSE run : IsFold(run, Len(message), "events", message, map))[Len(message)]
BY DEF HandleMessage, IsFold, FoldStep

LEMMA ProcessedDef ==
    ASSUME NEW n
    PROVE  Processed(n)
               = (CHOOSE run : IsFold(run, n, "messages", backlog, Preload(n)))[n]
BY DEF Processed, IsFold, FoldStep

(* A fold of any length has a run: the shortest without one would extend a *)
(* shorter run.                                                            *)
LEMMA FoldExists ==
    ASSUME NEW kind, NEW s, NEW map, NEW last \in Nat
    PROVE  \E run : IsFold(run, last, kind, s, map)
<1>. DEFINE Step(st, i) == FoldStep(kind, s, st, i)
            Runs(g, n) == g = [k \in 0 .. n |-> IF k = 0 THEN map ELSE Step(g[k - 1], k)]
            B == {n \in Nat : ~ \E g : Runs(g, n)}
<1>1. SUFFICES ASSUME B # {}
               PROVE  FALSE
  BY <1>1 DEF IsFold
<1>2. PICK n \in B : \A k \in B : n <= k
  <2>. HIDE DEF B
  <2>1. B \in SUBSET Nat
    BY DEF B
  <2>. QED
    BY <1>1, <2>1, LeastOf
<1>3. n \in Nat /\ ~ \E g : Runs(g, n)
  BY <1>2
<1>. HIDE DEF Step
<1>4. CASE n = 0
  <2>. DEFINE g == [k \in 0 .. n |-> map]
  <2>1. \A k \in 0 .. n : k = 0
    BY <1>4
  <2>2. Runs(g, n)
    BY <2>1
  <2>. QED
    BY <1>3, <2>2
<1>5. CASE n # 0
  <2>1. n - 1 \in Nat /\ n - 1 \notin B
    BY <1>2, <1>3, <1>5
  <2>2. PICK g : Runs(g, n - 1)
    BY <2>1
  <2>. DEFINE h == [k \in 0 .. n |-> IF k = 0 THEN map ELSE Step(g[k - 1], k)]
  <2>3. \A k \in 0 .. n - 1 : g[k] = IF k = 0 THEN map ELSE Step(g[k - 1], k)
    BY <2>1, <2>2
  <2>4. \A k \in 0 .. n - 1 : h[k] = g[k]
    BY <1>3, <2>3
  <2>5. \A k \in 0 .. n : (k # 0 => k - 1 \in 0 .. n - 1)
    BY <1>3
  <2>6. h = [k \in 0 .. n |-> IF k = 0 THEN map ELSE Step(h[k - 1], k)]
    <3>. HIDE DEF Runs
    <3>1. \A k \in 0 .. n : h[k] = IF k = 0 THEN map ELSE Step(h[k - 1], k)
      BY <2>4, <2>5
    <3>. QED
      BY <3>1
  <2>7. Runs(h, n)
    BY <2>6
  <2>. HIDE DEF h
  <2>. QED
    BY <1>3, <2>7
<1>. QED
  BY <1>4, <1>5

\* A handler emits one event, or the three of finalize_result.
Informs(message) ==
    /\ Len(message) \in {1, 3}
    /\ \A i \in 1 .. Len(message) : IsInformed(message[i])

IsMessage(message) ==
    /\ Informs(message)
    /\ \A i \in 1 .. Len(message) : BonusNotGood(message[i])

ReplayedAll(v, message) ==
    IF Len(message) = 1 THEN Replayed(v, message[1])
    ELSE Replayed(Replayed(Replayed(v, message[1]), message[2]), message[3])

LEMMA MessageTyped ==
    ASSUME NEW v \in Tables, NEW message, Informs(message)
    PROVE  ReplayedAll(v, message) \in Tables
<1>1. CASE Len(message) = 1
  <2>1. IsInformed(message[1])
    BY <1>1 DEF Informs
  <2>. QED
    BY <1>1, <2>1, ReplayedTyped DEF ReplayedAll
<1>2. CASE Len(message) = 3
  <2>1. IsInformed(message[1]) /\ IsInformed(message[2]) /\ IsInformed(message[3])
    BY <1>2 DEF Informs
  <2>2. Replayed(v, message[1]) \in Tables
    BY <2>1, ReplayedTyped
  <2>3. Replayed(Replayed(v, message[1]), message[2]) \in Tables
    BY <2>1, <2>2, ReplayedTyped
  <2>4. Replayed(Replayed(Replayed(v, message[1]), message[2]), message[3]) \in Tables
    BY <2>1, <2>3, ReplayedTyped
  <2>. QED
    BY <1>2, <2>4 DEF ReplayedAll
<1>. QED
  BY <1>1, <1>2 DEF Informs

(* Maps and tables agree after a message, by a least event after which     *)
(* they do not.                                                            *)
LEMMA MessageAgrees ==
    ASSUME NEW map \in Maps, NEW v \in Tables, IndexTyped, NEW us, NEW ids,
           Agree(map, v, us, ids), NEW message, IsMessage(message),
           \A i \in 1 .. Len(message) : Loaded(message[i], us, ids)
    PROVE  /\ HandleMessage(map, message) \in Maps
           /\ Agree(HandleMessage(map, message), ReplayedAll(v, message), us, ids)
<1>. DEFINE n == Len(message)
<1>1. PICK run : run = CHOOSE g : IsFold(g, n, "events", message, map)
  OBVIOUS
<1>2. HandleMessage(map, message) = run[n]
  BY <1>1, HandleMessageDef
<1>3. n \in Nat /\ n \in {1, 3}
  BY DEF IsMessage, Informs
<1>. HIDE DEF n
<1>a. IsFold(run, n, "events", message, map)
  BY <1>1, <1>3, FoldExists
<1>4. /\ run[0] = map
      /\ \A i \in 1 .. n : run[i] = FoldStep("events", message, run[i - 1], i)
  <2>1. \A i \in 0 .. n : run[i] = IF i = 0 THEN map ELSE FoldStep("events", message, run[i - 1], i)
    BY <1>a DEF IsFold
  <2>. QED
    BY <1>3, <2>1
<1>5. \A i \in 1 .. n : run[i] = HandleEvent(run[i - 1], message[i])
  BY <1>4 DEF FoldStep
<1>6. \A i \in 1 .. n : /\ IsInformed(message[i]) /\ BonusNotGood(message[i])
                        /\ Loaded(message[i], us, ids)
  BY DEF IsMessage, Informs, n
<1>. DEFINE w1 == Replayed(v, message[1])
            w2 == Replayed(w1, message[2])
            w3 == Replayed(w2, message[3])
<1>7. run[1] \in Maps /\ w1 \in Tables /\ Agree(run[1], w1, us, ids)
  <2>1. 1 \in 1 .. n /\ 1 - 1 = 0
    BY <1>3
  <2>2. run[1] = HandleEvent(map, message[1])
    BY <1>4, <1>5, <2>1
  <2>. QED
    BY <1>6, <2>1, <2>2, EventAgrees
<1>8. CASE n = 1
  BY <1>2, <1>7, <1>8 DEF ReplayedAll, n
<1>9. CASE n = 3
  <2>1. 2 \in 1 .. n /\ 3 \in 1 .. n /\ 2 - 1 = 1 /\ 3 - 1 = 2
    BY <1>9
  <2>2. run[2] = HandleEvent(run[1], message[2]) /\ run[3] = HandleEvent(run[2], message[3])
    BY <1>5, <2>1
  <2>. HIDE DEF w1
  <2>3. run[2] \in Maps /\ w2 \in Tables /\ Agree(run[2], w2, us, ids)
    BY <1>6, <1>7, <2>1, <2>2, EventAgrees
  <2>. HIDE DEF w2
  <2>4. run[3] \in Maps /\ w3 \in Tables /\ Agree(run[3], w3, us, ids)
    BY <1>6, <2>1, <2>2, <2>3, EventAgrees
  <2>5. w3 = ReplayedAll(v, message)
    BY <1>9 DEF ReplayedAll, n, w1, w2
  <2>. QED
    BY <1>2, <1>9, <2>4, <2>5
<1>. QED
  BY <1>3, <1>8, <1>9

BacklogTyped ==
    /\ backlog \in Seq(Seq(Events))
    /\ \A i \in 1 .. Len(backlog) : IsMessage(backlog[i])

\* The tables as they are, for the wallets without a podium bonus.
IsSaved(v) ==
    /\ v \in Tables
    /\ \A u \in Users : Good(u) => v.stats[u] = StatOf(u)
    /\ v.rows = bolao_match
    /\ v.bets = bet_rows

(* The tables once 0, 1, ... messages of the backlog are indexed, one at a *)
(* time and without batches.                                               *)
IsReplay(V) ==
    /\ V \in [0 .. Len(backlog) -> Tables]
    /\ IsSaved(V[0])
    /\ \A i \in 1 .. Len(backlog) : V[i] = ReplayedAll(V[i - 1], backlog[i])

(* What a batch loads agrees with tables that say what was saved.          *)
LEMMA PreloadAgrees ==
    ASSUME IndexTyped, BacklogTyped, NEW v, IsSaved(v), NEW n \in 1 .. Len(backlog)
    PROVE  \E us, ids :
              /\ Preload(n) \in Maps
              /\ Agree(Preload(n), v, us, ids)
              /\ \A i \in 1 .. n : \A k \in 1 .. Len(backlog[i]) : Loaded(backlog[i][k], us, ids)
<1>. DEFINE all == UNION {{backlog[i][k] : k \in DOMAIN backlog[i]} : i \in 1 .. n}
            us == UNION {DOMAIN e.amounts : e \in {e \in all : e.method \in UserMethods}}
            ids == {e.match : e \in {e \in all : e.method \in MatchMethods}}
            stats == [u \in Users |-> IF u \in us THEN user_stat[u] ELSE NoRow]
            rows == [m \in MatchIds |-> IF m \in ids THEN bolao_match[m] ELSE NoRow]
            none == [k \in Users \X MatchIds |-> NoRow]
<1>1. ASSUME NEW i \in 1 .. n, NEW k \in 1 .. Len(backlog[i])
      PROVE  Loaded(backlog[i][k], us, ids)
  <2>1. backlog[i] \in Seq(Events)
    BY DEF BacklogTyped
  <2>2. k \in DOMAIN backlog[i]
    BY <2>1
  <2>3. backlog[i][k] \in all
    BY <2>2
  <2>. HIDE DEF all
  <2>. QED
    BY <2>3 DEF Loaded
<1>. HIDE DEF us, ids
<1>2. Preload(n) = [stats |-> stats, rows |-> rows, bets |-> none]
  BY DEF Preload, us, ids
<1>3. /\ stats \in [Users -> Stats \cup {NoRow}]
      /\ rows \in [MatchIds -> Rows \cup {NoRow}]
      /\ none \in [Users \X MatchIds -> Predictions \cup {NoRow}]
  BY DEF IndexTyped
<1>. DEFINE map == Preload(n)
<1>4. map.stats = stats /\ map.rows = rows /\ map.bets = none
  BY <1>2
<1>5. Preload(n) \in Maps
  <2>. HIDE DEF stats, rows, none
  <2>. QED
    BY <1>2, <1>3 DEF Maps
<1>. HIDE DEF map
<1>6. \A u \in Users : Good(u) =>
          /\ v.stats[u] = Started(Merged(map.stats[u], user_stat[u]))
          /\ u \in us /\ map.stats[u] = NoRow => user_stat[u] = NoRow
  BY <1>4 DEF IsSaved, StatOf, Started, Merged
<1>7. \A m \in MatchIds :
          /\ v.rows[m] = Merged(map.rows[m], bolao_match[m])
          /\ m \in ids /\ map.rows[m] = NoRow => bolao_match[m] = NoRow
  BY <1>4 DEF IsSaved, Merged
<1>8. \A k \in Users \X MatchIds : v.bets[k] = Merged(map.bets[k], bet_rows[k])
  BY <1>4 DEF IsSaved, Merged
<1>9. Agree(map, v, us, ids)
  BY <1>6, <1>7, <1>8 DEF Agree
<1>. QED
  BY <1>1, <1>5, <1>9 DEF map

(* What a batch has at its end agrees with the replay of its messages.     *)
LEMMA ProcessedAgrees ==
    ASSUME IndexTyped, BacklogTyped, NEW V, IsReplay(V), NEW n \in 1 .. Len(backlog)
    PROVE  /\ Processed(n) \in Maps
           /\ \E us, ids : Agree(Processed(n), V[n], us, ids)
<1>1. Len(backlog) \in Nat /\ n \in Nat
  BY DEF BacklogTyped
<1>2. PICK run : run = CHOOSE g : IsFold(g, n, "messages", backlog, Preload(n))
  OBVIOUS
<1>3. IsFold(run, n, "messages", backlog, Preload(n))
  BY <1>1, <1>2, FoldExists
<1>4. Processed(n) = run[n]
  BY <1>2, ProcessedDef
<1>5. /\ run[0] = Preload(n)
      /\ \A i \in 1 .. n : run[i] = HandleMessage(run[i - 1], backlog[i])
  <2>1. \A i \in 0 .. n : run[i] = IF i = 0 THEN Preload(n)
                                   ELSE FoldStep("messages", backlog, run[i - 1], i)
    BY <1>3 DEF IsFold
  <2>. QED
    BY <1>1, <2>1 DEF FoldStep
<1>6. PICK us, ids :
          /\ Preload(n) \in Maps
          /\ Agree(Preload(n), V[0], us, ids)
          /\ \A i \in 1 .. n : \A k \in 1 .. Len(backlog[i]) : Loaded(backlog[i][k], us, ids)
  BY PreloadAgrees DEF IsReplay
<1>. DEFINE Ok(i) == run[i] \in Maps /\ Agree(run[i], V[i], us, ids)
            B == {i \in 0 .. n : ~Ok(i)}
<1>7. SUFFICES ASSUME B # {}
               PROVE  FALSE
  BY <1>1, <1>4, <1>7
<1>8. PICK i \in B : \A k \in B : i <= k
  <2>. HIDE DEF B, Ok
  <2>1. B \in SUBSET Nat
    BY <1>1 DEF B
  <2>. QED
    BY <1>7, <2>1, LeastOf
<1>9. i \in 0 .. n /\ ~Ok(i)
  BY <1>8
<1>10. i # 0
  BY <1>5, <1>6, <1>9
<1>11. i \in 1 .. n /\ i - 1 \in 0 .. n /\ i \in 1 .. Len(backlog)
       /\ i - 1 \in 0 .. Len(backlog)
  BY <1>1, <1>9, <1>10
<1>12. i - 1 \notin B
  BY <1>8, <1>11
<1>13. Ok(i - 1)
  BY <1>11, <1>12
<1>. DEFINE map == run[i - 1]
            v == V[i - 1]
            message == backlog[i]
<1>14. /\ map \in Maps /\ Agree(map, v, us, ids)
       /\ v \in Tables /\ IsMessage(message)
       /\ \A k \in 1 .. Len(message) : Loaded(message[k], us, ids)
  BY <1>6, <1>11, <1>13 DEF IsReplay, BacklogTyped
<1>15. run[i] = HandleMessage(map, message) /\ V[i] = ReplayedAll(v, message)
  BY <1>5, <1>11 DEF IsReplay
<1>. HIDE DEF map, v, message
<1>16. Ok(i)
  BY <1>14, <1>15, MessageAgrees
<1>. QED
  BY <1>9, <1>16

(* What a batch saves is what its messages make of the tables one by one.  *)
LEMMA BatchReplays ==
    ASSUME IndexTyped, BacklogTyped, NEW V, IsReplay(V), NEW n \in 1 .. Len(backlog),
           IndexBatch(n)
    PROVE  /\ IndexTyped' /\ BacklogTyped'
           /\ \E W : /\ IsReplay(W)'
                     /\ W[Len(backlog')] = V[Len(backlog)]
<1>1. Len(backlog) \in Nat /\ n \in Nat
  BY DEF BacklogTyped
<1>2. PICK map : map = Processed(n)
  OBVIOUS
<1>3. PICK us, ids : map \in Maps /\ Agree(map, V[n], us, ids)
  BY <1>2, ProcessedAgrees
<1>4. /\ bet_rows' = [k \in DOMAIN bet_rows |->
                        IF map.bets[k] = NoRow THEN bet_rows[k] ELSE map.bets[k]]
      /\ bolao_match' = [k \in DOMAIN bolao_match |->
                        IF map.rows[k] = NoRow THEN bolao_match[k] ELSE map.rows[k]]
      /\ user_stat' = [k \in DOMAIN user_stat |->
                        IF map.stats[k] = NoRow THEN user_stat[k] ELSE map.stats[k]]
  BY <1>2 DEF IndexBatch
<1>5. DOMAIN bet_rows = Users \X MatchIds /\ DOMAIN bolao_match = MatchIds
      /\ DOMAIN user_stat = Users
  BY DEF IndexTyped
<1>6. /\ \A k \in Users \X MatchIds : bet_rows'[k] = Merged(map.bets[k], bet_rows[k])
      /\ \A m \in MatchIds : bolao_match'[m] = Merged(map.rows[m], bolao_match[m])
      /\ \A u \in Users : user_stat'[u] = Merged(map.stats[u], user_stat[u])
  BY <1>4, <1>5 DEF Merged
<1>7. IndexTyped'
  <2>1. /\ \A k \in Users \X MatchIds : bet_rows'[k] \in Predictions \cup {NoRow}
        /\ \A m \in MatchIds : bolao_match'[m] \in Rows \cup {NoRow}
        /\ \A u \in Users : user_stat'[u] \in Stats \cup {NoRow}
    BY <1>3, <1>6 DEF Merged, Maps, IndexTyped
  <2>. QED
    BY <1>4, <1>5, <2>1 DEF IndexTyped
<1>8. /\ Len(backlog') = Len(backlog) - n /\ backlog' \in Seq(Seq(Events))
      /\ \A i \in 1 .. Len(backlog) - n : backlog'[i] = backlog[n + i]
  BY <1>1 DEF IndexBatch, BacklogTyped
<1>9. podium_picks' = podium_picks /\ podium_result' = podium_result
  BY DEF IndexBatch, vars, coreVars, podiumVars
<1>10. BacklogTyped'
  <2>1. ASSUME NEW i \in 1 .. Len(backlog')
        PROVE  IsMessage(backlog'[i])
    <3>1. i \in 1 .. Len(backlog) - n /\ n + i \in 1 .. Len(backlog)
      BY <1>1, <1>8
    <3>2. IsMessage(backlog[n + i])
      BY <3>1 DEF BacklogTyped
    <3>. QED
      BY <1>8, <3>1, <3>2
  <2>2. \A s : IsMessage(s) => IsMessage(s)'
    BY <1>9 DEF IsMessage, BonusNotGood, Good
  <2>. QED
    BY <1>8, <2>1, <2>2 DEF BacklogTyped
<1>a. PICK last : last = Len(backlog) - n
  OBVIOUS
<1>b. PICK W : W = [j \in 0 .. last |-> V[n + j]]
  OBVIOUS
<1>11. /\ W \in [0 .. last -> Tables] /\ W[0] = V[n] /\ W[last] = V[Len(backlog)]
       /\ V[n] \in Tables
  <2>1. PICK all : all = Len(backlog)
    OBVIOUS
  <2>2. V \in [0 .. all -> Tables]
    BY <2>1 DEF IsReplay
  <2>3. all \in Nat /\ n \in 1 .. all /\ last = all - n
    BY <1>1, <1>a, <2>1
  <2>4. \A j \in 0 .. last : n + j \in 0 .. all /\ V[n + j] \in Tables
    BY <2>2, <2>3
  <2>5. /\ 0 \in 0 .. last /\ last \in 0 .. last /\ n + 0 = n /\ n + last = all
    BY <2>3
  <2>. QED
    BY <1>b, <2>1, <2>4, <2>5
<1>12. IsSaved(V[n])'
  <2>1. \A u \in Users : Good(u)' => V[n].stats[u] = StatOf(u)'
    BY <1>3, <1>6, <1>9 DEF Good, Agree, StatOf, Started
  <2>2. V[n].rows = bolao_match'
    <3>1. \A m \in MatchIds : V[n].rows[m] = bolao_match'[m]
      BY <1>3, <1>6 DEF Agree
    <3>. QED
      BY <1>7, <1>11, <3>1 DEF Tables, IndexTyped
  <2>3. V[n].bets = bet_rows'
    <3>1. \A k \in Users \X MatchIds : V[n].bets[k] = bet_rows'[k]
      BY <1>3, <1>6 DEF Agree
    <3>. QED
      BY <1>7, <1>11, <3>1 DEF Tables, IndexTyped
  <2>. QED
    BY <1>11, <2>1, <2>2, <2>3 DEF IsSaved
<1>13. \A i \in 1 .. last : W[i] = ReplayedAll(W[i - 1], backlog'[i])
  <2>. SUFFICES ASSUME NEW i \in 1 .. last
                PROVE  W[i] = ReplayedAll(W[i - 1], backlog'[i])
    OBVIOUS
  <2>1. /\ i \in 0 .. last /\ i - 1 \in 0 .. last /\ n + i \in 1 .. Len(backlog)
        /\ n + (i - 1) = (n + i) - 1
    BY <1>1, <1>a
  <2>2. W[i] = V[n + i] /\ W[i - 1] = V[(n + i) - 1]
    BY <1>b, <2>1
  <2>3. V[n + i] = ReplayedAll(V[(n + i) - 1], backlog[n + i])
    BY <2>1 DEF IsReplay
  <2>4. backlog'[i] = backlog[n + i]
    BY <1>8, <1>a
  <2>. QED
    BY <2>2, <2>3, <2>4
<1>14. last = Len(backlog')
  BY <1>8, <1>a
<1>15. IsReplay(W)'
  BY <1>11, <1>12, <1>13, <1>14 DEF IsReplay
<1>16. IsReplay(W)' /\ W[Len(backlog')] = V[Len(backlog)]
  BY <1>11, <1>14, <1>15
<1>. QED
  BY <1>7, <1>10, <1>16

LEMMA SavedStays ==
    ASSUME NEW v, IsSaved(v), \A u \in Users : Good(u)' => Good(u),
           bet_rows' = bet_rows, bolao_match' = bolao_match, user_stat' = user_stat
    PROVE  IsSaved(v)'
BY DEF IsSaved, StatOf

(* Messages stay well formed as long as no wallet loses its podium bonus.  *)
LEMMA MessagesStay ==
    ASSUME \A u \in Users : Good(u)' => Good(u), NEW message, IsMessage(message)
    PROVE  IsMessage(message)'
<1>1. ASSUME NEW i \in 1 .. Len(message), message[i].method = "PodiumBonusAwarded",
             NEW u \in DOMAIN message[i].amounts
      PROVE  ~Good(u)'
  <2>1. message[i] \in Events /\ ~Good(u)
    BY <1>1 DEF IsMessage, Informs, IsInformed, BonusNotGood
  <2>2. u \in Users
    BY <2>1, AmountsNat
  <2>. QED
    BY <2>1, <2>2
<1>. QED
  BY <1>1 DEF IsMessage, BonusNotGood

(* A step that emits nothing leaves the replay of the backlog as it was,   *)
(* ...                                                                     *)
LEMMA QuietReplays ==
    ASSUME IndexTyped, BacklogTyped, NEW V, IsReplay(V), Quietly,
           \A u \in Users : Good(u)' => Good(u)
    PROVE  IndexTyped' /\ BacklogTyped' /\ IsReplay(V)' /\ Len(backlog') = Len(backlog)
<1>1. /\ bet_rows' = bet_rows /\ bolao_match' = bolao_match /\ user_stat' = user_stat
      /\ backlog' = backlog
  BY DEF Quietly, indexVars
<1>2. IndexTyped'
  BY <1>1 DEF IndexTyped
<1>3. BacklogTyped'
  BY <1>1, MessagesStay DEF BacklogTyped
<1>4. IsReplay(V)'
  BY <1>1, SavedStays DEF IsReplay
<1>. QED
  BY <1>1, <1>2, <1>3, <1>4

(* ... and one that emits a message leads the replay on by its events.     *)
LEMMA EmitReplays ==
    ASSUME IndexTyped, BacklogTyped, NEW V, IsReplay(V),
           NEW events \in Seq(Events), Emits(events), IsMessage(events)',
           \A u \in Users : Good(u)' => Good(u)
    PROVE  /\ IndexTyped' /\ BacklogTyped'
           /\ \E W : /\ IsReplay(W)'
                     /\ W[Len(backlog')] = ReplayedAll(V[Len(backlog)], events)
<1>1. /\ bet_rows' = bet_rows /\ bolao_match' = bolao_match /\ user_stat' = user_stat
      /\ backlog' = Append(backlog, events)
  BY DEF Emits
<1>2. IndexTyped'
  BY <1>1 DEF IndexTyped
<1>3. PICK all : all = Len(backlog)
  OBVIOUS
<1>4. /\ all \in Nat /\ Len(backlog') = all + 1 /\ backlog' \in Seq(Seq(Events))
      /\ backlog'[all + 1] = events
      /\ \A i \in 1 .. all : backlog'[i] = backlog[i]
  BY <1>1, <1>3 DEF BacklogTyped
<1>5. BacklogTyped'
  <2>1. ASSUME NEW i \in 1 .. all + 1, NEW message, message = backlog'[i]
        PROVE  IsMessage(message)'
    <3>1. CASE i = all + 1
      <4>1. message = events
        BY <1>4, <2>1, <3>1
      <4>. QED
        BY <4>1
    <3>2. CASE i \in 1 .. all
      <4>1. message = backlog[i]
        BY <1>4, <2>1, <3>2
      <4>2. IsMessage(message)
        BY <1>3, <3>2, <4>1 DEF BacklogTyped
      <4>. QED
        BY <4>2, MessagesStay
    <3>. QED
      BY <1>4, <3>1, <3>2
  <2>. QED
    BY <1>4, <2>1 DEF BacklogTyped
<1>6. PICK last : last = V[all]
  OBVIOUS
<1>7. PICK next : next = ReplayedAll(last, events)
  OBVIOUS
<1>8. V \in [0 .. all -> Tables] /\ IsSaved(V[0])
      /\ \A i \in 1 .. all : V[i] = ReplayedAll(V[i - 1], backlog[i])
  BY <1>3 DEF IsReplay
<1>9. next \in Tables
  <2>1. Informs(events)
    BY DEF IsMessage
  <2>2. last \in Tables
    BY <1>4, <1>6, <1>8
  <2>. QED
    BY <1>7, <2>1, <2>2, MessageTyped
<1>10. PICK W : W = [j \in 0 .. all + 1 |-> IF j = all + 1 THEN next ELSE V[j]]
  OBVIOUS
<1>11. W \in [0 .. all + 1 -> Tables] /\ W[0] = V[0] /\ W[all + 1] = next
  <2>1. \A j \in 0 .. all + 1 : j = all + 1 \/ j \in 0 .. all
    BY <1>4
  <2>2. 0 \in 0 .. all + 1 /\ all + 1 \in 0 .. all + 1 /\ 0 # all + 1
    BY <1>4
  <2>. QED
    BY <1>8, <1>9, <1>10, <2>1, <2>2
<1>12. ASSUME NEW i \in 1 .. all + 1
       PROVE  W[i] = ReplayedAll(W[i - 1], backlog'[i])
  <2>1. i \in 0 .. all + 1 /\ i - 1 \in 0 .. all + 1 /\ i - 1 # all + 1
    BY <1>4
  <2>2. W[i - 1] = V[i - 1]
    BY <1>10, <2>1
  <2>3. CASE i = all + 1
    <3>1. i - 1 = all
      BY <1>4, <2>3
    <3>. QED
      BY <1>4, <1>6, <1>7, <1>11, <2>2, <2>3, <3>1
  <2>4. CASE i # all + 1
    <3>1. i \in 1 .. all
      BY <1>4, <2>4
    <3>2. W[i] = V[i]
      BY <1>10, <2>1, <2>4
    <3>. QED
      BY <1>4, <1>8, <2>2, <3>1, <3>2
  <2>. QED
    BY <2>3, <2>4
<1>13. IsSaved(W[0])'
  BY <1>1, <1>8, <1>11, SavedStays
<1>14. IsReplay(W)'
  BY <1>4, <1>11, <1>12, <1>13 DEF IsReplay
<1>. QED
  BY <1>2, <1>3, <1>4, <1>5, <1>6, <1>7, <1>11, <1>14

----------------------------------------------------------------------------
(* 3.2  The chain and its events.                                          *)

(* What the chain says of a wallet and of a match, added up.               *)
BetOn(u, m) == IF bets[<<u, m>>] = NoBet THEN 0 ELSE 1
StakeOn(u, m) == IF bets[<<u, m>>] = NoBet THEN 0 ELSE bets[<<u, m>>].stake_in_match_pool
HitOn(u, m) ==
    IF /\ Decided(m) /\ bets[<<u, m>>] # NoBet
       /\ bets[<<u, m>>].prediction.score = matches[m].result.final.score THEN 1 ELSE 0
HeldFor(u, m) ==
    IF Status(m) = "Cancelled" /\ bets[<<u, m>>] # NoBet /\ bets[<<u, m>>].claimed
    THEN 0 ELSE StakeOn(u, m)

BetsMade(u) == SumOver([m \in MatchIds |-> BetOn(u, m)], MatchIds)
StakesMade(u) == SumOver([m \in MatchIds |-> StakeOn(u, m)], MatchIds)
HitsMade(u) == SumOver([m \in MatchIds |-> HitOn(u, m)], MatchIds)
PaidOut(u) == SumOver([m \in MatchIds |-> paid[<<u, m>>]], MatchIds)
PrizePaid(u) == IF final_prize_claimed[u] THEN final_prize_allocations[u] ELSE 0

BetsTaken(m) == SumOver([u \in Users |-> BetOn(u, m)], Users)
StakesHeld(m) == SumOver([u \in Users |-> HeldFor(u, m)], Users)

\* Nobody is paid without a bet, and no bet is the ledger's.
PaidForBets ==
    \A u \in Users, m \in MatchIds :
        /\ paid[<<u, m>>] \in Nat
        /\ bets[<<u, m>>] = NoBet => paid[<<u, m>>] = 0
        /\ bets[<<u, m>>] # NoBet => bets[<<u, m>>].freebet_principal = 0

ChainInv ==
    /\ TypeInv /\ KickedOff /\ RefundsInv /\ SharesInv /\ PoolsInv
    /\ PrizeBooked /\ PaidForBets

(* What a bet counts for is a number, now and after the step.              *)
LEMMA CountsNat ==
    ASSUME MatchesTypeOK, PaidForBets, NEW u \in Users, NEW m \in MatchIds
    PROVE  /\ BetOn(u, m) \in Nat /\ StakeOn(u, m) \in Nat /\ HitOn(u, m) \in Nat
           /\ HeldFor(u, m) \in Nat /\ paid[<<u, m>>] \in Nat
BY BettorsBet DEF BetOn, StakeOn, HitOn, HeldFor, PaidForBets, Bets

LEMMA CountsNatNext ==
    ASSUME MatchesTypeOK', PaidForBets', NEW u \in Users, NEW m \in MatchIds
    PROVE  /\ BetOn(u, m)' \in Nat /\ StakeOn(u, m)' \in Nat /\ HitOn(u, m)' \in Nat
           /\ HeldFor(u, m)' \in Nat /\ paid'[<<u, m>>] \in Nat
<1>1. bets'[<<u, m>>] \in Bets \cup {NoBet}
  BY DEF MatchesTypeOK
<1>. QED
  BY <1>1 DEF BetOn, StakeOn, HitOn, HeldFor, PaidForBets, Bets

LEMMA WalletSumsNat ==
    ASSUME MatchesTypeOK, PaidForBets, NEW u \in Users
    PROVE  /\ BetsMade(u) \in Nat /\ StakesMade(u) \in Nat /\ HitsMade(u) \in Nat
           /\ PaidOut(u) \in Nat
<1>. DEFINE made == [m \in MatchIds |-> BetOn(u, m)]
            stakes == [m \in MatchIds |-> StakeOn(u, m)]
            hits == [m \in MatchIds |-> HitOn(u, m)]
            payments == [m \in MatchIds |-> paid[<<u, m>>]]
<1>1. \A m \in MatchIds : /\ made[m] \in Nat /\ stakes[m] \in Nat /\ hits[m] \in Nat
                          /\ payments[m] \in Nat
  BY CountsNat
<1>2. IsFiniteSet(MatchIds)
  BY MatchesAssumption
<1>. HIDE DEF made, stakes, hits, payments
<1>3. /\ SumOver(made, MatchIds) \in Nat /\ SumOver(stakes, MatchIds) \in Nat
      /\ SumOver(hits, MatchIds) \in Nat /\ SumOver(payments, MatchIds) \in Nat
  BY <1>1, <1>2, SumOverNat
<1>. QED
  BY <1>3 DEF BetsMade, StakesMade, HitsMade, PaidOut, made, stakes, hits, payments

LEMMA MatchSumsNat ==
    ASSUME MatchesTypeOK, PaidForBets, NEW m \in MatchIds
    PROVE  BetsTaken(m) \in Nat /\ StakesHeld(m) \in Nat
<1>. DEFINE taken == [u \in Users |-> BetOn(u, m)]
            held == [u \in Users |-> HeldFor(u, m)]
<1>1. \A u \in Users : taken[u] \in Nat /\ held[u] \in Nat
  BY CountsNat
<1>2. IsFiniteSet(Users)
  BY MatchesAssumption
<1>. HIDE DEF taken, held
<1>3. SumOver(taken, Users) \in Nat /\ SumOver(held, Users) \in Nat
  BY <1>1, <1>2, SumOverNat
<1>. QED
  BY <1>3 DEF BetsTaken, StakesHeld, taken, held

(* A step that touches the match n only, and the bets on it.               *)
OnlyTouched(n) ==
    \A m \in MatchIds \ {n} :
        /\ matches'[m] = matches[m]
        /\ \A u \in Users : /\ bets'[<<u, m>>] = bets[<<u, m>>]
                            /\ paid'[<<u, m>>] = paid[<<u, m>>]

LEMMA CountsElsewhere ==
    ASSUME NEW n, OnlyTouched(n), NEW m \in MatchIds, m # n, NEW u \in Users
    PROVE  /\ BetOn(u, m)' = BetOn(u, m) /\ StakeOn(u, m)' = StakeOn(u, m)
           /\ HitOn(u, m)' = HitOn(u, m) /\ HeldFor(u, m)' = HeldFor(u, m)
           /\ paid'[<<u, m>>] = paid[<<u, m>>] /\ Status(m)' = Status(m)
           /\ m \in Registered' <=> m \in Registered
BY DEF OnlyTouched, BetOn, StakeOn, HitOn, HeldFor, Decided, Registered, Status

(* A step that touches one match changes a wallet's sums by that match's   *)
(* term.                                                                   *)
LEMMA WalletSumsChange ==
    ASSUME MatchesTypeOK, MatchesTypeOK', PaidForBets, PaidForBets',
           NEW n \in MatchIds, OnlyTouched(n), NEW u \in Users
    PROVE  /\ BetsMade(u)' = BetsMade(u) - BetOn(u, n) + BetOn(u, n)'
           /\ StakesMade(u)' = StakesMade(u) - StakeOn(u, n) + StakeOn(u, n)'
           /\ HitsMade(u)' = HitsMade(u) - HitOn(u, n) + HitOn(u, n)'
           /\ PaidOut(u)' = PaidOut(u) - paid[<<u, n>>] + paid'[<<u, n>>]
<1>. DEFINE made == [m \in MatchIds |-> BetOn(u, m)]
            made2 == [m \in MatchIds |-> BetOn(u, m)']
            stakes == [m \in MatchIds |-> StakeOn(u, m)]
            stakes2 == [m \in MatchIds |-> StakeOn(u, m)']
            hits == [m \in MatchIds |-> HitOn(u, m)]
            hits2 == [m \in MatchIds |-> HitOn(u, m)']
            payments == [m \in MatchIds |-> paid[<<u, m>>]]
            payments2 == [m \in MatchIds |-> paid'[<<u, m>>]]
<1>1. \A m \in MatchIds : /\ made[m] \in Nat /\ stakes[m] \in Nat /\ hits[m] \in Nat
                          /\ payments[m] \in Nat
  BY CountsNat
<1>2. \A m \in MatchIds : /\ made2[m] \in Nat /\ stakes2[m] \in Nat /\ hits2[m] \in Nat
                          /\ payments2[m] \in Nat
  BY CountsNatNext
<1>3. \A m \in MatchIds \ {n} : /\ made[m] = made2[m] /\ stakes[m] = stakes2[m]
                                /\ hits[m] = hits2[m] /\ payments[m] = payments2[m]
  BY CountsElsewhere
<1>4. /\ made[n] = BetOn(u, n) /\ made2[n] = BetOn(u, n)'
      /\ stakes[n] = StakeOn(u, n) /\ stakes2[n] = StakeOn(u, n)'
      /\ hits[n] = HitOn(u, n) /\ hits2[n] = HitOn(u, n)'
      /\ payments[n] = paid[<<u, n>>] /\ payments2[n] = paid'[<<u, n>>]
  OBVIOUS
<1>5. IsFiniteSet(MatchIds)
  BY MatchesAssumption
<1>6. /\ BetsMade(u) = SumOver(made, MatchIds) /\ BetsMade(u)' = SumOver(made2, MatchIds)
      /\ StakesMade(u) = SumOver(stakes, MatchIds)
      /\ StakesMade(u)' = SumOver(stakes2, MatchIds)
      /\ HitsMade(u) = SumOver(hits, MatchIds) /\ HitsMade(u)' = SumOver(hits2, MatchIds)
      /\ PaidOut(u) = SumOver(payments, MatchIds)
      /\ PaidOut(u)' = SumOver(payments2, MatchIds)
  BY DEF BetsMade, StakesMade, HitsMade, PaidOut
<1>. HIDE DEF made, made2, stakes, stakes2, hits, hits2, payments, payments2
<1>7. SumOver(made2, MatchIds) = SumOver(made, MatchIds) - made[n] + made2[n]
  BY <1>1, <1>2, <1>3, <1>5, SumOverChange
<1>8. SumOver(stakes2, MatchIds) = SumOver(stakes, MatchIds) - stakes[n] + stakes2[n]
  BY <1>1, <1>2, <1>3, <1>5, SumOverChange
<1>9. SumOver(hits2, MatchIds) = SumOver(hits, MatchIds) - hits[n] + hits2[n]
  BY <1>1, <1>2, <1>3, <1>5, SumOverChange
<1>10. SumOver(payments2, MatchIds) = SumOver(payments, MatchIds) - payments[n] + payments2[n]
  BY <1>1, <1>2, <1>3, <1>5, SumOverChange
<1>. QED
  BY <1>4, <1>6, <1>7, <1>8, <1>9, <1>10

(* A step that touches one wallet's bet changes the match's sums by that   *)
(* wallet's term.                                                          *)
LEMMA MatchSumsChange ==
    ASSUME MatchesTypeOK, MatchesTypeOK', PaidForBets, PaidForBets', NEW m \in MatchIds,
           Status(m)' = Status(m), NEW u \in Users,
           \A v \in Users \ {u} : bets'[<<v, m>>] = bets[<<v, m>>]
    PROVE  /\ BetsTaken(m)' = BetsTaken(m) - BetOn(u, m) + BetOn(u, m)'
           /\ StakesHeld(m)' = StakesHeld(m) - HeldFor(u, m) + HeldFor(u, m)'
<1>. DEFINE taken == [v \in Users |-> BetOn(v, m)]
            taken2 == [v \in Users |-> BetOn(v, m)']
            held == [v \in Users |-> HeldFor(v, m)]
            held2 == [v \in Users |-> HeldFor(v, m)']
<1>1. \A v \in Users : taken[v] \in Nat /\ held[v] \in Nat
  BY CountsNat
<1>2. \A v \in Users : taken2[v] \in Nat /\ held2[v] \in Nat
  BY CountsNatNext
<1>3. \A v \in Users \ {u} : taken[v] = taken2[v] /\ held[v] = held2[v]
  BY DEF BetOn, HeldFor, StakeOn
<1>4. /\ taken[u] = BetOn(u, m) /\ taken2[u] = BetOn(u, m)'
      /\ held[u] = HeldFor(u, m) /\ held2[u] = HeldFor(u, m)'
  OBVIOUS
<1>5. IsFiniteSet(Users)
  BY MatchesAssumption
<1>6. /\ BetsTaken(m) = SumOver(taken, Users) /\ BetsTaken(m)' = SumOver(taken2, Users)
      /\ StakesHeld(m) = SumOver(held, Users) /\ StakesHeld(m)' = SumOver(held2, Users)
  BY DEF BetsTaken, StakesHeld
<1>. HIDE DEF taken, taken2, held, held2
<1>7. SumOver(taken2, Users) = SumOver(taken, Users) - taken[u] + taken2[u]
  BY <1>1, <1>2, <1>3, <1>5, SumOverChange
<1>8. SumOver(held2, Users) = SumOver(held, Users) - held[u] + held2[u]
  BY <1>1, <1>2, <1>3, <1>5, SumOverChange
<1>. QED
  BY <1>4, <1>6, <1>7, <1>8

(* A match whose bets count for the same.                                  *)
LEMMA MatchSumsStay ==
    ASSUME NEW m, \A u \in Users : BetOn(u, m)' = BetOn(u, m) /\ HeldFor(u, m)' = HeldFor(u, m)
    PROVE  BetsTaken(m)' = BetsTaken(m) /\ StakesHeld(m)' = StakesHeld(m)
BY DEF BetsTaken, StakesHeld

(* A step that touches no match and no bet changes no sum.                 *)
LEMMA WalletSumsStay ==
    ASSUME UNCHANGED <<matches, bets, paid>>, NEW u \in Users
    PROVE  /\ BetsMade(u)' = BetsMade(u) /\ StakesMade(u)' = StakesMade(u)
           /\ HitsMade(u)' = HitsMade(u) /\ PaidOut(u)' = PaidOut(u)
BY DEF BetsMade, StakesMade, HitsMade, PaidOut, BetOn, StakeOn, HitOn, Decided, Registered,
       Status

(* The tables v say what the chain says.                                   *)
StatFollows(v, u) ==
    LET s == v.stats[u]
    IN  /\ s.bets = BetsMade(u) /\ s.staked = StakesMade(u)
        /\ s.points = user_points[u] /\ s.exact = HitsMade(u)
        /\ s.claimed = PaidOut(u) /\ s.prize = PrizePaid(u)
        /\ s.refund <= refunded[u]

StatusFollows(status, m) ==
    /\ Status(m) = "Unresolved" => status \in {"UNRESOLVED", "PROPOSED"}
    /\ Status(m) = "Proposed" => status = "PROPOSED"
    /\ Status(m) = "Finalized" => status = "SETTLED"
    /\ Status(m) = "Cancelled" => status = "CANCELLED"

RowFollows(v, m) ==
    LET r == v.rows[m]
    IN  /\ r # NoRow
        /\ StatusFollows(r.status, m)
        /\ r.count = BetsTaken(m)
        /\ r.pool = StakesHeld(m)

BetFollows(v, u, m) ==
    v.bets[<<u, m>>] = IF bets[<<u, m>>] = NoBet THEN NoRow ELSE bets[<<u, m>>].prediction

Follows(v) ==
    /\ \A u \in Users : Good(u) => StatFollows(v, u)
    /\ \A m \in Registered : RowFollows(v, m)
    /\ \A u \in Users, m \in MatchIds : BetFollows(v, u, m)

(* Tables that follow the chain do so after a step that changes nothing    *)
(* they tell.                                                              *)
LEMMA FrameFollows ==
    ASSUME NEW v, Follows(v), UNCHANGED <<matches, bets, paid, user_points>>,
           MatchesTypeOK, MatchesTypeOK', v \in Tables,
           \A u \in Users : /\ refunded'[u] >= refunded[u] /\ PrizePaid(u)' = PrizePaid(u)
                            /\ Good(u)' => Good(u)
    PROVE  Follows(v)'
<1>1. ASSUME NEW u \in Users, Good(u)'
      PROVE  StatFollows(v, u)'
  <2>1. Good(u) /\ StatFollows(v, u)
    BY <1>1 DEF Follows
  <2>2. /\ BetsMade(u)' = BetsMade(u) /\ StakesMade(u)' = StakesMade(u)
        /\ HitsMade(u)' = HitsMade(u) /\ PaidOut(u)' = PaidOut(u)
    BY WalletSumsStay
  <2>3. refunded[u] \in Nat /\ refunded'[u] \in Nat /\ v.stats[u].refund \in Nat
    BY DEF MatchesTypeOK, Tables, Stats
  <2>4. v.stats[u].refund <= refunded'[u]
    BY <2>1, <2>3 DEF StatFollows
  <2>. QED
    BY <2>1, <2>2, <2>4 DEF StatFollows
<1>2. ASSUME NEW m \in Registered'
      PROVE  RowFollows(v, m)'
  <2>1. m \in Registered /\ RowFollows(v, m)
    BY <1>2 DEF Follows, Registered
  <2>2. BetsTaken(m)' = BetsTaken(m) /\ StakesHeld(m)' = StakesHeld(m) /\ Status(m)' = Status(m)
    BY MatchSumsStay DEF BetOn, HeldFor, StakeOn, Status
  <2>. QED
    BY <2>1, <2>2 DEF RowFollows, StatusFollows
<1>3. \A u \in Users, m \in MatchIds : BetFollows(v, u, m)'
  BY DEF Follows, BetFollows
<1>. QED
  BY <1>1, <1>2, <1>3 DEF Follows

(* A step leaves what the bet of u on n counts for.                        *)
CountsStay(u, n) ==
    /\ BetOn(u, n)' = BetOn(u, n) /\ StakeOn(u, n)' = StakeOn(u, n)
    /\ HitOn(u, n)' = HitOn(u, n) /\ paid'[<<u, n>>] = paid[<<u, n>>]

LEMMA WalletStays ==
    ASSUME NEW n \in MatchIds, OnlyTouched(n), NEW u \in Users, CountsStay(u, n)
    PROVE  /\ BetsMade(u)' = BetsMade(u) /\ StakesMade(u)' = StakesMade(u)
           /\ HitsMade(u)' = HitsMade(u) /\ PaidOut(u)' = PaidOut(u)
<1>1. \A m \in MatchIds : CountsStay(u, m)
  BY CountsElsewhere DEF CountsStay
<1>. QED
  BY <1>1 DEF CountsStay, BetsMade, StakesMade, HitsMade, PaidOut

LEMMA RowElsewhere ==
    ASSUME NEW n, OnlyTouched(n), NEW v, Follows(v), NEW w,
           NEW m \in Registered', m # n, w.rows[m] = v.rows[m]
    PROVE  RowFollows(w, m)'
<1>1. m \in MatchIds
  BY DEF Registered
<1>2. m \in Registered /\ RowFollows(v, m) /\ Status(m)' = Status(m)
  BY <1>1 DEF Follows, OnlyTouched, Registered, Status
<1>3. BetsTaken(m)' = BetsTaken(m) /\ StakesHeld(m)' = StakesHeld(m)
  BY <1>1, CountsElsewhere, MatchSumsStay
<1>. QED
  BY <1>2, <1>3 DEF RowFollows, StatusFollows

\* The wallets' other numbers.
RestStays(u) ==
    /\ user_points'[u] = user_points[u] /\ refunded'[u] = refunded[u]
    /\ PrizePaid(u)' = PrizePaid(u) /\ Good(u)' = Good(u)

(* Only the match n changes, and what the bets on it count for the wallets *)
(* stays.                                                                  *)
LEMMA MatchFollows ==
    ASSUME NEW n \in MatchIds, OnlyTouched(n), NEW v, Follows(v), NEW w,
           \A u \in Users : /\ CountsStay(u, n) /\ RestStays(u)
                            /\ w.stats[u] = v.stats[u]
                            /\ BetFollows(w, u, n)',
           \A m \in MatchIds \ {n} : w.rows[m] = v.rows[m],
           \A u \in Users, m \in MatchIds \ {n} : w.bets[<<u, m>>] = v.bets[<<u, m>>],
           n \in Registered' => RowFollows(w, n)'
    PROVE  Follows(w)'
<1>1. ASSUME NEW u \in Users, Good(u)'
      PROVE  StatFollows(w, u)'
  BY <1>1, WalletStays DEF Follows, StatFollows, RestStays
<1>2. ASSUME NEW m \in Registered'
      PROVE  RowFollows(w, m)'
  BY RowElsewhere DEF Registered
<1>3. ASSUME NEW u \in Users, NEW m \in MatchIds
      PROVE  BetFollows(w, u, m)'
  <2>1. CASE m = n
    BY <2>1
  <2>2. CASE m # n
    BY <2>2 DEF Follows, BetFollows, OnlyTouched
  <2>. QED
    BY <2>1, <2>2
<1>. QED
  BY <1>1, <1>2, <1>3 DEF Follows

(* A step of the chain, and what it has the index do later: the events it  *)
(* emits make the tables say again what the chain says.                    *)
IndexMoves(v) ==
    \/ Quietly /\ Follows(v)'
    \/ \E events \in Seq(Events) :
          Emits(events) /\ IsMessage(events)' /\ Follows(ReplayedAll(v, events))'

(* A handler with one event has done its part if its replay follows the    *)
(* chain.                                                                  *)
LEMMA OneEventMoves ==
    ASSUME NEW v \in Tables, NEW e, IsInformed(e), BonusNotGood(e)', Emits(<<e>>),
           Follows(Replayed(v, e))'
    PROVE  IndexMoves(v)
<1>1. PICK events : events = <<e>>
  OBVIOUS
<1>2. events \in Seq(Events) /\ Len(events) = 1 /\ events[1] = e
  BY <1>1 DEF IsInformed
<1>3. Informs(events)
  BY <1>2 DEF Informs
<1>4. ASSUME NEW i \in 1 .. Len(events)
      PROVE  BonusNotGood(events[i])'
  BY <1>2
<1>5. IsMessage(events)'
  BY <1>3, <1>4 DEF IsMessage
<1>6. ReplayedAll(v, events) = Replayed(v, e)
  BY <1>2 DEF ReplayedAll
<1>7. Follows(ReplayedAll(v, events))'
  BY <1>6
<1>. QED
  BY <1>1, <1>2, <1>5, <1>7 DEF IndexMoves

(* Every event but a bonus says nothing of bonuses. *)
LEMMA NoBonus ==
    ASSUME NEW e, e.method # "PodiumBonusAwarded"
    PROVE  BonusNotGood(e)'
BY DEF BonusNotGood

LEMMA PaidStays ==
    ASSUME PaidForBets, UNCHANGED <<bets, paid>>
    PROVE  PaidForBets'
BY DEF PaidForBets

LEMMA ChainTyped ==
    ASSUME ChainInv
    PROVE  MatchesTypeOK /\ PaidForBets /\ CoreTypeOK /\ MatchesInv
BY DEF ChainInv, TypeInv, MatchesInv

(* A handler that emits nothing and changes nothing that the tables tell.  *)
LEMMA FramedMoves ==
    ASSUME ChainInv, TypeInv', NEW v \in Tables, Follows(v), Quietly,
           UNCHANGED <<matches, bets, paid, user_points>>,
           \A u \in Users : /\ refunded'[u] >= refunded[u] /\ PrizePaid(u)' = PrizePaid(u)
                            /\ Good(u)' => Good(u)
    PROVE  PaidForBets' /\ IndexMoves(v)
<1>1. MatchesTypeOK'
  BY DEF TypeInv, MatchesInv
<1>2. Follows(v)'
  BY <1>1, ChainTyped, FrameFollows
<1>. QED
  BY <1>2, ChainTyped, PaidStays DEF IndexMoves

LEMMA RefundedGrows ==
    ASSUME MatchesTypeOK, NEW u \in Users
    PROVE  /\ refunded[u] \in Nat /\ refunded[u] >= refunded[u]
           /\ \A v \in Users : SendRefund(v) => refunded'[u] >= refunded[u]
<1>1. refunded[u] \in Nat /\ pending_refunds[u] \in Nat
  BY DEF MatchesTypeOK
<1>. QED
  BY <1>1 DEF SendRefund, MatchesTypeOK

LEMMA PrizesStay ==
    ASSUME UNCHANGED coreVars
    PROVE  \A u \in Users : PrizePaid(u)' = PrizePaid(u) /\ Good(u)' = Good(u)
BY DEF coreVars, podiumVars, prizeVars, PrizePaid, Good

(* Steps without an event that leave matches and bets alone.               *)
LEMMA QuietFrames ==
    ASSUME ChainInv, TypeInv', NEW v \in Tables, Follows(v), Quietly,
           UNCHANGED coreVars,
           \/ \E caller, phase, weight : RegisterPhase(caller, phase, weight)
           \/ \E caller : \E u \in Users : AdminPushRefund(caller, u)
           \/ UNCHANGED matchesVars
    PROVE  PaidForBets' /\ IndexMoves(v)
<1>1. UNCHANGED <<matches, bets, paid, user_points>>
  BY DEF RegisterPhase, AdminPushRefund, SendRefund, matchesVars
<1>2. \A u \in Users : refunded'[u] >= refunded[u]
  <2>1. ASSUME NEW u \in Users
        PROVE  refunded'[u] >= refunded[u]
    <3>1. CASE UNCHANGED refunded
      BY <3>1, RefundedGrows, ChainTyped
    <3>2. CASE \E w \in Users : SendRefund(w)
      BY <3>2, RefundedGrows, ChainTyped
    <3>. QED
      BY <3>1, <3>2 DEF RegisterPhase, AdminPushRefund, matchesVars
  <2>. QED
    BY <2>1
<1>. QED
  BY <1>1, <1>2, PrizesStay, FramedMoves

LEMMA PickMoves ==
    ASSUME ChainInv, TypeInv', NEW v \in Tables, Follows(v), Quietly,
           NEW w \in Users, NEW pick, NEW value, SubmitPodiumPick(w, pick, value)
    PROVE  PaidForBets' /\ IndexMoves(v)
<1>1. UNCHANGED <<matches, bets, paid, user_points>> /\ UNCHANGED refunded
      /\ UNCHANGED prizeVars /\ UNCHANGED podium_result
  BY DEF SubmitPodiumPick
<1>2. \A u \in Users : refunded'[u] >= refunded[u]
  BY <1>1, RefundedGrows, ChainTyped
<1>3. \A u \in Users : PrizePaid(u)' = PrizePaid(u)
  BY <1>1 DEF prizeVars, PrizePaid
<1>4. ASSUME NEW u \in Users, Good(u)'
      PROVE  Good(u)
  <2>1. CASE u = w
    <3>1. podium_picks[u] = NoPodium
      BY <2>1 DEF SubmitPodiumPick
    <3>. QED
      BY <3>1 DEF Good, PodiumBonus
  <2>2. CASE u # w
    <3>1. podium_picks'[u] = podium_picks[u]
      BY <2>2, ChainTyped DEF SubmitPodiumPick, CoreTypeOK
    <3>. QED
      BY <1>1, <1>4, <3>1 DEF Good
  <2>. QED
    BY <2>1, <2>2
<1>. QED
  BY <1>1, <1>2, <1>3, <1>4, FramedMoves

LEMMA AllocationMoves ==
    ASSUME ChainInv, TypeInv', NEW v \in Tables, Follows(v), Quietly,
           NEW caller, FinalizeFinalPrizePool(caller)
    PROVE  PaidForBets' /\ IndexMoves(v)
<1>1. UNCHANGED <<matches, bets, paid, user_points>> /\ UNCHANGED refunded
      /\ UNCHANGED podiumVars /\ UNCHANGED final_prize_claimed /\ ~final_prize_finalized
  BY DEF FinalizeFinalPrizePool
<1>2. \A u \in Users : refunded'[u] >= refunded[u]
  BY <1>1, RefundedGrows, ChainTyped
<1>3. \A u \in Users : PrizePaid(u)' = PrizePaid(u)
  BY <1>1 DEF ChainInv, PrizeBooked, PrizePaid
<1>4. \A u \in Users : Good(u)' => Good(u)
  BY <1>1 DEF Good, podiumVars
<1>. QED
  BY <1>1, <1>2, <1>3, <1>4, FramedMoves

(* Events that tell of wallets only.                                       *)
LEMMA WalletEvents ==
    ASSUME NEW v \in Tables, NEW e, e.method \in WalletMethods \ {"BetAccepted"}
    PROVE  /\ \A u \in Users : Replayed(v, e).stats[u]
                  = IF u \in DOMAIN e.amounts THEN StatWith(e, u, v.stats[u]) ELSE v.stats[u]
           /\ \A m \in MatchIds : Replayed(v, e).rows[m] = v.rows[m]
           /\ \A k \in Users \X MatchIds : Replayed(v, e).bets[k] = v.bets[k]
BY DEF Replayed, StatAfter, RowAfter, RowWith, BetAfter, Touches, WalletMethods, UserMethods

(* Events about wallets leave matches and bets to the chain as it was.     *)
LEMMA WalletsFollow ==
    ASSUME NEW v, Follows(v), UNCHANGED <<matches, bets, paid>>, NEW w,
           \A m \in MatchIds : w.rows[m] = v.rows[m],
           \A k \in Users \X MatchIds : w.bets[k] = v.bets[k],
           \A u \in Users : Good(u)' => StatFollows(w, u)'
    PROVE  Follows(w)'
<1>1. ASSUME NEW m \in Registered'
      PROVE  RowFollows(w, m)'
  <2>1. m \in Registered /\ RowFollows(v, m) /\ m \in MatchIds
    BY <1>1 DEF Follows, Registered
  <2>2. BetsTaken(m)' = BetsTaken(m) /\ StakesHeld(m)' = StakesHeld(m) /\ Status(m)' = Status(m)
    BY MatchSumsStay DEF BetOn, HeldFor, StakeOn, Status
  <2>. QED
    BY <2>1, <2>2 DEF RowFollows, StatusFollows
<1>2. \A u \in Users, m \in MatchIds : BetFollows(w, u, m)'
  BY DEF Follows, BetFollows
<1>. QED
  BY <1>1, <1>2 DEF Follows

(* Events about one wallet are informed. *)
LEMMA WalletInformed ==
    ASSUME NEW e, NEW method, NEW m, NEW u \in Users, NEW amount \in Nat,
           e = OfWallet(method, m, u, amount),
           \/ method = "MatchRewardClaimed" /\ m \in MatchIds
           \/ method \in {"FinalPrizeClaimed", "RefundClaimed"} /\ m = NoMatchId
    PROVE  /\ IsInformed(e)
           /\ e.method = method /\ e.match = m /\ e.result = NoResult
           /\ DOMAIN e.amounts = {u} /\ e.amounts[u] = amount
<1>. DEFINE amounts == [v \in {u} |-> amount]
<1>1. e = [method |-> method, match |-> m, result |-> NoResult, amounts |-> amounts]
  BY DEF OfWallet, Event
<1>2. amounts \in UNION {[us -> Nat] : us \in SUBSET Users}
      /\ DOMAIN amounts = {u} /\ amounts[u] = amount
  <2>1. amounts \in [{u} -> Nat] /\ {u} \in SUBSET Users
    OBVIOUS
  <2>. QED
    BY <2>1
<1>. HIDE DEF amounts
<1>3. e \in Events
  BY <1>1, <1>2 DEF Events, Methods, WalletMethods, UserMethods
<1>4. IsInformed(e)
  BY <1>1, <1>3 DEF IsInformed, WalletMethods, UserMethods, MatchMethods
<1>. QED
  BY <1>1, <1>2, <1>4

(* A wallet's row when only points, prize or refund change.                *)
LEMMA FrameWallets ==
    ASSUME UNCHANGED <<matches, bets, paid>>, NEW v, NEW w, NEW u \in Users,
           StatFollows(v, u),
           LET s == v.stats[u]
               t == w.stats[u]
           IN  /\ t.bets = s.bets /\ t.staked = s.staked /\ t.exact = s.exact
               /\ t.claimed = s.claimed,
           w.stats[u].points = user_points'[u],
           w.stats[u].prize = PrizePaid(u)',
           w.stats[u].refund <= refunded'[u]
    PROVE  StatFollows(w, u)'
BY WalletSumsStay DEF StatFollows

(* claim_refund.                                                           *)
LEMMA RefundMoves ==
    ASSUME ChainInv, TypeInv', NEW v \in Tables, Follows(v), UNCHANGED coreVars,
           NEW n \in Users, ClaimRefund(n),
           Emits(<<OfWallet("RefundClaimed", NoMatchId, n, pending_refunds[n])>>)
    PROVE  PaidForBets' /\ IndexMoves(v)
<1>1. PICK amount : amount = pending_refunds[n]
  OBVIOUS
<1>2. PICK e : e = OfWallet("RefundClaimed", NoMatchId, n, amount)
  OBVIOUS
<1>3. /\ UNCHANGED <<matches, bets, paid>> /\ UNCHANGED user_points
      /\ refunded' = [refunded EXCEPT ![n] = @ + amount]
  BY <1>1 DEF ClaimRefund, SendRefund
<1>4. amount \in Nat /\ refunded \in [Users -> Nat] /\ v.stats \in [Users -> Stats]
  BY <1>1, ChainTyped DEF MatchesTypeOK, Tables
<1>5. /\ IsInformed(e) /\ e.method = "RefundClaimed"
      /\ DOMAIN e.amounts = {n} /\ e.amounts[n] = amount
  BY <1>2, <1>4, WalletInformed
<1>6. PICK w : w = Replayed(v, e)
  OBVIOUS
<1>7. /\ \A u \in Users : w.stats[u]
             = IF u = n THEN StatWith(e, n, v.stats[n]) ELSE v.stats[u]
      /\ \A m \in MatchIds : w.rows[m] = v.rows[m]
      /\ \A k \in Users \X MatchIds : w.bets[k] = v.bets[k]
  BY <1>5, <1>6, WalletEvents DEF WalletMethods, UserMethods
<1>8. StatWith(e, n, v.stats[n]) = [v.stats[n] EXCEPT !.refund = @ + amount]
  BY <1>5 DEF StatWith
<1>9. ASSUME NEW u \in Users, Good(u)'
      PROVE  StatFollows(w, u)'
  <2>1. StatFollows(v, u) /\ PrizePaid(u)' = PrizePaid(u)
    BY <1>9, PrizesStay DEF Follows
  <2>2. v.stats[u] \in Stats
    BY <1>4
  <2>3. /\ v.stats[u].refund \in Nat /\ refunded[u] \in Nat
        /\ v.stats[u].refund <= refunded[u]
        /\ v.stats[u].points = user_points[u] /\ v.stats[u].prize = PrizePaid(u)
    BY <1>4, <2>1, <2>2 DEF StatFollows, Stats
  <2>4. CASE u = n
    <3>1. w.stats[u] = [v.stats[u] EXCEPT !.refund = @ + amount]
      BY <1>7, <1>8, <2>4
    <3>2. /\ w.stats[u].refund = v.stats[u].refund + amount
          /\ w.stats[u].bets = v.stats[u].bets /\ w.stats[u].staked = v.stats[u].staked
          /\ w.stats[u].exact = v.stats[u].exact /\ w.stats[u].claimed = v.stats[u].claimed
          /\ w.stats[u].points = v.stats[u].points /\ w.stats[u].prize = v.stats[u].prize
      BY <2>2, <3>1 DEF Stats
    <3>3. refunded'[u] = refunded[u] + amount
      BY <1>3, <1>4, <2>4
    <3>4. w.stats[u].refund <= refunded'[u]
      BY <1>4, <2>3, <3>2, <3>3
    <3>. QED
      BY <1>3, <2>1, <2>3, <3>2, <3>4, FrameWallets
  <2>5. CASE u # n
    <3>1. w.stats[u] = v.stats[u] /\ refunded'[u] = refunded[u]
      BY <1>3, <1>4, <1>7, <2>5
    <3>. QED
      BY <1>3, <2>1, <2>3, <3>1, FrameWallets
  <2>. QED
    BY <2>4, <2>5
<1>10. Follows(w)'
  BY <1>3, <1>7, <1>9, WalletsFollow
<1>11. Emits(<<e>>)
  BY <1>1, <1>2
<1>12. IndexMoves(v)
  <2>1. Follows(Replayed(v, e))'
    BY <1>6, <1>10
  <2>. QED
    BY <1>5, <1>11, <2>1, NoBonus, OneEventMoves
<1>. QED
  BY <1>3, <1>12, ChainTyped, PaidStays

(* claim_final_prize.                                                      *)
LEMMA PrizeMoves ==
    ASSUME ChainInv, TypeInv', NEW v \in Tables, Follows(v),
           NEW n \in Users, ClaimFinalPrize(n),
           Emits(<<OfWallet("FinalPrizeClaimed", NoMatchId, n, final_prize_allocations[n])>>)
    PROVE  PaidForBets' /\ IndexMoves(v)
<1>1. PICK amount : amount = final_prize_allocations[n]
  OBVIOUS
<1>2. PICK e : e = OfWallet("FinalPrizeClaimed", NoMatchId, n, amount)
  OBVIOUS
<1>3. /\ UNCHANGED <<matches, bets, paid>> /\ UNCHANGED user_points /\ UNCHANGED refunded
      /\ UNCHANGED podiumVars /\ UNCHANGED final_prize_allocations
      /\ ~final_prize_claimed[n]
      /\ final_prize_claimed' = [final_prize_claimed EXCEPT ![n] = TRUE]
  BY <1>1 DEF ClaimFinalPrize
<1>4. /\ amount \in Nat /\ refunded \in [Users -> Nat] /\ v.stats \in [Users -> Stats]
      /\ final_prize_claimed \in [Users -> BOOLEAN]
  BY <1>1, ChainTyped DEF MatchesTypeOK, CoreTypeOK, Tables
<1>5. /\ IsInformed(e) /\ e.method = "FinalPrizeClaimed"
      /\ DOMAIN e.amounts = {n} /\ e.amounts[n] = amount
  BY <1>2, <1>4, WalletInformed
<1>6. PICK w : w = Replayed(v, e)
  OBVIOUS
<1>7. /\ \A u \in Users : w.stats[u]
             = IF u = n THEN StatWith(e, n, v.stats[n]) ELSE v.stats[u]
      /\ \A m \in MatchIds : w.rows[m] = v.rows[m]
      /\ \A k \in Users \X MatchIds : w.bets[k] = v.bets[k]
  BY <1>5, <1>6, WalletEvents DEF WalletMethods, UserMethods
<1>8. StatWith(e, n, v.stats[n]) = [v.stats[n] EXCEPT !.prize = @ + amount]
  BY <1>5 DEF StatWith
<1>9. ASSUME NEW u \in Users, Good(u)'
      PROVE  StatFollows(w, u)'
  <2>1. StatFollows(v, u)
    BY <1>3, <1>9 DEF Follows, Good, podiumVars
  <2>2. v.stats[u] \in Stats
    BY <1>4
  <2>3. /\ v.stats[u].refund <= refunded[u]
        /\ v.stats[u].points = user_points[u] /\ v.stats[u].prize = PrizePaid(u)
    BY <2>1 DEF StatFollows
  <2>4. CASE u = n
    <3>1. w.stats[u] = [v.stats[u] EXCEPT !.prize = @ + amount]
      BY <1>7, <1>8, <2>4
    <3>2. /\ w.stats[u].prize = v.stats[u].prize + amount
          /\ w.stats[u].bets = v.stats[u].bets /\ w.stats[u].staked = v.stats[u].staked
          /\ w.stats[u].exact = v.stats[u].exact /\ w.stats[u].claimed = v.stats[u].claimed
          /\ w.stats[u].points = v.stats[u].points /\ w.stats[u].refund = v.stats[u].refund
      BY <2>2, <3>1 DEF Stats
    <3>3. PrizePaid(u) = 0
      BY <1>3, <2>4 DEF PrizePaid
    <3>4. PrizePaid(u)' = amount
      BY <1>1, <1>3, <1>4, <2>4 DEF PrizePaid
    <3>5. w.stats[u].prize = PrizePaid(u)'
      BY <1>4, <2>3, <3>2, <3>3, <3>4
    <3>. QED
      BY <1>3, <2>1, <2>3, <3>2, <3>5, FrameWallets
  <2>5. CASE u # n
    <3>1. w.stats[u] = v.stats[u] /\ PrizePaid(u)' = PrizePaid(u)
      BY <1>3, <1>4, <1>7, <2>5 DEF PrizePaid
    <3>. QED
      BY <1>3, <2>1, <2>3, <3>1, FrameWallets
  <2>. QED
    BY <2>4, <2>5
<1>10. Follows(w)'
  BY <1>3, <1>7, <1>9, WalletsFollow
<1>11. Emits(<<e>>)
  BY <1>1, <1>2
<1>12. IndexMoves(v)
  <2>1. Follows(Replayed(v, e))'
    BY <1>6, <1>10
  <2>. QED
    BY <1>5, <1>11, <2>1, NoBonus, OneEventMoves
<1>. QED
  BY <1>3, <1>12, ChainTyped, PaidStays

(* Events about several wallets are informed. *)
LEMMA WalletsInformed ==
    ASSUME NEW method \in {"PointsAwarded", "PodiumBonusAwarded"},
           NEW m \in MatchIds \cup {NoMatchId}, NEW amount \in [Users -> Nat],
           method = "PointsAwarded" => m \in MatchIds,
           NEW e, e = OfWallets(method, m, amount)
    PROVE  /\ IsInformed(e)
           /\ e.method = method /\ e.match = m /\ e.result = NoResult
           /\ DOMAIN e.amounts = {u \in Users : amount[u] > 0}
           /\ \A u \in DOMAIN e.amounts : e.amounts[u] = amount[u]
<1>. DEFINE us == {u \in Users : amount[u] > 0}
            amounts == [u \in us |-> amount[u]]
<1>1. e = [method |-> method, match |-> m, result |-> NoResult, amounts |-> amounts]
  BY DEF OfWallets, Event
<1>2. /\ amounts \in UNION {[vs -> Nat] : vs \in SUBSET Users}
      /\ DOMAIN amounts = us /\ \A u \in us : amounts[u] = amount[u]
  <2>1. amounts \in [us -> Nat] /\ us \in SUBSET Users
    OBVIOUS
  <2>. HIDE DEF us
  <2>. QED
    BY <2>1
<1>. HIDE DEF amounts, us
<1>3. e \in Events
  BY <1>1, <1>2 DEF Events, Methods
<1>4. IsInformed(e)
  BY <1>1, <1>3 DEF IsInformed, MatchMethods
<1>. QED
  BY <1>1, <1>2, <1>4 DEF us

(* finalize_podium: its bonuses reach only wallets that are left out from  *)
(* here on.                                                                *)
LEMMA PodiumMoves ==
    ASSUME ChainInv, TypeInv', NEW v \in Tables, Follows(v),
           NEW caller, NEW podium, FinalizePodium(caller, podium),
           LET bonus == [u \in Users |-> PodiumBonus(podium_picks[u], podium)]
           IN  Emits(<<OfWallets("PodiumBonusAwarded", NoMatchId, bonus)>>)
    PROVE  PaidForBets' /\ IndexMoves(v)
<1>1. PICK bonus : bonus = [u \in Users |-> PodiumBonus(podium_picks[u], podium)]
  OBVIOUS
<1>2. PICK e : e = OfWallets("PodiumBonusAwarded", NoMatchId, bonus)
  OBVIOUS
<1>3. /\ UNCHANGED <<matches, bets, paid>> /\ UNCHANGED refunded
      /\ UNCHANGED prizeVars /\ UNCHANGED podium_picks
      /\ podium_result = NoPodium /\ podium_result' = podium
      /\ user_points' = [u \in Users |->
                             user_points[u] + PodiumBonus(podium_picks[u], podium)]
  BY DEF FinalizePodium
<1>4. bonus \in [Users -> Nat]
  BY <1>1, BonusNat
<1>5. /\ IsInformed(e) /\ e.method = "PodiumBonusAwarded"
      /\ DOMAIN e.amounts = {u \in Users : bonus[u] > 0}
  BY <1>2, <1>4, WalletsInformed
<1>6. \A u \in Users : Good(u)' <=> bonus[u] = 0
  BY <1>1, <1>3 DEF Good
<1>7. BonusNotGood(e)'
  <2>1. ASSUME NEW u \in DOMAIN e.amounts
        PROVE  ~Good(u)'
    <3>1. u \in Users /\ bonus[u] > 0 /\ bonus[u] \in Nat
      BY <1>4, <1>5, <2>1
    <3>2. bonus[u] # 0
      BY <3>1
    <3>. QED
      BY <1>6, <3>1, <3>2
  <2>. QED
    BY <2>1 DEF BonusNotGood
<1>8. PICK w : w = Replayed(v, e)
  OBVIOUS
<1>9. /\ \A u \in Users : w.stats[u]
             = IF u \in DOMAIN e.amounts THEN StatWith(e, u, v.stats[u]) ELSE v.stats[u]
      /\ \A m \in MatchIds : w.rows[m] = v.rows[m]
      /\ \A k \in Users \X MatchIds : w.bets[k] = v.bets[k]
  BY <1>5, <1>8, WalletEvents DEF WalletMethods, UserMethods
<1>10. ASSUME NEW u \in Users, Good(u)'
       PROVE  StatFollows(w, u)'
  <2>1. bonus[u] = 0 /\ u \notin DOMAIN e.amounts
    BY <1>5, <1>6, <1>10
  <2>2. Good(u)
    BY <1>3 DEF Good, PodiumBonus
  <2>3. StatFollows(v, u) /\ PrizePaid(u)' = PrizePaid(u) /\ w.stats[u] = v.stats[u]
    BY <1>3, <1>9, <2>1, <2>2 DEF Follows, PrizePaid, prizeVars
  <2>4. user_points'[u] = user_points[u]
    <3>1. user_points[u] \in Nat
      BY ChainTyped DEF MatchesTypeOK
    <3>2. user_points'[u] = user_points[u] + bonus[u]
      BY <1>1, <1>3
    <3>. QED
      BY <2>1, <3>1, <3>2
  <2>. QED
    BY <1>3, <2>3, <2>4, FrameWallets DEF StatFollows
<1>11. Follows(w)'
  BY <1>3, <1>9, <1>10, WalletsFollow
<1>12. Emits(<<e>>)
  BY <1>1, <1>2
<1>13. IndexMoves(v)
  <2>1. Follows(Replayed(v, e))'
    BY <1>8, <1>11
  <2>. QED
    BY <1>5, <1>7, <1>12, <2>1, OneEventMoves
<1>. QED
  BY <1>3, <1>13, ChainTyped, PaidStays

(* Events that tell of a match only.                                       *)
RowMethods == {"MatchRegistered", "ResultProposed", "SettlementPrepared", "MatchCancelled"}

(* An event about the status of a match changes that row alone.            *)
LEMMA RowEvents ==
    ASSUME NEW v \in Tables, NEW e, e.method \in RowMethods, e.match \in MatchIds
    PROVE  /\ \A u \in Users : Replayed(v, e).stats[u] = v.stats[u]
           /\ \A m \in MatchIds \ {e.match} : Replayed(v, e).rows[m] = v.rows[m]
           /\ Replayed(v, e).rows[e.match] = RowAfter(v, e, e.match)
           /\ \A k \in Users \X MatchIds : Replayed(v, e).bets[k] = v.bets[k]
BY DEF Replayed, StatAfter, RowAfter, BetAfter, Touches, WalletMethods, UserMethods, RowMethods

LEMMA RowInformed ==
    ASSUME NEW method \in RowMethods, NEW m \in MatchIds, NEW r \in Predictions \cup {NoResult},
           NEW e, e = OfResult(method, m, r)
    PROVE  /\ IsInformed(e)
           /\ e.method = method /\ e.match = m
<1>. DEFINE none == <<>>
<1>1. e = [method |-> method, match |-> m, result |-> r, amounts |-> none]
  BY DEF OfResult, Event
<1>2. none \in UNION {[us -> Nat] : us \in SUBSET Users}
  <2>1. none = [u \in {} |-> 0] /\ {} \in SUBSET Users
    OBVIOUS
  <2>2. none \in [{} -> Nat]
    BY <2>1
  <2>. QED
    BY <2>1, <2>2
<1>. HIDE DEF none
<1>3. e \in Events
  BY <1>1, <1>2 DEF Events, Methods, RowMethods
<1>. QED
  BY <1>1, <1>3 DEF IsInformed, RowMethods, MatchMethods

(* The wallets' numbers that a step on matches alone leaves.               *)
LEMMA OthersKeep ==
    ASSUME UNCHANGED coreVars, UNCHANGED user_points, UNCHANGED refunded
    PROVE  \A u \in Users : RestStays(u)
BY PrizesStay DEF RestStays

(* A step on the match n alone, without an event.                          *)
LEMMA QuietMatch ==
    ASSUME ChainInv, NEW v \in Tables, Follows(v), Quietly,
           UNCHANGED coreVars, UNCHANGED <<user_points, refunded, bets, paid>>,
           NEW n \in MatchIds, OnlyTouched(n),
           \A u \in Users : CountsStay(u, n),
           n \in Registered' => RowFollows(v, n)'
    PROVE  PaidForBets' /\ IndexMoves(v)
<1>1. \A u \in Users : BetFollows(v, u, n)'
  BY DEF Follows, BetFollows
<1>2. \A u \in Users : RestStays(u)
  BY OthersKeep
<1>3. Follows(v)'
  BY <1>1, <1>2, MatchFollows
<1>. QED
  BY <1>3, ChainTyped, PaidStays DEF IndexMoves

(* A handler that sets one match touches only that one.                    *)
LEMMA OneMatchSet ==
    ASSUME MatchesTypeOK, NEW n \in MatchIds, NEW new,
           matches' = [matches EXCEPT ![n] = new],
           UNCHANGED paid,
           \A u \in Users, m \in MatchIds \ {n} : bets'[<<u, m>>] = bets[<<u, m>>]
    PROVE  OnlyTouched(n) /\ matches'[n] = new
BY DEF OnlyTouched, MatchesTypeOK

(* Bets on a match that is not decided hit nothing. *)
LEMMA NoHits ==
    ASSUME NEW n, NEW u, ~Decided(n), ~Decided(n)',
           BetOn(u, n)' = BetOn(u, n), StakeOn(u, n)' = StakeOn(u, n),
           paid'[<<u, n>>] = paid[<<u, n>>]
    PROVE  CountsStay(u, n)
BY DEF CountsStay, HitOn

(* The row of a match whose status alone the event tells.                  *)
LEMMA RowSet ==
    ASSUME NEW v \in Tables, NEW n \in MatchIds, RowFollows(v, n), NEW w, NEW status,
           w.rows[n] = [v.rows[n] EXCEPT !.status = status],
           status \in {"PROPOSED", "FINALIZED", "SETTLED"},
           StatusFollows(status, n)',
           BetsTaken(n)' = BetsTaken(n), StakesHeld(n)' = StakesHeld(n)
    PROVE  RowFollows(w, n)'
<1>1. v.rows[n] \in Rows
  BY DEF Tables, RowFollows
<1>2. /\ w.rows[n] \in Rows /\ w.rows[n].status = status
      /\ w.rows[n].count = v.rows[n].count /\ w.rows[n].pool = v.rows[n].pool
  BY <1>1 DEF Rows
<1>3. w.rows[n] # NoRow
  BY <1>2, IndexerAssumption
<1>. QED
  BY <1>2, <1>3 DEF RowFollows

(* cancel_proposed_result, of which the index hears nothing.               *)
LEMMA WithdrawnMoves ==
    ASSUME ChainInv, TypeInv', NEW v \in Tables, Follows(v), Quietly,
           UNCHANGED coreVars, NEW n \in MatchIds, NEW caller, CancelProposedResult(caller, n)
    PROVE  PaidForBets' /\ IndexMoves(v)
<1>. DEFINE new == [matches[n] EXCEPT !.result = Unresolved]
<1>1. /\ matches' = [matches EXCEPT ![n] = new] /\ n \in Registered
      /\ UNCHANGED <<user_points, refunded, bets, paid>> /\ Status(n) = "Proposed"
  BY DEF CancelProposedResult
<1>2. OnlyTouched(n) /\ matches'[n] = new
  BY <1>1, ChainTyped, OneMatchSet
<1>3. Status(n)' = "Unresolved"
  <2>1. matches[n] \in Matches
    BY <1>1, ChainTyped, MatchTyped
  <2>. QED
    BY <1>2, <2>1 DEF Status, Matches, Unresolved
<1>4. \A u \in Users : CountsStay(u, n)
  BY <1>1, <1>3, NoHits DEF Decided, BetOn, StakeOn
<1>5. RowFollows(v, n)'
  <2>1. BetsTaken(n)' = BetsTaken(n) /\ StakesHeld(n)' = StakesHeld(n)
    BY <1>1, <1>3, MatchSumsStay DEF BetOn, HeldFor, StakeOn
  <2>2. RowFollows(v, n)
    BY <1>1 DEF Follows
  <2>. QED
    BY <1>1, <1>3, <2>1, <2>2 DEF RowFollows, StatusFollows
<1>. QED
  BY <1>1, <1>2, <1>4, <1>5, QuietMatch

(* sweep_match_dust_to_final_prize, of which the index hears nothing.      *)
LEMMA SweptMoves ==
    ASSUME ChainInv, TypeInv', NEW v \in Tables, Follows(v), Quietly,
           UNCHANGED coreVars, NEW n \in MatchIds, SweepMatchDust(n)
    PROVE  PaidForBets' /\ IndexMoves(v)
<1>. DEFINE new == [matches[n] EXCEPT !.match_prize_pool = 0, !.dust_swept = TRUE]
<1>1. /\ matches' = [matches EXCEPT ![n] = new] /\ n \in Registered
      /\ UNCHANGED <<user_points, refunded, bets, paid>>
  BY DEF SweepMatchDust
<1>2. OnlyTouched(n) /\ matches'[n] = new
  BY <1>1, ChainTyped, OneMatchSet
<1>3. matches'[n].result = matches[n].result /\ n \in Registered'
  <2>1. matches[n] \in Matches
    BY <1>1, ChainTyped, MatchTyped
  <2>2. new \in Matches /\ new.result = matches[n].result
    BY <2>1 DEF Matches
  <2>. QED
    BY <1>2, <2>2, MarkerAssumption DEF Registered
<1>4. \A u \in Users : CountsStay(u, n) /\ HeldFor(u, n)' = HeldFor(u, n)
  BY <1>1, <1>3 DEF CountsStay, Decided, BetOn, StakeOn, HitOn, HeldFor, Status
<1>5. RowFollows(v, n)'
  <2>1. BetsTaken(n)' = BetsTaken(n) /\ StakesHeld(n)' = StakesHeld(n)
    BY <1>4, MatchSumsStay DEF CountsStay
  <2>2. RowFollows(v, n)
    BY <1>1 DEF Follows
  <2>. QED
    BY <1>3, <2>1, <2>2 DEF RowFollows, StatusFollows, Status
<1>. QED
  BY <1>1, <1>2, <1>4, <1>5, QuietMatch

(* A step on the match n alone, with an event that tells of it.            *)
LEMMA TellsOfMatch ==
    ASSUME PaidForBets', NEW v \in Tables, Follows(v),
           UNCHANGED coreVars, UNCHANGED <<user_points, refunded>>,
           NEW n \in MatchIds, OnlyTouched(n),
           \A u \in Users : CountsStay(u, n),
           \A u \in Users : /\ bets'[<<u, n>>] = NoBet <=> bets[<<u, n>>] = NoBet
                            /\ bets'[<<u, n>>].prediction = bets[<<u, n>>].prediction,
           NEW e, IsInformed(e), e.method \in RowMethods, e.match = n, Emits(<<e>>),
           NEW w, w = Replayed(v, e), n \in Registered' => RowFollows(w, n)'
    PROVE  PaidForBets' /\ IndexMoves(v)
<1>1. /\ \A u \in Users : w.stats[u] = v.stats[u]
      /\ \A m \in MatchIds \ {n} : w.rows[m] = v.rows[m]
      /\ \A k \in Users \X MatchIds : w.bets[k] = v.bets[k]
  BY RowEvents
<1>2. \A u \in Users : BetFollows(w, u, n)'
  BY <1>1 DEF Follows, BetFollows
<1>3. \A u \in Users : RestStays(u)
  BY OthersKeep
<1>4. Follows(w)'
  BY <1>1, <1>2, <1>3, MatchFollows
<1>5. Follows(Replayed(v, e))'
  BY <1>4
<1>6. BonusNotGood(e)'
  BY NoBonus DEF RowMethods
<1>. QED
  BY <1>5, <1>6, OneEventMoves

(* propose_result.                                                         *)
LEMMA ProposedMoves ==
    ASSUME ChainInv, TypeInv', NEW v \in Tables, Follows(v), UNCHANGED coreVars,
           NEW n \in MatchIds, NEW oracle, NEW r \in Reports, ProposeResult(oracle, n, r),
           Emits(<<OfResult("ResultProposed", n, r)>>)
    PROVE  PaidForBets' /\ IndexMoves(v)
<1>. DEFINE new == [matches[n] EXCEPT !.result = Proposed(r, now)]
<1>1. /\ matches' = [matches EXCEPT ![n] = new] /\ n \in Registered
      /\ UNCHANGED <<user_points, refunded, bets, paid>> /\ Status(n) = "Unresolved"
  BY DEF ProposeResult
<1>2. OnlyTouched(n) /\ matches'[n] = new
  BY <1>1, ChainTyped, OneMatchSet
<1>3. Status(n)' = "Proposed"
  <2>1. matches[n] \in Matches
    BY <1>1, ChainTyped, MatchTyped
  <2>. QED
    BY <1>2, <2>1 DEF Status, Matches, Proposed
<1>4. \A u \in Users : CountsStay(u, n)
  BY <1>1, <1>3, NoHits DEF Decided, BetOn, StakeOn
<1>5. PICK e : e = OfResult("ResultProposed", n, r)
  OBVIOUS
<1>6. IsInformed(e) /\ e.method = "ResultProposed" /\ e.match = n
  BY <1>5, RowInformed, MatchesAssumption DEF RowMethods
<1>7. PICK w : w = Replayed(v, e)
  OBVIOUS
<1>8. RowFollows(w, n)'
  <2>1. BetsTaken(n)' = BetsTaken(n) /\ StakesHeld(n)' = StakesHeld(n)
    BY <1>1, <1>3, MatchSumsStay DEF BetOn, HeldFor, StakeOn
  <2>2. RowFollows(v, n)
    BY <1>1 DEF Follows
  <2>3. w.rows[n] = [v.rows[n] EXCEPT !.status = "PROPOSED"]
    <3>1. w.rows[n] = RowAfter(v, e, n)
      BY <1>6, <1>7, RowEvents DEF RowMethods
    <3>. QED
      BY <1>6, <2>2, <3>1 DEF RowAfter, RowWith, RowFollows
  <2>4. StatusFollows("PROPOSED", n)'
    BY <1>3 DEF StatusFollows
  <2>. QED
    BY <2>1, <2>2, <2>3, <2>4, RowSet
<1>9. PaidForBets'
  BY <1>1, ChainTyped, PaidStays
<1>10. \A u \in Users : /\ bets'[<<u, n>>] = NoBet <=> bets[<<u, n>>] = NoBet
                        /\ bets'[<<u, n>>].prediction = bets[<<u, n>>].prediction
  BY <1>1
<1>11. Emits(<<e>>)
  BY <1>5
<1>12. e.method \in RowMethods
  BY <1>6 DEF RowMethods
<1>. QED
  BY <1>1, <1>2, <1>4, <1>6, <1>7, <1>8, <1>9, <1>10, <1>11, <1>12, TellsOfMatch

(* register_match.                                                         *)
LEMMA RegisteredMoves ==
    ASSUME ChainInv, TypeInv', NEW v \in Tables, Follows(v), UNCHANGED coreVars,
           NEW caller, NEW phase, NEW kickOff, RegisterMatch(caller, phase, kickOff),
           Emits(<<OfMatch("MatchRegistered", next_match_id')>>)
    PROVE  PaidForBets' /\ IndexMoves(v)
<1>1. PICK n : n = next_match_id + 1
  OBVIOUS
<1>. DEFINE new == NewMatch(phase, kickOff)
<1>2. /\ n \in MatchIds /\ next_match_id' = n
      /\ matches' = [matches EXCEPT ![n] = new]
      /\ UNCHANGED <<user_points, refunded, bets, paid>>
  BY <1>1 DEF RegisterMatch
<1>3. OnlyTouched(n) /\ matches'[n] = new
  BY <1>2, ChainTyped, OneMatchSet
<1>4. n \notin Registered
  <2>1. next_match_id \in Nat
    BY ChainTyped DEF MatchesTypeOK
  <2>2. Registered \subseteq Nat
    BY MatchesAssumption DEF Registered
  <2>. QED
    BY <1>1, <2>1, <2>2, ChainTyped DEF MatchesInv, IdsAreAssigned
<1>5. \A u \in Users : bets[<<u, n>>] = NoBet /\ bets'[<<u, n>>] = NoBet
  BY <1>2, <1>4 DEF ChainInv, PoolsInv
<1>6. Status(n)' = "Unresolved"
  BY <1>3 DEF Status, NewMatch, Unresolved
<1>7. \A u \in Users : CountsStay(u, n) /\ BetOn(u, n)' = 0 /\ HeldFor(u, n)' = 0
  BY <1>2, <1>5 DEF CountsStay, BetOn, StakeOn, HitOn, HeldFor
<1>8. PICK e : e = OfResult("MatchRegistered", n, NoResult)
  OBVIOUS
<1>9. IsInformed(e) /\ e.method = "MatchRegistered" /\ e.match = n
  BY <1>2, <1>8, RowInformed DEF RowMethods
<1>10. PICK w : w = Replayed(v, e)
  OBVIOUS
<1>11. RowFollows(w, n)'
  <2>. DEFINE taken == [u \in Users |-> BetOn(u, n)']
              held == [u \in Users |-> HeldFor(u, n)']
  <2>1. \A u \in Users : taken[u] = 0 /\ held[u] = 0
    BY <1>7
  <2>2. BetsTaken(n)' = SumOver(taken, Users) /\ StakesHeld(n)' = SumOver(held, Users)
    BY DEF BetsTaken, StakesHeld
  <2>. HIDE DEF taken, held
  <2>3. BetsTaken(n)' = 0 /\ StakesHeld(n)' = 0
    BY <2>1, <2>2, SumOverZero, MatchesAssumption
  <2>4. w.rows[n] = NewRow
    <3>1. w.rows[n] = RowAfter(v, e, n)
      BY <1>2, <1>9, <1>10, RowEvents DEF RowMethods
    <3>. QED
      BY <1>9, <3>1 DEF RowAfter
  <2>5. NewRow # NoRow
    BY IndexerAssumption DEF NewRow, Rows
  <2>. QED
    BY <1>6, <2>3, <2>4, <2>5 DEF RowFollows, StatusFollows, NewRow
<1>12. PaidForBets'
  BY <1>2, ChainTyped, PaidStays
<1>13. \A u \in Users : /\ bets'[<<u, n>>] = NoBet <=> bets[<<u, n>>] = NoBet
                        /\ bets'[<<u, n>>].prediction = bets[<<u, n>>].prediction
  BY <1>2
<1>14. Emits(<<e>>)
  BY <1>2, <1>8 DEF OfMatch, OfResult
<1>15. e.method \in RowMethods
  BY <1>9 DEF RowMethods
<1>. QED
  BY <1>2, <1>3, <1>7, <1>9, <1>10, <1>11, <1>12, <1>13, <1>14, <1>15, TellsOfMatch

\* What cancel_match makes of the bets on n.
BetsVoided(n) ==
    bets' = [k \in Users \X MatchIds |->
                IF k[2] = n /\ k[1] \in Refundable(n)
                THEN [bets[k] EXCEPT !.claimed = TRUE] ELSE bets[k]]

(* A cancellation closes the bets that may be refunded, and changes no     *)
(* other bet.                                                              *)
LEMMA VoidedBets ==
    ASSUME MatchesTypeOK, NEW n \in MatchIds, BetsVoided(n)
    PROVE  /\ \A u \in Users, m \in MatchIds \ {n} : bets'[<<u, m>>] = bets[<<u, m>>]
           /\ \A u \in Users :
                 /\ bets'[<<u, n>>] = NoBet <=> bets[<<u, n>>] = NoBet
                 /\ bets[<<u, n>>] # NoBet =>
                       /\ bets'[<<u, n>>].stake_in_match_pool = bets[<<u, n>>].stake_in_match_pool
                       /\ bets'[<<u, n>>].freebet_principal = bets[<<u, n>>].freebet_principal
                 /\ bets'[<<u, n>>].prediction = bets[<<u, n>>].prediction
                 /\ u \in Refundable(n) => bets'[<<u, n>>].claimed
                 /\ u \notin Refundable(n) => bets'[<<u, n>>] = bets[<<u, n>>]
<1>1. ASSUME NEW u \in Users, NEW m \in MatchIds
      PROVE  bets'[<<u, m>>] = IF m = n /\ u \in Refundable(n)
                               THEN [bets[<<u, m>>] EXCEPT !.claimed = TRUE] ELSE bets[<<u, m>>]
  BY DEF BetsVoided
<1>2. \A u \in Users, m \in MatchIds \ {n} : bets'[<<u, m>>] = bets[<<u, m>>]
  BY <1>1
<1>3. ASSUME NEW u \in Users, u \notin Refundable(n)
      PROVE  bets'[<<u, n>>] = bets[<<u, n>>]
  BY <1>1, <1>3
<1>4. ASSUME NEW u \in Users, u \in Refundable(n)
      PROVE  /\ bets'[<<u, n>>] # NoBet /\ bets[<<u, n>>] # NoBet
             /\ bets'[<<u, n>>].stake_in_match_pool = bets[<<u, n>>].stake_in_match_pool
             /\ bets'[<<u, n>>].freebet_principal = bets[<<u, n>>].freebet_principal
             /\ bets'[<<u, n>>].prediction = bets[<<u, n>>].prediction
             /\ bets'[<<u, n>>].claimed
  <2>1. bets[<<u, n>>] # NoBet /\ bets[<<u, n>>] \in Bets
    BY <1>4, BettorsBet DEF Refundable, Bettors
  <2>2. bets'[<<u, n>>] = [bets[<<u, n>>] EXCEPT !.claimed = TRUE]
    BY <1>1, <1>4
  <2>3. bets'[<<u, n>>] \in Bets
    BY <2>1, <2>2 DEF Bets
  <2>4. bets'[<<u, n>>] # NoBet
    BY <2>3, MarkerAssumption
  <2>. QED
    BY <2>1, <2>2, <2>4 DEF Bets
<1>. QED
  BY <1>2, <1>3, <1>4

(* cancel_match.                                                           *)
LEMMA CancelledMoves ==
    ASSUME ChainInv, TypeInv', NEW v \in Tables, Follows(v), UNCHANGED coreVars,
           NEW n \in MatchIds, NEW caller, CancelMatch(caller, n),
           Emits(<<OfMatch("MatchCancelled", n)>>)
    PROVE  PaidForBets' /\ IndexMoves(v)
<1>. DEFINE new == [matches[n] EXCEPT
                       !.match_prize_pool = 0,
                       !.total_winner_stake = 0,
                       !.settlement_prepared = TRUE,
                       !.dust_swept = TRUE,
                       !.result = Cancelled,
                       !.finalized_at = now]
<1>1. /\ matches' = [matches EXCEPT ![n] = new] /\ n \in Registered
      /\ UNCHANGED <<user_points, refunded, paid>>
      /\ Status(n) \in {"Unresolved", "Proposed"} /\ BetsVoided(n)
  BY DEF CancelMatch, VoidMatch, BetsVoided
<1>2. /\ \A u \in Users, m \in MatchIds \ {n} : bets'[<<u, m>>] = bets[<<u, m>>]
      /\ \A u \in Users :
            /\ bets'[<<u, n>>] = NoBet <=> bets[<<u, n>>] = NoBet
            /\ bets[<<u, n>>] # NoBet =>
                  /\ bets'[<<u, n>>].stake_in_match_pool = bets[<<u, n>>].stake_in_match_pool
                  /\ bets'[<<u, n>>].freebet_principal = bets[<<u, n>>].freebet_principal
            /\ bets'[<<u, n>>].prediction = bets[<<u, n>>].prediction
            /\ u \in Refundable(n) => bets'[<<u, n>>].claimed
            /\ u \notin Refundable(n) => bets'[<<u, n>>] = bets[<<u, n>>]
  BY <1>1, ChainTyped, VoidedBets
<1>3. OnlyTouched(n) /\ matches'[n] = new
  BY <1>1, <1>2, ChainTyped, OneMatchSet
<1>4. Status(n)' = "Cancelled"
  <2>1. matches[n] \in Matches
    BY <1>1, ChainTyped, MatchTyped
  <2>. QED
    BY <1>3, <2>1 DEF Status, Matches, Cancelled
<1>5. \A u \in Users : CountsStay(u, n)
  <2>1. ~Decided(n) /\ ~Decided(n)'
    BY <1>1, <1>4 DEF Decided
  <2>. QED
    BY <1>1, <1>2, <2>1, NoHits DEF BetOn, StakeOn
<1>6. ASSUME NEW u \in Users
      PROVE  HeldFor(u, n)' = 0
  <2>1. CASE u \in Refundable(n)
    <3>1. bets[<<u, n>>] # NoBet
      BY <2>1 DEF Refundable, Bettors
    <3>2. bets'[<<u, n>>] # NoBet /\ bets'[<<u, n>>].claimed
      BY <1>2, <2>1, <3>1
    <3>. QED
      BY <1>4, <3>2 DEF HeldFor
  <2>2. CASE u \notin Refundable(n) /\ bets[<<u, n>>] # NoBet
    <3>1. bets[<<u, n>>] \in Bets
      BY <2>2, ChainTyped, BettorsBet
    <3>2. ~bets[<<u, n>>].claimed
      BY <1>1, <2>2 DEF ChainInv, RefundsInv, OpenUntilDecided
    <3>3. bets[<<u, n>>].stake_in_match_pool = 0
      BY <2>2, <3>1, <3>2 DEF Refundable, Bettors, Bets
    <3>. QED
      BY <1>2, <2>2, <3>3 DEF HeldFor, StakeOn
  <2>3. CASE bets[<<u, n>>] = NoBet
    BY <1>2, <2>3 DEF HeldFor, StakeOn
  <2>. QED
    BY <2>1, <2>2, <2>3
<1>7. PICK e : e = OfResult("MatchCancelled", n, NoResult)
  OBVIOUS
<1>8. IsInformed(e) /\ e.method = "MatchCancelled" /\ e.match = n
  BY <1>7, RowInformed DEF RowMethods
<1>9. PICK w : w = Replayed(v, e)
  OBVIOUS
<1>10. RowFollows(w, n)'
  <2>. DEFINE held == [u \in Users |-> HeldFor(u, n)']
  <2>1. StakesHeld(n)' = SumOver(held, Users) /\ \A u \in Users : held[u] = 0
    BY <1>6 DEF StakesHeld
  <2>. HIDE DEF held
  <2>2. StakesHeld(n)' = 0
    BY <2>1, SumOverZero, MatchesAssumption
  <2>3. BetsTaken(n)' = BetsTaken(n)
    BY <1>5 DEF CountsStay, BetsTaken
  <2>4. RowFollows(v, n) /\ v.rows[n] \in Rows
    BY <1>1 DEF Follows, RowFollows, Tables
  <2>5. w.rows[n] = [v.rows[n] EXCEPT !.status = "CANCELLED", !.pool = 0]
    <3>1. w.rows[n] = RowAfter(v, e, n)
      BY <1>8, <1>9, RowEvents DEF RowMethods
    <3>. QED
      BY <1>8, <2>4, <3>1 DEF RowAfter, RowWith, RowFollows
  <2>6. /\ w.rows[n] \in Rows /\ w.rows[n].status = "CANCELLED"
        /\ w.rows[n].count = v.rows[n].count /\ w.rows[n].pool = 0
    <3>1. PICK r \in Rows : r = v.rows[n]
      BY <2>4
    <3>2. w.rows[n] = [r EXCEPT !.status = "CANCELLED", !.pool = 0]
      BY <2>5, <3>1
    <3>3. [r EXCEPT !.status = "CANCELLED", !.pool = 0] \in Rows
      BY DEF Rows
    <3>. QED
      BY <3>1, <3>2, <3>3 DEF Rows
  <2>7. w.rows[n] # NoRow
    BY <2>6, IndexerAssumption
  <2>. QED
    BY <1>4, <2>2, <2>3, <2>4, <2>6, <2>7 DEF RowFollows, StatusFollows
<1>11. PaidForBets'
  <2>1. ASSUME NEW u \in Users, NEW m \in MatchIds
        PROVE  /\ paid'[<<u, m>>] \in Nat
               /\ bets'[<<u, m>>] = NoBet => paid'[<<u, m>>] = 0
               /\ bets'[<<u, m>>] # NoBet => bets'[<<u, m>>].freebet_principal = 0
    <3>1. /\ paid[<<u, m>>] \in Nat /\ paid' = paid
          /\ bets[<<u, m>>] = NoBet => paid[<<u, m>>] = 0
          /\ bets[<<u, m>>] # NoBet => bets[<<u, m>>].freebet_principal = 0
      BY <1>1, ChainTyped DEF PaidForBets
    <3>. QED
      BY <1>2, <3>1
  <2>. QED
    BY <2>1 DEF PaidForBets
<1>12. Emits(<<e>>)
  BY <1>7 DEF OfMatch, OfResult
<1>13. e.method \in RowMethods
  BY <1>8 DEF RowMethods
<1>14. \A u \in Users : /\ bets'[<<u, n>>] = NoBet <=> bets[<<u, n>>] = NoBet
                        /\ bets'[<<u, n>>].prediction = bets[<<u, n>>].prediction
  BY <1>2
<1>. QED
  BY <1>1, <1>3, <1>5, <1>8, <1>9, <1>10, <1>11, <1>12, <1>13, <1>14, TellsOfMatch

(* A step on the match n alone that changes what the wallets have.         *)
LEMMA BoardFollows ==
    ASSUME NEW n \in MatchIds, OnlyTouched(n), NEW v, Follows(v), NEW w,
           \A u \in Users : Good(u)' => StatFollows(w, u)',
           \A u \in Users : BetFollows(w, u, n)',
           \A m \in MatchIds \ {n} : w.rows[m] = v.rows[m],
           \A u \in Users, m \in MatchIds \ {n} : w.bets[<<u, m>>] = v.bets[<<u, m>>],
           n \in Registered' => RowFollows(w, n)'
    PROVE  Follows(w)'
<1>2. ASSUME NEW m \in Registered'
      PROVE  RowFollows(w, m)'
  BY RowElsewhere DEF Registered
<1>3. ASSUME NEW u \in Users, NEW m \in MatchIds
      PROVE  BetFollows(w, u, m)'
  <2>1. CASE m = n
    BY <2>1
  <2>2. CASE m # n
    BY <2>2 DEF Follows, BetFollows, OnlyTouched
  <2>. QED
    BY <2>1, <2>2
<1>. QED
  BY <1>2, <1>3 DEF Follows

\* A wallet that the step leaves alone.
LEMMA BystanderFollows ==
    ASSUME NEW n \in MatchIds, OnlyTouched(n), NEW u \in Users, CountsStay(u, n),
           RestStays(u), NEW v, StatFollows(v, u), NEW w, w.stats[u] = v.stats[u]
    PROVE  StatFollows(w, u)'
BY WalletStays DEF StatFollows, RestStays

(* claim_match_reward, for a bet without principal.                        *)
LEMMA RewardMoves ==
    ASSUME ChainInv, TypeInv', NEW v \in Tables, Follows(v), UNCHANGED coreVars,
           NEW x \in Users, NEW n \in MatchIds, ClaimMatchReward(x, n),
           Emits(<<OfWallet("MatchRewardClaimed", n, x, ShareOf(x, n))>>)
    PROVE  PaidForBets' /\ IndexMoves(v)
<1>1. PICK share : share = ShareOf(x, n)
  OBVIOUS
<1>2. PICK e : e = OfWallet("MatchRewardClaimed", n, x, share)
  OBVIOUS
<1>. DEFINE new == [matches[n] EXCEPT !.total_claimed = @ + share]
<1>3. /\ matches' = [matches EXCEPT ![n] = new] /\ n \in Registered
      /\ bets' = [bets EXCEPT ![<<x, n>>].claimed = TRUE]
      /\ paid' = [paid EXCEPT ![<<x, n>>] = @ + share]
      /\ UNCHANGED <<user_points, refunded>>
      /\ bets[<<x, n>>] # NoBet /\ Status(n) = "Finalized"
  BY <1>1 DEF ClaimMatchReward, Claimable, MarkClaimed
<1>4. share \in Nat /\ bets[<<x, n>>] \in Bets /\ matches[n] \in Matches
  BY <1>1, <1>3, ChainTyped, ClaimableTyped, BettorsBet, MatchTyped DEF ClaimMatchReward
<1>5. matches'[n] = new
      /\ \A m \in MatchIds \ {n} : matches'[m] = matches[m]
  BY <1>3, ChainTyped DEF MatchesTypeOK
<1>6. /\ \A u \in Users, m \in MatchIds : <<u, m>> # <<x, n>> =>
            bets'[<<u, m>>] = bets[<<u, m>>] /\ paid'[<<u, m>>] = paid[<<u, m>>]
      /\ bets'[<<x, n>>] = [bets[<<x, n>>] EXCEPT !.claimed = TRUE]
      /\ paid'[<<x, n>>] = paid[<<x, n>>] + share
  BY <1>3, ChainTyped DEF MatchesTypeOK
<1>7. OnlyTouched(n)
  BY <1>5, <1>6 DEF OnlyTouched
<1>8. /\ bets'[<<x, n>>] # NoBet
      /\ bets'[<<x, n>>].prediction = bets[<<x, n>>].prediction
      /\ bets'[<<x, n>>].stake_in_match_pool = bets[<<x, n>>].stake_in_match_pool
      /\ bets'[<<x, n>>].freebet_principal = bets[<<x, n>>].freebet_principal
  <2>1. bets'[<<x, n>>] \in Bets
    BY <1>4, <1>6 DEF Bets
  <2>. QED
    BY <1>4, <1>6, <2>1, MarkerAssumption DEF Bets
<1>9. matches'[n].result = matches[n].result /\ n \in Registered' /\ Status(n)' = Status(n)
  <2>1. matches[n].total_claimed + share \in Nat
    BY <1>4 DEF Matches
  <2>2. new \in Matches /\ new.result = matches[n].result
    BY <1>4, <2>1 DEF Matches
  <2>. HIDE DEF new
  <2>. QED
    BY <1>5, <2>2, MarkerAssumption DEF Registered, Status
<1>. HIDE DEF new
<1>10. \A u \in Users : /\ BetOn(u, n)' = BetOn(u, n) /\ StakeOn(u, n)' = StakeOn(u, n)
                        /\ HitOn(u, n)' = HitOn(u, n) /\ HeldFor(u, n)' = HeldFor(u, n)
                        /\ BetFollows(v, u, n)'
  <2>1. \A u \in Users : /\ bets'[<<u, n>>] = NoBet <=> bets[<<u, n>>] = NoBet
                         /\ bets[<<u, n>>] # NoBet =>
                               /\ bets'[<<u, n>>].stake_in_match_pool
                                      = bets[<<u, n>>].stake_in_match_pool
                               /\ bets'[<<u, n>>].prediction = bets[<<u, n>>].prediction
    BY <1>3, <1>6, <1>8
  <2>2. \A u \in Users : BetOn(u, n)' = BetOn(u, n) /\ StakeOn(u, n)' = StakeOn(u, n)
    BY <2>1 DEF BetOn, StakeOn
  <2>3. \A u \in Users : HitOn(u, n)' = HitOn(u, n)
    BY <1>3, <1>9, <2>1 DEF HitOn, Decided
  <2>4. \A u \in Users : HeldFor(u, n)' = HeldFor(u, n)
    BY <1>3, <1>9, <2>2 DEF HeldFor
  <2>5. \A u \in Users : BetFollows(v, u, n)'
    BY <2>1 DEF BetFollows, Follows
  <2>. QED
    BY <2>2, <2>3, <2>4, <2>5
<1>11. PaidForBets'
  <2>1. ASSUME NEW u \in Users, NEW m \in MatchIds
        PROVE  /\ paid'[<<u, m>>] \in Nat
               /\ bets'[<<u, m>>] = NoBet => paid'[<<u, m>>] = 0
               /\ bets'[<<u, m>>] # NoBet => bets'[<<u, m>>].freebet_principal = 0
    <3>1. /\ paid[<<u, m>>] \in Nat
          /\ bets[<<u, m>>] = NoBet => paid[<<u, m>>] = 0
          /\ bets[<<u, m>>] # NoBet => bets[<<u, m>>].freebet_principal = 0
      BY ChainTyped DEF PaidForBets
    <3>2. CASE <<u, m>> = <<x, n>>
      <4>1. u = x /\ m = n
        BY <3>2
      <4>2. paid[<<x, n>>] + share \in Nat
        BY <1>4, <3>1, <4>1
      <4>. QED
        BY <1>3, <1>6, <1>8, <3>1, <4>1, <4>2
    <3>3. CASE <<u, m>> # <<x, n>>
      BY <1>6, <3>1, <3>3
    <3>. QED
      BY <3>2, <3>3
  <2>. QED
    BY <2>1 DEF PaidForBets
<1>12. IsInformed(e) /\ e.method = "MatchRewardClaimed"
       /\ DOMAIN e.amounts = {x} /\ e.amounts[x] = share
  BY <1>2, <1>4, WalletInformed
<1>13. PICK w : w = Replayed(v, e)
  OBVIOUS
<1>14. /\ \A u \in Users : w.stats[u]
              = IF u = x THEN StatWith(e, x, v.stats[x]) ELSE v.stats[u]
       /\ \A m \in MatchIds : w.rows[m] = v.rows[m]
       /\ \A k \in Users \X MatchIds : w.bets[k] = v.bets[k]
  BY <1>12, <1>13, WalletEvents DEF WalletMethods, UserMethods
<1>15. StatWith(e, x, v.stats[x]) = [v.stats[x] EXCEPT !.claimed = @ + share]
  BY <1>12 DEF StatWith
<1>16. \A u \in Users : RestStays(u)
  BY <1>3, OthersKeep
<1>17. ASSUME NEW u \in Users, Good(u)'
       PROVE  StatFollows(w, u)'
  <2>1. StatFollows(v, u) /\ RestStays(u)
    BY <1>16, <1>17 DEF Follows, RestStays
  <2>2. CASE u = x
    <3>1. v.stats[u] \in Stats
      BY DEF Tables
    <3>2. w.stats[u] = [v.stats[u] EXCEPT !.claimed = @ + share]
      BY <1>14, <1>15, <2>2
    <3>3. /\ w.stats[u].claimed = v.stats[u].claimed + share
          /\ w.stats[u].bets = v.stats[u].bets /\ w.stats[u].staked = v.stats[u].staked
          /\ w.stats[u].exact = v.stats[u].exact /\ w.stats[u].points = v.stats[u].points
          /\ w.stats[u].prize = v.stats[u].prize /\ w.stats[u].refund = v.stats[u].refund
      BY <3>1, <3>2 DEF Stats
    <3>4. /\ BetsMade(u)' = BetsMade(u) - BetOn(u, n) + BetOn(u, n)'
          /\ StakesMade(u)' = StakesMade(u) - StakeOn(u, n) + StakeOn(u, n)'
          /\ HitsMade(u)' = HitsMade(u) - HitOn(u, n) + HitOn(u, n)'
          /\ PaidOut(u)' = PaidOut(u) - paid[<<u, n>>] + paid'[<<u, n>>]
      <4>1. MatchesTypeOK'
        BY DEF TypeInv, MatchesInv
      <4>. QED
        BY <1>7, <1>11, <4>1, ChainTyped, WalletSumsChange
    <3>5. /\ BetsMade(u) \in Nat /\ StakesMade(u) \in Nat /\ HitsMade(u) \in Nat
          /\ PaidOut(u) \in Nat /\ paid[<<u, n>>] \in Nat
          /\ BetOn(u, n) \in Nat /\ StakeOn(u, n) \in Nat /\ HitOn(u, n) \in Nat
      BY ChainTyped, WalletSumsNat, CountsNat
    <3>6. /\ BetsMade(u)' = BetsMade(u) /\ StakesMade(u)' = StakesMade(u)
          /\ HitsMade(u)' = HitsMade(u)
      BY <1>10, <3>4, <3>5
    <3>7. PaidOut(u)' = PaidOut(u) + share
      BY <1>4, <1>6, <2>2, <3>4, <3>5
    <3>. QED
      BY <2>1, <3>3, <3>6, <3>7 DEF StatFollows, RestStays
  <2>3. CASE u # x
    <3>1. w.stats[u] = v.stats[u] /\ CountsStay(u, n)
      BY <1>6, <1>10, <1>14, <2>3 DEF CountsStay
    <3>. QED
      BY <1>7, <2>1, <3>1, BystanderFollows
  <2>. QED
    BY <2>2, <2>3
<1>18. RowFollows(w, n)'
  <2>1. BetsTaken(n)' = BetsTaken(n) /\ StakesHeld(n)' = StakesHeld(n)
    BY <1>10, MatchSumsStay
  <2>2. RowFollows(v, n) /\ w.rows[n] = v.rows[n]
    BY <1>3, <1>14 DEF Follows
  <2>. QED
    BY <1>9, <2>1, <2>2 DEF RowFollows, StatusFollows
<1>19. \A u \in Users : BetFollows(w, u, n)'
  BY <1>10, <1>14 DEF BetFollows
<1>20. /\ \A m \in MatchIds \ {n} : w.rows[m] = v.rows[m]
       /\ \A u \in Users, m \in MatchIds \ {n} : w.bets[<<u, m>>] = v.bets[<<u, m>>]
  BY <1>14
<1>21. Follows(w)'
  BY <1>7, <1>17, <1>18, <1>19, <1>20, BoardFollows
<1>22. Emits(<<e>>)
  BY <1>1, <1>2
<1>23. IndexMoves(v)
  <2>1. Follows(Replayed(v, e))'
    BY <1>13, <1>21
  <2>. QED
    BY <1>12, <1>22, <2>1, NoBonus, OneEventMoves
<1>. QED
  BY <1>11, <1>23

(* The event of place_bet tells what the handler did.                      *)
LEMMA BetInformed ==
    ASSUME NEW m \in MatchIds, NEW p \in Predictions, NEW u \in Users, NEW amount \in Nat,
           NEW e, e = OfBet(m, p, u, amount)
    PROVE  /\ IsInformed(e)
           /\ e.method = "BetAccepted" /\ e.match = m /\ e.result = p
           /\ DOMAIN e.amounts = {u} /\ e.amounts[u] = amount
           /\ SumOver(e.amounts, DOMAIN e.amounts) = amount
<1>. DEFINE amounts == [v \in {u} |-> amount]
<1>1. e = [method |-> "BetAccepted", match |-> m, result |-> p, amounts |-> amounts]
  BY DEF OfBet, Event
<1>2. amounts \in UNION {[us -> Nat] : us \in SUBSET Users}
      /\ DOMAIN amounts = {u} /\ amounts[u] = amount
  <2>1. amounts \in [{u} -> Nat] /\ {u} \in SUBSET Users
    OBVIOUS
  <2>. QED
    BY <2>1
<1>. HIDE DEF amounts
<1>3. e \in Events
  BY <1>1, <1>2 DEF Events, Methods
<1>4. IsInformed(e)
  BY <1>1, <1>3 DEF IsInformed
<1>5. SumOver(amounts, {u}) = amount
  <2>1. IsFiniteSet({u}) /\ \A y \in {u} : amounts[y] \in Nat
    BY <1>2, FS_Singleton
  <2>2. u \in {u} /\ {u} \ {u} = {}
    OBVIOUS
  <2>3. SumOver(amounts, {u}) = amounts[u] + SumOver(amounts, {u} \ {u})
    BY <2>1, <2>2, SumOverRemove
  <2>4. SumOver(amounts, {u} \ {u}) = 0
    BY <2>2, SumOverEmpty
  <2>. QED
    BY <1>2, <2>3, <2>4
<1>. QED
  BY <1>1, <1>2, <1>4, <1>5

(* It changes one wallet, one match and one bet.                           *)
LEMMA BetEvents ==
    ASSUME NEW v \in Tables, NEW e, e.method = "BetAccepted", e.match \in MatchIds,
           NEW x, DOMAIN e.amounts = {x}
    PROVE  /\ \A u \in Users : Replayed(v, e).stats[u]
                  = IF u = x THEN StatWith(e, x, v.stats[x]) ELSE v.stats[u]
           /\ \A m \in MatchIds \ {e.match} : Replayed(v, e).rows[m] = v.rows[m]
           /\ Replayed(v, e).rows[e.match] = RowAfter(v, e, e.match)
           /\ \A u \in Users, m \in MatchIds : Replayed(v, e).bets[<<u, m>>]
                  = IF u = x /\ m = e.match THEN e.result ELSE v.bets[<<u, m>>]
BY DEF Replayed, StatAfter, RowAfter, BetAfter, Touches, WalletMethods, UserMethods

(* place_bet.                                                              *)
LEMMA PlacedMoves ==
    ASSUME ChainInv, TypeInv', NEW v \in Tables, Follows(v), UNCHANGED coreVars,
           NEW x \in Users, NEW n \in MatchIds, NEW p \in Guesses, NEW value \in BetValues,
           PlaceBet(x, n, p, value),
           Emits(<<OfBet(n, p, x, MatchPoolCut(value))>>)
    PROVE  PaidForBets' /\ IndexMoves(v)
<1>1. PICK stake : stake = MatchPoolCut(value)
  OBVIOUS
<1>2. PICK e : e = OfBet(n, p, x, stake)
  OBVIOUS
<1>. DEFINE new == [matches[n] EXCEPT !.match_prize_pool = @ + stake]
            bet == [prediction |-> p, stake_in_match_pool |-> stake,
                    freebet_principal |-> 0, claimed |-> FALSE]
<1>3. /\ matches' = [matches EXCEPT ![n] = new] /\ n \in Registered
      /\ bets' = [bets EXCEPT ![<<x, n>>] = bet]
      /\ UNCHANGED <<user_points, refunded, paid>>
      /\ bets[<<x, n>>] = NoBet /\ BettingOpen(n)
  BY <1>1 DEF PlaceBet, AcceptsBet, RecordBet
<1>4. stake \in Nat /\ p \in Predictions /\ matches[n] \in Matches
  BY <1>1, <1>3, ChainTyped, CutsNat, MatchTyped, MatchesAssumption
<1>5. matches'[n] = new
      /\ \A m \in MatchIds \ {n} : matches'[m] = matches[m]
  BY <1>3, ChainTyped DEF MatchesTypeOK
<1>6. /\ \A u \in Users, m \in MatchIds : <<u, m>> # <<x, n>> =>
            bets'[<<u, m>>] = bets[<<u, m>>]
      /\ bets'[<<x, n>>] = bet
  BY <1>3, ChainTyped DEF MatchesTypeOK
<1>7. OnlyTouched(n)
  BY <1>3, <1>5, <1>6 DEF OnlyTouched
<1>8. /\ bets'[<<x, n>>] # NoBet /\ bets'[<<x, n>>].prediction = p
      /\ bets'[<<x, n>>].stake_in_match_pool = stake
      /\ bets'[<<x, n>>].freebet_principal = 0 /\ ~bets'[<<x, n>>].claimed
  <2>1. bet \in Bets
    BY <1>4 DEF Bets
  <2>2. /\ bet.prediction = p /\ bet.stake_in_match_pool = stake
        /\ bet.freebet_principal = 0 /\ bet.claimed = FALSE
    OBVIOUS
  <2>. HIDE DEF bet
  <2>. QED
    BY <1>6, <2>1, <2>2, MarkerAssumption
<1>9. matches'[n].result = matches[n].result /\ n \in Registered' /\ Status(n)' = Status(n)
  <2>1. matches[n].match_prize_pool + stake \in Nat
    BY <1>4 DEF Matches
  <2>2. new \in Matches /\ new.result = matches[n].result
    BY <1>4, <2>1 DEF Matches
  <2>. HIDE DEF new
  <2>. QED
    BY <1>5, <2>2, MarkerAssumption DEF Registered, Status
<1>10. Status(n) # "Finalized"
  <2>1. now \in Nat
    BY ChainTyped, AdminAssumption DEF MatchesInv, AdminTypeOK
  <2>. QED
    BY <1>3, <1>4, <2>1, MatchesAssumption
       DEF ChainInv, KickedOff, BettingOpen, SaturatingSub, Matches
<1>. HIDE DEF new, bet
<1>11. \A u \in Users \ {x} : CountsStay(u, n)
  BY <1>3, <1>6, <1>9 DEF CountsStay, BetOn, StakeOn, HitOn, Decided
<1>12. /\ BetOn(x, n) = 0 /\ BetOn(x, n)' = 1 /\ StakeOn(x, n) = 0 /\ StakeOn(x, n)' = stake
       /\ HitOn(x, n) = 0 /\ HitOn(x, n)' = 0
       /\ HeldFor(x, n) = 0 /\ HeldFor(x, n)' = stake
  <2>1. /\ BetOn(x, n) = 0 /\ BetOn(x, n)' = 1 /\ StakeOn(x, n) = 0 /\ StakeOn(x, n)' = stake
    BY <1>3, <1>8 DEF BetOn, StakeOn
  <2>2. HitOn(x, n) = 0 /\ HitOn(x, n)' = 0
    BY <1>9, <1>10 DEF HitOn, Decided
  <2>3. HeldFor(x, n) = 0 /\ HeldFor(x, n)' = stake
    BY <1>3, <1>8, <2>1 DEF HeldFor
  <2>. QED
    BY <2>1, <2>2, <2>3
<1>13. PaidForBets'
  <2>1. ASSUME NEW u \in Users, NEW m \in MatchIds
        PROVE  /\ paid'[<<u, m>>] \in Nat
               /\ bets'[<<u, m>>] = NoBet => paid'[<<u, m>>] = 0
               /\ bets'[<<u, m>>] # NoBet => bets'[<<u, m>>].freebet_principal = 0
    <3>1. /\ paid[<<u, m>>] \in Nat /\ paid' = paid
          /\ bets[<<u, m>>] = NoBet => paid[<<u, m>>] = 0
          /\ bets[<<u, m>>] # NoBet => bets[<<u, m>>].freebet_principal = 0
      BY <1>3, ChainTyped DEF PaidForBets
    <3>2. CASE u = x /\ m = n
      BY <1>8, <3>1, <3>2
    <3>3. CASE ~(u = x /\ m = n)
      <4>1. bets'[<<u, m>>] = bets[<<u, m>>]
        BY <1>6, <3>3
      <4>. QED
        BY <3>1, <4>1
    <3>. QED
      BY <3>2, <3>3
  <2>. QED
    BY <2>1 DEF PaidForBets
<1>14. MatchesTypeOK' /\ MatchesTypeOK /\ PaidForBets
  BY ChainTyped DEF TypeInv, MatchesInv
<1>15. /\ IsInformed(e) /\ e.method = "BetAccepted" /\ e.match = n /\ e.result = p
       /\ DOMAIN e.amounts = {x} /\ e.amounts[x] = stake
       /\ SumOver(e.amounts, DOMAIN e.amounts) = stake
  BY <1>2, <1>4, BetInformed
<1>16. PICK w : w = Replayed(v, e)
  OBVIOUS
<1>17. /\ \A u \in Users : w.stats[u]
              = IF u = x THEN StatWith(e, x, v.stats[x]) ELSE v.stats[u]
       /\ \A m \in MatchIds \ {n} : w.rows[m] = v.rows[m]
       /\ w.rows[n] = RowAfter(v, e, n)
       /\ \A u \in Users, m \in MatchIds : w.bets[<<u, m>>]
              = IF u = x /\ m = n THEN p ELSE v.bets[<<u, m>>]
  BY <1>15, <1>16, BetEvents
<1>18. StatWith(e, x, v.stats[x]) = [v.stats[x] EXCEPT !.bets = @ + 1, !.staked = @ + stake]
  BY <1>15 DEF StatWith
<1>19. \A u \in Users : RestStays(u)
  BY <1>3, OthersKeep
<1>20. ASSUME NEW u \in Users, Good(u)'
       PROVE  StatFollows(w, u)'
  <2>1. StatFollows(v, u) /\ RestStays(u)
    BY <1>19, <1>20 DEF Follows, RestStays
  <2>2. CASE u = x
    <3>1. v.stats[u] \in Stats
      BY DEF Tables
    <3>2. w.stats[u] = [v.stats[u] EXCEPT !.bets = @ + 1, !.staked = @ + stake]
      BY <1>17, <1>18, <2>2
    <3>3. /\ w.stats[u].bets = v.stats[u].bets + 1
          /\ w.stats[u].staked = v.stats[u].staked + stake
          /\ w.stats[u].claimed = v.stats[u].claimed
          /\ w.stats[u].exact = v.stats[u].exact /\ w.stats[u].points = v.stats[u].points
          /\ w.stats[u].prize = v.stats[u].prize /\ w.stats[u].refund = v.stats[u].refund
      BY <3>1, <3>2 DEF Stats
    <3>4. /\ BetsMade(u)' = BetsMade(u) - BetOn(u, n) + BetOn(u, n)'
          /\ StakesMade(u)' = StakesMade(u) - StakeOn(u, n) + StakeOn(u, n)'
          /\ HitsMade(u)' = HitsMade(u) - HitOn(u, n) + HitOn(u, n)'
          /\ PaidOut(u)' = PaidOut(u) - paid[<<u, n>>] + paid'[<<u, n>>]
      BY <1>7, <1>13, <1>14, WalletSumsChange
    <3>5. /\ BetsMade(u) \in Nat /\ StakesMade(u) \in Nat /\ HitsMade(u) \in Nat
          /\ PaidOut(u) \in Nat /\ paid[<<u, n>>] \in Nat /\ paid' = paid
      BY <1>3, <1>14, WalletSumsNat, CountsNat
    <3>6. /\ BetsMade(u)' = BetsMade(u) + 1 /\ StakesMade(u)' = StakesMade(u) + stake
          /\ HitsMade(u)' = HitsMade(u) /\ PaidOut(u)' = PaidOut(u)
      BY <1>4, <1>12, <2>2, <3>4, <3>5
    <3>. QED
      BY <2>1, <3>3, <3>6 DEF StatFollows, RestStays
  <2>3. CASE u # x
    <3>1. w.stats[u] = v.stats[u] /\ CountsStay(u, n)
      BY <1>11, <1>17, <2>3
    <3>. QED
      BY <1>7, <2>1, <3>1, BystanderFollows
  <2>. QED
    BY <2>2, <2>3
<1>21. RowFollows(w, n)'
  <2>1. /\ BetsTaken(n)' = BetsTaken(n) - BetOn(x, n) + BetOn(x, n)'
        /\ StakesHeld(n)' = StakesHeld(n) - HeldFor(x, n) + HeldFor(x, n)'
    <3>1. \A u \in Users \ {x} : bets'[<<u, n>>] = bets[<<u, n>>]
      BY <1>6
    <3>. QED
      BY <1>9, <1>13, <1>14, <3>1, MatchSumsChange
  <2>2. BetsTaken(n) \in Nat /\ StakesHeld(n) \in Nat
    BY <1>14, MatchSumsNat
  <2>3. BetsTaken(n)' = BetsTaken(n) + 1 /\ StakesHeld(n)' = StakesHeld(n) + stake
    BY <1>4, <1>12, <2>1, <2>2
  <2>4. RowFollows(v, n)
    BY <1>3 DEF Follows
  <2>5. PICK r \in Rows : r = v.rows[n]
    BY <2>4 DEF RowFollows, Tables
  <2>6. w.rows[n] = [r EXCEPT !.pool = @ + stake, !.count = @ + 1]
    <3>1. v.rows[n] # NoRow
      BY <2>4 DEF RowFollows
    <3>. QED
      BY <1>15, <1>17, <2>5, <3>1 DEF RowAfter, RowWith
  <2>7. /\ w.rows[n] \in Rows /\ w.rows[n].status = r.status
        /\ w.rows[n].count = r.count + 1 /\ w.rows[n].pool = r.pool + stake
    <3>1. w.rows[n] = RowWith(e, r) /\ RowWith(e, r) \in Rows
      <4>1. e \in Events
        BY <1>15 DEF IsInformed
      <4>2. RowWith(e, r) = [r EXCEPT !.pool = @ + stake, !.count = @ + 1]
        BY <1>15 DEF RowWith
      <4>. QED
        BY <2>6, <4>1, <4>2, RowWithTyped
    <3>. QED
      BY <2>6, <3>1 DEF Rows
  <2>8. w.rows[n] # NoRow
    BY <2>7, IndexerAssumption
  <2>9. StatusFollows(w.rows[n].status, n)'
    BY <1>9, <2>4, <2>5, <2>7 DEF StatusFollows, RowFollows
  <2>10. w.rows[n].count = BetsTaken(n)' /\ w.rows[n].pool = StakesHeld(n)'
    BY <2>3, <2>4, <2>5, <2>7 DEF RowFollows
  <2>. QED
    BY <2>8, <2>9, <2>10 DEF RowFollows
<1>22. \A u \in Users : BetFollows(w, u, n)'
  BY <1>6, <1>8, <1>17 DEF BetFollows, Follows
<1>23. \A u \in Users, m \in MatchIds \ {n} : w.bets[<<u, m>>] = v.bets[<<u, m>>]
  BY <1>17
<1>24. Follows(w)'
  BY <1>7, <1>17, <1>20, <1>21, <1>22, <1>23, BoardFollows
<1>25. Emits(<<e>>)
  BY <1>1, <1>2
<1>26. IndexMoves(v)
  <2>1. Follows(Replayed(v, e))'
    BY <1>16, <1>24
  <2>. QED
    BY <1>15, <1>25, <2>1, NoBonus, OneEventMoves
<1>. QED
  BY <1>13, <1>26

(* The events of finalize_result: what each of them makes of the tables.   *)
LEMMA ScoreEvents ==
    ASSUME NEW v \in Tables, NEW e, e.method = "ResultFinalized", e.match \in MatchIds,
           v.rows[e.match] # NoRow
    PROVE  /\ \A u \in Users : Replayed(v, e).stats[u]
                  = IF v.bets[<<u, e.match>>] # NoRow
                    THEN StatScored(e, v.stats[u], v.bets[<<u, e.match>>]) ELSE v.stats[u]
           /\ \A m \in MatchIds \ {e.match} : Replayed(v, e).rows[m] = v.rows[m]
           /\ Replayed(v, e).rows[e.match] = [v.rows[e.match] EXCEPT !.status = "FINALIZED"]
           /\ \A k \in Users \X MatchIds : Replayed(v, e).bets[k] = v.bets[k]
BY DEF Replayed, StatAfter, RowAfter, RowWith, BetAfter, Touches, WalletMethods, UserMethods

(* What a final result and what awarded points change in a wallet's row.   *)
LEMMA ScoredStat ==
    ASSUME NEW s \in Stats, NEW e, NEW guess
    PROVE  LET t == StatScored(e, s, guess)
           IN  /\ t.bets = s.bets /\ t.staked = s.staked /\ t.points = s.points
               /\ t.claimed = s.claimed /\ t.prize = s.prize /\ t.refund = s.refund
               /\ t.exact = s.exact + IF guess.score = e.result.score THEN 1 ELSE 0
<1>. DEFINE x == guess.score = e.result.score
            y == ScoreOutcome(guess) = ScoreOutcome(e.result)
            a == IF x THEN s.exact + 1 ELSE s.exact
            b == IF ~x /\ y THEN s.outcome + 1 ELSE s.outcome
<1>1. StatScored(e, s, guess) = [s EXCEPT !.exact = a, !.outcome = b]
  BY DEF StatScored
<1>2. s.exact \in Nat /\ s.outcome \in Nat
  BY DEF Stats
<1>3. a = s.exact + IF x THEN 1 ELSE 0
  <2>. HIDE DEF x
  <2>. QED
    BY <1>2
<1>. HIDE DEF a, b
<1>. QED
  BY <1>1, <1>3 DEF Stats

LEMMA PointsStat ==
    ASSUME NEW s \in Stats, NEW e, e.method = "PointsAwarded", NEW u, NEW x \in Nat,
           e.amounts[u] = x
    PROVE  LET t == StatWith(e, u, s)
           IN  /\ t.bets = s.bets /\ t.staked = s.staked /\ t.points = s.points + x
               /\ t.claimed = s.claimed /\ t.prize = s.prize /\ t.refund = s.refund
               /\ t.exact = s.exact
<1>1. StatWith(e, u, s) = [s EXCEPT !.points = @ + x]
  BY DEF StatWith
<1>. QED
  BY <1>1 DEF Stats

(* The three events of finalize_result, replayed one after the other.      *)
LEMMA SettlementReplays ==
    ASSUME NEW v \in Tables, NEW n \in MatchIds, v.rows[n] # NoRow,
           NEW won \in [Users -> Nat], NEW f \in Predictions \cup {NoResult},
           NEW e1, e1 = OfWallets("PointsAwarded", n, won),
           NEW e2, e2 = OfResult("ResultFinalized", n, f),
           NEW e3, e3 = OfResult("SettlementPrepared", n, NoResult),
           NEW w, w = Replayed(Replayed(Replayed(v, e1), e2), e3)
    PROVE  /\ IsInformed(e1) /\ IsInformed(e2) /\ IsInformed(e3)
           /\ e1.method = "PointsAwarded" /\ e2.method = "ResultFinalized"
           /\ e3.method = "SettlementPrepared"
           /\ \A m \in MatchIds \ {n} : w.rows[m] = v.rows[m]
           /\ w.rows[n] = [v.rows[n] EXCEPT !.status = "SETTLED"]
           /\ \A k \in Users \X MatchIds : w.bets[k] = v.bets[k]
           /\ \A u \in Users :
                 LET s == v.stats[u]
                     t == w.stats[u]
                     guess == v.bets[<<u, n>>]
                 IN  /\ t.bets = s.bets /\ t.staked = s.staked
                     /\ t.points = s.points + won[u]
                     /\ t.claimed = s.claimed /\ t.prize = s.prize /\ t.refund = s.refund
                     /\ t.exact = s.exact
                            + IF guess # NoRow /\ guess.score = f.score THEN 1 ELSE 0
<1>1. /\ IsInformed(e1) /\ e1.method = "PointsAwarded"
      /\ DOMAIN e1.amounts = {u \in Users : won[u] > 0}
      /\ \A u \in DOMAIN e1.amounts : e1.amounts[u] = won[u]
  BY WalletsInformed
<1>2. /\ IsInformed(e3) /\ e3.method = "SettlementPrepared" /\ e3.match = n
  BY RowInformed DEF RowMethods
<1>3. /\ IsInformed(e2) /\ e2.method = "ResultFinalized" /\ e2.match = n /\ e2.result = f
  <2>. DEFINE none == <<>>
  <2>1. e2 = [method |-> "ResultFinalized", match |-> n, result |-> f, amounts |-> none]
    BY DEF OfResult, Event
  <2>2. none \in UNION {[us -> Nat] : us \in SUBSET Users}
    <3>1. none = [u \in {} |-> 0] /\ {} \in SUBSET Users
      OBVIOUS
    <3>2. none \in [{} -> Nat]
      BY <3>1
    <3>. QED
      BY <3>1, <3>2
  <2>. HIDE DEF none
  <2>3. e2 \in Events
    BY <2>1, <2>2 DEF Events, Methods
  <2>. QED
    BY <2>1, <2>3 DEF IsInformed, MatchMethods
<1>4. PICK w1 : w1 = Replayed(v, e1)
  OBVIOUS
<1>5. PICK w2 : w2 = Replayed(w1, e2)
  OBVIOUS
<1>6. w1 \in Tables /\ w2 \in Tables /\ w = Replayed(w2, e3)
  BY <1>1, <1>3, <1>4, <1>5, ReplayedTyped
<1>7. /\ \A u \in Users : w1.stats[u]
             = IF u \in DOMAIN e1.amounts THEN StatWith(e1, u, v.stats[u]) ELSE v.stats[u]
      /\ \A m \in MatchIds : w1.rows[m] = v.rows[m]
      /\ \A k \in Users \X MatchIds : w1.bets[k] = v.bets[k]
  BY <1>1, <1>4, WalletEvents DEF WalletMethods, UserMethods
<1>8. /\ \A u \in Users : w2.stats[u]
             = IF w1.bets[<<u, n>>] # NoRow
               THEN StatScored(e2, w1.stats[u], w1.bets[<<u, n>>]) ELSE w1.stats[u]
      /\ \A m \in MatchIds \ {n} : w2.rows[m] = w1.rows[m]
      /\ w2.rows[n] = [w1.rows[n] EXCEPT !.status = "FINALIZED"]
      /\ \A k \in Users \X MatchIds : w2.bets[k] = w1.bets[k]
  BY <1>3, <1>5, <1>6, <1>7, ScoreEvents
<1>9. /\ \A u \in Users : w.stats[u] = w2.stats[u]
      /\ \A m \in MatchIds \ {n} : w.rows[m] = w2.rows[m]
      /\ w.rows[n] = RowAfter(w2, e3, n)
      /\ \A k \in Users \X MatchIds : w.bets[k] = w2.bets[k]
  BY <1>2, <1>6, RowEvents DEF RowMethods
<1>10. w.rows[n] = [v.rows[n] EXCEPT !.status = "SETTLED"]
  <2>1. PICK r \in Rows : r = v.rows[n]
    BY DEF Tables
  <2>2. w2.rows[n] = [r EXCEPT !.status = "FINALIZED"]
    BY <1>7, <1>8, <2>1
  <2>3. w2.rows[n] \in Rows
    BY <2>2 DEF Rows
  <2>4. w.rows[n] = [w2.rows[n] EXCEPT !.status = "SETTLED"]
    <3>1. w2.rows[n] # NoRow
      BY <2>3, IndexerAssumption
    <3>. QED
      BY <1>2, <1>9, <3>1 DEF RowAfter, RowWith
  <2>. QED
    BY <2>1, <2>2, <2>4 DEF Rows
<1>11. ASSUME NEW u \in Users
       PROVE  LET s == v.stats[u]
                  t == w.stats[u]
                  guess == v.bets[<<u, n>>]
              IN  /\ t.bets = s.bets /\ t.staked = s.staked
                  /\ t.points = s.points + won[u]
                  /\ t.claimed = s.claimed /\ t.prize = s.prize /\ t.refund = s.refund
                  /\ t.exact = s.exact
                         + IF guess # NoRow /\ guess.score = f.score THEN 1 ELSE 0
  <2>1. PICK s \in Stats : s = v.stats[u]
    BY DEF Tables
  <2>2. PICK r \in Stats : r = w1.stats[u]
    BY <1>6 DEF Tables
  <2>3. PICK guess : guess = v.bets[<<u, n>>]
    OBVIOUS
  <2>4. won[u] \in Nat /\ s.points \in Nat /\ r.exact \in Nat
    BY DEF Stats
  <2>5. /\ r.bets = s.bets /\ r.staked = s.staked /\ r.points = s.points + won[u]
        /\ r.claimed = s.claimed /\ r.prize = s.prize /\ r.refund = s.refund
        /\ r.exact = s.exact
    <3>1. CASE u \in DOMAIN e1.amounts
      <4>1. r = StatWith(e1, u, s) /\ e1.amounts[u] = won[u]
        BY <1>1, <1>7, <2>1, <2>2, <3>1
      <4>. QED
        BY <1>1, <2>4, <4>1, PointsStat
    <3>2. CASE u \notin DOMAIN e1.amounts
      <4>1. won[u] = 0
        BY <1>1, <2>4, <3>2
      <4>. QED
        BY <1>7, <2>1, <2>2, <2>4, <3>2, <4>1
    <3>. QED
      BY <3>1, <3>2
  <2>6. w.stats[u] = IF guess # NoRow THEN StatScored(e2, r, guess) ELSE r
    BY <1>7, <1>8, <1>9, <2>2, <2>3
  <2>7. CASE guess # NoRow
    BY <1>3, <2>1, <2>3, <2>5, <2>6, <2>7, ScoredStat
  <2>8. CASE guess = NoRow
    BY <2>1, <2>3, <2>4, <2>5, <2>6, <2>8
  <2>. QED
    BY <2>7, <2>8
<1>. QED
  BY <1>1, <1>2, <1>3, <1>7, <1>8, <1>9, <1>10, <1>11

(* finalize_result: points, hits and status, in three events of one        *)
(* message.                                                                *)
LEMMA SettledMoves ==
    ASSUME ChainInv, TypeInv', NEW v \in Tables, Follows(v), UNCHANGED coreVars,
           NEW n \in MatchIds, FinalizeResult(n),
           LET f == matches[n].result.final
               won == [u \in Users |-> user_points'[u] - user_points[u]]
           IN  Emits(<<OfWallets("PointsAwarded", n, won),
                       OfResult("ResultFinalized", n, f),
                       OfMatch("SettlementPrepared", n)>>)
    PROVE  PaidForBets' /\ IndexMoves(v)
<1>1. PICK f : f = matches[n].result.final
  OBVIOUS
<1>2. PICK won : won = [u \in Users |-> user_points'[u] - user_points[u]]
  OBVIOUS
<1>3. PICK e1 : e1 = OfWallets("PointsAwarded", n, won)
  OBVIOUS
<1>4. PICK e2 : e2 = OfResult("ResultFinalized", n, f)
  OBVIOUS
<1>5. PICK e3 : e3 = OfResult("SettlementPrepared", n, NoResult)
  OBVIOUS
<1>6. PICK events : events = <<e1, e2, e3>>
  OBVIOUS
<1>7. Emits(events)
  BY <1>1, <1>2, <1>3, <1>4, <1>5, <1>6 DEF OfMatch, OfResult
<1>8. /\ n \in Registered /\ Status(n) = "Proposed" /\ matches[n] \in Matches
      /\ UNCHANGED <<refunded, bets, paid>>
  BY ChainTyped, MatchTyped DEF FinalizeResult
<1>9. f \in Predictions \cup {NoResult}
  BY <1>1, <1>8 DEF Matches, Results
<1>10. /\ matches'[n].result = Finalized(f)
       /\ \A m \in MatchIds \ {n} : matches'[m] = matches[m]
  BY <1>1, <1>8, ChainTyped DEF FinalizeResult, MatchesTypeOK, Matches
<1>11. OnlyTouched(n)
  BY <1>8, <1>10 DEF OnlyTouched
<1>12. Status(n)' = "Finalized" /\ matches'[n].result.final = f
  BY <1>10 DEF Status, Finalized
<1>13. n \in Registered'
  BY <1>8, ChainTyped, FinalizeTyped DEF ChainInv, TypeInv, MatchesInv, StepTyped
<1>14. \A u \in Users :
           user_points'[u] = user_points[u]
               + IF u \in Bettors(n)
                 THEN PointsFor(bets[<<u, n>>].prediction, f, Weight(n)) ELSE 0
  BY <1>1 DEF FinalizeResult, PointsAfter
<1>15. \A u \in Users : /\ user_points[u] \in Nat /\ user_points'[u] \in Nat
                        /\ won[u] \in Nat /\ user_points'[u] = user_points[u] + won[u]
  <2>1. Weight(n) \in Nat
    BY <1>8, ChainTyped, WeightNat
  <2>2. ASSUME NEW u \in Users
        PROVE  /\ user_points[u] \in Nat /\ user_points'[u] \in Nat
               /\ won[u] \in Nat /\ user_points'[u] = user_points[u] + won[u]
    <3>. DEFINE x == IF u \in Bettors(n)
                     THEN PointsFor(bets[<<u, n>>].prediction, f, Weight(n)) ELSE 0
    <3>1. x \in Nat
      BY <2>1, PointsNat
    <3>2. user_points'[u] = user_points[u] + x /\ won[u] = user_points'[u] - user_points[u]
      BY <1>2, <1>14
    <3>3. user_points[u] \in Nat
      BY ChainTyped DEF MatchesTypeOK
    <3>. HIDE DEF x
    <3>. QED
      BY <3>1, <3>2, <3>3
  <2>. QED
    BY <2>2
<1>16. won \in [Users -> Nat]
  BY <1>2, <1>15
<1>17. RowFollows(v, n) /\ v.rows[n] # NoRow
  BY <1>8 DEF Follows, RowFollows
<1>18. PICK w : w = Replayed(Replayed(Replayed(v, e1), e2), e3)
  OBVIOUS
<1>19. /\ IsInformed(e1) /\ IsInformed(e2) /\ IsInformed(e3)
       /\ e1.method = "PointsAwarded" /\ e2.method = "ResultFinalized"
       /\ e3.method = "SettlementPrepared"
       /\ \A m \in MatchIds \ {n} : w.rows[m] = v.rows[m]
       /\ w.rows[n] = [v.rows[n] EXCEPT !.status = "SETTLED"]
       /\ \A k \in Users \X MatchIds : w.bets[k] = v.bets[k]
       /\ \A u \in Users :
             LET s == v.stats[u]
                 t == w.stats[u]
                 guess == v.bets[<<u, n>>]
             IN  /\ t.bets = s.bets /\ t.staked = s.staked
                 /\ t.points = s.points + won[u]
                 /\ t.claimed = s.claimed /\ t.prize = s.prize /\ t.refund = s.refund
                 /\ t.exact = s.exact
                        + IF guess # NoRow /\ guess.score = f.score THEN 1 ELSE 0
  BY <1>3, <1>4, <1>5, <1>9, <1>16, <1>17, <1>18, SettlementReplays
<1>20. PaidForBets'
  BY <1>8, ChainTyped, PaidStays
<1>21. MatchesTypeOK' /\ MatchesTypeOK /\ PaidForBets
  BY ChainTyped DEF TypeInv, MatchesInv
<1>22. ASSUME NEW u \in Users
       PROVE  /\ BetOn(u, n)' = BetOn(u, n) /\ StakeOn(u, n)' = StakeOn(u, n)
              /\ HeldFor(u, n)' = HeldFor(u, n) /\ HitOn(u, n) = 0
              /\ HitOn(u, n)' = IF v.bets[<<u, n>>] # NoRow /\ v.bets[<<u, n>>].score = f.score
                                THEN 1 ELSE 0
  <2>1. BetFollows(v, u, n)
    BY DEF Follows
  <2>2. BetOn(u, n)' = BetOn(u, n) /\ StakeOn(u, n)' = StakeOn(u, n)
    BY <1>8 DEF BetOn, StakeOn
  <2>3. HeldFor(u, n)' = HeldFor(u, n)
    BY <1>8, <1>12, <2>2 DEF HeldFor
  <2>4. HitOn(u, n) = 0
    BY <1>8 DEF HitOn, Decided
  <2>5. Decided(n)'
    BY <1>12, <1>13 DEF Decided
  <2>6. bets[<<u, n>>] = NoBet \/ bets[<<u, n>>].prediction # NoRow
    <3>1. bets[<<u, n>>] # NoBet => bets[<<u, n>>].prediction \in Predictions
      BY <1>21, BettorsBet DEF Bets
    <3>. QED
      BY <3>1, IndexerAssumption
  <2>7. HitOn(u, n)' = IF bets[<<u, n>>] # NoBet /\ bets[<<u, n>>].prediction.score = f.score
                       THEN 1 ELSE 0
    BY <1>8, <1>12, <2>5 DEF HitOn
  <2>8. v.bets[<<u, n>>] # NoRow /\ v.bets[<<u, n>>].score = f.score
          <=> bets[<<u, n>>] # NoBet /\ bets[<<u, n>>].prediction.score = f.score
    BY <2>1, <2>6 DEF BetFollows
  <2>. QED
    BY <2>2, <2>3, <2>4, <2>7, <2>8
<1>23. ASSUME NEW u \in Users, Good(u)'
       PROVE  StatFollows(w, u)'
  <2>1. PrizePaid(u)' = PrizePaid(u) /\ Good(u)
    BY <1>23, PrizesStay
  <2>2. StatFollows(v, u)
    BY <2>1 DEF Follows
  <2>3. /\ BetsMade(u)' = BetsMade(u) - BetOn(u, n) + BetOn(u, n)'
        /\ StakesMade(u)' = StakesMade(u) - StakeOn(u, n) + StakeOn(u, n)'
        /\ HitsMade(u)' = HitsMade(u) - HitOn(u, n) + HitOn(u, n)'
        /\ PaidOut(u)' = PaidOut(u) - paid[<<u, n>>] + paid'[<<u, n>>]
    BY <1>11, <1>20, <1>21, WalletSumsChange
  <2>4. /\ BetsMade(u) \in Nat /\ StakesMade(u) \in Nat /\ HitsMade(u) \in Nat
        /\ PaidOut(u) \in Nat /\ paid[<<u, n>>] \in Nat /\ paid' = paid
        /\ BetOn(u, n) \in Nat /\ StakeOn(u, n) \in Nat /\ HitOn(u, n) \in Nat
    BY <1>8, <1>21, WalletSumsNat, CountsNat
  <2>5. HitOn(u, n)' \in Nat
    BY <1>20, <1>21, CountsNatNext
  <2>6. /\ BetsMade(u)' = BetsMade(u) /\ StakesMade(u)' = StakesMade(u)
        /\ PaidOut(u)' = PaidOut(u) /\ HitsMade(u)' = HitsMade(u) + HitOn(u, n)'
    <3>1. BetOn(u, n)' = BetOn(u, n) /\ StakeOn(u, n)' = StakeOn(u, n) /\ HitOn(u, n) = 0
      BY <1>22
    <3>. QED
      BY <2>3, <2>4, <2>5, <3>1
  <2>7. /\ w.stats[u].bets = v.stats[u].bets /\ w.stats[u].staked = v.stats[u].staked
        /\ w.stats[u].points = v.stats[u].points + won[u]
        /\ w.stats[u].claimed = v.stats[u].claimed
        /\ w.stats[u].prize = v.stats[u].prize /\ w.stats[u].refund = v.stats[u].refund
        /\ w.stats[u].exact = v.stats[u].exact + HitOn(u, n)'
    BY <1>19, <1>22
  <2>. QED
    BY <1>8, <1>15, <2>1, <2>2, <2>6, <2>7 DEF StatFollows
<1>24. RowFollows(w, n)'
  <2>1. BetsTaken(n)' = BetsTaken(n) /\ StakesHeld(n)' = StakesHeld(n)
    BY <1>22, MatchSumsStay
  <2>2. StatusFollows("SETTLED", n)'
    BY <1>12 DEF StatusFollows
  <2>. QED
    BY <1>17, <1>19, <2>1, <2>2, RowSet
<1>25. \A u \in Users : BetFollows(w, u, n)'
  BY <1>8, <1>19 DEF BetFollows, Follows
<1>26. \A u \in Users, m \in MatchIds \ {n} : w.bets[<<u, m>>] = v.bets[<<u, m>>]
  BY <1>19
<1>27. Follows(w)'
  BY <1>11, <1>19, <1>23, <1>24, <1>25, <1>26, BoardFollows
<1>28. events \in Seq(Events) /\ Len(events) = 3
       /\ events[1] = e1 /\ events[2] = e2 /\ events[3] = e3
  BY <1>6, <1>19 DEF IsInformed
<1>29. IsMessage(events)'
  <2>1. \A i \in 1 .. Len(events) : i = 1 \/ i = 2 \/ i = 3
    BY <1>28
  <2>2. Informs(events)
    BY <1>19, <1>28, <2>1 DEF Informs
  <2>3. ASSUME NEW i \in 1 .. Len(events)
        PROVE  BonusNotGood(events[i])'
    <3>1. PICK e : e = events[i]
      OBVIOUS
    <3>2. e.method # "PodiumBonusAwarded"
      BY <1>19, <1>28, <2>1, <3>1
    <3>. QED
      BY <3>1, <3>2, NoBonus
  <2>. QED
    BY <2>2, <2>3 DEF IsMessage
<1>30. Follows(ReplayedAll(v, events))'
  <2>1. ReplayedAll(v, events) = w
    BY <1>18, <1>28 DEF ReplayedAll
  <2>. QED
    BY <1>27, <2>1
<1>. QED
  BY <1>7, <1>20, <1>28, <1>29, <1>30 DEF IndexMoves

(* Every step of the chain that the index follows is one of the program's. *)
LEMMA ChainIsNext ==
    ASSUME ChainStep
    PROVE  Next
<1>1. Deployer \in Accounts
  BY AdminAssumption
<1>2. RegistersAndBets => RegisterStep \/ BetStep
  BY <1>1 DEF RegistersAndBets, RegisterStep, BetStep
<1>3. ResultsAndSweeps => ResultStep \/ PayoutStep
  BY <1>1 DEF ResultsAndSweeps, ResultStep, PayoutStep
<1>4. Payouts => PayoutStep
  BY <1>1 DEF Payouts, PayoutStep
<1>5. Prizes => PrizeStep
  BY <1>1 DEF Prizes, PrizeStep
<1>6. ASSUME \E oracle \in Oracles : SetOracleAuthorized(Deployer, oracle, TRUE)
      PROVE  AdminNext
  BY <1>1, <1>6 DEF AdminNext, ConfigStep, TrustStep
<1>7. Tick => AdminNext
  BY DEF AdminNext
<1>8. CASE (RegistersAndBets \/ ResultsAndSweeps \/ Payouts) /\ UNCHANGED coreVars
  BY <1>2, <1>3, <1>4, <1>8 DEF Next, MatchesStep
<1>9. CASE Prizes
  BY <1>5, <1>9 DEF Next
<1>10. CASE Tick /\ UNCHANGED <<matchesVars, coreVars, indexVars>>
  BY <1>7, <1>10 DEF Next
<1>11. CASE /\ \E oracle \in Oracles : SetOracleAuthorized(Deployer, oracle, TRUE)
            /\ UNCHANGED <<matchesVars, coreVars, indexVars>>
  BY <1>6, <1>11 DEF Next
<1>. QED
  BY <1>8, <1>9, <1>10, <1>11 DEF ChainStep

(* No step takes a bonus back. *)
LEMMA GoodBefore ==
    ASSUME CoreTypeOK, ChainStep, NEW u \in Users, Good(u)'
    PROVE  Good(u)
<1>1. CASE UNCHANGED coreVars
  BY <1>1, PrizesStay
<1>2. ASSUME NEW w \in Users, NEW pick, NEW value, SubmitPodiumPick(w, pick, value)
      PROVE  Good(u)
  <2>1. CASE u = w
    <3>1. podium_picks[u] = NoPodium
      BY <1>2, <2>1 DEF SubmitPodiumPick
    <3>. QED
      BY <3>1 DEF Good, PodiumBonus
  <2>2. CASE u # w
    <3>1. podium_picks'[u] = podium_picks[u] /\ podium_result' = podium_result
      BY <1>2, <2>2 DEF SubmitPodiumPick, CoreTypeOK
    <3>. QED
      BY <3>1 DEF Good
  <2>. QED
    BY <2>1, <2>2
<1>3. ASSUME NEW w \in Users, ClaimFinalPrize(w)
      PROVE  Good(u)
  BY <1>3 DEF ClaimFinalPrize, podiumVars, Good
<1>4. ASSUME NEW podium, FinalizePodium(Deployer, podium)
      PROVE  Good(u)
  BY <1>4 DEF FinalizePodium, Good, PodiumBonus
<1>5. ASSUME FinalizeFinalPrizePool(Deployer)
      PROVE  Good(u)
  BY <1>5 DEF FinalizeFinalPrizePool, podiumVars, Good
<1>6. CASE Prizes
  BY <1>2, <1>3, <1>4, <1>5, <1>6 DEF Prizes
<1>. QED
  BY <1>1, <1>6 DEF ChainStep

(* And what the index has received and not yet read makes it say, again,   *)
(* what the chain says.                                                    *)
LEMMA ChainMoves ==
    ASSUME ChainInv, TypeInv', NEW v \in Tables, Follows(v), ChainStep
    PROVE  PaidForBets' /\ IndexMoves(v)
<1>1. CASE RegistersAndBets /\ UNCHANGED coreVars
  <2>1. ASSUME NEW phase, NEW weight, RegisterPhase(Deployer, phase, weight), Quietly
        PROVE  PaidForBets' /\ IndexMoves(v)
    BY <1>1, <2>1, QuietFrames
  <2>2. ASSUME NEW phase, NEW kickOff, RegisterMatch(Deployer, phase, kickOff),
               Emits(<<OfMatch("MatchRegistered", next_match_id')>>)
        PROVE  PaidForBets' /\ IndexMoves(v)
    BY <1>1, <2>2, RegisteredMoves
  <2>3. ASSUME NEW u \in Users, NEW m \in MatchIds, NEW p \in Guesses, NEW value \in BetValues,
               PlaceBet(u, m, p, value), Emits(<<OfBet(m, p, u, MatchPoolCut(value))>>)
        PROVE  PaidForBets' /\ IndexMoves(v)
    BY <1>1, <2>3, PlacedMoves
  <2>. QED
    BY <1>1, <2>1, <2>2, <2>3 DEF RegistersAndBets
<1>2. CASE ResultsAndSweeps /\ UNCHANGED coreVars
  <2>1. ASSUME NEW m \in MatchIds, NEW oracle \in Oracles, NEW r \in Reports,
               ProposeResult(oracle, m, r), Emits(<<OfResult("ResultProposed", m, r)>>)
        PROVE  PaidForBets' /\ IndexMoves(v)
    BY <1>2, <2>1, ProposedMoves
  <2>2. ASSUME NEW m \in MatchIds, CancelProposedResult(Deployer, m), Quietly
        PROVE  PaidForBets' /\ IndexMoves(v)
    BY <1>2, <2>2, WithdrawnMoves
  <2>3. ASSUME NEW m \in MatchIds, CancelMatch(Deployer, m),
               Emits(<<OfMatch("MatchCancelled", m)>>)
        PROVE  PaidForBets' /\ IndexMoves(v)
    BY <1>2, <2>3, CancelledMoves
  <2>4. ASSUME NEW m \in MatchIds, FinalizeResult(m),
               LET f == matches[m].result.final
                   won == [u \in Users |-> user_points'[u] - user_points[u]]
               IN  Emits(<<OfWallets("PointsAwarded", m, won),
                           OfResult("ResultFinalized", m, f),
                           OfMatch("SettlementPrepared", m)>>)
        PROVE  PaidForBets' /\ IndexMoves(v)
    BY <1>2, <2>4, SettledMoves
  <2>5. ASSUME NEW m \in MatchIds, SweepMatchDust(m), Quietly
        PROVE  PaidForBets' /\ IndexMoves(v)
    BY <1>2, <2>5, SweptMoves
  <2>. QED
    BY <1>2, <2>1, <2>2, <2>3, <2>4, <2>5 DEF ResultsAndSweeps
<1>3. CASE Payouts /\ UNCHANGED coreVars
  <2>1. ASSUME NEW u \in Users, NEW m \in MatchIds, ClaimMatchReward(u, m),
               Emits(<<OfWallet("MatchRewardClaimed", m, u, ShareOf(u, m))>>)
        PROVE  PaidForBets' /\ IndexMoves(v)
    BY <1>3, <2>1, RewardMoves
  <2>2. ASSUME NEW u \in Users, ClaimRefund(u),
               Emits(<<OfWallet("RefundClaimed", NoMatchId, u, pending_refunds[u])>>)
        PROVE  PaidForBets' /\ IndexMoves(v)
    BY <1>3, <2>2, RefundMoves
  <2>3. ASSUME NEW u \in Users, AdminPushRefund(Deployer, u), Quietly
        PROVE  PaidForBets' /\ IndexMoves(v)
    BY <1>3, <2>3, QuietFrames
  <2>. QED
    BY <1>3, <2>1, <2>2, <2>3 DEF Payouts
<1>4. CASE Prizes
  <2>1. ASSUME NEW u \in Users, NEW pick, NEW value, SubmitPodiumPick(u, pick, value), Quietly
        PROVE  PaidForBets' /\ IndexMoves(v)
    BY <2>1, PickMoves
  <2>2. ASSUME NEW u \in Users, ClaimFinalPrize(u),
               Emits(<<OfWallet("FinalPrizeClaimed", NoMatchId, u, final_prize_allocations[u])>>)
        PROVE  PaidForBets' /\ IndexMoves(v)
    BY <2>2, PrizeMoves
  <2>3. ASSUME NEW podium, FinalizePodium(Deployer, podium),
               LET bonus == [u \in Users |-> PodiumBonus(podium_picks[u], podium)]
               IN  Emits(<<OfWallets("PodiumBonusAwarded", NoMatchId, bonus)>>)
        PROVE  PaidForBets' /\ IndexMoves(v)
    BY <2>3, PodiumMoves
  <2>4. ASSUME FinalizeFinalPrizePool(Deployer), Quietly
        PROVE  PaidForBets' /\ IndexMoves(v)
    BY <2>4, AllocationMoves
  <2>. QED
    BY <1>4, <2>1, <2>2, <2>3, <2>4 DEF Prizes
<1>5. CASE UNCHANGED <<matchesVars, coreVars, indexVars>>
  <2>1. UNCHANGED matchesVars /\ UNCHANGED coreVars /\ Quietly
    BY <1>5 DEF Quietly
  <2>. QED
    BY <2>1, QuietFrames
<1>. QED
  BY <1>1, <1>2, <1>3, <1>4, <1>5 DEF ChainStep

----------------------------------------------------------------------------
(* 3.3  The invariant, and the theorems.                                   *)

(* What is in the tables and in the messages not yet indexed makes up what *)
(* the chain says: read one by one, without batches, the messages lead     *)
(* from the tables to it.                                                  *)
BacklogLeadsToChain ==
    \E V, v : IsReplay(V) /\ v = V[Len(backlog)] /\ Follows(v)

IndexInv == ChainInv /\ IndexTyped /\ BacklogTyped /\ BacklogLeadsToChain

(* The invariant holds at the start, ...                                   *)
LEMMA IndexInvInit == Init /\ IndexInit => IndexInv
<1>. SUFFICES ASSUME Init, IndexInit
              PROVE  IndexInv
  OBVIOUS
<1>1. CoreInv /\ MatchesInit /\ CoreInit
  BY CoreInvInit DEF Init
<1>2. Registered = {}
  BY <1>1 DEF MatchesInit, Registered
<1>3. \A u \in Users, m \in MatchIds : bets[<<u, m>>] = NoBet /\ paid[<<u, m>>] = 0
  BY <1>1 DEF MatchesInit
<1>4. ChainInv
  BY <1>1, <1>3 DEF ChainInv, CoreInv, MatchMoney, PaidForBets
<1>5. IndexTyped /\ backlog = <<>> /\ \A u \in Users : user_stat[u] = NoRow
  BY DEF IndexInit, IndexTyped
<1>6. Len(backlog) = 0 /\ BacklogTyped
  BY <1>5 DEF BacklogTyped
<1>. DEFINE stats == [u \in Users |-> NewStat]
            v == [stats |-> stats, rows |-> bolao_match, bets |-> bet_rows]
            V == [i \in {0} |-> v]
<1>7. v \in Tables
  <2>1. stats \in [Users -> Stats]
    BY DEF NewStat, Stats
  <2>. HIDE DEF stats
  <2>. QED
    BY <1>5, <2>1 DEF IndexTyped, Tables
<1>8. \A u \in Users : v.stats[u] = NewStat /\ StatOf(u) = NewStat
  BY <1>5 DEF StatOf
<1>9. v.rows = bolao_match /\ v.bets = bet_rows
  OBVIOUS
<1>. HIDE DEF v
<1>10. IsReplay(V) /\ v = V[Len(backlog)]
  <2>1. IsSaved(v)
    BY <1>7, <1>8, <1>9 DEF IsSaved
  <2>2. V \in [0 .. Len(backlog) -> Tables] /\ V[0] = v
    BY <1>6, <1>7
  <2>3. \A i \in 1 .. Len(backlog) : V[i] = ReplayedAll(V[i - 1], backlog[i])
    BY <1>6
  <2>. HIDE DEF V
  <2>. QED
    BY <1>6, <2>1, <2>2, <2>3 DEF IsReplay
<1>. HIDE DEF V
<1>11. ASSUME NEW u \in Users
       PROVE  StatFollows(v, u)
  <2>1. \A m \in MatchIds : /\ BetOn(u, m) = 0 /\ StakeOn(u, m) = 0 /\ HitOn(u, m) = 0
                            /\ paid[<<u, m>>] = 0
    BY <1>3 DEF BetOn, StakeOn, HitOn
  <2>2. /\ BetsMade(u) = 0 /\ StakesMade(u) = 0 /\ HitsMade(u) = 0 /\ PaidOut(u) = 0
    <3>. DEFINE made == [m \in MatchIds |-> BetOn(u, m)]
                stakes == [m \in MatchIds |-> StakeOn(u, m)]
                hits == [m \in MatchIds |-> HitOn(u, m)]
                payments == [m \in MatchIds |-> paid[<<u, m>>]]
    <3>1. \A m \in MatchIds : /\ made[m] = 0 /\ stakes[m] = 0 /\ hits[m] = 0
                              /\ payments[m] = 0
      BY <2>1
    <3>2. IsFiniteSet(MatchIds)
      BY MatchesAssumption
    <3>. HIDE DEF made, stakes, hits, payments
    <3>3. /\ SumOver(made, MatchIds) = 0 /\ SumOver(stakes, MatchIds) = 0
          /\ SumOver(hits, MatchIds) = 0 /\ SumOver(payments, MatchIds) = 0
      BY <3>1, <3>2, SumOverZero
    <3>. QED
      BY <3>3 DEF BetsMade, StakesMade, HitsMade, PaidOut, made, stakes, hits, payments
  <2>3. /\ user_points[u] = 0 /\ refunded[u] = 0 /\ PrizePaid(u) = 0
    BY <1>1 DEF MatchesInit, CoreInit, PrizePaid
  <2>. QED
    BY <1>8, <2>2, <2>3 DEF StatFollows, NewStat
<1>12. \A u \in Users, m \in MatchIds : BetFollows(v, u, m)
  BY <1>3, <1>9 DEF BetFollows, IndexInit
<1>13. Follows(v)
  BY <1>2, <1>11, <1>12 DEF Follows
<1>. QED
  BY <1>4, <1>5, <1>6, <1>10, <1>13 DEF IndexInv, BacklogLeadsToChain

(* The chain's own part, which the books of the matches keep. *)
LEMMA ChainInvStep ==
    ASSUME ~EarlyReports, ChainInv, [Next]_vars, PaidForBets'
    PROVE  ChainInv'
<1>1. TypeInv' /\ PrizeBooked'
  BY TypeInvStep, PrizeBookedStep DEF ChainInv
<1>2. CASE [MatchesNext]_allMatchesVars /\ UNCHANGED coreVars
  <2>1. KickedOff' /\ RefundsInv' /\ SharesInv' /\ PoolsInv'
    BY <1>2, MoneyStep DEF ChainInv, TypeInv
  <2>. QED
    BY <1>1, <2>1 DEF ChainInv
<1>3. CASE PrizeStep \/ WithdrawStep
  <2>1. MatchMoney'
    BY <1>3, OwnStepFrame, MatchMoneyKept DEF ChainInv, TypeInv, MatchMoney
  <2>. QED
    BY <1>1, <2>1 DEF ChainInv, MatchMoney
<1>. QED
  BY <1>2, <1>3, StepKinds

(* ... after every step of the chain, ...                                  *)
LEMMA IndexInvChain ==
    ASSUME ~EarlyReports, IndexInv, ChainStep
    PROVE  IndexInv'
<1>1. PICK V, v : IsReplay(V) /\ v = V[Len(backlog)] /\ Follows(v)
  BY DEF IndexInv, BacklogLeadsToChain
<1>2. ChainInv /\ IndexTyped /\ BacklogTyped /\ [Next]_vars
  BY ChainIsNext DEF IndexInv
<1>3. v \in Tables
  <2>1. Len(backlog) \in 0 .. Len(backlog)
    BY <1>2 DEF BacklogTyped
  <2>. QED
    BY <1>1, <2>1 DEF IsReplay
<1>4. TypeInv'
  BY <1>2, TypeInvStep DEF ChainInv
<1>5. PaidForBets' /\ IndexMoves(v)
  BY <1>1, <1>2, <1>3, <1>4, ChainMoves
<1>6. ChainInv'
  BY <1>2, <1>5, ChainInvStep
<1>7. \A u \in Users : Good(u)' => Good(u)
  BY <1>2, GoodBefore DEF ChainInv, TypeInv
<1>8. CASE Quietly /\ Follows(v)'
  <2>1. IndexTyped' /\ BacklogTyped' /\ IsReplay(V)' /\ Len(backlog') = Len(backlog)
    BY <1>1, <1>2, <1>7, <1>8, QuietReplays
  <2>2. v = V[Len(backlog')]
    BY <1>1, <2>1
  <2>3. BacklogLeadsToChain'
    BY <1>8, <2>1, <2>2 DEF BacklogLeadsToChain
  <2>. QED
    BY <1>6, <2>1, <2>3 DEF IndexInv
<1>9. ASSUME NEW events \in Seq(Events), Emits(events), IsMessage(events)',
             Follows(ReplayedAll(v, events))'
      PROVE  IndexInv'
  <2>1. PICK w : w = ReplayedAll(v, events)
    OBVIOUS
  <2>2. /\ IndexTyped' /\ BacklogTyped'
        /\ \E W : /\ IsReplay(W)'
                  /\ W[Len(backlog')] = ReplayedAll(V[Len(backlog)], events)
    BY <1>1, <1>2, <1>7, <1>9, EmitReplays
  <2>3. PICK W : IsReplay(W)' /\ W[Len(backlog')] = ReplayedAll(V[Len(backlog)], events)
    BY <2>2
  <2>4. w = W[Len(backlog')] /\ Follows(w)'
    BY <1>1, <1>9, <2>1, <2>3
  <2>5. BacklogLeadsToChain'
    BY <2>3, <2>4 DEF BacklogLeadsToChain
  <2>. QED
    BY <1>6, <2>2, <2>5 DEF IndexInv
<1>. QED
  BY <1>5, <1>8, <1>9 DEF IndexMoves

(* The chain stands still while a batch is read. *)
LEMMA FollowsFramed ==
    ASSUME ChainInv, UNCHANGED vars, NEW v
    PROVE  ChainInv' /\ (Follows(v)' <=> Follows(v))
<1>1. UNCHANGED allMatchesVars /\ UNCHANGED coreVars
  BY DEF vars
<1>2. /\ UNCHANGED adminVars /\ UNCHANGED boardVars /\ UNCHANGED callVars
      /\ UNCHANGED <<matches, bets, user_points, paid, refunded, pending_refunds>>
  BY <1>1 DEF allMatchesVars, matchesVars
<1>3. PaidForBets'
  BY <1>2, PaidStays DEF ChainInv
<1>4. ChainInv'
  <2>1. TypeInv' /\ PrizeBooked'
    BY TypeInvStep, PrizeBookedStep DEF ChainInv
  <2>2. OthersKept
    BY <1>2 DEF OthersKept
  <2>3. MatchMoney'
    BY <2>2, MatchMoneyKept DEF ChainInv, TypeInv, MatchMoney
  <2>. QED
    BY <1>3, <2>1, <2>3 DEF ChainInv, MatchMoney
<1>5. \A u \in Users, m \in MatchIds :
          /\ BetOn(u, m)' = BetOn(u, m) /\ StakeOn(u, m)' = StakeOn(u, m)
          /\ HitOn(u, m)' = HitOn(u, m) /\ HeldFor(u, m)' = HeldFor(u, m)
  BY <1>2 DEF BetOn, StakeOn, HitOn, HeldFor, Decided, Registered, Status
<1>6. Registered' = Registered /\ \A m : Status(m)' = Status(m)
  BY <1>2 DEF Registered, Status
<1>7. \A u \in Users : /\ BetsMade(u)' = BetsMade(u) /\ StakesMade(u)' = StakesMade(u)
                       /\ HitsMade(u)' = HitsMade(u) /\ PaidOut(u)' = PaidOut(u)
  BY <1>2, WalletSumsStay
<1>8. \A m \in MatchIds : BetsTaken(m)' = BetsTaken(m) /\ StakesHeld(m)' = StakesHeld(m)
  BY <1>5, MatchSumsStay
<1>9. \A u \in Users : PrizePaid(u)' = PrizePaid(u) /\ Good(u)' = Good(u)
  BY <1>1, PrizesStay
<1>10. \A u \in Users : StatFollows(v, u)' <=> StatFollows(v, u)
  BY <1>2, <1>7, <1>9 DEF StatFollows
<1>11. \A m \in MatchIds : RowFollows(v, m)' <=> RowFollows(v, m)
  BY <1>6, <1>8 DEF RowFollows, StatusFollows
<1>12. \A u \in Users, m \in MatchIds : BetFollows(v, u, m)' <=> BetFollows(v, u, m)
  BY <1>2 DEF BetFollows
<1>13. Registered \subseteq MatchIds
  BY DEF Registered
<1>14. Follows(v)' <=> Follows(v)
  BY <1>6, <1>9, <1>10, <1>11, <1>12, <1>13 DEF Follows
<1>. QED
  BY <1>4, <1>14

(* ... after every batch, which takes from the backlog what it brings to   *)
(* the tables, ...                                                         *)
LEMMA IndexInvBatch ==
    ASSUME IndexInv, NEW n \in 1 .. Len(backlog), IndexBatch(n)
    PROVE  IndexInv'
<1>1. PICK V, v : IsReplay(V) /\ v = V[Len(backlog)] /\ Follows(v)
  BY DEF IndexInv, BacklogLeadsToChain
<1>2. ChainInv /\ IndexTyped /\ BacklogTyped /\ UNCHANGED vars
  BY DEF IndexInv, IndexBatch
<1>3. ChainInv' /\ Follows(v)'
  BY <1>1, <1>2, FollowsFramed
<1>4. /\ IndexTyped' /\ BacklogTyped'
      /\ \E W : IsReplay(W)' /\ W[Len(backlog')] = V[Len(backlog)]
  BY <1>1, <1>2, BatchReplays
<1>5. PICK W : IsReplay(W)' /\ W[Len(backlog')] = V[Len(backlog)]
  BY <1>4
<1>6. BacklogLeadsToChain'
  BY <1>1, <1>3, <1>5 DEF BacklogLeadsToChain
<1>. QED
  BY <1>3, <1>4, <1>6 DEF IndexInv

(* ... and when nothing happens.                                           *)
LEMMA IndexInvStutter ==
    ASSUME IndexInv, UNCHANGED <<vars, indexVars>>
    PROVE  IndexInv'
<1>1. PICK V, v : IsReplay(V) /\ v = V[Len(backlog)] /\ Follows(v)
  BY DEF IndexInv, BacklogLeadsToChain
<1>2. ChainInv /\ IndexTyped /\ BacklogTyped /\ UNCHANGED vars /\ Quietly
  BY DEF IndexInv, Quietly
<1>3. ChainInv' /\ Follows(v)'
  BY <1>1, <1>2, FollowsFramed
<1>4. \A u \in Users : Good(u)' => Good(u)
  BY <1>2, PrizesStay DEF vars
<1>5. IndexTyped' /\ BacklogTyped' /\ IsReplay(V)' /\ Len(backlog') = Len(backlog)
  BY <1>1, <1>2, <1>4, QuietReplays
<1>6. v = V[Len(backlog')]
  BY <1>1, <1>5
<1>7. BacklogLeadsToChain'
  BY <1>3, <1>5, <1>6 DEF BacklogLeadsToChain
<1>. QED
  BY <1>3, <1>5, <1>7 DEF IndexInv

LEMMA IndexInvStep ==
    ASSUME ~EarlyReports, IndexInv, [IndexNext]_<<vars, indexVars>>
    PROVE  IndexInv'
BY IndexInvChain, IndexInvBatch, IndexInvStutter DEF IndexNext

(* A number of elements as a sum over all there are.                       *)
LEMMA CountAsSum ==
    ASSUME NEW S, IsFiniteSet(S), NEW T \in SUBSET S, NEW g,
           \A x \in T : g[x] = 1, \A x \in S \ T : g[x] = 0
    PROVE  SumOver(g, S) = Cardinality(T)
<1>. DEFINE f == [x \in T |-> 1]
<1>1. \A x \in S : g[x] \in Nat
  OBVIOUS
<1>2. \A x \in T : f[x] = 1 /\ f[x] = g[x]
  OBVIOUS
<1>3. IsFiniteSet(T) /\ Cardinality(T) \in Nat
  BY FS_Subset, FS_CardinalityType
<1>. HIDE DEF f
<1>4. SumOver(f, T) = Cardinality(T) * 1
  BY <1>2, <1>3, SumOverConstant
<1>5. SumOver(f, T) = SumOver(g, S)
  BY <1>1, <1>2, SumOverWithin
<1>. QED
  BY <1>3, <1>4, <1>5

(* The property's numbers of a wallet and of a match.                      *)
LEMMA WalletNumbers ==
    ASSUME ChainInv, NEW u \in Users
    PROVE  LET mine == {m \in Registered : bets[<<u, m>>] # NoBet}
               exact == {m \in DecidedBets(u) :
                           bets[<<u, m>>].prediction.score = matches[m].result.final.score}
           IN  /\ BetsMade(u) = Cardinality(mine)
               /\ StakesMade(u) =
                     SumOver([m \in mine |-> bets[<<u, m>>].stake_in_match_pool], mine)
               /\ HitsMade(u) = Cardinality(exact)
               /\ PaidOut(u) = SumOver([m \in mine |-> paid[<<u, m>>]], mine)
<1>. DEFINE mine == {m \in Registered : bets[<<u, m>>] # NoBet}
            exact == {m \in DecidedBets(u) :
                        bets[<<u, m>>].prediction.score = matches[m].result.final.score}
            staked == [m \in mine |-> bets[<<u, m>>].stake_in_match_pool]
            received == [m \in mine |-> paid[<<u, m>>]]
            made == [m \in MatchIds |-> BetOn(u, m)]
            stakes == [m \in MatchIds |-> StakeOn(u, m)]
            hits == [m \in MatchIds |-> HitOn(u, m)]
            payments == [m \in MatchIds |-> paid[<<u, m>>]]
<1>1. MatchesTypeOK /\ PaidForBets /\ IsFiniteSet(MatchIds)
  BY ChainTyped, MatchesAssumption
<1>2. /\ mine \in SUBSET MatchIds /\ exact \in SUBSET MatchIds
      /\ \A m \in MatchIds : m \in mine <=> bets[<<u, m>>] # NoBet
  BY DEF ChainInv, PoolsInv, Registered, DecidedBets
<1>3. \A m \in MatchIds : m \in exact <=> /\ Decided(m) /\ bets[<<u, m>>] # NoBet
                                          /\ bets[<<u, m>>].prediction.score
                                                 = matches[m].result.final.score
  BY DEF DecidedBets, Decided, Registered
<1>4. /\ \A m \in mine : made[m] = 1 /\ staked[m] = stakes[m] /\ received[m] = payments[m]
      /\ \A m \in MatchIds \ mine : made[m] = 0 /\ stakes[m] = 0 /\ payments[m] = 0
  BY <1>1, <1>2 DEF BetOn, StakeOn, PaidForBets
<1>5. /\ \A m \in exact : hits[m] = 1
      /\ \A m \in MatchIds \ exact : hits[m] = 0
  BY <1>2, <1>3 DEF HitOn
<1>6. \A m \in MatchIds : stakes[m] \in Nat /\ payments[m] \in Nat
  BY <1>1, CountsNat
<1>7. /\ BetsMade(u) = SumOver(made, MatchIds) /\ StakesMade(u) = SumOver(stakes, MatchIds)
      /\ HitsMade(u) = SumOver(hits, MatchIds) /\ PaidOut(u) = SumOver(payments, MatchIds)
  BY DEF BetsMade, StakesMade, HitsMade, PaidOut
<1>. HIDE DEF mine, exact, staked, received, made, stakes, hits, payments
<1>8. SumOver(made, MatchIds) = Cardinality(mine)
  BY <1>1, <1>2, <1>4, CountAsSum
<1>9. SumOver(hits, MatchIds) = Cardinality(exact)
  BY <1>1, <1>2, <1>5, CountAsSum
<1>10. SumOver(staked, mine) = SumOver(stakes, MatchIds)
  BY <1>1, <1>2, <1>4, <1>6, SumOverWithin
<1>11. SumOver(received, mine) = SumOver(payments, MatchIds)
  BY <1>1, <1>2, <1>4, <1>6, SumOverWithin
<1>. QED
  BY <1>7, <1>8, <1>9, <1>10, <1>11 DEF mine, exact, staked, received

(* A match's sums over all wallets are those over its bettors.             *)
LEMMA MatchNumbers ==
    ASSUME ChainInv, NEW m \in Registered
    PROVE  LET open == {u \in Bettors(m) :
                           Status(m) = "Cancelled" => ~bets[<<u, m>>].claimed}
           IN  BetsTaken(m) = Cardinality(Bettors(m)) /\ StakesHeld(m) = StakeOf(open, m)
<1>. DEFINE open == {u \in Bettors(m) : Status(m) = "Cancelled" => ~bets[<<u, m>>].claimed}
            stake == [u \in open |-> bets[<<u, m>>].stake_in_match_pool]
            taken == [u \in Users |-> BetOn(u, m)]
            held == [u \in Users |-> HeldFor(u, m)]
<1>1. /\ MatchesTypeOK /\ PaidForBets /\ IsFiniteSet(Users) /\ m \in MatchIds
      /\ Bettors(m) \in SUBSET Users /\ open \in SUBSET Users
  BY ChainTyped, MatchesAssumption DEF Registered, Bettors
<1>2. /\ \A u \in Bettors(m) : taken[u] = 1
      /\ \A u \in Users \ Bettors(m) : taken[u] = 0
  BY DEF Bettors, BetOn
<1>3. /\ \A u \in open : stake[u] = held[u]
      /\ \A u \in Users \ open : held[u] = 0
  BY DEF Bettors, HeldFor, StakeOn
<1>4. \A u \in Users : held[u] \in Nat
  BY <1>1, CountsNat
<1>5. /\ BetsTaken(m) = SumOver(taken, Users) /\ StakesHeld(m) = SumOver(held, Users)
      /\ StakeOf(open, m) = SumOver(stake, open)
  BY DEF BetsTaken, StakesHeld, StakeOf
<1>. HIDE DEF open, stake, taken, held
<1>6. SumOver(taken, Users) = Cardinality(Bettors(m))
  BY <1>1, <1>2, CountAsSum
<1>7. SumOver(stake, open) = SumOver(held, Users)
  BY <1>1, <1>3, <1>4, SumOverWithin
<1>. QED
  BY <1>5, <1>6, <1>7 DEF open

(* With an empty backlog the tables themselves follow the chain.           *)
LEMMA IndexInvIsEnough ==
    ASSUME IndexInv
    PROVE  TablesFollowTheChain
<1>. SUFFICES ASSUME backlog = <<>>
              PROVE  TablesFollowTheChain
  BY DEF TablesFollowTheChain, CaughtUp
<1>1. PICK V, v : IsReplay(V) /\ v = V[Len(backlog)] /\ Follows(v)
  BY DEF IndexInv, BacklogLeadsToChain
<1>2. ChainInv
  BY DEF IndexInv
<1>3. IsSaved(v)
  BY <1>1 DEF IsReplay
<1>4. ASSUME NEW u \in {u \in Users : PodiumBonus(podium_picks[u], podium_result) = 0}
      PROVE  LET mine == {m \in Registered : bets[<<u, m>>] # NoBet}
                 exact == {m \in DecidedBets(u) :
                             bets[<<u, m>>].prediction.score = matches[m].result.final.score}
             IN  /\ StatOf(u).bets = Cardinality(mine)
                 /\ StatOf(u).staked =
                       SumOver([m \in mine |-> bets[<<u, m>>].stake_in_match_pool], mine)
                 /\ StatOf(u).points = user_points[u]
                 /\ StatOf(u).exact = Cardinality(exact)
                 /\ StatOf(u).claimed = SumOver([m \in mine |-> paid[<<u, m>>]], mine)
                 /\ StatOf(u).prize = IF final_prize_claimed[u]
                                      THEN final_prize_allocations[u] ELSE 0
                 /\ StatOf(u).refund <= refunded[u]
  <2>1. u \in Users /\ Good(u)
    BY DEF Good
  <2>2. StatOf(u) = v.stats[u] /\ StatFollows(v, u)
    BY <1>1, <1>3, <2>1 DEF IsSaved, Follows
  <2>. QED
    BY <1>2, <2>1, <2>2, WalletNumbers DEF StatFollows, PrizePaid
<1>5. ASSUME NEW m \in Registered
      PROVE  LET row == bolao_match[m]
                 open == {u \in Bettors(m) :
                             Status(m) = "Cancelled" => ~bets[<<u, m>>].claimed}
             IN  /\ row.status \in
                       CASE Status(m) = "Unresolved" -> {"UNRESOLVED", "PROPOSED"}
                         [] Status(m) = "Proposed" -> {"PROPOSED"}
                         [] Status(m) = "Finalized" -> {"SETTLED"}
                         [] Status(m) = "Cancelled" -> {"CANCELLED"}
                 /\ row.count = Cardinality(Bettors(m))
                 /\ row.pool = StakeOf(open, m)
  <2>1. bolao_match[m] = v.rows[m] /\ RowFollows(v, m)
    BY <1>1, <1>3 DEF IsSaved, Follows
  <2>2. Status(m) \in Statuses
    BY <1>2, ChainTyped, MatchTyped DEF Status, Matches, Results
  <2>3. v.rows[m].status \in
            CASE Status(m) = "Unresolved" -> {"UNRESOLVED", "PROPOSED"}
              [] Status(m) = "Proposed" -> {"PROPOSED"}
              [] Status(m) = "Finalized" -> {"SETTLED"}
              [] Status(m) = "Cancelled" -> {"CANCELLED"}
    BY <2>1, <2>2 DEF RowFollows, StatusFollows, Statuses
  <2>. QED
    BY <1>2, <2>1, <2>3, MatchNumbers DEF RowFollows
<1>. QED
  BY <1>4, <1>5 DEF TablesFollowTheChain

(* What the indexer follows is the program: every step of the chain that it*)
(* reads about is a handler of BolaoCore's, and reading is none.           *)
THEOREM TheIndexedChainIsBolaoCore == IndexSpec => Spec
<1>1. Init /\ IndexInit => Init
  OBVIOUS
<1>2. [IndexNext]_<<vars, indexVars>> => [Next]_vars
  BY ChainIsNext DEF IndexNext, IndexBatch
<1>. QED
  BY <1>1, <1>2, PTL DEF IndexSpec, Spec

(* Whatever the bounds of a batch, once everything is indexed the tables   *)
(* say what BolaoCore says of every match and of every wallet without a    *)
(* podium bonus (process of bolao.ts against the handlers' events);        *)
(* provided no oracle reports before the kick-off.                         *)
THEOREM TheIndexFollows ==
    ASSUME ~EarlyReports
    PROVE  IndexSpec => []TablesFollowTheChain
<1>1. IndexInv /\ [IndexNext]_<<vars, indexVars>> => IndexInv'
  BY IndexInvStep
<1>. QED
  BY <1>1, IndexInvInit, IndexInvIsEnough, PTL DEF IndexSpec

(* The same of the instance that the run checks, for all its constants.    *)
THEOREM TheIndexFollowsInEveryInstance ==
    ASSUME ~EarlyReports
    PROVE  MCSpec => []IndexFollowsTheChain
<1>. DEFINE I == scenario = "index" => IndexInv
<1>1. MCInit => I
  BY IndexInvInit DEF MCInit
<1>2. I /\ [MCNext]_<<vars, indexVars, scenario>> => I'
  <2>. SUFFICES ASSUME I, [MCNext]_<<vars, indexVars, scenario>>, scenario' = "index"
                PROVE  IndexInv'
    OBVIOUS
  <2>1. scenario' = scenario
    BY DEF MCNext
  <2>2. IndexInv
    BY <2>1
  <2>3. [IndexNext]_<<vars, indexVars>>
    BY <2>1 DEF MCNext
  <2>. QED
    BY <2>2, <2>3, IndexInvStep
<1>3. I => IndexFollowsTheChain
  BY IndexInvIsEnough DEF IndexFollowsTheChain
<1>. HIDE DEF I
<1>. QED
  BY <1>1, <1>2, <1>3, PTL DEF MCSpec
=============================================================================
