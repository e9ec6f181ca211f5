-------------------------- MODULE FeeLadderProofs --------------------------
(***************************************************************************)
(* Proofs about FeeLadder, for every quote, gas limit, budget and bump.    *)
(* The lemmas about Clamp carry the arithmetic, those of the first part    *)
(* the recursion; the theorems are about their use by the loop.            *)
(***************************************************************************)
EXTENDS FeeLadder, WellFoundedInduction, TLAPS

-----------------------------------------------------------------------------
(* The recursion of the fee ladder.  The library's theorems on recursive    *)
(* functions take the recurrence as an operator parameter; here it is one   *)
(* recurrence, so existence and uniqueness of the ladder are proved         *)
(* directly, by least counter-examples.                                     *)

\* The form of induction used below: a counter-example has a least one.
LEMMA LeastNatural ==
  ASSUME NEW T, T \subseteq Nat, T # {}
  PROVE  \E x \in T : \A y \in T : x <= y
<1> DEFINE R == OpToRel(<, Nat)
<1>1. IsWellFoundedOn(R, Nat)
  BY NatLessThanWellFounded
<1>2. R = {ss \in Nat \X Nat : ss[1] < ss[2]}
  BY DEF OpToRel
<1> HIDE DEF R
<1>3. PICK x \in T : \A y \in T : ~(<<y, x>> \in R)
  BY <1>1, WFMin
<1>4. \A y \in T : ~(y < x)
  BY <1>2, <1>3
<1> QED
  BY <1>4

LEMMA BumpType ==
  ASSUME NEW v \in Nat, NEW bp \in Nat
  PROVE  Bump(v, bp) \in Nat /\ Bump(v, bp) >= v
<1>1. v * (100 + bp) \in Nat
  OBVIOUS
<1>2. v * (100 + bp) >= v * 100
  OBVIOUS
<1> HIDE <1>1
<1> DEFINE w == v * (100 + bp)
<1>3. w \in Nat /\ w >= v * 100
  BY <1>1, <1>2
<1> HIDE DEF w
<1>4. w \div 100 \in Nat /\ w \div 100 >= v
  BY <1>3
<1> QED
  BY <1>4 DEF Bump, w

\* The first rungs, up to rung n.
IsLadder(h, n, tip, bp) ==
  /\ h \in [0..n -> Nat]
  /\ h[0] = tip
  /\ \A i \in 1..n : h[i] = Bump(h[i - 1], bp)

LEMMA LadderExists ==
  ASSUME NEW tip \in Nat, NEW bp \in Nat, NEW n \in Nat
  PROVE  \E h : IsLadder(h, n, tip, bp)
<1> DEFINE Bad == {k \in Nat : ~\E h : IsLadder(h, k, tip, bp)}
<1> SUFFICES ASSUME Bad # {} PROVE FALSE
  OBVIOUS
<1>1. PICK k \in Bad : \A m \in Bad : k <= m
  <2>1. Bad \subseteq Nat
    OBVIOUS
  <2> HIDE DEF Bad
  <2> QED
    BY <2>1, LeastNatural
<1>2. k # 0
  <2>1. IsLadder([i \in 0..0 |-> tip], 0, tip, bp)
    BY DEF IsLadder
  <2> QED
    BY <2>1
<1>3. k - 1 \in Nat /\ k - 1 \notin Bad
  BY <1>1, <1>2
<1>4. PICK h : IsLadder(h, k - 1, tip, bp)
  BY <1>3
<1> DEFINE g == [i \in 0..k |-> IF i = k THEN Bump(h[k - 1], bp) ELSE h[i]]
<1>5. h[k - 1] \in Nat
  BY <1>3, <1>4 DEF IsLadder
<1>6. Bump(h[k - 1], bp) \in Nat
  BY <1>5, BumpType
<1>7. g \in [0..k -> Nat]
  BY <1>1, <1>4, <1>6 DEF IsLadder
<1>8. g[0] = tip
  BY <1>1, <1>2, <1>4 DEF IsLadder
<1>9. ASSUME NEW i \in 1..k PROVE g[i] = Bump(g[i - 1], bp)
  <2>1. CASE i = k
    BY <1>1, <1>3, <2>1
  <2>2. CASE i # k
    <3>1. i \in 1..(k - 1) /\ i - 1 \in 0..k /\ i - 1 # k
      BY <1>1, <1>9, <2>2
    <3>2. g[i] = h[i] /\ g[i - 1] = h[i - 1]
      BY <1>1, <2>2, <3>1
    <3> QED
      BY <1>4, <3>1, <3>2 DEF IsLadder
  <2> QED
    BY <2>1, <2>2
<1>10. IsLadder(g, k, tip, bp)
  BY <1>7, <1>8, <1>9 DEF IsLadder
<1> QED
  BY <1>1, <1>10

\* Two ladders agree on the rungs they share.
LEMMA LadderUnique ==
  ASSUME NEW tip, NEW bp, NEW n \in Nat, NEW m \in Nat, n <= m,
         NEW h, IsLadder(h, n, tip, bp), NEW g, IsLadder(g, m, tip, bp),
         NEW j \in 0..n
  PROVE  h[j] = g[j]
<1> DEFINE Bad == {i \in 0..n : h[i] # g[i]}
<1> SUFFICES ASSUME Bad # {} PROVE FALSE
  OBVIOUS
<1>1. PICK k \in Bad : \A i \in Bad : k <= i
  <2>1. Bad \subseteq Nat
    OBVIOUS
  <2> HIDE DEF Bad
  <2> QED
    BY <2>1, LeastNatural
<1>2. k # 0
  BY <1>1 DEF IsLadder
<1>3. k - 1 \in 0..n /\ k - 1 \notin Bad /\ k \in 1..n /\ k \in 1..m
  BY <1>1, <1>2
<1>4. h[k] = Bump(h[k - 1], bp) /\ g[k] = Bump(g[k - 1], bp)
  BY <1>3 DEF IsLadder
<1> QED
  BY <1>1, <1>3, <1>4

LEMMA TipLadderDef ==
  ASSUME NEW tip \in Nat, NEW bp \in Nat
  PROVE  TipLadder(tip, bp) =
           [n \in Nat |-> IF n = 0 THEN tip ELSE Bump(TipLadder(tip, bp)[n - 1], bp)]
<1> DEFINE Part(n) == CHOOSE h : IsLadder(h, n, tip, bp)
           f == [n \in Nat |-> Part(n)[n]]
<1>1. \A n \in Nat : IsLadder(Part(n), n, tip, bp)
  BY LadderExists
<1> HIDE DEF Part
<1>2. ASSUME NEW n \in Nat
      PROVE  f[n] = IF n = 0 THEN tip ELSE Bump(f[n - 1], bp)
  <2>1. CASE n = 0
    BY <1>1, <2>1 DEF IsLadder
  <2>2. CASE n # 0
    <3>1. n - 1 \in Nat /\ n - 1 \in 0..(n - 1) /\ n \in 1..n
      BY <2>2
    <3>2. Part(n)[n] = Bump(Part(n)[n - 1], bp)
      BY <1>1, <3>1 DEF IsLadder
    <3>3. Part(n - 1)[n - 1] = Part(n)[n - 1]
      BY <1>1, <3>1, LadderUnique
    <3> QED
      BY <2>2, <3>1, <3>2, <3>3
  <2> QED
    BY <2>1, <2>2
<1>3. f = [n \in Nat |-> IF n = 0 THEN tip ELSE Bump(f[n - 1], bp)]
  BY <1>2
<1> HIDE DEF f
<1>4. TipLadder(tip, bp) =
        CHOOSE r : r = [n \in Nat |-> IF n = 0 THEN tip ELSE Bump(r[n - 1], bp)]
  BY Zenon DEF TipLadder
<1> QED
  BY <1>3, <1>4, Zenon

-----------------------------------------------------------------------------
(* What the ladder is                                                      *)

LEMMA TipLadderType ==
  ASSUME NEW tip \in Nat, NEW bp \in Nat
  PROVE  TipLadder(tip, bp) \in [Nat -> Nat]
<1> DEFINE f == TipLadder(tip, bp)
           Bad == {n \in Nat : f[n] \notin Nat}
<1>1. f = [n \in Nat |-> IF n = 0 THEN tip ELSE Bump(f[n - 1], bp)]
  BY TipLadderDef
<1> HIDE DEF f
<1>2. Bad = {}
  <2> SUFFICES ASSUME Bad # {} PROVE FALSE
    OBVIOUS
  <2>1. PICK k \in Bad : \A m \in Bad : k <= m
    <3>1. Bad \subseteq Nat
      OBVIOUS
    <3> HIDE DEF Bad
    <3> QED
      BY <3>1, LeastNatural
  <2>2. k # 0
    BY <1>1, <2>1
  <2>3. k - 1 \in Nat /\ k - 1 \notin Bad
    BY <2>1, <2>2
  <2>4. f[k - 1] \in Nat
    BY <2>3
  <2>5. f[k] \in Nat
    BY <1>1, <2>2, <2>3, <2>4, BumpType
  <2> QED
    BY <2>1, <2>5
<1>3. \A n \in Nat : f[n] \in Nat
  BY <1>2
<1> QED
  BY <1>1, <1>3 DEF f

\* Every rung is a bump of the one below it, and no lower.
LEMMA TipLadderClimbs ==
  ASSUME NEW tip \in Nat, NEW bp \in Nat, NEW n \in Nat
  PROVE  /\ TipLadder(tip, bp)[n + 1] = Bump(TipLadder(tip, bp)[n], bp)
         /\ TipLadder(tip, bp)[n + 1] >= TipLadder(tip, bp)[n]
<1> DEFINE f == TipLadder(tip, bp)
<1>1. f \in [Nat -> Nat]
  BY TipLadderType
<1>2. f = [m \in Nat |-> IF m = 0 THEN tip ELSE Bump(f[m - 1], bp)]
  BY TipLadderDef
<1> HIDE DEF f
<1>3. f[n + 1] = Bump(f[n], bp)
  <2>1. n + 1 \in Nat /\ n + 1 # 0 /\ n + 1 - 1 = n
    OBVIOUS
  <2> QED
    BY <1>2, <2>1
<1>4. f[n + 1] >= f[n]
  BY <1>1, <1>3, BumpType
<1> QED
  BY <1>3, <1>4 DEF f

\* A higher rung bids no less.
LEMMA TipLadderMonotone ==
  ASSUME NEW tip \in Nat, NEW bp \in Nat, NEW n \in Nat, NEW m \in Nat, n <= m
  PROVE  TipLadder(tip, bp)[n] <= TipLadder(tip, bp)[m]
<1> DEFINE f == TipLadder(tip, bp)
           Bad == {k \in Nat : n <= k /\ ~(f[n] <= f[k])}
<1>1. f \in [Nat -> Nat]
  BY TipLadderType
<1>2. \A k \in Nat : f[k + 1] >= f[k]
  BY TipLadderClimbs
<1> HIDE DEF f
<1> SUFFICES ASSUME Bad # {} PROVE FALSE
  BY DEF f
<1>3. PICK k \in Bad : \A i \in Bad : k <= i
  <2>1. Bad \subseteq Nat
    OBVIOUS
  <2> HIDE DEF Bad
  <2> QED
    BY <2>1, LeastNatural
<1>4. k # n
  BY <1>1, <1>3
<1>5. k - 1 \in Nat /\ n <= k - 1 /\ k - 1 \notin Bad
  BY <1>3, <1>4
<1>6. f[n] <= f[k - 1] /\ f[k - 1] <= f[k]
  <2>1. f[(k - 1) + 1] >= f[k - 1]
    BY <1>2, <1>5
  <2>2. (k - 1) + 1 = k
    BY <1>3
  <2> QED
    BY <1>1, <1>5, <2>1, <2>2
<1> QED
  BY <1>1, <1>3, <1>5, <1>6

\* A bump of at least 15 % survives the rounding as 12.5 %, from 40 wei on.
LEMMA BumpReplaces ==
  ASSUME NEW v \in Nat, NEW bp \in Nat, v >= 40, bp >= 15
  PROVE  8 * Bump(v, bp) >= 9 * v
<1> DEFINE w == v * (100 + bp)
<1>1. w \in Nat /\ w >= v * 115
  OBVIOUS
<1> HIDE DEF w
<1>2. w \div 100 \in Nat /\ 100 * (w \div 100) >= w - 99
  BY <1>1
<1>3. 8 * (w \div 100) >= 9 * v
  BY <1>1, <1>2
<1> QED
  BY <1>3 DEF Bump, w

-----------------------------------------------------------------------------
(* Division and products                                                    *)
\* Integer division, as BigInt does it, rounds down and by less than one.
LEMMA DivisionFits ==
  ASSUME NEW g \in Nat \ {0}, NEW b \in Nat
  PROVE  /\ b \div g \in Nat
         /\ (b \div g) * g <= b
         /\ b < ((b \div g) + 1) * g
  OBVIOUS

LEMMA ProductMonotone ==
  ASSUME NEW a \in Nat, NEW b \in Nat, NEW c \in Nat, a <= b
  PROVE  a * c <= b * c
  OBVIOUS

-----------------------------------------------------------------------------
(* The clamp of computeFees()                                              *)

LEMMA ClampType ==
  ASSUME NEW base \in Nat, NEW tip \in Nat \ {0}, NEW g \in Nat \ {0}, NEW b \in Nat
  PROVE  Clamp(base, tip, g, b) \in Fees
<1>1. b \div g \in Nat
  BY DivisionFits
<1> QED
  BY <1>1 DEF Clamp, Fees

\* Once the budget pays one wei per gas, no fee exceeds it.
LEMMA ClampFits ==
  ASSUME NEW base \in Nat, NEW tip \in Nat \ {0}, NEW g \in Nat \ {0}, NEW b \in Nat,
         b >= g
  PROVE  Clamp(base, tip, g, b).maxFeePerGas * g <= b
<1> DEFINE wanted == base * 2 + tip
           afford == b \div g
           maxFee == Clamp(base, tip, g, b).maxFeePerGas
<1>1. afford \in Nat /\ afford * g <= b /\ b < (afford + 1) * g
  BY DivisionFits
<1>2. afford > 0
  <2> HIDE DEF afford
  <2>1. afford = 0 => b < g
    BY <1>1
  <2> QED
    BY <1>1, <2>1
<1>3. maxFee = IF wanted > afford THEN afford ELSE wanted
  BY <1>1, <1>2 DEF Clamp
<1>4. wanted \in Nat
  OBVIOUS
<1> HIDE DEF wanted, afford, maxFee
<1>5. maxFee \in Nat /\ maxFee <= afford
  BY <1>1, <1>3, <1>4
<1>6. maxFee * g <= afford * g
  BY <1>1, <1>5, ProductMonotone
<1> QED
  BY <1>1, <1>5, <1>6 DEF maxFee

\* The tip is positive and within the fee, cut back or not.
LEMMA ClampOrdered ==
  ASSUME NEW base \in Nat, NEW tip \in Nat \ {0}, NEW g \in Nat \ {0}, NEW b \in Nat
  PROVE  LET fees == Clamp(base, tip, g, b)
         IN  0 < fees.maxPriorityFeePerGas /\ fees.maxPriorityFeePerGas <= fees.maxFeePerGas
<1>1. b \div g \in Nat
  BY DivisionFits
<1> QED
  BY <1>1 DEF Clamp

\* It is the budget, and nothing else, that makes a fee unaffordable.
LEMMA ClampRefuses ==
  ASSUME NEW base \in Nat, NEW tip \in Nat \ {0}, NEW g \in Nat \ {0}, NEW b \in Nat,
         ~Clamp(base, tip, g, b).affordable
  PROVE  b < g * (base + 1)
<1> DEFINE afford == b \div g
<1>1. afford \in Nat /\ b < (afford + 1) * g
  BY DivisionFits
<1>2. afford <= base
  <2> DEFINE wanted == base * 2 + tip
             cut    == afford > 0 /\ wanted > afford
             maxFee == IF cut THEN afford ELSE wanted
  <2>1. Clamp(base, tip, g, b).affordable = (maxFee > base /\ maxFee > 0)
    <3>1. g > 0
      OBVIOUS
    <3> QED
      BY <3>1 DEF Clamp
  <2>2. wanted \in Nat /\ wanted > base
    OBVIOUS
  <2> HIDE DEF wanted, afford
  <2>3. maxFee \in Nat
    BY <1>1, <2>2
  <2>4. ~(maxFee > base /\ maxFee > 0)
    BY <2>1, Zenon
  <2> QED
    BY <1>1, <2>2, <2>3, <2>4
<1> HIDE DEF afford
<1>3. (afford + 1) * g <= (base + 1) * g
  BY <1>1, <1>2, ProductMonotone
<1>4. (base + 1) * g = g * (base + 1)
  OBVIOUS
<1>5. /\ (afford + 1) * g \in Nat
      /\ (base + 1) * g \in Nat
  BY <1>1
<1> QED
  BY <1>1, <1>3, <1>4, <1>5

-----------------------------------------------------------------------------
(* The loop                                                                *)

\* The bumped tip of attempt n, before the clamp.
RungTip(q, n) == AtLeastOne(TipLadder(q.tip, BumpPercent)[n])

LEMMA RungIsPositive ==
  ASSUME NEW q \in Quotes, NEW n \in Nat
  PROVE  RungTip(q, n) \in Nat \ {0}
<1>1. TipLadder(q.tip, BumpPercent)[n] \in Nat
  <2>1. q.tip \in Nat /\ BumpPercent \in Nat
    BY QuotesAssumption, OptsAssumption DEF Quotes
  <2>2. TipLadder(q.tip, BumpPercent) \in [Nat -> Nat]
    BY <2>1, TipLadderType
  <2> QED
    BY <2>2
<1> QED
  BY <1>1 DEF RungTip, AtLeastOne

\* What one iteration signs, or refuses, is a clamped rung.
LEMMA AttemptSigns ==
  ASSUME TypeOK, NEW q \in Quotes, NEW counted \in BOOLEAN, Attempt(q, counted)
  PROVE  LET fees == Clamp(q.base, RungTip(q, budgeted), gas, budget)
         IN  /\ quote' = q /\ gas' = gas /\ budget' = budget
             /\ \/ /\ stopped' = "continue"
                   /\ fees.affordable
                   /\ budgeted < MaxAttempts
                   /\ signed' = [attempt |-> budgeted + 1, fees |-> fees]
                   /\ budgeted' \in {budgeted, budgeted + 1}
                \/ /\ stopped' = "max_attempts"
                   /\ UNCHANGED <<signed, budgeted>>
                \/ /\ stopped' = "budget"
                   /\ ~fees.affordable
                   /\ UNCHANGED <<signed, budgeted>>
<1> DEFINE fees == Clamp(q.base, RungTip(q, budgeted), gas, budget)
<1>1. budgeted \in Nat /\ MaxAttempts \in Nat
  BY OptsAssumption DEF TypeOK
<1>2. ComputeFees(budgeted + 1, q, gas, budget, BumpPercent) = fees
  <2>1. Bumps(budgeted + 1) = budgeted
    BY <1>1 DEF Bumps
  <2> QED
    BY <2>1, Zenon DEF ComputeFees, RungTip
<1> HIDE DEF fees
<1>3. ShouldStop(budgeted + 1, 0, NoError, fees.affordable, Opts) =
        IF budgeted + 1 > MaxAttempts THEN "max_attempts"
        ELSE IF ~fees.affordable THEN "budget" ELSE "continue"
  BY DEF ShouldStop, Opts
<1>4. /\ stopped' = ShouldStop(budgeted + 1, 0, NoError, fees.affordable, Opts)
      /\ quote' = q /\ gas' = gas /\ budget' = budget
      /\ IF stopped' = "continue"
         THEN /\ signed' = [attempt |-> budgeted + 1, fees |-> fees]
              /\ budgeted' = IF counted THEN budgeted + 1 ELSE budgeted
         ELSE UNCHANGED <<signed, budgeted>>
  BY <1>2 DEF Attempt
<1> QED
  BY <1>1, <1>3, <1>4 DEF fees

\* The conjuncts a step has to preserve together: a signature is never touched
\* without the quote and the template it was computed from.
LoopInv == TypeOK /\ BudgetCeilingAboveGas /\ SignedIsValid /\ RefusedForCause

LEMMA LoopInvInit == Init => LoopInv
  BY QuotesAssumption, TargetAssumption, OptsAssumption
     DEF Init, LoopInv, TypeOK, Fees, NoFees, BudgetCeilingAboveGas, BudgetCeiling,
         SignedIsValid, RefusedForCause

LEMMA LoopInvStep ==
  ASSUME LoopInv, [Next]_vars
  PROVE  LoopInv'
<1>1. CASE UNCHANGED vars
  BY <1>1 DEF vars, LoopInv, TypeOK, BudgetCeilingAboveGas, BudgetCeiling, Spent,
              SignedIsValid, RefusedForCause
<1>2. CASE Stopped
  BY <1>2 DEF Stopped, vars, LoopInv, TypeOK, BudgetCeilingAboveGas, BudgetCeiling, Spent,
              SignedIsValid, RefusedForCause
<1>3. ASSUME NEW q \in Quotes, NEW counted \in BOOLEAN, Attempt(q, counted)
      PROVE  LoopInv'
  <2> DEFINE tip  == RungTip(q, budgeted)
             fees == Clamp(q.base, tip, gas, budget)
  <2>1. /\ q.base \in Nat /\ gas \in Nat \ {0} /\ budget \in Nat
        /\ budgeted \in 0..MaxAttempts /\ MaxAttempts \in Nat
    BY QuotesAssumption, TargetAssumption, OptsAssumption DEF LoopInv, TypeOK, Quotes
  <2>2. tip \in Nat \ {0}
    BY <2>1, RungIsPositive
  <2>3. /\ quote' = q /\ gas' = gas /\ budget' = budget
        /\ \/ /\ stopped' = "continue"
              /\ fees.affordable
              /\ budgeted < MaxAttempts
              /\ signed' = [attempt |-> budgeted + 1, fees |-> fees]
              /\ budgeted' \in {budgeted, budgeted + 1}
           \/ /\ stopped' = "max_attempts"
              /\ UNCHANGED <<signed, budgeted>>
           \/ /\ stopped' = "budget"
              /\ ~fees.affordable
              /\ UNCHANGED <<signed, budgeted>>
    BY <1>3, AttemptSigns DEF LoopInv
  <2> HIDE DEF tip
  <2>4. /\ fees \in Fees
        /\ budget >= gas => fees.maxFeePerGas * gas <= budget
        /\ 0 < fees.maxPriorityFeePerGas
        /\ fees.maxPriorityFeePerGas <= fees.maxFeePerGas
        /\ ~fees.affordable => budget < gas * (q.base + 1)
    BY <2>1, <2>2, ClampType, ClampFits, ClampOrdered, ClampRefuses
  <2> HIDE DEF fees
  <2>5. TypeOK'
    BY <2>1, <2>3, <2>4 DEF LoopInv, TypeOK
  <2>6. BudgetCeilingAboveGas'
    BY <2>3, <2>4 DEF LoopInv, BudgetCeilingAboveGas, BudgetCeiling, Spent
  <2>7. SignedIsValid'
    BY <2>3, <2>4 DEF LoopInv, SignedIsValid
  <2>8. RefusedForCause'
    BY <2>3, <2>4 DEF LoopInv, RefusedForCause
  <2> QED
    BY <2>5, <2>6, <2>7, <2>8 DEF LoopInv
<1> QED
  BY <1>1, <1>2, <1>3 DEF Next

LEMMA LoopInvariant == Spec => []LoopInv
<1>1. LoopInv /\ [Next]_vars => LoopInv'
  BY LoopInvStep
<1> QED
  BY LoopInvInit, <1>1, PTL DEF Spec

\* Type correctness of the loop: the ladder yields whole numbers of wei and the
\* attempts that count stay within maxAttempts.
THEOREM TypeCorrect == Spec => []TypeOK
  BY LoopInvariant, PTL DEF LoopInv

\* From one wei per gas on, nothing computeFees() lets the loop sign can cost
\* more than the user's budget, at any rung and under any quote.
THEOREM BudgetIsKept == Spec => []BudgetCeilingAboveGas
  BY LoopInvariant, PTL DEF LoopInv

\* Whatever is signed is acceptable to a node and pays the quoted base fee.
THEOREM SignaturesAreValid == Spec => []SignedIsValid
  BY LoopInvariant, PTL DEF LoopInv

\* shouldStop() reports "budget" only when the budget really is too small.
THEOREM RefusalsAreJustified == Spec => []RefusedForCause
  BY LoopInvariant, PTL DEF LoopInv

-----------------------------------------------------------------------------
(* From one signature to the next                                          *)

\* While the loop runs, the last signature is a rung no higher than the one the
\* next attempt takes, computed from the quote that is still the last one.
SignedFromQuote ==
  stopped = "continue" /\ signed.attempt > 0 =>
    /\ signed.attempt - 1 <= budgeted
    /\ signed.fees = Clamp(quote.base, RungTip(quote, signed.attempt - 1), gas, budget)

LEMMA SignedFromQuoteStep ==
  ASSUME LoopInv, SignedFromQuote, [Next]_vars
  PROVE  SignedFromQuote'
<1>1. CASE UNCHANGED vars \/ Stopped
  BY <1>1 DEF Stopped, vars, SignedFromQuote, RungTip
<1>2. ASSUME NEW q \in Quotes, NEW counted \in BOOLEAN, Attempt(q, counted)
      PROVE  SignedFromQuote'
  <2> DEFINE fees == Clamp(q.base, RungTip(q, budgeted), gas, budget)
  <2>1. budgeted \in Nat
    BY DEF LoopInv, TypeOK
  <2>2. CASE stopped' # "continue"
    BY <2>2 DEF SignedFromQuote
  <2>3. CASE stopped' = "continue"
    <3>1. /\ quote' = q /\ gas' = gas /\ budget' = budget
          /\ signed' = [attempt |-> budgeted + 1, fees |-> fees]
          /\ budgeted' \in {budgeted, budgeted + 1}
      BY <1>2, <2>3, AttemptSigns DEF LoopInv
    <3> HIDE DEF fees
    <3>2. signed'.attempt - 1 = budgeted /\ signed'.fees = fees
      BY <2>1, <3>1
    <3>3. signed'.attempt - 1 <= budgeted'
      BY <2>1, <3>1, <3>2
    <3>4. signed'.fees = Clamp(quote'.base, RungTip(quote', signed'.attempt - 1), gas', budget')
      BY <3>1, <3>2, Zenon DEF fees
    <3> QED
      BY <3>3, <3>4 DEF SignedFromQuote, RungTip
  <2> QED
    BY <2>2, <2>3
<1> QED
  BY <1>1, <1>2 DEF Next

\* The clamp keeps the order of the tips it is given ...
LEMMA ClampMonotone ==
  ASSUME NEW base \in Nat, NEW g \in Nat \ {0}, NEW b \in Nat,
         NEW low \in Nat \ {0}, NEW high \in Nat \ {0}, low <= high
  PROVE  LET f1 == Clamp(base, low, g, b)
             f2 == Clamp(base, high, g, b)
         IN  /\ f2.maxFeePerGas >= f1.maxFeePerGas
             /\ f2.maxPriorityFeePerGas >= f1.maxPriorityFeePerGas
<1> DEFINE afford == b \div g
<1>1. afford \in Nat
  BY DivisionFits
<1>2. g > 0
  OBVIOUS
<1>3. ASSUME NEW tip \in {low, high}
      PROVE  LET cut    == afford > 0 /\ base * 2 + tip > afford
                 maxFee == IF cut THEN afford ELSE base * 2 + tip
             IN  /\ Clamp(base, tip, g, b).maxFeePerGas = maxFee
                 /\ Clamp(base, tip, g, b).maxPriorityFeePerGas =
                      IF cut /\ tip > maxFee THEN maxFee ELSE tip
  BY <1>2 DEF Clamp
<1> HIDE DEF afford
<1> QED
  BY <1>1, <1>3

\* ... never raises a tip, and below the ceiling leaves it alone.
LEMMA ClampTip ==
  ASSUME NEW base \in Nat, NEW tip \in Nat \ {0}, NEW g \in Nat \ {0}, NEW b \in Nat
  PROVE  LET fees == Clamp(base, tip, g, b)
         IN  /\ fees.maxPriorityFeePerGas <= tip
             /\ ~fees.atBudgetCeiling => fees.maxPriorityFeePerGas = tip
<1> DEFINE afford == b \div g
           cut    == afford > 0 /\ base * 2 + tip > afford
           maxFee == IF cut THEN afford ELSE base * 2 + tip
<1>1. afford \in Nat
  BY DivisionFits
<1>2. g > 0
  OBVIOUS
<1>3. /\ Clamp(base, tip, g, b).maxPriorityFeePerGas =
           IF cut /\ tip > maxFee THEN maxFee ELSE tip
      /\ Clamp(base, tip, g, b).atBudgetCeiling = cut
  BY <1>2 DEF Clamp
<1> HIDE DEF afford, maxFee
<1>4. maxFee \in Nat
  BY <1>1 DEF maxFee
<1>5. ~Clamp(base, tip, g, b).atBudgetCeiling => ~cut
  BY <1>3, Zenon
<1> HIDE DEF cut
<1> QED
  BY <1>3, <1>4, <1>5

LEMMA RungClimbs ==
  ASSUME NEW q \in Quotes, NEW n \in Nat, NEW m \in Nat, n <= m
  PROVE  /\ RungTip(q, n) <= RungTip(q, m)
         /\ BumpPercent >= 15 /\ RungTip(q, n) >= 40
              => 8 * RungTip(q, n + 1) >= 9 * RungTip(q, n)
<1> DEFINE f == TipLadder(q.tip, BumpPercent)
<1>1. q.tip \in Nat /\ BumpPercent \in Nat
  BY QuotesAssumption, OptsAssumption DEF Quotes
<1>2. f \in [Nat -> Nat]
  BY <1>1, TipLadderType
<1>3. f[n] <= f[m]
  BY <1>1, TipLadderMonotone
<1>4. f[n + 1] = Bump(f[n], BumpPercent)
  BY <1>1, TipLadderClimbs
<1>5. /\ RungTip(q, n) = AtLeastOne(f[n])
      /\ RungTip(q, m) = AtLeastOne(f[m])
      /\ RungTip(q, n + 1) = AtLeastOne(f[n + 1])
  BY DEF RungTip
<1> HIDE DEF f
<1>6. f[n] >= 40 /\ BumpPercent >= 15 => 8 * f[n + 1] >= 9 * f[n]
  BY <1>1, <1>2, <1>4, BumpReplaces
<1> QED
  BY <1>2, <1>3, <1>5, <1>6 DEF AtLeastOne

\* The two facts a step that signs again owes to the signature before it.
LEMMA SignedClimbs ==
  ASSUME LoopInv, SignedFromQuote, [Next]_vars, signed.attempt > 0, quote' = quote
  PROVE  /\ signed'.fees.maxFeePerGas >= signed.fees.maxFeePerGas
         /\ signed'.fees.maxPriorityFeePerGas >= signed.fees.maxPriorityFeePerGas
         /\ /\ BumpPercent >= 15
            /\ signed'.attempt = signed.attempt + 1
            /\ ~signed'.fees.atBudgetCeiling
            /\ signed.fees.maxPriorityFeePerGas >= 40
            => 8 * signed'.fees.maxPriorityFeePerGas >= 9 * signed.fees.maxPriorityFeePerGas
<1>1. /\ signed.fees.maxFeePerGas \in Nat /\ signed.fees.maxPriorityFeePerGas \in Nat
      /\ signed.attempt \in Nat /\ budgeted \in Nat
      /\ quote.base \in Nat /\ gas \in Nat \ {0} /\ budget \in Nat
      /\ quote \in Quotes
  <2>1. /\ signed.fees \in Fees
        /\ signed.attempt \in Nat /\ budgeted \in Nat /\ quote \in Quotes
    BY OptsAssumption DEF LoopInv, TypeOK
  <2>2. gas \in Nat \ {0} /\ budget \in Nat
    BY TargetAssumption DEF LoopInv, TypeOK
  <2>3. quote.base \in Nat
    BY <2>1, QuotesAssumption DEF Quotes
  <2>4. signed.fees.maxFeePerGas \in Nat /\ signed.fees.maxPriorityFeePerGas \in Nat
    BY <2>1 DEF Fees
  <2> QED
    BY <2>1, <2>2, <2>3, <2>4
<1>2. CASE signed' = signed
  BY <1>1, <1>2
<1>3. ASSUME signed' # signed
      PROVE  /\ stopped = "continue"
             /\ signed' = [attempt |-> budgeted + 1,
                           fees |-> Clamp(quote.base, RungTip(quote, budgeted), gas, budget)]
  <2>1. PICK q \in Quotes, counted \in BOOLEAN : Attempt(q, counted)
    BY <1>3 DEF Next, Stopped, vars
  <2>2. stopped = "continue"
    BY <2>1 DEF Attempt
  <2>3. /\ quote' = q
        /\ signed' = [attempt |-> budgeted + 1,
                      fees |-> Clamp(q.base, RungTip(q, budgeted), gas, budget)]
    BY <1>3, <2>1, AttemptSigns DEF LoopInv
  <2> QED
    BY <2>2, <2>3
<1>4. CASE signed' # signed
  <2> DEFINE n    == signed.attempt - 1
             low  == RungTip(quote, n)
             high == RungTip(quote, budgeted)
             f1   == Clamp(quote.base, low, gas, budget)
             f2   == Clamp(quote.base, high, gas, budget)
  <2>1. n \in Nat /\ n <= budgeted /\ signed.fees = f1
    BY <1>1, <1>3, <1>4 DEF SignedFromQuote
  <2>2. signed'.attempt = budgeted + 1 /\ signed'.fees = f2
    BY <1>3, <1>4
  <2>3. low \in Nat \ {0} /\ high \in Nat \ {0} /\ low <= high
    BY <1>1, <2>1, RungIsPositive, RungClimbs
  <2>4. budgeted = n + 1 /\ BumpPercent >= 15 /\ low >= 40 => 8 * high >= 9 * low
    BY <1>1, <2>1, RungClimbs
  <2> HIDE DEF low, high
  <2>5. /\ f2.maxFeePerGas >= f1.maxFeePerGas
        /\ f2.maxPriorityFeePerGas >= f1.maxPriorityFeePerGas
        /\ f1.maxPriorityFeePerGas <= low
        /\ ~f2.atBudgetCeiling => f2.maxPriorityFeePerGas = high
    BY <1>1, <2>3, ClampMonotone, ClampTip
  <2> HIDE DEF f1, f2
  <2>6. signed'.attempt = signed.attempt + 1 => budgeted = n + 1
    BY <1>1, <2>1, <2>2
  <2> QED
    BY <1>1, <2>1, <2>2, <2>3, <2>4, <2>5, <2>6
<1> QED
  BY <1>2, <1>4

LEMMA SignedFromQuoteHolds == Spec => [](LoopInv /\ SignedFromQuote)
<1>1. Init => SignedFromQuote
  BY DEF Init, SignedFromQuote
<1>2. LoopInv /\ SignedFromQuote /\ [Next]_vars => SignedFromQuote'
  BY SignedFromQuoteStep
<1>3. LoopInv /\ [Next]_vars => LoopInv'
  BY LoopInvStep
<1> QED
  BY <1>1, <1>2, <1>3, LoopInvInit, PTL DEF Spec

\* Under an unchanged quote a later signature bids no less, cut back or not.
THEOREM BidsNeverDrop == Spec => NeverStepsDown
<1>1. LoopInv /\ SignedFromQuote /\ [Next]_vars =>
        [(signed.attempt > 0 /\ quote' = quote) =>
            /\ signed'.fees.maxFeePerGas >= signed.fees.maxFeePerGas
            /\ signed'.fees.maxPriorityFeePerGas >= signed.fees.maxPriorityFeePerGas]_vars
  BY SignedClimbs
<1> QED
  BY <1>1, SignedFromQuoteHolds, PTL DEF Spec, NeverStepsDown

\* A bump of 15 % or more is a bump nodes accept as a replacement, as long as the
\* budget does not cut it and the tip is not so small that rounding does.
THEOREM BumpsAreReplacements == BumpPercent >= 15 => (Spec => LadderClimbs)
<1> SUFFICES ASSUME BumpPercent >= 15 PROVE Spec => LadderClimbs
  OBVIOUS
<1>1. LoopInv /\ SignedFromQuote /\ [Next]_vars =>
        [/\ signed.attempt > 0 /\ quote' = quote
         /\ signed'.attempt = signed.attempt + 1
         /\ ~signed'.fees.atBudgetCeiling
         /\ signed.fees.maxPriorityFeePerGas >= 40
         => 8 * signed'.fees.maxPriorityFeePerGas >= 9 * signed.fees.maxPriorityFeePerGas]_vars
  BY SignedClimbs
<1> QED
  BY <1>1, SignedFromQuoteHolds, PTL DEF Spec, LadderClimbs
=============================================================================
