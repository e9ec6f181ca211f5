------------------------- MODULE ProviderPoolProofs -------------------------
(***************************************************************************)
(* Proofs about ProviderPool for every number of endpoints, calls and      *)
(* attempts.                                                               *)
(*                                                                         *)
(* rotate() leaves whichever endpoint is current, so each call that was    *)
(* asking the one that broke pushes the others one further: with at least  *)
(* as many calls as endpoints they come full circle to it.  The theorems   *)
(* about an outage are about fewer calls than endpoints.                   *)
(***************************************************************************)
EXTENDS ProviderPool, FiniteSetTheorems, WellFoundedInduction, TLAPS

USE EndpointsAssumption, CallsAssumption

-----------------------------------------------------------------------------
(* current()                                                               *)

LEMMA LeastNatural ==
  ASSUME NEW T, T \subseteq Nat, T # {}
  PROVE  \E x \in T : \A y \in T : x <= y
<1> DEFINE R == OpToRel(<, Nat)
<1>1. IsWellFoundedOn(R, Nat)
  BY NatLessThanWellFounded
<1>2. R = {ss \in Nat \X Nat : ss[1] < ss[2]}
  BY DEF OpToRel
<1> HIDE DEF R
<1>3. PICK x \in T : \A y \in T : ~(<<y, x>> \in R)
  BY <1>1, WFMin
<1>4. \A y \in T : ~(y < x)
  BY <1>2, <1>3
<1> QED
  BY <1>4

LEMMA AfterTyped ==
  ASSUME NEW i \in Endpoints, NEW k \in Nat
  PROVE  After(i, k) \in Endpoints
BY DEF After, Endpoints

\* From any endpoint every other one is some steps ahead.
LEMMA AllInReach ==
  ASSUME NEW i \in Endpoints, NEW e \in Endpoints
  PROVE  \E k \in Endpoints : After(i, k) = e
<1>1. CASE i <= e
  <2>1. e - i \in Endpoints /\ i + (e - i) = e /\ e % N = e
    BY <1>1 DEF Endpoints
  <2>. QED  BY <2>1 DEF After
<1>2. CASE e < i
  <2>1. e + N - i \in Endpoints /\ i + (e + N - i) = e + N /\ (e + N) % N = e
    BY <1>2 DEF Endpoints
  <2>. QED  BY <2>1 DEF After
<1>. QED  BY <1>1, <1>2 DEF Endpoints

LEMMA CurrentTyped ==
  ASSUME NEW i \in Endpoints, NEW h
  PROVE  Current(i, h) \in Endpoints
<1>1. CASE \E e \in Endpoints : h[e]
  <2> DEFINE T == {k \in Endpoints : h[After(i, k)]}
  <2>1. T \subseteq Nat /\ T # {}
    <3>1. PICK e \in Endpoints : h[e]
      BY <1>1
    <3>2. PICK k \in Endpoints : After(i, k) = e
      BY AllInReach
    <3>. QED  BY <3>1, <3>2 DEF Endpoints
  <2>2. PICK k \in T : \A j \in T : k <= j
    BY <2>1, LeastNatural
  <2>3. k \in Endpoints /\ h[After(i, k)]
    OBVIOUS
  <2>4. \A j \in Endpoints : j < k => ~h[After(i, j)]
    BY <2>2 DEF Endpoints
  <2> HIDE DEF T
  <2> DEFINE c == CHOOSE m \in Endpoints :
                    /\ h[After(i, m)]
                    /\ \A j \in Endpoints : j < m => ~h[After(i, j)]
  <2>5. c \in Endpoints
    BY <2>3, <2>4
  <2>6. c \in Nat
    BY <2>5 DEF Endpoints
  <2>7. Current(i, h) = After(i, c)
    BY <1>1 DEF Current
  <2> HIDE DEF c
  <2>. QED  BY <2>6, <2>7, AfterTyped
<1>2. CASE ~ \E e \in Endpoints : h[e]
  BY <1>2, AfterTyped DEF Current
<1>. QED  BY <1>1, <1>2

\* A healthy endpoint stays the current one.
LEMMA CurrentStays ==
  ASSUME NEW i \in Endpoints, NEW h, h[i]
  PROVE  Current(i, h) = i
<1>1. 0 \in Endpoints /\ After(i, 0) = i
  BY DEF Endpoints, After
<1> DEFINE c == CHOOSE m \in Endpoints :
                  /\ h[After(i, m)]
                  /\ \A j \in Endpoints : j < m => ~h[After(i, j)]
<1>2. h[After(i, 0)] /\ \A j \in Endpoints : j < 0 => ~h[After(i, j)]
  BY <1>1 DEF Endpoints
<1>3. c \in Endpoints /\ \A j \in Endpoints : j < c => ~h[After(i, j)]
  BY <1>1, <1>2
<1>4. Current(i, h) = After(i, c)
  BY DEF Current
<1> HIDE DEF c
<1>5. ~(0 < c)
  BY <1>1, <1>2, <1>3
<1>6. c = 0
  BY <1>3, <1>5 DEF Endpoints
<1>. QED  BY <1>1, <1>4, <1>6

\* An unhealthy one gives way to the next, when that is healthy.
LEMMA CurrentMoves ==
  ASSUME NEW i \in Endpoints, i + 1 \in Endpoints, NEW h, ~h[i], h[i + 1]
  PROVE  Current(i, h) = i + 1
<1>1. /\ 0 \in Endpoints /\ After(i, 0) = i
      /\ 1 \in Endpoints /\ After(i, 1) = i + 1
  BY DEF Endpoints, After
<1> DEFINE c == CHOOSE m \in Endpoints :
                  /\ h[After(i, m)]
                  /\ \A j \in Endpoints : j < m => ~h[After(i, j)]
<1>2. h[After(i, 1)] /\ \A j \in Endpoints : j < 1 => ~h[After(i, j)]
  <2>1. \A j \in Endpoints : j < 1 => j = 0
    BY DEF Endpoints
  <2>. QED  BY <1>1, <2>1
<1>3. c \in Endpoints /\ h[After(i, c)] /\ \A j \in Endpoints : j < c => ~h[After(i, j)]
  BY <1>1, <1>2
<1>4. Current(i, h) = After(i, c)
  BY DEF Current
<1> HIDE DEF c
<1>5. ~(1 < c) /\ c # 0
  BY <1>1, <1>2, <1>3
<1>6. c = 1
  BY <1>3, <1>5 DEF Endpoints
<1>. QED  BY <1>1, <1>4, <1>6

-----------------------------------------------------------------------------
(* Types                                                                   *)

LEMMA BlameTyped ==
  ASSUME TypeOK, NEW e \in Endpoints, Blame(e)
  PROVE  /\ healthy' \in [Endpoints -> BOOLEAN]
         /\ failures' \in [Endpoints -> 0..2]
<1>1. Raise(failures[e]) \in 0..2
  BY DEF TypeOK, Raise
<1>2. failures' = [failures EXCEPT ![e] = Raise(failures[e])]
  BY DEF Blame
<1>3. failures' \in [Endpoints -> 0..2]
  BY <1>1, <1>2 DEF TypeOK
<1>4. (healthy[e] /\ failures'[e] < 2) \in BOOLEAN
  OBVIOUS
<1>5. healthy' = [healthy EXCEPT ![e] = healthy[e] /\ failures'[e] < 2]
  BY DEF Blame
<1>6. healthy' \in [Endpoints -> BOOLEAN]
  BY <1>4, <1>5 DEF TypeOK
<1>. QED  BY <1>3, <1>6

LEMMA AskTyped ==
  ASSUME TypeOK, NEW c \in Calls, NEW e \in Endpoints, NEW n \in 0..Attempts[c],
         Ask(c, e, n)
  PROVE  /\ idx' \in Endpoints
         /\ entry' \in [Calls -> Endpoints]
         /\ call' \in [Calls -> {"idle", "asking", "answered", "refused", "exhausted"}]
         /\ left' \in [Calls -> Nat] /\ \A d \in Calls : left'[d] <= Attempts[d]
BY DEF TypeOK, Ask
LEMMA InitTyped == Init => TypeOK
BY DEF Init, TypeOK, Endpoints

LEMMA CallTyped ==
  ASSUME TypeOK, NEW c \in Calls, Begin(c) \/ CallStep(c)
  PROVE  TypeOK'
<1>1. CASE Begin(c)
  <2>1. Ask(c, Current(idx, healthy), Attempts[c]) /\ UNCHANGED <<endpointVars, probing>>
    BY <1>1 DEF Begin
  <2>2. Current(idx, healthy) \in Endpoints /\ Attempts[c] \in 0..Attempts[c]
    BY CurrentTyped DEF TypeOK
  <2>. QED  BY <2>1, <2>2, AskTyped DEF TypeOK, endpointVars
<1>2. CASE Answered(c)
  BY <1>2 DEF Answered, TypeOK
<1>3. CASE Refused(c)
  BY <1>3 DEF Refused, TypeOK, endpointVars
<1>4. CASE Failed(c)
  <2>1. /\ healthy' \in [Endpoints -> BOOLEAN]
        /\ failures' \in [Endpoints -> 0..2]
        /\ UNCHANGED probing
    BY <1>4, BlameTyped DEF Failed, TypeOK
  <2>2. After(idx, 1) \in Endpoints
    BY AfterTyped DEF TypeOK
  <2>3. CASE left[c] > 1
    <3>1. Ask(c, Current(After(idx, 1), healthy'), left[c] - 1)
      BY <1>4, <2>3 DEF Failed
    <3>2. Current(After(idx, 1), healthy') \in Endpoints
      BY <2>2, CurrentTyped
    <3>3. left[c] \in 0..Attempts[c] /\ Attempts[c] \in Nat
      BY DEF TypeOK
    <3>4. left[c] - 1 \in 0..Attempts[c]
      BY <2>3, <3>3
    <3>. QED  BY <2>1, <3>1, <3>2, <3>4, AskTyped DEF TypeOK
  <2>4. CASE ~(left[c] > 1)
    <3>1. /\ idx' = After(idx, 1)
          /\ call' = [call EXCEPT ![c] = "exhausted"]
          /\ left' = [left EXCEPT ![c] = 0]
          /\ UNCHANGED entry
      BY <1>4, <2>4 DEF Failed
    <3>2. \A d \in Calls : Attempts[d] \in Nat
      OBVIOUS
    <3>. QED  BY <2>1, <2>2, <3>1, <3>2 DEF TypeOK
  <2>. QED  BY <2>3, <2>4
<1>. QED  BY <1>1, <1>2, <1>3, <1>4 DEF CallStep

LEMMA ProbeTyped ==
  ASSUME TypeOK, Tick \/ \E e \in Endpoints : ProbeAnswered(e) \/ ProbeFailed(e)
  PROVE  TypeOK'
<1>1. CASE Tick
  BY <1>1 DEF Tick, TypeOK, endpointVars, callVars
<1>2. ASSUME NEW e \in Endpoints, ProbeAnswered(e)
      PROVE  TypeOK'
  BY <1>2 DEF ProbeAnswered, TypeOK, callVars
<1>3. ASSUME NEW e \in Endpoints, ProbeFailed(e)
      PROVE  TypeOK'
  BY <1>3, BlameTyped DEF ProbeFailed, TypeOK, callVars
<1>. QED  BY <1>1, <1>2, <1>3

LEMMA StepTyped == TypeOK /\ [Next]_vars => TypeOK'
<1>. SUFFICES ASSUME TypeOK, [Next]_vars PROVE TypeOK'
  OBVIOUS
<1>1. CASE UNCHANGED vars
  BY <1>1 DEF vars, TypeOK
<1>2. CASE Next
  BY <1>2, CallTyped, ProbeTyped DEF Next
<1>. QED  BY <1>1, <1>2

\* Type correctness of ProviderPool: the index stays on the list whichever of the
\* calls that share it turns it, and no call makes more attempts than it is given.
THEOREM TypeCorrect == Spec => []TypeOK
BY InitTyped, StepTyped, PTL DEF Spec

-----------------------------------------------------------------------------
(* One outage                                                              *)

\* The endpoint the pool starts with is the one that breaks, alone, and there are
\* more endpoints than calls at a time; or another one breaks, or none.
OneOutage ==
  0 \in Flaky =>
    /\ Flaky = {0}
    /\ IsFiniteSet(Calls)
    /\ Cardinality(Calls) < N

\* The calls whose request is out at an endpoint that may break.
Late == {c \in Calls : call[c] = "asking" /\ entry[c] \in Flaky}

\* The pool leaves the first endpoint only because it broke, and then each call
\* that is late there can push it one further, not past the end.  The endpoints
\* from the current one on have no failures: what is blamed is left behind.
Ahead ==
  /\ idx # 0 => 0 \in Flaky /\ idx + Cardinality(Late) <= Cardinality(Calls)
  /\ \A e \in Endpoints \ Flaky :
       healthy[e] /\ failures[e] < 2 /\ (idx <= e => failures[e] = 0)
  /\ \A c \in Late : entry[c] = 0 /\ left[c] = Attempts[c]

PoolInv == TypeOK /\ Ahead /\ OutageIsNonEvent

LEMMA InitAhead == Init => Ahead /\ OutageIsNonEvent
BY DEF Init, Ahead, Late, OutageIsNonEvent, Endpoints

\* Of a healthy endpoint one failure is forgiven.
LEMMA BlameSpares ==
  ASSUME PoolInv, NEW e \in Endpoints, Blame(e), e \notin Flaky => idx <= e,
         NEW i \in Endpoints, e \notin Flaky => e < i, idx <= i
  PROVE  \A d \in Endpoints \ Flaky :
           healthy'[d] /\ failures'[d] < 2 /\ (i <= d => failures'[d] = 0)
<1>1. failures' = [failures EXCEPT ![e] = Raise(failures[e])]
  BY DEF Blame
<1>2. healthy' = [healthy EXCEPT ![e] = healthy[e] /\ failures'[e] < 2]
  BY DEF Blame
<1>. SUFFICES ASSUME NEW d \in Endpoints \ Flaky
              PROVE  healthy'[d] /\ failures'[d] < 2 /\ (i <= d => failures'[d] = 0)
  OBVIOUS
<1>3. /\ healthy[d] /\ failures[d] < 2 /\ (idx <= d => failures[d] = 0)
      /\ idx \in Nat /\ i \in Nat /\ d \in Nat /\ e \in Nat
  BY DEF PoolInv, Ahead, TypeOK, Endpoints
<1>4. CASE d # e
  <2>1. failures'[d] = failures[d] /\ healthy'[d] = healthy[d]
    BY <1>1, <1>2, <1>4 DEF PoolInv, TypeOK
  <2>. QED  BY <1>3, <2>1
<1>5. CASE d = e
  <2>1. failures[e] = 0 /\ e < i
    BY <1>3, <1>5
  <2>2. failures'[e] = 1
    BY <1>1, <2>1 DEF PoolInv, TypeOK, Raise
  <2>3. healthy'[e] = (healthy[e] /\ failures'[e] < 2)
    BY <1>2 DEF PoolInv, TypeOK
  <2>4. healthy[e] /\ failures'[e] < 2
    BY <1>3, <1>5, <2>2
  <2>5. healthy'[e]
    BY <2>3, <2>4
  <2>6. ~(i <= e)
    BY <1>3, <2>1
  <2>. QED  BY <1>5, <2>4, <2>5, <2>6
<1>. QED  BY <1>4, <1>5

LEMMA LateCounted ==
  ASSUME OneOutage, 0 \in Flaky
  PROVE  /\ IsFiniteSet(Late) /\ Cardinality(Late) \in Nat
         /\ Cardinality(Calls) \in Nat /\ Cardinality(Late) <= Cardinality(Calls)
<1>1. IsFiniteSet(Calls) /\ Late \in SUBSET Calls
  BY DEF OneOutage, Late
<1>. QED  BY <1>1, FS_Subset, FS_CardinalityType

\* A call that asks a good endpoint is not late.
LEMMA LateShrinks ==
  ASSUME OneOutage, 0 \in Flaky, NEW c \in Calls, Late' \subseteq Late \ {c}
  PROVE  /\ Cardinality(Late') \in Nat
         /\ Cardinality(Late') <= Cardinality(Late)
         /\ c \in Late => Cardinality(Late') + 1 <= Cardinality(Late)
         /\ c \notin Late => Cardinality(Late') + 1 <= Cardinality(Calls)
<1>1. IsFiniteSet(Late) /\ IsFiniteSet(Calls) /\ Cardinality(Late) \in Nat
  BY LateCounted DEF OneOutage
<1>2. IsFiniteSet(Late \ {c}) /\ Cardinality(Late \ {c}) \in Nat
  BY <1>1, FS_RemoveElement, FS_CardinalityType
<1>3. Cardinality(Late') <= Cardinality(Late \ {c}) /\ IsFiniteSet(Late')
  BY <1>2, FS_Subset
<1>4. Cardinality(Late') \in Nat
  BY <1>3, FS_CardinalityType
<1>5. /\ Cardinality(Late \ {c}) <= Cardinality(Late)
      /\ c \in Late => Cardinality(Late \ {c}) + 1 = Cardinality(Late)
  <2>1. Cardinality(Late \ {c}) = IF c \in Late THEN Cardinality(Late) - 1 ELSE Cardinality(Late)
    BY <1>1, FS_RemoveElement
  <2>. QED  BY <1>1, <2>1
<1>6. /\ IsFiniteSet(Calls \ {c}) /\ Cardinality(Calls \ {c}) + 1 = Cardinality(Calls)
      /\ Cardinality(Calls \ {c}) \in Nat /\ Cardinality(Calls) \in Nat
  <2>1. IsFiniteSet(Calls \ {c}) /\ Cardinality(Calls \ {c}) = Cardinality(Calls) - 1
    BY <1>1, FS_RemoveElement
  <2>2. Cardinality(Calls \ {c}) \in Nat /\ Cardinality(Calls) \in Nat
    BY <1>1, <2>1, FS_CardinalityType
  <2>. QED  BY <2>1, <2>2
<1>7. Late \ {c} \subseteq Calls \ {c}
  BY DEF Late
<1>8. Cardinality(Late') <= Cardinality(Calls \ {c})
  <2>1. Late' \subseteq Calls \ {c}
    BY <1>7
  <2>. QED  BY <1>6, <2>1, FS_Subset
<1>. QED  BY <1>1, <1>2, <1>3, <1>4, <1>5, <1>6, <1>8
\* What the pool has left to go suffices for the calls that stay behind.
LEMMA PushedOn ==
  ASSUME PoolInv, OneOutage, 0 \in Flaky, NEW c \in Calls, Late' \subseteq Late \ {c},
         NEW i \in Nat, i <= IF c \in Late THEN idx + 1 ELSE IF idx = 0 THEN 1 ELSE idx
  PROVE  i + Cardinality(Late') <= Cardinality(Calls)
<1>1. /\ Cardinality(Late') \in Nat /\ Cardinality(Late) \in Nat /\ Cardinality(Calls) \in Nat
      /\ Cardinality(Late') <= Cardinality(Late) /\ Cardinality(Late) <= Cardinality(Calls)
      /\ c \in Late => Cardinality(Late') + 1 <= Cardinality(Late)
      /\ c \notin Late => Cardinality(Late') + 1 <= Cardinality(Calls)
  BY LateCounted, LateShrinks
<1>2. idx \in Nat /\ (idx # 0 => idx + Cardinality(Late) <= Cardinality(Calls))
  BY DEF PoolInv, Ahead, TypeOK, Endpoints
<1>. QED  BY <1>1, <1>2

\* A call that turns to an endpoint: either that is the first one, or the first
\* one has broken and the call is late no more.
LEMMA AskAhead ==
  ASSUME PoolInv, OneOutage, NEW c \in Calls, NEW e \in Endpoints, NEW n \in Nat,
         Ask(c, e, n), e \in Flaky => n = Attempts[c],
         \/ e = 0
         \/ 0 \in Flaky /\ e <= IF c \in Late THEN idx + 1 ELSE IF idx = 0 THEN 1 ELSE idx
  PROVE  /\ idx' # 0 => 0 \in Flaky /\ idx' + Cardinality(Late') <= Cardinality(Calls)
         /\ \A d \in Late' : entry'[d] = 0 /\ left'[d] = Attempts[d]
         /\ OutageIsNonEvent'
<1>1. /\ idx' = e
      /\ entry' = [entry EXCEPT ![c] = e]
      /\ left' = [left EXCEPT ![c] = n]
      /\ call' = [call EXCEPT ![c] = "asking"]
  BY DEF Ask
<1>2. \A d \in Calls \ {c} :
        entry'[d] = entry[d] /\ left'[d] = left[d] /\ call'[d] = call[d]
  BY <1>1
<1>3. call'[c] = "asking" /\ entry'[c] = e
  BY <1>1 DEF PoolInv, TypeOK
<1>4. idx' # 0 => 0 \in Flaky /\ idx' + Cardinality(Late') <= Cardinality(Calls)
  <2>. SUFFICES ASSUME e # 0
                PROVE  0 \in Flaky /\ e + Cardinality(Late') <= Cardinality(Calls)
    BY <1>1
  <2>1. 0 \in Flaky /\ e \notin Flaky /\ e \in Nat
    BY DEF OneOutage, Endpoints
  <2>2. Late' \subseteq Late \ {c}
    BY <1>2, <1>3, <2>1 DEF Late
  <2>. QED  BY <2>1, <2>2, PushedOn
<1>5. \A d \in Late' : entry'[d] = 0 /\ left'[d] = Attempts[d]
  <2>. SUFFICES ASSUME NEW d \in Late'
                PROVE  entry'[d] = 0 /\ left'[d] = Attempts[d]
    OBVIOUS
  <2>1. d \in Calls /\ entry'[d] \in Flaky /\ call'[d] = "asking"
    BY DEF Late
  <2>2. CASE d = c
    <3>1. e \in Flaky /\ e = 0
      BY <1>3, <2>1, <2>2 DEF OneOutage
    <3>2. left'[c] = n
      BY <1>1 DEF PoolInv, TypeOK
    <3>. QED  BY <1>3, <2>2, <3>1, <3>2
  <2>3. CASE d # c
    <3>1. d \in Late
      BY <1>2, <2>1, <2>3 DEF Late
    <3>. QED  BY <1>2, <2>1, <2>3, <3>1 DEF PoolInv, Ahead
  <2>. QED  BY <2>2, <2>3
<1>6. OutageIsNonEvent'
  BY <1>2, <1>3 DEF PoolInv, OutageIsNonEvent
<1>. QED  BY <1>4, <1>5, <1>6

\* What the invariant says of a place from which a call goes on.
LEMMA Around ==
  ASSUME PoolInv, OneOutage, NEW c \in Calls
  PROVE  /\ TypeOK /\ idx \in Endpoints /\ idx \in Nat
         /\ Attempts[c] \in Nat \ {0} /\ left[c] \in Nat
         /\ 0 \in Flaky => 1 \in Endpoints
         /\ c \in Late => 0 \in Flaky /\ idx + 1 \in Endpoints
<1>1. /\ TypeOK /\ idx \in Endpoints /\ idx \in Nat
      /\ Attempts[c] \in Nat \ {0} /\ left[c] \in Nat
  BY DEF PoolInv, TypeOK, Endpoints
<1>2. 0 \in Flaky => 1 \in Endpoints
  <2>. SUFFICES ASSUME 0 \in Flaky
                PROVE  1 \in Endpoints
    OBVIOUS
  <2>1. IsFiniteSet(Calls) /\ Calls # {} /\ Cardinality(Calls) < N
    BY DEF OneOutage
  <2>2. Cardinality(Calls) \in Nat \ {0}
    BY <2>1, FS_EmptySet, FS_CardinalityType
  <2>. QED  BY <2>1, <2>2 DEF Endpoints
<1>3. ASSUME c \in Late
      PROVE  0 \in Flaky /\ idx + 1 \in Endpoints
  <2>1. 0 \in Flaky
    BY <1>3 DEF Late, PoolInv, Ahead
  <2>2. CASE idx = 0
    BY <1>2, <2>1, <2>2
  <2>3. CASE idx # 0
    <3>1. idx + Cardinality(Late) <= Cardinality(Calls) /\ Cardinality(Calls) < N
      BY <2>1, <2>3 DEF PoolInv, Ahead, OneOutage
    <3>2. /\ IsFiniteSet(Late) /\ Late # {}
          /\ Cardinality(Late) \in Nat /\ Cardinality(Calls) \in Nat
      BY <1>3, <2>1, LateCounted
    <3>3. Cardinality(Late) # 0
      BY <3>2, FS_EmptySet
    <3>. QED  BY <1>1, <2>1, <3>1, <3>2, <3>3 DEF Endpoints
  <2>. QED  BY <2>2, <2>3
<1>. QED  BY <1>1, <1>2, <1>3

LEMMA BeginAhead ==
  ASSUME PoolInv, OneOutage, NEW c \in Calls, Begin(c)
  PROVE  Ahead' /\ OutageIsNonEvent'
<1> DEFINE e == Current(idx, healthy)
<1>1. /\ Ask(c, e, Attempts[c]) /\ UNCHANGED <<healthy, failures>>
      /\ c \notin Late
  BY DEF Begin, endpointVars, Late
<1>2. e \in Endpoints /\ e \in Nat /\ idx \in Nat /\ Attempts[c] \in Nat /\ idx' = e
  BY <1>1, Around, CurrentTyped DEF Endpoints, Ask
<1>3. idx <= e /\ (e = 0 \/ (0 \in Flaky /\ e <= IF idx = 0 THEN 1 ELSE idx))
  <2>1. CASE healthy[idx]
    <3>1. e = idx
      BY <2>1, Around, CurrentStays
    <3>. QED  BY <1>2, <3>1 DEF PoolInv, Ahead
  <2>2. CASE ~healthy[idx]
    <3>1. idx \in Flaky
      BY <2>2, Around DEF PoolInv, Ahead
    <3>2. idx = 0 /\ 0 \in Flaky
      BY <3>1 DEF PoolInv, Ahead, OneOutage
    <3>3. 1 \in Endpoints \ Flaky
      BY <3>2, Around DEF OneOutage
    <3>4. healthy[1]
      BY <3>3 DEF PoolInv, Ahead
    <3>5. e = 1
      BY <2>2, <3>2, <3>3, <3>4, Around, CurrentMoves
    <3>. QED  BY <3>2, <3>5
  <2>. QED  BY <2>1, <2>2
<1> HIDE DEF e
<1>4. /\ idx' # 0 => 0 \in Flaky /\ idx' + Cardinality(Late') <= Cardinality(Calls)
      /\ \A d \in Late' : entry'[d] = 0 /\ left'[d] = Attempts[d]
      /\ OutageIsNonEvent'
  BY <1>1, <1>2, <1>3, AskAhead
<1>5. \A d \in Endpoints \ Flaky :
        healthy'[d] /\ failures'[d] < 2 /\ (idx' <= d => failures'[d] = 0)
  <2>. SUFFICES ASSUME NEW d \in Endpoints \ Flaky
                PROVE  healthy'[d] /\ failures'[d] < 2 /\ (idx' <= d => failures'[d] = 0)
    OBVIOUS
  <2>1. healthy[d] /\ failures[d] < 2 /\ (idx <= d => failures[d] = 0) /\ d \in Nat
    BY DEF PoolInv, Ahead, Endpoints
  <2>. QED  BY <1>1, <1>2, <1>3, <2>1
<1>. QED  BY <1>4, <1>5 DEF Ahead

LEMMA FailedAhead ==
  ASSUME PoolInv, OneOutage, NEW c \in Calls, Failed(c)
  PROVE  Ahead' /\ OutageIsNonEvent'
<1>1. /\ c \in Late /\ left[c] = Attempts[c] /\ 0 \in Flaky /\ Flaky = {0}
      /\ Blame(idx)
  BY DEF Failed, Late, PoolInv, Ahead, OneOutage
<1> DEFINE i == idx + 1
<1>2. i \in Endpoints \ Flaky /\ After(idx, 1) = i /\ i \in Nat /\ i # 0
  BY <1>1, Around DEF Endpoints, After
<1>3. \A d \in Endpoints \ Flaky :
        healthy'[d] /\ failures'[d] < 2 /\ (i <= d => failures'[d] = 0)
  <2>1. idx \in Endpoints /\ idx \in Nat /\ idx <= idx /\ idx < i /\ idx <= i
    BY Around
  <2> HIDE DEF i
  <2>. QED  BY <1>1, <1>2, <2>1, BlameSpares
<1>4. healthy'[i]
  BY <1>2, <1>3
<1>5. CASE left[c] > 1
  <2>1. Current(i, healthy') = i
    BY <1>2, <1>4, CurrentStays
  <2>2. Ask(c, i, left[c] - 1) /\ left[c] - 1 \in Nat /\ idx' = i
    BY <1>2, <1>5, <2>1, Around DEF Failed, Ask
  <2>3. i <= IF c \in Late THEN idx + 1 ELSE IF idx = 0 THEN 1 ELSE idx
    BY <1>1, <1>2
  <2>4. /\ idx' # 0 => 0 \in Flaky /\ idx' + Cardinality(Late') <= Cardinality(Calls)
        /\ \A d \in Late' : entry'[d] = 0 /\ left'[d] = Attempts[d]
        /\ OutageIsNonEvent'
    <3> HIDE DEF i
    <3>. QED  BY <1>1, <1>2, <2>2, <2>3, AskAhead
  <2>. QED  BY <1>3, <2>2, <2>4 DEF Ahead
<1>6. CASE ~(left[c] > 1)
  <2>1. /\ idx' = i
        /\ call' = [call EXCEPT ![c] = "exhausted"]
        /\ left' = [left EXCEPT ![c] = 0]
        /\ UNCHANGED entry
    BY <1>2, <1>6 DEF Failed
  <2>2. Attempts[c] = 1
    BY <1>1, <1>6, Around
  <2>3. \A d \in Calls \ {c} : call'[d] = call[d] /\ left'[d] = left[d]
    BY <2>1
  <2>4. call'[c] = "exhausted"
    BY <2>1 DEF PoolInv, TypeOK
  <2>5. OutageIsNonEvent'
    BY <2>2, <2>3, <2>4 DEF PoolInv, OutageIsNonEvent
  <2>6. Late' \subseteq Late \ {c}
    BY <2>1, <2>3, <2>4 DEF Late
  <2>7. \A d \in Late' : entry'[d] = 0 /\ left'[d] = Attempts[d]
    BY <2>1, <2>3, <2>6 DEF PoolInv, Ahead, Late
  <2>8. i <= IF c \in Late THEN idx + 1 ELSE IF idx = 0 THEN 1 ELSE idx
    BY <1>1, <1>2
  <2>9. i + Cardinality(Late') <= Cardinality(Calls)
    <3> HIDE DEF i
    <3>. QED  BY <1>1, <1>2, <2>6, <2>8, PushedOn
  <2>. QED  BY <1>1, <1>3, <2>1, <2>5, <2>7, <2>9 DEF Ahead
<1>. QED  BY <1>5, <1>6

\* A call that is answered is late no more; nothing else changes for the worse.
LEMMA OverAhead ==
  ASSUME PoolInv, OneOutage, NEW c \in Calls, Answered(c) \/ Refused(c)
  PROVE  Ahead' /\ OutageIsNonEvent'
<1>1. /\ UNCHANGED <<idx, entry, left>>
      /\ \A d \in Calls \ {c} : call'[d] = call[d]
      /\ call'[c] \in {"answered", "refused"}
  BY DEF Answered, Refused, PoolInv, TypeOK
<1>2. Late' \subseteq Late \ {c}
  BY <1>1 DEF Late
<1>3. \A e \in Endpoints \ Flaky :
        healthy'[e] /\ failures'[e] < 2 /\ (idx <= e => failures'[e] = 0)
  BY DEF Answered, Refused, endpointVars, PoolInv, Ahead, TypeOK
<1>4. idx # 0 => 0 \in Flaky /\ idx + Cardinality(Late') <= Cardinality(Calls)
  <2>1. idx \in Nat /\ (idx # 0 => 0 \in Flaky)
    BY Around DEF PoolInv, Ahead
  <2>2. idx <= IF c \in Late THEN idx + 1 ELSE IF idx = 0 THEN 1 ELSE idx
    BY <2>1
  <2>. QED  BY <1>2, <2>1, <2>2, PushedOn
<1>5. \A d \in Late' : entry'[d] = 0 /\ left'[d] = Attempts[d]
  BY <1>1, <1>2 DEF PoolInv, Ahead
<1>6. OutageIsNonEvent'
  BY <1>1 DEF PoolInv, OutageIsNonEvent
<1>. QED  BY <1>1, <1>3, <1>4, <1>5, <1>6 DEF Ahead

LEMMA ProbeAhead ==
  ASSUME PoolInv, OneOutage,
         Tick \/ \E e \in Endpoints : ProbeAnswered(e) \/ ProbeFailed(e)
  PROVE  Ahead' /\ OutageIsNonEvent'
<1>1. UNCHANGED <<idx, call, entry, left>>
  BY DEF Tick, ProbeAnswered, ProbeFailed, callVars
<1>2. Late' = Late /\ (OutageIsNonEvent <=> OutageIsNonEvent')
  BY <1>1 DEF Late, OutageIsNonEvent
<1>3. \A d \in Endpoints \ Flaky :
        healthy'[d] /\ failures'[d] < 2 /\ (idx <= d => failures'[d] = 0)
  <2>. SUFFICES ASSUME NEW d \in Endpoints \ Flaky
                PROVE  healthy'[d] /\ failures'[d] < 2 /\ (idx <= d => failures'[d] = 0)
    OBVIOUS
  <2>1. CASE Tick
    BY <2>1 DEF Tick, endpointVars, PoolInv, Ahead
  <2>2. ASSUME NEW e \in Endpoints, ProbeAnswered(e)
        PROVE  healthy'[d] /\ failures'[d] < 2 /\ (idx <= d => failures'[d] = 0)
    BY <2>2 DEF ProbeAnswered, PoolInv, Ahead, TypeOK
  <2>3. ASSUME NEW e \in Endpoints, ProbeFailed(e)
        PROVE  healthy'[d] /\ failures'[d] < 2 /\ (idx <= d => failures'[d] = 0)
    <3>1. failures'[d] = failures[d] /\ healthy'[d] = healthy[d]
      BY <2>3 DEF ProbeFailed, Blame, PoolInv, TypeOK
    <3>. QED  BY <3>1 DEF PoolInv, Ahead
  <2>. QED  BY <2>1, <2>2, <2>3
<1>. QED  BY <1>1, <1>2, <1>3 DEF PoolInv, Ahead

LEMMA StepAhead == OneOutage /\ PoolInv /\ [Next]_vars => PoolInv'
<1>. SUFFICES ASSUME OneOutage, PoolInv, [Next]_vars PROVE PoolInv'
  OBVIOUS
<1>1. TypeOK'
  BY StepTyped DEF PoolInv
<1>2. CASE UNCHANGED vars
  BY <1>1, <1>2 DEF vars, PoolInv, Ahead, Late, OutageIsNonEvent
<1>3. CASE Next
  BY <1>1, <1>3, BeginAhead, FailedAhead, OverAhead, ProbeAhead DEF Next, CallStep, PoolInv
<1>. QED  BY <1>2, <1>3

LEMMA PoolInvariant == OneOutage => (Spec => []PoolInv)
<1>. SUFFICES ASSUME OneOutage PROVE Spec => []PoolInv
  OBVIOUS
<1>1. Init => PoolInv
  BY InitTyped, InitAhead DEF PoolInv
<1>2. PoolInv /\ [Next]_vars => PoolInv'
  BY StepAhead
<1>. QED  BY <1>1, <1>2, PTL DEF Spec

\* "Assume any single endpoint can vanish mid-mint and make that a non-event": while
\* fewer calls than there are endpoints share the pool, none that may try twice
\* gives up over one endpoint, whoever turned the pool meanwhile.
THEOREM OutageIsSurvived == OneOutage => (Spec => []OutageIsNonEvent)
<1>. SUFFICES ASSUME OneOutage PROVE Spec => []OutageIsNonEvent
  OBVIOUS
<1>1. PoolInv => OutageIsNonEvent
  BY DEF PoolInv
<1>2. Spec => []PoolInv
  BY PoolInvariant
<1>. QED  BY <1>1, <1>2, PTL

\* And rotate(), which blames whichever endpoint is current when a call wakes,
\* never makes withFailover() avoid an endpoint that works.
THEOREM BlameIsJust == OneOutage => (Spec => []BlameIsDeserved)
<1>. SUFFICES ASSUME OneOutage PROVE Spec => []BlameIsDeserved
  OBVIOUS
<1>1. PoolInv => BlameIsDeserved
  BY DEF PoolInv, Ahead, BlameIsDeserved
<1>2. Spec => []PoolInv
  BY PoolInvariant
<1>. QED  BY <1>1, <1>2, PTL

-----------------------------------------------------------------------------
(* A call that has the pool for itself                                     *)

\* The calls of preWarm() and the probing follow one another, and each may try as
\* often as there are endpoints: the default is twice that.
LoneCaller ==
  /\ \A c, d \in Calls : c = d
  /\ \A c \in Calls : Attempts[c] >= N

\* How many turns from i to e.
Steps(i, e) == IF i <= e THEN e - i ELSE e + N - i

LEMMA AfterIs ==
  ASSUME NEW i \in Endpoints, NEW k \in Endpoints
  PROVE  After(i, k) = IF i + k < N THEN i + k ELSE i + k - N
BY DEF After, Endpoints

LEMMA StepsLead ==
  ASSUME NEW i \in Endpoints, NEW e \in Endpoints
  PROVE  Steps(i, e) \in Endpoints /\ After(i, Steps(i, e)) = e
<1>1. Steps(i, e) \in Endpoints
  BY DEF Steps, Endpoints
<1>2. (IF i + Steps(i, e) < N THEN i + Steps(i, e) ELSE i + Steps(i, e) - N) = e
  BY DEF Steps, Endpoints
<1>. QED  BY <1>1, <1>2, AfterIs

LEMMA StepsLeft ==
  ASSUME NEW i \in Endpoints, NEW e \in Endpoints, NEW k \in Endpoints, k <= Steps(i, e)
  PROVE  Steps(After(i, k), e) = Steps(i, e) - k
BY AfterIs DEF Steps, Endpoints

\* current() does not pass by a healthy endpoint.
LEMMA CurrentBefore ==
  ASSUME NEW i \in Endpoints, NEW h, NEW e \in Endpoints, h[e]
  PROVE  Steps(Current(i, h), e) <= Steps(i, e)
<1> DEFINE T == {k \in Endpoints : h[After(i, k)]}
           c == CHOOSE m \in Endpoints :
                  /\ h[After(i, m)]
                  /\ \A j \in Endpoints : j < m => ~h[After(i, j)]
<1>1. Steps(i, e) \in T
  BY StepsLead
<1>2. T \subseteq Nat
  BY DEF Endpoints
<1>3. PICK k \in T : \A j \in T : k <= j
  BY <1>1, <1>2, LeastNatural
<1>4. k \in Endpoints /\ h[After(i, k)] /\ \A j \in Endpoints : j < k => ~h[After(i, j)]
  BY <1>3 DEF Endpoints
<1>5. c \in Endpoints /\ \A j \in Endpoints : j < c => ~h[After(i, j)]
  BY <1>4
<1>6. Current(i, h) = After(i, c)
  BY DEF Current
<1>7. Steps(i, e) \in Endpoints /\ h[After(i, Steps(i, e))]
  BY <1>1
<1> HIDE DEF c, T
<1>8. ~(Steps(i, e) < c)
  BY <1>5, <1>7
<1>9. c <= Steps(i, e) /\ Steps(i, e) - c <= Steps(i, e)
  BY <1>5, <1>7, <1>8 DEF Endpoints
<1>. QED  BY <1>5, <1>6, <1>9, StepsLeft

\* Nobody turns the pool under the call, which has attempts enough to come to any
\* endpoint that works; and only what it asked is blamed.
Reaching ==
  /\ \A e \in Endpoints \ Flaky : healthy[e]
  /\ \A c \in Calls : call[c] = "asking" =>
       entry[c] = idx /\ \A e \in Endpoints \ Flaky : Steps(idx, e) < left[c]

LoneInv == TypeOK /\ Reaching /\ OutageIsNonEvent

LEMMA BlameReaching ==
  ASSUME LoneInv, NEW b \in Flaky, Blame(b)
  PROVE  \A e \in Endpoints \ Flaky : healthy'[e]
<1>1. healthy' = [healthy EXCEPT ![b] = healthy[b] /\ failures'[b] < 2]
  BY DEF Blame
<1>. QED  BY <1>1 DEF LoneInv, TypeOK, Reaching

LEMMA CallReaching ==
  ASSUME LoneCaller, LoneInv, NEW c \in Calls, Begin(c) \/ CallStep(c)
  PROVE  Reaching' /\ OutageIsNonEvent'
<1>1. /\ idx \in Endpoints /\ left[c] \in Nat /\ Attempts[c] \in Nat /\ Attempts[c] >= N
      /\ call \in [Calls -> {"idle", "asking", "answered", "refused", "exhausted"}]
      /\ entry \in [Calls -> Endpoints] /\ left \in [Calls -> Nat]
      /\ \A d \in Calls : d = c
  BY DEF LoneInv, TypeOK, LoneCaller
<1>2. CASE Begin(c)
  <2>1. /\ Ask(c, Current(idx, healthy), Attempts[c]) /\ healthy' = healthy
    BY <1>2 DEF Begin, endpointVars
  <2>2. \A e \in Endpoints : Steps(Current(idx, healthy), e) < Attempts[c]
    <3>1. \A e \in Endpoints : Steps(Current(idx, healthy), e) \in Endpoints
      BY <1>1, CurrentTyped, StepsLead
    <3>. QED  BY <1>1, <3>1 DEF Endpoints
  <2>3. /\ call'[c] = "asking" /\ entry'[c] = idx' /\ idx' = Current(idx, healthy)
        /\ left'[c] = Attempts[c]
    BY <1>1, <2>1 DEF Ask
  <2>. QED  BY <1>1, <2>1, <2>2, <2>3 DEF LoneInv, Reaching, OutageIsNonEvent
<1>3. CASE Answered(c) \/ Refused(c)
  <2>1. /\ call'[c] \in {"answered", "refused"}
        /\ healthy' \in {healthy, [healthy EXCEPT ![idx] = TRUE]}
    BY <1>1, <1>3 DEF Answered, Refused, endpointVars
  <2>2. \A e \in Endpoints \ Flaky : healthy'[e]
    BY <2>1 DEF LoneInv, TypeOK, Reaching
  <2>. QED  BY <1>1, <2>1, <2>2 DEF Reaching, OutageIsNonEvent
<1>4. CASE Failed(c)
  <2>1. /\ call[c] = "asking" /\ entry[c] \in Flaky /\ Blame(idx)
        /\ idx = entry[c]
        /\ \A e \in Endpoints \ Flaky : Steps(idx, e) < left[c]
    BY <1>4 DEF Failed, LoneInv, Reaching
  <2>2. \A e \in Endpoints \ Flaky : healthy'[e]
    BY <2>1, BlameReaching
  <2>3. ASSUME NEW e \in Endpoints \ Flaky
        PROVE  /\ left[c] > 1
               /\ Steps(Current(After(idx, 1), healthy'), e) < left[c] - 1
    <3>1. Steps(idx, e) \in Nat /\ Steps(idx, e) >= 1 /\ 1 \in Endpoints
      BY <1>1, <2>1 DEF Steps, Endpoints
    <3>2. /\ Steps(After(idx, 1), e) = Steps(idx, e) - 1
          /\ After(idx, 1) \in Endpoints
      BY <1>1, <3>1, StepsLeft, AfterTyped
    <3>3. Steps(Current(After(idx, 1), healthy'), e) <= Steps(idx, e) - 1
      BY <2>2, <3>2, CurrentBefore
    <3>4. Current(After(idx, 1), healthy') \in Endpoints
      BY <3>2, CurrentTyped
    <3>5. Steps(Current(After(idx, 1), healthy'), e) \in Nat
      BY <3>4, StepsLead DEF Endpoints
    <3>. QED  BY <1>1, <2>1, <3>1, <3>3, <3>5
  <2>4. CASE left[c] > 1
    <3>1. Ask(c, Current(After(idx, 1), healthy'), left[c] - 1)
      BY <1>4, <2>4 DEF Failed
    <3>2. /\ call'[c] = "asking" /\ entry'[c] = idx'
          /\ idx' = Current(After(idx, 1), healthy') /\ left'[c] = left[c] - 1
      BY <1>1, <3>1 DEF Ask
    <3>. QED  BY <1>1, <2>2, <2>3, <3>2 DEF Reaching, OutageIsNonEvent
  <2>5. CASE ~(left[c] > 1)
    <3>1. Flaky = Endpoints
      BY <2>3, <2>5, EndpointsAssumption
    <3>2. call'[c] = "exhausted"
      BY <1>1, <1>4, <2>5 DEF Failed
    <3>. QED  BY <1>1, <2>2, <3>1, <3>2 DEF Reaching, OutageIsNonEvent
  <2>. QED  BY <2>4, <2>5
<1>. QED  BY <1>2, <1>3, <1>4 DEF CallStep

LEMMA ProbeReaching ==
  ASSUME LoneInv, Tick \/ \E e \in Endpoints : ProbeAnswered(e) \/ ProbeFailed(e)
  PROVE  Reaching' /\ OutageIsNonEvent'
<1>1. UNCHANGED <<idx, call, entry, left>>
  BY DEF Tick, ProbeAnswered, ProbeFailed, callVars
<1>2. \A e \in Endpoints \ Flaky : healthy'[e]
  <2>1. CASE Tick
    BY <2>1 DEF Tick, endpointVars, LoneInv, Reaching
  <2>2. ASSUME NEW b \in Endpoints, ProbeAnswered(b)
        PROVE  \A e \in Endpoints \ Flaky : healthy'[e]
    BY <2>2 DEF ProbeAnswered, LoneInv, TypeOK, Reaching
  <2>3. ASSUME NEW b \in Endpoints, ProbeFailed(b)
        PROVE  \A e \in Endpoints \ Flaky : healthy'[e]
    BY <2>3, BlameReaching DEF ProbeFailed
  <2>. QED  BY <2>1, <2>2, <2>3
<1>. QED  BY <1>1, <1>2 DEF LoneInv, Reaching, OutageIsNonEvent

\* A call that has the pool for itself gets through, or every endpoint may be down:
\* however many break, in whatever order, and whatever the keep-alive makes of them.
\* No endpoint that works is blamed on the way.
THEOREM LoneCallGetsThrough ==
  LoneCaller => (Spec => [](OutageIsNonEvent /\ BlameIsDeserved))
<1>. SUFFICES ASSUME LoneCaller PROVE Spec => [](OutageIsNonEvent /\ BlameIsDeserved)
  OBVIOUS
<1>1. Init => LoneInv
  BY InitTyped DEF Init, LoneInv, Reaching, OutageIsNonEvent
<1>2. LoneInv /\ [Next]_vars => LoneInv'
  <2>. SUFFICES ASSUME LoneInv, [Next]_vars PROVE LoneInv'
    OBVIOUS
  <2>1. TypeOK'
    BY StepTyped DEF LoneInv
  <2>2. CASE UNCHANGED vars
    BY <2>1, <2>2 DEF vars, LoneInv, Reaching, OutageIsNonEvent
  <2>3. CASE Next
    BY <2>1, <2>3, CallReaching, ProbeReaching DEF Next, LoneInv
  <2>. QED  BY <2>2, <2>3
<1>3. LoneInv => OutageIsNonEvent /\ BlameIsDeserved
  BY DEF LoneInv, Reaching, BlameIsDeserved
<1>. QED  BY <1>1, <1>2, <1>3, PTL DEF Spec
=============================================================================
