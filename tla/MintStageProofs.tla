-------------------------- MODULE MintStageProofs --------------------------
(***************************************************************************)
(* What readPublicMintStage() may tell, whatever a contract publishes and  *)
(* whichever look-ups are lost.                                            *)
(***************************************************************************)
EXTENDS MintStage, WellFoundedInduction, TLAPS

\* Of the positions that qualify there is a first.
LEMMA FirstPosition ==
  ASSUME NEW T, T \subseteq Nat, T # {}
  PROVE  /\ (CHOOSE i \in T : \A j \in T : i <= j) \in T
         /\ \A k \in T : (CHOOSE i \in T : \A j \in T : i <= j) <= k
<1>. DEFINE R == OpToRel(<, Nat)
<1>1. IsWellFoundedOn(R, Nat)
  BY NatLessThanWellFounded
<1>2. R = {ss \in Nat \X Nat : ss[1] < ss[2]}
  BY DEF OpToRel
<1>. HIDE DEF R
<1>3. PICK i \in T : \A j \in T : <<j, i>> \notin R
  BY <1>1, WFMin
<1>4. \A j \in T : ~(j < i)
  BY <1>2, <1>3
<1>5. \A j \in T : i <= j
  BY <1>4
<1>. QED  BY <1>5

-----------------------------------------------------------------------------
(* The readers                                                               *)

\* A time is told in seconds or milliseconds, is not zero and not beyond 2100.
IsTimeOf(start, raw) ==
  /\ raw # 0
  /\ start = IF raw < 100 THEN 10 * raw ELSE raw
  /\ start <= 410

LEMMA TimestampTold ==
  ASSUME NEW raw \in Nat
  PROVE  /\ TimestampToMs(raw) \in Nat \cup {Unknown}
         /\ TimestampToMs(raw) # Unknown => IsTimeOf(TimestampToMs(raw), raw)
<1>1. CASE raw = 0    BY <1>1 DEF TimestampToMs, IsTimeOf
<1>2. CASE raw >= 100 BY <1>2 DEF TimestampToMs, IsTimeOf
<1>3. CASE raw # 0 /\ raw < 100
  BY <1>3 DEF TimestampToMs, IsTimeOf
<1>. QED  BY <1>1, <1>2, <1>3

\* The first getter that answers is one of the getters.
LEMMA FirstAnswerTold ==
  ASSUME NEW values \in Seq(Nat \cup {Unknown}), NEW name, NEW heard,
         FirstAnswer(values, name, heard) # Unknown
  PROVE  \E i \in DOMAIN values : /\ values[i] # Unknown
                                  /\ FirstAnswer(values, name, heard) = values[i]
<1>. DEFINE got == {i \in DOMAIN values : TryRead(values[i], <<name, i>>, heard) # Unknown}
<1>1. got # {} /\ FirstAnswer(values, name, heard)
                    = values[CHOOSE i \in got : \A j \in got : i <= j]
  BY DEF FirstAnswer
<1>2. got \subseteq Nat
  OBVIOUS
<1>3. (CHOOSE i \in got : \A j \in got : i <= j) \in got
  BY <1>1, <1>2, FirstPosition
<1>4. \A i \in got : values[i] # Unknown /\ i \in DOMAIN values
  BY DEF TryRead
<1>. QED  BY <1>1, <1>3, <1>4

\* What a reader may find: a price the contract published, and a time that it
\* published as the opening time unless a struct of seven was decoded as six.
Told(stage, p) ==
  /\ stage.price \in PublishedPrices(p) \cup {Unknown}
  /\ stage.price # Unknown => stage.price \in Nat
  /\ stage.start \in Nat \cup {Unknown}
  /\ \/ stage.start = Unknown
     \/ \E raw \in PublishedStarts(p) : IsTimeOf(stage.start, raw)
     \/ stage.source = "seadrop-v1-token" /\ p.token.v2

LEMMA SeaDropTold ==
  ASSUME NEW source, NEW price, NEW start, NEW cap,
         SeaDropStage(source, price, start, cap) # Unknown
  PROVE  /\ SeaDropStage(source, price, start, cap)
              = Stage(source, price, TimestampToMs(start), TRUE)
         /\ ~(price = 0 /\ TimestampToMs(start) = Unknown /\ cap = 0)
BY DEF SeaDropStage

LEMMA SingletonTold ==
  ASSUME NEW p, WellFormed(p), NEW heard, ReadSingleton(p, heard) # Unknown
  PROVE  Told(ReadSingleton(p, heard), p)
<1>. DEFINE stage == ReadSingleton(p, heard)
<1>1. /\ p.singleton # Unknown
      /\ stage = SeaDropStage("seadrop-v1", p.singleton.price, p.singleton.start, p.singleton.cap)
  BY DEF ReadSingleton, TryRead
<1>2. stage = Stage("seadrop-v1", p.singleton.price, TimestampToMs(p.singleton.start), TRUE)
  BY <1>1, SeaDropTold
<1>3. p.singleton.price \in Nat /\ p.singleton.start \in Nat
  BY <1>1 DEF WellFormed
<1>4. p.singleton.price \in PublishedPrices(p) /\ p.singleton.start \in PublishedStarts(p)
  BY <1>1 DEF PublishedPrices, PublishedStarts
<1>5. stage.price = p.singleton.price /\ stage.start = TimestampToMs(p.singleton.start)
  BY <1>2 DEF Stage
<1>. HIDE DEF stage
<1>6. Told(stage, p)
  BY <1>3, <1>4, <1>5, TimestampTold DEF Told
<1>. QED  BY <1>6 DEF stage

LEMMA TokenV2Told ==
  ASSUME NEW p, WellFormed(p), NEW heard, ReadTokenV2(p, heard) # Unknown
  PROVE  Told(ReadTokenV2(p, heard), p)
<1>. DEFINE stage == ReadTokenV2(p, heard)
            token == p.token
            price == Higher(token.price, token.endPrice)
<1>1. /\ token # Unknown /\ token.v2
      /\ stage = SeaDropStage("seadrop-v2", price, token.start, token.cap)
  BY DEF ReadTokenV2, TryRead, AsV2
<1>2. stage = Stage("seadrop-v2", price, TimestampToMs(token.start), TRUE)
  BY <1>1, SeaDropTold
<1>3. token.price \in Nat /\ token.endPrice \in Nat /\ token.start \in Nat
  BY <1>1 DEF WellFormed
<1>4. price \in {token.price, token.endPrice}
  BY DEF Higher
<1>5. price \in PublishedPrices(p) /\ token.start \in PublishedStarts(p)
  BY <1>1, <1>4 DEF PublishedPrices, PublishedStarts
<1>6. stage.price = price /\ stage.start = TimestampToMs(token.start)
  BY <1>2 DEF Stage
<1>. HIDE DEF stage, price
<1>7. Told(stage, p)
  BY <1>3, <1>4, <1>5, <1>6, TimestampTold DEF Told
<1>. QED  BY <1>7 DEF stage

LEMMA TokenV1Told ==
  ASSUME NEW p, WellFormed(p), NEW heard, ReadTokenV1(p, heard) # Unknown
  PROVE  Told(ReadTokenV1(p, heard), p)
<1>. DEFINE stage == ReadTokenV1(p, heard)
            v1 == AsV1(p.token)
<1>1. /\ p.token # Unknown
      /\ stage = SeaDropStage("seadrop-v1-token", v1.price, v1.start, v1.cap)
  BY DEF ReadTokenV1, TryRead, AsV1
<1>2. stage = Stage("seadrop-v1-token", v1.price, TimestampToMs(v1.start), TRUE)
  BY <1>1, SeaDropTold
<1>3. /\ v1.price = p.token.price
      /\ v1.start = IF p.token.v2 THEN Uint48(p.token.endPrice) ELSE p.token.start
  BY <1>1 DEF AsV1
<1>4. v1.price \in Nat /\ v1.start \in Nat
  BY <1>1, <1>3 DEF WellFormed, Uint48
<1>5. v1.price \in PublishedPrices(p) /\ (v1.start \in PublishedStarts(p) \/ p.token.v2)
  BY <1>1, <1>3 DEF PublishedPrices, PublishedStarts
<1>6. /\ stage.price = v1.price /\ stage.start = TimestampToMs(v1.start)
      /\ stage.source = "seadrop-v1-token"
  BY <1>2 DEF Stage
<1>. HIDE DEF stage, v1
<1>7. Told(stage, p)
  BY <1>4, <1>5, <1>6, TimestampTold DEF Told
<1>. QED  BY <1>7 DEF stage

LEMMA ConditionTold ==
  ASSUME NEW p, WellFormed(p), NEW heard, ReadCondition(p, heard) # Unknown
  PROVE  Told(ReadCondition(p, heard), p)
<1>. DEFINE stage == ReadCondition(p, heard)
            cond == p.condition
<1>1. /\ cond # Unknown
      /\ stage = Stage("thirdweb", cond.price, TimestampToMs(cond.start), cond.native)
  BY DEF ReadCondition, TryRead
<1>2. cond.price \in Nat /\ cond.start \in Nat
  BY <1>1 DEF WellFormed
<1>3. cond.price \in PublishedPrices(p) /\ cond.start \in PublishedStarts(p)
  BY <1>1 DEF PublishedPrices, PublishedStarts
<1>4. stage.price = cond.price /\ stage.start = TimestampToMs(cond.start)
  BY <1>1 DEF Stage
<1>. HIDE DEF stage
<1>5. Told(stage, p)
  BY <1>2, <1>3, <1>4, TimestampTold DEF Told
<1>. QED  BY <1>5 DEF stage

LEMMA GettersTold ==
  ASSUME NEW p, WellFormed(p), NEW heard, ReadGetters(p, heard) # Unknown
  PROVE  Told(ReadGetters(p, heard), p)
<1>. DEFINE stage == ReadGetters(p, heard)
            price == FirstAnswer(p.prices, "price", heard)
            start == FirstAnswer(p.starts, "start", heard)
<1>1. stage = Stage("getters", price,
                    IF start = Unknown THEN Unknown ELSE TimestampToMs(start), TRUE)
  BY DEF ReadGetters
<1>2. stage.price = price /\ stage.start = IF start = Unknown THEN Unknown ELSE TimestampToMs(start)
  BY <1>1 DEF Stage
<1>3. p.prices \in Seq(Nat \cup {Unknown}) /\ p.starts \in Seq(Nat \cup {Unknown})
  BY DEF WellFormed
<1>4. price # Unknown => price \in PublishedPrices(p) /\ price \in Nat
  <2>1. SUFFICES ASSUME price # Unknown  PROVE price \in PublishedPrices(p) /\ price \in Nat
    OBVIOUS
  <2>2. PICK i \in DOMAIN p.prices : p.prices[i] # Unknown /\ price = p.prices[i]
    BY <1>3, <2>1, FirstAnswerTold
  <2>3. price \in {p.prices[k] : k \in {j \in DOMAIN p.prices : p.prices[j] # Unknown}}
    BY <2>2
  <2>4. price \in Nat
    BY <1>3, <2>2
  <2>. QED  BY <2>3, <2>4 DEF PublishedPrices
<1>5. start # Unknown => start \in PublishedStarts(p) /\ start \in Nat
  <2>1. SUFFICES ASSUME start # Unknown  PROVE start \in PublishedStarts(p) /\ start \in Nat
    OBVIOUS
  <2>2. PICK i \in DOMAIN p.starts : p.starts[i] # Unknown /\ start = p.starts[i]
    BY <1>3, <2>1, FirstAnswerTold
  <2>3. start \in {p.starts[k] : k \in {j \in DOMAIN p.starts : p.starts[j] # Unknown}}
    BY <2>2
  <2>4. start \in Nat
    BY <1>3, <2>2
  <2>. QED  BY <2>3, <2>4 DEF PublishedStarts
<1>. HIDE DEF stage, price, start
<1>6. Told(stage, p)
  BY <1>2, <1>4, <1>5, TimestampTold DEF Told
<1>. QED  BY <1>6 DEF stage

-----------------------------------------------------------------------------
\* The stage that is read is what the first reader found that found any.
LEMMA StageIsRead ==
  ASSUME NEW p, NEW heard, ReadStage(p, heard) # Unknown
  PROVE  ReadStage(p, heard) \in {ReadSingleton(p, heard), ReadTokenV2(p, heard),
           ReadTokenV1(p, heard), ReadCondition(p, heard), ReadGetters(p, heard)}
<1>. DEFINE stages == <<ReadSingleton(p, heard), ReadTokenV2(p, heard), ReadTokenV1(p, heard),
                        ReadCondition(p, heard), ReadGetters(p, heard)>>
            found == {i \in DOMAIN stages : stages[i] # Unknown}
            first == CHOOSE i \in found : \A j \in found : i <= j
<1>1. found # {} /\ ReadStage(p, heard) = stages[first]
  BY DEF ReadStage, FirstFound
<1>2. found \subseteq 1..5
  OBVIOUS
<1>3. first \in 1..5
  BY <1>1, <1>2, FirstPosition
<1>. HIDE DEF first
<1>. QED  BY <1>1, <1>3

LEMMA StageTold ==
  ASSUME NEW p, WellFormed(p), NEW heard, ReadStage(p, heard) # Unknown
  PROVE  Told(ReadStage(p, heard), p)
BY StageIsRead, SingletonTold, TokenV2Told, TokenV1Told, ConditionTold, GettersTold
=============================================================================
