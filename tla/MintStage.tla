----------------------------- MODULE MintStage ------------------------------
(***************************************************************************)
(* readPublicMintStage() of src/src/chains/evm/mintStage.js: what a mint   *)
(* costs and when it opens, as the contract itself tells.  Four readers    *)
(* are asked in order of trust and the first that finds anything answers.  *)
(* tryRead() makes no difference between a look-up the contract refuses    *)
(* and one that is lost: here `heard` is the set of look-ups that are not  *)
(* lost, and the others tell nothing.                                      *)
(*                                                                         *)
(* Time is scaled: ten milliseconds to the second, the third millennium    *)
(* begins at 100 and the year 2100 at 410.                                 *)
(***************************************************************************)
EXTENDS Naturals, Sequences

CONSTANT Unknown   \* what nobody could read

\* What a contract publishes.  `singleton`: the struct SeaDrop keeps for it;
\* `token`: its own publicDrop(), of seven fields (v2) or six; `condition`: the
\* active thirdweb claim condition; then its getters, in the order of the
\* lists in the code, Unknown for those it does not have.
Nothing == [singleton |-> Unknown, token |-> Unknown, condition |-> Unknown,
            prices |-> <<>>, starts |-> <<>>, flags |-> <<>>]

\* The numbers the ABIs declare; a getter the contract does not have gives none.
WellFormed(p) ==
  /\ p.singleton # Unknown => {p.singleton.price, p.singleton.start, p.singleton.cap} \subseteq Nat
  /\ p.token # Unknown => /\ p.token.v2 \in BOOLEAN
                          /\ {p.token.price, p.token.start, p.token.cap} \subseteq Nat
                          /\ p.token.v2 => {p.token.endPrice, p.token.end} \subseteq Nat
  /\ p.condition # Unknown => /\ {p.condition.price, p.condition.start} \subseteq Nat
                              /\ p.condition.native \in BOOLEAN
  /\ {p.prices, p.starts} \subseteq Seq(Nat \cup {Unknown})

Lookups(p) ==
  {<<"getPublicDrop", 1>>, <<"publicDropV2", 1>>, <<"publicDropV1", 1>>,
   <<"getActiveClaimConditionId", 1>>, <<"getClaimConditionById", 1>>}
  \cup {<<"price", i>> : i \in DOMAIN p.prices}
  \cup {<<"start", i>> : i \in DOMAIN p.starts}
  \cup {<<"flag", i>> : i \in DOMAIN p.flags}

\* tryRead()
TryRead(value, lookup, heard) == IF lookup \in heard THEN value ELSE Unknown

-----------------------------------------------------------------------------
\* Mutant: an unset time is the beginning of time.
TimestampFromZero(raw) ==
  IF raw >= 100 THEN IF raw > 410 THEN Unknown ELSE raw
  ELSE IF raw * 10 > 410 THEN Unknown ELSE raw * 10

\* timestampToMs(): small numbers are seconds, zero and what lies beyond 2100
\* is no time at all.
TimestampToMs(raw) ==
  CASE raw = 0 -> Unknown
    [] raw >= 100 -> IF raw > 410 THEN Unknown ELSE raw
    [] OTHER -> IF raw * 10 > 410 THEN Unknown ELSE raw * 10

\* A number decoded as the uint48 of another layout.
Uint48(n) == n % 1000

Stage(source, price, start, native) ==
  [source |-> source, price |-> price, start |-> start, native |-> native]

\* Of the stages only the last is not of high confidence.
Trusted(stage) == stage # Unknown /\ stage.source # "getters"

\* A SeaDrop struct of zeros is "no drop here", not a free mint.
SeaDropStage(source, price, start, cap) ==
  IF price = 0 /\ TimestampToMs(start) = Unknown /\ cap = 0 THEN Unknown
  ELSE Stage(source, price, TimestampToMs(start), TRUE)

\* readSeaDropV1()
ReadSingleton(p, heard) ==
  LET drop == TryRead(p.singleton, <<"getPublicDrop", 1>>, heard)
  IN IF drop = Unknown THEN Unknown
     ELSE SeaDropStage("seadrop-v1", drop.price, drop.start, drop.cap)

\* The struct of seven fields: what a token with six returns does not decode.
AsV2(token) == IF token = Unknown \/ ~token.v2 THEN Unknown ELSE token

\* The struct of six: it decodes the first six of seven just as well, and takes
\* the last price for the opening time and the closing time for the cap.
AsV1(token) ==
  IF token # Unknown /\ token.v2
  THEN [price |-> token.price, start |-> Uint48(token.endPrice), cap |-> token.end]
  ELSE token

\* Mutant: a descending price is budgeted for at its end.
HigherIsLast(price, endPrice) == endPrice

\* A drop whose price descends is dearest when it opens.
Higher(price, endPrice) == IF price > endPrice THEN price ELSE endPrice

ReadTokenV2(p, heard) ==
  LET v2 == TryRead(AsV2(p.token), <<"publicDropV2", 1>>, heard)
  IN IF v2 = Unknown THEN Unknown
     ELSE SeaDropStage("seadrop-v2", Higher(v2.price, v2.endPrice), v2.start, v2.cap)

ReadTokenV1(p, heard) ==
  LET v1 == TryRead(AsV1(p.token), <<"publicDropV1", 1>>, heard)
  IN IF v1 = Unknown THEN Unknown
     ELSE SeaDropStage("seadrop-v1-token", v1.price, v1.start, v1.cap)

\* readThirdwebClaimCondition(): the condition's number, then the condition.  A
\* price in another currency is reported like one in native coin.
ReadCondition(p, heard) ==
  LET id == TryRead(p.condition, <<"getActiveClaimConditionId", 1>>, heard)
      cond == TryRead(id, <<"getClaimConditionById", 1>>, heard)
  IN IF cond = Unknown THEN Unknown
     ELSE Stage("thirdweb", cond.price, TimestampToMs(cond.start), cond.native)

\* tryReadAny(): the first getter that answers.
FirstAnswer(values, name, heard) ==
  LET got == {i \in DOMAIN values : TryRead(values[i], <<name, i>>, heard) # Unknown}
  IN IF got = {} THEN Unknown
     ELSE values[CHOOSE i \in got : \A j \in got : i <= j]

\* readAdHocGetters()
ReadGetters(p, heard) ==
  LET price == FirstAnswer(p.prices, "price", heard)
      start == FirstAnswer(p.starts, "start", heard)
      flag == FirstAnswer(p.flags, "flag", heard)
  IN IF price = Unknown /\ start = Unknown /\ flag = Unknown THEN Unknown
     ELSE Stage("getters", price,
                IF start = Unknown THEN Unknown ELSE TimestampToMs(start), TRUE)

FirstFound(stages) ==
  LET found == {i \in DOMAIN stages : stages[i] # Unknown}
  IN IF found = {} THEN Unknown
     ELSE stages[CHOOSE i \in found : \A j \in found : i <= j]

\* readPublicMintStage()
ReadStage(p, heard) ==
  FirstFound(<<ReadSingleton(p, heard), ReadTokenV2(p, heard), ReadTokenV1(p, heard),
               ReadCondition(p, heard), ReadGetters(p, heard)>>)

\* Whatever may come of it.
Stages(p) == {ReadStage(p, heard) : heard \in SUBSET Lookups(p)}

-----------------------------------------------------------------------------
\* What the contract says it costs, in any of its places.
PublishedPrices(p) ==
  (IF p.singleton = Unknown THEN {} ELSE {p.singleton.price})
  \cup (IF p.token = Unknown THEN {}
        ELSE IF p.token.v2 THEN {p.token.price, p.token.endPrice} ELSE {p.token.price})
  \cup (IF p.condition = Unknown THEN {} ELSE {p.condition.price})
  \cup {p.prices[i] : i \in {j \in DOMAIN p.prices : p.prices[j] # Unknown}}

\* When it says it opens, in its own units.
PublishedStarts(p) ==
  (IF p.singleton = Unknown THEN {} ELSE {p.singleton.start})
  \cup (IF p.token = Unknown THEN {} ELSE {p.token.start})
  \cup (IF p.condition = Unknown THEN {} ELSE {p.condition.start})
  \cup {p.starts[i] : i \in {j \in DOMAIN p.starts : p.starts[j] # Unknown}}
=============================================================================
