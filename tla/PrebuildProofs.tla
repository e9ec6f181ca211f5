--------------------------- MODULE PrebuildProofs ---------------------------
(***************************************************************************)
(* Safety of the way from a link to a template, for all links, contracts,  *)
(* prices, quantities and numbers of endpoints.                            *)
(***************************************************************************)
EXTENDS Prebuild, MintStageProofs, FiniteSetTheorems, SequenceTheorems

-----------------------------------------------------------------------------
(* The price                                                               *)

\* A reader's price is no less than what the opening costs.
Covers(s, cost) == s.native /\ s.price # Unknown => s.price >= cost

LEMMA SingletonCovers ==
  ASSUME NEW p, WellFormed(p), NEW cost \in Nat, Honest(p, cost), NEW heard,
         ReadSingleton(p, heard) # Unknown
  PROVE  Covers(ReadSingleton(p, heard), cost)
<1> DEFINE s == ReadSingleton(p, heard)
           drop == p.singleton
<1>1. /\ drop # Unknown
      /\ s = SeaDropStage("seadrop-v1", drop.price, drop.start, drop.cap)
      /\ SeaDropStage("seadrop-v1", drop.price, drop.start, drop.cap) # Unknown
  BY DEF ReadSingleton, TryRead
<1>2. /\ s = Stage("seadrop-v1", drop.price, TimestampToMs(drop.start), TRUE)
      /\ ~(drop.price = 0 /\ TimestampToMs(drop.start) = Unknown /\ drop.cap = 0)
  BY <1>1 DEF SeaDropStage
<1>3. drop.price >= cost
  <2>1. drop.price >= cost \/ {drop.price, drop.start, drop.cap} = {0}
    BY <1>1 DEF Honest
  <2>2. CASE {drop.price, drop.start, drop.cap} = {0}
    <3>1. drop.price = 0 /\ drop.start = 0 /\ drop.cap = 0
      BY <2>2
    <3>. QED  BY <1>2, <3>1 DEF TimestampToMs
  <2>. QED  BY <2>1, <2>2
<1>4. s.price = drop.price
  BY <1>2 DEF Stage
<1> HIDE DEF s
<1>5. Covers(s, cost)
  BY <1>3, <1>4 DEF Covers
<1>. QED  BY <1>5 DEF s

LEMMA TokenV2Covers ==
  ASSUME NEW p, WellFormed(p), NEW cost \in Nat, Honest(p, cost), NEW heard,
         ReadTokenV2(p, heard) # Unknown
  PROVE  Covers(ReadTokenV2(p, heard), cost)
<1> DEFINE s == ReadTokenV2(p, heard)
           token == p.token
           dear == Higher(token.price, token.endPrice)
<1>1. /\ token # Unknown /\ token.v2
      /\ s = SeaDropStage("seadrop-v2", dear, token.start, token.cap)
      /\ SeaDropStage("seadrop-v2", dear, token.start, token.cap) # Unknown
  BY DEF ReadTokenV2, TryRead, AsV2
<1>2. /\ s = Stage("seadrop-v2", dear, TimestampToMs(token.start), TRUE)
      /\ ~(dear = 0 /\ TimestampToMs(token.start) = Unknown /\ token.cap = 0)
  BY <1>1 DEF SeaDropStage
<1>3. token.price \in Nat /\ token.endPrice \in Nat
  BY <1>1 DEF WellFormed
<1>4. dear >= token.price /\ dear \in Nat
  BY <1>3 DEF Higher
<1>5. dear >= cost
  <2>1. \/ token.price >= cost
        \/ {token.price, token.start, token.cap} = {0} /\ {token.endPrice, token.end} = {0}
    BY <1>1 DEF Honest
  <2>2. CASE {token.price, token.start, token.cap} = {0} /\ {token.endPrice, token.end} = {0}
    <3>1. token.price = 0 /\ token.start = 0 /\ token.cap = 0 /\ token.endPrice = 0
      BY <2>2
    <3>2. dear = 0 /\ TimestampToMs(token.start) = Unknown
      BY <3>1 DEF Higher, TimestampToMs
    <3>. QED  BY <1>2, <3>1, <3>2
  <2>3. CASE token.price >= cost
    BY <1>3, <1>4, <2>3
  <2>. QED  BY <2>1, <2>2, <2>3
<1>6. s.price = dear
  BY <1>2 DEF Stage
<1> HIDE DEF s, dear
<1>7. Covers(s, cost)
  BY <1>5, <1>6 DEF Covers
<1>. QED  BY <1>7 DEF s

LEMMA TokenV1Covers ==
  ASSUME NEW p, WellFormed(p), NEW cost \in Nat, Honest(p, cost), NEW heard,
         ReadTokenV1(p, heard) # Unknown
  PROVE  Covers(ReadTokenV1(p, heard), cost)
<1> DEFINE s == ReadTokenV1(p, heard)
           token == p.token
           v1 == AsV1(token)
<1>1. /\ token # Unknown
      /\ s = SeaDropStage("seadrop-v1-token", v1.price, v1.start, v1.cap)
      /\ SeaDropStage("seadrop-v1-token", v1.price, v1.start, v1.cap) # Unknown
  BY DEF ReadTokenV1, TryRead, AsV1
<1>2. /\ s = Stage("seadrop-v1-token", v1.price, TimestampToMs(v1.start), TRUE)
      /\ ~(v1.price = 0 /\ TimestampToMs(v1.start) = Unknown /\ v1.cap = 0)
  BY <1>1 DEF SeaDropStage
<1>3. /\ v1.price = token.price
      /\ v1.start = IF token.v2 THEN Uint48(token.endPrice) ELSE token.start
      /\ v1.cap = IF token.v2 THEN token.end ELSE token.cap
  BY <1>1 DEF AsV1
<1>4. token.price >= cost
  <2>1. \/ token.price >= cost
        \/ /\ {token.price, token.start, token.cap} = {0}
           /\ token.v2 => {token.endPrice, token.end} = {0}
    BY <1>1 DEF Honest
  <2>2. CASE /\ {token.price, token.start, token.cap} = {0}
             /\ token.v2 => {token.endPrice, token.end} = {0}
    <3>1. /\ token.price = 0 /\ token.start = 0 /\ token.cap = 0
          /\ token.v2 => token.endPrice = 0 /\ token.end = 0
      BY <2>2
    <3>2. v1.price = 0 /\ v1.start = 0 /\ v1.cap = 0
      BY <1>3, <3>1 DEF Uint48
    <3>. QED  BY <1>2, <3>2 DEF TimestampToMs
  <2>. QED  BY <2>1, <2>2
<1>5. s.price = token.price
  BY <1>2, <1>3 DEF Stage
<1> HIDE DEF s
<1>6. Covers(s, cost)
  BY <1>4, <1>5 DEF Covers
<1>. QED  BY <1>6 DEF s

LEMMA ConditionCovers ==
  ASSUME NEW p, WellFormed(p), NEW cost \in Nat, Honest(p, cost), NEW heard,
         ReadCondition(p, heard) # Unknown
  PROVE  Covers(ReadCondition(p, heard), cost)
<1> DEFINE s == ReadCondition(p, heard)
           cond == p.condition
<1>1. /\ cond # Unknown
      /\ s = Stage("thirdweb", cond.price, TimestampToMs(cond.start), cond.native)
  BY DEF ReadCondition, TryRead
<1>2. ~cond.native \/ cond.price >= cost
  BY <1>1 DEF Honest
<1>3. s.price = cond.price /\ s.native = cond.native
  BY <1>1 DEF Stage
<1> HIDE DEF s
<1>4. Covers(s, cost)
  BY <1>2, <1>3 DEF Covers
<1>. QED  BY <1>4 DEF s

\* What is found by any reader but the last covers the opening.
LEMMA StageCovers ==
  ASSUME NEW p, WellFormed(p), NEW cost \in Nat, Honest(p, cost), NEW heard,
         Trusted(ReadStage(p, heard))
  PROVE  Covers(ReadStage(p, heard), cost)
<1> DEFINE s == ReadStage(p, heard)
<1>1. s # Unknown /\ s.source # "getters"
  BY DEF Trusted
<1>2. s \in {ReadSingleton(p, heard), ReadTokenV2(p, heard),
             ReadTokenV1(p, heard), ReadCondition(p, heard), ReadGetters(p, heard)}
  BY <1>1, StageIsRead
<1>3. s # ReadGetters(p, heard)
  BY <1>1 DEF ReadGetters, Stage
<1> HIDE DEF s
<1>4. Covers(s, cost)
  BY <1>1, <1>2, <1>3, SingletonCovers, TokenV2Covers, TokenV1Covers, ConditionCovers
<1>. QED  BY <1>4 DEF s

-----------------------------------------------------------------------------
(* The contract                                                            *)

\* Without a chain or an address there is no contract.
LEMMA OnNothing ==
  ASSUME NEW platform \in Enabled, NEW chain, NEW address,
         On(platform, chain, address) # None
  PROVE  chain # None /\ address # None
<1>1. ToConfigKey(platform, None) = None
  BY MarketplaceAssumption DEF ToConfigKey
<1>2. None \notin Evm
  BY MarketplaceAssumption
<1>. QED  BY <1>1, <1>2 DEF On

LEMMA FirstOfListed ==
  ASSUME NEW platform, NEW list, NEW entries, entries \subseteq DOMAIN list,
         DOMAIN list \subseteq Nat, entries # {}
  PROVE  \E i \in entries :
           FirstOf(platform, list, entries) = On(platform, list[i].chain, list[i].address)
<1> DEFINE i == CHOOSE k \in entries : \A j \in entries : k <= j
<1>1. i \in entries
  BY FirstPosition
<1>2. FirstOf(platform, list, entries) = On(platform, list[i].chain, list[i].address)
  BY DEF FirstOf
<1>. QED  BY <1>1, <1>2

LEMMA PickedIsListed ==
  ASSUME NEW platform, NEW list, DOMAIN list \subseteq Nat,
         PickContract(platform, list) # None
  PROVE  \E i \in DOMAIN list :
           PickContract(platform, list) = On(platform, list[i].chain, list[i].address)
<1>1. /\ Preferred(platform, list) \subseteq DOMAIN list
      /\ Mapped(platform, list) \subseteq DOMAIN list
  BY DEF Preferred, Mapped
<1>2. CASE Preferred(platform, list) # {}
  BY <1>1, <1>2, FirstOfListed DEF PickContract
<1>3. CASE /\ Preferred(platform, list) = {}
           /\ \E i \in Mapped(platform, list) : Mapped(platform, list) = {i}
  <2>1. PickContract(platform, list) = FirstOf(platform, list, Mapped(platform, list))
    BY <1>3 DEF PickContract
  <2>. QED  BY <1>1, <1>3, <2>1, FirstOfListed
<1>4. CASE /\ Preferred(platform, list) = {}
           /\ ~ \E i \in Mapped(platform, list) : Mapped(platform, list) = {i}
  BY <1>4 DEF PickContract
<1>. QED  BY <1>2, <1>3, <1>4

\* A link that does not lose its chain leads to an entry of its page.
LEMMA ResolvedIsListed ==
  ASSUME NEW l \in Links, Resolved(l) # None, ~LosesChain(l)
  PROVE  Resolved(l) \in {On(l.platform, c.chain, c.address) : c \in ToSet(l.page)}
<1>1. l.platform \in Enabled /\ l.platform \in {"opensea", "magiceden", "rarible"}
  BY MarketplaceAssumption DEF Resolved
<1>2. Body(l) = l.page /\ l.page \in Seq(ToSet(l.page))
  BY LinksAssumption DEF Body
<1>3. ASSUME Resolved(l) = On(l.platform, l.chain, l.address)
      PROVE  Resolved(l) \in {On(l.platform, c.chain, c.address) : c \in ToSet(l.page)}
  <2>1. l.chain # None /\ l.address # None
    BY <1>1, <1>3, OnNothing
  <2>2. PICK c \in ToSet(l.page) : c.chain = l.chain /\ c.address = l.address
    BY <2>1, LinksAssumption
  <2>. QED  BY <1>3, <2>2
<1>4. CASE l.platform = "opensea"
  <2>1. Resolved(l) = OpenSea(l, l.page)
    BY <1>1, <1>2, <1>4 DEF Resolved
  <2>2. CASE l.address # None
    BY <1>3, <1>4, <2>1, <2>2 DEF OpenSea
  <2>3. CASE l.address = None
    <3>1. Resolved(l) = PickContract("opensea", l.page)
      BY <2>1, <2>3 DEF OpenSea
    <3>2. PICK i \in DOMAIN l.page :
            Resolved(l) = On("opensea", l.page[i].chain, l.page[i].address)
      BY <1>2, <3>1, PickedIsListed
    <3>3. l.page[i] \in ToSet(l.page)
      BY DEF ToSet
    <3>. QED  BY <1>4, <3>2, <3>3
  <2>. QED  BY <2>2, <2>3
<1>5. CASE l.platform = "magiceden"
  <2>1. Resolved(l) = MagicEden(l, l.page)
    BY <1>1, <1>2, <1>5 DEF Resolved
  <2>2. l.address # None
    BY <1>5 DEF LosesChain
  <2>. QED  BY <1>3, <1>5, <2>1, <2>2 DEF MagicEden, Either
<1>6. CASE l.platform = "rarible"
  <2>1. Resolved(l) = Rarible(l, l.page)
    BY <1>1, <1>2, <1>6 DEF Resolved
  <2>2. (l.address # None /\ l.chain # None) \/ (l.address = None /\ l.chain = None)
    BY <1>6 DEF LosesChain
  <2>3. CASE l.address # None /\ l.chain # None
    BY <1>3, <1>6, <2>1, <2>3 DEF Rarible, Either
  <2>4. CASE l.address = None /\ l.chain = None
    <3>1. Resolved(l) = On("rarible", First(l.page).chain, First(l.page).address)
      BY <2>1, <2>4 DEF Rarible, Either
    <3>2. l.page # <<>>
      BY <1>1, <1>6, <3>1, OnNothing DEF First
    <3>3. First(l.page) = l.page[1] /\ 1 \in DOMAIN l.page
      BY <1>2, <3>2 DEF First
    <3>4. First(l.page) \in ToSet(l.page)
      BY <3>3 DEF ToSet
    <3>. QED  BY <1>6, <3>1, <3>4
  <2>. QED  BY <2>2, <2>3, <2>4
<1>. QED  BY <1>1, <1>4, <1>5, <1>6

-----------------------------------------------------------------------------
(* The order of a page                                                     *)

\* An injection of the positions into themselves reaches all of them.
LEMMA ReorderingIsOnto ==
  ASSUME NEW n \in Nat, NEW f \in [1..n -> 1..n],
         \A i, j \in 1..n : f[i] = f[j] => i = j
  PROVE  \A i \in 1..n : \E j \in 1..n : f[j] = i
<1>1. f \in Injection(1..n, 1..n)
  BY DEF Injection, IsInjective
<1>2. IsFiniteSet(1..n)
  BY FS_Interval
<1>3. f \in Surjection(1..n, 1..n)
  BY <1>1, <1>2, FS_Injection
<1>. QED  BY <1>3 DEF Surjection

\* An only entry that qualifies is the first.
LEMMA FirstOfOne ==
  ASSUME NEW platform, NEW list, NEW i \in Nat
  PROVE  FirstOf(platform, list, {i}) = On(platform, list[i].chain, list[i].address)
<1>1. (CHOOSE k \in {i} : \A j \in {i} : k <= j) = i
  OBVIOUS
<1>. QED  BY <1>1 DEF FirstOf

\* Not two entries are on the default network.
OneOnDefault(platform, list) ==
  \A i, j \in DOMAIN list :
    /\ ToConfigKey(platform, list[i].chain) = DefaultNetwork
    /\ ToConfigKey(platform, list[j].chain) = DefaultNetwork
    => i = j

LEMMA PickIsStable ==
  ASSUME NEW platform, NEW S, NEW list \in Seq(S), OneOnDefault(platform, list),
         NEW s \in Reorderings(list)
  PROVE  PickContract(platform, s) = PickContract(platform, list)
<1> DEFINE n == Len(list)
<1>0. n \in Nat /\ DOMAIN list = 1..n
  OBVIOUS
<1> HIDE DEF n
<1>f. PICK f \in [1..n -> 1..n] :
        /\ \A i, j \in 1..n : f[i] = f[j] => i = j
        /\ s = [i \in 1..n |-> list[f[i]]]
  BY <1>0 DEF Reorderings
<1>1. \A i \in 1..n : \E j \in 1..n : f[j] = i
  BY <1>0, <1>f, ReorderingIsOnto
<1>2. DOMAIN s = 1..n /\ DOMAIN list = 1..n /\ \A i \in 1..n : s[i] = list[f[i]] /\ f[i] \in 1..n
  BY <1>0, <1>f
<1>3. /\ Mapped(platform, s) = {i \in 1..n : f[i] \in Mapped(platform, list)}
      /\ Mapped(platform, list) \subseteq 1..n
  BY <1>2 DEF Mapped
<1>4. /\ Preferred(platform, s) = {i \in 1..n : f[i] \in Preferred(platform, list)}
      /\ Preferred(platform, list) \subseteq 1..n
  BY <1>2, <1>3 DEF Preferred
<1>5. ASSUME NEW i \in 1..n, NEW j \in 1..n, f[j] = i
      PROVE  FirstOf(platform, s, {j}) = FirstOf(platform, list, {i})
  <2>1. s[j] = list[i] /\ i \in Nat /\ j \in Nat
    BY <1>0, <1>2, <1>5
  <2>2. FirstOf(platform, s, {j}) = On(platform, s[j].chain, s[j].address)
    BY <2>1, FirstOfOne
  <2>3. FirstOf(platform, list, {i}) = On(platform, list[i].chain, list[i].address)
    BY <2>1, FirstOfOne
  <2>. QED  BY <2>1, <2>2, <2>3
<1>6. CASE Preferred(platform, list) # {}
  <2>1. PICK i \in 1..n : Preferred(platform, list) = {i}
    <3>1. PICK i \in Preferred(platform, list) : TRUE
      BY <1>6
    <3>2. \A k \in Preferred(platform, list) :
            k \in 1..n /\ ToConfigKey(platform, list[k].chain) = DefaultNetwork
      BY <1>4 DEF Preferred
    <3>3. \A k \in Preferred(platform, list) : k = i
      BY <1>0, <3>2 DEF OneOnDefault
    <3>4. Preferred(platform, list) = {i}
      BY <3>3
    <3>. QED  BY <3>2, <3>4
  <2>2. PICK j \in 1..n : f[j] = i
    BY <1>1
  <2>3. Preferred(platform, s) = {j}
    BY <1>4, <1>f, <2>1, <2>2
  <2>4. /\ PickContract(platform, list) = FirstOf(platform, list, {i})
        /\ PickContract(platform, s) = FirstOf(platform, s, {j})
    BY <2>1, <2>3 DEF PickContract
  <2>. QED  BY <1>5, <2>2, <2>4
<1>7. CASE Preferred(platform, list) = {}
  <2>1. Preferred(platform, s) = {}
    BY <1>4, <1>7
  <2>2. CASE \E i \in Mapped(platform, list) : Mapped(platform, list) = {i}
    <3>1. PICK i \in 1..n : Mapped(platform, list) = {i}
      BY <1>3, <2>2
    <3>2. PICK j \in 1..n : f[j] = i
      BY <1>1
    <3>3. Mapped(platform, s) = {j}
      BY <1>3, <1>f, <3>1, <3>2
    <3>4. PickContract(platform, list) = FirstOf(platform, list, {i})
      BY <1>7, <3>1 DEF PickContract
    <3>5. PickContract(platform, s) = FirstOf(platform, s, {j})
      BY <2>1, <3>3 DEF PickContract
    <3>. QED  BY <1>5, <3>2, <3>4, <3>5
  <2>3. CASE ~ \E i \in Mapped(platform, list) : Mapped(platform, list) = {i}
    <3>1. ~ \E j \in Mapped(platform, s) : Mapped(platform, s) = {j}
      <4>. SUFFICES ASSUME NEW j \in Mapped(platform, s), Mapped(platform, s) = {j}
                    PROVE  FALSE
        OBVIOUS
      <4>1. f[j] \in Mapped(platform, list)
        BY <1>3
      <4>2. ASSUME NEW i \in Mapped(platform, list)
            PROVE  i = f[j]
        <5>1. PICK k \in 1..n : f[k] = i
          BY <1>1, <1>3
        <5>2. k \in Mapped(platform, s)
          BY <1>3, <5>1
        <5>. QED  BY <5>1, <5>2
      <4>3. Mapped(platform, list) = {f[j]}
        BY <4>1, <4>2
      <4>. QED  BY <2>3, <4>1, <4>3
    <3>2. PickContract(platform, list) = None
      BY <1>7, <2>3 DEF PickContract
    <3>3. PickContract(platform, s) = None
      BY <2>1, <3>1 DEF PickContract
    <3>. QED  BY <3>2, <3>3
  <2>. QED  BY <2>2, <2>3
<1>. QED  BY <1>6, <1>7

-----------------------------------------------------------------------------
(* The candidates                                                          *)

\* A filtered list: the positions that stay are counted through.
LEMMA Ranks ==
  ASSUME NEW n \in Nat, NEW T, T \subseteq 1..n
  PROVE  LET Rank(i) == Cardinality({j \in T : j <= i})
             Nth(k) == CHOOSE i \in T : Rank(i) = k
         IN /\ Cardinality(T) \in Nat
            /\ \A k \in 1..Cardinality(T) : Nth(k) \in T
            /\ \A i \in T : Rank(i) \in 1..Cardinality(T) /\ Nth(Rank(i)) = i
<1> DEFINE Rank(i) == Cardinality({j \in T : j <= i})
           Nth(k) == CHOOSE i \in T : Rank(i) = k
<1>1. IsFiniteSet(T) /\ Cardinality(T) \in Nat
  <2>1. IsFiniteSet(1..n)
    BY FS_Interval
  <2>2. IsFiniteSet(T)
    BY <2>1, FS_Subset
  <2>. QED  BY <2>2, FS_CardinalityType
<1>2. ASSUME NEW i \in T
      PROVE  Rank(i) \in 1..Cardinality(T)
  <2>1. IsFiniteSet({j \in T : j <= i}) /\ Rank(i) <= Cardinality(T)
    BY <1>1, FS_Subset
  <2>2. i \in {j \in T : j <= i}
    OBVIOUS
  <2>3. Rank(i) \in Nat /\ Rank(i) # 0
    BY <2>1, <2>2, FS_CardinalityType, FS_EmptySet
  <2>. QED  BY <1>1, <2>1, <2>3
<1>3. ASSUME NEW i \in T, NEW k \in T, i < k
      PROVE  Rank(i) < Rank(k)
  <2> DEFINE A == {j \in T : j <= i}
             B == {j \in T : j <= k}
  <2>1. A \subseteq B /\ k \in B /\ k \notin A
    <3>1. T \subseteq Nat
      OBVIOUS
    <3>2. \A j \in Nat : j <= i => j <= k
      BY <1>3, <3>1
    <3>3. k <= k /\ ~(k <= i)
      BY <1>3, <3>1
    <3>. QED  BY <3>1, <3>2, <3>3
  <2>2. IsFiniteSet(B) /\ IsFiniteSet(A)
    BY <1>1, FS_Subset
  <2>3. Cardinality(A) <= Cardinality(B) /\ Cardinality(A) # Cardinality(B)
    BY <2>1, <2>2, FS_Subset
  <2>4. Cardinality(A) \in Nat /\ Cardinality(B) \in Nat
    BY <2>2, FS_CardinalityType
  <2>5. Cardinality(A) < Cardinality(B)
    BY <2>3, <2>4
  <2>. QED  BY <2>5
<1>4. ASSUME NEW i \in T, NEW k \in T, Rank(i) = Rank(k)
      PROVE  i = k
  <2>1. i \in Nat /\ k \in Nat /\ Rank(i) \in Nat /\ Rank(k) \in Nat
    BY <1>2
  <2>2. ~(i < k) /\ ~(k < i)
    BY <1>3, <1>4, <2>1
  <2>. QED  BY <2>1, <2>2
<1>5. ASSUME NEW k \in 1..Cardinality(T)
      PROVE  \E i \in T : Rank(i) = k
  <2> DEFINE r == [i \in T |-> Rank(i)]
  <2>1. r \in Injection(T, 1..Cardinality(T))
    BY <1>2, <1>4 DEF Injection, IsInjective
  <2>2. IsFiniteSet(1..Cardinality(T)) /\ Cardinality(1..Cardinality(T)) = Cardinality(T)
    BY <1>1, FS_Interval
  <2>3. r \in Surjection(T, 1..Cardinality(T))
    BY <2>1, <2>2, FS_Injection
  <2>4. \E i \in T : r[i] = k
    BY <2>3 DEF Surjection
  <2>. QED  BY <2>4
<1> HIDE DEF Rank
<1>6. \A k \in 1..Cardinality(T) : Nth(k) \in T
  BY <1>5
<1>7. \A i \in T : Rank(i) \in 1..Cardinality(T) /\ Nth(Rank(i)) = i
  BY <1>2, <1>4
<1>. QED  BY <1>1, <1>6, <1>7 DEF Rank

LEMMA GenericTyped ==
  /\ Generic \in Seq(ToSet(Generic)) /\ Len(Generic) = 8
  /\ \A i, j \in 1..8 : Generic[i].name = Generic[j].name => i = j
<1>1. /\ Generic[1].name = "mint(uint256)" /\ Generic[2].name = "mint()"
      /\ Generic[3].name = "mint(address,uint256)" /\ Generic[4].name = "claim(uint256)"
      /\ Generic[5].name = "claim()" /\ Generic[6].name = "publicMint(uint256)"
      /\ Generic[7].name = "mintPublic(uint256)" /\ Generic[8].name = "purchase(uint256)"
  BY DEF Generic, Takes, Single
<1>2. Len(Generic) = 8
  BY DEF Generic
<1>3. Generic \in Seq(ToSet(Generic))
  <2> DEFINE S == ToSet(Generic)
  <2>1. \A i \in 1..8 : Generic[i] \in S
    <3>1. DOMAIN Generic = 1..8
      BY DEF Generic
    <3>. QED  BY <3>1 DEF ToSet
  <2>2. Generic = [i \in 1..8 |-> Generic[i]]
    BY DEF Generic
  <2> HIDE DEF S
  <2>3. Generic \in Seq(S)
    BY <2>1, <2>2
  <2>. QED  BY <2>3 DEF S
<1>4. \A i, j \in 1..8 : Generic[i].name = Generic[j].name => i = j
  <2>1. \A i \in 1..8 : i \in {1, 2, 3, 4, 5, 6, 7, 8}
    OBVIOUS
  <2>. QED  BY <1>1, <2>1
<1>. QED  BY <1>2, <1>3, <1>4

\* All the candidates come from the ABI or the generic list; and each generic one
\* is among them.
LEMMA CandidatesKept ==
  ASSUME NEW k \in Contracts, NEW abi \in {<<>>, k.abi}
  PROVE  /\ Candidates(abi) \in Seq(ToSet(k.abi) \cup ToSet(Generic))
         /\ \A c \in ToSet(Generic) : \E i \in DOMAIN Candidates(abi) : Candidates(abi)[i] = c
<1> DEFINE all == abi \o Generic
           n == Len(all)
           first == {i \in DOMAIN all : \A j \in DOMAIN all : j < i => all[j].name # all[i].name}
           Rank(i) == Cardinality({j \in first : j <= i})
           Nth(m) == CHOOSE i \in first : Rank(i) = m
           list == [m \in 1..Cardinality(first) |-> all[Nth(m)]]
<1>1. Candidates(abi) = list
  BY DEF Candidates
<1>2. /\ abi \in Seq(ToSet(k.abi)) /\ Len(abi) \in Nat
      /\ \A i \in 1..Len(abi) : abi[i] \in ToSet(k.abi)
  <2> DEFINE S == ToSet(k.abi)
  <2>1. k.abi \in Seq(S)
    BY ContractsAssumption
  <2> HIDE DEF S
  <2>2. abi \in Seq(S)
    <3>1. CASE abi = <<>>  BY <3>1
    <3>2. CASE abi = k.abi  BY <2>1, <3>2
    <3>. QED  BY <3>1, <3>2
  <2>3. Len(abi) \in Nat /\ \A i \in 1..Len(abi) : abi[i] \in S
    BY <2>2
  <2>. QED  BY <2>2, <2>3 DEF S
<1>3. /\ n = Len(abi) + 8 /\ DOMAIN all = 1..n /\ n \in Nat
      /\ \A i \in 1..Len(abi) : all[i] = abi[i]
      /\ \A i \in 1..8 : all[Len(abi) + i] = Generic[i]
      /\ \A i \in 1..n : i \in 1..Len(abi) \/ \E j \in 1..8 : i = Len(abi) + j
  <2> DEFINE F == ToSet(k.abi) \cup ToSet(Generic)
             G == Generic
  <2>1. abi \in Seq(F) /\ G \in Seq(F) /\ Len(G) = 8 /\ Len(abi) \in Nat
    BY <1>2, GenericTyped
  <2>2. all = abi \o G
    OBVIOUS
  <2> HIDE DEF F, G, all
  <2>3. /\ all \in Seq(F) /\ Len(all) = Len(abi) + 8
        /\ \A i \in 1..Len(abi) + 8 : all[i] = IF i <= Len(abi) THEN abi[i] ELSE G[i - Len(abi)]
    <3>1. abi \in Seq(F) /\ G \in Seq(F)
      BY <2>1
    <3>2. /\ abi \o G \in Seq(F)
          /\ Len(abi \o G) = Len(abi) + Len(G)
          /\ \A i \in 1..Len(abi) + Len(G) :
               (abi \o G)[i] = IF i <= Len(abi) THEN abi[i] ELSE G[i - Len(abi)]
      BY <3>1, ConcatProperties, Zenon
    <3>. QED  BY <2>1, <2>2, <3>2, Zenon
  <2>4. n = Len(abi) + 8 /\ DOMAIN all = 1..n /\ n \in Nat
    BY <2>1, <2>3
  <2>5. \A i \in 1..n : all[i] = IF i <= Len(abi) THEN abi[i] ELSE G[i - Len(abi)]
    BY <2>3, <2>4
  <2>6. ASSUME NEW i \in 1..8
        PROVE  all[Len(abi) + i] = Generic[i]
    <3>1. /\ Len(abi) + i \in 1..n /\ ~(Len(abi) + i <= Len(abi))
          /\ (Len(abi) + i) - Len(abi) = i
      BY <2>1, <2>4
    <3>. QED  BY <2>5, <3>1 DEF G
  <2>7. ASSUME NEW i \in 1..Len(abi)
        PROVE  all[i] = abi[i]
    BY <2>1, <2>4, <2>5
  <2>8. ASSUME NEW i \in 1..n, i \notin 1..Len(abi)
        PROVE  \E j \in 1..8 : i = Len(abi) + j
    <3>1. i - Len(abi) \in 1..8 /\ i = Len(abi) + (i - Len(abi))
      BY <2>1, <2>4, <2>8
    <3>. QED  BY <3>1
  <2>. QED  BY <2>4, <2>6, <2>7, <2>8
<1>4. \A i \in 1..n : all[i] \in ToSet(k.abi) \cup ToSet(Generic)
  <2>1. \A i \in 1..8 : Generic[i] \in ToSet(Generic)
    BY GenericTyped DEF ToSet
  <2> HIDE DEF all, n
  <2>. QED  BY <1>2, <1>3, <2>1
<1> HIDE DEF all, n
<1>5. first \subseteq 1..n
  BY <1>3
<1>6. /\ Cardinality(first) \in Nat
      /\ \A m \in 1..Cardinality(first) : Nth(m) \in first
      /\ \A i \in first : Rank(i) \in 1..Cardinality(first) /\ Nth(Rank(i)) = i
  BY <1>3, <1>5, Ranks
<1>7. \A i \in first : \E m \in DOMAIN list : list[m] = all[i]
  BY <1>6
<1>8. list \in Seq(ToSet(k.abi) \cup ToSet(Generic))
  <2>1. \A m \in 1..Cardinality(first) : all[Nth(m)] \in ToSet(k.abi) \cup ToSet(Generic)
    BY <1>4, <1>5, <1>6
  <2> HIDE DEF first, Nth
  <2>. QED  BY <1>6, <2>1
<1>9. ASSUME NEW c \in ToSet(Generic)
      PROVE  \E i \in first : all[i] = c
  <2> DEFINE named == {i \in 1..n : all[i].name = c.name}
             i == CHOOSE m \in named : \A j \in named : m <= j
  <2>1. PICK g \in 1..8 : Generic[g] = c
    BY GenericTyped DEF ToSet
  <2>2. named # {} /\ named \subseteq Nat
    <3>1. Len(abi) + g \in 1..n
      BY <1>2, <1>3, <2>1
    <3>2. all[Len(abi) + g] = c
      BY <1>3, <2>1
    <3>3. Len(abi) + g \in named
      BY <3>1, <3>2
    <3>4. n \in Nat
      BY <1>3
    <3>5. named \subseteq Nat
      BY <3>4
    <3> HIDE DEF named
    <3>. QED  BY <3>3, <3>5
  <2>3. i \in named /\ \A m \in named : i <= m
    BY <2>2, FirstPosition
  <2> HIDE DEF i
  <2>4. i \in first
    BY <1>3, <2>3
  <2>5. all[i] = c
    <3>1. CASE i \in 1..Len(abi)
      <4>1. all[i] = abi[i] /\ abi[i].name = c.name /\ abi = k.abi
        BY <1>3, <2>3, <3>1
      <4>. QED  BY <1>2, <3>1, <4>1, ContractsAssumption
    <3>2. CASE \E j \in 1..8 : i = Len(abi) + j
      <4>1. PICK j \in 1..8 : i = Len(abi) + j
        BY <3>2
      <4>2. all[i] = Generic[j] /\ Generic[j].name = Generic[g].name
        BY <1>3, <2>1, <2>3, <4>1
      <4>. QED  BY <2>1, <4>2, GenericTyped
    <3>. QED  BY <1>3, <2>3, <3>1, <3>2
  <2>. QED  BY <2>4, <2>5
<1> HIDE DEF list, first
<1>. QED  BY <1>1, <1>7, <1>8, <1>9
-----------------------------------------------------------------------------
(* Types                                                                   *)

\* What has happened by the time the preparation stands where it does.
Route ==
  /\ pc = "resolving" => link \in Links /\ contract = None
  /\ contract = None => pc \in {"resolving", "failed"} /\ stage = Unknown
  /\ pc \in {"warming", "looking"} => price # Unknown
  /\ pc # "built" => template = None

\* A list of candidates is made once and worked through.
Listing ==
  /\ pc \in {"resolving", "reading", "asking", "warming", "looking"} => candidates = <<>>
  /\ pc \in {"calling", "estimating", "judging", "checking", "built"} => candidates # <<>>
  /\ candidates = <<>> => cand = 0 /\ tries = 0 /\ ~rejected
  /\ candidates # <<>> =>
       /\ contract \in Contracts /\ price # Unknown
       /\ \E abi \in {<<>>, contract.abi} : candidates = Candidates(abi)
       /\ cand \in DOMAIN candidates

Prepared == TypeOK /\ Route /\ Listing

LEMMA Numbers ==
  /\ Qtys \subseteq Nat /\ Typed \subseteq Nat /\ Funds \in Nat
  /\ Requests \in Nat \ {0} /\ Attempts \in Nat \ {0}
  /\ 0 \in 0..(Requests - 1) /\ 0 \in 0..Attempts
  /\ None \notin Contracts /\ Unknown \notin Nat
<1>1. Funds \in Qtys \cup Typed \cup {Funds}
  OBVIOUS
<1>2. Qtys \subseteq Nat /\ Typed \subseteq Nat /\ Funds \in Nat
  BY <1>1, PrebuildAssumption
<1>3. Requests \in Nat \ {0} /\ Attempts \in Nat \ {0}
  BY PrebuildAssumption
<1>4. 0 \in 0..(Requests - 1) /\ 0 \in 0..Attempts
  BY <1>3
<1>. QED  BY <1>2, <1>3, <1>4, PrebuildAssumption

LEMMA PricesNatural == Typed \subseteq Prices /\ Prices \subseteq Nat
<1>1. ASSUME NEW k \in Contracts
      PROVE  PublishedPrices(k.published) \subseteq Nat
  <2> DEFINE p == k.published
  <2>1. WellFormed(p)
    BY ContractsAssumption
  <2>2. p.prices \in Seq(Nat \cup {Unknown})
    BY <2>1 DEF WellFormed
  <2>3. \A j \in DOMAIN p.prices : p.prices[j] # Unknown => p.prices[j] \in Nat
    BY <2>2
  <2> HIDE DEF p
  <2>4. PublishedPrices(p) \subseteq Nat
    BY <2>1, <2>3 DEF PublishedPrices, WellFormed
  <2>. QED  BY <2>4 DEF p
<1>2. Typed \subseteq Nat
  BY Numbers
<1> DEFINE published == UNION {PublishedPrices(k.published) : k \in Contracts}
<1>3. published \subseteq Nat
  BY <1>1
<1>4. Prices = Typed \cup published
  BY DEF Prices
<1> HIDE DEF published
<1>. QED  BY <1>2, <1>3, <1>4

LEMMA CandidatesTyped ==
  ASSUME NEW k \in Contracts, NEW abi \in {<<>>, k.abi}
  PROVE  /\ Len(Candidates(abi)) \in Nat \ {0}
         /\ DOMAIN Candidates(abi) = 1..Len(Candidates(abi))
         /\ Candidates(abi) # <<>>
         /\ \A i \in DOMAIN Candidates(abi) : Candidates(abi)[i].name \in Names
<1> DEFINE list == Candidates(abi)
           F == ToSet(k.abi) \cup ToSet(Generic)
<1>1. list \in Seq(F) /\ \A c \in ToSet(Generic) : \E i \in DOMAIN list : list[i] = c
  BY CandidatesKept
<1>2. Generic[1] \in ToSet(Generic)
  BY GenericTyped DEF ToSet
<1>3. \A c \in F : c.name \in Names
  BY DEF Names
<1> HIDE DEF list, F
<1>4. Len(list) \in Nat /\ DOMAIN list = 1..Len(list) /\ \A i \in DOMAIN list : list[i] \in F
  BY <1>1
<1>5. PICK i \in DOMAIN list : list[i] = Generic[1]
  BY <1>1, <1>2
<1>6. Len(list) # 0 /\ list # <<>>
  BY <1>4, <1>5
<1>. QED  BY <1>3, <1>4, <1>6 DEF list

LEMMA InitPrepared == Init => Prepared
<1>. SUFFICES ASSUME Init PROVE Prepared
  OBVIOUS
<1>1. DOMAIN candidates = {} /\ unheard = {}
  BY DEF Init
<1>2. TypeOK
  BY <1>1, Numbers DEF Init, TypeOK
<1>. QED  BY <1>2 DEF Init, Prepared, Route, Listing

LEMMA FailPrepared ==
  ASSUME Prepared, NEW verdict \in BOOLEAN, Fail(verdict),
         pc # "built", verdict => candidates # <<>>
  PROVE  Prepared'
<1>1. /\ pc' = "failed" /\ rejected' = verdict
      /\ UNCHANGED <<contract, qty, open, funds, link, asked, stage, price,
                     candidates, cand, refused, tries, unheard, template>>
  BY DEF Fail, world, target, probe
<1>2. TypeOK'
  BY <1>1 DEF Prepared, TypeOK
<1>3. Route' /\ Listing'
  BY <1>1 DEF Prepared, Route, Listing
<1>. QED  BY <1>2, <1>3 DEF Prepared

LEMMA TargetPrepared ==
  ASSUME Prepared, AskAgain \/ ResolveLink \/ ReadContract \/ Arm \/ Warm
  PROVE  Prepared'
<1>1. CASE AskAgain
  <2>1. /\ asked' = asked + 1 /\ asked < Requests - 1
        /\ UNCHANGED <<contract, qty, open, funds, pc, link, stage, price,
                       candidates, cand, refused, tries, unheard, template, rejected>>
    BY <1>1 DEF AskAgain, world, probe, outcome
  <2>2. asked' \in 0..(Requests - 1)
    BY <2>1, Numbers DEF Prepared, TypeOK
  <2>3. TypeOK'
    BY <2>1, <2>2 DEF Prepared, TypeOK
  <2>. QED  BY <2>1, <2>3 DEF Prepared, Route, Listing
<1>2. CASE ResolveLink
  <2>1. /\ pc = "resolving" /\ Resolved(link) # None
        /\ contract' = Deployed[Resolved(link)]
        /\ open' \in {TRUE, ~contract'.opens}
        /\ link' = None /\ asked' = 0 /\ pc' = "reading"
        /\ UNCHANGED <<qty, funds, stage, price,
                       candidates, cand, refused, tries, unheard, template, rejected>>
    BY <1>2 DEF ResolveLink, Resolving, probe, outcome
  <2>2. link \in Links
    BY <2>1 DEF Prepared, Route
  <2>3. contract' \in Contracts
    BY <2>1, <2>2, LinksAssumption DEF Contracts
  <2>4. open' \in BOOLEAN /\ contract' # None /\ 0 \in 0..(Requests - 1)
    <3>1. open' \in BOOLEAN
      BY <2>1
    <3>. QED  BY <2>3, <3>1, Numbers
  <2>5. TypeOK'
    BY <2>1, <2>3, <2>4 DEF Prepared, TypeOK
  <2>6. candidates = <<>>
    BY <2>1 DEF Prepared, Listing
  <2>. QED  BY <2>1, <2>4, <2>5, <2>6 DEF Prepared, Route, Listing
<1>3. CASE ReadContract
  <2>1. /\ pc = "reading" /\ pc' = "asking"
        /\ stage' \in Stages(contract.published)
        /\ price' = IF stage' = Unknown THEN Unknown ELSE stage'.price
        /\ UNCHANGED <<contract, qty, open, funds, link, asked,
                       candidates, cand, refused, tries, unheard, template, rejected>>
    BY <1>3 DEF ReadContract, world, probe, outcome
  <2>2. contract \in Contracts /\ candidates = <<>>
    BY <2>1 DEF Prepared, TypeOK, Route, Listing
  <2>3. stage' # Unknown => Told(stage', contract.published)
    BY <2>1, <2>2, StageTold, ContractsAssumption DEF Stages
  <2>4. stage' # Unknown => stage'.price \in Prices \cup {Unknown} /\ stage'.start \in Nat \cup {Unknown}
    BY <2>2, <2>3 DEF Told, Prices
  <2>5. price' \in Prices \cup {Unknown}
    BY <2>1, <2>4
  <2>6. TypeOK'
    BY <2>1, <2>4, <2>5 DEF Prepared, TypeOK
  <2>7. contract' # None
    BY <2>1 DEF Prepared, Route
  <2>. QED  BY <2>1, <2>2, <2>6, <2>7 DEF Prepared, Route, Listing
<1>4. CASE Arm
  <2>1. /\ pc = "asking" /\ pc' = "warming"
        /\ IF price = Unknown THEN price' \in Typed ELSE price' = price
        /\ UNCHANGED <<contract, qty, open, funds, link, asked, stage,
                       candidates, cand, refused, tries, unheard, template, rejected>>
    BY <1>4 DEF Arm, world, probe, outcome
  <2>2. price' \in Prices
    BY <2>1, PricesNatural DEF Prepared, TypeOK
  <2>3. price' # Unknown
    BY <2>2, PricesNatural, Numbers
  <2>4. TypeOK'
    BY <2>1, <2>2 DEF Prepared, TypeOK
  <2>. QED  BY <2>1, <2>3, <2>4 DEF Prepared, Route, Listing
<1>5. CASE Warm
  <2>1. /\ pc = "warming" /\ pc' = "looking"
        /\ UNCHANGED <<contract, qty, open, funds, link, asked, stage, price,
                       candidates, cand, refused, tries, unheard, template, rejected>>
    BY <1>5 DEF Warm, world, target, probe, outcome
  <2>2. TypeOK'
    BY <2>1 DEF Prepared, TypeOK
  <2>. QED  BY <2>1, <2>2 DEF Prepared, Route, Listing
<1>. QED  BY <1>1, <1>2, <1>3, <1>4, <1>5

LEMMA BeginPrepared ==
  ASSUME Prepared, NEW list, BeginProbe(list), tries < Attempts,
         contract \in Contracts, price # Unknown, template = None,
         \E abi \in {<<>>, contract.abi} : list = Candidates(abi)
  PROVE  Prepared'
<1>1. /\ candidates' = list /\ cand' = 1 /\ refused' = FALSE /\ unheard' = {}
      /\ tries' = tries + 1 /\ pc' = "calling"
      /\ UNCHANGED <<contract, qty, open, funds, link, asked, stage, price, template, rejected>>
  BY DEF BeginProbe, world, target, outcome
<1>2. /\ 1 \in DOMAIN list /\ list # <<>>
      /\ \A i \in DOMAIN list : list[i].name \in Names
  BY CandidatesTyped
<1>3. tries' \in 0..Attempts
  BY <1>1, Numbers DEF Prepared, TypeOK
<1>4. TypeOK'
  BY <1>1, <1>2, <1>3 DEF Prepared, TypeOK
<1>5. Route'
  BY <1>1, Numbers DEF Prepared, Route
<1>6. Listing'
  BY <1>1, <1>2 DEF Listing
<1>. QED  BY <1>4, <1>5, <1>6 DEF Prepared
\* While candidates are probed.
LEMMA AtCandidate ==
  ASSUME Prepared, candidates # <<>>
  PROVE  /\ contract \in Contracts /\ price \in Nat /\ qty \in Nat
         /\ \E abi \in {<<>>, contract.abi} : candidates = Candidates(abi)
         /\ Len(candidates) \in Nat /\ DOMAIN candidates = 1..Len(candidates)
         /\ cand \in 1..Len(candidates)
<1>1. contract \in Contracts /\ \E abi \in {<<>>, contract.abi} : candidates = Candidates(abi)
  BY DEF Prepared, Listing
<1>2. Len(candidates) \in Nat /\ DOMAIN candidates = 1..Len(candidates)
  BY <1>1, CandidatesTyped
<1>3. price \in Nat /\ qty \in Nat
  BY PricesNatural, Numbers DEF Prepared, TypeOK, Listing
<1>. QED  BY <1>1, <1>2, <1>3 DEF Prepared, Listing

LEMMA PassOverPrepared ==
  ASSUME Prepared, Probing, NEW rpc \in BOOLEAN, PassOver(rpc)
  PROVE  Prepared'
<1>1. /\ unheard' \in {unheard, unheard \cup {cand}}
      /\ refused' = (refused \/ ~rpc)
      /\ pc' \in {"calling", "judging"}
      /\ cand' = IF cand < Len(candidates) THEN cand + 1 ELSE cand
      /\ UNCHANGED <<contract, qty, open, funds, link, asked, stage, price,
                     candidates, tries, template, rejected>>
  BY DEF PassOver, world, target, outcome
<1>2. pc \in {"calling", "estimating"} /\ candidates # <<>>
  BY DEF Probing, Prepared, Listing
<1>3. cand \in DOMAIN candidates /\ cand' \in DOMAIN candidates /\ cand' \in Nat
  BY <1>1, <1>2, AtCandidate
<1>4. unheard' \subseteq DOMAIN candidates
  BY <1>1, <1>3 DEF Prepared, TypeOK
<1>5. refused' \in BOOLEAN
  BY <1>1
<1>6. TypeOK'
  BY <1>1, <1>3, <1>4, <1>5 DEF Prepared, TypeOK
<1>7. Route'
  BY <1>1, <1>2 DEF Prepared, Route
<1>8. Listing'
  BY <1>1, <1>2, <1>3 DEF Prepared, Listing
<1>. QED  BY <1>6, <1>7, <1>8 DEF Prepared

LEMMA ProbePrepared ==
  ASSUME Prepared,
         ResolveAbi \/ CallPasses \/ Reverts \/ LookupLost \/ GasPasses \/ AllLost
  PROVE  Prepared'
<1>1. CASE ResolveAbi
  <2>1. pc = "looking" /\ \E abi \in {<<>>, contract.abi} : BeginProbe(Candidates(abi))
    BY <1>1 DEF ResolveAbi
  <2>2. contract \in Contracts /\ price # Unknown /\ template = None
    BY <2>1 DEF Prepared, TypeOK, Route
  <2>3. tries < Attempts
    BY <2>1, Numbers DEF Prepared, Listing
  <2>. QED  BY <2>1, <2>2, <2>3, BeginPrepared
<1>2. CASE CallPasses \/ GasPasses
  <2>1. /\ pc \in {"calling", "estimating"} /\ pc' \in {"estimating", "checking"}
        /\ UNCHANGED <<contract, qty, open, funds, link, asked, stage, price,
                       candidates, cand, refused, tries, unheard, template, rejected>>
    BY <1>2 DEF CallPasses, GasPasses, world, target, probe, outcome
  <2>2. TypeOK'
    BY <2>1 DEF Prepared, TypeOK
  <2>. QED  BY <2>1, <2>2 DEF Prepared, Route, Listing
<1>3. CASE Reverts \/ LookupLost
  BY <1>3, PassOverPrepared DEF Reverts, LookupLost
<1>4. CASE AllLost
  <2>1. pc = "judging" /\ ((tries < Attempts /\ BeginProbe(candidates)) \/ Fail(FALSE))
    BY <1>4 DEF AllLost
  <2>2. candidates # <<>> /\ template = None
    BY <2>1 DEF Prepared, Route, Listing
  <2>3. CASE Fail(FALSE)
    BY <2>1, <2>3, FailPrepared
  <2>4. CASE tries < Attempts /\ BeginProbe(candidates)
    <3>1. contract \in Contracts /\ price # Unknown
          /\ \E abi \in {<<>>, contract.abi} : candidates = Candidates(abi)
      BY <2>2 DEF Prepared, Listing
    <3>. QED  BY <2>2, <2>4, <3>1, BeginPrepared
  <2>. QED  BY <2>1, <2>3, <2>4
<1>. QED  BY <1>1, <1>2, <1>3, <1>4

LEMMA EndPrepared ==
  ASSUME Prepared, LinkFails \/ WarmFails \/ Rejected \/ ReadsFail \/ Poor \/ Build
  PROVE  Prepared'
<1>1. CASE LinkFails \/ WarmFails \/ ReadsFail \/ Poor
  <2>1. pc # "built" /\ Fail(FALSE)
    BY <1>1 DEF LinkFails, Resolving, WarmFails, ReadsFail, Poor
  <2>. QED  BY <2>1, FailPrepared
<1>2. CASE Rejected
  <2>1. pc = "judging" /\ Fail(TRUE)
    BY <1>2 DEF Rejected
  <2>2. candidates # <<>>
    BY <2>1 DEF Prepared, Listing
  <2>. QED  BY <2>1, <2>2, FailPrepared
<1>3. CASE Build
  <2>1. /\ pc = "checking" /\ pc' = "built"
        /\ template' = [call |-> candidates[cand], value |-> price * qty]
        /\ UNCHANGED <<contract, qty, open, funds, link, asked, stage, price,
                       candidates, cand, refused, tries, unheard, rejected>>
    BY <1>3 DEF Build, Current, ValueOf, world, target, probe
  <2>2. candidates # <<>>
    BY <2>1 DEF Prepared, Listing
  <2>3. template'.call \in ToSet(candidates)
    BY <2>1, <2>2, AtCandidate DEF ToSet
  <2>4. template'.value \in Nat
    <3>1. price \in Nat /\ qty \in Nat
      BY <2>2, AtCandidate
    <3>2. price * qty \in Nat
      BY <3>1
    <3>. QED  BY <2>1, <3>2
  <2>5. TypeOK'
    BY <2>1, <2>3, <2>4 DEF Prepared, TypeOK
  <2>. QED  BY <2>1, <2>2, <2>5 DEF Prepared, Route, Listing
<1>. QED  BY <1>1, <1>2, <1>3

LEMMA WorldPrepared ==
  ASSUME Prepared, World
  PROVE  Prepared'
<1>1. /\ open' \in BOOLEAN /\ funds' \in Nat
      /\ UNCHANGED <<contract, qty, pc, link, asked, stage, price,
                     candidates, cand, refused, tries, unheard, template, rejected>>
  <2>1. UNCHANGED <<pc, link, asked, stage, price,
                     candidates, cand, refused, tries, unheard, template, rejected>>
    BY DEF World, target, probe, outcome
  <2>2. CASE Open
    BY <2>1, <2>2 DEF Open, Prepared, TypeOK
  <2>3. CASE Spend
    BY <2>1, <2>3, Numbers DEF Spend, Prepared, TypeOK
  <2>. QED  BY <2>2, <2>3 DEF World
<1>2. TypeOK'
  BY <1>1 DEF Prepared, TypeOK
<1>. QED  BY <1>1, <1>2 DEF Prepared, Route, Listing

LEMMA StepPrepared == Prepared /\ [Next]_vars => Prepared'
<1>. SUFFICES ASSUME Prepared, [Next]_vars PROVE Prepared'
  OBVIOUS
<1>1. CASE UNCHANGED vars
  <2>1. UNCHANGED <<contract, qty, open, funds, pc, link, asked, stage, price,
                    candidates, cand, refused, tries, unheard, template, rejected>>
    BY <1>1 DEF vars, world, target, probe, outcome
  <2>2. TypeOK'
    BY <2>1 DEF Prepared, TypeOK
  <2>. QED  BY <2>1, <2>2 DEF Prepared, Route, Listing
<1>2. CASE Prepare
  BY <1>2, TargetPrepared, ProbePrepared, EndPrepared DEF Prepare
<1>3. CASE World
  BY <1>3, WorldPrepared
<1>4. CASE Done
  BY <1>1, <1>4 DEF Done
<1>. QED  BY <1>1, <1>2, <1>3, <1>4 DEF Next

LEMMA PreparedAlways == Spec => []Prepared
BY InitPrepared, StepPrepared, PTL DEF Spec

\* Type correctness of Prebuild: among the rest, every price is one that was typed
\* or published, and what is to be fired is one of the candidates that were probed.
THEOREM TypeCorrect == Spec => []TypeOK
<1>1. Prepared => TypeOK
  BY DEF Prepared
<1>. QED  BY <1>1, PreparedAlways, PTL

-----------------------------------------------------------------------------
(* What is told of the mint                                                *)

\* The stage is what the contract told, by whichever look-ups were heard.
ReadOff == stage # Unknown => contract \in Contracts /\ stage \in Stages(contract.published)

LEMMA StepReadOff == Prepared /\ ReadOff /\ [Next]_vars => ReadOff'
<1>. SUFFICES ASSUME Prepared, ReadOff, [Next]_vars PROVE ReadOff'
  OBVIOUS
<1>1. CASE ReadContract
  <2>1. stage' \in Stages(contract.published) /\ contract' = contract /\ contract \in Contracts
    BY <1>1 DEF ReadContract, world, Prepared, TypeOK, Route
  <2>. QED  BY <2>1 DEF ReadOff
<1>2. CASE ResolveLink
  <2>1. stage' = Unknown
    BY <1>2 DEF ResolveLink, Resolving, Prepared, Route
  <2>. QED  BY <2>1 DEF ReadOff
<1>3. CASE UNCHANGED <<stage, contract>>
  BY <1>3 DEF ReadOff
<1>4. ASSUME ~ReadContract, ~ResolveLink
      PROVE  UNCHANGED <<stage, contract>>
  <2>1. CASE UNCHANGED vars \/ Done
    BY <2>1 DEF vars, world, target, Done
  <2>2. CASE World
    BY <2>2 DEF World, Open, Spend, target
  <2>3. CASE LinkFails \/ WarmFails \/ Rejected \/ ReadsFail \/ Poor
    BY <2>3 DEF LinkFails, WarmFails, Rejected, ReadsFail, Poor, Fail, world, target
  <2>4. CASE AskAgain \/ Arm \/ Warm
    BY <2>4 DEF AskAgain, Arm, Warm, world, target
  <2>5. CASE ResolveAbi \/ AllLost
    BY <2>5 DEF ResolveAbi, AllLost, BeginProbe, Fail, world, target
  <2>6. CASE CallPasses \/ Reverts \/ LookupLost \/ GasPasses \/ Build
    BY <2>6 DEF CallPasses, Reverts, LookupLost, GasPasses, Build, PassOver, world, target
  <2>. QED  BY <1>4, <2>1, <2>2, <2>3, <2>4, <2>5, <2>6 DEF Next, Prepare
<1>. QED  BY <1>1, <1>2, <1>3, <1>4

LEMMA ReadOffAlways == Spec => []ReadOff
<1>1. Init => ReadOff
  BY DEF Init, ReadOff
<1>. QED  BY <1>1, StepReadOff, PreparedAlways, PTL DEF Spec

\* Whatever look-ups are lost, a price of high confidence pays for the opening, for
\* every contract whose places for a price hold that price or zeros.
THEOREM TrustIsWarranted == Spec => []TrustedPriceCovers
<1>1. ReadOff => TrustedPriceCovers
  <2>. SUFFICES ASSUME ReadOff, Trusted(stage)
                PROVE  Covers(stage, contract.price)
    BY DEF TrustedPriceCovers, Covers
  <2>1. contract \in Contracts /\ stage \in Stages(contract.published)
    BY DEF ReadOff, Trusted
  <2>2. PICK heard \in SUBSET Lookups(contract.published) :
          stage = ReadStage(contract.published, heard)
    BY <2>1 DEF Stages
  <2>3. WellFormed(contract.published) /\ contract.price \in Nat
        /\ Honest(contract.published, contract.price)
    BY <2>1, ContractsAssumption
  <2>. QED  BY <2>2, <2>3, StageCovers
<1>. QED  BY <1>1, ReadOffAlways, PTL

\* Price and opening time are the contract's own, whichever reader supplied them.
THEOREM StagesAreOwn == Spec => []StageIsOwn
<1>1. ReadOff => StageIsOwn
  <2>. SUFFICES ASSUME ReadOff, stage # Unknown
                PROVE  /\ stage.price # Unknown => stage.price \in PublishedPrices(contract.published)
                       /\ stage.start # Unknown /\ ~Misread =>
                            \E raw \in PublishedStarts(contract.published) \ {0} :
                              /\ stage.start = IF raw < 100 THEN 10 * raw ELSE raw
                              /\ stage.start <= 410
    BY DEF StageIsOwn
  <2>1. Told(stage, contract.published)
    BY StageTold, ContractsAssumption DEF ReadOff, Stages
  <2>2. stage.price # Unknown => stage.price \in PublishedPrices(contract.published)
    BY <2>1 DEF Told
  <2>3. ASSUME stage.start # Unknown, ~Misread
        PROVE  \E raw \in PublishedStarts(contract.published) \ {0} :
                 /\ stage.start = IF raw < 100 THEN 10 * raw ELSE raw
                 /\ stage.start <= 410
    <3>1. PICK raw \in PublishedStarts(contract.published) : IsTimeOf(stage.start, raw)
      BY <2>1, <2>3 DEF Told, Misread
    <3>. QED  BY <3>1 DEF IsTimeOf
  <2>. QED  BY <2>2, <2>3
<1>. QED  BY <1>1, ReadOffAlways, PTL

-----------------------------------------------------------------------------
(* Where the link leads                                                    *)

LEMMA ContractStays ==
  ASSUME [Next]_vars, contract' # contract
  PROVE  ResolveLink
<1>1. CASE UNCHANGED vars \/ Done
  BY <1>1 DEF vars, world, Done
<1>2. CASE World
  BY <1>2 DEF World, Open, Spend
<1>3. CASE Prepare
  <2>1. CASE LinkFails \/ WarmFails \/ Rejected \/ ReadsFail \/ Poor
    BY <2>1 DEF LinkFails, WarmFails, Rejected, ReadsFail, Poor, Fail, world
  <2>2. CASE AskAgain \/ ReadContract \/ Arm \/ Warm \/ ResolveAbi \/ AllLost
    BY <2>2 DEF AskAgain, ReadContract, Arm, Warm, ResolveAbi, AllLost, BeginProbe, Fail, world
  <2>3. CASE CallPasses \/ Reverts \/ LookupLost \/ GasPasses \/ Build
    BY <2>3 DEF CallPasses, Reverts, LookupLost, GasPasses, Build, PassOver, world
  <2>. QED  BY <1>3, <2>1, <2>2, <2>3 DEF Prepare
<1>. QED  BY <1>1, <1>2, <1>3 DEF Next

\* What is armed is a contract of the page behind the link, on the chain it is on
\* there, unless the chain is not part of the request to the market.
THEOREM LinksLeadHome == Spec => LeadsToLinked
<1> DEFINE Step == contract' # contract /\ ~LosesChain(link) =>
                     contract' \in {Deployed[place] : place \in Listed}
<1>1. Prepared /\ [Next]_vars => [Step]_vars
  <2>. SUFFICES ASSUME Prepared, [Next]_vars, contract' # contract, ~LosesChain(link)
                PROVE  contract' \in {Deployed[place] : place \in Listed}
    OBVIOUS
  <2>1. /\ ResolveLink /\ Resolved(link) # None
        /\ contract' = Deployed[Resolved(link)]
    BY ContractStays DEF ResolveLink
  <2>2. link \in Links
    BY <2>1 DEF ResolveLink, Resolving, Prepared, Route
  <2>3. Resolved(link) \in Listed
    BY <2>1, <2>2, ResolvedIsListed DEF Listed
  <2>. QED  BY <2>1, <2>3
<1>2. LeadsToLinked <=> [][Step]_vars
  BY DEF LeadsToLinked
<1>. QED  BY <1>1, <1>2, PreparedAlways, PTL DEF Spec

\* The order in which OpenSea lists a collection's contracts decides nothing, unless
\* two of them are on the default network.
THEOREM PagesMayBeReordered == Spec => []OrderDecidesNothing
<1>1. Prepared => OrderDecidesNothing
  <2>. SUFFICES ASSUME Prepared, Resolving, link.platform = "opensea",
                       \A i, j \in DOMAIN link.page :
                         OnDefault(link.page[i]) /\ OnDefault(link.page[j]) => i = j,
                       NEW s \in Reorderings(link.page)
                PROVE  Resolved([link EXCEPT !.page = s]) = Resolved(link)
    BY DEF OrderDecidesNothing
  <2> DEFINE l == [link EXCEPT !.page = s]
  <2>1. link \in Links
    BY DEF Resolving, Prepared, Route
  <2>2. /\ link = [platform |-> link.platform, chain |-> link.chain, address |-> link.address,
                   page |-> link.page, answer |-> link.answer]
        /\ link.page \in Seq(ToSet(link.page))
    BY <2>1, LinksAssumption
  <2>3. /\ l.platform = "opensea" /\ l.chain = link.chain /\ l.address = link.address
        /\ l.page = s
    BY <2>2
  <2>4. OneOnDefault("opensea", link.page)
    BY DEF OneOnDefault, OnDefault
  <2>5. PickContract("opensea", s) = PickContract("opensea", link.page)
    BY <2>2, <2>4, PickIsStable
  <2> HIDE DEF l
  <2>6. OpenSea(l, s) = OpenSea(link, link.page)
    BY <2>3, <2>5 DEF OpenSea
  <2>7. Body(l) = s /\ Body(link) = link.page
    BY <2>3 DEF Body, LosesChain
  <2>8. Resolved(l) = Resolved(link)
    BY <2>3, <2>6, <2>7 DEF Resolved
  <2>. QED  BY <2>8 DEF l
<1>. QED  BY <1>1, PreparedAlways, PTL

-----------------------------------------------------------------------------
(* What the probing finds                                                  *)

Taken(i) == Acceptable(candidates[i])

\* Of what is passed over, all that the open contract would take is unheard of; and
\* what is being checked was taken by it.
Probed ==
  /\ rejected => pc = "failed"
  /\ pc = "judging" \/ rejected => cand = Len(candidates)
  /\ \A i \in DOMAIN candidates :
       Taken(i) /\ (i < cand \/ pc = "judging" \/ rejected) => i \in unheard
  /\ pc = "checking" => open /\ Taken(cand)
  /\ pc = "built" => open /\ Acceptable(template.call) /\ template.value = ValueOf

\* What the contract takes does not change while the calls are probed.
LEMMA OfferStands ==
  ASSUME UNCHANGED <<contract, qty, price, candidates>>
  PROVE  ValueOf' = ValueOf /\ \A i : Taken(i)' = Taken(i)
BY DEF Taken, Acceptable, Offers, Units, ValueOf

LEMMA CallStands ==
  ASSUME UNCHANGED <<contract, qty, price, template>>
  PROVE  Acceptable(template.call)' = Acceptable(template.call)
BY DEF Acceptable, Offers, Units, ValueOf

LEMMA TargetProbed ==
  ASSUME Prepared, Probed, AskAgain \/ ResolveLink \/ ReadContract \/ Arm \/ Warm
  PROVE  Probed'
<1>1. /\ pc \in {"resolving", "reading", "asking", "warming"}
      /\ pc' \in {"resolving", "reading", "asking", "warming", "looking"}
      /\ UNCHANGED <<candidates, cand, rejected>>
  BY DEF AskAgain, ResolveLink, Resolving, ReadContract, Arm, Warm, probe, outcome
<1>2. candidates' = <<>> /\ ~rejected'
  BY <1>1 DEF Prepared, Listing, Probed
<1>. QED  BY <1>1, <1>2 DEF Probed

LEMMA BeginProbed ==
  ASSUME Prepared, Probed, ResolveAbi \/ (AllLost /\ ~Fail(FALSE))
  PROVE  Probed'
<1>1. PICK list : BeginProbe(list)
  BY DEF ResolveAbi, AllLost
<1>2. pc' = "calling" /\ cand' = 1 /\ candidates' # <<>>
  <2>1. Prepared'
    BY ProbePrepared
  <2>2. pc' = "calling" /\ cand' = 1
    BY <1>1 DEF BeginProbe
  <2>. QED  BY <2>1, <2>2 DEF Prepared, Listing
<1>3. ~rejected'
  <2>1. pc # "failed" /\ rejected' = rejected
    BY <1>1 DEF ResolveAbi, AllLost, BeginProbe, outcome
  <2>. QED  BY <2>1 DEF Probed
<1>4. \A i \in DOMAIN candidates' : ~(i < 1)
  <2>1. Prepared'
    BY ProbePrepared
  <2>2. PICK abi \in {<<>>, contract'.abi} : candidates' = Candidates(abi)
    BY <1>2, <2>1 DEF Prepared, Listing
  <2>3. contract' \in Contracts
    BY <1>2, <2>1 DEF Prepared, Listing
  <2>. QED  BY <2>2, <2>3, CandidatesTyped
<1>. QED  BY <1>2, <1>3, <1>4 DEF Probed

LEMMA FailProbed ==
  ASSUME Prepared, Probed, NEW verdict \in BOOLEAN, Fail(verdict),
         verdict => pc = "judging"
  PROVE  Probed'
<1>1. /\ pc' = "failed" /\ rejected' = verdict
      /\ UNCHANGED <<contract, qty, price, candidates, cand, unheard>>
  BY DEF Fail, world, target, probe
<1>2. \A i : Taken(i)' = Taken(i)
  BY <1>1, OfferStands
<1>3. \A i \in DOMAIN candidates : Taken(i) /\ (i < cand \/ verdict) => i \in unheard
  BY DEF Probed
<1>. QED  BY <1>1, <1>2, <1>3 DEF Probed

LEMMA PassesProbed ==
  ASSUME Prepared, Probed, CallPasses \/ GasPasses
  PROVE  Probed'
<1>1. /\ pc \in {"calling", "estimating"} /\ pc' \in {"estimating", "checking"}
      /\ open /\ Taken(cand)
      /\ UNCHANGED <<contract, qty, open, price, candidates, cand, unheard, rejected>>
  BY DEF CallPasses, GasPasses, Simulates, Current, Taken, world, target, probe, outcome
<1>2. \A i : Taken(i)' = Taken(i)
  BY <1>1, OfferStands
<1>. QED  BY <1>1, <1>2 DEF Probed

LEMMA PassOverProbed ==
  ASSUME Prepared, Probed, NEW rpc \in BOOLEAN, Probing, PassOver(rpc),
         ~rpc => ~Simulates(Current)
  PROVE  Probed'
<1>1. /\ pc \in {"calling", "estimating"} /\ candidates # <<>>
      /\ unheard' = IF rpc \/ ~open \/ funds < ValueOf THEN unheard \cup {cand} ELSE unheard
      /\ IF cand < Len(candidates) THEN cand' = cand + 1 /\ pc' = "calling"
         ELSE pc' = "judging" /\ cand' = cand
      /\ UNCHANGED <<contract, qty, price, candidates, rejected>>
  BY DEF Probing, PassOver, world, target, outcome, Prepared, Listing
<1>2. \A i : Taken(i)' = Taken(i)
  BY <1>1, OfferStands
<1>3. /\ Len(candidates) \in Nat /\ DOMAIN candidates = 1..Len(candidates)
      /\ cand \in 1..Len(candidates) /\ price \in Nat /\ qty \in Nat
  BY <1>1, AtCandidate
<1>4. funds \in Nat /\ ValueOf \in Nat
  <2>1. price * qty \in Nat
    BY <1>3
  <2>. QED  BY <2>1 DEF ValueOf, Prepared, TypeOK
<1>5. Taken(cand) => cand \in unheard'
  <2>1. Taken(cand) /\ ~rpc => ~open \/ funds < ValueOf
    BY <1>4 DEF Taken, Simulates, Current
  <2>. QED  BY <1>1, <2>1
<1>6. unheard \subseteq unheard' /\ ~rejected
  BY <1>1 DEF Probed
<1>7. ASSUME NEW i \in DOMAIN candidates, Taken(i), i < cand' \/ pc' = "judging"
      PROVE  i \in unheard'
  <2>1. i < cand \/ i = cand
    BY <1>1, <1>3, <1>7
  <2>. QED  BY <1>5, <1>6, <1>7, <2>1 DEF Probed
<1>8. pc' = "judging" => cand' = Len(candidates')
  BY <1>1, <1>3
<1>. QED  BY <1>1, <1>2, <1>6, <1>7, <1>8 DEF Probed

LEMMA BuildProbed ==
  ASSUME Prepared, Probed, Build
  PROVE  Probed'
<1>1. /\ pc = "checking" /\ pc' = "built"
      /\ template' = [call |-> candidates[cand], value |-> ValueOf]
      /\ UNCHANGED <<contract, qty, open, price, candidates, cand, unheard, rejected>>
  BY DEF Build, Current, world, target, probe
<1>2. ValueOf' = ValueOf /\ \A i : Taken(i)' = Taken(i)
  BY <1>1, OfferStands
<1>3. open' /\ Taken(cand)' /\ template'.call = candidates'[cand']
  BY <1>1, <1>2 DEF Probed
<1>4. Acceptable(template.call)'
  BY <1>3 DEF Taken
<1>5. template'.value = ValueOf'
  BY <1>1, <1>2
<1>. QED  BY <1>1, <1>2, <1>3, <1>4, <1>5 DEF Probed

LEMMA WorldProbed ==
  ASSUME Prepared, Probed, World
  PROVE  Probed'
<1>1. /\ open => open'
      /\ UNCHANGED <<contract, qty, price, pc, candidates, cand, unheard, template, rejected>>
  BY DEF World, Open, Spend, target, probe, outcome
<1>2. ValueOf' = ValueOf /\ \A i : Taken(i)' = Taken(i)
  BY <1>1, OfferStands
<1>3. Acceptable(template.call)' = Acceptable(template.call)
  BY <1>1, CallStands
<1>. QED  BY <1>1, <1>2, <1>3 DEF Probed

LEMMA StepProbed == Prepared /\ Probed /\ [Next]_vars => Probed'
<1>. SUFFICES ASSUME Prepared, Probed, [Next]_vars PROVE Probed'
  OBVIOUS
<1>1. CASE UNCHANGED vars \/ Done
  <2>1. UNCHANGED <<contract, qty, open, price, pc, candidates, cand, unheard, template, rejected>>
    BY <1>1 DEF Done, vars, world, target, probe, outcome
  <2>2. ValueOf' = ValueOf /\ \A i : Taken(i)' = Taken(i)
    BY <2>1, OfferStands
  <2>3. Acceptable(template.call)' = Acceptable(template.call)
    BY <2>1, CallStands
  <2>. QED  BY <2>1, <2>2, <2>3 DEF Probed
<1>2. CASE World
  BY <1>2, WorldProbed
<1>3. CASE Prepare
  <2>1. CASE AskAgain \/ ResolveLink \/ ReadContract \/ Arm \/ Warm
    BY <2>1, TargetProbed
  <2>2. CASE ResolveAbi \/ (AllLost /\ ~Fail(FALSE))
    BY <2>2, BeginProbed
  <2>3. CASE LinkFails \/ WarmFails \/ ReadsFail \/ Poor \/ (AllLost /\ Fail(FALSE))
    BY <2>3, FailProbed DEF LinkFails, WarmFails, ReadsFail, Poor
  <2>4. CASE Rejected
    BY <2>4, FailProbed DEF Rejected
  <2>5. CASE CallPasses \/ GasPasses
    BY <2>5, PassesProbed
  <2>6. CASE Reverts
    BY <2>6, PassOverProbed DEF Reverts
  <2>7. CASE LookupLost
    BY <2>7, PassOverProbed DEF LookupLost
  <2>8. CASE Build
    BY <2>8, BuildProbed
  <2>. QED  BY <1>3, <2>1, <2>2, <2>3, <2>4, <2>5, <2>6, <2>7, <2>8 DEF Prepare
<1>. QED  BY <1>1, <1>2, <1>3 DEF Next

LEMMA ProbedAlways == Spec => []Probed
<1>1. Init => Probed
  <2>. SUFFICES ASSUME Init PROVE Probed
    OBVIOUS
  <2>1. DOMAIN candidates = {}
    BY DEF Init
  <2>. QED  BY <2>1 DEF Init, Probed
<1>. QED  BY <1>1, StepProbed, PreparedAlways, PTL DEF Spec

\* What is to be fired is a call the open contract takes with the value it carries,
\* whatever opens, is spent or is lost between the look-ups.
THEOREM TemplatesAreAccepted == Spec => []TemplateIsAccepted
<1>1. Probed => TemplateIsAccepted
  BY DEF Probed, TemplateIsAccepted
<1>. QED  BY <1>1, ProbedAlways, PTL

\* Nothing the open contract would take is passed over but for a look-up that was
\* lost or came too early; and a rejection has tried all the candidates of the code.
THEOREM VerdictsAreDeserved == Spec => []VerdictIsDeserved
<1>1. Prepared /\ Probed => VerdictIsDeserved
  <2>. SUFFICES ASSUME Prepared, Probed PROVE VerdictIsDeserved
    OBVIOUS
  <2>1. \A i \in DOMAIN candidates :
          Acceptable(candidates[i]) /\ (i < cand \/ rejected) => i \in unheard
    BY DEF Probed, Taken
  <2>2. CASE candidates = <<>>
    <3>1. cand = 0 /\ ~rejected /\ 1..(cand - 1) = {}
      BY <2>2 DEF Prepared, Listing
    <3>. QED  BY <3>1 DEF VerdictIsDeserved
  <2>3. CASE candidates # <<>>
    <3>1. /\ contract \in Contracts
          /\ Len(candidates) \in Nat /\ DOMAIN candidates = 1..Len(candidates)
          /\ cand \in 1..Len(candidates)
      BY <2>3, AtCandidate
    <3>2. PICK abi \in {<<>>, contract.abi} : candidates = Candidates(abi)
      BY <2>3, AtCandidate
    <3>3. \A i \in 1..(cand - 1) : i \in DOMAIN candidates /\ i < cand
      BY <3>1
    <3>4. ASSUME rejected, NEW c \in ToSet(Generic), Acceptable(c)
          PROVE  \E i \in unheard : candidates[i].name = c.name
      <4>1. PICK i \in DOMAIN candidates : candidates[i] = c
        BY <3>1, <3>2, CandidatesKept
      <4>. QED  BY <2>1, <3>4, <4>1
    <3>. QED  BY <2>1, <3>3, <3>4 DEF VerdictIsDeserved
  <2>. QED  BY <2>2, <2>3
<1>. QED  BY <1>1, PreparedAlways, ProbedAlways, PTL
=============================================================================
