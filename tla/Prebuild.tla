------------------------------ MODULE Prebuild ------------------------------
(***************************************************************************)
(* From a link to a transaction ready to fire: the contract the link leads *)
(* to (Marketplace), the price read when the target is made (MintStage),   *)
(* preWarm() and buildTemplate() of src/src/chains/evm/executor.js thirty  *)
(* seconds before the mint opens, and the probing of                       *)
(* src/src/chains/evm/erc721Mint.js in them.                               *)
(*                                                                         *)
(* The contract may open, and the wallet be spent from, between any two    *)
(* answers.  `unheard` is a ghost: the candidates passed over without the  *)
(* open contract's own word against them.                                  *)
(***************************************************************************)
EXTENDS MintStage, Marketplace, FiniteSets, SequencesExt

CONSTANTS Links,      \* what users paste
          Deployed,   \* the contract at an address of a network
          Typed,      \* the prices users type
          Qtys,
          Funds,      \* what the wallet may hold
          Requests,   \* requests apiGet() makes of a market
          Attempts    \* endpoints withFailover() asks, twice each

VARIABLES
  link,           \* the link to be resolved, None when it is
  asked,          \* requests that have failed
  contract, qty,  \* what is to be minted
  open,           \* does the contract sell by now?               (chain)
  funds,          \* what the wallet holds                        (chain)
  pc,             \* where the preparation stands
  stage,          \* what readPublicMintStage() gave
  price,          \* targets.mint_price, per unit
  candidates,     \* the calls to probe, in order of trust
  cand,           \* the one being probed
  refused,        \* did any look-up fail otherwise than by RPC?
  tries,          \* endpoints asked so far
  unheard,        \* (ghost)
  template,       \* the transaction to fire
  rejected        \* did it end with a MintProbeError that is not retryable?

world == <<contract, qty, open, funds>>
target == <<link, asked, stage, price>>
probe == <<candidates, cand, refused, tries, unheard>>
outcome == <<template, rejected>>
vars == <<world, pc, target, probe, outcome>>

\* A candidate call: does it take a quantity?
Takes(name) == [name |-> name, single |-> FALSE]
Single(name) == [name |-> name, single |-> TRUE]

\* CANDIDATE_MINT_FUNCTIONS
Generic ==
  <<Takes("mint(uint256)"), Single("mint()"), Takes("mint(address,uint256)"),
    Takes("claim(uint256)"), Single("claim()"), Takes("publicMint(uint256)"),
    Takes("mintPublic(uint256)"), Takes("purchase(uint256)")>>

\* Mutant: a known ABI stands for everything.
CandidatesOfAbi(abi) == IF abi = <<>> THEN Generic ELSE abi

\* The verified ABI first, then what it does not name: of each name the first.
Candidates(abi) ==
  LET all   == abi \o Generic
      first == {i \in DOMAIN all : \A j \in DOMAIN all : j < i => all[j].name # all[i].name}
      Nth(k) == CHOOSE i \in first : Cardinality({j \in first : j <= i}) = k
  IN [k \in 1..Cardinality(first) |-> all[Nth(k)]]

\* A contract: what it `published`, the mint functions it `offers`, the price it
\* takes (`exact`, or more), whether it answers every other call with success
\* (`fallback`), what the explorer knows of it (`abi`), whether it sells only
\* from the opening time on (`opens`).
Offers(c) == c.name \in contract.offers

Units(c) == IF c.single THEN 1 ELSE qty
ValueOf == price * qty

\* What the open contract takes.
Acceptable(c) ==
  IF Offers(c)
  THEN IF contract.exact THEN ValueOf = contract.price * Units(c)
       ELSE ValueOf >= contract.price * Units(c)
  ELSE contract.fallback

\* Mutant: the call is simulated without its value.
SimulatesForFree(c) == (Offers(c) \/ contract.fallback) /\ open

\* What its simulation finds just now; the sender must hold the value, too.
Simulates(c) == Acceptable(c) /\ open /\ funds >= ValueOf

Contracts == {Deployed[place] : place \in DOMAIN Deployed}

\* Where a contract publishes a price at all, it is what the opening costs; SeaDrop
\* has zeros for what it does not know.
Honest(p, cost) ==
  /\ p.singleton # Unknown =>
       p.singleton.price >= cost \/ {p.singleton.price, p.singleton.start, p.singleton.cap} = {0}
  /\ p.token # Unknown =>
       \/ p.token.price >= cost
       \/ /\ {p.token.price, p.token.start, p.token.cap} = {0}
          /\ p.token.v2 => {p.token.endPrice, p.token.end} = {0}
  /\ p.condition # Unknown => ~p.condition.native \/ p.condition.price >= cost

ASSUME PrebuildAssumption ==
  /\ Qtys \cup Typed \cup {Funds} \subseteq Nat
  /\ {Requests, Attempts} \subseteq Nat \ {0}
  /\ None \notin Contracts /\ Unknown \notin Nat

\* A signature tells whether a quantity is taken.
ASSUME ContractsAssumption ==
  \A k \in Contracts :
    /\ WellFormed(k.published) /\ k.price \in Nat /\ Honest(k.published, k.price)
    /\ k.abi \in Seq(ToSet(k.abi))
    /\ \A c \in ToSet(Generic), i \in DOMAIN k.abi : k.abi[i].name = c.name => k.abi[i] = c

\* A link leads to a page; one that names an address is to an entry of that page.
ASSUME LinksAssumption ==
  \A l \in Links :
    /\ l = [platform |-> l.platform, chain |-> l.chain, address |-> l.address,
            page |-> l.page, answer |-> l.answer]
    /\ l.page \in Seq(ToSet(l.page))
    /\ l.address # None /\ l.chain # None =>
         \E c \in ToSet(l.page) : c.chain = l.chain /\ c.address = l.address
    /\ Resolved(l) \in DOMAIN Deployed \cup {None}

Names == {c.name : c \in ToSet(Generic) \cup UNION {ToSet(k.abi) : k \in Contracts}}
Prices == Typed \cup UNION {PublishedPrices(k.published) : k \in Contracts}

\* Type invariant of the preparation.
TypeOK ==
  /\ link \in Links \cup {None} /\ asked \in 0..(Requests - 1)
  /\ contract \in Contracts \cup {None} /\ qty \in Qtys
  /\ open \in BOOLEAN /\ funds \in Nat
  /\ pc \in {"resolving", "reading", "asking", "warming", "looking", "calling", "estimating",
             "judging", "checking", "built", "failed"}
  /\ stage # Unknown =>
       /\ stage.price \in Prices \cup {Unknown}
       /\ stage.start \in Nat \cup {Unknown}
  /\ price \in Prices \cup {Unknown}
  /\ \A i \in DOMAIN candidates : candidates[i].name \in Names
  /\ cand \in Nat /\ tries \in 0..Attempts
  /\ refused \in BOOLEAN /\ rejected \in BOOLEAN
  /\ unheard \subseteq DOMAIN candidates
  /\ template # None => template.value \in Nat /\ template.call \in ToSet(candidates)

Init ==
  /\ link \in Links /\ asked = 0
  /\ contract = None /\ qty \in Qtys
  /\ open = FALSE
  /\ funds = Funds
  /\ pc = "resolving"
  /\ stage = Unknown /\ price = Unknown
  /\ candidates = <<>> /\ cand = 0 /\ tries = 0
  /\ refused = FALSE /\ rejected = FALSE
  /\ unheard = {}
  /\ template = None

-----------------------------------------------------------------------------
\* The world.
Open == contract # None /\ ~open /\ open' = TRUE /\ UNCHANGED <<contract, qty, funds>>
Spend == funds = Funds /\ funds' \in 0..(Funds - 1) /\ UNCHANGED <<contract, qty, open>>

World ==
  /\ Open \/ Spend
  /\ UNCHANGED <<pc, target, probe, outcome>>

-----------------------------------------------------------------------------
\* The making of the target.

Fail(verdict) ==
  /\ pc' = "failed"
  /\ rejected' = verdict
  /\ UNCHANGED <<world, target, probe, template>>

Resolving == pc = "resolving"

\* apiGet(): whatever is not a final answer is asked again.
AskAgain ==
  /\ Resolving /\ NeedsApi(link) /\ link.platform \in Enabled
  /\ asked < Requests - 1
  /\ asked' = asked + 1
  /\ UNCHANGED <<world, pc, link, stage, price, probe, outcome>>

\* The market refuses or cannot be reached; the link leads nowhere or is not for us.
LinkFails == Resolving /\ (NeedsApi(link) \/ Resolved(link) = None) /\ Fail(FALSE)

ResolveLink ==
  /\ Resolving /\ Resolved(link) # None
  /\ contract' = Deployed[Resolved(link)]
  /\ open' \in {TRUE, ~contract'.opens}
  /\ link' = None /\ asked' = 0
  /\ pc' = "reading"
  /\ UNCHANGED <<qty, funds, stage, price, probe, outcome>>

\* The card and the wizard take over what the contract tells.
ReadContract ==
  /\ pc = "reading"
  /\ stage' \in Stages(contract.published)
  /\ price' = IF stage' = Unknown THEN Unknown ELSE stage'.price
  /\ pc' = "asking"
  /\ UNCHANGED <<world, link, asked, probe, outcome>>

\* await_price, only when there is none; then the target is armed.
Arm ==
  /\ pc = "asking"
  /\ IF price = Unknown THEN price' \in Typed ELSE UNCHANGED price
  /\ pc' = "warming"
  /\ UNCHANGED <<world, link, asked, stage, probe, outcome>>

-----------------------------------------------------------------------------
\* preWarm() and resolveAbi().

\* No endpoint tells its block number.  (The chain id is not asked for:
\* staticNetwork makes getNetwork() answer with the configured one.)
WarmFails == pc = "warming" /\ Fail(FALSE)

Warm ==
  /\ pc = "warming"
  /\ pc' = "looking"
  /\ UNCHANGED <<world, target, probe, outcome>>

\* An endpoint is asked for the first candidate.
BeginProbe(list) ==
  /\ candidates' = list
  /\ cand' = 1 /\ refused' = FALSE /\ unheard' = {}
  /\ tries' = tries + 1
  /\ pc' = "calling"
  /\ UNCHANGED <<world, target, outcome>>

\* The explorer may know the ABI, or be down; its answer, also none, is kept for
\* five minutes, so for all the endpoints.
ResolveAbi ==
  /\ pc = "looking"
  /\ \E abi \in {<<>>, contract.abi} : BeginProbe(Candidates(abi))

-----------------------------------------------------------------------------
\* probeMintFunction(), at one endpoint.

Current == candidates[cand]
Probing == pc \in {"calling", "estimating"}

\* On to the next candidate.  `rpc`: the look-up was lost.
PassOver(rpc) ==
  /\ unheard' = IF rpc \/ ~open \/ funds < ValueOf THEN unheard \cup {cand} ELSE unheard
  /\ refused' = (refused \/ ~rpc)
  /\ IF cand < Len(candidates) THEN cand' = cand + 1 /\ pc' = "calling"
     ELSE pc' = "judging" /\ UNCHANGED cand
  /\ UNCHANGED <<world, target, candidates, tries, outcome>>

CallPasses ==
  /\ pc = "calling" /\ Simulates(Current)
  /\ pc' = "estimating"
  /\ UNCHANGED <<world, target, probe, outcome>>

\* eth_call or, when things changed since, estimateGas reverts.
Reverts == Probing /\ ~Simulates(Current) /\ PassOver(FALSE)

LookupLost == Probing /\ PassOver(TRUE)

GasPasses ==
  /\ pc = "estimating" /\ Simulates(Current)
  /\ pc' = "checking"
  /\ UNCHANGED <<world, target, probe, outcome>>

\* MintProbeError, some candidate refused: withFailover() throws it on.
Rejected == pc = "judging" /\ refused /\ Fail(TRUE)

\* Mutant: one endpoint too many.
AllLostOnceMore ==
  /\ pc = "judging" /\ ~refused
  /\ \/ tries <= Attempts /\ BeginProbe(candidates)
     \/ Fail(FALSE)

\* Mutant: as long as look-ups are lost, another endpoint is asked.
AllLostForGood ==
  /\ pc = "judging" /\ ~refused
  /\ cand' = 1 /\ pc' = "calling" /\ unheard' = {}
  /\ UNCHANGED <<world, target, candidates, refused, tries, outcome>>

\* MintProbeError, every look-up lost: to classifyError() the text of the last
\* errors is that of a transport error, or of none it knows.
AllLost ==
  /\ pc = "judging" /\ ~refused
  /\ \/ tries < Attempts /\ BeginProbe(candidates)
     \/ Fail(FALSE)

-----------------------------------------------------------------------------
\* The rest of buildTemplate().

\* Nonce, balance or fees cannot be had.
ReadsFail == pc = "checking" /\ Fail(FALSE)

Poor == pc = "checking" /\ funds < ValueOf /\ Fail(FALSE)

Build ==
  /\ pc = "checking" /\ funds >= ValueOf
  /\ template' = [call |-> Current, value |-> ValueOf]
  /\ pc' = "built"
  /\ UNCHANGED <<world, target, probe, rejected>>

Done == pc \in {"built", "failed"} /\ UNCHANGED vars

Prepare ==
  \/ AskAgain \/ LinkFails \/ ResolveLink
  \/ ReadContract \/ Arm \/ WarmFails \/ Warm \/ ResolveAbi
  \/ CallPasses \/ Reverts \/ LookupLost \/ GasPasses
  \/ Rejected \/ AllLost \/ ReadsFail \/ Poor \/ Build

Next == Prepare \/ World \/ Done

\* A time-out ends each look-up; users answer, for those who do not have no target.
Spec == Init /\ [][Next]_vars /\ WF_vars(Prepare)

-----------------------------------------------------------------------------
\* Safety, of probeMintFunction() and buildTemplate() together: what is to be
\* fired is a call the open contract takes with the value it carries, though the
\* contract opens and the wallet is spent from between the look-ups, and look-ups
\* are lost.
TemplateIsAccepted ==
  pc = "built" => open /\ Acceptable(template.call) /\ template.value = ValueOf

\* Safety, of the order of the candidates and of MintProbeError: a candidate the
\* open contract would take is passed over only when its look-up was lost, or
\* came while the contract was closed or the wallet short; and nothing is called
\* a rejection before all the candidates of the code were tried.
VerdictIsDeserved ==
  LET passed == IF rejected THEN DOMAIN candidates ELSE 1..(cand - 1)
  IN /\ \A i \in passed : Acceptable(candidates[i]) => i \in unheard
     /\ rejected => \A c \in ToSet(Generic) :
          Acceptable(c) => \E i \in unheard : candidates[i].name = c.name

\* Safety, of readPublicMintStage(): whatever look-ups are lost, and so whichever
\* reader supplies it, a price of high confidence pays for the opening: no zeros
\* pass for a free mint, no last price for the first.
TrustedPriceCovers ==
  Trusted(stage) /\ stage.native /\ stage.price # Unknown => stage.price >= contract.price

Misread == stage.source = "seadrop-v1-token" /\ contract.published.token.v2

\* Safety, of readPublicMintStage(): price and opening time are told by the
\* contract, in seconds or milliseconds; neither an unset time nor "never" passes
\* for a time.  The exception is a publicDrop() of seven fields whose look-up was
\* lost: it is decoded as one of six, and its last price is taken for a time.
StageIsOwn ==
  stage # Unknown =>
    /\ stage.price # Unknown => stage.price \in PublishedPrices(contract.published)
    /\ stage.start # Unknown /\ ~Misread =>
         \E raw \in PublishedStarts(contract.published) \ {0} :
           /\ stage.start = IF raw < 100 THEN 10 * raw ELSE raw
           /\ stage.start <= 410

\* What the page behind a link lists that can be minted.
Listed == {On(link.platform, c.chain, c.address) : c \in ToSet(link.page)} \ {None}

\* Safety (action property), of the resolvers and chainMap.js: what is read, armed
\* and paid is a contract of the page the link leads to, on the chain it is on
\* there, also when its address is taken on several networks.  The exception are
\* links whose chain is not part of the request.
LeadsToLinked ==
  [][contract' # contract /\ ~LosesChain(link) =>
       contract' \in {Deployed[place] : place \in Listed}]_vars

Reorderings(s) ==
  {[i \in DOMAIN s |-> s[f[i]]] :
     f \in {g \in [DOMAIN s -> DOMAIN s] : \A i, j \in DOMAIN s : g[i] = g[j] => i = j}}

OnDefault(c) == ToConfigKey(link.platform, c.chain) = DefaultNetwork

\* Safety, of pickContract(): OpenSea lists the contracts of a collection in any
\* order, and the order decides neither which is minted nor whether one is; only
\* for two on the default network it does.
OrderDecidesNothing ==
  Resolving /\ link.platform = "opensea"
  /\ (\A i, j \in DOMAIN link.page :
         OnDefault(link.page[i]) /\ OnDefault(link.page[j]) => i = j)
  => \A s \in Reorderings(link.page) :
       Resolved([link EXCEPT !.page = s]) = Resolved(link)

\* Liveness: whatever is lost, the preparation comes to an end.
Ends == <>(pc \in {"built", "failed"})
=============================================================================
