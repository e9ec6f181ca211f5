---------------------------- MODULE Marketplace -----------------------------
(***************************************************************************)
(* From a marketplace link to a contract on a network: chainMap.js and the *)
(* three resolvers of src/src/resolvers, without the requests they make.   *)
(*                                                                         *)
(* A link names a chain, an address, both or (a collection's name) none of *)
(* them.  `page` is what the market lists there: a sequence of addresses   *)
(* with the chains they are on, in any order.                              *)
(***************************************************************************)
EXTENDS Naturals, Sequences

CONSTANTS Networks,        \* keys of config.networks
          Evm,             \* those of kind "evm"
          DefaultNetwork,  \* config.defaultNetwork
          Enabled,         \* platforms that are switched on
          Builtin,         \* platform -> (slug -> network)
          Declared,        \* network -> (platform -> slugs), from the config
          None

ASSUME MarketplaceAssumption ==
  /\ Evm \subseteq Networks /\ DefaultNetwork \in Networks
  /\ None \notin Networks
  /\ Enabled \subseteq {"opensea", "magiceden", "rarible"}
  /\ \A p \in Enabled : None \notin DOMAIN Builtin[p] /\ \A n \in Networks : None \notin Declared[n][p]
  /\ \A m, n \in Networks, p \in Enabled : m # n => Declared[m][p] \cap Declared[n][p] = {}

\* toConfigKey(): what the config declares wins; what it does not configure is
\* unknown, as is no slug at all.
ToConfigKey(platform, slug) ==
  LET declaring == {n \in Networks : slug \in Declared[n][platform]}
  IN IF declaring # {} THEN CHOOSE n \in declaring : TRUE
     ELSE IF slug \in DOMAIN Builtin[platform] /\ Builtin[platform][slug] \in Networks
          THEN Builtin[platform][slug]
     ELSE None

\* The end of all three: a known chain, of the kind that can be minted on.
On(platform, chain, address) ==
  LET network == ToConfigKey(platform, chain)
  IN IF address # None /\ network \in Evm
     THEN [network |-> network, address |-> address]
     ELSE None

-----------------------------------------------------------------------------
\* The entries of a list that lead to a configured network, and of those the ones
\* that lead to the default one.
Mapped(platform, list) ==
  {i \in DOMAIN list : list[i].address # None /\ ToConfigKey(platform, list[i].chain) # None}

Preferred(platform, list) ==
  {i \in Mapped(platform, list) : ToConfigKey(platform, list[i].chain) = DefaultNetwork}

FirstOf(platform, list, entries) ==
  LET i == CHOOSE k \in entries : \A j \in entries : k <= j
  IN On(platform, list[i].chain, list[i].address)

\* Mutant: of several, the first.
PickContractFirst(platform, list) ==
  CASE Preferred(platform, list) # {} -> FirstOf(platform, list, Preferred(platform, list))
    [] Preferred(platform, list) = {} /\ Mapped(platform, list) # {} ->
         FirstOf(platform, list, Mapped(platform, list))
    [] OTHER -> None

\* pickContract(): on the default network if there, else the only one.
PickContract(platform, list) ==
  CASE Preferred(platform, list) # {} -> FirstOf(platform, list, Preferred(platform, list))
    [] Preferred(platform, list) = {} /\ (\E i \in Mapped(platform, list) : Mapped(platform, list) = {i}) ->
         FirstOf(platform, list, Mapped(platform, list))
    [] OTHER -> None

\* What the other two read in an answer: its first collection.
First(body) == IF body = <<>> THEN [address |-> None, chain |-> None] ELSE Head(body)

Either(told, read) == IF told # None THEN told ELSE read

OpenSea(link, body) ==
  IF link.address # None THEN On("opensea", link.chain, link.address)
  ELSE PickContract("opensea", body)

MagicEden(link, body) ==
  On("magiceden", link.chain, Either(link.address, First(body).address))

\* Mutant: a collection whose chain the link does not name is on Ethereum.
RaribleOnEthereum(link, body) ==
  On("rarible", Either(link.chain, "ethereum"), Either(link.address, First(body).address))

Rarible(link, body) ==
  On("rarible", Either(link.chain, First(body).chain), Either(link.address, First(body).address))

\* Is the market asked, or does the link say it all?
NeedsApi(link) ==
  CASE link.platform = "rarible" -> link.address = None \/ link.chain = None
    [] link.platform = "magiceden" ->
         link.address = None /\ ToConfigKey("magiceden", link.chain) \in Evm
    [] OTHER -> link.address = None

\* Magic Eden and Rarible are asked for a name without the link's chain, Rarible
\* for a bare address as if it were on Ethereum.
LosesChain(link) ==
  CASE link.platform = "rarible" -> (link.address = None) = (link.chain # None)
    [] link.platform = "magiceden" -> link.address = None
    [] OTHER -> FALSE

\* What the market answers: to such a request, maybe another collection.
Body(link) == IF LosesChain(link) THEN link.answer ELSE link.page

\* resolveUrl(): the contract, or None for every refusal.
Resolved(link) ==
  IF link.platform \notin Enabled THEN None
  ELSE CASE link.platform = "opensea" -> OpenSea(link, Body(link))
         [] link.platform = "magiceden" -> MagicEden(link, Body(link))
         [] link.platform = "rarible" -> Rarible(link, Body(link))
=============================================================================
