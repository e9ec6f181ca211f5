----------------------------- MODULE MCPrebuild -----------------------------
(* Prebuild with one contract for each way to publish a price and for each   *)
(* way to be minted from.                                                    *)
EXTENDS Prebuild

Contract(published, offers, mintPrice, exact, fallback, abi, opens) ==
  [published |-> published, offers |-> offers, price |-> mintPrice, exact |-> exact,
   fallback |-> fallback, abi |-> abi, opens |-> opens]

Drop(mintPrice, start, cap) == [v2 |-> FALSE, price |-> mintPrice, start |-> start, cap |-> cap]

DropV2(mintPrice, endPrice, start, end, cap) ==
  [v2 |-> TRUE, price |-> mintPrice, endPrice |-> endPrice, start |-> start,
   end |-> end, cap |-> cap]

\* SeaDrop knows it; a getter names the price of an earlier stage.
seaDrop ==
  Contract([Nothing EXCEPT !.singleton = Drop(2, 20, 0), !.prices = <<Unknown, 1>>],
           {"mint(uint256)", "mintPublic(uint256)"}, 2, TRUE, FALSE, <<>>, TRUE)

\* A descending price, told by the token; its ABI names a function of its own.
dutch ==
  Contract([Nothing EXCEPT !.token = DropV2(2, 1, 20, 30, 0)],
           {"claim(address,uint256)", "purchase(uint256)"}, 2, FALSE, FALSE,
           <<Takes("claim(address,uint256)")>>, TRUE)

\* SeaDrop was never told of it: zeros.  One unit per call.
unit ==
  Contract([Nothing EXCEPT !.singleton = Drop(0, 0, 0), !.prices = <<1>>, !.starts = <<0>>,
                            !.flags = <<TRUE>>],
           {"mint()"}, 1, FALSE, FALSE, <<Single("mint()")>>, FALSE)

\* A claim condition without end, and a fallback that takes any call.
thirdweb ==
  Contract([Nothing EXCEPT !.condition = [price |-> 1, start |-> 99, native |-> TRUE]],
           {"claim(address,uint256)"}, 1, TRUE, TRUE, <<>>, FALSE)

\* A claim condition priced in a token: the contract refuses any native coin.
erc20 ==
  Contract([Nothing EXCEPT !.condition = [price |-> 1, start |-> 20, native |-> FALSE]],
           {"claim(uint256)"}, 0, TRUE, FALSE, <<>>, FALSE)

\* One address is taken on both networks.
At(network, address) == [network |-> network, address |-> address]

MCDeployed ==
  [place \in {At(n, a) : n \in {"ethereum", "base"}, a \in {"a1", "a2", "a3"}} |->
     CASE place = At("ethereum", "a1") -> seaDrop
       [] place = At("base", "a1") -> dutch
       [] place = At("ethereum", "a2") -> unit
       [] place = At("base", "a2") -> thirdweb
       [] OTHER -> erc20]

\* A table with a chain this deployment does not have, and one it names itself.
MCNetworks == {"ethereum", "base", "solana"}

MCBuiltin ==
  [p \in {"opensea", "magiceden", "rarible"} |->
     [s \in {"ethereum", "eth", "base", "solana", "blast"} |->
        IF s = "eth" THEN "ethereum" ELSE s]]

MCDeclared ==
  [n \in MCNetworks |->
     [p \in {"opensea", "magiceden", "rarible"} |->
        IF n = "base" /\ p = "opensea" THEN {"base-mainnet"} ELSE {}]]

Entry(chain, address) == [chain |-> chain, address |-> address]

Link(platform, chain, address, page, answer) ==
  [platform |-> platform, chain |-> chain, address |-> address, page |-> page, answer |-> answer]

Pages ==
  {<<Entry("blast", "a1"), Entry("eth", "a1")>>,
   <<Entry("base-mainnet", "a2"), Entry("ethereum", None)>>,
   <<Entry("base", "a1"), Entry("solana", "a3"), Entry("ethereum", "a2")>>,
   <<Entry("base", "a2"), Entry("solana", "a3")>>,
   <<Entry("ethereum", "a1"), Entry("eth", "a3")>>,
   <<Entry("solana", "a1")>>, <<>>}

MCLinks ==
  {Link("opensea", None, None, page, <<>>) : page \in Pages}
  \cup {Link(p, "base", "a1", <<Entry("base", "a1")>>, <<>>) : p \in {"opensea", "rarible", "other"}}
  \cup {Link(p, "base", None, <<Entry("base", "a2")>>, <<Entry("eth", "a3")>>) :
           p \in {"magiceden", "rarible"}}
  \cup {Link("rarible", None, "a1", <<Entry("base", "a1")>>, <<Entry("ethereum", "a1")>>),
        Link("rarible", None, None, <<Entry("base", "a2")>>, <<>>),
        Link("rarible", None, None, <<Entry(None, "a2")>>, <<>>)}
=============================================================================
