---------------------------- MODULE MCMintFire ----------------------------
(* MintFire with a handful of blobs, attempts and clock ticks.            *)
EXTENDS MintFire, TLC

\* Blobs are interchangeable: the chain may include any of them.
TxSymmetry == Permutations(Txs)
=============================================================================
