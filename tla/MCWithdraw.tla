----------------------------- MODULE MCWithdraw -----------------------------
(* Withdraw with commands for a part of the funds and for all of them.       *)
EXTENDS Withdraw, TLC

CONSTANTS evmPart, solAll, solPart

MCNet == [c \in Commands |-> IF c = evmPart THEN "evm" ELSE "solana"]

MCAmount == [c \in Commands |-> IF c = solAll THEN 0 ELSE 1]

MCAttempts == [n \in Nets |-> 2]

Symmetry == Permutations(Handlers)
=============================================================================
