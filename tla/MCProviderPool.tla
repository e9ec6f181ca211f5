--------------------------- MODULE MCProviderPool ---------------------------
(* Constants of ProviderPool that a .cfg cannot write. *)
EXTENDS ProviderPool

\* A single endpoint is down, or comes and goes.
FirstFlaky == {0}

\* fire(): the send loop allows two attempts, the receipt watcher one.
FireAttempts == [c \in Calls |-> IF c = "watcher" THEN 1 ELSE 2]
=============================================================================
