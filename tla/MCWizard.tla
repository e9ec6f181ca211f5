------------------------------ MODULE MCWizard ------------------------------
(* Wizard with two links: one contract publishes its price, the other when   *)
(* it opens.                                                                 *)
EXTENDS Wizard, TLC

CONSTANTS pricedLink, timedLink

BothLinks == {pricedLink, timedLink}

MCPublished ==
  (pricedLink :> [Nothing EXCEPT !.prices = <<Unknown, 2>>])
    @@ (timedLink :> [Nothing EXCEPT !.starts = <<20>>])

ConversationSymmetry == Permutations(Handlers) \cup Permutations(Users)
=============================================================================
