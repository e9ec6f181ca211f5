----------------------------- MODULE Resolution -----------------------------
(***************************************************************************)
(* resolveTarget() of src/src/resolvers/index.js: from a pasted link to a  *)
(* contract, and from the contract to the price and opening time of its    *)
(* mint.  One resolution per link is under way at a time, and whoever asks *)
(* meanwhile waits for it; its result is kept for a minute.                *)
(*                                                                         *)
(* A caller gets a clone: its answer and the kept one are separate values, *)
(* as they are here.                                                       *)
(***************************************************************************)
EXTENDS MintStage

CONSTANTS Handlers,   \* activations of message handlers
          Links,      \* the links users paste
          Users,
          Prices,     \* what a mint may cost, in units of the least price
          Published,  \* what the contract behind each link publishes
          Failed,     \* the answer of a resolution that threw
          None        \* no answer, no entry, no wizard

\* A resolved target.  `by`: who says what it costs.
Contract == "contract"
Drops == [link : Links, price : Prices \cup {Unknown}, start : BOOLEAN,
          by : Users \cup {Contract}]

ASSUME PricesAssumption == Prices \subseteq Nat /\ Unknown \notin Prices
ASSUME PublishedAssumption ==
  \A l \in Links : WellFormed(Published[l]) /\ PublishedPrices(Published[l]) \subseteq Prices
ASSUME NoneAssumption ==
  /\ {None, Failed} \cap Drops = {} /\ None # Failed
  /\ None \notin Users \cup Links /\ Contract \notin Users

VARIABLES
  cache,    \* targetCache, its expired entries left out
  reading,  \* targetInflight
  waiting,  \* the link each caller awaits
  answer    \* what its await gave it

resolution == <<cache, reading, waiting, answer>>

ResolutionTypeOK ==
  /\ cache \in [Links -> Drops \cup {None}]
  /\ reading \in SUBSET Links
  /\ waiting \in [Handlers -> Links \cup {None}]
  /\ answer \in [Handlers -> Drops \cup {None, Failed}]

ResolutionInit ==
  /\ cache = [l \in Links |-> None]
  /\ reading = {}
  /\ waiting = [h \in Handlers |-> None]
  /\ answer = [h \in Handlers |-> None]

-----------------------------------------------------------------------------
Drop(l, price, start) == [link |-> l, price |-> price, start |-> start, by |-> Contract]

\* readPublicMintStage(), with whatever look-ups are lost on the way.  No stage,
\* too, is a result, and kept like one.
ReadableOf ==
  [l \in Links |->
     {IF stage = Unknown THEN Drop(l, Unknown, FALSE)
      ELSE Drop(l, stage.price, stage.start # Unknown)
        : stage \in Stages(Published[l]) \cup {Unknown}}]

Readable(l) == ReadableOf[l]

\* h calls resolveTarget(l).
Resolve(h, l) ==
  /\ IF cache[l] # None
     THEN /\ answer' = [answer EXCEPT ![h] = cache[l]]
          /\ UNCHANGED <<reading, waiting>>
     ELSE /\ reading' = reading \cup {l}
          /\ waiting' = [waiting EXCEPT ![h] = l]
          /\ UNCHANGED answer
  /\ UNCHANGED cache

\* The resolution of l ends with result, for everyone who waits for it.
Settle(l, result) ==
  /\ l \in reading
  /\ reading' = reading \ {l}
  /\ answer' = [h \in Handlers |-> IF waiting[h] = l THEN result ELSE answer[h]]
  /\ waiting' = [h \in Handlers |-> IF waiting[h] = l THEN None ELSE waiting[h]]

Resolved(l) ==
  \E drop \in Readable(l) : Settle(l, drop) /\ cache' = [cache EXCEPT ![l] = drop]

\* The marketplace fails, refuses or does not know the link.
Unresolved(l) == Settle(l, Failed) /\ UNCHANGED cache

\* TARGET_CACHE_TTL_MS
Expire(l) ==
  /\ cache[l] # None
  /\ cache' = [cache EXCEPT ![l] = None]
  /\ UNCHANGED <<reading, waiting, answer>>

\* h goes on with its answer.
Take(h) ==
  /\ answer' = [answer EXCEPT ![h] = None]
  /\ UNCHANGED <<cache, reading, waiting>>
=============================================================================
