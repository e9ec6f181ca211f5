---------------------------- MODULE ProviderPool ----------------------------
(***************************************************************************)
(* ProviderPool of src/src/chains/evm/executor.js: the RPC endpoints of    *)
(* one network behind withFailover(), which turns to the next endpoint on  *)
(* a transport error, and a keep-alive that probes them all.               *)
(*                                                                         *)
(* Any number of calls share one pool: buildTemplate() runs three at once, *)
(* and inside fire() the receipt watcher and the send loop call side by    *)
(* side.  A call sleeps while its request is out.  What it finds when it   *)
(* wakes is the pool as the others left it, `idx` included.                *)
(***************************************************************************)
EXTENDS Naturals, FiniteSets

CONSTANTS N,          \* network.rpcUrls.length
          Calls,      \* concurrent activations of withFailover()
          Attempts,   \* the `attempts` each of them is called with
          Flaky,      \* endpoints whose requests may fail in transport
          KeepAlive   \* does startKeepAlive() run on this pool?

Endpoints == 0..(N - 1)

ASSUME EndpointsAssumption == N \in Nat \ {0} /\ Flaky \subseteq Endpoints
ASSUME CallsAssumption ==
  /\ Attempts \in [Calls -> Nat \ {0}]
  /\ KeepAlive \in BOOLEAN

VARIABLES
  idx,       \* the current endpoint
  healthy,   \* entry.healthy
  failures,  \* entry.failures, as far as anyone looks: two is many
  call,      \* what became of each call
  entry,     \* the endpoint its request went to
  left,      \* attempts it has left, the one under way included
  probing    \* endpoints with a getBlockNumber() of the keep-alive under way

endpointVars == <<healthy, failures>>
callVars     == <<call, entry, left>>
vars         == <<idx, healthy, failures, call, entry, left, probing>>

TypeOK ==
  /\ idx \in Endpoints
  /\ healthy \in [Endpoints -> BOOLEAN]
  /\ failures \in [Endpoints -> 0..2]
  /\ call \in [Calls -> {"idle", "asking", "answered", "refused", "exhausted"}]
  /\ entry \in [Calls -> Endpoints]
  /\ left \in [Calls -> Nat] /\ \A c \in Calls : left[c] <= Attempts[c]
  /\ probing \in SUBSET Endpoints

Init ==
  /\ idx = 0
  /\ healthy = [e \in Endpoints |-> TRUE]
  /\ failures = [e \in Endpoints |-> 0]
  /\ call = [c \in Calls |-> "idle"]
  /\ entry = [c \in Calls |-> 0]
  /\ left = [c \in Calls |-> 0]
  /\ probing = {}

-----------------------------------------------------------------------------
After(i, k) == (i + k) % N

\* current(): the first healthy endpoint from i on, else simply the next one.
Current(i, h) ==
  IF \E e \in Endpoints : h[e]
  THEN After(i, CHOOSE k \in Endpoints :
                  /\ h[After(i, k)]
                  /\ \A j \in Endpoints : j < k => ~h[After(i, j)])
  ELSE After(i, 1)

\* Sends the request of c to e, which becomes the current endpoint.
Ask(c, e, n) ==
  /\ idx' = e
  /\ entry' = [entry EXCEPT ![c] = e]
  /\ left' = [left EXCEPT ![c] = n]
  /\ call' = [call EXCEPT ![c] = "asking"]

\* Mutant of Begin: `i <= max`.
BeginOneMore(c) ==
  /\ call[c] # "asking"
  /\ Ask(c, Current(idx, healthy), Attempts[c] + 1)
  /\ UNCHANGED <<endpointVars, probing>>

\* withFailover() is called.
Begin(c) ==
  /\ call[c] # "asking"
  /\ Ask(c, Current(idx, healthy), Attempts[c])
  /\ UNCHANGED <<endpointVars, probing>>

\* The request succeeds: markHealthy() credits the current endpoint.
Answered(c) ==
  /\ call[c] = "asking"
  /\ call' = [call EXCEPT ![c] = "answered"]
  /\ healthy' = [healthy EXCEPT ![idx] = TRUE]
  /\ failures' = [failures EXCEPT ![idx] = 0]
  /\ UNCHANGED <<idx, entry, left, probing>>

Raise(n) == IF n < 2 THEN n + 1 ELSE n

\* One more failure of e; the second one marks it.
Blame(e) ==
  /\ failures' = [failures EXCEPT ![e] = Raise(@)]
  /\ healthy' = [healthy EXCEPT ![e] = @ /\ failures'[e] < 2]

\* Mutant of Refused: an error of the contract rotates like one of transport.
RefusedRotates(c) ==
  /\ call[c] = "asking"
  /\ call' = [call EXCEPT ![c] = "refused"]
  /\ Blame(idx)
  /\ idx' = After(idx, 1)
  /\ UNCHANGED <<entry, left, probing>>

\* The endpoint answers with an error of the contract or the node: rethrown.
Refused(c) ==
  /\ call[c] = "asking"
  /\ call' = [call EXCEPT ![c] = "refused"]
  /\ UNCHANGED <<idx, endpointVars, entry, left, probing>>

\* Mutant of Failed: the next attempt goes to the endpoint that just failed.
FailedInPlace(c) ==
  /\ call[c] = "asking"
  /\ entry[c] \in Flaky
  /\ Blame(idx)
  /\ IF left[c] > 1
     THEN Ask(c, Current(idx, healthy'), left[c] - 1)
     ELSE /\ call' = [call EXCEPT ![c] = "exhausted"]
          /\ left' = [left EXCEPT ![c] = 0]
          /\ UNCHANGED <<idx, entry>>
  /\ UNCHANGED probing

\* A transport error: rotate() blames and leaves the CURRENT endpoint, and the
\* call goes on to the next one or gives up.
Failed(c) ==
  /\ call[c] = "asking"
  /\ entry[c] \in Flaky
  /\ Blame(idx)
  /\ IF left[c] > 1
     THEN Ask(c, Current(After(idx, 1), healthy'), left[c] - 1)
     ELSE /\ idx' = After(idx, 1)
          /\ call' = [call EXCEPT ![c] = "exhausted"]
          /\ left' = [left EXCEPT ![c] = 0]
          /\ UNCHANGED entry
  /\ UNCHANGED probing

-----------------------------------------------------------------------------
(* The keep-alive.  Rounds may overlap: the interval is shorter than the    *)
(* time-out of a request.                                                   *)

Tick ==
  /\ KeepAlive
  /\ probing' = Endpoints
  /\ UNCHANGED <<idx, endpointVars, callVars>>

ProbeAnswered(e) ==
  /\ e \in probing
  /\ healthy' = [healthy EXCEPT ![e] = TRUE]
  /\ failures' = [failures EXCEPT ![e] = 0]
  /\ probing' \in {probing, probing \ {e}}
  /\ UNCHANGED <<idx, callVars>>

ProbeFailed(e) ==
  /\ e \in probing \cap Flaky
  /\ Blame(e)
  /\ probing' \in {probing, probing \ {e}}
  /\ UNCHANGED <<idx, callVars>>

-----------------------------------------------------------------------------
CallStep(c) == Answered(c) \/ Refused(c) \/ Failed(c)

Next ==
  \/ \E c \in Calls : Begin(c) \/ CallStep(c)
  \/ Tick
  \/ \E e \in Endpoints : ProbeAnswered(e) \/ ProbeFailed(e)

Spec == Init /\ [][Next]_vars

-----------------------------------------------------------------------------
\* While some endpoint works, no call that may try twice gives up: losing an
\* endpoint is a non-event (header of the class), even while other calls turn
\* the same pool under it.  It holds for a call that has the pool for itself, and for
\* fewer calls at a time than endpoints when one endpoint breaks, as for fire()'s two
\* loops on three.  It fails for as many calls as endpoints: two on two, or
\* buildTemplate()'s three on the three of Base and Polygon.
OutageIsNonEvent ==
  \A c \in Calls : call[c] = "exhausted" => Attempts[c] = 1 \/ Flaky = Endpoints

\* An endpoint that never fails is never marked unhealthy for failures another
\* one caused, though rotate() blames whichever is current when it runs.  This too
\* holds for fewer calls at a time than endpoints, and fails for as many.
BlameIsDeserved == \A e \in Endpoints \ Flaky : healthy[e]
=============================================================================
