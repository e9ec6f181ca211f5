------------------------------ MODULE MintFire ------------------------------
(***************************************************************************)
(* fire() of src/src/chains/evm/executor.js: one mint transaction, one     *)
(* nonce, three concurrent parts.                                          *)
(*                                                                         *)
(*   sender   sends, pauses, bumps the fee and sends again;                *)
(*   watcher  polls the receipts of every hash the sender got an answer    *)
(*            for;                                                         *)
(*   caller   waits for whichever ends first, then for a grace window.     *)
(*                                                                         *)
(* They share `settled` and `seen` (seenHashes).  Around them: RPC nodes   *)
(* that lose requests and answers, a mempool, and a chain that includes    *)
(* one transaction per nonce, which may be one of another program using    *)
(* the same wallet.  A transaction stands for one signed blob: equal fees  *)
(* sign to the same blob and hash, different fees to different ones.       *)
(***************************************************************************)
EXTENDS RetryPolicy, FiniteSets

CONSTANTS Txs,          \* the blobs the sender may sign
          Foreign,      \* a transaction of the same nonce that is not ours
          Pending,      \* nothing with this nonce is on the chain yet
          MaxAttempts,  \* opts.maxAttempts
          TotalTimeout, \* opts.totalTimeoutMs, in clock ticks
          LookupsFail   \* may receipt look-ups fail?

ASSUME ChainAssumption ==
  /\ Foreign \notin Txs /\ Pending \notin Txs /\ Foreign # Pending
ASSUME LimitsAssumption ==
  MaxAttempts \in Nat /\ TotalTimeout \in Nat /\ LookupsFail \in BOOLEAN

VARIABLES
  now,       \* Date.now() - startedAt, in ticks
  sender,    \* where the send loop waits
  tx,        \* the blob it is sending
  lastError, \* lastErrorClass
  budgeted,  \* budgetedAttempts
  seen,      \* seenHashes
  watcher,   \* where the watcher waits
  toLook,    \* hashes left in its current round
  caller,    \* where fire() itself waits
  settled,   \* the result: [success, code]
  wire,      \* blobs sent and not (or not yet) delivered
  mempool,   \* blobs some node holds
  chain      \* [tx, ok]: what the nonce was used for

sending == <<sender, tx, lastError, budgeted, seen>>
looking == <<watcher, toLook>>
outcome == <<caller, settled>>
network == <<wire, mempool, chain>>
vars    == <<now, sender, tx, lastError, budgeted, seen, watcher, toLook,
             caller, settled, wire, mempool, chain>>

Opts     == [maxAttempts |-> MaxAttempts, totalTimeout |-> TotalTimeout]
StopCode == {"timeout", "max_attempts", "budget"} \cup ErrorClass
Unsettled == [success |-> FALSE, code |-> "racing"]
Results  == [success : BOOLEAN, code : StopCode \cup {"racing", "confirmed", "reverted"}]

TypeOK ==
  /\ now \in 0..TotalTimeout
  /\ sender \in {"quoting", "sending", "pausing", "returned"}
  /\ tx \in Txs
  /\ lastError \in ErrorClass \cup {NoError}
  /\ budgeted \in Nat
  /\ seen \in SUBSET Txs
  /\ watcher \in {"asleep", "looking", "returned"}
  /\ toLook \in SUBSET Txs
  /\ caller \in {"racing", "grace", "returned"}
  /\ settled \in Results
  /\ wire \in SUBSET Txs
  /\ mempool \in SUBSET Txs
  /\ chain \in [tx : Txs \cup {Foreign, Pending}, ok : BOOLEAN]

Init ==
  /\ now = 0
  /\ sender = "quoting"
  /\ tx \in Txs
  /\ lastError = NoError
  /\ budgeted = 0
  /\ seen = {}
  /\ watcher = "asleep"
  /\ toLook = {}
  /\ caller = "racing"
  /\ settled = Unsettled
  /\ wire = {}
  /\ mempool = {}
  /\ chain = [tx |-> Pending, ok |-> FALSE]

NonceUsed == chain.tx # Pending

-----------------------------------------------------------------------------
(* The caller                                                              *)

\* Promise.race ends with the send loop's failure.  The grace window opens
\* when some hash may still confirm.
SettleBySender(code, hashes) ==
  IF caller = "racing"
  THEN /\ settled' = [success |-> FALSE, code |-> code]
       /\ caller' = IF hashes # {} THEN "grace" ELSE "returned"
  ELSE UNCHANGED outcome

\* The watcher ends: it wins the race, or it ends the grace window.  In the
\* race a watcher that saw nothing means a time-out, and its promise then
\* ends the grace window at once.
SettleByWatcher(result) ==
  CASE caller = "racing"  -> settled' = result /\ caller' = "returned"
    [] caller = "grace"   -> /\ settled' = IF result.success THEN result ELSE settled
                             /\ caller' = "returned"
    [] caller = "returned" -> UNCHANGED outcome

\* sleep(confirmGraceMs)
GraceEnds ==
  /\ caller = "grace"
  /\ caller' = "returned"
  /\ UNCHANGED <<now, sending, looking, settled, network>>

-----------------------------------------------------------------------------
(* The send loop                                                           *)

\* The fee data is there (or its fallback): stop, or sign and send.
Decide(affordable) ==
  /\ sender = "quoting"
  /\ LET stop == ShouldStop(budgeted + 1, now, lastError, affordable, Opts)
     IN  IF stop # "continue"
         THEN /\ sender' = "returned"
              /\ SettleBySender(stop, seen)
              /\ UNCHANGED <<tx, wire>>
         ELSE /\ sender' = "sending"
              /\ tx' \in Txs
              /\ wire' = wire \cup {tx'}
              /\ UNCHANGED outcome
  /\ UNCHANGED <<now, lastError, budgeted, seen, looking, mempool, chain>>

\* broadcastTransaction() answers with the hash.
Accepted ==
  /\ sender = "sending"
  /\ tx \in mempool
  /\ seen' = seen \cup {tx}
  /\ lastError' = NoError
  /\ budgeted' = budgeted + 1
  /\ sender' = "pausing"
  /\ UNCHANGED <<now, tx, looking, outcome, network>>

\* What a node, or a lost connection, can answer in this state.
MayFailWith(cls) ==
  CASE cls = "nonce"         -> NonceUsed
    [] cls = "already_known" -> tx \in mempool
    [] cls \in {"rpc", "unknown"} -> TRUE
    [] cls \in {"underpriced", "funds", "revert"} -> tx \notin mempool

\* ... or throws.  A used nonce is left to the watcher when there is a hash to
\* watch; what is not retryable ends the loop.
Rejected(cls) ==
  /\ sender = "sending"
  /\ MayFailWith(cls)
  /\ lastError' = cls
  /\ budgeted' = IF ConsumesAttemptBudget(cls) THEN budgeted + 1 ELSE budgeted
  /\ IF IsRetryable(cls) \/ (cls = "nonce" /\ seen # {})
     THEN sender' = "pausing" /\ UNCHANGED outcome
     ELSE sender' = "returned" /\ SettleBySender(cls, seen)
  /\ wire' = IF cls \in {"underpriced", "funds", "revert"} THEN wire \ {tx} ELSE wire
  /\ UNCHANGED <<now, tx, seen, looking, mempool, chain>>

\* The pause is over: `while (!settled)`.
PauseEnds ==
  /\ sender = "pausing"
  /\ sender' = IF settled = Unsettled THEN "quoting" ELSE "returned"
  /\ UNCHANGED <<now, tx, lastError, budgeted, seen, looking, outcome, network>>

-----------------------------------------------------------------------------
(* The watcher                                                             *)

\* Mutant: `while (true)`.
WatchForever ==
  /\ watcher = "asleep"
  /\ watcher' = "looking"
  /\ toLook' = seen
  /\ UNCHANGED <<now, sending, outcome, network>>

\* Mutant: the race's null result is kept as it is.
WatchRoundNoResult ==
  /\ watcher = "asleep"
  /\ IF settled = Unsettled /\ now < TotalTimeout
     THEN /\ watcher' = "looking"
          /\ toLook' = seen
          /\ UNCHANGED outcome
     ELSE /\ watcher' = "returned"
          /\ toLook' = {}
          /\ SettleByWatcher([success |-> FALSE, code |-> "null"])
  /\ UNCHANGED <<now, sending, network>>

\* The head of its loop, once per 250 ms.
WatchRound ==
  /\ watcher = "asleep"
  /\ IF settled = Unsettled /\ now < TotalTimeout
     THEN /\ watcher' = "looking"
          /\ toLook' = seen
          /\ UNCHANGED outcome
     ELSE /\ watcher' = "returned"
          /\ toLook' = {}
          /\ SettleByWatcher([success |-> FALSE, code |-> "timeout"])
  /\ UNCHANGED <<now, sending, network>>

\* Mutant: any receipt counts as a success.
FoundAny(hash) ==
  /\ watcher = "looking"
  /\ hash \in toLook
  /\ chain.tx = hash
  /\ watcher' = "returned"
  /\ toLook' = {}
  /\ SettleByWatcher([success |-> TRUE, code |-> "confirmed"])
  /\ UNCHANGED <<now, sending, network>>

\* A receipt: confirmed, or mined and reverted.
Found(hash) ==
  /\ watcher = "looking"
  /\ hash \in toLook
  /\ chain.tx = hash
  /\ watcher' = "returned"
  /\ toLook' = {}
  /\ SettleByWatcher([success |-> chain.ok,
                      code |-> IF chain.ok THEN "confirmed" ELSE "reverted"])
  /\ UNCHANGED <<now, sending, network>>

\* No receipt, or no answer.
NotFound(hash) ==
  /\ watcher = "looking"
  /\ hash \in toLook
  /\ LookupsFail \/ chain.tx # hash
  /\ toLook' = toLook \ {hash}
  /\ UNCHANGED <<now, sending, watcher, outcome, network>>

RoundEnds ==
  /\ watcher = "looking"
  /\ toLook = {}
  /\ watcher' = "asleep"
  /\ UNCHANGED <<now, sending, toLook, outcome, network>>

-----------------------------------------------------------------------------
(* The network and the chain                                               *)

Deliver(blob) ==
  /\ blob \in wire
  /\ ~NonceUsed
  /\ wire' = wire \ {blob}
  /\ mempool' = mempool \cup {blob}
  /\ UNCHANGED <<now, sending, looking, outcome, chain>>

Include ==
  /\ ~NonceUsed
  /\ \E by \in mempool \cup {Foreign}, ok \in BOOLEAN :
       chain' = [tx |-> by, ok |-> ok]
  /\ UNCHANGED <<now, sending, looking, outcome, wire, mempool>>

Tick ==
  /\ now < TotalTimeout
  /\ now' = now + 1
  /\ UNCHANGED <<sending, looking, outcome, network>>

-----------------------------------------------------------------------------
SendStep == \/ \E affordable \in BOOLEAN : Decide(affordable)
            \/ Accepted
            \/ \E cls \in ErrorClass : Rejected(cls)
            \/ PauseEnds

WatchStep == \/ WatchRound \/ RoundEnds
             \/ \E hash \in Txs : Found(hash) \/ NotFound(hash)

\* fire() has returned and neither loop is left running.
Quiet == caller = "returned" /\ sender = "returned" /\ watcher = "returned"

Done == Quiet /\ UNCHANGED vars

Next ==
  \/ SendStep \/ WatchStep \/ GraceEnds
  \/ (\E blob \in Txs : Deliver(blob)) \/ Include \/ Tick
  \/ Done

Spec == Init /\ [][Next]_vars

\* Every RPC call ends (rpcTimeoutMs), every sleep ends, time passes.  No answer
\* of a node, delivery or inclusion is owed.
Fairness == WF_vars(SendStep) /\ WF_vars(WatchStep) /\ WF_vars(GraceEnds) /\ WF_vars(Tick)

FairSpec == Spec /\ Fairness

-----------------------------------------------------------------------------
(* Properties                                                              *)

\* What fire() reports has its ground on the chain, in whatever order attempts,
\* answers and receipts come: "confirmed" a hash it was given and that succeeded,
\* "reverted" one that was included and failed, "nonce" that the nonce is used, so
\* that nothing of this mint can land after the report.
\* WHO used the nonce is not asked, for there the code is wrong: with no hash known
\* it says "already used by another tx" also when a broadcast whose answer was lost
\* has landed.
VerdictIsGrounded ==
  caller = "returned" =>
    /\ settled.success => chain.tx \in seen /\ chain.ok
    /\ settled.code = "reverted" => chain.tx \in seen /\ ~chain.ok
    /\ settled.code = "nonce" => NonceUsed

\* However many attempts RPC failures give away for free, those that count never
\* exceed maxAttempts.
AttemptsBounded == budgeted <= MaxAttempts

\* Once fire() is bound to report a failure, the send loop starts no transaction
\* that could still mint: it has ended, or its time is over too, or the nonce is
\* used.
\* What it was signing or broadcasting by then may still go out.
NothingSentAfterFailure ==
  [][settled # Unsettled /\ ~settled.success /\ sender = "quoting" /\ sender' = "sending"
       => NonceUsed]_vars

\* fire() returns and leaves no loop running behind.
EndsQuiet == <>[]Quiet

\* The grace window does its work: a watcher that wakes in it does not close it
\* on a failure when a hash it knows has already succeeded.
GraceCatchesLanded ==
  [][caller = "grace" /\ chain.tx \in seen /\ chain.ok =>
       ~(watcher' # watcher /\ caller' = "returned" /\ ~settled'.success)]_vars
=============================================================================
