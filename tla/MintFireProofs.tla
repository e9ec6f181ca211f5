--------------------------- MODULE MintFireProofs ---------------------------
(* Safety of fire() for every set of blobs, every attempt limit and every    *)
(* time-out, whatever the RPC nodes and the chain answer.                    *)
EXTENDS MintFire, TLAPS

-----------------------------------------------------------------------------
(* What the pure rules return                                                *)

LEMMA StopCases ==
  ASSUME NEW attempt, NEW elapsed, NEW affordable, NEW cls \in ErrorClass \cup {NoError}
  PROVE  LET stop == ShouldStop(attempt, elapsed, cls, affordable, Opts)
         IN  /\ stop \in {cls, "timeout", "max_attempts", "budget", "continue"}
             /\ stop = "continue" => /\ cls = NoError \/ IsRetryable(cls)
                                     /\ ~(elapsed >= TotalTimeout)
                                     /\ ~(attempt > MaxAttempts)
             /\ stop = cls => cls # NoError /\ ~IsRetryable(cls)
BY DEF ShouldStop, Opts, ErrorClass, NoError, IsRetryable

-----------------------------------------------------------------------------
(* Types                                                                     *)

LEMMA InitTyped == Init => TypeOK
<1>1. 0 \in 0..TotalTimeout
  BY LimitsAssumption
<1>2. Unsettled \in Results
  BY DEF Unsettled, Results
<1>. QED  BY <1>1, <1>2 DEF Init, TypeOK

LEMMA SettledTyped ==
  ASSUME TypeOK, NEW code \in StopCode, NEW hashes, SettleBySender(code, hashes)
  PROVE  settled' \in Results /\ caller' \in {"racing", "grace", "returned"}
<1>1. [success |-> FALSE, code |-> code] \in Results
  BY DEF Results
<1>2. CASE caller = "racing"
  BY <1>1, <1>2 DEF SettleBySender
<1>3. CASE caller # "racing"
  BY <1>3 DEF SettleBySender, TypeOK, outcome
<1>. QED  BY <1>2, <1>3

LEMMA WatchedTyped ==
  ASSUME TypeOK, NEW result \in Results, SettleByWatcher(result)
  PROVE  settled' \in Results /\ caller' \in {"racing", "grace", "returned"}
BY DEF SettleByWatcher, TypeOK, outcome

LEMMA SendTyped == ASSUME TypeOK, SendStep  PROVE TypeOK'
<1>1. ASSUME NEW affordable \in BOOLEAN, Decide(affordable)  PROVE TypeOK'
  <2>. DEFINE stop == ShouldStop(budgeted + 1, now, lastError, affordable, Opts)
  <2>1. CASE stop = "continue"
    BY <1>1, <2>1 DEF Decide, TypeOK, looking, outcome
  <2>2. CASE stop # "continue"
    <3>1. stop \in StopCode
      BY <2>2, StopCases DEF TypeOK, StopCode, ErrorClass, NoError
    <3>2. SettleBySender(stop, seen) /\ sender' = "returned"
      BY <1>1, <2>2 DEF Decide
    <3>3. settled' \in Results /\ caller' \in {"racing", "grace", "returned"}
      BY <3>1, <3>2, SettledTyped
    <3>. HIDE DEF stop
    <3>. QED  BY <1>1, <2>2, <3>2, <3>3 DEF Decide, TypeOK, looking, stop
  <2>. QED  BY <2>1, <2>2
<1>2. CASE Accepted
  BY <1>2 DEF Accepted, TypeOK, looking, outcome, network
<1>3. ASSUME NEW cls \in ErrorClass, Rejected(cls)  PROVE TypeOK'
  <2>1. settled' \in Results /\ caller' \in {"racing", "grace", "returned"}
    BY <1>3, SettledTyped DEF Rejected, StopCode, TypeOK, outcome
  <2>. QED  BY <1>3, <2>1 DEF Rejected, TypeOK, looking
<1>4. CASE PauseEnds
  BY <1>4 DEF PauseEnds, TypeOK, looking, outcome, network
<1>. QED  BY <1>1, <1>2, <1>3, <1>4 DEF SendStep

LEMMA WatchTyped == ASSUME TypeOK, WatchStep  PROVE TypeOK'
<1>1. CASE WatchRound
  <2>1. [success |-> FALSE, code |-> "timeout"] \in Results
    BY DEF Results, StopCode
  <2>2. settled' \in Results /\ caller' \in {"racing", "grace", "returned"}
    BY <1>1, <2>1, WatchedTyped DEF WatchRound, TypeOK, outcome
  <2>. QED  BY <1>1, <2>2 DEF WatchRound, TypeOK, sending, network
<1>2. CASE RoundEnds
  BY <1>2 DEF RoundEnds, TypeOK, sending, outcome, network
<1>3. ASSUME NEW hash \in Txs, Found(hash)  PROVE TypeOK'
  <2>1. [success |-> chain.ok, code |-> IF chain.ok THEN "confirmed" ELSE "reverted"]
          \in Results
    BY DEF Results, TypeOK
  <2>2. settled' \in Results /\ caller' \in {"racing", "grace", "returned"}
    BY <1>3, <2>1, WatchedTyped DEF Found
  <2>. QED  BY <1>3, <2>2 DEF Found, TypeOK, sending, network
<1>4. ASSUME NEW hash \in Txs, NotFound(hash)  PROVE TypeOK'
  BY <1>4 DEF NotFound, TypeOK, sending, outcome, network
<1>. QED  BY <1>1, <1>2, <1>3, <1>4 DEF WatchStep

LEMMA NextTyped == TypeOK /\ [Next]_vars => TypeOK'
<1>. SUFFICES ASSUME TypeOK, [Next]_vars  PROVE TypeOK'
  OBVIOUS
<1>1. CASE GraceEnds
  BY <1>1 DEF GraceEnds, TypeOK, sending, looking, network
<1>2. ASSUME NEW blob \in Txs, Deliver(blob)  PROVE TypeOK'
  BY <1>2 DEF Deliver, TypeOK, sending, looking, outcome
<1>3. CASE Include
  BY <1>3 DEF Include, TypeOK, sending, looking, outcome
<1>4. CASE Tick
  BY <1>4, LimitsAssumption DEF Tick, TypeOK, sending, looking, outcome, network
<1>5. CASE Done \/ UNCHANGED vars
  BY <1>5 DEF Done, vars, TypeOK
<1>. QED  BY <1>1, <1>2, <1>3, <1>4, <1>5, SendTyped, WatchTyped DEF Next

\* Every reachable state of fire() is well typed.
THEOREM TypeCorrect == Spec => []TypeOK
BY InitTyped, NextTyped, PTL DEF Spec

-----------------------------------------------------------------------------
(* The inductive invariant                                                   *)

\* VerdictIsGrounded at any time, and the error class it may still be made from.
Truth ==
  /\ settled.success => chain.tx \in seen /\ chain.ok
  /\ settled.code = "reverted" => chain.tx \in seen /\ ~chain.ok
  /\ settled.code = "nonce" => NonceUsed
  /\ lastError = "nonce" => NonceUsed

\* A failure the send loop did not report itself is a time-out or an on-chain
\* revert, and either keeps the loop from minting.
Over ==
  /\ caller = "racing" => settled = Unsettled
  /\ settled # Unsettled /\ ~settled.success /\ sender # "returned"
       => now >= TotalTimeout \/ NonceUsed

\* AttemptsBounded, with room for the attempt that is under way.
Counted ==
  /\ budgeted <= MaxAttempts
  /\ sender = "sending" => budgeted < MaxAttempts

IInv == Truth /\ Over /\ Counted

\* The watcher looks for nothing but hashes the send loop was given.
Watched == toLook \subseteq seen

LEMMA InitWatched == Init => Watched
BY DEF Init, Watched

LEMMA NextWatched == TypeOK /\ Watched /\ [Next]_vars => Watched'
<1>. SUFFICES ASSUME TypeOK, Watched, [Next]_vars  PROVE Watched'
  OBVIOUS
<1>. USE DEF Watched
<1>1. CASE SendStep
  BY <1>1 DEF SendStep, Decide, Accepted, Rejected, PauseEnds, looking
<1>2. CASE WatchStep
  BY <1>2 DEF WatchStep, WatchRound, RoundEnds, Found, NotFound, sending
<1>3. CASE ~SendStep /\ ~WatchStep
  BY <1>3 DEF Next, GraceEnds, Deliver, Include, Tick, Done, sending, looking, vars
<1>. QED  BY <1>1, <1>2, <1>3

LEMMA InitIInv == Init => IInv
BY LimitsAssumption DEF Init, IInv, Truth, Over, Counted, Unsettled, NoError

LEMMA SendIInv == ASSUME TypeOK, IInv, SendStep  PROVE IInv'
<1>. USE DEF IInv
<1>1. ASSUME NEW affordable \in BOOLEAN, Decide(affordable)  PROVE IInv'
  <2>. DEFINE stop == ShouldStop(budgeted + 1, now, lastError, affordable, Opts)
  <2>1. CASE stop = "continue"
    <3>1. /\ sender' = "sending" /\ UNCHANGED outcome
          /\ UNCHANGED <<now, lastError, budgeted, seen, chain>>
          /\ sender = "quoting"
      BY <1>1, <2>1 DEF Decide
    <3>2. ~(budgeted + 1 > MaxAttempts)
      BY <2>1, StopCases DEF TypeOK
    <3>3. budgeted < MaxAttempts
      BY <3>2, LimitsAssumption DEF TypeOK
    <3>. QED  BY <3>1, <3>3 DEF Truth, Over, Counted, NonceUsed, outcome
  <2>2. CASE stop # "continue"
    <3>1. /\ sender' = "returned" /\ SettleBySender(stop, seen)
          /\ UNCHANGED <<now, lastError, budgeted, seen, chain>>
      BY <1>1, <2>2 DEF Decide
    <3>2. stop \in {lastError, "timeout", "max_attempts", "budget", "continue"}
      BY StopCases DEF TypeOK
    <3>3. stop # "reverted" /\ (stop = "nonce" => lastError = "nonce")
      BY <3>2 DEF TypeOK, ErrorClass, NoError
    <3>. HIDE DEF stop
    <3>4. Truth'
      BY <3>1, <3>3 DEF Truth, SettleBySender, outcome, NonceUsed
    <3>5. Over'
      BY <3>1 DEF Over, SettleBySender, outcome, NonceUsed
    <3>. QED  BY <3>1, <3>4, <3>5 DEF Counted
  <2>. QED  BY <2>1, <2>2
<1>2. CASE Accepted
  BY <1>2, LimitsAssumption
     DEF Accepted, TypeOK, Truth, Over, Counted, NonceUsed, NoError, outcome, network
<1>3. ASSUME NEW cls \in ErrorClass, Rejected(cls)  PROVE IInv'
  <2>1. cls = "nonce" => NonceUsed
    BY <1>3 DEF Rejected, MayFailWith
  <2>2. Truth'
    <3>1. cls # "reverted"  BY DEF ErrorClass
    <3>. QED
      BY <1>3, <2>1, <3>1 DEF Rejected, Truth, SettleBySender, NonceUsed, outcome
  <2>3. Over'
    BY <1>3 DEF Rejected, Over, SettleBySender, NonceUsed, outcome
  <2>4. Counted'
    BY <1>3, LimitsAssumption DEF Rejected, Counted, TypeOK
  <2>. QED  BY <2>2, <2>3, <2>4
<1>4. CASE PauseEnds
  BY <1>4 DEF PauseEnds, Truth, Over, Counted, NonceUsed, outcome, network
<1>. QED  BY <1>1, <1>2, <1>3, <1>4 DEF SendStep

LEMMA WatchIInv == ASSUME TypeOK, Watched, IInv, WatchStep  PROVE IInv'
<1>. USE DEF IInv
<1>1. CASE WatchRound
  <2>1. CASE settled = Unsettled /\ now < TotalTimeout
    BY <1>1, <2>1 DEF WatchRound, Truth, Over, Counted, NonceUsed, sending, outcome,
                      network
  <2>2. CASE ~(settled = Unsettled /\ now < TotalTimeout)
    <3>1. /\ SettleByWatcher([success |-> FALSE, code |-> "timeout"])
          /\ UNCHANGED <<now, sending, network>>
      BY <1>1, <2>2 DEF WatchRound
    <3>2. CASE caller = "racing"
      <4>1. now >= TotalTimeout
        BY <2>2, <3>2, LimitsAssumption DEF Over, TypeOK
      <4>. QED
        BY <3>1, <3>2, <4>1 DEF SettleByWatcher, Truth, Over, Counted, NonceUsed,
                                sending, network
    <3>3. CASE caller # "racing"
      <4>1. settled' = settled /\ caller' # "racing"
        BY <3>1, <3>3 DEF SettleByWatcher, TypeOK, outcome
      <4>. QED  BY <3>1, <4>1 DEF Truth, Over, Counted, NonceUsed, sending, network
    <3>. QED  BY <3>2, <3>3
  <2>. QED  BY <2>1, <2>2
<1>2. CASE RoundEnds
  BY <1>2 DEF RoundEnds, Truth, Over, Counted, NonceUsed, sending, outcome, network
<1>3. ASSUME NEW hash \in Txs, Found(hash)  PROVE IInv'
  <2>. DEFINE result == [success |-> chain.ok,
                         code |-> IF chain.ok THEN "confirmed" ELSE "reverted"]
  <2>1. NonceUsed /\ chain.tx \in seen
    BY <1>3, ChainAssumption DEF Found, NonceUsed, Watched
  <2>2. SettleByWatcher(result) /\ UNCHANGED <<now, sending, network>>
    BY <1>3 DEF Found
  <2>3. chain.ok \in BOOLEAN
    BY DEF TypeOK
  <2>4. \/ settled' = settled
        \/ settled' = result
    BY <2>2 DEF SettleByWatcher, TypeOK, outcome
  <2>5. Truth'
    BY <2>1, <2>2, <2>3, <2>4 DEF Truth, NonceUsed, sending, network
  <2>6. caller' # "racing"
    BY <2>2 DEF SettleByWatcher, TypeOK, outcome
  <2>. QED  BY <2>1, <2>2, <2>5, <2>6 DEF Over, Counted, NonceUsed, sending, network
<1>4. ASSUME NEW hash \in Txs, NotFound(hash)  PROVE IInv'
  BY <1>4 DEF NotFound, Truth, Over, Counted, NonceUsed, sending, outcome, network
<1>. QED  BY <1>1, <1>2, <1>3, <1>4 DEF WatchStep

LEMMA NextIInv == TypeOK /\ Watched /\ IInv /\ [Next]_vars => IInv'
<1>. SUFFICES ASSUME TypeOK, Watched, IInv, [Next]_vars  PROVE IInv'
  OBVIOUS
<1>. USE DEF IInv
<1>1. CASE GraceEnds
  BY <1>1 DEF GraceEnds, Truth, Over, Counted, NonceUsed, sending, looking, network
<1>2. ASSUME NEW blob \in Txs, Deliver(blob)  PROVE IInv'
  BY <1>2 DEF Deliver, Truth, Over, Counted, NonceUsed, sending, looking, outcome
<1>3. CASE Include
  \* the nonce was free, so no verdict spoke of the chain yet
  <2>1. ~settled.success /\ settled.code # "reverted"
    BY <1>3, ChainAssumption DEF Include, Truth, NonceUsed, TypeOK
  <2>2. NonceUsed'
    BY <1>3, ChainAssumption DEF Include, NonceUsed, TypeOK
  <2>. QED
    BY <1>3, <2>1, <2>2 DEF Include, Truth, Over, Counted, sending, looking, outcome
<1>4. CASE Tick
  BY <1>4, LimitsAssumption DEF Tick, TypeOK, Truth, Over, Counted, NonceUsed, sending,
                                looking, outcome, network
<1>5. CASE Done \/ UNCHANGED vars
  BY <1>5 DEF Done, vars, Truth, Over, Counted, NonceUsed
<1>. QED  BY <1>1, <1>2, <1>3, <1>4, <1>5, SendIInv, WatchIInv DEF Next

LEMMA Invariant == Spec => [](TypeOK /\ Watched /\ IInv)
BY InitTyped, NextTyped, InitWatched, NextWatched, InitIInv, NextIInv, PTL DEF Spec

\* Whatever order answers, receipts and time-outs come in, fire() reports a mint
\* only if a hash it was given succeeded on the chain, a revert only if one failed
\* there, and a used nonce only if it is used, by whomever.
THEOREM VerdictsAreGrounded == Spec => []VerdictIsGrounded
<1>1. IInv => VerdictIsGrounded
  BY DEF IInv, Truth, VerdictIsGrounded
<1>. QED  BY <1>1, Invariant, PTL

\* The attempts that count never exceed the limit.
THEOREM AttemptsAreBounded == Spec => []AttemptsBounded
<1>1. IInv => AttemptsBounded
  BY DEF IInv, Counted, AttemptsBounded
<1>. QED  BY <1>1, Invariant, PTL

LEMMA SilentStep ==
  ASSUME TypeOK, IInv, [Next]_vars,
         settled # Unsettled, ~settled.success, sender = "quoting", sender' = "sending"
  PROVE  NonceUsed
<1>1. PICK affordable \in BOOLEAN : Decide(affordable)
  BY DEF Next, SendStep, Accepted, Rejected, PauseEnds, WatchStep, WatchRound, RoundEnds,
         Found, NotFound, GraceEnds, Deliver, Include, Tick, Done, sending, vars
<1>2. ShouldStop(budgeted + 1, now, lastError, affordable, Opts) = "continue"
  BY <1>1 DEF Decide
<1>3. ~(now >= TotalTimeout)
  BY <1>2, StopCases DEF TypeOK
<1>. QED  BY <1>3 DEF IInv, Over

\* After a failure is settled nothing that could still mint is sent.
THEOREM FailureIsSilent == Spec => NothingSentAfterFailure
<1>1. TypeOK /\ IInv /\ [Next]_vars =>
        [settled # Unsettled /\ ~settled.success /\ sender = "quoting"
           /\ sender' = "sending" => NonceUsed]_vars
  BY SilentStep
<1>. QED  BY <1>1, Invariant, PTL DEF Spec, NothingSentAfterFailure
=============================================================================
