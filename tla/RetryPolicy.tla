---------------------------- MODULE RetryPolicy ----------------------------
(***************************************************************************)
(* The pure rules of src/src/scheduler/retryPolicy.js: which errors are    *)
(* retried and counted, the fee ladder, and when the send loop stops.      *)
(***************************************************************************)
EXTENDS Integers

ErrorClass == {"rpc", "revert", "underpriced", "nonce", "funds",
               "already_known", "unknown"}

\* lastErrorClass = null
NoError == "none"

IsRetryable(cls) == cls \in {"rpc", "underpriced", "already_known", "unknown"}

ConsumesAttemptBudget(cls) == cls \notin {"rpc", "already_known"}

-----------------------------------------------------------------------------
\* One bump of bumpPercent, in whole wei.
Bump(tip, bumpPercent) == (tip * (100 + bumpPercent)) \div 100

\* Mutant: the bump is not compounded.
LinearLadder(tip, bumpPercent) ==
  [n \in Nat |-> tip + (tip * bumpPercent * n) \div 100]

\* Mutant: the fraction is upside down.
InvertedLadder(tip, bumpPercent) ==
  LET rung[n \in Nat] ==
        IF n = 0 THEN tip ELSE (rung[n - 1] * 100) \div (100 + bumpPercent)
  IN  rung

\* The compounded, integer-only bump: rung n is the tip after n bumps.
TipLadder(tip, bumpPercent) ==
  LET rung[n \in Nat] ==
        IF n = 0 THEN tip ELSE Bump(rung[n - 1], bumpPercent)
  IN  rung

AtLeastOne(tip) == IF tip <= 0 THEN 1 ELSE tip

\* Mutant: the tip keeps its rung when the whole fee is cut back.
ClampFeesOnly(base, tip, gas, budget) ==
  LET wanted == base * 2 + tip
      afford == IF gas > 0 THEN budget \div gas ELSE 0
      cut    == afford > 0 /\ wanted > afford
      maxFee == IF cut THEN afford ELSE wanted
  IN  [maxFeePerGas |-> maxFee, maxPriorityFeePerGas |-> tip,
       atBudgetCeiling |-> cut, affordable |-> maxFee > base /\ maxFee > 0]

\* Mutant: the doubled base fee is what must be covered.
ClampCoversTwice(base, tip, gas, budget) ==
  LET wanted == base * 2 + tip
      afford == IF gas > 0 THEN budget \div gas ELSE 0
      cut    == afford > 0 /\ wanted > afford
      maxFee == IF cut THEN afford ELSE wanted
  IN  [maxFeePerGas |-> maxFee,
       maxPriorityFeePerGas |-> IF cut /\ tip > maxFee THEN maxFee ELSE tip,
       atBudgetCeiling |-> cut, affordable |-> maxFee > 2 * base /\ maxFee > 0]

\* Mutant: the price per gas is rounded up.
ClampRoundedUp(base, tip, gas, budget) ==
  LET wanted == base * 2 + tip
      afford == IF gas > 0 THEN (budget + gas - 1) \div gas ELSE 0
      cut    == afford > 0 /\ wanted > afford
      maxFee == IF cut THEN afford ELSE wanted
  IN  [maxFeePerGas |-> maxFee,
       maxPriorityFeePerGas |-> IF cut /\ tip > maxFee THEN maxFee ELSE tip,
       atBudgetCeiling |-> cut, affordable |-> maxFee > base /\ maxFee > 0]

\* Twice the base fee plus the tip, cut back to what the budget pays per gas.
\* A budget below one wei per gas yields afford = 0, which cuts nothing.
Clamp(base, tip, gas, budget) ==
  LET wanted == base * 2 + tip
      afford == IF gas > 0 THEN budget \div gas ELSE 0
      cut    == afford > 0 /\ wanted > afford
      maxFee == IF cut THEN afford ELSE wanted
  IN  [maxFeePerGas |-> maxFee,
       maxPriorityFeePerGas |-> IF cut /\ tip > maxFee THEN maxFee ELSE tip,
       atBudgetCeiling |-> cut, affordable |-> maxFee > base /\ maxFee > 0]

\* Attempts are counted from one.
Bumps(attempt) == IF attempt > 1 THEN attempt - 1 ELSE 0

\* computeFees() for a quote [base, tip].
ComputeFees(attempt, quote, gas, budget, bumpPercent) ==
  Clamp(quote.base, AtLeastOne(TipLadder(quote.tip, bumpPercent)[Bumps(attempt)]),
        gas, budget)

-----------------------------------------------------------------------------
\* Mutant: the clock is not looked at.
StopIgnoringTime(attempt, elapsed, lastErrorClass, affordable, opts) ==
  IF lastErrorClass # NoError /\ ~IsRetryable(lastErrorClass) THEN lastErrorClass
  ELSE IF attempt > opts.maxAttempts THEN "max_attempts"
  ELSE IF ~affordable THEN "budget" ELSE "continue"

\* Mutant: one attempt too many.
StopLate(attempt, elapsed, lastErrorClass, affordable, opts) ==
  IF lastErrorClass # NoError /\ ~IsRetryable(lastErrorClass) THEN lastErrorClass
  ELSE IF elapsed >= opts.totalTimeout THEN "timeout"
  ELSE IF attempt > opts.maxAttempts + 1 THEN "max_attempts"
  ELSE IF ~affordable THEN "budget" ELSE "continue"

\* shouldStop(): the code of the first stop condition that holds.
ShouldStop(attempt, elapsed, lastErrorClass, affordable, opts) ==
  IF lastErrorClass # NoError /\ ~IsRetryable(lastErrorClass) THEN lastErrorClass
  ELSE IF elapsed >= opts.totalTimeout THEN "timeout"
  ELSE IF attempt > opts.maxAttempts THEN "max_attempts"
  ELSE IF ~affordable THEN "budget" ELSE "continue"
=============================================================================
