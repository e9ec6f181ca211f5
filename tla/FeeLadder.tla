----------------------------- MODULE FeeLadder -----------------------------
(***************************************************************************)
(* What the send loop of fire() signs away: every iteration fetches a fee  *)
(* quote, climbs the ladder of computeFees() for the attempts that counted *)
(* so far, and signs or stops.  One run of the loop has one gas limit (the *)
(* template's) and one budget (the target's); the quote changes at will.   *)
(***************************************************************************)
EXTENDS RetryPolicy

CONSTANTS BaseFees, Tips,        \* what getFeeData() may quote
          GasLimits, Budgets,    \* of the template, of the target
          BumpPercent,           \* opts.bumpPercent
          MaxAttempts            \* opts.maxAttempts

ASSUME QuotesAssumption == BaseFees \subseteq Nat /\ Tips \subseteq Nat
ASSUME TargetAssumption == GasLimits \subseteq Nat \ {0} /\ Budgets \subseteq Nat \ {0}
ASSUME OptsAssumption   == BumpPercent \in Nat /\ MaxAttempts \in Nat

VARIABLES
  gas,       \* template.gasLimit
  budget,    \* maxFeeBudgetWei
  budgeted,  \* budgetedAttempts
  quote,     \* the last fee data
  signed,    \* [attempt, fees] of the last transaction signed; attempt 0: none
  stopped    \* why the loop ended

vars == <<gas, budget, budgeted, quote, signed, stopped>>

Quotes == [base : BaseFees, tip : Tips]
Fees   == [maxFeePerGas : Nat, maxPriorityFeePerGas : Nat,
           atBudgetCeiling : BOOLEAN, affordable : BOOLEAN]
NoFees == [maxFeePerGas |-> 0, maxPriorityFeePerGas |-> 0,
           atBudgetCeiling |-> FALSE, affordable |-> FALSE]

\* The clock and the errors that end the loop are MintFire's subject.
Opts == [maxAttempts |-> MaxAttempts, totalTimeout |-> 1]

TypeOK ==
  /\ gas \in GasLimits /\ budget \in Budgets
  /\ budgeted \in 0..MaxAttempts
  /\ quote \in Quotes
  /\ signed \in [attempt : 0..MaxAttempts, fees : Fees]
  /\ stopped \in {"continue", "max_attempts", "budget"}

Init ==
  /\ gas \in GasLimits /\ budget \in Budgets
  /\ budgeted = 0
  /\ quote \in Quotes
  /\ signed = [attempt |-> 0, fees |-> NoFees]
  /\ stopped = "continue"

\* One iteration, up to the signature; the answer it gets counts or not.
Attempt(q, counted) ==
  /\ stopped = "continue"
  /\ LET fees == ComputeFees(budgeted + 1, q, gas, budget, BumpPercent)
         stop == ShouldStop(budgeted + 1, 0, NoError, fees.affordable, Opts)
     IN  /\ stopped' = stop
         /\ quote' = q
         /\ IF stop = "continue"
            THEN /\ signed' = [attempt |-> budgeted + 1, fees |-> fees]
                 /\ budgeted' = IF counted THEN budgeted + 1 ELSE budgeted
            ELSE UNCHANGED <<signed, budgeted>>
  /\ UNCHANGED <<gas, budget>>

Stopped == stopped # "continue" /\ UNCHANGED vars

Next == (\E q \in Quotes, counted \in BOOLEAN : Attempt(q, counted)) \/ Stopped

Spec == Init /\ [][Next]_vars

-----------------------------------------------------------------------------
(* Properties                                                              *)

Spent == signed.fees.maxFeePerGas * gas

\* The budget ceiling: whatever is signed, at whatever rung and quote, costs at
\* most the fee budget the user confirmed.
BudgetCeiling == signed.attempt > 0 => Spent <= budget

\* The same for budgets that pay at least one wei per gas.
BudgetCeilingAboveGas == budget >= gas => BudgetCeiling

\* What is signed can be mined: the tip is positive and within the fee (else the
\* node rejects it), and the fee exceeds the quoted base fee, cut back or not.
SignedIsValid ==
  signed.attempt > 0 =>
    /\ 0 < signed.fees.maxPriorityFeePerGas
    /\ signed.fees.maxPriorityFeePerGas <= signed.fees.maxFeePerGas
    /\ signed.fees.affordable

\* Giving up for the budget is justified: the budget does not pay one wei per gas
\* more than the quoted base fee.
RefusedForCause == stopped = "budget" => budget < gas * (quote.base + 1)

\* Under an unchanged quote no later attempt bids less, at the ceiling or below.
NeverStepsDown ==
  [][(signed.attempt > 0 /\ quote' = quote) =>
       /\ signed'.fees.maxFeePerGas >= signed.fees.maxFeePerGas
       /\ signed'.fees.maxPriorityFeePerGas >= signed.fees.maxPriorityFeePerGas]_vars

\* Under an unchanged quote, below the ceiling, and once the rounding of a tip of
\* 40 wei or more no longer eats it, each rung raises the tip by at least 12.5 %.
LadderClimbs ==
  [][/\ signed.attempt > 0 /\ quote' = quote
     /\ signed'.attempt = signed.attempt + 1
     /\ ~signed'.fees.atBudgetCeiling
     /\ signed.fees.maxPriorityFeePerGas >= 40
     => 8 * signed'.fees.maxPriorityFeePerGas >= 9 * signed.fees.maxPriorityFeePerGas]_vars
=============================================================================
