# A verification of the mint bot

The program under `src/` is a Telegram bot that mints NFTs for its users. A user
pastes a marketplace link or a contract address, answers a few questions, and
arms the resulting *target*; thirty seconds before the mint opens the bot warms
its RPC connections up and builds the transaction, and at the opening time it
broadcasts it and bumps the fee until a receipt or a stop condition ends it.
Everything runs in one Node.js process, on one event loop, over one SQLite file.

This directory holds TLA+ models of that program, the TLC runs that check them
on small instances and TLAPS proofs for all instances.

    tlc -config SchedulerRearm.cfg MCScheduler     # a run (see "Runs")
    tlapm SchedulerProofs.tla                      # a proof module

A step of a model is the code between two `await`s: nothing else runs on the
event loop meanwhile. Whatever is read before an `await` may be stale after it,
and most of what is interesting here follows from that.

## 1. The system and its parts

| Part | Source | State it keeps | Operations | Model |
|---|---|---|---|---|
| Scheduler | `src/scheduler/scheduler.js` | `active`: target id → `{cancelled, pool, phase}`; one sleeping `_run()` per arm | `resumeAll`, `arm`, `disarm`, `_run`, `_cleanup`, `shutdown` | `Scheduler`, `TargetLifecycle` |
| Bot: `/arm`, `/disarm`, start, stop | `bot.js` | handlers asleep in an await | the two handlers, `main`, `shutdown` | `Scheduler` |
| EVM executor: `fire()` | `src/chains/evm/executor.js` | `settled`, `seenHashes`, `attempt`, `budgetedAttempts`, `lastErrorClass` | send loop, receipt watcher, grace window | `MintFire`, `FeeLadder` |
| EVM executor: `ProviderPool` | same | `idx`; per endpoint `healthy`, `failures` | `withFailover`, `rotate`, `markHealthy`, keep-alive, `destroy` | `ProviderPool`; `destroy` in `Scheduler` |
| EVM executor: `preWarm`, `buildTemplate` | same | none | connect; probe, balance, template | `Prebuild`; succeed or throw, in `Scheduler` |
| Retry policy | `src/scheduler/retryPolicy.js` | none (pure) | `classifyError`, `isRetryable`, `consumesAttemptBudget`, `computeFees`, `shouldStop`, `nextDelayMs` | `RetryPolicy` |
| Store | `src/store/models.js`, `db.js` | tables users, wallets, targets, executions, rate_events | synchronous SQLite calls | status and last execution, in `Scheduler`; rate events, in `Withdraw` |
| Bot: wizard | `bot.js` | `wizards`: user → half-filled target; handlers asleep with a wizard object | `/newtarget`, `/manualtarget`, `/cancel`, text | `Wizard` |
| Bot: `/withdraw` | `bot.js`, the two `sendNative` | `pendingWithdrawals`: user → command to repeat; a timer per request | confirm, time-out, read, sign, send | `Withdraw`, `Confirmation` |
| Resolution | `src/resolvers/index.js` | `targetCache`, `targetInflight` | link → contract → price and start | `Resolution` |
| Marketplaces | `src/resolvers/{opensea,rarible,magicEden}Resolver.js`, `chainMap.js` | none | link → contract on a network | `Marketplace`, in `Prebuild`; succeed or fail, in `Resolution` |
| Mint stage | `src/chains/evm/mintStage.js` | none | contract → price and opening time, by four readers | `MintStage` |
| Mint probing | `src/chains/evm/erc721Mint.js` | ABI cache and in-flight map | candidate calls, simulation, verdict | `Prebuild` |
| Wallets, keys | `src/wallets/*` | encrypted keys | import, decrypt for one call | not modelled: sequential, cryptographic |
| Solana executor | `src/chains/solana/executor.js` | none | balance, transfer | the transfer, in `Withdraw`; minting is refused by the code |
| Health server | `bot.js` | none | answers `/health` | not modelled: pure I/O |

### How they interact

* `bot.js` calls `scheduler.arm/disarm` from handlers. A handler checks the row
  first, then awaits a balance look-up, then calls `arm()`.
* `arm()` registers a state object and starts `_run()` without awaiting it. The
  run and `/disarm` share that object; `_cleanup()` finds it again by target id,
  which by then may belong to another run.
* A run calls `preWarm`, `buildTemplate` and `fire`, and reports by writing the
  status and an execution row and sending a message.
* `fire()` starts a send loop and a watcher that share `settled` and
  `seenHashes`, both through one `ProviderPool`, whose index and health flags
  the keep-alive and the other loop move under their feet.
* A text handler keeps the wizard object it found while it awaits `resolveTarget`,
  whose answer it may share with another user's handler; `/cancel`, `/newtarget`,
  `/manualtarget` and the user's next texts act on the map meanwhile.
* `/withdraw` passes a command on only when `pendingWithdrawals` holds the same
  one, then awaits replies, reads and broadcasts, and records the rate event last.
* The price and opening time a contract tells are read when the target is made;
  they come back as the value of the call that `buildTemplate()` simulates
  half a minute before the opening, and that `fire()` sends.
* A crash loses all of it but the database and what the chain holds. systemd
  (`deploy/tg-sniper.service`, `Restart=always`) starts the bot again;
  `resumeAll()` re-arms the rows in status armed or firing.

### What is hard about it

Orders of arm, disarm and late clean-ups of one target; what a cancelled run
does after its RPC calls come back; crashes and stops in the middle of any of
it; a broadcast whose answer is lost; two loops that read the clock separately;
a free retry that must not become an endless one; a pool shared by callers that
each believe they know the current endpoint; a transfer whose answer is lost;
look-ups that fail one by one and are taken for answers; integer rounding at a
budget's edge. `PROJECT.json` lists each hazard at its line with the properties that are
about it, or says why there is none yet.

## 2. The modules

**`Scheduler`** Rows, process, handlers and runs of a set of targets. `pc[r]`
says at which `await` of `_run()` run `r` sleeps: `waitPrewarm` and `waitOpen`
are the two `_sleepUntil()`, `prewarming`, `building`, `firing` the calls into
the executor, `announcing` and `notifying` the messages. One action per stretch
between two of them. `Cleanup(t)` acts, as `_cleanup()` does, on the entry the
id has *now*. `/arm` is two actions (`ArmCheck`, `ArmCommit`) because its handler
awaits in between and does not look again. Crash, stop (`Shutdown` ... `Exit`,
with the runs still alive in between) and `Boot`/`Resume` follow `bot.js`. The
clock of a target has the four phases the code compares `Date.now()` with.
`fire()` is its contract: it may broadcast while its pool is open, the chain may
include, success is reported only for what minted (`MintFire` shows that). The
several blobs one `fire()` may send are one transaction here.

The constant `Users` says how the owner behaves: `"any"` sends `/arm` at will,
`"serial"` waits for each answer, `"patient"` also lets a disarmed or failed run
return before arming again. It is an assumption about people, not about code.

**`TargetLifecycle`** The promise to the owner of a target, with no runs and no
process: armed by its owner, cancelled only before it fires, transactions only
while firing, done only if one minted. `Scheduler` maps its state to it
(`Lifecycle`, `TxsAt`).

**`RetryPolicy`** Error classes and what they cost, one bump, the ladder, the
clamp at the budget, the stop conditions; all pure. The ladder is a recursive
*function*, so that it can be reasoned about in proofs.

**`MintFire`** `fire()` as three processes (sender, watcher, caller) with the
nodes, the mempool and the chain around them. Requests and answers get lost
separately: a failed broadcast may or may not be on the `wire`, and a blob may
be delivered long after its call failed. Another program's transaction
(`Foreign`) may take the nonce.

**`FeeLadder`** What the same loop signs: quote, rung, clamp, stop. It leaves the
clock and the errors to `MintFire`, which leaves the fees to it.

**`ProviderPool`** `withFailover()` with several calls under way, and the
keep-alive. A call remembers the endpoint it asked (`entry`); `rotate()` and
`markHealthy()` act on `idx`. Failures are counted up to two, the only number
the code looks at.

**`Resolution`** `resolveTarget()`: the kept results (`cache`), the resolutions
under way (`reading`) and who waits for which (`waiting`, `answer`). A caller's
answer is a value of its own, because the code hands out clones. Whatever the
contract publishes may be read or not, look-up by look-up (`Stages` of
`MintStage`), and the result is kept either way.

**`Wizard`** The conversation that makes a target, over `Resolution`. `wizards` is
the map; a handler sleeps in its first reply (`greeting`), the resolution
(`resolving`), the look-up of `/manualtarget` (`reading`) or its last reply
(`replying`). Object identity is what matters: `owns[h]` says whether the wizard
handler `h` found is still the one in the map. `LinkResolved` writes to that
object whatever step it has reached; `LinkUnresolved` and `ReplyFails` delete the
user's *current* wizard, as `wizards.delete(uid(ctx))` does. `asked` and `by`
record where a link and a price came from; the code does not keep them.

**`MintStage`** `readPublicMintStage()` as a function from what a contract
publishes and the set of look-ups that come through to a stage: four readers in
the order of the code, what each makes of an empty struct, of a struct of another
layout, of zero, of "never". It has no state; `Resolution` and `Prebuild` use it.

**`Marketplace`** From a link to a contract on a network: `toConfigKey()` and
`pickContract()` of `chainMap.js`, and what each of the three resolvers takes from
the link and what from the market's answer. No state either. A market answers the
request, not the link: `Body` is another collection where the request names no
chain (`LosesChain`).

**`Prebuild`** One target from its link to its transaction: the market is asked up to
three times (`resolving`), the stage is read, the user asked for a price there is none of, the pool warmed, the ABI looked up, and
the candidates probed one after the other (`calling`, `estimating`), at one
endpoint and then, when all look-ups were lost, at the next. Between any two steps
the contract may open (`Open`) and the wallet be spent from (`Spend`). `unheard`
remembers which candidates were passed over without the open contract's own word.

**`Withdraw`** One user's `/withdraw` commands: `pending` and `timers` are the map
and the `setTimeout()`s, which name a command and not the entry they were made
for; a handler reads, signs and sends (`reading`, `sending`, `accepted`). The two
chains differ where the code does: on the EVM the bytes are signed once and go from
endpoint to endpoint, on Solana "sign, send, confirm" as a whole does. A node that
has not heard of a transaction gives its nonce again (`PendingNonces`); a Solana
transaction dies with its block hash (`NewBlockhash`); a request may arrive and its
answer not. `granted` and `by` remember which confirmation a transfer is for.

**`Confirmation`** What `/withdraw` promises, without handlers, network and timers:
an execution for each command given twice in time and with no other between, and
at most one movement of money for each execution. `Withdraw` maps its state to it
(`Left`, `Promise`): the time left is that of the youngest timer, and the movements
those on the EVM chain.

**`MCScheduler`**, **`MCMintFire`**, **`MCProviderPool`**, **`MCWizard`**, **`MCWithdraw`**, **`MCPrebuild`** hold the constants and
symmetry sets a `.cfg` cannot write. **`SchedulerProofs`**, **`MintFireProofs`**,
**`FeeLadderProofs`**, **`WithdrawProofs`**, **`WizardProofs`**,
**`ProviderPoolProofs`** and **`PrebuildProofs`** hold the theorems,
**`MintStageProofs`** the lemmas on `MintStage` that `WizardProofs` and `PrebuildProofs` share. Operators marked
"Mutant" are wrong versions of the definition that follows: each property is
known to fail when its mutant takes the place of the original.

## 3. Runs

Every run ends in seconds to a minute with two workers, `Wizard` (1.6 million
states) and `Withdraw` (1.4 million) in two.

| Run | Question | Answer |
|---|---|---|
| `SchedulerRearm` | Owners at will, one crash or stop: is the map sound, is no row a zombie, is every target settled in the end? | yes |
| `SchedulerPatient` | Patient owners, up to two restarts: do only armed targets fire, is a row set to cancelled only while nothing of its run is out, are settled targets left alone, is `TargetLifecycle` implemented? | yes |
| `SchedulerDisarm` | The first of these with owners who wait only for each answer | no (finding 1) |
| `SchedulerMissed` | "Not fired" in a missed-window message is true | no (finding 2) |
| `MintFire` | Lossy nodes, foreign transactions: verdicts with their ground on the chain, bounded attempts, no send after a failure, both loops end? | yes |
| `MintGrace` | The grace window catches what landed | no (finding 3) |
| `FeeLadder` | Ceiling, valid signatures, justified refusals, bids that climb | yes |
| `ProviderPool` | Three endpoints, one of them failing, two loops: does the sender always get through, is no good endpoint marked? | yes |
| `Wizard` | Two users, two sleeping handlers, shared resolutions, failed replies: is what is saved complete, within the cap, at the owner's own price and about the owner's link? | yes |
| `Withdraw` | Changing, lapsing and repeated commands for both chains, two handlers, lost answers, restarts: is only what was confirmed in time executed (`Confirmation`), does one EVM withdrawal pay once, how far can the rate limit be passed? | yes; by no more than the handlers at work |
| `WithdrawSolana` | One confirmed Solana withdrawal pays once | no (finding 4) |
| `Prebuild` | Links of three markets, five contracts on two networks, lost look-ups, an opening and a spending at any time: does the link lead to its contract, in whatever order the market lists, is only what the contract takes built, is no candidate passed over without cause, is what is read the contract's own, does it end? | yes |

### What they found

1. **A run that no `/disarm` can find.** Arm, disarm, arm within one sleep of the
   first run: that run wakes up cancelled and its `_cleanup(targetId)` removes
   the *second* run's entry (`scheduler.js:319`). The next `/disarm` finds
   nothing to cancel, sets the row to cancelled, answers "disarmed", and the
   second run fires at T=0.
2. **"Not fired."** A crash while firing leaves the row in status firing. After
   a minute of downtime `resumeAll()` reports it as missed and not fired
   (`scheduler.js:57-67`), though a transaction may be out.
3. **A grace window that is closed at once.** `settled` is assigned just before
   the window and is what the watcher loops on (`executor.js:325`), so unless a
   look-up is under way it ends without another look.
4. **A Solana withdrawal that pays twice.** Its landing is awaited inside
   `withFailover()` (`solana/executor.js:182-198`), for which any error means "ask
   the next endpoint": when the news comes too late, that endpoint is given a second
   transfer, signed with a newer block hash, while the first still lands.

### Known limits

Seen while modelling, and in the models, but not the subject of a run:

* A mint that landed may be reported as failed, and as another's doing. `fire()`
  watches only hashes a node answered with (`seenHashes`). When the answer to its
  first broadcast is lost and the blob lands, the next attempt is told that the nonce
  is used, and with no hash known `fire()` reports "nonce already used by another tx"
  (`executor.js:430`) without a look at its own transaction, although the comment above
  that line counts "our earlier broadcast landed" among the causes and the one at
  line 455 calls a false "failed" the worst possible outcome. In `MintFire`:
  `Rejected("rpc")`, `Deliver`, `Include`, `Rejected("nonce")`. `VerdictIsGrounded` asks
  of that report only that the nonce is used, so that no mint can follow it. A lost
  answer may as well end in any other failure, by the same omission.
* `shutdown()` destroys the pool of a run it does not cancel; if the process lives
  long enough for the RPC error to come back, a target in pre-build becomes failed
  and is not resumed (`scheduler.js:324`).
* A budget of less than one wei per gas divides to 0, for which `computeFees()`
  skips the clamp (`retryPolicy.js:146`): `BudgetCeilingAboveGas` has it as its
  condition.
* With two endpoints the two loops of `fire()` can turn a pool past the one that
  works: both failed on endpoint 0; the second `rotate()` blames and leaves
  endpoint 1 and goes back to 0 (`executor.js:112`). The same with three endpoints and
  three calls. `ProviderPool` runs with two calls on three.
* A contract that rejects calls before its opening rejects the probe made thirty
  seconds earlier, and the target is given up for good; `retryable` of
  `MintProbeError` is read by nobody (`erc721Mint.js:319`). `VerdictIsDeserved` says
  "or came while the contract was closed" for that reason.
* A `publicDrop()` of seven fields whose first look-up is lost is decoded as one of
  six, its last price taken for the opening time (`mintStage.js:263`): the exception
  in `StageIsOwn`. With the price of its opening stage it is still of "high" confidence.
* A Rarible link with an address and no chain is looked up on Ethereum
  (`raribleResolver.js:177`), against what the comment of its `parseUrl()` says; Magic
  Eden and Rarible are asked for a collection's name without the chain the link
  names, and the answer is not compared with it. `LeadsToLinked` excepts these links.
* Of two contracts of one OpenSea collection on the default network the first listed
  is taken (`chainMap.js:200`): the exception in `OrderDecidesNothing`.
* Rarible's HTTP 429 is retried like the others' (`raribleResolver.js:116`), though its
  comment says transport errors and 5xx only.
* A function that takes no quantity is sent once, with the value of all units.
* A Solana transfer that lands with an error is reported as sent.
* `preWarm()` compares the configured chain id with itself: the providers are made
  with `staticNetwork`, so `getNetwork()` asks nobody.

### Bounds, and why they are enough

* *Scheduler.* One target: two targets share nothing but the order in which
  `resumeAll()` visits them, and `IsNext` keeps that order for any number. Three
  or four runs, two or three arms, one or two restarts: finding 1 needs two runs
  and two arms, a restart needs one run more. A clean-up can only hit the entry
  that is registered, so a third run adds a bystander and a fourth repeats it.
  `MaxArms` and `MaxRestarts` are guards of `ArmCheck` and of whatever ends the
  process; `Runs` bounds what `StartRun` can take. `SchedulerRearm`
  has a run for every arm and every resumption, so none is ever wanting for
  `Settles`; in `SchedulerPatient` (five could be asked for, four exist) the last
  arm or resumption of the longest histories does not happen. The four phases of the clock lose nothing: the code only compares.
* *MintFire.* Two blobs (the fee did or did not change), two counted attempts,
  a time-out of two ticks. Free attempts are unbounded, as in the code.
* *FeeLadder.* 15 quotes, 3 gas limits, 6 budgets: below one wei per gas, at the
  base fee, between rungs, above the ladder. Five rungs; tips of 0 and 1, which
  rounding keeps from climbing, to 100.
* *ProviderPool.* Failures saturate at two. Two callers are the two loops of
  `fire()`, with the `attempts` they pass (2 and 1); three endpoints are what
  `config/default.json` lists for Base and Polygon. With four, as for Ethereum,
  and the three concurrent calls of `buildTemplate()`, the properties hold too;
  with three endpoints and three calls they do not. `ProviderPoolProofs` shows that this is
  the general rule: fewer calls than endpoints.

* *Wizard.* Two handlers are needed for two links in one wizard, two users for a
  shared resolution. One contract publishes its price and the other its opening
  time, so every question is asked, and each may go unread. The price users type
  is 1, the published one 2, the cap 2 and quantities 1 and 2: a quantity that
  passes at the first price fails at the second.

* *Withdraw.* Two handlers, which are interchangeable (symmetry), for one stale
  nonce and one passed rate limit; three confirmations, since with a limit of one
  two handlers pass it by one and only a third could pass it by more; one command
  for each chain, on Solana for all the funds; two
  attempts for each call, so that each chain's failover happens; funds of 3 with a
  reserve of 1; a limit of one withdrawal an hour. One tick of TTL separates a
  timer that is due from one that is not, and lets two timers of one command
  run. Blobs live for one block hash in `Withdraw`, two in `WithdrawSolana`, where
  the second signature must find the first still valid. `MaxConfirms` bounds
  `Confirm`, `MaxBlockhash` `NewBlockhash`; asking, lapsing and restarts are unbounded.
* *Prebuild.* Links that name chain and address, one of them or neither; pages that
  list nothing, an entry without an address, several chains with and without the
  default one, chains the deployment does not have or cannot mint on, and two
  contracts on the default network; one address taken on both networks. Contracts that publish on SeaDrop, on the token with a falling price,
  by getters only, by a claim condition in native coin and in a token; that take
  the exact value or more; with functions of the generic list, of the ABI, of one
  unit, or a fallback that takes everything; open from the start or not. Quantities
  1 and 2, two endpoints' worth of attempts. Time in `MintStage` is scaled (ten
  milliseconds to the second, the last plausible time 410): its code tells three
  magnitudes apart, and so does the scale.

`CHECK_DEADLOCK` is never switched off: where a model may stop it says so with
a step of its own (`Done`, `Stopped`).

### Fairness

Only what the event loop, a time-out or systemd guarantees. `Scheduler`: every
run's next step (timers fire, `rpcTimeoutMs` ends every request, messages settle),
`Resume*`, `Exit`, `Boot` (`Restart=always`), `Launch` and the clock, weakly.
Users, crashes, signals, a broadcast and the chain owe nothing. `MintFire`: each
loop's next step, the grace timer and the clock; no delivery, answer or inclusion.
`Prebuild`: the next step of the preparation, since a time-out ends every request;
the contract and the wallet owe nothing.
`MintGrace`, the violations of action properties and the invariants need none.

## 4. Proofs

All for every value of the constants, from the assumptions stated next to them.

* **`SchedulerProofs`.** `TypeCorrect` carries `Owned` (a started run has a target)
  along. `EntriesAreSound`: `EntrySound` is inductive once `Fresh` is added (no
  unborn run is cancelled): every path that ends a run or cancels it also takes
  the entry of its target away, and at worst takes one too many.
  `ArmedTargetsAreScheduled` goes one target at a time (`Witnessed`): a step either
  keeps the witness in place, or replaces it, or moves the row along with it. Its
  only use of the active map is `EntrySound`: what `arm()` cancels is registered
  and of that target, so the new run is witness in its place.

  `PatientFiresOnlyArmed`, `PatientCancelledBeforeSent`, `PatientSettledIsFinal` and `PatientLifecycle` have
  `Users = "patient"` as their hypothesis; finding 1 shows that they need one. Their
  invariant is `Orders`: a handler about to arm, a row that waits for `resumeAll()` and
  a run that has not returned exclude each other, and there is at most one of each
  (`Orderly`); where that run stands says what the row holds (`RowFollows`), and
  `/disarm` finds it, or it is cancelled already (`Found`). A row that can be set to
  cancelled is thus that of a run yet to fire, which has sent nothing
  (`SentWhileFiring`). The refinement then maps each action to one of
  `TargetLifecycle` or to a stutter.
* **`MintFireProofs`.** The invariant is `Watched` (the watcher looks for nothing but
  hashes the sender was given) and `IInv`: `Truth` (the verdict's ground also
  before the caller returns, and of the last error), `Over` (a failure the sender
  did not report is a time-out or an inclusion, both of which stop the sender) and
  `Counted` (an attempt under way has room in the budget). `VerdictsAreGrounded`,
  `AttemptsAreBounded` and `FailureIsSilent` follow. `VerdictsAreGrounded` says of a
  used nonce that it is used, not by whom (see "Known limits").
* **`FeeLadderProofs`.** The ladder is a recursive function, and the library's
  induction theorem takes an operator no installed prover can instantiate. The
  first part proves what is needed by the least counterexample (`LeastNatural`, from
  well-foundedness of `<` on the naturals): that the function exists, satisfies its
  equation, is natural-valued, climbs, is monotone, and that a bump of at least
  15 % of at least 40 wei is a replacement (12.5 %) despite rounding. `LoopInv` is the
  conjunction of the invariants the run
  checks; its step rests on five lemmas about `Clamp`. The two properties about
  consecutive signatures need `SignedFromQuote`: the last signature is the clamp of
  a rung no higher than the next. `BumpsAreReplacements` assumes
  `BumpPercent >= 15`, the configured value.
* **`ProviderPoolProofs`.** `OutageIsSurvived` and `BlameIsJust` say what the run
  shows, for any number of endpoints and calls, under `OneOutage`: if the endpoint the
  pool starts with is one that breaks, then it alone breaks and there are fewer calls at a time than
  endpoints. The invariant is `Ahead`: the pool leaves the first endpoint only because
  it broke; each call whose request is still out there can push it one further, so the
  index and the number of such calls together stay within the number of calls; and no
  endpoint from the current one on has failures. With as many calls as endpoints
  (two, three) TLC finds both violated (see "Known limits").
  `LoneCallGetsThrough` is about one call at a time with as many attempts as endpoints (`LoneCaller`;
  the calls of `preWarm()` and the probing have twice that): however many endpoints break,
  it gets through if one does not. Nobody turns the pool under it, so the steps to each
  endpoint that works stay below the attempts left (`Reaching`).
* **`MintStageProofs`.** `StageTold`: whatever look-ups are lost, the stage tells a
  price that was published and a time that was, in seconds or milliseconds, or it is a
  struct of seven fields decoded as six.
* **`WizardProofs`.** `WizardSound` says, step by step of the conversation, what is
  known by then, and that the quantity was checked against the price that is there *now*:
  an answer that replaces the price takes the conversation back before the
  quantity. `Held` says that a handler that still holds its user's wizard sleeps over a
  link that was given to it, `Resolving` that what is kept or on its way was
  read from the contract behind its link. `SavedTargetsAreComplete`, `SavedTargetsAreWithinCap`,
  `PricesAreOwn` and `WizardsAskAboutOwnLinks` are read off; the cap and the price need the
  other parts at every replacement.
* **`PrebuildProofs`.** Three arguments. *What is told*: `Covers`, reader by reader,
  gives `TrustIsWarranted`, from the assumption that a contract's places for a price
  hold at least what the opening costs, or zeros (`Honest`); `StagesAreOwn` is
  `StageTold`. *Where the link leads*: `ResolvedIsListed`, market by market, gives
  `LinksLeadHome`; `PickIsStable` gives `PagesMayBeReordered` for pages of any length,
  since an injection of the positions of a page is onto. *What is probed*:
  `CandidatesKept` (the filtered list keeps every generic function, by counting the
  positions that stay) and the invariants `Prepared` (the list is made once, from the
  contract's ABI, and the price is fixed by then) and `Probed` (what is passed over and
  would be taken is unheard of; what is checked was taken by the open contract) give
  `TemplatesAreAccepted` and `VerdictsAreDeserved`. Assumed of contracts: numbers are
  naturals, and a function of a generic name is the generic one (`ContractsAssumption`);
  of links: one that names an address and a chain is to an entry of its page (`LinksAssumption`).
* **`WithdrawProofs`.** `TypeCorrect` needs `Shape`: what a handler carries is for its
  confirmation. `RateHolds`: a handler at work holds the place of the record it will
  make (`Rated`). `PaysOnceAlways` from `Paid`: handlers work for different
  confirmations (`OwnWork`), a confirmation just given has nothing on the chains
  (`Accounted`), and what the chain has of one that is at work is what its handler
  carries (`Carried`), so that failover cannot add a second (`Unique`). This last
  step is the one that fails on Solana. `Implements` adds `Timed`, a command that
  waits has a timer; the time left is the largest of a set of naturals, whose
  existence is again a least counterexample.

Every invariant and action property that a passing run checks is proved, `FiresOnlyArmed`,
`CancelledBeforeSent`, `SettledIsFinal` and `ImplementsLifecycle` for patient owners, the two of
`ProviderPool` under `OneOutage`, `LadderClimbs` for bumps of 15 % and more. Only model-checked: liveness (`Settles`,
`EndsQuiet`, `Ends`), which is out of the prover's reach.

## 5. What the models leave out

* The configuration does not change between restarts, so `arm()` accepts on
  resumption what it accepted before.
* SQLite calls do not throw.
* Handlers of several updates run concurrently, as Telegraf runs those of one
  batch; a command is otherwise answered in the order it came.
* `classifyError()` (text matching) and `nextDelayMs()` (length of a pause): an
  error has its class, a pause ends.
* The nonce exists inside `MintFire` and `Withdraw` only: two targets of one wallet that pre-build
  with the same nonce appear there as `Foreign`.
* `ProviderPool` after `destroy()`: all its calls fail, see `Scheduler`.
* In `Wizard`, what refuses a message (wallet, rate limit, limit of armed targets,
  text that does not parse): such a message changes nothing. Published prices do
  not change while a result is kept.
* `Withdraw`: the fees themselves (a transfer leaves its reserve untouched); mints
  that use the wallet's nonces meanwhile; the wording of errors, of which only
  "transport or not" is kept. A handler looks at the rate and at the waiting
  command in one step, as between the two there is no I/O.
* `Prebuild`: fees, nonce and the gas limit; gas is assumed to be small change
  against the value. A new key imported between arming and building.
* `MintStage`: closing times, fee shares, caps per wallet but for their part in
  telling an empty struct.
* The patterns of URLs and the fields of the markets' answers. Wallets and key management: no
  state machine but a table and a cryptographic library.

## 6. Plan

1. The limit of armed targets and one mint across restarts: what a user's commands
   can add up to, over `Scheduler` and `Wizard`.
2. Proofs: for `Resolution` alone, that callers who share a resolution get the same
   answer; for `ProviderPool`, several outages under several calls.
