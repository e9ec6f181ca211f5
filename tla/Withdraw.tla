------------------------------ MODULE Withdraw ------------------------------
(***************************************************************************)
(* The /withdraw handler of src/bot.js for one user, the two sendNative()  *)
(* it calls, and the chains they send to.                                  *)
(*                                                                         *)
(* A command is executed when it is given a second time within             *)
(* WITHDRAW_CONFIRM_TTL_MS.  On an EVM chain the transfer is signed once   *)
(* and the signed bytes go from endpoint to endpoint; on Solana the whole  *)
(* of "sign, send, confirm" does, with the block hash of the hour.         *)
(*                                                                         *)
(* Amounts are in units coarser than a fee: a fee is only what the reserve *)
(* holds back.  `granted` is a ghost, and so is the field `by` of a        *)
(* transaction: the code keeps neither.                                    *)
(***************************************************************************)
EXTENDS Naturals, Sequences, FiniteSets

CONSTANTS Handlers,         \* updates that can be handled at the same time
          Commands,         \* the /withdraw commands the user sends
          Net,              \* command -> "evm" | "solana"
          Amount,           \* command -> amount, 0 for "all"
          Funds,            \* what the wallet holds on each chain
          Reserve,          \* held back for fees and rent
          Attempts,         \* chain -> endpoints withFailover() asks
          Window,           \* for how many block hashes a Solana blob is valid
          TTL,              \* WITHDRAW_CONFIRM_TTL_MS in ticks
          WithdrawPerHour,  \* limits.withdrawPerHour
          MaxConfirms, MaxBlockhash,  \* bounds
          None

Nets == {"evm", "solana"}

ASSUME WithdrawAssumption ==
  /\ IsFiniteSet(Handlers)
  /\ None \notin Commands
  /\ Net \in [Commands -> Nets]
  /\ Amount \in [Commands -> Nat]
  /\ Attempts \in [Nets -> Nat \ {0}]
  /\ {Funds, Reserve, Window, TTL, MaxConfirms, MaxBlockhash} \subseteq Nat
  /\ WithdrawPerHour \in Nat \ {0}

VARIABLES
  pending,    \* pendingWithdrawals.get(user)                      (memory)
  timers,     \* the setTimeout()s of its entries                  (memory)
  run,        \* what each handler is doing                        (memory)
  used,       \* rate_events of the last hour                      (disk)
  granted,    \* the commands confirmed so far                     (ghost)
  nonce,      \* transactions of the wallet in the EVM chain       (chain)
  blockhash,  \* the latest finalized Solana block                 (chain)
  balance,    \* chain -> funds of the wallet                      (chain)
  sent,       \* transactions that reached an endpoint             (chain)
  mined,      \* those that moved money                            (chain)
  reverted    \* Solana: those that landed with an error           (chain)

memory == <<pending, timers, run>>
chain == <<nonce, blockhash, balance, sent, mined, reverted>>
vars == <<memory, used, granted, chain>>

\* `slot`: the nonce or the block hash the transaction is signed with.
Txs == [by : 1..MaxConfirms, to : Commands, slot : Nat, value : Nat]
Timers == [of : Commands, left : 0..TTL]

ASSUME NoneAssumption == None \notin Txs

\* `by`: the confirmation at work.  `slot`, `funds`: what the reads gave.
Runs == [at : {"idle", "reading", "sending", "accepted"},
         by : 0..MaxConfirms, slot : Nat \cup {None}, funds : Nat \cup {None},
         tries : UNION {0..Attempts[n] : n \in Nets}, tx : Txs \cup {None}]

Idle == [at |-> "idle", by |-> 0, slot |-> None, funds |-> None, tries |-> 0, tx |-> None]

Chain(tx) == Net[tx.to]
Job(h) == granted[run[h].by]
Home(h) == Net[Job(h)]
At(h, place) == run[h].at = place
Busy(h) == ~At(h, "idle")

\* Type invariant of the handlers, the chains and the database.
TypeOK ==
  /\ pending \in Commands \cup {None}
  /\ timers \subseteq Timers
  /\ run \in [Handlers -> Runs]
  /\ used \in Nat
  /\ granted \in Seq(Commands) /\ Len(granted) <= MaxConfirms
  /\ nonce \in Nat /\ blockhash \in Nat
  /\ balance \in [Nets -> Nat]
  /\ sent \subseteq Txs /\ mined \subseteq Txs /\ reverted \subseteq Txs

Init ==
  /\ pending = None
  /\ timers = {}
  /\ run = [h \in Handlers |-> Idle]
  /\ used = 0
  /\ granted = <<>>
  /\ nonce = 0
  /\ blockhash = 1
  /\ balance = [n \in Nets |-> Funds]
  /\ sent = {} /\ mined = {} /\ reverted = {}

-----------------------------------------------------------------------------
\* The command and its confirmation.

\* Mutant: /withdraw does not ask for the rate.
AllowedAlways == used >= 0

\* checkRate(): the limit is compared now, and recorded long after.
Allowed == used < WithdrawPerHour

\* Mutant: the command is executed, and its confirmation kept.
ConfirmKeeps(h, c) ==
  /\ Allowed /\ pending = c /\ ~Busy(h) /\ Len(granted) < MaxConfirms
  /\ granted' = Append(granted, c)
  /\ run' = [run EXCEPT ![h] = [Idle EXCEPT !.at = "reading", !.by = Len(granted) + 1]]
  /\ UNCHANGED <<pending, timers, used, chain>>

\* The command again: it is executed.  Up to the reads of sendNative() the
\* handler awaits a reply and the key, and looks at nothing.
Confirm(h, c) ==
  /\ Allowed /\ pending = c /\ ~Busy(h) /\ Len(granted) < MaxConfirms
  /\ pending' = None
  /\ granted' = Append(granted, c)
  /\ run' = [run EXCEPT ![h] = [Idle EXCEPT !.at = "reading", !.by = Len(granted) + 1]]
  /\ UNCHANGED <<timers, used, chain>>

\* Any other command: it is asked to be repeated, and forgotten in a while.
Ask(c) ==
  /\ Allowed /\ pending # c
  /\ pending' = c
  /\ timers' = timers \cup {[of |-> c, left |-> TTL]}
  /\ UNCHANGED <<run, used, granted, chain>>

\* A timer looks for its command, not for the entry it was made for.
Expire(c) ==
  /\ [of |-> c, left |-> 0] \in timers
  /\ timers' = timers \ {[of |-> c, left |-> 0]}
  /\ pending' = IF pending = c THEN None ELSE pending
  /\ UNCHANGED <<run, used, granted, chain>>

Tick ==
  /\ timers # {} /\ \A t \in timers : t.left > 0
  /\ timers' = {[t EXCEPT !.left = @ - 1] : t \in timers}
  /\ UNCHANGED <<pending, run, used, granted, chain>>

\* A recorded withdrawal is an hour old.
Forget ==
  /\ used > 0
  /\ used' = used - 1
  /\ UNCHANGED <<memory, granted, chain>>

\* The process dies and comes up again.
Restart ==
  /\ pending' = None
  /\ timers' = {}
  /\ run' = [h \in Handlers |-> Idle]
  /\ UNCHANGED <<used, granted, chain>>

-----------------------------------------------------------------------------
\* The transfer, up to the first signature.

Set(h, r) == run' = [run EXCEPT ![h] = r]
Goto(h, place) == Set(h, [run[h] EXCEPT !.at = place])

\* Every error ends in replyError(), with the pool destroyed and no record made.
Abandon(h) ==
  /\ Set(h, Idle)
  /\ UNCHANGED <<pending, timers, used, granted, chain>>

\* What the wallet's transactions known to some endpoint leave as next nonce.
PendingNonces ==
  {n \in nonce..(nonce + Cardinality(sent)) :
     \A i \in nonce..(n - 1) : \E tx \in sent : Chain(tx) = "evm" /\ tx.slot = i}

\* getTransactionCount(from, 'pending'), on EVM chains only.
ReadNonce(h) ==
  /\ At(h, "reading") /\ Home(h) = "evm" /\ run[h].slot = None
  /\ \E n \in PendingNonces : Set(h, [run[h] EXCEPT !.slot = n])
  /\ UNCHANGED <<pending, timers, used, granted, chain>>

\* getBalance(from).
ReadFunds(h) ==
  /\ At(h, "reading") /\ run[h].funds = None
  /\ Set(h, [run[h] EXCEPT !.funds = balance[Home(h)]])
  /\ UNCHANGED <<pending, timers, used, granted, chain>>

\* The network is unusable, the address or the amount invalid, a reply or the
\* key refused, or one of the reads runs out of endpoints.
Refuse(h) == At(h, "reading") /\ Abandon(h)

\* The amount asked for, or all but the reserve.
Value(h) ==
  LET funds == run[h].funds
  IN IF Amount[Job(h)] > 0 THEN Amount[Job(h)]
     ELSE IF funds > Reserve THEN funds - Reserve ELSE 0

Covered(h) == Value(h) > 0 /\ Value(h) + Reserve <= run[h].funds

HasRead(h) ==
  /\ At(h, "reading") /\ run[h].funds # None
  /\ Home(h) = "evm" => run[h].slot # None

NotCovered(h) == HasRead(h) /\ ~Covered(h) /\ Abandon(h)

-----------------------------------------------------------------------------
\* The transfer, endpoint by endpoint.

Signed(h) ==
  [by |-> run[h].by, to |-> Job(h),
   slot |-> IF Home(h) = "evm" THEN run[h].slot ELSE blockhash,
   value |-> IF run[h].tx = None THEN Value(h) ELSE run[h].tx.value]

\* The request goes to the next endpoint with this transaction.
Request(h, tx) ==
  /\ Set(h, [run[h] EXCEPT !.at = "sending", !.slot = None, !.funds = None,
                           !.tries = @ + 1, !.tx = tx])
  /\ UNCHANGED <<pending, timers, used, granted, chain>>

FirstTry(h) == HasRead(h) /\ Covered(h) /\ Request(h, Signed(h))

\* A call is under way; it fails when the request or its answer is lost, on
\* Solana whatever goes wrong: the confirmation, too, is part of the call.
CallFails(h) == At(h, "sending") \/ At(h, "accepted")

\* Mutant: the EVM transfer too is signed inside withFailover().
NextTrySignsAnew(h) ==
  /\ CallFails(h) /\ run[h].tries < Attempts[Home(h)]
  /\ \E n \in PendingNonces :
       Request(h, [run[h].tx EXCEPT !.slot = IF Home(h) = "evm" THEN n ELSE blockhash])

\* Mutant: one attempt too many.
NextTryOnceMore(h) ==
  /\ CallFails(h) /\ run[h].tries <= Attempts[Home(h)]
  /\ Request(h, IF Home(h) = "evm" THEN run[h].tx ELSE Signed(h))

\* withFailover() turns to the next endpoint.
NextTry(h) ==
  /\ CallFails(h) /\ run[h].tries < Attempts[Home(h)]
  /\ Request(h, IF Home(h) = "evm" THEN run[h].tx ELSE Signed(h))

GiveUp(h) ==
  /\ CallFails(h) /\ run[h].tries >= Attempts[Home(h)]
  /\ Abandon(h)

\* The same bytes: a chain takes them once.
Same(t, u) == t.to = u.to /\ t.slot = u.slot /\ t.value = u.value

Landed(tx) == \E t \in mined \cup reverted : Same(t, tx)

\* An endpoint takes the transaction.
Accepted(h) ==
  /\ At(h, "sending")
  /\ LET tx == run[h].tx
     IN /\ IF Chain(tx) = "evm" THEN tx.slot >= nonce
           ELSE /\ blockhash < tx.slot + Window /\ ~Landed(tx)
                /\ tx.value <= balance["solana"]
        /\ sent' = sent \cup {tx}
  /\ Goto(h, "accepted")
  /\ UNCHANGED <<pending, timers, used, granted, nonce, blockhash, balance, mined, reverted>>

\* An EVM endpoint refuses it (nonce, funds, already known): no other is asked.
Rejected(h) == At(h, "sending") /\ Home(h) = "evm" /\ Abandon(h)

\* The answer, on Solana the confirmation, successful or not; the withdrawal
\* is recorded and reported.
Succeed(h) ==
  /\ At(h, "accepted")
  /\ Home(h) = "solana" => Landed(run[h].tx)
  /\ Set(h, Idle)
  /\ used' = used + 1
  /\ UNCHANGED <<pending, timers, granted, chain>>

-----------------------------------------------------------------------------
\* The chains.

MineEvm(tx) ==
  /\ tx \in sent /\ Chain(tx) = "evm" /\ tx.slot = nonce /\ tx.value <= balance["evm"]
  /\ nonce' = nonce + 1
  /\ balance' = [balance EXCEPT !["evm"] = @ - tx.value]
  /\ mined' = mined \cup {tx}
  /\ sent' = {t \in sent : Chain(t) = "evm" => t.slot > nonce}
  /\ UNCHANGED <<memory, used, granted, blockhash, reverted>>

\* Without the funds the transaction lands with an error.
MineSolana(tx) ==
  /\ tx \in sent /\ Chain(tx) = "solana" /\ ~Landed(tx)
  /\ IF tx.value <= balance["solana"]
     THEN /\ balance' = [balance EXCEPT !["solana"] = @ - tx.value]
          /\ mined' = mined \cup {tx} /\ UNCHANGED reverted
     ELSE reverted' = reverted \cup {tx} /\ UNCHANGED <<balance, mined>>
  /\ sent' = sent \ {tx}
  /\ UNCHANGED <<memory, used, granted, nonce, blockhash>>

\* A new block hash; the oldest blobs are no longer valid.
NewBlockhash ==
  /\ blockhash < MaxBlockhash
  /\ blockhash' = blockhash + 1
  /\ sent' = {t \in sent : Chain(t) = "solana" => blockhash + 1 < t.slot + Window}
  /\ UNCHANGED <<memory, used, granted, nonce, balance, mined, reverted>>

-----------------------------------------------------------------------------
Handle(h) ==
  \/ ReadNonce(h) \/ ReadFunds(h) \/ Refuse(h) \/ NotCovered(h)
  \/ FirstTry(h) \/ Accepted(h) \/ NextTry(h) \/ GiveUp(h)
  \/ Rejected(h) \/ Succeed(h)

User == \E c \in Commands : Ask(c) \/ \E h \in Handlers : Confirm(h, c)

Clock == Tick \/ \E c \in Commands : Expire(c)

Chains == NewBlockhash \/ \E tx \in sent : MineEvm(tx) \/ MineSolana(tx)

Next ==
  \/ User
  \/ \E h \in Handlers : Handle(h)
  \/ Clock \/ Forget \/ Restart
  \/ Chains

Spec == Init /\ [][Next]_vars

-----------------------------------------------------------------------------
\* A command that waits has the time of the youngest of its timers.
LeftOf(c, ts) ==
  IF c = None THEN 0
  ELSE CHOOSE l \in 0..TTL : /\ [of |-> c, left |-> l] \in ts
                             /\ \A t \in ts : t.of = c => t.left <= l

Left == LeftOf(pending, timers)

OnEvm(txs) == {tx \in txs : Chain(tx) = "evm"}

Promise == INSTANCE Confirmation
  WITH asked <- pending, left <- Left, moved <- {tx.by : tx \in OnEvm(mined)}

\* Refinement: nothing is executed but what was asked for and asked for again
\* in time, with no other command between, whatever timers of earlier commands
\* are still running; and what is executed on an EVM chain pays once, whatever
\* answers are lost (the handler, sendNative() and withFailover() together).
ImplementsConfirmation == Promise!Spec

\* One confirmation, at most one transfer on the chain.
OnceEach(txs) == \A t, u \in txs : t.by = u.by => Same(t, u)

\* Safety: sendNative() of the EVM executor signs outside withFailover(), so no
\* loss of a request or an answer makes one confirmation pay twice, and no two
\* handlers, which may have read the same nonce, spend it twice.
PaysOnce ==
  /\ OnceEach(OnEvm(mined))
  /\ \A t, u \in OnEvm(mined) : t.slot = u.slot => t = u

\* Safety: the limit is checked before the awaits of a withdrawal and recorded
\* after them, so it can be passed, but by no more than the handlers that were
\* at work together.
RateBounded == used < WithdrawPerHour + Cardinality(Handlers)

\* Safety, of both chains: one confirmation, one transfer.  Violated on Solana,
\* where the landing of a transfer is awaited inside withFailover(), which signs
\* a second one when the news of the first does not come.
PaysOnceEverywhere == OnceEach(mined)
=============================================================================
