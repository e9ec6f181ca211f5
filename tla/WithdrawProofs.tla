--------------------------- MODULE WithdrawProofs ---------------------------
(***************************************************************************)
(* Safety of /withdraw for every set of commands, amounts and handlers,    *)
(* every number of endpoints, and whatever requests and answers are lost.  *)
(***************************************************************************)
EXTENDS Withdraw, FiniteSetTheorems, WellFoundedInduction, TLAPS

USE WithdrawAssumption

\* What a handler holds at each place: the confirmation it works for and, once
\* it sends, a transfer that is for this confirmation.
Shape ==
  \A h \in Handlers :
    /\ Busy(h) => run[h].by \in 1..Len(granted)
    /\ At(h, "reading") => run[h].tx = None /\ run[h].tries = 0
    /\ At(h, "sending") \/ At(h, "accepted") =>
         run[h].tx \in Txs /\ run[h].tx.by = run[h].by /\ run[h].tx.to = Job(h)

Typed == TypeOK /\ Shape

-----------------------------------------------------------------------------
(* Types                                                                     *)

LEMMA IdleTyped == Idle \in Runs /\ Idle.at = "idle"
BY DEF Idle, Runs, Nets

LEMMA InitTyped == Init => Typed
<1>. SUFFICES ASSUME Init PROVE Typed
  OBVIOUS
<1>1. granted \in Seq(Commands) /\ Len(granted) = 0
  BY DEF Init
<1>2. run \in [Handlers -> Runs] /\ \A h \in Handlers : run[h].at = "idle"
  BY IdleTyped DEF Init
<1>. QED  BY <1>1, <1>2 DEF Init, Typed, TypeOK, Shape, Busy, At

LEMMA RunTyped == Typed => \A h \in Handlers : run[h] \in Runs
BY DEF Typed, TypeOK

\* What a busy handler works for.
LEMMA JobTyped ==
  ASSUME Typed, NEW h \in Handlers, Busy(h)
  PROVE  /\ run[h] \in Runs
         /\ run[h].by \in 1..MaxConfirms
         /\ Job(h) \in Commands
         /\ Home(h) \in Nets
         /\ Attempts[Home(h)] \in Nat \ {0}
<1>1. run[h] \in Runs /\ run[h].by \in 1..Len(granted) /\ Len(granted) \in Nat
  BY DEF Typed, TypeOK, Shape
<1>2. Job(h) \in Commands
  BY <1>1 DEF Typed, TypeOK, Job
<1>. QED  BY <1>1, <1>2 DEF Typed, TypeOK, Home

\* A handler that stops leaves the rest as it was.
LEMMA StopTyped ==
  ASSUME Typed, NEW h \in Handlers, Set(h, Idle),
         UNCHANGED <<pending, timers, granted, chain>>, used' \in Nat
  PROVE  Typed'
<1>1. run' \in [Handlers -> Runs]
  BY IdleTyped DEF Typed, TypeOK, Set
<1>2. \A g \in Handlers : run'[g] = run[g] \/ run'[g].at = "idle"
  BY IdleTyped DEF Typed, TypeOK, Set
<1>3. TypeOK'
  BY <1>1 DEF Typed, TypeOK, chain
<1>4. Shape'
  BY <1>2 DEF Typed, Shape, Busy, At, Job
<1>. QED  BY <1>3, <1>4 DEF Typed

LEMMA AbandonTyped ==
  ASSUME Typed, NEW h \in Handlers, Abandon(h)
  PROVE  Typed'
BY StopTyped DEF Abandon, Typed, TypeOK

\* The transfer of a handler that asks an endpoint.
LEMMA RequestTyped ==
  ASSUME Typed, NEW h \in Handlers, Busy(h), NEW tx \in Txs,
         tx.by = run[h].by, tx.to = Job(h),
         run[h].tries \in Nat, run[h].tries < Attempts[Home(h)],
         Request(h, tx)
  PROVE  Typed'
<1>. DEFINE r == [run[h] EXCEPT !.at = "sending", !.slot = None, !.funds = None,
                               !.tries = @ + 1, !.tx = tx]
<1>1. run[h].tries + 1 \in UNION {0..Attempts[n] : n \in Nets}
  BY JobTyped
<1>2. r \in Runs
  BY <1>1, JobTyped DEF Runs
<1>3. r.at = "sending" /\ r.by = run[h].by /\ r.tx = tx
  BY JobTyped DEF Runs
<1>. HIDE DEF r
<1>4. run' = [run EXCEPT ![h] = r] /\ UNCHANGED <<pending, timers, used, granted, chain>>
  BY DEF Request, Set, r
<1>5. run' \in [Handlers -> Runs] /\ run'[h] = r /\ \A g \in Handlers \ {h} : run'[g] = run[g]
  BY <1>2, <1>4 DEF Typed, TypeOK
<1>6. TypeOK'
  BY <1>4, <1>5 DEF Typed, TypeOK, chain
<1>7. Shape'
  BY <1>3, <1>4, <1>5, JobTyped DEF Typed, Shape, Busy, At, Job
<1>. QED  BY <1>6, <1>7 DEF Typed

\* What a handler may sign.
LEMMA SignedTyped ==
  ASSUME Typed, NEW h \in Handlers, Busy(h), HasRead(h) \/ CallFails(h)
  PROVE  /\ (Home(h) = "evm" /\ CallFails(h)) \/ Signed(h) \in Txs
         /\ Signed(h).by = run[h].by /\ Signed(h).to = Job(h)
         /\ HasRead(h) => Signed(h).value = Value(h)
<1>1. Signed(h).by = run[h].by /\ Signed(h).to = Job(h)
  BY DEF Signed
<1>2. CASE HasRead(h)
  <2>1. run[h].tx = None /\ run[h].funds \in Nat /\ (Home(h) = "evm" => run[h].slot \in Nat)
    BY <1>2, JobTyped DEF HasRead, Typed, Shape, Runs
  <2>2. Value(h) \in Nat
    BY <2>1, JobTyped DEF Value
  <2>3. Signed(h).value = Value(h)
    BY <2>1 DEF Signed
  <2>4. Signed(h) \in Txs
    BY <2>1, <2>2, JobTyped DEF Signed, Txs, Typed, TypeOK
  <2>. QED  BY <1>1, <2>3, <2>4
<1>3. CASE CallFails(h) /\ ~HasRead(h)
  <2>1. run[h].tx \in Txs /\ run[h].tx # None
    BY <1>3, NoneAssumption DEF CallFails, Typed, Shape
  <2>2. Home(h) # "evm" => Signed(h) \in Txs
    BY <2>1, JobTyped DEF Signed, Txs, Typed, TypeOK
  <2>. QED  BY <1>1, <1>3, <2>2
<1>. QED  BY <1>2, <1>3

LEMMA HandleTyped ==
  ASSUME Typed, NEW h \in Handlers, Handle(h)
  PROVE  Typed'
<1>1. CASE ReadNonce(h)
  <2>1. PICK n \in PendingNonces : Set(h, [run[h] EXCEPT !.slot = n])
    BY <1>1 DEF ReadNonce
  <2>2. n \in Nat
    BY <2>1 DEF PendingNonces, Typed, TypeOK
  <2>. DEFINE r == [run[h] EXCEPT !.slot = n]
  <2>3. r \in Runs /\ r.at = run[h].at /\ r.by = run[h].by /\ r.tx = run[h].tx
        /\ r.tries = run[h].tries
    BY <2>2, RunTyped DEF Runs
  <2>. HIDE DEF r
  <2>4. run' = [run EXCEPT ![h] = r] /\ UNCHANGED <<pending, timers, used, granted, chain>>
    BY <1>1, <2>1 DEF ReadNonce, Set, r
  <2>5. run' \in [Handlers -> Runs] /\ run'[h] = r /\ \A g \in Handlers \ {h} : run'[g] = run[g]
    BY <2>3, <2>4 DEF Typed, TypeOK
  <2>6. TypeOK'
    BY <2>4, <2>5 DEF Typed, TypeOK, chain
  <2>7. Shape'
    BY <2>3, <2>4, <2>5 DEF Typed, Shape, Busy, At, Job
  <2>. QED  BY <2>6, <2>7 DEF Typed
<1>2. CASE ReadFunds(h)
  <2>. DEFINE r == [run[h] EXCEPT !.funds = balance[Home(h)]]
  <2>1. balance[Home(h)] \in Nat
    BY <1>2, JobTyped DEF ReadFunds, Busy, At, Typed, TypeOK
  <2>3. r \in Runs /\ r.at = run[h].at /\ r.by = run[h].by /\ r.tx = run[h].tx
        /\ r.tries = run[h].tries
    BY <2>1, RunTyped DEF Runs
  <2>. HIDE DEF r
  <2>4. run' = [run EXCEPT ![h] = r] /\ UNCHANGED <<pending, timers, used, granted, chain>>
    BY <1>2 DEF ReadFunds, Set, r
  <2>5. run' \in [Handlers -> Runs] /\ run'[h] = r /\ \A g \in Handlers \ {h} : run'[g] = run[g]
    BY <2>3, <2>4 DEF Typed, TypeOK
  <2>6. TypeOK'
    BY <2>4, <2>5 DEF Typed, TypeOK, chain
  <2>7. Shape'
    BY <2>3, <2>4, <2>5 DEF Typed, Shape, Busy, At, Job
  <2>. QED  BY <2>6, <2>7 DEF Typed
<1>3. CASE Refuse(h) \/ NotCovered(h) \/ GiveUp(h) \/ Rejected(h)
  BY <1>3, AbandonTyped DEF Refuse, NotCovered, GiveUp, Rejected
<1>4. CASE FirstTry(h)
  <2>1. Busy(h) /\ HasRead(h) /\ At(h, "reading") /\ ~CallFails(h)
    BY <1>4 DEF FirstTry, HasRead, Busy, At, CallFails
  <2>2. run[h].tries = 0
    BY <2>1 DEF Typed, Shape
  <2>. QED  BY <1>4, <2>1, <2>2, JobTyped, SignedTyped, RequestTyped DEF FirstTry
<1>5. CASE NextTry(h)
  <2>1. Busy(h) /\ CallFails(h)
    BY <1>5 DEF NextTry, CallFails, Busy, At
  <2>2. run[h].tries \in Nat
    BY <2>1, JobTyped DEF Runs
  <2>3. run[h].tx \in Txs /\ run[h].tx.by = run[h].by /\ run[h].tx.to = Job(h)
    BY <2>1 DEF CallFails, Typed, Shape
  <2>4. CASE Home(h) = "evm"
    BY <1>5, <2>1, <2>2, <2>3, <2>4, RequestTyped DEF NextTry
  <2>5. CASE Home(h) # "evm"
    BY <1>5, <2>1, <2>2, <2>5, SignedTyped, RequestTyped DEF NextTry
  <2>. QED  BY <2>4, <2>5
<1>6. CASE Accepted(h)
  <2>. DEFINE r == [run[h] EXCEPT !.at = "accepted"]
  <2>1. Busy(h) /\ run[h].tx \in Txs /\ run[h].tx.by = run[h].by /\ run[h].tx.to = Job(h)
    BY <1>6 DEF Accepted, Busy, At, Typed, Shape
  <2>3. r \in Runs /\ r.at = "accepted" /\ r.by = run[h].by /\ r.tx = run[h].tx
    BY <2>1, JobTyped DEF Runs
  <2>. HIDE DEF r
  <2>4. /\ run' = [run EXCEPT ![h] = r]
        /\ sent' = sent \cup {run[h].tx}
        /\ UNCHANGED <<pending, timers, used, granted, nonce, blockhash, balance, mined, reverted>>
    BY <1>6 DEF Accepted, Goto, Set, r
  <2>5. run' \in [Handlers -> Runs] /\ run'[h] = r /\ \A g \in Handlers \ {h} : run'[g] = run[g]
    BY <2>3, <2>4 DEF Typed, TypeOK
  <2>6. TypeOK'
    BY <2>1, <2>4, <2>5 DEF Typed, TypeOK
  <2>7. Shape'
    BY <2>1, <2>3, <2>4, <2>5 DEF Typed, Shape, Busy, At, Job
  <2>. QED  BY <2>6, <2>7 DEF Typed
<1>7. CASE Succeed(h)
  <2>1. used' \in Nat
    BY <1>7 DEF Succeed, Typed, TypeOK
  <2>. QED  BY <1>7, <2>1, StopTyped DEF Succeed
<1>. QED  BY <1>1, <1>2, <1>3, <1>4, <1>5, <1>6, <1>7 DEF Handle

LEMMA UserTyped == ASSUME Typed, User  PROVE Typed'
<1>1. ASSUME NEW c \in Commands, Ask(c)  PROVE Typed'
  <2>1. [of |-> c, left |-> TTL] \in Timers
    BY DEF Timers
  <2>2. TypeOK'
    BY <1>1, <2>1 DEF Ask, Typed, TypeOK, chain
  <2>3. Shape'
    BY <1>1 DEF Ask, Typed, Shape, Busy, At, Job
  <2>. QED  BY <2>2, <2>3 DEF Typed
<1>2. ASSUME NEW c \in Commands, NEW h \in Handlers, Confirm(h, c)  PROVE Typed'
  <2>. DEFINE n == Len(granted) + 1
             r == [Idle EXCEPT !.at = "reading", !.by = n]
  <2>1. n \in 1..MaxConfirms /\ Len(granted) \in Nat
    BY <1>2 DEF Confirm, Typed, TypeOK
  <2>2. granted' \in Seq(Commands) /\ Len(granted') = n
        /\ \A i \in 1..Len(granted) : granted'[i] = granted[i]
    BY <1>2, <2>1 DEF Confirm, Typed, TypeOK
  <2>3. r \in Runs /\ r.at = "reading" /\ r.by = n /\ r.tx = None /\ r.tries = 0
    <3>1. n \in 0..MaxConfirms
      BY <2>1
    <3>. HIDE DEF n
    <3>2. r \in Runs /\ r.at = "reading" /\ r.by = n /\ r.tx = Idle.tx /\ r.tries = Idle.tries
      BY <3>1, IdleTyped DEF Runs
    <3>. QED  BY <3>2 DEF Idle
  <2>4. run' = [run EXCEPT ![h] = r]
    BY <1>2 DEF Confirm
  <2>. HIDE DEF r
  <2>5. run' \in [Handlers -> Runs] /\ run'[h] = r /\ \A g \in Handlers \ {h} : run'[g] = run[g]
    BY <2>3, <2>4 DEF Typed, TypeOK
  <2>6. TypeOK'
    BY <1>2, <2>1, <2>2, <2>5 DEF Confirm, Typed, TypeOK, chain
  <2>7. \A g \in Handlers \ {h} :
          /\ (Busy(g) => run[g].by \in 1..Len(granted))'
          /\ (At(g, "reading") => run[g].tx = None /\ run[g].tries = 0)'
          /\ (At(g, "sending") \/ At(g, "accepted") =>
               run[g].tx \in Txs /\ run[g].tx.by = run[g].by /\ run[g].tx.to = Job(g))'
    <3>. TAKE g \in Handlers \ {h}
    <3>1. run'[g] = run[g]
      BY <2>5
    <3>2. Busy(g) => run[g].by \in 1..Len(granted) /\ granted'[run[g].by] = granted[run[g].by]
      BY <2>2 DEF Typed, Shape
    <3>3. Len(granted) <= Len(granted')
      BY <2>1, <2>2
    <3>4. Busy(g) => run[g].by \in 1..Len(granted')
      <4>1. ASSUME NEW i \in 1..Len(granted)  PROVE i \in 1..Len(granted')
        BY <2>1, <2>2, <3>3
      <4>. QED  BY <3>2, <4>1
    <3>5. Busy(g) => Job(g)' = Job(g)
      BY <3>1, <3>2 DEF Job
    <3>6. /\ At(g, "reading") => run[g].tx = None /\ run[g].tries = 0
          /\ At(g, "sending") \/ At(g, "accepted") =>
               run[g].tx \in Txs /\ run[g].tx.by = run[g].by /\ run[g].tx.to = Job(g)
      BY DEF Typed, Shape
    <3>. QED  BY <3>1, <3>4, <3>5, <3>6 DEF Busy, At
  <2>8. Shape'
    BY <2>1, <2>2, <2>3, <2>5, <2>7 DEF Shape, Busy, At, Job
  <2>. QED  BY <2>6, <2>8 DEF Typed
<1>. QED  BY <1>1, <1>2 DEF User

LEMMA ClockTyped == ASSUME Typed, Clock  PROVE Typed'
<1>1. CASE Tick
  <2>1. timers' \subseteq Timers
    <3>1. ASSUME NEW t \in timers  PROVE [t EXCEPT !.left = @ - 1] \in Timers
      <4>1. t \in Timers /\ t.left > 0
        BY <1>1 DEF Tick, Typed, TypeOK
      <4>2. t.left \in 0..TTL /\ t.left - 1 \in 0..TTL
        BY <4>1 DEF Timers
      <4>. QED  BY <4>1, <4>2 DEF Timers
    <3>. QED  BY <1>1, <3>1 DEF Tick
  <2>2. TypeOK'
    BY <1>1, <2>1 DEF Tick, Typed, TypeOK, chain
  <2>3. Shape'
    BY <1>1 DEF Tick, Typed, Shape, Busy, At, Job
  <2>. QED  BY <2>2, <2>3 DEF Typed
<1>2. ASSUME NEW c \in Commands, Expire(c)  PROVE Typed'
  <2>1. TypeOK'
    BY <1>2 DEF Expire, Typed, TypeOK, chain
  <2>2. Shape'
    BY <1>2 DEF Expire, Typed, Shape, Busy, At, Job
  <2>. QED  BY <2>1, <2>2 DEF Typed
<1>. QED  BY <1>1, <1>2 DEF Clock

LEMMA ForgetTyped == ASSUME Typed, Forget  PROVE Typed'
BY DEF Forget, memory, chain, Typed, TypeOK, Shape, Busy, At, Job

LEMMA RestartTyped == ASSUME Typed, Restart  PROVE Typed'
<1>1. run' \in [Handlers -> Runs] /\ \A h \in Handlers : run'[h].at = "idle"
  BY IdleTyped DEF Restart
<1>. QED  BY <1>1 DEF Restart, chain, Typed, TypeOK, Shape, Busy, At, Job

LEMMA ChainsTyped == ASSUME Typed, Chains  PROVE Typed'
<1>1. UNCHANGED <<memory, used, granted>>
  BY DEF Chains, NewBlockhash, MineEvm, MineSolana
<1>2. nonce' \in Nat /\ blockhash' \in Nat
  BY DEF Chains, NewBlockhash, MineEvm, MineSolana, Typed, TypeOK
<1>3. sent' \subseteq Txs /\ mined' \subseteq Txs /\ reverted' \subseteq Txs
  BY DEF Chains, NewBlockhash, MineEvm, MineSolana, Typed, TypeOK
<1>4. balance' \in [Nets -> Nat]
  <2>1. ASSUME NEW tx \in sent, NEW n \in Nets, tx.value <= balance[n]
        PROVE  [balance EXCEPT ![n] = @ - tx.value] \in [Nets -> Nat]
    <3>1. tx.value \in Nat /\ balance[n] \in Nat
      BY DEF Typed, TypeOK, Txs
    <3>2. balance[n] - tx.value \in Nat
      BY <2>1, <3>1
    <3>. QED  BY <3>2 DEF Typed, TypeOK
  <2>2. "evm" \in Nets /\ "solana" \in Nets /\ balance \in [Nets -> Nat]
    BY DEF Nets, Typed, TypeOK
  <2>3. CASE NewBlockhash
    BY <2>2, <2>3 DEF NewBlockhash
  <2>4. ASSUME NEW tx \in sent, MineEvm(tx)  PROVE balance' \in [Nets -> Nat]
    BY <2>1, <2>2, <2>4 DEF MineEvm
  <2>5. ASSUME NEW tx \in sent, MineSolana(tx)  PROVE balance' \in [Nets -> Nat]
    BY <2>1, <2>2, <2>5 DEF MineSolana
  <2>. QED  BY <2>3, <2>4, <2>5 DEF Chains
<1>5. TypeOK'
  BY <1>1, <1>2, <1>3, <1>4 DEF memory, Typed, TypeOK
<1>6. Shape'
  BY <1>1 DEF memory, Typed, Shape, Busy, At, Job
<1>. QED  BY <1>5, <1>6 DEF Typed

LEMMA StepTyped == Typed /\ [Next]_vars => Typed'
<1>. SUFFICES ASSUME Typed, [Next]_vars  PROVE Typed'
  OBVIOUS
<1>1. CASE UNCHANGED vars
  BY <1>1 DEF vars, memory, chain, Typed, TypeOK, Shape, Busy, At, Job
<1>2. CASE Next
  BY <1>2, UserTyped, HandleTyped, ClockTyped, ForgetTyped, RestartTyped, ChainsTyped DEF Next
<1>. QED  BY <1>1, <1>2

LEMMA AlwaysTyped == Spec => []Typed
BY InitTyped, StepTyped, PTL DEF Spec

\* Every step of a withdrawal keeps its types: no handler asks more endpoints
\* than withFailover() allows, and no chain goes below zero.
THEOREM TypeCorrect == Spec => []TypeOK
<1>1. Typed => TypeOK
  BY DEF Typed
<1>. QED  BY <1>1, AlwaysTyped, PTL

-----------------------------------------------------------------------------
(* The rate                                                                  *)

Working == {h \in Handlers : Busy(h)}

\* Handlers at work hold a place each: what they may still record counts as used.
Rated == used + Cardinality(Working) <= WithdrawPerHour - 1 + Cardinality(Handlers)

LEMMA WorkingCounted ==
  /\ IsFiniteSet(Working)
  /\ Cardinality(Working) \in Nat /\ Cardinality(Handlers) \in Nat
  /\ Cardinality(Working) <= Cardinality(Handlers)
BY FS_Subset, FS_CardinalityType DEF Working

LEMMA RatedStep == Typed /\ Typed' /\ Rated /\ [Next]_vars => Rated'
<1>. SUFFICES ASSUME Typed, Typed', Rated, [Next]_vars  PROVE Rated'
  OBVIOUS
<1>1. used \in Nat /\ used' \in Nat
  BY DEF Typed, TypeOK
<1>2. IsFiniteSet(Working) /\ Cardinality(Working) \in Nat /\ Cardinality(Handlers) \in Nat
  BY WorkingCounted
<1>3. /\ IsFiniteSet(Working')
      /\ Cardinality(Working') \in Nat /\ Cardinality(Working') <= Cardinality(Handlers)
  <2>1. Working' \subseteq Handlers
    BY DEF Working
  <2>. QED  BY <2>1, <1>2, FS_Subset, FS_CardinalityType
<1>4. ASSUME used' <= used, Working' \subseteq Working  PROVE Rated'
  <2>1. Cardinality(Working') <= Cardinality(Working)
    BY <1>2, <1>4, FS_Subset
  <2>. QED  BY <1>1, <1>2, <1>3, <1>4, <2>1 DEF Rated
<1>5. ASSUME used' = used, \A h \in Handlers : run'[h].at = "idle" \/ Busy(h)
      PROVE  Rated'
  BY <1>1, <1>4, <1>5 DEF Working, Busy, At
<1>6. CASE User
  <2>1. ASSUME NEW c \in Commands, NEW h \in Handlers, Confirm(h, c)  PROVE Rated'
    BY <1>1, <1>2, <1>3, <2>1 DEF Confirm, Allowed, Rated
  <2>2. ASSUME NEW c \in Commands, Ask(c)  PROVE Rated'
    BY <1>5, <2>2 DEF Ask, Busy, At
  <2>. QED  BY <1>6, <2>1, <2>2 DEF User
<1>7. ASSUME NEW h \in Handlers, Handle(h)  PROVE Rated'
  <2>1. CASE Succeed(h)
    <3>1. h \in Working
      BY <2>1 DEF Succeed, Working, Busy, At
    <3>2. Working' = Working \ {h}
      BY <2>1, IdleTyped DEF Succeed, Set, Working, Busy, At, Typed, TypeOK
    <3>3. Cardinality(Working') = Cardinality(Working) - 1
      BY <1>2, <3>1, <3>2, FS_RemoveElement
    <3>. QED  BY <1>1, <1>2, <1>3, <2>1, <3>3 DEF Succeed, Rated
  <2>2. CASE ~Succeed(h)
    <3>1. used' = used /\ Busy(h)
      BY <1>7, <2>2 DEF Handle, ReadNonce, ReadFunds, Refuse, NotCovered, FirstTry, Accepted,
        NextTry, GiveUp, Rejected, Abandon, Request, HasRead, CallFails, Busy, At
    <3>2. \A g \in Handlers \ {h} : run'[g] = run[g]
      BY <1>7 DEF Handle, ReadNonce, ReadFunds, Refuse, NotCovered, FirstTry, Accepted,
        NextTry, GiveUp, Rejected, Succeed, Abandon, Request, Goto, Set, Typed, TypeOK
    <3>. QED  BY <1>5, <3>1, <3>2 DEF Busy, At
  <2>. QED  BY <2>1, <2>2
<1>8. CASE Clock
  BY <1>5, <1>8 DEF Clock, Tick, Expire, Busy, At
<1>9. CASE Forget
  <2>1. used' <= used /\ Working' = Working
    BY <1>1, <1>9 DEF Forget, memory, Working, Busy, At
  <2>. QED  BY <1>4, <2>1
<1>10. CASE Restart
  BY <1>5, <1>10, IdleTyped DEF Restart
<1>11. CASE Chains
  BY <1>5, <1>11 DEF Chains, NewBlockhash, MineEvm, MineSolana, memory, Busy, At
<1>12. CASE UNCHANGED vars
  BY <1>5, <1>12 DEF vars, memory, Busy, At
<1>. QED  BY <1>6, <1>7, <1>8, <1>9, <1>10, <1>11, <1>12 DEF Next

\* The limit of withdrawals is passed by less than the number of updates the
\* bot handles at the same time, however its checks and records interleave.
THEOREM RateHolds == Spec => []RateBounded
<1>1. Init => Rated
  <2>. SUFFICES ASSUME Init PROVE Rated
    OBVIOUS
  <2>1. Working = {} /\ used = 0
    BY IdleTyped DEF Init, Working, Busy, At
  <2>. QED  BY <2>1, WorkingCounted, FS_EmptySet DEF Rated
<1>2. Typed /\ Rated => RateBounded
  BY WorkingCounted DEF Typed, TypeOK, Rated, RateBounded
<1>. QED  BY <1>1, <1>2, RatedStep, AlwaysTyped, PTL DEF Spec

-----------------------------------------------------------------------------
(* One payment for one confirmation                                          *)

Known == sent \cup mined

\* Two handlers never work for the same confirmation.
OwnWork ==
  \A g, h \in Handlers : Busy(g) /\ Busy(h) /\ run[g].by = run[h].by => g = h

\* What the chains hold belongs to a confirmation, and to its chain.
Accounted ==
  \A t \in Known : t.by \in 1..Len(granted) /\ t.to = granted[t.by]

\* An EVM transfer the chain knows is the one its handler carries: there is
\* nothing to sign again.
Carried ==
  \A t \in OnEvm(Known), h \in Handlers :
    Busy(h) /\ run[h].by = t.by => ~At(h, "reading") /\ run[h].tx = t

\* There is one EVM transfer for each confirmation,
Unique == \A t, u \in OnEvm(Known) : t.by = u.by => t = u

\* and one that moved money for each nonce spent.
Spent ==
  /\ \A t \in OnEvm(mined) : t.slot < nonce
  /\ \A t, u \in OnEvm(mined) : t.slot = u.slot => t = u

Paid == OwnWork /\ Accounted /\ Carried /\ Unique /\ Spent

\* What handlers do between two answers of an endpoint.
Keeps(h) ==
  \/ run'[h].at = "idle"
  \/ /\ Busy(h) /\ run'[h].by = run[h].by
     /\ run'[h].at = "reading" => At(h, "reading")
     /\ At(h, "reading") \/ Home(h) # "evm" \/ run'[h].tx = run[h].tx

LEMMA KeepsPaid ==
  ASSUME Typed, Paid, \A h \in Handlers : Keeps(h),
         sent' \subseteq sent, UNCHANGED <<granted, mined, nonce>>
  PROVE  Paid'
<1>1. OwnWork'
  BY DEF Paid, OwnWork, Keeps, Busy, At
<1>2. Accounted'
  BY DEF Paid, Accounted, Known
<1>3. OnEvm(Known)' \subseteq OnEvm(Known) /\ OnEvm(mined)' = OnEvm(mined)
  BY DEF OnEvm, Known, Chain
<1>4. Carried'
  <2>1. SUFFICES ASSUME NEW t \in OnEvm(Known), NEW h \in Handlers,
                        run'[h].at # "idle", run'[h].by = t.by
                 PROVE  run'[h].at # "reading" /\ run'[h].tx = t
    BY <1>3 DEF Carried, Busy, At
  <2>2. Busy(h) /\ run[h].by = t.by /\ Keeps(h)
    BY <2>1 DEF Keeps
  <2>3. ~At(h, "reading") /\ run[h].tx = t
    BY <2>2 DEF Paid, Carried
  <2>4. Home(h) = "evm"
    BY <2>2 DEF Paid, Accounted, OnEvm, Home, Job, Chain
  <2>. QED  BY <2>1, <2>2, <2>3, <2>4 DEF Keeps
<1>5. Unique'
  BY <1>3 DEF Paid, Unique
<1>6. Spent'
  BY <1>3 DEF Paid, Spent
<1>. QED  BY <1>1, <1>2, <1>4, <1>5, <1>6 DEF Paid

\* A confirmation is new: nothing on the chains is for it.
LEMMA ConfirmPaid ==
  ASSUME Typed, Paid, NEW c \in Commands, NEW h \in Handlers, Confirm(h, c)
  PROVE  Paid'
<1>. DEFINE n == Len(granted) + 1
<1>1. Len(granted) \in Nat /\ UNCHANGED <<nonce, sent, mined>>
  BY DEF Confirm, Typed, TypeOK, chain
<1>2. run'[h].by = n /\ \A g \in Handlers \ {h} : run'[g] = run[g]
  BY DEF Confirm, Idle, Typed, TypeOK
<1>3. Len(granted') = n /\ \A i \in 1..Len(granted) : granted'[i] = granted[i]
  BY <1>1 DEF Confirm, Typed, TypeOK
<1>4. \A g \in Handlers : Busy(g) => run[g].by \in 1..Len(granted)
  BY DEF Typed, Shape
<1>5. \A t \in Known : t.by \in 1..Len(granted)
  BY DEF Paid, Accounted
<1>6. ~(n \in 1..Len(granted)) /\ \A i \in 1..Len(granted) : i \in 1..n
  BY <1>1
<1>. HIDE DEF n
<1>7. Known' = Known /\ OnEvm(Known)' = OnEvm(Known) /\ OnEvm(mined)' = OnEvm(mined)
  BY <1>1 DEF Known, OnEvm, Chain
<1>8. OwnWork'
  <2>1. OwnWork
    BY DEF Paid
  <2>2. \A g \in Handlers \ {h} : run'[g].at # "idle" => run'[g].by # run'[h].by
    BY <1>2, <1>4, <1>6 DEF Busy, At
  <2>. QED  BY <1>2, <2>1, <2>2 DEF OwnWork, Busy, At
<1>9. Accounted'
  BY <1>3, <1>5, <1>6, <1>7 DEF Paid, Accounted
<1>10. Carried'
  <2>1. Carried
    BY DEF Paid
  <2>2. \A t \in OnEvm(Known) : t.by # run'[h].by
    BY <1>2, <1>5, <1>6 DEF OnEvm
  <2>. QED  BY <1>2, <1>7, <2>1, <2>2 DEF Carried, Busy, At
<1>11. Unique' /\ Spent'
  BY <1>1, <1>7 DEF Paid, Unique, Spent
<1>. QED  BY <1>8, <1>9, <1>10, <1>11 DEF Paid

\* What an endpoint takes is what the handler carries since its first try.
LEMMA AcceptedPaid ==
  ASSUME Typed, Paid, NEW h \in Handlers, Accepted(h)
  PROVE  Paid'
<1>. DEFINE tx == run[h].tx
<1>1. Busy(h) /\ At(h, "sending") /\ tx \in Txs /\ tx.by = run[h].by /\ tx.to = Job(h)
      /\ tx.by \in 1..Len(granted) /\ tx.to = granted[tx.by]
  BY DEF Accepted, Typed, Shape, Busy, At, Job
<1>2. /\ run'[h].at = "accepted" /\ run'[h].by = run[h].by /\ run'[h].tx = tx
      /\ \A g \in Handlers \ {h} : run'[g] = run[g]
  BY JobTyped, <1>1 DEF Accepted, Goto, Set, Typed, TypeOK, Runs
<1>3. sent' = sent \cup {tx} /\ UNCHANGED <<granted, nonce, mined>>
  BY DEF Accepted
<1>. HIDE DEF tx
<1>4. Known' = Known \cup {tx} /\ OnEvm(mined)' = OnEvm(mined)
      /\ \A t : t \in OnEvm(Known)' <=> t \in OnEvm(Known) \/ (t = tx /\ Chain(tx) = "evm")
  BY <1>3 DEF Known, OnEvm, Chain
<1>5. OwnWork'
  <2>1. OwnWork
    BY DEF Paid
  <2>2. \A g \in Handlers : run'[g].by = run[g].by /\ (run'[g].at # "idle" => Busy(g))
    BY <1>1, <1>2 DEF Busy, At
  <2>. QED  BY <2>1, <2>2 DEF OwnWork, Busy, At
<1>6. Accounted'
  BY <1>1, <1>3, <1>4 DEF Paid, Accounted
<1>7. \A t \in OnEvm(Known) : t.by = tx.by => t = tx
  BY <1>1 DEF Paid, Carried, tx
<1>8. Unique'
  BY <1>4, <1>7 DEF Paid, Unique
<1>9. Carried'
  <2>1. SUFFICES ASSUME NEW t, t \in OnEvm(Known)', NEW g \in Handlers,
                        run'[g].at # "idle", run'[g].by = t.by
                 PROVE  run'[g].at # "reading" /\ run'[g].tx = t
    BY DEF Carried, Busy, At
  <2>2. CASE g = h
    BY <1>1, <1>2, <1>4, <1>7, <2>1, <2>2
  <2>3. CASE g # h
    <3>1. run'[g] = run[g] /\ Busy(g) /\ run[g].by = t.by
      BY <1>2, <2>1, <2>3 DEF Busy, At
    <3>2. t.by # tx.by
      BY <1>1, <2>3, <3>1 DEF Paid, OwnWork
    <3>3. t \in OnEvm(Known)
      BY <1>4, <2>1, <3>2
    <3>. QED  BY <3>1, <3>3 DEF Paid, Carried, At
  <2>. QED  BY <2>2, <2>3
<1>10. Spent'
  BY <1>3, <1>4 DEF Paid, Spent
<1>. QED  BY <1>5, <1>6, <1>8, <1>9, <1>10 DEF Paid

\* The nonce of an EVM transfer that is mined was not spent before.
LEMMA MinePaid ==
  ASSUME Typed, Paid, NEW tx \in sent, MineEvm(tx) \/ MineSolana(tx)
  PROVE  Paid'
<1>1. UNCHANGED <<run, granted>>
  BY DEF MineEvm, MineSolana, memory
<1>2. Known' \subseteq Known /\ OnEvm(Known)' \subseteq OnEvm(Known)
  BY DEF MineEvm, MineSolana, Known, OnEvm, Chain
<1>3. OwnWork' /\ Accounted' /\ Carried' /\ Unique'
  BY <1>1, <1>2 DEF Paid, OwnWork, Accounted, Carried, Unique, Busy, At
<1>4. Spent'
  <2>1. CASE MineEvm(tx)
    <3>1. OnEvm(mined)' = OnEvm(mined) \cup {tx} /\ tx.slot = nonce /\ nonce' = nonce + 1
      BY <2>1 DEF MineEvm, OnEvm, Chain
    <3>2. nonce \in Nat /\ \A t \in OnEvm(mined) : t.slot \in Nat
      BY DEF Typed, TypeOK, OnEvm, Txs
    <3>. QED  BY <3>1, <3>2 DEF Paid, Spent
  <2>2. CASE MineSolana(tx)
    <3>1. OnEvm(mined)' = OnEvm(mined) /\ nonce' = nonce
      BY <2>2 DEF MineSolana, OnEvm, Chain
    <3>. QED  BY <3>1 DEF Paid, Spent
  <2>. QED  BY <2>1, <2>2
<1>. QED  BY <1>3, <1>4 DEF Paid

\* Every other step of a handler.
LEMMA HandlePaid ==
  ASSUME Typed, Paid, NEW h \in Handlers, Handle(h), ~Accepted(h)
  PROVE  Paid'
<1>1. UNCHANGED <<granted, nonce, sent, mined>>
  BY DEF Handle, ReadNonce, ReadFunds, Refuse, NotCovered, FirstTry, Accepted,
    NextTry, GiveUp, Rejected, Succeed, Abandon, Request, chain
<1>2. \A g \in Handlers \ {h} : run'[g] = run[g]
  BY DEF Handle, ReadNonce, ReadFunds, Refuse, NotCovered, FirstTry, Accepted,
    NextTry, GiveUp, Rejected, Succeed, Abandon, Request, Set, Typed, TypeOK
<1>3. Busy(h)
  BY DEF Handle, ReadNonce, ReadFunds, Refuse, NotCovered, FirstTry, Accepted,
    NextTry, GiveUp, Rejected, Succeed, HasRead, CallFails, Busy, At
<1>4. Keeps(h)
  <2>1. CASE Set(h, Idle)
    BY <2>1, IdleTyped DEF Set, Keeps, Typed, TypeOK
  <2>2. CASE ReadNonce(h) \/ ReadFunds(h)
    <3>1. ASSUME NEW v, \/ Set(h, [run[h] EXCEPT !.slot = v])
                        \/ Set(h, [run[h] EXCEPT !.funds = v])
          PROVE  run'[h].at = run[h].at /\ run'[h].by = run[h].by /\ run'[h].tx = run[h].tx
      <4>1. /\ run[h] \in Runs
            /\ \/ run'[h] = [run[h] EXCEPT !.slot = v]
               \/ run'[h] = [run[h] EXCEPT !.funds = v]
        BY <1>3, <3>1, JobTyped DEF Set, Typed, TypeOK
      <4>. QED  BY <4>1 DEF Runs
    <3>. QED  BY <1>3, <2>2, <3>1 DEF ReadNonce, ReadFunds, Keeps, At
  <2>3. ASSUME NEW tx, Request(h, tx)
        PROVE  run'[h].at = "sending" /\ run'[h].by = run[h].by /\ run'[h].tx = tx
    BY <1>3, <2>3, JobTyped DEF Request, Set, Typed, TypeOK, Runs
  <2>4. CASE FirstTry(h)
    BY <1>3, <2>3, <2>4 DEF FirstTry, HasRead, Keeps
  <2>5. CASE NextTry(h)
    BY <1>3, <2>3, <2>5 DEF NextTry, Keeps
  <2>. QED  BY <2>1, <2>2, <2>4, <2>5
    DEF Handle, Refuse, NotCovered, GiveUp, Rejected, Succeed, Abandon
<1>5. \A g \in Handlers : Keeps(g)
  BY <1>2, <1>4 DEF Keeps, Busy, At
<1>. QED  BY <1>1, <1>5, KeepsPaid

LEMMA PaidStep == Typed /\ Paid /\ [Next]_vars => Paid'
<1>. SUFFICES ASSUME Typed, Paid, [Next]_vars  PROVE Paid'
  OBVIOUS
<1>1. ASSUME UNCHANGED <<run, granted, nonce, mined>>, sent' \subseteq sent  PROVE Paid'
  BY <1>1, KeepsPaid DEF Keeps, Busy, At
<1>2. ASSUME NEW c \in Commands, Ask(c) \/ Expire(c)  PROVE Paid'
  BY <1>1, <1>2 DEF Ask, Expire, chain
<1>3. CASE Tick \/ Forget
  BY <1>1, <1>3 DEF Tick, Forget, memory, chain
<1>4. CASE Restart
  BY <1>4, IdleTyped, KeepsPaid DEF Restart, Keeps, chain
<1>5. CASE NewBlockhash
  BY <1>1, <1>5 DEF NewBlockhash, memory
<1>6. CASE UNCHANGED vars
  BY <1>1, <1>6 DEF vars, memory, chain
<1>. QED  BY <1>2, <1>3, <1>4, <1>5, <1>6, ConfirmPaid, HandlePaid, AcceptedPaid, MinePaid
  DEF Next, User, Clock, Chains

LEMMA AlwaysPaid == Spec => [](Typed /\ Paid)
<1>1. Init => Paid
  BY IdleTyped DEF Init, Paid, OwnWork, Accounted, Carried, Unique, Spent, Known, OnEvm, Busy, At
<1>. QED  BY <1>1, InitTyped, StepTyped, PaidStep, PTL DEF Spec

\* An EVM withdrawal moves its money once and spends a nonce of its own,
\* whatever requests and answers are lost on the way.
THEOREM PaysOnceAlways == Spec => []PaysOnce
<1>1. Paid => PaysOnce
  BY DEF Paid, Unique, Spent, PaysOnce, OnceEach, Same, OnEvm, Known
<1>. QED  BY <1>1, AlwaysPaid, PTL

-----------------------------------------------------------------------------
(* The confirmation                                                          *)

LEMMA LongestExists ==
  ASSUME NEW L \in SUBSET (0..TTL), L # {}
  PROVE  \E x \in L : \A y \in L : y <= x
<1>. DEFINE R == OpToRel(<, Nat)
            D == {TTL - x : x \in L}
<1>1. IsWellFoundedOn(R, Nat) /\ R = {ss \in Nat \X Nat : ss[1] < ss[2]}
  BY NatLessThanWellFounded DEF OpToRel
<1>2. D \subseteq Nat /\ D # {}
  <2>1. TTL \in Nat /\ \A x \in L : x \in 0..TTL
    OBVIOUS
  <2>2. \A x \in 0..TTL : TTL - x \in Nat
    BY <2>1
  <2>3. D \subseteq Nat
    BY <2>1, <2>2
  <2>4. PICK x \in L : TRUE
    OBVIOUS
  <2>5. TTL - x \in D
    OBVIOUS
  <2>. QED  BY <2>3, <2>5
<1>. HIDE DEF R
<1>3. PICK d \in D : \A e \in D : ~(<<e, d>> \in R)
  <2>. HIDE DEF D
  <2>. QED  BY <1>1, <1>2, WFMin
<1>4. \A e \in D : ~(e < d)
  <2>. HIDE DEF D
  <2>. QED  BY <1>1, <1>2, <1>3
<1>5. PICK x \in L : d = TTL - x
  BY <1>3
<1>6. \A y \in L : ~(TTL - y < TTL - x)
  BY <1>4, <1>5
<1>. QED  BY <1>6

LEMMA LeftOfIs ==
  ASSUME NEW c \in Commands, NEW ts \in SUBSET Timers, NEW l \in 0..TTL,
         [of |-> c, left |-> l] \in ts, \A t \in ts : t.of = c => t.left <= l
  PROVE  LeftOf(c, ts) = l
<1>. DEFINE Longest(m) == /\ [of |-> c, left |-> m] \in ts
                          /\ \A t \in ts : t.of = c => t.left <= m
<1>1. LeftOf(c, ts) = CHOOSE m \in 0..TTL : Longest(m)
  BY DEF LeftOf
<1>2. Longest(l)
  OBVIOUS
<1>3. ASSUME NEW m \in 0..TTL, Longest(m)  PROVE m = l
  BY <1>2, <1>3
<1>. HIDE DEF Longest
<1>. QED  BY <1>1, <1>2, <1>3

LEMMA LeftOfTyped ==
  ASSUME NEW c \in Commands, NEW ts \in SUBSET Timers, NEW u \in ts, u.of = c
  PROVE  /\ LeftOf(c, ts) \in 0..TTL
         /\ [of |-> c, left |-> LeftOf(c, ts)] \in ts
         /\ \A t \in ts : t.of = c => t.left <= LeftOf(c, ts)
<1>. DEFINE L == {t.left : t \in {t \in ts : t.of = c}}
<1>1. L \in SUBSET (0..TTL) /\ L # {}
  BY DEF Timers
<1>2. PICK l \in L : \A y \in L : y <= l
  <2>. HIDE DEF L
  <2>. QED  BY <1>1, LongestExists
<1>3. PICK t \in ts : t.of = c /\ t.left = l
  BY <1>2
<1>4. t = [of |-> c, left |-> l] /\ l \in 0..TTL
  BY <1>3 DEF Timers
<1>5. \A s \in ts : s.of = c => s.left <= l
  BY <1>2
<1>6. LeftOf(c, ts) = l
  BY <1>3, <1>4, <1>5, LeftOfIs
<1>. QED  BY <1>3, <1>4, <1>5, <1>6

\* A command that waits will be forgotten.
Timed == pending # None => \E t \in timers : t.of = pending

Moved == {tx.by : tx \in OnEvm(mined)}

LEMMA LeftTyped ==
  ASSUME Typed, Timed, pending # None
  PROVE  /\ pending \in Commands
         /\ Left \in 0..TTL /\ [of |-> pending, left |-> Left] \in timers
         /\ \A t \in timers : t.of = pending => t.left <= Left
BY LeftOfTyped DEF Typed, TypeOK, Timed, Left

LEMMA NobodyWaits == pending' = None => Left' = 0
BY DEF Left, LeftOf

\* Steps that leave the confirmation and the EVM chain alone.
LEMMA OtherSteps ==
  ASSUME Typed, Timed, UNCHANGED <<pending, timers, granted>>,
         OnEvm(mined)' = OnEvm(mined)
  PROVE  Timed' /\ UNCHANGED Promise!vars
BY DEF Timed, Left, Promise!vars

LEMMA AskKept ==
  ASSUME Typed, Timed, NEW c \in Commands, Ask(c)
  PROVE  Timed' /\ Promise!Ask(c)
<1>1. c # None /\ TTL \in Nat /\ TTL \in 0..TTL
  OBVIOUS
<1>2. pending' = c /\ pending # c /\ timers' = timers \cup {[of |-> c, left |-> TTL]}
  BY DEF Ask
<1>3. timers' \in SUBSET Timers /\ [of |-> c, left |-> TTL] \in timers'
  BY <1>1, <1>2 DEF Typed, TypeOK, Timers
<1>4. \A t \in timers' : t.left <= TTL
  BY <1>3 DEF Timers
<1>5. Left' = TTL
  <2>1. LeftOf(c, timers') = TTL
    BY <1>1, <1>3, <1>4, LeftOfIs
  <2>. QED  BY <1>2, <2>1 DEF Left
<1>6. Timed'
  BY <1>2, <1>3 DEF Timed
<1>. QED  BY <1>2, <1>5, <1>6 DEF Ask, chain, Promise!Ask, OnEvm, Chain

LEMMA ExpireKept ==
  ASSUME Typed, Timed, NEW c \in Commands, Expire(c)
  PROVE  Timed' /\ [Promise!Next]_(Promise!vars)
<1>1. UNCHANGED <<granted, mined>> /\ timers' = timers \ {[of |-> c, left |-> 0]} /\ c # None
  BY DEF Expire, chain
<1>2. OnEvm(mined)' = OnEvm(mined)
  BY <1>1 DEF OnEvm, Chain
<1>3. CASE pending = c
  <2>1. pending' = None /\ Left' = 0
    BY <1>3, NobodyWaits DEF Expire
  <2>. QED  BY <1>1, <1>2, <1>3, <2>1 DEF Timed, Promise!Next, Promise!Lapse
<1>4. CASE pending # c /\ pending = None
  <2>1. pending' = None /\ Left' = 0 /\ Left = 0
    BY <1>4, NobodyWaits DEF Expire, Left, LeftOf
  <2>. QED  BY <1>1, <1>2, <1>4, <2>1 DEF Timed, Promise!vars
<1>5. CASE pending # c /\ pending # None
  <2>1. pending' = pending /\ pending \in Commands
    BY <1>5, LeftTyped DEF Expire
  <2>2. timers' \in SUBSET Timers
    BY <1>1 DEF Typed, TypeOK
  <2>3. [of |-> pending, left |-> Left] \in timers' /\ \A t \in timers' : t.of = pending => t.left <= Left
    BY <1>1, <1>5, LeftTyped
  <2>4. LeftOf(pending, timers') = Left
    BY <1>5, <2>1, <2>2, <2>3, LeftTyped, LeftOfIs
  <2>5. Left' = Left
    BY <2>1, <2>4 DEF Left
  <2>6. Timed'
    BY <2>1, <2>3 DEF Timed
  <2>. QED  BY <1>1, <1>2, <2>1, <2>5, <2>6 DEF Promise!vars
<1>. QED  BY <1>3, <1>4, <1>5

LEMMA TickKept ==
  ASSUME Typed, Typed', Timed, Tick
  PROVE  Timed' /\ [Promise!Next]_(Promise!vars)
<1>1. UNCHANGED <<pending, granted, mined>> /\ timers' = {[t EXCEPT !.left = @ - 1] : t \in timers}
  BY DEF Tick, chain
<1>2. OnEvm(mined)' = OnEvm(mined)
  BY <1>1 DEF OnEvm, Chain
<1>3. CASE pending = None
  <2>1. Left' = Left
    BY <1>1, <1>3 DEF Left, LeftOf
  <2>. QED  BY <1>1, <1>2, <1>3, <2>1 DEF Timed, Promise!vars
<1>4. CASE pending # None
  <2>1. [of |-> pending, left |-> Left] \in timers /\ Left \in 0..TTL /\ pending \in Commands
    BY <1>4, LeftTyped
  <2>2. Left > 0
    BY <2>1 DEF Tick
  <2>3. Left - 1 \in 0..TTL
    BY <2>1, <2>2
  <2>4. [of |-> pending, left |-> Left - 1] \in timers'
    <3>. DEFINE u == [of |-> pending, left |-> Left]
    <3>1. [u EXCEPT !.left = @ - 1] = [of |-> pending, left |-> Left - 1]
      OBVIOUS
    <3>2. [u EXCEPT !.left = @ - 1] \in timers'
      BY <1>1, <2>1
    <3>. QED  BY <3>1, <3>2
  <2>5. \A t \in timers' : t.of = pending => t.left <= Left - 1
    <3>1. ASSUME NEW t \in timers, t.of = pending
          PROVE  t.left - 1 <= Left - 1
      <4>1. t.left \in 0..TTL /\ t.left <= Left
        BY <1>4, <3>1, LeftTyped DEF Typed, TypeOK, Timers
      <4>. QED  BY <2>1, <4>1
    <3>2. \A t \in timers : /\ [t EXCEPT !.left = @ - 1].of = t.of
                            /\ [t EXCEPT !.left = @ - 1].left = t.left - 1
      BY DEF Typed, TypeOK, Timers
    <3>3. SUFFICES ASSUME NEW s \in timers', s.of = pending  PROVE s.left <= Left - 1
      BY <1>1
    <3>4. PICK t \in timers : s = [t EXCEPT !.left = @ - 1]
      BY <1>1
    <3>. QED  BY <3>1, <3>2, <3>3, <3>4
  <2>6. timers' \in SUBSET Timers
    BY DEF Typed, TypeOK
  <2>7. LeftOf(pending, timers') = Left - 1
    BY <2>1, <2>3, <2>4, <2>5, <2>6, LeftOfIs
  <2>8. Left' = Left - 1
    BY <1>1, <2>7 DEF Left
  <2>9. Timed'
    BY <1>1, <2>4 DEF Timed
  <2>. QED  BY <1>1, <1>2, <2>2, <2>8, <2>9 DEF Promise!Next, Promise!Tick
<1>. QED  BY <1>3, <1>4

LEMMA ConfirmKept ==
  ASSUME Typed, Timed, NEW c \in Commands, NEW h \in Handlers, Confirm(h, c)
  PROVE  Timed' /\ Promise!Grant(c)
<1>1. pending' = None /\ Left' = 0
  BY NobodyWaits DEF Confirm
<1>. QED  BY <1>1 DEF Confirm, chain, Timed, Promise!Grant, OnEvm, Chain

\* A restart forgets the command that waits.
LEMMA RestartKept ==
  ASSUME Typed, Timed, Restart
  PROVE  Timed' /\ [Promise!Next]_(Promise!vars)
<1>1. pending' = None /\ Left' = 0 /\ UNCHANGED <<granted, mined>>
  BY NobodyWaits DEF Restart, chain
<1>2. OnEvm(mined)' = OnEvm(mined) /\ Timed'
  BY <1>1 DEF OnEvm, Chain, Timed
<1>3. pending = None => Left = 0
  BY DEF Left, LeftOf
<1>. QED  BY <1>1, <1>2, <1>3 DEF Promise!Next, Promise!Lapse, Promise!vars

\* The confirmation that is paid was not paid before.
LEMMA MineKept ==
  ASSUME Typed, Timed, Paid, NEW tx \in sent, MineEvm(tx)
  PROVE  Timed' /\ \E k \in DOMAIN granted : Promise!Move(k)
<1>1. tx \in OnEvm(Known) /\ tx.by \in DOMAIN granted
  BY DEF MineEvm, OnEvm, Known, Paid, Accounted, Typed, TypeOK
<1>2. tx.by \notin Moved
  <2>1. SUFFICES ASSUME NEW u \in OnEvm(mined), u.by = tx.by  PROVE FALSE
    BY DEF Moved
  <2>2. u = tx
    BY <1>1, <2>1 DEF Paid, Unique, OnEvm, Known
  <2>3. u.slot < nonce /\ tx.slot = nonce /\ nonce \in Nat
    BY <2>1 DEF Paid, Spent, MineEvm, Typed, TypeOK
  <2>. QED  BY <2>2, <2>3
<1>3. Moved' = Moved \cup {tx.by}
  BY DEF MineEvm, Moved, OnEvm, Chain
<1>4. UNCHANGED <<pending, timers, granted>> /\ Left' = Left /\ Timed'
  BY DEF MineEvm, memory, Left, Timed
<1>5. Promise!Move(tx.by)
  BY <1>1, <1>2, <1>3, <1>4 DEF Promise!Move, Moved
<1>. QED  BY <1>1, <1>4, <1>5

LEMMA PromiseStep ==
  Typed /\ Typed' /\ Paid /\ Timed /\ [Next]_vars => Timed' /\ [Promise!Next]_(Promise!vars)
<1>. SUFFICES ASSUME Typed, Typed', Paid, Timed, [Next]_vars
              PROVE  Timed' /\ [Promise!Next]_(Promise!vars)
  OBVIOUS
<1>1. CASE User
  BY <1>1, AskKept, ConfirmKept DEF User, Promise!Next
<1>2. ASSUME NEW h \in Handlers, Handle(h)  PROVE Timed' /\ UNCHANGED Promise!vars
  <2>1. UNCHANGED <<pending, timers, granted, mined>>
    BY <1>2 DEF Handle, ReadNonce, ReadFunds, Refuse, NotCovered, FirstTry, Accepted,
      NextTry, GiveUp, Rejected, Succeed, Abandon, Request, chain
  <2>. QED  BY <2>1, OtherSteps DEF OnEvm, Chain
<1>3. CASE Clock
  BY <1>3, ExpireKept, TickKept DEF Clock
<1>4. CASE Forget \/ NewBlockhash \/ UNCHANGED vars
  BY <1>4, OtherSteps DEF Forget, NewBlockhash, vars, memory, chain, OnEvm, Chain
<1>5. CASE Restart
  BY <1>5, RestartKept
<1>6. ASSUME NEW tx \in sent, MineEvm(tx)  PROVE Timed' /\ [Promise!Next]_(Promise!vars)
  BY <1>6, MineKept DEF Promise!Next
<1>7. ASSUME NEW tx \in sent, MineSolana(tx)  PROVE Timed' /\ UNCHANGED Promise!vars
  BY <1>7, OtherSteps DEF MineSolana, memory, OnEvm, Chain
<1>. QED  BY <1>1, <1>2, <1>3, <1>4, <1>5, <1>6, <1>7 DEF Next, Chains

\* The handler, sendNative() and withFailover() together do what Confirmation
\* says: nothing is executed but what was asked for twice, in time and with
\* nothing between, and what is executed on an EVM chain is paid once.
THEOREM Implements == Spec => ImplementsConfirmation
<1>1. Init => Timed /\ Promise!Init
  BY DEF Init, Timed, Promise!Init, Left, LeftOf, OnEvm
<1>. QED  BY <1>1, AlwaysPaid, PromiseStep, PTL DEF Spec, Promise!Spec, ImplementsConfirmation
=============================================================================
