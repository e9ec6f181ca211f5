----------------------------- MODULE Scheduler -----------------------------
(***************************************************************************)
(* The target scheduler of the mint bot: Scheduler in                      *)
(* src/src/scheduler/scheduler.js, driven by the /arm and /disarm handlers *)
(* and by main()/shutdown() of src/bot.js.                                 *)
(*                                                                         *)
(* The program is one Node.js event loop, so a step of this specification  *)
(* is the code between two awaits.  A RUN is one activation of _run(): it  *)
(* owns a `state` object {cancelled, pool, phase} and goes to sleep at     *)
(* every await.  The map `active` (target id -> state) is how /disarm,     *)
(* arm() and _cleanup() find a run; several runs of one target may be      *)
(* asleep at once, only one of them registered.                            *)
(*                                                                         *)
(* The status column and the last Executions row live in SQLite and        *)
(* survive a crash; active, the runs and the handlers do not.  What fire() *)
(* does on the chain is reduced here to its contract: it may broadcast,    *)
(* the chain may include the transaction, and it reports success only for  *)
(* a transaction that was included with status 1.                          *)
(***************************************************************************)
EXTENDS Naturals, FiniteSets

CONSTANTS Targets,      \* ids of the rows of the targets table
          Runs,         \* identities for the activations of _run()
          None,         \* no entry in the map; no owner
          MaxArms,      \* bound: /arm commands accepted per target
          MaxRestarts,  \* bound: times the process ends and is started again
          Users         \* how users send /arm: see Accepted

ASSUME NoneAssumption == None \notin Runs \cup Targets
ASSUME BoundsAssumption == MaxArms \in Nat /\ MaxRestarts \in Nat
ASSUME UsersAssumption == Users \in {"any", "serial", "patient"}

VARIABLES
  status,    \* targets.status                              (SQLite)
  lastRow,   \* newest row of executions, by what it says   (SQLite)
  clock,     \* Date.now() against each target's mint_start_at
  process,   \* the operating system process
  resumeQ,   \* rows that resumeAll() has still to visit
  active,    \* Scheduler.active                            (memory)
  handlers,  \* /arm handlers past their status check       (memory)
  pc,        \* where each run sleeps                       (memory)
  owner,     \* the targetId a run was started for          (memory)
  cancelled, \* state.cancelled                             (memory)
  pool,      \* state.pool                                  (memory)
  tx,        \* what became of the run's transaction        (chain)
  arms,      \* /arm commands accepted so far               (bound)
  restarts   \* process starts so far                       (bound)

db      == <<status, lastRow>>
runVars == <<pc, owner, cancelled, pool>>
world   == <<clock, tx>>
bounds  == <<arms, restarts>>
vars    == <<status, lastRow, clock, process, resumeQ, active, handlers,
             pc, owner, cancelled, pool, tx, arms, restarts>>

TargetStatus == {"pending", "armed", "firing", "done", "failed", "cancelled"}
InFlight     == {"armed", "firing"}      \* what listArmed() selects
RowKinds     == {"none", "broadcast", "confirmed", "failed", "preflight",
                 "crashed", "missed"}

\* The moments the code compares Date.now() with.
Early        == 0
PreWarmTime  == 1
MintTime     == 2
WindowMissed == 3

\* "unborn": not yet used; "ended": returned, or lost with its process.
\* "notifying": only `await _safeNotify` and _cleanup are left.
Waiting  == {"waitPrewarm", "waitOpen"}
PreFire  == Waiting \cup {"prewarming", "building", "announcing"}
Live     == PreFire \cup {"firing", "notifying"}
Locations == Live \cup {"unborn", "ended"}

TypeOK ==
  /\ status \in [Targets -> TargetStatus]
  /\ lastRow \in [Targets -> RowKinds]
  /\ clock \in [Targets -> Early..WindowMissed]
  /\ process \in {"down", "booting", "serving", "stopping"}
  /\ resumeQ \in SUBSET Targets
  /\ active \in [Targets -> Runs \cup {None}]
  /\ handlers \in [Targets -> Nat]
  /\ pc \in [Runs -> Locations]
  /\ owner \in [Runs -> Targets \cup {None}]
  /\ cancelled \in [Runs -> BOOLEAN]
  /\ pool \in [Runs -> {"none", "open", "destroyed"}]
  /\ tx \in [Runs -> {"none", "sent", "minted", "reverted"}]
  /\ arms \in [Targets -> Nat]
  /\ restarts \in Nat

Init ==
  /\ status = [t \in Targets |-> "pending"]
  /\ lastRow = [t \in Targets |-> "none"]
  /\ clock = [t \in Targets |-> Early]
  /\ process = "booting"
  /\ resumeQ = {}
  /\ active = [t \in Targets |-> None]
  /\ handlers = [t \in Targets |-> 0]
  /\ pc = [r \in Runs |-> "unborn"]
  /\ owner = [r \in Runs |-> None]
  /\ cancelled = [r \in Runs |-> FALSE]
  /\ pool = [r \in Runs |-> "none"]
  /\ tx = [r \in Runs |-> "none"]
  /\ arms = [t \in Targets |-> 0]
  /\ restarts = 0

-----------------------------------------------------------------------------
\* pool.destroy() is idempotent and a run without a pool has nothing to close.
ClosePool(p, r) == [p EXCEPT ![r] = IF @ = "open" THEN "destroyed" ELSE @]

\* Nothing but the database and the chain is left when the process ends.
LoseMemory ==
  /\ active' = [t \in Targets |-> None]
  /\ handlers' = [t \in Targets |-> 0]
  /\ resumeQ' = {}
  /\ pc' = [r \in Runs |-> IF pc[r] = "unborn" THEN "unborn" ELSE "ended"]
  /\ cancelled' = [r \in Runs |-> FALSE]
  /\ pool' = [r \in Runs |-> "none"]
  /\ UNCHANGED owner

\* Mutant: the entry stays in the map.
CleanupKeepsEntry(t) ==
  /\ pool' = IF active[t] = None THEN pool ELSE ClosePool(pool, active[t])
  /\ UNCHANGED active

\* _cleanup(targetId): it closes and removes whatever entry the id has NOW,
\* which need not be the entry of the run that calls it.
Cleanup(t) ==
  /\ pool' = IF active[t] = None THEN pool ELSE ClosePool(pool, active[t])
  /\ active' = [active EXCEPT ![t] = None]

\* disarm(): cancel and drop the registered run, if any.  Both callers add
\* what happens to the status.
CancelRegistered(t) ==
  IF active[t] = None
  THEN UNCHANGED <<cancelled, pool>>
  ELSE /\ cancelled' = [cancelled EXCEPT ![active[t]] = TRUE]
       /\ pool' = ClosePool(pool, active[t])

\* The tail of arm(): disarm a registered run, then register a fresh one.
\* (The status disarm() writes is overwritten in the same step.)
StartRun(t, r) ==
  /\ pc[r] = "unborn"
  /\ CancelRegistered(t)
  /\ status' = [status EXCEPT ![t] = "armed"]
  /\ active' = [active EXCEPT ![t] = r]
  /\ pc' = [pc EXCEPT ![r] = "waitPrewarm"]
  /\ owner' = [owner EXCEPT ![r] = t]

-----------------------------------------------------------------------------
(* Commands                                                                *)

\* What users do.  "any": whatever they like; "serial": await the answer to an
\* /arm before the next one; "patient": also let a disarmed or failed run of the
\* target return before arming it again.
Accepted(t) ==
  /\ Users # "any" => handlers[t] = 0
  /\ Users = "patient" => \A r \in Runs : owner[r] = t => pc[r] \notin Live

\* The /arm handler up to its first await (the advisory balance look-up).
ArmCheck(t) ==
  /\ process = "serving"
  /\ status[t] \notin InFlight \cup {"done"}
  /\ arms[t] < MaxArms
  /\ Accepted(t)
  /\ handlers' = [handlers EXCEPT ![t] = @ + 1]
  /\ arms' = [arms EXCEPT ![t] = @ + 1]
  /\ UNCHANGED <<db, world, process, resumeQ, active, runVars, restarts>>

\* The rest of the handler: scheduler.arm(), with no second look at status.
ArmCommit(t) ==
  /\ handlers[t] > 0
  /\ handlers' = [handlers EXCEPT ![t] = @ - 1]
  /\ \E r \in Runs : StartRun(t, r)
  /\ UNCHANGED <<lastRow, world, process, resumeQ, bounds>>

\* arm() refuses: network unusable, no start time, beyond the horizon, ...
ArmRejected(t) ==
  /\ handlers[t] > 0
  /\ handlers' = [handlers EXCEPT ![t] = @ - 1]
  /\ UNCHANGED <<db, world, process, resumeQ, active, runVars, bounds>>

\* Mutant: the row is left as it was.
DisarmKeepsStatus(t) ==
  /\ process = "serving"
  /\ CancelRegistered(t)
  /\ active' = [active EXCEPT ![t] = None]
  /\ UNCHANGED <<db, world, process, resumeQ, handlers, pc, owner, bounds>>

\* Mutant: the entry is dropped, the run not told.
DisarmKeepsFlag(t) ==
  /\ process = "serving"
  /\ active' = [active EXCEPT ![t] = None]
  /\ status' = [status EXCEPT ![t] =
                  IF @ \in {"armed", "pending"} THEN "cancelled" ELSE @]
  /\ UNCHANGED <<lastRow, world, process, resumeQ, handlers, runVars, bounds>>

\* Mutant: terminal statuses are rewritten too.
DisarmRewritesAll(t) ==
  /\ process = "serving"
  /\ CancelRegistered(t)
  /\ active' = [active EXCEPT ![t] = None]
  /\ status' = [status EXCEPT ![t] = "cancelled"]
  /\ UNCHANGED <<lastRow, world, process, resumeQ, handlers, pc, owner, bounds>>

Disarm(t) ==
  /\ process = "serving"
  /\ CancelRegistered(t)
  /\ active' = [active EXCEPT ![t] = None]
  /\ status' = [status EXCEPT ![t] =
                  IF @ \in {"armed", "pending"} THEN "cancelled" ELSE @]
  /\ UNCHANGED <<lastRow, world, process, resumeQ, handlers, pc, owner, bounds>>

-----------------------------------------------------------------------------
(* One run.  Every step needs the process; a lost run is "ended".          *)

\* _run() moves to its next await with nothing else changed.
MoveTo(r, place) == pc' = [pc EXCEPT ![r] = place]

\* setStatus() and Executions.record() in one synchronous block.
Persist(t, s, row) ==
  /\ status' = [status EXCEPT ![t] = s]
  /\ lastRow' = [lastRow EXCEPT ![t] = row]

RunFrame == UNCHANGED <<world, process, resumeQ, handlers, owner, cancelled, bounds>>

\* _sleepUntil() notices the flag on its next hop.
SleepAborted(r) ==
  /\ pc[r] \in Waiting
  /\ cancelled[r]
  /\ MoveTo(r, "ended")
  /\ Cleanup(owner[r])
  /\ UNCHANGED db /\ RunFrame

\* _sleepUntil(fireAt - preWarmLead) returns true.
WakeToPreWarm(r) ==
  /\ pc[r] = "waitPrewarm"
  /\ ~cancelled[r]
  /\ clock[owner[r]] >= PreWarmTime
  /\ MoveTo(r, "prewarming")
  /\ UNCHANGED <<db, active, pool>> /\ RunFrame

\* preWarm() resolves; state.pool is assigned whether or not the run has been
\* cancelled meanwhile.
PreWarmed(r) ==
  /\ pc[r] = "prewarming"
  /\ MoveTo(r, "building")
  /\ pool' = [pool EXCEPT ![r] = "open"]
  /\ UNCHANGED <<db, active>> /\ RunFrame

\* preWarm() throws (RPC pool exhausted, wrong chain id): arm()'s catch.
PreWarmFails(r) ==
  /\ pc[r] = "prewarming"
  /\ Persist(owner[r], "failed", "crashed")
  /\ MoveTo(r, "notifying")
  /\ UNCHANGED <<active, pool>> /\ RunFrame

\* buildTemplate() resolves; the flag is read before the notification.
Built(r) ==
  /\ pc[r] = "building"
  /\ IF cancelled[r]
     THEN MoveTo(r, "ended") /\ Cleanup(owner[r])
     ELSE MoveTo(r, "announcing") /\ UNCHANGED <<active, pool>>
  /\ UNCHANGED db /\ RunFrame

\* buildTemplate() throws: "aborted at pre-flight", cancelled or not.
BuildFails(r) ==
  /\ pc[r] = "building"
  /\ Persist(owner[r], "failed", "preflight")
  /\ MoveTo(r, "notifying")
  /\ UNCHANGED <<active, pool>> /\ RunFrame

Announced(r) ==
  /\ pc[r] = "announcing"
  /\ MoveTo(r, "waitOpen")
  /\ UNCHANGED <<db, active, pool>> /\ RunFrame

\* Mutant: FIRING is not written before the first attempt.
FireUnrecorded(r) ==
  /\ pc[r] = "waitOpen"
  /\ ~cancelled[r]
  /\ clock[owner[r]] >= MintTime
  /\ MoveTo(r, "firing")
  /\ UNCHANGED <<db, active, pool>> /\ RunFrame

\* _sleepUntil(fireAt) returns true and the run starts firing.
Fire(r) ==
  /\ pc[r] = "waitOpen"
  /\ ~cancelled[r]
  /\ clock[owner[r]] >= MintTime
  /\ MoveTo(r, "firing")
  /\ status' = [status EXCEPT ![owner[r]] = "firing"]
  /\ UNCHANGED <<lastRow, active, pool>> /\ RunFrame

\* One attempt of fire(), recorded by onAttempt(): it may get a transaction out
\* (a destroyed pool rejects every new request), and it is recorded as a failure
\* also when the answer is lost.
Attempt(r) ==
  /\ pc[r] = "firing"
  /\ \/ tx[r] = "none" /\ pool[r] = "open" /\ tx' = [tx EXCEPT ![r] = "sent"]
     \/ UNCHANGED tx
  /\ \E row \in {"failed"} \cup (IF tx'[r] = "none" THEN {} ELSE {"broadcast"}) :
       lastRow' = [lastRow EXCEPT ![owner[r]] = row]
  /\ UNCHANGED <<status, clock, process, resumeQ, active, handlers, runVars, bounds>>

\* Mutant: the two columns are swapped.
FireSucceedsSwapped(r) ==
  /\ pc[r] = "firing"
  /\ tx[r] = "minted"
  /\ Persist(owner[r], "confirmed", "done")
  /\ MoveTo(r, "notifying")
  /\ UNCHANGED <<active, pool>> /\ RunFrame

\* Mutant: a transaction that was sent counts as minted.
FireSucceedsUnseen(r) ==
  /\ pc[r] = "firing"
  /\ tx[r] # "none"
  /\ Persist(owner[r], "done", "confirmed")
  /\ MoveTo(r, "notifying")
  /\ UNCHANGED <<active, pool>> /\ RunFrame

\* fire() returns success: the watcher saw a receipt with status 1.
FireSucceeds(r) ==
  /\ pc[r] = "firing"
  /\ tx[r] = "minted"
  /\ Persist(owner[r], "done", "confirmed")
  /\ MoveTo(r, "notifying")
  /\ UNCHANGED <<active, pool>> /\ RunFrame

\* fire() gives up (revert, budget, nonce, attempts, timeout).
FireFails(r) ==
  /\ pc[r] = "firing"
  /\ Persist(owner[r], "failed", "failed")
  /\ MoveTo(r, "notifying")
  /\ UNCHANGED <<active, pool>> /\ RunFrame

\* The last notification settles, whether or not it was delivered.
Finish(r) ==
  /\ pc[r] = "notifying"
  /\ MoveTo(r, "ended")
  /\ Cleanup(owner[r])
  /\ UNCHANGED db /\ RunFrame

-----------------------------------------------------------------------------
(* Process life cycle                                                      *)

Ends ==
  /\ LoseMemory
  /\ process' = "down"
  /\ restarts' = restarts + 1

\* The machine, the process or the event loop dies.
Crash ==
  /\ process # "down"
  /\ restarts < MaxRestarts
  /\ Ends
  /\ UNCHANGED <<db, world, arms>>

\* SIGTERM: scheduler.shutdown() cleans every entry up, cancelling no run.
Shutdown ==
  /\ process \in {"booting", "serving"}
  /\ restarts < MaxRestarts
  /\ process' = "stopping"
  /\ active' = [t \in Targets |-> None]
  /\ pool' = [r \in Runs |-> IF /\ pool[r] = "open"
                                /\ \E t \in Targets : active[t] = r
                             THEN "destroyed" ELSE pool[r]]
  /\ UNCHANGED <<db, world, resumeQ, handlers, pc, owner, cancelled, bounds>>

\* ... and, once the health server is closed, process.exit(0).
Exit ==
  /\ process = "stopping"
  /\ Ends
  /\ UNCHANGED <<db, world, arms>>

\* Mutant: listArmed() forgets what was firing.
BootArmedOnly ==
  /\ process = "down"
  /\ process' = "booting"
  /\ resumeQ' = {t \in Targets : status[t] = "armed"}
  /\ UNCHANGED <<db, world, active, handlers, runVars, bounds>>

\* systemd (Restart=always) starts main(); resumeAll() reads its rows.
Boot ==
  /\ process = "down"
  /\ process' = "booting"
  /\ resumeQ' = {t \in Targets : status[t] \in InFlight}
  /\ UNCHANGED <<db, world, active, handlers, runVars, bounds>>

\* ORDER BY mint_start_at ASC.
IsNext(t) ==
  /\ t \in resumeQ
  /\ \A u \in resumeQ : clock[u] <= clock[t]

Resume(t) ==
  /\ IsNext(t)
  /\ clock[t] < WindowMissed
  /\ resumeQ' = resumeQ \ {t}
  /\ \E r \in Runs : StartRun(t, r)
  /\ UNCHANGED <<lastRow, world, process, handlers, bounds>>

\* "missed mint window".
ResumeMissed(t) ==
  /\ IsNext(t)
  /\ clock[t] = WindowMissed
  /\ Persist(t, "failed", "missed")
  /\ resumeQ' = resumeQ \ {t}
  /\ UNCHANGED <<world, process, active, handlers, runVars, bounds>>

\* ... and its unguarded notification throws, which ends main().
ResumeMissedThrows(t) ==
  /\ IsNext(t)
  /\ clock[t] = WindowMissed
  /\ restarts < MaxRestarts
  /\ Persist(t, "failed", "missed")
  /\ Ends
  /\ UNCHANGED <<world, arms>>

\* bot.launch(): commands are served from here on.
Launch ==
  /\ process = "booting"
  /\ resumeQ = {}
  /\ process' = "serving"
  /\ UNCHANGED <<db, world, resumeQ, active, handlers, runVars, bounds>>

-----------------------------------------------------------------------------
(* The world: time passes, the chain includes or reverts transactions.     *)

Tick(t) ==
  /\ clock[t] < WindowMissed
  /\ clock' = [clock EXCEPT ![t] = @ + 1]
  /\ UNCHANGED <<db, tx, process, resumeQ, active, handlers, runVars, bounds>>

Include(r) ==
  /\ tx[r] = "sent"
  /\ \E outcome \in {"minted", "reverted"} : tx' = [tx EXCEPT ![r] = outcome]
  /\ UNCHANGED <<db, clock, process, resumeQ, active, handlers, runVars, bounds>>

-----------------------------------------------------------------------------
Command(t) == ArmCheck(t) \/ ArmCommit(t) \/ ArmRejected(t) \/ Disarm(t)

RunStep(r) ==
  \/ SleepAborted(r)  \/ WakeToPreWarm(r)
  \/ PreWarmed(r)     \/ PreWarmFails(r)
  \/ Built(r)         \/ BuildFails(r)
  \/ Announced(r)     \/ Fire(r)
  \/ FireSucceeds(r)  \/ FireFails(r)
  \/ Finish(r)

ResumeStep(t) == Resume(t) \/ ResumeMissed(t) \/ ResumeMissedThrows(t)

Next ==
  \/ \E t \in Targets : Command(t) \/ ResumeStep(t) \/ Tick(t)
  \/ \E r \in Runs : RunStep(r) \/ Attempt(r) \/ Include(r)
  \/ Crash \/ Shutdown \/ Exit \/ Boot \/ Launch

Spec == Init /\ [][Next]_vars

\* Timers fire, promises settle, systemd restarts the service, rows are
\* resumed and time passes.  Users, crashes, signals and the chain owe nothing.
Fairness ==
  /\ \A r \in Runs : WF_vars(RunStep(r))
  /\ \A t \in Targets : WF_vars(ResumeStep(t)) /\ WF_vars(Tick(t))
  /\ WF_vars(Exit) /\ WF_vars(Boot) /\ WF_vars(Launch)

FairSpec == Spec /\ Fairness

-----------------------------------------------------------------------------
(* Properties                                                              *)

Running(r) == pc[r] \in PreFire /\ ~cancelled[r]

\* The active map never points at a dead, cancelled or foreign run, whatever
\* the order in which arm(), disarm() and late _cleanup() calls hit it: what
\* /disarm finds under an id is always a run it can still stop.
EntrySound ==
  \A t \in Targets : active[t] # None =>
    /\ pc[active[t]] \in Live
    /\ owner[active[t]] = t
    /\ ~cancelled[active[t]]

\* No zombie rows: while the bot runs, a target the database shows as armed has
\* a run that was not cancelled and has not fired, and one shown as firing has a
\* run inside fire() (rows resumeAll() has yet to visit excepted).
ArmedIsScheduled ==
  process # "down" =>
    \A t \in Targets \ resumeQ :
      /\ status[t] = "armed" => \E r \in Runs : owner[r] = t /\ Running(r)
      /\ status[t] = "firing" => \E r \in Runs : owner[r] = t /\ pc[r] = "firing"

\* A run starts to fire only a target the database still shows as armed: after
\* /disarm answered "disarmed", or once a target is settled, nothing fires it.
FiresOnlyArmed ==
  [][\A r \in Runs : pc[r] # "firing" /\ pc'[r] = "firing"
                       => status[owner[r]] = "armed"]_vars

\* /disarm sets a row to cancelled, and answers "disarmed" without a warning, only
\* while nothing is out: whatever run of the target is still alive then has sent no
\* transaction.  (One that a process before the last restart sent is excepted: the
\* bot forgets it with the run, and does not warn of it.)
CancelledBeforeSent ==
  [][\A t \in Targets : status[t] # "cancelled" /\ status'[t] = "cancelled" =>
       \A r \in Runs : owner[r] = t /\ pc[r] \in Live => tx[r] = "none"]_vars

\* A settled target stays settled: no late run, restart or /disarm moves it,
\* only an /arm the user issues, and that only after a failure.
SettledIsFinal ==
  [][\A t \in Targets : status[t] \in {"done", "failed"} =>
       \/ status'[t] = status[t]
       \/ /\ status[t] = "failed" /\ status'[t] = "armed"
          /\ handlers'[t] < handlers[t]]_vars

\* A row that tells the user nothing was fired is the truth: no transaction of
\* the target ever left the process.
NotFiredIsTrue ==
  \A t \in Targets : lastRow[t] \in {"missed", "preflight"} =>
    \A r \in Runs : owner[r] = t => tx[r] = "none"

\* The transactions of t that came at least as far as one of the stages given.
TxsAt(t, stages) == {r \in Runs : owner[r] = t /\ tx[r] \in stages}

Lifecycle == INSTANCE TargetLifecycle WITH
  Txs    <- Runs,
  sent   <- [t \in Targets |-> TxsAt(t, {"sent", "minted", "reverted"})],
  minted <- [t \in Targets |-> TxsAt(t, {"minted"})]

\* Runs, timers, restarts and clean-ups add up to the life of a target its owner
\* was promised: it sends only while firing, fires only when armed, is cancelled
\* only before that, and is done only when a transaction of its own minted.
ImplementsLifecycle == Lifecycle!Spec

\* Every target taken on is eventually settled: done, failed or cancelled.
Settles ==
  \A t \in Targets : status[t] \in InFlight ~> status[t] \notin InFlight
=============================================================================
