-------------------------- MODULE SchedulerProofs --------------------------
(* Safety of the scheduler for every set of targets and runs and every       *)
(* bound: what MCScheduler checks on small instances, proved.                *)
EXTENDS Scheduler, TLAPS

-----------------------------------------------------------------------------
(* Types                                                                     *)

\* A run that has been started has the target it was started for.
Owned == \A r \in Runs : pc[r] # "unborn" => owner[r] \in Targets

LEMMA InitTyped == Init => TypeOK /\ Owned
BY DEF Init, TypeOK, Owned, TargetStatus, RowKinds, Early, WindowMissed, Locations

LEMMA TimeConstants == /\ Early = 0 /\ PreWarmTime = 1
                       /\ MintTime = 2 /\ WindowMissed = 3
BY DEF Early, PreWarmTime, MintTime, WindowMissed

\* What the helpers leave behind.
LEMMA CancelTyped ==
  ASSUME TypeOK, NEW t \in Targets, CancelRegistered(t)
  PROVE  /\ cancelled' \in [Runs -> BOOLEAN]
         /\ pool' \in [Runs -> {"none", "open", "destroyed"}]
<1>1. CASE active[t] = None
  BY <1>1 DEF TypeOK, CancelRegistered
<1>2. CASE active[t] # None
  <2>1. active[t] \in Runs  BY <1>2 DEF TypeOK
  <2>. QED  BY <1>2, <2>1 DEF TypeOK, CancelRegistered, ClosePool
<1>. QED  BY <1>1, <1>2

LEMMA StartTyped ==
  ASSUME TypeOK, Owned, NEW t \in Targets, NEW r \in Runs, StartRun(t, r)
  PROVE  /\ status' \in [Targets -> TargetStatus]
         /\ active' \in [Targets -> Runs \cup {None}]
         /\ pc' \in [Runs -> Locations]
         /\ owner' \in [Runs -> Targets \cup {None}]
         /\ cancelled' \in [Runs -> BOOLEAN]
         /\ pool' \in [Runs -> {"none", "open", "destroyed"}]
         /\ Owned'
<1>1. CancelRegistered(t)  BY DEF StartRun
<1>. QED
  BY <1>1, CancelTyped DEF TypeOK, Owned, StartRun, TargetStatus, Locations, Live,
                           PreFire, Waiting

LEMMA EndsTyped ==
  ASSUME TypeOK, Owned, Ends
  PROVE  /\ process' \in {"down", "booting", "serving", "stopping"}
         /\ resumeQ' \in SUBSET Targets
         /\ active' \in [Targets -> Runs \cup {None}]
         /\ handlers' \in [Targets -> Nat]
         /\ pc' \in [Runs -> Locations]
         /\ owner' \in [Runs -> Targets \cup {None}]
         /\ cancelled' \in [Runs -> BOOLEAN]
         /\ pool' \in [Runs -> {"none", "open", "destroyed"}]
         /\ restarts' \in Nat
         /\ Owned'
BY DEF TypeOK, Owned, Ends, LoseMemory, Locations

LEMMA CommandTyped ==
  ASSUME TypeOK, Owned, NEW t \in Targets, Command(t)
  PROVE  TypeOK' /\ Owned'
<1>1. CASE ArmCheck(t)
  BY <1>1 DEF TypeOK, Owned, ArmCheck, db, world, runVars
<1>2. CASE ArmCommit(t)
  <2>1. PICK r \in Runs : StartRun(t, r)  BY <1>2 DEF ArmCommit
  <2>2. handlers' \in [Targets -> Nat]  BY <1>2 DEF ArmCommit, TypeOK
  <2>. QED  BY <1>2, <2>1, <2>2, StartTyped DEF TypeOK, ArmCommit, world, bounds
<1>3. CASE ArmRejected(t)
  BY <1>3 DEF TypeOK, Owned, ArmRejected, db, world, runVars, bounds
<1>4. CASE Disarm(t)
  BY <1>4, CancelTyped DEF TypeOK, Owned, Disarm, TargetStatus, world, bounds
<1>. QED  BY <1>1, <1>2, <1>3, <1>4 DEF Command

LEMMA RunTyped ==
  ASSUME TypeOK, Owned, NEW r \in Runs,
         RunStep(r) \/ Attempt(r) \/ Include(r)
  PROVE  TypeOK' /\ Owned'
<1>. USE DEF TypeOK, Owned, RunFrame, MoveTo, Persist, Cleanup, ClosePool,
             Locations, Live, PreFire, Waiting, TargetStatus, RowKinds,
             db, world, bounds
<1>1. CASE SleepAborted(r)   BY <1>1 DEF SleepAborted
<1>2. CASE WakeToPreWarm(r)  BY <1>2 DEF WakeToPreWarm
<1>3. CASE PreWarmed(r)      BY <1>3 DEF PreWarmed
<1>4. CASE PreWarmFails(r)   BY <1>4 DEF PreWarmFails
<1>5. CASE Built(r)          BY <1>5 DEF Built
<1>6. CASE BuildFails(r)     BY <1>6 DEF BuildFails
<1>7. CASE Announced(r)      BY <1>7 DEF Announced
<1>8. CASE Fire(r)           BY <1>8 DEF Fire
<1>9. CASE FireSucceeds(r)   BY <1>9 DEF FireSucceeds
<1>10. CASE FireFails(r)     BY <1>10 DEF FireFails
<1>11. CASE Finish(r)        BY <1>11 DEF Finish
<1>12. CASE Attempt(r)       BY <1>12 DEF Attempt, runVars
<1>13. CASE Include(r)       BY <1>13 DEF Include, runVars
<1>. QED  BY <1>1, <1>2, <1>3, <1>4, <1>5, <1>6, <1>7, <1>8, <1>9, <1>10,
             <1>11, <1>12, <1>13 DEF RunStep

LEMMA ResumeTyped ==
  ASSUME TypeOK, Owned, NEW t \in Targets, ResumeStep(t)
  PROVE  TypeOK' /\ Owned'
<1>1. CASE Resume(t)
  <2>1. PICK r \in Runs : StartRun(t, r)  BY <1>1 DEF Resume
  <2>. QED  BY <1>1, <2>1, StartTyped DEF TypeOK, Resume, world, bounds
<1>2. CASE ResumeMissed(t)
  BY <1>2 DEF TypeOK, Owned, ResumeMissed, Persist, TargetStatus, RowKinds,
              world, runVars, bounds
<1>3. CASE ResumeMissedThrows(t)
  BY <1>3, EndsTyped DEF TypeOK, ResumeMissedThrows, Persist, TargetStatus,
                         RowKinds, world
<1>. QED  BY <1>1, <1>2, <1>3 DEF ResumeStep

LEMMA ProcessTyped ==
  ASSUME TypeOK, Owned, Crash \/ Shutdown \/ Exit \/ Boot \/ Launch
  PROVE  TypeOK' /\ Owned'
<1>1. CASE Crash \/ Exit
  BY <1>1, EndsTyped DEF TypeOK, Crash, Exit, db, world
<1>2. CASE Shutdown
  BY <1>2 DEF TypeOK, Owned, Shutdown, db, world, bounds
<1>3. CASE Boot
  BY <1>3 DEF TypeOK, Owned, Boot, db, world, runVars, bounds
<1>4. CASE Launch
  BY <1>4 DEF TypeOK, Owned, Launch, db, world, runVars, bounds
<1>. QED  BY <1>1, <1>2, <1>3, <1>4

LEMMA NextTyped == TypeOK /\ Owned /\ [Next]_vars => TypeOK' /\ Owned'
<1>. SUFFICES ASSUME TypeOK, Owned, [Next]_vars  PROVE TypeOK' /\ Owned'
  OBVIOUS
<1>1. ASSUME NEW t \in Targets, Tick(t)  PROVE TypeOK' /\ Owned'
  BY <1>1, TimeConstants DEF TypeOK, Owned, Tick, db, runVars, bounds
<1>2. CASE UNCHANGED vars
  BY <1>2 DEF vars, TypeOK, Owned
<1>. QED
  BY <1>1, <1>2, CommandTyped, ResumeTyped, RunTyped, ProcessTyped DEF Next

\* Every reachable state is well typed, for all targets, runs and bounds.
THEOREM TypeCorrect == Spec => []TypeOK
<1>1. Spec => [](TypeOK /\ Owned)
  BY InitTyped, NextTyped, PTL DEF Spec
<1>. QED  BY <1>1, PTL

-----------------------------------------------------------------------------
(* The active map                                                            *)

\* What makes EntrySound inductive: a run is cancelled only after its start, so
\* the one arm() takes for a new entry is not.
Fresh == \A r \in Runs : pc[r] = "unborn" => ~cancelled[r]

Map == EntrySound /\ Fresh

LEMMA InitMap == Init => Map
BY NoneAssumption DEF Init, Map, EntrySound, Fresh

LEMMA StartMap ==
  ASSUME TypeOK, Map, NEW t \in Targets, NEW r \in Runs, StartRun(t, r)
  PROVE  Map'
<1>1. /\ pc[r] = "unborn" /\ ~cancelled[r]
      /\ active' = [active EXCEPT ![t] = r]
      /\ pc' = [pc EXCEPT ![r] = "waitPrewarm"]
      /\ owner' = [owner EXCEPT ![r] = t]
  BY DEF StartRun, Map, Fresh
<1>2. \A s \in Runs : cancelled'[s] # cancelled[s] => s = active[t]
  BY DEF StartRun, CancelRegistered, TypeOK
<1>3. \A s \in Runs : pc[s] = "unborn" => ~cancelled'[s]
  BY <1>2, NoneAssumption DEF Map, EntrySound, Fresh, TypeOK, Live, PreFire, Waiting
<1>4. Fresh'
  BY <1>1, <1>3 DEF Fresh, TypeOK
<1>5. ASSUME NEW u \in Targets, active'[u] # None
      PROVE  /\ pc'[active'[u]] \in Live
             /\ owner'[active'[u]] = u
             /\ ~cancelled'[active'[u]]
  <2>1. CASE u = t
    <3>1. active'[u] = r  BY <1>1, <2>1 DEF TypeOK
    <3>. QED  BY <1>1, <1>3, <2>1, <3>1 DEF TypeOK, Live, PreFire, Waiting
  <2>2. CASE u # t
    <3>1. active'[u] = active[u]  BY <1>1, <2>2 DEF TypeOK
    <3>2. active[u] \in Runs /\ pc[active[u]] \in Live /\ owner[active[u]] = u
          /\ ~cancelled[active[u]]
      BY <1>5, <3>1 DEF Map, EntrySound, TypeOK
    <3>3. active[u] # r
      BY <1>1, <3>2 DEF Live, PreFire, Waiting
    <3>4. active[u] # active[t]
      BY <2>2, <3>2, NoneAssumption DEF Map, EntrySound
    <3>5. ~cancelled'[active[u]]
      BY <1>2, <3>2, <3>4
    <3>. QED  BY <1>1, <3>1, <3>2, <3>3, <3>5 DEF TypeOK
  <2>. QED  BY <2>1, <2>2
<1>. QED  BY <1>4, <1>5 DEF Map, EntrySound

LEMMA DisarmMap ==
  ASSUME TypeOK, Map, NEW t \in Targets, Disarm(t)
  PROVE  Map'
<1>1. /\ active' = [active EXCEPT ![t] = None]
      /\ pc' = pc /\ owner' = owner
  BY DEF Disarm
<1>2. \A s \in Runs : cancelled'[s] # cancelled[s] => s = active[t]
  BY DEF Disarm, CancelRegistered, TypeOK
<1>3. \A s \in Runs : pc[s] = "unborn" => ~cancelled'[s]
  BY <1>2, NoneAssumption DEF Map, EntrySound, Fresh, TypeOK, Live, PreFire, Waiting
<1>4. ASSUME NEW u \in Targets, active'[u] # None
      PROVE  /\ pc'[active'[u]] \in Live
             /\ owner'[active'[u]] = u
             /\ ~cancelled'[active'[u]]
  <2>1. u # t /\ active'[u] = active[u]  BY <1>1, <1>4 DEF TypeOK
  <2>2. active[u] \in Runs /\ active[u] # active[t]
    BY <1>4, <2>1 DEF Map, EntrySound, TypeOK
  <2>. QED  BY <1>1, <1>2, <1>4, <2>1, <2>2 DEF Map, EntrySound
<1>. QED  BY <1>1, <1>3, <1>4 DEF Map, EntrySound, Fresh

\* A run that stays alive leaves the map sound as long as the map is left alone.
LEMMA StayMap ==
  ASSUME TypeOK, Map, NEW r \in Runs, pc[r] \in Live, NEW place \in Live,
         MoveTo(r, place), UNCHANGED <<active, owner, cancelled>>
  PROVE  Map'
BY DEF Map, EntrySound, Fresh, MoveTo, TypeOK, Live, PreFire, Waiting

\* A run that returns takes the entry of its target with it, whosever it is.
LEMMA ReturnMap ==
  ASSUME TypeOK, Owned, Map, NEW r \in Runs, pc[r] \in Live,
         MoveTo(r, "ended"), Cleanup(owner[r]), UNCHANGED <<owner, cancelled>>
  PROVE  Map'
<1>1. owner[r] \in Targets
  BY DEF Owned, Live, PreFire, Waiting
<1>2. ASSUME NEW u \in Targets, active'[u] # None
      PROVE  active'[u] = active[u] /\ active[u] # r
  BY <1>1, <1>2 DEF Cleanup, TypeOK, Map, EntrySound
<1>. QED
  BY <1>2 DEF Map, EntrySound, Fresh, MoveTo, TypeOK

LEMMA RunMap ==
  ASSUME TypeOK, Owned, Map, NEW r \in Runs, RunStep(r)
  PROVE  Map'
<1>. USE DEF RunFrame, Live, PreFire, Waiting
<1>1. CASE SleepAborted(r)   BY <1>1, ReturnMap DEF SleepAborted
<1>2. CASE WakeToPreWarm(r)  BY <1>2, StayMap DEF WakeToPreWarm
<1>3. CASE PreWarmed(r)      BY <1>3, StayMap DEF PreWarmed
<1>4. CASE PreWarmFails(r)   BY <1>4, StayMap DEF PreWarmFails
<1>5. CASE Built(r)          BY <1>5, StayMap, ReturnMap DEF Built
<1>6. CASE BuildFails(r)     BY <1>6, StayMap DEF BuildFails
<1>7. CASE Announced(r)      BY <1>7, StayMap DEF Announced
<1>8. CASE Fire(r)           BY <1>8, StayMap DEF Fire
<1>9. CASE FireSucceeds(r)   BY <1>9, StayMap DEF FireSucceeds
<1>10. CASE FireFails(r)     BY <1>10, StayMap DEF FireFails
<1>11. CASE Finish(r)        BY <1>11, ReturnMap DEF Finish
<1>. QED  BY <1>1, <1>2, <1>3, <1>4, <1>5, <1>6, <1>7, <1>8, <1>9, <1>10,
             <1>11 DEF RunStep

LEMMA EndsMap == ASSUME TypeOK, Ends  PROVE Map'
BY DEF Ends, LoseMemory, Map, EntrySound, Fresh

LEMMA NextMap == TypeOK /\ Owned /\ Map /\ [Next]_vars => Map'
<1>. SUFFICES ASSUME TypeOK, Owned, Map, [Next]_vars  PROVE Map'
  OBVIOUS
<1>1. ASSUME UNCHANGED <<active, pc, owner, cancelled>>  PROVE Map'
  BY <1>1 DEF Map, EntrySound, Fresh
<1>2. ASSUME NEW t \in Targets, Command(t)  PROVE Map'
  <2>1. CASE ArmCheck(t) \/ ArmRejected(t)
    BY <1>1, <2>1 DEF ArmCheck, ArmRejected, runVars
  <2>2. CASE ArmCommit(t)
    BY <2>2, StartMap DEF ArmCommit
  <2>3. CASE Disarm(t)
    BY <2>3, DisarmMap
  <2>. QED  BY <1>2, <2>1, <2>2, <2>3 DEF Command
<1>3. ASSUME NEW t \in Targets, ResumeStep(t)  PROVE Map'
  <2>1. CASE Resume(t)              BY <2>1, StartMap DEF Resume
  <2>2. CASE ResumeMissed(t)        BY <1>1, <2>2 DEF ResumeMissed, runVars
  <2>3. CASE ResumeMissedThrows(t)  BY <2>3, EndsMap DEF ResumeMissedThrows
  <2>. QED  BY <1>3, <2>1, <2>2, <2>3 DEF ResumeStep
<1>4. ASSUME NEW t \in Targets, Tick(t)  PROVE Map'
  BY <1>1, <1>4 DEF Tick, runVars
<1>5. ASSUME NEW r \in Runs, Attempt(r) \/ Include(r)  PROVE Map'
  BY <1>1, <1>5 DEF Attempt, Include, runVars
<1>6. CASE Crash \/ Exit   BY <1>6, EndsMap DEF Crash, Exit
<1>7. CASE Shutdown        BY <1>7 DEF Shutdown, Map, EntrySound, Fresh
<1>8. CASE Boot \/ Launch  BY <1>1, <1>8 DEF Boot, Launch, runVars
<1>9. CASE UNCHANGED vars  BY <1>1, <1>9 DEF vars
<1>. QED
  BY <1>2, <1>3, <1>4, <1>5, <1>6, <1>7, <1>8, <1>9, RunMap DEF Next

LEMMA MapInvariant == Spec => [](TypeOK /\ Owned /\ Map)
BY InitTyped, NextTyped, InitMap, NextMap, PTL DEF Spec

\* /disarm and arm() only ever find a live, uncancelled run of the very target,
\* whatever order late clean-ups, commands and restarts come in.
THEOREM EntriesAreSound == Spec => []EntrySound
<1>1. Map => EntrySound  BY DEF Map
<1>. QED  BY <1>1, MapInvariant, PTL

-----------------------------------------------------------------------------
(* How a run comes to fire                                                   *)

\* Only Fire starts to fire.
LEMMA FireStep ==
  ASSUME TypeOK, [Next]_vars, NEW r \in Runs, pc[r] # "firing", pc'[r] = "firing"
  PROVE  Fire(r)
<1>1. ASSUME NEW s \in Runs, RunStep(s)  PROVE Fire(r)
  <2>1. CASE Fire(s)
    BY <2>1 DEF Fire, MoveTo, TypeOK
  <2>2. CASE ~Fire(s)
    <3>1. \E place \in Locations \ {"firing"} : MoveTo(s, place)
      BY <1>1, <2>2 DEF RunStep, SleepAborted, WakeToPreWarm, PreWarmed,
           PreWarmFails, Built, BuildFails, Announced, FireSucceeds, FireFails,
           Finish, Locations, Live, PreFire, Waiting
    <3>. QED  BY <3>1 DEF MoveTo, TypeOK
  <2>. QED  BY <2>1, <2>2
<1>2. ASSUME NEW t \in Targets, Command(t) \/ ResumeStep(t) \/ Tick(t)  PROVE FALSE
  BY <1>2 DEF Command, ArmCheck, ArmCommit, ArmRejected, Disarm, ResumeStep, Resume,
       ResumeMissed, ResumeMissedThrows, StartRun, Ends, LoseMemory, Tick, runVars,
       TypeOK
<1>3. ASSUME NEW s \in Runs, Attempt(s) \/ Include(s)  PROVE FALSE
  BY <1>3 DEF Attempt, Include, runVars
<1>4. CASE Crash \/ Shutdown \/ Exit \/ Boot \/ Launch
  BY <1>4 DEF Crash, Shutdown, Exit, Boot, Launch, Ends, LoseMemory, runVars
<1>5. CASE UNCHANGED vars
  BY <1>5 DEF vars
<1>. QED  BY <1>1, <1>2, <1>3, <1>4, <1>5 DEF Next

-----------------------------------------------------------------------------
(* No zombie rows                                                            *)

\* ArmedIsScheduled, one target at a time.
Witnessed(t) ==
  /\ status[t] = "armed" => \E r \in Runs : owner[r] = t /\ Running(r)
  /\ status[t] = "firing" => \E r \in Runs : owner[r] = t /\ pc[r] = "firing"

\* A step of a run: either it leaves the run in PreFire and the row alone, or
\* it moves the row along with the run.
LEMMA RunWitnessed ==
  ASSUME TypeOK, Owned, NEW r \in Runs, RunStep(r), NEW t \in Targets, Witnessed(t)
  PROVE  Witnessed(t)'
<1>. USE DEF RunFrame, MoveTo, Persist, TypeOK, Witnessed, Running, Live, PreFire,
             Waiting
<1>1. CASE SleepAborted(r)   BY <1>1 DEF SleepAborted, db
<1>2. CASE WakeToPreWarm(r)  BY <1>2 DEF WakeToPreWarm, db
<1>3. CASE PreWarmed(r)      BY <1>3 DEF PreWarmed, db
<1>4. CASE PreWarmFails(r)   BY <1>4 DEF PreWarmFails
<1>5. CASE Built(r)          BY <1>5 DEF Built, db
<1>6. CASE BuildFails(r)     BY <1>6 DEF BuildFails
<1>7. CASE Announced(r)      BY <1>7 DEF Announced, db
<1>8. CASE Fire(r)           BY <1>8 DEF Fire
<1>9. CASE FireSucceeds(r)   BY <1>9 DEF FireSucceeds
<1>10. CASE FireFails(r)     BY <1>10 DEF FireFails
<1>11. CASE Finish(r)        BY <1>11 DEF Finish, db
<1>. QED  BY <1>1, <1>2, <1>3, <1>4, <1>5, <1>6, <1>7, <1>8, <1>9, <1>10,
             <1>11 DEF RunStep

\* arm(t) cancels at most a run of t, and gives t a run of its own.
LEMMA StartWitnessed ==
  ASSUME TypeOK, Map, NEW t \in Targets, NEW r \in Runs, StartRun(t, r),
         NEW u \in Targets, u = t \/ Witnessed(u)
  PROVE  Witnessed(u)'
<1>1. /\ pc[r] = "unborn" /\ ~cancelled[r]
      /\ status' = [status EXCEPT ![t] = "armed"]
      /\ pc' = [pc EXCEPT ![r] = "waitPrewarm"]
      /\ owner' = [owner EXCEPT ![r] = t]
  BY DEF StartRun, Map, Fresh
<1>2. \A s \in Runs : cancelled'[s] # cancelled[s] => s = active[t]
  BY DEF StartRun, CancelRegistered, TypeOK
<1>3. \A s \in Runs : cancelled'[s] # cancelled[s] => owner[s] = t /\ pc[s] \in Live
  BY <1>2, NoneAssumption DEF Map, EntrySound
<1>4. CASE u = t
  <2>1. owner'[r] = t /\ pc'[r] = "waitPrewarm" /\ ~cancelled'[r]
    BY <1>1, <1>3 DEF TypeOK, Live, PreFire, Waiting
  <2>. QED  BY <1>1, <1>4, <2>1 DEF Witnessed, Running, TypeOK, PreFire, Waiting
<1>5. CASE u # t /\ Witnessed(u)
  <2>1. status'[u] = status[u]  BY <1>1, <1>5 DEF TypeOK
  <2>2. ASSUME NEW s \in Runs, owner[s] = u, pc[s] # "unborn"
        PROVE  owner'[s] = u /\ pc'[s] = pc[s] /\ cancelled'[s] = cancelled[s]
    BY <1>1, <1>3, <1>5, <2>2 DEF TypeOK
  <2>3. CASE status[u] = "armed"
    <3>1. PICK s \in Runs : owner[s] = u /\ Running(s)
      BY <1>5, <2>3 DEF Witnessed
    <3>. QED  BY <2>1, <2>2, <2>3, <3>1 DEF Witnessed, Running, PreFire, Waiting
  <2>4. CASE status[u] = "firing"
    <3>1. PICK s \in Runs : owner[s] = u /\ pc[s] = "firing"
      BY <1>5, <2>4 DEF Witnessed
    <3>. QED  BY <2>1, <2>2, <2>4, <3>1 DEF Witnessed
  <2>. QED  BY <2>1, <2>3, <2>4 DEF Witnessed
<1>. QED  BY <1>4, <1>5

\* /disarm cancels at most a run of t, and takes t out of "armed" if it does.
LEMMA DisarmWitnessed ==
  ASSUME TypeOK, Map, NEW t \in Targets, Disarm(t), NEW u \in Targets, Witnessed(u)
  PROVE  Witnessed(u)'
<1>1. /\ status' = [status EXCEPT ![t] =
                      IF @ \in {"armed", "pending"} THEN "cancelled" ELSE @]
      /\ pc' = pc /\ owner' = owner
  BY DEF Disarm
<1>2. \A s \in Runs : cancelled'[s] # cancelled[s] => owner[s] = t
  BY NoneAssumption DEF Disarm, CancelRegistered, TypeOK, Map, EntrySound
<1>3. CASE u = t  BY <1>1, <1>3 DEF Witnessed, TypeOK
<1>4. CASE u # t  BY <1>1, <1>2, <1>4 DEF Witnessed, Running, TypeOK
<1>. QED  BY <1>3, <1>4

LEMMA NextScheduled ==
  TypeOK /\ Owned /\ Map /\ ArmedIsScheduled /\ [Next]_vars => ArmedIsScheduled'
<1>. SUFFICES ASSUME TypeOK, Owned, Map, ArmedIsScheduled, [Next]_vars,
                     process' # "down", NEW u \in Targets, u \notin resumeQ'
              PROVE  Witnessed(u)'
  BY DEF ArmedIsScheduled, Witnessed
<1>1. ASSUME process # "down", u \notin resumeQ  PROVE Witnessed(u)
  BY <1>1 DEF ArmedIsScheduled, Witnessed
<1>2. ASSUME UNCHANGED <<status, pc, owner, cancelled>>, Witnessed(u)
      PROVE  Witnessed(u)'
  BY <1>2 DEF Witnessed, Running
<1>3. ASSUME NEW t \in Targets, Command(t)  PROVE Witnessed(u)'
  <2>1. CASE ArmCheck(t) \/ ArmRejected(t)
    BY <1>1, <1>2, <2>1 DEF ArmCheck, ArmRejected, db, runVars
  <2>2. CASE ArmCommit(t)
    BY <1>1, <2>2, StartWitnessed DEF ArmCommit
  <2>3. CASE Disarm(t)
    BY <1>1, <2>3, DisarmWitnessed DEF Disarm
  <2>. QED  BY <1>3, <2>1, <2>2, <2>3 DEF Command
<1>4. ASSUME NEW t \in Targets, ResumeStep(t)  PROVE Witnessed(u)'
  <2>1. CASE Resume(t)
    <3>1. u = t \/ u \notin resumeQ  BY <2>1 DEF Resume
    <3>. QED  BY <1>1, <2>1, <3>1, StartWitnessed DEF Resume
  <2>2. CASE ResumeMissed(t)
    <3>1. u = t \/ Witnessed(u)  BY <1>1, <2>2 DEF ResumeMissed
    <3>. QED
      BY <2>2, <3>1 DEF ResumeMissed, Persist, runVars, Witnessed, Running, TypeOK
  <2>3. CASE ResumeMissedThrows(t)
    BY <2>3 DEF ResumeMissedThrows, Ends
  <2>. QED  BY <1>4, <2>1, <2>2, <2>3 DEF ResumeStep
<1>5. ASSUME NEW t \in Targets, Tick(t)  PROVE Witnessed(u)'
  BY <1>1, <1>2, <1>5 DEF Tick, db, runVars
<1>6. ASSUME NEW r \in Runs, RunStep(r)  PROVE Witnessed(u)'
  <2>1. process' = process /\ resumeQ' = resumeQ
    BY <1>6 DEF RunStep, SleepAborted, WakeToPreWarm, PreWarmed, PreWarmFails, Built,
         BuildFails, Announced, Fire, FireSucceeds, FireFails, Finish, RunFrame
  <2>. QED  BY <1>1, <1>6, <2>1, RunWitnessed
<1>7. ASSUME NEW r \in Runs, Attempt(r) \/ Include(r)  PROVE Witnessed(u)'
  BY <1>1, <1>2, <1>7 DEF Attempt, Include, db, runVars
<1>8. CASE Crash \/ Exit
  BY <1>8 DEF Crash, Exit, Ends
<1>9. CASE Shutdown
  BY <1>1, <1>2, <1>9 DEF Shutdown, db
<1>10. CASE Boot
  \* every row that needs a run waits for resumeAll()
  BY <1>10 DEF Boot, db, InFlight, Witnessed
<1>11. CASE Launch
  BY <1>1, <1>2, <1>11 DEF Launch, db, runVars
<1>12. CASE UNCHANGED vars
  BY <1>1, <1>2, <1>12 DEF vars
<1>. QED
  BY <1>3, <1>4, <1>5, <1>6, <1>7, <1>8, <1>9, <1>10, <1>11, <1>12 DEF Next

\* As long as the bot runs, every row the database shows as armed or firing has a
\* run that will settle it: no step, clean-up, crash or restart leaves a zombie.
THEOREM ArmedTargetsAreScheduled == Spec => []ArmedIsScheduled
<1>1. Init => ArmedIsScheduled
  BY DEF Init, ArmedIsScheduled
<1>2. Spec => [](TypeOK /\ Owned /\ Map /\ ArmedIsScheduled)
  BY <1>1, InitTyped, NextTyped, InitMap, NextMap, NextScheduled, PTL DEF Spec
<1>. QED  BY <1>2, PTL

-----------------------------------------------------------------------------
(* Patient users: one run of a target at a time                              *)

\* r is a run of t that has not returned.
RunOf(t, r) == owner[r] = t /\ pc[r] \in Live

NoRun(t) == \A r \in Runs : ~RunOf(t, r)

\* Where a run stands tells what the row of its target says.
RowFollows(t, r) ==
  /\ pc[r] \in PreFire => status[t] = (IF cancelled[r] THEN "cancelled" ELSE "armed")
  /\ pc[r] = "firing" => status[t] = "firing"
  /\ pc[r] = "notifying" => status[t] \in {"done", "failed"}

\* While commands are served or rows resumed, /disarm finds every run of t.
Found(t, r) == process \in {"booting", "serving"} => cancelled[r] \/ active[t] = r

\* A handler about to arm t, a row of t waiting for resumeAll() and a run of t
\* exclude each other.
Orderly(t) ==
  /\ handlers[t] > 0 => /\ handlers[t] = 1 /\ t \notin resumeQ /\ NoRun(t)
                        /\ status[t] \in {"pending", "failed", "cancelled"}
  /\ t \in resumeQ => NoRun(t) /\ status[t] \in InFlight
  /\ \A r, s \in Runs : RunOf(t, r) /\ RunOf(t, s) => r = s
  /\ \A r \in Runs : RunOf(t, r) => RowFollows(t, r) /\ Found(t, r)

\* Nothing is in memory of a process that is down, and the rows are resumed
\* before commands are served.
Quiet ==
  /\ process = "serving" => resumeQ = {}
  /\ process = "down" => /\ resumeQ = {}
                         /\ \A t \in Targets : handlers[t] = 0 /\ NoRun(t)

\* Only a run that fires has a transaction.
SentWhileFiring == \A r \in Runs : tx[r] # "none" => pc[r] \in {"firing", "notifying", "ended"}

Orders == Quiet /\ SentWhileFiring /\ \A t \in Targets : Orderly(t)

LEMMA InitOrders == Init => Orders
BY DEF Init, Orders, Quiet, SentWhileFiring, Orderly, NoRun, RunOf, Live, PreFire, Waiting

\* A step that is not about t.
LEMMA OrderlyFrame ==
  ASSUME NEW t \in Targets, Orderly(t), handlers'[t] = handlers[t],
         status'[t] = status[t], active'[t] = active[t], t \in resumeQ' => t \in resumeQ,
         process' = process \/ process' = "stopping",
         \A r \in Runs : RunOf(t, r)' => /\ RunOf(t, r) /\ pc'[r] = pc[r]
                                         /\ cancelled'[r] = cancelled[r]
  PROVE  Orderly(t)'
BY DEF Orderly, NoRun, RowFollows, Found

\* arm(t), for a target with neither a run nor, from now on, anyone about to arm it.
LEMMA StartOrderly ==
  ASSUME TypeOK, Map, NEW t \in Targets, NEW r \in Runs, StartRun(t, r), NoRun(t),
         handlers'[t] = 0, t \notin resumeQ', UNCHANGED process,
         NEW u \in Targets,
         u # t => Orderly(u) /\ handlers'[u] = handlers[u] /\ (u \in resumeQ' => u \in resumeQ)
  PROVE  Orderly(u)'
<1>1. /\ pc[r] = "unborn" /\ ~cancelled[r]
      /\ status' = [status EXCEPT ![t] = "armed"]
      /\ active' = [active EXCEPT ![t] = r]
      /\ pc' = [pc EXCEPT ![r] = "waitPrewarm"]
      /\ owner' = [owner EXCEPT ![r] = t]
  BY DEF StartRun, Map, Fresh
<1>2. active[t] = None
  BY DEF NoRun, RunOf, Map, EntrySound, TypeOK
<1>3. cancelled' = cancelled
  BY <1>2 DEF StartRun, CancelRegistered
<1>4. \A s \in Runs \ {r} : RunOf(t, s)' => RunOf(t, s)
  BY <1>1 DEF RunOf, TypeOK
<1>5. CASE u = t
  <2>1. RunOf(t, r)' /\ \A s \in Runs : RunOf(t, s)' => s = r
    BY <1>1, <1>4 DEF NoRun, RunOf, TypeOK, Live, PreFire, Waiting
  <2>2. pc'[r] = "waitPrewarm" /\ status'[t] = "armed" /\ active'[t] = r /\ ~cancelled'[r]
    BY <1>1, <1>3 DEF TypeOK
  <2>3. RowFollows(t, r)' /\ Found(t, r)'
    BY <2>2 DEF RowFollows, Found, PreFire, Waiting
  <2>. QED  BY <1>5, <2>1, <2>3 DEF Orderly
<1>6. CASE u # t
  <2>1. \A s \in Runs : RunOf(u, s)' => /\ RunOf(u, s) /\ pc'[s] = pc[s]
                                        /\ cancelled'[s] = cancelled[s]
    BY <1>1, <1>3, <1>6 DEF RunOf, TypeOK
  <2>2. status'[u] = status[u] /\ active'[u] = active[u]
    BY <1>1, <1>6 DEF TypeOK
  <2>. QED  BY <1>6, <2>1, <2>2, OrderlyFrame
<1>. QED  BY <1>5, <1>6

\* /disarm cancels the run of t, if there is one, and its row along with it.
LEMMA DisarmOrderly ==
  ASSUME TypeOK, Map, NEW t \in Targets, Disarm(t), NEW u \in Targets, Orderly(u), Quiet
  PROVE  Orderly(u)'
<1>1. /\ status' = [status EXCEPT ![t] =
                      IF @ \in {"armed", "pending"} THEN "cancelled" ELSE @]
      /\ active' = [active EXCEPT ![t] = None]
      /\ process = "serving" /\ resumeQ = {}
      /\ UNCHANGED <<pc, owner, handlers, process, resumeQ>>
  BY DEF Disarm, Quiet
<1>2. \A s \in Runs : cancelled'[s] = (cancelled[s] \/ s = active[t])
  <2>1. CASE active[t] = None
    BY <2>1, NoneAssumption DEF Disarm, CancelRegistered, TypeOK
  <2>2. CASE active[t] # None
    BY <2>2 DEF Disarm, CancelRegistered, TypeOK
  <2>. QED  BY <2>1, <2>2
<1>3. CASE u = t
  <2>1. \A s \in Runs : RunOf(t, s)' => RunOf(t, s) /\ cancelled'[s] /\ pc'[s] = pc[s]
    BY <1>1, <1>2, <1>3 DEF Orderly, RunOf, Found
  <2>2. ASSUME NEW s \in Runs, RunOf(t, s)  PROVE RowFollows(t, s)'
    BY <1>1, <1>2, <1>3, <2>1, <2>2 DEF Orderly, RunOf, RowFollows, Found, TypeOK
  <2>3. \A s \in Runs : RunOf(t, s)' => RowFollows(t, s)' /\ Found(t, s)'
    BY <2>1, <2>2 DEF Found
  <2>4. handlers'[t] > 0 => status'[t] \in {"pending", "failed", "cancelled"}
    BY <1>1, <1>3 DEF Orderly, TypeOK
  <2>. QED  BY <1>1, <1>3, <2>1, <2>3, <2>4 DEF Orderly, NoRun
<1>4. CASE u # t
  <2>1. \A s \in Runs : RunOf(u, s) => s # active[t]
    BY <1>4, NoneAssumption DEF RunOf, Map, EntrySound
  <2>2. \A s \in Runs : RunOf(u, s)' => /\ RunOf(u, s) /\ pc'[s] = pc[s]
                                        /\ cancelled'[s] = cancelled[s]
    BY <1>1, <1>2, <2>1 DEF RunOf, TypeOK
  <2>3. status'[u] = status[u] /\ active'[u] = active[u]
    BY <1>1, <1>4 DEF TypeOK
  <2>. QED  BY <1>1, <2>2, <2>3, OrderlyFrame
<1>. QED  BY <1>3, <1>4

\* A step of a run: nothing of another target changes, and there is no other run
\* of its own.
LEMMA MoveOrderly ==
  ASSUME TypeOK, Owned, NEW r \in Runs, pc[r] \in Live, \A t \in Targets : Orderly(t),
         NEW place \in Locations \ {"unborn"}, MoveTo(r, place),
         UNCHANGED <<owner, cancelled, handlers, process, resumeQ>>,
         \A t \in Targets \ {owner[r]} : status'[t] = status[t] /\ active'[t] = active[t],
         place \in Live => RowFollows(owner[r], r)' /\ Found(owner[r], r)',
         NEW u \in Targets
  PROVE  Orderly(u)'
<1>1. owner[r] \in Targets /\ RunOf(owner[r], r)
  BY DEF Owned, RunOf, Live, PreFire, Waiting
<1>2. pc' = [pc EXCEPT ![r] = place]
  BY DEF MoveTo
<1>3. CASE u = owner[r]
  <2>1. \A s \in Runs : RunOf(u, s)' => s = r /\ pc'[r] = place
    BY <1>1, <1>2, <1>3 DEF Orderly, RunOf, TypeOK
  <2>2. handlers'[u] = handlers[u] /\ (handlers[u] > 0 => FALSE) /\ u \notin resumeQ'
    BY <1>1, <1>3 DEF Orderly, NoRun
  <2>3. \A s \in Runs : RunOf(u, s)' => RowFollows(u, s)' /\ Found(u, s)'
    BY <1>3, <2>1 DEF RunOf
  <2>. QED  BY <2>1, <2>2, <2>3 DEF Orderly
<1>4. CASE u # owner[r]
  <2>1. \A s \in Runs : RunOf(u, s)' => /\ RunOf(u, s) /\ pc'[s] = pc[s]
                                        /\ cancelled'[s] = cancelled[s]
    BY <1>2, <1>4 DEF RunOf, TypeOK
  <2>. QED  BY <1>4, <2>1, OrderlyFrame
<1>. QED  BY <1>3, <1>4

LEMMA RunOrderly ==
  ASSUME TypeOK, Owned, \A t \in Targets : Orderly(t), NEW r \in Runs, RunStep(r),
         NEW u \in Targets
  PROVE  Orderly(u)'
<1>1. /\ pc[r] \in Live
      /\ UNCHANGED <<owner, cancelled, handlers, process, resumeQ>>
      /\ \E place \in Locations \ {"unborn"} : MoveTo(r, place)
  BY DEF RunStep, SleepAborted, WakeToPreWarm, PreWarmed, PreWarmFails, Built,
         BuildFails, Announced, Fire, FireSucceeds, FireFails, Finish, RunFrame,
         Locations, Live, PreFire, Waiting
<1>2. owner[r] \in Targets /\ RowFollows(owner[r], r) /\ Found(owner[r], r)
  BY <1>1 DEF Owned, Orderly, RunOf, Live, PreFire, Waiting
<1>3. \A t \in Targets \ {owner[r]} : status'[t] = status[t] /\ active'[t] = active[t]
  BY <1>2 DEF RunStep, SleepAborted, WakeToPreWarm, PreWarmed, PreWarmFails, Built,
         BuildFails, Announced, Fire, FireSucceeds, FireFails, Finish, Persist,
         Cleanup, TypeOK, db
<1>4. PICK place \in Locations \ {"unborn"} : MoveTo(r, place)
  BY <1>1
<1>5. pc'[r] = place
  BY <1>4 DEF MoveTo, TypeOK
<1>6. place \in Live => RowFollows(owner[r], r)' /\ Found(owner[r], r)'
  <2>. USE <1>2, <1>5 DEF RunFrame, MoveTo, Persist, TypeOK, RowFollows, Found, Live,
                     PreFire, Waiting
  <2>1. CASE SleepAborted(r)   BY <2>1 DEF SleepAborted, db
  <2>2. CASE WakeToPreWarm(r)  BY <2>2 DEF WakeToPreWarm, db
  <2>3. CASE PreWarmed(r)      BY <2>3 DEF PreWarmed, db
  <2>4. CASE PreWarmFails(r)   BY <2>4 DEF PreWarmFails
  <2>5. CASE Built(r)          BY <2>5 DEF Built, db
  <2>6. CASE BuildFails(r)     BY <2>6 DEF BuildFails
  <2>7. CASE Announced(r)      BY <2>7 DEF Announced, db
  <2>8. CASE Fire(r)           BY <2>8 DEF Fire
  <2>9. CASE FireSucceeds(r)   BY <2>9 DEF FireSucceeds
  <2>10. CASE FireFails(r)     BY <2>10 DEF FireFails
  <2>11. CASE Finish(r)        BY <2>11 DEF Finish, db
  <2>. QED  BY <2>1, <2>2, <2>3, <2>4, <2>5, <2>6, <2>7, <2>8, <2>9, <2>10,
               <2>11 DEF RunStep
<1>. QED  BY <1>1, <1>3, <1>4, <1>6, MoveOrderly

\* The process takes everything along.
LEMMA EndsOrderly ==
  ASSUME TypeOK, Ends, NEW u \in Targets  PROVE Orderly(u)'
<1>1. handlers'[u] = 0 /\ resumeQ' = {} /\ \A r \in Runs : pc'[r] \notin Live
  BY DEF Ends, LoseMemory, Live, PreFire, Waiting
<1>. QED  BY <1>1 DEF Orderly, NoRun, RunOf

\* resumeAll() begins: nothing is left of the last process.
LEMMA BootOrderly ==
  ASSUME TypeOK, Orders, Boot, NEW u \in Targets  PROVE Orderly(u)'
<1>1. handlers'[u] = 0 /\ NoRun(u) /\ NoRun(u)'
  BY DEF Boot, Orders, Quiet, NoRun, RunOf, runVars
<1>2. u \in resumeQ' => status'[u] \in InFlight
  BY DEF Boot, db
<1>. QED  BY <1>1, <1>2 DEF Orderly, NoRun

LEMMA NextOrderly ==
  ASSUME TypeOK, Owned, Map, Orders, Users = "patient", Next, NEW u \in Targets
  PROVE  Orderly(u)'
<1>. \A t \in Targets : Orderly(t)
  BY DEF Orders
<1>1. ASSUME UNCHANGED <<status, active, handlers, pc, owner, cancelled>>,
             resumeQ' = resumeQ, process' = process
      PROVE  Orderly(u)'
  BY <1>1, OrderlyFrame DEF RunOf
<1>2. ASSUME NEW t \in Targets, Command(t)  PROVE Orderly(u)'
  <2>1. CASE ArmCheck(t)
    <3>1. /\ handlers[t] = 0 /\ handlers' = [handlers EXCEPT ![t] = @ + 1]
          /\ \A r \in Runs : ~RunOf(t, r)
          /\ resumeQ = {} /\ status[t] \in {"pending", "failed", "cancelled"}
      BY <2>1 DEF ArmCheck, Accepted, RunOf, Orders, Quiet, TypeOK, TargetStatus, InFlight
    <3>2. UNCHANGED <<status, active, pc, owner, cancelled, resumeQ, process>>
      BY <2>1 DEF ArmCheck, db, runVars
    <3>3. CASE u = t
      <4>1. handlers'[u] = 1  BY <3>1, <3>3 DEF TypeOK
      <4>. QED  BY <3>1, <3>2, <3>3, <4>1 DEF Orderly, NoRun, RunOf
    <3>4. CASE u # t
      BY <3>1, <3>2, <3>4, OrderlyFrame DEF TypeOK, RunOf
    <3>. QED  BY <3>3, <3>4
  <2>2. CASE ArmCommit(t)
    <3>1. PICK r \in Runs : StartRun(t, r)  BY <2>2 DEF ArmCommit
    <3>2. /\ handlers[t] = 1 /\ NoRun(t) /\ t \notin resumeQ
          /\ handlers' = [handlers EXCEPT ![t] = @ - 1]
          /\ resumeQ' = resumeQ /\ process' = process
      BY <2>2 DEF ArmCommit, Orderly
    <3>3. handlers'[t] = 0 /\ (u # t => handlers'[u] = handlers[u])
      BY <3>2 DEF TypeOK
    <3>. QED  BY <3>1, <3>2, <3>3, StartOrderly
  <2>3. CASE ArmRejected(t)
    <3>1. /\ handlers[t] = 1 /\ handlers' = [handlers EXCEPT ![t] = @ - 1]
          /\ UNCHANGED <<status, active, pc, owner, cancelled, resumeQ, process>>
      BY <2>3 DEF ArmRejected, db, runVars, Orderly
    <3>2. CASE u = t
      <4>1. handlers'[u] = 0  BY <3>1, <3>2 DEF TypeOK
      <4>. QED  BY <3>1, <3>2, <4>1 DEF Orderly, NoRun, RunOf, RowFollows, Found
    <3>3. CASE u # t
      BY <3>1, <3>3, OrderlyFrame DEF TypeOK, RunOf
    <3>. QED  BY <3>2, <3>3
  <2>4. CASE Disarm(t)
    BY <2>4, DisarmOrderly DEF Orders
  <2>. QED  BY <1>2, <2>1, <2>2, <2>3, <2>4 DEF Command
<1>3. ASSUME NEW t \in Targets, ResumeStep(t)  PROVE Orderly(u)'
  <2>1. t \in resumeQ /\ NoRun(t) /\ handlers[t] = 0
    BY <1>3 DEF ResumeStep, Resume, ResumeMissed, ResumeMissedThrows, IsNext, Orderly, TypeOK
  <2>2. CASE Resume(t)
    <3>1. PICK r \in Runs : StartRun(t, r)  BY <2>2 DEF Resume
    <3>2. handlers' = handlers /\ resumeQ' = resumeQ \ {t} /\ process' = process
      BY <2>2 DEF Resume
    <3>. QED  BY <2>1, <3>1, <3>2, StartOrderly
  <2>3. CASE ResumeMissed(t)
    <3>1. /\ handlers' = handlers /\ resumeQ' = resumeQ \ {t}
          /\ status' = [status EXCEPT ![t] = "failed"]
          /\ UNCHANGED <<active, pc, owner, cancelled, process>>
      BY <2>3 DEF ResumeMissed, Persist, runVars
    <3>2. CASE u = t
      BY <2>1, <3>1, <3>2 DEF Orderly, NoRun, RunOf
    <3>3. CASE u # t
      BY <3>1, <3>3, OrderlyFrame DEF TypeOK, RunOf
    <3>. QED  BY <3>2, <3>3
  <2>4. CASE ResumeMissedThrows(t)
    BY <2>4, EndsOrderly DEF ResumeMissedThrows
  <2>. QED  BY <1>3, <2>2, <2>3, <2>4 DEF ResumeStep
<1>4. ASSUME NEW t \in Targets, Tick(t)  PROVE Orderly(u)'
  BY <1>1, <1>4 DEF Tick, db, runVars
<1>5. ASSUME NEW r \in Runs, Attempt(r) \/ Include(r)  PROVE Orderly(u)'
  BY <1>1, <1>5 DEF Attempt, Include, db, runVars
<1>6. CASE Crash \/ Exit
  BY <1>6, EndsOrderly DEF Crash, Exit
<1>7. CASE Shutdown
  BY <1>7 DEF Shutdown, Orderly, NoRun, RunOf, RowFollows, Found, db
<1>8. CASE Boot
  BY <1>8, BootOrderly
<1>9. CASE Launch
  BY <1>9 DEF Launch, Orderly, NoRun, RunOf, RowFollows, Found, db, runVars
<1>. QED
  BY <1>2, <1>3, <1>4, <1>5, <1>6, <1>7, <1>8, <1>9, RunOrderly DEF Next

LEMMA NextQuiet ==
  ASSUME TypeOK, Owned, Orders, Next  PROVE Quiet'
<1>1. ASSUME NEW r \in Runs, RunStep(r) \/ Attempt(r) \/ Include(r)  PROVE Quiet'
  <2>1. /\ UNCHANGED <<process, resumeQ, handlers, owner>>
        /\ \A s \in Runs : pc'[s] \in Live => pc[s] \in Live
    BY <1>1 DEF RunStep, SleepAborted, WakeToPreWarm, PreWarmed, PreWarmFails, Built,
         BuildFails, Announced, Fire, FireSucceeds, FireFails, Finish, RunFrame, MoveTo,
         Attempt, Include, runVars, TypeOK, Live, PreFire, Waiting
  <2>. QED  BY <2>1 DEF Orders, Quiet, NoRun, RunOf
<1>2. ASSUME NEW t \in Targets, Command(t)  PROVE Quiet'
  <2>1. process' = process /\ resumeQ' = resumeQ /\ process # "down"
    BY <1>2 DEF Command, ArmCheck, ArmCommit, ArmRejected, Disarm, Orders, Quiet, TypeOK
  <2>. QED  BY <2>1 DEF Orders, Quiet
<1>3. ASSUME NEW t \in Targets, Resume(t) \/ ResumeMissed(t)  PROVE Quiet'
  <2>1. process' = process /\ resumeQ # {}
    BY <1>3 DEF Resume, ResumeMissed, IsNext
  <2>. QED  BY <2>1 DEF Orders, Quiet
<1>4. ASSUME NEW t \in Targets, Tick(t)  PROVE Quiet'
  BY <1>4 DEF Tick, runVars, Orders, Quiet, NoRun, RunOf
<1>5. CASE Ends
  BY <1>5 DEF Ends, LoseMemory, Quiet, NoRun, RunOf, Live, PreFire, Waiting
<1>6. CASE Shutdown \/ Boot \/ Launch
  BY <1>6 DEF Shutdown, Boot, Launch, Quiet, NoRun, RunOf
<1>. QED
  BY <1>1, <1>2, <1>3, <1>4, <1>5, <1>6
     DEF Next, ResumeStep, ResumeMissedThrows, Crash, Exit

LEMMA NextSent ==
  ASSUME TypeOK, SentWhileFiring, Next  PROVE SentWhileFiring'
<1>1. ASSUME NEW r \in Runs, RunStep(r)  PROVE SentWhileFiring'
  <2>1. /\ tx' = tx /\ pc[r] \in Live
        /\ pc[r] \in {"firing", "notifying"} => MoveTo(r, "notifying") \/ MoveTo(r, "ended")
        /\ \E place \in Locations : MoveTo(r, place)
    BY <1>1 DEF RunStep, SleepAborted, WakeToPreWarm, PreWarmed, PreWarmFails, Built,
         BuildFails, Announced, Fire, FireSucceeds, FireFails, Finish, RunFrame,
         world, Locations, Live, PreFire, Waiting
  <2>2. pc[r] \notin {"firing", "notifying"} => tx[r] = "none"
    BY <2>1 DEF SentWhileFiring, Live, PreFire, Waiting
  <2>. QED  BY <2>1, <2>2 DEF SentWhileFiring, MoveTo, TypeOK
<1>2. ASSUME NEW r \in Runs, Attempt(r) \/ Include(r)  PROVE SentWhileFiring'
  BY <1>2 DEF Attempt, Include, runVars, SentWhileFiring, TypeOK
<1>3. ASSUME NEW t \in Targets, NEW r \in Runs, StartRun(t, r), tx' = tx
      PROVE  SentWhileFiring'
  BY <1>3 DEF StartRun, SentWhileFiring, TypeOK
<1>4. ASSUME NEW t \in Targets, Command(t) \/ ResumeStep(t) \/ Tick(t)
      PROVE  SentWhileFiring'
  BY <1>3, <1>4 DEF Command, ArmCheck, ArmCommit, ArmRejected, Disarm, ResumeStep,
       Resume, ResumeMissed, ResumeMissedThrows, Ends, LoseMemory, Tick, runVars, world,
       SentWhileFiring
<1>5. CASE Crash \/ Shutdown \/ Exit \/ Boot \/ Launch
  BY <1>5 DEF Crash, Shutdown, Exit, Boot, Launch, Ends, LoseMemory, runVars, world,
       SentWhileFiring
<1>. QED  BY <1>1, <1>2, <1>4, <1>5 DEF Next

\* All of it: the orders need the map to be sound, and the map needs the types.
PatientInv == TypeOK /\ Owned /\ Map /\ Orders

LEMMA PatientInvariant == Users = "patient" => (Spec => []PatientInv)
<1>. SUFFICES ASSUME Users = "patient"  PROVE Spec => []PatientInv
  OBVIOUS
<1>1. Init => PatientInv
  BY InitTyped, InitMap, InitOrders DEF PatientInv
<1>2. PatientInv /\ [Next]_vars => PatientInv'
  <2>1. ASSUME PatientInv, Next  PROVE Orders'
    BY <2>1, NextOrderly, NextQuiet, NextSent DEF PatientInv, Orders
  <2>2. ASSUME PatientInv, UNCHANGED vars  PROVE Orders'
    BY <2>2 DEF PatientInv, vars, Orders, Quiet, SentWhileFiring, Orderly, NoRun, RunOf,
                RowFollows, Found
  <2>. QED  BY <2>1, <2>2, NextTyped, NextMap DEF PatientInv
<1>. QED  BY <1>1, <1>2, PTL DEF Spec

\* For users who let a run of a target return before they arm it again, nothing
\* fires a target that the database does not show as armed.
THEOREM PatientFiresOnlyArmed == Users = "patient" => (Spec => FiresOnlyArmed)
<1>. SUFFICES ASSUME Users = "patient"  PROVE Spec => FiresOnlyArmed
  OBVIOUS
<1>1. ASSUME PatientInv, [Next]_vars, NEW r \in Runs, pc[r] # "firing", pc'[r] = "firing"
      PROVE  status[owner[r]] = "armed"
  <2>1. Fire(r)
    BY <1>1, FireStep DEF PatientInv
  <2>2. owner[r] \in Targets /\ RunOf(owner[r], r)
    BY <1>1, <2>1 DEF Fire, PatientInv, Owned, RunOf, Live, PreFire, Waiting
  <2>3. RowFollows(owner[r], r)
    BY <1>1, <2>2 DEF PatientInv, Orders, Orderly
  <2>. QED  BY <2>1, <2>3 DEF RowFollows, Fire, PreFire, Waiting
<1>2. PatientInv /\ [Next]_vars =>
        [\A r \in Runs : pc[r] # "firing" /\ pc'[r] = "firing"
                           => status[owner[r]] = "armed"]_vars
  BY <1>1
<1>3. Spec => []PatientInv
  BY PatientInvariant
<1>. QED  BY <1>2, <1>3, PTL DEF Spec, FiresOnlyArmed

\* What a step may do to the row of t, and what goes with it.
RowMoves(t, from, to) == status[t] \in from /\ status' = [status EXCEPT ![t] = to]

RowStep(t) ==
  \/ RowMoves(t, {"pending", "failed", "cancelled"}, "armed") /\ handlers'[t] < handlers[t]
  \/ RowMoves(t, {"pending", "armed"}, "cancelled")
  \/ RowMoves(t, {"armed"}, "firing")
  \/ RowMoves(t, {"firing"}, "armed")
  \/ RowMoves(t, {"armed", "firing", "cancelled"}, "failed")
  \/ /\ RowMoves(t, {"firing"}, "done")
     /\ \E r \in Runs : owner[r] = t /\ tx[r] = "minted"

LEMMA RunRow ==
  ASSUME PatientInv, NEW r \in Runs, RunStep(r), status' # status
  PROVE  RowStep(owner[r])
<1>1. pc[r] \in Live
  BY DEF RunStep, SleepAborted, WakeToPreWarm, PreWarmed, PreWarmFails, Built,
         BuildFails, Announced, Fire, FireSucceeds, FireFails, Finish, Live, PreFire, Waiting
<1>2. owner[r] \in Targets /\ RowFollows(owner[r], r)
  BY <1>1 DEF PatientInv, Owned, Orders, Orderly, RunOf, Live, PreFire, Waiting
<1>3. \/ PreWarmFails(r) \/ BuildFails(r) \/ Fire(r) \/ FireSucceeds(r) \/ FireFails(r)
  BY DEF RunStep, SleepAborted, WakeToPreWarm, PreWarmed, Built, Announced, Finish, db
<1>. USE <1>2 DEF RowFollows, RowStep, RowMoves, PreFire, Waiting, Persist
<1>4. CASE PreWarmFails(r)  BY <1>4 DEF PreWarmFails
<1>5. CASE BuildFails(r)    BY <1>5 DEF BuildFails
<1>6. CASE Fire(r)          BY <1>6 DEF Fire
<1>7. CASE FireSucceeds(r)  BY <1>7 DEF FireSucceeds
<1>8. CASE FireFails(r)     BY <1>8 DEF FireFails
<1>. QED  BY <1>3, <1>4, <1>5, <1>6, <1>7, <1>8

LEMMA NextRow ==
  ASSUME PatientInv, [Next]_vars, status' # status
  PROVE  \E t \in Targets : RowStep(t)
<1>. TypeOK /\ \A t \in Targets : Orderly(t)
  BY DEF PatientInv, Orders
<1>1. ASSUME NEW t \in Targets, Command(t)  PROVE RowStep(t)
  <2>1. CASE ArmCommit(t)
    <3>1. /\ status' = [status EXCEPT ![t] = "armed"]
          /\ status[t] \in {"pending", "failed", "cancelled"}
      BY <2>1 DEF ArmCommit, StartRun, Orderly
    <3>2. handlers'[t] < handlers[t]
      BY <2>1 DEF ArmCommit, TypeOK
    <3>. QED  BY <3>1, <3>2 DEF RowStep, RowMoves
  <2>2. CASE Disarm(t)
    <3>1. status[t] \in {"pending", "armed"} /\ status' = [status EXCEPT ![t] = "cancelled"]
      BY <2>2 DEF Disarm, TypeOK
    <3>. QED  BY <3>1 DEF RowStep, RowMoves
  <2>. QED  BY <1>1, <2>1, <2>2 DEF Command, ArmCheck, ArmRejected, db
<1>2. ASSUME NEW t \in Targets, ResumeStep(t)  PROVE RowStep(t)
  <2>1. status[t] \in InFlight
    BY <1>2 DEF ResumeStep, Resume, ResumeMissed, ResumeMissedThrows, IsNext, Orderly
  <2>2. CASE Resume(t)
    <3>1. status' = [status EXCEPT ![t] = "armed"]
      BY <2>2 DEF Resume, StartRun
    <3>2. status[t] = "firing"
      BY <2>1, <3>1 DEF InFlight, TypeOK
    <3>. QED  BY <3>1, <3>2 DEF RowStep, RowMoves
  <2>3. CASE ResumeMissed(t) \/ ResumeMissedThrows(t)
    BY <2>1, <2>3 DEF ResumeMissed, ResumeMissedThrows, Persist, RowStep, RowMoves, InFlight
  <2>. QED  BY <1>2, <2>2, <2>3 DEF ResumeStep
<1>3. ASSUME NEW r \in Runs, RunStep(r)  PROVE RowStep(owner[r]) /\ owner[r] \in Targets
  BY <1>3, RunRow DEF PatientInv, Owned, RunStep, SleepAborted, WakeToPreWarm, PreWarmed,
     PreWarmFails, Built, BuildFails, Announced, Fire, FireSucceeds, FireFails, Finish,
     Live, PreFire, Waiting
<1>. QED
  BY <1>1, <1>2, <1>3 DEF Next, Tick, Attempt, Include, Crash, Shutdown, Exit, Boot,
     Launch, db, vars

\* For such users no late run, restart or /disarm moves a settled target.
THEOREM PatientSettledIsFinal == Users = "patient" => (Spec => SettledIsFinal)
<1>. SUFFICES ASSUME Users = "patient"  PROVE Spec => SettledIsFinal
  OBVIOUS
<1>1. ASSUME PatientInv, [Next]_vars, NEW u \in Targets, status[u] \in {"done", "failed"},
             status'[u] # status[u]
      PROVE  status[u] = "failed" /\ status'[u] = "armed" /\ handlers'[u] < handlers[u]
  <2>1. PICK t \in Targets : RowStep(t)
    BY <1>1, NextRow
  <2>2. \A from, to : RowMoves(t, from, to) => t = u /\ status[u] \in from /\ status'[u] = to
    BY <1>1 DEF RowMoves, PatientInv, TypeOK
  <2>. QED  BY <1>1, <2>1, <2>2 DEF RowStep
<1>2. PatientInv /\ [Next]_vars =>
        [\A t \in Targets : status[t] \in {"done", "failed"} =>
           \/ status'[t] = status[t]
           \/ /\ status[t] = "failed" /\ status'[t] = "armed"
              /\ handlers'[t] < handlers[t]]_vars
  BY <1>1
<1>3. Spec => []PatientInv
  BY PatientInvariant
<1>. QED  BY <1>2, <1>3, PTL DEF Spec, SettledIsFinal

\* For such users /disarm cancels a row only while no run of the target that is
\* still alive has a transaction out: its "disarmed" needs no warning.
THEOREM PatientCancelledBeforeSent == Users = "patient" => (Spec => CancelledBeforeSent)
<1>. SUFFICES ASSUME Users = "patient"  PROVE Spec => CancelledBeforeSent
  OBVIOUS
<1>1. ASSUME PatientInv, [Next]_vars, NEW u \in Targets,
             status[u] # "cancelled", status'[u] = "cancelled",
             NEW r \in Runs, owner[r] = u, pc[r] \in Live
      PROVE  tx[r] = "none"
  <2>1. PICK t \in Targets : RowStep(t)
    BY <1>1, NextRow
  <2>2. \A from, to : RowMoves(t, from, to) => t = u /\ status[u] \in from /\ status'[u] = to
    BY <1>1 DEF RowMoves, PatientInv, TypeOK
  <2>3. status[u] \in {"pending", "armed"}
    BY <1>1, <2>1, <2>2 DEF RowStep
  <2>4. RowFollows(u, r)
    BY <1>1 DEF PatientInv, Orders, Orderly, RunOf
  <2>5. pc[r] \in PreFire
    BY <1>1, <2>3, <2>4 DEF RowFollows, Live
  \* the row says that the run has yet to fire, and only a run that fires sends
  <2>. QED  BY <1>1, <2>5 DEF PatientInv, Orders, SentWhileFiring, PreFire, Waiting
<1>2. PatientInv /\ [Next]_vars =>
        [\A t \in Targets : status[t] # "cancelled" /\ status'[t] = "cancelled" =>
           \A r \in Runs : owner[r] = t /\ pc[r] \in Live => tx[r] = "none"]_vars
  BY <1>1
<1>3. Spec => []PatientInv
  BY PatientInvariant
<1>. QED  BY <1>2, <1>3, PTL DEF Spec, CancelledBeforeSent

-----------------------------------------------------------------------------
(* The life of a target (TargetLifecycle), for patient users                 *)

\* What the mapping makes of the transactions.
SentOf   == [t \in Targets |-> TxsAt(t, {"sent", "minted", "reverted"})]
MintedOf == [t \in Targets |-> TxsAt(t, {"minted"})]

\* The target of a run with a transaction is settled for good, and so is what
\* has become of the transaction, but for the two steps about it.
LEMMA OtherTx ==
  ASSUME PatientInv, [Next]_vars, ~\E r \in Runs : Attempt(r) \/ Include(r)
  PROVE  SentOf' = SentOf /\ MintedOf' = MintedOf
<1>1. tx' = tx
  BY DEF Next, Command, ArmCheck, ArmCommit, ArmRejected, Disarm, ResumeStep, Resume,
     ResumeMissed, ResumeMissedThrows, Tick, RunStep, SleepAborted, WakeToPreWarm,
     PreWarmed, PreWarmFails, Built, BuildFails, Announced, Fire, FireSucceeds, FireFails,
     Finish, RunFrame, Crash, Shutdown, Exit, Boot, Launch, world, vars
<1>2. ASSUME NEW r \in Runs, tx[r] # "none"  PROVE owner'[r] = owner[r]
  <2>1. pc[r] # "unborn"
    BY <1>2 DEF PatientInv, Orders, SentWhileFiring
  <2>2. ASSUME NEW t \in Targets, NEW s \in Runs, StartRun(t, s)
        PROVE  owner'[r] = owner[r]
    BY <2>1, <2>2 DEF StartRun, PatientInv, TypeOK
  <2>. QED
    BY <2>2 DEF Next, Command, ArmCheck, ArmCommit, ArmRejected, Disarm, ResumeStep,
       Resume, ResumeMissed, ResumeMissedThrows, Tick, RunStep, SleepAborted,
       WakeToPreWarm, PreWarmed, PreWarmFails, Built, BuildFails, Announced, Fire,
       FireSucceeds, FireFails, Finish, RunFrame, Crash, Shutdown, Exit, Boot, Launch,
       Ends, LoseMemory, runVars, vars
<1>3. \A t \in Targets : /\ TxsAt(t, {"minted"})' = TxsAt(t, {"minted"})
                         /\ TxsAt(t, {"sent", "minted", "reverted"})'
                              = TxsAt(t, {"sent", "minted", "reverted"})
  BY <1>1, <1>2 DEF TxsAt
<1>. QED  BY <1>3 DEF SentOf, MintedOf

\* A broadcast, of a run inside fire(), is a Send of its target.
LEMMA AttemptLife ==
  ASSUME PatientInv, NEW r \in Runs, Attempt(r)
  PROVE  [Lifecycle!Next]_(Lifecycle!vars)
<1>1. owner[r] \in Targets /\ status[owner[r]] = "firing"
  BY DEF Attempt, PatientInv, Owned, Orders, Orderly, RunOf, RowFollows, Live, PreFire, Waiting
<1>2. status' = status /\ owner' = owner
  BY DEF Attempt, runVars
<1>3. CASE tx' = tx
  <2>1. SentOf' = SentOf /\ MintedOf' = MintedOf
    BY <1>2, <1>3 DEF SentOf, MintedOf, TxsAt
  <2>. QED  BY <1>2, <2>1 DEF Lifecycle!vars, SentOf, MintedOf
<1>4. CASE tx[r] = "none" /\ tx' = [tx EXCEPT ![r] = "sent"]
  <2>1. \A t \in Targets : r \notin SentOf[t]
    BY <1>4 DEF SentOf, TxsAt
  <2>2. \A s \in Runs : tx'[s] = IF s = r THEN "sent" ELSE tx[s]
    BY <1>4 DEF PatientInv, TypeOK
  <2>3. MintedOf' = MintedOf
    BY <1>2, <1>4, <2>2 DEF MintedOf, TxsAt
  <2>4. \A t \in Targets : TxsAt(t, {"sent", "minted", "reverted"})'
          = IF t = owner[r] THEN TxsAt(t, {"sent", "minted", "reverted"}) \cup {r}
                            ELSE TxsAt(t, {"sent", "minted", "reverted"})
    BY <1>2, <1>4, <2>2 DEF TxsAt
  <2>5. SentOf' = [SentOf EXCEPT ![owner[r]] = @ \cup {r}]
    BY <1>1, <2>4 DEF SentOf
  <2>6. Lifecycle!Send(owner[r], r)
    BY <1>1, <1>2, <2>1, <2>3, <2>5 DEF Lifecycle!Send, SentOf, MintedOf
  <2>. QED  BY <1>1, <2>6 DEF Lifecycle!Next
<1>. QED  BY <1>3, <1>4 DEF Attempt

\* The chain includes a transaction, whatever became of its target meanwhile.
LEMMA IncludeLife ==
  ASSUME PatientInv, NEW r \in Runs, Include(r)
  PROVE  [Lifecycle!Next]_(Lifecycle!vars)
<1>1. owner[r] \in Targets
  BY DEF Include, PatientInv, Owned, Orders, SentWhileFiring
<1>2. status' = status /\ owner' = owner /\ tx[r] = "sent"
  BY DEF Include, runVars, db
<1>3. PICK outcome \in {"minted", "reverted"} : tx' = [tx EXCEPT ![r] = outcome]
  BY DEF Include
<1>4. \A s \in Runs : tx'[s] = IF s = r THEN outcome ELSE tx[s]
  BY <1>3 DEF PatientInv, TypeOK
<1>5. SentOf' = SentOf
  BY <1>2, <1>4 DEF SentOf, TxsAt
<1>6. CASE outcome = "reverted"
  <2>1. MintedOf' = MintedOf
    BY <1>2, <1>4, <1>6 DEF MintedOf, TxsAt
  <2>. QED  BY <1>2, <1>5, <2>1 DEF Lifecycle!vars, SentOf, MintedOf
<1>7. CASE outcome = "minted"
  <2>1. r \in SentOf[owner[r]]
    BY <1>1, <1>2 DEF SentOf, TxsAt
  <2>2. \A t \in Targets : TxsAt(t, {"minted"})'
          = IF t = owner[r] THEN TxsAt(t, {"minted"}) \cup {r} ELSE TxsAt(t, {"minted"})
    BY <1>2, <1>4, <1>7 DEF TxsAt
  <2>3. MintedOf' = [MintedOf EXCEPT ![owner[r]] = @ \cup {r}]
    BY <1>1, <2>2 DEF MintedOf
  <2>4. Lifecycle!Mint(owner[r], r)
    BY <1>2, <1>5, <2>1, <2>3 DEF Lifecycle!Mint, SentOf, MintedOf
  <2>. QED  BY <1>1, <2>4 DEF Lifecycle!Next
<1>. QED  BY <1>6, <1>7

LEMMA RowLife ==
  ASSUME PatientInv, NEW t \in Targets, RowStep(t), SentOf' = SentOf, MintedOf' = MintedOf
  PROVE  Lifecycle!Next
<1>1. \A from, to : RowMoves(t, from, to) => Lifecycle!Move(t, from, to)
  BY DEF RowMoves, Lifecycle!Move, SentOf, MintedOf
<1>2. (\E r \in Runs : owner[r] = t /\ tx[r] = "minted") => MintedOf[t] # {}
  BY DEF MintedOf, TxsAt
<1>3. \/ Lifecycle!TakeOn(t) \/ Lifecycle!Cancel(t) \/ Lifecycle!StartFiring(t)
      \/ Lifecycle!Resume(t) \/ Lifecycle!Fail(t) \/ Lifecycle!Succeed(t)
  BY <1>1, <1>2 DEF RowStep, Lifecycle!TakeOn, Lifecycle!Cancel, Lifecycle!StartFiring,
     Lifecycle!Resume, Lifecycle!Fail, Lifecycle!Succeed, MintedOf
<1>. QED  BY <1>3 DEF Lifecycle!Next

\* For such users the scheduler, with its runs, timers, restarts and clean-ups,
\* implements the life of a target its owner was promised.
THEOREM PatientLifecycle == Users = "patient" => (Spec => ImplementsLifecycle)
<1>. SUFFICES ASSUME Users = "patient"  PROVE Spec => ImplementsLifecycle
  OBVIOUS
<1>1. Init => Lifecycle!Init
  BY DEF Init, Lifecycle!Init, TxsAt
<1>2. ASSUME PatientInv, [Next]_vars  PROVE [Lifecycle!Next]_(Lifecycle!vars)
  <2>1. CASE \E r \in Runs : Attempt(r) \/ Include(r)
    BY <1>2, <2>1, AttemptLife, IncludeLife
  <2>2. CASE ~\E r \in Runs : Attempt(r) \/ Include(r)
    <3>1. SentOf' = SentOf /\ MintedOf' = MintedOf
      BY <1>2, <2>2, OtherTx
    <3>2. CASE status' = status
      BY <3>1, <3>2 DEF Lifecycle!vars, SentOf, MintedOf
    <3>3. CASE status' # status
      BY <1>2, <3>1, <3>3, NextRow, RowLife
    <3>. QED  BY <3>2, <3>3
  <2>. QED  BY <2>1, <2>2
<1>3. Spec => []PatientInv
  BY PatientInvariant
<1>. QED  BY <1>1, <1>2, <1>3, PTL DEF Spec, ImplementsLifecycle, Lifecycle!Spec
=============================================================================
