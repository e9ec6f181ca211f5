--------------------------- MODULE TargetLifecycle ---------------------------
(***************************************************************************)
(* What the scheduler promises the owner of a target, with no process, no  *)
(* runs and no timers in it: a target is armed by its owner, cancelled     *)
(* only before it fires, sends transactions only while it is firing, and   *)
(* is done only when one of them minted.                                   *)
(*                                                                         *)
(* Scheduler implements this for users who let a disarmed run return       *)
(* before they arm its target again; for others it does not (see           *)
(* FiresOnlyArmed there).                                                  *)
(***************************************************************************)
CONSTANTS Targets, Txs

VARIABLES
  status,  \* targets.status
  sent,    \* transactions broadcast for each target
  minted   \* those the chain included with status 1

vars == <<status, sent, minted>>

Init ==
  /\ status = [t \in Targets |-> "pending"]
  /\ sent = [t \in Targets |-> {}]
  /\ minted = [t \in Targets |-> {}]

\* t goes from one of the statuses `from` to `to`.
Move(t, from, to) ==
  /\ status[t] \in from
  /\ status' = [status EXCEPT ![t] = to]
  /\ UNCHANGED <<sent, minted>>

\* The owner's /arm.
TakeOn(t) == Move(t, {"pending", "failed", "cancelled"}, "armed")

\* The owner's /disarm.
Cancel(t) == Move(t, {"pending", "armed"}, "cancelled")

\* T=0.
StartFiring(t) == Move(t, {"armed"}, "firing")

\* A restarted process takes the target up again.
Resume(t) == Move(t, {"firing"}, "armed")

\* Pre-flight, the mint itself or the clock defeats it.  A cancelled target can
\* still be marked failed, by the run the owner cancelled.
Fail(t) == Move(t, {"armed", "firing", "cancelled"}, "failed")

Succeed(t) ==
  /\ minted[t] # {}
  /\ Move(t, {"firing"}, "done")

Send(t, x) ==
  /\ status[t] = "firing"
  /\ \A u \in Targets : x \notin sent[u]
  /\ sent' = [sent EXCEPT ![t] = @ \cup {x}]
  /\ UNCHANGED <<status, minted>>

\* The chain, whatever became of the target meanwhile.
Mint(t, x) ==
  /\ x \in sent[t]
  /\ minted' = [minted EXCEPT ![t] = @ \cup {x}]
  /\ UNCHANGED <<status, sent>>

Next ==
  \E t \in Targets :
    \/ TakeOn(t) \/ Cancel(t) \/ StartFiring(t) \/ Resume(t)
    \/ Fail(t) \/ Succeed(t)
    \/ \E x \in Txs : Send(t, x) \/ Mint(t, x)

Spec == Init /\ [][Next]_vars
=============================================================================
