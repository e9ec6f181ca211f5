---------------------------- MODULE Confirmation ----------------------------
(***************************************************************************)
(* What /withdraw promises its user, with no handlers, no network and no   *)
(* timers in it: nothing is sent unless the user gives the same command    *)
(* twice, the second time while the first is fresh and no other command    *)
(* came between; one repetition pays for one execution, and one execution  *)
(* moves the money at most once.                                           *)
(*                                                                         *)
(* Withdraw implements this.                                               *)
(***************************************************************************)
EXTENDS Naturals, Sequences

CONSTANTS Commands,
          None,
          TTL       \* ticks for which a command may be repeated

VARIABLES
  asked,    \* the command that waits to be repeated
  left,     \* ticks until it no longer does
  granted,  \* the executions granted, in order
  moved     \* those that moved money

vars == <<asked, left, granted, moved>>

Init ==
  /\ asked = None
  /\ left = 0
  /\ granted = <<>>
  /\ moved = {}

\* A command that is not the one that waits takes its place.
Ask(c) ==
  /\ asked # c
  /\ asked' = c
  /\ left' = TTL
  /\ UNCHANGED <<granted, moved>>

Grant(c) ==
  /\ asked = c
  /\ asked' = None
  /\ left' = 0
  /\ granted' = Append(granted, c)
  /\ UNCHANGED moved

\* It may be forgotten at any time, and is when its time is up.
Lapse ==
  /\ asked # None
  /\ asked' = None
  /\ left' = 0
  /\ UNCHANGED <<granted, moved>>

Tick ==
  /\ left > 0
  /\ left' = left - 1
  /\ UNCHANGED <<asked, granted, moved>>

Move(k) ==
  /\ k \in DOMAIN granted \ moved
  /\ moved' = moved \cup {k}
  /\ UNCHANGED <<asked, left, granted>>

Next ==
  \/ \E c \in Commands : Ask(c) \/ Grant(c)
  \/ Lapse \/ Tick
  \/ \E k \in DOMAIN granted : Move(k)

Spec == Init /\ [][Next]_vars
=============================================================================
