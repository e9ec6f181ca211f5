------------------------------- MODULE Wizard -------------------------------
(***************************************************************************)
(* How a target comes to be: the /newtarget, /manualtarget, /cancel and    *)
(* text handlers of src/bot.js, over the wizard of each user and over      *)
(* Resolution.                                                             *)
(*                                                                         *)
(* A handler that awaits the resolution of a link holds the wizard object  *)
(* it found when it began.  By the time it goes on, the user may have      *)
(* cancelled, begun anew, pasted another link or gone on with the          *)
(* questions; `owns` says whether that object is still the user's wizard.  *)
(*                                                                         *)
(* A message that the rate limit, the limit of armed targets or a missing  *)
(* wallet refuses changes nothing here, and is left out: every other       *)
(* message may be accepted at any time.                                    *)
(***************************************************************************)
EXTENDS Resolution

CONSTANTS Typed,  \* the prices users type
          Qtys,   \* 1..maxQtyPerTarget
          Cap     \* limits.maxMintCostPerTargetWei

ASSUME LimitsAssumption == Typed \subseteq Prices /\ Qtys \subseteq Nat /\ Cap \in Nat

VARIABLES
  wizards,  \* user -> half-filled target                       (memory)
  at,       \* where each handler sleeps                        (memory)
  user,     \* whose message it handles                         (memory)
  link,     \* the link or contract in it                       (memory)
  owns      \* is the wizard it holds still the user's?         (memory)

handlers == <<at, user, link, owns>>
vars == <<cache, reading, waiting, answer, wizards, at, user, link, owns>>

Steps == {"await_url", "await_price", "await_starttime", "await_qty", "await_budget"}

\* `asked`: the links the user gave to this wizard.
Wizards == [step : Steps, drop : Drops \cup {None}, qty : Qtys \cup {0}, asked : SUBSET Links]

ASSUME WizardsAssumption == None \notin Wizards

\* Type invariant of the conversations and of the resolution under them.
TypeOK ==
  /\ ResolutionTypeOK
  /\ wizards \in [Users -> Wizards \cup {None}]
  /\ at \in [Handlers -> {"idle", "greeting", "resolving", "reading", "replying"}]
  /\ user \in [Handlers -> Users \cup {None}]
  /\ link \in [Handlers -> Links \cup {None}]
  /\ owns \in [Handlers -> BOOLEAN]

Init ==
  /\ ResolutionInit
  /\ wizards = [u \in Users |-> None]
  /\ at = [h \in Handlers |-> "idle"]
  /\ user = [h \in Handlers |-> None]
  /\ link = [h \in Handlers |-> None]
  /\ owns = [h \in Handlers |-> FALSE]

-----------------------------------------------------------------------------
\* wizards.set() and wizards.delete(): no handler at work holds the new one.
Replace(u, w) ==
  /\ wizards' = [wizards EXCEPT ![u] = w]
  /\ owns' = [h \in Handlers |-> owns[h] /\ user[h] # u]

\* wizards.get(), and a field of the object it gave is assigned.
SetWizard(u, w) == wizards' = [wizards EXCEPT ![u] = w]

\* The same by a handler that finds the wizard and never sleeps.
Put(u, w) == SetWizard(u, w) /\ UNCHANGED owns

\* Mutant: the start time is never asked for.
NextStepNoStart(drop) ==
  IF drop.price = Unknown THEN "await_price" ELSE "await_qty"

\* The first thing the contract did not tell.
NextStep(drop) ==
  CASE drop.price = Unknown -> "await_price"
    [] drop.price # Unknown /\ ~drop.start -> "await_starttime"
    [] OTHER -> "await_qty"

Fresh == [step |-> "await_url", drop |-> None, qty |-> 0, asked |-> {}]

NewTarget(u) ==
  /\ Replace(u, Fresh)
  /\ UNCHANGED <<resolution, at, user, link>>

Cancel(u) ==
  /\ Replace(u, None)
  /\ UNCHANGED <<resolution, at, user, link>>

\* h begins to handle a message of u about l and awaits its first reply.
Begin(h, u, l, place, holds) ==
  /\ at[h] = "idle"
  /\ at' = [at EXCEPT ![h] = place]
  /\ user' = [user EXCEPT ![h] = u]
  /\ link' = [link EXCEPT ![h] = l]
  /\ owns' = [owns EXCEPT ![h] = holds]

\* h has done its work and awaits its last reply.
Reply(h) ==
  /\ at' = [at EXCEPT ![h] = "replying"]
  /\ link' = [link EXCEPT ![h] = None]
  /\ UNCHANGED user

Return(h) ==
  /\ at' = [at EXCEPT ![h] = "idle"]
  /\ user' = [user EXCEPT ![h] = None]
  /\ link' = [link EXCEPT ![h] = None]

\* The contract is read for a user who named it.
ManualTarget(h, u, l) ==
  /\ Begin(h, u, l, "reading", FALSE)
  /\ UNCHANGED <<resolution, wizards>>

ManualRead(h) ==
  /\ at[h] = "reading"
  /\ \E drop \in Readable(link[h]) :
       Replace(user[h], [step |-> NextStep(drop), drop |-> drop, qty |-> 0,
                         asked |-> {link[h]}])
  /\ Return(h)
  /\ UNCHANGED resolution

ManualFails(h) ==
  /\ at[h] = "reading"
  /\ Return(h)
  /\ UNCHANGED <<resolution, wizards, owns>>

-----------------------------------------------------------------------------
(* Text: a link                                                            *)

PasteLink(h, u, l) ==
  /\ wizards[u] # None
  /\ wizards[u].step = "await_url"
  /\ wizards' = [wizards EXCEPT ![u].asked = @ \cup {l}]
  /\ Begin(h, u, l, "greeting", TRUE)
  /\ UNCHANGED resolution

Greeted(h) ==
  /\ at[h] = "greeting"
  /\ Resolve(h, link[h])
  /\ at' = [at EXCEPT ![h] = "resolving"]
  /\ UNCHANGED <<wizards, user, link, owns>>

\* Mutant: the wizard is looked up again.
LinkResolvedReread(h) ==
  /\ at[h] = "resolving" /\ answer[h] \in Drops
  /\ IF wizards[user[h]] # None
     THEN SetWizard(user[h], [wizards[user[h]] EXCEPT !.drop = answer[h],
                                                      !.step = NextStep(answer[h])])
     ELSE UNCHANGED wizards
  /\ owns' = [owns EXCEPT ![h] = FALSE]
  /\ Take(h)
  /\ Reply(h)

\* Mutant: a wizard whose quantity is known is not asked for it again.
LinkResolvedInPlace(h) ==
  /\ at[h] = "resolving" /\ answer[h] \in Drops
  /\ IF owns[h]
     THEN SetWizard(user[h], [wizards[user[h]] EXCEPT
            !.drop = answer[h],
            !.step = IF @ = "await_budget" /\ answer[h].price # Unknown
                     THEN @ ELSE NextStep(answer[h])])
     ELSE UNCHANGED wizards
  /\ owns' = [owns EXCEPT ![h] = FALSE]
  /\ Take(h)
  /\ Reply(h)

\* The wizard h holds gets the answer, whatever step it has reached.  One that
\* has been replaced gets it too, and nobody sees it again.
LinkResolved(h) ==
  /\ at[h] = "resolving" /\ answer[h] \in Drops
  /\ IF owns[h]
     THEN SetWizard(user[h], [wizards[user[h]] EXCEPT !.drop = answer[h],
                                                      !.step = NextStep(answer[h])])
     ELSE UNCHANGED wizards
  /\ owns' = [owns EXCEPT ![h] = FALSE]
  /\ Take(h)
  /\ Reply(h)

\* The CURRENT wizard of the user is deleted, held or not.
LinkUnresolved(h) ==
  /\ at[h] = "resolving" /\ answer[h] = Failed
  /\ Replace(user[h], None)
  /\ Take(h)
  /\ Reply(h)

Replied(h) ==
  /\ at[h] = "replying"
  /\ Return(h)
  /\ UNCHANGED <<resolution, wizards, owns>>

\* Telegram rejects an awaited reply: the handler's catch.
ReplyFails(h) ==
  /\ at[h] \in {"greeting", "replying"}
  /\ Return(h)
  /\ Replace(user[h], None)
  /\ UNCHANGED resolution

-----------------------------------------------------------------------------
(* Text: the other questions, each answered in one step.  An answer that    *)
(* does not parse changes nothing.                                          *)

At(u, step) == wizards[u] # None /\ wizards[u].step = step

\* Mutant: the answer of resolveTarget() is the kept object itself.
EnterPriceShared(u, p) ==
  /\ At(u, "await_price")
  /\ LET w == wizards[u]
         priced == [w.drop EXCEPT !.price = p, !.by = u]
     IN  /\ Put(u, [w EXCEPT !.drop = priced, !.step = NextStep(priced)])
         /\ cache' = [cache EXCEPT ![w.drop.link] = IF @ = None THEN @ ELSE priced]
  /\ UNCHANGED <<reading, waiting, answer, at, user, link>>

EnterPrice(u, p) ==
  /\ At(u, "await_price")
  /\ LET w == wizards[u]
         priced == [w.drop EXCEPT !.price = p, !.by = u]
     IN  Put(u, [w EXCEPT !.drop = priced, !.step = NextStep(priced)])
  /\ UNCHANGED <<resolution, at, user, link>>

EnterStart(u) ==
  /\ At(u, "await_starttime")
  /\ Put(u, [wizards[u] EXCEPT !.drop.start = TRUE, !.step = "await_qty"])
  /\ UNCHANGED <<resolution, at, user, link>>

\* Mutant: the range check lets one more than the maximum through.
EnterQtyPastMax(u, q) ==
  /\ At(u, "await_qty")
  /\ IF wizards[u].drop.price * q > Cap
     THEN Replace(u, None)
     ELSE Put(u, [wizards[u] EXCEPT !.qty = q + 1, !.step = "await_budget"])
  /\ UNCHANGED <<resolution, at, user, link>>

\* The spend cap closes the wizard.
EnterQty(u, q) ==
  /\ At(u, "await_qty")
  /\ IF wizards[u].drop.price * q > Cap
     THEN Replace(u, None)
     ELSE Put(u, [wizards[u] EXCEPT !.qty = q, !.step = "await_budget"])
  /\ UNCHANGED <<resolution, at, user, link>>

\* The target is saved as it stands, and the conversation is over.
EnterBudget(u) ==
  /\ At(u, "await_budget")
  /\ Replace(u, None)
  /\ UNCHANGED <<resolution, at, user, link>>

-----------------------------------------------------------------------------
\* Nothing of a conversation survives the process.
Restart ==
  /\ cache' = [l \in Links |-> None]
  /\ reading' = {}
  /\ waiting' = [h \in Handlers |-> None]
  /\ answer' = [h \in Handlers |-> None]
  /\ wizards' = [u \in Users |-> None]
  /\ at' = [h \in Handlers |-> "idle"]
  /\ user' = [h \in Handlers |-> None]
  /\ link' = [h \in Handlers |-> None]
  /\ owns' = [h \in Handlers |-> FALSE]

ResolutionStep(l) ==
  /\ Resolved(l) \/ Unresolved(l) \/ Expire(l)
  /\ UNCHANGED <<wizards, handlers>>

HandlerStep(h) ==
  \/ ManualRead(h) \/ ManualFails(h)
  \/ Greeted(h) \/ LinkResolved(h) \/ LinkUnresolved(h)
  \/ Replied(h) \/ ReplyFails(h)

Message(u) ==
  \/ NewTarget(u) \/ Cancel(u)
  \/ \E h \in Handlers, l \in Links : ManualTarget(h, u, l) \/ PasteLink(h, u, l)
  \/ \E p \in Typed : EnterPrice(u, p)
  \/ EnterStart(u)
  \/ \E q \in Qtys : EnterQty(u, q)
  \/ EnterBudget(u)

Next ==
  \/ \E u \in Users : Message(u)
  \/ \E h \in Handlers : HandlerStep(h)
  \/ \E l \in Links : ResolutionStep(l)
  \/ Restart

Spec == Init /\ [][Next]_vars

-----------------------------------------------------------------------------
(* Properties                                                              *)

\* What EnterBudget(u) would save now.
Ready(u) == At(u, "await_budget")

\* Whatever the order in which links are pasted, answered and resolved, a target
\* is saved with a price and a start time: "What we never do is proceed to arming
\* with unknown values -- that check lives in the wizard" (resolvers/index.js:238).
\* An answer that comes late may replace known values by unknown ones.
SavedIsComplete ==
  \A u \in Users : Ready(u) => wizards[u].drop.price # Unknown /\ wizards[u].drop.start

\* A saved target never costs more than the cap (bot.js, step 2), although the
\* quantity is checked once, against a price that a later answer may replace.
WithinCap ==
  \A u \in Users : Ready(u) /\ wizards[u].drop.price \in Prices =>
    wizards[u].drop.price * wizards[u].qty <= Cap

\* What a saved target costs was published by its contract or typed by its own
\* owner: no price one user types reaches another through the shared resolution
\* or its cache.
PriceIsOwn ==
  \A u \in Users : Ready(u) =>
    LET drop == wizards[u].drop
    IN  /\ drop.by \in {Contract, u}
        /\ drop.by = Contract => drop.price \in PublishedPrices(Published[drop.link])

\* The questions a wizard asks, and the target it saves, are about a link its
\* user gave to this wizard, not to one that was cancelled or begun anew while
\* the link was being resolved.
AsksOwnLink ==
  \A u \in Users : wizards[u] # None /\ wizards[u].drop # None =>
    wizards[u].drop.link \in wizards[u].asked
=============================================================================
