---------------------------- MODULE WizardProofs ----------------------------
(***************************************************************************)
(* What the conversations save, for any number of users, handlers, links   *)
(* and prices: the invariants MCWizard checks on two of each, proved.      *)
(***************************************************************************)
EXTENDS Wizard, MintStageProofs

-----------------------------------------------------------------------------
(* What a contract tells                                                     *)

\* A drop read from the contract behind l: its price, if told, was published there.
ReadFrom(drop, l) ==
  /\ drop \in Drops /\ drop.link = l /\ drop.by = Contract
  /\ drop.price # Unknown => drop.price \in PublishedPrices(Published[l])

LEMMA ReadableDrops ==
  ASSUME NEW l \in Links, NEW drop \in Readable(l)  PROVE ReadFrom(drop, l)
<1>1. PICK stage \in Stages(Published[l]) \cup {Unknown} :
        drop = IF stage = Unknown THEN Drop(l, Unknown, FALSE)
               ELSE Drop(l, stage.price, stage.start # Unknown)
  BY DEF Readable, ReadableOf
<1>2. CASE stage = Unknown
  BY <1>1, <1>2 DEF Drop, Drops, ReadFrom
<1>3. CASE stage # Unknown
  <2>1. Told(stage, Published[l])
    BY <1>1, <1>3, StageTold, PublishedAssumption DEF Stages
  <2>2. stage.price \in PublishedPrices(Published[l]) \cup {Unknown}
    BY <2>1 DEF Told
  <2>3. stage.price \in Prices \cup {Unknown}
    BY <2>2, PublishedAssumption
  <2>. QED  BY <1>1, <1>3, <2>2, <2>3 DEF Drop, Drops, ReadFrom
<1>. QED  BY <1>2, <1>3

LEMMA NextStepTyped ==
  ASSUME NEW drop \in Drops
  PROVE  /\ NextStep(drop) \in {"await_price", "await_starttime", "await_qty"}
         /\ NextStep(drop) # "await_price" => drop.price # Unknown
         /\ NextStep(drop) = "await_qty" => drop.start
BY DEF NextStep, Drops

-----------------------------------------------------------------------------
(* The invariant                                                             *)

\* The parts of resolveTarget() and of the handlers that await it.
HandlerSound(h) ==
  /\ at[h] # "idle" => user[h] \in Users
  /\ at[h] \in {"greeting", "resolving", "reading"} => link[h] \in Links
  /\ waiting[h] # None => at[h] = "resolving" /\ waiting[h] = link[h]
  /\ answer[h] # None => at[h] = "resolving" /\ waiting[h] = None
  /\ answer[h] \in Drops => ReadFrom(answer[h], link[h])

Resolving ==
  /\ \A l \in Links : cache[l] # None => ReadFrom(cache[l], l)
  /\ \A h \in Handlers : HandlerSound(h)

\* A handler that holds the wizard of its user was sent a link to it.
Held(h) ==
  owns[h] => /\ at[h] \in {"greeting", "resolving"}
             /\ wizards[user[h]] # None
             /\ link[h] \in wizards[user[h]].asked

\* Where the conversation stands tells what is known.  The quantity was checked
\* against the price that is there now: an answer that replaces the drop takes
\* the conversation back before the quantity.
WizardSound(u, w) ==
  /\ w.step = "await_url" <=> w.drop = None
  /\ w.drop # None =>
       /\ w.drop.link \in w.asked
       /\ w.drop.by \in {Contract, u}
       /\ w.drop.by = Contract /\ w.drop.price # Unknown =>
            w.drop.price \in PublishedPrices(Published[w.drop.link])
  /\ w.step \in {"await_starttime", "await_qty", "await_budget"} => w.drop.price # Unknown
  /\ w.step \in {"await_qty", "await_budget"} => w.drop.start
  /\ w.step = "await_budget" => w.drop.price * w.qty <= Cap

Sound == \A u \in Users : wizards[u] # None => WizardSound(u, wizards[u])

Holding == \A h \in Handlers : Held(h)

IInv == TypeOK /\ Resolving /\ Holding /\ Sound

LEMMA InitIInv == Init => IInv
BY NoneAssumption
   DEF Init, ResolutionInit, IInv, TypeOK, ResolutionTypeOK, Resolving, HandlerSound,
       Holding, Held, Sound, Wizards, Drops

-----------------------------------------------------------------------------
(* Wizards that are replaced and wizards that are changed                    *)

\* wizards.set() and wizards.delete(): whoever held the old one holds nothing.
LEMMA Replaced ==
  ASSUME IInv, NEW u \in Users, NEW w \in Wizards \cup {None}, Replace(u, w),
         w # None => WizardSound(u, w),
         \A h \in Handlers : owns[h] /\ user[h] # u =>
           at'[h] = at[h] /\ user'[h] = user[h] /\ link'[h] = link[h]
  PROVE  /\ wizards' \in [Users -> Wizards \cup {None}]
         /\ owns' \in [Handlers -> BOOLEAN]
         /\ Sound' /\ Holding'
<1>1. /\ wizards' = [wizards EXCEPT ![u] = w]
      /\ owns' = [h \in Handlers |-> owns[h] /\ user[h] # u]
      /\ wizards \in [Users -> Wizards \cup {None}] /\ owns \in [Handlers -> BOOLEAN]
  BY DEF Replace, IInv, TypeOK
<1>2. Sound'
  BY <1>1 DEF IInv, Sound
<1>3. ASSUME NEW h \in Handlers, owns'[h]  PROVE Held(h)'
  <2>1. owns[h] /\ user[h] # u
    BY <1>1, <1>3
  <2>2. at'[h] = at[h] /\ user'[h] = user[h] /\ link'[h] = link[h] /\ Held(h)
    BY <2>1 DEF IInv, Holding
  <2>3. wizards'[user[h]] = wizards[user[h]]
    BY <1>1, <2>1
  <2>. QED  BY <2>1, <2>2, <2>3 DEF Held
<1>4. Holding'
  BY <1>3 DEF Holding, Held
<1>. QED  BY <1>1, <1>2, <1>4

\* A field of the wizard of u is assigned: whoever holds it still does.
LEMMA Assigned ==
  ASSUME IInv, NEW u \in Users, wizards[u] # None, NEW w \in Wizards, SetWizard(u, w),
         WizardSound(u, w), wizards[u].asked \subseteq w.asked,
         owns' \in [Handlers -> BOOLEAN],
         \A h \in Handlers : owns'[h] =>
           owns[h] /\ at'[h] = at[h] /\ user'[h] = user[h] /\ link'[h] = link[h]
  PROVE  wizards' \in [Users -> Wizards \cup {None}] /\ Sound' /\ Holding'
<1>1. /\ wizards' = [wizards EXCEPT ![u] = w]
      /\ wizards \in [Users -> Wizards \cup {None}]
  BY DEF SetWizard, IInv, TypeOK
<1>2. Sound'
  BY <1>1 DEF IInv, Sound
<1>3. ASSUME NEW h \in Handlers, owns'[h]  PROVE Held(h)'
  <2>1. owns[h] /\ at'[h] = at[h] /\ user'[h] = user[h] /\ link'[h] = link[h]
    BY <1>3
  <2>2. Held(h)
    BY DEF IInv, Holding
  <2>3. CASE user[h] = u
    BY <1>1, <2>1, <2>2, <2>3, WizardsAssumption DEF Held
  <2>4. CASE user[h] # u
    <3>1. wizards'[user[h]] = wizards[user[h]]
      BY <1>1, <2>4
    <3>. QED  BY <2>1, <2>2, <3>1 DEF Held
  <2>. QED  BY <2>3, <2>4
<1>4. Holding'
  BY <1>3 DEF Holding, Held
<1>. QED  BY <1>1, <1>2, <1>4

-----------------------------------------------------------------------------
(* Handlers that begin, go on and return                                     *)

LEMMA NothingResolved ==
  ASSUME IInv, UNCHANGED <<resolution, at, user, link>>
  PROVE  Resolving' /\ ResolutionTypeOK'
BY DEF IInv, Resolving, HandlerSound, TypeOK, ResolutionTypeOK, resolution

HandlersTyped ==
  /\ at \in [Handlers -> {"idle", "greeting", "resolving", "reading", "replying"}]
  /\ user \in [Handlers -> Users \cup {None}]
  /\ link \in [Handlers -> Links \cup {None}]

\* A handler has neither a question nor an answer while it does not await one.
LEMMA Silent ==
  ASSUME IInv, NEW h \in Handlers, at[h] # "resolving"
  PROVE  answer[h] = None /\ waiting[h] = None
BY DEF IInv, Resolving, HandlerSound

LEMMA BeginSound ==
  ASSUME IInv, NEW h \in Handlers, NEW u \in Users, NEW l \in Links,
         NEW place \in {"greeting", "reading"}, NEW holds \in BOOLEAN,
         Begin(h, u, l, place, holds), UNCHANGED resolution
  PROVE  Resolving' /\ ResolutionTypeOK' /\ HandlersTyped' /\ owns' \in [Handlers -> BOOLEAN]
<1>1. answer[h] = None /\ waiting[h] = None
  BY Silent DEF Begin
<1>2. at'[h] = place /\ user'[h] = u /\ link'[h] = l
  BY DEF Begin, IInv, TypeOK
<1>3. \A g \in Handlers \ {h} : at'[g] = at[g] /\ user'[g] = user[g] /\ link'[g] = link[g]
  BY DEF Begin, IInv, TypeOK
<1>4. UNCHANGED <<cache, reading, waiting, answer>>
  BY DEF resolution
<1>5. ASSUME NEW g \in Handlers  PROVE HandlerSound(g)'
  BY <1>1, <1>2, <1>3, <1>4, NoneAssumption DEF IInv, Resolving, HandlerSound
<1>6. Resolving'
  BY <1>4, <1>5 DEF IInv, Resolving
<1>. QED
  BY <1>4, <1>6 DEF Begin, HandlersTyped, IInv, TypeOK, ResolutionTypeOK

LEMMA ReturnSound ==
  ASSUME IInv, NEW h \in Handlers, at[h] # "resolving", Return(h), UNCHANGED resolution
  PROVE  Resolving' /\ ResolutionTypeOK' /\ HandlersTyped'
<1>1. answer[h] = None /\ waiting[h] = None
  BY Silent
<1>2. at'[h] = "idle"
  BY DEF Return, IInv, TypeOK
<1>3. \A g \in Handlers \ {h} : at'[g] = at[g] /\ user'[g] = user[g] /\ link'[g] = link[g]
  BY DEF Return, IInv, TypeOK
<1>4. UNCHANGED <<cache, reading, waiting, answer>>
  BY DEF resolution
<1>5. ASSUME NEW g \in Handlers  PROVE HandlerSound(g)'
  BY <1>1, <1>2, <1>3, <1>4, NoneAssumption DEF IInv, Resolving, HandlerSound
<1>6. Resolving'
  BY <1>4, <1>5 DEF IInv, Resolving
<1>. QED
  BY <1>4, <1>6 DEF Return, HandlersTyped, IInv, TypeOK, ResolutionTypeOK

\* A handler goes on with its answer, and has none after that.
LEMMA ReplySound ==
  ASSUME IInv, NEW h \in Handlers, at[h] = "resolving", answer[h] # None, Take(h), Reply(h)
  PROVE  Resolving' /\ ResolutionTypeOK' /\ HandlersTyped'
<1>1. at'[h] = "replying" /\ answer'[h] = None /\ user' = user
  BY DEF Reply, Take, IInv, TypeOK, ResolutionTypeOK
<1>2. \A g \in Handlers \ {h} : at'[g] = at[g] /\ link'[g] = link[g] /\ answer'[g] = answer[g]
  BY DEF Reply, Take, IInv, TypeOK, ResolutionTypeOK
<1>3. UNCHANGED <<cache, reading, waiting>>
  BY DEF Take
<1>4. ASSUME NEW g \in Handlers \ {h}  PROVE HandlerSound(g)'
  BY <1>1, <1>2, <1>3 DEF IInv, Resolving, HandlerSound
<1>5. HandlerSound(h)'
  <2>1. user[h] \in Users
    BY DEF IInv, Resolving, HandlerSound
  <2>2. waiting[h] = None
    BY DEF IInv, Resolving, HandlerSound
  <2>. QED  BY <1>1, <1>3, <2>1, <2>2, NoneAssumption DEF HandlerSound
<1>6. Resolving'
  BY <1>3, <1>4, <1>5 DEF IInv, Resolving
<1>. QED
  BY <1>3, <1>6 DEF Reply, Take, HandlersTyped, IInv, TypeOK, ResolutionTypeOK

LEMMA GreetedSound ==
  ASSUME IInv, NEW h \in Handlers, Greeted(h)
  PROVE  IInv'
<1>1. /\ at[h] = "greeting" /\ Resolve(h, link[h])
      /\ at' = [at EXCEPT ![h] = "resolving"]
      /\ UNCHANGED <<wizards, user, link, owns>>
  BY DEF Greeted
<1>2. link[h] \in Links /\ user[h] \in Users /\ answer[h] = None /\ waiting[h] = None
  BY <1>1, Silent DEF IInv, Resolving, HandlerSound
<1>3. at'[h] = "resolving" /\ \A g \in Handlers \ {h} : at'[g] = at[g]
  BY <1>1 DEF IInv, TypeOK
<1>4. cache' = cache /\ \A g \in Handlers \ {h} : answer'[g] = answer[g] /\ waiting'[g] = waiting[g]
  BY <1>1 DEF Resolve, IInv, TypeOK, ResolutionTypeOK
<1>5. HandlerSound(h)'
  <2>1. CASE cache[link[h]] # None
    <3>1. answer'[h] = cache[link[h]] /\ waiting'[h] = None
      BY <1>1, <1>2, <2>1 DEF Resolve, IInv, TypeOK, ResolutionTypeOK
    <3>2. ReadFrom(cache[link[h]], link[h])
      BY <1>2, <2>1 DEF IInv, Resolving
    <3>. QED  BY <1>1, <1>2, <1>3, <3>1, <3>2 DEF HandlerSound
  <2>2. CASE cache[link[h]] = None
    <3>1. waiting'[h] = link[h] /\ answer'[h] = None
      BY <1>1, <1>2, <2>2 DEF Resolve, IInv, TypeOK, ResolutionTypeOK
    <3>. QED  BY <1>1, <1>2, <1>3, <3>1, NoneAssumption DEF HandlerSound
  <2>. QED  BY <2>1, <2>2
<1>6. ASSUME NEW g \in Handlers \ {h}  PROVE HandlerSound(g)'
  BY <1>1, <1>3, <1>4 DEF IInv, Resolving, HandlerSound
<1>7. Resolving'
  BY <1>4, <1>5, <1>6 DEF IInv, Resolving
<1>8. TypeOK'
  BY <1>1, <1>2 DEF Resolve, IInv, TypeOK, ResolutionTypeOK
<1>9. ASSUME NEW g \in Handlers  PROVE Held(g)'
  BY <1>1, <1>3 DEF IInv, Holding, Held
<1>10. Holding' /\ Sound'
  BY <1>1, <1>9 DEF IInv, Holding, Sound
<1>. QED  BY <1>7, <1>8, <1>10 DEF IInv

\* A resolution ends, for everyone who waits for it.
LEMMA SettleSound ==
  ASSUME IInv, NEW l \in Links, NEW result, result = Failed \/ ReadFrom(result, l),
         Settle(l, result), UNCHANGED <<wizards, handlers>>,
         \/ cache' = cache
         \/ cache' = [cache EXCEPT ![l] = result] /\ ReadFrom(result, l)
  PROVE  IInv'
<1>1. /\ answer' = [h \in Handlers |-> IF waiting[h] = l THEN result ELSE answer[h]]
      /\ waiting' = [h \in Handlers |-> IF waiting[h] = l THEN None ELSE waiting[h]]
      /\ reading' = reading \ {l}
      /\ UNCHANGED <<wizards, at, user, link, owns>>
  BY DEF Settle, handlers
<1>2. ASSUME NEW h \in Handlers  PROVE HandlerSound(h)'
  <2>1. HandlerSound(h)
    BY DEF IInv, Resolving
  <2>2. CASE waiting[h] = l
    <3>1. at[h] = "resolving" /\ link[h] = l
      BY <2>1, <2>2, NoneAssumption DEF HandlerSound
    <3>. QED  BY <1>1, <2>1, <2>2, <3>1, NoneAssumption DEF HandlerSound
  <2>3. CASE waiting[h] # l
    BY <1>1, <2>1, <2>3 DEF HandlerSound
  <2>. QED  BY <2>2, <2>3
<1>3. ASSUME NEW k \in Links, cache'[k] # None  PROVE ReadFrom(cache'[k], k)
  BY <1>3 DEF IInv, Resolving, TypeOK, ResolutionTypeOK
<1>4. Resolving'
  BY <1>2, <1>3 DEF Resolving
<1>5. result \in Drops \cup {Failed} /\ (ReadFrom(result, l) => result \in Drops)
  BY DEF ReadFrom
<1>6. cache' \in [Links -> Drops \cup {None}]
  BY <1>5 DEF IInv, TypeOK, ResolutionTypeOK
<1>7. TypeOK'
  BY <1>1, <1>5, <1>6 DEF IInv, TypeOK, ResolutionTypeOK
<1>8. Holding' /\ Sound'
  BY <1>1 DEF IInv, Holding, Held, Sound
<1>. QED  BY <1>4, <1>7, <1>8 DEF IInv

LEMMA ResolutionSound ==
  ASSUME IInv, NEW l \in Links, ResolutionStep(l)
  PROVE  IInv'
<1>1. CASE Resolved(l)
  <2>1. PICK drop \in Readable(l) : Settle(l, drop) /\ cache' = [cache EXCEPT ![l] = drop]
    BY <1>1 DEF Resolved
  <2>2. ReadFrom(drop, l)
    BY ReadableDrops
  <2>. QED  BY <2>1, <2>2, SettleSound DEF ResolutionStep
<1>2. CASE Unresolved(l)
  <2>1. Settle(l, Failed) /\ cache' = cache /\ UNCHANGED <<wizards, handlers>>
    BY <1>2 DEF Unresolved, ResolutionStep
  <2>. QED  BY <2>1, SettleSound
<1>3. CASE Expire(l)
  <2>1. /\ cache' = [cache EXCEPT ![l] = None]
        /\ UNCHANGED <<reading, waiting, answer, wizards, at, user, link, owns>>
    BY <1>3 DEF Expire, ResolutionStep, handlers
  <2>2. Resolving'
    BY <2>1 DEF IInv, Resolving, HandlerSound, TypeOK, ResolutionTypeOK
  <2>3. TypeOK'
    BY <2>1 DEF IInv, TypeOK, ResolutionTypeOK
  <2>4. Holding' /\ Sound'
    BY <2>1 DEF IInv, Holding, Held, Sound
  <2>. QED  BY <2>2, <2>3, <2>4 DEF IInv
<1>. QED  BY <1>1, <1>2, <1>3 DEF ResolutionStep

-----------------------------------------------------------------------------
(* The handlers                                                              *)

\* A step that replaces the wizard of u by w, seen whole.
LEMMA ReplaceSound ==
  ASSUME IInv, NEW u \in Users, NEW w \in Wizards \cup {None}, Replace(u, w),
         w # None => WizardSound(u, w),
         Resolving', ResolutionTypeOK', HandlersTyped',
         \A h \in Handlers : owns[h] /\ user[h] # u =>
           at'[h] = at[h] /\ user'[h] = user[h] /\ link'[h] = link[h]
  PROVE  IInv'
BY Replaced DEF IInv, TypeOK, HandlersTyped

LEMMA AssignSound ==
  ASSUME IInv, NEW u \in Users, wizards[u] # None, NEW w \in Wizards, SetWizard(u, w),
         WizardSound(u, w), wizards[u].asked \subseteq w.asked,
         Resolving', ResolutionTypeOK', HandlersTyped',
         owns' \in [Handlers -> BOOLEAN],
         \A h \in Handlers : owns'[h] =>
           owns[h] /\ at'[h] = at[h] /\ user'[h] = user[h] /\ link'[h] = link[h]
  PROVE  IInv'
BY Assigned DEF IInv, TypeOK, HandlersTyped

\* A drop that was read from a contract, put in place with the step it calls for.
LEMMA ReadWizard ==
  ASSUME NEW l \in Links, NEW drop, ReadFrom(drop, l), NEW u \in Users, NEW w \in Wizards,
         w.drop = drop, w.step = NextStep(drop), l \in w.asked
  PROVE  WizardSound(u, w)
<1>1. drop \in Drops /\ drop # None
  BY NoneAssumption DEF ReadFrom
<1>. QED  BY <1>1, NextStepTyped DEF ReadFrom, WizardSound

LEMMA ManualReadSound ==
  ASSUME IInv, NEW h \in Handlers, ManualRead(h)
  PROVE  IInv'
<1>1. at[h] = "reading" /\ Return(h) /\ UNCHANGED resolution
  BY DEF ManualRead
<1>2. link[h] \in Links /\ user[h] \in Users /\ ~owns[h]
  BY <1>1 DEF IInv, Resolving, HandlerSound, Holding, Held
<1>3. PICK drop \in Readable(link[h]) :
        Replace(user[h], [step |-> NextStep(drop), drop |-> drop, qty |-> 0,
                          asked |-> {link[h]}])
  BY DEF ManualRead
<1>. DEFINE w == [step |-> NextStep(drop), drop |-> drop, qty |-> 0, asked |-> {link[h]}]
<1>4. ReadFrom(drop, link[h])
  BY <1>2, ReadableDrops
<1>5. w \in Wizards
  BY <1>2, <1>4, NextStepTyped DEF ReadFrom, Wizards, Steps
<1>6. w.drop = drop /\ w.step = NextStep(drop) /\ link[h] \in w.asked
  OBVIOUS
<1>7. Replace(user[h], w)
  BY <1>3
<1>. HIDE DEF w
<1>8. WizardSound(user[h], w)
  BY <1>2, <1>4, <1>5, <1>6, ReadWizard
<1>9. Resolving' /\ ResolutionTypeOK' /\ HandlersTyped'
  BY <1>1, ReturnSound
<1>10. \A g \in Handlers : owns[g] /\ user[g] # user[h] =>
         at'[g] = at[g] /\ user'[g] = user[g] /\ link'[g] = link[g]
  BY <1>1 DEF Return, IInv, TypeOK
<1>. QED  BY <1>2, <1>5, <1>7, <1>8, <1>9, <1>10, ReplaceSound

LEMMA LinkResolvedSound ==
  ASSUME IInv, NEW h \in Handlers, LinkResolved(h)
  PROVE  IInv'
<1>1. /\ at[h] = "resolving" /\ answer[h] \in Drops
      /\ owns' = [owns EXCEPT ![h] = FALSE]
      /\ Take(h) /\ Reply(h)
  BY DEF LinkResolved
<1>2. answer[h] # None
  BY <1>1, NoneAssumption
<1>3. Resolving' /\ ResolutionTypeOK' /\ HandlersTyped'
  BY <1>1, <1>2, ReplySound
<1>4. /\ owns' \in [Handlers -> BOOLEAN]
      /\ \A g \in Handlers : owns'[g] => /\ g # h /\ owns[g] /\ at'[g] = at[g]
                                         /\ user'[g] = user[g] /\ link'[g] = link[g]
  BY <1>1 DEF Reply, IInv, TypeOK
<1>5. link[h] \in Links /\ user[h] \in Users /\ ReadFrom(answer[h], link[h])
  BY <1>1 DEF IInv, Resolving, HandlerSound
<1>6. CASE owns[h]
  <2>. DEFINE v == wizards[user[h]]
             w == [v EXCEPT !.drop = answer[h], !.step = NextStep(answer[h])]
  <2>1. SetWizard(user[h], w)
    BY <1>6 DEF LinkResolved
  <2>2. v # None /\ link[h] \in v.asked
    BY <1>6 DEF IInv, Holding, Held
  <2>3. v \in Wizards
    BY <1>5, <2>2 DEF IInv, TypeOK
  <2>4. w \in Wizards
    BY <1>1, <2>3, NextStepTyped DEF Wizards, Steps
  <2>5. w.drop = answer[h] /\ w.step = NextStep(answer[h]) /\ w.asked = v.asked
    BY <2>3 DEF Wizards
  <2>. HIDE DEF w
  <2>6. WizardSound(user[h], w)
    BY <1>5, <2>2, <2>4, <2>5, ReadWizard
  <2>. QED  BY <1>3, <1>4, <1>5, <2>1, <2>2, <2>4, <2>5, <2>6, AssignSound
<1>7. CASE ~owns[h]
  <2>1. wizards' = wizards
    BY <1>7 DEF LinkResolved
  <2>2. Holding' /\ Sound'
    BY <1>4, <2>1 DEF IInv, Holding, Held, Sound
  <2>. QED  BY <1>3, <1>4, <2>1, <2>2 DEF IInv, TypeOK, HandlersTyped
<1>. QED  BY <1>6, <1>7

LEMMA HandlerStepSound ==
  ASSUME IInv, NEW h \in Handlers, HandlerStep(h)
  PROVE  IInv'
<1>1. CASE ManualFails(h) \/ Replied(h)
  <2>1. at[h] \in {"reading", "replying"} /\ Return(h) /\ UNCHANGED <<resolution, wizards, owns>>
    BY <1>1 DEF ManualFails, Replied
  <2>2. Resolving' /\ ResolutionTypeOK' /\ HandlersTyped'
    BY <2>1, ReturnSound
  <2>3. \A g \in Handlers : owns[g] => /\ at'[g] = at[g] /\ user'[g] = user[g]
                                       /\ link'[g] = link[g]
    BY <2>1 DEF Return, IInv, TypeOK, Holding, Held
  <2>4. Holding' /\ Sound'
    BY <2>1, <2>3 DEF IInv, Holding, Held, Sound
  <2>. QED  BY <2>1, <2>2, <2>4 DEF IInv, TypeOK, HandlersTyped
<1>2. CASE LinkUnresolved(h)
  <2>1. /\ at[h] = "resolving" /\ answer[h] = Failed
        /\ Replace(user[h], None) /\ Take(h) /\ Reply(h)
    BY <1>2 DEF LinkUnresolved
  <2>2. user[h] \in Users /\ answer[h] # None
    BY <2>1, NoneAssumption DEF IInv, Resolving, HandlerSound
  <2>3. Resolving' /\ ResolutionTypeOK' /\ HandlersTyped'
    BY <2>1, <2>2, ReplySound
  <2>4. \A g \in Handlers : owns[g] /\ user[g] # user[h] =>
          at'[g] = at[g] /\ user'[g] = user[g] /\ link'[g] = link[g]
    BY <2>1 DEF Reply, IInv, TypeOK
  <2>. QED  BY <2>1, <2>2, <2>3, <2>4, ReplaceSound
<1>3. CASE ReplyFails(h)
  <2>1. /\ at[h] \in {"greeting", "replying"} /\ Return(h) /\ UNCHANGED resolution
        /\ Replace(user[h], None)
    BY <1>3 DEF ReplyFails
  <2>2. user[h] \in Users
    BY <2>1 DEF IInv, Resolving, HandlerSound
  <2>3. Resolving' /\ ResolutionTypeOK' /\ HandlersTyped'
    BY <2>1, ReturnSound
  <2>4. \A g \in Handlers : owns[g] /\ user[g] # user[h] =>
          at'[g] = at[g] /\ user'[g] = user[g] /\ link'[g] = link[g]
    BY <2>1 DEF Return, IInv, TypeOK
  <2>. QED  BY <2>1, <2>2, <2>3, <2>4, ReplaceSound
<1>. QED
  BY <1>1, <1>2, <1>3, ManualReadSound, GreetedSound, LinkResolvedSound DEF HandlerStep

-----------------------------------------------------------------------------
(* The messages                                                              *)

LEMMA PasteLinkSound ==
  ASSUME IInv, NEW h \in Handlers, NEW u \in Users, NEW l \in Links, PasteLink(h, u, l)
  PROVE  IInv'
<1>. DEFINE v == wizards[u]
            w == [v EXCEPT !.asked = @ \cup {l}]
<1>1. /\ v # None /\ v.step = "await_url"
      /\ wizards' = [wizards EXCEPT ![u].asked = @ \cup {l}]
      /\ Begin(h, u, l, "greeting", TRUE) /\ UNCHANGED resolution
  BY DEF PasteLink
<1>2. v \in Wizards /\ WizardSound(u, v)
  BY <1>1 DEF IInv, TypeOK, Sound
<1>3. w \in Wizards /\ w.step = v.step /\ w.drop = v.drop /\ w.asked = v.asked \cup {l}
  BY <1>2 DEF Wizards
<1>4. /\ wizards \in [Users -> Wizards \cup {None}]
      /\ wizards' = [wizards EXCEPT ![u] = w]
  BY <1>1 DEF IInv, TypeOK
<1>. HIDE DEF w
<1>5. WizardSound(u, w)
  BY <1>1, <1>2, <1>3 DEF WizardSound
<1>6. wizards' \in [Users -> Wizards \cup {None}] /\ Sound'
  BY <1>3, <1>4, <1>5 DEF IInv, Sound
<1>7. Resolving' /\ ResolutionTypeOK' /\ HandlersTyped' /\ owns' \in [Handlers -> BOOLEAN]
  BY <1>1, BeginSound
<1>8. ASSUME NEW g \in Handlers, owns'[g]  PROVE Held(g)'
  <2>1. CASE g = h
    <3>1. at'[g] = "greeting" /\ user'[g] = u /\ link'[g] = l
      BY <1>1, <2>1 DEF Begin, IInv, TypeOK
    <3>. QED  BY <1>3, <1>4, <3>1, WizardsAssumption DEF Held
  <2>2. CASE g # h
    <3>1. at'[g] = at[g] /\ user'[g] = user[g] /\ link'[g] = link[g] /\ owns[g]
      BY <1>1, <1>8, <2>2 DEF Begin, IInv, TypeOK
    <3>2. Held(g)
      BY DEF IInv, Holding
    <3>3. CASE user[g] = u
      BY <1>3, <1>4, <3>1, <3>2, <3>3, WizardsAssumption DEF Held
    <3>4. CASE user[g] # u
      <4>1. wizards'[user[g]] = wizards[user[g]]
        BY <1>4, <3>4
      <4>. QED  BY <3>1, <3>2, <4>1 DEF Held
    <3>. QED  BY <3>3, <3>4
  <2>. QED  BY <2>1, <2>2
<1>9. Holding'
  BY <1>8 DEF Holding, Held
<1>. QED  BY <1>6, <1>7, <1>9 DEF IInv, TypeOK, HandlersTyped

\* An answer to one of the questions: the wizard of u goes from v to w.
LEMMA PutSound ==
  ASSUME IInv, NEW u \in Users, wizards[u] # None, NEW w \in Wizards, Put(u, w),
         WizardSound(u, w), w.asked = wizards[u].asked,
         UNCHANGED <<resolution, at, user, link>>
  PROVE  IInv'
<1>1. Resolving' /\ ResolutionTypeOK'
  BY NothingResolved
<1>2. HandlersTyped' /\ owns' \in [Handlers -> BOOLEAN]
  BY DEF IInv, TypeOK, HandlersTyped, Put
<1>3. SetWizard(u, w) /\ wizards[u].asked \subseteq w.asked
  BY DEF Put
<1>4. \A h \in Handlers : owns'[h] =>
        owns[h] /\ at'[h] = at[h] /\ user'[h] = user[h] /\ link'[h] = link[h]
  BY DEF Put
<1>. QED  BY <1>1, <1>2, <1>3, <1>4, AssignSound

\* The wizard of u is closed, or begun anew.
LEMMA CloseSound ==
  ASSUME IInv, NEW u \in Users, NEW w \in {Fresh, None}, Replace(u, w),
         UNCHANGED <<resolution, at, user, link>>
  PROVE  IInv'
<1>1. Fresh \in Wizards /\ WizardSound(u, Fresh)
  BY DEF Fresh, Wizards, Steps, WizardSound
<1>2. w \in Wizards \cup {None} /\ (w # None => WizardSound(u, w))
  BY <1>1
<1>3. Resolving' /\ ResolutionTypeOK'
  BY NothingResolved
<1>4. HandlersTyped'
  BY DEF IInv, TypeOK, HandlersTyped
<1>. QED  BY <1>2, <1>3, <1>4, ReplaceSound

\* A wizard that was resolved has a drop to ask about.
LEMMA AtDrop ==
  ASSUME IInv, NEW u \in Users, NEW step \in Steps \ {"await_url"}, At(u, step)
  PROVE  /\ wizards[u] # None /\ wizards[u] \in Wizards /\ WizardSound(u, wizards[u])
         /\ wizards[u].step = step /\ wizards[u].drop \in Drops /\ wizards[u].drop # None
<1>1. wizards[u] # None /\ wizards[u] \in Wizards /\ WizardSound(u, wizards[u])
  BY DEF At, IInv, TypeOK, Sound
<1>. QED  BY <1>1, NoneAssumption DEF At, Wizards, WizardSound

LEMMA EnterPriceSound ==
  ASSUME IInv, NEW u \in Users, NEW p \in Typed, EnterPrice(u, p)
  PROVE  IInv'
<1>. DEFINE v == wizards[u]
            priced == [v.drop EXCEPT !.price = p, !.by = u]
            w == [v EXCEPT !.drop = priced, !.step = NextStep(priced)]
<1>1. /\ At(u, "await_price") /\ Put(u, w)
      /\ UNCHANGED <<resolution, at, user, link>>
  BY DEF EnterPrice
<1>2. /\ v # None /\ v \in Wizards /\ WizardSound(u, v)
      /\ v.drop \in Drops /\ v.drop # None
  BY <1>1, AtDrop DEF Steps
<1>3. p \in Prices /\ p # Unknown
  BY PricesAssumption, LimitsAssumption
<1>4. /\ priced \in Drops /\ priced.price = p /\ priced.by = u
      /\ priced.link = v.drop.link
  BY <1>2, <1>3 DEF Drops
<1>. HIDE DEF priced
<1>5. w \in Wizards /\ w.drop = priced /\ w.step = NextStep(priced) /\ w.asked = v.asked
  BY <1>2, <1>4, NextStepTyped DEF Wizards, Steps
<1>. HIDE DEF w
<1>6. priced # None
  BY <1>4, NoneAssumption
<1>7. WizardSound(u, w)
  BY <1>2, <1>3, <1>4, <1>5, <1>6, NextStepTyped, NoneAssumption DEF WizardSound
<1>. QED  BY <1>1, <1>2, <1>5, <1>7, PutSound

LEMMA EnterStartSound ==
  ASSUME IInv, NEW u \in Users, EnterStart(u)
  PROVE  IInv'
<1>. DEFINE v == wizards[u]
            timed == [v.drop EXCEPT !.start = TRUE]
            w == [v EXCEPT !.drop.start = TRUE, !.step = "await_qty"]
<1>1. /\ At(u, "await_starttime") /\ Put(u, w)
      /\ UNCHANGED <<resolution, at, user, link>>
  BY DEF EnterStart
<1>2. /\ v # None /\ v \in Wizards /\ WizardSound(u, v) /\ v.step = "await_starttime"
      /\ v.drop \in Drops /\ v.drop # None
  BY <1>1, AtDrop DEF Steps
<1>3. /\ timed \in Drops /\ timed.price = v.drop.price /\ timed.by = v.drop.by
      /\ timed.link = v.drop.link /\ timed.start
  BY <1>2 DEF Drops
<1>4. w \in Wizards /\ w.drop = timed /\ w.step = "await_qty" /\ w.asked = v.asked
  BY <1>2, <1>3 DEF Wizards, Steps
<1>. HIDE DEF timed, w
<1>5. timed # None
  BY <1>3, NoneAssumption
<1>6. WizardSound(u, w)
  BY <1>2, <1>3, <1>4, <1>5 DEF WizardSound
<1>. QED  BY <1>1, <1>2, <1>4, <1>6, PutSound

LEMMA EnterQtySound ==
  ASSUME IInv, NEW u \in Users, NEW q \in Qtys, EnterQty(u, q)
  PROVE  IInv'
<1>. DEFINE v == wizards[u]
            w == [v EXCEPT !.qty = q, !.step = "await_budget"]
<1>1. /\ At(u, "await_qty") /\ UNCHANGED <<resolution, at, user, link>>
      /\ IF v.drop.price * q > Cap THEN Replace(u, None) ELSE Put(u, w)
  BY DEF EnterQty
<1>2. /\ v # None /\ v \in Wizards /\ WizardSound(u, v) /\ v.step = "await_qty"
      /\ v.drop \in Drops /\ v.drop # None
  BY <1>1, AtDrop DEF Steps
<1>3. CASE v.drop.price * q > Cap
  BY <1>1, <1>3, CloseSound
<1>4. CASE ~(v.drop.price * q > Cap)
  <2>1. v.drop.price \in Nat /\ q \in Nat
    BY <1>2, PricesAssumption, LimitsAssumption DEF WizardSound, Drops
  <2>2. v.drop.price * q \in Nat
    BY <2>1
  <2>3. v.drop.price * q <= Cap
    BY <1>4, <2>2, LimitsAssumption
  <2>4. /\ w \in Wizards /\ w.drop = v.drop /\ w.step = "await_budget"
        /\ w.qty = q /\ w.asked = v.asked
    BY <1>2 DEF Wizards, Steps
  <2>5. Put(u, w)
    BY <1>1, <1>4
  <2>. HIDE DEF w
  <2>6. w.drop.price * w.qty <= Cap
    BY <2>3, <2>4
  <2>7. WizardSound(u, w)
    BY <1>2, <2>4, <2>6 DEF WizardSound
  <2>. QED  BY <1>1, <1>2, <2>4, <2>5, <2>7, PutSound
<1>. QED  BY <1>3, <1>4

LEMMA MessageSound ==
  ASSUME IInv, NEW u \in Users, Message(u)
  PROVE  IInv'
<1>1. CASE NewTarget(u) \/ Cancel(u) \/ EnterBudget(u)
  BY <1>1, CloseSound DEF NewTarget, Cancel, EnterBudget
<1>2. ASSUME NEW h \in Handlers, NEW l \in Links, ManualTarget(h, u, l)
      PROVE  IInv'
  <2>1. Begin(h, u, l, "reading", FALSE) /\ UNCHANGED <<resolution, wizards>>
    BY <1>2 DEF ManualTarget
  <2>2. Resolving' /\ ResolutionTypeOK' /\ HandlersTyped' /\ owns' \in [Handlers -> BOOLEAN]
    BY <2>1, BeginSound
  <2>3. \A g \in Handlers : owns'[g] => /\ owns[g] /\ at'[g] = at[g] /\ user'[g] = user[g]
                                        /\ link'[g] = link[g]
    BY <2>1 DEF Begin, IInv, TypeOK
  <2>4. Holding' /\ Sound'
    BY <2>1, <2>3 DEF IInv, Holding, Held, Sound
  <2>. QED  BY <2>1, <2>2, <2>4 DEF IInv, TypeOK, HandlersTyped
<1>. QED
  BY <1>1, <1>2, PasteLinkSound, EnterPriceSound, EnterStartSound, EnterQtySound
     DEF Message

LEMMA RestartSound ==
  ASSUME Restart  PROVE IInv'
BY NoneAssumption
   DEF Restart, IInv, TypeOK, ResolutionTypeOK, Resolving, HandlerSound, Holding, Held,
       Sound, Wizards, Drops

LEMMA NextIInv == IInv /\ [Next]_vars => IInv'
<1>1. ASSUME IInv, UNCHANGED vars  PROVE IInv'
  <2>1. UNCHANGED <<cache, reading, waiting, answer, wizards, at, user, link, owns>>
    BY <1>1 DEF vars
  <2>. QED
    BY <1>1, <2>1 DEF IInv, TypeOK, ResolutionTypeOK, Resolving, HandlerSound, Holding,
                      Held, Sound
<1>. QED
  BY <1>1, MessageSound, HandlerStepSound, ResolutionSound, RestartSound DEF Next

LEMMA Invariant == Spec => []IInv
BY InitIInv, NextIInv, PTL DEF Spec

-----------------------------------------------------------------------------
(* What is saved                                                             *)

\* Every reachable state of conversations, handlers and resolutions is well typed.
THEOREM TypeCorrect == Spec => []TypeOK
<1>1. IInv => TypeOK  BY DEF IInv
<1>. QED  BY <1>1, Invariant, PTL

\* No order of pasted links, answers, late resolutions and lost replies lets a
\* target be saved without a price or a start time.
THEOREM SavedTargetsAreComplete == Spec => []SavedIsComplete
<1>1. IInv => SavedIsComplete
  BY DEF IInv, Sound, WizardSound, SavedIsComplete, Ready, At
<1>. QED  BY <1>1, Invariant, PTL

\* ... nor one that costs more than the cap, though the price may be replaced
\* after the quantity was checked against it.
THEOREM SavedTargetsAreWithinCap == Spec => []WithinCap
<1>1. IInv => WithinCap
  BY DEF IInv, Sound, WizardSound, WithinCap, Ready, At
<1>. QED  BY <1>1, Invariant, PTL

\* The price of a saved target was published by the contract its link leads to or
\* typed by its owner: none passes from user to user through the shared resolution.
THEOREM PricesAreOwn == Spec => []PriceIsOwn
<1>1. ASSUME IInv, NEW u \in Users, Ready(u)
      PROVE  /\ wizards[u].drop.by \in {Contract, u}
             /\ wizards[u].drop.by = Contract =>
                  wizards[u].drop.price \in PublishedPrices(Published[wizards[u].drop.link])
  <2>1. WizardSound(u, wizards[u]) /\ wizards[u].step = "await_budget"
    BY <1>1 DEF Ready, At, IInv, Sound
  <2>. QED  BY <2>1 DEF WizardSound
<1>2. IInv => PriceIsOwn
  BY <1>1 DEF PriceIsOwn
<1>. QED  BY <1>2, Invariant, PTL

\* A wizard asks about, and saves, a link its user gave to that very wizard.
THEOREM WizardsAskAboutOwnLinks == Spec => []AsksOwnLink
<1>1. IInv => AsksOwnLink
  BY DEF IInv, Sound, WizardSound, AsksOwnLink
<1>. QED  BY <1>1, Invariant, PTL
=============================================================================
