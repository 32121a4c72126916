------------------------------- MODULE Executor -------------------------------
(***************************************************************************)
(* The actions of rules/executor.py: activating an ability with its costs, *)
(* resolving a pending trigger, casting from hand, sacrificing and the     *)
(* seeds; and run_step, which applies the state-based actions after a step *)
(* that did not fail.                                                      *)
(***************************************************************************)
EXTENDS Effects


-----------------------------------------------------------------------------
(* Finding an ability *)
\* find_ability, as an option: the first ability with the id.
FindAbility(p, ability) ==
  LET found == {i \in DOMAIN AbilitiesOf(p) : AbilitiesOf(p)[i].ability_id = ability}
  IN {AbilitiesOf(p)[i] : i \in {j \in found : \A k \in found : j <= k}}

GrantApplies(st, grant, host) ==
  LET p == st.permanents[host]
  IN /\ Controlled(p) /\ p.is_creature
     /\ grant.host_filter = "white_creatures_you_control" => "W" \in p.colors
     /\ grant.host_filter = "slivers_you_control" => "sliver" \in CreatureSubtypes(p) \cup CardTypes(p)

GrantId(source, ability) == "grant:" \o source \o ":" \o ability

\* The abilities other permanents grant under the id "grant:<source>:<ability>".
GrantedUnder(st, ability) ==
  UNION {{ab \in ToSet(AbilitiesOf(st.permanents[id])) :
            ab.kind = "grant_activated" /\ GrantId(id, ab.ability_id) = ability} :
         id \in {x \in Ids(st) : OnBattlefield(st.permanents[x])}}

\* find_activated_ability, as an option: printed first, then granted.
FindActivated(st, host, ability) ==
  LET printed == {ab \in FindAbility(st.permanents[host], ability) : ab.kind = "activated"}
      granted == {ab \in GrantedUnder(st, ability) : GrantApplies(st, ab, host)}
  IN IF printed # {} THEN printed
     ELSE {[ActivatedAbility EXCEPT !.ability_id = ability, !.costs = ab.costs,
              !.effects = ab.effects, !.is_mana_ability = ab.is_mana_ability] : ab \in granted}

-----------------------------------------------------------------------------
(* Costs.  Costs are paid one after the other on the state itself.  The     *)
(* accumulator a carries the state, the error, the target (a cost that has  *)
(* used the step's target clears it) and the generic reduction left.          *)
Fails(a, status) == [a EXCEPT !.err = status]
Paid(a, st) == [a EXCEPT !.st = st]
PaidWith(a, st, used) == [a EXCEPT !.st = st, !.target = IF used THEN NoId ELSE @]

\* Mutant: the sickness of the host is not looked at.
TapHostError_IgnoresSickness(st, id, host) ==
  LET p == st.permanents[id]
      kind == IF host = "land" THEN "land" \in TypeSet(p) ELSE p.is_creature
  IN CASE ~Exists(st, id) -> "illegal_target"
       [] OTHER -> IF ~Controlled(p) \/ ~kind THEN "illegal_target"
                   ELSE IF p.tapped THEN "illegal_action" ELSE "ok"

\* _validate_tap_host, as the error a host meets.
TapHostError(st, id, host) ==
  LET p == st.permanents[id]
      kind == IF host = "land" THEN "land" \in TypeSet(p) ELSE p.is_creature
  IN CASE ~Exists(st, id) -> "illegal_target"
       [] OTHER -> IF ~Controlled(p) \/ ~kind THEN "illegal_target"
                   ELSE IF p.tapped THEN "illegal_action"
                   ELSE IF host = "creature" /\ p.summoning_sick THEN "timing_violation"
                   ELSE "ok"

\* The error the source of a {T} of its own meets.
TapSelfError(p) ==
  IF p.tapped THEN "illegal_action"
  ELSE IF p.is_creature /\ p.summoning_sick THEN "timing_violation" ELSE "ok"

TapFor(a, id, self, error) ==
  IF error # "ok" THEN Fails(a, error)
  ELSE PaidWith(a, [a.st EXCEPT !.permanents[id].tapped = TRUE], ~self)
PayTap(a, cost, actor) ==
  IF cost.source_self THEN TapFor(a, actor, TRUE, TapSelfError(a.st.permanents[actor]))
  ELSE IF a.target = NoId THEN Fails(a, "illegal_action")
  ELSE TapFor(a, a.target, FALSE, TapHostError(a.st, a.target, cost.host))

\* Pay from the pools of the state; the pools are drained even by a payment that fails.
Drained(st, w) == [st EXCEPT !.mana = w.mana, !.mana_activate_only = w.aux]
Charge(a, w) == [a EXCEPT !.st = Drained(@, w), !.err = w.status]
PayFromPools(a, need, allow) == Charge(a, PayMana(a.st.mana, a.st.mana_activate_only, need, allow))

\* The reduction is shared by all mana costs of the ability; the floor adds generic back.
PayManaCost(a, cost, floor) ==
  LET reduced == Least(a.reduction, cost.amount["generic"])
      cheaper == [cost.amount EXCEPT !["generic"] = @ - reduced]
      short == NonNegative(floor - Total(cheaper))
  IN PayFromPools([a EXCEPT !.reduction = @ - reduced],
                  [cheaper EXCEPT !["generic"] = @ + short], TRUE)

\* One mana of the first colour that can be paid; only the unrestricted pool is looked at
\* before trying.
PayHybrid(a, cost) ==
  LET candidates == Those(cost.colors, {color \in Fields : a.st.mana[color] > 0 \/ a.st.mana["any_color"] > 0})
  IN IF candidates = <<>> THEN Fails(a, "mana_restriction")
     ELSE PayFromPools(a, [NoMana EXCEPT ![candidates[1]] = 1], TRUE)

\* No counter multiplier for -1/-1, no trigger; the event is "counter".
PlaceForCost(a, kind, actor, n) ==
  IF n <= 0 THEN a
  ELSE Paid(a, Bump([a.st EXCEPT !.permanents[actor] =
                       WithCounters(@, kind, Counters(@, kind) + n)], "counter", n))
PayAddCounter(a, cost, actor) ==
  PlaceForCost(a, cost.counter_type, actor,
               CASE cost.counter_type = "m1m1" -> M1M1PutQuantity(a.st, cost.quantity)
                 [] cost.counter_type = "p1p1" -> P1P1PutQuantity(a.st, cost.quantity, actor)
                 [] OTHER -> cost.quantity)

\* The counter's key disappears when the last one is removed.
RemovedCounters(p, kind, n) ==
  IF Counters(p, kind) - n > 0 THEN WithCounters(p, kind, Counters(p, kind) - n)
  ELSE [p EXCEPT !.counters = [k \in DOMAIN p.counters \ {kind} |-> p.counters[k]]]

RemoveForCost(a, cost, host, self) ==
  IF Counters(a.st.permanents[host], cost.counter_type) < cost.quantity
  THEN Fails(a, "resource_deficit")
  ELSE PaidWith(a, Bump([a.st EXCEPT !.permanents[host] =
                           RemovedCounters(@, cost.counter_type, cost.quantity)],
                        "counter", cost.quantity), ~self)
PayRemoveCounter(a, cost, actor) ==
  IF cost.selector = "self" THEN RemoveForCost(a, cost, actor, TRUE)
  ELSE IF a.target = NoId THEN Fails(a, "illegal_action")
  ELSE IF a.target \notin YourCreatures(a.st) THEN Fails(a, "illegal_target")
  ELSE RemoveForCost(a, cost, a.target, FALSE)

\* {Q}: the host must be tapped; where it is and who controls it is not asked.
PayUntapSymbol(a, cost, actor) ==
  LET host == IF cost.source_self THEN actor ELSE a.target
      legal == /\ Exists(a.st, host)
               /\ cost.source_self \/ a.st.permanents[host].is_creature
               /\ a.st.permanents[host].tapped
  IN IF ~legal THEN Fails(a, "illegal_action")
     ELSE PaidWith(a, Untap(a.st, host), ~cost.source_self)

PayLife(a, cost) ==
  IF cost.amount <= 0 THEN Fails(a, "illegal_action")
  ELSE IF a.st.life_you < cost.amount THEN Fails(a, "resource_deficit")
  ELSE Paid(a, Bump([a.st EXCEPT !.life_you = @ - cost.amount], "life_loss", cost.amount))

\* Mutant: one energy too few is enough.
PayEnergy_OffByOne(a, cost) ==
  LET n == Greatest({1, cost.amount})
  IN IF a.st.energy_you < n - 1 THEN Fails(a, "resource_deficit")
     ELSE Paid(a, Bump([a.st EXCEPT !.energy_you = @ - n], "energy_paid", n))

PayEnergy(a, cost) ==
  LET n == Greatest({1, cost.amount})
  IN IF a.st.energy_you < n THEN Fails(a, "resource_deficit")
     ELSE Paid(a, Bump([a.st EXCEPT !.energy_you = @ - n], "energy_paid", n))

PayLoyalty(a, cost, actor) ==
  LET loyalty == Counters(a.st.permanents[actor], "loyalty")
      moved == [a.st EXCEPT !.permanents[actor] = WithCounters(@, "loyalty", loyalty + cost.delta)]
  IN IF cost.delta >= 0 THEN Paid(a, Bump(moved, "loyalty", cost.delta))
     ELSE IF loyalty + cost.delta < 0 THEN Fails(a, "resource_deficit")
     ELSE Paid(a, Bump(moved, "loyalty_paid", -cost.delta))

\* Mutant: a discard of several cards is counted once.
PayDiscard_CountsOne(a, cost, actor) ==
  LET n == Greatest({1, cost.quantity})
  IN IF a.st.hand_you < n THEN Fails(a, "resource_deficit")
     ELSE Paid(a, QueueTriggers(Bump([a.st EXCEPT !.hand_you = @ - n], "discard", 1),
                                "discard", actor, Some(n)))

PayDiscard(a, cost, actor) ==
  LET n == Greatest({1, cost.quantity})
  IN IF a.st.hand_you < n THEN Fails(a, "resource_deficit")
     ELSE Paid(a, QueueTriggers(Bump([a.st EXCEPT !.hand_you = @ - n], "discard", n),
                                "discard", actor, Some(n)))

\* The fodder a step names: its cost target, else its target when that is a permanent.
NamedFodder(a, step) ==
  IF step.cost_target # NoId THEN step.cost_target
  ELSE IF Exists(a.st, a.target) THEN a.target ELSE NoId

\* _validate_explicit_sacrifice, as the error a named fodder meets.
SacrificeError(st, id, selector) ==
  LET p == st.permanents[id]
      kind == /\ selector = "creature_controlled" => p.is_creature
              /\ selector = "token_creature_controlled" => p.is_token /\ p.is_creature
  IN CASE ~Exists(st, id) -> "illegal_target"
       [] OTHER -> IF p.controller # "you" \/ ~kind THEN "illegal_target"
                   ELSE IF ~OnBattlefield(p) THEN "resource_deficit" ELSE "ok"

\* _pick_fodder: tokens first for a plain creature, then dictionary order; an option.
PickFodder(st, selector) ==
  LET fit == {id \in Ids(st) : MatchesSacrificeSelector(st.permanents[id], selector)}
      tokens == {id \in fit : st.permanents[id].is_token}
  IN IF fit = {} THEN None
     ELSE Some(FirstInOrder(st, IF selector = "creature_controlled" /\ tokens # {}
                                THEN tokens ELSE fit))

SacrificeFor(a, fodder, used) ==
  PaidWith(a, Sacrifice([a.st EXCEPT !.last_sacrificed_power =
                           OrElse(EffectivePower(a.st.permanents[fodder]), 0)], fodder), used)
\* The fodder, as an option: the source itself, the one named, or the one picked.
FodderOf(a, cost, actor, named) ==
  IF cost.selector = "self" THEN {id \in Some(actor) : Controlled(a.st.permanents[id])}
  ELSE IF named # NoId THEN Some(named) ELSE PickFodder(a.st, cost.selector)
PaySacrifice(a, cost, actor, step) ==
  LET named == NamedFodder(a, step)
      error == IF cost.selector = "self" \/ named = NoId THEN "ok"
               ELSE SacrificeError(a.st, named, cost.selector)
      fodder == FodderOf(a, cost, actor, named)
  IN IF error # "ok" THEN Fails(a, error)
     ELSE IF fodder = None THEN Fails(a, "resource_deficit")
     ELSE SacrificeFor(a, The(fodder), cost.selector # "self" /\ a.target \in fodder)

MatchesBounceSelector(p, selector) ==
  /\ Controlled(p)
  /\ CASE selector = "land_controlled" -> "land" \in TypeSet(p)
       [] selector = "forest_controlled" ->
            "land" \in TypeSet(p) /\ "forest" \in CardTypes(p) \cup p.words
       [] selector = "elf_controlled" -> p.is_creature /\ "elf" \in CardTypes(p) \cup p.words

\* Effects whose target is not the fodder of a bounce cost.
TakesTarget(e) ==
  /\ "target" \in DOMAIN e
  /\ e.target \in {"target_permanent", "target_other_creature", "controlled_creature",
                   "other_controlled_creature"}

BounceForCost(a, fit, named) ==
  LET fodder == IF named # NoId THEN named ELSE FirstInOrder(a.st, fit)
  IN IF named # NoId /\ named \notin fit THEN Fails(a, "illegal_target")
     ELSE IF fit = {} THEN Fails(a, "resource_deficit")
     ELSE PaidWith(a, Bump([a.st EXCEPT !.permanents[fodder] = ToZone(@, "hand")], "bounce", 1),
                   a.target = fodder)
PayBounce(a, cost, ab, step) ==
  BounceForCost(a, {id \in Ids(a.st) : MatchesBounceSelector(a.st.permanents[id], cost.selector)},
                IF step.cost_target = NoId /\ \E e \in ToSet(ab.effects) : TakesTarget(e)
                THEN NoId ELSE NamedFodder(a, step))

\* The creatures an Earthcraft-class cost may tap: summoning sickness does not matter.
Tappable(st, cost, actor) ==
  {id \in YourCreatures(st) :
     /\ ~st.permanents[id].tapped
     /\ cost.allow_source \/ id # actor
     /\ cost.subtype \subseteq CreatureSubtypes(st.permanents[id])}

HasSelfUntapSymbol(p) ==
  \E ab \in ToSet(AbilitiesOf(p)) :
    ab.kind = "activated" /\ \E cost \in ToSet(ab.costs) : cost.kind = "untap_symbol" /\ cost.source_self

\* _pick_tap_creature, the order of choice: {Q} creatures, then tokens, then string order.
TapPreference(st, S) ==
  LET q == {id \in S : HasSelfUntapSymbol(st.permanents[id])}
      token == {id \in S : st.permanents[id].is_token}
  IN InStringOrder(q \cap token) \o InStringOrder(q \ token)
     \o InStringOrder(token \ q) \o InStringOrder(S \ (q \cup token))

TapAll(st, ids) ==
  [st EXCEPT !.permanents = [id \in DOMAIN @ |->
     IF id \in ids THEN [@[id] EXCEPT !.tapped = TRUE] ELSE @[id]]]

\* Tap the first n of choice.
TapChosen(a, choice, n) ==
  IF Len(choice) < n THEN Fails(a, "resource_deficit")
  ELSE Paid(a, TapAll(a.st, {choice[i] : i \in 1..n}))
TapFitting(a, fit, n, named) ==
  IF named # NoId /\ n = 1
  THEN IF named \in fit THEN Paid(a, TapAll(a.st, {named})) ELSE Fails(a, "illegal_target")
  ELSE TapChosen(a, TapPreference(a.st, fit), n)
PayTapCreatures(a, cost, actor, step) ==
  TapFitting(a, Tappable(a.st, cost, actor), Greatest({1, cost.quantity}), step.cost_target)

PayTapArtifacts(a, cost, actor) ==
  LET fit == {id \in Yours(a.st) : /\ ~a.st.permanents[id].tapped
                                   /\ IsArtifact(a.st.permanents[id])
                                   /\ cost.allow_source \/ id # actor}
  IN  TapChosen(a, Those(a.st.order, fit), Greatest({1, cost.quantity}))

PayCost(a, cost, ab, step, floor) ==
  CASE cost.kind = "tap" -> PayTap(a, cost, step.actor)
    [] cost.kind = "mana" -> PayManaCost(a, cost, floor)
    [] cost.kind = "hybrid_mana" -> PayHybrid(a, cost)
    [] cost.kind = "add_counter" -> PayAddCounter(a, cost, step.actor)
    [] cost.kind = "remove_counter_cost" -> PayRemoveCounter(a, cost, step.actor)
    [] cost.kind = "untap_symbol" -> PayUntapSymbol(a, cost, step.actor)
    [] cost.kind = "pay_life" -> PayLife(a, cost)
    [] cost.kind = "energy" -> PayEnergy(a, cost)
    [] cost.kind = "loyalty" -> PayLoyalty(a, cost, step.actor)
    [] cost.kind = "discard" -> PayDiscard(a, cost, step.actor)
    [] cost.kind = "sacrifice" -> PaySacrifice(a, cost, step.actor, step)
    [] cost.kind = "bounce_controlled" -> PayBounce(a, cost, ab, step)
    [] cost.kind = "tap_creature" -> PayTapCreatures(a, cost, step.actor, step)
    [] cost.kind = "tap_artifact" -> PayTapArtifacts(a, cost, step.actor)

PayCosts(st, ab, step) ==
  FoldLeft(LAMBDA a, cost : IF a.err # "ok" THEN a
                            ELSE PayCost(a, cost, ab, step, ManaFloor(st, ab, step.actor)),
           [st |-> st, err |-> "ok", target |-> step.target,
            reduction |-> CostReduction(st, ab, step.actor)], ab.costs)

-----------------------------------------------------------------------------
(* Activating *)
\* Everything activate asks before the first cost, as the error of the first failed test.
Gated(st, ab) ==
  \/ ab.requires_zombie /\ ~ControlsZombie(st)
  \/ ab.requires_metalcraft /\ ~ControlsMetalcraft(st)
  \/ \E power \in ab.requires_controlled_power_at_least : ~ControlsPowerAtLeast(st, power)
ActivationError(st, p, ab) ==
  LET fromGraveyard == \E e \in ToSet(ab.effects) : e.kind = "return_to_battlefield"
      misplaced == p.zone # (IF fromGraveyard THEN "graveyard" ELSE "battlefield")
  IN IF ~ab.supported THEN "unsupported_semantics"
     ELSE IF misplaced \/ Gated(st, ab) THEN "illegal_action"
     ELSE IF ab.once_per_turn /\ ab.ability_id \in p.once_per_turn_used THEN "once_per_turn_limit"
     ELSE "ok"

\* _copy_activated_payment: the cheapest Rings or Bracers that copies the activation.
CopyPrices(st, actor) ==
  LET applies(copier, s) == copier.only_other_creatures =>
                              st.permanents[actor].is_creature /\ actor # s[1]
  IN {StaticOf(st, s).pay_generic :
        s \in {x \in Statics(st, "static_copy_activated") : applies(StaticOf(st, x), x)}}
CopyPayment(st, ab, actor) ==
  IF ab.is_mana_ability THEN None
  ELSE {n \in CopyPrices(st, actor) : \A m \in CopyPrices(st, actor) : n <= m}

\* The copy is made when its payment succeeds.  A payment that fails drains the pools and
\* is otherwise ignored.
CopyMade(st, w, ab, c) ==
  IF w.status # "ok" THEN Ok(Drained(st, w))
  ELSE Then(ApplyEffects(Drained(st, w), ab.effects, c), LAMBDA s : Ok(Bump(s, "ability_copy", 1)))
CopyActivation(st, ab, c, price) ==
  IF price = None THEN Ok(st)
  ELSE CopyMade(st, PayMana(st.mana, st.mana_activate_only,
                            [NoMana EXCEPT !["generic"] = The(price)], TRUE), ab, c)

\* Mutant: the use of a once-per-turn ability is not recorded.
MarkUsed_Never(r, ab, actor) == r

MarkUsed(r, ab, actor) ==
  IF r.err = "ok" /\ ab.once_per_turn
  THEN Ok([r.st EXCEPT !.permanents[actor].once_per_turn_used = @ \cup {ab.ability_id}])
  ELSE r

\* activate: gates, costs, effects, the optional copy, the once-per-turn mark.
Resolved(costs, ab, actor) ==
  LET c == [source |-> actor, target |-> costs.target, subject |-> NoId, amount |-> None]
  IN IF costs.err # "ok" THEN Err(costs.st, costs.err)
     ELSE MarkUsed(Then(ApplyEffects(costs.st, ab.effects, c),
                        LAMBDA s : CopyActivation(s, ab, c, CopyPayment(s, ab, actor))), ab, actor)
ActivateAbility(st, step, ab, error) ==
  IF error # "ok" THEN Err(st, error) ELSE Resolved(PayCosts(st, ab, step), ab, step.actor)
ActivateFound(st, step, found) ==
  IF st.permanents[step.actor].controller # "you" \/ found = None THEN Err(st, "illegal_action")
  ELSE ActivateAbility(st, step, The(found),
                       ActivationError(st, st.permanents[step.actor], The(found)))
Activated(st, step) ==
  IF ~Exists(st, step.actor) THEN Err(st, "illegal_action")
  ELSE ActivateFound(st, step, FindActivated(st, step.actor, step.ability_id))

-----------------------------------------------------------------------------
(* Resolving a trigger *)
\* The first pending trigger the step names, as an index option: an actor or an ability
\* that is given has to match, and with neither given it is the first of the queue.
PendingIndex(st, step) ==
  LET named(tr) == /\ step.ability_id # NoAbility => tr.ability_id = step.ability_id
                   /\ step.actor # NoId => tr.source_id = step.actor
      matching == {i \in DOMAIN st.pending_triggers : named(st.pending_triggers[i])}
  IN IF matching = {} THEN None ELSE Some(CHOOSE i \in matching : \A j \in matching : i <= j)

\* Undying's return needs the graveyard, where its creature may no longer be.
UndyingReturned(st, id) ==
  LET p == st.permanents[id]
      back == [WithCounters(p, "p1p1", Counters(p, "p1p1") + 1) EXCEPT
                 !.zone = "battlefield", !.tapped = FALSE, !.summoning_sick = TRUE,
                 !.damage_marked = 0]
  IN IF p.zone # "graveyard" THEN Err(st, "illegal_action")
     ELSE Ok(OnEtb(Bump([st EXCEPT !.permanents[id] = back], "return_to_battlefield", 1), id))

\* The ability is looked up on the card its source is now; "cast" is asked again.
TriggerEffects(st, tr, step, found) ==
  LET c == [source |-> tr.source_id,
            target |-> IF step.target # NoId THEN step.target ELSE tr.subject_id,
            subject |-> tr.subject_id, amount |-> tr.amount]
  IN IF found = None THEN Err(st, "illegal_action")
     ELSE IF The(found).intervening_if = Some("cast") /\ ~st.permanents[tr.subject_id].was_cast
     THEN Ok(st)
     ELSE ApplyEffects(st, The(found).effects, c)

AbilityOfTrigger(st, tr) ==
  {ab \in FindAbility(st.permanents[tr.source_id], tr.ability_id) : ab.kind = "triggered"}
ResolvePopped(st, tr, step) ==
  IF tr.ability_id = UndyingReturn THEN UndyingReturned(st, tr.subject_id)
  ELSE TriggerEffects(st, tr, step, AbilityOfTrigger(st, tr))

\* Mutant: undying's entry stays in the queue.
ResolveAt_KeepsUndying(st, step, i) ==
  IF st.pending_triggers[i].ability_id = UndyingReturn
  THEN UndyingReturned(st, st.pending_triggers[i].subject_id)
  ELSE ResolvePopped([st EXCEPT !.pending_triggers = RemoveAt(@, i)], st.pending_triggers[i], step)

\* The entry leaves the queue before its effects run.
ResolveAt(st, step, i) ==
  ResolvePopped([st EXCEPT !.pending_triggers = RemoveAt(@, i)], st.pending_triggers[i], step)
ResolveTrigger(st, step) ==
  IF PendingIndex(st, step) = None THEN Err(st, "illegal_action")
  ELSE ResolveAt(st, step, The(PendingIndex(st, step)))

-----------------------------------------------------------------------------
(* Casting and the granted tap-bounce *)
\* What the spell costs, paid: nothing under a free-cast permission, else from the
\* unrestricted pool.
PayForSpell(st, card) ==
  LET reduced == Least(SpellCostReduction(st, card), card.mana_cost["generic"])
  IN IF \E limit \in FreeCastMaxMV(st) : card.mana_value <= limit
     THEN PurseOf(st.mana, st.mana_activate_only)
     ELSE PayMana(st.mana, st.mana_activate_only,
                  [card.mana_cost EXCEPT !["generic"] = @ - reduced], FALSE)
Entering(p) ==
  [p EXCEPT !.zone = "battlefield", !.tapped = FALSE, !.summoning_sick = p.is_creature,
            !.damage_marked = 0, !.was_cast = TRUE]
CastPaid(st, id, w) ==
  IF w.status # "ok" THEN Err(Drained(st, w), w.status)
  ELSE Ok(OnEtb(QueueTriggers(Bump([Drained(st, w) EXCEPT !.permanents[id] = Entering(@)],
                                   "cast", 1), "cast", id, None), id))
CastFromHand(st, step) ==
  LET p == st.permanents[step.actor]
  IN CASE ~Exists(st, step.actor) -> Err(st, "illegal_action")
       [] OTHER ->
            IF p.zone # "hand" \/ p.controller # "you" THEN Err(st, "illegal_action")
            ELSE IF ~p.is_creature /\ ~p.is_artifact THEN Err(st, "unsupported_semantics")
            ELSE IF ~HasSemantics(p) THEN Err(st, "illegal_action")
            ELSE CastPaid(st, step.actor, PayForSpell(st, Cards[p.oracle]))

\* "{T}: return target nonland permanent": the type line of the card decides, and what the
\* card was cast or summoned as stays with it.
TapBounce(st, step) ==
  LET p == st.permanents[step.actor]
      t == st.permanents[step.target]
      bounced == [[st EXCEPT !.permanents[step.actor].tapped = TRUE]
                     EXCEPT !.permanents[step.target].zone = "hand",
                            !.permanents[step.target].tapped = FALSE]
  IN CASE ~Exists(st, step.actor) \/ step.target = NoId -> Err(st, "illegal_action")
       [] OTHER ->
            IF ~Controlled(p) \/ ~p.tap_bounce_nonland \/ p.tapped THEN Err(st, "illegal_action")
            ELSE IF p.summoning_sick THEN Err(st, "timing_violation")
            ELSE Illegal(st, /\ Exists(st, step.target) /\ OnBattlefield(t)
                             /\ "land" \notin CardTypes(t),
                         Ok(bounced))

-----------------------------------------------------------------------------
(* The smaller steps *)
SacrificeNamed(st, step) ==
  CASE ~Exists(st, step.actor) -> Err(st, "illegal_action")
    [] OTHER -> Illegal(st, Controlled(st.permanents[step.actor]), Ok(Sacrifice(st, step.actor)))

\* The largest fixed drain of a "card to opponent's graveyard" trigger of any card, at least 1.
GraveyardDrainSeed ==
  Greatest({1} \cup UNION {UNION {{e.amount : e \in {x \in ToSet(ab.effects) : x.kind = "lose_life"}} :
             ab \in {x \in ToSet(Cards[o].abilities) :
                       x.kind = "triggered" /\ x.event = "card_to_opponent_graveyard"}} :
           o \in DOMAIN Cards})

Food == [CreateTokenEffect EXCEPT !.oracle = "token:Food", !.words = {"food"}, !.pt = <<0, 0>>,
                                  !.is_creature = FALSE, !.is_artifact = TRUE]

\* The seeds that need a source.
SeedFromSource(st, step) ==
  LET c == [source |-> step.actor, target |-> NoId, subject |-> NoId, amount |-> None]
  IN CASE ~Exists(st, step.actor) -> Err(st, "illegal_action")
       [] OTHER -> CASE step.op = "seed_gain_life" -> Ok(GainYourLife(st, step.actor, 1))
                     [] step.op = "seed_lose_life" ->
                          Ok(LoseOpponentLife(st, step.actor, GraveyardDrainSeed))
                     [] step.op = "seed_create_token" -> CreateToken(st, Food, c)

\* The seeds that grant something to a creature; only tap-bounce asks where it is.
SeedGrant(st, step) ==
  LET id == step.target
      grant(field) == [st EXCEPT !.permanents[id][field] = TRUE]
      legal == /\ Exists(st, id) /\ st.permanents[id].is_creature
               /\ step.op = "seed_grant_tap_bounce" => OnBattlefield(st.permanents[id])
  IN Illegal(st, legal, Ok(CASE step.op = "seed_grant_lifelink" -> grant("lifelink")
                             [] step.op = "seed_grant_undying" -> grant("undying")
                             [] step.op = "seed_grant_tap_bounce" -> grant("tap_bounce_nonland")))

SourceSeeds == {"seed_gain_life", "seed_lose_life", "seed_create_token"}
GrantSeeds == {"seed_grant_lifelink", "seed_grant_undying", "seed_grant_tap_bounce"}

\* The steps that change nothing: they go on, or they say why the witness is no loop.
Declared(st, op) ==
  CASE op \in {"choose_may", "noop"} -> Ok(st)
    [] op = "decline_may" -> Err(st, "not_a_loop")
    [] op = "opponent_must_cooperate" -> Err(st, "opponent_cooperation_required")
    [] OTHER -> Err(st, "unsupported_rule")

\* _run_step_body
RunStepBody(st, step) ==
  CASE step.op = "activate" -> Activated(st, step)
    [] step.op = "resolve_trigger" -> ResolveTrigger(st, step)
    [] step.op = "sacrifice" -> SacrificeNamed(st, step)
    [] step.op \in SourceSeeds -> SeedFromSource(st, step)
    [] step.op \in GrantSeeds -> SeedGrant(st, step)
    [] step.op = "cast_from_hand" -> CastFromHand(st, step)
    [] step.op = "activate_granted_tap_bounce" -> TapBounce(st, step)
    [] OTHER -> Declared(st, step.op)

\* Mutant: the state-based actions are left to the next step.
AfterStep_NoSBA(r) == r

\* run_step: the state-based actions follow a step that did not fail.
AfterStep(r) == IF r.err = "ok" THEN Ok(ApplySBA(r.st)) ELSE r
RunStep(st, step) == AfterStep(RunStepBody(st, step))

\* run_sequence stops at the first error.
RunSequence(st, steps) ==
  FoldLeft(LAMBDA r, step : IF r.err = "ok" THEN RunStep(r.st, step) ELSE r, Ok(st), steps)

=============================================================================
