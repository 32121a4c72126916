--------------------------------- MODULE Moves ---------------------------------
(***************************************************************************)
(* The steps the search tries in a state (legal_steps of                   *)
(* search/explorer.py): the candidates it writes down, with their targets  *)
(* and cost targets, in its order; those the executor accepts are the legal *)
(* steps.                                                                  *)
(***************************************************************************)
EXTENDS Setup

Activate(actor, ability, target, cost_target) ==
  Step("activate", actor, ability, target, cost_target)
\* One step per target; "no target" is one target.
ForTargets(actor, ability, targets) ==
  [i \in DOMAIN targets |-> Activate(actor, ability, targets[i], NoId)]
\* One step per cost target, with no other target.
ForCosts(actor, ability, cost_targets) ==
  [i \in DOMAIN cost_targets |-> Activate(actor, ability, NoId, cost_targets[i])]
\* One step per pair of a cost target and a target of its own.
ForPairs(actor, ability, cost_targets, targets) ==
  FlattenSeq([i \in DOMAIN cost_targets |->
    [j \in DOMAIN targets |-> Activate(actor, ability, targets[j], cost_targets[i])]])
Unlike(steps) == Picked(steps, {i \in DOMAIN steps : steps[i].target # steps[i].cost_target})

TargetsOf(ab) == {e.target : e \in {x \in ToSet(ab.effects) : "target" \in DOMAIN x}}
InDictOrder(st, S) == Those(st.order, S)

-----------------------------------------------------------------------------
(* Activations *)
PermanentTargets ==
  {"target_permanent", "target_basic_land", "target_artifact", "target_other_creature",
   "other_controlled_creature", "other_controlled_sharing_type", "controlled_creature",
   "controlled_creature_green_or_white", "controlled_permanent", "controlled_nonland",
   "target_nonland"}
OtherTargets == {"target_other_creature", "other_controlled_creature"}
CreatureTargets ==
  OtherTargets \cup {"controlled_creature", "controlled_creature_green_or_white"}

\* The first cost of a kind, the first that another permanent pays, the first sacrifice of
\* another permanent: options.
FirstOf(seq, S) == IF Those(seq, S) = <<>> THEN None ELSE Some(Those(seq, S)[1])
CostOf(ab, kind) == FirstOf(ab.costs, {cost \in ToSet(ab.costs) : cost.kind = kind})
HostCost(ab, kind) ==
  FirstOf(ab.costs, {cost \in ToSet(ab.costs) : cost.kind = kind /\ ~cost.source_self})
SacrificeOf(ab) ==
  FirstOf(ab.costs, {cost \in ToSet(ab.costs) : cost.kind = "sacrifice" /\ cost.selector # "self"})

\* _fodder_ids: tokens first, then string order.
FodderIds(st, selector) ==
  LET tokens == {id \in YourCreatures(st) : st.permanents[id].is_token}
  IN InStringOrder(tokens)
     \o (IF selector = "creature_controlled" THEN InStringOrder(YourCreatures(st) \ tokens) ELSE <<>>)
BounceFodderIds(st, selector) ==
  InStringOrder({id \in Ids(st) : MatchesBounceSelector(st.permanents[id], selector)})

RemovalTargets(st, cost) ==
  InDictOrder(st, {id \in Yours(st) :
    /\ cost.selector = "creature_controlled" => st.permanents[id].is_creature
    /\ Counters(st.permanents[id], cost.counter_type) >= cost.quantity})
\* A land host is one by _is_land_permanent, which knows Ashaya's forests.
TapHosts(st, host, actor) ==
  InDictOrder(st, {id \in Yours(st) \ {actor} :
    /\ ~st.permanents[id].tapped
    /\ IF host = "land" THEN IsLand(st, st.permanents[id]) ELSE st.permanents[id].is_creature})
UntapHosts(st, actor) ==
  InDictOrder(st, {id \in YourCreatures(st) \ {actor} : st.permanents[id].tapped})
EffectTargets(st, targets, actor) ==
  InDictOrder(st, {id \in Yours(st) :
    /\ Meets(targets, OtherTargets) => id # actor
    /\ Meets(targets, CreatureTargets) => st.permanents[id].is_creature
    /\ "target_basic_land" \in targets => IsBasicLand(st.permanents[id])})
EarthcraftPairs(st, ability, actor) ==
  ForPairs(actor, ability,
           InDictOrder(st, {id \in YourCreatures(st) \ {actor} : ~st.permanents[id].tapped}),
           InDictOrder(st, {id \in Yours(st) : IsBasicLand(st.permanents[id])}))

\* Where the targets of an ability come from, by the first of these that applies: a fodder, the
\* host of a cost, any target of damage, the target of an effect.
TargetsFor(st, ab, actor) ==
  LET targets == TargetsOf(ab)
      removal == CostOf(ab, "remove_counter_cost")
      anyTarget == \E e \in ToSet(ab.effects) : e.kind = "deal_damage" /\ e.target = "any_target"
  IN CASE SacrificeOf(ab) # None -> FodderIds(st, The(SacrificeOf(ab)).selector)
       [] OTHER ->
     CASE removal # None -> RemovalTargets(st, The(removal))
       [] OTHER ->
     CASE HostCost(ab, "tap") # None -> TapHosts(st, The(HostCost(ab, "tap")).host, actor)
       [] OTHER ->
     CASE HostCost(ab, "untap_symbol") # None -> UntapHosts(st, actor)
       [] OTHER ->
     CASE anyTarget -> <<"opponent", actor>>
       [] ~anyTarget /\ Meets(targets, PermanentTargets) -> EffectTargets(st, targets, actor)
       [] OTHER -> <<NoId>>

\* One step per permanent that may be returned for the cost, or per pair with another target.
BounceSteps(st, ab, actor, fodder) ==
  IF Meets(TargetsOf(ab), PermanentTargets)
  THEN Unlike(ForPairs(actor, ab.ability_id, fodder, InDictOrder(st, YourCreatures(st))))
  ELSE ForCosts(actor, ab.ability_id, fodder)

\* The steps for one ability of a permanent.
StepsFor(st, ab, actor) ==
  IF HasCost(ab, "tap_creature") /\ "target_basic_land" \in TargetsOf(ab)
  THEN EarthcraftPairs(st, ab.ability_id, actor)
  ELSE IF HasCost(ab, "bounce_controlled")
  THEN BounceSteps(st, ab, actor, BounceFodderIds(st, The(CostOf(ab, "bounce_controlled")).selector))
  ELSE ForTargets(actor, ab.ability_id, TargetsFor(st, ab, actor))

\* iter_granted_activated: what the permanents you control grant, under the id of the grant.
Applying(st, grants, host) == Those(grants, {ab \in ToSet(grants) : GrantApplies(st, ab, host)})
AsActivated(source, grants) ==
  [i \in DOMAIN grants |->
     [ActivatedAbility EXCEPT !.ability_id = GrantId(source, grants[i].ability_id),
        !.costs = grants[i].costs, !.effects = grants[i].effects,
        !.is_mana_ability = grants[i].is_mana_ability]]
GrantedBy(st, source, host) ==
  AsActivated(source, Applying(st, AbilitiesOfKind(st.permanents[source], "grant_activated"), host))
GrantedByEach(st, sources, host) ==
  FlattenSeq([i \in DOMAIN sources |-> GrantedBy(st, sources[i], host)])

\* _activation_steps.  held: a trigger is pending, and priority is held for abilities that tap
\* a creature or make mana.
Understood(abilities) == Those(abilities, {ab \in ToSet(abilities) : ab.supported})
InResponse(abilities, held) ==
  Those(abilities,
        {ab \in ToSet(abilities) : held => HasCost(ab, "tap_creature") \/ ab.is_mana_ability})
AbilitiesToTry(st, id, held) ==
  InResponse(Understood(AbilitiesOfKind(st.permanents[id], "activated"))
               \o GrantedByEach(st, YoursInOrder(st), id), held)
StepsForEach(st, abilities, actor) ==
  FlattenSeq([i \in DOMAIN abilities |-> StepsFor(st, abilities[i], actor)])
StepsOfEach(st, actors, held) ==
  FlattenSeq([i \in DOMAIN actors |->
                StepsForEach(st, AbilitiesToTry(st, actors[i], held), actors[i])])
ActivationSteps(st, held) ==
  StepsOfEach(st, InStringOrder({id \in Ids(st) : HasSemantics(st.permanents[id])}), held)

-----------------------------------------------------------------------------
(* Resolving a trigger *)
TriggerTargets == (PermanentTargets \ {"target_artifact"}) \cup {"enchanted_creature"}
TriggerOthers == OtherTargets \cup {"enchanted_creature"}
TriggerCreatures == CreatureTargets \cup {"enchanted_creature"}

\* The candidates of a trigger: your permanents, tapped ones first.
TappedFirst(st) ==
  LET tapped == {id \in Yours(st) : st.permanents[id].tapped}
  IN InStringOrder(tapped) \o InStringOrder(Yours(st) \ tapped)
\* Only the last effect says whether the target has to be green or white.
GreenOrWhite(ab) ==
  LET e == Last(ab.effects)
  IN "target" \in DOMAIN e /\ e.target = "controlled_creature_green_or_white"
SharesTypeWithSubject(st, id, tr) ==
  tr.subject_id # NoId /\ Meets(TypeSet(st.permanents[id]), TypeSet(st.permanents[tr.subject_id]))
FitsTrigger(st, id, tr, ab) ==
  LET targets == TargetsOf(ab)
      p == st.permanents[id]
      shares == "other_controlled_sharing_type" \in targets
  IN /\ Meets(targets, TriggerOthers) => id # tr.source_id
     /\ Meets(targets, TriggerCreatures) => p.is_creature
     /\ shares => id # tr.subject_id /\ SharesTypeWithSubject(st, id, tr)
     /\ Meets(targets, {"target_nonland", "controlled_nonland"}) => "land" \notin CardTypes(p)
     /\ GreenOrWhite(ab) => Meets(ColorsOf(p), {"G", "W"})
TargetsOfTrigger(st, tr) ==
  LET targeted == {ab \in FindAbility(st.permanents[tr.source_id], tr.ability_id) :
                     "effects" \in DOMAIN ab /\ Meets(TargetsOf(ab), TriggerTargets)}
  IN IF targeted = {} THEN <<NoId>>
     ELSE Those(TappedFirst(st), {id \in Yours(st) : FitsTrigger(st, id, tr, The(targeted))})
Resolutions(tr, targets) ==
  [i \in DOMAIN targets |-> Step("resolve_trigger", tr.source_id, tr.ability_id, targets[i], NoId)]

\* A step that an earlier trigger has offered is not offered again.
Once(steps) == Picked(steps, {i \in DOMAIN steps : \A j \in 1..(i - 1) : steps[j] # steps[i]})
ResolutionSteps(st) ==
  Once(FlattenSeq([i \in DOMAIN st.pending_triggers |->
         Resolutions(st.pending_triggers[i], TargetsOfTrigger(st, st.pending_triggers[i]))]))

-----------------------------------------------------------------------------
(* The other steps *)
Casts(ids) == [i \in DOMAIN ids |-> Step("cast_from_hand", ids[i], NoAbility, NoId, NoId)]
CastSteps(st) ==
  Casts(InStringOrder({id \in Ids(st) : LET p == st.permanents[id] IN
          p.zone = "hand" /\ p.controller = "you" /\ (p.is_creature \/ p.is_artifact)}))
TapBounces(hosts, targets) ==
  FlattenSeq([i \in DOMAIN hosts |-> [j \in DOMAIN targets |->
    Step("activate_granted_tap_bounce", hosts[i], NoAbility, targets[j], NoId)]])
TapBounceSteps(st) ==
  TapBounces(InStringOrder({id \in Yours(st) : LET p == st.permanents[id] IN
                             p.tap_bounce_nonland /\ ~p.tapped /\ ~p.summoning_sick}),
             InStringOrder({id \in Ids(st) : LET p == st.permanents[id] IN
                             OnBattlefield(p) /\ "land" \notin CardTypes(p)}))

\* With a trigger pending priority is held, and nothing is cast.
CandidateSteps(st) ==
  ActivationSteps(st, st.pending_triggers # <<>>)
  \o IF st.pending_triggers # <<>> THEN ResolutionSteps(st)
     ELSE CastSteps(st) \o TapBounceSteps(st)

\* legal_steps, as records [step, r] with the result of each (_try_apply).
Tried(st, steps) == [i \in DOMAIN steps |-> [step |-> steps[i], r |-> RunStep(st, steps[i])]]
Legal(tried) == Picked(tried, {i \in DOMAIN tried : tried[i].r.err = "ok"})
Successors(st) == Legal(Tried(st, CandidateSteps(st)))

=============================================================================
