--------------------------------- MODULE Needs ---------------------------------
(***************************************************************************)
(* What a card asks of the board that it is searched on: the predicates of *)
(* search/explorer.py that default_initial_state and the seeds of          *)
(* explore_pair look at.                                                   *)
(***************************************************************************)
EXTENDS Capabilities

TriggersOf(card, event) == {ab \in TriggeredOf(card) : ab.event = event}
BouncesTo(e, targets) == e.kind = "move_to_zone" /\ e.zone = "hand" /\ e.target \in targets
HasCost(ab, kind) == \E cost \in ToSet(ab.costs) : cost.kind = kind
HasEffect(ab, kind) == \E e \in ToSet(ab.effects) : e.kind = kind

HasCastBounce(card) == \E ab \in TriggersOf(card, "cast") : HasEffect(ab, "move_to_zone")
HasEtbBounceToHand(card) ==
  \E e \in EffectsOf(TriggersOf(card, "enter_battlefield")) :
    BouncesTo(e, {"controlled_creature", "controlled_creature_green_or_white",
                  "controlled_permanent", "controlled_nonland"})
HasActivatedBounceOther(card) ==
  \E e \in EffectsOf(ActivatedOf(card)) : BouncesTo(e, {"other_controlled_creature"})
HasCloudstoneBounce(card) ==
  \E e \in EffectsOf(TriggersOf(card, "enter_battlefield")) :
    BouncesTo(e, {"other_controlled_sharing_type"})
HasEarthcraft(card) ==
  \E ab \in ActivatedOf(card) :
    /\ HasCost(ab, "tap_creature")
    /\ \E e \in ToSet(ab.effects) : e.kind = "untap" /\ e.target = "target_basic_land"
HasFreeCast(card) == \E ab \in ToSet(card.abilities) : ab.kind = "free_cast_creatures_by_mv"
HasInstantGrant(card) == \E ab \in ToSet(card.abilities) : ab.kind = "instant_grant_tap_bounce"
HasEtbUntapAll(card) ==
  \E e \in EffectsOf(TriggersOf(card, "enter_battlefield")) :
    e.kind = "untap" /\ e.target = "all_creatures"

NeedsZombieGate(card) == \E ab \in ActivatedOf(card) : ab.requires_zombie
NeedsCreatureHost(card) ==
  \E cost \in CostsOf(ActivatedOf(card)) :
    \/ cost.kind = "tap" /\ ~cost.source_self /\ cost.host = "creature"
    \/ cost.kind = "untap_symbol" /\ ~cost.source_self
NeedsLandHost(card) ==
  \E cost \in CostsOf(ActivatedOf(card)) :
    cost.kind = "tap" /\ ~cost.source_self /\ cost.host = "land"
NeedsWhiteBasicLand(card) ==
  \E ab \in ActivatedOf(card) :
    /\ \E cost \in ToSet(ab.costs) : cost.kind = "untap_symbol" /\ cost.source_self
    /\ \E cost \in ToSet(ab.costs) : cost.kind = "mana" /\ cost.amount["white"] > 0

\* The first ability of a card that grants lifelink, and the pool that pays for it once; generic
\* is seeded as colourless.
GrantLifelinkAbility(card) ==
  LET found == Those(card.abilities, {ab \in ActivatedOf(card) : HasEffect(ab, "grant_lifelink")})
  IN IF found = <<>> THEN None ELSE Some(found[1])
FirstManaCost(ab) == Those(ab.costs, {cost \in ToSet(ab.costs) : cost.kind = "mana"})[1].amount
ManaForGrantLifelink(card) ==
  {[FirstManaCost(ab) EXCEPT !["colorless"] = @ + FirstManaCost(ab)["generic"], !["generic"] = 0] :
     ab \in {x \in GrantLifelinkAbility(card) : HasCost(x, "mana")}}

\* The first supported ability that creates tokens for each permanent of a subtype, and the pool
\* that pays for it once, as any colour.
SubtypeCreate(card) ==
  LET scaled(e) == e.kind = "create_token" /\ e.from = "subtype"
      found == Those(card.abilities, {ab \in ActivatedOf(card) : /\ ab.supported
                                        /\ \E e \in ToSet(ab.effects) : scaled(e)})
  IN IF found = <<>> THEN None ELSE Some(found[1])
ManaForSubtypeCreate(card) ==
  {[NoMana EXCEPT !["any_color"] = Total(FirstManaCost(ab))] :
     ab \in {x \in SubtypeCreate(card) : HasCost(x, "mana") /\ Total(FirstManaCost(x)) > 0}}
SubtypeToken(card) ==
  UNION {{e \in ToSet(ab.effects) : e.kind = "create_token" /\ e.from = "subtype"} :
         ab \in SubtypeCreate(card)}

\* A create that costs mana beside a sacrifice that makes mana, or beside Mana Echoes.
CreatesForMana(card) ==
  \E ab \in ActivatedOf(card) : ab.supported /\ HasCost(ab, "mana") /\ HasEffect(ab, "create_token")

=============================================================================
