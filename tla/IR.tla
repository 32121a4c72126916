---------------------------------- MODULE IR ----------------------------------
(***************************************************************************)
(* The semantic intermediate representation of semantics/ir.py: costs,     *)
(* effects, abilities and cards.  Each definition is the record the class  *)
(* builds from its defaults; a board overrides fields with EXCEPT.         *)
(*                                                                         *)
(* An optional field is the set of its values: {} for None, {v} for v.     *)
(* Flags of a class that select where one quantity comes from (and that    *)
(* the executor tests in an if/elif chain) are one field "from".  Words    *)
(* of a type line or of a name are elements of a set, already casefolded.  *)
(***************************************************************************)
EXTENDS Mana, Sequences

Some(v) == {v}
None == {}
The(option) == CHOOSE v \in option : TRUE
OrElse(option, default) == IF option = None THEN default ELSE The(option)

\* "no object": an ActionStep field that is None.
NoId == "no-id"

-----------------------------------------------------------------------------
(* Costs *)
TapCost == [kind |-> "tap", source_self |-> TRUE, host |-> "creature"]
ManaCost == [kind |-> "mana", amount |-> NoMana]
HybridManaCost == [kind |-> "hybrid_mana", colors |-> <<"black", "green">>]
SacrificeCost == [kind |-> "sacrifice", selector |-> "creature_controlled"]
AddCounterCost == [kind |-> "add_counter", counter_type |-> "m1m1", quantity |-> 1]
RemoveCounterCost ==
  [kind |-> "remove_counter_cost", counter_type |-> "m1m1", quantity |-> 1,
   selector |-> "creature_controlled"]
UntapSymbolCost == [kind |-> "untap_symbol", source_self |-> TRUE]
TapCreatureCost ==
  [kind |-> "tap_creature", allow_source |-> FALSE, quantity |-> 1, subtype |-> None]
TapArtifactCost == [kind |-> "tap_artifact", quantity |-> 1, allow_source |-> TRUE]
PayLifeCost == [kind |-> "pay_life", amount |-> 1]
EnergyCost == [kind |-> "energy", amount |-> 1]
LoyaltyCost == [kind |-> "loyalty", delta |-> 1]
DiscardCost == [kind |-> "discard", quantity |-> 1]
BounceControlledCost == [kind |-> "bounce_controlled", selector |-> "land_controlled"]

-----------------------------------------------------------------------------
(* Effects *)
\* from: "amount", "source_power", "source_p1p1", "source_charge" or a mana scale.
AddManaEffect ==
  [kind |-> "add_mana", amount |-> NoMana, from |-> "amount", scale_color |-> "green",
   scale_multiplier |-> 1, spend_only |-> None]
UntapEffect == [kind |-> "untap", target |-> "self", quantity |-> None]
ImprintInstantFromHandEffect == [kind |-> "imprint_instant_from_hand", max_mana_value |-> 2]
CastImprintedSpellEffect == [kind |-> "cast_imprinted_spell"]
CopyLastCastSpellEffect == [kind |-> "copy_last_cast_spell"]
FightEffect == [kind |-> "fight", target |-> "another_creature"]
AdditionalCombatEffect == [kind |-> "additional_combat"]
\* from: "amount" or "controlled_creatures".
GetEnergyEffect == [kind |-> "get_energy", amount |-> 1, from |-> "amount"]
ExtraTurnEffect == [kind |-> "extra_turn"]
BecomeCopyEffect == [kind |-> "become_copy", target |-> "target_creature"]
TapEffect == [kind |-> "tap", target |-> "self"]
\* from: "amount", "trigger" or "subtype" (then subtype names it).
CreateTokenEffect ==
  [kind |-> "create_token", oracle |-> "token:Token", words |-> {"token"},
   pt |-> <<1, 1>>, quantity |-> 1, from |-> "amount", subtype |-> None,
   is_creature |-> TRUE, is_artifact |-> FALSE, copy_target |-> FALSE, haste |-> FALSE]
AddCounterEffect ==
  [kind |-> "add_counter", counter_type |-> "p1p1", quantity |-> 1, target |-> "self",
   amount_from_trigger |-> FALSE, only_if_none |-> FALSE]
RemoveCounterEffect == [kind |-> "remove_counter", counter_type |-> "p1p1", quantity |-> 1]
ReturnFromGraveyardToHandEffect == [kind |-> "return_gy_to_hand", selector |-> "any"]
ReturnToBattlefieldEffect == [kind |-> "return_to_battlefield"]
BlinkEffect ==
  [kind |-> "blink", target |-> "another_creature_you_control", return_tapped |-> FALSE]
CopyPendingTriggerEffect == [kind |-> "copy_pending_trigger"]
\* from: "amount", "source_power", "subject_power", "sacrificed_power", "devotion", "trigger".
DealDamageEffect ==
  [kind |-> "deal_damage", amount |-> 1, target |-> "opponent", from |-> "amount",
   color |-> None]
\* from: "amount", "trigger" or "spells_cast".
GainLifeEffect == [kind |-> "gain_life", amount |-> 1, from |-> "amount"]
\* from: "amount", "trigger" or "artifacts".
DrawEffect == [kind |-> "draw", amount |-> 1, from |-> "amount"]
\* from: "amount", "trigger", "half_life" or "devotion".
LoseLifeEffect ==
  [kind |-> "lose_life", amount |-> 1, who |-> "opponent", from |-> "amount", color |-> None]
\* from: "amount", "trigger", "sacrificed_power", "opponent_graveyard", "half_up", "half_down".
MillEffect == [kind |-> "mill", amount |-> 1, who |-> "opponent", from |-> "amount"]
MoveToZoneEffect == [kind |-> "move_to_zone", zone |-> "hand", target |-> "self"]
GrantLifelinkEffect == [kind |-> "grant_lifelink", target |-> "target_other_creature"]
GrantTapBounceNonlandEffect == [kind |-> "grant_tap_bounce_nonland", target |-> "target_creature"]
ProliferateEffect == [kind |-> "proliferate"]

-----------------------------------------------------------------------------
(* Abilities *)
ActivatedAbility ==
  [kind |-> "activated", ability_id |-> "", costs |-> <<>>, effects |-> <<>>,
   is_mana_ability |-> FALSE, once_per_turn |-> FALSE, supported |-> TRUE,
   requires_zombie |-> FALSE, requires_metalcraft |-> FALSE,
   requires_controlled_power_at_least |-> None]
TriggeredAbility ==
  [kind |-> "triggered", ability_id |-> "", event |-> "enter_battlefield",
   filter |-> "any", effects |-> <<>>, intervening_if |-> None, supported |-> TRUE]
ContinuousCostReduction ==
  [kind |-> "continuous_cost_reduction", ability_id |-> "", reduce_generic |-> 1,
   applies_to |-> "activated_abilities_you_control", exclude_mana_abilities |-> FALSE,
   min_mana_remaining |-> 0, scale_by |-> None, power_threshold |-> 4, supported |-> TRUE]
ReplacementExileInsteadOfGraveyard ==
  [kind |-> "replacement_exile_on_death", ability_id |-> "", supported |-> TRUE]
ReplacementReduceM1M1Counters ==
  [kind |-> "replacement_reduce_m1m1", ability_id |-> "", reduce_by |-> 1, supported |-> TRUE]
ReplacementAmplifyP1P1Counters ==
  [kind |-> "replacement_amplify_p1p1", ability_id |-> "", plus |-> 1,
   applies_to |-> "permanents_you_control", supported |-> TRUE]
\* The multiplying replacements: tap mana, tokens, mill, life gain, life loss, draw.
Multiplier(kind) == [kind |-> kind, ability_id |-> "", multiplier |-> 2, supported |-> TRUE]
ReplacementMultiplyTapMana == Multiplier("replacement_multiply_tap_mana")
ReplacementDoubleTokens == Multiplier("replacement_double_tokens")
ReplacementDoubleMill == Multiplier("replacement_double_mill")
ReplacementDoubleLifeGain == Multiplier("replacement_double_life_gain")
ReplacementDoubleOpponentLifeLoss == Multiplier("replacement_double_opponent_life_loss")
ReplacementDoubleDraw == Multiplier("replacement_double_draw")
ReplacementDoubleCounters ==
  [kind |-> "replacement_double_counters", ability_id |-> "", multiplier |-> 2,
   applies_to |-> "permanents_you_control", only_p1p1 |-> FALSE, supported |-> TRUE]
StaticCantGainLife ==
  [kind |-> "static_cant_gain_life", ability_id |-> "", who |-> "players", supported |-> TRUE]
StaticCdaPT ==
  [kind |-> "static_cda_pt", ability_id |-> "", power_from |-> "cards_in_hand", supported |-> TRUE]
StaticNontokenCreaturesAreForests ==
  [kind |-> "static_nontoken_creatures_are_forests", ability_id |-> "", supported |-> TRUE]
StaticCopyActivatedAbility ==
  [kind |-> "static_copy_activated", ability_id |-> "", pay_generic |-> 2,
   exclude_mana_abilities |-> TRUE, only_other_creatures |-> FALSE, supported |-> TRUE]
GrantActivatedAbility ==
  [kind |-> "grant_activated", ability_id |-> "", host_filter |-> "creatures_you_control",
   costs |-> <<>>, effects |-> <<>>, is_mana_ability |-> FALSE, supported |-> TRUE]
FreeCastCreaturesByManaValue ==
  [kind |-> "free_cast_creatures_by_mv", ability_id |-> "", max_mana_value |-> 3,
   supported |-> TRUE]
InstantGrantTapBounce ==
  [kind |-> "instant_grant_tap_bounce", ability_id |-> "", supported |-> TRUE]
\* clause is the word the executor looks at ("defender").
ProofIrrelevantStatic ==
  [kind |-> "proof_irrelevant_static", ability_id |-> "", clause |-> "", supported |-> TRUE]

\* words are those of the name.
CardSemantics ==
  [words |-> {}, types |-> {}, colors |-> {}, mana_cost |-> NoMana, mana_value |-> 0, abilities |-> <<>>,
   coverage |-> "complete"]

-----------------------------------------------------------------------------
(* The closed unions Cost and Effect, by their discriminator *)
CostKinds ==
  {"tap", "mana", "hybrid_mana", "sacrifice", "add_counter", "remove_counter_cost", "untap_symbol",
   "tap_creature", "tap_artifact", "pay_life", "energy", "loyalty", "discard", "bounce_controlled"}

\* The effects that do not run another card's effects, and those that do.
BasicEffects ==
  {"add_mana", "untap", "fight", "additional_combat", "get_energy", "extra_turn", "become_copy",
   "tap", "create_token", "add_counter", "remove_counter", "return_gy_to_hand",
   "return_to_battlefield", "blink", "copy_pending_trigger", "deal_damage", "gain_life", "draw",
   "lose_life", "mill", "move_to_zone", "grant_lifelink", "grant_tap_bounce_nonland", "proliferate"}
EffectKinds ==
  BasicEffects \cup {"imprint_instant_from_hand", "cast_imprinted_spell", "copy_last_cast_spell"}

\* The elements of a sequence at some of its indices, and those that are in a set, in their order.
Picked(s, I) ==
  LET picked[n \in 0..Len(s)] ==
        IF n = 0 THEN <<>> ELSE IF n \in I THEN Append(picked[n - 1], s[n]) ELSE picked[n - 1]
  IN picked[Len(s)]
Those(s, S) == Picked(s, {i \in DOMAIN s : s[i] \in S})

IsSequence(s) == s \in Seq({s[i] : i \in DOMAIN s})
ListOf(s, kinds) == IsSequence(s) /\ \A i \in DOMAIN s : s[i].kind \in kinds

-----------------------------------------------------------------------------
(* The types of the schema *)
\* Where a quantity may come from, by the kind of the effect.
ManaScales ==
  {"vivid_permanent_colors", "controlled_sharing_creature_type", "controlled_creatures",
   "controlled_elf", "battlefield_elf", "controlled_defenders", "controlled_enchantments",
   "devotion_green", "hand_artifacts", "controlled_swamps", "greatest_power_controlled",
   "greatest_toughness_other", "cards_drawn_this_turn", "greatest_power_entered_this_turn"}
AmountSources ==
  [add_mana |-> {"amount", "source_power", "source_p1p1", "source_charge"} \cup ManaScales,
   get_energy |-> {"amount", "controlled_creatures"},
   create_token |-> {"amount", "trigger", "subtype"},
   deal_damage |-> {"amount", "source_power", "subject_power", "sacrificed_power", "devotion",
                    "trigger"},
   gain_life |-> {"amount", "trigger", "spells_cast"},
   draw |-> {"amount", "trigger", "artifacts"},
   lose_life |-> {"amount", "trigger", "half_life", "devotion"},
   mill |-> {"amount", "trigger", "sacrificed_power", "opponent_graveyard", "half_up", "half_down"}]
IsPT(pt) == pt = <<>> \/ pt \in Int \X Int
Zones == {"battlefield", "graveyard", "hand", "exile", "library", "stack", "command"}
IsEffect(e) ==
  /\ e.kind \in DOMAIN AmountSources => e.from \in AmountSources[e.kind]
  /\ e.kind = "add_mana" => e.amount \in ManaAmount /\ e.scale_multiplier \in Int
  /\ e.kind \in {"get_energy", "deal_damage", "gain_life", "draw", "lose_life", "mill"}
       => e.amount \in Int
  /\ e.kind \in {"create_token", "add_counter", "remove_counter"} => e.quantity \in Int
  /\ e.kind = "create_token" => IsPT(e.pt) /\ e.is_creature \in BOOLEAN
  /\ e.kind = "blink" => e.return_tapped \in BOOLEAN
  /\ e.kind = "move_to_zone" => e.zone \in Zones
  /\ e.kind = "untap" => e.quantity \subseteq Int
  /\ e.kind \in {"deal_damage", "lose_life"} /\ e.from = "devotion"
       => \E color \in Fields : e.color = Some(color)
IsCost(cost) ==
  /\ cost.kind = "mana" => cost.amount \in ManaAmount
  /\ cost.kind \in {"pay_life", "energy"} => cost.amount \in Int
  /\ cost.kind \in {"add_counter", "remove_counter_cost", "discard"} => cost.quantity \in Int
  /\ cost.kind = "loyalty" => cost.delta \in Int
Multiplying ==
  {"replacement_multiply_tap_mana", "replacement_double_tokens", "replacement_double_mill",
   "replacement_double_life_gain", "replacement_double_opponent_life_loss",
   "replacement_double_draw", "replacement_double_counters"}
IsAbility(ab) ==
  /\ ab.kind \in {"activated", "triggered", "grant_activated"}
       => ListOf(ab.effects, EffectKinds) /\ \A i \in DOMAIN ab.effects : IsEffect(ab.effects[i])
  /\ ab.kind \in {"activated", "grant_activated"}
       => ListOf(ab.costs, CostKinds) /\ \A i \in DOMAIN ab.costs : IsCost(ab.costs[i])
  /\ ab.kind \in Multiplying => ab.multiplier \in Int
  /\ ab.kind = "replacement_reduce_m1m1" => ab.reduce_by \in Int
  /\ ab.kind = "replacement_amplify_p1p1" => ab.plus \in Int
  /\ ab.kind = "continuous_cost_reduction"
       => {ab.reduce_generic, ab.min_mana_remaining} \subseteq Int
  /\ ab.kind = "static_copy_activated" => ab.pay_generic \in Int
  /\ ab.kind = "static_cda_pt"
       => ab.power_from \in {"lands_you_control", "cards_in_hand", "life_you", "devotion_green"}

\* A card of the schema.  The compiler counts the mana symbols of a text and sums them up, so
\* amounts of mana and mana values are never negative.
WellFormed(card) ==
  /\ card.mana_cost \in ManaAmount /\ card.mana_value \in Nat /\ IsSequence(card.abilities)
  /\ \A i \in DOMAIN card.abilities : IsAbility(card.abilities[i])

\* CardSemantics.relevant_unsupported
RelevantUnsupported(card) ==
  \/ card.coverage = "partial_relevant_to_proof"
  \/ \E i \in DOMAIN card.abilities : ~card.abilities[i].supported

=============================================================================
