------------------------------- MODULE ToolCards -------------------------------
(* Cards for the costs and effects of the executor that the loops do not use,   *)
(* but for damage to each player, and the replacements that multiply them.      *)
EXTENDS BoardCards

Tool(id, effect) == Act(id, <<>>, <<effect>>)
\* An ability for {0}: one without a cost is taken for the body of a spell.
Runs(id, effect) == Act(id, <<ManaCost>>, <<effect>>)
Priced(id, cost) == Act(id, <<cost>>, <<AdditionalCombatEffect>>)
LoseHalf == [LoseLifeEffect EXCEPT !.from = "half_life", !.who = "you"]

\* Effects on mana, tapping and cards.
Toolbox ==
  Card({"artifact"}, NoMana, 0,
       <<Act("mana", <<TapCost>>, <<[Add("colorless", 2) EXCEPT !.spend_only = Some("activate_abilities")]>>),
         Tool("lands", [UntapEffect EXCEPT !.target = "controlled_lands", !.quantity = Some(1)]),
         Tool("creatures", [UntapEffect EXCEPT !.target = "all_creatures"]),
         Tool("nonlands", [UntapEffect EXCEPT !.target = "controlled_nonlands"]),
         Tool("taps", [TapEffect EXCEPT !.target = "target"]),
         Tool("mills", [MillEffect EXCEPT !.from = "half_up"]),
         Act("half", <<>>, <<LoseHalf, [GainLifeEffect EXCEPT !.from = "trigger"]>>),
         Runs("imprint", ImprintInstantFromHandEffect), Runs("recast", CastImprintedSpellEffect),
         Runs("twin", CopyLastCastSpellEffect), Tool("strionic", CopyPendingTriggerEffect),
         Tool("salvage", ReturnFromGraveyardToHandEffect), Tool("turn", ExtraTurnEffect),
         Tool("scales", [AddManaEffect EXCEPT !.from = "controlled_creatures"])>>)
\* Effects on creatures and counters.
Arena ==
  Card({"creature", "elf"}, Mana("green", 1), 1,
       <<Tool("fight", FightEffect), Tool("clone", BecomeCopyEffect), Tool("link", GrantLifelinkEffect),
         Tool("helix", GrantTapBounceNonlandEffect), Tool("proliferate", ProliferateEffect),
         Tool("grow", [AddCounterEffect EXCEPT !.target = "each_controlled_creature"]),
         Tool("shrink", RemoveCounterEffect),
         Tool("bite", [DealDamageEffect EXCEPT !.from = "source_power", !.target = "any_target"]),
         Tool("bounce", [MoveToZoneEffect EXCEPT !.target = "controlled_creature"]),
         Tool("copy", [CreateTokenEffect EXCEPT !.copy_target = TRUE]),
         When("hurt", "dealt_damage", "self", <<UntapEffect>>)>>)
\* Costs.
Market ==
  Card({"land", "forest"}, NoMana, 0,
       <<Priced("hybrid", HybridManaCost), Priced("remove", RemoveCounterCost),
         Priced("q", [UntapSymbolCost EXCEPT !.source_self = FALSE]), Priced("life", PayLifeCost),
         Priced("minus", [LoyaltyCost EXCEPT !.delta = -1]), Priced("plus", LoyaltyCost),
         Priced("return", [BounceControlledCost EXCEPT !.selector = "elf_controlled"]),
         Priced("convoke", TapCreatureCost), Priced("improvise", TapArtifactCost),
         Act("sac", <<SacCreature>>, <<[DealDamageEffect EXCEPT !.from = "sacrificed_power"]>>)>>)
\* The multiplying replacements, a grant, and a cheaper activation.
Season ==
  Card({"enchantment"}, NoMana, 0,
       <<ReplacementDoubleTokens, ReplacementDoubleCounters, ReplacementDoubleMill,
         ReplacementDoubleLifeGain, ReplacementDoubleOpponentLifeLoss, ReplacementDoubleDraw,
         ReplacementMultiplyTapMana, ReplacementAmplifyP1P1Counters, ContinuousCostReduction,
         [GrantActivatedAbility EXCEPT !.ability_id = "tap", !.costs = <<TapCost>>,
                                       !.effects = <<DrawEffect>>],
         FreeCastCreaturesByManaValue>>)
Reversal == Card({"instant"}, NoMana, 2, <<Act("reverse", <<>>, <<[UntapEffect EXCEPT !.target = "controlled_nonlands"]>>)>>)

================================================================================
