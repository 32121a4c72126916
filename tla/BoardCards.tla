------------------------------ MODULE BoardCards ------------------------------
(***************************************************************************)
(* Cards and boards for the model-checking modules: the semantics that the *)
(* compiler gives to the cards of well-known loops, cut down to the        *)
(* abilities the loops use, and the permanents of their initial states.    *)
(***************************************************************************)
EXTENDS IR, TLC

Pay(color, n) == [ManaCost EXCEPT !.amount[color] = n]
Add(color, n) == [AddManaEffect EXCEPT !.amount[color] = n]
Mana(color, n) == [NoMana EXCEPT ![color] = n]
SacCreature == SacrificeCost
DrainOne == <<LoseLifeEffect, GainLifeEffect>>
Card(types, cost, mv, abilities) ==
  [CardSemantics EXCEPT !.types = types, !.mana_cost = cost, !.mana_value = mv,
                        !.abilities = abilities]
Act(id, costs, effects) ==
  [ActivatedAbility EXCEPT !.ability_id = id, !.costs = costs, !.effects = effects]
ActMana(id, costs, effects) == [Act(id, costs, effects) EXCEPT !.is_mana_ability = TRUE]
When(id, event, filter, effects) ==
  [TriggeredAbility EXCEPT !.ability_id = id, !.event = event, !.filter = filter,
                           !.effects = effects]

-----------------------------------------------------------------------------
(* Dying *)
\* Whenever a creature dies, each opponent loses 1 life and you gain 1 life.
Artist == Card({"enchantment"}, NoMana, 3, <<When("drain", "dies", "creature", DrainOne)>>)
\* If an opponent would lose life, they lose twice that much.
Bloodletter == Card({"enchantment"}, NoMana, 4, <<ReplacementDoubleOpponentLifeLoss>>)
\* Sacrifice a creature: put a +1/+1 counter on this creature.
Feeder == Card({"creature", "zombie"}, NoMana, 1, <<Act("feed", <<SacCreature>>, <<AddCounterEffect>>)>>)
\* Sacrifice a creature: add one mana of any color.
Altar == Card({"artifact"}, NoMana, 3, <<ActMana("altar", <<SacCreature>>, <<Add("any_color", 1)>>)>>)
\* {B}: return this card from your graveyard to the battlefield, if you control a Zombie.
Crawler ==
  Card({"creature", "zombie"}, NoMana, 1,
       <<[Act("crawl", <<Pay("black", 1)>>, <<ReturnToBattlefieldEffect>>)
            EXCEPT !.requires_zombie = TRUE]>>)
\* A creature with undying (the keyword is a field of the permanent).
Wolf == Card({"creature", "wolf"}, NoMana, 1, <<>>)
\* Put a -1/-1 counter on this creature: it deals 1 damage to target creature or player.
Pinger ==
  Card({"creature"}, NoMana, 3,
       <<Act("ping", <<AddCounterCost>>, <<[DealDamageEffect EXCEPT !.target = "any_target"]>>)>>)

-----------------------------------------------------------------------------
(* Mana, energy and cards *)
\* {T}: add {G}.  Put a -1/-1 counter on this creature: untap it.
Druid ==
  Card({"creature", "elf"}, NoMana, 2,
       <<ActMana("druid-mana", <<TapCost>>, <<Add("green", 1)>>),
         Act("druid-untap", <<AddCounterCost>>, <<UntapEffect>>)>>)
\* -1/-1 counters put on your creatures are one fewer.
Vizier == Card({"creature"}, NoMana, 2, <<ReplacementReduceM1M1Counters>>)
\* Whenever you activate an ability that is not a mana ability, you may pay {1}: copy it.
Rings ==
  Card({"artifact"}, NoMana, 3, <<[StaticCopyActivatedAbility EXCEPT !.pay_generic = 1]>>)
\* Once per turn: get {E}{E}.  Pay {E}: draw a card.  Discard four cards: get {E}.
Hub ==
  Card({"artifact"}, NoMana, 3,
       <<[Act("charge", <<>>, <<[GetEnergyEffect EXCEPT !.amount = 2]>>) EXCEPT !.once_per_turn = TRUE],
         Act("study", <<EnergyCost>>, <<DrawEffect>>),
         Act("burn", <<[DiscardCost EXCEPT !.quantity = 4]>>, <<GetEnergyEffect>>)>>)

-----------------------------------------------------------------------------
(* Tokens, untapping and zones *)
\* Enchanted creature has "{T}: create a 1/1 token" (the host is the target of the step).
Gond ==
  Card({"enchantment", "aura"}, NoMana, 3,
       <<Act("gond", <<[TapCost EXCEPT !.source_self = FALSE]>>, <<CreateTokenEffect>>)>>)
\* Whenever another creature you control enters, untap this creature.
Guard ==
  Card({"creature", "human"}, NoMana, 3,
       <<When("guard", "enter_battlefield", "other_controlled_creature", <<UntapEffect>>)>>)
\* {1}: exile another creature you control and return it.
Displacer == Card({"creature"}, NoMana, 3, <<Act("blink", <<Pay("generic", 1)>>, <<BlinkEffect>>)>>)
\* {T}: add three mana.
Dork == Card({"creature"}, NoMana, 3, <<ActMana("dork", <<TapCost>>, <<Add("green", 3)>>)>>)
\* A creature that costs {G}; when it enters, draw a card.
Visionary ==
  Card({"creature", "elf"}, Mana("green", 1), 1,
       <<When("vision", "enter_battlefield", "self", <<DrawEffect>>)>>)

-----------------------------------------------------------------------------
(* Permanents *)
Creature(oracle, power, toughness) ==
  [oracle |-> oracle, is_creature |-> TRUE, pt |-> <<power, toughness>>]
Noncreature(oracle) == [oracle |-> oracle]
Artifact(oracle) == [oracle |-> oracle, is_artifact |-> TRUE]

=============================================================================
