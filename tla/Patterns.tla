------------------------------- MODULE Patterns -------------------------------
(***************************************************************************)
(* The pattern library of the compiler: what the patterns of               *)
(* semantics/patterns make of a clause of Oracle text, a sequence of       *)
(* sentences.  A pattern has the abilities it matches: none, or one.  The  *)
(* patterns of this module are those that take the texts of the project's  *)
(* cards.                                                                  *)
(***************************************************************************)
EXTENDS IR, OracleText, TLC, SequencesExt

-----------------------------------------------------------------------------
(* Prices *)
\* Mutant: {2} is one mana.
ParseManaBraces_CountsSymbols(symbols) ==
  [f \in Fields |-> Cardinality({i \in DOMAIN symbols :
     IF symbols[i] \in DOMAIN Colors THEN f = Colors[symbols[i]]
     ELSE f = "generic" /\ symbols[i] \in DOMAIN Digits})]

\* A symbol that is neither a number nor a color adds nothing.
ParseManaBraces(symbols) ==
  [f \in Fields |->
     LET worth(s) == IF f = "generic" /\ s \in DOMAIN Digits THEN Digits[s]
                     ELSE IF s \in DOMAIN Colors /\ Colors[s] = f THEN 1 ELSE 0
     IN FoldLeft(LAMBDA sum, s : sum + worth(s), 0, symbols)]

InBraces(part) == ToSet(part) \subseteq Symbols
PaidIn(symbols) == [ManaCost EXCEPT !.amount = ParseManaBraces(symbols)]
ParseActivationCosts(parts) ==
  IF parts = <<>> \/ \E i \in DOMAIN parts : ~InBraces(parts[i]) THEN <<>>
  ELSE [i \in DOMAIN parts |-> IF parts[i] = <<"T">> THEN TapCost ELSE PaidIn(parts[i])]

\* The forms of a price: {T} alone, or one part of mana symbols.
Tapped(c) == c.price = <<<<"T">>>>
InMana(c) == Len(c.price) = 1 /\ InBraces(c.price[1])
InNumber(c) == InMana(c) /\ Len(c.price[1]) = 1 /\ c.price[1][1] \in DOMAIN Digits
InWords(c, words) == c.price = <<<<words>>>>
Free(c) == c.price = <<>>

-----------------------------------------------------------------------------
(* Abilities of a sentence *)
Match(matched, ability) == IF matched THEN Some(ability) ELSE None
ActivatedFor(prefix, c, costs, effects) ==
  [ActivatedAbility EXCEPT !.ability_id = prefix \o "-" \o c.says, !.costs = costs, !.effects = effects]
ManaAbility(prefix, c, costs, effect) ==
  [ActivatedFor(prefix, c, costs, <<effect>>) EXCEPT !.is_mana_ability = TRUE]
TriggeredBy(prefix, c, event, filter, effect) ==
  [TriggeredAbility EXCEPT !.ability_id = prefix \o "-" \o c.says, !.event = event,
                           !.filter = filter, !.effects = <<effect>>]
TokenNamed(c) ==
  [CreateTokenEffect EXCEPT !.oracle = "token:" \o c.token.name, !.words = c.token.words,
                            !.pt = c.token.pt]
ThatMuch(effect) == [effect EXCEPT !.from = "trigger"]
AnyColor == [AddManaEffect EXCEPT !.amount["any_color"] = 1]
AddSymbols(c) == [AddManaEffect EXCEPT !.amount = ParseManaBraces(c.symbols)]
AddScaled(from, color) == [AddManaEffect EXCEPT !.from = from, !.scale_color = color]

-----------------------------------------------------------------------------
(* Tapping *)
PatTapCreateTokenUntap(c) ==
  Match(Tapped(c) /\ c.says = "create a token. untap this",
        ActivatedFor("tap-token-untap", c, <<TapCost>>, <<TokenNamed(c), UntapEffect>>))

Hosts == ("enchanted creature has {T}: create a token" :> "creature")
         @@ ("enchanted land has {T}: create a token" :> "land")
PatEnchantedTapCreateToken(c) ==
  Match(Free(c) /\ c.says \in DOMAIN Hosts,
        ActivatedFor("enchanted-tap-token", c,
                  <<[TapCost EXCEPT !.source_self = FALSE, !.host = Hosts[c.says]]>>, <<TokenNamed(c)>>))

PatTapCreateToken(c) ==
  Match(Tapped(c) /\ c.says = "create a token",
        ActivatedFor("tap-token", c, <<TapCost>>, <<TokenNamed(c)>>))

\* Amounts that are counted: what is counted, and the color.
Scales ==
  ("add {G} equal to its power" :> <<"source_power", "green">>)
  @@ ("add any color equal to its power" :> <<"source_power", "any_color">>)
  @@ ("add {G} for each +1/+1 counter on it" :> <<"source_p1p1", "green">>)
  @@ ("add {C} for each charge counter on it" :> <<"source_charge", "colorless">>)
  @@ ("add any color for each charge counter on it" :> <<"source_charge", "any_color">>)
  @@ ("add {G} for each creature" :> <<"controlled_creatures", "green">>)
  @@ ("add {G} for each elf on the battlefield" :> <<"battlefield_elf", "green">>)
  @@ ("add any color for each elf on the battlefield" :> <<"battlefield_elf", "any_color">>)
  @@ ("add {G} for each elf" :> <<"controlled_elf", "green">>)
  @@ ("add {G} for each defender" :> <<"controlled_defenders", "green">>)
  @@ ("add any color for each defender" :> <<"controlled_defenders", "any_color">>)
  @@ ("add any color for each enchantment" :> <<"controlled_enchantments", "any_color">>)
  @@ ("add {G} for devotion to green" :> <<"devotion_green", "green">>)
  @@ ("add one for each color among permanents" :> <<"vivid_permanent_colors", "green">>)

\* What a tap adds, and the condition that some of them have.
TapMana(c) ==
  CASE c.says \in {"add", "add if a creature of that power"} -> Some(AddSymbols(c))
    [] c.says \in {"add one mana of any color", "add one mana of any color if three artifacts"} ->
         Some(AnyColor)
    [] c.says = "add only to activate abilities" ->
         Some([AddSymbols(c) EXCEPT !.spend_only = Some("activate_abilities")])
    [] c.says = "add {C}{C} for each artifact in hand" ->
         Some([AddScaled("hand_artifacts", "colorless") EXCEPT !.scale_multiplier = 2])
    [] c.says \in DOMAIN Scales -> Some(AddScaled(Scales[c.says][1], Scales[c.says][2]))
    [] OTHER -> None
PatTapAddMana(c) ==
  {[ManaAbility("tap-mana", c, <<TapCost>>, effect) EXCEPT
      !.requires_metalcraft = (c.says = "add one mana of any color if three artifacts"),
      !.requires_controlled_power_at_least =
         IF c.says = "add if a creature of that power" THEN Some(c.n) ELSE None] :
   effect \in IF Tapped(c) THEN TapMana(c) ELSE None}

\* The four abilities of Staff of Domination with a price of mana and a tap.
AnyPrice(prefix, c, says, effect) ==
  LET costs == ParseActivationCosts(c.price)
  IN Match(c.says = says /\ costs # <<>>, ActivatedFor(prefix, c, costs, <<effect>>))
PatManaTapGainLife(c) ==
  AnyPrice("tap-gain-life", c, "you gain life", [GainLifeEffect EXCEPT !.amount = c.n])
PatManaTapUntapTarget(c) ==
  AnyPrice("tap-untap-target", c, "untap target creature", [UntapEffect EXCEPT !.target = "target_permanent"])
PatManaTapTapTarget(c) ==
  AnyPrice("tap-tap-target", c, "tap target creature", [TapEffect EXCEPT !.target = "target_permanent"])
PatManaTapDraw(c) ==
  AnyPrice("tap-draw", c, "draw cards", [DrawEffect EXCEPT !.amount = c.n])

-----------------------------------------------------------------------------
(* Mana for an effect *)
PatManaUntapSelf(c) ==
  Match(InMana(c) /\ c.says = "untap this",
        ActivatedFor("mana-untap", c, <<PaidIn(c.price[1])>>, <<UntapEffect>>))
PatManaCreateToken(c) ==
  Match(InNumber(c) /\ c.says = "create a token",
        ActivatedFor("mana-token", c, <<PaidIn(c.price[1])>>, <<TokenNamed(c)>>))
\* The subtype that is counted is the name of the token.
PatManaCreateTokensEqualSubtype(c) ==
  LET tokens == [TokenNamed(c) EXCEPT !.from = "subtype", !.subtype = c.token.words]
      says == c.says = "create a token for each of them"
  IN Match(Tapped(c) /\ says, ActivatedFor("tap-tokens-eq-subtype", c, <<TapCost>>, <<tokens>>))
     \cup Match(says /\ InMana(c) /\ ~Tapped(c) /\ Total(ParseManaBraces(c.price[1])) > 0,
                ActivatedFor("mana-tokens-eq-subtype", c, <<PaidIn(c.price[1])>>, <<tokens>>))
PatManaPutP1P1Self(c) ==
  Match(InNumber(c) /\ c.says = "put a +1/+1 counter on this",
        ActivatedFor("mana-put-p1p1", c, <<PaidIn(c.price[1])>>, <<AddCounterEffect>>))
PatGrantLifelinkActivated(c) ==
  Match(InMana(c) /\ c.says = "another target creature gains lifelink",
        ActivatedFor("grant-lifelink", c, <<PaidIn(c.price[1])>>, <<GrantLifelinkEffect>>))

-----------------------------------------------------------------------------
(* Other prices *)
PatSacCreatureAddMana(c) ==
  Match(InWords(c, "sacrifice a creature") /\ c.says \in {"add", "add one mana of any color"},
        ManaAbility("sac-mana", c, <<SacrificeCost>>, IF c.says = "add" THEN AddSymbols(c) ELSE AnyColor))
PatPutM1M1UntapSelf(c) ==
  Match(InWords(c, "put a -1/-1 counter on this") /\ c.says = "untap this",
        ActivatedFor("m1m1-untap", c, <<AddCounterCost>>, <<UntapEffect>>))
\* The counter is removed by an effect, not by a cost.
PatRemoveCounterDamage(c) ==
  Match(InWords(c, "remove a +1/+1 counter from this") /\ c.says = "1 damage to any target",
        ActivatedFor("counter-ping", c, <<>>,
                  <<RemoveCounterEffect, [DealDamageEffect EXCEPT !.target = "any_target"]>>))
PatEarthcraftTapUntapBasic(c) ==
  Match(InWords(c, "tap an untapped creature") /\ c.says = "untap target basic land",
        ActivatedFor("earthcraft-untap-basic", c, <<TapCreatureCost>>,
                  <<[UntapEffect EXCEPT !.target = "target_basic_land"]>>))
\* Casting from the graveyard is a return for {B}.
PatCastFromGYIfZombie(c) ==
  Match(Free(c) /\ c.says = "you may cast this from your graveyard if you control a zombie",
        [ActivatedFor("cast-gy-zombie", c, <<[ManaCost EXCEPT !.amount["black"] = 1]>>,
                   <<ReturnToBattlefieldEffect>>) EXCEPT !.requires_zombie = TRUE])

-----------------------------------------------------------------------------
(* Triggers: an ability that is all in its phrase *)
Says(c, says, ability) == Match(Free(c) /\ c.says = says, ability)
ToHand(target) == [MoveToZoneEffect EXCEPT !.target = target]

PatCastBounceTargetPermanent(c) ==
  Says(c, "whenever you cast a spell, return target permanent",
       TriggeredBy("cast-bounce-permanent", c, "cast", "any", ToHand("target_permanent")))
PatEtbBounceControlledCreature(c) ==
  Says(c, "when this enters, return a creature you control",
       TriggeredBy("etb-bounce", c, "enter_battlefield", "self", ToHand("controlled_creature")))
PatEtbBounceSharingType(c) ==
  Says(c, "whenever a nonartifact you control enters, return another of its types",
       TriggeredBy("etb-bounce-share-type", c, "enter_battlefield", "controlled_nonartifact",
                 ToHand("other_controlled_sharing_type")))
PatEtbCreateFood(c) ==
  Says(c, "when this enters, create a food token",
       TriggeredBy("etb-food", c, "enter_battlefield", "self",
                 [CreateTokenEffect EXCEPT !.oracle = "token:Food", !.words = {"food"}, !.pt = <<0, 0>>,
                                           !.is_creature = FALSE, !.is_artifact = TRUE]))

\* Which entry untaps what.  "Another creature" is any creature to the filter.
EtbUntaps ==
  ("whenever a creature enters, untap target permanent" :> <<"creature", "target_permanent">>)
  @@ ("whenever a creature enters, untap all creatures" :> <<"creature", "all_creatures">>)
  @@ ("when this enters, untap all creatures" :> <<"self", "all_creatures">>)
  @@ ("when this enters, you may tap or untap target permanent" :> <<"self", "target_permanent">>)
  @@ ("when this enters, untap target creature" :> <<"self", "target_creature">>)
  @@ ("whenever a creature enters, you may untap this" :> <<"creature", "self">>)
  @@ ("whenever another creature enters, untap this" :> <<"creature", "self">>)
PatEtbUntapTarget(c) ==
  Match(Free(c) /\ c.says \in DOMAIN EtbUntaps,
        TriggeredBy("etb-untap", c, "enter_battlefield", EtbUntaps[c.says][1],
                  [UntapEffect EXCEPT !.target = EtbUntaps[c.says][2]]))

PatCreateTokenPutP1P1Other(c) ==
  Says(c, "whenever you create a token, put a +1/+1 counter on another creature",
       TriggeredBy("create-token-p1p1", c, "create_token", "any",
                 [AddCounterEffect EXCEPT !.target = "target_other_creature"]))
PatCountersPutDamageOpponent(c) ==
  Says(c, "whenever +1/+1 counters are put on a creature you control, that much damage to an opponent",
       TriggeredBy("counters-damage-opponent", c, "counter_added", "controlled_creature",
                 ThatMuch(DealDamageEffect)))
PatCountersPutMayCreateToken(c) ==
  Says(c, "whenever +1/+1 counters are put on this, create a token",
       TriggeredBy("counters-create-token", c, "counter_added", "self", TokenNamed(c)))
PatDiesLoseLife(c) ==
  Says(c, "whenever a creature dies, each opponent loses life",
       TriggeredBy("dies-drain", c, "dies", "creature", [LoseLifeEffect EXCEPT !.amount = c.n]))

-----------------------------------------------------------------------------
(* Triggers on life *)
PatGainLifeOpponentLosesThatMuch(c) ==
  Says(c, "whenever you gain life, an opponent loses that much life",
       TriggeredBy("gain-life-drain", c, "gain_life", "any", ThatMuch(LoseLifeEffect)))
PatOpponentLoseLifeYouGainThatMuch(c) ==
  Says(c, "whenever an opponent loses life, you gain that much life",
       TriggeredBy("loss-to-gain", c, "opponent_lose_life", "any", ThatMuch(GainLifeEffect)))
PatOpponentLoseLifeMill(c) ==
  Says(c, "whenever an opponent loses life, that player mills a card",
       TriggeredBy("loss-to-mill", c, "opponent_lose_life", "any", MillEffect))
PatEnchantmentsHaveGraveyardDrain(c) ==
  Says(c, "enchantments have: whenever a card is put into an opponent's graveyard, that player loses life",
       TriggeredBy("gy-drain", c, "card_to_opponent_graveyard", "any", [LoseLifeEffect EXCEPT !.amount = c.n]))
PatGainLifePutP1P1EachControlled(c) ==
  Says(c, "whenever you gain life, put a +1/+1 counter on each creature you control",
       TriggeredBy("gain-life-p1p1-each", c, "gain_life", "any",
                 [AddCounterEffect EXCEPT !.target = "each_controlled_creature"]))
PatGainLifePutP1P1Target(c) ==
  Says(c, "whenever you gain life, put a +1/+1 counter on target creature or enchantment",
       TriggeredBy("gain-life-p1p1", c, "gain_life", "any",
                 [AddCounterEffect EXCEPT !.target = "target_permanent"]))

-----------------------------------------------------------------------------
(* Statics *)
PatVizierM1M1Replacement(c) ==
  Says(c, "-1/-1 counters put on a creature you control are one fewer",
       [ReplacementReduceM1M1Counters EXCEPT !.ability_id = "vizier-m1m1-" \o c.says])
PatAlurenFreeCast(c) ==
  Says(c, "any player may cast cheap creature spells without paying",
       [FreeCastCreaturesByManaValue EXCEPT !.ability_id = "free-cast-mv-" \o c.says, !.max_mana_value = c.n])
PatInstantGrantTapBounce(c) ==
  Says(c, "target creature gains {T}: return target nonland permanent",
       [InstantGrantTapBounce EXCEPT !.ability_id = "instant-grant-tap-bounce-" \o c.says])

ProofIrrelevant(c) ==
  [ProofIrrelevantStatic EXCEPT !.ability_id = "proof-irrelevant-" \o c.says, !.clause = c.says]
PatEtbWithCountersIrrelevant(c) ==
  Says(c, "this creature enters with X +1/+1 counters on it", ProofIrrelevant(c))

Keywords == {"flying", "flash", "haste", "vigilance", "lifelink", "defender", "indestructible",
             "flying, vigilance"}
Enchants == {"enchant creature", "enchant land"}
IrrelevantSays ==
  Keywords \cup {"this creature can't block", "creatures don't untap during their untap steps",
                 "other elf creatures get +1/+1", "evolve", "isn't a creature below that devotion"}
\* These are matched at their beginning only, and "enchant" takes all letters and blanks: what
\* follows, a line joined to theirs as well, is irrelevant with them.
IrrelevantOpenings ==
  {"companion", "at the beginning of each end step", "until end of turn, it gains an ability",
   "until end of turn, you don't lose this mana"}
Swallows(first, rest) ==
  \/ first.says \in IrrelevantOpenings
  \/ first.says \in Enchants /\ Len(rest) <= 1 /\ \A i \in DOMAIN rest : rest[i].letters
PatProofIrrelevantStatic(clause) ==
  LET first == clause[1]
      rest == Tail(clause)
  IN Match(Free(first) /\ (Swallows(first, rest) \/ (rest = <<>> /\ first.says \in IrrelevantSays)),
           ProofIrrelevant(first))

-----------------------------------------------------------------------------
(* PATTERNS, in the order in which they are tried *)
PATTERNS(c) ==
  <<PatTapCreateTokenUntap(c), PatEnchantedTapCreateToken(c), PatTapCreateToken(c),
    PatCastBounceTargetPermanent(c), PatManaCreateTokensEqualSubtype(c), PatManaCreateToken(c),
    PatTapAddMana(c), PatManaTapGainLife(c), PatManaTapUntapTarget(c), PatManaTapTapTarget(c),
    PatManaTapDraw(c), PatManaUntapSelf(c), PatPutM1M1UntapSelf(c), PatVizierM1M1Replacement(c),
    PatEtbCreateFood(c), PatEtbBounceControlledCreature(c), PatEtbBounceSharingType(c),
    PatEarthcraftTapUntapBasic(c), PatAlurenFreeCast(c), PatInstantGrantTapBounce(c),
    PatCreateTokenPutP1P1Other(c), PatCountersPutDamageOpponent(c), PatCountersPutMayCreateToken(c),
    PatEtbUntapTarget(c), PatSacCreatureAddMana(c), PatCastFromGYIfZombie(c), PatDiesLoseLife(c),
    PatGainLifeOpponentLosesThatMuch(c), PatOpponentLoseLifeYouGainThatMuch(c),
    PatOpponentLoseLifeMill(c), PatEnchantmentsHaveGraveyardDrain(c),
    PatGainLifePutP1P1EachControlled(c), PatGainLifePutP1P1Target(c), PatManaPutP1P1Self(c),
    PatEtbWithCountersIrrelevant(c), PatGrantLifelinkActivated(c), PatRemoveCounterDamage(c)>>

\* Only the last pattern takes a clause of several sentences.
TryMatch(clause) ==
  FoldLeft(LAMBDA found, match : IF found # None THEN found ELSE match, None,
           (IF Len(clause) = 1 THEN PATTERNS(clause[1]) ELSE <<>>)
             \o <<PatProofIrrelevantStatic(clause)>>)

================================================================================
