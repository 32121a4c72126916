------------------------------ MODULE GameState ------------------------------
(***************************************************************************)
(* The read-only questions that rules/executor.py asks of a state and of   *)
(* the cards: string order, type lines, and the replacement and static     *)
(* abilities that are on the battlefield.                                  *)
(***************************************************************************)
EXTENDS Objects

CONSTANTS
  Cards,      \* the semantics map: [oracle ids -> CardSemantics]
  ObjectIds,  \* every object id of the board, tokens included, in string order
  TokenIds    \* the ids next_token_id hands out, in the order it does

\* The keys of permanents are listed once each in the dictionary's order, and the tokens on the
\* board bear the ids that were handed out.
Named(st) ==
  /\ ToSet(st.order) = Ids(st) /\ IsInjective(st.order)
  /\ Ids(st) \cap ToSet(TokenIds) = {TokenIds[i] : i \in 1..st.token_seq}

\* The first id of S in string order: sorted(..., key=object_id)[0].
Rank(id) == CHOOSE i \in DOMAIN ObjectIds : ObjectIds[i] = id
InStringOrder(S) == Those(ObjectIds, S)
First(S) == CHOOSE id \in S : \A other \in S : Rank(id) <= Rank(other)
\* The first id of S in dictionary order.
FirstInOrder(st, S) == Those(st.order, S)[1]

HasSemantics(p) == p.oracle \in DOMAIN Cards
CardTypes(p) == IF HasSemantics(p) THEN Cards[p.oracle].types ELSE {}
AbilitiesOf(p) == IF HasSemantics(p) THEN Cards[p.oracle].abilities ELSE <<>>
AbilitiesOfKind(p, kind) ==
  Picked(AbilitiesOf(p), {i \in DOMAIN AbilitiesOf(p) : AbilitiesOf(p)[i].kind = kind})

-----------------------------------------------------------------------------
(* Type lines and colours *)
PermanentTypes ==
  {"artifact", "battle", "creature", "enchantment", "land", "planeswalker", "kindred", "tribal"}
NonCreatureTypeWords ==
  {"artifact", "battle", "conspiracy", "creature", "dungeon", "enchantment", "instant", "land",
   "phenomenon", "plane", "planeswalker", "scheme", "sorcery", "tribal", "kindred", "vanguard",
   "basic", "legendary", "ongoing", "snow", "world", "token", "colorless"} \cup WUBRG

TypeSet(p) ==
  (CardTypes(p) \cup (IF p.is_creature THEN {"creature"} ELSE {})
                \cup (IF p.is_artifact THEN {"artifact"} ELSE {})) \cap PermanentTypes
IsArtifact(p) == "artifact" \in TypeSet(p)
IsBasicLand(p) == {"land", "basic"} \subseteq CardTypes(p)
CreatureSubtypes(p) ==
  CASE HasSemantics(p) -> CardTypes(p) \ NonCreatureTypeWords
    [] ~HasSemantics(p) /\ p.is_creature -> p.words \ NonCreatureTypeWords
    [] OTHER -> {}
ColorsOf(p) ==
  IF p.colors # {} THEN p.colors ELSE IF HasSemantics(p) THEN Cards[p.oracle].colors ELSE {}

-----------------------------------------------------------------------------
(* Static abilities in play.  A static is an ability record of a permanent *)
(* you control on the battlefield, named by its host and its position.     *)
Statics(st, kind) ==
  UNION {{<<id, i>> : i \in {j \in DOMAIN AbilitiesOf(st.permanents[id]) :
                              AbilitiesOf(st.permanents[id])[j].kind = kind}} : id \in Yours(st)}
StaticOf(st, s) == AbilitiesOf(st.permanents[s[1]])[s[2]]

\* Ashaya: a nontoken creature you control is a land as well.
CreaturesAreForests(st) == Statics(st, "static_nontoken_creatures_are_forests") # {}
IsLand(st, p) ==
  \/ "land" \in TypeSet(p)
  \/ /\ Controlled(p) /\ p.is_creature /\ ~p.is_token
     /\ CreaturesAreForests(st)

Product(S, f(_)) == MapThenFoldSet(LAMBDA a, b : a * b, 1, f, LAMBDA T : CHOOSE x \in T : TRUE, S)

\* _mill_multiplier, _life_gain_multiplier, _opponent_life_loss_multiplier, _draw_multiplier.
SupportedMultiplier(st, kind) ==
  LET live == {s \in Statics(st, kind) : StaticOf(st, s).supported}
      factor(s) == Greatest({1, StaticOf(st, s).multiplier})
  IN Product(live, factor)
\* token_create_multiplier, tap_mana_multiplier: "supported" is not consulted.
PlainMultiplier(st, kind) ==
  LET factor(s) == StaticOf(st, s).multiplier IN Product(Statics(st, kind), factor)

\* _you_can_gain_life looks at both sides of the battlefield.
YouCanGainLife(st) ==
  \A id \in Ids(st) :
    LET p == st.permanents[id] IN
      OnBattlefield(p) =>
        \A i \in DOMAIN AbilitiesOf(p) :
          LET ab == AbilitiesOf(p)[i] IN
            ~(ab.kind = "static_cant_gain_life" /\ ab.supported /\ ab.who \in {"players", "you"})

HasExileOnDeath(st) == Statics(st, "replacement_exile_on_death") # {}

-----------------------------------------------------------------------------
(* How many counters a put places *)
CounterPutMultiplier(st, n, id, kind) ==
  LET p == st.permanents[id]
      applies(ab) == /\ ab.only_p1p1 => kind = "p1p1"
                     /\ ab.applies_to = "creatures_you_control" => p.is_creature
      live == {s \in Statics(st, "replacement_double_counters") : applies(StaticOf(st, s))}
      factor(s) == StaticOf(st, s).multiplier
  IN IF p.controller # "you" \/ n <= 0 THEN n ELSE n * Product(live, factor)

\* Mutant: a put that is replaced still places one counter.
M1M1PutQuantity_AtLeastOne(st, n) ==
  LET cut == Greatest({StaticOf(st, s).reduce_by : s \in Statics(st, "replacement_reduce_m1m1")})
  IN Greatest({1, n - cut})

M1M1PutQuantity(st, n) ==
  LET cut == Greatest({StaticOf(st, s).reduce_by : s \in Statics(st, "replacement_reduce_m1m1")})
  IN NonNegative(n - cut)

\* The +1/+1 counters with the "that many plus" replacements, before those that multiply.
Amplified(st, n, id) ==
  LET applies(ab) == ab.applies_to = "creatures_you_control" => st.permanents[id].is_creature
  IN IF st.permanents[id].controller # "you" \/ n <= 0 THEN n
     ELSE n + MapThenSumSet(LAMBDA s : StaticOf(st, s).plus,
                            {s \in Statics(st, "replacement_amplify_p1p1") : applies(StaticOf(st, s))})
P1P1PutQuantity(st, n, id) ==
  CounterPutMultiplier(st, Amplified(st, n, id), id, "p1p1")

\* The three-way choice AddCounterEffect and proliferate share.
PutQuantity(st, n, id, kind) ==
  CounterPutMultiplier(st, CASE kind = "m1m1" -> M1M1PutQuantity(st, n)
                             [] kind = "p1p1" -> Amplified(st, n, id)
                             [] OTHER -> n, id, kind)

-----------------------------------------------------------------------------
(* Devotion and characteristic-defining power *)

Devotion(st, color) ==
  LET symbols(id) == IF HasSemantics(st.permanents[id])
                     THEN Cards[st.permanents[id].oracle].mana_cost[color] ELSE 0
  IN SumOver(Yours(st), symbols)

CdaBase(st, source) ==
  CASE source = "lands_you_control" -> Cardinality({id \in Yours(st) : IsLand(st, st.permanents[id])})
    [] source = "cards_in_hand" -> st.hand_you
    [] source = "life_you" -> st.life_you
    [] source = "devotion_green" -> Devotion(st, "green")

HasCda(p) == \E ab \in ToSet(AbilitiesOf(p)) : ab.kind = "static_cda_pt"
FirstCda(p) == AbilitiesOfKind(p, "static_cda_pt")[1]

\* _effective_power: the first StaticCdaPT of the card replaces the printed power.
PowerOf(st, p) ==
  IF HasCda(p) THEN CdaBase(st, FirstCda(p).power_from) + PTBonus(p)
  ELSE OrElse(EffectivePower(p), 0)

ControlsMetalcraft(st) == Cardinality(YourArtifacts(st)) >= 3
ControlsPowerAtLeast(st, n) ==
  \E id \in YourCreatures(st) : \E power \in EffectivePower(st.permanents[id]) : power >= n
ControlsZombie(st) ==
  \E id \in YourCreatures(st) :
    "zombie" \in CardTypes(st.permanents[id]) \cup st.permanents[id].words

-----------------------------------------------------------------------------
(* Cost reductions *)
\* cost_reduction: the generic reduction and the floor for activating ab of actor.
ActiveReductions(st, ab, actor) ==
  LET applies(s) ==
        LET r == StaticOf(st, s) IN
          /\ ~(r.exclude_mana_abilities /\ ab.is_mana_ability)
          /\ \/ r.applies_to = "activated_abilities_you_control"
             \/ /\ r.applies_to = "enchanted_artifact_activated"
                /\ st.permanents[actor].is_artifact /\ actor # s[1]
  IN {s \in Statics(st, "continuous_cost_reduction") : applies(s)}
CostReduction(st, ab, actor) ==
  LET amount(s) == StaticOf(st, s).reduce_generic
  IN SumOver(ActiveReductions(st, ab, actor), amount)
ManaFloor(st, ab, actor) ==
  Greatest({StaticOf(st, s).min_mana_remaining : s \in ActiveReductions(st, ab, actor)} \cup {0})

\* What a reduction is scaled by.
ReductionUnits(st, s, r) ==
  CASE r.scale_by = Some("artifacts_you_control") -> Cardinality(YourArtifacts(st))
    [] r.scale_by = Some("creatures_power_ge") ->
         Cardinality({id \in YourCreatures(st) : PowerOf(st, st.permanents[id]) >= r.power_threshold})
    [] r.scale_by = Some("p1p1_on_source") -> Counters(st.permanents[s[1]], "p1p1")
    [] OTHER -> 1
ReducesSpell(r, card) ==
  \/ r.applies_to = "spells_you_cast"
  \/ r.applies_to = "creature_spells_you_cast" /\ "creature" \in card.types
SpellCostReduction(st, card) ==
  SumOver({s \in Statics(st, "continuous_cost_reduction") : ReducesSpell(StaticOf(st, s), card)},
          LAMBDA s : StaticOf(st, s).reduce_generic * ReductionUnits(st, s, StaticOf(st, s)))

\* free_cast_max_mv, as an option.
FreeCastMaxMV(st) ==
  LET live == {s \in Statics(st, "free_cast_creatures_by_mv") : StaticOf(st, s).supported}
  IN IF live = {} THEN None ELSE Some(Greatest({StaticOf(st, s).max_mana_value : s \in live}))

=============================================================================
