------------------------------- MODULE Effects -------------------------------
(***************************************************************************)
(* The state changes of rules/executor.py below the level of an action:    *)
(* queueing triggers, entering, untapping, dying, sacrificing, the         *)
(* state-based actions, and one operator per effect class.                 *)
(*                                                                         *)
(* An operation that can fail returns [st, err]; err is "ok" or the        *)
(* VerificationStatus of the ExecError.  The code works on the state in    *)
(* place, so the state beside an error holds what was done before it.      *)
(***************************************************************************)
EXTENDS GameState

\* What follows an operation that did not fail.
Then(r, next(_)) == IF r.err = "ok" THEN next(r.st) ELSE r

\* A pending trigger.  amount is an option; undying's own entry has no card ability.
UndyingReturn == "__undying_return__"
Pending(source, ability, subject, amount) ==
  [source_id |-> source, ability_id |-> ability, subject_id |-> subject, amount |-> amount]

-----------------------------------------------------------------------------
(* Trigger queueing *)
\* Does the subject of an event pass the filter of a triggered ability of host?
OtherFilters ==
  {"other_controlled_creature", "other_controlled_human", "other_controlled_green",
   "other_controlled_nontoken_creature", "other_controlled_black_creature"}
YourCreatureFilters ==
  OtherFilters \cup {"controlled_creature", "controlled_nontoken_creature"}
YourFilters ==
  YourCreatureFilters \cup {"controlled_land", "controlled_artifact", "controlled_enchantment",
                            "controlled_nonartifact"}
CreatureFilters == YourCreatureFilters \cup {"creature", "cast_creature", "token_creature"}
MeetsFilter(st, filter, s, other) ==
  /\ filter \in CreatureFilters => s.is_creature
  /\ filter \in YourFilters => s.controller = "you"
  /\ filter \in OtherFilters => other
  /\ filter = "self" => ~other
  /\ filter = "token_creature" => s.is_token
  /\ filter \in {"other_controlled_nontoken_creature", "controlled_nontoken_creature"} => ~s.is_token
  /\ filter = "controlled_land" => IsLand(st, s)
  /\ filter = "controlled_enchantment" => "enchantment" \in TypeSet(s)
  /\ filter \in {"controlled_artifact", "cast_artifact"} => IsArtifact(s)
  /\ filter = "controlled_nonartifact" => ~IsArtifact(s)
  /\ filter = "other_controlled_human" => "human" \in CardTypes(s)
  /\ filter = "other_controlled_green" => "G" \in ColorsOf(s)
  /\ filter = "other_controlled_black_creature" => "B" \in ColorsOf(s)
  /\ filter = "cast_noncreature" => ~s.is_creature
  /\ filter = "cast_colorless" => ColorsOf(s) = {}
  /\ filter = "cast_red" => "R" \in ColorsOf(s)
PassesFilter(st, filter, host, subject) ==
  MeetsFilter(st, filter, st.permanents[subject], subject # host)

\* The intervening-if clauses that are checked when the trigger is queued.
PassesInterveningIf(st, ab, host, subject) ==
  /\ ab.intervening_if = Some("cast") => st.permanents[subject].was_cast
  /\ ab.intervening_if = Some("fewer_than_three_p1p1")
       => Counters(st.permanents[host], "p1p1") < 3

Fires(st, ab, host, event, subject) ==
  /\ ab.kind = "triggered" /\ ab.event = event /\ ab.supported
  /\ PassesFilter(st, ab.filter, host, subject)
  /\ PassesInterveningIf(st, ab, host, subject)

\* _queue_triggers: the abilities of every permanent you control, in dictionary order.
QueuedFor(st, queue, host, event, subject, amount) ==
  FoldLeft(LAMBDA q, ab : IF Fires(st, ab, host, event, subject)
                          THEN Append(q, Pending(host, ab.ability_id, subject, amount)) ELSE q,
           queue, AbilitiesOf(st.permanents[host]))
TriggersFor(st, event, subject, amount) ==
  FoldLeft(LAMBDA queue, host : QueuedFor(st, queue, host, event, subject, amount),
           <<>>, YoursInOrder(st))

\* Mutant: a source that has a pending trigger queues no other.
QueueTriggers_OncePending(st, event, subject, amount) ==
  LET waiting == {tr.source_id : tr \in ToSet(st.pending_triggers)}
  IN [st EXCEPT !.pending_triggers =
        @ \o SelectSeq(TriggersFor(st, event, subject, amount), LAMBDA tr : tr.source_id \notin waiting)]

QueueTriggers(st, event, subject, amount) ==
  [st EXCEPT !.pending_triggers = @ \o TriggersFor(st, event, subject, amount)]

OnEtb(st, id) ==
  QueueTriggers([Bump(st, "etb", 1) EXCEPT !.permanents[id].entered_this_turn = TRUE],
                "enter_battlefield", id, None)

\* _untap_permanent: only a tapped permanent on the battlefield changes and triggers.
Untap(st, id) ==
  IF OnBattlefield(st.permanents[id]) /\ st.permanents[id].tapped
  THEN QueueTriggers([st EXCEPT !.permanents[id].tapped = FALSE], "untap", id, None)
  ELSE st

-----------------------------------------------------------------------------
(* Life *)
OpponentLoses(st, source, lost) ==
  IF lost <= 0 THEN st
  ELSE Bump(QueueTriggers([st EXCEPT !.life_opponent = @ - lost],
                          "opponent_lose_life", source, Some(lost)),
            "life_loss", lost)
OpponentLossMultiplier(st) == SupportedMultiplier(st, "replacement_double_opponent_life_loss")

\* Mutant: what is counted is the loss before it is doubled.
LoseOpponentLife_CountsPlain(st, source, n) ==
  [OpponentLoses(st, source, n * OpponentLossMultiplier(st)) EXCEPT
     !.event_counters["life_loss"] = st.event_counters["life_loss"] + n]

LoseOpponentLife(st, source, n) == OpponentLoses(st, source, n * OpponentLossMultiplier(st))

YouGain(st, source, gained) ==
  IF ~YouCanGainLife(st) \/ gained <= 0 THEN st
  ELSE QueueTriggers(Bump([st EXCEPT !.life_you = @ + gained], "life_gain", gained),
                     "gain_life", source, Some(gained))
GainYourLife(st, source, n) ==
  YouGain(st, source, n * SupportedMultiplier(st, "replacement_double_life_gain"))

-----------------------------------------------------------------------------
(* Dying *)
\* The state once the permanents of gone have left the battlefield.
Without(st, gone) ==
  [st EXCEPT !.permanents = [id \in DOMAIN @ |->
     IF id \in gone THEN [@[id] EXCEPT !.zone = "graveyard"] ELSE @[id]]]

\* A replacement exiles dying creatures: no death, no trigger, no undying.
ExiledOnDeath(st, id) == HasExileOnDeath(st) /\ st.permanents[id].is_creature

\* die, the permanent.  Its counters, flags and used abilities stay with it.
Died(st, id) ==
  With(st.permanents[id], [damage_marked |-> 0, tapped |-> FALSE,
                           zone |-> IF ExiledOnDeath(st, id) THEN "exile" ELSE "graveyard"])

\* Mutant: undying does not look at the counters.
DeathEntries_IgnoresCounters(st, id) ==
  LET p == st.permanents[id]
      amount == {n \in EffectiveToughness(p) : n > 0}
  IN IF ExiledOnDeath(st, id) THEN <<>>
     ELSE TriggersFor(st, "dies", id, amount)
          \o (IF p.undying THEN <<Pending(id, UndyingReturn, id, None)>> ELSE <<>>)

\* Mutant: a creature that returns by undying is not seen dying.
DeathEntries_ReturnsUnseen(st, id) ==
  LET p == st.permanents[id]
      amount == {n \in EffectiveToughness(p) : n > 0}
  IN IF ExiledOnDeath(st, id) THEN <<>>
     ELSE IF p.undying /\ Counters(p, "p1p1") = 0 THEN <<Pending(id, UndyingReturn, id, None)>>
     ELSE TriggersFor(st, "dies", id, amount)

\* die, the queue: DIES triggers see the permanent still in play and carry its toughness;
\* undying's own entry follows when the creature had no +1/+1 counter.
DeathEntries(st, id) ==
  LET p == st.permanents[id]
      amount == {n \in EffectiveToughness(p) : n > 0}
      returns == p.undying /\ Counters(p, "p1p1") = 0
  IN IF ExiledOnDeath(st, id) THEN <<>>
     ELSE TriggersFor(st, "dies", id, amount)
          \o (IF returns THEN <<Pending(id, UndyingReturn, id, None)>> ELSE <<>>)

\* Mutant: whatever is put into the graveyard counts.
CountsAsDeath_AnyPermanent(st, id) == ~ExiledOnDeath(st, id)

CountsAsDeath(st, id) == st.permanents[id].is_creature /\ ~ExiledOnDeath(st, id)

Die(st, id) ==
  [st EXCEPT !.permanents[id] = Died(st, id),
             !.event_counters["death"] = @ + (IF CountsAsDeath(st, id) THEN 1 ELSE 0),
             !.pending_triggers = @ \o DeathEntries(st, id)]

\* The creatures CR 704.5f/g puts into the graveyard.
IsDoomed(p) ==
  /\ Controlled(p) /\ p.is_creature
  /\ \E toughness \in EffectiveToughness(p) : toughness <= 0 \/ p.damage_marked >= toughness
Doomed(st) == {id \in Ids(st) : IsDoomed(st.permanents[id])}

\* The creatures of dying, which names each doomed one once, die one after the other, each seen
\* only by what is still in play.
DieInOrder(st, dying) ==
  LET Earlier(id) == {dying[j] : j \in {k \in DOMAIN dying :
                        \A i \in DOMAIN dying : dying[i] = id => k < i}}
      AsItDies(id) == Without(st, Earlier(id))
      dead == {id \in Doomed(st) : CountsAsDeath(AsItDies(id), id)}
  IN With(st, [permanents |-> [id \in Ids(st) |->
                 IF id \in Doomed(st) THEN Died(AsItDies(id), id) ELSE st.permanents[id]],
               event_counters |-> [st.event_counters EXCEPT !["death"] = @ + Cardinality(dead)],
               pending_triggers |-> st.pending_triggers \o
                 FlattenSeq([i \in DOMAIN dying |-> DeathEntries(AsItDies(dying[i]), dying[i])])])

\* Mutant: the doomed die in string order.
ApplySBA_StringOrder(st) == DieInOrder(st, InStringOrder(Doomed(st)))

\* apply_state_based_actions: the doomed die in dictionary order.  The code repeats the pass
\* until nothing is doomed; one pass leaves nothing doomed (theorem OnePassIsEnough of
\* StepProofs), so its second pass stops.
ApplySBA(st) == DieInOrder(st, Those(st.order, Doomed(st)))

Sacrifice(st, id) ==
  Die(QueueTriggers(Bump(st, "sacrifice", 1), "sacrificed", id, None), id)

MatchesSacrificeSelector(p, selector) ==
  /\ Controlled(p)
  /\ \/ selector = "self"
     \/ selector = "creature_controlled" /\ p.is_creature
     \/ selector = "token_creature_controlled" /\ p.is_token /\ p.is_creature

-----------------------------------------------------------------------------
(* Effects.  c is the context of the resolution: source, target and subject *)
(* (ids or NoId) and the amount the trigger recorded (an option).           *)
Illegal(st, ok, result) == IF ok THEN result ELSE Err(st, "illegal_target")

\* What the trigger recorded, where the effect insists on a positive amount.
PositiveAmount(c) == {n \in c.amount : n > 0}

BumpIfPositive(st, key, n) == IF n > 0 THEN Bump(st, key, n) ELSE st

(* Mana *)
CreditMana(st, e, color, n) ==
  IF n <= 0 THEN st
  ELSE Bump(IF e.spend_only = Some("activate_abilities")
            THEN [st EXCEPT !.mana_activate_only[color] = @ + n]
            ELSE [st EXCEPT !.mana[color] = @ + n], "mana", n)

FieldOrder ==
  <<"white", "blue", "black", "red", "green", "colorless", "generic", "any_color">>

VividColors(st) ==
  {color \in WUBRG : \E id \in Yours(st) : \E ab \in ToSet(AbilitiesOf(st.permanents[id])) :
     /\ ab.kind = "activated"
     /\ \E cost \in ToSet(ab.costs) : cost.kind = "mana" /\ cost.amount[color] > 0}

\* DEVOTION_GREEN counts the green pips of activation costs, not of mana costs.
GreenPips(ab) ==
  IF ab.kind # "activated" THEN 0
  ELSE FoldLeft(LAMBDA k, cost : k + (IF cost.kind = "mana" THEN cost.amount["green"] ELSE 0),
                0, ab.costs)
DevotionGreen(st) ==
  SumOver(Yours(st), LAMBDA id : FoldLeft(LAMBDA n, ab : n + GreenPips(ab), 0,
                                          AbilitiesOf(st.permanents[id])))

ScaledManaQuantity(st, scale, source) ==
  LET perm(id) == st.permanents[id]
      creaturesWith(word) == {id \in YourCreatures(st) : word \in CardTypes(perm(id))}
      powers(S) == {OrElse(EffectivePower(perm(id)), 0) : id \in S}
  IN CASE scale = "controlled_creatures" -> Cardinality(YourCreatures(st))
       [] scale = "controlled_elf" -> Cardinality(creaturesWith("elf"))
       [] scale = "battlefield_elf" ->
            Cardinality({id \in Ids(st) : OnBattlefield(perm(id)) /\ perm(id).is_creature
                                           /\ "elf" \in CardTypes(perm(id))})
       [] scale = "controlled_defenders" ->
            Cardinality({id \in YourCreatures(st) : \E ab \in ToSet(AbilitiesOf(perm(id))) :
                           ab.kind = "proof_irrelevant_static" /\ ab.clause = "defender"})
       [] scale = "controlled_enchantments" ->
            Cardinality({id \in Yours(st) : "enchantment" \in CardTypes(perm(id))})
       [] scale = "devotion_green" -> DevotionGreen(st)
       [] scale = "hand_artifacts" ->
            Cardinality({id \in Ids(st) : perm(id).zone = "hand" /\ perm(id).controller = "you"
                                           /\ perm(id).is_artifact})
       [] scale = "controlled_swamps" ->
            Cardinality({id \in Yours(st) : "swamp" \in CardTypes(perm(id)) \cup perm(id).words})
       [] scale = "greatest_power_controlled" -> Greatest(powers(YourCreatures(st)))
       [] scale = "greatest_toughness_other" ->
            Greatest({OrElse(EffectiveToughness(perm(id)), 0) : id \in YourCreatures(st) \ {source}})
       [] scale = "cards_drawn_this_turn" -> st.event_counters["draw"]
       [] scale = "greatest_power_entered_this_turn" ->
            Greatest(powers({id \in YourCreatures(st) : perm(id).entered_this_turn}))

\* The mana effects that add a number of one colour.
ManaQuantity(st, e, source) ==
  CASE e.from = "source_power" -> PowerOf(st, st.permanents[source])
    [] e.from = "source_p1p1" -> Counters(st.permanents[source], "p1p1")
    [] e.from = "source_charge" -> Counters(st.permanents[source], "charge")
    [] OTHER -> ScaledManaQuantity(st, e.from, source) * Greatest({1, e.scale_multiplier})
\* Your creatures that share a creature type with the subject.
Sharing(st, types) ==
  {id \in YourCreatures(st) : CreatureSubtypes(st.permanents[id]) \cap types # {}}
\* Colours credited in order: n of each, or what the effect says of each.
CreditEach(st, e, colors, n) == FoldLeft(LAMBDA s, color : CreditMana(s, e, color, n), st, colors)
CreditAmounts(st, e, mult) ==
  FoldLeft(LAMBDA s, field : CreditMana(s, e, field, e.amount[field] * mult), st, FieldOrder)
AddManaTimes(st, e, c, mult) ==
  CASE e.from = "vivid_permanent_colors" ->
         Ok(CreditEach(st, e, Those(FieldOrder, VividColors(st)), mult))
    [] e.from = "controlled_sharing_creature_type" ->
         Illegal(st, Exists(st, c.subject),
                 Ok(CreditMana(st, e, e.scale_color,
                               Cardinality(Sharing(st, CreatureSubtypes(st.permanents[c.subject]))))))
    [] e.from = "amount" ->
         Ok(CreditAmounts(st, e, mult))
    [] OTHER -> Ok(CreditMana(st, e, e.scale_color,
                              NonNegative(ManaQuantity(st, e, c.source)) * mult))
AddMana(st, e, c) ==
  AddManaTimes(st, e, c, IF st.permanents[c.source].tapped
                         THEN PlainMultiplier(st, "replacement_multiply_tap_mana") ELSE 1)

(* Untapping and tapping *)
UntapInTurn(st, ids) == FoldLeft(Untap, st, ids)

\* Untap all creatures: both sides, every creature counted, tapped ones trigger.
UntapAllCreatures(st) ==
  LET creatures == Those(st.order, {id \in Ids(st) : /\ OnBattlefield(st.permanents[id])
                                                     /\ st.permanents[id].is_creature})
  IN BumpIfPositive(UntapInTurn(st, creatures), "untap", Len(creatures))

\* Only those that were tapped are counted.
UntapEach(st, ids) ==
  BumpIfPositive(UntapInTurn(st, ids), "untap",
                 Cardinality({i \in DOMAIN ids : st.permanents[ids[i]].tapped}))

UntapFirst(st, ids, quantity) ==
  UntapEach(st, SubSeq(ids, 1, Least(NonNegative(OrElse(quantity, Len(ids))), Len(ids))))
\* Tapped lands first.
UntapLands(st, e) ==
  LET lands == {id \in Yours(st) : IsLand(st, st.permanents[id])}
      tapped == {id \in lands : st.permanents[id].tapped}
  IN UntapFirst(st, InStringOrder(tapped) \o InStringOrder(lands \ tapped), e.quantity)

UntapNonlands(st) ==
  UntapEach(st, Those(st.order, {id \in Yours(st) : ~IsLand(st, st.permanents[id])}))

MayUntap(st, e, id) ==
  CASE e.target = "target_basic_land" -> IsBasicLand(st.permanents[id])
    [] e.target = "target_land" -> IsLand(st, st.permanents[id])
    [] e.target = "target_artifact" -> IsArtifact(st.permanents[id])
    [] e.target = "target_creature" -> st.permanents[id].is_creature
    [] OTHER -> TRUE

\* A single untap is counted even when nothing changed.
UntapOne(st, e, c) ==
  LET id == IF e.target = "self" THEN c.source ELSE c.target
  IN Illegal(st, Exists(st, id) /\ MayUntap(st, e, id), Ok(Bump(Untap(st, id), "untap", 1)))

ApplyUntap(st, e, c) ==
  CASE e.target = "all_creatures" -> Ok(UntapAllCreatures(st))
    [] e.target = "controlled_lands" -> Ok(UntapLands(st, e))
    [] e.target = "controlled_nonlands" -> Ok(UntapNonlands(st))
    [] OTHER -> UntapOne(st, e, c)

ApplyTap(st, e, c) ==
  LET id == IF e.target = "self" THEN c.source ELSE c.target
  IN Illegal(st, Exists(st, id), Ok(Bump([st EXCEPT !.permanents[id].tapped = TRUE], "tap", 1)))

(* Tokens *)
TokenFrom(st, e, template) ==
  IF e.copy_target
  THEN LET t == st.permanents[template] IN
       [Permanent EXCEPT !.oracle = t.oracle, !.words = t.words, !.is_token = TRUE,
          !.is_creature = TRUE, !.is_artifact = t.is_artifact, !.pt = t.pt,
          !.colors = t.colors, !.summoning_sick = ~e.haste]
  ELSE [Permanent EXCEPT !.oracle = e.oracle, !.words = e.words, !.is_token = TRUE,
          !.is_creature = e.is_creature, !.is_artifact = e.is_artifact, !.pt = e.pt,
          !.summoning_sick = ~e.haste]

\* One token: it exists before its ETB and CREATE_TOKEN triggers are queued.
MakeToken(st, token) ==
  LET id == TokenIds[st.token_seq + 1]
      made == [st EXCEPT !.token_seq = @ + 1, !.order = Append(@, id),
                         !.permanents = Stored(@, id, token)]
  IN QueueTriggers(OnEtb(Bump(made, "token", 1), id), "create_token", id, None)

MakeMany(st, token, n) == FoldLeft(LAMBDA s, i : MakeToken(s, token), st, [i \in 1..n |-> i])

TokenQuantity(st, e, c) ==
  (CASE e.from = "amount" -> e.quantity
     [] e.from = "trigger" -> The(c.amount)
     [] e.from = "subtype" ->
          Cardinality({id \in YourCreatures(st) :
                         e.subtype \subseteq CreatureSubtypes(st.permanents[id])}))
  * PlainMultiplier(st, "replacement_double_tokens")
MakeTokens(st, e, template, n) ==
  LET copyable == /\ Exists(st, template)
                  /\ Controlled(st.permanents[template]) /\ st.permanents[template].is_creature
  IN IF n <= 0 THEN Ok(st)
     ELSE Illegal(st, e.copy_target => copyable,
                  Ok(MakeMany(st, TokenFrom(st, e, template), n)))
CreateToken(st, e, c) ==
  IF e.from = "trigger" /\ PositiveAmount(c) = {} THEN Err(st, "illegal_action")
  ELSE MakeTokens(st, e, IF c.target = NoId THEN c.source ELSE c.target, TokenQuantity(st, e, c))

(* Counters *)
Place(st, id, kind, put) ==
  IF put <= 0 THEN st
  ELSE QueueTriggers(Bump([st EXCEPT !.permanents[id] =
                             WithCounters(@, kind, Counters(@, kind) + put)], "counter_added", put),
                     "counter_added", id, Some(put))
PutCounters(st, id, kind, n) == Place(st, id, kind, PutQuantity(st, n, id, kind))
PutOnEach(st, hosts, kind, n) ==
  FoldLeft(LAMBDA s, host : PutCounters(s, host, kind, n), st, hosts)
PutEachKind(st, id, kinds) == FoldLeft(LAMBDA s, kind : PutCounters(s, id, kind, 1), st, kinds)

\* The permanents the effect puts its counters on.
CounterHosts(st, e, id) ==
  IF e.target = "each_controlled_creature" THEN InStringOrder(YourCreatures(st))
  ELSE IF e.only_if_none /\ Counters(st.permanents[id], e.counter_type) > 0 THEN <<>> ELSE <<id>>
AddCounter(st, e, c) ==
  LET n == IF e.amount_from_trigger THEN The(c.amount) ELSE e.quantity
      id == IF e.target = "self" THEN c.source ELSE c.target
      another == id # c.source /\ st.permanents[id].is_creature
      legal == \/ e.target = "each_controlled_creature"
               \/ /\ Exists(st, id)
                  /\ e.target \in {"target_other_creature", "enchanted_creature"} => another
  IN IF ~legal THEN Err(st, "illegal_target")
     ELSE IF e.amount_from_trigger /\ PositiveAmount(c) = {} THEN Err(st, "illegal_action")
     ELSE Ok(PutOnEach(st, CounterHosts(st, e, id), e.counter_type, n))

\* The kinds of counters of the boards, in string order.
CounterKinds == <<"charge", "loyalty", "m1m1", "p1p1">>

\* _proliferate: one more of each kind of counter on each permanent you control.
KindsOn(p) == Those(CounterKinds, {kind \in ToSet(CounterKinds) : Counters(p, kind) > 0})
Proliferate(st) ==
  FoldLeft(LAMBDA s, id : PutEachKind(s, id, KindsOn(st.permanents[id])), st, InStringOrder(Yours(st)))

\* Mutant: the counters are removed without a look at how many there are.
RemoveCounter_Unchecked(st, e, c) ==
  LET p == st.permanents[c.source]
  IN Ok([st EXCEPT !.permanents[c.source] =
           WithCounters(p, e.counter_type, Counters(p, e.counter_type) - e.quantity)])

RemoveCounter(st, e, c) ==
  LET p == st.permanents[c.source]
      have == Counters(p, e.counter_type)
  IN IF have < e.quantity THEN Err(st, "resource_deficit")
     ELSE Ok([st EXCEPT !.permanents[c.source] = WithCounters(p, e.counter_type, have - e.quantity)])

(* Grants and zone changes *)
GrantLifelink(st, c) ==
  Illegal(st, Exists(st, c.target) /\ c.target # c.source /\ st.permanents[c.target].is_creature,
          Ok([st EXCEPT !.permanents[c.target].lifelink = TRUE]))

GrantTapBounce(st, c) ==
  Illegal(st, /\ Exists(st, c.target)
              /\ st.permanents[c.target].is_creature /\ OnBattlefield(st.permanents[c.target]),
          Ok([st EXCEPT !.permanents[c.target].tap_bounce_nonland = TRUE]))

\* The target when it is a legal card of the graveyard, else the first legal one.
MatchesGraveyardSelector(p, selector) ==
  LET is(word) == word \in CardTypes(p)
  IN CASE selector = "any" -> TRUE
       [] selector = "creature" -> p.is_creature \/ is("creature")
       [] selector = "artifact" -> p.is_artifact \/ is("artifact")
       [] selector = "artifact_mv_leq_1" ->
            /\ p.is_artifact \/ is("artifact")
            /\ HasSemantics(p) => Cards[p.oracle].mana_value <= 1
       [] selector = "instant_or_sorcery" -> is("instant") \/ is("sorcery")
ReturnOneOf(st, candidates, target) ==
  LET chosen == IF target \in candidates THEN target ELSE First(candidates)
  IN IF candidates = {} THEN Ok(st)
     ELSE Ok(Bump([st EXCEPT !.permanents[chosen] = [@ EXCEPT !.zone = "hand", !.tapped = FALSE]],
                  "return_from_gy", 1))
ReturnFromGraveyardToHand(st, e, c) ==
  ReturnOneOf(st, {id \in Ids(st) : /\ st.permanents[id].zone = "graveyard"
                                    /\ st.permanents[id].controller = "you"
                                    /\ MatchesGraveyardSelector(st.permanents[id], e.selector)},
              c.target)

ReturnToBattlefield(st, id) ==
  OnEtb(Bump([st EXCEPT !.permanents[id] =
                [@ EXCEPT !.zone = "battlefield", !.tapped = FALSE, !.summoning_sick = TRUE,
                          !.damage_marked = 0]], "return_to_battlefield", 1), id)

\* Mutant: what is blinked comes back ready to tap.
Blinked_Ready(p, e) ==
  [p EXCEPT !.damage_marked = 0, !.tapped = e.return_tapped, !.was_cast = FALSE]

\* _apply_blink: exiled and returned at once; counters stay on the permanent.
Blinked(p, e) ==
  [p EXCEPT !.damage_marked = 0, !.tapped = e.return_tapped,
            !.summoning_sick = p.is_creature, !.was_cast = FALSE]
Blink(st, e, c) ==
  LET id == IF e.target = "self" THEN c.source ELSE c.target
      p == st.permanents[id]
      legal == /\ Exists(st, id) /\ Controlled(p)
               /\ e.target = "another_creature_you_control" => id # c.source /\ p.is_creature
               /\ e.target = "target_creature_you_control" => p.is_creature
  IN Illegal(st, legal,
             Ok(OnEtb(Bump(Bump([st EXCEPT !.permanents[id] = Blinked(p, e)], "exile", 1),
                           "return_to_battlefield", 1), id)))

CopyPendingTrigger(st) ==
  IF st.pending_triggers = <<>> THEN Err(st, "illegal_action")
  ELSE Ok(Bump([st EXCEPT !.pending_triggers = Append(@, Head(@))], "ability_copy", 1))

BecomeCopy(st, e, c) ==
  LET t == st.permanents[c.target]
      legal == /\ Exists(st, c.target) /\ OnBattlefield(t)
               /\ e.target = "target_creature" => t.is_creature
               /\ e.target = "controlled_creature" => t.is_creature /\ t.controller = "you"
               /\ c.target # c.source
  IN Illegal(st, legal,
             Ok(Bump([st EXCEPT !.permanents[c.source] =
                        [@ EXCEPT !.oracle = t.oracle, !.words = t.words, !.pt = t.pt,
                                  !.is_creature = t.is_creature, !.is_artifact = t.is_artifact,
                                  !.colors = t.colors]], "become_copy", 1)))

\* _bounce_to_zone: the targeted moves of MoveToZoneEffect.
MayBounce(st, e, c) ==
  LET p == st.permanents[c.target]
      yours == {"controlled_creature", "controlled_creature_green_or_white",
                "controlled_permanent", "controlled_nonland", "other_controlled_creature",
                "other_controlled_sharing_type"}
      creatures == {"controlled_creature", "controlled_creature_green_or_white",
                    "other_controlled_creature"}
  IN /\ Exists(st, c.target) /\ OnBattlefield(p)
     /\ e.target \in yours => p.controller = "you"
     /\ e.target \in creatures => p.is_creature
     /\ e.target = "other_controlled_creature" => c.target # c.source
     /\ e.target = "other_controlled_sharing_type" =>
          /\ Exists(st, c.subject) /\ c.target # c.subject
          /\ TypeSet(p) \cap TypeSet(st.permanents[c.subject]) # {}
     /\ e.target = "controlled_creature_green_or_white" => ColorsOf(p) \cap {"G", "W"} # {}
     /\ e.target \in {"controlled_nonland", "target_nonland"} => ~IsLand(st, p)

\* What a card forgets on its way to the hand.
ToZone(p, zone) ==
  IF zone = "hand"
  THEN [p EXCEPT !.zone = zone, !.tapped = FALSE, !.was_cast = FALSE, !.summoning_sick = FALSE]
  ELSE [p EXCEPT !.zone = zone, !.tapped = FALSE]

MoveToZone(st, e, c) ==
  LET subject == IF c.subject # NoId THEN c.subject ELSE c.target
  IN CASE e.target = "self" -> Ok([st EXCEPT !.permanents[c.source].zone = e.zone])
       [] e.target = "trigger_subject" ->
            Illegal(st, Exists(st, subject),
                    Ok(Bump([st EXCEPT !.permanents[subject].zone = e.zone,
                                       !.permanents[subject].tapped = FALSE],
                            "return_from_gy", 1)))
       [] OTHER -> Illegal(st, MayBounce(st, e, c),
                           Ok([st EXCEPT !.permanents[c.target] = ToZone(@, e.zone)]))

(* Damage, life, cards *)
Damage(st, id, n) ==
  QueueTriggers([st EXCEPT !.permanents[id].damage_marked = @ + n], "dealt_damage", id, Some(n))

\* One side of a fight: the damage of a power that is positive.
Hit(st, id, n) == IF n > 0 THEN Bump(Damage(st, id, n), "damage", n) ELSE st
Fight(st, e, c) ==
  LET other == st.permanents[c.target]
      legal == /\ Exists(st, c.target) /\ OnBattlefield(other) /\ other.is_creature
               /\ e.target = "another_creature" => c.target # c.source
      power(id) == PowerOf(st, st.permanents[id])
  IN Illegal(st, legal,
             Ok(Bump(Hit(Hit(st, c.target, power(c.source)), c.source, power(c.target)),
                     "fight", 1)))

DamageQuantity(st, e, c) ==
  CASE e.from = "amount" -> e.amount
    [] e.from = "source_power" -> PowerOf(st, st.permanents[c.source])
    [] e.from = "subject_power" -> PowerOf(st, st.permanents[c.subject])
    [] e.from = "sacrificed_power" -> st.last_sacrificed_power
    [] e.from = "devotion" -> Devotion(st, The(e.color))
    [] e.from = "trigger" -> The(c.amount)

\* Damage to the opponent; "opponent" is also a target id of any_target.
HitsOpponent(e, c) ==
  e.target = "opponent" \/ (e.target = "any_target" /\ c.target \in {NoId, "opponent"})
\* Where damage goes: both players, the opponent, or a permanent.
Dealt(st, e, c, victim, n) ==
  CASE e.target = "each_player" -> LoseOpponentLife([st EXCEPT !.life_you = @ - n], c.source, n)
    [] HitsOpponent(e, c) -> QueueTriggers(LoseOpponentLife(st, c.source, n),
                                           "damage_opponent", c.source, Some(n))
    [] OTHER -> Damage(st, victim, n)
\* The damage is counted, and lifelink of the source follows.
Lifelinked(st, source, n) ==
  IF st.permanents[source].lifelink /\ n > 0 THEN GainYourLife(st, source, n) ELSE st
DealAmount(st, e, c, victim, n) ==
  Lifelinked(Bump(Dealt(st, e, c, victim, n), "damage", n), c.source, n)
DealDamage(st, e, c) ==
  LET victim == IF e.target = "trigger_subject" THEN c.subject ELSE c.target
      legal == Exists(st, victim) /\ OnBattlefield(st.permanents[victim])
               /\ st.permanents[victim].is_creature
  IN IF e.from = "subject_power" /\ ~Exists(st, c.subject) THEN Err(st, "illegal_target")
     ELSE IF e.from = "trigger" /\ PositiveAmount(c) = {} THEN Err(st, "illegal_action")
     ELSE Illegal(st, e.target = "each_player" \/ HitsOpponent(e, c) \/ legal,
                  Ok(DealAmount(st, e, c, victim, DamageQuantity(st, e, c))))

LifeGained(st, e, c) ==
  CASE e.from = "spells_cast" -> st.event_counters["cast"]
    [] e.from = "trigger" -> OrElse(c.amount, e.amount)
    [] e.from = "amount" -> e.amount
GainLife(st, e, c) ==
  LET n == LifeGained(st, e, c)
  IN IF n <= 0 THEN Err(st, "illegal_action") ELSE Ok(GainYourLife(st, c.source, n))

DrawQuantity(st, e, c) ==
  CASE e.from = "artifacts" -> Cardinality({id \in Yours(st) : IsArtifact(st.permanents[id])})
    [] e.from = "trigger" -> OrElse(c.amount, e.amount)
    [] e.from = "amount" -> e.amount
DrawOne(st, source) ==
  QueueTriggers(Bump([st EXCEPT !.hand_you = @ + 1], "draw", 1), "draw", source, Some(1))
DrawMany(st, source, n) == FoldLeft(LAMBDA s, i : DrawOne(s, source), st, [i \in 1..n |-> i])
Draw(st, e, c) ==
  LET draws == NonNegative(DrawQuantity(st, e, c)) * SupportedMultiplier(st, "replacement_double_draw")
  IN Ok(DrawMany(st, c.source, draws))

\* ceil(life / 2) or the devotion, which apply_effects also hands to the next effects.
LifeOf(st, who) == IF who = "opponent" THEN st.life_opponent ELSE st.life_you
ComputedLoss(st, e) ==
  CASE e.from = "half_life" -> (LifeOf(st, e.who) + 1) \div 2
    [] e.from = "devotion" -> Devotion(st, The(e.color))

LifeLost(st, e, c) ==
  CASE e.from \in {"half_life", "devotion"} -> ComputedLoss(st, e)
    [] e.from = "trigger" -> OrElse(c.amount, e.amount)
    [] e.from = "amount" -> e.amount
LoseLife(st, e, c) ==
  LET n == LifeLost(st, e, c)
  IN IF n <= 0 THEN Err(st, "illegal_action")
     ELSE Ok(IF e.who = "opponent" THEN LoseOpponentLife(st, c.source, n)
             ELSE Bump([st EXCEPT !.life_you = @ - n], "life_loss", n))

\* The library stops at 0; the graveyard, the event and the triggers count every card asked for.
MillQuantity(st, e, c) ==
  LET library == IF e.who = "opponent" THEN st.library_opponent ELSE st.library_you
  IN CASE e.from = "amount" -> e.amount
       [] e.from = "sacrificed_power" -> st.last_sacrificed_power
       [] e.from = "opponent_graveyard" -> st.graveyard_opponent
       [] e.from = "trigger" -> OrElse(c.amount, e.amount)
       [] e.from = "half_up" -> (library + 1) \div 2
       [] e.from = "half_down" -> library \div 2
\* The same entries once per card.
MillOpponent(st, source, m) ==
  LET batch == TriggersFor(st, "card_to_opponent_graveyard", source, None)
  IN [Bump(st, "mill", m) EXCEPT
        !.library_opponent = NonNegative(@ - m), !.graveyard_opponent = @ + m,
        !.pending_triggers = @ \o [i \in 1..m * Len(batch) |-> batch[((i - 1) % Len(batch)) + 1]]]
Mill(st, e, c) ==
  LET n == MillQuantity(st, e, c)
  IN IF n <= 0 THEN Ok(st)
     ELSE IF e.who = "opponent"
     THEN Ok(MillOpponent(st, c.source, n * SupportedMultiplier(st, "replacement_double_mill")))
     ELSE Ok(Bump([st EXCEPT !.library_you = NonNegative(@ - n)], "mill", n))

GetEnergy(st, e) ==
  LET n == IF e.from = "controlled_creatures" THEN Cardinality(YourCreatures(st)) ELSE e.amount
  IN Ok(IF n <= 0 THEN st ELSE Bump([st EXCEPT !.energy_you = @ + n], "energy", n))

-----------------------------------------------------------------------------
(* _apply_one and apply_effects, for the effects that do not run another    *)
(* card's effects; the three that do follow.                                *)
ApplyBasic(st, e, c) ==
  CASE e.kind = "add_mana" -> AddMana(st, e, c)
    [] e.kind = "untap" -> ApplyUntap(st, e, c)
    [] e.kind = "tap" -> ApplyTap(st, e, c)
    [] e.kind = "create_token" -> CreateToken(st, e, c)
    [] e.kind = "add_counter" -> AddCounter(st, e, c)
    [] e.kind = "proliferate" -> Ok(Proliferate(st))
    [] e.kind = "grant_lifelink" -> GrantLifelink(st, c)
    [] e.kind = "grant_tap_bounce_nonland" -> GrantTapBounce(st, c)
    [] e.kind = "remove_counter" -> RemoveCounter(st, e, c)
    [] e.kind = "return_gy_to_hand" -> ReturnFromGraveyardToHand(st, e, c)
    [] e.kind = "return_to_battlefield" -> Ok(ReturnToBattlefield(st, c.source))
    [] e.kind = "blink" -> Blink(st, e, c)
    [] e.kind = "copy_pending_trigger" -> CopyPendingTrigger(st)
    [] e.kind = "fight" -> Fight(st, e, c)
    [] e.kind = "additional_combat" -> Ok(Bump(st, "extra_combat", 1))
    [] e.kind = "get_energy" -> GetEnergy(st, e)
    [] e.kind = "extra_turn" -> Ok(Bump(st, "extra_turn", 1))
    [] e.kind = "become_copy" -> BecomeCopy(st, e, c)
    [] e.kind = "deal_damage" -> DealDamage(st, e, c)
    [] e.kind = "gain_life" -> GainLife(st, e, c)
    [] e.kind = "draw" -> Draw(st, e, c)
    [] e.kind = "lose_life" -> LoseLife(st, e, c)
    [] e.kind = "mill" -> Mill(st, e, c)
    [] e.kind = "move_to_zone" -> MoveToZone(st, e, c)

\* A half-life or devotion loss replaces the amount for itself and for the effects after it.
AmountFor(r, e) ==
  IF e.kind = "lose_life" /\ e.from \in {"half_life", "devotion"}
  THEN Some(ComputedLoss(r.st, e)) ELSE r.amount
Carrying(r, amount) == [st |-> r.st, err |-> r.err, amount |-> amount]
Result(r) == [st |-> r.st, err |-> r.err]

\* The effects of a spell, in order up to the first error.  The body of a spell holds basic
\* effects: a spell that copies spells is not run by another one here.
RunBasic(r, effects, c) ==
  FoldLeft(LAMBDA acc, e :
             IF acc.err # "ok" THEN acc
             ELSE Carrying(ApplyBasic(acc.st, e, [c EXCEPT !.amount = AmountFor(acc, e)]),
                           AmountFor(acc, e)),
           Carrying(r, c.amount), effects)

\* An instant or sorcery body: the cost-free activated abilities that are not mana abilities.
IsSpellBody(ab) == ab.kind = "activated" /\ ~ab.is_mana_ability /\ ab.costs = <<>>

\* _apply_spell_body without the bookkeeping of its two callers.
RunBodies(st, abilities, c) ==
  FoldLeft(LAMBDA r, ab : IF r.err # "ok" \/ ~IsSpellBody(ab) THEN r ELSE RunBasic(r, ab.effects, c),
           Ok(st), abilities)
ApplySpellBody(st, spell, source, target) ==
  LET c == [source |-> source, target |-> target, subject |-> NoId, amount |-> None]
  IN CASE spell \notin DOMAIN Cards -> Err(st, "illegal_action")
       [] OTHER -> IF ~\E ab \in ToSet(Cards[spell].abilities) : IsSpellBody(ab)
                   THEN Err(st, "unsupported_semantics")
                   ELSE RunBodies(st, Cards[spell].abilities, c)

\* Isochron: the lowest instant of the hand with a small mana value goes to exile.
ImprintInstant(st, e, c) ==
  LET legal == {id \in Ids(st) \ {c.source} : LET p == st.permanents[id] IN
                  /\ p.zone = "hand" /\ p.controller = "you" /\ HasSemantics(p)
                  /\ "instant" \in CardTypes(p) /\ Cards[p.oracle].mana_value <= e.max_mana_value}
      chosen == First(legal)
  IN IF legal = {} THEN Err(st, "resource_deficit")
     ELSE Ok(Bump([st EXCEPT !.permanents[chosen].zone = "exile",
                             !.permanents[c.source].imprinted = Some(st.permanents[chosen].oracle)],
                  "imprint", 1))

\* After the body of a cast copy: it counts as a cast, and the CAST trigger's subject is the
\* source.  After the body of a copied spell: one more spell was copied.
CountedAsCast(st, spell, source) ==
  QueueTriggers(Bump([st EXCEPT !.last_cast_spell = spell], "cast", 1), "cast", source, None)
SpellDone(r, e, spell, source) ==
  IF r.err # "ok" THEN Result(r)
  ELSE Ok(IF e.kind = "cast_imprinted_spell" THEN CountedAsCast(r.st, spell, source)
          ELSE Bump(r.st, "spell_copy", 1))

\* Casting the imprinted spell (without a target) and copying the last one cast.
SpellFor(st, e, c) ==
  IF e.kind = "cast_imprinted_spell" THEN st.permanents[c.source].imprinted ELSE st.last_cast_spell
RunSpell(st, e, c, spell) ==
  IF spell = None
  THEN Err(st, IF e.kind = "cast_imprinted_spell" THEN "resource_deficit" ELSE "illegal_action")
  ELSE SpellDone(ApplySpellBody(st, The(spell), c.source,
                                IF e.kind = "cast_imprinted_spell" THEN NoId ELSE c.target),
                 e, spell, c.source)

ApplyOne(st, e, c) ==
  CASE e.kind = "imprint_instant_from_hand" -> ImprintInstant(st, e, c)
    [] e.kind \in {"cast_imprinted_spell", "copy_last_cast_spell"} ->
         RunSpell(st, e, c, SpellFor(st, e, c))
    [] OTHER -> ApplyBasic(st, e, c)

ApplyEffects(st, effects, c) ==
  Result(FoldLeft(LAMBDA acc, e :
                     IF acc.err # "ok" THEN acc
                     ELSE Carrying(ApplyOne(acc.st, e, [c EXCEPT !.amount = AmountFor(acc, e)]),
                                   AmountFor(acc, e)),
                   Carrying(Ok(st), c.amount), effects))

=============================================================================
