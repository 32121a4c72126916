------------------------------- MODULE Witnesses -------------------------------
(***************************************************************************)
(* What the search writes down for a lap it tries (build_witness of        *)
(* search/explorer.py) and what eval/classify.py says of it: which of the  *)
(* two cards take part in the lap, and which of the things put beside them *)
(* are disclosed as prerequisites.                                         *)
(***************************************************************************)
EXTENDS Moves

-----------------------------------------------------------------------------
(* Participation *)
\* The printed abilities that the lap activates, by permanents of the initial state.
ActivatedInLap(spec, lap) ==
  UNION {{ab \in ToSet(AbilitiesOf(spec.permanents[s.actor])) : ab.ability_id = s.ability_id} :
         s \in {x \in ToSet(lap) : x.op = "activate" /\ x.actor \in DOMAIN spec.permanents}}
WithCosts(abilities) == {ab \in abilities : "costs" \in DOMAIN ab}
LoopPaysMana(abilities) ==
  \E cost \in CostsOf(WithCosts(abilities)) : cost.kind = "mana" /\ Total(cost.amount) > 0
LoopPaysM1M1Counter(abilities) ==
  \E cost \in CostsOf(WithCosts(abilities)) :
    cost.kind = "add_counter" /\ cost.counter_type = "m1m1"
LoopTapsForMana(abilities) ==
  \E ab \in WithCosts(abilities) :
    ab.is_mana_ability \/ (HasCost(ab, "tap") /\ HasEffect(ab, "add_mana"))

\* The kinds of static abilities that take part without acting.
SilentParts(spec, lap) ==
  LET abilities == ActivatedInLap(spec, lap)
      ops == {s.op : s \in ToSet(lap)}
      part(kind, takesPart) == IF takesPart THEN {kind} ELSE {}
  IN part("continuous_cost_reduction", LoopPaysMana(abilities))
     \cup part("free_cast_creatures_by_mv", "cast_from_hand" \in ops)
     \cup part("instant_grant_tap_bounce", "activate_granted_tap_bounce" \in ops)
     \cup part("replacement_reduce_m1m1", LoopPaysM1M1Counter(abilities))
     \cup part("replacement_multiply_tap_mana", LoopTapsForMana(abilities))

\* Mutant: being searched together is enough.
Used_Pair(pair, spec, lap) == pair

\* The cards of the pair that act in the lap, or take part in it as a static ability.
Used(pair, spec, lap) ==
  {o \in pair :
     \/ \E s \in ToSet(lap) : /\ s.actor \in DOMAIN spec.permanents
                              /\ spec.permanents[s.actor].oracle = o
                              /\ ~spec.permanents[s.actor].is_token \/ s.op = "cast_from_hand"
     \/ \E ab \in ToSet(Cards[o].abilities) : ab.kind \in SilentParts(spec, lap)}
StrictTwoCard(pair, spec, lap) == Cardinality(Used(pair, spec, lap)) = 2

-----------------------------------------------------------------------------
(* Disclosure *)
DisclosedOracles ==
  {"seed:creature", "seed:elf", "seed:defender", "seed:hand-artifact", "seed:metalcraft",
   "seed:ferocious", "seed:tap-pair", "seed:mana-dork", "seed:bounce", "seed:island",
   "seed:plains"}
DisclosedSeeds ==
  {"seed_gain_life", "seed_lose_life", "seed_create_token", "seed_grant_lifelink",
   "seed_grant_tap_bounce"}

\* Mutant: only what a seed does is disclosed, not what the setup pays for.
DisclosedSteps_SeedsOnly(pair, setup) == {s \in ToSet(setup) : s.op \in DisclosedSeeds}

\* The setup steps a witness discloses: the seeds, and the one paid grant of lifelink.
DisclosedSteps(pair, setup) ==
  {s \in ToSet(setup) :
     \/ s.op \in DisclosedSeeds
     \/ s.op = "activate" /\ \E o \in pair : \E ab \in GrantLifelinkAbility(Cards[o]) :
                               ab.ability_id = s.ability_id}
\* The permanents a witness discloses: tokens, hosts and generic cards by a label of their own,
\* and the host of the tap-bounce by the label of its seed.
DisclosedPermanents(spec, setup) ==
  {id \in DOMAIN spec.permanents :
     \/ spec.permanents[id].is_token \/ id = "aura-host"
     \/ spec.permanents[id].oracle \in DisclosedOracles}
  \cup {s.target : s \in {x \in ToSet(setup) : x.op = "seed_grant_tap_bounce"}}

-----------------------------------------------------------------------------
\* build_witness, with what the verifier reads of it, for the lap that leads from the origin to
\* a node; no seed is unsupported.
BuildWitness(pair, origin, node) ==
  [initial_state |-> origin.spec, setup_actions |-> origin.setup, loop_actions |-> node.lap,
   card_semantics |-> pair, essential_cards |-> pair,
   essential_card_count |-> Greatest({1, Cardinality(Used(pair, origin.spec, node.lap))}),
   functional_external_requirements |-> FALSE, deterministic |-> TRUE,
   semantic_coverage |-> "complete", relevant_state |-> DeriveRelevantState(origin.spec, origin.st, node.lap),
   expected_outputs |-> DeriveOutputs(origin.st, node.st), expected_net_state |-> None,
   expected_claim_consequence |-> None]

\* Verifier.verify runs the witness from its initial state: the setup, then one lap.
IsLoopOf(w, runs) == IsLoop(w, runs[2], runs[3])
Verifies(w) ==
  IsLoopOf(w, FoldLeft(LAMBDA runs, steps : Append(runs, RunSequence(Last(runs).st, steps)),
                       <<Ok(FromSpec(w.initial_state))>>, <<w.setup_actions, w.loop_actions>>))

\* May the lap end here?  With nothing pending, or with what was pending at its start; the
\* subjects of the triggers may differ.
CloseKey(st) ==
  [i \in DOMAIN st.pending_triggers |->
     LET tr == st.pending_triggers[i] IN <<tr.ability_id, tr.source_id, tr.amount>>]
CanClose(start, st) ==
  \/ st.pending_triggers = <<>>
  \/ start.pending_triggers # <<>> /\ CloseKey(st) = CloseKey(start)

\* The test explore_pair makes of each state it arrives at.
Acceptable(pair, origin, node) ==
  LET cards == {pair[1], pair[2]}
  IN /\ node.lap # <<>> /\ CanClose(origin.st, node.st)
     /\ DeriveOutputs(origin.st, node.st) # {}
     /\ StrictTwoCard(cards, origin.spec, node.lap)
     /\ Verifies(BuildWitness(cards, origin, node))

=============================================================================
