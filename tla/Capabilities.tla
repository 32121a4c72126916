----------------------------- MODULE Capabilities -----------------------------
(***************************************************************************)
(* Which pairs of cards are searched (interactions/).  A card is reduced   *)
(* to the facets it produces, requires, triggers on and modifies           *)
(* (capabilities.py); two cards are searched together when a facet of one  *)
(* may feed a facet of the other.  index.py finds the pairs through an     *)
(* inverted index: it first collects the complement of a card, then asks   *)
(* for the reasons of each pair it has collected.                          *)
(***************************************************************************)
EXTENDS IR, FiniteSets, SequencesExt, TLC

-----------------------------------------------------------------------------
(* Facets of a card *)
ModifiesBy ==
  ("continuous_cost_reduction" :> "reduce_activation_cost")
  @@ ("free_cast_creatures_by_mv" :> "free_cast_creature")
  @@ ("static_copy_activated" :> "copy_activated") @@ ("replacement_reduce_m1m1" :> "m1m1_put")
  @@ ("replacement_amplify_p1p1" :> "amplify_p1p1")
  @@ ("replacement_double_counters" :> "double_counters")
  @@ ("replacement_double_tokens" :> "double_tokens")
  @@ ("replacement_multiply_tap_mana" :> "multiply_tap_mana")

ProducedBy ==
  ("add_mana" :> {"mana"}) @@ ("untap" :> {"untap"})
  @@ ("create_token" :> {"token", "etb", "create_token"}) @@ ("add_counter" :> {"add_counter"})
  @@ ("proliferate" :> {"add_counter", "proliferate"}) @@ ("deal_damage" :> {"damage"})
  @@ ("gain_life" :> {"life_gain"}) @@ ("lose_life" :> {"life_loss"}) @@ ("mill" :> {"mill"})
  @@ ("draw" :> {"draw"}) @@ ("return_to_battlefield" :> {"etb"})
  @@ ("blink" :> {"blink", "etb"}) @@ ("become_copy" :> {"enter_as_copy", "etb"})
ManaFacet ==
  ("source_p1p1" :> "mana_from_p1p1") @@ ("source_power" :> "mana_from_power")
  @@ ("controlled_creatures" :> "mana_scale_creature") @@ ("controlled_elf" :> "mana_scale_elf")
  @@ ("battlefield_elf" :> "mana_scale_elf") @@ ("controlled_defenders" :> "mana_scale_defender")
  @@ ("hand_artifacts" :> "mana_scale_hand_artifact")

\* _effects, for one effect.
Produced(e) ==
  (IF e.kind \in DOMAIN ProducedBy THEN ProducedBy[e.kind] ELSE {})
  \cup (IF e.kind = "add_mana" /\ e.from \in DOMAIN ManaFacet THEN {ManaFacet[e.from]} ELSE {})
  \cup (IF e.kind = "move_to_zone" /\ e.zone = "hand" THEN {"bounce_to_hand"} ELSE {})

\* What a cost requires and produces.  Facets that name the selector of a sacrifice or of a
\* bounce are left out: nothing asks for them.
Required(cost) ==
  CASE cost.kind = "tap" -> {"tap"}
    [] cost.kind \in {"mana", "hybrid_mana"} -> {"mana"}
    [] cost.kind = "tap_creature" ->
         {IF cost.quantity >= 2 THEN "tap_creature_pair" ELSE "tap_creature"}
    [] cost.kind = "sacrifice" ->
         {CASE cost.selector = "self" -> "sac_self"
            [] cost.selector = "token_creature_controlled" -> "sac_token"
            [] OTHER -> "sac_creature"}
    [] cost.kind = "add_counter" /\ cost.counter_type = "m1m1" -> {"m1m1_put"}
    [] cost.kind = "remove_counter_cost" /\ cost.counter_type = "m1m1" -> {"remove_counter"}
    [] cost.kind = "untap_symbol" /\ cost.source_self -> {"tap"}
    [] OTHER -> {}
ProducedByCost(cost) ==
  CASE cost.kind = "bounce_controlled" -> {"bounce_to_hand"}
    [] cost.kind = "add_counter" /\ cost.counter_type = "m1m1" -> {"add_counter"}
    [] cost.kind = "untap_symbol" -> {"untap"}
    [] OTHER -> {}

ActivatedOf(card) == {ab \in ToSet(card.abilities) : ab.kind = "activated"}
TriggeredOf(card) == {ab \in ToSet(card.abilities) : ab.kind = "triggered"}
CostsOf(abilities) == UNION {ToSet(ab.costs) : ab \in abilities}
EffectsOf(abilities) == UNION {ToSet(ab.effects) : ab \in abilities}

Returns(ab) == \E e \in ToSet(ab.effects) : e.kind = "return_to_battlefield"

\* extract_capabilities: what is not supported has no facet.
ExtractCapabilities(card) ==
  LET live == {ab \in ToSet(card.abilities) : ab.supported}
      activated == {ab \in live : ab.kind = "activated"}
      triggered == {ab \in live : ab.kind = "triggered"}
      kinds == {ab.kind : ab \in live}
      costs == CostsOf(activated)
  IN [produces |->
        UNION {Produced(e) : e \in EffectsOf(activated \cup triggered)}
        \cup UNION {ProducedByCost(cost) : cost \in costs}
        \cup {"gy_return" : ab \in {x \in activated : Returns(x)}}
        \cup {"dies_return" : ab \in {x \in triggered : x.event = "dies" /\ Returns(x)}}
        \cup {"grant_tap_bounce" : k \in kinds \cap {"instant_grant_tap_bounce"}},
      requires |->
        UNION {Required(cost) : cost \in costs}
        \cup {"metalcraft" : ab \in {x \in activated : x.requires_metalcraft}}
        \cup {"ferocious_power" : ab \in {x \in activated : x.requires_controlled_power_at_least # None}}
        \cup {"remove_counter" : e \in {x \in EffectsOf(activated) : x.kind = "remove_counter"}},
      triggers_on |-> {ab.event : ab \in triggered},
      modifies |-> {ModifiesBy[k] : k \in kinds \cap DOMAIN ModifiesBy}]

-----------------------------------------------------------------------------
(* Why two cards might close a loop *)
Meets(S, T) == S \cap T # {}
Sacrifices == {"sac_creature", "sac_self", "sac_token"}
Recursions == {"gy_return", "dies_return"}

\* join_reasons: left uses right.
Seams(left, right) ==
  [etb_trigger |->
     Meets(left.produces, {"etb", "token"}) /\ "enter_battlefield" \in right.triggers_on,
   tap_untap |-> "tap" \in left.requires /\ "untap" \in right.produces,
   sac_recursion |->
     /\ Meets(left.requires, Sacrifices)
     /\ Meets(right.produces, Recursions) \/ "dies" \in right.triggers_on,
   counter_reload |-> "remove_counter" \in left.requires /\ "add_counter" \in right.produces,
   token_create_trigger |-> "create_token" \in left.produces /\ "create_token" \in right.triggers_on,
   counter_added_trigger |-> "add_counter" \in left.produces /\ "counter_added" \in right.triggers_on,
   cost_reduce |-> "mana" \in left.requires /\ "reduce_activation_cost" \in right.modifies,
   m1m1_replacement |-> "m1m1_put" \in left.requires /\ "m1m1_put" \in right.modifies,
   mana_pay |-> "mana" \in left.requires /\ "mana" \in right.produces,
   dies_payoff |->
     "dies" \in right.triggers_on /\ Meets(left.requires, {"sac_creature", "sac_self"}),
   life_to_drain |-> "life_gain" \in left.produces /\ "gain_life" \in right.triggers_on,
   loss_to_gain |-> "life_loss" \in left.produces /\ "opponent_lose_life" \in right.triggers_on,
   mill_to_graveyard |->
     "mill" \in left.produces /\ "card_to_opponent_graveyard" \in right.triggers_on,
   bounce_free_cast |->
     "bounce_to_hand" \in left.produces /\ "free_cast_creature" \in right.modifies,
   etb_free_cast |->
     "enter_battlefield" \in left.triggers_on /\ "free_cast_creature" \in right.modifies,
   bounce_untap |-> "bounce_to_hand" \in left.produces /\ "untap" \in right.produces,
   grant_bounce_etb |->
     "grant_tap_bounce" \in left.produces /\ "enter_battlefield" \in right.triggers_on,
   grant_bounce_untap |-> "grant_tap_bounce" \in right.produces /\ "untap" \in left.produces,
   copy_activated_untap |-> "copy_activated" \in left.modifies /\ "untap" \in right.produces,
   multiply_tap_mana |-> "multiply_tap_mana" \in left.modifies /\ "mana" \in right.produces,
   untap_trigger |-> "untap" \in left.produces /\ "untap" \in right.triggers_on,
   cast_mana_rock |->
     "cast" \in left.triggers_on /\ "mana" \in right.produces /\ "tap" \in right.requires,
   bounce_mana_rock |->
     "bounce_to_hand" \in left.produces /\ "mana" \in right.produces /\ "tap" \in right.requires,
   blink_copy |-> "blink" \in left.produces /\ "enter_as_copy" \in right.produces]
JoinReasons(left, right) == {reason \in DOMAIN Seams(left, right) : Seams(left, right)[reason]}

-----------------------------------------------------------------------------
(* The inverted index *)
\* Mutant: the index has no lookups for life that is gained or lost.
Complements_NoLife(cap, other) ==
  JoinReasons(cap, other) \ {"life_to_drain", "loss_to_gain"} # {}

\* _complement_ids, for one other card: is it in a bucket the index looks up for cap?  The
\* clauses are those of the code, in its order.
Complements(cap, other) ==
  \/ Meets(cap.produces, {"etb", "token"}) /\ "enter_battlefield" \in other.triggers_on
  \/ "enter_battlefield" \in cap.triggers_on /\ Meets(other.produces, {"etb", "token"})
  \/ "tap" \in cap.requires /\ "untap" \in other.produces
  \/ "untap" \in cap.produces /\ "tap" \in other.requires
  \/ /\ Meets(cap.requires, Sacrifices)
     /\ Meets(other.produces, Recursions) \/ "dies" \in other.triggers_on
  \/ /\ Meets(cap.produces, Recursions) \/ "dies" \in cap.triggers_on
     /\ Meets(other.requires, Sacrifices)
  \/ "remove_counter" \in cap.requires /\ "add_counter" \in other.produces
  \/ /\ "add_counter" \in cap.produces
     /\ "remove_counter" \in other.requires \/ "counter_added" \in other.triggers_on
  \/ Meets(cap.produces, {"token", "create_token"}) /\ "create_token" \in other.triggers_on
  \/ "create_token" \in cap.triggers_on /\ Meets(other.produces, {"token", "create_token"})
  \/ "counter_added" \in cap.triggers_on /\ "add_counter" \in other.produces
  \/ /\ "mana" \in cap.requires
     /\ "reduce_activation_cost" \in other.modifies \/ "mana" \in other.produces
  \/ "reduce_activation_cost" \in cap.modifies /\ "mana" \in other.requires
  \/ "m1m1_put" \in cap.requires /\ "m1m1_put" \in other.modifies
  \/ "m1m1_put" \in cap.modifies /\ "m1m1_put" \in other.requires
  \/ "mana" \in cap.produces /\ "mana" \in other.requires
  \/ "life_gain" \in cap.produces /\ "gain_life" \in other.triggers_on
  \/ "gain_life" \in cap.triggers_on /\ "life_gain" \in other.produces
  \/ "life_loss" \in cap.produces /\ "opponent_lose_life" \in other.triggers_on
  \/ "opponent_lose_life" \in cap.triggers_on /\ "life_loss" \in other.produces
  \/ "mill" \in cap.produces /\ "card_to_opponent_graveyard" \in other.triggers_on
  \/ "card_to_opponent_graveyard" \in cap.triggers_on /\ "mill" \in other.produces
  \/ /\ "bounce_to_hand" \in cap.produces
     /\ "free_cast_creature" \in other.modifies \/ Meets(other.produces, {"untap", "mana"})
  \/ /\ "free_cast_creature" \in cap.modifies
     /\ "bounce_to_hand" \in other.produces \/ "enter_battlefield" \in other.triggers_on
  \/ /\ "enter_battlefield" \in cap.triggers_on
     /\ "free_cast_creature" \in other.modifies \/ "grant_tap_bounce" \in other.produces
  \/ /\ "grant_tap_bounce" \in cap.produces
     /\ "enter_battlefield" \in other.triggers_on \/ "untap" \in other.produces
  \/ /\ "untap" \in cap.produces
     /\ \/ Meets(other.produces, {"bounce_to_hand", "grant_tap_bounce"})
        \/ "untap" \in other.triggers_on \/ "copy_activated" \in other.modifies
  \/ "copy_activated" \in cap.modifies /\ "untap" \in other.produces
  \/ "multiply_tap_mana" \in cap.modifies /\ "mana" \in other.produces
  \/ /\ "mana" \in cap.produces
     /\ \/ "multiply_tap_mana" \in other.modifies
        \/ /\ "tap" \in cap.requires
           /\ "cast" \in other.triggers_on \/ "bounce_to_hand" \in other.produces
  \/ "untap" \in cap.triggers_on /\ "untap" \in other.produces
  \/ "cast" \in cap.triggers_on /\ "mana" \in other.produces /\ "tap" \in other.requires
  \/ "blink" \in cap.produces /\ "enter_as_copy" \in other.produces
  \/ "enter_as_copy" \in cap.produces /\ "blink" \in other.produces

\* The cards of the index: those whose semantics are complete where it matters.
Indexed(pool, cards) == {o \in pool : ~RelevantUnsupported(cards[o])}

\* candidate_pairs, in the order they are found.  order lists the oracle ids in string order; a
\* pair is written in that order and found at its first card unless only the second one sees it.
Reasons(caps, x, y) == JoinReasons(caps[x], caps[y]) \cup JoinReasons(caps[y], caps[x])
PairsAt(caps, order, i) ==
  LET sees(x, y) == x # y /\ Complements(caps[x], caps[y])
      new(j) == sees(order[i], order[j]) /\ (j < i => ~sees(order[j], order[i]))
      joins(j) == new(j) /\ Reasons(caps, order[i], order[j]) # {}
      found == Picked([j \in DOMAIN order |-> j], {j \in DOMAIN order : joins(j)})
  IN [k \in DOMAIN found |-> IF i < found[k] THEN <<order[i], order[found[k]]>>
                             ELSE <<order[found[k]], order[i]>>]
CandidatePairs(caps, order) ==
  FlattenSeq([i \in DOMAIN order |-> PairsAt(caps, order, i)])

=============================================================================
