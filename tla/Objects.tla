-------------------------------- MODULE Objects --------------------------------
(***************************************************************************)
(* The records of state/game.py: permanents, the game state, the initial   *)
(* state of a witness, an action step and the result of a step.            *)
(*                                                                         *)
(* A state is a record with the fields of the class.  The dictionary       *)
(* "permanents" keeps its insertion order, which decides the order in      *)
(* which triggers are queued and fodder is picked, so it is a function     *)
(* plus the sequence "order" of its keys.                                  *)
(***************************************************************************)
EXTENDS IR, FiniteSets, SequencesExt, TLC

Greatest(S) == IF S = {} THEN 0 ELSE CHOOSE n \in S : \A m \in S : m <= n
NonNegative(n) == IF n < 0 THEN 0 ELSE n
SumOver(S, f(_)) == MapThenSumSet(f, S)

\* f with the fields of upd replaced.
With(f, upd) ==
  [x \in DOMAIN f \cup DOMAIN upd |-> IF x \in DOMAIN upd THEN upd[x] ELSE f[x]]

-----------------------------------------------------------------------------
(* The classes *)
\* Keys of event_counters the code bumps.
EventOrder ==
  <<"mana", "token", "counter", "counter_added", "life_gain", "life_loss", "damage", "draw",
    "mill", "etb", "death", "sacrifice", "cast", "spell_copy", "untap", "tap", "exile",
    "return_to_battlefield", "return_from_gy", "become_copy", "ability_copy", "imprint", "fight",
    "extra_combat", "extra_turn", "energy", "energy_paid", "loyalty", "loyalty_paid",
    "discard", "bounce">>
EventKeys == ToSet(EventOrder)

\* A Permanent with the defaults of the class; pt is <<power, toughness>>, or <<>> for None.
Permanent ==
  [oracle |-> "", words |-> {}, controller |-> "you", zone |-> "battlefield",
   tapped |-> FALSE, summoning_sick |-> FALSE, counters |-> <<>>, is_token |-> FALSE,
   is_creature |-> FALSE, is_artifact |-> FALSE, pt |-> <<>>, lifelink |-> FALSE,
   undying |-> FALSE, damage_marked |-> 0, once_per_turn_used |-> {}, colors |-> {},
   tap_bounce_nonland |-> FALSE, was_cast |-> FALSE, entered_this_turn |-> FALSE,
   imprinted |-> None]

\* GameState.from_spec: permanents, mana, life and event counters come from the spec of a
\* witness, the rest starts at the defaults of the class.
OpeningHand == 7
OpeningLibrary == 60
FromSpec(spec) ==
  [order |-> spec.order, permanents |-> spec.permanents, mana |-> spec.mana,
   mana_activate_only |-> NoMana, library_you |-> OpeningLibrary,
   library_opponent |-> OpeningLibrary, graveyard_opponent |-> 0, hand_you |-> OpeningHand,
   life_you |-> spec.life_you, life_opponent |-> spec.life_opponent,
   event_counters |-> [k \in EventKeys \cup DOMAIN spec.event_counters |->
     IF k \in DOMAIN spec.event_counters THEN spec.event_counters[k] ELSE 0],
   pending_triggers |-> <<>>, token_seq |-> 0,
   last_sacrificed_power |-> 0, last_cast_spell |-> None, energy_you |-> 0]

\* An InitialStateSpec with the defaults of the class.
InitialStateSpec(ids, perms) ==
  [order |-> ids, permanents |-> perms, mana |-> NoMana, life_you |-> 40, life_opponent |-> 40,
   event_counters |-> <<>>]

\* A dictionary once d[key] = v.
Stored(d, key, v) == [k \in DOMAIN d \cup {key} |-> IF k = key THEN v ELSE d[k]]

Bump(st, key, n) == [st EXCEPT !.event_counters[key] = @ + n]

-----------------------------------------------------------------------------
(* Permanents *)
Ids(st) == DOMAIN st.permanents
Exists(st, id) == id \in Ids(st)
Counters(p, kind) == IF kind \in DOMAIN p.counters THEN p.counters[kind] ELSE 0
WithCounters(p, kind, n) == [p EXCEPT !.counters = Stored(@, kind, n)]

OnBattlefield(p) == p.zone = "battlefield"
Controlled(p) == OnBattlefield(p) /\ p.controller = "you"

\* The ids of _controlled_permanents, as a set and in dictionary order.
Yours(st) == {id \in Ids(st) : Controlled(st.permanents[id])}
YoursInOrder(st) == Those(st.order, Yours(st))
YourCreatures(st) == {id \in Yours(st) : st.permanents[id].is_creature}
YourArtifacts(st) == {id \in Yours(st) : st.permanents[id].is_artifact}

\* Permanent.effective_power and effective_toughness, as options.
PTBonus(p) == Counters(p, "p1p1") - Counters(p, "m1m1")
EffectivePower(p) == IF p.pt = <<>> THEN None ELSE Some(p.pt[1] + PTBonus(p))
EffectiveToughness(p) == IF p.pt = <<>> THEN None ELSE Some(p.pt[2] + PTBonus(p))

\* The types of the classes: what is on the board is a Permanent, the dictionary lists every
\* object, pools and counts are never negative, totals are integers, and a pending trigger has a
\* source and a subject.
Flags == {"tapped", "summoning_sick", "was_cast", "is_token", "is_creature"}
IsPermanent(p) ==
  /\ DOMAIN p = DOMAIN Permanent
  /\ IsPT(p.pt) /\ p.zone \in Zones /\ p.damage_marked \in Int
  /\ \A flag \in Flags : p[flag] \in BOOLEAN
  /\ \A kind \in DOMAIN p.counters : p.counters[kind] \in Nat
IsPending(tr, ids) == tr.source_id \in ids /\ tr.subject_id \in ids /\ tr.amount \subseteq Int
StateFields ==
  {"order", "permanents", "mana", "mana_activate_only", "library_you", "library_opponent",
   "graveyard_opponent", "hand_you", "life_you", "life_opponent", "event_counters",
   "pending_triggers", "token_seq", "last_sacrificed_power", "last_cast_spell", "energy_you"}
IsState(st) ==
  /\ DOMAIN st = StateFields
  /\ IsFiniteSet(Ids(st)) /\ \A id \in Ids(st) : IsPermanent(st.permanents[id])
  /\ IsSequence(st.order) /\ Ids(st) \subseteq ToSet(st.order)
  /\ st.mana \in ManaAmount /\ st.mana_activate_only \in ManaAmount
  /\ {st.library_you, st.library_opponent, st.graveyard_opponent, st.hand_you, st.energy_you,
      st.token_seq} \subseteq Nat
  /\ {st.life_you, st.life_opponent, st.last_sacrificed_power} \subseteq Int
  /\ st.event_counters \in [EventKeys -> Int]
  /\ IsSequence(st.pending_triggers)
  /\ \A i \in DOMAIN st.pending_triggers : IsPending(st.pending_triggers[i], Ids(st))

-----------------------------------------------------------------------------
(* Steps and their results *)
\* An ActionStep: op and the ids of its actor, ability, target and cost target.
Step(op, actor, ability, target, cost_target) ==
  [op |-> op, actor |-> actor, ability_id |-> ability, target |-> target,
   cost_target |-> cost_target]
NoAbility == "no-ability"

Errors ==
  {"not_a_loop", "resource_deficit", "illegal_action", "illegal_target", "timing_violation",
   "mana_restriction", "once_per_turn_limit", "opponent_cooperation_required",
   "unsupported_semantics", "unsupported_rule"}
Statuses == {"ok"} \cup Errors

Ok(st) == [st |-> st, err |-> "ok"]
Err(st, status) == [st |-> st, err |-> status]

=============================================================================
