------------------------------ MODULE Recurrence ------------------------------
(***************************************************************************)
(* What makes one lap of a loop a loop: the paths of a LoopRelevantState   *)
(* (state/paths.py, GameState.get_path), the dimensions the verifier owns  *)
(* (verify/mandatory_recurrence.py), the comparison of the states before   *)
(* and after the lap (verify/verifier.py), its net effect and the claim    *)
(* that follows from it (proofs/net_state.py, proofs/consequence.py), and  *)
(* the witness that the search writes for a lap (search/explorer.py).      *)
(*                                                                         *)
(* A path is the sequence of its parts.  A relevant state is a function    *)
(* from paths to dimensions [op, value]; value is an option.               *)
(***************************************************************************)
EXTENDS Steps

Exact == "EXACT"
Minimum == "MINIMUM"
Maximum == "MAXIMUM"
Dim(op, value) == [op |-> op, value |-> value]

PermanentPath(id, attribute) == <<"permanents", id, attribute>>
CounterPath(id, kind) == <<"permanents", id, "counters", kind>>
UsedPath(id, ability) == <<"permanents", id, "once_per_turn_used", ability>>
PendingPath == <<"pending_triggers", "count">>
TokensPath == <<"count", "battlefield", "creature_tokens">>

\* is_valid_state_path
ValidPath(path) ==
  \/ Len(path) = 2 /\ path[1] = "mana" /\ path[2] \in Fields
  \/ Len(path) = 2 /\ path[1] = "events"
  \/ Len(path) = 2 /\ path[1] = "life" /\ path[2] \in {"you", "opponent"}
  \/ Len(path) = 3 /\ path[1] = "permanents" /\ path[3] \in {"zone", "tapped", "summoning_sick"}
  \/ Len(path) = 4 /\ path[1] = "permanents" /\ path[3] \in {"counters", "once_per_turn_used"}
  \/ path = PendingPath
  \/ Len(path) = 3 /\ path[1] = "count" /\ path[2] \in Zones
       /\ path[3] \in {"creature_tokens", "creatures", "artifacts"}

CountIn(st, zone, kind) ==
  Cardinality({id \in Ids(st) : LET p == st.permanents[id] IN
    /\ p.zone = zone
    /\ CASE kind = "creature_tokens" -> p.is_token /\ p.is_creature
         [] kind = "creatures" -> p.is_creature
         [] kind = "artifacts" -> p.is_artifact})

\* Is there something at the path?  The KeyError of get_path is a permanent that is not there.
HasPath(st, path) == path[1] = "permanents" => Exists(st, path[2])

\* get_path
PermanentAt(p, path) ==
  CASE path[3] = "zone" -> p.zone
    [] path[3] = "tapped" -> p.tapped
    [] path[3] = "summoning_sick" -> p.summoning_sick
    [] path[3] = "counters" -> Counters(p, path[4])
    [] path[3] = "once_per_turn_used" -> path[4] \in p.once_per_turn_used
At(st, path) ==
  CASE path[1] = "mana" -> st.mana[path[2]]
    [] path[1] = "events" -> st.event_counters[path[2]]
    [] path[1] = "life" -> IF path[2] = "you" THEN st.life_you ELSE st.life_opponent
    [] path[1] = "permanents" -> PermanentAt(st.permanents[path[2]], path)
    [] path[1] = "pending_triggers" -> Len(st.pending_triggers)
    [] path[1] = "count" -> CountIn(st, path[2], path[3])

-----------------------------------------------------------------------------
(* The comparison *)
Recurs(before, after, path, dim) ==
  /\ HasPath(before, path) /\ HasPath(after, path)
  /\ LET b == At(before, path)
         a == At(after, path)
         wanted == OrElse(dim.value, b)
     IN CASE dim.op = Exact -> a = wanted
          [] dim.op = Minimum -> a >= wanted /\ a >= b
          [] dim.op = Maximum -> a <= wanted

\* check_recurrence
CheckRecurrence(before, after, relevant) ==
  \A path \in DOMAIN relevant : Recurs(before, after, path, relevant[path])

\* check_outputs: something is declared, and each output rises by what it declares.
Delta(before, after, key) == after.event_counters[key] - before.event_counters[key]
CheckOutputs(before, after, outputs) ==
  outputs # {} /\ \A out \in outputs : Delta(before, after, out.type) >= out.delta

-----------------------------------------------------------------------------
(* The dimensions the verifier owns (ADR 0008).  The cards of a witness are *)
(* the semantics of the executor.                                           *)

\* The once-per-turn abilities a loop activates, by actors that are there before it and print them.
OncePerTurnPaths(loop, before) ==
  {UsedPath(step.actor, step.ability_id) : step \in {s \in ToSet(loop) :
     /\ s.op = "activate" /\ Exists(before, s.actor)
     /\ \E ab \in ToSet(AbilitiesOf(before.permanents[s.actor])) :
          ab.kind = "activated" /\ ab.ability_id = s.ability_id /\ ab.once_per_turn}}

\* Mutant: nothing is pinned for a permanent that pays with -1/-1 counters.
M1M1PayPaths_None(before) == {}

\* Permanents that can pay with a -1/-1 counter of their own and have no entry for it yet.
M1M1PayPaths(before) ==
  {CounterPath(id, "m1m1") : id \in {x \in Ids(before) : LET p == before.permanents[x] IN
     /\ OnBattlefield(p) /\ "m1m1" \notin DOMAIN p.counters
     /\ \E ab \in ToSet(AbilitiesOf(p)) :
          ab.kind = "activated" /\ \E cost \in ToSet(ab.costs) :
            cost.kind = "add_counter" /\ cost.counter_type = "m1m1"}}

\* mandatory_recurrence_dimensions: every one pins what is there before the loop.
MandatoryDimensions(loop, before) ==
  [path \in OncePerTurnPaths(loop, before) \cup M1M1PayPaths(before) \cup {PendingPath} |->
     Dim(Exact, Some(At(before, path)))]

\* Mutant: what the witness declares wins over the mandatory dimensions.
EffectiveRelevantState_DeclaredWins(witness, before) ==
  With(MandatoryDimensions(witness.loop_actions, before), witness.relevant_state)

\* effective_relevant_state: the mandatory dimension wins on a path both have.
EffectiveRelevantState(witness, before) ==
  With(witness.relevant_state, MandatoryDimensions(witness.loop_actions, before))

-----------------------------------------------------------------------------
(* Net effect and claim *)
PlusOneCounters(st) ==
  LET p1p1(id) == Counters(st.permanents[id], "p1p1")
  IN SumOver({id \in Ids(st) : OnBattlefield(st.permanents[id])}, p1p1)

\* derive_net_state
NetState(before, after) ==
  [mana |-> [f \in Fields |-> after.mana[f] - before.mana[f]],
   life_you |-> after.life_you - before.life_you,
   life_opponent |-> after.life_opponent - before.life_opponent,
   creature_tokens |-> At(after, TokensPath) - At(before, TokensPath),
   plus_one_counters |-> PlusOneCounters(after) - PlusOneCounters(before)]

Benefits(net) ==
  {net.life_you, net.creature_tokens, net.plus_one_counters} \cup {net.mana[f] : f \in Fields}

\* derive_claim_consequence, with the gross events of the loop confirmed.
DerivedClaim(net) ==
  CASE net.life_opponent < 0 -> "LETHAL"
    [] net.life_opponent >= 0 /\ \E n \in Benefits(net) : n > 0 -> "ACCUMULATES"
    [] net.life_opponent = 0 /\ Benefits(net) = {0} -> "REPEATABLE_EVENT"
    [] OTHER -> "OTHER"

DerivedConsequences == {"ACCUMULATES", "REPEATABLE_EVENT", "LETHAL"}
ClaimMismatch(derived, expected) ==
  \E claim \in expected : claim \in DerivedConsequences /\ claim # derived

-----------------------------------------------------------------------------
(* The witness of a lap that the search has found *)
ReusableFields == Fields \ {"generic"}
OutputEventKeys ==
  {"mana", "token", "etb", "cast", "untap", "damage", "life_gain", "life_loss", "mill", "death",
   "sacrifice", "draw"}

\* derive_relevant_state: zones, taps and counters of the cards of the spec, the pools, the
\* number of tokens when the spec has one, and the mandatory dimensions.
DeriveRelevantState(spec, before, loop) ==
  LET cards == {id \in DOMAIN spec.permanents : ~spec.permanents[id].is_token /\ Exists(before, id)}
      perm(id) == before.permanents[id]
      counters == UNION {{CounterPath(id, k) : k \in DOMAIN perm(id).counters} : id \in cards}
      tokens == IF \E id \in DOMAIN spec.permanents : spec.permanents[id].is_token
                THEN {TokensPath} ELSE {}
      pinned == {PermanentPath(id, a) : id \in cards, a \in {"zone", "tapped"}}
                \cup {path \in counters : path[4] # "p1p1"}
      floors == {path \in counters : path[4] = "p1p1"} \cup tokens
                \cup {<<"mana", f>> : f \in ReusableFields}
  IN With([path \in pinned \cup floors |->
             Dim(IF path \in pinned THEN Exact ELSE Minimum, Some(At(before, path)))],
          MandatoryDimensions(loop, before))

\* derive_outputs
DeriveOutputs(before, after) ==
  {[type |-> key, delta |-> Delta(before, after, key)] :
     key \in {k \in OutputEventKeys : Delta(before, after, k) > 0}}

=============================================================================
