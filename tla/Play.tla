--------------------------------- MODULE Play ---------------------------------
(***************************************************************************)
(* An executor run on a board: the steps of rules/executor.py in any order *)
(* and with any actors, abilities and targets, as a witness may list them. *)
(* run_sequence stops at the first step that fails, so an error is final;  *)
(* the state keeps what the failed step had done by then.                  *)
(***************************************************************************)
EXTENDS Steps

CONSTANT
  Boards  \* what is played: records of
          \*   start    the initial state, the from_spec of a witness
          \*   ops      bound: the operations the run uses,
          \*   targets    the ids a step names as its target
          \*   fodder     and the ids it names as its cost target
          \*   events   bound: no step is taken once this many events were counted
          \*   spare    bound: no step is taken with fewer token ids than this left

\* A board is a position between two steps, so no creature on it is due to die; nothing has
\* been drawn, gained or lost on it yet; and its ids are those of a dictionary.
Unplayed(st) ==
  /\ st.event_counters = [key \in EventKeys |-> 0]
  /\ st.hand_you = OpeningHand /\ st.energy_you = 0
ASSUME BoardsAssumption ==
  \A b \in Boards : IsState(b.start) /\ Named(b.start) /\ Unplayed(b.start) /\ Doomed(b.start) = {}

VARIABLES
  board,   \* the board that is played; it stays the same
  state,   \* the GameState
  status   \* "ok", or the VerificationStatus that ended the run
vars == <<board, state, status>>

EventCount(st) ==
  LET sum[i \in 0..Len(EventOrder)] ==
        IF i = 0 THEN 0 ELSE sum[i - 1] + st.event_counters[EventOrder[i]]
  IN sum[Len(EventOrder)]

Init == board \in Boards /\ state = board.start /\ status = "ok"

\* The run goes on with a step of operation op that leads to r before the state-based actions.
Take(op, r) ==
  /\ status = "ok" /\ op \in board.ops
  /\ EventCount(state) < board.events /\ state.token_seq + board.spare <= Len(TokenIds)
  /\ UNCHANGED board
  /\ \E after \in {AfterStep(r)} : state' = after.st /\ status' = after.err

\* The abilities that can be asked of an actor: those it prints and those that are granted.
AbilityIds(id) ==
  {ab.ability_id : ab \in ToSet(AbilitiesOf(state.permanents[id]))}
  \cup UNION {{GrantId(x, g.ability_id) :
                 g \in ToSet(AbilitiesOfKind(state.permanents[x], "grant_activated"))} :
              x \in Ids(state)}

Activate == \E actor \in Ids(state) : \E ability \in AbilityIds(actor) :
              \E target \in board.targets \cup {NoId}, cost_target \in board.fodder \cup {NoId} :
                Take("activate",
                     Activated(state, Step("activate", actor, ability, target, cost_target)))
\* Nothing named, or the source and the ability of a pending trigger.
Resolve ==
  \E target \in board.targets \cup {NoId} :
    \E named \in {<<NoId, NoAbility>>}
                 \cup {<<tr.source_id, tr.ability_id>> : tr \in ToSet(state.pending_triggers)} :
      Take("resolve_trigger",
           ResolveTrigger(state, Step("resolve_trigger", named[1], named[2], target, NoId)))
SacrificeOne ==
  \E id \in Ids(state) :
    Take("sacrifice", SacrificeNamed(state, Step("sacrifice", id, NoAbility, NoId, NoId)))
Cast ==
  \E id \in Ids(state) :
    Take("cast_from_hand", CastFromHand(state, Step("cast_from_hand", id, NoAbility, NoId, NoId)))
BounceByGrant ==
  \E id \in Ids(state), target \in board.targets :
    Take("activate_granted_tap_bounce",
         TapBounce(state, Step("activate_granted_tap_bounce", id, NoAbility, target, NoId)))
SeedSource ==
  \E op \in SourceSeeds, id \in Ids(state) :
    Take(op, SeedFromSource(state, Step(op, id, NoAbility, NoId, NoId)))
SeedTarget ==
  \E op \in GrantSeeds, id \in board.targets :
    Take(op, SeedGrant(state, Step(op, NoId, NoAbility, id, NoId)))
Declare ==
  \E op \in {"choose_may", "decline_may", "noop", "opponent_must_cooperate"} :
    Take(op, Declared(state, op))

Next == Activate \/ Resolve \/ SacrificeOne \/ Cast \/ BounceByGrant \/ SeedSource
        \/ SeedTarget \/ Declare
Spec == Init /\ [][Next]_vars

-----------------------------------------------------------------------------
(* Properties *)
Events(key) == state.event_counters[key]
OnZone(zone) == {id \in Ids(state) : state.permanents[id].zone = zone}
Queued(ability) ==
  Cardinality({i \in DOMAIN state.pending_triggers : state.pending_triggers[i].ability_id = ability})

\* Every field has its type: the pools, the libraries, energy and the hand never go below zero,
\* a pending trigger names objects of the board, the keys of permanents are listed once each in
\* the order, and a token id is given out once.
TypeOK == status \in Statuses /\ IsState(state) /\ Named(state)

\* Between two steps no creature you control is in play that the state-based actions would put
\* into the graveyard (run_step applies them after every step that did not fail).
SBAStable == status = "ok" => Doomed(state) = {}

\* A step that fails leaves a legal board as well (rules/README.md:130: "Return ExecError rather
\* than mutating into an illegal board").  The code has paid costs before an effect fails.
ErrorLeavesLegalBoard == status # "ok" => Doomed(state) = {}

\* When all creatures are lethally damaged together, or all but one, the state-based actions have
\* the effect of the code's loop, which lets them die one after the other in dictionary order.
LethallyDamaged(S) ==
  [state EXCEPT !.permanents = [id \in DOMAIN @ |->
     IF id \in S THEN [@[id] EXCEPT !.damage_marked = 9] ELSE @[id]]]
OneByOne(st) == FoldLeft(Die, st, Those(st.order, Doomed(st)))
SBAOneByOne ==
  \A spared \in YourCreatures(state) \cup {NoId} :
    \E hurt \in {LethallyDamaged(YourCreatures(state) \ {spared})} : ApplySBA(hurt) = OneByOne(hurt)

\* A creature that is summoning sick, or that entered this turn however it came (cast, created,
\* blinked, returned), does not tap: neither for an ability of its own, nor as the host of an
\* enchantment's ability, nor for a granted one (a TapCreatureCost and a TapEffect do not ask; no
\* board here has a sick creature that they reach).
SickDoNotTap ==
  [][\A id \in Ids(state) :
       LET p == state.permanents[id] IN
         OnBattlefield(p) /\ p.is_creature /\ (p.summoning_sick \/ p.entered_this_turn) /\ ~p.tapped
           => ~state'.permanents[id].tapped]_vars

\* What you drew and discarded explains the size of the hand; what you gained and paid, the
\* energy; gains and losses, the two life totals (no board here damages "each player").
Ledgers ==
  /\ state.hand_you = OpeningHand + Events("draw") - Events("discard")
  /\ state.energy_you = Events("energy") - Events("energy_paid")

LifeLedger ==
  state.life_you + state.life_opponent
    = board.start.life_you + board.start.life_opponent + Events("life_gain") - Events("life_loss")

=============================================================================
