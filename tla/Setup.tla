--------------------------------- MODULE Setup ---------------------------------
(***************************************************************************)
(* Where the search of a pair starts (search/explorer.py): the board that  *)
(* default_initial_state puts down, and the seeds that explore_pair runs   *)
(* on it before it searches.                                               *)
(***************************************************************************)
EXTENDS LoopContract, Needs, Seeds

CONSTANT PrintedPT  \* the oracle ids whose fixture has a printed <<power, toughness>>, with it

Start == INSTANCE Placement

-----------------------------------------------------------------------------
(* The seeds of explore_pair.  Each is run on the start state as the earlier ones left it; one *)
(* that fails keeps what it did before its error and is not part of the setup.              *)
HasTriggerWith(card, event, kind) == \E ab \in TriggersOf(card, event) : HasEffect(ab, kind)
NeedsLifeGainSeed(card) == HasTriggerWith(card, "gain_life", "lose_life")
IsGainLifePutCounter(card) == HasTriggerWith(card, "gain_life", "add_counter")
IsCounterAddedDamage(card) == HasTriggerWith(card, "counter_added", "deal_damage")
NeedsOpponentLoseLifeSeed(card) == HasTriggerWith(card, "opponent_lose_life", "mill")
NeedsTokenCreateSeed(card) == TriggersOf(card, "create_token") # {}
RemovesP1P1(card) == "remove_counter" \in ExtractCapabilities(card).requires

\* The permanents of some of the two cards, in string order.
Holders(st, oracles) == InStringOrder({id \in Ids(st) : st.permanents[id].oracle \in oracles})
PingTargets(st, pair) ==
  LET takers == {o \in pair : RemovesP1P1(Cards[o]) \/ IsCounterAddedDamage(Cards[o])}
  IN InStringOrder({id \in Ids(st) : st.permanents[id].oracle \in takers /\ st.permanents[id].is_creature})
FromFirst(op, holders) ==
  IF holders = <<>> THEN None ELSE Some(Step(op, holders[1], NoAbility, NoId, NoId))
\* The last grantor and the last pinger, when they are two.
OnLastPinger(op, ability, grantors, pingers) ==
  IF grantors = <<>> \/ pingers = <<>> THEN None
  ELSE {s \in Some(Step(op, Last(grantors), ability, Last(pingers), NoId)) : s.actor # s.target}

BootstrapsLife(l, r) ==
  \/ IsGainLifePutCounter(Cards[l]) /\ IsCounterAddedDamage(Cards[r])
  \/ IsGainLifePutCounter(Cards[r]) /\ IsCounterAddedDamage(Cards[l])
Granters(l, r) == Those(<<l, r>>, {o \in {l, r} : GrantLifelinkAbility(Cards[o]) # None})

LifelinkStandIn(l, r) == ~({l, r} \subseteq ExactOracles) /\ Granters(l, r) = <<>>

PaidGrant(st, l, r) ==
  LET o == Granters(l, r)[1]
  IN OnLastPinger("activate", The(GrantLifelinkAbility(Cards[o])).ability_id, Holders(st, {o}),
                  PingTargets(st, {l, r}))
TapBounceHost(st) == Exists(st, "grant-host") /\ st.permanents["grant-host"].is_creature

\* The seed of a kind, as an option.
SeedKinds == <<"life", "bootstrap", "loss", "token", "lifelink", "paid", "tap_bounce">>
SeedOf(kind, a, l, r) ==
  LET those(Needs(_)) == Holders(a.st, {o \in {l, r} : Needs(Cards[o])})
  IN CASE kind = "life" -> FromFirst("seed_gain_life", those(NeedsLifeGainSeed))
       [] kind = "bootstrap" /\ BootstrapsLife(l, r)
            /\ \A s \in ToSet(a.setup) : s.op # "seed_gain_life" ->
            FromFirst("seed_gain_life", those(IsGainLifePutCounter))
       [] kind = "loss" -> FromFirst("seed_lose_life", those(NeedsOpponentLoseLifeSeed))
       [] kind = "token" -> FromFirst("seed_create_token", those(NeedsTokenCreateSeed))
       [] kind = "lifelink" /\ LifelinkStandIn(l, r) ->
            OnLastPinger("seed_grant_lifelink", NoAbility, those(IsGainLifePutCounter),
                         PingTargets(a.st, {l, r}))
       [] kind = "paid" /\ Granters(l, r) # <<>> -> PaidGrant(a.st, l, r)
       [] kind = "tap_bounce" /\ Start!InstantGrantIn({l, r}) /\ TapBounceHost(a.st) ->
            Some(Step("seed_grant_tap_bounce", NoId, NoAbility, "grant-host", NoId))
       [] OTHER -> None

\* Mutant: a seed is run and not written down.
AfterSeed_Unrecorded(a, seed, result) == [a EXCEPT !.st = result.st]

AfterSeed(a, seed, result) ==
  [a EXCEPT !.st = result.st, !.setup = IF result.err = "ok" THEN Append(@, seed) ELSE @]

Seeded(a, seeds) ==
  IF seeds = None THEN a ELSE AfterSeed(a, The(seeds), RunStep(a.st, The(seeds)))

\* Where the search of a pair starts: the initial state of its witness, and the state that the
\* setup leads to from there.
Unseeded(spec) == [spec |-> spec, st |-> FromSpec(spec), setup |-> <<>>]
StartOf(l, r) ==
  FoldLeft(LAMBDA a, kind : Seeded(a, SeedOf(kind, a, l, r)),
           Unseeded(Start!DefaultInitialState(l, r)), SeedKinds)

=============================================================================
