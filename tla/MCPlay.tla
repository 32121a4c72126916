-------------------------------- MODULE MCPlay ---------------------------------
(* The boards of five loops, each with steps beside those of its loop, and a board with every  *)
(* other cost and effect of the executor.                                                      *)
EXTENDS Play, ToolCards

AllCards == ("artist" :> Artist) @@ ("feeder" :> Feeder) @@ ("altar" :> Altar)
           @@ ("crawler" :> Crawler) @@ ("wolf" :> Wolf) @@ ("pinger" :> Pinger)
           @@ ("bloodletter" :> Bloodletter)
           @@ ("druid" :> Druid) @@ ("vizier" :> Vizier) @@ ("rings" :> Rings) @@ ("hub" :> Hub)
           @@ ("gond" :> Gond) @@ ("guard" :> Guard) @@ ("displacer" :> Displacer)
           @@ ("dork" :> Dork) @@ ("visionary" :> Visionary)
           @@ ("toolbox" :> Toolbox) @@ ("arena" :> Arena) @@ ("market" :> Market)
           @@ ("season" :> Season) @@ ("reversal" :> Reversal)
\* TLC keeps the value of a definition, but evaluates the body of one that replaces a constant
\* at every use: the body is a name.
MCCards == AllCards
MCObjectIds ==
  <<"altar", "arena", "artist", "bloodletter", "brawler", "crawler", "displacer", "dork", "druid",
    "feeder", "gond", "guard", "hub", "market", "pinger", "reversal", "rings", "season", "token-1",
    "token-2", "token-3", "token-4", "toolbox", "visionary", "vizier", "wolf">>
MCTokenIds == <<"token-1", "token-2", "token-3", "token-4">>

On(perm) == With(Permanent, perm)
Start(ids, perms) == FromSpec(InitialStateSpec(ids, perms))

-----------------------------------------------------------------------------
(* Creatures die by sacrifice, damage and -1/-1 counters, undying and a return from the graveyard *)
(* bring them back, and a drain counts the deaths.                                                *)
Death ==
  [start |-> {}, ops |-> {"activate", "resolve_trigger", "sacrifice"}, targets |-> {"wolf"},
   fodder |-> {"wolf", "pinger", "crawler"}, events |-> 12, spare |-> 0]
Outlet ==
  [Death EXCEPT !.start =
     Start(<<"altar", "artist", "crawler", "wolf">>,
           ("altar" :> On(Artifact("altar"))) @@ ("artist" :> On(Noncreature("artist")))
           @@ ("crawler" :> On(Creature("crawler", 2, 1)))
           @@ ("wolf" :> [On(Creature("wolf", 1, 1)) EXCEPT !.undying = TRUE]))]
Pings ==
  [Death EXCEPT !.start =
     Start(<<"pinger", "wolf", "artist", "feeder", "bloodletter">>,
           ("artist" :> On(Creature("artist", 0, 1)))
           @@ ("bloodletter" :> On(Noncreature("bloodletter")))
           @@ ("feeder" :> On(Creature("feeder", 1, 1)))
           @@ ("pinger" :> [On(Creature("pinger", 2, 2)) EXCEPT !.undying = TRUE])
           @@ ("wolf" :> [On(Creature("wolf", 1, 1)) EXCEPT !.undying = TRUE]))]

(* A mana engine on a -1/-1 counter cost, a once-per-turn ability, energy, discards and draws,    *)
(* and a copier that needs mana for its copies.                                                   *)
Engine ==
  [start |-> Start(<<"druid", "vizier", "rings", "hub">>,
               ("druid" :> On(Creature("druid", 0, 2))) @@ ("vizier" :> On(Creature("vizier", 2, 1)))
               @@ ("rings" :> On(Artifact("rings"))) @@ ("hub" :> On(Artifact("hub")))),
   ops |-> {"activate", "sacrifice", "seed_gain_life", "choose_may", "decline_may", "noop",
            "opponent_must_cooperate"},
   targets |-> {}, fodder |-> {}, events |-> 13, spare |-> 0]

(* Creatures enter, leave and come back: tokens, a blink, a cast from hand and the granted        *)
(* tap-bounce, with summoning sickness in between.                                                *)
Zone ==
  [start |-> {}, targets |-> {"guard", "dork", "visionary", "token-1"}, fodder |-> {},
   ops |-> {"activate", "resolve_trigger", "sacrifice", "cast_from_hand",
            "activate_granted_tap_bounce", "seed_grant_tap_bounce", "seed_create_token"},
   events |-> 10, spare |-> 2]
Tokens ==
  [Zone EXCEPT !.start =
     Start(<<"guard", "gond", "dork">>,
           ("guard" :> On(Creature("guard", 2, 3))) @@ ("gond" :> On(Noncreature("gond")))
           @@ ("dork" :> On(Creature("dork", 1, 1))))]
Blinks ==
  [Zone EXCEPT !.start =
     Start(<<"displacer", "dork", "visionary">>,
           ("displacer" :> On(Creature("displacer", 3, 3)))
           @@ ("dork" :> On(Creature("dork", 1, 1)))
           @@ ("visionary" :> [On(Creature("visionary", 1, 1)) EXCEPT !.zone = "hand"]))]

(* Every other cost and effect, under all multipliers, until two events are counted. *)
Tools ==
  [start |->
     [Start(<<"toolbox", "arena", "brawler", "market", "reversal", "season">>,
            ("toolbox" :> On(Artifact("toolbox")))
            @@ ("arena" :> [On(Creature("arena", 2, 3)) EXCEPT !.counters = ("p1p1" :> 1)])
            @@ ("brawler" :> [On(Creature("arena", 3, 2)) EXCEPT !.tapped = TRUE,
                                                                !.counters = ("m1m1" :> 1)])
            @@ ("market" :> [On(Noncreature("market")) EXCEPT !.tapped = TRUE,
                                                             !.counters = ("loyalty" :> 1)])
            @@ ("reversal" :> [On(Noncreature("reversal")) EXCEPT !.zone = "hand"])
            @@ ("season" :> On(Noncreature("season"))))
      EXCEPT !.mana["any_color"] = 1, !.life_you = 5, !.life_opponent = 5],
   targets |-> {"brawler", "market"}, fodder |-> {}, events |-> 2, spare |-> 2,
   ops |-> {"activate", "resolve_trigger", "cast_from_hand", "seed_gain_life", "seed_lose_life",
            "seed_grant_lifelink", "seed_grant_undying", "seed_grant_tap_bounce",
            "activate_granted_tap_bounce", "choose_may", "decline_may", "noop",
            "opponent_must_cooperate"}]

AllBoards == {Outlet, Pings, Engine, Tokens, Blinks, Tools}
OutletAndPings == {Outlet, Pings}
MCBoards == AllBoards
DeathBoards == OutletAndPings

-----------------------------------------------------------------------------
(* Properties of these boards *)
Here(id) == id \in Ids(state)

\* Every creature in the graveyard got there by a counted death and every return is counted:
\* Executor.die, undying and ReturnToBattlefieldEffect agree about who is in the graveyard (a
\* blink counts a return as well, but of a creature that was exiled).
GraveyardLedger ==
  ~Here("displacer") =>
    Cardinality({id \in OnZone("graveyard") : state.permanents[id].is_creature})
      = Events("death") - Events("return_to_battlefield")

\* While the drain's source is in play, the drain of every death is either still pending or has
\* been dealt: no trigger is lost or duplicated when creatures die together, are sacrificed, or return and die again.
NoDeathUndrained ==
  Here("artist") /\ OnBattlefield(state.permanents["artist"])
    => Events("death") = Events("life_gain") + Queued("drain")

\* A creature that died with a +1/+1 counter does not come back by undying: without an ability
\* that returns it, it stays in the graveyard.
CounterGatesUndying ==
  [][\A id \in Ids(state) \ {"crawler"} :
       LET p == state.permanents[id] IN
         p.zone = "graveyard" /\ Counters(p, "p1p1") > 0
           => state'.permanents[id].zone = "graveyard"]_vars

\* An undying return that is pending can be resolved: its creature is still in the graveyard.
UndyingReturnReady ==
  \A i \in DOMAIN state.pending_triggers :
    state.pending_triggers[i].ability_id = UndyingReturn
      => state.permanents[state.pending_triggers[i].subject_id].zone = "graveyard"

\* The once-per-turn ability runs once: with its one possible copy it yields at most four energy,
\* however the other abilities are interleaved.  What four discarded cards yield comes on top.
OncePerTurnOnce == Events("energy") <= 4 + 2 * (Events("discard") \div 4)

\* While the -1/-1 reducer has been in play all along, the engine costs nothing: counters only
\* appear after it left, and then one per untap at the most.
CountersNeedReducerGone ==
  Here("druid") =>
    /\ OnBattlefield(state.permanents["vizier"]) => Counters(state.permanents["druid"], "m1m1") = 0
    /\ Counters(state.permanents["druid"], "m1m1") <= Events("untap")

\* Every creature that enters beside the guard, which was there from the start, untaps it once:
\* what has entered (the Food token is no creature) is either a pending trigger of the guard or
\* an untap.
Foods == {id \in Ids(state) : state.permanents[id].oracle = "token:Food"}
Watching == Here("guard") /\ OnBattlefield(state.permanents["guard"])
            /\ ~state.permanents["guard"].was_cast
NoEntryUnseen ==
  Watching => Events("etb") - Cardinality(Foods) = Events("untap") + Queued("guard")

=============================================================================
