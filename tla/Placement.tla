------------------------------- MODULE Placement -------------------------------
(***************************************************************************)
(* The board that a pair of cards is searched on (default_initial_state of *)
(* search/explorer.py): the two cards, and the generic permanents and the  *)
(* mana that are put beside them.                                          *)
(***************************************************************************)
EXTENDS Effects, Needs

CONSTANT PrintedPT  \* the oracle ids whose fixture has a printed <<power, toughness>>, with it

-----------------------------------------------------------------------------
(* default_initial_state, as the sequence of <<object id, permanent>> it      *)
(* places.  A pair is <<first, second>> in string order; they are c0 and c1. *)
Entry(id, oracle, words, upd) == <<id, With([Permanent EXCEPT !.oracle = oracle, !.words = words], upd)>>
Fodder(id, oracle, words, power, toughness) ==
  Entry(id, oracle, words, [is_creature |-> TRUE, pt |-> <<power, toughness>>])
Copies(n, id, oracle, words) ==
  [i \in 1..n |-> Fodder(id \o ToString(i - 1), oracle, words, 1, 1)]
IfSo(cond, entries) == IF cond THEN entries ELSE <<>>
Cap(o) == ExtractCapabilities(Cards[o])
Offers(pair, facet) == \E o \in pair : facet \in Cap(o).produces
Asks(pair, facet) == \E o \in pair : facet \in Cap(o).requires

\* Does a card of the pair have it?
FreeCastIn(pair) == \E o \in pair : HasFreeCast(Cards[o])
InstantGrantIn(pair) == \E o \in pair : HasInstantGrant(Cards[o])
AlarmIn(pair) == \E o \in pair : HasEtbUntapAll(Cards[o])
CloudstoneIn(pair) == \E o \in pair : HasCloudstoneBounce(Cards[o])
EarthcraftIn(pair) == \E o \in pair : HasEarthcraft(Cards[o])
CastBounceIn(pair) == \E o \in pair : HasCastBounce(Cards[o])

NeedsTokenSacBootstrap(pair) ==
  /\ \E o \in pair : CreatesForMana(Cards[o])
  /\ \E o \in pair : \E ab \in ActivatedOf(Cards[o]) :
       ab.supported /\ HasCost(ab, "sacrifice") /\ HasEffect(ab, "add_mana")
NeedsEchoesBootstrap(pair) ==
  /\ \E o \in pair : CreatesForMana(Cards[o])
  /\ \E o \in pair : \E e \in EffectsOf(TriggersOf(Cards[o], "enter_battlefield")) :
       e.kind = "add_mana" /\ e.from = "controlled_sharing_creature_type"

\* Where a card of the pair starts, its counters and its size.
StartsInHand(o, pair) ==
  LET card == Cards[o]
      creature == "creature" \in card.types
  IN \/ creature /\ HasEtbBounceToHand(card) /\ (FreeCastIn(pair) \/ AlarmIn(pair) \/ EarthcraftIn(pair))
     \/ creature /\ CloudstoneIn(pair) /\ FreeCastIn(pair)
     \/ "artifact" \in card.types /\ ~creature /\ CastBounceIn(pair)
StartPT(o) ==
  IF "creature" \notin Cards[o].types THEN <<>>
  ELSE IF o \in DOMAIN PrintedPT THEN PrintedPT[o] ELSE <<1, 1>>
StartCounters(o) ==
  LET placed(n) == Stored(<<>>, "p1p1", n) IN
  CASE Meets(Cap(o).produces, {"mana_from_p1p1", "mana_from_power"}) -> placed(4)
    [] OTHER -> IF "remove_counter" \notin Cap(o).requires THEN <<>>
                ELSE placed(IF StartPT(o) # <<>> /\ StartPT(o)[2] = 0 THEN 2 ELSE 1)
Piece(o, id, pair) ==
  Entry(id, o, Cards[o].words,
        [is_creature |-> "creature" \in Cards[o].types, is_artifact |-> "artifact" \in Cards[o].types,
         counters |-> StartCounters(o), pt |-> StartPT(o), colors |-> Cards[o].colors,
         zone |-> IF StartsInHand(o, pair) THEN "hand" ELSE "battlefield"])
\* An instant is not put on the board.
Pieces(l, r) ==
  IfSo(~HasInstantGrant(Cards[l]), <<Piece(l, "c0", {l, r})>>)
  \o IfSo(~HasInstantGrant(Cards[r]), <<Piece(r, "c1", {l, r})>>)

\* Tokens: three of a subtype that is counted, or one to sacrifice or to be a Zombie.
TokenOf(entry) == <<entry[1], [entry[2] EXCEPT !.is_token = TRUE]>>
CountsSubtype(pair) ==
  NeedsTokenSacBootstrap(pair) /\ \E o \in pair : SubtypeToken(Cards[o]) # {}
SubtypeTokens(l, r) ==
  LET e == The(IF SubtypeToken(Cards[l]) # {} THEN SubtypeToken(Cards[l]) ELSE SubtypeToken(Cards[r]))
      plain == Copies(3, "subtype_seed_", e.oracle, e.words)
  IN IfSo(CountsSubtype({l, r}), [i \in DOMAIN plain |-> TokenOf(plain[i])])
SeedToken(pair) ==
  LET fodder == (Asks(pair, "sac_token") \/ NeedsTokenSacBootstrap(pair)) /\ ~CountsSubtype(pair)
  IN IF \E o \in pair : NeedsZombieGate(Cards[o])
     THEN <<TokenOf(Fodder("seed", "token:zombie-seed", {"zombie"}, 1, 1))>>
     ELSE IfSo(fodder, <<TokenOf(Fodder("seed", "token:seed", {"seed"}, 1, 1))>>)
AuraHost(pair, board) ==
  IfSo(/\ \E o \in pair : NeedsCreatureHost(Cards[o])
       /\ \A i \in DOMAIN board : ~board[i][2].is_creature,
       <<Fodder("aura-host", "setup:aura-host", {"aura", "host"}, 1, 1)>>)

\* Mana dorks for what is cast again and again; a host and a creature in hand for an instant.
Dorks(n) == Copies(n, "mana_dork_", "seed:mana-dork", {"seed", "mana", "dork"})
BounceSeed(id, zone) ==
  <<id, [Fodder(id, "seed:bounce", {"seed", "bounce"}, 1, 1)[2] EXCEPT !.zone = zone]>>
CastFodder(pair) ==
  LET bouncers == {o \in pair : HasEtbBounceToHand(Cards[o])}
  IN CASE ~AlarmIn(pair) -> <<>>
       [] InstantGrantIn(pair) /\ AlarmIn(pair) ->
            Dorks(3) \o <<Fodder("grant-host", "seed:grant-host", {"grant", "host"}, 1, 1),
                          BounceSeed("bounce_seed", "hand")>>
       [] OTHER ->
            IF bouncers # {} /\ ~FreeCastIn(pair)
            THEN Dorks(Greatest({3} \cup {Cards[o].mana_value : o \in bouncers}))
            ELSE IfSo(\E o \in pair : HasActivatedBounceOther(Cards[o]), Dorks(5))
CloudstoneFodder(pair, board) ==
  LET creatureIn(zone) == \E i \in DOMAIN board : board[i][2].is_creature /\ board[i][2].zone = zone
  IN IfSo(CloudstoneIn(pair) /\ FreeCastIn(pair),
          IfSo(~creatureIn("hand"), <<BounceSeed("cloudstone_cast_seed", "hand")>>)
          \o IfSo(~creatureIn("battlefield"), <<BounceSeed("cloudstone_bf_seed", "battlefield")>>))
BasicLand(pair) ==
  IfSo(EarthcraftIn(pair) \/ \E o \in pair : NeedsLandHost(Cards[o]),
       IF \E o \in pair : NeedsWhiteBasicLand(Cards[o])
       THEN <<Entry("basic_plains", "seed:plains", {"seed", "plains"}, <<>>)>>
       ELSE <<Entry("basic_island", "seed:island", {"seed", "island"}, <<>>)>>)

\* What scaled and gated mana abilities count.
ScaledFodder(pair) ==
  IfSo(Offers(pair, "mana_scale_creature"),
       Copies(3, "scaled_creature_", "seed:creature", {"seed", "creature"}))
  \o IfSo(Offers(pair, "mana_scale_elf"), Copies(3, "scaled_elf_", "seed:elf", {"seed", "elf"}))
  \o IfSo(Offers(pair, "mana_scale_defender"),
          [i \in 1..3 |-> Fodder("scaled_defender_" \o ToString(i - 1), "seed:defender",
                                 {"seed", "defender"}, 0, 4)])
Artifacts(n, id, oracle, zone) ==
  [i \in 1..n |-> Entry(id \o ToString(i - 1), oracle, {"seed", "artifact"},
                        [is_artifact |-> TRUE, zone |-> zone])]
GatedFodder(pair, board) ==
  LET have == Cardinality({i \in DOMAIN board : board[i][2].is_artifact /\ OnBattlefield(board[i][2])})
  IN IfSo(Offers(pair, "mana_scale_hand_artifact"),
          Artifacts(3, "hand_artifact_", "seed:hand-artifact", "hand"))
     \o IfSo(Asks(pair, "metalcraft"),
             Artifacts(NonNegative(3 - have), "metalcraft_artifact_", "seed:metalcraft", "battlefield"))
     \o IfSo(Asks(pair, "ferocious_power"),
             <<Fodder("ferocious_creature", "seed:ferocious", {"seed", "ferocious"}, 4, 4)>>)
     \o IfSo(Asks(pair, "tap_creature_pair"),
             <<Fodder("tap_pair_creature", "seed:tap-pair", {"seed", "tap-pair"}, 1, 1)>>)

\* The mana that pays for the first time round.
RockMana(o, pair) ==
  IF CastBounceIn(pair) /\ "artifact" \in Cards[o].types /\ "creature" \notin Cards[o].types
  THEN Cards[o].mana_value ELSE 0
SeedMana(l, r) ==
  LET seeds(o, color) == SumOver(ManaForGrantLifelink(Cards[o]), LAMBDA m : m[color])
                         + SumOver(ManaForSubtypeCreate(Cards[o]), LAMBDA m : m[color])
      cash == RockMana(l, {l, r}) + RockMana(r, {l, r})
              + (IF NeedsEchoesBootstrap({l, r}) THEN 2 ELSE 0)
  IN [color \in Fields |-> seeds(l, color) + seeds(r, color) + IF color = "colorless" THEN cash ELSE 0]

WithTokens(l, r) == Pieces(l, r) \o SubtypeTokens(l, r)
WithFodder(pair, board) == board \o SeedToken(pair) \o AuraHost(pair, board) \o CastFodder(pair)
WithLand(pair, board) ==
  board \o CloudstoneFodder(pair, board) \o BasicLand(pair) \o ScaledFodder(pair)
WithGates(pair, board) == board \o GatedFodder(pair, board)
Placed(l, r) ==
  WithGates({l, r}, WithLand({l, r}, WithFodder({l, r}, WithTokens(l, r))))
SpecOf(placed, mana) ==
  [InitialStateSpec([i \in DOMAIN placed |-> placed[i][1]],
                    [id \in {placed[i][1] : i \in DOMAIN placed} |->
                       placed[CHOOSE i \in DOMAIN placed : placed[i][1] = id][2]])
     EXCEPT !.mana = mana]
DefaultInitialState(l, r) == SpecOf(Placed(l, r), SeedMana(l, r))

=============================================================================
