------------------------------- MODULE MCSearch -------------------------------
(* Pools of cards whose pairs need each kind of board and of seed the search *)
(* can set up, with pairs between them that are no loop.                     *)
EXTENDS Search, PairCards

Compiling == INSTANCE Compiler WITH Texts <- PrintedTexts
MCCards == Compiling!CompiledCards @@ SeedSemantics
AllTokenIds ==
  <<"token-01", "token-02", "token-03", "token-04", "token-05", "token-06", "token-07", "token-08",
    "token-09", "token-10", "token-11", "token-12">>
AllObjectIds ==
  <<"aura-host", "basic_island", "basic_plains", "bounce_seed", "c0", "c1",
    "cloudstone_bf_seed", "cloudstone_cast_seed", "ferocious_creature", "grant-host",
    "hand_artifact_0", "hand_artifact_1", "hand_artifact_2", "mana_dork_0", "mana_dork_1",
    "mana_dork_2", "mana_dork_3", "mana_dork_4", "mana_dork_5", "mana_dork_6",
    "mana_dork_7", "metalcraft_artifact_0", "metalcraft_artifact_1",
    "metalcraft_artifact_2", "scaled_creature_0", "scaled_creature_1", "scaled_creature_2",
    "scaled_defender_0", "scaled_defender_1", "scaled_defender_2", "scaled_elf_0",
    "scaled_elf_1", "scaled_elf_2", "seed", "subtype_seed_0", "subtype_seed_1",
    "subtype_seed_2", "tap_pair_creature", "token-01", "token-02", "token-03", "token-04",
    "token-05", "token-06", "token-07", "token-08", "token-09", "token-10", "token-11",
    "token-12">>
MCObjectIds == AllObjectIds
AllPrintedPT == ("ballista" :> <<0, 0>>) @@ ("guard" :> <<2, 3>>) @@ ("druid" :> <<0, 2>>)
               @@ ("heliod" :> <<5, 5>>) @@ ("harpy" :> <<1, 1>>)
AllExactOracles == {"alarm", "ballista", "blood", "bond", "gond", "guard", "heliod", "helix"}

CollapsingPools == {<<"earthcraft", "gond">>}
FreePools == {<<"bond", "vial">>}
JoinedPools == {<<"gond", "guard", "omen">>, <<"charm", "guard">>}
AllPools ==
  {<<"altar", "artist", "crawler", "enigma", "gond", "guard", "riddle">>, <<"blood", "bond", "druid", "vizier">>,
   <<"ballista", "druid", "heliod", "shalai">>, <<"ballista", "shalai", "shepherd">>,
   <<"aluren", "cloudstone", "earthcraft", "harpy", "nest">>, <<"alarm", "harpy", "helix", "roc">>,
   <<"apprentice", "mox", "solring", "tyrant">>, <<"ashnod", "queen", "warren">>, <<"rosie", "scurry">>,
   <<"ascension", "crank">>, <<"archdruid", "circle", "staff">>}
MCPools == AllPools
MCTokenIds == AllTokenIds
MCPrintedPT == AllPrintedPT
MCExactOracles == AllExactOracles

-----------------------------------------------------------------------------
\* Of the cards of a hit everything has been understood: each sentence printed on them is matched
\* on its own, and the ability it stands for is one of the card's (patterns/README.md:43, "Miss =>
\* unsupported fragment => fail-closed relevant coverage at compile time").  Not so behind a
\* clause that is irrelevant with whatever follows it: JoinedPools.
SentencesOf(o) == UNION {ToSet(line) : line \in ToSet(PrintedTexts[o].text)}
HitsUnderstood ==
  phase = "found" =>
    \A o \in {pair[1], pair[2]} : \A s \in SentencesOf(o) :
      Compiling!TryMatch(<<s>>) # None /\ The(Compiling!TryMatch(<<s>>)) \in ToSet(Cards[o].abilities)

\* Of the abilities of a hit's cards nothing printed in braces before the colon is lost: the costs
\* come to as much as the symbols (patterns/README.md:125, "never invent a partial ability").
Sum(f, over) == FoldLeft(LAMBDA total, x : total + f[x], 0, over)
Printing(s) ==
  LET worth == [x \in Symbols |-> IF x \in DOMAIN Digits THEN Digits[x] ELSE 1]
  IN FoldLeft(LAMBDA total, part : total + Sum(worth, part), 0, s.price)
Bill(costs) ==
  FoldLeft(LAMBDA total, cost : total + (IF cost.kind = "mana" THEN Total(cost.amount) ELSE 1), 0, costs)
PriceKept ==
  phase = "found" =>
    \A o \in {pair[1], pair[2]} : \A s \in SentencesOf(o) :
      \A ability \in Compiling!TryMatch(<<s>>) :
        (s.price # <<>> /\ \A i \in DOMAIN s.price : Compiling!InBraces(s.price[i]))
          => Bill(ability.costs) = Printing(s)

=============================================================================
