------------------------------- MODULE PairCards -------------------------------
(***************************************************************************)
(* Cards for the search: the printed texts of cards of well-known loops,   *)
(* after semantics/real_oracle_curriculum.py and oracle_fixtures.py.       *)
(***************************************************************************)
EXTENDS OracleText, Sequences

Say(says) == [Sentence EXCEPT !.says = says]
For(price, says) == [Sentence EXCEPT !.price = price, !.says = says]
Making(sentence, name, words) == [sentence EXCEPT !.token = [name |-> name, words |-> words, pt |-> <<1, 1>>]]
Paying(symbols, says) == For(<<symbols>>, says)
Adding(sentence, symbols) == [sentence EXCEPT !.symbols = symbols]
Number(sentence, n) == [sentence EXCEPT !.n = n]
\* One sentence to a line.
Lines(sentences) == [i \in DOMAIN sentences |-> <<sentences[i]>>]
Face(types, cost, sentences) ==
  [Printed EXCEPT !.types = types, !.mana_cost = cost, !.text = Lines(sentences)]
Enchantment(sentences) == Face({"enchantment"}, <<"3">>, sentences)
Critter(cost, sentences) == Face({"creature"}, cost, sentences)
Device(cost, sentences) == Face({"artifact"}, cost, sentences)

-----------------------------------------------------------------------------
(* Texts *)
Bond == Enchantment(<<Say("whenever you gain life, an opponent loses that much life")>>)
Blood == Enchantment(<<Say("whenever an opponent loses life, you gain that much life")>>)
Crank == Device(<<"2">>, <<Say("whenever an opponent loses life, that player mills a card")>>)
Ascension ==
  Enchantment(<<Say("at the beginning of each end step"),
    Number(Say("enchantments have: whenever a card is put into an opponent's graveyard, that player loses life"), 2)>>)
Artist == Critter(<<"1", "B">>, <<Number(Say("whenever a creature dies, each opponent loses life"), 1)>>)
Bless == Say("whenever you gain life, put a +1/+1 counter on target creature or enchantment")
Heliod ==
  Face({"legendary", "enchantment", "creature", "god"}, <<"2", "W">>,
        <<Say("indestructible"), Say("isn't a creature below that devotion"), Bless,
          Paying(<<"1", "W">>, "another target creature gains lifelink")>>)
\* Heliod without the last line.
Shepherd == Critter(<<"2", "W">>, <<Bless>>)
Ballista ==
  Face({"artifact", "creature", "construct"}, <<"X", "X">>,
        <<Say("this creature enters with X +1/+1 counters on it"),
          Paying(<<"4">>, "put a +1/+1 counter on this"),
          For(<<<<"remove a +1/+1 counter from this">>>>, "1 damage to any target")>>)
Shalai ==
  Critter(<<"2", "R", "G", "W">>, <<Say("flying, vigilance"),
    Say("whenever +1/+1 counters are put on a creature you control, that much damage to an opponent")>>)

Aluren == Enchantment(<<Number(Say("any player may cast cheap creature spells without paying"), 3)>>)
DrakeReturns == Say("when this enters, return a creature you control")
Harpy == Critter(<<"U">>, <<Say("flying"), DrakeReturns>>)
\* The same for a mana value that Aluren does not take and more mana than the dorks make.
Roc == Critter(<<"4">>, <<Say("flying"), DrakeReturns>>)
Cloudstone ==
  Device(<<"3">>, <<Say("whenever a nonartifact you control enters, return another of its types")>>)
Tyrant == Critter(<<"5", "U", "U", "U">>, <<Say("flying"), Say("whenever you cast a spell, return target permanent")>>)
SolRing == Device(<<"1">>, <<Adding(For(<<<<"T">>>>, "add"), <<"C", "C">>)>>)
Mox == Device(<<"0">>, <<For(<<<<"T">>>>, "add one mana of any color if three artifacts")>>)
Alarm ==
  Enchantment(<<Say("creatures don't untap during their untap steps"),
                Say("whenever a creature enters, untap all creatures")>>)
Helix == Face({"instant"}, <<"U">>, <<Say("target creature gains {T}: return target nonland permanent")>>)
Nest ==
  Face({"enchantment", "aura"}, <<"1", "G", "G">>,
        <<Say("enchant land"), Making(Say("enchanted land has {T}: create a token"), "green squirrel", {"green", "squirrel"})>>)
Gond ==
  Face({"enchantment", "aura"}, <<"2", "G">>,
        <<Say("enchant creature"),
          Making(Say("enchanted creature has {T}: create a token"), "green elf warrior", {"green", "elf", "warrior"})>>)
Earthcraft == Enchantment(<<For(<<<<"tap an untapped creature">>>>, "untap target basic land")>>)

Altar == Device(<<"3">>, <<For(<<<<"sacrifice a creature">>>>, "add one mana of any color")>>)
Ashnod == Device(<<"3">>, <<Adding(For(<<<<"sacrifice a creature">>>>, "add"), <<"C", "C">>)>>)
Crawler ==
  Face({"creature", "zombie"}, <<"B">>,
        <<Say("this creature can't block"), Say("you may cast this from your graveyard if you control a zombie")>>)
Druid ==
  Face({"creature", "elf", "druid"}, <<"1", "G">>,
        <<Adding(For(<<<<"T">>>>, "add"), <<"G">>), For(<<<<"put a -1/-1 counter on this">>>>, "untap this")>>)
Vizier == Critter(<<"1", "W">>, <<Say("-1/-1 counters put on a creature you control are one fewer")>>)
UntapOnEntry == Say("whenever another creature enters, untap this")
Guard == Face({"creature", "human", "soldier"}, <<"2", "W">>, <<UntapOnEntry>>)
Queen == Critter(<<"5">>, <<Making(Paying(<<"2">>, "create a token"), "colorless sliver", {"colorless", "sliver"})>>)
Warren == Enchantment(<<Making(Paying(<<"2">>, "create a token for each of them"), "goblin", {"goblin"})>>)
Apprentice ==
  Critter(<<"2">>, <<Making(For(<<<<"T">>>>, "create a token. untap this"), "homunculus", {"homunculus"})>>)
Rosie ==
  Critter(<<"2", "W">>, <<Say("when this enters, create a food token"),
    Say("whenever you create a token, put a +1/+1 counter on another creature")>>)
Scurry ==
  Critter(<<"2", "G">>, <<Say("evolve"),
    Making(Say("whenever +1/+1 counters are put on this, create a token"), "squirrel", {"squirrel"})>>)
Archdruid ==
  Face({"creature", "elf", "druid"}, <<"1", "G", "G">>,
        <<Say("other elf creatures get +1/+1"), For(<<<<"T">>>>, "add {G} for each elf")>>)
Circle == Critter(<<"G", "G", "G">>, <<For(<<<<"T">>>>, "add {G} for each creature")>>)
Staff ==
  LET Tapping(generic, says) == For(<<<<generic>>, <<"T">>>>, says)
  IN Device(<<"3">>, <<Paying(<<"1">>, "untap this"), Tapping("2", "you gain life"),
                       Tapping("3", "untap target creature"), Tapping("4", "tap target creature"),
                       Tapping("5", "draw cards")>>)

\* Guards with more text: a line of its own, and one that goes on with the line before it.
Enigma == [Guard EXCEPT !.text = Append(@, <<Say("roll a die")>>)]
GoesOn == <<[Say("then roll a die") EXCEPT !.opens = FALSE, !.letters = TRUE]>>
Riddle == [Guard EXCEPT !.text = Append(@, GoesOn)]
\* Behind a line that is irrelevant, whatever follows it.
Omen == [Guard EXCEPT !.text = @ \o <<<<Say("at the beginning of each end step")>>, GoesOn>>]
Charm == [Gond EXCEPT !.text = <<Gond.text[1], GoesOn, Gond.text[2]>>]
\* {E}: you gain 1 life.
Vial == Device(<<"2">>, <<Paying(<<"E">>, "you gain life")>>)

-----------------------------------------------------------------------------
PrintedTexts ==
  ("alarm" :> Alarm) @@ ("altar" :> Altar) @@ ("aluren" :> Aluren) @@ ("apprentice" :> Apprentice)
  @@ ("archdruid" :> Archdruid) @@ ("artist" :> Artist) @@ ("ascension" :> Ascension)
  @@ ("ashnod" :> Ashnod) @@ ("ballista" :> Ballista) @@ ("blood" :> Blood) @@ ("bond" :> Bond)
  @@ ("circle" :> Circle) @@ ("cloudstone" :> Cloudstone) @@ ("crank" :> Crank)
  @@ ("crawler" :> Crawler) @@ ("druid" :> Druid) @@ ("earthcraft" :> Earthcraft)
  @@ ("enigma" :> Enigma) @@ ("gond" :> Gond) @@ ("guard" :> Guard) @@ ("harpy" :> Harpy)
  @@ ("charm" :> Charm) @@ ("heliod" :> Heliod) @@ ("helix" :> Helix) @@ ("mox" :> Mox)
  @@ ("nest" :> Nest) @@ ("omen" :> Omen)
  @@ ("queen" :> Queen) @@ ("riddle" :> Riddle) @@ ("roc" :> Roc) @@ ("rosie" :> Rosie)
  @@ ("scurry" :> Scurry) @@ ("shalai" :> Shalai) @@ ("shepherd" :> Shepherd)
  @@ ("solring" :> SolRing) @@ ("staff" :> Staff) @@ ("tyrant" :> Tyrant) @@ ("vial" :> Vial)
  @@ ("vizier" :> Vizier) @@ ("warren" :> Warren)

=============================================================================
