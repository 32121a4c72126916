------------------------------ MODULE MCVerifier ------------------------------
(* Witnesses for the verifier: all short loops over the steps of a board, as *)
(* the search writes them and as a person might, and each header once that   *)
(* a gate refuses.                                                           *)
EXTENDS Verifier, BoardCards

\* Once per turn: add {G}.
Bell ==
  Card({"artifact"}, NoMana, 2,
       <<[ActMana("ring", <<>>, <<Add("green", 1)>>) EXCEPT !.once_per_turn = TRUE]>>)
\* A card with a line that is not understood.
Enigma == Card({"artifact"}, NoMana, 2, <<[Act("riddle", <<>>, <<>>) EXCEPT !.supported = FALSE]>>)

AllCards ==
  ("altar" :> Altar) @@ ("crawler" :> Crawler) @@ ("artist" :> Artist) @@ ("gond" :> Gond)
  @@ ("guard" :> Guard) @@ ("druid" :> Druid) @@ ("vizier" :> Vizier) @@ ("bell" :> Bell)
  @@ ("dork" :> Dork) @@ ("displacer" :> Displacer) @@ ("hub" :> Hub) @@ ("enigma" :> Enigma)
MCTokenIds == <<"token-1", "token-2", "token-3", "token-4", "token-5", "token-6", "token-7",
                "token-8", "token-9">>
MCObjectIds ==
  <<"altar", "artist", "bell", "crawler", "displacer", "dork", "druid", "gond", "guard", "hub">>
  \o MCTokenIds \o <<"vizier">>

On(perm) == With(Permanent, perm)
Board(ids, perms) == InitialStateSpec(ids, perms)
Do(actor, ability) == Step("activate", actor, ability, NoId, NoId)
At2(actor, ability, target) == Step("activate", actor, ability, target, NoId)
ResolveNext == Step("resolve_trigger", NoId, NoAbility, NoId, NoId)
Sac(id) == Step("sacrifice", id, NoAbility, NoId, NoId)

Graves ==
  [spec |-> Board(<<"altar", "crawler", "artist">>,
              ("altar" :> On(Artifact("altar"))) @@ ("artist" :> On(Noncreature("artist")))
              @@ ("crawler" :> On(Creature("crawler", 2, 1)))),
   steps |-> {At2("altar", "altar", "crawler"), Do("crawler", "crawl"), ResolveNext}]
Enters ==
  [spec |-> Board(<<"guard", "gond">>,
              ("guard" :> On(Creature("guard", 2, 3))) @@ ("gond" :> On(Noncreature("gond")))),
   steps |-> {At2("gond", "gond", "guard"), ResolveNext, Sac("guard")}]
Counts ==
  [spec |-> Board(<<"druid", "vizier", "bell">>,
              ("druid" :> On(Creature("druid", 0, 2))) @@ ("vizier" :> On(Creature("vizier", 2, 1)))
              @@ ("bell" :> On(Artifact("bell")))),
   steps |-> {Do("druid", "druid-mana"), Do("druid", "druid-untap"), Do("bell", "ring"), Sac("vizier")}]
Sick ==
  [spec |-> Board(<<"displacer", "dork">>,
              ("displacer" :> On(Creature("displacer", 3, 3))) @@ ("dork" :> On(Creature("dork", 1, 1)))),
   steps |-> {Do("dork", "dork"), At2("displacer", "blink", "dork")}]
Hidden ==
  [spec |-> Board(<<"hub">>, ("hub" :> On(Artifact("hub")))),
   steps |-> {Do("hub", "study"), Do("hub", "burn")}]

Boards == ("graves" :> Graves) @@ ("enters" :> Enters) @@ ("counts" :> Counts) @@ ("sick" :> Sick)
          @@ ("hidden" :> Hidden)

-----------------------------------------------------------------------------
(* Witnesses *)
OraclesOf(spec) == {spec.permanents[id].oracle : id \in DOMAIN spec.permanents}
Witness(board, setup, loop) ==
  [initial_state |-> board.spec, setup_actions |-> setup, loop_actions |-> loop,
   card_semantics |-> OraclesOf(board.spec), essential_cards |-> OraclesOf(board.spec),
   essential_card_count |-> 2, functional_external_requirements |-> FALSE,
   deterministic |-> TRUE, semantic_coverage |-> "complete", relevant_state |-> <<>>,
   expected_outputs |-> {}, expected_net_state |-> None, expected_claim_consequence |-> None]

\* build_witness: what the search writes for a lap that runs from the state b to the state a.
Written(board, setup, loop, b, a) ==
  [Witness(board, setup, loop) EXCEPT
     !.relevant_state = DeriveRelevantState(board.spec, b, loop),
     !.expected_outputs = DeriveOutputs(b, a)]
SearchWitness(board, setup, loop) ==
  LET run[n \in 0..1] == RunSequence(IF n = 0 THEN FromSpec(board.spec) ELSE run[0].st,
                                     IF n = 0 THEN setup ELSE loop)
  IN Written(board, setup, loop, run[0].st, run[1].st)

LapsOf(board, n) == UNION {[1..k -> Boards[board].steps] : k \in 1..n}
Setups(board) == {<<>>} \cup {<<step>> : step \in Boards[board].steps}

\* What the search would write for the laps of a board with at most n steps.
Searched(board, n) ==
  {SearchWitness(Boards[board], lap.setup, lap.loop) :
     lap \in [setup : Setups(board), loop : LapsOf(board, n)]}
AllSearched ==
  UNION {Searched(board, IF board = "counts" THEN 3 ELSE 4) : board \in {"graves", "enters", "counts"}}
AllHidden == UNION {Searched(board, IF board = "sick" THEN 2 ELSE 1) : board \in {"sick", "hidden"}}

\* Written by hand: one output, and few dimensions or wrong ones.
Dimensions ==
  <<<<>>, (PendingPath :> Dim(Minimum, Some(0))),
    (UsedPath("bell", "ring") :> Dim(Exact, Some(TRUE))) @@ (PendingPath :> Dim(Maximum, Some(2))),
    (CounterPath("druid", "m1m1") :> Dim(Minimum, None))
      @@ (<<"mana", "green">> :> Dim(Minimum, Some(1))) @@ (<<"life", "you">> :> Dim(Maximum, None)),
    (PermanentPath("token-1", "zone") :> Dim(Exact, None)),
    (<<"count", "battlefield", "creatures">> :> Dim(Exact, None))
      @@ (<<"events", "untap">> :> Dim(Minimum, Some(1)))>>
ByHand(board, n) ==
  {[Witness(Boards[board], <<>>, lap.loop) EXCEPT
      !.relevant_state = Dimensions[lap.dims],
      !.expected_outputs = {[type |-> lap.key, delta |-> 1]}] :
     lap \in [loop : LapsOf(board, n), dims : DOMAIN Dimensions, key : {"mana", "token"}]}
\* A loop, and what the gates and the last two checks do with it under other headers.
Good ==
  [Witness(Enters, <<>>, <<At2("gond", "gond", "guard"), ResolveNext>>) EXCEPT
     !.relevant_state = [path \in {PermanentPath(id, a) : id \in {"gond", "guard"},
                                                          a \in {"zone", "tapped"}} |->
                           Dim(Exact, None)],
     !.expected_outputs = {[type |-> key, delta |-> 1] : key \in {"token", "etb", "untap"}}]
LinkSeed == Step("seed_grant_lifelink", "gond", NoAbility, "guard", NoId)
Headers ==
  <<Good,
   [Good EXCEPT !.deterministic = FALSE],
   [Good EXCEPT !.setup_actions = <<LinkSeed>>],
   [Good EXCEPT !.setup_actions = <<LinkSeed>>, !.essential_cards = {"gond", "homebrew"}],
   [Good EXCEPT !.semantic_coverage = "partial_relevant_to_proof"],
   [Good EXCEPT !.semantic_coverage = "partial_irrelevant_to_proof"],
   [Good EXCEPT !.card_semantics = @ \cup {"enigma"}],
   [Good EXCEPT !.functional_external_requirements = TRUE],
   [Good EXCEPT !.essential_card_count = 3],
   [Good EXCEPT !.relevant_state = (<<"mana", "plaid">> :> Dim(Exact, None))],
   [Good EXCEPT !.expected_outputs = {}],
   [Good EXCEPT !.expected_outputs = {[type |-> "token", delta |-> 2]}],
   [Good EXCEPT !.expected_net_state =
      Some([mana |-> NoMana, life_you |-> 0, life_opponent |-> 0, creature_tokens |-> 1,
            plus_one_counters |-> 0])],
   [Good EXCEPT !.expected_net_state =
      Some([mana |-> NoMana, life_you |-> 1, life_opponent |-> 0, creature_tokens |-> 1,
            plus_one_counters |-> 0])],
   [Good EXCEPT !.expected_claim_consequence = Some("ACCUMULATES")],
   [Good EXCEPT !.expected_claim_consequence = Some("LETHAL")],
   [Good EXCEPT !.expected_claim_consequence = Some("DRAW_GAME")]>>

AllByHand ==
  UNION {ByHand(board, 3) : board \in {"graves", "enters", "counts"}}
    \cup {Headers[i] : i \in DOMAIN Headers}

AllLoops == AllByHand \cup AllSearched

\* TLC keeps the value of a definition, but evaluates the body of one that replaces a constant
\* at every use: the bodies are names.
MCCards == AllCards
LoopCorpus == AllLoops
HiddenCorpus == AllHidden
MCExactOracles == {"gond", "guard", "altar", "crawler"}

=============================================================================
