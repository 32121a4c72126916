--------------------------------- MODULE Seeds ---------------------------------
(***************************************************************************)
(* The semantics of the generic permanents that the search puts beside the *)
(* two cards of a pair (search/explorer.py).                               *)
(***************************************************************************)
EXTENDS IR, TLC

SeedCard(types) == [CardSemantics EXCEPT !.types = types]
TapFor1(types, id, color) ==
  [SeedCard(types) EXCEPT !.abilities =
     <<[ActivatedAbility EXCEPT !.ability_id = id, !.costs = <<TapCost>>, !.is_mana_ability = TRUE,
          !.effects = <<[AddManaEffect EXCEPT !.amount[color] = 1]>>]>>]

ManaDorkSeed == TapFor1({"creature"}, "seed-tap-mana", "any_color")
BasicIslandSeed == TapFor1({"basic", "land", "island"}, "seed-island-tap", "blue")
BasicPlainsSeed == TapFor1({"basic", "land", "plains"}, "seed-plains-tap", "white")
BounceCreatureSeed ==
  [SeedCard({"creature"}) EXCEPT !.mana_cost["generic"] = 1, !.mana_value = 1]
ScaledManaSeeds ==
  ("seed:creature" :> SeedCard({"creature"})) @@ ("seed:elf" :> SeedCard({"creature", "elf"}))
  @@ ("seed:defender" :> [SeedCard({"creature"}) EXCEPT !.abilities =
        <<[ProofIrrelevantStatic EXCEPT !.ability_id = "seed-defender-static",
                                        !.clause = "defender"]>>])
  @@ ("seed:hand-artifact" :> SeedCard({"artifact"}))
  @@ ("seed:metalcraft" :> SeedCard({"artifact"}))
  @@ ("seed:ferocious" :> SeedCard({"creature"})) @@ ("seed:tap-pair" :> SeedCard({"creature"}))

\* _inject_seed_semantics.  The code gives the aura host the oracle id of the grant host, and
\* semantics only beside one; here the grant host has an id of its own.
SeedSemantics ==
  ScaledManaSeeds @@ ("token:zombie-seed" :> SeedCard({"creature", "zombie"}))
  @@ ("seed:mana-dork" :> ManaDorkSeed) @@ ("seed:island" :> BasicIslandSeed)
  @@ ("seed:plains" :> BasicPlainsSeed) @@ ("seed:bounce" :> BounceCreatureSeed)
  @@ ("seed:grant-host" :> SeedCard({"creature"}))

=============================================================================
