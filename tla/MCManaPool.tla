------------------------------ MODULE MCManaPool ------------------------------
(* A small instance of ManaPool: white, colourless and any_color mana, and  *)
(* costs that mix pips with generic mana.  To the loop over the pips         *)
(* colourless is one more colour; only the generic loop sets it apart.       *)
EXTENDS ManaPool

Cost(white, colorless, generic) ==
  [NoMana EXCEPT !["white"] = white, !["colorless"] = colorless, !["generic"] = generic]

MCOpening == [NoMana EXCEPT !["any_color"] = 1]
MCNeeds == {Cost(1, 0, 0), Cost(1, 1, 1), Cost(2, 1, 0), Cost(0, 1, 2), Cost(0, 0, 3)}
MCColors == {"white", "colorless", "any_color"}

=============================================================================
