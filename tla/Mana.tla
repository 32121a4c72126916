-------------------------------- MODULE Mana --------------------------------
(***************************************************************************)
(* Mana amounts and the payment of a mana cost: ManaAmount of              *)
(* semantics/ir.py and Executor.pay_mana of rules/executor.py.             *)
(*                                                                         *)
(* A purse holds the two pools of a game state: mana, which pays anything, *)
(* and mana_activate_only, which pays activated abilities only.  The code  *)
(* pays a cost colour by colour and changes the pools in place, so a       *)
(* payment that fails has already spent what it could; the operators keep  *)
(* that, and the result carries the drained purse beside the status.       *)
(***************************************************************************)
EXTENDS Integers

WUBRG == {"white", "blue", "black", "red", "green"}
Pips == WUBRG \cup {"colorless"}

\* The fields of a ManaAmount, as a pool and as a cost.
Fields == Pips \cup {"generic", "any_color"}
ManaAmount == [Fields -> Nat]
NoMana == [f \in Fields |-> 0]

Total(a) == a["white"] + a["blue"] + a["black"] + a["red"] + a["green"]
            + a["colorless"] + a["generic"] + a["any_color"]

\* What can leave a pool: the field "generic" of a pool is never spent.
Spendable(a) == Total(a) - a["generic"]

Least(a, b) == IF a <= b THEN a ELSE b

Purse == [mana : ManaAmount, aux : ManaAmount, status : {"ok", "mana_restriction", "resource_deficit"}]
PurseOf(mana, aux) == [mana |-> mana, aux |-> aux, status |-> "ok"]
Worth(w) == Spendable(w.mana) + Spendable(w.aux)

-----------------------------------------------------------------------------
(* Taking mana out of one field.  d is a pool and what is left to pay.     *)

\* Mutant: what is left to pay is taken without a look at what is there.
DrainField_Unbounded(d, f) ==
  [pool |-> [d.pool EXCEPT ![f] = @ - d.left], left |-> 0]

Taken(d, f, used) == [pool |-> [d.pool EXCEPT ![f] = d.pool[f] - used], left |-> d.left - used]
DrainField(d, f) == Taken(d, f, Least(d.pool[f], d.left))

\* One field of both pools, the first pool first.  t holds the pools and what is left to pay.
BothPools(first, second) == [mana |-> first.pool, aux |-> second.pool, left |-> second.left]
DrainSecond(first, aux, f) == BothPools(first, DrainField([pool |-> aux, left |-> first.left], f))
DrainBoth(t, f) == DrainSecond(DrainField([pool |-> t.mana, left |-> t.left], f), t.aux, f)

\* The purse t leaves behind; what is still left to pay is a failure of the given kind.
Outcome(t, failure) ==
  [mana |-> t.mana, aux |-> t.aux, status |-> IF t.left = 0 THEN "ok" ELSE failure]

-----------------------------------------------------------------------------
(* One round of the colour loop: n pips of colour c are taken from that    *)
(* colour of the pools, and what is still missing from their any_color.    *)
ExactPips(w, c, n) == DrainBoth([mana |-> w.mana, aux |-> w.aux, left |-> n], c)

\* Mutant: any_color mana of the second pool is never used.
PayPip_OnePool(w, c, n) ==
  LET exact == ExactPips(w, c, n)
      wild  == DrainField([pool |-> exact.mana, left |-> exact.left], "any_color")
  IN IF w.status # "ok" THEN w
     ELSE Outcome([mana |-> wild.pool, aux |-> exact.aux, left |-> wild.left], "mana_restriction")

\* Mutant: any_color mana of the second pool pays and stays.
PayPip_KeepsWild(w, c, n) ==
  LET exact == ExactPips(w, c, n)
      wild  == DrainBoth(exact, "any_color")
  IN IF w.status # "ok" THEN w
     ELSE Outcome([wild EXCEPT !.aux = exact.aux], "mana_restriction")

PayPip(w, c, n) ==
  IF w.status # "ok" THEN w
  ELSE Outcome(DrainBoth(ExactPips(w, c, n), "any_color"), "mana_restriction")

PayPips(w, need) ==
  LET w1 == PayPip(w,  "white", need["white"])
      w2 == PayPip(w1, "blue",  need["blue"])
      w3 == PayPip(w2, "black", need["black"])
      w4 == PayPip(w3, "red",   need["red"])
      w5 == PayPip(w4, "green", need["green"])
  IN PayPip(w5, "colorless", need["colorless"])

\* The coloured mana of one pool, in the order of the generic loop.
DrainColors(d) ==
  LET d1 == DrainField(d, "white")
      d2 == DrainField(d1, "blue")
      d3 == DrainField(d2, "black")
      d4 == DrainField(d3, "red")
  IN DrainField(d4, "green")

\* The generic loop over one pool: colourless, the colours, any_color.
Drain(pool, n) ==
  DrainField(DrainColors(DrainField([pool |-> pool, left |-> n], "colorless")), "any_color")

DrainAfter(first, aux) == BothPools(first, Drain(aux, first.left))
DrainPools(w, n) == DrainAfter(Drain(w.mana, n), w.aux)

\* Mutant: generic mana that is missing is reported as a colour that is missing.
PayGeneric_Misnamed(w, n) ==
  IF w.status # "ok" THEN w ELSE Outcome(DrainPools(w, n), "mana_restriction")

PayGeneric(w, n) ==
  IF w.status # "ok" THEN w ELSE Outcome(DrainPools(w, n), "resource_deficit")

\* Mutant: the second pool pays for everything.
PayMana_IgnoresAllow(mana, aux, need, allow) ==
  PayGeneric(PayPips(PurseOf(mana, aux), need), need["generic"])

\* pay_mana: the second pool takes part only when activate-only mana is allowed.
Reserve(paid, aux, allow) == IF allow THEN paid ELSE [paid EXCEPT !.aux = aux]
PayMana(mana, aux, need, allow) ==
  Reserve(PayGeneric(PayPips(PurseOf(mana, IF allow THEN aux ELSE NoMana), need), need["generic"]),
          aux, allow)

=============================================================================
