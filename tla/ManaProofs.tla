------------------------------ MODULE ManaProofs ------------------------------
(***************************************************************************)
(* What the payment of mana guarantees for every opening pool, every cost  *)
(* and every bound: the pools stay natural, a spell leaves the             *)
(* activate-only pool alone, and a payment takes its price and no more.    *)
(*                                                                         *)
(* The argument goes up the loops of pay_mana.  One round (PayPip,         *)
(* DrainField) is arithmetic on the fields it touches; PayPips, Drain and  *)
(* PayGeneric chain the facts about their rounds; PayMana joins both       *)
(* parts; the theorems add the steps of ManaPool.                          *)
(***************************************************************************)
EXTENDS ManaPool, TLAPS

\* A pool, and both pools, with what is left to pay.
Draining == [pool : ManaAmount, left : Nat]
DrainingBoth == [mana : ManaAmount, aux : ManaAmount, left : Nat]
SpendFields == Fields \ {"generic"}

-----------------------------------------------------------------------------
(* Amounts *)

LEMMA TotalNat == ASSUME NEW a \in ManaAmount PROVE Spendable(a) \in Nat /\ Total(a) \in Nat
<1>1. \A f \in Fields : a[f] \in Nat
  BY DEF ManaAmount
<1> QED
  BY <1>1 DEF Spendable, Total, Fields, Pips, WUBRG

LEMMA NoManaAmount == NoMana \in ManaAmount /\ Spendable(NoMana) = 0
  BY DEF NoMana, ManaAmount, Spendable, Total, Fields, Pips, WUBRG

\* Taking one field down by k takes k out of the amount, unless the field is generic.
LEMMA TakeOne ==
  ASSUME NEW a \in ManaAmount, NEW c \in Fields \ {"generic"}, NEW k \in Nat, k <= a[c]
  PROVE  /\ [a EXCEPT ![c] = @ - k] \in ManaAmount
         /\ Spendable([a EXCEPT ![c] = @ - k]) = Spendable(a) - k
<1>1. \A f \in Fields : a[f] \in Nat
  BY DEF ManaAmount
<1>2. [a EXCEPT ![c] = @ - k] \in ManaAmount
  BY <1>1 DEF ManaAmount
<1>3. Spendable([a EXCEPT ![c] = @ - k]) = Spendable(a) - k
  <2> DEFINE b == [a EXCEPT ![c] = @ - k]
  <2>1. \A f \in Fields : b[f] = IF f = c THEN a[f] - k ELSE a[f]
    BY DEF ManaAmount
  <2>2. c \in {"white", "blue", "black", "red", "green", "colorless", "any_color"}
    BY DEF Fields, Pips, WUBRG
  <2> HIDE DEF b
  <2>3. Spendable(b) = Spendable(a) - k
    BY <1>1, <2>1, <2>2 DEF Spendable, Total, Fields, Pips, WUBRG
  <2> QED BY <2>3 DEF b
<1> QED BY <1>2, <1>3

LEMMA LeastNat ==
  ASSUME NEW m \in Nat, NEW n \in Int
  PROVE  /\ Least(m, n) \in Int /\ Least(m, n) <= m /\ Least(m, n) <= n
         /\ Least(m, n) = m \/ Least(m, n) = n
         /\ n \in Nat => Least(m, n) \in Nat
  BY DEF Least

-----------------------------------------------------------------------------
(* Draining one field *)

\* The field gives what it has, up to what is left to pay, and nothing else changes.
LEMMA DrainFieldFacts ==
  ASSUME NEW d \in Draining, NEW f \in SpendFields
  PROVE  LET r == DrainField(d, f) IN
           /\ r \in Draining /\ r.left <= d.left
           /\ r.left = 0 \/ r.pool[f] = 0
           /\ r.pool[f] = d.pool[f] - (d.left - r.left)
           /\ Spendable(r.pool) = Spendable(d.pool) - (d.left - r.left)
           /\ \A g \in Fields \ {f} : r.pool[g] = d.pool[g]
<1>1. d.pool \in ManaAmount /\ d.left \in Nat /\ d.pool[f] \in Nat /\ f \in Fields
  BY DEF Draining, SpendFields, ManaAmount
<1>2. PICK u \in Nat : /\ u = Least(d.pool[f], d.left)
                       /\ u <= d.pool[f] /\ u <= d.left
                       /\ u = d.left \/ u = d.pool[f]
  BY <1>1 DEF Least
<1> DEFINE p == [d.pool EXCEPT ![f] = d.pool[f] - u]
<1>3. DrainField(d, f) = [pool |-> p, left |-> d.left - u]
  BY <1>2 DEF DrainField, Taken
<1>4. p \in ManaAmount /\ Spendable(p) = Spendable(d.pool) - u
  BY <1>1, <1>2, TakeOne DEF SpendFields
<1>5. p[f] = d.pool[f] - u /\ \A g \in Fields \ {f} : p[g] = d.pool[g]
  BY <1>1 DEF ManaAmount
<1> HIDE DEF p
<1>6. d.left - u \in Nat /\ d.left - (d.left - u) = u
  BY <1>1, <1>2
<1>7. (d.left - u = 0) \/ (p[f] = 0)
  BY <1>1, <1>2, <1>5
<1>8. d.left - u <= d.left
  BY <1>1, <1>2
<1> DEFINE r == DrainField(d, f)
<1>9. r.pool = p /\ r.left = d.left - u /\ r \in Draining
  BY <1>3, <1>4, <1>6 DEF Draining
<1> HIDE DEF r
<1>10. d.left - r.left = u
  BY <1>6, <1>9
<1> QED
  BY <1>4, <1>5, <1>7, <1>8, <1>9, <1>10 DEF r

Both(w, f) == w.mana[f] + w.aux[f]
Short(w, c, n) == IF n > Both(w, c) THEN n - Both(w, c) ELSE 0

\* Over both pools the field gives what the two have together.
LEMMA DrainBothFacts ==
  ASSUME NEW t \in DrainingBoth, NEW f \in SpendFields
  PROVE  LET r == DrainBoth(t, f) IN
           /\ r \in DrainingBoth
           /\ r.left = Short(t, f, t.left)
           /\ Both(r, f) = Both(t, f) - (t.left - r.left)
           /\ Worth(r) = Worth(t) - (t.left - r.left)
           /\ Spendable(r.mana) <= Spendable(t.mana) /\ Spendable(r.aux) <= Spendable(t.aux)
           /\ \A g \in Fields \ {f} : Both(r, g) = Both(t, g)
<1> DEFINE d1 == [pool |-> t.mana, left |-> t.left]
           r1 == DrainField(d1, f)
           d2 == [pool |-> t.aux, left |-> r1.left]
           r2 == DrainField(d2, f)
           r  == [mana |-> r1.pool, aux |-> r2.pool, left |-> r2.left]
<1>1. DrainBoth(t, f) = r
  BY DEF DrainBoth, DrainSecond, BothPools
<1>2. /\ d1 \in Draining /\ d1.pool = t.mana /\ d1.left = t.left
      /\ t.mana \in ManaAmount /\ t.aux \in ManaAmount /\ t.left \in Nat /\ f \in Fields
  BY DEF DrainingBoth, Draining, SpendFields
<1>3. /\ r1 \in Draining /\ r1.left <= t.left
      /\ r1.left = 0 \/ r1.pool[f] = 0
      /\ r1.pool[f] = t.mana[f] - (t.left - r1.left)
      /\ Spendable(r1.pool) = Spendable(t.mana) - (t.left - r1.left)
      /\ \A g \in Fields \ {f} : r1.pool[g] = t.mana[g]
  <2> HIDE DEF d1
  <2> QED BY <1>2, DrainFieldFacts
<1> HIDE DEF r1
<1>4. d2 \in Draining /\ d2.pool = t.aux /\ d2.left = r1.left
  BY <1>2, <1>3 DEF Draining
<1>5. /\ r2 \in Draining /\ r2.left <= r1.left
      /\ r2.left = 0 \/ r2.pool[f] = 0
      /\ r2.pool[f] = t.aux[f] - (r1.left - r2.left)
      /\ Spendable(r2.pool) = Spendable(t.aux) - (r1.left - r2.left)
      /\ \A g \in Fields \ {f} : r2.pool[g] = t.aux[g]
  <2> HIDE DEF d2
  <2> QED BY <1>4, DrainFieldFacts
<1> HIDE DEF r2
<1>6. /\ r.mana = r1.pool /\ r.aux = r2.pool /\ r.left = r2.left
      /\ r1.pool \in ManaAmount /\ r2.pool \in ManaAmount /\ r1.left \in Nat /\ r2.left \in Nat
      /\ r \in DrainingBoth
  BY <1>3, <1>5 DEF Draining, DrainingBoth
<1> HIDE DEF r
<1>7. /\ r1.pool[f] \in Nat /\ r2.pool[f] \in Nat /\ t.mana[f] \in Nat /\ t.aux[f] \in Nat
      /\ Spendable(t.mana) \in Nat /\ Spendable(t.aux) \in Nat
  BY <1>2, <1>6, TotalNat DEF ManaAmount
<1> HIDE DEF d2
<1>8. r.left = Short(t, f, t.left)
  BY <1>2, <1>3, <1>5, <1>6, <1>7 DEF Short, Both
<1>9. Both(r, f) = Both(t, f) - (t.left - r.left)
  <2>1. /\ r.mana[f] = t.mana[f] - (t.left - r1.left)
        /\ r.aux[f] = t.aux[f] - (r1.left - r.left)
    BY <1>3, <1>5, <1>6
  <2>2. t.left \in Nat /\ r1.left \in Nat /\ r.left \in Nat
    BY <1>2, <1>6
  <2> QED BY <1>7, <2>1, <2>2 DEF Both
<1>10. Worth(r) = Worth(t) - (t.left - r.left)
  <2>1. /\ Spendable(r.mana) = Spendable(t.mana) - (t.left - r1.left)
        /\ Spendable(r.aux) = Spendable(t.aux) - (r1.left - r.left)
    BY <1>3, <1>5, <1>6
  <2>2. t.left \in Nat /\ r1.left \in Nat /\ r.left \in Nat
    BY <1>2, <1>6
  <2> QED BY <1>7, <2>1, <2>2 DEF Worth
<1>11. Spendable(r.mana) <= Spendable(t.mana) /\ Spendable(r.aux) <= Spendable(t.aux)
  BY <1>2, <1>3, <1>5, <1>6, <1>7
<1>12. \A g \in Fields \ {f} : Both(r, g) = Both(t, g)
  BY <1>3, <1>5, <1>6 DEF Both
<1> QED
  BY <1>1, <1>6, <1>8, <1>9, <1>10, <1>11, <1>12

-----------------------------------------------------------------------------
(* The colour loop *)

\* How far payment has got: r is what became of the purse w once n pips were asked for, k of
\* which their own colour did not cover.
Reached(w, r, n, k) ==
  /\ r \in Purse /\ r.status \in {"ok", "mana_restriction"}
  /\ r.status = "ok" <=> k <= Both(w, "any_color")
  /\ r.status = "ok" => /\ Worth(r) = Worth(w) - n
                        /\ Both(r, "any_color") = Both(w, "any_color") - k
  /\ r.status # "ok" => Worth(w) - Worth(r) < n
  /\ Spendable(r.mana) <= Spendable(w.mana) /\ Spendable(r.aux) <= Spendable(w.aux)

LEMMA BothNat ==
  ASSUME NEW w \in Purse
  PROVE  /\ \A f \in Fields : Both(w, f) \in Nat
         /\ Spendable(w.mana) \in Nat /\ Spendable(w.aux) \in Nat /\ Worth(w) \in Nat
<1>1. w.mana \in ManaAmount /\ w.aux \in ManaAmount
  BY DEF Purse
<1>2. Spendable(w.mana) \in Nat /\ Spendable(w.aux) \in Nat
  BY <1>1, TotalNat
<1> QED
  BY <1>1, <1>2 DEF Both, Worth, ManaAmount

\* One round: any_color mana covers what the colour is short of, or the payment fails.
LEMMA PayPipFacts ==
  ASSUME NEW w \in Purse, w.status = "ok", NEW c \in Pips, NEW n \in Nat
  PROVE  /\ Reached(w, PayPip(w, c, n), n, Short(w, c, n))
         /\ PayPip(w, c, n).status = "ok" =>
              \A f \in Pips \ {c} : Both(PayPip(w, c, n), f) = Both(w, f)
<1> DEFINE t == [mana |-> w.mana, aux |-> w.aux, left |-> n]
           e == ExactPips(w, c, n)
           x == DrainBoth(e, "any_color")
           s == IF x.left = 0 THEN "ok" ELSE "mana_restriction"
           r == PayPip(w, c, n)
<1>1. r = Outcome(x, "mana_restriction") /\ e = DrainBoth(t, c)
  BY DEF PayPip, ExactPips
<1>2. /\ t \in DrainingBoth /\ t.left = n /\ t.mana = w.mana /\ t.aux = w.aux
      /\ c \in SpendFields /\ "any_color" \in SpendFields /\ c # "any_color"
      /\ SpendFields \subseteq Fields /\ Pips \subseteq Fields
  BY DEF Purse, DrainingBoth, SpendFields, Fields, Pips, WUBRG
<1>3. /\ \A f \in Fields : Both(t, f) = Both(w, f)
      /\ Short(t, c, n) = Short(w, c, n) /\ Worth(t) = Worth(w)
  BY <1>2 DEF Both, Short, Worth
<1> HIDE DEF t
<1>4. /\ e \in DrainingBoth
      /\ e.left = Short(w, c, n)
      /\ Worth(e) = Worth(w) - (n - e.left)
      /\ Spendable(e.mana) <= Spendable(w.mana) /\ Spendable(e.aux) <= Spendable(w.aux)
      /\ \A g \in Fields \ {c} : Both(e, g) = Both(w, g)
  <2> HIDE DEF e
  <2> QED BY <1>1, <1>2, <1>3, DrainBothFacts
<1> HIDE DEF e
<1>5. /\ x \in DrainingBoth
      /\ x.left = Short(e, "any_color", e.left)
      /\ Both(x, "any_color") = Both(e, "any_color") - (e.left - x.left)
      /\ Worth(x) = Worth(e) - (e.left - x.left)
      /\ Spendable(x.mana) <= Spendable(e.mana) /\ Spendable(x.aux) <= Spendable(e.aux)
      /\ \A g \in Fields \ {"any_color"} : Both(x, g) = Both(e, g)
  BY <1>2, <1>4, DrainBothFacts
<1> HIDE DEF x
<1>6. /\ r \in Purse /\ r.status = s /\ r.mana = x.mana /\ r.aux = x.aux
      /\ Worth(r) = Worth(x) /\ \A f \in Fields : Both(r, f) = Both(x, f)
  BY <1>1, <1>5 DEF Outcome, Purse, DrainingBoth, Worth, Both
<1> HIDE DEF r
<1>7. /\ Both(w, c) \in Nat /\ Both(w, "any_color") \in Nat /\ Worth(w) \in Nat
      /\ Spendable(w.mana) \in Nat /\ Spendable(w.aux) \in Nat
      /\ e.left \in Nat /\ x.left \in Nat /\ Short(w, c, n) \in Nat
  BY <1>2, <1>4, <1>5, BothNat DEF DrainingBoth, Short
<1>8. Both(e, "any_color") = Both(w, "any_color") /\ "any_color" \in Fields
  BY <1>2, <1>4
<1>9. x.left = 0 <=> Short(w, c, n) <= Both(w, "any_color")
  BY <1>4, <1>5, <1>7, <1>8 DEF Short
<1>10. Worth(r) = Worth(w) - (n - x.left) /\ x.left \in Nat
  BY <1>4, <1>5, <1>6, <1>7
<1>11. Both(r, "any_color") = Both(w, "any_color") - (Short(w, c, n) - x.left)
  BY <1>4, <1>5, <1>6, <1>7, <1>8
<1>12. /\ Spendable(e.mana) \in Nat /\ Spendable(e.aux) \in Nat
       /\ Spendable(x.mana) \in Nat /\ Spendable(x.aux) \in Nat
  BY <1>4, <1>5, TotalNat DEF DrainingBoth
<1>13. Spendable(r.mana) <= Spendable(w.mana) /\ Spendable(r.aux) <= Spendable(w.aux)
  BY <1>4, <1>5, <1>6, <1>7, <1>12
<1>14. \A f \in Pips \ {c} : Both(r, f) = Both(w, f)
  <2>1. \A f \in Pips \ {c} : f \in Fields \ {c} /\ f \in Fields \ {"any_color"}
    BY DEF Fields, Pips, WUBRG
  <2> QED BY <1>4, <1>5, <1>6, <2>1
<1>15. r.status = "ok" <=> x.left = 0
  BY <1>6
<1>16. r.status \in {"ok", "mana_restriction"}
  BY <1>6
<1> HIDE DEF s
<1>17. Reached(w, r, n, Short(w, c, n))
  BY <1>6, <1>7, <1>9, <1>10, <1>11, <1>13, <1>15, <1>16 DEF Reached
<1> QED BY <1>14, <1>17 DEF r

\* The rounds add up: rest are the colours that are still to be paid.
Round(w, r, n, k, rest) ==
  /\ Reached(w, r, n, k) /\ r \in Purse /\ n \in Nat /\ k \in Nat
  /\ r.status = "ok" => \A f \in rest : Both(r, f) = Both(w, f)

LEMMA NextRound ==
  ASSUME NEW w \in Purse, NEW r, NEW n, NEW k, NEW rest \in SUBSET Pips,
         Round(w, r, n, k, rest), NEW c \in rest, NEW m \in Nat,
         NEW left \in SUBSET (rest \ {c})
  PROVE  Round(w, PayPip(r, c, m), n + m, k + Short(w, c, m), left)
<1> DEFINE q == PayPip(r, c, m)
<1>0. /\ r \in Purse /\ n \in Nat /\ k \in Nat /\ Reached(w, r, n, k) /\ c \in Pips
      /\ r.status = "ok" => \A f \in rest : Both(r, f) = Both(w, f)
  BY DEF Round
<1>1. /\ Both(w, c) \in Nat /\ Both(w, "any_color") \in Nat /\ Both(r, "any_color") \in Nat
      /\ Worth(w) \in Nat /\ Worth(r) \in Nat
      /\ Spendable(w.mana) \in Nat /\ Spendable(w.aux) \in Nat
      /\ Spendable(r.mana) \in Nat /\ Spendable(r.aux) \in Nat
      /\ Short(w, c, m) \in Nat
  BY <1>0, BothNat DEF Short, Fields, Pips, WUBRG
<1>2. CASE r.status # "ok"
  <2>1. q = r
    BY <1>0, <1>2 DEF PayPip
  <2> QED BY <1>0, <1>1, <1>2, <2>1 DEF Reached, Round
<1>3. CASE r.status = "ok"
  <2> HIDE DEF q
  <2>1. /\ Reached(r, q, m, Short(r, c, m))
        /\ q.status = "ok" => \A f \in Pips \ {c} : Both(q, f) = Both(r, f)
    BY <1>0, <1>3, PayPipFacts DEF q
  <2>2. Short(r, c, m) = Short(w, c, m)
    BY <1>0, <1>3 DEF Short
  <2>3. q \in Purse /\ q.status \in {"ok", "mana_restriction"}
    BY <2>1 DEF Reached
  <2>4. /\ Worth(q) \in Nat /\ Both(q, "any_color") \in Nat
        /\ Spendable(q.mana) \in Nat /\ Spendable(q.aux) \in Nat
    BY <2>3, BothNat DEF Fields
  <2>5. /\ Worth(r) = Worth(w) - n /\ Both(r, "any_color") = Both(w, "any_color") - k
        /\ k <= Both(w, "any_color")
        /\ Spendable(r.mana) <= Spendable(w.mana) /\ Spendable(r.aux) <= Spendable(w.aux)
    BY <1>0, <1>3 DEF Reached
  <2>6. /\ q.status = "ok" <=> Short(w, c, m) <= Both(r, "any_color")
        /\ q.status = "ok" => /\ Worth(q) = Worth(r) - m
                              /\ Both(q, "any_color") = Both(r, "any_color") - Short(w, c, m)
        /\ q.status # "ok" => Worth(r) - Worth(q) < m
        /\ Spendable(q.mana) <= Spendable(r.mana) /\ Spendable(q.aux) <= Spendable(r.aux)
    BY <2>1, <2>2 DEF Reached
  <2>7. q.status = "ok" <=> k + Short(w, c, m) <= Both(w, "any_color")
    BY <1>0, <1>1, <2>5, <2>6
  <2>8. q.status = "ok" => /\ Worth(q) = Worth(w) - (n + m)
                           /\ Both(q, "any_color") = Both(w, "any_color") - (k + Short(w, c, m))
    BY <1>0, <1>1, <2>5, <2>6
  <2>9. q.status # "ok" => Worth(w) - Worth(q) < n + m
    BY <1>0, <1>1, <2>4, <2>5, <2>6
  <2>10. Spendable(q.mana) <= Spendable(w.mana) /\ Spendable(q.aux) <= Spendable(w.aux)
    BY <1>0, <1>1, <2>4, <2>5, <2>6
  <2>11. Reached(w, q, n + m, k + Short(w, c, m))
    BY <2>3, <2>7, <2>8, <2>9, <2>10 DEF Reached
  <2>12. q.status = "ok" => \A f \in left : Both(q, f) = Both(w, f)
    BY <1>0, <1>3, <2>1
  <2> QED BY <1>0, <1>1, <2>3, <2>11, <2>12 DEF Round, q
<1> QED BY <1>2, <1>3

\* The colour loop pays the pips exactly when any_color mana covers all that is short.
ShortPips(w, need) ==
  Short(w, "white", need["white"]) + Short(w, "blue", need["blue"])
  + Short(w, "black", need["black"]) + Short(w, "red", need["red"])
  + Short(w, "green", need["green"]) + Short(w, "colorless", need["colorless"])

LEMMA PayPipsFacts ==
  ASSUME NEW w \in Purse, w.status = "ok", NEW need \in ManaAmount
  PROVE  Reached(w, PayPips(w, need), PipsOf(need), ShortPips(w, need))
<1> DEFINE w1 == PayPip(w,  "white", need["white"])
           w2 == PayPip(w1, "blue",  need["blue"])
           w3 == PayPip(w2, "black", need["black"])
           w4 == PayPip(w3, "red",   need["red"])
           w5 == PayPip(w4, "green", need["green"])
           w6 == PayPip(w5, "colorless", need["colorless"])
           n(c) == need[c]
           k(c) == Short(w, c, need[c])
<1>1. PayPips(w, need) = w6
  BY DEF PayPips
<1>2. \A c \in Pips : n(c) \in Nat /\ k(c) \in Nat
  BY BothNat DEF ManaAmount, Fields, Short
<1>3. /\ "white" \in Pips /\ "blue" \in Pips /\ "black" \in Pips
      /\ "red" \in Pips /\ "green" \in Pips /\ "colorless" \in Pips
  BY DEF Pips, WUBRG
<1> HIDE DEF k
<1>4. Round(w, w, 0, 0, Pips)
  BY BothNat DEF Round, Reached, Fields
<1>5. Round(w, w1, 0 + n("white"), 0 + k("white"),
            {"blue", "black", "red", "green", "colorless"})
  <2>1. n("white") \in Nat /\ k("white") = Short(w, "white", n("white"))
    BY <1>2, <1>3 DEF k
  <2> HIDE DEF n
  <2> QED BY <1>3, <1>4, <2>1, NextRound DEF n, Pips, WUBRG
<1> HIDE DEF w1
<1>6. Round(w, w2, 0 + n("white") + n("blue"), 0 + k("white") + k("blue"),
            {"black", "red", "green", "colorless"})
  <2>1. n("blue") \in Nat /\ k("blue") = Short(w, "blue", n("blue"))
    BY <1>2, <1>3 DEF k
  <2> HIDE DEF n
  <2> QED BY <1>3, <1>5, <2>1, NextRound DEF n, Pips, WUBRG
<1> HIDE DEF w2
<1>7. Round(w, w3, 0 + n("white") + n("blue") + n("black"), 0 + k("white") + k("blue") + k("black"),
            {"red", "green", "colorless"})
  <2>1. n("black") \in Nat /\ k("black") = Short(w, "black", n("black"))
    BY <1>2, <1>3 DEF k
  <2> HIDE DEF n
  <2> QED BY <1>3, <1>6, <2>1, NextRound DEF n, Pips, WUBRG
<1> HIDE DEF w3
<1>8. Round(w, w4, 0 + n("white") + n("blue") + n("black") + n("red"),
            0 + k("white") + k("blue") + k("black") + k("red"),
            {"green", "colorless"})
  <2>1. n("red") \in Nat /\ k("red") = Short(w, "red", n("red"))
    BY <1>2, <1>3 DEF k
  <2> HIDE DEF n
  <2> QED BY <1>3, <1>7, <2>1, NextRound DEF n, Pips, WUBRG
<1> HIDE DEF w4
<1>9. Round(w, w5, 0 + n("white") + n("blue") + n("black") + n("red") + n("green"),
            0 + k("white") + k("blue") + k("black") + k("red") + k("green"),
            {"colorless"})
  <2>1. n("green") \in Nat /\ k("green") = Short(w, "green", n("green"))
    BY <1>2, <1>3 DEF k
  <2> HIDE DEF n
  <2> QED BY <1>3, <1>8, <2>1, NextRound DEF n, Pips, WUBRG
<1> HIDE DEF w5
<1>10. Round(w, w6, 0 + n("white") + n("blue") + n("black") + n("red") + n("green") + n("colorless"),
             0 + k("white") + k("blue") + k("black") + k("red") + k("green") + k("colorless"),
             {})
  <2>1. n("colorless") \in Nat /\ k("colorless") = Short(w, "colorless", n("colorless"))
    BY <1>2, <1>3 DEF k
  <2> HIDE DEF n
  <2> QED BY <1>3, <1>9, <2>1, NextRound DEF n, Pips, WUBRG
<1>11. /\ 0 + n("white") + n("blue") + n("black") + n("red") + n("green") + n("colorless") = PipsOf(need)
       /\ 0 + k("white") + k("blue") + k("black") + k("red") + k("green") + k("colorless")
          = ShortPips(w, need)
  BY <1>2, <1>3 DEF PipsOf, ColorsOf, ShortPips, k
<1> QED
  BY <1>1, <1>10, <1>11 DEF Round

-----------------------------------------------------------------------------
(* The generic loop *)

\* How far the loop has got: d is what became of s, and the fields done are empty unless all
\* is paid.
Drained(s, d, done) ==
  /\ d \in Draining /\ d.left <= s.left
  /\ Spendable(d.pool) = Spendable(s.pool) - (s.left - d.left)
  /\ d.left = 0 \/ \A f \in done : d.pool[f] = 0

LEMMA NextDrain ==
  ASSUME NEW s \in Draining, NEW d, NEW done \in SUBSET SpendFields, Drained(s, d, done),
         NEW f \in SpendFields, NEW next \in SUBSET (done \cup {f})
  PROVE  Drained(s, DrainField(d, f), next)
<1> DEFINE r == DrainField(d, f)
<1>1. /\ d \in Draining /\ d.left <= s.left
      /\ Spendable(d.pool) = Spendable(s.pool) - (s.left - d.left)
      /\ d.left = 0 \/ \A g \in done : d.pool[g] = 0
  BY DEF Drained
<1> HIDE DEF r
<1>2. /\ r \in Draining /\ r.left <= d.left
      /\ r.left = 0 \/ r.pool[f] = 0
      /\ Spendable(r.pool) = Spendable(d.pool) - (d.left - r.left)
      /\ \A g \in Fields \ {f} : r.pool[g] = d.pool[g]
  BY <1>1, DrainFieldFacts DEF r
<1>3. s.left \in Nat /\ d.left \in Nat /\ r.left \in Nat /\ Spendable(s.pool) \in Nat
  BY <1>1, <1>2, TotalNat DEF Draining
<1>4. r.left <= s.left /\ Spendable(r.pool) = Spendable(s.pool) - (s.left - r.left)
  BY <1>1, <1>2, <1>3
<1>5. ASSUME r.left # 0, NEW g \in next PROVE r.pool[g] = 0
  <2>1. d.left # 0
    BY <1>2, <1>3, <1>5
  <2>2. CASE g = f
    BY <1>2, <1>5, <2>2
  <2>3. CASE g # f
    <3>1. g \in done /\ g \in Fields \ {f}
      BY <1>5, <2>3 DEF SpendFields
    <3> QED BY <1>1, <1>2, <2>1, <3>1
  <2> QED BY <2>2, <2>3
<1> QED BY <1>2, <1>4, <1>5 DEF Drained, r

\* A pool gives what it has, up to what is left to pay.
LEMMA DrainFacts ==
  ASSUME NEW pool \in ManaAmount, NEW n \in Nat
  PROVE  LET r == Drain(pool, n) IN
           /\ r.pool \in ManaAmount /\ r.left \in Nat
           /\ r.left = IF n > Spendable(pool) THEN n - Spendable(pool) ELSE 0
           /\ Spendable(r.pool) = Spendable(pool) - (n - r.left)
<1> DEFINE s  == [pool |-> pool, left |-> n]
           d0 == DrainField(s, "colorless")
           d1 == DrainField(d0, "white")
           d2 == DrainField(d1, "blue")
           d3 == DrainField(d2, "black")
           d4 == DrainField(d3, "red")
           d5 == DrainField(d4, "green")
           d6 == DrainField(d5, "any_color")
<1>1. Drain(pool, n) = d6
  BY DEF Drain, DrainColors
<1>2. s \in Draining /\ s.pool = pool /\ s.left = n
  BY DEF Draining
<1>3. SpendFields = {"colorless", "white", "blue", "black", "red", "green", "any_color"}
  BY DEF SpendFields, Fields, Pips, WUBRG
<1>4. Drained(s, s, {})
  <2>1. Spendable(pool) \in Nat
    BY TotalNat
  <2> QED BY <1>2, <2>1 DEF Drained
<1> HIDE DEF s
<1>5. Drained(s, d0, {"colorless"})
  BY <1>2, <1>3, <1>4, NextDrain
<1> HIDE DEF d0
<1>6. Drained(s, d1, {"colorless", "white"})
  BY <1>2, <1>3, <1>5, NextDrain
<1> HIDE DEF d1
<1>7. Drained(s, d2, {"colorless", "white", "blue"})
  BY <1>2, <1>3, <1>6, NextDrain
<1> HIDE DEF d2
<1>8. Drained(s, d3, {"colorless", "white", "blue", "black"})
  BY <1>2, <1>3, <1>7, NextDrain
<1> HIDE DEF d3
<1>9. Drained(s, d4, {"colorless", "white", "blue", "black", "red"})
  BY <1>2, <1>3, <1>8, NextDrain
<1> HIDE DEF d4
<1>10. Drained(s, d5, {"colorless", "white", "blue", "black", "red", "green"})
  BY <1>2, <1>3, <1>9, NextDrain
<1> HIDE DEF d5
<1>11. Drained(s, d6, {"colorless", "white", "blue", "black", "red", "green", "any_color"})
  BY <1>2, <1>3, <1>10, NextDrain
<1> HIDE DEF d6
<1>12. /\ d6.pool \in ManaAmount /\ d6.left \in Nat /\ d6.left <= n
       /\ Spendable(d6.pool) = Spendable(pool) - (n - d6.left)
       /\ d6.left = 0 \/ \A f \in SpendFields : d6.pool[f] = 0
  BY <1>2, <1>3, <1>11 DEF Drained, Draining
<1>13. d6.left # 0 => Spendable(d6.pool) = 0
  <2>1. d6.pool["generic"] \in Nat
    BY <1>12 DEF ManaAmount, Fields
  <2> QED BY <1>3, <1>12, <2>1 DEF Spendable, Total
<1>14. Spendable(pool) \in Nat /\ Spendable(d6.pool) \in Nat
  BY <1>12, TotalNat
<1>15. d6.left = IF n > Spendable(pool) THEN n - Spendable(pool) ELSE 0
  BY <1>12, <1>13, <1>14
<1> QED BY <1>1, <1>12, <1>15

\* Generic mana is paid exactly when the purse is worth as much.
LEMMA PayGenericFacts ==
  ASSUME NEW w \in Purse, w.status = "ok", NEW n \in Nat
  PROVE  LET r == PayGeneric(w, n) IN
           /\ r \in Purse /\ r.status \in {"ok", "resource_deficit"}
           /\ r.status = "ok" <=> n <= Worth(w)
           /\ r.status = "ok" => Worth(r) = Worth(w) - n
           /\ r.status # "ok" => Worth(w) - Worth(r) < n
           /\ Spendable(r.mana) <= Spendable(w.mana) /\ Spendable(r.aux) <= Spendable(w.aux)
<1> DEFINE a == Drain(w.mana, n)
           b == Drain(w.aux, a.left)
           t == [mana |-> a.pool, aux |-> b.pool, left |-> b.left]
           s == IF b.left = 0 THEN "ok" ELSE "resource_deficit"
           r == PayGeneric(w, n)
<1>1. r = Outcome(t, "resource_deficit")
  BY DEF PayGeneric, DrainPools, DrainAfter, BothPools
<1>2. /\ w.mana \in ManaAmount /\ w.aux \in ManaAmount
      /\ Spendable(w.mana) \in Nat /\ Spendable(w.aux) \in Nat
  BY TotalNat DEF Purse
<1> HIDE DEF a
<1>3. /\ a.pool \in ManaAmount /\ a.left \in Nat
      /\ a.left = IF n > Spendable(w.mana) THEN n - Spendable(w.mana) ELSE 0
      /\ Spendable(a.pool) = Spendable(w.mana) - (n - a.left)
  BY <1>2, DrainFacts DEF a
<1> HIDE DEF b
<1>4. /\ b.pool \in ManaAmount /\ b.left \in Nat
      /\ b.left = IF a.left > Spendable(w.aux) THEN a.left - Spendable(w.aux) ELSE 0
      /\ Spendable(b.pool) = Spendable(w.aux) - (a.left - b.left)
  BY <1>2, <1>3, DrainFacts DEF b
<1>5. r \in Purse /\ r.mana = a.pool /\ r.aux = b.pool /\ r.status = s
  BY <1>1, <1>3, <1>4 DEF Outcome, Purse
<1> HIDE DEF r
<1>6. r.status \in {"ok", "resource_deficit"} /\ (r.status = "ok" <=> b.left = 0)
  BY <1>5
<1>7. b.left = 0 <=> n <= Worth(w)
  BY <1>2, <1>3, <1>4 DEF Worth
<1>8. Worth(r) = Worth(w) - (n - b.left)
  BY <1>2, <1>3, <1>4, <1>5 DEF Worth
<1>9. Worth(w) \in Nat
  BY <1>2 DEF Worth
<1>10. Spendable(r.mana) <= Spendable(w.mana) /\ Spendable(r.aux) <= Spendable(w.aux)
  BY <1>2, <1>3, <1>4, <1>5
<1>11. /\ b.left = 0 => Worth(r) = Worth(w) - n
       /\ b.left # 0 => Worth(w) - Worth(r) < n
  BY <1>4, <1>8, <1>9
<1> QED BY <1>5, <1>6, <1>7, <1>10, <1>11 DEF r

-----------------------------------------------------------------------------
(* A whole payment *)

\* What pay_mana makes of a payment p, in the words of ManaPool.
LEMMA PayManaFacts ==
  ASSUME NEW p \in Payment
  PROVE  LET r == PayMana(p.mana, p.aux, p.need, p.allow) IN
           /\ r.mana \in ManaAmount /\ r.aux \in ManaAmount
           /\ r.status \in {"ok", "mana_restriction", "resource_deficit"}
           /\ ~p.allow => r.aux = p.aux
           /\ r.status = "mana_restriction" <=> ~PipsPayable(p)
           /\ r.status = "resource_deficit" <=> PipsPayable(p) /\ ~Payable(p)
           /\ LET gone == Spendable(p.mana) + Spendable(p.aux)
                          - Spendable(r.mana) - Spendable(r.aux)
              IN /\ r.status = "ok" => gone = Price(p.need)
                 /\ r.status # "ok" => gone < Price(p.need)
<1> DEFINE w == PurseOf(p.mana, IF p.allow THEN p.aux ELSE NoMana)
           v == PayPips(w, p.need)
           g == p.need["generic"]
           q == PayGeneric(v, g)
           r == PayMana(p.mana, p.aux, p.need, p.allow)
<1>1. r = IF p.allow THEN q ELSE [q EXCEPT !.aux = p.aux]
  BY DEF PayMana, Reserve
<1>2. /\ p.mana \in ManaAmount /\ p.aux \in ManaAmount /\ p.need \in ManaAmount
      /\ p.allow \in BOOLEAN /\ \A f \in Fields : p.need[f] \in Nat
  BY NeedsAssumption DEF Payment, ManaAmount
<1>3. /\ w \in Purse /\ w.status = "ok" /\ w.mana = p.mana
      /\ w.aux = IF p.allow THEN p.aux ELSE NoMana
  BY <1>2, NoManaAmount DEF PurseOf, Purse
<1> HIDE DEF w
<1>4. /\ g \in Nat /\ PipsOf(p.need) \in Nat /\ Price(p.need) = PipsOf(p.need) + g
  BY <1>2 DEF PipsOf, ColorsOf, Price, Fields, Pips, WUBRG
<1>5. /\ \A f \in Fields : Both(w, f) = Available(p, f) /\ Both(w, f) \in Nat
      /\ Worth(w) = Reach(p) /\ Worth(w) \in Nat
  <2>1. \A f \in Fields : NoMana[f] = 0 /\ p.mana[f] \in Nat /\ p.aux[f] \in Nat
    BY <1>2 DEF NoMana, ManaAmount
  <2>2. \A f \in Fields : Both(w, f) = Available(p, f)
    BY <1>2, <1>3, <2>1 DEF Both, Available
  <2>3. Worth(w) = Reach(p)
    BY <1>2, <1>3, NoManaAmount DEF Worth, Reach
  <2> QED BY <1>3, <2>2, <2>3, BothNat
<1>6. ShortPips(w, p.need) = MissingPips(p) /\ Both(w, "any_color") = Available(p, "any_color")
  BY <1>5 DEF ShortPips, MissingPips, Short, Missing, Fields, Pips, WUBRG
<1>7. Reached(w, v, PipsOf(p.need), ShortPips(w, p.need))
  BY <1>2, <1>3, PayPipsFacts
<1> HIDE DEF v, g
<1>8. /\ v \in Purse /\ v.status \in {"ok", "mana_restriction"}
      /\ v.status = "ok" <=> PipsPayable(p)
      /\ v.status = "ok" => Worth(v) = Worth(w) - PipsOf(p.need)
      /\ v.status # "ok" => Worth(w) - Worth(v) < PipsOf(p.need)
      /\ Spendable(v.mana) <= Spendable(w.mana) /\ Spendable(v.aux) <= Spendable(w.aux)
  BY <1>6, <1>7 DEF Reached, PipsPayable
<1>9. /\ Worth(v) \in Nat /\ Spendable(v.mana) \in Nat /\ Spendable(v.aux) \in Nat
      /\ Spendable(w.mana) \in Nat /\ Spendable(w.aux) \in Nat
  BY <1>3, <1>8, BothNat
<1>10. /\ q \in Purse
       /\ q.status = "mana_restriction" <=> ~PipsPayable(p)
       /\ q.status = "resource_deficit" <=> PipsPayable(p) /\ ~Payable(p)
       /\ q.status = "ok" => Worth(w) - Worth(q) = Price(p.need)
       /\ q.status # "ok" => Worth(w) - Worth(q) < Price(p.need)
       /\ Spendable(q.aux) <= Spendable(w.aux)
  <2>1. CASE v.status # "ok"
    <3>1. q = v
      BY <1>8, <2>1 DEF PayGeneric
    <3>2. Worth(w) - Worth(v) < Price(p.need)
      BY <1>4, <1>5, <1>8, <1>9, <2>1
    <3> QED BY <1>8, <2>1, <3>1, <3>2
  <2>2. CASE v.status = "ok"
    <3> HIDE DEF q
    <3>1. /\ q \in Purse /\ q.status \in {"ok", "resource_deficit"}
          /\ q.status = "ok" <=> g <= Worth(v)
          /\ q.status = "ok" => Worth(q) = Worth(v) - g
          /\ q.status # "ok" => Worth(v) - Worth(q) < g
          /\ Spendable(q.aux) <= Spendable(v.aux)
      BY <1>4, <1>8, <2>2, PayGenericFacts DEF q
    <3>2. Worth(q) \in Nat /\ Spendable(q.aux) \in Nat
      BY <3>1, BothNat
    <3>3. g <= Worth(v) <=> Payable(p)
      BY <1>4, <1>5, <1>8, <1>9, <2>2 DEF Payable
    <3>4. /\ q.status = "ok" => Worth(w) - Worth(q) = Price(p.need)
          /\ q.status # "ok" => Worth(w) - Worth(q) < Price(p.need)
      BY <1>4, <1>5, <1>8, <1>9, <2>2, <3>1, <3>2
    <3>5. Spendable(q.aux) <= Spendable(w.aux)
      BY <1>8, <1>9, <3>1, <3>2
    <3> QED BY <1>8, <2>2, <3>1, <3>3, <3>4, <3>5
  <2> QED BY <2>1, <2>2
<1> HIDE DEF q
<1>11. /\ r.mana = q.mana /\ r.status = q.status /\ q.mana \in ManaAmount /\ q.aux \in ManaAmount
       /\ r.aux = IF p.allow THEN q.aux ELSE p.aux
       /\ q.status \in {"ok", "mana_restriction", "resource_deficit"}
  BY <1>1, <1>2, <1>10 DEF Purse
<1> HIDE DEF r
<1>12. Spendable(p.mana) + Spendable(p.aux) - Spendable(r.mana) - Spendable(r.aux)
       = Worth(w) - Worth(q)
  <2>1. /\ Spendable(q.mana) \in Nat /\ Spendable(q.aux) \in Nat
        /\ Spendable(p.mana) \in Nat /\ Spendable(p.aux) \in Nat
    BY <1>2, <1>11, TotalNat
  <2>2. CASE p.allow
    BY <1>3, <1>11, <2>1, <2>2 DEF Worth
  <2>3. CASE ~p.allow
    <3>1. Spendable(w.aux) = 0 /\ Spendable(q.aux) = 0
      BY <1>3, <1>10, <2>1, <2>3, NoManaAmount
    <3> QED BY <1>3, <1>11, <2>1, <2>3, <3>1 DEF Worth
  <2> QED BY <1>2, <2>2, <2>3
<1> QED BY <1>2, <1>10, <1>11, <1>12 DEF r

\* Counting what is missing finds a payment exactly when there is one, but for the {C} pips.
LEMMA PayableIsByChoice ==
  ASSUME NEW p \in Payment
  PROVE  PayableByChoice(p) <=> Payable(p) /\ Missing(p, "colorless") = 0
<1>1. /\ \A f \in Fields : Available(p, f) \in Nat /\ p.need[f] \in Nat
      /\ \A c \in Pips : Missing(p, c) \in Nat /\ c \in Fields
      /\ "any_color" \in Fields
  BY NeedsAssumption DEF Payment, ManaAmount, Available, Missing, Fields
<1>2. \A c \in Pips, n \in Nat : p.need[c] <= Available(p, c) + n <=> Missing(p, c) <= n
  BY <1>1 DEF Missing
<1>3. ASSUME Payable(p), Missing(p, "colorless") = 0 PROVE PayableByChoice(p)
  <2> DEFINE wild == [c \in WUBRG |-> Missing(p, c)]
  <2>1. ColorsOf(wild) = MissingPips(p)
    BY <1>1, <1>3 DEF ColorsOf, MissingPips, Pips, WUBRG
  <2>2. MissingPips(p) <= Available(p, "any_color") /\ Price(p.need) <= Reach(p)
    BY <1>3 DEF Payable, PipsPayable
  <2>3. \A c \in Pips : Missing(p, c) <= MissingPips(p)
    BY <1>1 DEF MissingPips, Pips, WUBRG
  <2>4. MissingPips(p) \in Nat
    BY <1>1 DEF MissingPips, Pips, WUBRG
  <2>5. wild \in [WUBRG -> 0..Available(p, "any_color")]
    BY <1>1, <2>2, <2>3, <2>4 DEF Pips
  <2>6. \A c \in WUBRG : p.need[c] <= Available(p, c) + wild[c]
    BY <1>1, <1>2 DEF Pips
  <2> HIDE DEF wild
  <2> QED BY <1>3, <2>1, <2>2, <2>5, <2>6 DEF PayableByChoice
<1>4. ASSUME PayableByChoice(p) PROVE Payable(p) /\ Missing(p, "colorless") = 0
  <2>1. PICK wild \in [WUBRG -> 0..Available(p, "any_color")] :
          /\ ColorsOf(wild) <= Available(p, "any_color")
          /\ \A c \in WUBRG : p.need[c] <= Available(p, c) + wild[c]
          /\ Missing(p, "colorless") = 0
          /\ Price(p.need) <= Reach(p)
    BY <1>4 DEF PayableByChoice
  <2>2. \A c \in WUBRG : wild[c] \in Nat /\ Missing(p, c) \in Nat /\ Missing(p, c) <= wild[c]
    <3> SUFFICES ASSUME NEW c \in WUBRG
                 PROVE  wild[c] \in Nat /\ Missing(p, c) \in Nat /\ Missing(p, c) <= wild[c]
      OBVIOUS
    <3>1. c \in Pips /\ wild[c] \in Nat /\ p.need[c] <= Available(p, c) + wild[c]
      BY <1>1, <2>1 DEF Pips
    <3> QED BY <1>1, <1>2, <3>1
  <2>3. MissingPips(p) <= ColorsOf(wild) /\ MissingPips(p) \in Nat /\ ColorsOf(wild) \in Nat
    BY <2>1, <2>2 DEF MissingPips, ColorsOf, WUBRG
  <2> QED BY <1>1, <2>1, <2>3 DEF Payable, PipsPayable
<1> QED BY <1>3, <1>4

-----------------------------------------------------------------------------
(* The specification *)

\* A step of the pools either credits mana, which clears the last payment, or pays.
LEMMA PayStep ==
  ASSUME TypeOK, NEW need \in Needs, NEW allow \in BOOLEAN, Pay(need, allow)
  PROVE  /\ last' \in Payment /\ mana' \in ManaAmount /\ mana_activate_only' \in ManaAmount
         /\ LET r == PayMana(last'.mana, last'.aux, last'.need, last'.allow)
            IN mana' = r.mana /\ mana_activate_only' = r.aux /\ last'.status = r.status
<1> DEFINE p == [mana |-> mana, aux |-> mana_activate_only, need |-> need, allow |-> allow,
                 status |-> "ok"]
           r == PayMana(mana, mana_activate_only, need, allow)
<1>1. /\ p \in Payment /\ p.mana = mana /\ p.aux = mana_activate_only
      /\ p.need = need /\ p.allow = allow
  BY DEF TypeOK, Payment
<1> HIDE DEF p
<1>2. /\ r.mana \in ManaAmount /\ r.aux \in ManaAmount
      /\ r.status \in {"ok", "mana_restriction", "resource_deficit"}
  <2> HIDE DEF r
  <2> QED BY <1>1, PayManaFacts DEF r
<1>3. /\ mana' = r.mana /\ mana_activate_only' = r.aux
      /\ last' = [mana |-> mana, aux |-> mana_activate_only, need |-> need, allow |-> allow,
                  status |-> r.status]
  BY DEF Pay
<1>4. last' \in Payment
  <2> HIDE DEF r
  <2> QED BY <1>2, <1>3 DEF TypeOK, Payment
<1>5. /\ last'.mana = mana /\ last'.aux = mana_activate_only
      /\ last'.need = need /\ last'.allow = allow /\ last'.status = r.status
  <2> HIDE DEF r
  <2> QED BY <1>3
<1> QED BY <1>2, <1>3, <1>4, <1>5

LEMMA CreditStep ==
  ASSUME TypeOK, NEW color \in Colors, NEW n \in 1..2,
         Credit(color, n) \/ CreditActivateOnly(color, n)
  PROVE  TypeOK' /\ ~Paid'
  BY ColorsAssumption DEF TypeOK, Credit, CreditActivateOnly, ManaAmount, Paid

\* What a step owes to the payment it makes: the properties of ManaPool but the type.
Owed == PaymentComplete /\ FailureNamed /\ PaymentExact /\ ActivateOnlyReserved

\* The pools hold natural amounts for every opening, cost and bound: no loop of pay_mana takes
\* more mana of a field than there is.
THEOREM TypeCorrect == Spec => []TypeOK
<1>1. Init => TypeOK
  BY OpeningAssumption, NoManaAmount DEF Init, TypeOK
<1>2. TypeOK /\ [Next]_vars => TypeOK'
  <2> SUFFICES ASSUME TypeOK, [Next]_vars PROVE TypeOK'
    OBVIOUS
  <2>1. ASSUME NEW color \in Colors, NEW n \in 1..2,
               Credit(color, n) \/ CreditActivateOnly(color, n)
        PROVE  TypeOK'
    BY <2>1, CreditStep
  <2>2. ASSUME NEW need \in Needs, NEW allow \in BOOLEAN, Pay(need, allow)
        PROVE  TypeOK'
    BY <2>2, PayStep DEF TypeOK
  <2>3. CASE UNCHANGED vars
    BY <2>3 DEF vars, TypeOK
  <2> QED BY <2>1, <2>2, <2>3 DEF Next
<1> QED BY <1>1, <1>2, PTL DEF Spec

\* Every payment keeps what paying means: it succeeds when some choice for the any_color mana
\* pays the cost, and otherwise only with {C} pips paid by any_color, it names what is missing, it takes exactly the price and it leaves the
\* activate-only pool of a spell alone.
LEMMA PaymentsOwe == Spec => []Owed
<1>1. Init => Owed
  BY DEF Init, Owed, PaymentComplete, FailureNamed, PaymentExact, ActivateOnlyReserved, Paid
<1>2. TypeOK /\ Owed /\ [Next]_vars => Owed'
  <2> SUFFICES ASSUME TypeOK, Owed, [Next]_vars PROVE Owed'
    OBVIOUS
  <2>1. ASSUME NEW color \in Colors, NEW n \in 1..2,
               Credit(color, n) \/ CreditActivateOnly(color, n)
        PROVE  Owed'
    BY <2>1, CreditStep
       DEF Owed, PaymentComplete, FailureNamed, PaymentExact, ActivateOnlyReserved
  <2>2. ASSUME NEW need \in Needs, NEW allow \in BOOLEAN, Pay(need, allow)
        PROVE  Owed'
    <3> DEFINE p == last'
               r == PayMana(p.mana, p.aux, p.need, p.allow)
    <3>1. p \in Payment /\ mana' = r.mana /\ mana_activate_only' = r.aux /\ p.status = r.status
      BY <2>2, PayStep
    <3> HIDE DEF p, r
    <3>2. /\ p.status \in {"ok", "mana_restriction", "resource_deficit"}
          /\ ~p.allow => mana_activate_only' = p.aux
          /\ p.status = "mana_restriction" <=> ~PipsPayable(p)
          /\ p.status = "resource_deficit" <=> PipsPayable(p) /\ ~Payable(p)
          /\ LET gone == Spendable(p.mana) + Spendable(p.aux)
                         - Spendable(mana') - Spendable(mana_activate_only')
             IN /\ p.status = "ok" => gone = Price(p.need)
                /\ p.status # "ok" => gone < Price(p.need)
      BY <3>1, PayManaFacts DEF r
    <3>3. PayableByChoice(p) <=> (p.status = "ok" /\ Missing(p, "colorless") = 0)
      BY <3>1, <3>2, PayableIsByChoice DEF Payable
    <3>4. PaymentComplete'
      BY <3>3 DEF PaymentComplete, p
    <3>5. FailureNamed'
      BY <3>2 DEF FailureNamed, p
    <3>6. PaymentExact'
      BY <3>2 DEF PaymentExact, p
    <3>7. ActivateOnlyReserved'
      BY <3>2 DEF ActivateOnlyReserved, p
    <3> QED BY <3>4, <3>5, <3>6, <3>7 DEF Owed
  <2>3. CASE UNCHANGED vars
    BY <2>3 DEF vars, Owed, PaymentComplete, FailureNamed, PaymentExact, ActivateOnlyReserved, Paid
  <2> QED BY <2>1, <2>2, <2>3 DEF Next
<1> QED BY <1>1, <1>2, TypeCorrect, PTL DEF Spec

\* pay_mana never misses a payment: paying colour by colour, and the unrestricted pool first,
\* succeeds whenever some choice for the any_color mana pays the cost, whatever the pools hold;
\* and it pays nothing that no choice pays but {C} pips that are missing.
THEOREM PaysWhenPayable == Spec => []PaymentComplete
  BY PaymentsOwe, PTL DEF Owed

\* A payment that fails reports the part of the cost that could not be paid.
THEOREM FailuresAreNamed == Spec => []FailureNamed
  BY PaymentsOwe, PTL DEF Owed

\* A payment that succeeds takes its price out of the two pools; one that fails takes less.
THEOREM PaysThePrice == Spec => []PaymentExact
  BY PaymentsOwe, PTL DEF Owed

\* Casting a spell never touches mana that may only pay for activated abilities.
THEOREM SpellsLeaveActivateOnly == Spec => []ActivateOnlyReserved
  BY PaymentsOwe, PTL DEF Owed

=============================================================================
