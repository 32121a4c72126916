------------------------------- MODULE ManaPool -------------------------------
(***************************************************************************)
(* The two mana pools of a game state under the operations that change     *)
(* them: Executor._credit_mana and Executor.pay_mana.  A payment that      *)
(* fails leaves the pools as far drained as it got, and the run goes on:   *)
(* that is what activate does with the payment for a Rings copy.           *)
(*                                                                         *)
(* last is the latest payment: the pools it found, what it was asked for,  *)
(* and its outcome; crediting mana clears it.                              *)
(***************************************************************************)
EXTENDS Mana

CONSTANTS
  Opening,  \* the mana of the initial state spec
  Needs,    \* the costs that are paid
  Colors,   \* the fields that effects add mana to
  MaxPool   \* bound: no mana is added to a pool that holds this much

ASSUME OpeningAssumption == Opening \in ManaAmount
ASSUME NeedsAssumption == Needs \subseteq ManaAmount
ASSUME ColorsAssumption == Colors \subseteq Fields
ASSUME MaxPoolAssumption == MaxPool \in Nat

VARIABLES mana, mana_activate_only, last
vars == <<mana, mana_activate_only, last>>

NoPayment == [status |-> "none"]
Payment == [mana : ManaAmount, aux : ManaAmount, need : Needs, allow : BOOLEAN,
            status : {"ok", "mana_restriction", "resource_deficit"}]

Init == mana = Opening /\ mana_activate_only = NoMana /\ last = NoPayment

Credit(color, n) ==
  /\ mana[color] + n <= MaxPool
  /\ mana' = [mana EXCEPT ![color] = @ + n]
  /\ last' = NoPayment /\ UNCHANGED mana_activate_only

CreditActivateOnly(color, n) ==
  /\ mana_activate_only[color] + n <= MaxPool
  /\ mana_activate_only' = [mana_activate_only EXCEPT ![color] = @ + n]
  /\ last' = NoPayment /\ UNCHANGED mana

\* allow is allow_activate_only: TRUE for an activation, FALSE for a spell.
Pay(need, allow) ==
  \E w \in {PayMana(mana, mana_activate_only, need, allow)} :
     /\ mana' = w.mana /\ mana_activate_only' = w.aux
     /\ last' = [mana |-> mana, aux |-> mana_activate_only, need |-> need, allow |-> allow,
                 status |-> w.status]

Next == \/ \E color \in Colors, n \in 1..2 : Credit(color, n) \/ CreditActivateOnly(color, n)
        \/ \E need \in Needs, allow \in BOOLEAN : Pay(need, allow)
Spec == Init /\ [][Next]_vars

-----------------------------------------------------------------------------
(* What paying means, said without the loops of the code.  Missing and     *)
(* Payable count any_color for {C} pips too, as the colour loop does.      *)
Available(p, f) == p.mana[f] + (IF p.allow THEN p.aux[f] ELSE 0)
Missing(p, c) == IF p.need[c] > Available(p, c) THEN p.need[c] - Available(p, c) ELSE 0
MissingPips(p) == Missing(p, "white") + Missing(p, "blue") + Missing(p, "black")
                  + Missing(p, "red") + Missing(p, "green") + Missing(p, "colorless")
ColorsOf(a) == a["white"] + a["blue"] + a["black"] + a["red"] + a["green"]
PipsOf(a) == ColorsOf(a) + a["colorless"]

\* The mana a payment may use and the mana it costs; a cost of any_color is never asked for.
Reach(p) == Spendable(p.mana) + (IF p.allow THEN Spendable(p.aux) ELSE 0)
Price(need) == PipsOf(need) + need["generic"]

PipsPayable(p) == MissingPips(p) <= Available(p, "any_color")
Payable(p) == PipsPayable(p) /\ Price(p.need) <= Reach(p)

\* As rules/README.md:102 has it, by exhaustion: some choice of a colour for each any_color
\* mana, or of none for generic mana, makes every pip payable.  {C} is no colour.
PayableByChoice(p) ==
  \E wild \in [WUBRG -> 0..Available(p, "any_color")] :
    /\ ColorsOf(wild) <= Available(p, "any_color")
    /\ \A c \in WUBRG : p.need[c] <= Available(p, c) + wild[c]
    /\ Missing(p, "colorless") = 0
    /\ Price(p.need) <= Reach(p)

Paid == last # NoPayment

-----------------------------------------------------------------------------
(* Properties *)

\* The pools hold natural amounts whatever is paid: no loop of pay_mana takes more mana of a
\* field than there is.
TypeOK ==
  /\ mana \in ManaAmount /\ mana_activate_only \in ManaAmount
  /\ last \in Payment \cup {NoPayment}

\* pay_mana succeeds when some choice of colours for the any_color mana pays the cost: paying
\* colour by colour, and the unrestricted pool first, never misses a payment.  When it succeeds
\* there is such a choice.  Nothing is said of a success with {C} pips missing: the code takes
\* them from any_color, which is not among the uses rules/README.md:102 lists.
PaymentComplete ==
  Paid => /\ PayableByChoice(last) => last.status = "ok"
          /\ last.status = "ok" /\ Missing(last, "colorless") = 0 => PayableByChoice(last)

\* A payment that fails says which part of the cost could not be paid: the pips or the rest.
FailureNamed ==
  Paid => /\ last.status = "mana_restriction" <=> ~PipsPayable(last)
          /\ last.status = "resource_deficit" <=> PipsPayable(last) /\ ~Payable(last)

\* A payment that succeeds takes exactly the price out of the two pools, and one that fails
\* takes less: no mana is lost or made on the way.
PaymentExact ==
  Paid => LET gone == Spendable(last.mana) + Spendable(last.aux)
                      - Spendable(mana) - Spendable(mana_activate_only)
          IN /\ last.status = "ok" => gone = Price(last.need)
             /\ last.status # "ok" => gone < Price(last.need)

\* A spell leaves the activate-only pool alone, paid or not.
ActivateOnlyReserved == Paid /\ ~last.allow => mana_activate_only = last.aux

=============================================================================
