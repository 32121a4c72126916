---------------------------- MODULE ExecutorProofs ----------------------------
(***************************************************************************)
(* What the executor guarantees for every state, every set of cards and    *)
(* every step.  First, that a step ends with "ok" or with one of the       *)
(* statuses of an ExecError, and that a sequence of steps is its first     *)
(* step followed by the rest; no typing of the state is needed for that.   *)
(*                                                                         *)
(* Then, for cards of the IR, that every effect takes a typed state to a   *)
(* typed state and keeps the books: the cards in hand, the energy and the  *)
(* life totals are what the event counters say they became, and no object  *)
(* is forgotten.  (PlayProofs has the costs, the triggers, the casts and   *)
(* the steps, and what follows for a run.)                                 *)
(*                                                                         *)
(* Both arguments go up the executor, from a field of the state to the     *)
(* body of an ability.  Every list that the executor works through is a    *)
(* fold; FoldFacts carries what one element keeps to the list.             *)
(***************************************************************************)
EXTENDS Steps, FiniteSetTheorems, SequenceTheorems, WellFoundedInduction, TLAPS

\* A set with 0 that is closed under the successor holds every natural number.
LEMMA NatSets == \A N : 0 \in N /\ (\A n \in Nat : n \in N => n + 1 \in N) => Nat \subseteq N
<1> SUFFICES ASSUME NEW N, 0 \in N, \A n \in Nat : n \in N => n + 1 \in N PROVE Nat \subseteq N
  OBVIOUS
<1> DEFINE T == {n \in Nat : n \notin N}
<1> SUFFICES ASSUME T # {} PROVE FALSE
  OBVIOUS
<1>1. PICK x \in T : \A y \in T : ~ (<<y, x>> \in OpToRel(<, Nat))
  BY NatLessThanWellFounded, WFMin
<1>2. x \in Nat /\ x # 0 /\ x - 1 \in Nat /\ x - 1 < x /\ x = (x - 1) + 1
  OBVIOUS
<1>3. x - 1 \in T
  BY <1>2
<1>4. <<x - 1, x>> \in OpToRel(<, Nat)
  BY <1>2 DEF OpToRel
<1> QED BY <1>1, <1>3, <1>4

\* The elements of the subsets of a finite set can be counted.
LEMMA FiniteRanks ==
  ASSUME NEW S, IsFiniteSet(S)
  PROVE  \E rank : /\ rank \in [SUBSET S -> Nat]
                   /\ \A s \in SUBSET S : (s = {} <=> rank[s] = 0) /\ rank[s] <= rank[S]
                   /\ \A s \in SUBSET S : \A x \in s : rank[s \ {x}] = rank[s] - 1
<1> DEFINE rank == [s \in SUBSET S |-> Cardinality(s)]
<1>1. ASSUME NEW s \in SUBSET S
      PROVE  /\ IsFiniteSet(s) /\ Cardinality(s) \in Nat /\ (s = {} <=> Cardinality(s) = 0)
             /\ Cardinality(s) <= Cardinality(S)
             /\ \A x \in s : Cardinality(s \ {x}) = Cardinality(s) - 1
  BY FS_Subset, FS_CardinalityType, FS_EmptySet, FS_RemoveElement
<1>2. rank \in [SUBSET S -> Nat]
  BY <1>1
<1>3. \A s \in SUBSET S : rank[s] = Cardinality(s) /\ \A x \in s : rank[s \ {x}] = Cardinality(s \ {x})
  OBVIOUS
<1> HIDE DEF rank
<1>4. \A s \in SUBSET S : (s = {} <=> rank[s] = 0) /\ rank[s] <= rank[S]
  BY <1>1, <1>3
<1>5. \A s \in SUBSET S : \A x \in s : rank[s \ {x}] = rank[s] - 1
  BY <1>1, <1>3
<1> QED BY <1>2, <1>4, <1>5


\* r is the result of an operation that went well or failed with a status.
Ended(r) == r.err \in Statuses

LEMMA OkEnded == ASSUME NEW st PROVE Ok(st).err = "ok" /\ Ended(Ok(st)) /\ Ok(st).st = st
  BY DEF Ok, Ended, Statuses
LEMMA ErrEnded == ASSUME NEW st, NEW status \in Errors PROVE Ended(Err(st, status))
  BY DEF Err, Ended, Statuses
LEMMA IllegalEnded == ASSUME NEW st, NEW ok, NEW r, Ended(r) PROVE Ended(Illegal(st, ok, r))
  BY DEF Illegal, Err, Ended, Statuses, Errors

-----------------------------------------------------------------------------
(* Mana *)
ManaStatuses == {"ok", "mana_restriction", "resource_deficit"}
IsPurse(w) == w = [mana |-> w.mana, aux |-> w.aux, status |-> w.status] /\ w.status \in ManaStatuses

LEMMA OutcomePurse ==
  ASSUME NEW t, NEW failure \in ManaStatuses PROVE IsPurse(Outcome(t, failure))
  BY DEF Outcome, IsPurse, ManaStatuses
LEMMA PipPurse == ASSUME NEW w, IsPurse(w), NEW c, NEW n PROVE IsPurse(PayPip(w, c, n))
<1>1. "mana_restriction" \in ManaStatuses
  BY DEF ManaStatuses
<1> QED BY <1>1, OutcomePurse DEF PayPip

\* Whatever is in the pools and whatever is to be paid, a payment ends with one of three statuses.
LEMMA PayManaStatus ==
  ASSUME NEW mana, NEW aux, NEW need, NEW allow
  PROVE  PayMana(mana, aux, need, allow).status \in ManaStatuses
<1> DEFINE w0 == PurseOf(mana, IF allow THEN aux ELSE NoMana)
           w6 == PayPips(w0, need)
           w7 == PayGeneric(w6, need["generic"])
<1>1. IsPurse(w0)
  BY DEF PurseOf, IsPurse, ManaStatuses
<1> HIDE DEF w0
<1>2. IsPurse(w6)
  BY <1>1, PipPurse DEF PayPips
<1> HIDE DEF w6
<1>3. IsPurse(w7)
  <2>1. "resource_deficit" \in ManaStatuses
    BY DEF ManaStatuses
  <2> QED BY <1>2, <2>1, OutcomePurse DEF PayGeneric
<1> HIDE DEF w7
<1>4. PayMana(mana, aux, need, allow) = Reserve(w7, aux, allow)
  BY DEF PayMana, w7, w6, w0
<1>5. Reserve(w7, aux, allow).status = w7.status
  BY <1>3 DEF Reserve, IsPurse
<1> QED BY <1>3, <1>4, <1>5 DEF IsPurse

-----------------------------------------------------------------------------
(* Costs *)
\* The accumulator of the costs, with a status.
Account(a) ==
  /\ a = [st |-> a.st, err |-> a.err, target |-> a.target, reduction |-> a.reduction]
  /\ Ended(a)

LEMMA FailsAccount ==
  ASSUME NEW a, Account(a), NEW status \in Statuses PROVE Account(Fails(a, status))
  BY DEF Account, Fails, Ended
LEMMA PaidAccount ==
  ASSUME NEW a, Account(a), NEW st PROVE Account(Paid(a, st))
  BY DEF Account, Paid, Ended
LEMMA PaidWithAccount ==
  ASSUME NEW a, Account(a), NEW st, NEW used PROVE Account(PaidWith(a, st, used))
<1> DEFINE t == IF used THEN NoId ELSE a.target
<1>1. PaidWith(a, st, used) = [[a EXCEPT !.st = st] EXCEPT !.target = t]
  BY DEF PaidWith, Account
<1> HIDE DEF t
<1>2. Account([a EXCEPT !.st = st])
  BY DEF Account, Ended
<1>3. ASSUME NEW b, Account(b) PROVE Account([b EXCEPT !.target = t])
  BY <1>3 DEF Account, Ended
<1> QED BY <1>1, <1>2, <1>3
LEMMA PoolsAccount ==
  ASSUME NEW a, Account(a), NEW need, NEW allow PROVE Account(PayFromPools(a, need, allow))
<1> DEFINE w == PayMana(a.st.mana, a.st.mana_activate_only, need, allow)
<1>1. w.status \in Statuses
  BY PayManaStatus DEF ManaStatuses, Statuses, Errors
<1> HIDE DEF w
<1>2. Account(Charge(a, w))
  <2>1. Charge(a, w) = Fails(Paid(a, Drained(a.st, w)), w.status)
    BY DEF Charge, Fails, Paid, Account
  <2> QED BY <1>1, <2>1, FailsAccount, PaidAccount
<1> QED BY <1>2 DEF PayFromPools, w

\* The statuses that costs fail with.
LEMMA CostErrors ==
  /\ {"illegal_action", "illegal_target", "timing_violation", "mana_restriction",
      "resource_deficit", "ok"} \subseteq Statuses
  BY DEF Statuses, Errors

LEMMA TapErrors ==
  ASSUME NEW st, NEW id, NEW host, NEW p
  PROVE  TapHostError(st, id, host) \in Statuses /\ TapSelfError(p) \in Statuses
  BY CostErrors DEF TapHostError, TapSelfError
LEMMA SacrificeErrors ==
  ASSUME NEW st, NEW id, NEW selector PROVE SacrificeError(st, id, selector) \in Statuses
  BY CostErrors DEF SacrificeError

LEMMA TapForAccount ==
  ASSUME NEW a, Account(a), NEW id, NEW self, NEW error \in Statuses
  PROVE  Account(TapFor(a, id, self, error))
  BY FailsAccount, PaidWithAccount DEF TapFor

LEMMA TapAccount ==
  ASSUME NEW a, Account(a), NEW cost, NEW actor PROVE Account(PayTap(a, cost, actor))
  BY TapForAccount, FailsAccount, TapErrors, CostErrors DEF PayTap

LEMMA ManaAccount ==
  ASSUME NEW a, Account(a), NEW cost, NEW floor PROVE Account(PayManaCost(a, cost, floor))
<1>1. ASSUME NEW k PROVE Account([a EXCEPT !.reduction = @ - k])
  BY DEF Account, Ended
<1> QED BY <1>1, PoolsAccount DEF PayManaCost

LEMMA HybridAccount ==
  ASSUME NEW a, Account(a), NEW cost PROVE Account(PayHybrid(a, cost))
  BY PoolsAccount, FailsAccount, CostErrors DEF PayHybrid

LEMMA CounterAccount ==
  ASSUME NEW a, Account(a), NEW cost, NEW actor
  PROVE  Account(PayAddCounter(a, cost, actor)) /\ Account(PayRemoveCounter(a, cost, actor))
<1>1. Account(PayAddCounter(a, cost, actor))
  BY PaidAccount DEF PayAddCounter, PlaceForCost
<1>2. \A host, self : Account(RemoveForCost(a, cost, host, self))
  BY PaidWithAccount, FailsAccount, CostErrors DEF RemoveForCost
<1>3. Account(PayRemoveCounter(a, cost, actor))
  BY <1>2, FailsAccount, CostErrors DEF PayRemoveCounter
<1> QED BY <1>1, <1>3

LEMMA AmountAccount ==
  ASSUME NEW a, Account(a), NEW cost, NEW actor
  PROVE  /\ Account(PayLife(a, cost)) /\ Account(PayEnergy(a, cost))
         /\ Account(PayLoyalty(a, cost, actor)) /\ Account(PayDiscard(a, cost, actor))
         /\ Account(PayUntapSymbol(a, cost, actor))
<1>1. Account(PayLife(a, cost)) /\ Account(PayEnergy(a, cost))
  BY PaidAccount, FailsAccount, CostErrors DEF PayLife, PayEnergy
<1>2. Account(PayLoyalty(a, cost, actor)) /\ Account(PayDiscard(a, cost, actor))
  BY PaidAccount, FailsAccount, CostErrors DEF PayLoyalty, PayDiscard
<1>3. Account(PayUntapSymbol(a, cost, actor))
  BY PaidWithAccount, FailsAccount, CostErrors DEF PayUntapSymbol
<1> QED BY <1>1, <1>2, <1>3

LEMMA FodderAccount ==
  ASSUME NEW a, Account(a), NEW cost, NEW actor, NEW ab, NEW step
  PROVE  Account(PaySacrifice(a, cost, actor, step)) /\ Account(PayBounce(a, cost, ab, step))
<1>1. Account(PaySacrifice(a, cost, actor, step))
  <2>1. \A fodder, used : Account(SacrificeFor(a, fodder, used))
    BY PaidWithAccount DEF SacrificeFor
  <2> QED BY <2>1, FailsAccount, SacrificeErrors, CostErrors DEF PaySacrifice
<1>2. \A fit, named : Account(BounceForCost(a, fit, named))
  BY PaidWithAccount, FailsAccount, CostErrors DEF BounceForCost
<1> QED BY <1>1, <1>2 DEF PayBounce

LEMMA TappingAccount ==
  ASSUME NEW a, Account(a), NEW cost, NEW actor, NEW step
  PROVE  /\ Account(PayTapCreatures(a, cost, actor, step))
         /\ Account(PayTapArtifacts(a, cost, actor))
<1>1. \A choice, n : Account(TapChosen(a, choice, n))
  BY PaidAccount, FailsAccount, CostErrors DEF TapChosen
<1>2. \A fit, n, named : Account(TapFitting(a, fit, n, named))
  BY <1>1, PaidAccount, FailsAccount, CostErrors DEF TapFitting
<1> QED BY <1>1, <1>2 DEF PayTapCreatures, PayTapArtifacts

\* A cost of the IR leaves an account.
LEMMA CostAccount ==
  ASSUME NEW a, Account(a), NEW cost, cost.kind \in CostKinds, NEW ab, NEW step, NEW floor
  PROVE  Account(PayCost(a, cost, ab, step, floor))
<1>1. CASE cost.kind \in {"tap", "mana", "hybrid_mana", "untap_symbol"}
  BY <1>1, TapAccount, ManaAccount, HybridAccount, AmountAccount DEF PayCost
<1>2. CASE cost.kind \in {"add_counter", "remove_counter_cost", "loyalty"}
  BY <1>2, CounterAccount, AmountAccount DEF PayCost
<1>3. CASE cost.kind \in {"pay_life", "energy", "discard"}
  BY <1>3, AmountAccount DEF PayCost
<1>4. CASE cost.kind \in {"sacrifice", "bounce_controlled", "tap_creature", "tap_artifact"}
  BY <1>4, FodderAccount, TappingAccount DEF PayCost
<1> QED BY <1>1, <1>2, <1>3, <1>4 DEF CostKinds

\* The costs of an ability, one after the other.  c holds what paying one refers to.
CostStep(c, a, cost) ==
  IF a.err # "ok" THEN a
  ELSE PayCost(a, cost, c.ab, c.step, ManaFloor(c.st, c.ab, c.step.actor))
IsAccount(c, a) == Account(a)
EachCost == INSTANCE FoldFacts WITH Op <- CostStep, P <- IsAccount

NoCostPaid(c) ==
  [st |-> c.st, err |-> "ok", target |-> c.step.target,
   reduction |-> CostReduction(c.st, c.ab, c.step.actor)]

LEMMA CostsFold ==
  ASSUME NEW c
  PROVE  PayCosts(c.st, c.ab, c.step) = EachCost!Fold(c, NoCostPaid(c), c.ab.costs)
  BY Zenon DEF PayCosts, NoCostPaid, CostStep, FoldLeft, MapThenFoldSet, Max,
     EachCost!Fold, EachCost!LastOf

LEMMA ListIndices ==
  ASSUME NEW s, IsSequence(s) PROVE DOMAIN s = 1..Len(s) /\ Len(s) \in Nat
  BY DEF IsSequence

LEMMA CostsAccount ==
  ASSUME NEW st, NEW ab, ListOf(ab.costs, CostKinds), NEW step
  PROVE  Account(PayCosts(st, ab, step))
<1> DEFINE c == [st |-> st, ab |-> ab, step |-> step]
<1>0. c.st = st /\ c.ab = ab /\ c.step = step
  OBVIOUS
<1> HIDE DEF c
<1>1. IsAccount(c, NoCostPaid(c))
  BY CostErrors DEF IsAccount, Account, Ended, NoCostPaid
<1>2. ASSUME NEW a, NEW i \in DOMAIN ab.costs, IsAccount(c, a)
      PROVE  IsAccount(c, CostStep(c, a, ab.costs[i]))
  BY <1>2, CostAccount DEF IsAccount, CostStep, ListOf
<1>3. DOMAIN ab.costs = 1..Len(ab.costs) /\ Len(ab.costs) \in Nat
  BY ListIndices DEF ListOf
<1>4. IsAccount(c, EachCost!Fold(c, NoCostPaid(c), ab.costs))
  BY <1>1, <1>2, <1>3, NatSets, EachCost!FoldInvariant
<1>5. PayCosts(st, ab, step) = EachCost!Fold(c, NoCostPaid(c), ab.costs)
  BY <1>0, CostsFold
<1> QED BY <1>4, <1>5 DEF IsAccount

-----------------------------------------------------------------------------
(* Effects *)
LEMMA UntapTapEnded ==
  ASSUME NEW st, NEW e, NEW c PROVE Ended(ApplyUntap(st, e, c)) /\ Ended(ApplyTap(st, e, c))
  BY OkEnded, IllegalEnded DEF ApplyUntap, UntapOne, ApplyTap
LEMMA AddManaEnded == ASSUME NEW st, NEW e, NEW c PROVE Ended(AddMana(st, e, c))
  BY OkEnded, IllegalEnded DEF AddMana, AddManaTimes
LEMMA TokenEnded == ASSUME NEW st, NEW e, NEW c PROVE Ended(CreateToken(st, e, c))
<1>1. "illegal_action" \in Errors
  BY DEF Errors
<1>2. \A template, n : Ended(MakeTokens(st, e, template, n))
  BY OkEnded, IllegalEnded DEF MakeTokens
<1> QED BY <1>1, <1>2, ErrEnded DEF CreateToken
LEMMA CounterEnded ==
  ASSUME NEW st, NEW e, NEW c PROVE Ended(AddCounter(st, e, c)) /\ Ended(RemoveCounter(st, e, c))
<1>1. {"illegal_action", "illegal_target", "resource_deficit"} \subseteq Errors
  BY DEF Errors
<1> QED BY <1>1, OkEnded, ErrEnded DEF AddCounter, RemoveCounter
LEMMA GrantEnded ==
  ASSUME NEW st, NEW c PROVE Ended(GrantLifelink(st, c)) /\ Ended(GrantTapBounce(st, c))
  BY OkEnded, IllegalEnded DEF GrantLifelink, GrantTapBounce
LEMMA MovedEnded ==
  ASSUME NEW st, NEW e, NEW c
  PROVE  /\ Ended(ReturnFromGraveyardToHand(st, e, c)) /\ Ended(Blink(st, e, c))
         /\ Ended(BecomeCopy(st, e, c)) /\ Ended(MoveToZone(st, e, c))
<1>1. Ended(ReturnFromGraveyardToHand(st, e, c))
  BY OkEnded DEF ReturnFromGraveyardToHand, ReturnOneOf
<1>2. Ended(Blink(st, e, c))
  BY OkEnded, IllegalEnded DEF Blink
<1>3. Ended(BecomeCopy(st, e, c))
  BY OkEnded, IllegalEnded DEF BecomeCopy
<1>4. Ended(MoveToZone(st, e, c))
  BY OkEnded, IllegalEnded DEF MoveToZone
<1> QED BY <1>1, <1>2, <1>3, <1>4
LEMMA DamageEnded ==
  ASSUME NEW st, NEW e, NEW c PROVE Ended(Fight(st, e, c)) /\ Ended(DealDamage(st, e, c))
<1>1. {"illegal_action", "illegal_target"} \subseteq Errors
  BY DEF Errors
<1>2. Ended(Fight(st, e, c))
  BY OkEnded, IllegalEnded DEF Fight
<1>3. Ended(DealDamage(st, e, c))
  BY <1>1, OkEnded, ErrEnded, IllegalEnded DEF DealDamage
<1> QED BY <1>2, <1>3
LEMMA AmountEnded ==
  ASSUME NEW st, NEW e, NEW c
  PROVE  /\ Ended(GainLife(st, e, c)) /\ Ended(LoseLife(st, e, c)) /\ Ended(Draw(st, e, c))
         /\ Ended(Mill(st, e, c)) /\ Ended(GetEnergy(st, e)) /\ Ended(CopyPendingTrigger(st))
<1>1. "illegal_action" \in Errors
  BY DEF Errors
<1>2. Ended(GainLife(st, e, c)) /\ Ended(LoseLife(st, e, c))
  BY <1>1, OkEnded, ErrEnded DEF GainLife, LoseLife
<1>3. Ended(Draw(st, e, c)) /\ Ended(GetEnergy(st, e))
  BY OkEnded DEF Draw, GetEnergy
<1>4. Ended(Mill(st, e, c))
  BY OkEnded DEF Mill
<1>5. Ended(CopyPendingTrigger(st))
  BY <1>1, OkEnded, ErrEnded DEF CopyPendingTrigger
<1> QED BY <1>2, <1>3, <1>4, <1>5

LEMMA BasicEnded ==
  ASSUME NEW st, NEW e, e.kind \in BasicEffects, NEW c PROVE Ended(ApplyBasic(st, e, c))
<1>1. CASE e.kind \in {"add_mana", "untap", "tap", "create_token", "add_counter", "remove_counter"}
  BY <1>1, AddManaEnded, UntapTapEnded, TokenEnded, CounterEnded DEF ApplyBasic
<1>2. CASE e.kind \in {"grant_lifelink", "grant_tap_bounce_nonland", "return_gy_to_hand", "blink",
                       "become_copy", "move_to_zone"}
  BY <1>2, GrantEnded, MovedEnded DEF ApplyBasic
<1>3. CASE e.kind \in {"fight", "deal_damage", "gain_life", "draw", "lose_life", "mill",
                       "get_energy", "copy_pending_trigger"}
  BY <1>3, DamageEnded, AmountEnded DEF ApplyBasic
<1>4. CASE e.kind \in {"proliferate", "return_to_battlefield", "additional_combat", "extra_turn"}
  BY <1>4, OkEnded DEF ApplyBasic
<1> QED BY <1>1, <1>2, <1>3, <1>4 DEF BasicEffects

\* The body of a spell.
BasicStep(c, acc, e) ==
  IF acc.err # "ok" THEN acc
  ELSE Carrying(ApplyBasic(acc.st, e, [c EXCEPT !.amount = AmountFor(acc, e)]), AmountFor(acc, e))
HasEnded(c, r) == Ended(r)
EachBasic == INSTANCE FoldFacts WITH Op <- BasicStep, P <- HasEnded
LEMMA BasicFold ==
  ASSUME NEW r, NEW effects, NEW c
  PROVE  RunBasic(r, effects, c) = EachBasic!Fold(c, Carrying(r, c.amount), effects)
  BY Zenon DEF RunBasic, BasicStep, FoldLeft, MapThenFoldSet, Max,
     EachBasic!Fold, EachBasic!LastOf
LEMMA RunBasicEnded ==
  ASSUME NEW r, Ended(r), NEW effects, ListOf(effects, BasicEffects), NEW c
  PROVE  Ended(RunBasic(r, effects, c))
<1>1. HasEnded(c, Carrying(r, c.amount))
  BY DEF HasEnded, Ended, Carrying
<1>2. ASSUME NEW acc, NEW i \in DOMAIN effects, HasEnded(c, acc)
      PROVE  HasEnded(c, BasicStep(c, acc, effects[i]))
  <2>1. effects[i].kind \in BasicEffects
    BY DEF ListOf
  <2>2. Ended(ApplyBasic(acc.st, effects[i], [c EXCEPT !.amount = AmountFor(acc, effects[i])]))
    BY <2>1, BasicEnded
  <2> QED BY <1>2, <2>2 DEF HasEnded, BasicStep, Carrying, Ended
<1>3. DOMAIN effects = 1..Len(effects) /\ Len(effects) \in Nat
  BY ListIndices DEF ListOf
<1>4. HasEnded(c, EachBasic!Fold(c, Carrying(r, c.amount), effects))
  BY <1>1, <1>2, <1>3, NatSets, EachBasic!FoldInvariant
<1> QED BY <1>4, BasicFold DEF HasEnded

BodyStep(c, r, ab) == IF r.err # "ok" \/ ~IsSpellBody(ab) THEN r ELSE RunBasic(r, ab.effects, c)
EachBody == INSTANCE FoldFacts WITH Op <- BodyStep, P <- HasEnded
LEMMA BodiesFold ==
  ASSUME NEW st, NEW abilities, NEW c
  PROVE  RunBodies(st, abilities, c) = EachBody!Fold(c, Ok(st), abilities)
  BY Zenon DEF RunBodies, BodyStep, FoldLeft, MapThenFoldSet, Max,
     EachBody!Fold, EachBody!LastOf
LEMMA SpellBodyEnded ==
  ASSUME NEW st, NEW spell, NEW source, NEW target
  PROVE  Ended(ApplySpellBody(st, spell, source, target))
<1> DEFINE c == [source |-> source, target |-> target, subject |-> NoId, amount |-> None]
           abilities == Cards[spell].abilities
<1>0. {"illegal_action", "unsupported_semantics"} \subseteq Errors
  BY DEF Errors
<1>1. CASE spell \notin DOMAIN Cards
  BY <1>0, <1>1, ErrEnded DEF ApplySpellBody
<1>2. CASE spell \in DOMAIN Cards
  <2>1. /\ DOMAIN abilities = 1..Len(abilities) /\ Len(abilities) \in Nat
        /\ \A i \in DOMAIN abilities : IsSpellBody(abilities[i])
                                        => ListOf(abilities[i].effects, BasicEffects)
    BY <1>2, CardsAssumption, ListIndices DEF WellFormed, IsAbility, ToSet
  <2> HIDE DEF c, abilities
  <2>2. HasEnded(c, Ok(st))
    BY OkEnded DEF HasEnded
  <2>3. ASSUME NEW r, NEW i \in DOMAIN abilities, HasEnded(c, r)
        PROVE  HasEnded(c, BodyStep(c, r, abilities[i]))
    BY <2>1, <2>3, RunBasicEnded DEF HasEnded, BodyStep
  <2>4. HasEnded(c, EachBody!Fold(c, Ok(st), abilities))
    BY <2>1, <2>2, <2>3, NatSets, EachBody!FoldInvariant
  <2>5. ApplySpellBody(st, spell, source, target)
          \in {Err(st, "unsupported_semantics"), EachBody!Fold(c, Ok(st), abilities)}
    BY <1>2, BodiesFold DEF ApplySpellBody, c, abilities
  <2> QED BY <1>0, <2>4, <2>5, ErrEnded DEF HasEnded
<1> QED BY <1>1, <1>2

LEMMA OneEnded ==
  ASSUME NEW st, NEW e, e.kind \in EffectKinds, NEW c PROVE Ended(ApplyOne(st, e, c))
<1>0. {"resource_deficit", "illegal_action"} \subseteq Errors
  BY DEF Errors
<1>1. CASE e.kind = "imprint_instant_from_hand"
  <2>1. Ended(ImprintInstant(st, e, c))
    BY <1>0, OkEnded, ErrEnded DEF ImprintInstant
  <2> QED BY <1>1, <2>1 DEF ApplyOne
<1>2. CASE e.kind \in {"cast_imprinted_spell", "copy_last_cast_spell"}
  <2>1. ASSUME NEW r, Ended(r), NEW spell PROVE Ended(SpellDone(r, e, spell, c.source))
    BY <2>1, OkEnded DEF SpellDone, Result, Ended
  <2>2. ASSUME NEW spell PROVE Ended(RunSpell(st, e, c, spell))
    BY <1>0, <2>1, ErrEnded, SpellBodyEnded DEF RunSpell
  <2> QED BY <1>2, <2>2 DEF ApplyOne
<1>3. CASE e.kind \in BasicEffects
  <2>1. e.kind \notin {"imprint_instant_from_hand", "cast_imprinted_spell", "copy_last_cast_spell"}
    BY <1>3 DEF BasicEffects
  <2> QED BY <1>3, <2>1, BasicEnded DEF ApplyOne
<1> QED BY <1>1, <1>2, <1>3 DEF EffectKinds

EffectStep(c, acc, e) ==
  IF acc.err # "ok" THEN acc
  ELSE Carrying(ApplyOne(acc.st, e, [c EXCEPT !.amount = AmountFor(acc, e)]), AmountFor(acc, e))
EachEffect == INSTANCE FoldFacts WITH Op <- EffectStep, P <- HasEnded
LEMMA EffectsFold ==
  ASSUME NEW st, NEW effects, NEW c
  PROVE  ApplyEffects(st, effects, c) = Result(EachEffect!Fold(c, Carrying(Ok(st), c.amount), effects))
  BY Zenon DEF ApplyEffects, EffectStep, FoldLeft, MapThenFoldSet, Max,
     EachEffect!Fold, EachEffect!LastOf
LEMMA EffectsEnded ==
  ASSUME NEW st, NEW effects, ListOf(effects, EffectKinds), NEW c
  PROVE  Ended(ApplyEffects(st, effects, c))
<1>1. HasEnded(c, Carrying(Ok(st), c.amount))
  BY OkEnded DEF HasEnded, Ended, Carrying
<1>2. ASSUME NEW acc, NEW i \in DOMAIN effects, HasEnded(c, acc)
      PROVE  HasEnded(c, EffectStep(c, acc, effects[i]))
  <2>1. effects[i].kind \in EffectKinds
    BY DEF ListOf
  <2>2. Ended(ApplyOne(acc.st, effects[i], [c EXCEPT !.amount = AmountFor(acc, effects[i])]))
    BY <2>1, OneEnded
  <2> QED BY <1>2, <2>2 DEF HasEnded, EffectStep, Carrying, Ended
<1>3. DOMAIN effects = 1..Len(effects) /\ Len(effects) \in Nat
  BY ListIndices DEF ListOf
<1>4. HasEnded(c, EachEffect!Fold(c, Carrying(Ok(st), c.amount), effects))
  BY <1>1, <1>2, <1>3, NatSets, EachEffect!FoldInvariant
<1> QED BY <1>4, EffectsFold DEF HasEnded, Result, Ended

-----------------------------------------------------------------------------
(* Activations, triggers and the other steps *)
LEMMA ThenEnded ==
  ASSUME NEW next(_), NEW r, Ended(r), \A st : Ended(next(st)) PROVE Ended(Then(r, next))
  BY DEF Then

\* The abilities of a permanent are those of a card of the IR.
LEMMA AbilityLists ==
  ASSUME NEW p, NEW i \in DOMAIN AbilitiesOf(p)
  PROVE  LET ab == AbilitiesOf(p)[i] IN
           /\ ab.kind \in {"activated", "triggered", "grant_activated"} => ListOf(ab.effects, EffectKinds)
           /\ ab.kind \in {"activated", "grant_activated"} => ListOf(ab.costs, CostKinds)
<1>1. CASE HasSemantics(p)
  BY <1>1, CardsAssumption DEF HasSemantics, AbilitiesOf, WellFormed, IsAbility
<1>2. CASE ~HasSemantics(p)
  BY <1>2 DEF AbilitiesOf
<1> QED BY <1>1, <1>2

LEMMA FoundLists ==
  ASSUME NEW st, NEW host, NEW ability, NEW ab \in FindActivated(st, host, ability)
  PROVE  ListOf(ab.effects, EffectKinds) /\ ListOf(ab.costs, CostKinds)
<1>1. CASE ab \in {x \in FindAbility(st.permanents[host], ability) : x.kind = "activated"}
  BY <1>1, AbilityLists DEF FindAbility
<1>2. CASE \E x \in GrantedUnder(st, ability) :
             ab = [ActivatedAbility EXCEPT !.ability_id = ability, !.costs = x.costs,
                     !.effects = x.effects, !.is_mana_ability = x.is_mana_ability]
  <2>1. PICK x \in GrantedUnder(st, ability) :
             ab = [ActivatedAbility EXCEPT !.ability_id = ability, !.costs = x.costs,
                     !.effects = x.effects, !.is_mana_ability = x.is_mana_ability]
    BY <1>2
  <2>2. ab.costs = x.costs /\ ab.effects = x.effects
    BY <2>1 DEF ActivatedAbility
  <2>3. ListOf(x.effects, EffectKinds) /\ ListOf(x.costs, CostKinds)
    BY AbilityLists DEF GrantedUnder, ToSet
  <2> QED BY <2>2, <2>3
<1> QED BY <1>1, <1>2 DEF FindActivated

LEMMA CopyEnded ==
  ASSUME NEW st, NEW ab, ListOf(ab.effects, EffectKinds), NEW c, NEW price
  PROVE  Ended(CopyActivation(st, ab, c, price))
<1>1. \A w : Ended(CopyMade(st, w, ab, c))
  BY OkEnded, EffectsEnded DEF CopyMade, Then
<1> QED BY <1>1, OkEnded DEF CopyActivation

LEMMA ActivatedEnded == ASSUME NEW st, NEW step PROVE Ended(Activated(st, step))
<1>0. "illegal_action" \in Errors
  BY DEF Errors
<1>1. ASSUME NEW ab, ListOf(ab.effects, EffectKinds), NEW costs, Account(costs), NEW actor
      PROVE  Ended(Resolved(costs, ab, actor))
  <2> DEFINE c == [source |-> actor, target |-> costs.target, subject |-> NoId, amount |-> None]
             r == Then(ApplyEffects(costs.st, ab.effects, c),
                       LAMBDA s : CopyActivation(s, ab, c, CopyPayment(s, ab, actor)))
  <2>1. Ended(r)
    BY <1>1, EffectsEnded, CopyEnded DEF Then
  <2>2. ASSUME NEW x, Ended(x) PROVE Ended(MarkUsed(x, ab, actor))
    BY <2>2, OkEnded DEF MarkUsed
  <2>3. CASE costs.err # "ok"
    <3>1. Resolved(costs, ab, actor) = Err(costs.st, costs.err)
      BY <2>3 DEF Resolved
    <3> QED BY <1>1, <3>1 DEF Account, Ended, Err
  <2>4. CASE costs.err = "ok"
    <3>1. Resolved(costs, ab, actor) = MarkUsed(r, ab, actor)
      BY <2>4 DEF Resolved
    <3> HIDE DEF r
    <3> QED BY <2>1, <2>2, <3>1
  <2> QED BY <2>3, <2>4
<1>2. ASSUME NEW p, NEW ab PROVE ActivationError(st, p, ab) \in Statuses
  BY DEF ActivationError, Statuses, Errors
<1>3. ASSUME NEW ab, ListOf(ab.effects, EffectKinds), ListOf(ab.costs, CostKinds),
             NEW error \in Statuses
      PROVE  Ended(ActivateAbility(st, step, ab, error))
  <2>1. Ended(Resolved(PayCosts(st, ab, step), ab, step.actor))
    BY <1>1, <1>3, CostsAccount
  <2> QED BY <1>3, <2>1 DEF ActivateAbility, Ended, Err
<1>4. ASSUME NEW found, found # None, \A ab \in found : ListOf(ab.effects, EffectKinds) /\ ListOf(ab.costs, CostKinds)
      PROVE  Ended(ActivateFound(st, step, found))
  <2>1. The(found) \in found
    BY <1>4 DEF The, None
  <2> QED BY <1>0, <1>2, <1>3, <1>4, <2>1, ErrEnded DEF ActivateFound
<1>5. ASSUME NEW found, found = None PROVE Ended(ActivateFound(st, step, found))
  BY <1>0, <1>5, ErrEnded DEF ActivateFound
<1> QED BY <1>0, <1>4, <1>5, FoundLists, ErrEnded DEF Activated

LEMMA TriggerEnded == ASSUME NEW st, NEW step PROVE Ended(ResolveTrigger(st, step))
<1>0. "illegal_action" \in Errors
  BY DEF Errors
<1>1. ASSUME NEW s, NEW id PROVE Ended(UndyingReturned(s, id))
  BY <1>0, OkEnded, ErrEnded DEF UndyingReturned
<1>2. ASSUME NEW s, NEW tr, NEW found, \A ab \in found : ListOf(ab.effects, EffectKinds)
      PROVE  Ended(TriggerEffects(s, tr, step, found))
  <2>1. CASE found = None
    BY <1>0, <2>1, ErrEnded DEF TriggerEffects
  <2>2. CASE found # None
    <3>1. ListOf(The(found).effects, EffectKinds)
      BY <1>2, <2>2 DEF The, None
    <3>2. \A c : Ended(ApplyEffects(s, The(found).effects, c))
      BY <3>1, EffectsEnded
    <3> QED BY <2>2, <3>2, OkEnded DEF TriggerEffects
  <2> QED BY <2>1, <2>2
<1>3. ASSUME NEW s, NEW tr PROVE Ended(ResolvePopped(s, tr, step))
  <2>1. \A ab \in AbilityOfTrigger(s, tr) : ListOf(ab.effects, EffectKinds)
    BY AbilityLists DEF AbilityOfTrigger, FindAbility
  <2> QED BY <1>1, <1>2, <2>1 DEF ResolvePopped
<1> QED BY <1>0, <1>3, ErrEnded DEF ResolveTrigger, ResolveAt

LEMMA CastEnded == ASSUME NEW st, NEW step PROVE Ended(CastFromHand(st, step))
<1>0. {"illegal_action", "unsupported_semantics"} \subseteq Errors
  BY DEF Errors
<1>1. ASSUME NEW card PROVE PayForSpell(st, card).status \in Statuses
  <2>1. ManaStatuses \subseteq Statuses
    BY DEF ManaStatuses, Statuses, Errors
  <2>2. \A need : PayMana(st.mana, st.mana_activate_only, need, FALSE).status \in Statuses
    BY <2>1, PayManaStatus
  <2>3. PurseOf(st.mana, st.mana_activate_only).status \in Statuses
    BY DEF PurseOf, Statuses
  <2> QED BY <2>2, <2>3 DEF PayForSpell
<1>2. ASSUME NEW id, NEW w, w.status \in Statuses PROVE Ended(CastPaid(st, id, w))
  <2>1. CASE w.status # "ok"
    BY <1>2, <2>1 DEF CastPaid, Ended, Err
  <2>2. CASE w.status = "ok"
    BY <2>2, OkEnded DEF CastPaid
  <2> QED BY <2>1, <2>2
<1> QED BY <1>0, <1>1, <1>2, ErrEnded DEF CastFromHand

LEMMA SmallStepsEnded ==
  ASSUME NEW st, NEW step
  PROVE  /\ Ended(TapBounce(st, step)) /\ Ended(SacrificeNamed(st, step))
         /\ step.op \in SourceSeeds => Ended(SeedFromSource(st, step))
         /\ Ended(SeedGrant(st, step)) /\ Ended(Declared(st, step.op))
<1>0. {"illegal_action", "timing_violation", "not_a_loop", "opponent_cooperation_required",
       "unsupported_rule"} \subseteq Errors
  BY DEF Errors
<1>1. Ended(TapBounce(st, step))
  BY <1>0, OkEnded, ErrEnded, IllegalEnded DEF TapBounce
<1>2. Ended(SacrificeNamed(st, step))
  BY <1>0, OkEnded, ErrEnded, IllegalEnded DEF SacrificeNamed
<1>3. ASSUME step.op \in SourceSeeds PROVE Ended(SeedFromSource(st, step))
  BY <1>0, <1>3, OkEnded, ErrEnded, TokenEnded DEF SeedFromSource, SourceSeeds
<1>4. Ended(SeedGrant(st, step))
  BY OkEnded, IllegalEnded DEF SeedGrant
<1>5. Ended(Declared(st, step.op))
  BY <1>0, OkEnded, ErrEnded DEF Declared
<1> QED BY <1>1, <1>2, <1>3, <1>4, <1>5

-----------------------------------------------------------------------------
(* Steps and sequences *)

\* A step ends with "ok" or with the status of an ExecError, whatever the state, the step and
\* the cards are; one that goes well is the body followed by the state-based actions.
THEOREM StepEnds == \A st, step : RunStep(st, step).err \in Statuses
<1> SUFFICES ASSUME NEW st, NEW step PROVE Ended(RunStep(st, step))
  BY DEF Ended
<1>1. Ended(RunStepBody(st, step))
  BY ActivatedEnded, TriggerEnded, CastEnded, SmallStepsEnded DEF RunStepBody
<1> QED BY <1>1, OkEnded DEF RunStep, AfterStep

\* A step that went well has nothing to tell but the state.
LEMMA StepOk ==
  ASSUME NEW st, NEW step, RunStep(st, step).err = "ok"
  PROVE  RunStep(st, step) = Ok(RunStep(st, step).st)
<1> DEFINE r == RunStepBody(st, step)
<1>1. CASE r.err = "ok"
  <2>1. RunStep(st, step) = Ok(ApplySBA(r.st))
    BY <1>1 DEF RunStep, AfterStep
  <2> HIDE DEF r
  <2> QED BY <2>1 DEF Ok
<1>2. CASE r.err # "ok"
  BY <1>2 DEF RunStep, AfterStep
<1> QED BY <1>1, <1>2

SequenceStep(c, r, step) == IF r.err = "ok" THEN RunStep(r.st, step) ELSE r
\* Once a step has failed, the result stays as it is; c is that result.
Stays(c, r) == r = c /\ c.err # "ok"
EachStep == INSTANCE FoldFacts WITH Op <- SequenceStep, P <- Stays
LEMMA SequenceFold ==
  ASSUME NEW st, NEW steps, NEW c PROVE RunSequence(st, steps) = EachStep!Fold(c, Ok(st), steps)
  BY Zenon DEF RunSequence, SequenceStep, FoldLeft, MapThenFoldSet, Max,
     EachStep!Fold, EachStep!LastOf

LEMMA SequenceEmpty == ASSUME NEW st PROVE RunSequence(st, <<>>) = Ok(st)
  BY SequenceFold, NatSets, EachStep!FoldEmpty

\* run_sequence runs the first step, and the rest only if it went well.
LEMMA SequenceFirst ==
  ASSUME NEW st, NEW steps, IsSequence(steps), steps # <<>>
  PROVE  RunSequence(st, steps)
           = IF RunStep(st, Head(steps)).err = "ok"
             THEN RunSequence(RunStep(st, Head(steps)).st, Tail(steps))
             ELSE RunStep(st, Head(steps))
<1> DEFINE r == RunStep(st, Head(steps))
<1>1. steps \in Seq({steps[i] : i \in DOMAIN steps})
  BY DEF IsSequence
<1>2. SequenceStep(r, Ok(st), Head(steps)) = r
  BY OkEnded DEF SequenceStep
<1> HIDE DEF r
<1>3. RunSequence(st, steps) = EachStep!Fold(r, r, Tail(steps))
  <2>1. EachStep!Fold(r, Ok(st), steps)
          = EachStep!Fold(r, SequenceStep(r, Ok(st), Head(steps)), Tail(steps))
    BY <1>1, NatSets, EachStep!FoldFirst, Zenon
  <2> QED BY <1>2, <2>1, SequenceFold
<1>4. CASE r.err = "ok"
  <2>1. r = Ok(r.st)
    BY <1>4, StepOk DEF r
  <2>2. RunSequence(r.st, Tail(steps)) = EachStep!Fold(r, r, Tail(steps))
    BY <2>1, SequenceFold
  <2> QED BY <1>3, <1>4, <2>2 DEF r
<1>5. CASE r.err # "ok"
  <2>1. DOMAIN Tail(steps) = 1..Len(Tail(steps)) /\ Len(Tail(steps)) \in Nat
    BY <1>1
  <2>2. Stays(r, r)
    BY <1>5 DEF Stays
  <2>3. \A acc : \A i \in DOMAIN Tail(steps) :
          Stays(r, acc) => Stays(r, SequenceStep(r, acc, Tail(steps)[i]))
    BY DEF Stays, SequenceStep
  <2>4. Stays(r, EachStep!Fold(r, r, Tail(steps)))
    BY <2>1, <2>2, <2>3, NatSets, EachStep!FoldInvariant
  <2> QED BY <1>3, <1>5, <2>4 DEF Stays, r
<1> QED BY <1>4, <1>5

-----------------------------------------------------------------------------
(* Lists *)
LEMMA ListOfElements ==
  ASSUME NEW S, NEW s, s \in Seq(S)
  PROVE  /\ IsSequence(s) /\ Len(s) \in Nat /\ DOMAIN s = 1..Len(s)
         /\ \A i \in DOMAIN s : s[i] \in S
<1>1. Len(s) \in Nat /\ s \in [1..Len(s) -> S]
  OBVIOUS
<1>2. s \in [1..Len(s) -> {s[i] : i \in DOMAIN s}]
  BY <1>1
<1>3. s \in Seq({s[i] : i \in DOMAIN s})
  BY <1>1, <1>2, SeqDef
<1> QED BY <1>1, <1>3 DEF IsSequence

LEMMA ElementsOfList ==
  ASSUME NEW s, IsSequence(s), NEW S, \A i \in DOMAIN s : s[i] \in S
  PROVE  s \in Seq(S)
<1>1. Len(s) \in Nat /\ s \in [1..Len(s) -> {s[i] : i \in DOMAIN s}]
  BY DEF IsSequence
<1>2. s \in [1..Len(s) -> S]
  BY <1>1
<1> QED BY <1>1, <1>2, SeqDef

\* Picked builds its list from the front.
IsPicking(f, s, I, n) ==
  f = [k \in 0..n |-> IF k = 0 THEN <<>> ELSE IF k \in I THEN Append(f[k - 1], s[k]) ELSE f[k - 1]]

LEMMA PickingExists ==
  ASSUME NEW s, NEW I, NEW n \in Nat PROVE \E f : IsPicking(f, s, I, n)
<1> DEFINE N == {k \in Nat : \E f : IsPicking(f, s, I, k)}
<1>1. 0 \in N
  <2> DEFINE f == [k \in 0..0 |-> <<>>]
  <2>1. f = [k \in 0..0 |-> IF k = 0 THEN <<>>
                            ELSE IF k \in I THEN Append(f[k - 1], s[k]) ELSE f[k - 1]]
    OBVIOUS
  <2> HIDE DEF f
  <2>2. IsPicking(f, s, I, 0)
    BY <2>1 DEF IsPicking
  <2> QED BY <2>2
<1>2. ASSUME NEW k \in Nat, k \in N PROVE k + 1 \in N
  <2>1. PICK f : IsPicking(f, s, I, k)
    BY <1>2
  <2>0. /\ DOMAIN f = 0..k
        /\ \A i \in 0..k : f[i] = IF i = 0 THEN <<>>
                                  ELSE IF i \in I THEN Append(f[i - 1], s[i]) ELSE f[i - 1]
    BY <2>1 DEF IsPicking
  <2> DEFINE g == [i \in 0..(k + 1) |->
                     IF i = k + 1 THEN IF i \in I THEN Append(f[k], s[i]) ELSE f[k] ELSE f[i]]
  <2>2. ASSUME NEW i \in 0..(k + 1)
        PROVE  g[i] = IF i = 0 THEN <<>>
                      ELSE IF i \in I THEN Append(g[i - 1], s[i]) ELSE g[i - 1]
    <3>1. CASE i = k + 1
      BY <3>1
    <3>2. CASE i # k + 1
      <4>1. i \in 0..k /\ (i # 0 => i - 1 \in 0..k /\ i - 1 # k + 1 /\ i - 1 \in 0..(k + 1))
        BY <3>2
      <4>2. g[i] = f[i] /\ (i # 0 => g[i - 1] = f[i - 1])
        BY <3>2, <4>1
      <4> HIDE DEF g
      <4> QED BY <2>0, <4>1, <4>2
    <3> QED BY <3>1, <3>2
  <2>3. g = [i \in 0..(k + 1) |-> g[i]]
    OBVIOUS
  <2> HIDE DEF g
  <2>4. IsPicking(g, s, I, k + 1)
    BY <2>2, <2>3 DEF IsPicking
  <2> QED BY <2>4
<1> HIDE DEF N
<1>3. n \in N
  BY <1>1, <1>2, NatSets
<1> QED BY <1>3 DEF N

LEMMA AppendedElements ==
  ASSUME NEW S, NEW s, s \in Seq(S), NEW e, e \in S
  PROVE  Append(s, e) \in Seq(S) /\ ToSet(s) \cup {e} \subseteq ToSet(Append(s, e))
<1>1. /\ Append(s, e) \in Seq(S) /\ DOMAIN s = 1..Len(s) /\ Len(s) \in Nat
      /\ DOMAIN Append(s, e) = 1..(Len(s) + 1) /\ Append(s, e)[Len(s) + 1] = e
      /\ \A i \in 1..Len(s) : Append(s, e)[i] = s[i]
  OBVIOUS
<1>2. (\A i \in DOMAIN s : i \in DOMAIN Append(s, e)) /\ Len(s) + 1 \in DOMAIN Append(s, e)
  BY <1>1
<1> QED BY <1>1, <1>2 DEF ToSet

\* The picked elements are the elements at the indices.
LEMMA PickedList ==
  ASSUME NEW s, IsSequence(s), NEW I
  PROVE  /\ Picked(s, I) \in Seq({s[i] : i \in DOMAIN s \cap I})
         /\ \A i \in DOMAIN s \cap I : s[i] \in ToSet(Picked(s, I))
         /\ DOMAIN s \cap I # {} => Picked(s, I) # <<>>
<1> DEFINE S == {s[i] : i \in DOMAIN s \cap I}
           f == CHOOSE g : IsPicking(g, s, I, Len(s))
           N == {k \in Nat : k <= Len(s) =>
                   /\ f[k] \in Seq(S)
                   /\ \A i \in 1..k : i \in I => s[i] \in ToSet(f[k])}
<1>1. Len(s) \in Nat /\ DOMAIN s = 1..Len(s)
  BY ListIndices
<1>2. IsPicking(f, s, I, Len(s))
  BY <1>1, PickingExists
<1>3. Picked(s, I) = f[Len(s)]
  BY Zenon DEF Picked, IsPicking
<1> HIDE DEF f
<1>4. \A k \in 0..Len(s) : f[k] = IF k = 0 THEN <<>>
                                  ELSE IF k \in I THEN Append(f[k - 1], s[k]) ELSE f[k - 1]
  BY <1>2 DEF IsPicking
<1>5. 0 \in N
  <2>1. f[0] = <<>>
    BY <1>1, <1>4
  <2> HIDE DEF S
  <2>2. f[0] \in Seq(S) /\ ~\E i \in 1..0 : i \in I
    BY <2>1
  <2> QED BY <2>2
<1>6. ASSUME NEW k \in Nat, k \in N PROVE k + 1 \in N
  <2> SUFFICES ASSUME k + 1 <= Len(s)
               PROVE  f[k + 1] \in Seq(S) /\ \A i \in 1..(k + 1) : i \in I => s[i] \in ToSet(f[k + 1])
    OBVIOUS
  <2>1. k + 1 \in 0..Len(s) /\ k + 1 \in DOMAIN s /\ k <= Len(s) /\ (k + 1) - 1 = k /\ k + 1 # 0
    BY <1>1
  <2>2. f[k] \in Seq(S) /\ \A i \in 1..k : i \in I => s[i] \in ToSet(f[k])
    BY <1>6, <2>1
  <2>3. f[k + 1] = IF k + 1 \in I THEN Append(f[k], s[k + 1]) ELSE f[k]
    BY <1>4, <2>1
  <2>4. CASE k + 1 \in I
    <3>1. s[k + 1] \in S
      BY <2>1, <2>4
    <3> HIDE DEF S
    <3>2. /\ Append(f[k], s[k + 1]) \in Seq(S)
          /\ ToSet(f[k]) \cup {s[k + 1]} \subseteq ToSet(Append(f[k], s[k + 1]))
      BY <2>2, <3>1, AppendedElements
    <3>3. \A i \in 1..(k + 1) : i \in 1..k \/ i = k + 1
      OBVIOUS
    <3> QED BY <2>2, <2>3, <2>4, <3>2, <3>3
  <2>5. CASE k + 1 \notin I
    <3>1. \A i \in 1..(k + 1) : i \in I => i \in 1..k
      BY <2>5
    <3> QED BY <2>2, <2>3, <2>5, <3>1
  <2> QED BY <2>4, <2>5
<1> HIDE DEF N
<1>7. Len(s) \in N
  BY <1>1, <1>5, <1>6, NatSets
<1>8. Picked(s, I) \in Seq(S) /\ \A i \in DOMAIN s \cap I : s[i] \in ToSet(Picked(s, I))
  BY <1>1, <1>3, <1>7 DEF N
<1>9. ToSet(<<>>) = {}
  BY DEF ToSet
<1> QED BY <1>8, <1>9

LEMMA ThoseList ==
  ASSUME NEW s, IsSequence(s), NEW S
  PROVE  /\ Those(s, S) \in Seq(S)
         /\ (\E x \in S : x \in ToSet(s)) => Those(s, S)[1] \in S
<1> DEFINE I == {i \in DOMAIN s : s[i] \in S}
<1>1. /\ Picked(s, I) \in Seq({s[i] : i \in DOMAIN s \cap I})
      /\ DOMAIN s \cap I # {} => Picked(s, I) # <<>>
  BY PickedList
<1>2. {s[i] : i \in DOMAIN s \cap I} \subseteq S
  OBVIOUS
<1>3. Those(s, S) = Picked(s, I)
  BY DEF Those
<1>4. (\E x \in S : x \in ToSet(s)) => DOMAIN s \cap I # {}
  BY DEF ToSet
<1> HIDE DEF I
<1>5. Those(s, S) \in Seq(S)
  <2>1. \A i \in DOMAIN Picked(s, I) : Picked(s, I)[i] \in S
    BY <1>1, <1>2, ListOfElements
  <2> QED BY <1>1, <1>3, <2>1, ListOfElements, ElementsOfList
<1>6. Those(s, S) # <<>> => Those(s, S)[1] \in S
  BY <1>5
<1> QED BY <1>1, <1>3, <1>4, <1>5, <1>6

\* Lists of one element each, and two lists together.
LEMMA MappedList ==
  ASSUME NEW n, n \in Nat, NEW f, f = [i \in 1..n |-> f[i]]
  PROVE  IsSequence(f) /\ DOMAIN f = 1..n /\ Len(f) = n
<1>1. f \in [1..n -> {f[i] : i \in DOMAIN f}]
  OBVIOUS
<1>2. f \in Seq({f[i] : i \in DOMAIN f})
  BY <1>1, SeqDef
<1> QED BY <1>1, <1>2 DEF IsSequence

LEMMA ConcatList ==
  ASSUME NEW S, NEW s, s \in Seq(S), NEW t, t \in Seq(S)
  PROVE  /\ s \o t \in Seq(S)
         /\ ToSet(s) \subseteq ToSet(s \o t) /\ ToSet(t) \subseteq ToSet(s \o t)
<1>1. s \o t \in Seq(S)
  OBVIOUS
<1>2. /\ DOMAIN s = 1..Len(s) /\ DOMAIN t = 1..Len(t) /\ Len(s) \in Nat /\ Len(t) \in Nat
      /\ DOMAIN (s \o t) = 1..(Len(s) + Len(t))
      /\ \A i \in 1..Len(s) : (s \o t)[i] = s[i]
      /\ \A i \in 1..Len(t) : (s \o t)[Len(s) + i] = t[i]
  OBVIOUS
<1>3. \A i \in DOMAIN s : i \in DOMAIN (s \o t)
  BY <1>2
<1>4. \A i \in DOMAIN t : Len(s) + i \in DOMAIN (s \o t)
  BY <1>2
<1> QED BY <1>1, <1>2, <1>3, <1>4 DEF ToSet

\* FlattenSeq builds its list from the front.
IsFlattening(f, seqs, n) ==
  f = [i \in 1..n |-> IF i = 1 THEN seqs[i] ELSE f[i - 1] \o seqs[i]]
LEMMA FlatteningExists ==
  ASSUME NEW seqs, NEW n \in Nat PROVE \E f : IsFlattening(f, seqs, n)
<1> DEFINE N == {k \in Nat : \E f : IsFlattening(f, seqs, k)}
<1>1. 0 \in N
  <2> DEFINE f == [i \in 1..0 |-> <<>>]
  <2>1. f = [i \in 1..0 |-> IF i = 1 THEN seqs[i] ELSE f[i - 1] \o seqs[i]]
    OBVIOUS
  <2> HIDE DEF f
  <2>2. IsFlattening(f, seqs, 0)
    BY <2>1 DEF IsFlattening
  <2> QED BY <2>2
<1>2. ASSUME NEW k \in Nat, k \in N PROVE k + 1 \in N
  <2>1. PICK f : IsFlattening(f, seqs, k)
    BY <1>2
  <2>2. /\ DOMAIN f = 1..k
        /\ \A i \in 1..k : f[i] = IF i = 1 THEN seqs[i] ELSE f[i - 1] \o seqs[i]
    BY <2>1 DEF IsFlattening
  <2> DEFINE g == [i \in 1..(k + 1) |->
                     IF i = k + 1 THEN IF i = 1 THEN seqs[i] ELSE f[k] \o seqs[i] ELSE f[i]]
  <2>3. ASSUME NEW i \in 1..(k + 1)
        PROVE  g[i] = IF i = 1 THEN seqs[i] ELSE g[i - 1] \o seqs[i]
    <3>1. CASE i = k + 1
      <4>1. (k + 1) - 1 = k /\ k # k + 1 /\ (k + 1 # 1 => k \in 1..(k + 1))
        OBVIOUS
      <4>2. k + 1 # 1 => g[k] = f[k]
        BY <4>1
      <4>3. g[k + 1] = IF k + 1 = 1 THEN seqs[k + 1] ELSE f[k] \o seqs[k + 1]
        OBVIOUS
      <4> HIDE DEF g
      <4> QED BY <3>1, <4>1, <4>2, <4>3
    <3>2. CASE i # k + 1
      <4>1. i \in 1..k /\ (i # 1 => i - 1 \in 1..k /\ i - 1 # k + 1 /\ i - 1 \in 1..(k + 1))
        BY <3>2
      <4>2. g[i] = f[i] /\ (i # 1 => g[i - 1] = f[i - 1])
        BY <3>2, <4>1
      <4> HIDE DEF g
      <4> QED BY <2>2, <4>1, <4>2
    <3> QED BY <3>1, <3>2
  <2>4. g = [i \in 1..(k + 1) |-> g[i]]
    OBVIOUS
  <2> HIDE DEF g
  <2>5. IsFlattening(g, seqs, k + 1)
    BY <2>3, <2>4 DEF IsFlattening
  <2> QED BY <2>5
<1> HIDE DEF N
<1>3. n \in N
  BY <1>1, <1>2, NatSets
<1> QED BY <1>3 DEF N
LEMMA FlattenedList ==
  ASSUME NEW S, NEW seqs, IsSequence(seqs), \A i \in DOMAIN seqs : seqs[i] \in Seq(S)
  PROVE  /\ FlattenSeq(seqs) \in Seq(S)
         /\ \A i \in DOMAIN seqs : ToSet(seqs[i]) \subseteq ToSet(FlattenSeq(seqs))
<1> DEFINE n == Len(seqs)
<1>0. DOMAIN seqs = 1..n /\ n \in Nat
  BY ListIndices
<1>1. CASE n = 0
  <2>1. FlattenSeq(seqs) = <<>>
    BY <1>1 DEF FlattenSeq
  <2> QED BY <1>0, <1>1, <2>1
<1>2. CASE n # 0
  <2> DEFINE f == CHOOSE g : IsFlattening(g, seqs, n)
             Covers(k) == \A i \in 1..k : ToSet(seqs[i]) \subseteq ToSet(f[k])
             N == {k \in Nat : k + 1 <= n => f[k + 1] \in Seq(S) /\ Covers(k + 1)}
  <2>1. IsFlattening(f, seqs, n)
    BY <1>0, FlatteningExists
  <2>2. FlattenSeq(seqs) = f[n]
    BY <1>2, Zenon DEF FlattenSeq, IsFlattening
  <2> HIDE DEF f
  <2>3. \A i \in 1..n : f[i] = IF i = 1 THEN seqs[i] ELSE f[i - 1] \o seqs[i]
    BY <2>1 DEF IsFlattening
  <2> HIDE DEF n
  <2>4. 0 \in N
    <3>1. 1 \in 1..n /\ f[1] = seqs[1] /\ \A i \in 1..1 : i = 1
      BY <1>0, <1>2, <2>3
    <3> QED BY <1>0, <3>1
  <2>5. ASSUME NEW k \in Nat, k \in N PROVE k + 1 \in N
    <3> SUFFICES ASSUME (k + 1) + 1 <= n PROVE f[(k + 1) + 1] \in Seq(S) /\ Covers((k + 1) + 1)
      OBVIOUS
    <3> DEFINE m == k + 1
    <3>1. m + 1 \in 1..n /\ m + 1 # 1 /\ (m + 1) - 1 = m /\ m <= n /\ m \in Nat
      BY <1>0
    <3>2. f[m + 1] = f[m] \o seqs[m + 1]
      BY <2>3, <3>1
    <3>3. f[m] \in Seq(S) /\ Covers(m)
      BY <2>5, <3>1
    <3>4. seqs[m + 1] \in Seq(S)
      BY <1>0, <3>1
    <3> HIDE DEF m
    <3>5. /\ f[m + 1] \in Seq(S) /\ ToSet(f[m]) \subseteq ToSet(f[m + 1])
          /\ ToSet(seqs[m + 1]) \subseteq ToSet(f[m + 1])
      BY <3>2, <3>3, <3>4, ConcatList
    <3>6. \A i \in 1..(m + 1) : i \in 1..m \/ i = m + 1
      BY <3>1
    <3>7. Covers(m + 1)
      BY <3>3, <3>5, <3>6
    <3> QED BY <3>5, <3>7 DEF m
  <2> HIDE DEF N
  <2>6. n - 1 \in Nat /\ (n - 1) + 1 = n
    BY <1>0, <1>2
  <2>7. n - 1 \in N
    BY <2>4, <2>5, <2>6, NatSets
  <2>8. f[n] \in Seq(S) /\ Covers(n)
    BY <1>0, <2>6, <2>7 DEF N
  <2> QED BY <1>0, <2>2, <2>8
<1> QED BY <1>1, <1>2

-----------------------------------------------------------------------------
(* Queues of pending triggers *)
Queue(q, ids) == IsSequence(q) /\ \A i \in DOMAIN q : IsPending(q[i], ids)
Waiting(q, ids) == {tr \in {q[i] : i \in DOMAIN q} : IsPending(tr, ids)}

LEMMA QueueIsList ==
  ASSUME NEW q, NEW ids, Queue(q, ids) PROVE q \in Seq(Waiting(q, ids))
<1>1. \A i \in DOMAIN q : q[i] \in Waiting(q, ids)
  BY DEF Queue, Waiting
<1> QED BY <1>1, ElementsOfList DEF Queue
LEMMA ListIsQueue ==
  ASSUME NEW ids, NEW S, \A tr \in S : IsPending(tr, ids), NEW q \in Seq(S)
  PROVE  Queue(q, ids)
  BY ListOfElements DEF Queue
LEMMA QueueConcat ==
  ASSUME NEW ids, NEW q, NEW r, Queue(q, ids), Queue(r, ids) PROVE Queue(q \o r, ids)
<1> DEFINE S == Waiting(q, ids) \cup Waiting(r, ids)
<1>1. \A tr \in S : IsPending(tr, ids)
  BY DEF Waiting
<1>2. q \in Seq(Waiting(q, ids)) /\ r \in Seq(Waiting(r, ids))
  BY QueueIsList
<1>3. q \in Seq(S) /\ r \in Seq(S)
  <2>1. \A i \in DOMAIN q : q[i] \in S
    BY <1>2, ListOfElements
  <2>2. \A i \in DOMAIN r : r[i] \in S
    BY <1>2, ListOfElements
  <2> QED BY <2>1, <2>2, ElementsOfList DEF Queue
<1> HIDE DEF S
<1>4. q \o r \in Seq(S)
  BY <1>3
<1> QED BY <1>1, <1>4, ListIsQueue
LEMMA QueueOne ==
  ASSUME NEW ids, NEW tr, IsPending(tr, ids) PROVE Queue(<<tr>>, ids)
<1>1. <<tr>> \in Seq({tr})
  OBVIOUS
<1> QED BY <1>1, ListIsQueue
LEMMA QueueEmpty == ASSUME NEW ids PROVE Queue(<<>>, ids)
<1>1. <<>> \in Seq({})
  OBVIOUS
<1> QED BY <1>1, ListIsQueue
LEMMA QueueAppend ==
  ASSUME NEW ids, NEW q, NEW tr, Queue(q, ids), IsPending(tr, ids) PROVE Queue(Append(q, tr), ids)
<1> DEFINE S == Waiting(q, ids) \cup {tr}
<1>1. \A x \in S : IsPending(x, ids)
  BY DEF Waiting
<1>2. \A i \in DOMAIN q : q[i] \in S
  BY QueueIsList, ListOfElements
<1>3. q \in Seq(S) /\ tr \in S
  BY <1>2, ElementsOfList DEF Queue
<1> HIDE DEF S
<1>4. Append(q, tr) \in Seq(S)
  BY <1>3
<1> QED BY <1>1, <1>4, ListIsQueue
LEMMA QueueRemoveAt ==
  ASSUME NEW ids, NEW q, Queue(q, ids), NEW i \in DOMAIN q
  PROVE  Queue(RemoveAt(q, i), ids)
<1> DEFINE S == Waiting(q, ids)
<1>1. q \in Seq(S)
  BY QueueIsList
<1>2. \A x \in S : IsPending(x, ids)
  BY DEF Waiting
<1> HIDE DEF S
<1>3. i \in 1..Len(q) /\ Len(q) \in Nat
  BY <1>1, ListOfElements
<1>4. SubSeq(q, 1, i - 1) \in Seq(S) /\ SubSeq(q, i + 1, Len(q)) \in Seq(S)
  BY <1>1, <1>3
<1>5. RemoveAt(q, i) \in Seq(S)
  BY <1>4 DEF RemoveAt
<1> QED BY <1>2, <1>5, ListIsQueue
LEMMA QueueLonger ==
  ASSUME NEW q, NEW ids, NEW more, Queue(q, ids), ids \subseteq more PROVE Queue(q, more)
  BY DEF Queue, IsPending

LEMMA QueueFlatten ==
  ASSUME NEW ids, NEW seqs, IsSequence(seqs), \A i \in DOMAIN seqs : Queue(seqs[i], ids)
  PROVE  Queue(FlattenSeq(seqs), ids)
<1> DEFINE S == UNION {Waiting(seqs[i], ids) : i \in DOMAIN seqs}
<1>1. \A tr \in S : IsPending(tr, ids)
  BY DEF Waiting
<1>2. ASSUME NEW i \in DOMAIN seqs PROVE seqs[i] \in Seq(S)
  <2>1. seqs[i] \in Seq(Waiting(seqs[i], ids))
    BY QueueIsList
  <2>2. Waiting(seqs[i], ids) \subseteq S
    OBVIOUS
  <2> HIDE DEF S
  <2>3. IsSequence(seqs[i]) /\ \A j \in DOMAIN seqs[i] : seqs[i][j] \in S
    BY <2>1, <2>2, ListOfElements
  <2> QED BY <2>3, ElementsOfList
<1> HIDE DEF S
<1>3. FlattenSeq(seqs) \in Seq(S)
  BY <1>2, FlattenedList
<1> QED BY <1>1, <1>3, ListIsQueue

-----------------------------------------------------------------------------
(* Finite sets *)
LEMMA FiniteImage ==
  ASSUME NEW S, IsFiniteSet(S), NEW f, S \subseteq DOMAIN f PROVE IsFiniteSet({f[x] : x \in S})
<1> DEFINE T == {f[x] : x \in S}
           g == [x \in S |-> f[x]]
<1>1. g \in Surjection(S, T)
  BY DEF Surjection
<1> HIDE DEF T, g
<1>2. IsFiniteSet(T)
  BY <1>1, FS_Surjection
<1> QED BY <1>2 DEF T

\* A finite number of finite sets: F lists the sets that are united.
LEMMA FiniteUnion ==
  ASSUME NEW S, IsFiniteSet(S), NEW F, \A x \in S : IsFiniteSet(F[x])
  PROVE  IsFiniteSet(UNION {F[x] : x \in S})
<1> DEFINE U(T) == UNION {F[x] : x \in T}
           N == {n \in Nat : \A T \in SUBSET S : Cardinality(T) = n => IsFiniteSet(U(T))}
<1>1. 0 \in N
  <2> SUFFICES ASSUME NEW T \in SUBSET S, Cardinality(T) = 0 PROVE IsFiniteSet(U(T))
    OBVIOUS
  <2>1. T = {}
    BY FS_Subset, FS_EmptySet
  <2>2. U(T) = {}
    BY <2>1
  <2> QED BY <2>2, FS_EmptySet
<1>2. ASSUME NEW n \in Nat, n \in N PROVE n + 1 \in N
  <2> SUFFICES ASSUME NEW T \in SUBSET S, Cardinality(T) = n + 1 PROVE IsFiniteSet(U(T))
    OBVIOUS
  <2>1. IsFiniteSet(T) /\ T # {}
    BY FS_Subset, FS_EmptySet
  <2>2. PICK x : x \in T
    BY <2>1
  <2>3. Cardinality(T \ {x}) = n /\ T \ {x} \in SUBSET S
    <3>1. Cardinality(T \ {x}) = Cardinality(T) - 1
      BY <2>1, <2>2, FS_RemoveElement
    <3> QED BY <3>1
  <2>4. IsFiniteSet(U(T \ {x})) /\ IsFiniteSet(F[x])
    BY <1>2, <2>2, <2>3
  <2>5. U(T) = U(T \ {x}) \cup F[x]
    BY <2>2
  <2> HIDE DEF U
  <2> QED BY <2>4, <2>5, FS_Union
<1> HIDE DEF N
<1>3. Cardinality(S) \in Nat
  BY FS_CardinalityType
<1>4. Cardinality(S) \in N
  BY <1>1, <1>2, <1>3, NatSets
<1> QED BY <1>4 DEF N

LEMMA GreatestExists ==
  ASSUME NEW S \in SUBSET Int, IsFiniteSet(S), S # {}
  PROVE  \E n \in S : \A m \in S : m <= n
<1> DEFINE N == {n \in Nat : \A T \in SUBSET S : Cardinality(T) = n + 1 =>
                   \E x \in T : \A y \in T : y <= x}
<1>1. 0 \in N
  <2> SUFFICES ASSUME NEW T \in SUBSET S, Cardinality(T) = 1 PROVE \E x \in T : \A y \in T : y <= x
    OBVIOUS
  <2>1. \E x : T = {x}
    BY FS_Subset, FS_Singleton
  <2> QED BY <2>1
<1>2. ASSUME NEW n \in Nat, n \in N PROVE n + 1 \in N
  <2> SUFFICES ASSUME NEW T \in SUBSET S, Cardinality(T) = (n + 1) + 1
               PROVE  \E x \in T : \A y \in T : y <= x
    OBVIOUS
  <2>1. IsFiniteSet(T)
    BY FS_Subset
  <2>2. PICK z : z \in T
    <3> SUFFICES ASSUME T = {} PROVE FALSE
      OBVIOUS
    <3>1. Cardinality(T) = 0
      BY FS_EmptySet
    <3> QED BY <3>1
  <2>3. Cardinality(T \ {z}) = n + 1 /\ T \ {z} \in SUBSET S
    <3>1. Cardinality(T \ {z}) = Cardinality(T) - 1
      BY <2>1, <2>2, FS_RemoveElement
    <3>2. ((n + 1) + 1) - 1 = n + 1
      OBVIOUS
    <3>3. T \ {z} \in SUBSET S
      BY Zenon
    <3> QED BY <3>1, <3>2, <3>3, Zenon
  <2>4. PICK x \in T \ {z} : \A y \in T \ {z} : y <= x
    BY <1>2, <2>3
  <2>5. x \in Int /\ z \in Int /\ \A y \in T : y \in Int
    BY <2>2
  <2> QED BY <2>2, <2>4, <2>5
<1> HIDE DEF N
<1>3. Cardinality(S) \in Nat /\ Cardinality(S) # 0
  BY FS_CardinalityType, FS_EmptySet
<1>4. Cardinality(S) - 1 \in Nat /\ Cardinality(S) = (Cardinality(S) - 1) + 1
  BY <1>3
<1>5. Cardinality(S) - 1 \in N
  BY <1>1, <1>2, <1>4, NatSets
<1> QED BY <1>4, <1>5 DEF N

LEMMA GreatestOf ==
  ASSUME NEW S \in SUBSET Int, IsFiniteSet(S)
  PROVE  Greatest(S) \in Int /\ \A n \in S : n <= Greatest(S)
<1>1. CASE S = {}
  BY <1>1 DEF Greatest
<1>2. CASE S # {}
  BY <1>2, GreatestExists DEF Greatest
<1> QED BY <1>1, <1>2

LEMMA GreatestOfTwo ==
  ASSUME NEW n, NEW m, n \in Int, m \in Int
  PROVE  Greatest({n, m}) \in Int /\ n <= Greatest({n, m}) /\ m <= Greatest({n, m})
<1>1. IsFiniteSet({n, m})
  <2>1. {n, m} = {n} \cup {m}
    OBVIOUS
  <2>2. IsFiniteSet({n}) /\ IsFiniteSet({m})
    BY FS_Singleton
  <2>3. IsFiniteSet({n} \cup {m})
    BY <2>2, FS_Union
  <2> QED BY <2>1, <2>3
<1> QED BY <1>1, GreatestOf

LEMMA CountInt == ASSUME NEW S, IsFiniteSet(S), NEW T, T \subseteq S
                  PROVE Cardinality(T) \in Nat /\ IsFiniteSet(T)
  BY FS_Subset, FS_CardinalityType

LEMMA FiniteElements == ASSUME NEW s, IsSequence(s) PROVE IsFiniteSet(ToSet(s)) /\ IsFiniteSet(DOMAIN s)
<1>1. DOMAIN s = 1..Len(s) /\ Len(s) \in Nat
  BY ListIndices
<1>2. IsFiniteSet(DOMAIN s)
  BY <1>1, FS_Interval
<1>3. IsFiniteSet({s[i] : i \in DOMAIN s})
  BY <1>2, FiniteImage
<1> QED BY <1>2, <1>3 DEF ToSet

-----------------------------------------------------------------------------
(* Quantities.  What the code counts, adds and multiplies are integers.     *)
LEMMA AbilityTypes ==
  ASSUME NEW p
  PROVE  IsSequence(AbilitiesOf(p)) /\ \A i \in DOMAIN AbilitiesOf(p) : IsAbility(AbilitiesOf(p)[i])
<1>1. CASE HasSemantics(p)
  BY <1>1, CardsAssumption DEF HasSemantics, AbilitiesOf, WellFormed
<1>2. CASE ~HasSemantics(p)
  <2>1. AbilitiesOf(p) = <<>>
    BY <1>2 DEF AbilitiesOf
  <2>2. <<>> \in Seq({})
    OBVIOUS
  <2>3. IsSequence(<<>>)
    BY <2>2, ListOfElements
  <2>4. DOMAIN <<>> = {}
    OBVIOUS
  <2> QED BY <2>1, <2>3, <2>4
<1> QED BY <1>1, <1>2

LEMMA StaticTypes ==
  ASSUME NEW st, IsFiniteSet(Ids(st)), NEW kind
  PROVE  /\ IsFiniteSet(Statics(st, kind))
         /\ \A s \in Statics(st, kind) : IsAbility(StaticOf(st, s)) /\ StaticOf(st, s).kind = kind
<1> DEFINE at(id) == {j \in DOMAIN AbilitiesOf(st.permanents[id]) :
                        AbilitiesOf(st.permanents[id])[j].kind = kind}
           F == [id \in Yours(st) |-> {<<id, i>> : i \in at(id)}]
<1>1. IsFiniteSet(Yours(st))
  BY FS_Subset DEF Yours
<1>2. ASSUME NEW id \in Yours(st) PROVE IsFiniteSet(F[id])
  <2>1. IsFiniteSet(DOMAIN AbilitiesOf(st.permanents[id]))
    BY AbilityTypes, FiniteElements
  <2>2. IsFiniteSet(at(id))
    BY <2>1, FS_Subset
  <2> DEFINE g == [i \in at(id) |-> <<id, i>>]
  <2>3. IsFiniteSet({g[i] : i \in at(id)})
    BY <2>2, FiniteImage
  <2>4. F[id] = {g[i] : i \in at(id)}
    OBVIOUS
  <2> QED BY <2>3, <2>4
<1>3. Statics(st, kind) = UNION {F[id] : id \in Yours(st)}
  BY DEF Statics
<1> HIDE DEF F
<1>4. IsFiniteSet(Statics(st, kind))
  BY <1>1, <1>2, <1>3, FiniteUnion
<1>5. ASSUME NEW s \in Statics(st, kind)
      PROVE  IsAbility(StaticOf(st, s)) /\ StaticOf(st, s).kind = kind
  <2>1. PICK id \in Yours(st) : \E i \in at(id) : s = <<id, i>>
    BY DEF Statics
  <2>3. PICK i \in at(id) : s = <<id, i>>
    BY <2>1
  <2>2. StaticOf(st, s) = AbilitiesOf(st.permanents[id])[i]
    BY <2>3 DEF StaticOf
  <2> QED BY <2>3, <2>2, AbilityTypes
<1> QED BY <1>4, <1>5

IsInt(c, a) == a \in Int
IsPositive(c, a) == a \in Nat \ {0}

\* _mill_multiplier and the like are at least one.
TimesAtLeastOne(st, a, s) == Greatest({1, StaticOf(st, s).multiplier}) * a
EachLive == INSTANCE FoldFacts WITH Op <- TimesAtLeastOne, P <- IsPositive
LEMMA SupportedMultiplierPositive ==
  ASSUME NEW st, IsFiniteSet(Ids(st)), NEW kind \in Multiplying
  PROVE  SupportedMultiplier(st, kind) \in Nat \ {0}
<1> DEFINE live == {s \in Statics(st, kind) : StaticOf(st, s).supported}
<1>1. SupportedMultiplier(st, kind) = EachLive!SetFold(st, 1, live)
  BY Zenon DEF SupportedMultiplier, Product, MapThenFoldSet, TimesAtLeastOne,
     EachLive!SetFold
<1>2. IsFiniteSet(live)
  BY StaticTypes, FS_Subset
<1>3. ASSUME NEW a, NEW s \in live, IsPositive(st, a) PROVE IsPositive(st, TimesAtLeastOne(st, a, s))
  <2>1. StaticOf(st, s).multiplier \in Int
    BY StaticTypes DEF IsAbility
  <2>2. Greatest({1, StaticOf(st, s).multiplier}) \in Nat \ {0}
    <3>1. 1 \in Int /\ Greatest({1, StaticOf(st, s).multiplier}) \in Int
          /\ 1 <= Greatest({1, StaticOf(st, s).multiplier})
      BY <2>1, GreatestOfTwo
    <3> QED BY <3>1
  <2> QED BY <1>3, <2>2 DEF IsPositive, TimesAtLeastOne
<1> HIDE DEF live
<1>4. IsPositive(st, EachLive!SetFold(st, 1, live))
  <2>1. IsPositive(st, 1)
    BY DEF IsPositive
  <2> QED BY <1>2, <2>1, <1>3, NatSets, FiniteRanks, EachLive!SetFoldInvariant
<1> QED BY <1>1, <1>4 DEF IsPositive

Times(st, a, s) == StaticOf(st, s).multiplier * a
EachFactor == INSTANCE FoldFacts WITH Op <- Times, P <- IsInt
LEMMA FactorsInt ==
  ASSUME NEW st, IsFiniteSet(Ids(st)), NEW kind \in Multiplying, NEW S \in SUBSET Statics(st, kind)
  PROVE  EachFactor!SetFold(st, 1, S) \in Int
<1>1. IsFiniteSet(S)
  BY StaticTypes, FS_Subset
<1>2. ASSUME NEW a, NEW s \in S, IsInt(st, a) PROVE IsInt(st, Times(st, a, s))
  <2>1. StaticOf(st, s).multiplier \in Int
    BY StaticTypes DEF IsAbility
  <2> QED BY <1>2, <2>1 DEF IsInt, Times
<1>3. IsInt(st, 1)
  BY DEF IsInt
<1>4. IsInt(st, EachFactor!SetFold(st, 1, S))
  BY <1>1, <1>2, <1>3, NatSets, FiniteRanks, EachFactor!SetFoldInvariant
<1> QED BY <1>4 DEF IsInt
LEMMA PlainMultiplierInt ==
  ASSUME NEW st, IsFiniteSet(Ids(st)), NEW kind \in Multiplying
  PROVE  PlainMultiplier(st, kind) \in Int
<1>1. PlainMultiplier(st, kind) = EachFactor!SetFold(st, 1, Statics(st, kind))
  BY Zenon DEF PlainMultiplier, Product, MapThenFoldSet, Times,
     EachFactor!SetFold
<1> QED BY <1>1, FactorsInt

\* How many counters a put places.
LEMMA CounterPutMultiplierInt ==
  ASSUME NEW st, IsFiniteSet(Ids(st)), NEW n, n \in Int, NEW id, NEW kind
  PROVE  CounterPutMultiplier(st, n, id, kind) \in Int
<1> DEFINE p == st.permanents[id]
           applies(ab) == /\ ab.only_p1p1 => kind = "p1p1"
                          /\ ab.applies_to = "creatures_you_control" => p.is_creature
           live == {s \in Statics(st, "replacement_double_counters") : applies(StaticOf(st, s))}
           factors == EachFactor!SetFold(st, 1, live)
<1>1. CounterPutMultiplier(st, n, id, kind)
        = IF p.controller # "you" \/ n <= 0 THEN n ELSE n * factors
  BY Zenon DEF CounterPutMultiplier, Product, MapThenFoldSet, Times,
     EachFactor!SetFold
<1>2. factors \in Int
  <2>1. "replacement_double_counters" \in Multiplying
    BY DEF Multiplying
  <2> HIDE DEF applies
  <2>2. live \in SUBSET Statics(st, "replacement_double_counters")
    OBVIOUS
  <2> HIDE DEF live
  <2> QED BY <2>1, <2>2, FactorsInt
<1> HIDE DEF factors, p
<1> QED BY <1>1, <1>2

LEMMA M1M1PutQuantityInt ==
  ASSUME NEW st, IsFiniteSet(Ids(st)), NEW n, n \in Int PROVE M1M1PutQuantity(st, n) \in Int
<1> DEFINE K == Statics(st, "replacement_reduce_m1m1")
           cuts == {StaticOf(st, s).reduce_by : s \in K}
           g == [s \in K |-> StaticOf(st, s).reduce_by]
<1>1. IsFiniteSet(K) /\ \A s \in K : StaticOf(st, s).reduce_by \in Int
  BY StaticTypes DEF IsAbility
<1>2. IsFiniteSet({g[s] : s \in K})
  BY <1>1, FiniteImage
<1>3. cuts = {g[s] : s \in K} /\ cuts \in SUBSET Int
  BY <1>1
<1>4. M1M1PutQuantity(st, n) = NonNegative(n - Greatest(cuts))
  BY DEF M1M1PutQuantity
<1> HIDE DEF cuts, g
<1>5. Greatest(cuts) \in Int
  BY <1>2, <1>3, GreatestOf
<1> QED BY <1>4, <1>5 DEF NonNegative

PlusMore(st, a, s) == StaticOf(st, s).plus + a
EachPlus == INSTANCE FoldFacts WITH Op <- PlusMore, P <- IsInt
LEMMA AmplifiedInt ==
  ASSUME NEW st, IsFiniteSet(Ids(st)), NEW n, n \in Int, NEW id
  PROVE  Amplified(st, n, id) \in Int
<1> DEFINE applies(ab) == ab.applies_to = "creatures_you_control" => st.permanents[id].is_creature
           K == Statics(st, "replacement_amplify_p1p1")
           live == {s \in K : applies(StaticOf(st, s))}
           more == EachPlus!SetFold(st, 0, live)
<1>1. Amplified(st, n, id) = IF st.permanents[id].controller # "you" \/ n <= 0 THEN n ELSE n + more
  BY Zenon DEF Amplified, MapThenSumSet, MapThenFoldSet, PlusMore,
     EachPlus!SetFold
<1>2. IsFiniteSet(live) /\ \A s \in live : StaticOf(st, s).plus \in Int
  <2>1. IsFiniteSet(K) /\ \A s \in K : StaticOf(st, s).plus \in Int
    BY StaticTypes DEF IsAbility
  <2> HIDE DEF K, applies
  <2> QED BY <2>1, FS_Subset
<1> HIDE DEF live
<1>4. ASSUME NEW a, NEW s \in live, IsInt(st, a) PROVE IsInt(st, PlusMore(st, a, s))
  BY <1>2, <1>4 DEF IsInt, PlusMore
<1>5. IsInt(st, 0)
  BY DEF IsInt
<1>6. IsInt(st, EachPlus!SetFold(st, 0, live))
  BY <1>2, <1>4, <1>5, NatSets, FiniteRanks, EachPlus!SetFoldInvariant
<1>7. more \in Int
  BY <1>6 DEF IsInt
<1> HIDE DEF more
<1> QED BY <1>1, <1>7

LEMMA PutQuantityInt ==
  ASSUME NEW st, IsFiniteSet(Ids(st)), NEW n, n \in Int, NEW id, NEW kind
  PROVE  PutQuantity(st, n, id, kind) \in Int /\ P1P1PutQuantity(st, n, id) \in Int
<1>1. M1M1PutQuantity(st, n) \in Int /\ Amplified(st, n, id) \in Int
  BY M1M1PutQuantityInt, AmplifiedInt
<1>2. \A m, k : m \in Int => CounterPutMultiplier(st, m, id, k) \in Int
  BY CounterPutMultiplierInt
<1> QED BY <1>1, <1>2 DEF PutQuantity, P1P1PutQuantity

\* Devotion.
AddSymbols(c, a, id) ==
  (IF HasSemantics(c.st.permanents[id]) THEN Cards[c.st.permanents[id].oracle].mana_cost[c.color] ELSE 0)
  + a
EachSymbol == INSTANCE FoldFacts WITH Op <- AddSymbols, P <- IsInt
LEMMA DevotionFold ==
  ASSUME NEW c PROVE Devotion(c.st, c.color) = EachSymbol!SetFold(c, 0, Yours(c.st))
  BY Zenon DEF Devotion, SumOver, MapThenSumSet, MapThenFoldSet, AddSymbols,
     EachSymbol!SetFold
LEMMA DevotionInt ==
  ASSUME NEW st, IsFiniteSet(Ids(st)), NEW color \in Fields PROVE Devotion(st, color) \in Int
<1> DEFINE c == [st |-> st, color |-> color]
<1>1. c.st = st /\ c.color = color
  OBVIOUS
<1> HIDE DEF c
<1>2. IsFiniteSet(Yours(c.st))
  <2>1. IsFiniteSet(Yours(st))
    BY FS_Subset DEF Yours
  <2> QED BY <1>1, <2>1, Zenon
<1>3. ASSUME NEW a, NEW id \in Yours(c.st), IsInt(c, a) PROVE IsInt(c, AddSymbols(c, a, id))
  <2>1. \A p : HasSemantics(p) => Cards[p.oracle].mana_cost[color] \in Int
    BY CardsAssumption DEF HasSemantics, WellFormed, ManaAmount
  <2> QED BY <1>1, <1>3, <2>1 DEF IsInt, AddSymbols
<1>4. IsInt(c, 0)
  BY DEF IsInt
<1>5. IsInt(c, EachSymbol!SetFold(c, 0, Yours(c.st)))
  BY <1>2, <1>3, <1>4, NatSets, FiniteRanks, EachSymbol!SetFoldInvariant
<1> QED BY <1>1, <1>5, DevotionFold DEF IsInt

\* Green pips of activation costs.
AddPips(c, k, cost) == k + (IF cost.kind = "mana" THEN cost.amount["green"] ELSE 0)
AddAbilityPips(c, n, ab) == n + GreenPips(ab)
HostPips(st, id) == FoldLeft(LAMBDA n, ab : n + GreenPips(ab), 0, AbilitiesOf(st.permanents[id]))
AddHostPips(st, a, id) == HostPips(st, id) + a
EachPip == INSTANCE FoldFacts WITH Op <- AddPips, P <- IsInt
EachAbilityPips == INSTANCE FoldFacts WITH Op <- AddAbilityPips, P <- IsInt
EachHostPips == INSTANCE FoldFacts WITH Op <- AddHostPips, P <- IsInt
LEMMA PipFolds ==
  ASSUME NEW st, NEW ab, NEW id
  PROVE  /\ GreenPips(ab) = IF ab.kind # "activated" THEN 0 ELSE EachPip!Fold(st, 0, ab.costs)
         /\ HostPips(st, id) = EachAbilityPips!Fold(st, 0, AbilitiesOf(st.permanents[id]))
         /\ DevotionGreen(st) = EachHostPips!SetFold(st, 0, Yours(st))
<1>1. GreenPips(ab) = IF ab.kind # "activated" THEN 0 ELSE EachPip!Fold(st, 0, ab.costs)
  BY Zenon DEF GreenPips, AddPips, FoldLeft, MapThenFoldSet, Max,
     EachPip!Fold, EachPip!LastOf
<1>2. HostPips(st, id) = EachAbilityPips!Fold(st, 0, AbilitiesOf(st.permanents[id]))
  BY Zenon DEF HostPips, AddAbilityPips, FoldLeft, MapThenFoldSet, Max, EachAbilityPips!Fold, EachAbilityPips!LastOf
<1>3. DevotionGreen(st) = EachHostPips!SetFold(st, 0, Yours(st))
  BY Zenon DEF DevotionGreen, SumOver, MapThenSumSet, MapThenFoldSet, AddHostPips, HostPips,
     EachHostPips!SetFold
<1> QED BY <1>1, <1>2, <1>3
LEMMA GreenPipsInt == ASSUME NEW st, NEW ab, IsAbility(ab) PROVE GreenPips(ab) \in Int
<1>1. CASE ab.kind # "activated"
  BY <1>1, PipFolds
<1>2. CASE ab.kind = "activated"
  <2>1. /\ DOMAIN ab.costs = 1..Len(ab.costs) /\ Len(ab.costs) \in Nat
        /\ \A i \in DOMAIN ab.costs : IsCost(ab.costs[i])
    BY <1>2, ListIndices DEF IsAbility, ListOf
  <2>2. ASSUME NEW k, NEW i \in DOMAIN ab.costs, IsInt(st, k)
        PROVE  IsInt(st, AddPips(st, k, ab.costs[i]))
    <3>1. ab.costs[i].kind = "mana" => ab.costs[i].amount["green"] \in Int
      BY <2>1 DEF IsCost, ManaAmount, Fields, Pips, WUBRG
    <3> QED BY <2>2, <3>1 DEF IsInt, AddPips
  <2>3. IsInt(st, 0)
    BY DEF IsInt
  <2>4. IsInt(st, EachPip!Fold(st, 0, ab.costs))
    BY <2>1, <2>2, <2>3, NatSets, EachPip!FoldInvariant
  <2> QED BY <1>2, <2>4, PipFolds DEF IsInt
<1> QED BY <1>1, <1>2
LEMMA DevotionGreenInt == ASSUME NEW st, IsFiniteSet(Ids(st)) PROVE DevotionGreen(st) \in Int
<1>0. IsInt(st, 0)
  BY DEF IsInt
<1>1. ASSUME NEW id PROVE HostPips(st, id) \in Int
  <2> DEFINE s == AbilitiesOf(st.permanents[id])
  <2>1. DOMAIN s = 1..Len(s) /\ Len(s) \in Nat /\ \A i \in DOMAIN s : IsAbility(s[i])
    BY AbilityTypes, ListIndices
  <2> HIDE DEF s
  <2>2. ASSUME NEW n, NEW i \in DOMAIN s, IsInt(st, n) PROVE IsInt(st, AddAbilityPips(st, n, s[i]))
    <3>1. GreenPips(s[i]) \in Int
      BY <2>1, GreenPipsInt
    <3> QED BY <2>2, <3>1 DEF IsInt, AddAbilityPips
  <2>3. IsInt(st, EachAbilityPips!Fold(st, 0, s))
    BY <1>0, <2>1, <2>2, NatSets, EachAbilityPips!FoldInvariant
  <2> QED BY <2>3, PipFolds DEF IsInt, s
<1>2. IsFiniteSet(Yours(st))
  BY FS_Subset DEF Yours
<1>3. ASSUME NEW a, NEW id \in Yours(st), IsInt(st, a) PROVE IsInt(st, AddHostPips(st, a, id))
  BY <1>1, <1>3 DEF IsInt, AddHostPips
<1>4. IsInt(st, EachHostPips!SetFold(st, 0, Yours(st)))
  BY <1>0, <1>2, <1>3, NatSets, FiniteRanks, EachHostPips!SetFoldInvariant
<1> QED BY <1>4, PipFolds DEF IsInt

\* Power and toughness.
LEMMA TheSome == ASSUME NEW v PROVE The(Some(v)) = v /\ \A d : OrElse(Some(v), d) = v
  BY DEF The, Some, OrElse, None
LEMMA OrElseInt ==
  ASSUME NEW option, option \subseteq Int, NEW d, d \in Int PROVE OrElse(option, d) \in Int
<1>1. CASE option = {}
  BY <1>1 DEF OrElse, None
<1>2. CASE option # {}
  <2>1. The(option) \in option
    BY <1>2 DEF The
  <2>2. OrElse(option, d) = The(option)
    BY <1>2 DEF OrElse, None
  <2> QED BY <2>1, <2>2
<1> QED BY <1>1, <1>2
LEMMA PTTypes ==
  ASSUME NEW p, IsPermanent(p)
  PROVE  /\ \A kind : Counters(p, kind) \in Nat
         /\ PTBonus(p) \in Int
         /\ EffectivePower(p) \subseteq Int /\ EffectiveToughness(p) \subseteq Int
<1>1. \A kind : Counters(p, kind) \in Nat
  BY DEF IsPermanent, Counters
<1>2. PTBonus(p) \in Int
  BY <1>1 DEF PTBonus
<1>3. p.pt # <<>> => p.pt[1] \in Int /\ p.pt[2] \in Int
  BY DEF IsPermanent, IsPT
<1>4. EffectivePower(p) \subseteq Int /\ EffectiveToughness(p) \subseteq Int
  BY <1>2, <1>3 DEF EffectivePower, EffectiveToughness, None, Some
<1> QED BY <1>1, <1>2, <1>4

LEMMA FirstCdaIsCda ==
  ASSUME NEW p, HasCda(p)
  PROVE  FirstCda(p).power_from \in {"lands_you_control", "cards_in_hand", "life_you", "devotion_green"}
<1> DEFINE s == AbilitiesOf(p)
           I == {i \in DOMAIN s : s[i].kind = "static_cda_pt"}
           T == {s[i] : i \in DOMAIN s \cap I}
<1>1. IsSequence(s) /\ \A i \in DOMAIN s : IsAbility(s[i])
  BY AbilityTypes
<1>2. DOMAIN s \cap I # {}
  BY DEF HasCda, ToSet
<1>3. Picked(s, I) \in Seq(T) /\ Picked(s, I) # <<>>
  BY <1>1, <1>2, PickedList
<1>4. \A ab \in T : ab.kind = "static_cda_pt" /\ IsAbility(ab)
  BY <1>1
<1>5. FirstCda(p) = Picked(s, I)[1]
  BY DEF FirstCda, AbilitiesOfKind
<1> HIDE DEF T
<1>6. Picked(s, I)[1] \in T
  BY <1>3
<1> QED BY <1>4, <1>5, <1>6 DEF IsAbility
LEMMA PowerInt ==
  ASSUME NEW st, IsState(st), NEW id, id \in Ids(st) PROVE PowerOf(st, st.permanents[id]) \in Int
<1> DEFINE p == st.permanents[id]
<1>1. IsPermanent(p) /\ IsFiniteSet(Ids(st)) /\ st.hand_you \in Int /\ st.life_you \in Int
  BY DEF IsState
<1>2. ASSUME NEW source \in {"lands_you_control", "cards_in_hand", "life_you", "devotion_green"}
      PROVE  CdaBase(st, source) \in Int
  <2>1. Cardinality({x \in Yours(st) : IsLand(st, st.permanents[x])}) \in Int
    <3>1. {x \in Yours(st) : IsLand(st, st.permanents[x])} \subseteq Ids(st)
      BY DEF Yours
    <3> QED BY <1>1, <3>1, CountInt
  <2>2. Devotion(st, "green") \in Int
    BY <1>1, DevotionInt DEF Fields, Pips, WUBRG
  <2> QED BY <1>1, <2>1, <2>2 DEF CdaBase
<1>3. PTBonus(p) \in Int /\ OrElse(EffectivePower(p), 0) \in Int
  BY <1>1, PTTypes, OrElseInt
<1> HIDE DEF p
<1>4. CASE HasCda(p)
  <2>1. CdaBase(st, FirstCda(p).power_from) \in Int
    BY <1>2, <1>4, FirstCdaIsCda
  <2> QED BY <1>3, <1>4, <2>1 DEF PowerOf, p
<1>5. CASE ~HasCda(p)
  BY <1>3, <1>5 DEF PowerOf, p
<1> QED BY <1>4, <1>5

\* Quantities of mana.
LEMMA CountIds ==
  ASSUME NEW st, IsState(st), NEW S, S \subseteq Ids(st) PROVE Cardinality(S) \in Nat
<1>1. IsFiniteSet(Ids(st))
  BY DEF IsState
<1> QED BY <1>1, CountInt
LEMMA GreatestPT ==
  ASSUME NEW st, IsState(st), NEW S, S \subseteq Ids(st)
  PROVE  /\ Greatest({OrElse(EffectivePower(st.permanents[id]), 0) : id \in S}) \in Int
         /\ Greatest({OrElse(EffectiveToughness(st.permanents[id]), 0) : id \in S}) \in Int
<1> DEFINE power == [id \in S |-> OrElse(EffectivePower(st.permanents[id]), 0)]
           toughness == [id \in S |-> OrElse(EffectiveToughness(st.permanents[id]), 0)]
<1>1. IsFiniteSet(S)
  BY FS_Subset DEF IsState
<1>2. \A id \in S : power[id] \in Int /\ toughness[id] \in Int
  BY PTTypes, OrElseInt DEF IsState
<1>3. IsFiniteSet({power[id] : id \in S}) /\ IsFiniteSet({toughness[id] : id \in S})
  BY <1>1, FiniteImage
<1>4. {power[id] : id \in S} \in SUBSET Int /\ {toughness[id] : id \in S} \in SUBSET Int
  BY <1>2
<1>5. Greatest({power[id] : id \in S}) \in Int /\ Greatest({toughness[id] : id \in S}) \in Int
  BY <1>3, <1>4, GreatestOf
<1>6. /\ {power[id] : id \in S} = {OrElse(EffectivePower(st.permanents[id]), 0) : id \in S}
      /\ {toughness[id] : id \in S} = {OrElse(EffectiveToughness(st.permanents[id]), 0) : id \in S}
  OBVIOUS
<1> QED BY <1>5, <1>6
LEMMA YoursAreIds == ASSUME NEW st PROVE Yours(st) \subseteq Ids(st) /\ YourCreatures(st) \subseteq Yours(st)
  BY DEF Yours, YourCreatures
LEMMA ScaledInt ==
  ASSUME NEW st, IsState(st), NEW source,
         NEW scale \in ManaScales \ {"vivid_permanent_colors", "controlled_sharing_creature_type"}
  PROVE  ScaledManaQuantity(st, scale, source) \in Int
<1> DEFINE perm(id) == st.permanents[id]
<1>0. \A S : S \subseteq Ids(st) => Cardinality(S) \in Int
  BY CountIds
<1>1. CASE scale \in {"controlled_creatures", "controlled_elf", "controlled_defenders",
                      "controlled_enchantments", "controlled_swamps"}
  <2>1. /\ Cardinality(YourCreatures(st)) \in Int
        /\ Cardinality({id \in YourCreatures(st) : "elf" \in CardTypes(perm(id))}) \in Int
    BY <1>0, YoursAreIds
  <2>2. Cardinality({id \in YourCreatures(st) : \E ab \in ToSet(AbilitiesOf(perm(id))) :
                       ab.kind = "proof_irrelevant_static" /\ ab.clause = "defender"}) \in Int
    BY <1>0, YoursAreIds
  <2>3. /\ Cardinality({id \in Yours(st) : "enchantment" \in CardTypes(perm(id))}) \in Int
        /\ Cardinality({id \in Yours(st) : "swamp" \in CardTypes(perm(id)) \cup perm(id).words}) \in Int
    BY <1>0, YoursAreIds
  <2> QED BY <1>1, <2>1, <2>2, <2>3 DEF ScaledManaQuantity
<1>2. CASE scale \in {"battlefield_elf", "hand_artifacts"}
  <2>1. Cardinality({id \in Ids(st) : OnBattlefield(perm(id)) /\ perm(id).is_creature
                                       /\ "elf" \in CardTypes(perm(id))}) \in Int
    BY <1>0
  <2>2. Cardinality({id \in Ids(st) : perm(id).zone = "hand" /\ perm(id).controller = "you"
                                       /\ perm(id).is_artifact}) \in Int
    BY <1>0
  <2> QED BY <1>2, <2>1, <2>2 DEF ScaledManaQuantity
<1>3. CASE scale \in {"greatest_power_controlled", "greatest_power_entered_this_turn"}
  <2>1. \A S : S \subseteq Ids(st) => Greatest({OrElse(EffectivePower(perm(id)), 0) : id \in S}) \in Int
    BY GreatestPT
  <2>2. /\ YourCreatures(st) \subseteq Ids(st)
        /\ {id \in YourCreatures(st) : perm(id).entered_this_turn} \subseteq Ids(st)
    BY YoursAreIds
  <2> QED BY <1>3, <2>1, <2>2 DEF ScaledManaQuantity
<1>4. CASE scale = "greatest_toughness_other"
  <2>1. YourCreatures(st) \ {source} \subseteq Ids(st)
    BY YoursAreIds
  <2>2. Greatest({OrElse(EffectiveToughness(perm(id)), 0) : id \in YourCreatures(st) \ {source}}) \in Int
    BY <2>1, GreatestPT
  <2> QED BY <1>4, <2>2 DEF ScaledManaQuantity
<1>5. CASE scale \in {"devotion_green", "cards_drawn_this_turn"}
  <2>1. DevotionGreen(st) \in Int
    BY DevotionGreenInt DEF IsState
  <2>2. st.event_counters["draw"] \in Int
    <3>1. "draw" \in EventKeys
      BY DEF EventKeys, EventOrder, ToSet
    <3> QED BY <3>1 DEF IsState
  <2> QED BY <1>5, <2>1, <2>2 DEF ScaledManaQuantity
<1> QED BY <1>1, <1>2, <1>3, <1>4, <1>5 DEF ManaScales

-----------------------------------------------------------------------------
(* Books.  l is what they say: a state that was there, and for the hand,   *)
(* the energy and the life totals what is left when everything that was    *)
(* counted is taken back.  st keeps them if it is a state that follows the *)
(* one that was there and says the same.                                   *)

\* Damage to each player is counted once and hurts both.
HurtsBoth(e) == e.kind = "deal_damage" /\ e.target = "each_player"
SharedDamage ==
  \E oracle \in DOMAIN Cards : \E ab \in ToSet(Cards[oracle].abilities) :
    /\ ab.kind \in {"activated", "triggered", "grant_activated"}
    /\ \E e \in ToSet(ab.effects) : HurtsBoth(e)

HandLeft(st) == st.hand_you - st.event_counters["draw"] + st.event_counters["discard"]
EnergyLeft(st) == st.energy_you - st.event_counters["energy"] + st.event_counters["energy_paid"]
LifeLeft(st) ==
  st.life_you + st.life_opponent - st.event_counters["life_gain"] + st.event_counters["life_loss"]
\* A state follows another: no object is forgotten and no token id is taken back, and as long as
\* the supply of those lasts, the objects stay properly named and no use of an ability is forgotten.
Grows(p, q) == p.once_per_turn_used \subseteq q.once_per_turn_used
Follows(a, b) ==
  /\ Ids(a) \subseteq Ids(b) /\ a.token_seq <= b.token_seq
  /\ Named(a) /\ b.token_seq <= Len(TokenIds)
       => Named(b) /\ \A id \in Ids(a) : Grows(a.permanents[id], b.permanents[id])
Kept(l, st) ==
  /\ IsState(st) /\ IsState(l.start) /\ Follows(l.start, st)
  /\ l.hand = HandLeft(st) /\ l.energy = EnergyLeft(st)
  /\ ~SharedDamage => l.life = LifeLeft(st)

LedgerKeys == {"draw", "discard", "energy", "energy_paid", "life_gain", "life_loss"}
SameBooks(st, t) ==
  /\ t.hand_you = st.hand_you /\ t.energy_you = st.energy_you
  /\ t.life_you = st.life_you /\ t.life_opponent = st.life_opponent
  /\ \A key \in LedgerKeys : t.event_counters[key] = st.event_counters[key]
LEMMA TokenSupply == Len(TokenIds) \in Nat /\ DOMAIN TokenIds = 1..Len(TokenIds)
                     /\ IsInjective(TokenIds)
  BY IdsAssumption, ListIndices
LEMMA FollowsItself == ASSUME NEW st, IsState(st) PROVE Follows(st, st)
  BY DEF Follows, IsState, Grows
LEMMA FollowsOn ==
  ASSUME NEW a, IsState(a), NEW b, IsState(b), NEW c, IsState(c), Follows(a, b), Follows(b, c)
  PROVE  Follows(a, c)
<1>1. a.token_seq \in Nat /\ b.token_seq \in Nat /\ c.token_seq \in Nat /\ Len(TokenIds) \in Nat
  BY TokenSupply DEF IsState
<1>2. Ids(a) \subseteq Ids(c) /\ a.token_seq <= c.token_seq
  BY <1>1 DEF Follows
<1>3. ASSUME Named(a), c.token_seq <= Len(TokenIds)
      PROVE  Named(c) /\ \A id \in Ids(a) : Grows(a.permanents[id], c.permanents[id])
  <2>1. b.token_seq <= Len(TokenIds)
    BY <1>1, <1>3 DEF Follows
  <2> QED BY <1>3, <2>1 DEF Follows, Grows
<1> QED BY <1>2, <1>3 DEF Follows
LEMMA SameKept ==
  ASSUME NEW l, NEW st, NEW t, Kept(l, st), IsState(t), Follows(st, t), SameBooks(st, t)
  PROVE  Kept(l, t)
<1>1. Follows(l.start, t)
  BY FollowsOn DEF Kept
<1> QED BY <1>1 DEF Kept, SameBooks, LedgerKeys, HandLeft, EnergyLeft, LifeLeft

\* The books can be opened anew with the objects there are by now; objects only come.
LEMMA BooksNow ==
  ASSUME NEW l, NEW st, Kept(l, st)
  PROVE  \E m : /\ m.start = st /\ Kept(m, st)
                /\ \A t : Kept(m, t) => Kept(l, t) /\ Follows(st, t)
<1> DEFINE m == [start |-> st, hand |-> l.hand, energy |-> l.energy, life |-> l.life]
<1>1. m.start = st /\ m.hand = l.hand /\ m.energy = l.energy /\ m.life = l.life
  OBVIOUS
<1> HIDE DEF m
<1>2. IsState(st) /\ Follows(st, st)
  BY FollowsItself DEF Kept
<1>3. Kept(m, st)
  BY <1>1, <1>2 DEF Kept
<1>4. ASSUME NEW t, Kept(m, t) PROVE Kept(l, t) /\ Follows(st, t)
  <2>1. IsState(t) /\ Follows(st, t) /\ IsState(l.start) /\ Follows(l.start, st)
    BY <1>1, <1>4 DEF Kept
  <2>2. Follows(l.start, t)
    BY <1>2, <2>1, FollowsOn
  <2> QED BY <1>1, <1>4, <2>1, <2>2 DEF Kept
<1> QED BY <1>1, <1>3, <1>4

\* Books can be opened on any state.
LEMMA BooksOpen == ASSUME NEW st, IsState(st) PROVE \E m : m.start = st /\ Kept(m, st)
<1> DEFINE m == [start |-> st, hand |-> HandLeft(st), energy |-> EnergyLeft(st), life |-> LifeLeft(st)]
<1>1. m.start = st /\ m.hand = HandLeft(st) /\ m.energy = EnergyLeft(st) /\ m.life = LifeLeft(st)
  OBVIOUS
<1> HIDE DEF m
<1>2. Kept(m, st)
  BY <1>1, FollowsItself DEF Kept
<1> QED BY <1>1, <1>2

\* What was there at the start still is.
LEMMA Present ==
  ASSUME NEW l, NEW st, Kept(l, st) PROVE \A id \in Ids(l.start) : id \in Ids(st)
  BY DEF Kept, Follows

LEMMA KeysAreEvents == LedgerKeys \subseteq EventKeys
  BY DEF LedgerKeys, EventKeys, EventOrder, ToSet

\* One field of a state is set.
LEMMA FieldSet ==
  ASSUME NEW st, DOMAIN st = StateFields, NEW f \in StateFields, NEW v, NEW t, t = [st EXCEPT ![f] = v]
  PROVE  DOMAIN t = StateFields /\ t[f] = v /\ \A g \in StateFields : g # f => t[g] = st[g]
  OBVIOUS

\* What a field may become without a word in the books.
Becomes(p, q) == IsPermanent(q) /\ Grows(p, q)
Harmless(st, f, v) ==
  \/ /\ f = "permanents" /\ DOMAIN v = Ids(st)
     /\ \A id \in Ids(st) : Becomes(st.permanents[id], v[id])
  \/ f = "pending_triggers" /\ Queue(v, Ids(st))
  \/ f \in {"mana", "mana_activate_only"} /\ v \in ManaAmount
  \/ f = "last_cast_spell"
  \/ f \in {"library_you", "library_opponent", "graveyard_opponent"} /\ v \in Nat
  \/ f = "last_sacrificed_power" /\ v \in Int
  \/ /\ f = "event_counters" /\ v \in [EventKeys -> Int]
     /\ \A key \in LedgerKeys : v[key] = st.event_counters[key]
LEMMA FieldKept ==
  ASSUME NEW l, NEW st, Kept(l, st), NEW f \in StateFields, NEW v, Harmless(st, f, v)
  PROVE  Kept(l, [st EXCEPT ![f] = v])
<1> DEFINE t == [st EXCEPT ![f] = v]
<1>1. DOMAIN t = StateFields /\ t[f] = v /\ \A g \in StateFields : g # f => t[g] = st[g]
  BY FieldSet DEF Kept, IsState
<1> HIDE DEF t
<1>2. /\ f # "order" => t.order = st.order
      /\ f # "library_you" => t.library_you = st.library_you
      /\ f # "library_opponent" => t.library_opponent = st.library_opponent
      /\ f # "graveyard_opponent" => t.graveyard_opponent = st.graveyard_opponent
      /\ f # "hand_you" => t.hand_you = st.hand_you
      /\ f # "energy_you" => t.energy_you = st.energy_you
  BY <1>1 DEF StateFields
<1>3. /\ f # "life_you" => t.life_you = st.life_you
      /\ f # "life_opponent" => t.life_opponent = st.life_opponent
      /\ f # "token_seq" => t.token_seq = st.token_seq
      /\ f # "last_sacrificed_power" => t.last_sacrificed_power = st.last_sacrificed_power
      /\ f # "event_counters" => t.event_counters = st.event_counters
      /\ f # "pending_triggers" => t.pending_triggers = st.pending_triggers
      /\ f # "permanents" => t.permanents = st.permanents
  BY <1>1 DEF StateFields
<1>4. Ids(t) = Ids(st) /\ \A id \in Ids(st) : Becomes(st.permanents[id], t.permanents[id])
  <2>1. CASE f = "permanents"
    BY <1>1, <2>1 DEF Harmless, Ids
  <2>2. CASE f # "permanents"
    BY <1>3, <2>2 DEF Kept, IsState, Ids, Becomes, Grows
  <2> QED BY <2>1, <2>2
<1>5. Queue(t.pending_triggers, Ids(st))
  <2>1. CASE f = "pending_triggers"
    BY <1>1, <2>1 DEF Harmless
  <2>2. CASE f # "pending_triggers"
    BY <1>3, <2>2 DEF Kept, IsState, Queue
  <2> QED BY <2>1, <2>2
<1>6. t.event_counters \in [EventKeys -> Int]
      /\ \A key \in LedgerKeys : t.event_counters[key] = st.event_counters[key]
  <2>1. CASE f = "event_counters"
    BY <1>1, <2>1 DEF Harmless
  <2>2. CASE f # "event_counters"
    BY <1>3, <2>2 DEF Kept, IsState
  <2> QED BY <2>1, <2>2
<1>7. /\ {t.library_you, t.library_opponent, t.graveyard_opponent, t.hand_you, t.energy_you,
          t.token_seq} \subseteq Nat
      /\ {t.life_you, t.life_opponent, t.last_sacrificed_power} \subseteq Int
  BY <1>1, <1>2, <1>3 DEF Harmless, Kept, IsState
<1>8. t.order = st.order /\ t.hand_you = st.hand_you /\ t.energy_you = st.energy_you
      /\ t.life_you = st.life_you /\ t.life_opponent = st.life_opponent
      /\ t.token_seq = st.token_seq
  BY <1>2, <1>3 DEF Harmless
<1>9. t.mana \in ManaAmount /\ t.mana_activate_only \in ManaAmount
  <2>1. /\ f # "mana" => t.mana = st.mana
        /\ f # "mana_activate_only" => t.mana_activate_only = st.mana_activate_only
    BY <1>1 DEF StateFields
  <2> QED BY <1>1, <2>1 DEF Harmless, Kept, IsState
<1>10. IsState(t)
  BY <1>1, <1>4, <1>5, <1>6, <1>7, <1>8, <1>9 DEF Kept, IsState, Queue, Becomes
<1>11. Follows(st, t)
  <2>1. st.token_seq \in Nat
    BY DEF Kept, IsState
  <2>2. Named(st) => Named(t)
    BY <1>4, <1>8 DEF Named
  <2> QED BY <1>4, <1>8, <2>1, <2>2 DEF Follows, Becomes
<1>12. SameBooks(st, t)
  BY <1>6, <1>8 DEF SameBooks
<1> QED BY <1>10, <1>11, <1>12, SameKept DEF t

LEMMA PermanentsKept ==
  ASSUME NEW l, NEW st, Kept(l, st), NEW perms, DOMAIN perms = Ids(st),
         \A id \in Ids(st) : Becomes(st.permanents[id], perms[id])
  PROVE  Kept(l, [st EXCEPT !.permanents = perms])
<1>1. "permanents" \in StateFields /\ Harmless(st, "permanents", perms)
  BY DEF StateFields, Harmless
<1> QED BY <1>1, FieldKept
LEMMA PermanentKept ==
  ASSUME NEW l, NEW st, Kept(l, st), NEW id, NEW p, id \in Ids(st) => Becomes(st.permanents[id], p)
  PROVE  Kept(l, [st EXCEPT !.permanents[id] = p])
<1> DEFINE perms == [st.permanents EXCEPT ![id] = p]
<1>1. DOMAIN perms = Ids(st) /\ \A x \in Ids(st) : Becomes(st.permanents[x], perms[x])
  BY DEF Ids, Kept, IsState, Becomes, Grows
<1> HIDE DEF perms
<1>2. Kept(l, [st EXCEPT !.permanents = perms])
  BY <1>1, PermanentsKept
<1> QED BY <1>2 DEF perms
LEMMA QueueKept ==
  ASSUME NEW l, NEW st, Kept(l, st), NEW q, Queue(q, Ids(st))
  PROVE  Kept(l, [st EXCEPT !.pending_triggers = st.pending_triggers \o q])
<1>1. Queue(st.pending_triggers \o q, Ids(st))
  BY QueueConcat DEF Kept, IsState, Queue
<1>2. "pending_triggers" \in StateFields
      /\ Harmless(st, "pending_triggers", st.pending_triggers \o q)
  BY <1>1 DEF StateFields, Harmless
<1> QED BY <1>2, FieldKept
LEMMA BumpKept ==
  ASSUME NEW l, NEW st, Kept(l, st), NEW key, key \in EventKeys \ LedgerKeys, NEW n, n \in Int
  PROVE  Kept(l, Bump(st, key, n))
<1> DEFINE counters == [st.event_counters EXCEPT ![key] = @ + n]
<1>1. counters \in [EventKeys -> Int] /\ \A k \in LedgerKeys : counters[k] = st.event_counters[k]
  BY KeysAreEvents DEF Kept, IsState
<1> HIDE DEF counters
<1>2. "event_counters" \in StateFields /\ Harmless(st, "event_counters", counters)
  BY <1>1 DEF StateFields, Harmless
<1>3. Kept(l, [st EXCEPT !.event_counters = counters])
  BY <1>2, FieldKept
<1> QED BY <1>3 DEF Bump, counters

-----------------------------------------------------------------------------
(* Permanents *)
\* The fields of a permanent that have a type, and what goes into one.
Typed == {"pt", "counters", "zone", "damage_marked", "once_per_turn_used"} \cup Flags
Fits(p, f, v) ==
  \/ f \notin Typed
  \/ f \in Flags /\ v \in BOOLEAN
  \/ f = "zone" /\ v \in Zones
  \/ f = "damage_marked" /\ v \in Int
  \/ f = "once_per_turn_used" /\ p.once_per_turn_used \subseteq v
  \/ f = "counters" /\ \A kind \in DOMAIN v : v[kind] \in Nat
LEMMA TypedFields == Typed \subseteq DOMAIN Permanent
  BY DEF Typed, Flags, Permanent
LEMMA FieldBecomes ==
  ASSUME NEW p, IsPermanent(p), NEW f, NEW v, Fits(p, f, v)
  PROVE  Becomes(p, [p EXCEPT ![f] = v])
<1> DEFINE q == [p EXCEPT ![f] = v]
<1>1. DOMAIN p = DOMAIN Permanent /\ Typed \subseteq DOMAIN p
  BY TypedFields DEF IsPermanent
<1>2. DOMAIN q = DOMAIN p /\ \A g \in Typed : q[g] = IF g = f THEN v ELSE p[g]
  BY <1>1
<1> HIDE DEF q
<1>3. \A flag \in Flags : q[flag] \in BOOLEAN
  <2>1. Flags \subseteq Typed /\ Flags \cap {"zone", "damage_marked", "once_per_turn_used", "counters"} = {}
    BY DEF Typed, Flags
  <2> QED BY <1>2, <2>1 DEF Fits, IsPermanent
<1>4. /\ q.pt = p.pt
      /\ f = "counters" \/ q.counters = p.counters
      /\ f = "zone" \/ q.zone = p.zone
      /\ f = "damage_marked" \/ q.damage_marked = p.damage_marked
      /\ f = "once_per_turn_used" \/ q.once_per_turn_used = p.once_per_turn_used
  BY <1>2 DEF Typed, Fits, Flags
<1>5. /\ f = "counters" => q.counters = v
      /\ f = "zone" => q.zone = v
      /\ f = "damage_marked" => q.damage_marked = v
      /\ f = "once_per_turn_used" => q.once_per_turn_used = v
  BY <1>2 DEF Typed
<1>6. /\ f = "counters" => \A kind \in DOMAIN v : v[kind] \in Nat
      /\ f = "zone" => v \in Zones
      /\ f = "damage_marked" => v \in Int
      /\ f = "once_per_turn_used" => p.once_per_turn_used \subseteq v
  BY DEF Fits, Typed, Flags
<1>7. IsPermanent(q)
  BY <1>1, <1>2, <1>3, <1>4, <1>5, <1>6 DEF IsPermanent
<1>8. Grows(p, q)
  BY <1>4, <1>5, <1>6 DEF Grows
<1> QED BY <1>7, <1>8 DEF q, Becomes
LEMMA CountersSet ==
  ASSUME NEW p, IsPermanent(p), NEW kind, NEW n \in Nat
  PROVE  Becomes(p, WithCounters(p, kind, n))
<1> DEFINE counters == Stored(p.counters, kind, n)
<1>1. \A k \in DOMAIN counters : counters[k] \in Nat
  BY DEF IsPermanent, Stored
<1> HIDE DEF counters
<1>2. Becomes(p, [p EXCEPT !["counters"] = counters])
  BY <1>1, FieldBecomes DEF Fits
<1> QED BY <1>2 DEF counters, WithCounters
LEMMA BecomesOn ==
  ASSUME NEW p, NEW q, NEW r, Becomes(p, q), Becomes(q, r) PROVE Becomes(p, r)
  BY DEF Becomes, Grows

LEMMA PermanentIn ==
  ASSUME NEW l, NEW st, Kept(l, st), NEW id \in Ids(st) PROVE IsPermanent(st.permanents[id])
  BY DEF Kept, IsState
LEMMA FlagKept ==
  ASSUME NEW l, NEW st, Kept(l, st), NEW id, NEW f, NEW v,
         id \in Ids(st) => Fits(st.permanents[id], f, v)
  PROVE  Kept(l, [st EXCEPT !.permanents[id][f] = v])
<1>1. id \in Ids(st) => Becomes(st.permanents[id], [st.permanents[id] EXCEPT ![f] = v])
  BY PermanentIn, FieldBecomes
<1> QED BY <1>1, PermanentKept

Flagged(st, id, f, v) == [st EXCEPT !.permanents[id][f] = v]
LEMMA FlaggedKept ==
  ASSUME NEW l, NEW st, Kept(l, st), NEW id, NEW f, NEW v,
         id \in Ids(st) => Fits(st.permanents[id], f, v)
  PROVE  Kept(l, Flagged(st, id, f, v))
  BY FlagKept, Zenon DEF Flagged

-----------------------------------------------------------------------------
(* Triggers *)
HostStep(c, q, ab) ==
  IF Fires(c.st, ab, c.host, c.event, c.subject)
  THEN Append(q, Pending(c.host, ab.ability_id, c.subject, c.amount)) ELSE q
IsQueue(c, q) == Queue(q, Ids(c.st))
EachTrigger == INSTANCE FoldFacts WITH Op <- HostStep, P <- IsQueue
HostTriggers(c, queue, host) == QueuedFor(c.st, queue, host, c.event, c.subject, c.amount)
EachHost == INSTANCE FoldFacts WITH Op <- HostTriggers, P <- IsQueue
LEMMA TriggerFolds ==
  ASSUME NEW c
  PROVE  /\ \A queue : QueuedFor(c.st, queue, c.host, c.event, c.subject, c.amount)
                         = EachTrigger!Fold(c, queue, AbilitiesOf(c.st.permanents[c.host]))
         /\ TriggersFor(c.st, c.event, c.subject, c.amount)
              = EachHost!Fold(c, <<>>, YoursInOrder(c.st))
<1>1. ASSUME NEW queue
      PROVE  QueuedFor(c.st, queue, c.host, c.event, c.subject, c.amount)
               = EachTrigger!Fold(c, queue, AbilitiesOf(c.st.permanents[c.host]))
  BY Zenon DEF QueuedFor, HostStep, FoldLeft, MapThenFoldSet, Max,
     EachTrigger!Fold, EachTrigger!LastOf
<1>2. TriggersFor(c.st, c.event, c.subject, c.amount) = EachHost!Fold(c, <<>>, YoursInOrder(c.st))
  BY Zenon DEF TriggersFor, HostTriggers, FoldLeft, MapThenFoldSet, Max,
     EachHost!Fold, EachHost!LastOf
<1> QED BY <1>1, <1>2
LEMMA TriggersQueue ==
  ASSUME NEW st, IsSequence(st.order), NEW event, NEW subject \in Ids(st),
         NEW amount, amount \subseteq Int
  PROVE  Queue(TriggersFor(st, event, subject, amount), Ids(st))
<1> DEFINE c == [st |-> st, event |-> event, subject |-> subject, amount |-> amount]
           hosts == YoursInOrder(st)
<1>1. c.st = st /\ c.event = event /\ c.subject = subject /\ c.amount = amount
  OBVIOUS
<1> HIDE DEF c
<1>2. ASSUME NEW host \in Ids(st), NEW queue, Queue(queue, Ids(st))
      PROVE  Queue(HostTriggers(c, queue, host), Ids(st))
  <2> DEFINE d == [st |-> st, event |-> event, subject |-> subject, amount |-> amount, host |-> host]
             s == AbilitiesOf(st.permanents[host])
  <2>1. d.st = st /\ d.event = event /\ d.subject = subject /\ d.amount = amount /\ d.host = host
    OBVIOUS
  <2> HIDE DEF d
  <2>2. DOMAIN s = 1..Len(s) /\ Len(s) \in Nat
    BY AbilityTypes, ListIndices
  <2> HIDE DEF s
  <2>3. ASSUME NEW q, NEW i \in DOMAIN s, IsQueue(d, q) PROVE IsQueue(d, HostStep(d, q, s[i]))
    <3>1. IsPending(Pending(host, s[i].ability_id, subject, amount), Ids(st))
      BY DEF IsPending, Pending
    <3>2. Queue(Append(q, Pending(host, s[i].ability_id, subject, amount)), Ids(st))
      BY <2>1, <2>3, <3>1, QueueAppend DEF IsQueue
    <3> QED BY <2>1, <2>3, <3>2 DEF IsQueue, HostStep
  <2>4. IsQueue(d, EachTrigger!Fold(d, queue, s))
    BY <1>2, <2>1, <2>2, <2>3, NatSets, EachTrigger!FoldInvariant DEF IsQueue
  <2>5. HostTriggers(c, queue, host) = QueuedFor(d.st, queue, d.host, d.event, d.subject, d.amount)
    BY <1>1, <2>1 DEF HostTriggers
  <2>6. HostTriggers(c, queue, host) = EachTrigger!Fold(d, queue, s)
    BY <2>1, <2>5, TriggerFolds DEF s
  <2> QED BY <2>1, <2>4, <2>5, <2>6 DEF IsQueue
<1>3. hosts \in Seq(Yours(st)) /\ Yours(st) \subseteq Ids(st)
  BY ThoseList, YoursAreIds DEF YoursInOrder
<1> HIDE DEF hosts
<1>4. DOMAIN hosts = 1..Len(hosts) /\ Len(hosts) \in Nat /\ \A i \in DOMAIN hosts : hosts[i] \in Ids(st)
  BY <1>3, ListOfElements
<1>5. ASSUME NEW q, NEW i \in DOMAIN hosts, IsQueue(c, q) PROVE IsQueue(c, HostTriggers(c, q, hosts[i]))
  BY <1>1, <1>2, <1>4, <1>5 DEF IsQueue
<1>6. IsQueue(c, <<>>)
  BY QueueEmpty DEF IsQueue
<1>7. IsQueue(c, EachHost!Fold(c, <<>>, hosts))
  BY <1>4, <1>5, <1>6, NatSets, EachHost!FoldInvariant
<1>8. TriggersFor(st, event, subject, amount) = EachHost!Fold(c, <<>>, hosts)
  BY <1>1, TriggerFolds DEF hosts
<1> QED BY <1>1, <1>7, <1>8 DEF IsQueue

LEMMA TriggersKept ==
  ASSUME NEW l, NEW st, Kept(l, st), NEW event, NEW subject \in Ids(st),
         NEW amount, amount \subseteq Int
  PROVE  Kept(l, QueueTriggers(st, event, subject, amount))
<1>1. Queue(TriggersFor(st, event, subject, amount), Ids(st))
  BY TriggersQueue DEF Kept, IsState
<1> QED BY <1>1, QueueKept DEF QueueTriggers

\* A flag that is one of no type, and an object that is still there when another changed.
LEMMA FreeFields ==
  \A p : \A v : \A f \in {"entered_this_turn", "undying", "lifelink", "tap_bounce_nonland", "imprinted"} :
    Fits(p, f, v)
  BY DEF Fits, Typed, Flags
LEMMA StillThere ==
  ASSUME NEW st, IsState(st), NEW id, NEW f, NEW v
  PROVE  Ids(Flagged(st, id, f, v)) = Ids(st)
  BY DEF Flagged, Ids, IsState, StateFields
LEMMA EtbKept == ASSUME NEW l, NEW st, Kept(l, st), NEW id \in Ids(st) PROVE Kept(l, OnEtb(st, id))
<1> DEFINE u == Bump(st, "etb", 1)
           s == Flagged(u, id, "entered_this_turn", TRUE)
<1>1. Kept(l, u) /\ Ids(u) = Ids(st)
  <2>1. "etb" \in EventKeys \ LedgerKeys
    BY DEF EventKeys, EventOrder, ToSet, LedgerKeys
  <2>2. Kept(l, u)
    BY <2>1, BumpKept
  <2> QED BY <2>2 DEF Bump, Ids, Kept, IsState, StateFields
<1> HIDE DEF u
<1>2. Kept(l, s) /\ id \in Ids(s)
  <2>1. Ids(s) = Ids(u)
    BY <1>1, StillThere DEF Kept
  <2>2. \A p : Fits(p, "entered_this_turn", TRUE)
    BY FreeFields
  <2> QED BY <1>1, <2>1, <2>2, FlaggedKept
<1> HIDE DEF s
<1>3. None \subseteq Int
  BY DEF None
<1>4. Kept(l, QueueTriggers(s, "enter_battlefield", id, None))
  BY <1>2, <1>3, TriggersKept
<1>5. OnEtb(st, id) = QueueTriggers(s, "enter_battlefield", id, None)
  BY DEF OnEtb, s, u, Flagged
<1> QED BY <1>4, <1>5

LEMMA UntapKept == ASSUME NEW l, NEW st, Kept(l, st), NEW id \in Ids(st) PROVE Kept(l, Untap(st, id))
<1> DEFINE s == Flagged(st, id, "tapped", FALSE)
<1>1. Kept(l, s) /\ id \in Ids(s)
  <2>1. \A p : Fits(p, "tapped", FALSE)
    BY DEF Fits, Flags
  <2>2. Ids(s) = Ids(st)
    BY StillThere DEF Kept
  <2> QED BY <2>1, <2>2, FlaggedKept
<1> HIDE DEF s
<1>2. None \subseteq Int
  BY DEF None
<1>3. Untap(st, id) \in {st, QueueTriggers(s, "untap", id, None)}
  BY DEF Untap, s, Flagged
<1> QED BY <1>1, <1>2, <1>3, TriggersKept

-----------------------------------------------------------------------------
(* Ledgers.  What is drawn, discarded, gained, paid or lost moves a total   *)
(* and its count by the same number, the one after the other.               *)
Moved(l, hand, energy, life) ==
  [start |-> l.start, hand |-> l.hand + hand, energy |-> l.energy + energy, life |-> l.life + life]
Totals == {"hand_you", "energy_you", "life_you", "life_opponent"}
LEMMA StateInts ==
  ASSUME NEW st, IsState(st)
  PROVE  /\ {st.hand_you, st.energy_you, st.life_you, st.life_opponent} \subseteq Int
         /\ \A key \in LedgerKeys : st.event_counters[key] \in Int
  BY KeysAreEvents DEF IsState
LEMMA SameFollows ==
  ASSUME NEW st, IsState(st), NEW t, t.permanents = st.permanents, t.order = st.order,
         t.token_seq = st.token_seq
  PROVE  Follows(st, t)
  BY DEF IsState, Follows, Grows, Named, Ids
LEMMA TotalSet ==
  ASSUME NEW st, IsState(st), NEW f \in Totals, NEW v, v \in Int,
         f \in {"hand_you", "energy_you"} => v \in Nat
  PROVE  LET t == [st EXCEPT ![f] = v] IN
         /\ IsState(t) /\ Follows(st, t) /\ t.event_counters = st.event_counters
         /\ t[f] = v /\ \A g \in Totals : g # f => t[g] = st[g]
<1> DEFINE t == [st EXCEPT ![f] = v]
<1>1. DOMAIN t = StateFields /\ t[f] = v /\ \A g \in StateFields : g # f => t[g] = st[g]
  BY FieldSet DEF IsState, Totals, StateFields
<1> HIDE DEF t
<1>2. /\ t.order = st.order /\ t.permanents = st.permanents
      /\ t.library_you = st.library_you /\ t.library_opponent = st.library_opponent
      /\ t.graveyard_opponent = st.graveyard_opponent /\ t.token_seq = st.token_seq
      /\ t.mana = st.mana /\ t.mana_activate_only = st.mana_activate_only
  BY <1>1 DEF StateFields, Totals
<1>3. /\ t.last_sacrificed_power = st.last_sacrificed_power
      /\ t.event_counters = st.event_counters /\ t.pending_triggers = st.pending_triggers
      /\ \A g \in Totals : g # f => t[g] = st[g]
  BY <1>1 DEF StateFields, Totals
<1>4. Ids(t) = Ids(st)
  BY <1>2 DEF Ids
<1>5. {t.hand_you, t.energy_you} \subseteq Nat /\ {t.life_you, t.life_opponent} \subseteq Int
  BY <1>1, <1>3 DEF Totals, IsState
<1>6. IsState(t)
  BY <1>1, <1>2, <1>3, <1>4, <1>5 DEF IsState
<1>7. Follows(st, t)
  BY <1>2, <1>4, SameFollows
<1> QED BY <1>1, <1>3, <1>6, <1>7 DEF t
LEMMA TotalMoved ==
  ASSUME NEW l, NEW st, Kept(l, st), NEW v, v \in Int
  PROVE  /\ v \in Nat => Kept(Moved(l, v - st.hand_you, 0, 0), [st EXCEPT !.hand_you = v])
         /\ v \in Nat => Kept(Moved(l, 0, v - st.energy_you, 0), [st EXCEPT !.energy_you = v])
         /\ Kept(Moved(l, 0, 0, v - st.life_you), [st EXCEPT !.life_you = v])
         /\ Kept(Moved(l, 0, 0, v - st.life_opponent), [st EXCEPT !.life_opponent = v])
<1>1. IsState(st) /\ (\A t : IsState(t) /\ Follows(st, t) => Follows(l.start, t)) /\ IsState(l.start)
      /\ l.hand = HandLeft(st) /\ l.energy = EnergyLeft(st)
      /\ (~SharedDamage => l.life = LifeLeft(st))
  BY FollowsOn DEF Kept
<1>2. /\ {st.hand_you, st.energy_you, st.life_you, st.life_opponent} \subseteq Int
      /\ \A key \in LedgerKeys : st.event_counters[key] \in Int
  BY <1>1, StateInts
<1>3. ASSUME v \in Nat PROVE Kept(Moved(l, v - st.hand_you, 0, 0), [st EXCEPT !.hand_you = v])
  <2> DEFINE t == [st EXCEPT !.hand_you = v]
  <2>1. IsState(t) /\ Follows(st, t) /\ t.event_counters = st.event_counters /\ t.hand_you = v
        /\ t.energy_you = st.energy_you /\ t.life_you = st.life_you /\ t.life_opponent = st.life_opponent
    BY <1>1, <1>3, TotalSet DEF Totals
  <2> HIDE DEF t
  <2>2. Kept(Moved(l, v - st.hand_you, 0, 0), t)
    BY <1>1, <1>2, <2>1 DEF Kept, Moved, HandLeft, EnergyLeft, LifeLeft, LedgerKeys
  <2> QED BY <2>2 DEF t
<1>4. ASSUME v \in Nat PROVE Kept(Moved(l, 0, v - st.energy_you, 0), [st EXCEPT !.energy_you = v])
  <2> DEFINE t == [st EXCEPT !.energy_you = v]
  <2>1. IsState(t) /\ Follows(st, t) /\ t.event_counters = st.event_counters /\ t.energy_you = v
        /\ t.hand_you = st.hand_you /\ t.life_you = st.life_you /\ t.life_opponent = st.life_opponent
    BY <1>1, <1>4, TotalSet DEF Totals
  <2> HIDE DEF t
  <2>2. Kept(Moved(l, 0, v - st.energy_you, 0), t)
    BY <1>1, <1>2, <2>1 DEF Kept, Moved, HandLeft, EnergyLeft, LifeLeft, LedgerKeys
  <2> QED BY <2>2 DEF t
<1>5. Kept(Moved(l, 0, 0, v - st.life_you), [st EXCEPT !.life_you = v])
  <2> DEFINE t == [st EXCEPT !.life_you = v]
  <2>1. IsState(t) /\ Follows(st, t) /\ t.event_counters = st.event_counters /\ t.life_you = v
        /\ t.hand_you = st.hand_you /\ t.energy_you = st.energy_you /\ t.life_opponent = st.life_opponent
    BY <1>1, TotalSet DEF Totals
  <2> HIDE DEF t
  <2>2. Kept(Moved(l, 0, 0, v - st.life_you), t)
    BY <1>1, <1>2, <2>1 DEF Kept, Moved, HandLeft, EnergyLeft, LifeLeft, LedgerKeys
  <2> QED BY <2>2 DEF t
<1>6. Kept(Moved(l, 0, 0, v - st.life_opponent), [st EXCEPT !.life_opponent = v])
  <2> DEFINE t == [st EXCEPT !.life_opponent = v]
  <2>1. IsState(t) /\ Follows(st, t) /\ t.event_counters = st.event_counters /\ t.life_opponent = v
        /\ t.hand_you = st.hand_you /\ t.energy_you = st.energy_you /\ t.life_you = st.life_you
    BY <1>1, TotalSet DEF Totals
  <2> HIDE DEF t
  <2>2. Kept(Moved(l, 0, 0, v - st.life_opponent), t)
    BY <1>1, <1>2, <2>1 DEF Kept, Moved, HandLeft, EnergyLeft, LifeLeft, LedgerKeys
  <2> QED BY <2>2 DEF t
<1> QED BY <1>3, <1>4, <1>5, <1>6

\* What a count moves.
Counted(l, key, n) ==
  Moved(l, IF key = "draw" THEN -n ELSE IF key = "discard" THEN n ELSE 0,
        IF key = "energy" THEN -n ELSE IF key = "energy_paid" THEN n ELSE 0,
        IF key = "life_gain" THEN -n ELSE IF key = "life_loss" THEN n ELSE 0)
LEMMA CountMoved ==
  ASSUME NEW l, NEW st, Kept(l, st), NEW key \in LedgerKeys, NEW n, n \in Int
  PROVE  Kept(Counted(l, key, n), Bump(st, key, n))
<1> DEFINE t == Bump(st, key, n)
<1>1. IsState(st) /\ IsState(l.start) /\ Follows(l.start, st)
      /\ l.hand = HandLeft(st) /\ l.energy = EnergyLeft(st)
      /\ (~SharedDamage => l.life = LifeLeft(st))
  BY DEF Kept
<1>2. /\ {st.hand_you, st.energy_you, st.life_you, st.life_opponent} \subseteq Int
      /\ \A k \in LedgerKeys : st.event_counters[k] \in Int
  BY <1>1, StateInts
<1>3. t = [st EXCEPT !.event_counters = [st.event_counters EXCEPT ![key] = @ + n]]
  BY DEF Bump
<1> DEFINE counters == [st.event_counters EXCEPT ![key] = @ + n]
<1>4. counters \in [EventKeys -> Int] /\ counters[key] = st.event_counters[key] + n
      /\ \A k \in LedgerKeys : k # key => counters[k] = st.event_counters[k]
  BY <1>1, <1>2, KeysAreEvents DEF IsState
<1> HIDE DEF t, counters
<1>5. "event_counters" \in StateFields
  BY DEF StateFields
<1>6. DOMAIN t = StateFields /\ t.event_counters = counters
      /\ \A g \in StateFields : g # "event_counters" => t[g] = st[g]
  BY <1>1, <1>3, <1>5, FieldSet DEF IsState, counters
<1>7. /\ t.order = st.order /\ t.permanents = st.permanents
      /\ t.library_you = st.library_you /\ t.library_opponent = st.library_opponent
      /\ t.graveyard_opponent = st.graveyard_opponent /\ t.token_seq = st.token_seq
      /\ t.mana = st.mana /\ t.mana_activate_only = st.mana_activate_only
  BY <1>6 DEF StateFields
<1>8. /\ t.last_sacrificed_power = st.last_sacrificed_power
      /\ t.pending_triggers = st.pending_triggers
      /\ t.hand_you = st.hand_you /\ t.energy_you = st.energy_you
      /\ t.life_you = st.life_you /\ t.life_opponent = st.life_opponent
  BY <1>6 DEF StateFields
<1>9. Ids(t) = Ids(st)
  BY <1>7 DEF Ids
<1>10. IsState(t)
  BY <1>1, <1>4, <1>6, <1>7, <1>8, <1>9 DEF IsState
<1>11. \A k \in LedgerKeys : t.event_counters[k] = IF k = key THEN st.event_counters[k] + n
                                                           ELSE st.event_counters[k]
  BY <1>4, <1>6
<1>12. Counted(l, key, n).hand = HandLeft(t)
  BY <1>1, <1>2, <1>8, <1>11 DEF Counted, Moved, HandLeft, LedgerKeys
<1>13. Counted(l, key, n).energy = EnergyLeft(t)
  BY <1>1, <1>2, <1>8, <1>11 DEF Counted, Moved, EnergyLeft, LedgerKeys
<1>14. ~SharedDamage => Counted(l, key, n).life = LifeLeft(t)
  BY <1>1, <1>2, <1>8, <1>11 DEF Counted, Moved, LifeLeft, LedgerKeys
<1>15. Counted(l, key, n).start = l.start
  BY DEF Counted, Moved
<1>16. Follows(l.start, t)
  BY <1>1, <1>7, <1>10, SameFollows, FollowsOn
<1> QED BY <1>1, <1>10, <1>12, <1>13, <1>14, <1>15, <1>16 DEF Kept, t

\* What was moved and moved back.
LEMMA Balanced ==
  ASSUME NEW l, NEW st, Kept(l, st), NEW t, NEW a, NEW b, NEW c, NEW d, NEW e, NEW f,
         {a, b, c, d, e, f} \subseteq Int, a + d = 0, b + e = 0, c + f = 0,
         Kept(Moved(Moved(l, a, b, c), d, e, f), t)
  PROVE  Kept(l, t)
<1>1. l.hand \in Int /\ l.energy \in Int /\ (~SharedDamage => l.life \in Int)
  BY StateInts DEF Kept, HandLeft, EnergyLeft, LifeLeft, LedgerKeys
<1> QED BY <1>1 DEF Kept, Moved

LEMMA SomeInt == ASSUME NEW n, n \in Int PROVE Some(n) \subseteq Int /\ None \subseteq Int
  BY DEF Some, None

LEMMA MovedStart ==
  ASSUME NEW l, NEW hand, NEW energy, NEW life PROVE Moved(l, hand, energy, life).start = l.start
  BY DEF Moved

LEMMA OpponentLosesKept ==
  ASSUME NEW l, NEW st, Kept(l, st), NEW source \in Ids(l.start), NEW lost, lost \in Int
  PROVE  Kept(l, OpponentLoses(st, source, lost))
<1> DEFINE v == st.life_opponent - lost
           moved == Moved(l, 0, 0, v - st.life_opponent)
           s1 == [st EXCEPT !.life_opponent = v]
           s2 == QueueTriggers(s1, "opponent_lose_life", source, Some(lost))
<1>1. st.life_opponent \in Int
  BY StateInts DEF Kept
<1>0. v \in Int
  BY <1>1
<1>2. v - st.life_opponent \in Int /\ (v - st.life_opponent) + lost = 0
  BY <1>1
<1> HIDE DEF v
<1>3. Kept(moved, s1)
  BY <1>0, TotalMoved, Zenon
<1>8. moved.start = l.start
  BY MovedStart
<1> HIDE DEF moved, s1
<1>4. Kept(moved, s2)
  BY <1>3, <1>8, Present, SomeInt, TriggersKept
<1> HIDE DEF s2
<1>5. Kept(Counted(moved, "life_loss", lost), Bump(s2, "life_loss", lost))
  BY <1>4, CountMoved DEF LedgerKeys
<1>6. Kept(Moved(moved, 0, 0, lost), Bump(s2, "life_loss", lost))
  BY <1>5 DEF Counted
<1>7. Kept(l, Bump(s2, "life_loss", lost))
  BY <1>2, <1>6, Balanced DEF moved
<1> QED BY <1>7 DEF OpponentLoses, s2, s1, v

LEMMA LoseOpponentLifeKept ==
  ASSUME NEW l, NEW st, Kept(l, st), NEW source \in Ids(l.start), NEW n, n \in Int
  PROVE  Kept(l, LoseOpponentLife(st, source, n))
<1>1. SupportedMultiplier(st, "replacement_double_opponent_life_loss") \in Int
  BY SupportedMultiplierPositive DEF Kept, IsState, Multiplying
<1>2. n * OpponentLossMultiplier(st) \in Int
  BY <1>1 DEF OpponentLossMultiplier
<1> QED BY <1>2, OpponentLosesKept DEF LoseOpponentLife

LEMMA YouGainKept ==
  ASSUME NEW l, NEW st, Kept(l, st), NEW source \in Ids(l.start), NEW gained, gained \in Int
  PROVE  Kept(l, YouGain(st, source, gained))
<1> DEFINE v == st.life_you + gained
           moved == Moved(l, 0, 0, v - st.life_you)
           s1 == [st EXCEPT !.life_you = v]
           s2 == Bump(s1, "life_gain", gained)
<1>1. st.life_you \in Int
  BY StateInts DEF Kept
<1>0. v \in Int
  BY <1>1
<1>2. v - st.life_you \in Int /\ -gained \in Int /\ (v - st.life_you) + -gained = 0
  BY <1>1
<1> HIDE DEF v
<1>3. Kept(moved, s1)
  BY <1>0, TotalMoved, Zenon
<1> HIDE DEF moved, s1
<1>4. Kept(Counted(moved, "life_gain", gained), s2)
  BY <1>3, CountMoved DEF LedgerKeys
<1> HIDE DEF s2
<1>5. Kept(Moved(moved, 0, 0, -gained), s2)
  BY <1>4 DEF Counted
<1>6. Kept(l, s2)
  BY <1>2, <1>5, Balanced DEF moved
<1>7. Kept(l, QueueTriggers(s2, "gain_life", source, Some(gained)))
  BY <1>6, Present, SomeInt, TriggersKept
<1> QED BY <1>7 DEF YouGain, s2, s1, v

LEMMA GainYourLifeKept ==
  ASSUME NEW l, NEW st, Kept(l, st), NEW source \in Ids(l.start), NEW n, n \in Int
  PROVE  Kept(l, GainYourLife(st, source, n))
<1>1. SupportedMultiplier(st, "replacement_double_life_gain") \in Int
  BY SupportedMultiplierPositive DEF Kept, IsState, Multiplying
<1>2. n * SupportedMultiplier(st, "replacement_double_life_gain") \in Int
  BY <1>1
<1> QED BY <1>2, YouGainKept DEF GainYourLife

\* You lose life: to an effect or to a cost.
LEMMA YouLoseKept ==
  ASSUME NEW l, NEW st, Kept(l, st), NEW n, n \in Int
  PROVE  Kept(l, Bump([st EXCEPT !.life_you = @ - n], "life_loss", n))
<1> DEFINE v == st.life_you - n
           moved == Moved(l, 0, 0, v - st.life_you)
           s1 == [st EXCEPT !.life_you = v]
<1>1. st.life_you \in Int
  BY StateInts DEF Kept
<1>0. v \in Int
  BY <1>1
<1>2. v - st.life_you \in Int /\ (v - st.life_you) + n = 0
  BY <1>1
<1> HIDE DEF v
<1>3. Kept(moved, s1)
  BY <1>0, TotalMoved, Zenon
<1> HIDE DEF moved, s1
<1>4. Kept(Counted(moved, "life_loss", n), Bump(s1, "life_loss", n))
  BY <1>3, CountMoved DEF LedgerKeys
<1>5. Kept(Moved(moved, 0, 0, n), Bump(s1, "life_loss", n))
  BY <1>4 DEF Counted
<1>6. Kept(l, Bump(s1, "life_loss", n))
  BY <1>2, <1>5, Balanced DEF moved
<1> QED BY <1>6 DEF s1, v

\* Damage to each player takes life that only one count records.
LEMMA BothHurtKept ==
  ASSUME NEW l, NEW st, Kept(l, st), SharedDamage, NEW n, n \in Int
  PROVE  Kept(l, [st EXCEPT !.life_you = @ - n])
<1>1. st.life_you \in Int
  BY StateInts DEF Kept
<1> DEFINE v == st.life_you - n
<1>2. v \in Int
  BY <1>1
<1> HIDE DEF v
<1>3. Kept(Moved(l, 0, 0, v - st.life_you), [st EXCEPT !.life_you = v])
  BY <1>2, TotalMoved, Zenon
<1>4. l.hand \in Int /\ l.energy \in Int
  BY StateInts DEF Kept, HandLeft, EnergyLeft, LedgerKeys
<1>5. Kept(l, [st EXCEPT !.life_you = v])
  BY <1>3, <1>4 DEF Kept, Moved
<1> QED BY <1>5 DEF v

LEMMA DrawOneKept ==
  ASSUME NEW l, NEW st, Kept(l, st), NEW source \in Ids(l.start) PROVE Kept(l, DrawOne(st, source))
<1> DEFINE v == st.hand_you + 1
           moved == Moved(l, v - st.hand_you, 0, 0)
           s1 == [st EXCEPT !.hand_you = v]
           s2 == Bump(s1, "draw", 1)
<1>1. st.hand_you \in Nat
  BY DEF Kept, IsState
<1>0. v \in Nat /\ v \in Int
  BY <1>1
<1>2. v - st.hand_you \in Int /\ (v - st.hand_you) + -1 = 0
  BY <1>1
<1> HIDE DEF v
<1>3. Kept(moved, s1)
  BY <1>0, TotalMoved, Zenon
<1> HIDE DEF moved, s1
<1>4. Kept(Counted(moved, "draw", 1), s2)
  BY <1>3, CountMoved DEF LedgerKeys
<1> HIDE DEF s2
<1>5. Kept(Moved(moved, -1, 0, 0), s2)
  BY <1>4 DEF Counted
<1>6. Kept(l, s2)
  BY <1>2, <1>5, Balanced DEF moved
<1>7. Kept(l, QueueTriggers(s2, "draw", source, Some(1)))
  BY <1>6, Present, SomeInt, TriggersKept
<1> QED BY <1>7 DEF DrawOne, s2, s1, v

LEMMA DiscardKept ==
  ASSUME NEW l, NEW st, Kept(l, st), NEW n, n \in Nat, n <= st.hand_you
  PROVE  Kept(l, Bump([st EXCEPT !.hand_you = @ - n], "discard", n))
<1> DEFINE v == st.hand_you - n
           moved == Moved(l, v - st.hand_you, 0, 0)
           s1 == [st EXCEPT !.hand_you = v]
<1>1. st.hand_you \in Nat
  BY DEF Kept, IsState
<1>0. v \in Nat /\ v \in Int
  BY <1>1
<1>2. v - st.hand_you \in Int /\ (v - st.hand_you) + n = 0
  BY <1>1
<1> HIDE DEF v
<1>3. Kept(moved, s1)
  BY <1>0, TotalMoved, Zenon
<1> HIDE DEF moved, s1
<1>4. Kept(Counted(moved, "discard", n), Bump(s1, "discard", n))
  BY <1>3, CountMoved DEF LedgerKeys
<1>5. Kept(Moved(moved, n, 0, 0), Bump(s1, "discard", n))
  BY <1>4 DEF Counted
<1>6. Kept(l, Bump(s1, "discard", n))
  BY <1>2, <1>5, Balanced DEF moved
<1> QED BY <1>6 DEF s1, v

LEMMA EnergyKept ==
  ASSUME NEW l, NEW st, Kept(l, st), NEW n, n \in Nat
  PROVE  /\ Kept(l, Bump([st EXCEPT !.energy_you = @ + n], "energy", n))
         /\ n <= st.energy_you => Kept(l, Bump([st EXCEPT !.energy_you = @ - n], "energy_paid", n))
<1>1. st.energy_you \in Nat
  BY DEF Kept, IsState
<1>2. Kept(l, Bump([st EXCEPT !.energy_you = @ + n], "energy", n))
  <2> DEFINE v == st.energy_you + n
             moved == Moved(l, 0, v - st.energy_you, 0)
             s1 == [st EXCEPT !.energy_you = v]
  <2>0. v \in Nat /\ v \in Int
    BY <1>1
  <2>2. v - st.energy_you \in Int /\ -n \in Int /\ (v - st.energy_you) + -n = 0
    BY <1>1
  <2> HIDE DEF v
  <2>3. Kept(moved, s1)
    BY <2>0, TotalMoved, Zenon
  <2> HIDE DEF moved, s1
  <2>4. Kept(Counted(moved, "energy", n), Bump(s1, "energy", n))
    BY <2>3, CountMoved DEF LedgerKeys
  <2>5. Kept(Moved(moved, 0, -n, 0), Bump(s1, "energy", n))
    BY <2>4 DEF Counted
  <2>6. Kept(l, Bump(s1, "energy", n))
    BY <2>2, <2>5, Balanced DEF moved
  <2> QED BY <2>6 DEF s1, v
<1>3. ASSUME n <= st.energy_you
      PROVE  Kept(l, Bump([st EXCEPT !.energy_you = @ - n], "energy_paid", n))
  <2> DEFINE v == st.energy_you - n
             moved == Moved(l, 0, v - st.energy_you, 0)
             s1 == [st EXCEPT !.energy_you = v]
  <2>0. v \in Nat /\ v \in Int
    BY <1>1, <1>3
  <2>2. v - st.energy_you \in Int /\ (v - st.energy_you) + n = 0
    BY <1>1, <1>3
  <2> HIDE DEF v
  <2>3. Kept(moved, s1)
    BY <2>0, TotalMoved, Zenon
  <2> HIDE DEF moved, s1
  <2>4. Kept(Counted(moved, "energy_paid", n), Bump(s1, "energy_paid", n))
    BY <2>3, CountMoved DEF LedgerKeys
  <2>5. Kept(Moved(moved, 0, n, 0), Bump(s1, "energy_paid", n))
    BY <2>4 DEF Counted
  <2>6. Kept(l, Bump(s1, "energy_paid", n))
    BY <2>2, <2>5, Balanced DEF moved
  <2> QED BY <2>6 DEF s1, v
<1> QED BY <1>2, <1>3

-----------------------------------------------------------------------------
(* Effects.  In the context of a resolution the source is on the books and  *)
(* the amount is an integer; an effect is fit when it is one of the schema  *)
(* and does not damage both players unless some card does.                  *)
InContext(l, c) ==
  /\ DOMAIN c = {"source", "target", "subject", "amount"}
  /\ c.source \in Ids(l.start) /\ c.amount \subseteq Int
Fit(e) == IsEffect(e) /\ (HurtsBoth(e) => SharedDamage)
KeptBy(c, st) == Kept(c.l, st)

LEMMA OkKept == ASSUME NEW l, NEW st, Kept(l, st), NEW error PROVE Kept(l, Ok(st).st) /\ Kept(l, Err(st, error).st)
  BY DEF Ok, Err
LEMMA IllegalKept ==
  ASSUME NEW l, NEW st, Kept(l, st), NEW ok, NEW r, ok => Kept(l, r.st)
  PROVE  Kept(l, Illegal(st, ok, r).st)
  BY DEF Illegal, Err
LEMMA SourceIn ==
  ASSUME NEW l, NEW st, Kept(l, st), NEW c, InContext(l, c)
  PROVE  IsState(st) /\ IsFiniteSet(Ids(st)) /\ c.source \in Ids(st) /\ IsPermanent(st.permanents[c.source])
<1>1. c.source \in Ids(l.start) /\ IsState(st)
  BY DEF InContext, Kept
<1>2. c.source \in Ids(st)
  BY <1>1, Present
<1> QED BY <1>1, <1>2 DEF IsState
LEMMA PlainKeys ==
  {"mana", "token", "counter", "counter_added", "damage", "mill", "etb", "death", "sacrifice", "cast",
   "spell_copy", "untap", "tap", "exile", "return_to_battlefield", "return_from_gy", "become_copy",
   "ability_copy", "imprint", "fight", "extra_combat", "extra_turn", "loyalty", "loyalty_paid",
   "bounce"} \subseteq EventKeys \ LedgerKeys
<1>1. \A i \in 1..31 : EventOrder[i] \in EventKeys
  BY DEF EventKeys, ToSet, EventOrder
<1> QED BY <1>1 DEF EventOrder, LedgerKeys

\* Mana
LEMMA PoolKept ==
  ASSUME NEW l, NEW st, Kept(l, st), NEW v \in ManaAmount
  PROVE  Kept(l, [st EXCEPT !.mana = v]) /\ Kept(l, [st EXCEPT !.mana_activate_only = v])
<1>1. {"mana", "mana_activate_only"} \subseteq StateFields
      /\ Harmless(st, "mana", v) /\ Harmless(st, "mana_activate_only", v)
  BY DEF StateFields, Harmless
<1> QED BY <1>1, FieldKept
LEMMA CreditKept ==
  ASSUME NEW l, NEW st, Kept(l, st), NEW e, NEW color, NEW n, n \in Int
  PROVE  Kept(l, CreditMana(st, e, color, n))
<1>1. CASE n <= 0
  BY <1>1 DEF CreditMana
<1>2. CASE ~(n <= 0)
  <2>0. \A pool \in ManaAmount : [pool EXCEPT ![color] = @ + n] \in ManaAmount
    <3> SUFFICES ASSUME NEW pool \in ManaAmount PROVE [pool EXCEPT ![color] = @ + n] \in ManaAmount
      OBVIOUS
    <3>1. DOMAIN pool = Fields /\ \A f \in Fields : pool[f] \in Nat
      BY DEF ManaAmount
    <3>2. CASE color \in Fields
      <4>1. pool[color] + n \in Nat
        BY <1>2, <3>1, <3>2
      <4> QED BY <4>1 DEF ManaAmount
    <3>3. CASE color \notin Fields
      <4> DEFINE v == pool[color] + n
      <4> HIDE DEF v
      <4>1. [pool EXCEPT ![color] = v] \in ManaAmount
        BY <3>3 DEF ManaAmount
      <4> QED BY <4>1 DEF v
    <3> QED BY <3>2, <3>3
  <2>1. /\ [st.mana EXCEPT ![color] = @ + n] \in ManaAmount
        /\ [st.mana_activate_only EXCEPT ![color] = @ + n] \in ManaAmount
    BY <2>0 DEF Kept, IsState
  <2>2. /\ Kept(l, [st EXCEPT !.mana[color] = @ + n])
        /\ Kept(l, [st EXCEPT !.mana_activate_only[color] = @ + n])
    BY <2>1, PoolKept
  <2>3. "mana" \in EventKeys \ LedgerKeys
    BY PlainKeys
  <2>4. /\ Kept(l, Bump([st EXCEPT !.mana[color] = @ + n], "mana", n))
        /\ Kept(l, Bump([st EXCEPT !.mana_activate_only[color] = @ + n], "mana", n))
    BY <2>2, <2>3, BumpKept
  <2> QED BY <1>2, <2>4 DEF CreditMana
<1> QED BY <1>1, <1>2

CreditStep(c, s, color) == CreditMana(s, c.e, color, c.n)
EachColor == INSTANCE FoldFacts WITH Op <- CreditStep, P <- KeptBy
CreditField(c, s, field) == CreditMana(s, c.e, field, c.e.amount[field] * c.n)
EachField == INSTANCE FoldFacts WITH Op <- CreditField, P <- KeptBy
LEMMA CreditFolds ==
  ASSUME NEW c, NEW st, NEW seq
  PROVE  /\ CreditEach(st, c.e, seq, c.n) = EachColor!Fold(c, st, seq)
         /\ CreditAmounts(st, c.e, c.n) = EachField!Fold(c, st, FieldOrder)
<1>1. CreditEach(st, c.e, seq, c.n) = EachColor!Fold(c, st, seq)
  BY Zenon DEF CreditEach, CreditStep, FoldLeft, MapThenFoldSet, Max,
     EachColor!Fold, EachColor!LastOf
<1>2. CreditAmounts(st, c.e, c.n) = EachField!Fold(c, st, FieldOrder)
  BY Zenon DEF CreditAmounts, CreditField, FoldLeft, MapThenFoldSet, Max,
     EachField!Fold, EachField!LastOf
<1> QED BY <1>1, <1>2
LEMMA FieldList == IsSequence(FieldOrder) /\ \A i \in DOMAIN FieldOrder : FieldOrder[i] \in Fields
<1>1. FieldOrder \in Seq(Fields)
  BY DEF FieldOrder, Fields, Pips, WUBRG
<1> HIDE DEF FieldOrder
<1> QED BY <1>1, ListOfElements
LEMMA CreditEachKept ==
  ASSUME NEW l, NEW st, Kept(l, st), NEW e, NEW seq, IsSequence(seq), NEW n, n \in Int
  PROVE  /\ Kept(l, CreditEach(st, e, seq, n))
         /\ e.amount \in ManaAmount => Kept(l, CreditAmounts(st, e, n))
<1> DEFINE d == [l |-> l, e |-> e, n |-> n]
<1>1. d.l = l /\ d.e = e /\ d.n = n
  OBVIOUS
<1> HIDE DEF d
<1>2. KeptBy(d, st)
  BY <1>1 DEF KeptBy
<1>3. Kept(l, CreditEach(st, e, seq, n))
  <2>1. ASSUME NEW s, NEW i \in DOMAIN seq, KeptBy(d, s) PROVE KeptBy(d, CreditStep(d, s, seq[i]))
    BY <1>1, <2>1, CreditKept DEF KeptBy, CreditStep
  <2>2. KeptBy(d, EachColor!Fold(d, st, seq))
    BY <1>2, <2>1, ListIndices, NatSets, EachColor!FoldInvariant
  <2>3. CreditEach(st, e, seq, n) = EachColor!Fold(d, st, seq)
    BY <1>1, CreditFolds
  <2> QED BY <1>1, <2>2, <2>3 DEF KeptBy
<1>4. ASSUME e.amount \in ManaAmount PROVE Kept(l, CreditAmounts(st, e, n))
  <2>1. ASSUME NEW s, NEW i \in DOMAIN FieldOrder, KeptBy(d, s)
        PROVE  KeptBy(d, CreditField(d, s, FieldOrder[i]))
    <3>1. e.amount[FieldOrder[i]] \in Int
      BY <1>4, FieldList DEF ManaAmount
    <3>2. e.amount[FieldOrder[i]] * n \in Int
      BY <3>1
    <3> QED BY <1>1, <2>1, <3>2, CreditKept DEF KeptBy, CreditField
  <2>2. KeptBy(d, EachField!Fold(d, st, FieldOrder))
    BY <1>2, <2>1, FieldList, ListIndices, NatSets, EachField!FoldInvariant
  <2>3. CreditAmounts(st, e, n) = EachField!Fold(d, st, FieldOrder)
    BY <1>1, CreditFolds
  <2> QED BY <1>1, <2>2, <2>3 DEF KeptBy
<1> QED BY <1>3, <1>4

LEMMA ManaQuantityInt ==
  ASSUME NEW st, IsState(st), NEW e, e.kind = "add_mana", IsEffect(e), NEW source, source \in Ids(st),
         e.from \notin {"amount", "vivid_permanent_colors", "controlled_sharing_creature_type"}
  PROVE  ManaQuantity(st, e, source) \in Int
<1>1. e.scale_multiplier \in Int
      /\ e.from \in {"source_power", "source_p1p1", "source_charge"} \cup
           (ManaScales \ {"vivid_permanent_colors", "controlled_sharing_creature_type"})
  BY DEF IsEffect, AmountSources
<1>2. Greatest({1, e.scale_multiplier}) \in Int
  <2>1. 1 \in Int
    OBVIOUS
  <2> QED BY <1>1, <2>1, GreatestOfTwo
<1>3. CASE e.from \in {"source_power", "source_p1p1", "source_charge"}
  <2>1. PowerOf(st, st.permanents[source]) \in Int
    BY PowerInt
  <2>2. \A kind : Counters(st.permanents[source], kind) \in Int
    BY PTTypes DEF IsState
  <2> QED BY <1>3, <2>1, <2>2 DEF ManaQuantity
<1>4. CASE e.from \notin {"source_power", "source_p1p1", "source_charge"}
  <2>1. ScaledManaQuantity(st, e.from, source) \in Int
    BY <1>1, <1>4, ScaledInt
  <2>2. ScaledManaQuantity(st, e.from, source) * Greatest({1, e.scale_multiplier}) \in Int
    BY <1>2, <2>1
  <2> QED BY <1>4, <2>2 DEF ManaQuantity
<1> QED BY <1>3, <1>4

LEMMA AddManaKept ==
  ASSUME NEW l, NEW st, Kept(l, st), NEW e, e.kind = "add_mana", IsEffect(e),
         NEW c, InContext(l, c)
  PROVE  Kept(l, AddMana(st, e, c).st)
<1>1. IsState(st) /\ IsFiniteSet(Ids(st)) /\ c.source \in Ids(st)
  BY SourceIn
<1> DEFINE mult == IF st.permanents[c.source].tapped
                   THEN PlainMultiplier(st, "replacement_multiply_tap_mana") ELSE 1
<1>2. mult \in Int
  BY <1>1, PlainMultiplierInt DEF Multiplying
<1>3. AddMana(st, e, c) = AddManaTimes(st, e, c, mult)
  BY DEF AddMana
<1> HIDE DEF mult
<1>6. CASE e.from = "vivid_permanent_colors"
  <2> DEFINE seq == Those(FieldOrder, VividColors(st))
  <2>1. IsSequence(seq)
    BY FieldList, ThoseList, ListOfElements
  <2>2. AddManaTimes(st, e, c, mult) = Ok(CreditEach(st, e, seq, mult))
    BY <1>6 DEF AddManaTimes
  <2> HIDE DEF seq
  <2> QED BY <1>2, <1>3, <2>1, <2>2, CreditEachKept DEF Ok
<1>7. CASE e.from = "amount"
  <2>1. e.amount \in ManaAmount
    BY DEF IsEffect
  <2>2. AddManaTimes(st, e, c, mult) = Ok(CreditAmounts(st, e, mult))
    BY <1>7 DEF AddManaTimes
  <2> QED BY <1>2, <1>3, <2>1, <2>2, FieldList, CreditEachKept DEF Ok
<1>8. CASE e.from = "controlled_sharing_creature_type"
  <2> DEFINE n == Cardinality(Sharing(st, CreatureSubtypes(st.permanents[c.subject])))
  <2>1. n \in Int
    BY <1>1, CountIds, YoursAreIds DEF Sharing
  <2> HIDE DEF n
  <2>2. Kept(l, Ok(CreditMana(st, e, e.scale_color, n)).st)
    BY <2>1, CreditKept DEF Ok
  <2>3. AddManaTimes(st, e, c, mult)
          = Illegal(st, Exists(st, c.subject), Ok(CreditMana(st, e, e.scale_color, n)))
    BY <1>8 DEF AddManaTimes, n
  <2> QED BY <1>3, <2>2, <2>3, IllegalKept
<1>9. CASE e.from \notin {"amount", "vivid_permanent_colors", "controlled_sharing_creature_type"}
  <2> DEFINE n == ManaQuantity(st, e, c.source)
  <2>1. n \in Int
    BY <1>1, <1>9, ManaQuantityInt
  <2> HIDE DEF n
  <2>2. AddManaTimes(st, e, c, mult) = Ok(CreditMana(st, e, e.scale_color, NonNegative(n) * mult))
    BY <1>9 DEF AddManaTimes, n
  <2>3. NonNegative(n) * mult \in Int
    BY <1>2, <2>1 DEF NonNegative
  <2> QED BY <1>3, <2>2, <2>3, CreditKept DEF Ok
<1> QED BY <1>6, <1>7, <1>8, <1>9

\* Untapping and tapping
LEMMA ListConcat ==
  ASSUME NEW q, NEW r, IsSequence(q), IsSequence(r) PROVE IsSequence(q \o r)
<1> DEFINE S == {q[i] : i \in DOMAIN q} \cup {r[i] : i \in DOMAIN r}
<1>1. (\A i \in DOMAIN q : q[i] \in S) /\ (\A i \in DOMAIN r : r[i] \in S)
  OBVIOUS
<1> HIDE DEF S
<1>2. q \in Seq(S) /\ r \in Seq(S)
  BY <1>1, ElementsOfList
<1>3. q \o r \in Seq(S)
  BY <1>2
<1> QED BY <1>3, ListOfElements, Zenon
LEMMA InOrderLists ==
  ASSUME NEW S
  PROVE  /\ IsSequence(InStringOrder(S))
         /\ \A s : IsSequence(s) => IsSequence(Those(s, S))
<1>1. \A s : IsSequence(s) => IsSequence(Those(s, S))
  BY ThoseList, ListOfElements
<1> QED BY <1>1, IdsAssumption DEF InStringOrder

UntapStep(c, s, id) == Untap(s, id)
EachUntap == INSTANCE FoldFacts WITH Op <- UntapStep, P <- KeptBy
LEMMA UntapFold ==
  ASSUME NEW c, NEW st, NEW ids PROVE UntapInTurn(st, ids) = EachUntap!Fold(c, st, ids)
  BY Zenon DEF UntapInTurn, UntapStep, FoldLeft, MapThenFoldSet, Max,
     EachUntap!Fold, EachUntap!LastOf
LEMMA UntapInTurnKept ==
  ASSUME NEW l, NEW st, Kept(l, st), NEW ids \in Seq(Ids(st)) PROVE Kept(l, UntapInTurn(st, ids))
<1>0. PICK m : /\ m.start = st /\ Kept(m, st)
               /\ \A t : Kept(m, t) => Kept(l, t) /\ Follows(st, t)
  BY BooksNow
<1> DEFINE d == [l |-> m]
<1>1. d.l = m
  OBVIOUS
<1> HIDE DEF d
<1>2. KeptBy(d, st)
  BY <1>0, <1>1 DEF KeptBy
<1>3. ASSUME NEW s, NEW i \in DOMAIN ids, KeptBy(d, s) PROVE KeptBy(d, UntapStep(d, s, ids[i]))
  <2>1. Kept(m, s)
    BY <1>1, <1>3 DEF KeptBy
  <2>2. ids[i] \in Ids(s)
    BY <1>0, <2>1, ListOfElements, Present
  <2> QED BY <1>1, <2>1, <2>2, UntapKept DEF KeptBy, UntapStep
<1>4. KeptBy(d, EachUntap!Fold(d, st, ids))
  BY <1>2, <1>3, ListOfElements, NatSets, EachUntap!FoldInvariant
<1> QED BY <1>0, <1>1, <1>4, UntapFold DEF KeptBy
LEMMA BumpPositiveKept ==
  ASSUME NEW l, NEW st, Kept(l, st), NEW key, key \in EventKeys \ LedgerKeys, NEW n, n \in Int
  PROVE  Kept(l, BumpIfPositive(st, key, n))
  BY BumpKept DEF BumpIfPositive
LEMMA UntapEachKept ==
  ASSUME NEW l, NEW st, Kept(l, st), NEW ids \in Seq(Ids(st)) PROVE Kept(l, UntapEach(st, ids))
<1> DEFINE n == Cardinality({i \in DOMAIN ids : st.permanents[ids[i]].tapped})
<1>1. IsFiniteSet(DOMAIN ids) /\ {i \in DOMAIN ids : st.permanents[ids[i]].tapped} \subseteq DOMAIN ids
  BY ListOfElements, FiniteElements
<1>2. n \in Int
  BY <1>1, CountInt
<1>3. UntapEach(st, ids) = BumpIfPositive(UntapInTurn(st, ids), "untap", n)
  BY DEF UntapEach
<1> HIDE DEF n
<1> QED BY <1>2, <1>3, UntapInTurnKept, BumpPositiveKept, PlainKeys
LEMMA FirstOfList ==
  ASSUME NEW S, NEW ids \in Seq(S), NEW quantity, quantity \subseteq Int
  PROVE  SubSeq(ids, 1, Least(NonNegative(OrElse(quantity, Len(ids))), Len(ids))) \in Seq(S)
<1> DEFINE m == OrElse(quantity, Len(ids))
           n == Least(NonNegative(m), Len(ids))
<1>1. Len(ids) \in Nat
  OBVIOUS
<1>2. m \in Int
  <2>1. Len(ids) \in Int
    BY <1>1
  <2> QED BY <2>1, OrElseInt, Zenon
<1> HIDE DEF m
<1>3. n \in Nat /\ n <= Len(ids)
  BY <1>1, <1>2 DEF Least, NonNegative
<1> HIDE DEF n
<1>4. SubSeq(ids, 1, n) \in Seq(S)
  BY <1>1, <1>3
<1> QED BY <1>4 DEF n, m
\* Lists of the objects of a set, in the order of the dictionary or of their names.
LEMMA ListsOf ==
  ASSUME NEW st, IsState(st), NEW S, NEW T, S \subseteq T
  PROVE  InStringOrder(S) \in Seq(T) /\ Those(st.order, S) \in Seq(T)
<1>1. InStringOrder(S) \in Seq(S) /\ Those(st.order, S) \in Seq(S)
  BY IdsAssumption, ThoseList DEF IsState, InStringOrder
<1> HIDE DEF InStringOrder
<1>2. \A s : s \in Seq(S) => s \in Seq(T)
  OBVIOUS
<1> QED BY <1>1, <1>2
LEMMA UntapEffectKept ==
  ASSUME NEW l, NEW st, Kept(l, st), NEW e, e.kind = "untap", IsEffect(e), NEW c
  PROVE  Kept(l, ApplyUntap(st, e, c).st)
<1>0. IsState(st)
  BY DEF Kept
<1>1. CASE e.target = "all_creatures"
  <2> DEFINE creatures == Those(st.order, {id \in Ids(st) : /\ OnBattlefield(st.permanents[id])
                                                            /\ st.permanents[id].is_creature})
  <2>1. creatures \in Seq(Ids(st))
    BY <1>0, ListsOf
  <2>2. UntapAllCreatures(st) = BumpIfPositive(UntapInTurn(st, creatures), "untap", Len(creatures))
    BY DEF UntapAllCreatures
  <2> HIDE DEF creatures
  <2>3. Len(creatures) \in Int
    BY <2>1
  <2>4. Kept(l, UntapAllCreatures(st))
    BY <2>1, <2>2, <2>3, UntapInTurnKept, BumpPositiveKept, PlainKeys
  <2> QED BY <1>1, <2>4 DEF ApplyUntap, Ok
<1>2. CASE e.target = "controlled_lands"
  <2> DEFINE lands == {id \in Yours(st) : IsLand(st, st.permanents[id])}
             tapped == {id \in lands : st.permanents[id].tapped}
             ids == InStringOrder(tapped) \o InStringOrder(lands \ tapped)
  <2>0. tapped \subseteq Ids(st) /\ lands \ tapped \subseteq Ids(st)
    BY YoursAreIds
  <2> HIDE DEF lands, tapped
  <2>1. ids \in Seq(Ids(st))
    BY <1>0, <2>0, ListsOf, ConcatProperties
  <2> USE DEF lands, tapped
  <2>2. UntapLands(st, e) = UntapFirst(st, ids, e.quantity)
    BY DEF UntapLands
  <2> HIDE DEF ids
  <2>3. Kept(l, UntapFirst(st, ids, e.quantity))
    BY <2>1, FirstOfList, UntapEachKept DEF UntapFirst, IsEffect
  <2> QED BY <1>2, <2>2, <2>3 DEF ApplyUntap, Ok
<1>3. CASE e.target = "controlled_nonlands"
  <2>0. {id \in Yours(st) : ~IsLand(st, st.permanents[id])} \subseteq Ids(st)
    BY YoursAreIds
  <2>1. Kept(l, UntapNonlands(st))
    BY <1>0, <2>0, ListsOf, UntapEachKept DEF UntapNonlands
  <2> QED BY <1>3, <2>1 DEF ApplyUntap, Ok
<1>4. CASE e.target \notin {"all_creatures", "controlled_lands", "controlled_nonlands"}
  <2> DEFINE id == IF e.target = "self" THEN c.source ELSE c.target
  <2>1. ApplyUntap(st, e, c) = Illegal(st, Exists(st, id) /\ MayUntap(st, e, id),
                                       Ok(Bump(Untap(st, id), "untap", 1)))
    BY <1>4 DEF ApplyUntap, UntapOne
  <2> HIDE DEF id
  <2>2. Exists(st, id) => Kept(l, Bump(Untap(st, id), "untap", 1))
    BY UntapKept, BumpKept, PlainKeys DEF Exists
  <2> QED BY <2>1, <2>2, IllegalKept DEF Ok
<1> QED BY <1>1, <1>2, <1>3, <1>4
LEMMA TapKept ==
  ASSUME NEW l, NEW st, Kept(l, st), NEW id PROVE Kept(l, [st EXCEPT !.permanents[id].tapped = TRUE])
<1>1. \A p : Fits(p, "tapped", TRUE)
  BY DEF Fits, Flags
<1>2. Kept(l, Flagged(st, id, "tapped", TRUE))
  BY <1>1, FlaggedKept, Zenon
<1> QED BY <1>2, Zenon DEF Flagged
LEMMA TapEffectKept ==
  ASSUME NEW l, NEW st, Kept(l, st), NEW e, NEW c PROVE Kept(l, ApplyTap(st, e, c).st)
<1>1. ASSUME NEW id PROVE Kept(l, Bump([st EXCEPT !.permanents[id].tapped = TRUE], "tap", 1))
  <2>1. Kept(l, [st EXCEPT !.permanents[id].tapped = TRUE])
    BY TapKept
  <2> QED BY <2>1, BumpKept, PlainKeys
<1> QED BY <1>1, IllegalKept DEF ApplyTap, Ok

\* Tokens
LEMMA LongerOrder ==
  ASSUME NEW s, IsSequence(s), NEW x
  PROVE  IsSequence(Append(s, x)) /\ ToSet(Append(s, x)) = ToSet(s) \cup {x}
<1> DEFINE S == {s[i] : i \in DOMAIN s} \cup {x}
<1>1. \A i \in DOMAIN s : s[i] \in S
  OBVIOUS
<1> HIDE DEF S
<1>2. s \in Seq(S)
  BY <1>1, ElementsOfList
<1>3. x \in S
  BY DEF S
<1>4. /\ Append(s, x) \in Seq(S) /\ Len(s) \in Nat /\ DOMAIN s = 1..Len(s)
      /\ DOMAIN Append(s, x) = 1..(Len(s) + 1)
      /\ \A i \in 1..(Len(s) + 1) : Append(s, x)[i] = IF i = Len(s) + 1 THEN x ELSE s[i]
  BY <1>2, <1>3
<1>5. IsSequence(Append(s, x))
  BY <1>4, ListOfElements, Zenon
<1>6. ASSUME NEW y \in ToSet(s) \cup {x} PROVE y \in ToSet(Append(s, x))
  BY <1>4 DEF ToSet
<1>7. ASSUME NEW y \in ToSet(Append(s, x)) PROVE y \in ToSet(s) \cup {x}
  <2>1. PICK i \in 1..(Len(s) + 1) : y = Append(s, x)[i]
    BY <1>4 DEF ToSet
  <2>2. i = Len(s) + 1 \/ i \in 1..Len(s)
    BY <1>4
  <2> QED BY <1>4, <2>1, <2>2 DEF ToSet
<1> QED BY <1>5, <1>6, <1>7
LEMMA NatKept ==
  ASSUME NEW l, NEW st, Kept(l, st), NEW n, n \in Nat
  PROVE  /\ Kept(l, [st EXCEPT !.library_you = n]) /\ Kept(l, [st EXCEPT !.library_opponent = n])
         /\ Kept(l, [st EXCEPT !.graveyard_opponent = n])
<1>1. {"graveyard_opponent", "library_you", "library_opponent"} \subseteq StateFields
      /\ \A f \in {"graveyard_opponent", "library_you", "library_opponent"} : Harmless(st, f, n)
  BY DEF StateFields, Harmless
<1> QED BY <1>1, FieldKept, Zenon

\* A token is put on the board under the next id: a new one, as long as there are any.
TokenMade(st, id, token) ==
  [st EXCEPT !.token_seq = @ + 1, !.order = Append(@, id), !.permanents = Stored(@, id, token)]
LEMMA MadeFields ==
  ASSUME NEW st, IsState(st), NEW id, NEW token
  PROVE  LET t == TokenMade(st, id, token) IN
         /\ t.token_seq = st.token_seq + 1 /\ t.order = Append(st.order, id)
         /\ t.permanents = Stored(st.permanents, id, token)
         /\ DOMAIN t = StateFields
         /\ \A g \in StateFields \ {"token_seq", "order", "permanents"} : t[g] = st[g]
  BY DEF TokenMade, IsState, StateFields
LEMMA NextIdIsNew ==
  ASSUME NEW st, IsState(st), Named(st), st.token_seq + 1 <= Len(TokenIds)
  PROVE  LET id == TokenIds[st.token_seq + 1] IN
         /\ id \notin Ids(st)
         /\ (Ids(st) \cup {id}) \cap ToSet(TokenIds) = {TokenIds[i] : i \in 1..(st.token_seq + 1)}
<1> DEFINE n == st.token_seq
           id == TokenIds[n + 1]
<1>1. n \in Nat /\ Len(TokenIds) \in Nat /\ DOMAIN TokenIds = 1..Len(TokenIds)
      /\ \A i, j \in DOMAIN TokenIds : TokenIds[i] = TokenIds[j] => i = j
  BY TokenSupply DEF IsState, IsInjective
<1>2. Ids(st) \cap ToSet(TokenIds) = {TokenIds[i] : i \in 1..n} /\ n + 1 <= Len(TokenIds)
  BY DEF Named
<1> HIDE DEF n
<1>3. n + 1 \in DOMAIN TokenIds /\ (\A i \in 1..n : i \in DOMAIN TokenIds /\ i # n + 1)
      /\ 1..(n + 1) = 1..n \cup {n + 1}
  BY <1>1, <1>2
<1>4. id \in ToSet(TokenIds)
  BY <1>3 DEF ToSet
<1>5. id \notin {TokenIds[i] : i \in 1..n}
  BY <1>1, <1>3
<1>6. {TokenIds[i] : i \in 1..(n + 1)} = {TokenIds[i] : i \in 1..n} \cup {id}
  BY <1>3
<1> HIDE DEF id
<1>7. id \notin Ids(st) /\ (Ids(st) \cup {id}) \cap ToSet(TokenIds) = {TokenIds[i] : i \in 1..(n + 1)}
  BY <1>2, <1>4, <1>5, <1>6
<1> QED BY <1>7 DEF id, n
LEMMA LongerNamed ==
  ASSUME NEW s, IsSequence(s), IsInjective(s), NEW x, x \notin ToSet(s) PROVE IsInjective(Append(s, x))
<1>1. Len(s) \in Nat /\ DOMAIN s = 1..Len(s)
  BY ListIndices
<1>2. /\ DOMAIN Append(s, x) = 1..(Len(s) + 1)
      /\ \A i \in 1..(Len(s) + 1) : Append(s, x)[i] = IF i = Len(s) + 1 THEN x ELSE s[i]
  <2>1. s \in Seq({s[i] : i \in DOMAIN s} \cup {x})
    BY ElementsOfList
  <2> QED BY <2>1
<1>3. ASSUME NEW i \in 1..(Len(s) + 1), NEW j \in 1..(Len(s) + 1), Append(s, x)[i] = Append(s, x)[j]
      PROVE  i = j
  <2>1. \A k \in 1..(Len(s) + 1) : k = Len(s) + 1 \/ k \in DOMAIN s
    BY <1>1
  <2>2. \A k \in DOMAIN s : s[k] # x /\ k # Len(s) + 1
    BY <1>1 DEF ToSet
  <2>3. CASE i \in DOMAIN s /\ j \in DOMAIN s
    BY <1>2, <1>3, <2>2, <2>3 DEF IsInjective
  <2>4. CASE i = Len(s) + 1 \/ j = Len(s) + 1
    BY <1>2, <1>3, <2>1, <2>2, <2>4
  <2> QED BY <2>1, <2>3, <2>4
<1> QED BY <1>2, <1>3 DEF IsInjective
LEMMA MadeKept ==
  ASSUME NEW l, NEW st, Kept(l, st), NEW token, IsPermanent(token)
  PROVE  Kept(l, TokenMade(st, TokenIds[st.token_seq + 1], token))
<1> DEFINE id == TokenIds[st.token_seq + 1]
           t == TokenMade(st, id, token)
<1>1. IsState(st) /\ st.token_seq \in Nat /\ IsSequence(st.order) /\ IsFiniteSet(Ids(st))
      /\ Ids(st) \subseteq ToSet(st.order) /\ \A x \in Ids(st) : IsPermanent(st.permanents[x])
  BY DEF Kept, IsState
<1>2. /\ t.token_seq = st.token_seq + 1 /\ t.order = Append(st.order, id)
      /\ t.permanents = Stored(st.permanents, id, token)
      /\ DOMAIN t = StateFields
      /\ \A g \in StateFields \ {"token_seq", "order", "permanents"} : t[g] = st[g]
  BY <1>1, MadeFields
<1>3. Named(st) /\ st.token_seq + 1 <= Len(TokenIds)
        => /\ id \notin Ids(st)
           /\ (Ids(st) \cup {id}) \cap ToSet(TokenIds) = {TokenIds[i] : i \in 1..(st.token_seq + 1)}
  BY <1>1, NextIdIsNew
<1> HIDE DEF t, id
<1>4. Ids(t) = Ids(st) \cup {id} /\ (\A x \in Ids(t) : IsPermanent(t.permanents[x]))
      /\ (\A x \in Ids(st) : x # id => t.permanents[x] = st.permanents[x])
  BY <1>1, <1>2 DEF Stored, Ids
<1>5. IsSequence(t.order) /\ ToSet(t.order) = ToSet(st.order) \cup {id}
  BY <1>1, <1>2, LongerOrder
<1>6. IsFiniteSet(Ids(t))
  BY <1>1, <1>4, FS_AddElement
<1>7. /\ t.event_counters = st.event_counters
      /\ t.pending_triggers = st.pending_triggers
      /\ t.hand_you = st.hand_you /\ t.energy_you = st.energy_you
      /\ t.life_you = st.life_you /\ t.life_opponent = st.life_opponent
      /\ t.mana = st.mana /\ t.mana_activate_only = st.mana_activate_only
  BY <1>2 DEF StateFields
<1>8. /\ t.library_you = st.library_you /\ t.library_opponent = st.library_opponent
      /\ t.graveyard_opponent = st.graveyard_opponent
      /\ t.last_sacrificed_power = st.last_sacrificed_power
  BY <1>2 DEF StateFields
<1>9. Queue(t.pending_triggers, Ids(t))
  BY <1>1, <1>4, <1>7, QueueLonger DEF Queue, IsState
<1>10. IsState(t)
  <2>1. /\ {t.library_you, t.library_opponent, t.graveyard_opponent, t.hand_you, t.energy_you,
            t.token_seq} \subseteq Nat
        /\ {t.life_you, t.life_opponent, t.last_sacrificed_power} \subseteq Int
    BY <1>1, <1>2, <1>7, <1>8 DEF IsState
  <2>2. t.mana \in ManaAmount /\ t.mana_activate_only \in ManaAmount /\ t.event_counters \in [EventKeys -> Int]
    BY <1>1, <1>7 DEF IsState
  <2> QED BY <1>1, <1>2, <1>4, <1>5, <1>6, <1>9, <2>1, <2>2 DEF IsState, Queue
<1>11. ASSUME Named(st), t.token_seq <= Len(TokenIds)
       PROVE  Named(t) /\ \A x \in Ids(st) : Grows(st.permanents[x], t.permanents[x])
  <2>1. id \notin Ids(st) /\ Ids(t) \cap ToSet(TokenIds) = {TokenIds[i] : i \in 1..t.token_seq}
    BY <1>2, <1>3, <1>4, <1>11
  <2>2. \A x \in Ids(st) : Grows(st.permanents[x], t.permanents[x])
    BY <1>4, <2>1 DEF Grows
  <2>3. ToSet(t.order) = Ids(t) /\ IsInjective(t.order)
    BY <1>1, <1>2, <1>4, <1>5, <1>11, <2>1, LongerNamed DEF Named
  <2> QED BY <2>1, <2>2, <2>3 DEF Named
<1>12. Follows(st, t)
  BY <1>1, <1>2, <1>4, <1>11 DEF Follows
<1> QED BY <1>7, <1>10, <1>12, SameKept DEF SameBooks, t, id

LEMMA SameIds ==
  ASSUME NEW st, IsState(st), NEW event, NEW subject, NEW amount, NEW key, NEW n
  PROVE  Ids(Bump(st, key, n)) = Ids(st) /\ Ids(QueueTriggers(st, event, subject, amount)) = Ids(st)
  BY DEF Bump, QueueTriggers, Ids, IsState, StateFields
LEMMA MakeTokenKept ==
  ASSUME NEW l, NEW st, Kept(l, st), NEW token, IsPermanent(token) PROVE Kept(l, MakeToken(st, token))
<1> DEFINE id == TokenIds[st.token_seq + 1]
           made == TokenMade(st, id, token)
           s1 == Bump(made, "token", 1)
           s2 == OnEtb(s1, id)
<1>1. MakeToken(st, token) = QueueTriggers(s2, "create_token", id, None)
  BY DEF MakeToken, TokenMade
<1>2. Kept(l, made)
  BY MadeKept
<1>3. id \in Ids(made)
  <2>1. IsState(st)
    BY DEF Kept
  <2>2. made.permanents = Stored(st.permanents, id, token)
    BY <2>1, MadeFields
  <2> HIDE DEF id, made
  <2> QED BY <2>2 DEF Ids, Stored
<1> HIDE DEF id, made
<1>4. Kept(l, s1) /\ id \in Ids(s1)
  BY <1>2, <1>3, BumpKept, PlainKeys, SameIds DEF Kept
<1> HIDE DEF s1
<1>5. PICK m : m.start = s1 /\ Kept(m, s1) /\ \A t : Kept(m, t) => Kept(l, t) /\ Follows(s1, t)
  BY <1>4, BooksNow
<1>6. Kept(m, s2)
  BY <1>4, <1>5, EtbKept
<1>7. Kept(l, s2) /\ id \in Ids(s2)
  BY <1>4, <1>5, <1>6, Present
<1> HIDE DEF s2
<1>8. None \subseteq Int
  BY DEF None
<1> QED BY <1>1, <1>7, <1>8, TriggersKept

TokenStep(c, s, i) == MakeToken(s, c.token)
EachToken == INSTANCE FoldFacts WITH Op <- TokenStep, P <- KeptBy
LEMMA TokenFold ==
  ASSUME NEW c, NEW st, NEW n
  PROVE  MakeMany(st, c.token, n) = EachToken!Fold(c, st, [i \in 1..n |-> i])
  BY Zenon DEF MakeMany, TokenStep, FoldLeft, MapThenFoldSet, Max,
     EachToken!Fold, EachToken!LastOf
LEMMA Numbers ==
  ASSUME NEW n, n \in Nat
  PROVE  LET s == [i \in 1..n |-> i] IN DOMAIN s = 1..Len(s) /\ Len(s) \in Nat
<1> DEFINE s == [i \in 1..n |-> i]
<1>1. s \in Seq(Nat)
  BY SeqDef
<1> HIDE DEF s
<1>2. DOMAIN s = 1..Len(s) /\ Len(s) \in Nat
  BY <1>1
<1> QED BY <1>2 DEF s
LEMMA MakeManyKept ==
  ASSUME NEW l, NEW st, Kept(l, st), NEW token, IsPermanent(token), NEW n, n \in Nat
  PROVE  Kept(l, MakeMany(st, token, n))
<1> DEFINE d == [l |-> l, token |-> token]
           s == [i \in 1..n |-> i]
<1>1. d.l = l /\ d.token = token
  OBVIOUS
<1> HIDE DEF d
<1>2. KeptBy(d, st)
  BY <1>1 DEF KeptBy
<1>3. DOMAIN s = 1..Len(s) /\ Len(s) \in Nat
  BY Numbers
<1> HIDE DEF s
<1>4. ASSUME NEW t, NEW i \in DOMAIN s, KeptBy(d, t) PROVE KeptBy(d, TokenStep(d, t, s[i]))
  BY <1>1, <1>4, MakeTokenKept DEF KeptBy, TokenStep
<1>5. KeptBy(d, EachToken!Fold(d, st, s))
  BY <1>2, <1>3, <1>4, NatSets, EachToken!FoldInvariant
<1>6. MakeMany(st, token, n) = EachToken!Fold(d, st, s)
  BY <1>1, TokenFold DEF s
<1> QED BY <1>1, <1>5, <1>6 DEF KeptBy

\* A permanent as the class makes it, with a printed power and toughness.
LEMMA PlainPermanent ==
  ASSUME NEW p, DOMAIN p = DOMAIN Permanent, IsPT(p.pt), p.counters = <<>>, p.zone = "battlefield",
         p.damage_marked = 0, \A flag \in Flags : p[flag] \in BOOLEAN
  PROVE  IsPermanent(p)
<1>1. DOMAIN p.counters = {} /\ "battlefield" \in Zones
  BY DEF Zones
<1> QED BY <1>1 DEF IsPermanent
TokenCopy(oracle, words, artifact, pt, colors, sick) ==
  [Permanent EXCEPT !.oracle = oracle, !.words = words, !.is_token = TRUE,
     !.is_creature = TRUE, !.is_artifact = artifact, !.pt = pt,
     !.colors = colors, !.summoning_sick = sick]
NewToken(oracle, words, creature, artifact, pt, sick) ==
  [Permanent EXCEPT !.oracle = oracle, !.words = words, !.is_token = TRUE,
     !.is_creature = creature, !.is_artifact = artifact, !.pt = pt,
     !.summoning_sick = sick]
LEMMA TokenShapes ==
  ASSUME NEW oracle, NEW words, NEW creature \in BOOLEAN, NEW artifact, NEW pt, IsPT(pt), NEW colors,
         NEW sick \in BOOLEAN
  PROVE  /\ IsPermanent(TokenCopy(oracle, words, artifact, pt, colors, sick))
         /\ IsPermanent(NewToken(oracle, words, creature, artifact, pt, sick))
<1>0. /\ {"pt", "counters", "zone", "damage_marked", "tapped", "summoning_sick", "was_cast", "is_token",
          "is_creature", "is_artifact", "colors", "oracle", "words"} \subseteq DOMAIN Permanent
      /\ Permanent.counters = <<>> /\ Permanent.zone = "battlefield" /\ Permanent.damage_marked = 0
      /\ Permanent.tapped = FALSE /\ Permanent.was_cast = FALSE
  BY DEF Permanent
<1> DEFINE p == TokenCopy(oracle, words, artifact, pt, colors, sick)
           q == NewToken(oracle, words, creature, artifact, pt, sick)
<1>1. /\ DOMAIN p = DOMAIN Permanent /\ p.pt = pt /\ p.counters = <<>>
      /\ p.zone = "battlefield" /\ p.damage_marked = 0
      /\ p.tapped = FALSE /\ p.was_cast = FALSE /\ p.is_token = TRUE /\ p.is_creature = TRUE
      /\ p.summoning_sick = sick
  <2> DEFINE front == [Permanent EXCEPT !.oracle = oracle, !.words = words, !.is_token = TRUE,
                         !.is_creature = TRUE]
  <2>1. p = [front EXCEPT !.is_artifact = artifact, !.pt = pt, !.colors = colors,
                          !.summoning_sick = sick]
    BY Zenon DEF TokenCopy
  <2>2. /\ DOMAIN front = DOMAIN Permanent /\ front.counters = <<>>
        /\ front.zone = "battlefield" /\ front.damage_marked = 0
        /\ front.tapped = FALSE /\ front.was_cast = FALSE
        /\ front.is_token = TRUE /\ front.is_creature = TRUE
    BY <1>0
  <2> HIDE DEF front, p
  <2> QED BY <1>0, <2>1, <2>2
<1>2. /\ DOMAIN q = DOMAIN Permanent /\ q.pt = pt /\ q.counters = <<>>
      /\ q.zone = "battlefield" /\ q.damage_marked = 0
      /\ q.tapped = FALSE /\ q.was_cast = FALSE /\ q.is_token = TRUE /\ q.is_creature = creature
      /\ q.summoning_sick = sick
  <2> DEFINE front == [Permanent EXCEPT !.oracle = oracle, !.words = words, !.is_token = TRUE,
                         !.is_creature = creature]
  <2>1. q = [front EXCEPT !.is_artifact = artifact, !.pt = pt, !.summoning_sick = sick]
    BY Zenon DEF NewToken
  <2>2. /\ DOMAIN front = DOMAIN Permanent /\ front.counters = <<>>
        /\ front.zone = "battlefield" /\ front.damage_marked = 0
        /\ front.tapped = FALSE /\ front.was_cast = FALSE
        /\ front.is_token = TRUE /\ front.is_creature = creature
    BY <1>0
  <2> HIDE DEF front, q
  <2> QED BY <1>0, <2>1, <2>2
<1> HIDE DEF p, q
<1>3. (\A flag \in Flags : p[flag] \in BOOLEAN) /\ (\A flag \in Flags : q[flag] \in BOOLEAN)
  BY <1>1, <1>2 DEF Flags
<1>4. IsPermanent(p) /\ IsPermanent(q)
  BY <1>1, <1>2, <1>3, PlainPermanent
<1> QED BY <1>4 DEF p, q
LEMMA TokenPermanent ==
  ASSUME NEW st, IsState(st), NEW e, e.kind = "create_token", IsEffect(e), NEW template,
         e.copy_target => template \in Ids(st)
  PROVE  IsPermanent(TokenFrom(st, e, template))
<1>1. CASE e.copy_target
  <2> DEFINE t == st.permanents[template]
  <2>1. IsPT(t.pt) /\ (~e.haste) \in BOOLEAN /\ TRUE \in BOOLEAN
    BY <1>1 DEF IsState, IsPermanent
  <2>2. TokenFrom(st, e, template) = TokenCopy(t.oracle, t.words, t.is_artifact, t.pt, t.colors, ~e.haste)
    BY <1>1, Zenon DEF TokenFrom, TokenCopy
  <2> QED BY <2>1, <2>2, TokenShapes
<1>2. CASE ~e.copy_target
  <2>1. IsPT(e.pt) /\ e.is_creature \in BOOLEAN /\ (~e.haste) \in BOOLEAN
    BY DEF IsEffect
  <2>2. TokenFrom(st, e, template)
          = NewToken(e.oracle, e.words, e.is_creature, e.is_artifact, e.pt, ~e.haste)
    BY <1>2, Zenon DEF TokenFrom, NewToken
  <2> QED BY <2>1, <2>2, TokenShapes
<1> QED BY <1>1, <1>2

\* What a trigger recorded, where it is positive; an option of one kind or another.
LEMMA RecordedInt ==
  ASSUME NEW l, NEW c, InContext(l, c), PositiveAmount(c) # {} PROVE The(c.amount) \in Int
<1>1. c.amount # {}
  BY DEF PositiveAmount
<1> QED BY <1>1 DEF InContext, The
LEMMA TokenQuantityInt ==
  ASSUME NEW l, NEW st, Kept(l, st), NEW e, e.kind = "create_token", IsEffect(e), NEW c, InContext(l, c),
         e.from = "trigger" => PositiveAmount(c) # {}
  PROVE  TokenQuantity(st, e, c) \in Int
<1> DEFINE n == CASE e.from = "amount" -> e.quantity
                  [] e.from = "trigger" -> The(c.amount)
                  [] e.from = "subtype" ->
                       Cardinality({id \in YourCreatures(st) :
                                      e.subtype \subseteq CreatureSubtypes(st.permanents[id])})
<1>1. Cardinality({id \in YourCreatures(st) :
                     e.subtype \subseteq CreatureSubtypes(st.permanents[id])}) \in Int
  BY CountIds, YoursAreIds DEF Kept
<1>2. e.quantity \in Int /\ e.from \in {"amount", "trigger", "subtype"}
  BY DEF IsEffect, AmountSources
<1>3. n \in Int
  BY <1>1, <1>2, RecordedInt
<1>4. PlainMultiplier(st, "replacement_double_tokens") \in Int
  BY PlainMultiplierInt DEF Kept, IsState, Multiplying
<1>5. TokenQuantity(st, e, c) = n * PlainMultiplier(st, "replacement_double_tokens")
  BY DEF TokenQuantity
<1> HIDE DEF n
<1> QED BY <1>3, <1>4, <1>5
LEMMA TokenKept ==
  ASSUME NEW l, NEW st, Kept(l, st), NEW e, e.kind = "create_token", IsEffect(e), NEW c, InContext(l, c)
  PROVE  Kept(l, CreateToken(st, e, c).st)
<1>1. CASE e.from = "trigger" /\ PositiveAmount(c) = {}
  BY <1>1 DEF CreateToken, Err
<1>2. CASE ~(e.from = "trigger" /\ PositiveAmount(c) = {})
  <2> DEFINE template == IF c.target = NoId THEN c.source ELSE c.target
             n == TokenQuantity(st, e, c)
             copyable == /\ Exists(st, template)
                         /\ Controlled(st.permanents[template]) /\ st.permanents[template].is_creature
  <2>1. CreateToken(st, e, c) = MakeTokens(st, e, template, n)
    BY <1>2 DEF CreateToken
  <2>2. n \in Int
    BY <1>2, TokenQuantityInt
  <2> HIDE DEF n, template
  <2>3. CASE n <= 0
    BY <2>1, <2>3 DEF MakeTokens, Ok
  <2>4. CASE ~(n <= 0)
    <3>1. ASSUME e.copy_target => copyable PROVE Kept(l, Ok(MakeMany(st, TokenFrom(st, e, template), n)).st)
      <4>1. IsPermanent(TokenFrom(st, e, template))
        BY <3>1, TokenPermanent DEF Kept, Exists
      <4>2. n \in Nat
        BY <2>2, <2>4
      <4>3. Kept(l, MakeMany(st, TokenFrom(st, e, template), n))
        BY <4>1, <4>2, MakeManyKept
      <4> QED BY <4>3 DEF Ok
    <3>2. MakeTokens(st, e, template, n)
            = Illegal(st, e.copy_target => copyable, Ok(MakeMany(st, TokenFrom(st, e, template), n)))
      BY <2>4 DEF MakeTokens
    <3> HIDE DEF copyable
    <3>3. Kept(l, MakeTokens(st, e, template, n).st)
      BY <3>1, <3>2, IllegalKept, Zenon
    <3> QED BY <2>1, <3>3
  <2> QED BY <2>3, <2>4
<1> QED BY <1>1, <1>2

\* Counters
LEMMA CountersAt ==
  ASSUME NEW l, NEW st, Kept(l, st), NEW id, id \in Ids(st), NEW kind
  PROVE  Counters(st.permanents[id], kind) \in Nat
  BY PermanentIn, PTTypes

\* A permanent that is not there is not changed.
LEMMA CountersKept ==
  ASSUME NEW l, NEW st, Kept(l, st), NEW id, NEW kind, NEW n,
         id \in Ids(st) => n \in Nat
  PROVE  Kept(l, [st EXCEPT !.permanents[id] = WithCounters(@, kind, n)])
<1>1. id \in Ids(st) => Becomes(st.permanents[id], WithCounters(st.permanents[id], kind, n))
  BY PermanentIn, CountersSet
<1> QED BY <1>1, PermanentKept
LEMMA PlaceKept ==
  ASSUME NEW l, NEW st, Kept(l, st), NEW id \in Ids(st), NEW kind, NEW put, put \in Int
  PROVE  Kept(l, Place(st, id, kind, put))
<1>1. CASE put <= 0
  BY <1>1 DEF Place
<1>2. CASE ~(put <= 0)
  <2> DEFINE n == Counters(st.permanents[id], kind) + put
             s == [st EXCEPT !.permanents[id] = WithCounters(@, kind, n)]
             s1 == Bump(s, "counter_added", put)
  <2>1. Place(st, id, kind, put) = QueueTriggers(s1, "counter_added", id, Some(put))
    BY <1>2 DEF Place
  <2>2. id \in Ids(st) => n \in Nat
    BY <1>2, CountersAt
  <2> HIDE DEF n
  <2>3. Kept(l, s)
    BY <2>2, CountersKept, Zenon
  <2>5. Ids(s) = Ids(st)
    BY DEF Ids, Kept, IsState, StateFields
  <2> HIDE DEF s
  <2>6. IsState(s)
    BY <2>3 DEF Kept
  <2>4. Kept(l, s1) /\ id \in Ids(s1)
    BY <2>3, <2>5, <2>6, BumpKept, PlainKeys, SameIds
  <2> HIDE DEF s1
  <2> QED BY <2>1, <2>4, SomeInt, TriggersKept
<1> QED BY <1>1, <1>2
LEMMA PutKept ==
  ASSUME NEW l, NEW st, Kept(l, st), NEW id \in Ids(st), NEW kind, NEW n, n \in Int
  PROVE  Kept(l, PutCounters(st, id, kind, n))
<1>0. IsFiniteSet(Ids(st))
  BY DEF Kept, IsState
<1>1. PutQuantity(st, n, id, kind) \in Int
  BY <1>0, PutQuantityInt
<1> QED BY <1>1, PlaceKept DEF PutCounters

PutStep(c, s, host) == PutCounters(s, host, c.kind, c.n)
EachPut == INSTANCE FoldFacts WITH Op <- PutStep, P <- KeptBy
PutKindStep(c, s, kind) == PutCounters(s, c.id, kind, 1)
EachKind == INSTANCE FoldFacts WITH Op <- PutKindStep, P <- KeptBy
PutKindsStep(c, s, id) == PutEachKind(s, id, KindsOn(c.st.permanents[id]))
EachHolder == INSTANCE FoldFacts WITH Op <- PutKindsStep, P <- KeptBy
LEMMA CounterFolds ==
  ASSUME NEW c, NEW s, NEW seq
  PROVE  /\ PutOnEach(s, seq, c.kind, c.n) = EachPut!Fold(c, s, seq)
         /\ PutEachKind(s, c.id, seq) = EachKind!Fold(c, s, seq)
         /\ Proliferate(c.st) = EachHolder!Fold(c, c.st, InStringOrder(Yours(c.st)))
<1>1. PutOnEach(s, seq, c.kind, c.n) = EachPut!Fold(c, s, seq)
  BY Zenon DEF PutOnEach, PutStep, FoldLeft, MapThenFoldSet, Max,
     EachPut!Fold, EachPut!LastOf
<1>2. PutEachKind(s, c.id, seq) = EachKind!Fold(c, s, seq)
  BY Zenon DEF PutEachKind, PutKindStep, FoldLeft, MapThenFoldSet, Max,
     EachKind!Fold, EachKind!LastOf
<1>3. Proliferate(c.st) = EachHolder!Fold(c, c.st, InStringOrder(Yours(c.st)))
  BY Zenon DEF Proliferate, PutKindsStep, FoldLeft, MapThenFoldSet, Max,
     EachHolder!Fold, EachHolder!LastOf
<1> QED BY <1>1, <1>2, <1>3
LEMMA PutOnEachKept ==
  ASSUME NEW l, NEW st, Kept(l, st), NEW hosts \in Seq(Ids(st)), NEW kind, NEW n, n \in Int
  PROVE  Kept(l, PutOnEach(st, hosts, kind, n))
<1>0. PICK m : /\ m.start = st /\ Kept(m, st)
               /\ \A t : Kept(m, t) => Kept(l, t) /\ Follows(st, t)
  BY BooksNow
<1> DEFINE d == [l |-> m, kind |-> kind, n |-> n]
<1>1. d.l = m /\ d.kind = kind /\ d.n = n
  OBVIOUS
<1> HIDE DEF d
<1>2. KeptBy(d, st)
  BY <1>0, <1>1 DEF KeptBy
<1>3. ASSUME NEW s, NEW i \in DOMAIN hosts, KeptBy(d, s) PROVE KeptBy(d, PutStep(d, s, hosts[i]))
  <2>1. Kept(m, s)
    BY <1>1, <1>3 DEF KeptBy
  <2>2. hosts[i] \in Ids(s)
    BY <1>0, <2>1, ListOfElements, Present
  <2> QED BY <1>1, <2>1, <2>2, PutKept DEF KeptBy, PutStep
<1>4. KeptBy(d, EachPut!Fold(d, st, hosts))
  BY <1>2, <1>3, ListOfElements, NatSets, EachPut!FoldInvariant
<1>5. PutOnEach(st, hosts, kind, n) = EachPut!Fold(d, st, hosts)
  BY <1>1, CounterFolds
<1> QED BY <1>0, <1>1, <1>4, <1>5 DEF KeptBy
LEMMA PutEachKindKept ==
  ASSUME NEW l, NEW st, Kept(l, st), NEW id \in Ids(st), NEW kinds, IsSequence(kinds)
  PROVE  Kept(l, PutEachKind(st, id, kinds))
<1>0. PICK m : /\ m.start = st /\ Kept(m, st)
               /\ \A t : Kept(m, t) => Kept(l, t) /\ Follows(st, t)
  BY BooksNow
<1> DEFINE d == [l |-> m, id |-> id]
<1>1. d.l = m /\ d.id = id
  OBVIOUS
<1> HIDE DEF d
<1>2. KeptBy(d, st)
  BY <1>0, <1>1 DEF KeptBy
<1>3. ASSUME NEW s, NEW i \in DOMAIN kinds, KeptBy(d, s) PROVE KeptBy(d, PutKindStep(d, s, kinds[i]))
  <2>1. 1 \in Int
    OBVIOUS
  <2>2. Kept(m, s) /\ id \in Ids(s)
    BY <1>0, <1>1, <1>3, Present DEF KeptBy
  <2> QED BY <1>1, <2>1, <2>2, PutKept DEF KeptBy, PutKindStep
<1>4. KeptBy(d, EachKind!Fold(d, st, kinds))
  BY <1>2, <1>3, ListIndices, NatSets, EachKind!FoldInvariant
<1>5. PutEachKind(st, id, kinds) = EachKind!Fold(d, st, kinds)
  BY <1>1, CounterFolds
<1> QED BY <1>0, <1>1, <1>4, <1>5 DEF KeptBy
LEMMA KindsList == ASSUME NEW p PROVE IsSequence(KindsOn(p))
<1>1. CounterKinds \in Seq(ToSet(CounterKinds))
  BY DEF CounterKinds, ToSet
<1>2. IsSequence(CounterKinds)
  BY <1>1, ListOfElements
<1> QED BY <1>2, InOrderLists DEF KindsOn
LEMMA ProliferateKept == ASSUME NEW l, NEW st, Kept(l, st) PROVE Kept(l, Proliferate(st))
<1>0. PICK m : /\ m.start = st /\ Kept(m, st)
               /\ \A t : Kept(m, t) => Kept(l, t) /\ Follows(st, t)
  BY BooksNow
<1> DEFINE d == [l |-> m, st |-> st]
           ids == InStringOrder(Yours(st))
<1>1. d.l = m /\ d.st = st
  OBVIOUS
<1> HIDE DEF d
<1>2. KeptBy(d, st)
  BY <1>0, <1>1 DEF KeptBy
<1>3. ids \in Seq(Ids(st))
  BY YoursAreIds, ListsOf DEF Kept
<1> HIDE DEF ids
<1>4. ASSUME NEW s, NEW i \in DOMAIN ids, KeptBy(d, s) PROVE KeptBy(d, PutKindsStep(d, s, ids[i]))
  <2>1. Kept(m, s)
    BY <1>1, <1>4 DEF KeptBy
  <2>2. ids[i] \in Ids(s)
    BY <1>0, <1>3, <2>1, ListOfElements, Present
  <2> QED BY <1>1, <2>1, <2>2, KindsList, PutEachKindKept DEF KeptBy, PutKindsStep
<1>5. KeptBy(d, EachHolder!Fold(d, st, ids))
  BY <1>2, <1>3, <1>4, ListOfElements, NatSets, EachHolder!FoldInvariant
<1>6. Proliferate(st) = EachHolder!Fold(d, st, ids)
  BY <1>1, CounterFolds DEF ids
<1> QED BY <1>0, <1>1, <1>5, <1>6 DEF KeptBy
LEMMA HostsList ==
  ASSUME NEW st, IsState(st), NEW e, NEW id, e.target = "each_controlled_creature" \/ id \in Ids(st)
  PROVE  CounterHosts(st, e, id) \in Seq(Ids(st))
<1>1. InStringOrder(YourCreatures(st)) \in Seq(Ids(st))
  BY YoursAreIds, ListsOf
<1>2. <<>> \in Seq(Ids(st)) /\ (id \in Ids(st) => <<id>> \in Seq(Ids(st)))
  OBVIOUS
<1> QED BY <1>1, <1>2 DEF CounterHosts
LEMMA AddCounterKept ==
  ASSUME NEW l, NEW st, Kept(l, st), NEW e, e.kind = "add_counter", IsEffect(e), NEW c, InContext(l, c)
  PROVE  Kept(l, AddCounter(st, e, c).st)
<1> DEFINE n == IF e.amount_from_trigger THEN The(c.amount) ELSE e.quantity
           id == IF e.target = "self" THEN c.source ELSE c.target
           done == PutOnEach(st, CounterHosts(st, e, id), e.counter_type, n)
<1>1. e.quantity \in Int
  BY DEF IsEffect
<1>2. ~(e.amount_from_trigger /\ PositiveAmount(c) = {}) => n \in Int
  BY <1>1, RecordedInt
<1> DEFINE there == e.target = "each_controlled_creature" \/ id \in Ids(st)
<1>3. AddCounter(st, e, c) \in {Err(st, "illegal_target"), Err(st, "illegal_action")}
      \/ (/\ AddCounter(st, e, c) = Ok(done) /\ there
          /\ ~(e.amount_from_trigger /\ PositiveAmount(c) = {}))
  BY DEF AddCounter, Exists
<1> HIDE DEF n, id
<1>4. there /\ ~(e.amount_from_trigger /\ PositiveAmount(c) = {}) => Kept(l, done)
  BY <1>2, HostsList, PutOnEachKept DEF Kept
<1> HIDE DEF done
<1> QED BY <1>3, <1>4 DEF Ok, Err
LEMMA RemoveCounterKept ==
  ASSUME NEW l, NEW st, Kept(l, st), NEW e, e.kind = "remove_counter", IsEffect(e), NEW c, InContext(l, c)
  PROVE  Kept(l, RemoveCounter(st, e, c).st)
<1> DEFINE have == Counters(st.permanents[c.source], e.counter_type)
<1>1. have \in Nat /\ e.quantity \in Int
  BY SourceIn, CountersAt DEF IsEffect
<1>2. RemoveCounter(st, e, c)
        = IF have < e.quantity THEN Err(st, "resource_deficit")
          ELSE Ok([st EXCEPT !.permanents[c.source]
                     = WithCounters(@, e.counter_type, have - e.quantity)])
  BY Zenon DEF RemoveCounter
<1> HIDE DEF have
<1>3. ~(have < e.quantity) =>
        Kept(l, [st EXCEPT !.permanents[c.source] = WithCounters(@, e.counter_type, have - e.quantity)])
  <2>1. ~(have < e.quantity) => have - e.quantity \in Nat
    BY <1>1
  <2> QED BY <2>1, CountersKept, Zenon
<1> QED BY <1>2, <1>3 DEF Ok, Err

\* Grants and zone changes
LEMMA Fitting ==
  \A p : /\ \A flag \in Flags : \A v \in BOOLEAN : Fits(p, flag, v)
         /\ \A zone \in Zones : Fits(p, "zone", zone)
         /\ \A n : n \in Int => Fits(p, "damage_marked", n)
  BY DEF Fits
LEMMA FlagNames ==
  {"tapped", "summoning_sick", "was_cast", "is_token", "is_creature"} = Flags /\ {"hand", "exile", "graveyard", "battlefield"} \subseteq Zones
  BY DEF Flags, Zones
LEMMA NextField ==
  ASSUME NEW p, NEW q, Becomes(p, q), NEW f, NEW v, Fits(q, f, v)
  PROVE  Becomes(p, [q EXCEPT ![f] = v])
<1>1. IsPermanent(q)
  BY DEF Becomes
<1> QED BY <1>1, FieldBecomes, BecomesOn
LEMMA Unchanged == ASSUME NEW p, IsPermanent(p) PROVE Becomes(p, p)
  BY DEF Becomes, Grows
LEMMA Cleared ==
  ASSUME NEW p, NEW q, Becomes(p, q), NEW flag \in Flags, NEW v \in BOOLEAN
  PROVE  Becomes(p, [q EXCEPT ![flag] = v])
  BY Fitting, NextField
LEMMA Reshaped ==
  ASSUME NEW p, IsPermanent(p)
  PROVE  /\ \A zone \in Zones : Becomes(p, ToZone(p, zone))
         /\ Becomes(p, Entering(p))
         /\ Becomes(p, [p EXCEPT !.zone = "hand", !.tapped = FALSE])
         /\ Becomes(p, [p EXCEPT !.zone = "battlefield", !.tapped = FALSE, !.summoning_sick = TRUE,
                                 !.damage_marked = 0])
<1>0. Becomes(p, p) /\ p.is_creature \in BOOLEAN /\ 0 \in Int
  BY Unchanged, FlagNames DEF IsPermanent
<1>1. \A zone \in Zones : Becomes(p, [p EXCEPT !["zone"] = zone])
  BY <1>0, Fitting, NextField
<1>2. \A zone \in Zones : Becomes(p, [p EXCEPT !.zone = zone, !.tapped = FALSE])
  <2> TAKE zone \in Zones
  <2> DEFINE q == [p EXCEPT !["zone"] = zone]
  <2>1. Becomes(p, q)
    BY <1>1
  <2>2. [p EXCEPT !.zone = zone, !.tapped = FALSE] = [q EXCEPT !["tapped"] = FALSE]
    BY Zenon
  <2> HIDE DEF q
  <2>3. Becomes(p, [q EXCEPT !["tapped"] = FALSE])
    BY <2>1, Cleared, FlagNames
  <2> QED BY <2>2, <2>3
<1>3. \A zone \in Zones : Becomes(p, ToZone(p, zone))
  <2> TAKE zone \in Zones
  <2> DEFINE q == [p EXCEPT !.zone = zone, !.tapped = FALSE]
             q1 == [q EXCEPT !["was_cast"] = FALSE]
             q2 == [q1 EXCEPT !["summoning_sick"] = FALSE]
  <2>1. Becomes(p, q)
    BY <1>2
  <2>2. ToZone(p, zone) \in {q, q2}
    BY Zenon DEF ToZone
  <2> HIDE DEF q
  <2>3. Becomes(p, q1)
    BY <2>1, Cleared, FlagNames
  <2> HIDE DEF q1
  <2>4. Becomes(p, q2)
    BY <2>3, Cleared, FlagNames
  <2> HIDE DEF q2
  <2> QED BY <2>1, <2>2, <2>4
<1>5. Becomes(p, Entering(p))
  <2> DEFINE q == [p EXCEPT !.zone = "battlefield", !.tapped = FALSE]
             q1 == [q EXCEPT !["summoning_sick"] = p.is_creature]
             q2 == [q1 EXCEPT !["damage_marked"] = 0]
             q3 == [q2 EXCEPT !["was_cast"] = TRUE]
  <2>1. Entering(p) = q3
    BY Zenon DEF Entering
  <2>2. Becomes(p, q)
    BY <1>2, FlagNames
  <2> HIDE DEF q
  <2>3. Becomes(p, q1)
    BY <1>0, <2>2, Cleared, FlagNames
  <2> HIDE DEF q1
  <2>4. Becomes(p, q2)
    BY <1>0, <2>3, Fitting, NextField
  <2> HIDE DEF q2
  <2>5. Becomes(p, q3)
    BY <2>4, Cleared, FlagNames
  <2> HIDE DEF q3
  <2> QED BY <2>1, <2>5
<1>6. Becomes(p, [p EXCEPT !.zone = "battlefield", !.tapped = FALSE, !.summoning_sick = TRUE,
                           !.damage_marked = 0])
  <2> DEFINE q == [p EXCEPT !.zone = "battlefield", !.tapped = FALSE]
             q1 == [q EXCEPT !["summoning_sick"] = TRUE]
             q2 == [q1 EXCEPT !["damage_marked"] = 0]
  <2>1. [p EXCEPT !.zone = "battlefield", !.tapped = FALSE, !.summoning_sick = TRUE,
                  !.damage_marked = 0] = q2
    BY Zenon
  <2>2. Becomes(p, q)
    BY <1>2, FlagNames
  <2> HIDE DEF q
  <2>3. Becomes(p, q1)
    BY <2>2, Cleared, FlagNames
  <2> HIDE DEF q1
  <2>4. Becomes(p, q2)
    BY <1>0, <2>3, Fitting, NextField
  <2> HIDE DEF q2
  <2> QED BY <2>1, <2>4
<1> QED BY <1>2, <1>3, <1>5, <1>6, FlagNames

LEMMA GrantedKept ==
  ASSUME NEW l, NEW st, Kept(l, st), NEW id
  PROVE  /\ Kept(l, [st EXCEPT !.permanents[id].lifelink = TRUE])
         /\ Kept(l, [st EXCEPT !.permanents[id].undying = TRUE])
         /\ Kept(l, [st EXCEPT !.permanents[id].tap_bounce_nonland = TRUE])
<1>1. /\ Kept(l, Flagged(st, id, "lifelink", TRUE)) /\ Kept(l, Flagged(st, id, "undying", TRUE))
      /\ Kept(l, Flagged(st, id, "tap_bounce_nonland", TRUE))
  BY FreeFields, FlaggedKept
<1> QED BY <1>1, Zenon DEF Flagged
LEMMA GrantEffectsKept ==
  ASSUME NEW l, NEW st, Kept(l, st), NEW c
  PROVE  Kept(l, GrantLifelink(st, c).st) /\ Kept(l, GrantTapBounce(st, c).st)
<1>1. /\ Kept(l, [st EXCEPT !.permanents[c.target].lifelink = TRUE])
      /\ Kept(l, [st EXCEPT !.permanents[c.target].tap_bounce_nonland = TRUE])
  BY GrantedKept, Zenon
<1>2. Kept(l, GrantLifelink(st, c).st)
  BY <1>1 DEF GrantLifelink, Illegal, Ok, Err
<1>3. Kept(l, GrantTapBounce(st, c).st)
  BY <1>1 DEF GrantTapBounce, Illegal, Ok, Err
<1> QED BY <1>2, <1>3

\* One permanent of a state is another now.
Replaced(st, id, p) == [st EXCEPT !.permanents[id] = p]
LEMMA ReplacedKept ==
  ASSUME NEW l, NEW st, Kept(l, st), NEW id, NEW p, id \in Ids(st) => Becomes(st.permanents[id], p)
  PROVE  Kept(l, Replaced(st, id, p)) /\ Ids(Replaced(st, id, p)) = Ids(st)
<1>1. Kept(l, Replaced(st, id, p))
  BY PermanentKept, Zenon DEF Replaced
<1>2. Ids(Replaced(st, id, p)) = Ids(st)
  BY DEF Replaced, Ids, Kept, IsState, StateFields
<1> QED BY <1>1, <1>2
LEMMA BumpThere ==
  ASSUME NEW l, NEW st, Kept(l, st), NEW key, key \in EventKeys \ LedgerKeys, NEW n, n \in Int
  PROVE  Kept(l, Bump(st, key, n)) /\ Ids(Bump(st, key, n)) = Ids(st)
<1>1. IsState(st)
  BY DEF Kept
<1> QED BY <1>1, BumpKept, SameIds

LEMMA ReturnedKept ==
  ASSUME NEW l, NEW st, Kept(l, st), NEW candidates, NEW target
  PROVE  Kept(l, ReturnOneOf(st, candidates, target).st)
<1> DEFINE chosen == IF target \in candidates THEN target ELSE First(candidates)
           p == [st.permanents[chosen] EXCEPT !.zone = "hand", !.tapped = FALSE]
           s == Replaced(st, chosen, p)
<1>1. ReturnOneOf(st, candidates, target)
        = IF candidates = {} THEN Ok(st) ELSE Ok(Bump(s, "return_from_gy", 1))
  BY DEF ReturnOneOf, Replaced
<1> HIDE DEF chosen
<1>2. chosen \in Ids(st) => Becomes(st.permanents[chosen], p)
  BY PermanentIn, Reshaped, Zenon
<1> HIDE DEF p
<1>3. Kept(l, s)
  BY <1>2, ReplacedKept
<1> HIDE DEF s
<1>4. Kept(l, Bump(s, "return_from_gy", 1))
  BY <1>3, BumpKept, PlainKeys
<1> QED BY <1>1, <1>4 DEF Ok
LEMMA ReturnKept ==
  ASSUME NEW l, NEW st, Kept(l, st), NEW id \in Ids(st) PROVE Kept(l, ReturnToBattlefield(st, id))
<1> DEFINE p == [st.permanents[id] EXCEPT !.zone = "battlefield", !.tapped = FALSE,
                                          !.summoning_sick = TRUE, !.damage_marked = 0]
           s == Replaced(st, id, p)
           t == Bump(s, "return_to_battlefield", 1)
<1>1. ReturnToBattlefield(st, id) = OnEtb(t, id)
  BY DEF ReturnToBattlefield, Replaced
<1>2. Becomes(st.permanents[id], p)
  BY PermanentIn, Reshaped, Zenon
<1> HIDE DEF p
<1>3. Kept(l, s) /\ id \in Ids(s)
  BY <1>2, ReplacedKept
<1> HIDE DEF s
<1>4. Kept(l, t) /\ id \in Ids(t)
  BY <1>3, BumpThere, PlainKeys
<1> HIDE DEF t
<1> QED BY <1>1, <1>4, EtbKept

LEMMA BlinkedBecomes ==
  ASSUME NEW p, IsPermanent(p), NEW e, e.kind = "blink", IsEffect(e) PROVE Becomes(p, Blinked(p, e))
<1>0. Becomes(p, p) /\ p.is_creature \in BOOLEAN /\ 0 \in Int /\ e.return_tapped \in BOOLEAN
  BY Unchanged, FlagNames DEF IsPermanent, IsEffect
<1> DEFINE q1 == [p EXCEPT !["damage_marked"] = 0]
           q2 == [q1 EXCEPT !["tapped"] = e.return_tapped]
           q3 == [q2 EXCEPT !["summoning_sick"] = p.is_creature]
           q4 == [q3 EXCEPT !["was_cast"] = FALSE]
<1>1. Blinked(p, e) = q4
  BY Zenon DEF Blinked
<1>2. Becomes(p, q1)
  BY <1>0, Fitting, NextField
<1> HIDE DEF q1
<1>3. Becomes(p, q2)
  BY <1>0, <1>2, Cleared, FlagNames
<1> HIDE DEF q2
<1>4. Becomes(p, q3)
  BY <1>0, <1>3, Cleared, FlagNames
<1> HIDE DEF q3
<1>5. Becomes(p, q4)
  BY <1>4, Cleared, FlagNames
<1> HIDE DEF q4
<1> QED BY <1>1, <1>5

LEMMA BlinkKept ==
  ASSUME NEW l, NEW st, Kept(l, st), NEW e, e.kind = "blink", IsEffect(e), NEW c
  PROVE  Kept(l, Blink(st, e, c).st)
<1> DEFINE id == IF e.target = "self" THEN c.source ELSE c.target
           p == Blinked(st.permanents[id], e)
           s == Replaced(st, id, p)
           s1 == Bump(s, "exile", 1)
           s2 == Bump(s1, "return_to_battlefield", 1)
           done == OnEtb(s2, id)
<1>1. Blink(st, e, c) = Err(st, "illegal_target") \/ (Blink(st, e, c) = Ok(done) /\ id \in Ids(st))
  BY DEF Blink, Illegal, Replaced, Exists
<1> HIDE DEF id
<1>3. ASSUME id \in Ids(st) PROVE Kept(l, done)
  <2>0. IsPermanent(st.permanents[id])
    BY <1>3, PermanentIn
  <2>1. Becomes(st.permanents[id], p)
    <3> DEFINE x == st.permanents[id]
    <3>1. IsPermanent(x)
      BY <2>0
    <3> HIDE DEF x
    <3>2. Becomes(x, Blinked(x, e))
      BY <3>1, BlinkedBecomes
    <3> USE DEF x
    <3> QED BY <3>2
  <2> HIDE DEF p
  <2>2. Kept(l, s) /\ id \in Ids(s)
    BY <1>3, <2>1, ReplacedKept
  <2> HIDE DEF s
  <2>3. Kept(l, s1) /\ id \in Ids(s1)
    BY <2>2, BumpThere, PlainKeys
  <2> HIDE DEF s1
  <2>4. Kept(l, s2) /\ id \in Ids(s2)
    BY <2>3, BumpThere, PlainKeys
  <2> HIDE DEF s2
  <2> QED BY <2>4, EtbKept
<1> HIDE DEF done
<1> QED BY <1>1, <1>3, OkKept, Zenon

LEMMA CopyTriggerKept ==
  ASSUME NEW l, NEW st, Kept(l, st) PROVE Kept(l, CopyPendingTrigger(st).st)
<1>1. CASE st.pending_triggers = <<>>
  BY <1>1 DEF CopyPendingTrigger, Err
<1>2. CASE st.pending_triggers # <<>>
  <2> DEFINE q == st.pending_triggers
             more == Append(q, Head(q))
             s == [st EXCEPT !.pending_triggers = more]
  <2>1. CopyPendingTrigger(st) = Ok(Bump(s, "ability_copy", 1))
    BY <1>2 DEF CopyPendingTrigger
  <2>2. Queue(q, Ids(st)) /\ q # <<>>
    BY <1>2 DEF Kept, IsState, Queue
  <2> HIDE DEF q
  <2>3. q \in Seq(Waiting(q, Ids(st)))
    BY <2>2, QueueIsList
  <2>4. Head(q) \in Waiting(q, Ids(st))
    BY <2>2, <2>3
  <2>5. IsPending(Head(q), Ids(st))
    BY <2>4 DEF Waiting
  <2>6. Queue(more, Ids(st))
    BY <2>2, <2>5, QueueAppend
  <2> HIDE DEF more
  <2>7. "pending_triggers" \in StateFields /\ Harmless(st, "pending_triggers", more)
    BY <2>6 DEF StateFields, Harmless
  <2>8. Kept(l, s)
    BY <2>7, FieldKept
  <2> HIDE DEF s
  <2>9. Kept(l, Bump(s, "ability_copy", 1))
    BY <2>8, BumpKept, PlainKeys
  <2> QED BY <2>1, <2>9 DEF Ok
<1> QED BY <1>1, <1>2

\* What a permanent looks like as a copy of another.
CopyShape(p, t) ==
  [p EXCEPT !.oracle = t.oracle, !.words = t.words, !.pt = t.pt, !.is_creature = t.is_creature,
            !.is_artifact = t.is_artifact, !.colors = t.colors]
LEMMA CopyPermanent ==
  ASSUME NEW p, NEW t, IsPermanent(p), IsPermanent(t) PROVE Becomes(p, CopyShape(p, t))
<1> DEFINE q == CopyShape(p, t)
           set == {"oracle", "words", "pt", "is_creature", "is_artifact", "colors"}
<1>1. DOMAIN p = DOMAIN Permanent /\ Typed \subseteq DOMAIN p /\ IsPT(t.pt) /\ t.is_creature \in BOOLEAN
  BY TypedFields, FlagNames DEF IsPermanent
<1>2. /\ DOMAIN q = DOMAIN p /\ q.pt = t.pt /\ q.is_creature = t.is_creature
      /\ \A g \in Typed \ set : q[g] = p[g]
  <2>1. DOMAIN q = DOMAIN p
    BY Zenon DEF CopyShape
  <2>2. "pt" \in DOMAIN p /\ "is_creature" \in DOMAIN p
    BY <1>1 DEF Typed, Flags
  <2>3. q.pt = t.pt
    BY <2>2 DEF CopyShape
  <2>4. q.is_creature = t.is_creature
    BY <2>2 DEF CopyShape
  <2>5. \A g \in Typed \ set : q[g] = p[g]
    BY <1>1 DEF CopyShape
  <2> QED BY <2>1, <2>3, <2>4, <2>5
<1> HIDE DEF q
<1>3. {"zone", "damage_marked", "counters", "once_per_turn_used", "tapped", "summoning_sick",
       "was_cast", "is_token"} \subseteq Typed \ set
  BY DEF Typed, Flags
<1>4. \A flag \in Flags : q[flag] \in BOOLEAN
  <2>1. q.is_creature \in BOOLEAN
    BY <1>1, <1>2
  <2>2. \A flag \in {"tapped", "summoning_sick", "was_cast", "is_token"} : q[flag] = p[flag] /\ flag \in Flags
    BY <1>2, <1>3, FlagNames
  <2> QED BY <2>1, <2>2 DEF Flags, IsPermanent
<1>5. q.zone = p.zone /\ q.damage_marked = p.damage_marked /\ q.counters = p.counters
      /\ q.once_per_turn_used = p.once_per_turn_used
  BY <1>2, <1>3
<1>6. IsPermanent(q)
  BY <1>1, <1>2, <1>4, <1>5 DEF IsPermanent
<1>7. Grows(p, q)
  BY <1>5 DEF Grows
<1> QED BY <1>6, <1>7 DEF Becomes, q
LEMMA BecomeCopyKept ==
  ASSUME NEW l, NEW st, Kept(l, st), NEW e, NEW c PROVE Kept(l, BecomeCopy(st, e, c).st)
<1> DEFINE p == CopyShape(st.permanents[c.source], st.permanents[c.target])
           s == [st EXCEPT !.permanents[c.source] = p]
<1>1. BecomeCopy(st, e, c) = Err(st, "illegal_target")
      \/ (BecomeCopy(st, e, c) = Ok(Bump(s, "become_copy", 1)) /\ c.target \in Ids(st))
  BY DEF BecomeCopy, Illegal, Exists, CopyShape
<1>2. ASSUME c.target \in Ids(st) PROVE Kept(l, Ok(Bump(s, "become_copy", 1)).st)
  <2>1. c.source \in Ids(st) => Becomes(st.permanents[c.source], p)
    BY <1>2, PermanentIn, CopyPermanent, Zenon
  <2> HIDE DEF p
  <2>2. Kept(l, s)
    BY <2>1, PermanentKept, Zenon
  <2> HIDE DEF s
  <2>3. Kept(l, Bump(s, "become_copy", 1))
    BY <2>2, BumpKept, PlainKeys
  <2> QED BY <2>3 DEF Ok
<1> HIDE DEF s
<1> QED BY <1>1, <1>2, OkKept
LEMMA ZoneKept ==
  ASSUME NEW l, NEW st, Kept(l, st), NEW id, NEW zone \in Zones
  PROVE  Kept(l, [st EXCEPT !.permanents[id].zone = zone])
<1>1. Kept(l, Flagged(st, id, "zone", zone))
  BY Fitting, FlaggedKept
<1> QED BY <1>1, Zenon DEF Flagged
LEMMA MoveKept ==
  ASSUME NEW l, NEW st, Kept(l, st), NEW e, e.kind = "move_to_zone", IsEffect(e), NEW c
  PROVE  Kept(l, MoveToZone(st, e, c).st)
<1>0. e.zone \in Zones
  BY DEF IsEffect
<1>1. CASE e.target = "self"
  <2>1. Kept(l, [st EXCEPT !.permanents[c.source].zone = e.zone])
    BY <1>0, ZoneKept, Zenon
  <2> QED BY <1>1, <2>1 DEF MoveToZone, Ok
<1>2. CASE e.target = "trigger_subject"
  <2> DEFINE subject == IF c.subject # NoId THEN c.subject ELSE c.target
             s1 == [st EXCEPT !.permanents[subject].zone = e.zone]
             s2 == [s1 EXCEPT !.permanents[subject].tapped = FALSE]
  <2>1. MoveToZone(st, e, c) = Illegal(st, Exists(st, subject), Ok(Bump(s2, "return_from_gy", 1)))
    BY <1>2, Zenon DEF MoveToZone
  <2> HIDE DEF subject
  <2>2. Kept(l, s1)
    BY <1>0, ZoneKept, Zenon
  <2> HIDE DEF s1
  <2>3. Kept(l, Flagged(s1, subject, "tapped", FALSE))
    BY <2>2, Fitting, FlagNames, FlaggedKept
  <2>4. Kept(l, s2)
    BY <2>3, Zenon DEF Flagged
  <2> HIDE DEF s2
  <2>5. Kept(l, Bump(s2, "return_from_gy", 1))
    BY <2>4, BumpKept, PlainKeys
  <2> QED BY <2>1, <2>5 DEF Ok, Err, Illegal
<1>3. CASE e.target \notin {"self", "trigger_subject"}
  <2> DEFINE p == ToZone(st.permanents[c.target], e.zone)
             s == [st EXCEPT !.permanents[c.target] = p]
  <2>1. MoveToZone(st, e, c) = Illegal(st, MayBounce(st, e, c), Ok(s))
    BY <1>3, Zenon DEF MoveToZone
  <2>2. c.target \in Ids(st) => Becomes(st.permanents[c.target], p)
    BY <1>0, PermanentIn, Reshaped, Zenon
  <2> HIDE DEF p
  <2>3. Kept(l, s)
    BY <2>2, PermanentKept, Zenon
  <2> HIDE DEF s
  <2> QED BY <2>1, <2>3, IllegalKept, OkKept DEF Ok
<1> QED BY <1>1, <1>2, <1>3

\* Damage, life, cards
LEMMA DamageKept ==
  ASSUME NEW l, NEW st, Kept(l, st), NEW id \in Ids(st), NEW n, n \in Int
  PROVE  Kept(l, Damage(st, id, n)) /\ Kept(l, Hit(st, id, n))
<1> DEFINE m == st.permanents[id].damage_marked + n
           s == Flagged(st, id, "damage_marked", m)
<1>1. Damage(st, id, n) = QueueTriggers(s, "dealt_damage", id, Some(n))
  BY Zenon DEF Damage, Flagged
<1>2. m \in Int
  BY PermanentIn DEF IsPermanent
<1> HIDE DEF m
<1>3. Kept(l, s) /\ id \in Ids(s)
  <2>1. Ids(s) = Ids(st)
    BY StillThere DEF Kept
  <2> QED BY <1>2, <2>1, Fitting, FlaggedKept
<1> HIDE DEF s
<1>4. Kept(l, Damage(st, id, n))
  BY <1>1, <1>3, SomeInt, TriggersKept
<1>5. Kept(l, Bump(Damage(st, id, n), "damage", n))
  BY <1>4, BumpKept, PlainKeys
<1> QED BY <1>4, <1>5 DEF Hit
LEMMA FightKept ==
  ASSUME NEW l, NEW st, Kept(l, st), NEW e, NEW c, InContext(l, c) PROVE Kept(l, Fight(st, e, c).st)
<1> DEFINE n == PowerOf(st, st.permanents[c.source])
           m == PowerOf(st, st.permanents[c.target])
           s1 == Hit(st, c.target, n)
           s2 == Hit(s1, c.source, m)
<1>1. Fight(st, e, c) = Err(st, "illegal_target")
      \/ (Fight(st, e, c) = Ok(Bump(s2, "fight", 1)) /\ c.target \in Ids(st))
  BY DEF Fight, Illegal, Exists
<1>2. ASSUME c.target \in Ids(st) PROVE Kept(l, Ok(Bump(s2, "fight", 1)).st)
  <2>1. n \in Int /\ m \in Int
    BY <1>2, SourceIn, PowerInt
  <2> HIDE DEF n, m
  <2>2. Kept(l, s1) /\ c.source \in Ids(s1)
    <3>1. Kept(l, s1)
      BY <1>2, <2>1, DamageKept
    <3> QED BY <3>1, SourceIn
  <2> HIDE DEF s1
  <2>3. Kept(l, s2)
    BY <2>1, <2>2, DamageKept
  <2> HIDE DEF s2
  <2>4. Kept(l, Bump(s2, "fight", 1))
    BY <2>3, BumpKept, PlainKeys
  <2> QED BY <2>4 DEF Ok
<1> HIDE DEF s2
<1> QED BY <1>1, <1>2, OkKept

LEMMA DevotionOf ==
  ASSUME NEW st, IsFiniteSet(Ids(st)), NEW e, \E color \in Fields : e.color = Some(color)
  PROVE  Devotion(st, The(e.color)) \in Int
<1>1. PICK color \in Fields : e.color = Some(color)
  OBVIOUS
<1>2. The(e.color) = color
  BY <1>1, TheSome
<1> QED BY <1>1, <1>2, DevotionInt
LEMMA DamageQuantityInt ==
  ASSUME NEW l, NEW st, Kept(l, st), NEW e, e.kind = "deal_damage", IsEffect(e), NEW c, InContext(l, c),
         e.from = "subject_power" => c.subject \in Ids(st),
         e.from = "trigger" => PositiveAmount(c) # {}
  PROVE  DamageQuantity(st, e, c) \in Int
<1>1. /\ e.amount \in Int
      /\ e.from \in {"amount", "source_power", "subject_power", "sacrificed_power", "devotion", "trigger"}
  BY DEF IsEffect, AmountSources
<1>2. IsState(st) /\ IsFiniteSet(Ids(st)) /\ c.source \in Ids(st) /\ st.last_sacrificed_power \in Int
  BY SourceIn DEF IsState
<1>3. PowerOf(st, st.permanents[c.source]) \in Int
  BY <1>2, PowerInt
<1>4. c.subject \in Ids(st) => PowerOf(st, st.permanents[c.subject]) \in Int
  BY <1>2, PowerInt
<1>5. e.from = "devotion" => Devotion(st, The(e.color)) \in Int
  BY <1>2, DevotionOf DEF IsEffect
<1>6. e.from = "trigger" => The(c.amount) \in Int
  BY RecordedInt
<1> QED BY <1>1, <1>2, <1>3, <1>4, <1>5, <1>6 DEF DamageQuantity
LEMMA DealtKept ==
  ASSUME NEW l, NEW st, Kept(l, st), NEW e, e.kind = "deal_damage", Fit(e), NEW c, InContext(l, c),
         NEW victim, e.target = "each_player" \/ HitsOpponent(e, c) \/ victim \in Ids(st),
         NEW n, n \in Int
  PROVE  Kept(l, Dealt(st, e, c, victim, n))
<1>0. c.source \in Ids(l.start)
  BY DEF InContext
<1>1. CASE e.target = "each_player"
  <2>1. SharedDamage
    BY <1>1 DEF Fit, HurtsBoth
  <2>2. Kept(l, [st EXCEPT !.life_you = @ - n])
    BY <2>1, BothHurtKept
  <2>3. Kept(l, LoseOpponentLife([st EXCEPT !.life_you = @ - n], c.source, n))
    BY <1>0, <2>2, LoseOpponentLifeKept, Zenon
  <2>4. Dealt(st, e, c, victim, n) = LoseOpponentLife([st EXCEPT !.life_you = @ - n], c.source, n)
    <3>1. ~HitsOpponent(e, c)
      BY <1>1 DEF HitsOpponent
    <3> QED BY <1>1, <3>1, Zenon DEF Dealt
  <2> QED BY <2>3, <2>4, Zenon
<1>2. CASE e.target # "each_player" /\ HitsOpponent(e, c)
  <2>1. Kept(l, LoseOpponentLife(st, c.source, n))
    BY <1>0, LoseOpponentLifeKept
  <2>2. Kept(l, QueueTriggers(LoseOpponentLife(st, c.source, n), "damage_opponent", c.source, Some(n)))
    BY <1>0, <2>1, Present, SomeInt, TriggersKept
  <2> QED BY <1>2, <2>2 DEF Dealt
<1>3. CASE e.target # "each_player" /\ ~HitsOpponent(e, c)
  BY <1>3, DamageKept DEF Dealt
<1> QED BY <1>1, <1>2, <1>3
LEMMA DealDamageKept ==
  ASSUME NEW l, NEW st, Kept(l, st), NEW e, e.kind = "deal_damage", Fit(e), NEW c, InContext(l, c)
  PROVE  Kept(l, DealDamage(st, e, c).st)
<1>1. CASE e.from = "subject_power" /\ ~Exists(st, c.subject)
  BY <1>1 DEF DealDamage, Err
<1>2. CASE e.from = "trigger" /\ PositiveAmount(c) = {}
  BY <1>2 DEF DealDamage, Err
<1>3. CASE ~(e.from = "subject_power" /\ ~Exists(st, c.subject))
           /\ ~(e.from = "trigger" /\ PositiveAmount(c) = {})
  <2> DEFINE victim == IF e.target = "trigger_subject" THEN c.subject ELSE c.target
             n == DamageQuantity(st, e, c)
             s1 == Dealt(st, e, c, victim, n)
             s2 == Bump(s1, "damage", n)
             hit == e.target = "each_player" \/ HitsOpponent(e, c) \/ victim \in Ids(st)
  <2>1. DealDamage(st, e, c) = Err(st, "illegal_target")
        \/ (DealDamage(st, e, c) = Ok(Lifelinked(s2, c.source, n)) /\ hit)
    BY <1>3 DEF DealDamage, Illegal, DealAmount, Exists
  <2>2. n \in Int
    BY <1>3, DamageQuantityInt DEF Fit, Exists
  <2> HIDE DEF n, victim
  <2>3. hit => Kept(l, s1)
    BY <2>2, DealtKept
  <2> HIDE DEF s1
  <2>4. hit => Kept(l, s2)
    BY <2>2, <2>3, BumpKept, PlainKeys
  <2> HIDE DEF s2
  <2>5. hit => Kept(l, Lifelinked(s2, c.source, n))
    BY <2>2, <2>4, GainYourLifeKept DEF Lifelinked, InContext
  <2> HIDE DEF hit
  <2> QED BY <2>1, <2>5, OkKept, Zenon
<1> QED BY <1>1, <1>2, <1>3

LEMMA EventInt == ASSUME NEW st, IsState(st), NEW key, key \in EventKeys PROVE st.event_counters[key] \in Int
  BY DEF IsState
LEMMA GainLifeKept ==
  ASSUME NEW l, NEW st, Kept(l, st), NEW e, e.kind = "gain_life", IsEffect(e), NEW c, InContext(l, c)
  PROVE  Kept(l, GainLife(st, e, c).st)
<1> DEFINE n == LifeGained(st, e, c)
<1>1. /\ e.amount \in Int /\ c.amount \subseteq Int
      /\ e.from \in {"amount", "trigger", "spells_cast"}
  BY DEF IsEffect, AmountSources, InContext
<1>2. st.event_counters["cast"] \in Int
  BY EventInt, PlainKeys DEF Kept
<1>3. OrElse(c.amount, e.amount) \in Int
  BY <1>1, OrElseInt
<1>4. n \in Int
  BY <1>1, <1>2, <1>3 DEF LifeGained
<1>5. GainLife(st, e, c) \in {Err(st, "illegal_action"), Ok(GainYourLife(st, c.source, n))}
  BY DEF GainLife
<1> HIDE DEF n
<1>6. Kept(l, GainYourLife(st, c.source, n))
  BY <1>4, GainYourLifeKept DEF InContext
<1> QED BY <1>5, <1>6, OkKept, Zenon

DrawStep(c, s, i) == DrawOne(s, c.source)
EachDraw == INSTANCE FoldFacts WITH Op <- DrawStep, P <- KeptBy
LEMMA DrawFold ==
  ASSUME NEW c, NEW st, NEW n
  PROVE  DrawMany(st, c.source, n) = EachDraw!Fold(c, st, [i \in 1..n |-> i])
  BY Zenon DEF DrawMany, DrawStep, FoldLeft, MapThenFoldSet, Max,
     EachDraw!Fold, EachDraw!LastOf
LEMMA DrawManyKept ==
  ASSUME NEW l, NEW st, Kept(l, st), NEW source \in Ids(l.start), NEW n, n \in Nat
  PROVE  Kept(l, DrawMany(st, source, n))
<1> DEFINE d == [l |-> l, source |-> source]
           s == [i \in 1..n |-> i]
<1>1. d.l = l /\ d.source = source
  OBVIOUS
<1> HIDE DEF d
<1>2. DOMAIN s = 1..Len(s) /\ Len(s) \in Nat
  BY Numbers
<1>3. DrawMany(st, source, n) = EachDraw!Fold(d, st, s)
  BY <1>1, DrawFold
<1> HIDE DEF s
<1>4. KeptBy(d, st)
  BY <1>1 DEF KeptBy
<1>5. ASSUME NEW t, NEW i \in DOMAIN s, KeptBy(d, t) PROVE KeptBy(d, DrawStep(d, t, s[i]))
  BY <1>1, <1>5, DrawOneKept DEF KeptBy, DrawStep
<1>6. KeptBy(d, EachDraw!Fold(d, st, s))
  BY <1>2, <1>4, <1>5, NatSets, EachDraw!FoldInvariant
<1> QED BY <1>1, <1>3, <1>6 DEF KeptBy
LEMMA DrawKept ==
  ASSUME NEW l, NEW st, Kept(l, st), NEW e, e.kind = "draw", IsEffect(e), NEW c, InContext(l, c)
  PROVE  Kept(l, Draw(st, e, c).st)
<1> DEFINE n == DrawQuantity(st, e, c)
           m == SupportedMultiplier(st, "replacement_double_draw")
           k == NonNegative(n) * m
<1>1. /\ e.amount \in Int /\ c.amount \subseteq Int
      /\ e.from \in {"amount", "trigger", "artifacts"}
  BY DEF IsEffect, AmountSources, InContext
<1>2. Cardinality({id \in Yours(st) : IsArtifact(st.permanents[id])}) \in Int
  BY CountIds, YoursAreIds DEF Kept
<1>3. OrElse(c.amount, e.amount) \in Int
  BY <1>1, OrElseInt
<1>4. n \in Int
  BY <1>1, <1>2, <1>3 DEF DrawQuantity
<1>5. m \in Nat
  BY SupportedMultiplierPositive DEF Kept, IsState, Multiplying
<1>6. Draw(st, e, c) = Ok(DrawMany(st, c.source, k))
  BY DEF Draw
<1> HIDE DEF n, m
<1>7. k \in Nat
  <2>1. NonNegative(n) \in Nat
    BY <1>4 DEF NonNegative
  <2> QED BY <1>5, <2>1
<1> HIDE DEF k
<1>8. Kept(l, DrawMany(st, c.source, k))
  BY <1>7, DrawManyKept DEF InContext
<1> QED BY <1>6, <1>8, OkKept

LEMMA ComputedLossInt ==
  ASSUME NEW st, IsState(st), NEW e, e.kind = "lose_life", IsEffect(e),
         e.from \in {"half_life", "devotion"}
  PROVE  ComputedLoss(st, e) \in Int
<1>1. st.life_you \in Int /\ st.life_opponent \in Int /\ IsFiniteSet(Ids(st))
  BY DEF IsState
<1>2. LifeOf(st, e.who) \in Int
  BY <1>1 DEF LifeOf
<1>3. (LifeOf(st, e.who) + 1) \div 2 \in Int
  BY <1>2
<1>4. e.from = "devotion" => Devotion(st, The(e.color)) \in Int
  BY <1>1, DevotionOf DEF IsEffect
<1> QED BY <1>3, <1>4 DEF ComputedLoss
LEMMA LoseLifeKept ==
  ASSUME NEW l, NEW st, Kept(l, st), NEW e, e.kind = "lose_life", IsEffect(e), NEW c, InContext(l, c)
  PROVE  Kept(l, LoseLife(st, e, c).st)
<1> DEFINE n == LifeLost(st, e, c)
           s == Bump([st EXCEPT !.life_you = @ - n], "life_loss", n)
<1>1. /\ e.amount \in Int /\ c.amount \subseteq Int
      /\ e.from \in {"amount", "trigger", "half_life", "devotion"}
  BY DEF IsEffect, AmountSources, InContext
<1>2. e.from \in {"half_life", "devotion"} => ComputedLoss(st, e) \in Int
  BY ComputedLossInt DEF Kept
<1>3. OrElse(c.amount, e.amount) \in Int
  BY <1>1, OrElseInt
<1>4. n \in Int
  BY <1>1, <1>2, <1>3 DEF LifeLost
<1>5. LoseLife(st, e, c) \in {Err(st, "illegal_action"), Ok(LoseOpponentLife(st, c.source, n)), Ok(s)}
  BY DEF LoseLife
<1> HIDE DEF n
<1>6. Kept(l, LoseOpponentLife(st, c.source, n))
  BY <1>4, LoseOpponentLifeKept DEF InContext
<1>7. Kept(l, s)
  BY <1>4, YouLoseKept, Zenon
<1> HIDE DEF s
<1> QED BY <1>5, <1>6, <1>7, OkKept, Zenon

LEMMA RepeatedQueue ==
  ASSUME NEW q, NEW ids, Queue(q, ids), NEW m, m \in Nat
  PROVE  Queue([i \in 1..m * Len(q) |-> q[((i - 1) % Len(q)) + 1]], ids)
<1> DEFINE k == Len(q)
           r == [i \in 1..m * k |-> q[((i - 1) % k) + 1]]
           S == Waiting(q, ids)
<1>1. q \in Seq(S) /\ \A tr \in S : IsPending(tr, ids)
  BY QueueIsList DEF Waiting
<1>2. k \in Nat /\ DOMAIN q = 1..k /\ \A i \in 1..k : q[i] \in S
  BY <1>1, ListOfElements
<1> HIDE DEF S, k
<1>3. ASSUME NEW i \in 1..m * k PROVE ((i - 1) % k) + 1 \in 1..k
  <2>1. m * k \in Nat /\ i >= 1 /\ i \in Nat
    BY <1>2
  <2>2. k # 0
    <3>1. k = 0 => m * k = 0
      BY <1>2
    <3> QED BY <2>1, <3>1
  <2>3. i - 1 \in Nat /\ k \in Nat /\ k > 0
    BY <1>2, <2>1, <2>2
  <2>4. (i - 1) % k \in 0..(k - 1)
    BY <2>3
  <2> QED BY <2>3, <2>4
<1>4. \A i \in 1..m * k : r[i] \in S
  BY <1>2, <1>3
<1>5. m * k \in Nat
  BY <1>2
<1>6. r \in Seq(S)
  BY <1>4, <1>5, SeqDef
<1> HIDE DEF r
<1>7. Queue(r, ids)
  BY <1>1, <1>6, ListIsQueue
<1> QED BY <1>7 DEF r, k

LEMMA PowerKept ==
  ASSUME NEW l, NEW st, Kept(l, st), NEW n, n \in Int
  PROVE  Kept(l, [st EXCEPT !.last_sacrificed_power = n])
<1>1. "last_sacrificed_power" \in StateFields /\ Harmless(st, "last_sacrificed_power", n)
  BY DEF StateFields, Harmless
<1> QED BY <1>1, FieldKept, Zenon
LEMMA MillOpponentKept ==
  ASSUME NEW l, NEW st, Kept(l, st), NEW source \in Ids(l.start), NEW m, m \in Nat
  PROVE  Kept(l, MillOpponent(st, source, m))
<1> DEFINE batch == TriggersFor(st, "card_to_opponent_graveyard", source, None)
           q == [i \in 1..m * Len(batch) |-> batch[((i - 1) % Len(batch)) + 1]]
           s0 == Bump(st, "mill", m)
           left == NonNegative(s0.library_opponent - m)
           more == s0.graveyard_opponent + m
           s1 == [s0 EXCEPT !.library_opponent = left]
           s2 == [s1 EXCEPT !.graveyard_opponent = more]
           s3 == [s2 EXCEPT !.pending_triggers = s2.pending_triggers \o q]
<1>1. MillOpponent(st, source, m)
        = [s0 EXCEPT !.library_opponent = left, !.graveyard_opponent = more,
                     !.pending_triggers = @ \o q]
  BY DEF MillOpponent
<1>2. Queue(q, Ids(st))
  <2>1. source \in Ids(st) /\ IsSequence(st.order) /\ None \subseteq Int
    BY Present DEF Kept, IsState, None
  <2>3. Queue(batch, Ids(st))
    BY <2>1, TriggersQueue
  <2> HIDE DEF batch
  <2> QED BY <2>3, RepeatedQueue, Zenon
<1> HIDE DEF q, batch
<1>3. Kept(l, s0)
  BY BumpKept, PlainKeys
<1>4. Ids(s0) = Ids(st)
  BY DEF Bump, Ids, Kept, IsState, StateFields
<1> HIDE DEF s0
<1>5. DOMAIN s0 = StateFields /\ s0.library_opponent \in Nat /\ s0.graveyard_opponent \in Nat
  BY <1>3 DEF Kept, IsState
<1>6. left \in Nat /\ more \in Nat
  BY <1>5 DEF NonNegative
<1> HIDE DEF left, more
<1>7. MillOpponent(st, source, m) = s3
  BY <1>1, <1>5 DEF StateFields
<1>8. Kept(l, s1) /\ Ids(s1) = Ids(st)
  <2>1. Kept(l, s1)
    BY <1>3, <1>6, NatKept, Zenon
  <2>2. Ids(s1) = Ids(st)
    BY <1>4, <1>5 DEF Ids, StateFields
  <2> QED BY <2>1, <2>2
<1> HIDE DEF s1
<1>9. Kept(l, s2)
  BY <1>6, <1>8, NatKept, Zenon
<1>10. Ids(s2) = Ids(st)
  BY <1>8 DEF Ids, Kept, IsState, StateFields
<1> HIDE DEF s2
<1>11. Kept(l, s3)
  <2>1. Queue(q, Ids(s2))
    BY <1>2, <1>10
  <2> QED BY <1>9, <2>1, QueueKept, Zenon
<1> QED BY <1>7, <1>11, Zenon
LEMMA MillKept ==
  ASSUME NEW l, NEW st, Kept(l, st), NEW e, e.kind = "mill", IsEffect(e), NEW c, InContext(l, c)
  PROVE  Kept(l, Mill(st, e, c).st)
<1> DEFINE n == MillQuantity(st, e, c)
           m == n * SupportedMultiplier(st, "replacement_double_mill")
           left == NonNegative(st.library_you - n)
           s == [st EXCEPT !.library_you = left]
<1>1. /\ e.amount \in Int /\ c.amount \subseteq Int
      /\ e.from \in {"amount", "trigger", "sacrificed_power", "opponent_graveyard", "half_up", "half_down"}
  BY DEF IsEffect, AmountSources, InContext
<1>2. OrElse(c.amount, e.amount) \in Int
  BY <1>1, OrElseInt
<1>3. /\ st.library_you \in Nat /\ st.library_opponent \in Nat
      /\ st.last_sacrificed_power \in Int /\ st.graveyard_opponent \in Nat
  BY DEF Kept, IsState
<1>4. n \in Int
  <2> DEFINE library == IF e.who = "opponent" THEN st.library_opponent ELSE st.library_you
  <2>1. library \in Nat
    BY <1>3
  <2> HIDE DEF library
  <2>2. (library + 1) \div 2 \in Int /\ library \div 2 \in Int
    BY <2>1
  <2> QED BY <1>1, <1>2, <1>3, <2>2 DEF MillQuantity, library
<1>5. Mill(st, e, c) = Ok(st) \/ (n > 0 /\ Mill(st, e, c)
        \in {Ok(MillOpponent(st, c.source, m)), Ok(Bump(s, "mill", n))})
  <2>1. Mill(st, e, c) = IF n <= 0 THEN Ok(st)
                         ELSE IF e.who = "opponent" THEN Ok(MillOpponent(st, c.source, m))
                         ELSE Ok(Bump(s, "mill", n))
    BY DEF Mill
  <2> HIDE DEF n, m, s
  <2> QED BY <1>4, <2>1
<1> HIDE DEF n
<1>6. ASSUME n > 0 PROVE Kept(l, MillOpponent(st, c.source, m))
  <2>1. SupportedMultiplier(st, "replacement_double_mill") \in Nat
    BY SupportedMultiplierPositive DEF Kept, IsState, Multiplying
  <2>2. m \in Nat
    BY <1>4, <1>6, <2>1
  <2> HIDE DEF m
  <2> QED BY <2>2, MillOpponentKept DEF InContext
<1>7. Kept(l, Bump(s, "mill", n))
  <2>1. left \in Nat
    BY <1>3, <1>4 DEF NonNegative
  <2> HIDE DEF left
  <2>2. Kept(l, s)
    BY <2>1, NatKept, Zenon
  <2> HIDE DEF s
  <2> QED BY <1>4, <2>2, BumpKept, PlainKeys
<1> HIDE DEF m, s
<1> QED BY <1>5, <1>6, <1>7, OkKept, Zenon
LEMMA GetEnergyKept ==
  ASSUME NEW l, NEW st, Kept(l, st), NEW e, e.kind = "get_energy", IsEffect(e)
  PROVE  Kept(l, GetEnergy(st, e).st)
<1> DEFINE n == IF e.from = "controlled_creatures" THEN Cardinality(YourCreatures(st)) ELSE e.amount
           s == Bump([st EXCEPT !.energy_you = @ + n], "energy", n)
<1>1. e.amount \in Int /\ Cardinality(YourCreatures(st)) \in Nat
  BY CountIds, YoursAreIds DEF IsEffect, Kept
<1>2. n \in Int
  BY <1>1
<1>3. GetEnergy(st, e) = Ok(IF n <= 0 THEN st ELSE s)
  BY DEF GetEnergy
<1> HIDE DEF n
<1>4. CASE n <= 0
  <2>1. GetEnergy(st, e) = Ok(st)
    BY <1>3, <1>4
  <2> QED BY <2>1, OkKept, Zenon
<1>5. CASE ~(n <= 0)
  <2>1. n \in Nat
    BY <1>2, <1>5
  <2>2. Kept(l, s)
    BY <2>1, EnergyKept, Zenon
  <2> HIDE DEF s
  <2>3. GetEnergy(st, e) = Ok(s)
    BY <1>3, <1>5
  <2> QED BY <2>2, <2>3, OkKept, Zenon
<1> QED BY <1>4, <1>5

\* A basic effect.
LEMMA BasicKept ==
  ASSUME NEW l, NEW st, Kept(l, st), NEW e, e.kind \in BasicEffects, Fit(e), NEW c, InContext(l, c)
  PROVE  Kept(l, ApplyBasic(st, e, c).st)
<1>0. IsEffect(e)
  BY DEF Fit
<1>1. CASE e.kind \in {"add_mana", "untap", "tap", "create_token", "add_counter", "remove_counter"}
  <2>1. CASE e.kind \in {"add_mana", "untap", "tap"}
    BY <1>0, <2>1, AddManaKept, UntapEffectKept, TapEffectKept DEF ApplyBasic
  <2>2. CASE e.kind \in {"create_token", "add_counter", "remove_counter"}
    BY <1>0, <2>2, TokenKept, AddCounterKept, RemoveCounterKept DEF ApplyBasic
  <2> QED BY <1>1, <2>1, <2>2
<1>2. CASE e.kind \in {"grant_lifelink", "grant_tap_bounce_nonland", "return_gy_to_hand", "blink",
                       "become_copy", "move_to_zone"}
  <2>1. CASE e.kind \in {"grant_lifelink", "grant_tap_bounce_nonland", "return_gy_to_hand"}
    BY <2>1, GrantEffectsKept, ReturnedKept DEF ApplyBasic, ReturnFromGraveyardToHand
  <2>2. CASE e.kind \in {"blink", "become_copy", "move_to_zone"}
    BY <1>0, <2>2, BlinkKept, BecomeCopyKept, MoveKept DEF ApplyBasic
  <2> QED BY <1>2, <2>1, <2>2
<1>3. CASE e.kind \in {"fight", "deal_damage", "gain_life", "draw"}
  BY <1>0, <1>3, FightKept, DealDamageKept, GainLifeKept, DrawKept DEF ApplyBasic
<1>4. CASE e.kind \in {"lose_life", "mill", "get_energy", "copy_pending_trigger"}
  BY <1>0, <1>4, LoseLifeKept, MillKept, GetEnergyKept, CopyTriggerKept DEF ApplyBasic
<1>5. CASE e.kind = "proliferate"
  <2>1. ApplyBasic(st, e, c) = Ok(Proliferate(st))
    BY <1>5 DEF ApplyBasic
  <2> QED BY <2>1, ProliferateKept, OkKept, Zenon
<1>6. CASE e.kind = "return_to_battlefield"
  <2>1. ApplyBasic(st, e, c) = Ok(ReturnToBattlefield(st, c.source))
    BY <1>6 DEF ApplyBasic
  <2>2. Kept(l, ReturnToBattlefield(st, c.source))
    BY SourceIn, ReturnKept
  <2> QED BY <2>1, <2>2, OkKept, Zenon
<1>7. CASE e.kind \in {"additional_combat", "extra_turn"}
  <2>1. /\ e.kind = "additional_combat" => ApplyBasic(st, e, c) = Ok(Bump(st, "extra_combat", 1))
        /\ e.kind = "extra_turn" => ApplyBasic(st, e, c) = Ok(Bump(st, "extra_turn", 1))
    BY DEF ApplyBasic
  <2>2. Kept(l, Bump(st, "extra_combat", 1)) /\ Kept(l, Bump(st, "extra_turn", 1))
    BY BumpKept, PlainKeys
  <2> QED BY <1>7, <2>1, <2>2, OkKept, Zenon
<1> QED BY <1>1, <1>2, <1>3, <1>4, <1>5, <1>6, <1>7 DEF BasicEffects

\* What a computed loss hands to the effects after it is an integer.
LEMMA AmountForInt ==
  ASSUME NEW l, NEW acc, Kept(l, acc.st), acc.amount \subseteq Int, NEW e, IsEffect(e)
  PROVE  AmountFor(acc, e) \subseteq Int
<1>1. CASE e.kind = "lose_life" /\ e.from \in {"half_life", "devotion"}
  <2>1. ComputedLoss(acc.st, e) \in Int
    BY <1>1, ComputedLossInt DEF Kept
  <2>2. AmountFor(acc, e) = Some(ComputedLoss(acc.st, e))
    BY <1>1 DEF AmountFor
  <2> QED BY <2>1, <2>2 DEF Some
<1>2. CASE ~(e.kind = "lose_life" /\ e.from \in {"half_life", "devotion"})
  BY <1>2 DEF AmountFor
<1> QED BY <1>1, <1>2

\* A context whose amount is another integer.
LEMMA ContextWith ==
  ASSUME NEW l, NEW c, InContext(l, c), NEW n, n \subseteq Int
  PROVE  InContext(l, [c EXCEPT !.amount = n])
  BY DEF InContext
LEMMA ContextNow ==
  ASSUME NEW l, NEW acc, Kept(l, acc.st), acc.amount \subseteq Int, NEW e, IsEffect(e), NEW c, InContext(l, c)
  PROVE  InContext(l, [c EXCEPT !.amount = AmountFor(acc, e)])
<1>1. AmountFor(acc, e) \subseteq Int
  BY AmountForInt, Zenon
<1> QED BY <1>1, ContextWith, Zenon

\* A list of effects that are fit.
FitList(effects, kinds) == ListOf(effects, kinds) /\ \A i \in DOMAIN effects : Fit(effects[i])

\* The effects of a spell, with the books d.l and in the context d.c.
BasicIn(d, acc, e) == BasicStep(d.c, acc, e)
KeepsBooks(d, acc) == Kept(d.l, acc.st) /\ acc.amount \subseteq Int
EachKeptBasic == INSTANCE FoldFacts WITH Op <- BasicIn, P <- KeepsBooks
LEMMA CarryingKept ==
  ASSUME NEW l, NEW r, Kept(l, r.st), NEW amount
  PROVE  Kept(l, Carrying(r, amount).st) /\ Carrying(r, amount).amount = amount
         /\ Kept(l, Result(r).st) /\ Carrying(r, amount).err = r.err
<1>1. Carrying(r, amount).st = r.st /\ Result(r).st = r.st
  BY DEF Carrying, Result
<1>2. Carrying(r, amount).amount = amount /\ Carrying(r, amount).err = r.err
  BY DEF Carrying
<1> QED BY <1>1, <1>2
LEMMA KeptBasicFold ==
  ASSUME NEW r, NEW effects, NEW d
  PROVE  RunBasic(r, effects, d.c) = EachKeptBasic!Fold(d, Carrying(r, d.c.amount), effects)
  BY Zenon DEF RunBasic, BasicIn, BasicStep, FoldLeft, MapThenFoldSet, Max, EachKeptBasic!Fold, EachKeptBasic!LastOf
LEMMA RunBasicKept ==
  ASSUME NEW l, NEW r, Kept(l, r.st), NEW effects, FitList(effects, BasicEffects),
         NEW c, InContext(l, c)
  PROVE  Kept(l, RunBasic(r, effects, c).st)
<1> DEFINE d == [l |-> l, c |-> c]
<1>0. d.l = l /\ d.c = c
  OBVIOUS
<1> HIDE DEF d
<1>1. KeepsBooks(d, Carrying(r, c.amount))
  <2>1. Kept(l, Carrying(r, c.amount).st) /\ Carrying(r, c.amount).amount = c.amount
    BY CarryingKept
  <2>2. c.amount \subseteq Int
    BY DEF InContext
  <2> QED BY <1>0, <2>1, <2>2 DEF KeepsBooks
<1>2. ASSUME NEW acc, NEW i \in DOMAIN effects, KeepsBooks(d, acc)
      PROVE  KeepsBooks(d, BasicIn(d, acc, effects[i]))
  <2> DEFINE e == effects[i]
             n == AmountFor(acc, e)
             now == [c EXCEPT !.amount = n]
             done == ApplyBasic(acc.st, e, now)
  <2>1. e.kind \in BasicEffects /\ Fit(e) /\ IsEffect(e)
    BY DEF FitList, ListOf, Fit
  <2>2. Kept(l, acc.st) /\ acc.amount \subseteq Int
    BY <1>0, <1>2 DEF KeepsBooks
  <2> HIDE DEF e
  <2>3. n \subseteq Int
    BY <2>1, <2>2, AmountForInt, Zenon
  <2>4. InContext(l, now)
    BY <2>3, ContextWith, Zenon
  <2>5. Kept(l, done.st)
    BY <2>1, <2>2, <2>4, BasicKept, Zenon
  <2>6. BasicIn(d, acc, e) = IF acc.err # "ok" THEN acc ELSE Carrying(done, n)
    BY <1>0 DEF BasicIn, BasicStep
  <2> HIDE DEF n, done
  <2>7. Kept(l, Carrying(done, n).st) /\ Carrying(done, n).amount = n
    BY <2>5, CarryingKept
  <2>8. KeepsBooks(d, Carrying(done, n))
    BY <1>0, <2>3, <2>7, Zenon DEF KeepsBooks
  <2>9. KeepsBooks(d, BasicIn(d, acc, e))
    BY <1>2, <2>6, <2>8, Zenon
  <2> QED BY <2>9 DEF e
<1>3. DOMAIN effects = 1..Len(effects) /\ Len(effects) \in Nat
  BY ListIndices DEF FitList, ListOf
<1>4. KeepsBooks(d, EachKeptBasic!Fold(d, Carrying(r, c.amount), effects))
  BY <1>1, <1>2, <1>3, NatSets, EachKeptBasic!FoldInvariant
<1>5. RunBasic(r, effects, c) = EachKeptBasic!Fold(d, Carrying(r, c.amount), effects)
  BY <1>0, KeptBasicFold
<1> QED BY <1>0, <1>4, <1>5 DEF KeepsBooks

\* The effects of the abilities of a card are fit, and its costs are those of the schema.
CostList(costs) == ListOf(costs, CostKinds) /\ \A i \in DOMAIN costs : IsCost(costs[i])
LEMMA CardFit ==
  ASSUME NEW oracle \in DOMAIN Cards, NEW i \in DOMAIN Cards[oracle].abilities
  PROVE  LET ab == Cards[oracle].abilities[i] IN
           /\ ab.kind \in {"activated", "triggered", "grant_activated"} => FitList(ab.effects, EffectKinds)
           /\ ab.kind \in {"activated", "grant_activated"} => CostList(ab.costs)
           /\ IsSpellBody(ab) => FitList(ab.effects, BasicEffects)
<1> DEFINE ab == Cards[oracle].abilities[i]
<1>1. ab \in ToSet(Cards[oracle].abilities)
  BY DEF ToSet
<1>2. IsAbility(ab) /\ (IsSpellBody(ab) => ListOf(ab.effects, BasicEffects))
  BY <1>1, CardsAssumption DEF WellFormed
<1> HIDE DEF ab
<1>3. ASSUME ab.kind \in {"activated", "triggered", "grant_activated"}, NEW j \in DOMAIN ab.effects
      PROVE  Fit(ab.effects[j])
  <2>1. IsEffect(ab.effects[j])
    BY <1>2, <1>3 DEF IsAbility
  <2>2. ab.effects[j] \in ToSet(ab.effects)
    BY DEF ToSet
  <2>3. HurtsBoth(ab.effects[j]) => SharedDamage
    BY <1>1, <1>3, <2>2 DEF SharedDamage
  <2> QED BY <2>1, <2>3 DEF Fit
<1>4. ab.kind \in {"activated", "triggered", "grant_activated"} => FitList(ab.effects, EffectKinds)
  BY <1>2, <1>3 DEF IsAbility, FitList
<1>5. ab.kind \in {"activated", "grant_activated"} => CostList(ab.costs)
  BY <1>2 DEF IsAbility, CostList
<1>6. IsSpellBody(ab) => FitList(ab.effects, BasicEffects)
  BY <1>2, <1>3 DEF IsSpellBody, FitList
<1> QED BY <1>4, <1>5, <1>6 DEF ab
LEMMA AbilityFit ==
  ASSUME NEW p, NEW i \in DOMAIN AbilitiesOf(p)
  PROVE  LET ab == AbilitiesOf(p)[i] IN
           /\ ab.kind \in {"activated", "triggered", "grant_activated"} => FitList(ab.effects, EffectKinds)
           /\ ab.kind \in {"activated", "grant_activated"} => CostList(ab.costs)
<1>1. CASE HasSemantics(p)
  BY <1>1, CardFit DEF HasSemantics, AbilitiesOf
<1>2. CASE ~HasSemantics(p)
  BY <1>2 DEF AbilitiesOf
<1> QED BY <1>1, <1>2

\* The body of a spell: the abilities of its card in turn.
BodyIn(d, r, ab) == BodyStep(d.c, r, ab)
ResultKept(d, r) == Kept(d.l, r.st)
EachKeptBody == INSTANCE FoldFacts WITH Op <- BodyIn, P <- ResultKept
LEMMA KeptBodyFold ==
  ASSUME NEW st, NEW abilities, NEW d
  PROVE  RunBodies(st, abilities, d.c) = EachKeptBody!Fold(d, Ok(st), abilities)
  BY Zenon DEF RunBodies, BodyIn, BodyStep, FoldLeft, MapThenFoldSet, Max, EachKeptBody!Fold, EachKeptBody!LastOf
LEMMA SpellBodyKept ==
  ASSUME NEW l, NEW st, Kept(l, st), NEW spell, NEW source, source \in Ids(l.start), NEW target
  PROVE  Kept(l, ApplySpellBody(st, spell, source, target).st)
<1> DEFINE c == [source |-> source, target |-> target, subject |-> NoId, amount |-> None]
           d == [l |-> l, c |-> c]
           abilities == Cards[spell].abilities
<1>0. d.l = l /\ d.c = c /\ InContext(l, c)
  BY DEF InContext, None
<1>1. CASE spell \notin DOMAIN Cards
  <2>1. ApplySpellBody(st, spell, source, target) = Err(st, "illegal_action")
    BY <1>1 DEF ApplySpellBody
  <2> QED BY <2>1, OkKept, Zenon
<1>2. CASE spell \in DOMAIN Cards
  <2>1. /\ DOMAIN abilities = 1..Len(abilities) /\ Len(abilities) \in Nat
        /\ \A i \in DOMAIN abilities : IsSpellBody(abilities[i])
                                        => FitList(abilities[i].effects, BasicEffects)
    BY <1>2, CardFit, CardsAssumption, ListIndices DEF WellFormed
  <2>2. ApplySpellBody(st, spell, source, target)
          \in {Err(st, "unsupported_semantics"), EachKeptBody!Fold(d, Ok(st), abilities)}
    <3>1. ApplySpellBody(st, spell, source, target)
            \in {Err(st, "unsupported_semantics"), RunBodies(st, abilities, c)}
      BY <1>2 DEF ApplySpellBody
    <3> HIDE DEF c, d, abilities
    <3>2. RunBodies(st, abilities, c) = EachKeptBody!Fold(d, Ok(st), abilities)
      BY <1>0, KeptBodyFold
    <3> QED BY <3>1, <3>2
  <2> HIDE DEF c, d, abilities
  <2>3. ResultKept(d, Ok(st))
    BY <1>0, OkKept DEF ResultKept
  <2>4. ASSUME NEW r, NEW i \in DOMAIN abilities, ResultKept(d, r)
        PROVE  ResultKept(d, BodyIn(d, r, abilities[i]))
    <3>1. IsSpellBody(abilities[i]) => Kept(l, RunBasic(r, abilities[i].effects, c).st)
      BY <1>0, <2>1, <2>4, RunBasicKept DEF ResultKept
    <3> QED BY <1>0, <2>4, <3>1 DEF ResultKept, BodyIn, BodyStep
  <2>5. ResultKept(d, EachKeptBody!Fold(d, Ok(st), abilities))
    BY <2>1, <2>3, <2>4, NatSets, EachKeptBody!FoldInvariant
  <2>6. Kept(l, EachKeptBody!Fold(d, Ok(st), abilities).st)
    BY <1>0, <2>5 DEF ResultKept
  <2> QED BY <2>2, <2>6, OkKept
<1> QED BY <1>1, <1>2

LEMMA ImprintKept ==
  ASSUME NEW l, NEW st, Kept(l, st), NEW e, NEW c PROVE Kept(l, ImprintInstant(st, e, c).st)
<1> DEFINE legal == {id \in Ids(st) \ {c.source} : LET p == st.permanents[id] IN
                      /\ p.zone = "hand" /\ p.controller = "you" /\ HasSemantics(p)
                      /\ "instant" \in CardTypes(p) /\ Cards[p.oracle].mana_value <= e.max_mana_value}
           chosen == First(legal)
           card == Some(st.permanents[chosen].oracle)
           s1 == Flagged(st, chosen, "zone", "exile")
           s2 == Flagged(s1, c.source, "imprinted", card)
           both == [st EXCEPT !.permanents[chosen].zone = "exile",
                              !.permanents[c.source].imprinted = card]
<1>1. ImprintInstant(st, e, c) \in {Err(st, "resource_deficit"), Ok(Bump(s2, "imprint", 1))}
  <2>1. ImprintInstant(st, e, c)
          = IF legal = {} THEN Err(st, "resource_deficit") ELSE Ok(Bump(both, "imprint", 1))
    BY DEF ImprintInstant
  <2> HIDE DEF legal, chosen, card
  <2>2. both = s2
    <3> DEFINE t == [st EXCEPT !.permanents[chosen].zone = "exile"]
    <3>1. t = s1
      BY DEF Flagged
    <3>2. both = [t EXCEPT !.permanents[c.source].imprinted = card]
      BY Zenon
    <3> HIDE DEF t, both
    <3>3. both = [s1 EXCEPT !.permanents[c.source].imprinted = card]
      BY <3>1, <3>2
    <3> HIDE DEF s1
    <3> QED BY <3>3 DEF Flagged
  <2> QED BY <2>1, <2>2, Zenon
<1> HIDE DEF legal, chosen, card
<1>2. Kept(l, s1)
  BY Fitting, FlagNames, FlaggedKept
<1> HIDE DEF s1
<1>3. Kept(l, s2)
  BY <1>2, FreeFields, FlaggedKept
<1> HIDE DEF s2
<1>4. Kept(l, Bump(s2, "imprint", 1))
  BY <1>3, BumpKept, PlainKeys
<1> QED BY <1>1, <1>4, OkKept, Zenon

LEMMA CountedKept ==
  ASSUME NEW l, NEW st, Kept(l, st), NEW spell, NEW source \in Ids(l.start)
  PROVE  Kept(l, CountedAsCast(st, spell, source))
<1> DEFINE s1 == [st EXCEPT !.last_cast_spell = spell]
           s2 == Bump(s1, "cast", 1)
<1>1. CountedAsCast(st, spell, source) = QueueTriggers(s2, "cast", source, None)
  BY DEF CountedAsCast
<1>2. Kept(l, s1)
  <2>1. "last_cast_spell" \in StateFields /\ Harmless(st, "last_cast_spell", spell)
    BY DEF StateFields, Harmless
  <2> QED BY <2>1, FieldKept, Zenon
<1> HIDE DEF s1
<1>3. Kept(l, s2) /\ source \in Ids(s2)
  BY <1>2, BumpKept, PlainKeys, Present
<1> HIDE DEF s2
<1>4. None \subseteq Int
  BY DEF None
<1> QED BY <1>1, <1>3, <1>4, TriggersKept, Zenon

LEMMA SpellKept ==
  ASSUME NEW l, NEW st, Kept(l, st), NEW e, NEW c, InContext(l, c), NEW spell
  PROVE  Kept(l, RunSpell(st, e, c, spell).st)
<1>1. ASSUME NEW r, Kept(l, r.st), NEW s, NEW source \in Ids(l.start)
      PROVE  Kept(l, SpellDone(r, e, s, source).st)
  <2>1. SpellDone(r, e, s, source)
          \in {Result(r), Ok(CountedAsCast(r.st, s, source)), Ok(Bump(r.st, "spell_copy", 1))}
    BY DEF SpellDone
  <2>2. Kept(l, Result(r).st)
    BY <1>1, CarryingKept
  <2>3. Kept(l, CountedAsCast(r.st, s, source)) /\ Kept(l, Bump(r.st, "spell_copy", 1))
    <3> DEFINE t == r.st
    <3>1. Kept(l, t)
      BY <1>1
    <3> HIDE DEF t
    <3>2. Kept(l, CountedAsCast(t, s, source)) /\ Kept(l, Bump(t, "spell_copy", 1))
      BY <3>1, CountedKept, BumpKept, PlainKeys
    <3> QED BY <3>2 DEF t
  <2> QED BY <2>1, <2>2, <2>3, OkKept, Zenon
<1>2. c.source \in Ids(l.start)
  BY DEF InContext
<1>3. \A s, target : Kept(l, ApplySpellBody(st, s, c.source, target).st)
  BY <1>2, SpellBodyKept
<1>4. CASE spell = None
  BY <1>4, OkKept DEF RunSpell
<1>5. CASE spell # None
  <2> DEFINE target == IF e.kind = "cast_imprinted_spell" THEN NoId ELSE c.target
             r == ApplySpellBody(st, The(spell), c.source, target)
  <2>1. RunSpell(st, e, c, spell) = SpellDone(r, e, spell, c.source)
    BY <1>5 DEF RunSpell
  <2>2. Kept(l, r.st)
    BY <1>3
  <2> HIDE DEF r
  <2> QED BY <1>1, <1>2, <2>1, <2>2, Zenon
<1> QED BY <1>4, <1>5

LEMMA OneKept ==
  ASSUME NEW l, NEW st, Kept(l, st), NEW e, e.kind \in EffectKinds, Fit(e), NEW c, InContext(l, c)
  PROVE  Kept(l, ApplyOne(st, e, c).st)
<1>1. CASE e.kind = "imprint_instant_from_hand"
  BY <1>1, ImprintKept DEF ApplyOne
<1>2. CASE e.kind \in {"cast_imprinted_spell", "copy_last_cast_spell"}
  <2>1. ApplyOne(st, e, c) = RunSpell(st, e, c, SpellFor(st, e, c))
    BY <1>2 DEF ApplyOne
  <2> QED BY <2>1, SpellKept, Zenon
<1>3. CASE e.kind \in BasicEffects
  <2>1. e.kind \notin {"imprint_instant_from_hand", "cast_imprinted_spell", "copy_last_cast_spell"}
    BY <1>3 DEF BasicEffects
  <2>2. ApplyOne(st, e, c) = ApplyBasic(st, e, c)
    BY <2>1 DEF ApplyOne
  <2> QED BY <1>3, <2>2, BasicKept, Zenon
<1> QED BY <1>1, <1>2, <1>3 DEF EffectKinds

\* The effects of an ability, in order.
EffectIn(d, acc, e) == EffectStep(d.c, acc, e)
EachKeptEffect == INSTANCE FoldFacts WITH Op <- EffectIn, P <- KeepsBooks
LEMMA KeptEffectsFold ==
  ASSUME NEW st, NEW effects, NEW d
  PROVE  ApplyEffects(st, effects, d.c)
           = Result(EachKeptEffect!Fold(d, Carrying(Ok(st), d.c.amount), effects))
  BY Zenon DEF ApplyEffects, EffectIn, EffectStep, FoldLeft, MapThenFoldSet, Max, EachKeptEffect!Fold, EachKeptEffect!LastOf
LEMMA EffectsKept ==
  ASSUME NEW l, NEW st, Kept(l, st), NEW effects, FitList(effects, EffectKinds),
         NEW c, InContext(l, c)
  PROVE  Kept(l, ApplyEffects(st, effects, c).st)
<1> DEFINE d == [l |-> l, c |-> c]
<1>0. d.l = l /\ d.c = c
  OBVIOUS
<1> HIDE DEF d
<1>1. KeepsBooks(d, Carrying(Ok(st), c.amount))
  <2>0. Kept(l, Ok(st).st)
    BY OkKept
  <2>1. Kept(l, Carrying(Ok(st), c.amount).st) /\ Carrying(Ok(st), c.amount).amount = c.amount
    BY <2>0, CarryingKept
  <2>2. c.amount \subseteq Int
    BY DEF InContext
  <2> QED BY <1>0, <2>1, <2>2 DEF KeepsBooks
<1>2. ASSUME NEW acc, NEW i \in DOMAIN effects, KeepsBooks(d, acc)
      PROVE  KeepsBooks(d, EffectIn(d, acc, effects[i]))
  <2> DEFINE e == effects[i]
             n == AmountFor(acc, e)
             now == [c EXCEPT !.amount = n]
             done == ApplyOne(acc.st, e, now)
  <2>1. e.kind \in EffectKinds /\ Fit(e) /\ IsEffect(e)
    BY DEF FitList, ListOf, Fit
  <2>2. Kept(l, acc.st) /\ acc.amount \subseteq Int
    BY <1>0, <1>2 DEF KeepsBooks
  <2> HIDE DEF e
  <2>3. n \subseteq Int
    BY <2>1, <2>2, AmountForInt, Zenon
  <2>4. InContext(l, now)
    BY <2>3, ContextWith, Zenon
  <2>5. Kept(l, done.st)
    BY <2>1, <2>2, <2>4, OneKept, Zenon
  <2>6. EffectIn(d, acc, e) = IF acc.err # "ok" THEN acc ELSE Carrying(done, n)
    BY <1>0 DEF EffectIn, EffectStep
  <2> HIDE DEF n, done
  <2>7. Kept(l, Carrying(done, n).st) /\ Carrying(done, n).amount = n
    BY <2>5, CarryingKept
  <2>8. KeepsBooks(d, Carrying(done, n))
    BY <1>0, <2>3, <2>7, Zenon DEF KeepsBooks
  <2>9. KeepsBooks(d, EffectIn(d, acc, e))
    BY <1>2, <2>6, <2>8, Zenon
  <2> QED BY <2>9 DEF e
<1>3. DOMAIN effects = 1..Len(effects) /\ Len(effects) \in Nat
  BY ListIndices DEF FitList, ListOf
<1>4. KeepsBooks(d, EachKeptEffect!Fold(d, Carrying(Ok(st), c.amount), effects))
  BY <1>1, <1>2, <1>3, NatSets, EachKeptEffect!FoldInvariant
<1>5. ApplyEffects(st, effects, c)
        = Result(EachKeptEffect!Fold(d, Carrying(Ok(st), c.amount), effects))
  BY <1>0, KeptEffectsFold
<1> DEFINE r == EachKeptEffect!Fold(d, Carrying(Ok(st), c.amount), effects)
<1>6. Kept(l, r.st)
  BY <1>0, <1>4 DEF KeepsBooks
<1>7. ApplyEffects(st, effects, c) = Result(r)
  BY <1>5
<1> HIDE DEF r
<1>8. Kept(l, Result(r).st)
  BY <1>6, CarryingKept
<1> QED BY <1>7, <1>8

=============================================================================
