------------------------------ MODULE StepProofs ------------------------------
(***************************************************************************)
(* What a step of the executor guarantees for every semantics map of the   *)
(* IR, every state and every step.                                         *)
(*                                                                         *)
(* The state-based actions leave a stable board: dying moves a creature    *)
(* off the battlefield and touches no other permanent, and whether a       *)
(* creature is doomed depends on that permanent alone; so nothing is       *)
(* doomed when the doomed have died, and the loop of                       *)
(* apply_state_based_actions needs one pass, never its bound of sixteen.   *)
(*                                                                         *)
(* A typed state stays typed, and its books stay balanced: the books of    *)
(* ExecutorProofs are kept by costs, triggers, casts, seeds and the        *)
(* state-based actions as they are by the effects.  The typing is part of  *)
(* the invariant because no ledger is inductive alone: that an amount is   *)
(* added to a total and to its counter says nothing of an amount that is   *)
(* no number.                                                              *)
(***************************************************************************)
EXTENDS ExecutorProofs

\* A permanent that has died is not on the battlefield, so nothing more happens to it.
LEMMA DiedIsGone == ASSUME NEW st, NEW id PROVE ~IsDoomed(Died(st, id))
<1>1. Died(st, id).zone \in {"exile", "graveyard"}
  BY DEF Died, With
<1> QED BY <1>1 DEF IsDoomed, Controlled, OnBattlefield

LEMMA SettledPermanents ==
  ASSUME NEW st, NEW dying
  PROVE  /\ Ids(DieInOrder(st, dying)) = Ids(st)
         /\ \A id \in Ids(st) : id \notin Doomed(st) =>
              DieInOrder(st, dying).permanents[id] = st.permanents[id]
         /\ \A id \in Doomed(st) : \E before :
              DieInOrder(st, dying).permanents[id] = Died(before, id)
  BY DEF DieInOrder, With, Ids, Doomed

\* One pass of apply_state_based_actions leaves no creature doomed, whatever the state, so the
\* sixteen passes the code allows itself are never needed.
THEOREM OnePassIsEnough == \A st : Doomed(ApplySBA(st)) = {}
<1> SUFFICES ASSUME NEW st, NEW id \in Ids(ApplySBA(st)), IsDoomed(ApplySBA(st).permanents[id])
             PROVE  FALSE
  BY DEF Doomed
<1>1. /\ id \in Ids(st)
      /\ id \notin Doomed(st) => ApplySBA(st).permanents[id] = st.permanents[id]
      /\ id \in Doomed(st) => \E before : ApplySBA(st).permanents[id] = Died(before, id)
  <2>1. \E dying : ApplySBA(st) = DieInOrder(st, dying)
    BY Zenon DEF ApplySBA
  <2> QED BY <2>1, SettledPermanents
<1>2. CASE id \in Doomed(st)
  BY <1>1, <1>2, DiedIsGone
<1>3. CASE id \notin Doomed(st)
  BY <1>1, <1>3 DEF Doomed
<1> QED BY <1>2, <1>3

-----------------------------------------------------------------------------
(* Dying *)
LEMMA DiedPermanent ==
  ASSUME NEW st, NEW id, IsPermanent(st.permanents[id])
  PROVE  Becomes(st.permanents[id], Died(st, id))
<1> DEFINE p == st.permanents[id]
           zone == IF ExiledOnDeath(st, id) THEN "exile" ELSE "graveyard"
           upd == [damage_marked |-> 0, tapped |-> FALSE, zone |-> zone]
           q1 == [p EXCEPT !["damage_marked"] = 0]
           q2 == [q1 EXCEPT !["tapped"] = FALSE]
           q3 == [q2 EXCEPT !["zone"] = zone]
<1>1. IsPermanent(p) /\ DOMAIN p = DOMAIN Permanent /\ zone \in Zones /\ 0 \in Int
  BY FlagNames DEF IsPermanent
<1>2. Died(st, id) = [x \in DOMAIN p \cup DOMAIN upd |-> IF x \in DOMAIN upd THEN upd[x] ELSE p[x]]
  BY DEF Died, With
<1> HIDE DEF p, zone
<1>3. DOMAIN upd = {"damage_marked", "tapped", "zone"}
      /\ upd["damage_marked"] = 0 /\ upd["tapped"] = FALSE /\ upd["zone"] = zone
  OBVIOUS
<1>4. {"damage_marked", "tapped", "zone"} \subseteq DOMAIN p
  BY <1>1 DEF Permanent
<1> HIDE DEF upd
<1>5. Died(st, id) = [x \in DOMAIN p |-> IF x \in DOMAIN upd THEN upd[x] ELSE p[x]]
  BY <1>2, <1>3, <1>4
<1>6. q3 = [x \in DOMAIN p |-> IF x \in DOMAIN upd THEN upd[x] ELSE p[x]]
  BY <1>3, <1>4
<1>7. Becomes(p, q1)
  BY <1>1, Unchanged, Fitting, NextField
<1> HIDE DEF q1
<1>8. Becomes(p, q2)
  BY <1>7, Cleared, FlagNames
<1> HIDE DEF q2
<1>9. Becomes(p, q3)
  BY <1>1, <1>8, Fitting, NextField
<1> HIDE DEF q3
<1> QED BY <1>5, <1>6, <1>9 DEF p

\* What a death puts into the queue.
LEMMA DeathQueue ==
  ASSUME NEW st, IsSequence(st.order), NEW id \in Ids(st), IsPermanent(st.permanents[id])
  PROVE  Queue(DeathEntries(st, id), Ids(st))
<1> DEFINE p == st.permanents[id]
           amount == {n \in EffectiveToughness(p) : n > 0}
           seen == TriggersFor(st, "dies", id, amount)
           back == IF p.undying /\ Counters(p, "p1p1") = 0
                   THEN <<Pending(id, UndyingReturn, id, None)>> ELSE <<>>
<1>1. DeathEntries(st, id) = IF ExiledOnDeath(st, id) THEN <<>> ELSE seen \o back
  BY DEF DeathEntries
<1>2. amount \subseteq Int
  BY PTTypes
<1> HIDE DEF amount
<1>3. Queue(seen, Ids(st))
  BY <1>2, TriggersQueue, Zenon
<1>4. Queue(back, Ids(st))
  <2>1. IsPending(Pending(id, UndyingReturn, id, None), Ids(st))
    BY DEF IsPending, Pending, None
  <2> QED BY <2>1, QueueOne, QueueEmpty
<1> HIDE DEF seen, back
<1>5. Queue(seen \o back, Ids(st))
  BY <1>3, <1>4, QueueConcat
<1> QED BY <1>1, <1>5, QueueEmpty

\* One permanent dies.
LEMMA DieKept ==
  ASSUME NEW l, NEW st, Kept(l, st), NEW id \in Ids(st) PROVE Kept(l, Die(st, id))
<1> DEFINE p == Died(st, id)
           n == IF CountsAsDeath(st, id) THEN 1 ELSE 0
           q == DeathEntries(st, id)
           s1 == [st EXCEPT !.permanents[id] = p]
           s2 == Bump(s1, "death", n)
           s3 == [s2 EXCEPT !.pending_triggers = s2.pending_triggers \o q]
<1>1. Die(st, id) = [st EXCEPT !.permanents[id] = p, !.event_counters["death"] = @ + n,
                               !.pending_triggers = @ \o q]
  BY DEF Die
<1>2. Becomes(st.permanents[id], p)
  BY PermanentIn, DiedPermanent
<1>3. Queue(q, Ids(st))
  BY DeathQueue, PermanentIn DEF Kept, IsState
<1>4. n \in Int
  OBVIOUS
<1>5. DOMAIN st = StateFields
  BY DEF Kept, IsState
<1> HIDE DEF p, n, q
<1>6. Die(st, id) = s3
  BY <1>1, <1>5 DEF Bump, StateFields
<1>7. Kept(l, s1) /\ Ids(s1) = Ids(st)
  <2>1. Kept(l, s1)
    BY <1>2, PermanentKept, Zenon
  <2>2. Ids(s1) = Ids(st)
    BY <1>5 DEF Ids, StateFields
  <2> QED BY <2>1, <2>2
<1> HIDE DEF s1
<1>8. Kept(l, s2)
  BY <1>4, <1>7, BumpKept, PlainKeys
<1>9. Ids(s2) = Ids(st)
  BY <1>7 DEF Bump, Ids, Kept, IsState, StateFields
<1> HIDE DEF s2
<1>10. Queue(q, Ids(s2))
  BY <1>3, <1>9
<1>11. Kept(l, s3)
  BY <1>8, <1>10, QueueKept, Zenon
<1> QED BY <1>6, <1>11, Zenon

LEMMA SacrificeKept ==
  ASSUME NEW l, NEW st, Kept(l, st), NEW id \in Ids(st) PROVE Kept(l, Sacrifice(st, id))
<1> DEFINE s1 == Bump(st, "sacrifice", 1)
           s2 == QueueTriggers(s1, "sacrificed", id, None)
<1>1. Kept(l, s1)
  BY BumpKept, PlainKeys
<1>2. Ids(s1) = Ids(st)
  BY DEF Bump, Ids, Kept, IsState, StateFields
<1> HIDE DEF s1
<1>3. None \subseteq Int
  BY DEF None
<1>4. Kept(l, s2)
  BY <1>1, <1>2, <1>3, TriggersKept, Zenon
<1>5. Ids(s2) = Ids(st)
  BY <1>1, <1>2 DEF QueueTriggers, Ids, Kept, IsState, StateFields
<1> HIDE DEF s2
<1>6. Kept(l, Die(s2, id))
  BY <1>4, <1>5, DieKept
<1> QED BY <1>6 DEF Sacrifice, s2, s1

\* While some of them are gone, the state still has its permanents and its order.
LEMMA WithoutSome ==
  ASSUME NEW st, IsState(st), NEW gone
  PROVE  LET s == Without(st, gone) IN
           /\ IsSequence(s.order) /\ Ids(s) = Ids(st)
           /\ \A id \in Ids(s) : Becomes(st.permanents[id], s.permanents[id])
<1> DEFINE perms == [id \in DOMAIN st.permanents |->
                       IF id \in gone THEN [st.permanents[id] EXCEPT !.zone = "graveyard"]
                       ELSE st.permanents[id]]
           s == Without(st, gone)
<1>1. s = [st EXCEPT !.permanents = perms]
  BY DEF Without
<1>2. ASSUME NEW id \in Ids(st) PROVE Becomes(st.permanents[id], perms[id])
  <2> DEFINE p == st.permanents[id]
  <2>1. IsPermanent(p)
    BY DEF IsState
  <2>2. perms[id] \in {p, [p EXCEPT !["zone"] = "graveyard"]}
    BY DEF Ids
  <2> HIDE DEF p, perms
  <2>3. Becomes(p, p) /\ Becomes(p, [p EXCEPT !["zone"] = "graveyard"])
    BY <2>1, Unchanged, FieldBecomes, Fitting, FlagNames
  <2> QED BY <2>2, <2>3 DEF p
<1>3. DOMAIN perms = Ids(st)
  BY DEF Ids
<1>4. DOMAIN st = StateFields /\ IsSequence(st.order)
  BY DEF IsState
<1> HIDE DEF perms, s
<1>5. s.order = st.order /\ s.permanents = perms
  BY <1>1, <1>4 DEF StateFields
<1>6. /\ IsSequence(s.order) /\ Ids(s) = Ids(st)
      /\ \A id \in Ids(s) : Becomes(st.permanents[id], s.permanents[id])
  <2>1. Ids(s) = Ids(st)
    BY <1>3, <1>5 DEF Ids
  <2> QED BY <1>2, <1>4, <1>5, <2>1
<1> QED BY <1>6 DEF s

\* The doomed die, the one after the other.
LEMMA DieInOrderKept ==
  ASSUME NEW l, NEW st, Kept(l, st), NEW dying, IsSequence(dying), \A i \in DOMAIN dying : dying[i] \in Doomed(st)
  PROVE  Kept(l, DieInOrder(st, dying))
<1> DEFINE Earlier(id) == {dying[j] : j \in {k \in DOMAIN dying :
                             \A i \in DOMAIN dying : dying[i] = id => k < i}}
           AsItDies(id) == Without(st, Earlier(id))
           dead == {id \in Doomed(st) : CountsAsDeath(AsItDies(id), id)}
           perms == [id \in Ids(st) |-> IF id \in Doomed(st) THEN Died(AsItDies(id), id)
                                        ELSE st.permanents[id]]
           n == Cardinality(dead)
           seqs == [i \in DOMAIN dying |-> DeathEntries(AsItDies(dying[i]), dying[i])]
           q == FlattenSeq(seqs)
           s1 == [st EXCEPT !.permanents = perms]
           s2 == Bump(s1, "death", n)
           s3 == [s2 EXCEPT !.pending_triggers = s2.pending_triggers \o q]
           deaths == [st.event_counters EXCEPT !["death"] = @ + n]
           queue == st.pending_triggers \o q
<1>1. DieInOrder(st, dying)
        = With(st, [permanents |-> perms, event_counters |-> deaths, pending_triggers |-> queue])
  BY DEF DieInOrder
<1>2. IsState(st) /\ DOMAIN st = StateFields
  BY DEF Kept, IsState
<1>3. Doomed(st) \subseteq Ids(st)
  BY DEF Doomed
<1>4. \A id : LET s == AsItDies(id) IN
        /\ IsSequence(s.order) /\ Ids(s) = Ids(st)
        /\ \A x \in Ids(s) : Becomes(st.permanents[x], s.permanents[x]) /\ IsPermanent(s.permanents[x])
  BY <1>2, WithoutSome DEF Becomes
<1> HIDE DEF AsItDies
<1>5. ASSUME NEW id \in Ids(st) PROVE Becomes(st.permanents[id], perms[id])
  <2>1. Becomes(st.permanents[id], AsItDies(id).permanents[id])
    BY <1>4
  <2>2. Becomes(AsItDies(id).permanents[id], Died(AsItDies(id), id))
    BY <1>4, DiedPermanent
  <2>3. Becomes(st.permanents[id], Died(AsItDies(id), id))
    BY <2>1, <2>2, BecomesOn, Zenon
  <2>4. Becomes(st.permanents[id], st.permanents[id])
    BY PermanentIn, Unchanged
  <2> QED BY <2>3, <2>4
<1>6. DOMAIN perms = Ids(st)
  OBVIOUS
<1>7. n \in Int
  <2>1. dead \subseteq Ids(st)
    BY <1>3
  <2> HIDE DEF dead
  <2>2. Cardinality(dead) \in Nat
    BY <1>2, <2>1, CountIds
  <2> QED BY <2>2
<1>8. Queue(q, Ids(st))
  <2> DEFINE k == Len(dying)
  <2>1. DOMAIN dying = 1..k /\ k \in Nat
    BY ListIndices
  <2>2. ASSUME NEW i \in 1..k PROVE Queue(seqs[i], Ids(st))
    <3> DEFINE s == AsItDies(dying[i])
    <3>1. dying[i] \in Ids(st)
      BY <1>3, <2>1
    <3>2. IsSequence(s.order) /\ Ids(s) = Ids(st) /\ IsPermanent(s.permanents[dying[i]])
      BY <1>4, <3>1
    <3>3. seqs[i] = DeathEntries(s, dying[i])
      BY <2>1
    <3> HIDE DEF s, seqs
    <3>4. Queue(DeathEntries(s, dying[i]), Ids(s))
      BY <3>1, <3>2, DeathQueue
    <3> QED BY <3>2, <3>3, <3>4
  <2>3. seqs = [i \in 1..k |-> seqs[i]]
    BY <2>1
  <2> HIDE DEF seqs
  <2>4. IsSequence(seqs) /\ DOMAIN seqs = 1..k
    BY <2>1, <2>3, MappedList
  <2> QED BY <2>2, <2>4, QueueFlatten
<1> HIDE DEF perms, n, q
<1>9. DieInOrder(st, dying) = s3
  <2> DEFINE upd == [permanents |-> perms, event_counters |-> deaths, pending_triggers |-> queue]
             t == DieInOrder(st, dying)
  <2>1. t = [x \in DOMAIN st \cup DOMAIN upd |-> IF x \in DOMAIN upd THEN upd[x] ELSE st[x]]
    BY <1>1 DEF With
  <2>2. DOMAIN upd = {"permanents", "event_counters", "pending_triggers"}
        /\ upd.permanents = perms /\ upd.event_counters = deaths /\ upd.pending_triggers = queue
    OBVIOUS
  <2>3. {"permanents", "event_counters", "pending_triggers"} \subseteq StateFields
    BY DEF StateFields
  <2> DEFINE t1 == [st EXCEPT !.permanents = perms]
             t2 == [t1 EXCEPT !.event_counters = deaths]
             t3 == [t2 EXCEPT !.pending_triggers = queue]
  <2>4. s3 = t3
    BY <1>2 DEF Bump, StateFields
  <2> HIDE DEF upd, t, s3, deaths, queue
  <2>5. DOMAIN t = StateFields /\ \A x \in StateFields : t[x] = IF x \in DOMAIN upd THEN upd[x] ELSE st[x]
    BY <1>2, <2>1, <2>2, <2>3
  <2>6. /\ DOMAIN t1 = StateFields /\ t1["permanents"] = perms
        /\ \A x \in StateFields : x # "permanents" => t1[x] = st[x]
    BY <1>2, <2>3
  <2> HIDE DEF t1
  <2>7. /\ DOMAIN t2 = StateFields /\ t2["event_counters"] = deaths
        /\ \A x \in StateFields : x # "event_counters" => t2[x] = t1[x]
    BY <2>3, <2>6
  <2> HIDE DEF t2
  <2>8. /\ t3 = [x \in StateFields |-> t3[x]] /\ t3["pending_triggers"] = queue
        /\ \A x \in StateFields : x # "pending_triggers" => t3[x] = t2[x]
    BY <2>3, <2>7
  <2> HIDE DEF t3
  <2>9. \A x \in StateFields : t3[x] = t[x]
    BY <2>2, <2>5, <2>6, <2>7, <2>8
  <2>10. t = [x \in StateFields |-> t[x]]
    BY <1>2, <2>1, <2>2, <2>3
  <2> QED BY <2>4, <2>8, <2>9, <2>10 DEF t
<1>10. Kept(l, s1) /\ Ids(s1) = Ids(st)
  <2>1. Kept(l, s1)
    BY <1>5, <1>6, PermanentsKept, Zenon
  <2>2. Ids(s1) = Ids(st)
    BY <1>2, <1>6 DEF Ids, StateFields
  <2> QED BY <2>1, <2>2
<1> HIDE DEF s1
<1>11. Kept(l, s2)
  BY <1>7, <1>10, BumpKept, PlainKeys
<1>12. Ids(s2) = Ids(st)
  BY <1>10 DEF Bump, Ids, Kept, IsState, StateFields
<1> HIDE DEF s2
<1>13. Queue(q, Ids(s2))
  BY <1>8, <1>12
<1>14. Kept(l, s3)
  BY <1>11, <1>13, QueueKept, Zenon
<1> QED BY <1>9, <1>14, Zenon

\* The state-based actions.
LEMMA SBAKept ==
  ASSUME NEW l, NEW st, Kept(l, st) PROVE Kept(l, ApplySBA(st))
<1> DEFINE dying == Those(st.order, Doomed(st))
<1>1. IsSequence(st.order)
  BY DEF Kept, IsState
<1>2. dying \in Seq(Doomed(st))
  BY <1>1, ThoseList
<1> HIDE DEF dying
<1>3. IsSequence(dying) /\ \A i \in DOMAIN dying : dying[i] \in Doomed(st)
  BY <1>2, ListOfElements
<1>4. Kept(l, DieInOrder(st, dying))
  BY <1>3, DieInOrderKept
<1> QED BY <1>4 DEF ApplySBA, dying

-----------------------------------------------------------------------------
(* Costs.  What pays a cost keeps the books of the accumulator's state.     *)
LEMMA AccountStates ==
  ASSUME NEW a, Account(a), NEW error, NEW st, NEW used
  PROVE  Fails(a, error).st = a.st /\ Paid(a, st).st = st /\ PaidWith(a, st, used).st = st
<1>1. DOMAIN a = {"st", "err", "target", "reduction"}
  BY DEF Account
<1>2. Fails(a, error).st = a.st /\ Paid(a, st).st = st
  BY <1>1 DEF Fails, Paid
<1>3. PaidWith(a, st, used).st = st
  <2> DEFINE b == [a EXCEPT !.st = st]
             t == IF used THEN NoId ELSE b.target
  <2>1. PaidWith(a, st, used) = [b EXCEPT !.target = t]
    BY <1>1 DEF PaidWith
  <2>2. DOMAIN b = {"st", "err", "target", "reduction"} /\ b.st = st
    BY <1>1
  <2> HIDE DEF b, t
  <2> QED BY <2>1, <2>2
<1> QED BY <1>2, <1>3
LEMMA FailsKept ==
  ASSUME NEW l, NEW a, Account(a), Kept(l, a.st), NEW error PROVE Kept(l, Fails(a, error).st)
  BY AccountStates, Zenon
LEMMA PaidKept ==
  ASSUME NEW l, NEW a, Account(a), NEW st, Kept(l, st), NEW used
  PROVE  Kept(l, Paid(a, st).st) /\ Kept(l, PaidWith(a, st, used).st)
<1>1. Paid(a, st).st = st /\ PaidWith(a, st, used).st = st
  BY AccountStates
<1> QED BY <1>1

\* Paying never takes more out of a field than is there, whatever is asked: the pools stay amounts.
Price == [Fields -> Int]
PoolLeft(d) == d.pool \in ManaAmount /\ d.left \in Int
PoolsLeft(t) == t.mana \in ManaAmount /\ t.aux \in ManaAmount /\ t.left \in Int
Purses(w) == IsPurse(w) /\ w.mana \in ManaAmount /\ w.aux \in ManaAmount

LEMMA FieldNames == Pips \cup {"generic", "any_color"} \subseteq Fields /\ WUBRG \subseteq Pips
                    /\ "colorless" \in Pips
  BY DEF Fields, Pips
LEMMA DrainFieldLeft ==
  ASSUME NEW d, PoolLeft(d), NEW f \in Fields PROVE PoolLeft(DrainField(d, f))
<1> DEFINE pool == d.pool
           left == d.left
           used == Least(pool[f], left)
           rest == pool[f] - used
<1>1. DrainField(d, f) = [pool |-> [pool EXCEPT ![f] = rest], left |-> left - used]
  BY DEF DrainField, Taken
<1>2. pool \in ManaAmount /\ left \in Int /\ pool[f] \in Nat
  BY DEF PoolLeft, ManaAmount
<1> HIDE DEF pool, left
<1>3. used \in Int /\ rest \in Nat
  BY <1>2 DEF Least
<1> HIDE DEF used, rest
<1>4. [pool EXCEPT ![f] = rest] \in ManaAmount
  BY <1>2, <1>3 DEF ManaAmount
<1>5. left - used \in Int
  BY <1>2, <1>3
<1> DEFINE n == left - used
           v == [pool EXCEPT ![f] = rest]
<1> HIDE DEF n, v
<1>6. PoolLeft([pool |-> v, left |-> n])
  BY <1>4, <1>5 DEF PoolLeft, v, n
<1> QED BY <1>1, <1>6 DEF v, n
LEMMA BothLeft ==
  ASSUME NEW first, PoolLeft(first), NEW second, PoolLeft(second) PROVE PoolsLeft(BothPools(first, second))
  BY DEF PoolLeft, PoolsLeft, BothPools
LEMMA PoolWith ==
  ASSUME NEW pool \in ManaAmount, NEW n, n \in Int PROVE PoolLeft([pool |-> pool, left |-> n])
  BY DEF PoolLeft
LEMMA DrainBothLeft ==
  ASSUME NEW t, PoolsLeft(t), NEW f \in Fields PROVE PoolsLeft(DrainBoth(t, f))
<1> DEFINE one == [pool |-> t.mana, left |-> t.left]
           first == DrainField(one, f)
           two == [pool |-> t.aux, left |-> first.left]
           second == DrainField(two, f)
<1>1. DrainBoth(t, f) = BothPools(first, second)
  BY DEF DrainBoth, DrainSecond
<1>2. PoolLeft(one)
  BY DEF PoolsLeft, PoolLeft
<1> HIDE DEF one
<1>3. PoolLeft(first)
  BY <1>2, DrainFieldLeft
<1> HIDE DEF first
<1>4. PoolLeft(two)
  BY <1>3 DEF PoolsLeft, PoolLeft
<1> HIDE DEF two
<1>5. PoolLeft(second)
  BY <1>4, DrainFieldLeft
<1> HIDE DEF second
<1> QED BY <1>1, <1>3, <1>5, BothLeft
LEMMA OutcomePools ==
  ASSUME NEW t, PoolsLeft(t)
  PROVE  Purses(Outcome(t, "mana_restriction")) /\ Purses(Outcome(t, "resource_deficit"))
  BY DEF PoolsLeft, Purses, Outcome, IsPurse, ManaStatuses
LEMMA PipPools ==
  ASSUME NEW w, Purses(w), NEW c \in Fields, NEW n, n \in Int PROVE Purses(PayPip(w, c, n))
<1> DEFINE start == [mana |-> w.mana, aux |-> w.aux, left |-> n]
           exact == DrainBoth(start, c)
           wild == DrainBoth(exact, "any_color")
<1>1. PayPip(w, c, n) = IF w.status # "ok" THEN w ELSE Outcome(wild, "mana_restriction")
  BY DEF PayPip, ExactPips
<1>2. PoolsLeft(start)
  BY DEF Purses, PoolsLeft
<1> HIDE DEF start
<1>3. PoolsLeft(exact)
  BY <1>2, DrainBothLeft
<1> HIDE DEF exact
<1>4. PoolsLeft(wild)
  BY <1>3, FieldNames, DrainBothLeft
<1> HIDE DEF wild
<1> QED BY <1>1, <1>4, OutcomePools
LEMMA PipsPools ==
  ASSUME NEW w, Purses(w), NEW need \in Price PROVE Purses(PayPips(w, need))
<1>1. \A c \in Fields : need[c] \in Int
  BY DEF Price
<1>2. \A c \in {"white", "blue", "black", "red", "green", "colorless"} : c \in Fields /\ need[c] \in Int
  BY <1>1 DEF Fields, Pips, WUBRG
<1>3. \A x : Purses(x) => \A c \in {"white", "blue", "black", "red", "green", "colorless"} :
                           Purses(PayPip(x, c, need[c]))
  <2> SUFFICES ASSUME NEW x, Purses(x), NEW c \in {"white", "blue", "black", "red", "green", "colorless"}
               PROVE  Purses(PayPip(x, c, need[c]))
    OBVIOUS
  <2> DEFINE n == need[c]
  <2>1. c \in Fields /\ n \in Int
    BY <1>2
  <2> HIDE DEF n
  <2>2. Purses(PayPip(x, c, n))
    BY <2>1, PipPools
  <2> QED BY <2>2 DEF n
<1> QED BY <1>3 DEF PayPips
LEMMA DrainLeft ==
  ASSUME NEW pool \in ManaAmount, NEW n, n \in Int PROVE PoolLeft(Drain(pool, n))
<1>1. \A d : PoolLeft(d) => \A f \in {"white", "blue", "black", "red", "green", "colorless", "any_color"} :
                              PoolLeft(DrainField(d, f))
  BY DrainFieldLeft DEF Fields, Pips, WUBRG
<1>2. \A d : PoolLeft(d) => PoolLeft(DrainColors(d))
  BY <1>1 DEF DrainColors
<1> DEFINE d == [pool |-> pool, left |-> n]
<1>3. PoolLeft(d)
  BY DEF PoolLeft
<1>4. Drain(pool, n) = DrainField(DrainColors(DrainField(d, "colorless")), "any_color")
  BY DEF Drain
<1> HIDE DEF d
<1> QED BY <1>1, <1>2, <1>3, <1>4
LEMMA GenericPools ==
  ASSUME NEW w, Purses(w), NEW n, n \in Int PROVE Purses(PayGeneric(w, n))
<1> DEFINE first == Drain(w.mana, n)
           second == Drain(w.aux, first.left)
           t == BothPools(first, second)
<1>1. PayGeneric(w, n) = IF w.status # "ok" THEN w ELSE Outcome(t, "resource_deficit")
  BY DEF PayGeneric, DrainPools, DrainAfter
<1>2. PoolLeft(first)
  BY DrainLeft DEF Purses
<1> HIDE DEF first
<1>3. PoolLeft(second)
  BY <1>2, DrainLeft DEF Purses, PoolLeft
<1> HIDE DEF second
<1>4. PoolsLeft(t)
  BY <1>2, <1>3, BothLeft
<1> HIDE DEF t
<1> QED BY <1>1, <1>4, OutcomePools
LEMMA PayManaPools ==
  ASSUME NEW mana \in ManaAmount, NEW aux \in ManaAmount, NEW need \in Price, NEW allow
  PROVE  Purses(PayMana(mana, aux, need, allow))
<1> DEFINE used == IF allow THEN aux ELSE NoMana
           w == PurseOf(mana, used)
           u == PayPips(w, need)
           v == PayGeneric(u, need["generic"])
<1>1. PayMana(mana, aux, need, allow) = Reserve(v, aux, allow)
  BY DEF PayMana
<1>2. used \in ManaAmount
  BY DEF NoMana, ManaAmount
<1> HIDE DEF used
<1>3. Purses(w)
  BY <1>2 DEF Purses, PurseOf, IsPurse, ManaStatuses
<1> HIDE DEF w
<1>4. Purses(u)
  BY <1>3, PipsPools
<1> HIDE DEF u
<1>5. need["generic"] \in Int
  BY DEF Price, Fields
<1>6. Purses(v)
  BY <1>4, <1>5, GenericPools
<1> HIDE DEF v
<1>7. Purses([v EXCEPT !.aux = aux])
  BY <1>6 DEF Purses, IsPurse
<1> QED BY <1>1, <1>6, <1>7 DEF Reserve

LEMMA PriceWith ==
  ASSUME NEW need \in Price, NEW f, NEW n, n \in Int PROVE [need EXCEPT ![f] = n] \in Price
<1>1. CASE f \in Fields
  BY <1>1 DEF Price
<1>2. CASE f \notin Fields
  <2>1. [need EXCEPT ![f] = n] = need
    BY <1>2 DEF Price
  <2> QED BY <2>1
<1> QED BY <1>1, <1>2
LEMMA PlainPrices == NoMana \in Price /\ \A need \in ManaAmount : need \in Price
<1>1. NoMana \in Price
  BY DEF NoMana, Price
<1>2. \A need \in ManaAmount : need \in Price
  BY DEF ManaAmount, Price
<1> QED BY <1>1, <1>2

\* The pools of a state once something is paid.
LEMMA StatePools ==
  ASSUME NEW l, NEW st, Kept(l, st)
  PROVE  /\ Purses(PurseOf(st.mana, st.mana_activate_only))
         /\ \A need \in Price : \A allow : Purses(PayMana(st.mana, st.mana_activate_only, need, allow))
<1>1. st.mana \in ManaAmount /\ st.mana_activate_only \in ManaAmount
  BY DEF Kept, IsState
<1>2. \A need \in Price : \A allow : Purses(PayMana(st.mana, st.mana_activate_only, need, allow))
  BY <1>1, PayManaPools
<1>3. Purses(PurseOf(st.mana, st.mana_activate_only))
  BY <1>1 DEF Purses, PurseOf, IsPurse, ManaStatuses
<1> QED BY <1>2, <1>3
LEMMA DrainedKept ==
  ASSUME NEW l, NEW st, Kept(l, st), NEW w, Purses(w)
  PROVE  Kept(l, Drained(st, w)) /\ Ids(Drained(st, w)) = Ids(st)
<1> DEFINE s == [st EXCEPT !.mana = w.mana]
<1>0. w.mana \in ManaAmount /\ w.aux \in ManaAmount
  BY DEF Purses
<1>1. Drained(st, w) = [s EXCEPT !.mana_activate_only = w.aux]
  BY DEF Drained
<1>2. Kept(l, s)
  BY <1>0, PoolKept, Zenon
<1>3. Ids(Drained(st, w)) = Ids(st)
  BY DEF Drained, Ids, Kept, IsState, StateFields
<1> HIDE DEF s
<1>4. Kept(l, [s EXCEPT !.mana_activate_only = w.aux])
  BY <1>0, <1>2, PoolKept, Zenon
<1>5. Kept(l, Drained(st, w))
  BY <1>1, <1>4, Zenon
<1> QED BY <1>3, <1>5
LEMMA PoolsKept ==
  ASSUME NEW l, NEW a, Account(a), Kept(l, a.st), NEW need \in Price, NEW allow
  PROVE  Kept(l, PayFromPools(a, need, allow).st)
<1> DEFINE st == a.st
           w == PayMana(st.mana, st.mana_activate_only, need, allow)
           s == Drained(st, w)
<1>1. PayFromPools(a, need, allow) = [a EXCEPT !.st = s, !.err = w.status]
  BY DEF PayFromPools, Charge, Account
<1>2. Kept(l, st)
  OBVIOUS
<1> HIDE DEF st
<1>3. Purses(w)
  BY <1>2, StatePools
<1> HIDE DEF w
<1>4. Kept(l, s)
  BY <1>2, <1>3, DrainedKept
<1>5. DOMAIN a = {"st", "err", "target", "reduction"}
  BY DEF Account
<1> HIDE DEF s
<1>6. PayFromPools(a, need, allow).st = s
  BY <1>1, <1>5
<1> QED BY <1>4, <1>6

LEMMA TapForKept ==
  ASSUME NEW l, NEW a, Account(a), Kept(l, a.st), NEW id, NEW self, NEW error
  PROVE  Kept(l, TapFor(a, id, self, error).st)
<1> DEFINE s == [a.st EXCEPT !.permanents[id].tapped = TRUE]
<1>1. TapFor(a, id, self, error) \in {Fails(a, error), PaidWith(a, s, ~self)}
  BY DEF TapFor
<1>2. Kept(l, s)
  BY TapKept, Zenon
<1> HIDE DEF s
<1>3. Kept(l, Fails(a, error).st) /\ Kept(l, PaidWith(a, s, ~self).st)
  BY <1>2, FailsKept, PaidKept, Zenon
<1> QED BY <1>1, <1>3
LEMMA TapCostKept ==
  ASSUME NEW l, NEW a, Account(a), Kept(l, a.st), NEW cost, NEW actor PROVE Kept(l, PayTap(a, cost, actor).st)
  BY TapForKept, FailsKept, Zenon DEF PayTap

\* What is left of the reduction is an integer, and so is the price it is taken off.
LEMMA Discounted ==
  ASSUME NEW amount \in ManaAmount, NEW reduction, reduction \in Int, NEW floor, floor \in Int
  PROVE  LET reduced == Least(reduction, amount["generic"])
             cheaper == [amount EXCEPT !["generic"] = @ - reduced]
         IN /\ reduction - reduced \in Int
            /\ cheaper \in Price
            /\ [cheaper EXCEPT !["generic"] = @ + NonNegative(floor - Total(cheaper))] \in Price
<1> DEFINE reduced == Least(reduction, amount["generic"])
           cheaper == [amount EXCEPT !["generic"] = @ - reduced]
           left == amount["generic"] - reduced
<1>1. amount \in Price /\ amount["generic"] \in Int
  BY PlainPrices DEF Price, Fields
<1>2. reduced \in Int
  BY <1>1 DEF Least
<1> HIDE DEF reduced
<1>3. left \in Int /\ reduction - reduced \in Int
  BY <1>1, <1>2
<1>4. cheaper = [amount EXCEPT !["generic"] = left]
  OBVIOUS
<1> HIDE DEF left
<1>5. cheaper \in Price
  BY <1>1, <1>3, <1>4, PriceWith
<1> HIDE DEF cheaper
<1>6. \A f \in Fields : cheaper[f] \in Int
  BY <1>5 DEF Price
<1>7. Total(cheaper) \in Int /\ cheaper["generic"] \in Int
  BY <1>6 DEF Total, Fields, Pips, WUBRG
<1> DEFINE n == cheaper["generic"] + NonNegative(floor - Total(cheaper))
<1>8. n \in Int
  BY <1>7 DEF NonNegative
<1>9. [cheaper EXCEPT !["generic"] = @ + NonNegative(floor - Total(cheaper))]
        = [cheaper EXCEPT !["generic"] = n]
  OBVIOUS
<1> HIDE DEF n
<1>10. [cheaper EXCEPT !["generic"] = n] \in Price
  BY <1>5, <1>8, PriceWith
<1> QED BY <1>3, <1>5, <1>9, <1>10 DEF reduced, cheaper
LEMMA ManaCostKept ==
  ASSUME NEW l, NEW a, Account(a), Kept(l, a.st), a.reduction \in Int, NEW cost, cost.amount \in ManaAmount,
         NEW floor, floor \in Int
  PROVE  Kept(l, PayManaCost(a, cost, floor).st)
<1> DEFINE reduced == Least(a.reduction, cost.amount["generic"])
           cheaper == [cost.amount EXCEPT !["generic"] = @ - reduced]
           need == [cheaper EXCEPT !["generic"] = @ + NonNegative(floor - Total(cheaper))]
           k == a.reduction - reduced
           b == [a EXCEPT !.reduction = k]
<1>1. PayManaCost(a, cost, floor) = PayFromPools(b, need, TRUE)
  BY DEF PayManaCost
<1>2. need \in Price
  BY Discounted
<1> HIDE DEF need, k
<1>3. Account(b) /\ Kept(l, b.st)
  <2>1. Account(b) /\ b.st = a.st
    BY DEF Account, Ended
  <2> HIDE DEF b
  <2> QED BY <2>1
<1> HIDE DEF b
<1>4. Kept(l, PayFromPools(b, need, TRUE).st)
  BY <1>2, <1>3, PoolsKept, Zenon
<1> QED BY <1>1, <1>4, Zenon
LEMMA HybridCostKept ==
  ASSUME NEW l, NEW a, Account(a), Kept(l, a.st), NEW cost PROVE Kept(l, PayHybrid(a, cost).st)
<1> DEFINE candidates == Those(cost.colors, {color \in Fields : a.st.mana[color] > 0 \/ a.st.mana["any_color"] > 0})
           need == [NoMana EXCEPT ![candidates[1]] = 1]
<1>1. PayHybrid(a, cost) = IF candidates = <<>> THEN Fails(a, "mana_restriction") ELSE PayFromPools(a, need, TRUE)
  BY Zenon DEF PayHybrid
<1> HIDE DEF candidates
<1>2. need \in Price
  BY PlainPrices, PriceWith
<1> HIDE DEF need
<1> QED BY <1>1, <1>2, PoolsKept, FailsKept, Zenon

\* Counters, energy, life and cards that are paid.
LEMMA AddCounterCostKept ==
  ASSUME NEW l, NEW a, Account(a), Kept(l, a.st), NEW cost, cost.quantity \in Int, NEW actor
  PROVE  Kept(l, PayAddCounter(a, cost, actor).st)
<1> DEFINE kind == cost.counter_type
           n == CASE cost.counter_type = "m1m1" -> M1M1PutQuantity(a.st, cost.quantity)
                  [] cost.counter_type = "p1p1" -> P1P1PutQuantity(a.st, cost.quantity, actor)
                  [] OTHER -> cost.quantity
           st == a.st
           m == Counters(st.permanents[actor], kind) + n
           s == [st EXCEPT !.permanents[actor] = WithCounters(@, kind, m)]
<1>1. n \in Int
  <2>1. IsFiniteSet(Ids(a.st))
    BY DEF Kept, IsState
  <2>2. M1M1PutQuantity(a.st, cost.quantity) \in Int /\ P1P1PutQuantity(a.st, cost.quantity, actor) \in Int
    BY <2>1, M1M1PutQuantityInt, PutQuantityInt
  <2> QED BY <2>2
<1>2. PayAddCounter(a, cost, actor) = IF n <= 0 THEN a ELSE Paid(a, Bump(s, "counter", n))
  BY DEF PayAddCounter, PlaceForCost
<1>3. Kept(l, st)
  OBVIOUS
<1> HIDE DEF n, kind, st
<1>4. ASSUME ~(n <= 0) PROVE Kept(l, Paid(a, Bump(s, "counter", n)).st)
  <2>1. actor \in Ids(st) => m \in Nat
    BY <1>1, <1>3, <1>4, CountersAt
  <2> HIDE DEF m
  <2>2. Kept(l, s)
    BY <1>3, <2>1, CountersKept, Zenon
  <2> HIDE DEF s
  <2>3. Kept(l, Bump(s, "counter", n))
    BY <1>1, <2>2, BumpKept, PlainKeys
  <2> QED BY <2>3, PaidKept, Zenon
<1> HIDE DEF s, m
<1> QED BY <1>2, <1>4

LEMMA RemovedPermanent ==
  ASSUME NEW p, IsPermanent(p), NEW kind, NEW n, n \in Int PROVE Becomes(p, RemovedCounters(p, kind, n))
<1>1. CASE Counters(p, kind) - n > 0
  <2> DEFINE k == Counters(p, kind) - n
  <2>1. k \in Nat
    BY <1>1, PTTypes
  <2>2. RemovedCounters(p, kind, n) = WithCounters(p, kind, k)
    BY <1>1 DEF RemovedCounters
  <2> HIDE DEF k
  <2> QED BY <2>1, <2>2, CountersSet
<1>2. CASE ~(Counters(p, kind) - n > 0)
  <2> DEFINE left == [k \in DOMAIN p.counters \ {kind} |-> p.counters[k]]
  <2>1. RemovedCounters(p, kind, n) = [p EXCEPT !.counters = left]
    BY <1>2 DEF RemovedCounters
  <2>2. \A k \in DOMAIN left : left[k] \in Nat
    BY DEF IsPermanent
  <2> HIDE DEF left
  <2>3. Fits(p, "counters", left)
    BY <2>2 DEF Fits
  <2>4. Becomes(p, [p EXCEPT !["counters"] = left])
    BY <2>3, FieldBecomes
  <2> QED BY <2>1, <2>4
<1> QED BY <1>1, <1>2

LEMMA RemoveCostKept ==
  ASSUME NEW l, NEW a, Account(a), Kept(l, a.st), NEW cost, cost.quantity \in Int, NEW actor
  PROVE  Kept(l, PayRemoveCounter(a, cost, actor).st)
<1>1. ASSUME NEW host, NEW self PROVE Kept(l, RemoveForCost(a, cost, host, self).st)
  <2> DEFINE st == a.st
             p == RemovedCounters(st.permanents[host], cost.counter_type, cost.quantity)
             s == [st EXCEPT !.permanents[host] = p]
             t == Bump(s, "counter", cost.quantity)
  <2>1. RemoveForCost(a, cost, host, self) \in {Fails(a, "resource_deficit"), PaidWith(a, t, ~self)}
    BY DEF RemoveForCost
  <2>2. Kept(l, st)
    OBVIOUS
  <2> HIDE DEF st
  <2>3. host \in Ids(st) => Becomes(st.permanents[host], p)
    BY <2>2, PermanentIn, RemovedPermanent
  <2> HIDE DEF p
  <2>4. Kept(l, s)
    BY <2>2, <2>3, PermanentKept, Zenon
  <2> HIDE DEF s
  <2>5. Kept(l, t)
    BY <2>4, BumpKept, PlainKeys
  <2> HIDE DEF t
  <2>6. Kept(l, Fails(a, "resource_deficit").st) /\ Kept(l, PaidWith(a, t, ~self).st)
    BY <2>5, FailsKept, PaidKept, Zenon
  <2> QED BY <2>1, <2>6, Zenon
<1> QED BY <1>1, FailsKept, Zenon DEF PayRemoveCounter

LEMMA UntapCostKept ==
  ASSUME NEW l, NEW a, Account(a), Kept(l, a.st), NEW cost, NEW actor
  PROVE  Kept(l, PayUntapSymbol(a, cost, actor).st)
<1> DEFINE host == IF cost.source_self THEN actor ELSE a.target
<1>1. \/ PayUntapSymbol(a, cost, actor) = Fails(a, "illegal_action")
      \/ /\ host \in Ids(a.st)
         /\ PayUntapSymbol(a, cost, actor) = PaidWith(a, Untap(a.st, host), ~cost.source_self)
  BY DEF PayUntapSymbol, Exists
<1> HIDE DEF host
<1>2. Kept(l, Fails(a, "illegal_action").st)
  BY FailsKept, Zenon
<1>3. ASSUME host \in Ids(a.st) PROVE Kept(l, PaidWith(a, Untap(a.st, host), ~cost.source_self).st)
  <2>1. Kept(l, Untap(a.st, host))
    BY <1>3, UntapKept, Zenon
  <2> QED BY <2>1, PaidKept, Zenon
<1> QED BY <1>1, <1>2, <1>3
LEMMA LifeCostKept ==
  ASSUME NEW l, NEW a, Account(a), Kept(l, a.st), NEW cost, cost.amount \in Int
  PROVE  Kept(l, PayLife(a, cost).st)
<1> DEFINE st == a.st
           s == Bump([st EXCEPT !.life_you = @ - cost.amount], "life_loss", cost.amount)
<1>1. PayLife(a, cost) \in {Fails(a, "illegal_action"), Fails(a, "resource_deficit"), Paid(a, s)}
  BY DEF PayLife
<1>2. Kept(l, st)
  OBVIOUS
<1> HIDE DEF st
<1>3. Kept(l, s)
  BY <1>2, YouLoseKept, Zenon
<1> HIDE DEF s
<1>4. Kept(l, Paid(a, s).st) /\ \A error : Kept(l, Fails(a, error).st)
  BY <1>3, FailsKept, PaidKept, Zenon
<1> QED BY <1>1, <1>4, Zenon
LEMMA AtLeastOne == ASSUME NEW n, n \in Int PROVE Greatest({1, n}) \in Nat \ {0}
<1>1. Greatest({1, n}) \in Int /\ 1 <= Greatest({1, n})
  BY GreatestOfTwo
<1> QED BY <1>1
LEMMA EnergyCostKept ==
  ASSUME NEW l, NEW a, Account(a), Kept(l, a.st), NEW cost, cost.amount \in Int
  PROVE  Kept(l, PayEnergy(a, cost).st)
<1> DEFINE st == a.st
           n == Greatest({1, cost.amount})
           s == Bump([st EXCEPT !.energy_you = @ - n], "energy_paid", n)
<1>1. PayEnergy(a, cost) = IF st.energy_you < n THEN Fails(a, "resource_deficit") ELSE Paid(a, s)
  BY DEF PayEnergy
<1>2. Kept(l, st)
  OBVIOUS
<1> HIDE DEF st
<1>3. n \in Nat /\ st.energy_you \in Nat
  BY <1>2, AtLeastOne DEF Kept, IsState
<1> HIDE DEF n
<1>4. ~(st.energy_you < n) => Kept(l, s)
  <2>1. ~(st.energy_you < n) => n <= st.energy_you
    BY <1>3
  <2> QED BY <1>2, <1>3, <2>1, EnergyKept, Zenon
<1> HIDE DEF s
<1>5. (Kept(l, s) => Kept(l, Paid(a, s).st)) /\ Kept(l, Fails(a, "resource_deficit").st)
  BY FailsKept, PaidKept, Zenon
<1> QED BY <1>1, <1>4, <1>5

LEMMA LoyaltyCostKept ==
  ASSUME NEW l, NEW a, Account(a), Kept(l, a.st), NEW cost, cost.delta \in Int, NEW actor
  PROVE  Kept(l, PayLoyalty(a, cost, actor).st)
<1> DEFINE st == a.st
           have == Counters(st.permanents[actor], "loyalty")
           n == have + cost.delta
           s == [st EXCEPT !.permanents[actor] = WithCounters(@, "loyalty", n)]
           up == Bump(s, "loyalty", cost.delta)
           down == Bump(s, "loyalty_paid", -cost.delta)
<1>1. PayLoyalty(a, cost, actor)
        = IF cost.delta >= 0 THEN Paid(a, up)
          ELSE IF n < 0 THEN Fails(a, "resource_deficit") ELSE Paid(a, down)
  BY DEF PayLoyalty
<1>2. Kept(l, st)
  OBVIOUS
<1> HIDE DEF st
<1>3. ASSUME cost.delta >= 0 \/ ~(n < 0) PROVE Kept(l, up) /\ Kept(l, down)
  <2>1. actor \in Ids(st) => n \in Nat
    <3>1. actor \in Ids(st) => have \in Nat
      BY <1>2, CountersAt
    <3> HIDE DEF have
    <3> QED BY <1>3, <3>1
  <2> HIDE DEF n
  <2>2. Kept(l, s)
    BY <1>2, <2>1, CountersKept, Zenon
  <2> HIDE DEF s
  <2> DEFINE m == -cost.delta
  <2>3. cost.delta \in Int /\ m \in Int
    OBVIOUS
  <2>4. "loyalty" \in EventKeys \ LedgerKeys /\ "loyalty_paid" \in EventKeys \ LedgerKeys
    BY PlainKeys
  <2> HIDE DEF m
  <2>5. Kept(l, Bump(s, "loyalty", cost.delta)) /\ Kept(l, Bump(s, "loyalty_paid", m))
    BY <2>2, <2>3, <2>4, BumpKept, Zenon
  <2> QED BY <2>5, Zenon DEF m
<1> HIDE DEF n, up, down
<1>4. ASSUME NEW s1, Kept(l, s1) PROVE Kept(l, Paid(a, s1).st)
  BY <1>4, PaidKept, Zenon
<1>5. Kept(l, Fails(a, "resource_deficit").st)
  BY FailsKept, Zenon
<1> QED BY <1>1, <1>3, <1>4, <1>5

LEMMA DiscardCostKept ==
  ASSUME NEW l, NEW a, Account(a), Kept(l, a.st), NEW cost, cost.quantity \in Int,
         NEW actor, actor \in Ids(a.st)
  PROVE  Kept(l, PayDiscard(a, cost, actor).st)
<1> DEFINE st == a.st
           n == Greatest({1, cost.quantity})
           s == Bump([st EXCEPT !.hand_you = @ - n], "discard", n)
           t == QueueTriggers(s, "discard", actor, Some(n))
<1>1. PayDiscard(a, cost, actor) = IF st.hand_you < n THEN Fails(a, "resource_deficit") ELSE Paid(a, t)
  BY DEF PayDiscard
<1>2. Kept(l, st) /\ actor \in Ids(st)
  OBVIOUS
<1> HIDE DEF st
<1>3. n \in Nat /\ n \in Int /\ st.hand_you \in Nat
  BY <1>2, AtLeastOne DEF Kept, IsState
<1> HIDE DEF n
<1>4. ASSUME ~(st.hand_you < n) PROVE Kept(l, t)
  <2>1. n <= st.hand_you
    BY <1>3, <1>4
  <2>2. Kept(l, s)
    BY <1>2, <1>3, <2>1, DiscardKept, Zenon
  <2>3. actor \in Ids(s)
    BY <1>2 DEF Bump, Ids, Kept, IsState, StateFields
  <2> HIDE DEF s
  <2>4. Some(n) \subseteq Int
    BY <1>3, SomeInt
  <2> QED BY <2>2, <2>3, <2>4, TriggersKept, Zenon
<1> HIDE DEF t
<1>5. (Kept(l, t) => Kept(l, Paid(a, t).st)) /\ Kept(l, Fails(a, "resource_deficit").st)
  BY FailsKept, PaidKept, Zenon
<1> QED BY <1>1, <1>4, <1>5

\* The first of some permanents is one of them.
LEMMA FirstIsOne ==
  ASSUME NEW l, NEW st, Kept(l, st), NEW S, S \subseteq Ids(st), S # {}
  PROVE  FirstInOrder(st, S) \in S
<1>1. IsSequence(st.order) /\ \E x \in S : x \in ToSet(st.order)
  BY DEF Kept, IsState
<1> QED BY <1>1, ThoseList DEF FirstInOrder

LEMMA FodderKept ==
  ASSUME NEW l, NEW a, Account(a), Kept(l, a.st), NEW fodder, fodder \in Ids(a.st), NEW used
  PROVE  Kept(l, SacrificeFor(a, fodder, used).st)
<1> DEFINE st == a.st
           n == OrElse(EffectivePower(st.permanents[fodder]), 0)
           s == [st EXCEPT !.last_sacrificed_power = n]
<1>1. SacrificeFor(a, fodder, used) = PaidWith(a, Sacrifice(s, fodder), used)
  BY DEF SacrificeFor
<1>2. Kept(l, st) /\ fodder \in Ids(st)
  OBVIOUS
<1> HIDE DEF st
<1>3. n \in Int
  BY <1>2, PermanentIn, PTTypes, OrElseInt
<1> HIDE DEF n
<1>4. Kept(l, s)
  BY <1>2, <1>3, PowerKept, Zenon
<1>5. fodder \in Ids(s)
  BY <1>2 DEF Ids, Kept, IsState, StateFields
<1> HIDE DEF s
<1>6. Kept(l, Sacrifice(s, fodder))
  BY <1>4, <1>5, SacrificeKept, Zenon
<1> QED BY <1>1, <1>6, PaidKept, Zenon

LEMMA SacrificeCostKept ==
  ASSUME NEW l, NEW a, Account(a), Kept(l, a.st), NEW cost, NEW actor, actor \in Ids(a.st), NEW step
  PROVE  Kept(l, PaySacrifice(a, cost, actor, step).st)
<1> DEFINE named == NamedFodder(a, step)
           error == IF cost.selector = "self" \/ named = NoId THEN "ok"
                    ELSE SacrificeError(a.st, named, cost.selector)
           fodder == FodderOf(a, cost, actor, named)
           used == cost.selector # "self" /\ a.target \in fodder
<1>1. PaySacrifice(a, cost, actor, step)
        \in {Fails(a, error), Fails(a, "resource_deficit"), SacrificeFor(a, The(fodder), used)}
      /\ (error # "ok" => PaySacrifice(a, cost, actor, step) = Fails(a, error))
      /\ (error = "ok" /\ fodder = None
            => PaySacrifice(a, cost, actor, step) = Fails(a, "resource_deficit"))
  BY DEF PaySacrifice
<1>2. ASSUME error = "ok", fodder # None PROVE fodder \subseteq Ids(a.st)
  <2>1. CASE cost.selector = "self"
    BY <2>1 DEF FodderOf, Some
  <2>2. CASE cost.selector # "self" /\ named # NoId
    BY <1>2, <2>2 DEF FodderOf, Some, SacrificeError, Exists
  <2>3. CASE cost.selector # "self" /\ named = NoId
    <3> DEFINE fit == {id \in Ids(a.st) : MatchesSacrificeSelector(a.st.permanents[id], cost.selector)}
               S == IF cost.selector = "creature_controlled"
                       /\ {id \in fit : a.st.permanents[id].is_token} # {}
                    THEN {id \in fit : a.st.permanents[id].is_token} ELSE fit
    <3>1. fodder = IF fit = {} THEN None ELSE Some(FirstInOrder(a.st, S))
      BY <2>3 DEF FodderOf, PickFodder
    <3>2. S \subseteq Ids(a.st) /\ (fit # {} => S # {})
      OBVIOUS
    <3> HIDE DEF S, fit, fodder
    <3>3. fit # {} => FirstInOrder(a.st, S) \in Ids(a.st)
      BY <3>2, FirstIsOne
    <3> QED BY <1>2, <3>1, <3>3 DEF Some
  <2> QED BY <2>1, <2>2, <2>3
<1> HIDE DEF named, error, fodder, used
<1>3. ASSUME error = "ok", fodder # None PROVE Kept(l, SacrificeFor(a, The(fodder), used).st)
  <2>1. The(fodder) \in Ids(a.st)
    BY <1>2, <1>3 DEF The, None
  <2> QED BY <2>1, FodderKept, Zenon
<1>4. \A e : Kept(l, Fails(a, e).st)
  BY FailsKept, Zenon
<1> QED BY <1>1, <1>3, <1>4

LEMMA BounceCostKept ==
  ASSUME NEW l, NEW a, Account(a), Kept(l, a.st), NEW cost, NEW ab, NEW step
  PROVE  Kept(l, PayBounce(a, cost, ab, step).st)
<1>1. ASSUME NEW fit, NEW named PROVE Kept(l, BounceForCost(a, fit, named).st)
  <2> DEFINE fodder == IF named # NoId THEN named ELSE FirstInOrder(a.st, fit)
             st == a.st
             p == ToZone(st.permanents[fodder], "hand")
             s == [st EXCEPT !.permanents[fodder] = p]
             t == Bump(s, "bounce", 1)
             used == a.target = fodder
  <2>1. BounceForCost(a, fit, named)
          \in {Fails(a, "illegal_target"), Fails(a, "resource_deficit"), PaidWith(a, t, used)}
    BY DEF BounceForCost
  <2>2. Kept(l, st)
    OBVIOUS
  <2> HIDE DEF st, fodder
  <2>3. fodder \in Ids(st) => Becomes(st.permanents[fodder], p)
    BY <2>2, PermanentIn, Reshaped, FlagNames
  <2> HIDE DEF p
  <2>4. Kept(l, s)
    BY <2>2, <2>3, PermanentKept, Zenon
  <2> HIDE DEF s
  <2>5. Kept(l, t)
    BY <2>4, BumpKept, PlainKeys
  <2> HIDE DEF t, used
  <2>6. (\A e : Kept(l, Fails(a, e).st)) /\ Kept(l, PaidWith(a, t, used).st)
    BY <2>5, FailsKept, PaidKept, Zenon
  <2> QED BY <2>1, <2>6
<1> QED BY <1>1, Zenon DEF PayBounce

LEMMA TapAllKept ==
  ASSUME NEW l, NEW st, Kept(l, st), NEW ids PROVE Kept(l, TapAll(st, ids))
<1> DEFINE perms == [id \in DOMAIN st.permanents |->
                       IF id \in ids THEN [st.permanents[id] EXCEPT !.tapped = TRUE]
                       ELSE st.permanents[id]]
<1>1. TapAll(st, ids) = [st EXCEPT !.permanents = perms]
  BY DEF TapAll
<1>2. DOMAIN perms = Ids(st)
  BY DEF Ids
<1>3. ASSUME NEW id \in Ids(st) PROVE Becomes(st.permanents[id], perms[id])
  <2> DEFINE p == st.permanents[id]
  <2>1. IsPermanent(p)
    BY PermanentIn
  <2>2. perms[id] \in {p, [p EXCEPT !["tapped"] = TRUE]}
    BY DEF Ids
  <2> HIDE DEF p, perms
  <2>3. Becomes(p, p) /\ Becomes(p, [p EXCEPT !["tapped"] = TRUE])
    BY <2>1, Unchanged, Cleared, FlagNames
  <2> QED BY <2>2, <2>3 DEF p
<1> HIDE DEF perms
<1>4. Kept(l, [st EXCEPT !.permanents = perms])
  BY <1>2, <1>3, PermanentsKept, Zenon
<1> QED BY <1>1, <1>4, Zenon

LEMMA TapCostsKept ==
  ASSUME NEW l, NEW a, Account(a), Kept(l, a.st), NEW cost, NEW actor, NEW step
  PROVE  /\ Kept(l, PayTapCreatures(a, cost, actor, step).st)
         /\ Kept(l, PayTapArtifacts(a, cost, actor).st)
<1>1. ASSUME NEW ids PROVE Kept(l, Paid(a, TapAll(a.st, ids)).st)
  BY TapAllKept, PaidKept, Zenon
<1>2. ASSUME NEW error PROVE Kept(l, Fails(a, error).st)
  BY FailsKept, Zenon
<1>3. ASSUME NEW choice, NEW n PROVE Kept(l, TapChosen(a, choice, n).st)
  BY <1>1, <1>2, Zenon DEF TapChosen
<1>4. ASSUME NEW fit, NEW n, NEW named PROVE Kept(l, TapFitting(a, fit, n, named).st)
  BY <1>1, <1>2, <1>3, Zenon DEF TapFitting
<1>5. Kept(l, PayTapCreatures(a, cost, actor, step).st)
  BY <1>4, Zenon DEF PayTapCreatures
<1>6. Kept(l, PayTapArtifacts(a, cost, actor).st)
  BY <1>3, Zenon DEF PayTapArtifacts
<1> QED BY <1>5, <1>6

\* Every cost of the schema, and the costs of an ability one after the other.
LEMMA CostKept ==
  ASSUME NEW l, NEW a, Account(a), Kept(l, a.st), a.reduction \in Int,
         NEW cost, cost.kind \in CostKinds, IsCost(cost),
         NEW ab, NEW step, step.actor \in Ids(l.start), NEW floor, floor \in Int
  PROVE  Kept(l, PayCost(a, cost, ab, step, floor).st)
<1>0. step.actor \in Ids(a.st)
  BY Present
<1>1. CASE cost.kind \in {"tap", "mana", "hybrid_mana"}
  <2>1. cost.kind = "mana" => cost.amount \in ManaAmount
    BY DEF IsCost
  <2>2. Kept(l, PayTap(a, cost, step.actor).st) /\ Kept(l, PayHybrid(a, cost).st)
    BY TapCostKept, HybridCostKept, Zenon
  <2>3. cost.kind = "mana" => Kept(l, PayManaCost(a, cost, floor).st)
    BY <2>1, ManaCostKept, Zenon
  <2> QED BY <1>1, <2>2, <2>3 DEF PayCost
<1>2. CASE cost.kind \in {"add_counter", "remove_counter_cost", "untap_symbol"}
  <2>1. cost.kind # "untap_symbol" => cost.quantity \in Int
    BY <1>2 DEF IsCost
  <2>2. cost.kind # "untap_symbol" => /\ Kept(l, PayAddCounter(a, cost, step.actor).st)
                                      /\ Kept(l, PayRemoveCounter(a, cost, step.actor).st)
    BY <2>1, AddCounterCostKept, RemoveCostKept, Zenon
  <2>3. Kept(l, PayUntapSymbol(a, cost, step.actor).st)
    BY UntapCostKept, Zenon
  <2> QED BY <1>2, <2>2, <2>3 DEF PayCost
<1>3. CASE cost.kind \in {"pay_life", "energy"}
  <2>1. cost.amount \in Int
    BY <1>3 DEF IsCost
  <2>2. Kept(l, PayLife(a, cost).st) /\ Kept(l, PayEnergy(a, cost).st)
    BY <2>1, LifeCostKept, EnergyCostKept, Zenon
  <2> QED BY <1>3, <2>2 DEF PayCost
<1>4. CASE cost.kind = "loyalty"
  <2>1. cost.delta \in Int
    BY <1>4 DEF IsCost
  <2>2. Kept(l, PayLoyalty(a, cost, step.actor).st)
    BY <2>1, LoyaltyCostKept, Zenon
  <2> QED BY <1>4, <2>2 DEF PayCost
<1>5. CASE cost.kind = "discard"
  <2>1. cost.quantity \in Int
    BY <1>5 DEF IsCost
  <2>2. Kept(l, PayDiscard(a, cost, step.actor).st)
    BY <1>0, <2>1, DiscardCostKept, Zenon
  <2> QED BY <1>5, <2>2 DEF PayCost
<1>6. CASE cost.kind \in {"sacrifice", "bounce_controlled"}
  <2>1. Kept(l, PaySacrifice(a, cost, step.actor, step).st) /\ Kept(l, PayBounce(a, cost, ab, step).st)
    BY <1>0, SacrificeCostKept, BounceCostKept, Zenon
  <2> QED BY <1>6, <2>1 DEF PayCost
<1>7. CASE cost.kind \in {"tap_creature", "tap_artifact"}
  <2>1. Kept(l, PayTapCreatures(a, cost, step.actor, step).st)
        /\ Kept(l, PayTapArtifacts(a, cost, step.actor).st)
    BY TapCostsKept, Zenon
  <2> QED BY <1>7, <2>1 DEF PayCost
<1> QED BY <1>1, <1>2, <1>3, <1>4, <1>5, <1>6, <1>7 DEF CostKinds

\* What is left of the reduction stays an integer.
LEMMA AccountReductions ==
  ASSUME NEW a, Account(a), NEW error, NEW st, NEW used
  PROVE  /\ Fails(a, error).reduction = a.reduction /\ Paid(a, st).reduction = a.reduction
         /\ PaidWith(a, st, used).reduction = a.reduction
<1>1. DOMAIN a = {"st", "err", "target", "reduction"}
  BY DEF Account
<1>2. Fails(a, error).reduction = a.reduction /\ Paid(a, st).reduction = a.reduction
  BY <1>1 DEF Fails, Paid
<1>3. PaidWith(a, st, used).reduction = a.reduction
  <2> DEFINE b == [a EXCEPT !.st = st]
             t == IF used THEN NoId ELSE b.target
  <2>1. PaidWith(a, st, used) = [b EXCEPT !.target = t]
    BY <1>1 DEF PaidWith
  <2>2. DOMAIN b = {"st", "err", "target", "reduction"} /\ b.reduction = a.reduction
    BY <1>1
  <2> HIDE DEF b, t
  <2> QED BY <2>1, <2>2
<1> QED BY <1>2, <1>3
LEMMA ChargedReduction ==
  ASSUME NEW a, Account(a), NEW need, NEW allow PROVE PayFromPools(a, need, allow).reduction = a.reduction
<1> DEFINE w == PayMana(a.st.mana, a.st.mana_activate_only, need, allow)
           s == Drained(a.st, w)
<1>1. PayFromPools(a, need, allow) = [a EXCEPT !.st = s, !.err = w.status]
  BY DEF PayFromPools, Charge, Account
<1>2. DOMAIN a = {"st", "err", "target", "reduction"}
  BY DEF Account
<1> HIDE DEF w, s
<1> QED BY <1>1, <1>2
LEMMA PlainReduction ==
  ASSUME NEW a, Account(a), NEW cost, cost.kind \in CostKinds, cost.kind # "mana", NEW ab, NEW step, NEW floor
  PROVE  PayCost(a, cost, ab, step, floor).reduction = a.reduction
<1> DEFINE Same(b) == b.reduction = a.reduction
<1>0. Same(a)
  OBVIOUS
<1>1. (\A e : Same(Fails(a, e))) /\ (\A st : Same(Paid(a, st))) /\ (\A st, used : Same(PaidWith(a, st, used)))
      /\ \A need, allow : Same(PayFromPools(a, need, allow))
  BY AccountReductions, ChargedReduction
<1> HIDE DEF Same
<1>2. \A id, self, error : Same(TapFor(a, id, self, error))
  BY <1>1, Zenon DEF TapFor
<1>3. Same(PayTap(a, cost, step.actor)) /\ Same(PayHybrid(a, cost))
  BY <1>1, <1>2, Zenon DEF PayTap, PayHybrid
<1>4. Same(PayAddCounter(a, cost, step.actor))
  <2>1. \A kind, id, n : Same(PlaceForCost(a, kind, id, n))
    BY <1>0, <1>1, Zenon DEF PlaceForCost
  <2> QED BY <2>1, Zenon DEF PayAddCounter
<1>5. Same(PayRemoveCounter(a, cost, step.actor))
  <2>1. \A host, self : Same(RemoveForCost(a, cost, host, self))
    BY <1>1, Zenon DEF RemoveForCost
  <2> QED BY <1>1, <2>1, Zenon DEF PayRemoveCounter
<1>6. Same(PayUntapSymbol(a, cost, step.actor)) /\ Same(PayLife(a, cost)) /\ Same(PayEnergy(a, cost))
      /\ Same(PayLoyalty(a, cost, step.actor)) /\ Same(PayDiscard(a, cost, step.actor))
  BY <1>1, Zenon DEF PayUntapSymbol, PayLife, PayEnergy, PayLoyalty, PayDiscard
<1>7. Same(PaySacrifice(a, cost, step.actor, step))
  BY <1>1, Zenon DEF PaySacrifice, SacrificeFor
<1>8. Same(PayBounce(a, cost, ab, step))
  <2>1. \A fit, named : Same(BounceForCost(a, fit, named))
    BY <1>1, Zenon DEF BounceForCost
  <2> QED BY <2>1, Zenon DEF PayBounce
<1>9. Same(PayTapCreatures(a, cost, step.actor, step)) /\ Same(PayTapArtifacts(a, cost, step.actor))
  <2>1. \A choice, n : Same(TapChosen(a, choice, n))
    BY <1>1, Zenon DEF TapChosen
  <2>2. \A fit, n, named : Same(TapFitting(a, fit, n, named))
    BY <1>1, <2>1, Zenon DEF TapFitting
  <2> QED BY <2>1, <2>2, Zenon DEF PayTapCreatures, PayTapArtifacts
<1>10. Same(PayCost(a, cost, ab, step, floor))
  BY <1>3, <1>4, <1>5, <1>6, <1>7, <1>8, <1>9 DEF PayCost, CostKinds
<1> QED BY <1>10 DEF Same
LEMMA CostReductionLeft ==
  ASSUME NEW a, Account(a), a.reduction \in Int, NEW cost, cost.kind \in CostKinds, IsCost(cost),
         NEW ab, NEW step, NEW floor, floor \in Int
  PROVE  PayCost(a, cost, ab, step, floor).reduction \in Int
<1>1. CASE cost.kind = "mana"
  <2> DEFINE reduced == Least(a.reduction, cost.amount["generic"])
             cheaper == [cost.amount EXCEPT !["generic"] = @ - reduced]
             need == [cheaper EXCEPT !["generic"] = @ + NonNegative(floor - Total(cheaper))]
             k == a.reduction - reduced
             b == [a EXCEPT !.reduction = k]
  <2>1. PayCost(a, cost, ab, step, floor) = PayFromPools(b, need, TRUE)
    BY <1>1 DEF PayCost, PayManaCost
  <2>2. cost.amount["generic"] \in Int
    BY <1>1, PlainPrices DEF IsCost, Price, Fields
  <2>3. k \in Int
    BY <2>2 DEF Least
  <2> HIDE DEF need, k
  <2>4. Account(b) /\ b.reduction = k
    BY DEF Account, Ended
  <2> HIDE DEF b
  <2>5. PayFromPools(b, need, TRUE).reduction = k
    BY <2>4, ChargedReduction
  <2> QED BY <2>1, <2>3, <2>5
<1>2. CASE cost.kind # "mana"
  BY <1>2, PlainReduction
<1> QED BY <1>1, <1>2

\* The reductions on the board.
AddReduction(st, a, s) == StaticOf(st, s).reduce_generic + a
EachReduction == INSTANCE FoldFacts WITH Op <- AddReduction, P <- IsInt
LEMMA CostReductionInt ==
  ASSUME NEW st, IsFiniteSet(Ids(st)), NEW ab, NEW actor
  PROVE  CostReduction(st, ab, actor) \in Int /\ ManaFloor(st, ab, actor) \in Int
<1> DEFINE K == Statics(st, "continuous_cost_reduction")
           live == ActiveReductions(st, ab, actor)
<1>0. IsFiniteSet(K) /\ \A s \in K : {StaticOf(st, s).reduce_generic, StaticOf(st, s).min_mana_remaining} \subseteq Int
  BY StaticTypes DEF IsAbility
<1>1. live \subseteq K
  BY Zenon DEF ActiveReductions
<1>2. CostReduction(st, ab, actor) = EachReduction!SetFold(st, 0, live)
  BY Zenon DEF CostReduction, SumOver, MapThenSumSet, MapThenFoldSet, AddReduction, EachReduction!SetFold
<1> HIDE DEF K, live
<1>3. IsFiniteSet(live) /\ \A s \in live : StaticOf(st, s).reduce_generic \in Int /\ StaticOf(st, s).min_mana_remaining \in Int
  BY <1>0, <1>1, FS_Subset
<1>4. ASSUME NEW a, NEW s \in live, IsInt(st, a) PROVE IsInt(st, AddReduction(st, a, s))
  BY <1>3, <1>4 DEF IsInt, AddReduction
<1>5. IsInt(st, 0)
  BY DEF IsInt
<1>6. IsInt(st, EachReduction!SetFold(st, 0, live))
  BY <1>3, <1>4, <1>5, NatSets, FiniteRanks, EachReduction!SetFoldInvariant
<1> DEFINE g == [s \in live |-> StaticOf(st, s).min_mana_remaining]
           floors == {g[s] : s \in live} \cup {0}
<1>7. ManaFloor(st, ab, actor) = Greatest(floors)
  BY DEF ManaFloor, live
<1>8. IsFiniteSet({g[s] : s \in live})
  BY <1>3, FiniteImage
<1>9. floors \in SUBSET Int
  BY <1>3
<1>10. IsFiniteSet(floors)
  BY <1>8, FS_Singleton, FS_Union
<1> HIDE DEF floors
<1>11. Greatest(floors) \in Int
  BY <1>9, <1>10, GreatestOf
<1> QED BY <1>2, <1>6, <1>7, <1>11 DEF IsInt

CostIn(d, a, cost) == CostStep(d.c, a, cost)
AccountKept(d, a) == Account(a) /\ Kept(d.l, a.st) /\ a.reduction \in Int
EachKeptCost == INSTANCE FoldFacts WITH Op <- CostIn, P <- AccountKept
LEMMA KeptCostsFold ==
  ASSUME NEW d
  PROVE  PayCosts(d.c.st, d.c.ab, d.c.step) = EachKeptCost!Fold(d, NoCostPaid(d.c), d.c.ab.costs)
  BY Zenon DEF PayCosts, NoCostPaid, CostIn, CostStep, FoldLeft, MapThenFoldSet, Max,
     EachKeptCost!Fold, EachKeptCost!LastOf
LEMMA CostsKept ==
  ASSUME NEW l, NEW st, Kept(l, st), NEW ab, CostList(ab.costs), NEW step, step.actor \in Ids(l.start)
  PROVE  Account(PayCosts(st, ab, step)) /\ Kept(l, PayCosts(st, ab, step).st)
<1> DEFINE c == [st |-> st, ab |-> ab, step |-> step]
           d == [l |-> l, c |-> c]
<1>0. c.st = st /\ c.ab = ab /\ c.step = step /\ d.l = l /\ d.c = c
  OBVIOUS
<1> HIDE DEF c, d
<1>1. AccountKept(d, NoCostPaid(c))
  <2>1. Account(NoCostPaid(c)) /\ NoCostPaid(c).st = st
        /\ NoCostPaid(c).reduction = CostReduction(st, ab, step.actor)
    BY <1>0, CostErrors DEF Account, Ended, NoCostPaid
  <2>2. IsFiniteSet(Ids(st))
    BY DEF Kept, IsState
  <2>3. CostReduction(st, ab, step.actor) \in Int
    BY <2>2, CostReductionInt
  <2> QED BY <1>0, <2>1, <2>3 DEF AccountKept
<1>2. ASSUME NEW a, NEW i \in DOMAIN ab.costs, AccountKept(d, a)
      PROVE  AccountKept(d, CostIn(d, a, ab.costs[i]))
  <2> DEFINE floor == ManaFloor(st, ab, step.actor)
             b == PayCost(a, ab.costs[i], ab, step, floor)
  <2>1. CostIn(d, a, ab.costs[i]) = IF a.err # "ok" THEN a ELSE b
    BY <1>0 DEF CostIn, CostStep
  <2>2. ab.costs[i].kind \in CostKinds /\ IsCost(ab.costs[i]) /\ Account(a) /\ Kept(l, a.st) /\ a.reduction \in Int
    BY <1>0, <1>2 DEF AccountKept, CostList, ListOf
  <2>0. floor \in Int
    <3>1. IsFiniteSet(Ids(st))
      BY DEF Kept, IsState
    <3> QED BY <3>1, CostReductionInt
  <2> HIDE DEF floor
  <2>3. Account(b) /\ Kept(l, b.st) /\ b.reduction \in Int
    BY <2>0, <2>2, CostAccount, CostKept, CostReductionLeft, Zenon
  <2> HIDE DEF b
  <2> QED BY <1>0, <1>2, <2>1, <2>3 DEF AccountKept
<1>3. DOMAIN ab.costs = 1..Len(ab.costs) /\ Len(ab.costs) \in Nat
  BY ListIndices DEF CostList, ListOf
<1>4. AccountKept(d, EachKeptCost!Fold(d, NoCostPaid(c), ab.costs))
  <2> DEFINE costs == ab.costs
             base == NoCostPaid(c)
  <2>1. AccountKept(d, base) /\ DOMAIN costs = 1..Len(costs) /\ Len(costs) \in Nat
    BY <1>1, <1>3
  <2>2. \A a : \A i \in DOMAIN costs : AccountKept(d, a) => AccountKept(d, CostIn(d, a, costs[i]))
    BY <1>2
  <2> HIDE DEF costs, base
  <2>3. AccountKept(d, EachKeptCost!Fold(d, base, costs))
    BY <2>1, <2>2, NatSets, EachKeptCost!FoldInvariant
  <2> QED BY <2>3 DEF costs, base
<1>5. PayCosts(st, ab, step) = EachKeptCost!Fold(d, NoCostPaid(c), ab.costs)
  BY <1>0, KeptCostsFold
<1> QED BY <1>0, <1>4, <1>5 DEF AccountKept

-----------------------------------------------------------------------------
(* Activations *)
\* A granted ability, as the host activates it.
AsGranted(x, ability) ==
  [ActivatedAbility EXCEPT !.ability_id = ability, !.costs = x.costs, !.effects = x.effects,
                           !.is_mana_ability = x.is_mana_ability]
LEMMA FoundFit ==
  ASSUME NEW st, NEW host, NEW ability, NEW ab, ab \in FindActivated(st, host, ability)
  PROVE  FitList(ab.effects, EffectKinds) /\ CostList(ab.costs)
<1> DEFINE printed == {x \in FindAbility(st.permanents[host], ability) : x.kind = "activated"}
<1>0. ab \in printed \/ \E x \in GrantedUnder(st, ability) : ab = AsGranted(x, ability)
  <2> DEFINE applying == {x \in GrantedUnder(st, ability) : GrantApplies(st, x, host)}
             granted == {AsGranted(x, ability) : x \in applying}
  <2>1. FindActivated(st, host, ability) = IF printed # {} THEN printed ELSE granted
    BY Zenon DEF FindActivated, AsGranted
  <2> HIDE DEF printed
  <2> QED BY <2>1
<1>1. CASE ab \in printed
  BY <1>1, AbilityFit DEF FindAbility
<1> HIDE DEF printed
<1>2. CASE \E x \in GrantedUnder(st, ability) : ab = AsGranted(x, ability)
  <2>1. PICK x \in GrantedUnder(st, ability) : ab = AsGranted(x, ability)
    BY <1>2, Zenon
  <2>2. ab.costs = x.costs /\ ab.effects = x.effects
    BY <2>1 DEF ActivatedAbility, AsGranted
  <2>3. FitList(x.effects, EffectKinds) /\ CostList(x.costs)
    BY AbilityFit DEF GrantedUnder, ToSet
  <2> QED BY <2>2, <2>3
<1> QED BY <1>0, <1>1, <1>2

\* The optional copy of the activation, paid or not.
LEMMA CopyKept ==
  ASSUME NEW l, NEW st, Kept(l, st), NEW ab, FitList(ab.effects, EffectKinds), NEW c, InContext(l, c),
         NEW price, price \subseteq Int
  PROVE  Kept(l, CopyActivation(st, ab, c, price).st)
<1>1. ASSUME NEW w, Purses(w) PROVE Kept(l, CopyMade(st, w, ab, c).st)
  <2> DEFINE s == Drained(st, w)
             r == ApplyEffects(s, ab.effects, c)
             t == Bump(r.st, "ability_copy", 1)
  <2>1. CopyMade(st, w, ab, c) \in {Ok(s), r, Ok(t)}
    BY DEF CopyMade, Then
  <2>2. Kept(l, s)
    BY <1>1, DrainedKept, Zenon
  <2> HIDE DEF s
  <2>3. Kept(l, r.st)
    BY <2>2, EffectsKept, Zenon
  <2> HIDE DEF r
  <2> DEFINE u == r.st
  <2>4. Kept(l, u)
    BY <2>3
  <2> HIDE DEF u
  <2>5. Kept(l, Bump(u, "ability_copy", 1))
    BY <2>4, BumpKept, PlainKeys
  <2>6. Kept(l, t)
    BY <2>5 DEF u
  <2> HIDE DEF t
  <2> QED BY <2>1, <2>2, <2>3, <2>6, OkKept, Zenon
<1>2. CASE price = None
  BY <1>2, OkKept, Zenon DEF CopyActivation
<1>3. CASE price # None
  <2> DEFINE n == The(price)
             need == [NoMana EXCEPT !["generic"] = n]
             w == PayMana(st.mana, st.mana_activate_only, need, TRUE)
  <2>1. CopyActivation(st, ab, c, price) = CopyMade(st, w, ab, c)
    BY <1>3 DEF CopyActivation
  <2>2. n \in Int
    BY <1>3 DEF The, None
  <2> HIDE DEF n
  <2>3. need \in Price
    BY <2>2, PlainPrices, PriceWith
  <2> HIDE DEF need
  <2>4. Purses(w)
    BY <2>3, StatePools
  <2> HIDE DEF w
  <2> QED BY <1>1, <2>1, <2>4
<1> QED BY <1>2, <1>3
\* What a copy may cost is an integer.
LEMMA CopyPaymentInt ==
  ASSUME NEW l, NEW st, Kept(l, st), NEW ab, NEW actor PROVE CopyPayment(st, ab, actor) \subseteq Int
<1>1. \A s \in Statics(st, "static_copy_activated") : StaticOf(st, s).pay_generic \in Int
  <2>1. IsFiniteSet(Ids(st))
    BY DEF Kept, IsState
  <2> QED BY <2>1, StaticTypes DEF IsAbility
<1>2. CopyPrices(st, actor) \subseteq Int
  BY <1>1 DEF CopyPrices
<1> QED BY <1>2 DEF CopyPayment, None

LEMMA MarkKept ==
  ASSUME NEW l, NEW r, Kept(l, r.st), NEW ab, NEW actor PROVE Kept(l, MarkUsed(r, ab, actor).st)
<1> DEFINE st == r.st
           v == st.permanents[actor].once_per_turn_used \cup {ab.ability_id}
           t == [st EXCEPT !.permanents[actor].once_per_turn_used = v]
           s == [r.st EXCEPT !.permanents[actor].once_per_turn_used = @ \cup {ab.ability_id}]
<1>1. MarkUsed(r, ab, actor) \in {Ok(s), r}
  BY DEF MarkUsed
<1>2. s = t
  BY DEF Kept, IsState
<1>3. Kept(l, st)
  OBVIOUS
<1> HIDE DEF st, v, s
<1>4. Fits(st.permanents[actor], "once_per_turn_used", v)
  BY DEF Fits, v
<1>5. Kept(l, Flagged(st, actor, "once_per_turn_used", v))
  BY <1>3, <1>4, FlaggedKept, Zenon
<1>6. Kept(l, t)
  BY <1>5, Zenon DEF Flagged
<1> HIDE DEF t
<1> QED BY <1>1, <1>2, <1>6, OkKept, Zenon

LEMMA ResolvedKept ==
  ASSUME NEW l, NEW costs, Kept(l, costs.st), NEW ab, FitList(ab.effects, EffectKinds),
         NEW actor, actor \in Ids(l.start)
  PROVE  Kept(l, Resolved(costs, ab, actor).st)
<1> DEFINE c == [source |-> actor, target |-> costs.target, subject |-> NoId, amount |-> None]
           done == ApplyEffects(costs.st, ab.effects, c)
           s == done.st
           copied == CopyActivation(s, ab, c, CopyPayment(s, ab, actor))
           r == Then(done, LAMBDA x : CopyActivation(x, ab, c, CopyPayment(x, ab, actor)))
<1>1. Resolved(costs, ab, actor) = IF costs.err # "ok" THEN Err(costs.st, costs.err) ELSE MarkUsed(r, ab, actor)
  BY DEF Resolved
<1>2. r \in {done, copied}
  BY DEF Then
<1>3. InContext(l, c)
  BY DEF InContext, None
<1> HIDE DEF c
<1>4. Kept(l, done.st)
  BY <1>3, EffectsKept, Zenon
<1>5. Kept(l, s)
  BY <1>4
<1> HIDE DEF done, s
<1> DEFINE price == CopyPayment(s, ab, actor)
<1>10. price \subseteq Int
  BY <1>5, CopyPaymentInt
<1> HIDE DEF price
<1>6. Kept(l, CopyActivation(s, ab, c, price).st)
  BY <1>3, <1>5, <1>10, CopyKept, Zenon
<1>7. Kept(l, copied.st)
  BY <1>6 DEF price
<1> HIDE DEF copied, r
<1>8. Kept(l, r.st)
  BY <1>2, <1>4, <1>7, Zenon
<1>9. Kept(l, MarkUsed(r, ab, actor).st)
  BY <1>8, MarkKept, Zenon
<1> QED BY <1>1, <1>9, OkKept, Zenon

LEMMA ActivatedKept ==
  ASSUME NEW l, NEW st, Kept(l, st), Ids(st) \subseteq Ids(l.start), NEW step
  PROVE  Kept(l, Activated(st, step).st)
<1>1. ASSUME NEW ab, FitList(ab.effects, EffectKinds), CostList(ab.costs), NEW error,
             step.actor \in Ids(st)
      PROVE  Kept(l, ActivateAbility(st, step, ab, error).st)
  <2> DEFINE costs == PayCosts(st, ab, step)
  <2>1. step.actor \in Ids(l.start)
    BY <1>1
  <2>2. Kept(l, costs.st)
    BY <1>1, <2>1, CostsKept
  <2> HIDE DEF costs
  <2>3. Kept(l, Resolved(costs, ab, step.actor).st)
    BY <1>1, <2>1, <2>2, ResolvedKept, Zenon
  <2> QED BY <2>3, OkKept, Zenon DEF ActivateAbility, costs
<1>2. ASSUME NEW found, step.actor \in Ids(st),
             \A ab \in found : FitList(ab.effects, EffectKinds) /\ CostList(ab.costs)
      PROVE  Kept(l, ActivateFound(st, step, found).st)
  <2>1. CASE found = None
    BY <2>1, OkKept DEF ActivateFound
  <2>2. CASE found # None
    <3> DEFINE ab == The(found)
               error == ActivationError(st, st.permanents[step.actor], ab)
    <3>1. ab \in found
      BY <2>2 DEF The, None
    <3>2. ActivateFound(st, step, found) \in {Err(st, "illegal_action"), ActivateAbility(st, step, ab, error)}
      BY DEF ActivateFound
    <3> HIDE DEF ab, error
    <3>3. Kept(l, ActivateAbility(st, step, ab, error).st)
      BY <1>1, <1>2, <3>1
    <3> QED BY <3>2, <3>3, OkKept, Zenon
  <2> QED BY <2>1, <2>2
<1>3. CASE step.actor \notin Ids(st)
  BY <1>3, OkKept DEF Activated, Exists
<1>4. CASE step.actor \in Ids(st)
  <2> DEFINE found == FindActivated(st, step.actor, step.ability_id)
  <2>1. \A ab \in found : FitList(ab.effects, EffectKinds) /\ CostList(ab.costs)
    BY FoundFit
  <2> HIDE DEF found
  <2>2. Kept(l, ActivateFound(st, step, found).st)
    BY <1>2, <1>4, <2>1
  <2> QED BY <1>4, <2>2 DEF Activated, Exists, found
<1> QED BY <1>3, <1>4

-----------------------------------------------------------------------------
(* Triggers *)
\* Of some natural numbers one is the smallest.
LEMMA SmallestOf ==
  ASSUME NEW S, S \subseteq Nat, S # {} PROVE \E k \in S : \A j \in S : k <= j
<1> SUFFICES ASSUME \A k \in S : \E j \in S : ~(k <= j) PROVE FALSE
  OBVIOUS
<1> DEFINE N == {n \in Nat : \A k \in S : ~(k <= n)}
<1>1. 0 \in N
  BY SMT
<1>2. ASSUME NEW n \in Nat, n \in N PROVE n + 1 \in N
  <2>1. ASSUME NEW k \in S, k <= n + 1 PROVE FALSE
    <3>1. PICK j \in S : ~(k <= j)
      OBVIOUS
    <3>2. k \in Nat /\ j \in Nat /\ ~(k <= n) /\ ~(j <= n)
      BY <1>2
    <3> QED BY <2>1, <3>1, <3>2
  <2> QED BY <2>1
<1> HIDE DEF N
<1>3. Nat \subseteq N
  BY <1>1, <1>2, NatSets
<1>4. PICK k : k \in S
  OBVIOUS
<1>5. k \in Nat /\ k \in N
  BY <1>3, <1>4
<1> QED BY <1>4, <1>5 DEF N

\* A pending trigger that is taken from the queue has a source on the books.
LEMMA PoppedKept ==
  ASSUME NEW l, NEW st, Kept(l, st), NEW i, i \in DOMAIN st.pending_triggers
  PROVE  /\ Kept(l, [st EXCEPT !.pending_triggers = RemoveAt(@, i)])
         /\ IsPending(st.pending_triggers[i], Ids(st))
<1> DEFINE q == st.pending_triggers
           r == RemoveAt(q, i)
<1>1. Queue(q, Ids(st))
  BY DEF Kept, IsState, Queue
<1>2. IsPending(q[i], Ids(st))
  BY <1>1 DEF Queue
<1>3. i \in DOMAIN q
  OBVIOUS
<1> HIDE DEF q
<1>4. Queue(r, Ids(st))
  BY <1>1, <1>3, QueueRemoveAt
<1> HIDE DEF r
<1>5. "pending_triggers" \in StateFields /\ Harmless(st, "pending_triggers", r)
  BY <1>4 DEF StateFields, Harmless
<1>6. Kept(l, [st EXCEPT !.pending_triggers = r])
  BY <1>5, FieldKept, Zenon
<1> QED BY <1>2, <1>6 DEF r, q

LEMMA UndyingKept ==
  ASSUME NEW l, NEW st, Kept(l, st), NEW id \in Ids(st) PROVE Kept(l, UndyingReturned(st, id).st)
<1> DEFINE n == Counters(st.permanents[id], "p1p1") + 1
           grown == WithCounters(st.permanents[id], "p1p1", n)
           back == [grown EXCEPT !.zone = "battlefield", !.tapped = FALSE, !.summoning_sick = TRUE,
                                 !.damage_marked = 0]
           s == [st EXCEPT !.permanents[id] = back]
           t == Bump(s, "return_to_battlefield", 1)
<1>1. UndyingReturned(st, id) \in {Err(st, "illegal_action"), Ok(OnEtb(t, id))}
  BY DEF UndyingReturned
<1>2. Becomes(st.permanents[id], back)
  <2> DEFINE p == st.permanents[id]
  <2>1. IsPermanent(p) /\ n \in Nat
    BY PermanentIn, CountersAt
  <2> HIDE DEF n, p
  <2>2. Becomes(p, grown)
    BY <2>1, CountersSet DEF p
  <2>3. IsPermanent(grown)
    BY <2>2 DEF Becomes
  <2> HIDE DEF grown
  <2>4. Becomes(grown, back)
    BY <2>3, Reshaped, Zenon
  <2> HIDE DEF back
  <2>5. Becomes(p, back)
    BY <2>2, <2>4, BecomesOn, Zenon
  <2> QED BY <2>5 DEF p
<1> HIDE DEF back
<1>3. Kept(l, s) /\ Ids(s) = Ids(st)
  <2>1. Kept(l, s)
    BY <1>2, PermanentKept, Zenon
  <2>2. Ids(s) = Ids(st)
    BY DEF Ids, Kept, IsState, StateFields
  <2> QED BY <2>1, <2>2
<1> HIDE DEF s
<1>4. Kept(l, t) /\ id \in Ids(t)
  BY <1>3, BumpThere, PlainKeys
<1> HIDE DEF t
<1>5. Kept(l, OnEtb(t, id))
  BY <1>4, EtbKept
<1> QED BY <1>1, <1>5, OkKept, Zenon

LEMMA TriggerKept ==
  ASSUME NEW l, NEW st, Kept(l, st), NEW tr, IsPending(tr, Ids(l.start)), NEW step
  PROVE  Kept(l, ResolvePopped(st, tr, step).st)
<1>1. ASSUME NEW found, \A ab \in found : FitList(ab.effects, EffectKinds)
      PROVE  Kept(l, TriggerEffects(st, tr, step, found).st)
  <2> DEFINE c == [source |-> tr.source_id,
                   target |-> IF step.target # NoId THEN step.target ELSE tr.subject_id,
                   subject |-> tr.subject_id, amount |-> tr.amount]
             ab == The(found)
  <2>1. CASE found = None
    BY <2>1, OkKept DEF TriggerEffects
  <2>2. CASE found # None
    <3>1. ab \in found
      BY <2>2 DEF The, None
    <3>2. TriggerEffects(st, tr, step, found) \in {Ok(st), ApplyEffects(st, ab.effects, c)}
      BY <2>2 DEF TriggerEffects
    <3>3. InContext(l, c)
      BY DEF InContext, IsPending
    <3> HIDE DEF c, ab
    <3>4. Kept(l, ApplyEffects(st, ab.effects, c).st)
      BY <1>1, <3>1, <3>3, EffectsKept
    <3> QED BY <3>2, <3>4, OkKept, Zenon
  <2> QED BY <2>1, <2>2
<1>2. \A ab \in AbilityOfTrigger(st, tr) : FitList(ab.effects, EffectKinds)
  BY AbilityFit DEF AbilityOfTrigger, FindAbility
<1>3. Kept(l, TriggerEffects(st, tr, step, AbilityOfTrigger(st, tr)).st)
  BY <1>1, <1>2
<1>4. tr.subject_id \in Ids(st)
  BY Present DEF IsPending
<1>5. Kept(l, UndyingReturned(st, tr.subject_id).st)
  BY <1>4, UndyingKept
<1> QED BY <1>3, <1>5, Zenon DEF ResolvePopped

LEMMA ResolveKept ==
  ASSUME NEW l, NEW st, Kept(l, st), Ids(st) \subseteq Ids(l.start), NEW step
  PROVE  Kept(l, ResolveTrigger(st, step).st)
<1>1. ASSUME NEW i, i \in DOMAIN st.pending_triggers PROVE Kept(l, ResolveAt(st, step, i).st)
  <2> DEFINE tr == st.pending_triggers[i]
             s == [st EXCEPT !.pending_triggers = RemoveAt(@, i)]
  <2>1. Kept(l, s) /\ IsPending(tr, Ids(st))
    BY <1>1, PoppedKept
  <2> HIDE DEF s, tr
  <2>2. IsPending(tr, Ids(l.start))
    BY <2>1 DEF IsPending
  <2>3. Kept(l, ResolvePopped(s, tr, step).st)
    BY <2>1, <2>2, TriggerKept
  <2> QED BY <2>3 DEF ResolveAt, s, tr
<1> DEFINE index == PendingIndex(st, step)
           i == The(index)
<1>2. CASE index = None
  BY <1>2, OkKept DEF ResolveTrigger
<1>3. CASE index # None
  <2>1. index \subseteq DOMAIN st.pending_triggers
    <3> DEFINE named(tr) == /\ step.ability_id # NoAbility => tr.ability_id = step.ability_id
                            /\ step.actor # NoId => tr.source_id = step.actor
               matching == {k \in DOMAIN st.pending_triggers : named(st.pending_triggers[k])}
               first == CHOOSE k \in matching : \A j \in matching : k <= j
    <3>1. index = IF matching = {} THEN None ELSE Some(first)
      BY DEF PendingIndex
    <3>2. IsSequence(st.pending_triggers)
      BY DEF Kept, IsState
    <3>3. DOMAIN st.pending_triggers \subseteq Nat
      BY <3>2, ListIndices
    <3>4. matching \subseteq Nat /\ matching # {}
      BY <1>3, <3>1, <3>3
    <3>5. matching \subseteq DOMAIN st.pending_triggers
      OBVIOUS
    <3> HIDE DEF matching
    <3>6. \E k \in matching : \A j \in matching : k <= j
      BY <3>4, SmallestOf
    <3>7. first \in matching
      BY <3>6
    <3> HIDE DEF first
    <3> QED BY <3>1, <3>4, <3>5, <3>7 DEF Some
  <2> HIDE DEF index
  <2>2. i \in DOMAIN st.pending_triggers
    BY <1>3, <2>1 DEF The, None
  <2> HIDE DEF i
  <2>3. Kept(l, ResolveAt(st, step, i).st)
    BY <1>1, <2>2
  <2> QED BY <1>3, <2>3 DEF ResolveTrigger, i, index
<1> QED BY <1>2, <1>3

-----------------------------------------------------------------------------
(* Casting and the smaller steps *)
\* What the board takes off a spell.
LEMMA UnitsInt ==
  ASSUME NEW st, IsState(st), NEW s, s[1] \in Ids(st), NEW r PROVE ReductionUnits(st, s, r) \in Int
<1>1. IsFiniteSet(Ids(st)) /\ IsPermanent(st.permanents[s[1]])
  BY DEF IsState
<1>2. Counters(st.permanents[s[1]], "p1p1") \in Int
  BY <1>1, PTTypes
<1>3. \A S : S \subseteq Ids(st) => Cardinality(S) \in Int
  BY CountIds
<1>4. YourArtifacts(st) \subseteq Ids(st) /\ YourCreatures(st) \subseteq Ids(st)
  BY DEF YourArtifacts, YourCreatures, Yours
<1> DEFINE strong == {id \in YourCreatures(st) : PowerOf(st, st.permanents[id]) >= r.power_threshold}
<1>5. strong \subseteq Ids(st)
  BY <1>4
<1>6. Cardinality(YourArtifacts(st)) \in Int /\ Cardinality(strong) \in Int /\ 1 \in Int
  BY <1>3, <1>4, <1>5
<1>7. ReductionUnits(st, s, r)
        \in {Cardinality(YourArtifacts(st)), Cardinality(strong), Counters(st.permanents[s[1]], "p1p1"), 1}
  <2> HIDE DEF strong
  <2> QED BY Zenon DEF ReductionUnits, strong
<1> HIDE DEF strong
<1> QED BY <1>2, <1>6, <1>7
AddSpellReduction(st, a, s) == StaticOf(st, s).reduce_generic * ReductionUnits(st, s, StaticOf(st, s)) + a
EachSpellReduction == INSTANCE FoldFacts WITH Op <- AddSpellReduction, P <- IsInt
LEMMA SpellReductionInt ==
  ASSUME NEW st, IsState(st), NEW card PROVE SpellCostReduction(st, card) \in Int
<1> DEFINE K == Statics(st, "continuous_cost_reduction")
           live == {s \in K : ReducesSpell(StaticOf(st, s), card)}
<1>0. IsFiniteSet(Ids(st))
  BY DEF IsState
<1>1. IsFiniteSet(K) /\ \A s \in K : StaticOf(st, s).reduce_generic \in Int
  BY <1>0, StaticTypes DEF IsAbility
<1>2. \A s \in K : s[1] \in Ids(st)
  BY DEF Statics, Yours
<1>3. SpellCostReduction(st, card) = EachSpellReduction!SetFold(st, 0, live)
  BY Zenon DEF SpellCostReduction, SumOver, MapThenSumSet, MapThenFoldSet, AddSpellReduction,
     EachSpellReduction!SetFold
<1> HIDE DEF K
<1>4. IsFiniteSet(live)
  BY <1>1, FS_Subset
<1>5. ASSUME NEW a, NEW s \in live, IsInt(st, a) PROVE IsInt(st, AddSpellReduction(st, a, s))
  <2> DEFINE n == StaticOf(st, s).reduce_generic
             m == ReductionUnits(st, s, StaticOf(st, s))
  <2>1. n \in Int /\ m \in Int /\ a \in Int
    BY <1>1, <1>2, <1>5, UnitsInt DEF IsInt
  <2>2. AddSpellReduction(st, a, s) = n * m + a
    BY DEF AddSpellReduction
  <2> HIDE DEF n, m
  <2>3. n * m + a \in Int
    BY <2>1
  <2> QED BY <2>2, <2>3 DEF IsInt
<1>6. IsInt(st, 0)
  BY DEF IsInt
<1> HIDE DEF live
<1>7. IsInt(st, EachSpellReduction!SetFold(st, 0, live))
  BY <1>4, <1>5, <1>6, NatSets, FiniteRanks, EachSpellReduction!SetFoldInvariant
<1> QED BY <1>3, <1>7 DEF IsInt
LEMMA SpellPools ==
  ASSUME NEW l, NEW st, Kept(l, st), NEW card, card.mana_cost \in ManaAmount
  PROVE  Purses(PayForSpell(st, card))
<1> DEFINE reduced == Least(SpellCostReduction(st, card), card.mana_cost["generic"])
           need == [card.mana_cost EXCEPT !["generic"] = @ - reduced]
<1>1. PayForSpell(st, card) \in {PurseOf(st.mana, st.mana_activate_only),
                                 PayMana(st.mana, st.mana_activate_only, need, FALSE)}
  BY DEF PayForSpell
<1>2. SpellCostReduction(st, card) \in Int
  BY SpellReductionInt DEF Kept
<1>3. need \in Price
  <2> DEFINE k == SpellCostReduction(st, card)
             amount == card.mana_cost
  <2>1. k \in Int /\ 0 \in Int /\ amount \in ManaAmount
    BY <1>2
  <2> HIDE DEF k, amount
  <2>2. [amount EXCEPT !["generic"] = @ - Least(k, amount["generic"])] \in Price
    BY <2>1, Discounted
  <2> QED BY <2>2 DEF k, amount
<1> HIDE DEF need
<1> QED BY <1>1, <1>3, StatePools
LEMMA CastPaidKept ==
  ASSUME NEW l, NEW st, Kept(l, st), NEW id \in Ids(st), NEW w, Purses(w) PROVE Kept(l, CastPaid(st, id, w).st)
<1> DEFINE s == Drained(st, w)
           p == Entering(s.permanents[id])
           s1 == [s EXCEPT !.permanents[id] = p]
           s2 == Bump(s1, "cast", 1)
           s3 == QueueTriggers(s2, "cast", id, None)
           s4 == OnEtb(s3, id)
<1>1. CastPaid(st, id, w) = IF w.status # "ok" THEN Err(s, w.status) ELSE Ok(s4)
  <2>1. [s EXCEPT !.permanents[id] = Entering(@)] = s1
    <3>1. DOMAIN s = StateFields
      BY DEF Drained, Kept, IsState, StateFields
    <3> HIDE DEF s
    <3> QED BY <3>1 DEF StateFields
  <2> QED BY <2>1, Zenon DEF CastPaid
<1>2. Kept(l, s) /\ id \in Ids(s)
  BY DrainedKept, Zenon
<1> HIDE DEF s
<1>3. Becomes(s.permanents[id], p)
  BY <1>2, PermanentIn, Reshaped
<1> HIDE DEF p
<1>4. Kept(l, s1) /\ id \in Ids(s1)
  <2>1. Kept(l, s1)
    BY <1>2, <1>3, PermanentKept, Zenon
  <2>2. Ids(s1) = Ids(s)
    BY <1>2 DEF Ids, Kept, IsState, StateFields
  <2> QED BY <1>2, <2>1, <2>2
<1> HIDE DEF s1
<1>5. Kept(l, s2) /\ id \in Ids(s2)
  BY <1>4, BumpThere, PlainKeys
<1> HIDE DEF s2
<1>6. None \subseteq Int
  BY DEF None
<1>7. Kept(l, s3) /\ id \in Ids(s3)
  <2>1. Kept(l, s3)
    BY <1>5, <1>6, TriggersKept, Zenon
  <2>2. Ids(s3) = Ids(s2)
    BY <1>5, SameIds DEF Kept
  <2> QED BY <1>5, <2>1, <2>2
<1> HIDE DEF s3
<1>8. Kept(l, s4)
  BY <1>7, EtbKept, Zenon
<1> HIDE DEF s4
<1> QED BY <1>1, <1>2, <1>8, OkKept, Zenon
LEMMA CastKept ==
  ASSUME NEW l, NEW st, Kept(l, st), NEW step PROVE Kept(l, CastFromHand(st, step).st)
<1> DEFINE p == st.permanents[step.actor]
           card == Cards[p.oracle]
           w == PayForSpell(st, card)
<1>1. \/ CastFromHand(st, step) \in {Err(st, "illegal_action"), Err(st, "unsupported_semantics")}
      \/ step.actor \in Ids(st) /\ HasSemantics(p) /\ CastFromHand(st, step) = CastPaid(st, step.actor, w)
  BY DEF CastFromHand, Exists
<1>2. HasSemantics(p) => card.mana_cost \in ManaAmount
  BY CardsAssumption DEF HasSemantics, WellFormed
<1> HIDE DEF p, card
<1>3. HasSemantics(p) => Purses(w)
  BY <1>2, SpellPools
<1> HIDE DEF w
<1>4. step.actor \in Ids(st) /\ HasSemantics(p) => Kept(l, CastPaid(st, step.actor, w).st)
  BY <1>3, CastPaidKept
<1> QED BY <1>1, <1>4, OkKept, Zenon

LEMMA TapBounceKept ==
  ASSUME NEW l, NEW st, Kept(l, st), NEW step PROVE Kept(l, TapBounce(st, step).st)
<1> DEFINE s1 == Flagged(st, step.actor, "tapped", TRUE)
           s2 == Flagged(s1, step.target, "zone", "hand")
           s3 == Flagged(s2, step.target, "tapped", FALSE)
           legal == /\ Exists(st, step.target) /\ OnBattlefield(st.permanents[step.target])
                    /\ "land" \notin CardTypes(st.permanents[step.target])
<1>1. TapBounce(st, step)
        \in {Err(st, "illegal_action"), Err(st, "timing_violation"), Illegal(st, legal, Ok(s3))}
  <2> DEFINE bounced == [[st EXCEPT !.permanents[step.actor].tapped = TRUE]
                           EXCEPT !.permanents[step.target].zone = "hand",
                                  !.permanents[step.target].tapped = FALSE]
  <2>1. bounced = s3
    BY Zenon DEF Flagged
  <2>2. TapBounce(st, step)
          \in {Err(st, "illegal_action"), Err(st, "timing_violation"), Illegal(st, legal, Ok(bounced))}
    BY DEF TapBounce
  <2> HIDE DEF bounced, s3, legal
  <2> QED BY <2>1, <2>2
<1>2. \A p : Fits(p, "zone", "hand") /\ Fits(p, "tapped", TRUE) /\ Fits(p, "tapped", FALSE)
  BY Fitting, FlagNames
<1>3. Kept(l, s1)
  BY <1>2, FlaggedKept, Zenon
<1> HIDE DEF s1
<1>4. Kept(l, s2)
  BY <1>2, <1>3, FlaggedKept, Zenon
<1> HIDE DEF s2
<1>5. Kept(l, s3)
  BY <1>2, <1>4, FlaggedKept, Zenon
<1> HIDE DEF s3, legal
<1>6. Kept(l, Illegal(st, legal, Ok(s3)).st)
  BY <1>5, OkKept, IllegalKept, Zenon
<1> QED BY <1>1, <1>6, OkKept, Zenon

LEMMA SacrificeNamedKept ==
  ASSUME NEW l, NEW st, Kept(l, st), NEW step PROVE Kept(l, SacrificeNamed(st, step).st)
<1>1. CASE step.actor \notin Ids(st)
  BY <1>1, OkKept DEF SacrificeNamed, Exists
<1>2. CASE step.actor \in Ids(st)
  <2> DEFINE s == Sacrifice(st, step.actor)
             legal == Controlled(st.permanents[step.actor])
  <2>1. SacrificeNamed(st, step) = Illegal(st, legal, Ok(s))
    BY <1>2 DEF SacrificeNamed, Exists
  <2>2. Kept(l, s)
    BY <1>2, SacrificeKept, Zenon
  <2> HIDE DEF s, legal
  <2>3. Kept(l, Illegal(st, legal, Ok(s)).st)
    BY <2>2, OkKept, IllegalKept, Zenon
  <2> QED BY <2>1, <2>3
<1> QED BY <1>1, <1>2
LEMMA SeedGrantKept ==
  ASSUME NEW l, NEW st, Kept(l, st), NEW step, step.op \in GrantSeeds
  PROVE  Kept(l, SeedGrant(st, step).st)
<1> DEFINE id == step.target
           s1 == Flagged(st, id, "lifelink", TRUE)
           s2 == Flagged(st, id, "undying", TRUE)
           s3 == Flagged(st, id, "tap_bounce_nonland", TRUE)
           legal == /\ Exists(st, id) /\ st.permanents[id].is_creature
                    /\ step.op = "seed_grant_tap_bounce" => OnBattlefield(st.permanents[id])
<1> DEFINE s == CASE step.op = "seed_grant_lifelink" -> s1
                  [] step.op = "seed_grant_undying" -> s2
                  [] step.op = "seed_grant_tap_bounce" -> s3
<1>0. SeedGrant(st, step) = Illegal(st, legal, Ok(s))
  BY Zenon DEF SeedGrant, Flagged
<1>1. s \in {s1, s2, s3}
  <2> HIDE DEF s1, s2, s3
  <2> QED BY DEF GrantSeeds
<1>2. \A p, v : Fits(p, "lifelink", v) /\ Fits(p, "undying", v) /\ Fits(p, "tap_bounce_nonland", v)
  BY FreeFields
<1>3. Kept(l, s1) /\ Kept(l, s2) /\ Kept(l, s3)
  BY <1>2, FlaggedKept, Zenon
<1> HIDE DEF s, s1, s2, s3, legal
<1>4. Kept(l, s)
  BY <1>1, <1>3
<1>5. Kept(l, Illegal(st, legal, Ok(s)).st)
  BY <1>4, OkKept, IllegalKept, Zenon
<1> QED BY <1>0, <1>5

\* The seeds of a source.  The largest drain is found among the amounts of all cards.
Losing(ab) == {x \in ToSet(ab.effects) : x.kind = "lose_life"}
Losses(ab) == {e.amount : e \in Losing(ab)}
Drains(o) ==
  {x \in ToSet(Cards[o].abilities) : x.kind = "triggered" /\ x.event = "card_to_opponent_graveyard"}
LossesOf(o) == UNION {Losses(ab) : ab \in Drains(o)}
AllLosses == UNION {LossesOf(o) : o \in DOMAIN Cards}
LEMMA LossesInt ==
  ASSUME NEW ab, ab.kind = "triggered", IsAbility(ab)
  PROVE  Losses(ab) \subseteq Int /\ IsFiniteSet(Losses(ab))
<1>1. IsSequence(ab.effects) /\ \A i \in DOMAIN ab.effects : IsEffect(ab.effects[i])
  BY DEF IsAbility, ListOf
<1>2. \A e \in Losing(ab) : e.amount \in Int
  BY <1>1 DEF Losing, IsEffect, ToSet
<1>3. IsFiniteSet(Losing(ab))
  <2>1. IsFiniteSet(ToSet(ab.effects))
    BY <1>1, FiniteElements
  <2> QED BY <2>1, FS_Subset DEF Losing
<1> DEFINE S == Losing(ab)
           f == [e \in S |-> e.amount]
<1>4. IsFiniteSet({f[e] : e \in S})
  <2>1. IsFiniteSet(S) /\ S \subseteq DOMAIN f
    BY <1>3
  <2> HIDE DEF S, f
  <2> QED BY <2>1, FiniteImage
<1>5. \A e \in S : f[e] = e.amount
  OBVIOUS
<1>6. Losses(ab) = {e.amount : e \in S}
  BY DEF Losses
<1>7. \A e \in S : e.amount \in Int
  BY <1>2
<1> HIDE DEF S, f
<1>8. {f[e] : e \in S} = Losses(ab)
  BY <1>5, <1>6
<1>9. Losses(ab) \subseteq Int
  BY <1>6, <1>7
<1> QED BY <1>4, <1>8, <1>9
LEMMA LossesOfInt ==
  ASSUME NEW o, o \in DOMAIN Cards PROVE LossesOf(o) \subseteq Int /\ IsFiniteSet(LossesOf(o))
<1>1. \A ab \in Drains(o) : Losses(ab) \subseteq Int /\ IsFiniteSet(Losses(ab))
  <2>1. \A ab \in Drains(o) : ab.kind = "triggered" /\ IsAbility(ab)
    BY CardsAssumption DEF WellFormed, ToSet, Drains
  <2> QED BY <2>1, LossesInt
<1>2. IsFiniteSet(Drains(o))
  <2>1. IsFiniteSet(ToSet(Cards[o].abilities))
    BY FiniteElements, CardsAssumption DEF WellFormed
  <2> QED BY <2>1, FS_Subset DEF Drains
<1> DEFINE S == Drains(o)
           F == [ab \in S |-> Losses(ab)]
<1>3. \A ab \in S : F[ab] = Losses(ab)
  OBVIOUS
<1>4. LossesOf(o) = UNION {Losses(ab) : ab \in S}
  BY DEF LossesOf
<1> HIDE DEF F
<1>5. IsFiniteSet(UNION {F[ab] : ab \in S})
  BY <1>1, <1>2, <1>3, FiniteUnion
<1> HIDE DEF S
<1>6. UNION {F[ab] : ab \in S} = LossesOf(o)
  BY <1>3, <1>4
<1>7. LossesOf(o) \subseteq Int
  BY <1>1, <1>4 DEF S
<1> QED BY <1>5, <1>6, <1>7
LEMMA DrainSeedInt == GraveyardDrainSeed \in Int
<1>1. GraveyardDrainSeed = Greatest({1} \cup AllLosses)
  BY Zenon DEF GraveyardDrainSeed, AllLosses, LossesOf, Losses, Losing, Drains
<1> DEFINE S == DOMAIN Cards
           F == [o \in S |-> LossesOf(o)]
<1>2. ASSUME NEW o, o \in S PROVE LossesOf(o) \subseteq Int /\ IsFiniteSet(LossesOf(o))
  BY <1>2, LossesOfInt
<1>3. \A o \in S : F[o] = LossesOf(o)
  OBVIOUS
<1>4. AllLosses = UNION {LossesOf(o) : o \in S}
  BY DEF AllLosses
<1>5. IsFiniteSet(S)
  BY CardsAssumption
<1> HIDE DEF S, F
<1>6. IsFiniteSet(UNION {F[o] : o \in S})
  BY <1>2, <1>3, <1>5, FiniteUnion
<1>7. UNION {F[o] : o \in S} = AllLosses
  BY <1>3, <1>4
<1>8. AllLosses \subseteq Int
  BY <1>2, <1>4
<1>9. IsFiniteSet(AllLosses)
  BY <1>6, <1>7, Zenon
<1>10. IsFiniteSet({1} \cup AllLosses)
  <2>1. IsFiniteSet(AllLosses \cup {1})
    BY <1>9, FS_AddElement, Zenon
  <2>2. {1} \cup AllLosses = AllLosses \cup {1}
    OBVIOUS
  <2> QED BY <2>1, <2>2, Zenon
<1>11. {1} \cup AllLosses \in SUBSET Int
  BY <1>8
<1> QED BY <1>1, <1>10, <1>11, GreatestOf

LEMMA SeedSourceKept ==
  ASSUME NEW l, NEW st, Kept(l, st), Ids(st) \subseteq Ids(l.start), NEW step, step.op \in SourceSeeds
  PROVE  Kept(l, SeedFromSource(st, step).st)
<1>1. CASE step.actor \notin Ids(st)
  BY <1>1, OkKept DEF SeedFromSource, Exists
<1>2. CASE step.actor \in Ids(st)
  <2> DEFINE c == [source |-> step.actor, target |-> NoId, subject |-> NoId, amount |-> None]
             s1 == GainYourLife(st, step.actor, 1)
             s2 == LoseOpponentLife(st, step.actor, GraveyardDrainSeed)
             r == CreateToken(st, Food, c)
  <2>1. SeedFromSource(st, step) \in {Ok(s1), Ok(s2), r}
    BY <1>2 DEF SeedFromSource, SourceSeeds, Exists
  <2>0. step.actor \in Ids(l.start)
    BY <1>2
  <2>2. InContext(l, c)
    BY <1>2 DEF InContext, None
  <2> HIDE DEF c
  <2>3. Food.kind = "create_token" /\ IsEffect(Food)
    <3>1. /\ Food.kind = "create_token" /\ Food.from = "amount"
          /\ Food.quantity = 1 /\ Food.pt = <<0, 0>> /\ Food.is_creature = FALSE
      BY DEF Food, CreateTokenEffect
    <3>2. IsPT(Food.pt)
      BY <3>1 DEF IsPT
    <3>3. Food.from \in AmountSources["create_token"]
      BY <3>1 DEF AmountSources
    <3>4. Food.is_creature \in BOOLEAN
      BY <3>1
    <3> HIDE DEF Food
    <3> QED BY <3>1, <3>2, <3>3, <3>4 DEF IsEffect
  <2> HIDE DEF Food
  <2>4. Kept(l, r.st)
    BY <2>2, <2>3, TokenKept, Zenon
  <2>5. Kept(l, s1)
    <3>1. 1 \in Int
      OBVIOUS
    <3> QED BY <2>0, <3>1, GainYourLifeKept, Zenon
  <2>6. Kept(l, s2)
    BY <2>0, DrainSeedInt, LoseOpponentLifeKept, Zenon
  <2> HIDE DEF r, s1, s2
  <2> QED BY <2>1, <2>4, <2>5, <2>6, OkKept, Zenon
<1> QED BY <1>1, <1>2

LEMMA DeclaredKept == ASSUME NEW l, NEW st, Kept(l, st), NEW op PROVE Kept(l, Declared(st, op).st)
  BY OkKept, Zenon DEF Declared

\* A step keeps the books of a state whose objects they all name, and so do the state-based
\* actions after it.
LEMMA BodyKept ==
  ASSUME NEW l, NEW st, Kept(l, st), Ids(st) \subseteq Ids(l.start), NEW step
  PROVE  Kept(l, RunStepBody(st, step).st)
<1>1. /\ Kept(l, Activated(st, step).st) /\ Kept(l, ResolveTrigger(st, step).st)
      /\ Kept(l, SacrificeNamed(st, step).st) /\ Kept(l, CastFromHand(st, step).st)
  BY ActivatedKept, ResolveKept, SacrificeNamedKept, CastKept
<1>2. /\ step.op \in SourceSeeds => Kept(l, SeedFromSource(st, step).st)
      /\ step.op \in GrantSeeds => Kept(l, SeedGrant(st, step).st)
      /\ Kept(l, TapBounce(st, step).st) /\ Kept(l, Declared(st, step.op).st)
  BY SeedSourceKept, SeedGrantKept, TapBounceKept, DeclaredKept
<1> QED BY <1>1, <1>2 DEF RunStepBody
\* The state-based actions after a step, and a step that failed.
LEMMA AfterKept == ASSUME NEW l, NEW r, Kept(l, r.st) PROVE Kept(l, AfterStep(r).st)
<1> DEFINE s == ApplySBA(r.st)
<1>1. AfterStep(r) \in {Ok(s), r}
  BY DEF AfterStep
<1>2. Kept(l, s)
  BY SBAKept, Zenon
<1> HIDE DEF s
<1> QED BY <1>1, <1>2, OkKept, Zenon

\* Whatever the step, run_step leaves a GameState that follows the one it was called on, when the
\* step fails as when it succeeds: no object is forgotten, no token id is handed out twice, and while
\* there are token ids every object is listed once. So the search and the verifier can go on from any
\* state they reach.
THEOREM StepsStayTyped ==
  \A st, step : IsState(st) => IsState(RunStep(st, step).st) /\ Follows(st, RunStep(st, step).st)
<1> SUFFICES ASSUME NEW st, NEW step, IsState(st)
             PROVE  IsState(RunStep(st, step).st) /\ Follows(st, RunStep(st, step).st)
  OBVIOUS
<1>1. PICK m : m.start = st /\ Kept(m, st)
  BY BooksOpen
<1> DEFINE r == RunStepBody(st, step)
<1>2. Kept(m, r.st)
  BY <1>1, BodyKept
<1>3. RunStep(st, step) = AfterStep(r)
  BY DEF RunStep
<1> HIDE DEF r
<1>4. Kept(m, AfterStep(r).st)
  BY <1>2, AfterKept
<1>5. IsState(AfterStep(r).st) /\ Follows(st, AfterStep(r).st)
  BY <1>1, <1>4 DEF Kept
<1> QED BY <1>3, <1>5

=============================================================================
