------------------------------ MODULE SearchProofs ------------------------------
(***************************************************************************)
(* Proofs about the search, for every pool of cards.                       *)
(*                                                                         *)
(* First what does not change: the inverted index finds every pair of      *)
(* cards that may interact; the board a pair is searched on is a state of  *)
(* the executor; the legal steps of a state are a list of steps that lead  *)
(* to states.  Then the search: its bounds, its order, what it reports and *)
(* what the setup of a hit is.                                             *)
(***************************************************************************)
EXTENDS Search, StepProofs

-----------------------------------------------------------------------------
(* Lists *)
LEMMA EmptyList == IsSequence(<<>>) /\ Len(<<>>) = 0 /\ DOMAIN <<>> = {}
<1>1. <<>> \in Seq({})
  OBVIOUS
<1>2. Len(<<>>) = 0 /\ DOMAIN <<>> = {}
  OBVIOUS
<1> QED BY <1>1, <1>2, ListOfElements, Zenon

\* An appended sequence is one longer and keeps its elements.
LEMMA Appended ==
  ASSUME NEW s, IsSequence(s), NEW e
  PROVE  /\ IsSequence(Append(s, e)) /\ Len(s) \in Nat /\ Len(Append(s, e)) = Len(s) + 1
         /\ DOMAIN Append(s, e) = 1..(Len(s) + 1)
         /\ \A i \in 1..Len(s) : Append(s, e)[i] = s[i]
         /\ Append(s, e)[Len(s) + 1] = e
<1> DEFINE S == {s[i] : i \in DOMAIN s} \cup {e}
<1>1. s \in Seq(S) /\ e \in S
  <2>1. \A i \in DOMAIN s : s[i] \in S
    OBVIOUS
  <2> QED BY <2>1, ElementsOfList
<1> HIDE DEF S
<1>2. Append(s, e) \in Seq(S)
  BY <1>1
<1>3. IsSequence(Append(s, e))
  BY <1>2, ListOfElements, Zenon
<1> QED
  BY <1>1, <1>2, <1>3

\* The tail of a sequence is one shorter and keeps the other elements.
LEMMA Popped ==
  ASSUME NEW s, IsSequence(s), s # <<>>
  PROVE  /\ IsSequence(Tail(s)) /\ Len(s) \in Nat \ {0} /\ DOMAIN s = 1..Len(s)
         /\ DOMAIN Tail(s) = 1..(Len(s) - 1) /\ Head(s) = s[1]
         /\ \A i \in DOMAIN Tail(s) : i + 1 \in DOMAIN s /\ Tail(s)[i] = s[i + 1]
<1> DEFINE S == {s[i] : i \in DOMAIN s}
<1>1. s \in Seq(S)
  BY DEF IsSequence
<1> HIDE DEF S
<1>2. Tail(s) \in Seq(S) /\ Len(s) \in Nat \ {0} /\ DOMAIN s = 1..Len(s)
  BY <1>1
<1>3. IsSequence(Tail(s))
  BY <1>2, ListOfElements, Zenon
<1> QED
  BY <1>1, <1>2, <1>3

\* What two sequences are together.
LEMMA Joined ==
  ASSUME NEW s, NEW t, IsSequence(s), IsSequence(t)
  PROVE  /\ IsSequence(s \o t) /\ Len(s) \in Nat /\ Len(t) \in Nat
         /\ DOMAIN s = 1..Len(s) /\ DOMAIN t = 1..Len(t)
         /\ DOMAIN (s \o t) = 1..(Len(s) + Len(t))
         /\ \A i \in 1..Len(s) : (s \o t)[i] = s[i]
         /\ \A i \in (Len(s) + 1)..(Len(s) + Len(t)) : (s \o t)[i] = t[i - Len(s)]
<1> DEFINE S == {s[i] : i \in DOMAIN s} \cup {t[i] : i \in DOMAIN t}
<1>1. s \in Seq(S) /\ t \in Seq(S)
  <2>1. (\A i \in DOMAIN s : s[i] \in S) /\ (\A i \in DOMAIN t : t[i] \in S)
    OBVIOUS
  <2> QED BY <2>1, ElementsOfList
<1> HIDE DEF S
<1>2. s \o t \in Seq(S)
  BY <1>1
<1>3. IsSequence(s \o t)
  BY <1>2, ListOfElements, Zenon
<1> QED
  BY <1>1, <1>2, <1>3

-----------------------------------------------------------------------------
(* The candidate pairs *)
\* A seam of two cards is seen from one of them.
LEMMA SeamsAreSeen ==
  ASSUME NEW left, NEW right, NEW reason \in DOMAIN Seams(left, right), Seams(left, right)[reason]
  PROVE  Complements(left, right) \/ Complements(right, left)
<1> DEFINE Seen == Complements(left, right) \/ Complements(right, left)
<1>1. Seams(left, right).etb_trigger => Seen
  BY Zenon DEF Seams, Complements, Meets
<1>2. Seams(left, right).tap_untap => Seen
  BY Zenon DEF Seams, Complements, Meets
<1>3. Seams(left, right).sac_recursion => Seen
  BY DEF Seams, Complements, Meets
<1>4. Seams(left, right).counter_reload => Seen
  BY Zenon DEF Seams, Complements, Meets
<1>5. Seams(left, right).token_create_trigger => Seen
  BY Zenon DEF Seams, Complements, Meets
<1>6. Seams(left, right).counter_added_trigger => Seen
  BY Zenon DEF Seams, Complements, Meets
<1>7. Seams(left, right).cost_reduce => Seen
  BY Zenon DEF Seams, Complements, Meets
<1>8. Seams(left, right).m1m1_replacement => Seen
  BY Zenon DEF Seams, Complements, Meets
<1>9. Seams(left, right).mana_pay => Seen
  BY Zenon DEF Seams, Complements, Meets
<1>10. Seams(left, right).dies_payoff => Seen
  BY Zenon DEF Seams, Complements, Meets, Sacrifices
<1>11. Seams(left, right).life_to_drain => Seen
  BY Zenon DEF Seams, Complements, Meets
<1>12. Seams(left, right).loss_to_gain => Seen
  BY Zenon DEF Seams, Complements, Meets
<1>13. Seams(left, right).mill_to_graveyard => Seen
  BY Zenon DEF Seams, Complements, Meets
<1>14. Seams(left, right).bounce_free_cast => Seen
  BY Zenon DEF Seams, Complements, Meets
<1>15. Seams(left, right).etb_free_cast => Seen
  BY Zenon DEF Seams, Complements, Meets
<1>16. Seams(left, right).bounce_untap => Seen
  BY Zenon DEF Seams, Complements, Meets
<1>17. Seams(left, right).grant_bounce_etb => Seen
  BY Zenon DEF Seams, Complements, Meets
<1>18. Seams(left, right).grant_bounce_untap => Seen
  BY Zenon DEF Seams, Complements, Meets
<1>19. Seams(left, right).copy_activated_untap => Seen
  BY Zenon DEF Seams, Complements, Meets
<1>20. Seams(left, right).multiply_tap_mana => Seen
  BY Zenon DEF Seams, Complements, Meets
<1>21. Seams(left, right).untap_trigger => Seen
  BY Zenon DEF Seams, Complements, Meets
<1>22. Seams(left, right).cast_mana_rock => Seen
  BY Zenon DEF Seams, Complements, Meets
<1>23. Seams(left, right).bounce_mana_rock => Seen
  BY Zenon DEF Seams, Complements, Meets
<1>24. Seams(left, right).blink_copy => Seen
  BY Zenon DEF Seams, Complements, Meets
<1>25. reason \in
        {"etb_trigger", "tap_untap", "sac_recursion", "counter_reload",
         "token_create_trigger", "counter_added_trigger", "cost_reduce", "m1m1_replacement",
         "mana_pay", "dies_payoff", "life_to_drain", "loss_to_gain",
         "mill_to_graveyard", "bounce_free_cast", "etb_free_cast", "bounce_untap",
         "grant_bounce_etb", "grant_bounce_untap", "copy_activated_untap", "multiply_tap_mana",
         "untap_trigger", "cast_mana_rock", "bounce_mana_rock", "blink_copy"}
  BY DEF Seams
<1> QED
  BY <1>1, <1>2, <1>3, <1>4, <1>5, <1>6, <1>7, <1>8, <1>9, <1>10, <1>11, <1>12, <1>13, <1>14, <1>15, <1>16, <1>17, <1>18, <1>19, <1>20, <1>21, <1>22, <1>23, <1>24, <1>25

\* The index finds a pair whenever there is a reason to join its two cards, for all facets that
\* cards may have: _complement_ids looks from one of the two cards at the other one.
THEOREM IndexFindsEveryJoin ==
  \A left, right :
    JoinReasons(left, right) # {} => Complements(left, right) \/ Complements(right, left)
<1> SUFFICES ASSUME NEW left, NEW right, JoinReasons(left, right) # {}
             PROVE  Complements(left, right) \/ Complements(right, left)
  OBVIOUS
<1>1. PICK reason \in DOMAIN Seams(left, right) : Seams(left, right)[reason]
  BY DEF JoinReasons
<1> QED
  BY <1>1, SeamsAreSeen

\* The pairs of a pool that may interact, in the order of the pool's ids.
Candidates(pool) ==
  {p \in (DOMAIN CapsOf(pool)) \X (DOMAIN CapsOf(pool)) :
     p[1] # p[2] /\ Reasons(CapsOf(pool), p[1], p[2]) # {}}

\* What the index of a pool lists: supported cards that have been compiled.
LEMMA IndexedCards ==
  ASSUME NEW pool \in Pools
  PROVE  /\ DOMAIN CapsOf(pool) = Indexed(ToSet(pool), Cards)
         /\ DOMAIN CapsOf(pool) \subseteq DOMAIN Cards
         /\ \A o \in DOMAIN CapsOf(pool) :
              /\ ~RelevantUnsupported(Cards[o])
              /\ CapsOf(pool)[o] = ExtractCapabilities(Cards[o])
         /\ IsSequence(IndexedOrder(pool))
         /\ \A i \in DOMAIN IndexedOrder(pool) : IndexedOrder(pool)[i] \in DOMAIN CapsOf(pool)
         /\ \A o \in DOMAIN CapsOf(pool) : \E i \in DOMAIN IndexedOrder(pool) : IndexedOrder(pool)[i] = o
<1> DEFINE S == Indexed(ToSet(pool), Cards)
           I == {i \in DOMAIN pool : pool[i] \in S}
<1>1. IsSequence(pool) /\ ToSet(pool) \subseteq DOMAIN Cards
  BY PoolsAssumption DEF ToSet
<1>2. S \subseteq ToSet(pool) /\ \A o \in S : ~RelevantUnsupported(Cards[o])
  BY DEF Indexed
<1>3. DOMAIN CapsOf(pool) = S /\ \A o \in S : CapsOf(pool)[o] = ExtractCapabilities(Cards[o])
  BY DEF CapsOf
<1> HIDE DEF S
<1>4. IndexedOrder(pool) \in Seq(S)
  BY <1>1, ThoseList DEF IndexedOrder, S
<1>5. IsSequence(IndexedOrder(pool)) /\ \A i \in DOMAIN IndexedOrder(pool) : IndexedOrder(pool)[i] \in S
  BY <1>4, ListOfElements
<1>6. ASSUME NEW o \in S PROVE \E i \in DOMAIN IndexedOrder(pool) : IndexedOrder(pool)[i] = o
  <2>1. PICK i \in DOMAIN pool : pool[i] = o
    BY <1>2 DEF ToSet
  <2>2. i \in DOMAIN pool \cap I
    BY <2>1
  <2>3. pool[i] \in ToSet(Picked(pool, I))
    BY <1>1, <2>2, PickedList, Zenon
  <2>4. IndexedOrder(pool) = Picked(pool, I)
    BY DEF IndexedOrder, Those, S
  <2> QED BY <2>1, <2>3, <2>4 DEF ToSet
<1> QED BY <1>1, <1>2, <1>3, <1>5, <1>6 DEF S

\* What is found at a card: the pairs that it sees first, both in the order of the pool.
Sees(caps, x, y) == x # y /\ Complements(caps[x], caps[y])
Joins(caps, list, i, j) ==
  /\ Sees(caps, list[i], list[j]) /\ (j < i => ~Sees(caps, list[j], list[i]))
  /\ Reasons(caps, list[i], list[j]) # {}
Written(list, i, j) == IF i < j THEN <<list[i], list[j]>> ELSE <<list[j], list[i]>>
LEMMA PairsAtCard ==
  ASSUME NEW caps, NEW list, IsSequence(list), NEW i \in DOMAIN list
  PROVE  /\ IsSequence(PairsAt(caps, list, i))
         /\ \A k \in DOMAIN PairsAt(caps, list, i) : \E j \in DOMAIN list :
              /\ Joins(caps, list, i, j)
              /\ PairsAt(caps, list, i)[k] = Written(list, i, j)
         /\ \A j \in DOMAIN list : Joins(caps, list, i, j) =>
              Written(list, i, j) \in ToSet(PairsAt(caps, list, i))
<1> DEFINE all == [j \in DOMAIN list |-> j]
           J == {j \in DOMAIN list : Joins(caps, list, i, j)}
           found == Picked(all, J)
           pairs == [k \in DOMAIN found |-> Written(list, i, found[k])]
<1>1. DOMAIN list = 1..Len(list) /\ Len(list) \in Nat
  BY ListIndices
<1>2. IsSequence(all) /\ DOMAIN all = DOMAIN list /\ \A j \in DOMAIN list : all[j] = j
  BY <1>1, MappedList
<1>3. PairsAt(caps, list, i) = pairs
  <2>1. J = {j \in DOMAIN list :
               /\ list[i] # list[j] /\ Complements(caps[list[i]], caps[list[j]])
               /\ (j < i => ~(list[j] # list[i] /\ Complements(caps[list[j]], caps[list[i]])))
               /\ Reasons(caps, list[i], list[j]) # {}}
    BY DEF Joins, Sees
  <2> QED BY <2>1, Zenon DEF PairsAt, Written
<1> HIDE DEF all, J
<1>4. found \in Seq({all[j] : j \in DOMAIN all \cap J}) /\ \A j \in DOMAIN all \cap J : all[j] \in ToSet(found)
  BY <1>2, PickedList
<1>5. J \subseteq DOMAIN list
  BY DEF J
<1>6. {all[j] : j \in DOMAIN all \cap J} = J
  BY <1>2, <1>5
<1> HIDE DEF found
<1>7. IsSequence(found) /\ \A k \in DOMAIN found : found[k] \in J
  BY <1>4, <1>6, ListOfElements
<1>8. IsSequence(pairs) /\ DOMAIN pairs = DOMAIN found
  <2>1. DOMAIN found = 1..Len(found) /\ Len(found) \in Nat
    BY <1>7, ListIndices
  <2>2. pairs = [k \in 1..Len(found) |-> pairs[k]]
    BY <2>1
  <2> HIDE DEF pairs
  <2> QED BY <2>1, <2>2, MappedList
<1>9. \A k \in DOMAIN found : pairs[k] = Written(list, i, found[k])
  OBVIOUS
<1>10. \A j \in J : \E k \in DOMAIN found : found[k] = j
  BY <1>2, <1>4, <1>5 DEF ToSet
<1>11. \A j \in J : Written(list, i, j) \in ToSet(pairs)
  <2> SUFFICES ASSUME NEW j \in J PROVE Written(list, i, j) \in ToSet(pairs)
    OBVIOUS
  <2>1. PICK k \in DOMAIN found : found[k] = j
    BY <1>10
  <2>2. pairs[k] = Written(list, i, j) /\ k \in DOMAIN pairs
    BY <1>8, <1>9, <2>1
  <2> HIDE DEF pairs
  <2> QED BY <2>2 DEF ToSet
<1> HIDE DEF pairs
<1>12. \A k \in DOMAIN pairs : \E j \in DOMAIN list : Joins(caps, list, i, j) /\ pairs[k] = Written(list, i, j)
  BY <1>5, <1>7, <1>8, <1>9 DEF J
<1>13. \A j \in DOMAIN list : Joins(caps, list, i, j) => Written(list, i, j) \in ToSet(pairs)
  BY <1>11 DEF J
<1> QED BY <1>3, <1>8, <1>12, <1>13


\* The pairs that are explored are the candidates: each of them is one, and each of them is there.
LEMMA PairsOfPool ==
  ASSUME NEW pool \in Pools
  PROVE  LET pairs == CandidatePairs(CapsOf(pool), IndexedOrder(pool))
         IN /\ pairs \in Seq(Candidates(pool))
            /\ \A p \in Candidates(pool) : p \in ToSet(pairs) \/ <<p[2], p[1]>> \in ToSet(pairs)
<1> DEFINE caps == CapsOf(pool)
           list == IndexedOrder(pool)
           at == [i \in DOMAIN list |-> PairsAt(caps, list, i)]
           pairs == CandidatePairs(caps, list)
<1>1. /\ IsSequence(list) /\ \A i \in DOMAIN list : list[i] \in DOMAIN caps
      /\ \A o \in DOMAIN caps : \E i \in DOMAIN list : list[i] = o
  BY IndexedCards
<1>2. \A p : p \in Candidates(pool) <=> /\ p \in (DOMAIN caps) \X (DOMAIN caps)
                                        /\ p[1] # p[2] /\ Reasons(caps, p[1], p[2]) # {}
  BY DEF Candidates
<1>3. pairs = FlattenSeq(at)
  BY Zenon DEF CandidatePairs
<1> HIDE DEF caps, list
<1>4. IsSequence(at) /\ DOMAIN at = DOMAIN list
  <2>1. DOMAIN list = 1..Len(list) /\ Len(list) \in Nat
    BY <1>1, ListIndices
  <2>2. at = [i \in 1..Len(list) |-> at[i]]
    BY <2>1
  <2> HIDE DEF at
  <2> QED BY <2>1, <2>2, MappedList
<1>5. \A i \in DOMAIN list : at[i] = PairsAt(caps, list, i)
  OBVIOUS
<1> HIDE DEF at, pairs
<1>6. \A x, y : Reasons(caps, x, y) = Reasons(caps, y, x)
  BY DEF Reasons
<1>7. ASSUME NEW i \in DOMAIN at PROVE at[i] \in Seq(Candidates(pool))
  <2>1. i \in DOMAIN list /\ at[i] = PairsAt(caps, list, i)
    BY <1>4, <1>5
  <2>2. IsSequence(at[i])
    BY <1>1, <2>1, PairsAtCard
  <2>3. ASSUME NEW k \in DOMAIN at[i] PROVE at[i][k] \in Candidates(pool)
    <3>1. PICK j \in DOMAIN list :
            /\ Joins(caps, list, i, j)
            /\ at[i][k] = Written(list, i, j)
      BY <1>1, <2>1, PairsAtCard
    <3>2. list[i] # list[j] /\ Reasons(caps, list[i], list[j]) # {}
      BY <3>1 DEF Joins, Sees
    <3>3. list[i] \in DOMAIN caps /\ list[j] \in DOMAIN caps
      BY <1>1, <2>1
    <3>4. <<list[i], list[j]>> \in Candidates(pool) /\ <<list[j], list[i]>> \in Candidates(pool)
      BY <1>2, <1>6, <3>2, <3>3
    <3> QED BY <3>1, <3>4 DEF Written
  <2> QED BY <2>2, <2>3, ElementsOfList
<1>8. /\ pairs \in Seq(Candidates(pool))
      /\ \A i \in DOMAIN at : ToSet(at[i]) \subseteq ToSet(pairs)
  BY <1>3, <1>4, <1>7, FlattenedList
<1>9. ASSUME NEW i \in DOMAIN list, NEW j \in DOMAIN list, Joins(caps, list, i, j)
      PROVE  <<list[i], list[j]>> \in ToSet(pairs) \/ <<list[j], list[i]>> \in ToSet(pairs)
  <2>1. Written(list, i, j) \in ToSet(at[i])
    BY <1>1, <1>5, <1>9, PairsAtCard
  <2>2. ToSet(at[i]) \subseteq ToSet(pairs)
    BY <1>4, <1>8
  <2> QED BY <2>1, <2>2 DEF Written
<1>10. ASSUME NEW p \in Candidates(pool)
       PROVE  p \in ToSet(pairs) \/ <<p[2], p[1]>> \in ToSet(pairs)
  <2>1. /\ p \in (DOMAIN caps) \X (DOMAIN caps) /\ p[1] # p[2]
        /\ Reasons(caps, p[1], p[2]) # {} /\ Reasons(caps, p[2], p[1]) # {}
    BY <1>2, <1>6
  <2>2. PICK i \in DOMAIN list : list[i] = p[1]
    BY <1>1, <2>1
  <2>3. PICK j \in DOMAIN list : list[j] = p[2]
    BY <1>1, <2>1
  <2>4. i \in Nat /\ j \in Nat /\ i # j
    BY <1>1, <2>1, <2>2, <2>3, ListIndices
  <2>5. Complements(caps[p[1]], caps[p[2]]) \/ Complements(caps[p[2]], caps[p[1]])
    BY <2>1, IndexFindsEveryJoin DEF Reasons
  <2>6. Sees(caps, list[i], list[j]) \/ Sees(caps, list[j], list[i])
    BY <2>1, <2>2, <2>3, <2>5 DEF Sees
  <2>7. Joins(caps, list, i, j) \/ Joins(caps, list, j, i)
    BY <2>1, <2>2, <2>3, <2>4, <2>6 DEF Joins
  <2>8. <<list[i], list[j]>> \in ToSet(pairs) \/ <<list[j], list[i]>> \in ToSet(pairs)
    BY <1>9, <2>7
  <2>9. p = <<p[1], p[2]>>
    BY <2>1
  <2> QED BY <2>2, <2>3, <2>8, <2>9
<1> QED BY <1>8, <1>10 DEF pairs, caps, list

\* What is searched is what may interact.  The pairs that candidate_pairs hands out are, as sets of
\* two cards, exactly those of two different supported cards of the pool that have a reason to be
\* joined: no one is missed, although the inverted index only looks up facets of one of the two.
Unordered(pairs) == {{p[1], p[2]} : p \in pairs}
THEOREM EveryPairIsSearched ==
  \A pool \in Pools :
    Unordered(ToSet(CandidatePairs(CapsOf(pool), IndexedOrder(pool)))) = Unordered(Candidates(pool))
<1> SUFFICES ASSUME NEW pool \in Pools
             PROVE  Unordered(ToSet(CandidatePairs(CapsOf(pool), IndexedOrder(pool))))
                      = Unordered(Candidates(pool))
  OBVIOUS
<1> DEFINE pairs == CandidatePairs(CapsOf(pool), IndexedOrder(pool))
<1>1. /\ pairs \in Seq(Candidates(pool))
      /\ \A p \in Candidates(pool) : p \in ToSet(pairs) \/ <<p[2], p[1]>> \in ToSet(pairs)
  BY PairsOfPool
<1> HIDE DEF pairs
<1>2. ToSet(pairs) \subseteq Candidates(pool)
  BY <1>1, ListOfElements DEF ToSet
<1>3. ASSUME NEW p \in Candidates(pool)
      PROVE  \E q \in ToSet(pairs) : {q[1], q[2]} = {p[1], p[2]}
  <2>1. CASE p \in ToSet(pairs)
    BY <2>1
  <2>2. CASE <<p[2], p[1]>> \in ToSet(pairs)
    <3>1. {<<p[2], p[1]>>[1], <<p[2], p[1]>>[2]} = {p[1], p[2]}
      OBVIOUS
    <3> QED BY <2>2, <3>1
  <2> QED BY <1>1, <2>1, <2>2
<1>4. Unordered(ToSet(pairs)) \subseteq Unordered(Candidates(pool))
  BY <1>2 DEF Unordered
<1>5. Unordered(Candidates(pool)) \subseteq Unordered(ToSet(pairs))
  BY <1>3 DEF Unordered
<1> QED BY <1>4, <1>5 DEF pairs

-----------------------------------------------------------------------------
(* The legal steps *)
LEMMA OverList ==
  ASSUME NEW s, IsSequence(s), NEW f, f = [i \in DOMAIN s |-> f[i]]
  PROVE  IsSequence(f) /\ DOMAIN f = DOMAIN s
<1>1. DOMAIN s = 1..Len(s) /\ Len(s) \in Nat
  BY ListIndices
<1>2. f = [i \in 1..Len(s) |-> f[i]]
  BY <1>1
<1> QED BY <1>1, <1>2, MappedList
LEMMA FlatList ==
  ASSUME NEW seqs, IsSequence(seqs), \A i \in DOMAIN seqs : IsSequence(seqs[i])
  PROVE  IsSequence(FlattenSeq(seqs))
<1> DEFINE S == UNION {{seqs[i][j] : j \in DOMAIN seqs[i]} : i \in DOMAIN seqs}
<1>1. \A i \in DOMAIN seqs : \A j \in DOMAIN seqs[i] : seqs[i][j] \in S
  OBVIOUS
<1> HIDE DEF S
<1>2. \A i \in DOMAIN seqs : seqs[i] \in Seq(S)
  BY <1>1, ElementsOfList
<1>3. FlattenSeq(seqs) \in Seq(S)
  BY <1>2, FlattenedList
<1> QED BY <1>3, ListOfElements, Zenon
LEMMA PickedIsList ==
  ASSUME NEW s, IsSequence(s), NEW I
  PROVE  /\ IsSequence(Picked(s, I))
         /\ \A k \in DOMAIN Picked(s, I) : \E i \in DOMAIN s \cap I : Picked(s, I)[k] = s[i]
<1> DEFINE S == {s[i] : i \in DOMAIN s \cap I}
<1>1. Picked(s, I) \in Seq(S)
  BY PickedList
<1>2. \A x \in S : \E i \in DOMAIN s \cap I : x = s[i]
  OBVIOUS
<1> HIDE DEF S
<1> QED BY <1>1, <1>2, ListOfElements
LEMMA ThoseAreList == ASSUME NEW s, IsSequence(s), NEW S PROVE IsSequence(Those(s, S))
  BY PickedIsList DEF Those
LEMMA OneList == ASSUME NEW a PROVE IsSequence(<<a>>)
<1>1. <<a>> \in Seq({a})
  OBVIOUS
<1> QED BY <1>1, ListOfElements, Zenon
LEMMA TwoList == ASSUME NEW a, NEW b PROVE IsSequence(<<a, b>>)
<1>1. <<a, b>> \in Seq({a, b})
  OBVIOUS
<1> QED BY <1>1, ListOfElements, Zenon

\* One step for each target, and for each pair of a cost target and a target.
LEMMA ForLists ==
  ASSUME NEW actor, NEW ability, NEW s, IsSequence(s), NEW t, IsSequence(t)
  PROVE  /\ IsSequence(ForTargets(actor, ability, s)) /\ IsSequence(ForCosts(actor, ability, s))
         /\ IsSequence(ForPairs(actor, ability, s, t))
<1>1. IsSequence(ForTargets(actor, ability, s))
  <2> DEFINE f == ForTargets(actor, ability, s)
  <2>1. f = [i \in DOMAIN s |-> f[i]]
    BY DEF ForTargets
  <2> HIDE DEF f
  <2> QED BY <2>1, OverList DEF f
<1>2. IsSequence(ForCosts(actor, ability, s))
  <2> DEFINE f == ForCosts(actor, ability, s)
  <2>1. f = [i \in DOMAIN s |-> f[i]]
    BY DEF ForCosts
  <2> HIDE DEF f
  <2> QED BY <2>1, OverList DEF f
<1>3. IsSequence(ForPairs(actor, ability, s, t))
  <2> DEFINE row(i) == [j \in DOMAIN t |-> Activate(actor, ability, t[j], s[i])]
             f == [i \in DOMAIN s |-> row(i)]
  <2>1. ForPairs(actor, ability, s, t) = FlattenSeq(f)
    BY Zenon DEF ForPairs
  <2>2. ASSUME NEW i PROVE IsSequence(row(i))
    <3> DEFINE g == row(i)
    <3>1. g = [j \in DOMAIN t |-> g[j]]
      OBVIOUS
    <3> HIDE DEF g
    <3>2. IsSequence(g)
      BY <3>1, OverList
    <3> QED BY <3>2 DEF g
  <2>3. f = [i \in DOMAIN s |-> f[i]] /\ \A i \in DOMAIN s : f[i] = row(i)
    OBVIOUS
  <2> HIDE DEF f, row
  <2>4. IsSequence(f) /\ \A i \in DOMAIN f : IsSequence(f[i])
    BY <2>2, <2>3, OverList
  <2> QED BY <2>1, <2>4, FlatList
<1> QED BY <1>1, <1>2, <1>3

\* What a step may be aimed at is a list.
LEMMA TargetLists ==
  ASSUME NEW st, IsSequence(st.order), NEW ab, NEW actor, NEW selector
  PROVE  /\ IsSequence(FodderIds(st, selector)) /\ IsSequence(BounceFodderIds(st, selector))
         /\ \A S : IsSequence(InDictOrder(st, S))
         /\ IsSequence(TargetsFor(st, ab, actor))
<1>1. \A S : IsSequence(InStringOrder(S))
  BY InOrderLists
<1>2. \A S : IsSequence(InDictOrder(st, S))
  BY ThoseAreList DEF InDictOrder
<1>3. IsSequence(<<>>) /\ IsSequence(<<"opponent", actor>>) /\ IsSequence(<<NoId>>)
  BY EmptyList, OneList, TwoList
<1>4. \A chosen : IsSequence(FodderIds(st, chosen))
  <2> TAKE chosen
  <2> DEFINE tokens == {id \in YourCreatures(st) : st.permanents[id].is_token}
             more == IF chosen = "creature_controlled" THEN InStringOrder(YourCreatures(st) \ tokens)
                     ELSE <<>>
  <2>1. FodderIds(st, chosen) = InStringOrder(tokens) \o more
    BY Zenon DEF FodderIds
  <2>2. IsSequence(more)
    BY <1>1, <1>3
  <2> HIDE DEF tokens, more
  <2> QED BY <1>1, <2>1, <2>2, Joined
<1>5. IsSequence(BounceFodderIds(st, selector))
  BY <1>1 DEF BounceFodderIds
<1>6. /\ \A cost : IsSequence(RemovalTargets(st, cost))
      /\ \A host : IsSequence(TapHosts(st, host, actor))
      /\ IsSequence(UntapHosts(st, actor))
      /\ \A targets : IsSequence(EffectTargets(st, targets, actor))
  BY <1>2, Zenon DEF RemovalTargets, TapHosts, UntapHosts, EffectTargets
<1>7. IsSequence(TargetsFor(st, ab, actor))
  BY <1>3, <1>4, <1>6 DEF TargetsFor
<1> QED BY <1>2, <1>4, <1>5, <1>7

\* The steps for an ability of a permanent.
LEMMA StepsForList ==
  ASSUME NEW st, IsSequence(st.order), NEW ab, NEW actor
  PROVE  IsSequence(StepsFor(st, ab, actor))
<1>1. /\ \A selector : IsSequence(BounceFodderIds(st, selector))
      /\ \A S : IsSequence(InDictOrder(st, S)) /\ IsSequence(TargetsFor(st, ab, actor))
  BY TargetLists
<1>2. IsSequence(EarthcraftPairs(st, ab.ability_id, actor))
  BY <1>1, ForLists DEF EarthcraftPairs
<1>3. ASSUME NEW fodder, IsSequence(fodder) PROVE IsSequence(BounceSteps(st, ab, actor, fodder))
  <2> DEFINE pairs == ForPairs(actor, ab.ability_id, fodder, InDictOrder(st, YourCreatures(st)))
  <2>1. IsSequence(pairs)
    BY <1>1, <1>3, ForLists
  <2> HIDE DEF pairs
  <2>2. IsSequence(Unlike(pairs))
    BY <2>1, PickedIsList DEF Unlike
  <2>3. IsSequence(ForCosts(actor, ab.ability_id, fodder))
    BY <1>3, ForLists
  <2> QED BY <2>2, <2>3, Zenon DEF BounceSteps, pairs
<1>4. IsSequence(ForTargets(actor, ab.ability_id, TargetsFor(st, ab, actor)))
  BY <1>1, ForLists
<1> QED BY <1>1, <1>2, <1>3, <1>4 DEF StepsFor

\* The abilities to try are a list.
LEMMA AbilitiesList ==
  ASSUME NEW st, IsSequence(st.order), NEW id, NEW held
  PROVE  IsSequence(AbilitiesToTry(st, id, held))
<1>1. \A p, kind : IsSequence(AbilitiesOfKind(p, kind))
  BY AbilityTypes, PickedIsList DEF AbilitiesOfKind
<1>2. ASSUME NEW source PROVE IsSequence(GrantedBy(st, source, id))
  <2> DEFINE grants == Applying(st, AbilitiesOfKind(st.permanents[source], "grant_activated"), id)
             f == AsActivated(source, grants)
  <2>1. IsSequence(grants)
    BY <1>1, ThoseAreList DEF Applying
  <2> HIDE DEF grants
  <2>2. f = [i \in DOMAIN grants |-> f[i]]
    BY DEF AsActivated
  <2> HIDE DEF f
  <2>3. IsSequence(f)
    BY <2>1, <2>2, OverList
  <2> QED BY <2>3, Zenon DEF GrantedBy, f, grants
<1>3. ASSUME NEW sources, IsSequence(sources) PROVE IsSequence(GrantedByEach(st, sources, id))
  <2> DEFINE f == [i \in DOMAIN sources |-> GrantedBy(st, sources[i], id)]
  <2>1. GrantedByEach(st, sources, id) = FlattenSeq(f)
    BY Zenon DEF GrantedByEach
  <2>2. f = [i \in DOMAIN sources |-> f[i]] /\ \A i \in DOMAIN sources : f[i] = GrantedBy(st, sources[i], id)
    OBVIOUS
  <2> HIDE DEF f
  <2>3. IsSequence(f) /\ \A i \in DOMAIN f : IsSequence(f[i])
    BY <1>2, <1>3, <2>2, OverList
  <2> QED BY <2>1, <2>3, FlatList
<1>4. IsSequence(YoursInOrder(st))
  BY ThoseAreList DEF YoursInOrder
<1> DEFINE own == Understood(AbilitiesOfKind(st.permanents[id], "activated"))
           given == GrantedByEach(st, YoursInOrder(st), id)
<1>5. IsSequence(own)
  BY <1>1, ThoseAreList DEF Understood
<1>6. IsSequence(given)
  BY <1>3, <1>4
<1>7. AbilitiesToTry(st, id, held) = InResponse(own \o given, held)
  BY Zenon DEF AbilitiesToTry
<1> HIDE DEF own, given
<1>8. IsSequence(own \o given)
  BY <1>5, <1>6, Joined
<1> QED BY <1>7, <1>8, ThoseAreList DEF InResponse

LEMMA ActivationsList ==
  ASSUME NEW st, IsSequence(st.order), NEW held PROVE IsSequence(ActivationSteps(st, held))
<1>1. ASSUME NEW abilities, IsSequence(abilities), NEW actor
      PROVE  IsSequence(StepsForEach(st, abilities, actor))
  <2> DEFINE f == [i \in DOMAIN abilities |-> StepsFor(st, abilities[i], actor)]
  <2>1. StepsForEach(st, abilities, actor) = FlattenSeq(f)
    BY Zenon DEF StepsForEach
  <2>2. f = [i \in DOMAIN abilities |-> f[i]] /\ \A i \in DOMAIN abilities : f[i] = StepsFor(st, abilities[i], actor)
    OBVIOUS
  <2> HIDE DEF f
  <2>3. IsSequence(f) /\ \A i \in DOMAIN f : IsSequence(f[i])
    BY <1>1, <2>2, OverList, StepsForList
  <2> QED BY <2>1, <2>3, FlatList
<1>2. ASSUME NEW actors, IsSequence(actors) PROVE IsSequence(StepsOfEach(st, actors, held))
  <2> DEFINE each(i) == StepsForEach(st, AbilitiesToTry(st, actors[i], held), actors[i])
             f == [i \in DOMAIN actors |-> each(i)]
  <2>1. StepsOfEach(st, actors, held) = FlattenSeq(f)
    BY Zenon DEF StepsOfEach
  <2>2. ASSUME NEW i PROVE IsSequence(each(i))
    BY <1>1, AbilitiesList
  <2>3. f = [i \in DOMAIN actors |-> f[i]] /\ \A i \in DOMAIN actors : f[i] = each(i)
    OBVIOUS
  <2> HIDE DEF f, each
  <2>4. IsSequence(f) /\ \A i \in DOMAIN f : IsSequence(f[i])
    BY <1>2, <2>2, <2>3, OverList
  <2> QED BY <2>1, <2>4, FlatList
<1>3. \A S : IsSequence(InStringOrder(S))
  BY InOrderLists
<1> QED BY <1>2, <1>3 DEF ActivationSteps

\* Resolutions, casts and tap bounces.
LEMMA ResolutionsList ==
  ASSUME NEW st, IsState(st) PROVE IsSequence(ResolutionSteps(st))
<1> DEFINE triggers == st.pending_triggers
<1>0. IsSequence(triggers)
  BY DEF IsState
<1> HIDE DEF triggers
<1>1. ASSUME NEW tr PROVE IsSequence(TargetsOfTrigger(st, tr))
  <2> DEFINE tapped == {id \in Yours(st) : st.permanents[id].tapped}
  <2>1. IsSequence(<<NoId>>)
    BY OneList
  <2>2. IsSequence(TappedFirst(st))
    <3>1. TappedFirst(st) = InStringOrder(tapped) \o InStringOrder(Yours(st) \ tapped)
      BY Zenon DEF TappedFirst
    <3> HIDE DEF tapped
    <3>2. IsSequence(InStringOrder(tapped)) /\ IsSequence(InStringOrder(Yours(st) \ tapped))
      BY InOrderLists
    <3> QED BY <3>1, <3>2, Joined
  <2>3. \A S : IsSequence(Those(TappedFirst(st), S))
    BY <2>2, ThoseAreList
  <2> QED BY <2>1, <2>3, Zenon DEF TargetsOfTrigger
<1>2. ASSUME NEW tr, NEW targets, IsSequence(targets) PROVE IsSequence(Resolutions(tr, targets))
  <2> DEFINE f == Resolutions(tr, targets)
  <2>1. f = [i \in DOMAIN targets |-> f[i]]
    BY DEF Resolutions
  <2> HIDE DEF f
  <2>2. IsSequence(f)
    BY <1>2, <2>1, OverList
  <2> QED BY <2>2 DEF f
<1> DEFINE each(i) == Resolutions(triggers[i], TargetsOfTrigger(st, triggers[i]))
           f == [i \in DOMAIN triggers |-> each(i)]
<1>3. ResolutionSteps(st) = Once(FlattenSeq(f))
  BY Zenon DEF ResolutionSteps, triggers
<1>4. ASSUME NEW i PROVE IsSequence(each(i))
  BY <1>1, <1>2
<1>5. f = [i \in DOMAIN triggers |-> f[i]] /\ \A i \in DOMAIN triggers : f[i] = each(i)
  OBVIOUS
<1> HIDE DEF f, each
<1>6. IsSequence(f) /\ \A i \in DOMAIN f : IsSequence(f[i])
  BY <1>0, <1>4, <1>5, OverList
<1>7. IsSequence(FlattenSeq(f))
  BY <1>6, FlatList
<1> QED BY <1>3, <1>7, PickedIsList DEF Once

LEMMA OthersList ==
  ASSUME NEW st PROVE IsSequence(CastSteps(st)) /\ IsSequence(TapBounceSteps(st))
<1>1. \A S : IsSequence(InStringOrder(S))
  BY InOrderLists
<1>2. ASSUME NEW ids, IsSequence(ids) PROVE IsSequence(Casts(ids))
  <2> DEFINE f == Casts(ids)
  <2>1. f = [i \in DOMAIN ids |-> f[i]]
    BY DEF Casts
  <2> HIDE DEF f
  <2>2. IsSequence(f)
    BY <1>2, <2>1, OverList
  <2> QED BY <2>2 DEF f
<1>3. ASSUME NEW hosts, IsSequence(hosts), NEW targets, IsSequence(targets)
      PROVE  IsSequence(TapBounces(hosts, targets))
  <2> DEFINE row(i) == [j \in DOMAIN targets |->
                          Step("activate_granted_tap_bounce", hosts[i], NoAbility, targets[j], NoId)]
             f == [i \in DOMAIN hosts |-> row(i)]
  <2>1. TapBounces(hosts, targets) = FlattenSeq(f)
    BY Zenon DEF TapBounces
  <2>2. ASSUME NEW i PROVE IsSequence(row(i))
    <3> DEFINE g == row(i)
    <3>1. g = [j \in DOMAIN targets |-> g[j]]
      OBVIOUS
    <3> HIDE DEF g
    <3>2. IsSequence(g)
      BY <1>3, <3>1, OverList
    <3> QED BY <3>2 DEF g
  <2>3. f = [i \in DOMAIN hosts |-> f[i]] /\ \A i \in DOMAIN hosts : f[i] = row(i)
    OBVIOUS
  <2> HIDE DEF f, row
  <2>4. IsSequence(f) /\ \A i \in DOMAIN f : IsSequence(f[i])
    BY <1>3, <2>2, <2>3, OverList
  <2> QED BY <2>1, <2>4, FlatList
<1> QED BY <1>1, <1>2, <1>3 DEF CastSteps, TapBounceSteps

\* In a state of the executor, legal_steps tries a list of steps.
LEMMA CandidatesList == ASSUME NEW st, IsState(st) PROVE IsSequence(CandidateSteps(st))
<1> DEFINE held == st.pending_triggers # <<>>
           rest == IF held THEN ResolutionSteps(st) ELSE CastSteps(st) \o TapBounceSteps(st)
<1>1. IsSequence(CastSteps(st)) /\ IsSequence(TapBounceSteps(st)) /\ IsSequence(ResolutionSteps(st))
  BY OthersList, ResolutionsList
<1>2. IsSequence(CastSteps(st) \o TapBounceSteps(st))
  BY <1>1, Joined
<1>3. IsSequence(rest)
  BY <1>1, <1>2
<1>4. IsSequence(st.order)
  BY DEF IsState
<1>5. CandidateSteps(st) = ActivationSteps(st, held) \o rest
  BY DEF CandidateSteps
<1> HIDE DEF rest, held
<1>6. IsSequence(ActivationSteps(st, held))
  BY <1>4, ActivationsList
<1> QED BY <1>3, <1>5, <1>6, Joined

\* legal_steps hands out a list of steps, each with the result of running it: it went well, it led
\* to a state of the executor, which follows the one it was found in.
LegalStep(st, s) ==
  /\ s.r = RunStep(st, s.step) /\ s.r.err = "ok"
  /\ IsState(s.r.st) /\ Follows(st, s.r.st)
THEOREM LegalStepsAreLegal ==
  \A st : IsState(st) =>
    IsSequence(Successors(st)) /\ \A i \in DOMAIN Successors(st) : LegalStep(st, Successors(st)[i])
<1> SUFFICES ASSUME NEW st, IsState(st)
             PROVE  /\ IsSequence(Successors(st))
                    /\ \A i \in DOMAIN Successors(st) : LegalStep(st, Successors(st)[i])
  OBVIOUS
<1> DEFINE steps == CandidateSteps(st)
           tried == Tried(st, steps)
           I == {i \in DOMAIN tried : tried[i].r.err = "ok"}
<1>1. IsSequence(steps)
  BY CandidatesList
<1>2. Successors(st) = Picked(tried, I)
  BY DEF Successors, Legal
<1> HIDE DEF steps
<1>3. tried = [i \in DOMAIN steps |-> tried[i]]
  BY DEF Tried
<1>4. \A i \in DOMAIN steps : tried[i] = [step |-> steps[i], r |-> RunStep(st, steps[i])]
  BY DEF Tried
<1> HIDE DEF tried
<1>5. IsSequence(tried) /\ DOMAIN tried = DOMAIN steps
  BY <1>1, <1>3, OverList
<1>6. ASSUME NEW i \in DOMAIN tried \cap I PROVE LegalStep(st, tried[i])
  <2>1. tried[i].r = RunStep(st, tried[i].step) /\ tried[i].r.err = "ok"
    BY <1>4, <1>5
  <2>2. IsState(RunStep(st, tried[i].step).st) /\ Follows(st, RunStep(st, tried[i].step).st)
    BY StepsStayTyped
  <2> QED BY <2>1, <2>2 DEF LegalStep
<1> HIDE DEF I
<1>7. /\ IsSequence(Picked(tried, I))
      /\ \A k \in DOMAIN Picked(tried, I) : \E i \in DOMAIN tried \cap I : Picked(tried, I)[k] = tried[i]
  BY <1>5, PickedIsList
<1> QED BY <1>2, <1>6, <1>7

-----------------------------------------------------------------------------
(* The boards *)
\* An entry of a board is an object id with a permanent.
Board(b) == IsSequence(b) /\ \A i \in DOMAIN b : IsPermanent(b[i][2])

LEMMA BoardEmpty == Board(<<>>)
  BY EmptyList DEF Board
LEMMA BoardOne == ASSUME NEW entry, IsPermanent(entry[2]) PROVE Board(<<entry>>)
<1>1. DOMAIN <<entry>> = {1} /\ <<entry>>[1] = entry
  OBVIOUS
<1> QED BY <1>1, OneList DEF Board
LEMMA BoardJoin == ASSUME NEW b, Board(b), NEW c, Board(c) PROVE Board(b \o c)
<1>1. /\ IsSequence(b \o c) /\ Len(b) \in Nat /\ Len(c) \in Nat
      /\ DOMAIN b = 1..Len(b) /\ DOMAIN c = 1..Len(c)
      /\ DOMAIN (b \o c) = 1..(Len(b) + Len(c))
      /\ \A i \in 1..Len(b) : (b \o c)[i] = b[i]
      /\ \A i \in (Len(b) + 1)..(Len(b) + Len(c)) : (b \o c)[i] = c[i - Len(b)]
  BY Joined DEF Board
<1>2. ASSUME NEW i \in DOMAIN (b \o c) PROVE IsPermanent((b \o c)[i][2])
  <2>1. CASE i \in 1..Len(b)
    BY <1>1, <2>1 DEF Board
  <2>2. CASE i \notin 1..Len(b)
    <3>1. i \in (Len(b) + 1)..(Len(b) + Len(c)) /\ i - Len(b) \in DOMAIN c
      BY <1>1, <2>2
    <3> QED BY <1>1, <3>1 DEF Board
  <2> QED BY <2>1, <2>2
<1> QED BY <1>1, <1>2 DEF Board
LEMMA BoardIf == ASSUME NEW cond, NEW b, Board(b) PROVE Board(Start!IfSo(cond, b))
  BY BoardEmpty, Zenon DEF Start!IfSo
\* n entries of one kind.
LEMMA BoardMany ==
  ASSUME NEW n, n \in Int, NEW b, b = [i \in 1..n |-> b[i]], \A i \in 1..n : IsPermanent(b[i][2])
  PROVE  Board(b)
<1> DEFINE m == IF n < 0 THEN 0 ELSE n
<1>1. m \in Nat /\ 1..n = 1..m
  OBVIOUS
<1> HIDE DEF m
<1>2. IsSequence(b) /\ DOMAIN b = 1..m
  BY <1>1, MappedList
<1> QED BY <1>1, <1>2 DEF Board

\* A permanent with some of its fields set.
Setting(upd) ==
  /\ DOMAIN upd \subseteq DOMAIN Permanent /\ "damage_marked" \notin DOMAIN upd
  /\ "pt" \in DOMAIN upd => IsPT(upd["pt"])
  /\ "zone" \in DOMAIN upd => upd["zone"] \in Zones
  /\ "counters" \in DOMAIN upd => \A kind \in DOMAIN upd["counters"] : upd["counters"][kind] \in Nat
  /\ \A flag \in Flags : flag \in DOMAIN upd => upd[flag] \in BOOLEAN
LEMMA WithPermanent ==
  ASSUME NEW p, IsPermanent(p), NEW upd, Setting(upd)
  PROVE  IsPermanent(Start!With(p, upd))
<1> DEFINE q == Start!With(p, upd)
<1>1. DOMAIN q = DOMAIN p /\ \A x \in DOMAIN p : q[x] = IF x \in DOMAIN upd THEN upd[x] ELSE p[x]
  BY DEF Start!With, IsPermanent, Setting
<1>2. {"pt", "counters", "zone", "damage_marked"} \subseteq DOMAIN p /\ Flags \subseteq DOMAIN p
  BY DEF IsPermanent, Permanent, Flags
<1> HIDE DEF q
<1>3. q.pt = (IF "pt" \in DOMAIN upd THEN upd["pt"] ELSE p.pt)
  BY <1>1, <1>2
<1>4. q.counters = (IF "counters" \in DOMAIN upd THEN upd["counters"] ELSE p.counters)
  BY <1>1, <1>2
<1>5. q.zone = (IF "zone" \in DOMAIN upd THEN upd["zone"] ELSE p.zone)
  BY <1>1, <1>2
<1>6. q.damage_marked = p.damage_marked
  BY <1>1, <1>2 DEF Setting
<1>7. IsPT(q.pt) /\ \A kind \in DOMAIN q.counters : q.counters[kind] \in Nat
  BY <1>3, <1>4 DEF IsPermanent, Setting
<1>8. q.zone \in Zones /\ q.damage_marked \in Int
  BY <1>5, <1>6 DEF IsPermanent, Setting
<1>9. ASSUME NEW flag \in Flags PROVE q[flag] \in BOOLEAN
  <2>1. q[flag] = IF flag \in DOMAIN upd THEN upd[flag] ELSE p[flag]
    BY <1>1, <1>2
  <2>2. CASE flag \in DOMAIN upd
    <3>1. upd[flag] \in BOOLEAN
      BY <2>2, Zenon DEF Setting
    <3> QED BY <2>1, <2>2, <3>1, Zenon
  <2>3. CASE flag \notin DOMAIN upd
    <3>1. p[flag] \in BOOLEAN
      BY Zenon DEF IsPermanent
    <3> QED BY <2>1, <2>3, <3>1, Zenon
  <2> QED BY <2>2, <2>3, Zenon
<1>10. DOMAIN q = DOMAIN Permanent
  BY <1>1 DEF IsPermanent
<1>11. IsPermanent(q)
  BY <1>7, <1>8, <1>9, <1>10, Zenon DEF IsPermanent
<1> QED BY <1>11 DEF q

LEMMA EntryPermanent ==
  ASSUME NEW id, NEW oracle, NEW words, NEW upd, Setting(upd)
  PROVE  IsPermanent(Start!Entry(id, oracle, words, upd)[2])
<1> DEFINE p == [Start!Permanent EXCEPT !.oracle = oracle, !.words = words]
<1>1. DOMAIN p = DOMAIN Permanent /\ p.pt = <<>> /\ p.counters = <<>>
  BY DEF Permanent, Start!Permanent, Start!None
<1>2. p.zone = "battlefield" /\ p.damage_marked = 0
  BY DEF Permanent, Start!Permanent, Start!None
<1>3. \A flag \in Flags : p[flag] = FALSE
  <2>1. p = [[Start!Permanent EXCEPT !.oracle = oracle] EXCEPT !.words = words]
    BY Zenon
  <2>2. /\ Start!Permanent.tapped = FALSE /\ Start!Permanent.summoning_sick = FALSE
        /\ Start!Permanent.was_cast = FALSE /\ Start!Permanent.is_token = FALSE
        /\ Start!Permanent.is_creature = FALSE
        /\ Flags \cup {"oracle", "words"} \subseteq DOMAIN Start!Permanent
    BY DEF Start!Permanent, Start!None, Flags
  <2> HIDE DEF p
  <2>3. p.tapped = FALSE /\ p.summoning_sick = FALSE /\ p.was_cast = FALSE /\ p.is_token = FALSE
        /\ p.is_creature = FALSE
    BY <2>1, <2>2 DEF Flags
  <2> QED BY <2>3 DEF Flags
<1>4. Start!Entry(id, oracle, words, upd)[2] = Start!With(p, upd)
  BY DEF Start!Entry
<1> HIDE DEF p
<1>5. IsPermanent(p)
  <2>1. IsPT(p.pt)
    BY <1>1 DEF IsPT
  <2>2. \A flag \in Flags : p[flag] \in BOOLEAN
    BY <1>3
  <2> QED BY <1>1, <1>2, <2>1, <2>2, PlainPermanent, Zenon
<1> QED BY <1>4, <1>5, WithPermanent

LEMMA FodderPermanent ==
  ASSUME NEW id, NEW oracle, NEW words, NEW power, power \in Int, NEW toughness, toughness \in Int
  PROVE  IsPermanent(Start!Fodder(id, oracle, words, power, toughness)[2])
<1> DEFINE upd == [is_creature |-> TRUE, pt |-> <<power, toughness>>]
<1>1. DOMAIN upd = {"is_creature", "pt"} /\ upd["pt"] = <<power, toughness>> /\ upd["is_creature"] = TRUE
  OBVIOUS
<1>2. Start!Fodder(id, oracle, words, power, toughness) = Start!Entry(id, oracle, words, upd)
  BY DEF Start!Fodder
<1> HIDE DEF upd
<1>3. DOMAIN upd \subseteq DOMAIN Permanent /\ IsPT(upd["pt"])
  BY <1>1 DEF Permanent, IsPT
<1>4. DOMAIN upd \cap {"counters", "zone", "damage_marked"} = {} /\ DOMAIN upd \cap Flags = {"is_creature"}
  BY <1>1 DEF Flags
<1>5. \A flag \in Flags : flag \in DOMAIN upd => upd[flag] \in BOOLEAN
  BY <1>1, <1>4
<1>6. Setting(upd)
  BY <1>3, <1>4, <1>5 DEF Setting
<1> QED BY <1>2, <1>6, EntryPermanent

LEMMA CopiesBoard ==
  ASSUME NEW n, n \in Int, NEW id, NEW oracle, NEW words PROVE Board(Start!Copies(n, id, oracle, words))
<1> DEFINE b == Start!Copies(n, id, oracle, words)
<1>1. b = [i \in 1..n |-> b[i]] /\ \A i \in 1..n : \E name : b[i] = Start!Fodder(name, oracle, words, 1, 1)
  BY DEF Start!Copies
<1> HIDE DEF b
<1>2. \A i \in 1..n : IsPermanent(b[i][2])
  BY <1>1, FodderPermanent
<1> QED BY <1>1, <1>2, BoardMany DEF b

\* A permanent with another flag or zone.
LEMMA FlaggedEntry ==
  ASSUME NEW entry, IsPermanent(entry[2]), NEW zone, zone \in Zones, NEW id
  PROVE  /\ IsPermanent(Start!TokenOf(entry)[2])
         /\ IsPermanent(<<id, [entry[2] EXCEPT !.zone = zone]>>[2])
<1>1. ASSUME NEW p, IsPermanent(p)
      PROVE  IsPermanent([p EXCEPT !.is_token = TRUE]) /\ IsPermanent([p EXCEPT !.zone = zone])
  <2>1. {"pt", "counters", "zone", "damage_marked"} \subseteq DOMAIN p /\ Flags \subseteq DOMAIN p
        /\ "is_token" \notin {"pt", "counters", "zone", "damage_marked"} /\ "zone" \notin Flags
    BY <1>1 DEF IsPermanent, Permanent, Flags
  <2> DEFINE q == [p EXCEPT !.is_token = TRUE]
             r == [p EXCEPT !.zone = zone]
  <2>2. /\ DOMAIN q = DOMAIN p /\ q["is_token"] = TRUE
        /\ \A x \in DOMAIN p : x # "is_token" => q[x] = p[x]
        /\ DOMAIN r = DOMAIN p /\ r["zone"] = zone
        /\ \A x \in DOMAIN p : x # "zone" => r[x] = p[x]
    BY <2>1 DEF Flags
  <2> HIDE DEF q, r
  <2>3. ASSUME NEW flag \in Flags PROVE q[flag] \in BOOLEAN /\ r[flag] \in BOOLEAN
    <3>1. p[flag] \in BOOLEAN /\ flag \in DOMAIN p /\ flag # "zone"
      BY <1>1, <2>1, Zenon DEF IsPermanent
    <3> QED BY <2>2, <3>1, Zenon
  <2>4. q.pt = p.pt /\ q.zone = p.zone /\ q.damage_marked = p.damage_marked /\ q.counters = p.counters
        /\ r.pt = p.pt /\ r.zone = zone /\ r.damage_marked = p.damage_marked /\ r.counters = p.counters
    BY <2>1, <2>2
  <2>5. IsPermanent(q) /\ IsPermanent(r)
    BY <1>1, <2>2, <2>3, <2>4, Zenon DEF IsPermanent
  <2> QED BY <2>5, Zenon DEF q, r
<1>2. Start!TokenOf(entry)[2] = [entry[2] EXCEPT !.is_token = TRUE]
  BY DEF Start!TokenOf
<1> QED BY <1>1, <1>2
LEMMA ZoneNames == {"battlefield", "hand"} \subseteq Zones
  BY DEF Zones

\* The counters and the size of a card of the pair.
LEMMA StartTypes ==
  ASSUME NEW o
  PROVE  /\ IsPT(Start!StartPT(o))
         /\ \A kind \in DOMAIN Start!StartCounters(o) : Start!StartCounters(o)[kind] \in Nat
<1>1. IsPT(Start!StartPT(o))
  BY PrintedPTAssumption DEF Start!StartPT, IsPT
<1>2. ASSUME NEW n \in Nat
      PROVE  \A kind \in DOMAIN Start!Stored(<<>>, "p1p1", n) : Start!Stored(<<>>, "p1p1", n)[kind] \in Nat
  <2>1. DOMAIN <<>> = {}
    OBVIOUS
  <2> QED BY <2>1 DEF Start!Stored
<1>3. DOMAIN <<>> = {} /\ 4 \in Nat /\ 2 \in Nat /\ 1 \in Nat
  OBVIOUS
<1>4. Start!StartCounters(o) \in {<<>>, Start!Stored(<<>>, "p1p1", 4), Start!Stored(<<>>, "p1p1", 2),
                                  Start!Stored(<<>>, "p1p1", 1)}
  BY DEF Start!StartCounters
<1> QED BY <1>1, <1>2, <1>3, <1>4
LEMMA PieceBoard ==
  ASSUME NEW o, NEW id, NEW both PROVE IsPermanent(Start!Piece(o, id, both)[2])
<1> DEFINE upd == [is_creature |-> "creature" \in Cards[o].types, is_artifact |-> "artifact" \in Cards[o].types,
                   counters |-> Start!StartCounters(o), pt |-> Start!StartPT(o), colors |-> Cards[o].colors,
                   zone |-> IF Start!StartsInHand(o, both) THEN "hand" ELSE "battlefield"]
<1>1. /\ DOMAIN upd = {"is_creature", "is_artifact", "counters", "pt", "colors", "zone"}
      /\ upd["counters"] = Start!StartCounters(o) /\ upd["pt"] = Start!StartPT(o)
      /\ upd["zone"] \in {"hand", "battlefield"} /\ upd["is_creature"] \in BOOLEAN
  OBVIOUS
<1>2. Start!Piece(o, id, both) = Start!Entry(id, o, Cards[o].words, upd)
  BY Zenon DEF Start!Piece
<1> HIDE DEF upd
<1>3. DOMAIN upd \subseteq DOMAIN Permanent /\ "damage_marked" \notin DOMAIN upd
      /\ DOMAIN upd \cap Flags = {"is_creature"}
  BY <1>1 DEF Permanent, Flags
<1>4. IsPT(upd["pt"]) /\ \A kind \in DOMAIN upd["counters"] : upd["counters"][kind] \in Nat
  BY <1>1, StartTypes
<1>5. ASSUME NEW flag \in Flags, flag \in DOMAIN upd PROVE upd[flag] \in BOOLEAN
  <2>1. flag = "is_creature"
    BY <1>3, <1>5
  <2> QED BY <1>1, <2>1
<1>6. upd["zone"] \in Zones
  BY <1>1, ZoneNames
<1>7. Setting(upd)
  BY <1>3, <1>4, <1>5, <1>6, Zenon DEF Setting
<1> QED BY <1>2, <1>7, EntryPermanent
LEMMA PiecesBoard == ASSUME NEW l, NEW r PROVE Board(Start!Pieces(l, r))
<1> DEFINE first == Start!IfSo(~Start!HasInstantGrant(Cards[l]), <<Start!Piece(l, "c0", {l, r})>>)
           second == Start!IfSo(~Start!HasInstantGrant(Cards[r]), <<Start!Piece(r, "c1", {l, r})>>)
<1>1. Board(first) /\ Board(second)
  BY PieceBoard, BoardOne, BoardIf
<1>2. Start!Pieces(l, r) = first \o second
  BY Zenon DEF Start!Pieces
<1> HIDE DEF first, second
<1> QED BY <1>1, <1>2, BoardJoin

\* Tokens
LEMMA SubtypeBoard == ASSUME NEW l, NEW r PROVE Board(Start!SubtypeTokens(l, r))
<1> DEFINE e == Start!The(IF Start!SubtypeToken(Cards[l]) # {} THEN Start!SubtypeToken(Cards[l])
                          ELSE Start!SubtypeToken(Cards[r]))
           plain == Start!Copies(3, "subtype_seed_", e.oracle, e.words)
           b == [i \in DOMAIN plain |-> Start!TokenOf(plain[i])]
<1>1. Start!SubtypeTokens(l, r) = Start!IfSo(Start!CountsSubtype({l, r}), b)
  BY Zenon DEF Start!SubtypeTokens
<1>2. Board(plain)
  BY CopiesBoard
<1> HIDE DEF plain
<1>3. b = [i \in DOMAIN plain |-> b[i]] /\ \A i \in DOMAIN plain : b[i] = Start!TokenOf(plain[i])
  OBVIOUS
<1> HIDE DEF b
<1>4. IsSequence(b) /\ DOMAIN b = DOMAIN plain
  BY <1>2, <1>3, OverList DEF Board
<1>5. Board(b)
  <2>1. "hand" \in Zones
    BY ZoneNames
  <2> QED BY <1>2, <1>3, <1>4, <2>1, FlaggedEntry, Zenon DEF Board
<1> QED BY <1>1, <1>5, BoardIf

LEMMA TokenBoard == ASSUME NEW both PROVE Board(Start!SeedToken(both))
<1>1. ASSUME NEW oracle, NEW words PROVE Board(<<Start!TokenOf(Start!Fodder("seed", oracle, words, 1, 1))>>)
  <2>1. IsPermanent(Start!Fodder("seed", oracle, words, 1, 1)[2])
    BY FodderPermanent
  <2>2. IsPermanent(Start!TokenOf(Start!Fodder("seed", oracle, words, 1, 1))[2])
    <3>1. "hand" \in Zones
      BY ZoneNames
    <3> QED BY <2>1, <3>1, FlaggedEntry, Zenon
  <2> QED BY <2>2, BoardOne
<1> DEFINE zombie == <<Start!TokenOf(Start!Fodder("seed", "token:zombie-seed", {"zombie"}, 1, 1))>>
           seed == <<Start!TokenOf(Start!Fodder("seed", "token:seed", {"seed"}, 1, 1))>>
           fodder == /\ Start!Asks(both, "sac_token") \/ Start!NeedsTokenSacBootstrap(both)
                     /\ ~Start!CountsSubtype(both)
<1>2. Board(zombie) /\ Board(seed)
  BY <1>1
<1>3. Start!SeedToken(both) \in {zombie, Start!IfSo(fodder, seed)}
  BY Zenon DEF Start!SeedToken
<1> HIDE DEF zombie, seed, fodder
<1> QED BY <1>2, <1>3, BoardIf
LEMMA HostBoard == ASSUME NEW both, NEW b PROVE Board(Start!AuraHost(both, b))
<1>1. Board(<<Start!Fodder("aura-host", "setup:aura-host", {"aura", "host"}, 1, 1)>>)
  BY FodderPermanent, BoardOne
<1> QED BY <1>1, BoardIf, Zenon DEF Start!AuraHost

\* Mana dorks, hosts and creatures in hand
LEMMA DorkBoard == ASSUME NEW n, n \in Int PROVE Board(Start!Dorks(n))
  BY CopiesBoard, Zenon DEF Start!Dorks
LEMMA BounceBoard == ASSUME NEW id, NEW zone, zone \in Zones PROVE Board(<<Start!BounceSeed(id, zone)>>)
<1> DEFINE f == Start!Fodder(id, "seed:bounce", {"seed", "bounce"}, 1, 1)
<1>1. IsPermanent(f[2])
  BY FodderPermanent
<1>2. Start!BounceSeed(id, zone) = <<id, [f[2] EXCEPT !.zone = zone]>>
  BY Zenon DEF Start!BounceSeed
<1> HIDE DEF f
<1>3. IsPermanent(Start!BounceSeed(id, zone)[2])
  BY <1>1, <1>2, FlaggedEntry
<1> QED BY <1>3, BoardOne
LEMMA DorkCount ==
  ASSUME NEW l, l \in DOMAIN Cards, NEW r, r \in DOMAIN Cards, NEW S, S \subseteq {l, r}
  PROVE  Start!Greatest({3} \cup {Cards[o].mana_value : o \in S}) \in Int
<1> DEFINE f == [o \in {l, r} |-> Cards[o].mana_value]
           T == {3} \cup {Cards[o].mana_value : o \in S}
<1>1. \A o \in {l, r} : Cards[o].mana_value \in Int
  BY CardsAssumption DEF WellFormed
<1>2. IsFiniteSet(S)
  <2>1. {l, r} = {l} \cup {r}
    OBVIOUS
  <2>2. IsFiniteSet({l} \cup {r})
    BY FS_Singleton, FS_Union, Zenon
  <2> QED BY <2>1, <2>2, FS_Subset
<1>3. {Cards[o].mana_value : o \in S} = {f[o] : o \in S} /\ S \subseteq DOMAIN f
  OBVIOUS
<1> HIDE DEF f
<1>4. IsFiniteSet({f[o] : o \in S})
  BY <1>2, <1>3, FiniteImage, Zenon
<1>5. IsFiniteSet(T) /\ T \subseteq Int
  <2>1. T = {3} \cup {f[o] : o \in S}
    BY <1>3
  <2>2. IsFiniteSet(T)
    BY <1>4, <2>1, FS_Singleton, FS_Union, Zenon
  <2> QED BY <1>1, <2>2
<1>6. Start!Greatest(T) = Greatest(T)
  BY Zenon DEF Start!Greatest, Greatest
<1> HIDE DEF T
<1> QED BY <1>5, <1>6, GreatestOf DEF T
LEMMA CastBoard ==
  ASSUME NEW l, l \in DOMAIN Cards, NEW r, r \in DOMAIN Cards PROVE Board(Start!CastFodder({l, r}))
<1> DEFINE both == {l, r}
           bouncers == {o \in both : Start!HasEtbBounceToHand(Cards[o])}
           n == Start!Greatest({3} \cup {Cards[o].mana_value : o \in bouncers})
           host == Start!Fodder("grant-host", "seed:grant-host", {"grant", "host"}, 1, 1)
           hand == Start!BounceSeed("bounce_seed", "hand")
           two == <<host, hand>>
           five == Start!IfSo(\E o \in both : Start!HasActivatedBounceOther(Cards[o]), Start!Dorks(5))
<1>1. Board(two)
  <2>1. Board(<<host>>) /\ Board(<<hand>>)
    BY BoardOne, FodderPermanent, BounceBoard, ZoneNames
  <2>2. two = <<host>> \o <<hand>>
    OBVIOUS
  <2> HIDE DEF host, hand
  <2> QED BY <2>1, <2>2, BoardJoin, Zenon
<1>2. Board(Start!Dorks(3)) /\ Board(five)
  <2>1. 3 \in Int /\ 5 \in Int
    OBVIOUS
  <2>2. Board(Start!Dorks(3)) /\ Board(Start!Dorks(5))
    BY <2>1, DorkBoard, Zenon
  <2> QED BY <2>2, BoardIf, Zenon
<1>3. Board(Start!Dorks(n))
  <2>1. bouncers \subseteq {l, r}
    OBVIOUS
  <2> HIDE DEF bouncers
  <2>2. n \in Int
    BY <2>1, DorkCount, Zenon
  <2> HIDE DEF n
  <2> QED BY <2>2, DorkBoard
<1>4. Start!CastFodder(both) \in {<<>>, Start!Dorks(3) \o two, Start!Dorks(n), five}
  BY DEF Start!CastFodder
<1> HIDE DEF both, bouncers, n, two, five
<1>5. Board(Start!Dorks(3) \o two)
  BY <1>1, <1>2, BoardJoin
<1> QED BY <1>2, <1>3, <1>4, <1>5, BoardEmpty, Zenon DEF both
LEMMA CloudstoneBoard == ASSUME NEW both, NEW b PROVE Board(Start!CloudstoneFodder(both, b))
<1> DEFINE creatureIn(zone) == \E i \in DOMAIN b : b[i][2].is_creature /\ b[i][2].zone = zone
           hand == Start!IfSo(~creatureIn("hand"), <<Start!BounceSeed("cloudstone_cast_seed", "hand")>>)
           field == Start!IfSo(~creatureIn("battlefield"),
                               <<Start!BounceSeed("cloudstone_bf_seed", "battlefield")>>)
<1>1. Board(hand) /\ Board(field)
  <2>1. "hand" \in Zones /\ "battlefield" \in Zones
    BY ZoneNames
  <2> QED BY <2>1, BounceBoard, BoardIf, Zenon
<1>2. Start!CloudstoneFodder(both, b)
        = Start!IfSo(Start!CloudstoneIn(both) /\ Start!FreeCastIn(both), hand \o field)
  BY Zenon DEF Start!CloudstoneFodder
<1> HIDE DEF hand, field
<1>3. Board(hand \o field)
  BY <1>1, BoardJoin
<1> QED BY <1>2, <1>3, BoardIf, Zenon

\* Lands
LEMMA LandBoard == ASSUME NEW both PROVE Board(Start!BasicLand(both))
<1>1. ASSUME NEW id, NEW oracle, NEW words PROVE Board(<<Start!Entry(id, oracle, words, <<>>)>>)
  <2>1. DOMAIN <<>> = {}
    OBVIOUS
  <2>2. Setting(<<>>)
    BY <2>1 DEF Setting
  <2>3. IsPermanent(Start!Entry(id, oracle, words, <<>>)[2])
    BY <2>2, EntryPermanent
  <2> QED BY <2>3, BoardOne
<1> DEFINE plains == <<Start!Entry("basic_plains", "seed:plains", {"seed", "plains"}, <<>>)>>
           island == <<Start!Entry("basic_island", "seed:island", {"seed", "island"}, <<>>)>>
           land == IF \E o \in both : Start!NeedsWhiteBasicLand(Cards[o]) THEN plains ELSE island
           cond == Start!EarthcraftIn(both) \/ \E o \in both : Start!NeedsLandHost(Cards[o])
<1>2. Board(plains) /\ Board(island)
  BY <1>1
<1>3. Start!BasicLand(both) = Start!IfSo(cond, land)
  BY Zenon DEF Start!BasicLand
<1> HIDE DEF plains, island, cond
<1>4. Board(land)
  BY <1>2
<1> HIDE DEF land
<1> QED BY <1>3, <1>4, BoardIf, Zenon

\* What is counted and what opens a gate
LEMMA ScaledBoard == ASSUME NEW both PROVE Board(Start!ScaledFodder(both))
<1> DEFINE creatures == Start!IfSo(Start!Offers(both, "mana_scale_creature"),
                          Start!Copies(3, "scaled_creature_", "seed:creature", {"seed", "creature"}))
           elves == Start!IfSo(Start!Offers(both, "mana_scale_elf"),
                               Start!Copies(3, "scaled_elf_", "seed:elf", {"seed", "elf"}))
           three == [i \in 1..3 |-> Start!Fodder("scaled_defender_" \o Start!ToString(i - 1), "seed:defender",
                                                 {"seed", "defender"}, 0, 4)]
           defenders == Start!IfSo(Start!Offers(both, "mana_scale_defender"), three)
<1>1. 3 \in Int
  OBVIOUS
<1>2. Board(creatures) /\ Board(elves)
  BY <1>1, CopiesBoard, BoardIf, Zenon
<1>3. Board(three)
  <2>1. three = [i \in 1..3 |-> three[i]]
    OBVIOUS
  <2>2. \A i \in 1..3 : \E id : three[i] = Start!Fodder(id, "seed:defender", {"seed", "defender"}, 0, 4)
    OBVIOUS
  <2> HIDE DEF three
  <2>3. \A i \in 1..3 : IsPermanent(three[i][2])
    BY <2>2, FodderPermanent
  <2> QED BY <1>1, <2>1, <2>3, BoardMany, Zenon
<1>4. Start!ScaledFodder(both) = creatures \o elves \o defenders
  BY Zenon DEF Start!ScaledFodder
<1> HIDE DEF creatures, elves, three
<1>5. Board(defenders)
  BY <1>3, BoardIf, Zenon
<1> HIDE DEF defenders
<1>6. Board(creatures \o elves)
  BY <1>2, BoardJoin
<1> QED BY <1>4, <1>5, <1>6, BoardJoin, Zenon
LEMMA ArtifactBoard ==
  ASSUME NEW n, n \in Int, NEW id, NEW oracle, NEW zone, zone \in Zones
  PROVE  Board(Start!Artifacts(n, id, oracle, zone))
<1> DEFINE b == Start!Artifacts(n, id, oracle, zone)
           upd == [is_artifact |-> TRUE, zone |-> zone]
<1>1. DOMAIN upd = {"is_artifact", "zone"} /\ upd["zone"] = zone
  OBVIOUS
<1>2. b = [i \in 1..n |-> b[i]] /\ \A i \in 1..n : \E name : b[i] = Start!Entry(name, oracle, {"seed", "artifact"}, upd)
  BY DEF Start!Artifacts
<1> HIDE DEF b, upd
<1>3. Setting(upd)
  <2>1. DOMAIN upd \subseteq DOMAIN Permanent
    BY <1>1 DEF Permanent
  <2>2. DOMAIN upd \cap {"pt", "counters", "damage_marked"} = {} /\ DOMAIN upd \cap Flags = {}
    BY <1>1 DEF Flags
  <2> QED BY <1>1, <2>1, <2>2 DEF Setting
<1>4. \A name : IsPermanent(Start!Entry(name, oracle, {"seed", "artifact"}, upd)[2])
  BY <1>3, EntryPermanent
<1>5. \A i \in 1..n : IsPermanent(b[i][2])
  BY <1>2, <1>4
<1> QED BY <1>2, <1>5, BoardMany DEF b
LEMMA GatedBoard == ASSUME NEW both, NEW b, Board(b) PROVE Board(Start!GatedFodder(both, b))
<1> DEFINE have == Start!Cardinality({i \in DOMAIN b : b[i][2].is_artifact /\ Start!OnBattlefield(b[i][2])})
           hand == Start!IfSo(Start!Offers(both, "mana_scale_hand_artifact"),
                              Start!Artifacts(3, "hand_artifact_", "seed:hand-artifact", "hand"))
           metal == Start!IfSo(Start!Asks(both, "metalcraft"),
                               Start!Artifacts(Start!NonNegative(3 - have), "metalcraft_artifact_",
                                               "seed:metalcraft", "battlefield"))
           power == Start!IfSo(Start!Asks(both, "ferocious_power"),
                     <<Start!Fodder("ferocious_creature", "seed:ferocious", {"seed", "ferocious"}, 4, 4)>>)
           tap == Start!IfSo(Start!Asks(both, "tap_creature_pair"),
                     <<Start!Fodder("tap_pair_creature", "seed:tap-pair", {"seed", "tap-pair"}, 1, 1)>>)
<1>0. 3 \in Int /\ 4 \in Int /\ 1 \in Int
  OBVIOUS
<1>1. Start!NonNegative(3 - have) \in Int
  <2>1. IsFiniteSet(DOMAIN b)
    BY FiniteElements DEF Board
  <2>2. \A S : Start!Cardinality(S) = Cardinality(S)
    BY Zenon DEF Start!Cardinality, Cardinality
  <2>3. have \in Nat
    BY <2>1, <2>2, CountInt
  <2> HIDE DEF have
  <2> QED BY <2>3 DEF Start!NonNegative
<1>2. Board(hand) /\ Board(metal)
  <2>1. "hand" \in Zones /\ "battlefield" \in Zones
    BY ZoneNames
  <2> HIDE DEF have
  <2> QED BY <1>0, <1>1, <2>1, ArtifactBoard, BoardIf, Zenon
<1>3. Board(power) /\ Board(tap)
  BY <1>0, FodderPermanent, BoardOne, BoardIf, Zenon
<1>4. Start!GatedFodder(both, b) = hand \o metal \o power \o tap
  BY Zenon DEF Start!GatedFodder
<1> HIDE DEF hand, metal, power, tap
<1>5. Board(hand \o metal)
  BY <1>2, BoardJoin
<1>6. Board(hand \o metal \o power)
  BY <1>3, <1>5, BoardJoin, Zenon
<1> QED BY <1>3, <1>4, <1>6, BoardJoin, Zenon

\* The board as a whole
LEMMA PlacedBoard ==
  ASSUME NEW l, l \in DOMAIN Cards, NEW r, r \in DOMAIN Cards PROVE Board(Start!Placed(l, r))
<1> DEFINE both == {l, r}
           tokens == Start!WithTokens(l, r)
           fodder == Start!WithFodder(both, tokens)
           land == Start!WithLand(both, fodder)
<1>1. Board(tokens)
  BY PiecesBoard, SubtypeBoard, BoardJoin, Zenon DEF Start!WithTokens
<1> HIDE DEF tokens
<1>2. Board(fodder)
  <2>1. Board(tokens \o Start!SeedToken(both))
    BY <1>1, TokenBoard, BoardJoin, Zenon
  <2>2. Board(tokens \o Start!SeedToken(both) \o Start!AuraHost(both, tokens))
    BY <2>1, HostBoard, BoardJoin, Zenon
  <2>3. Board(Start!CastFodder(both))
    BY CastBoard
  <2> QED BY <2>2, <2>3, BoardJoin, Zenon DEF Start!WithFodder
<1> HIDE DEF fodder
<1>3. Board(land)
  <2>1. Board(fodder \o Start!CloudstoneFodder(both, fodder))
    BY <1>2, CloudstoneBoard, BoardJoin, Zenon
  <2>2. Board(fodder \o Start!CloudstoneFodder(both, fodder) \o Start!BasicLand(both))
    BY <2>1, LandBoard, BoardJoin, Zenon
  <2> QED BY <2>2, ScaledBoard, BoardJoin, Zenon DEF Start!WithLand
<1> HIDE DEF land
<1>4. Board(Start!WithGates(both, land))
  BY <1>3, GatedBoard, BoardJoin, Zenon DEF Start!WithGates
<1> QED BY <1>4, Zenon DEF Start!Placed, land, fodder, tokens

\* The mana that pays for the first time round
IsNat(c, n) == n \in Nat
AddField(color, a, m) == m[color] + a
EachAmount == INSTANCE FoldFacts WITH Op <- AddField, P <- IsNat
Sums(color, amounts) == EachAmount!SetFold(color, 0, amounts)
LEMMA SumsNat ==
  ASSUME NEW color \in Fields, NEW S, IsFiniteSet(S), S \subseteq ManaAmount PROVE Sums(color, S) \in Nat
<1>1. ASSUME NEW a, NEW m \in S, IsNat(color, a) PROVE IsNat(color, AddField(color, a, m))
  <2>1. m[color] \in Nat
    BY DEF ManaAmount
  <2> QED BY <1>1, <2>1 DEF IsNat, AddField
<1>2. IsNat(color, 0)
  BY DEF IsNat
<1>3. IsNat(color, EachAmount!SetFold(color, 0, S))
  BY <1>1, <1>2, NatSets, FiniteRanks, EachAmount!SetFoldInvariant
<1> QED BY <1>3 DEF IsNat, Sums

\* The first ability of a kind and its first mana cost.
LEMMA FirstOrNone ==
  ASSUME NEW s, IsSequence(s), NEW S
  PROVE  LET found == Those(s, S) IN
           \/ (IF found = <<>> THEN None ELSE Some(found[1])) = {}
           \/ \E x \in S : (IF found = <<>> THEN None ELSE Some(found[1])) = {x}
<1> DEFINE found == Those(s, S)
<1>1. found \in Seq(S)
  BY ThoseList
<1> HIDE DEF found
<1>2. found # <<>> => found[1] \in S
  BY <1>1
<1>3. (IF found = <<>> THEN None ELSE Some(found[1])) \in {{}, {found[1]}}
  BY DEF None, Some
<1>4. found = <<>> => (IF found = <<>> THEN None ELSE Some(found[1])) = {}
  BY DEF None
<1>5. \/ (IF found = <<>> THEN None ELSE Some(found[1])) = {}
      \/ \E x \in S : (IF found = <<>> THEN None ELSE Some(found[1])) = {x}
  BY <1>2, <1>3, <1>4
<1> QED BY <1>5, Zenon DEF found
LEMMA FirstCost ==
  ASSUME NEW ab, IsAbility(ab), ab.kind = "activated", HasCost(ab, "mana")
  PROVE  FirstManaCost(ab) \in ManaAmount
<1> DEFINE S == {cost \in ToSet(ab.costs) : cost.kind = "mana"}
<1>1. IsSequence(ab.costs) /\ \A cost \in ToSet(ab.costs) : IsCost(cost)
  BY DEF IsAbility, ListOf, ToSet
<1>2. \E x \in S : x \in ToSet(ab.costs)
  BY DEF HasCost
<1>3. \A cost \in S : cost.amount \in ManaAmount
  BY <1>1 DEF IsCost
<1>4. FirstManaCost(ab) = Those(ab.costs, S)[1].amount
  BY Zenon DEF FirstManaCost
<1> HIDE DEF S
<1>5. Those(ab.costs, S)[1] \in S
  BY <1>1, <1>2, ThoseList
<1> QED BY <1>3, <1>4, <1>5
LEMMA FirstAbility ==
  ASSUME NEW o \in DOMAIN Cards, NEW S, \A ab \in S : ab \in ActivatedOf(Cards[o])
  PROVE  LET found == Those(Cards[o].abilities, S) IN
         LET G == IF found = <<>> THEN None ELSE Some(found[1]) IN
           IsFiniteSet(G) /\ \A ab \in G : IsAbility(ab) /\ ab.kind = "activated"
<1> DEFINE found == Those(Cards[o].abilities, S)
           G == IF found = <<>> THEN None ELSE Some(found[1])
<1>1. IsSequence(Cards[o].abilities) /\ \A ab \in ActivatedOf(Cards[o]) : IsAbility(ab) /\ ab.kind = "activated"
  BY CardsAssumption DEF WellFormed, ActivatedOf, ToSet
<1>2. G = {} \/ \E x \in S : G = {x}
  BY <1>1, FirstOrNone, Zenon
<1> HIDE DEF G, found
<1>3. IsFiniteSet(G) /\ \A ab \in G : IsAbility(ab) /\ ab.kind = "activated"
  BY <1>1, <1>2, FS_Singleton, FS_EmptySet
<1> QED BY <1>3, Zenon DEF G, found
LEMMA PayingAbilities ==
  ASSUME NEW o \in DOMAIN Cards
  PROVE  /\ IsFiniteSet(GrantLifelinkAbility(Cards[o]))
         /\ IsFiniteSet(SubtypeCreate(Cards[o]))
         /\ \A ab \in GrantLifelinkAbility(Cards[o]) \cup SubtypeCreate(Cards[o]) :
              IsAbility(ab) /\ ab.kind = "activated"
<1> DEFINE S == {ab \in ActivatedOf(Cards[o]) : HasEffect(ab, "grant_lifelink")}
           T == {ab \in ActivatedOf(Cards[o]) : /\ ab.supported
                   /\ \E e \in ToSet(ab.effects) : e.kind = "create_token" /\ e.from = "subtype"}
<1>1. /\ \A ab \in S : ab \in ActivatedOf(Cards[o])
      /\ \A ab \in T : ab \in ActivatedOf(Cards[o])
  OBVIOUS
<1>2. /\ GrantLifelinkAbility(Cards[o])
           = (LET found == Those(Cards[o].abilities, S) IN IF found = <<>> THEN None ELSE Some(found[1]))
      /\ SubtypeCreate(Cards[o])
           = (LET found == Those(Cards[o].abilities, T) IN IF found = <<>> THEN None ELSE Some(found[1]))
  BY Zenon DEF GrantLifelinkAbility, SubtypeCreate
<1> HIDE DEF S, T
<1>3. /\ IsFiniteSet(GrantLifelinkAbility(Cards[o]))
      /\ \A ab \in GrantLifelinkAbility(Cards[o]) : IsAbility(ab) /\ ab.kind = "activated"
  BY <1>1, <1>2, FirstAbility, Zenon
<1>4. /\ IsFiniteSet(SubtypeCreate(Cards[o]))
      /\ \A ab \in SubtypeCreate(Cards[o]) : IsAbility(ab) /\ ab.kind = "activated"
  BY <1>1, <1>2, FirstAbility, Zenon
<1> QED BY <1>3, <1>4
LEMMA PaidAmounts ==
  ASSUME NEW o \in DOMAIN Cards
  PROVE  /\ IsFiniteSet(ManaForGrantLifelink(Cards[o])) /\ ManaForGrantLifelink(Cards[o]) \subseteq ManaAmount
         /\ IsFiniteSet(ManaForSubtypeCreate(Cards[o])) /\ ManaForSubtypeCreate(Cards[o]) \subseteq ManaAmount
<1> DEFINE G == {x \in GrantLifelinkAbility(Cards[o]) : HasCost(x, "mana")}
           S == {x \in SubtypeCreate(Cards[o]) : HasCost(x, "mana") /\ Total(FirstManaCost(x)) > 0}
           g == [ab \in G |-> [FirstManaCost(ab) EXCEPT !["colorless"] = @ + FirstManaCost(ab)["generic"],
                                                        !["generic"] = 0]]
           credit(ab) == [NoMana EXCEPT !["any_color"] = Total(FirstManaCost(ab))]
           s == [ab \in S |-> credit(ab)]
<1>1. IsFiniteSet(G) /\ IsFiniteSet(S)
  BY PayingAbilities, FS_Subset
<1>2. \A ab \in G \cup S : FirstManaCost(ab) \in ManaAmount
  BY PayingAbilities, FirstCost
<1>9. IsFiniteSet({g[ab] : ab \in G}) /\ IsFiniteSet({s[ab] : ab \in S})
  <2> HIDE DEF G, S, credit
  <2>1. IsFiniteSet({g[ab] : ab \in G})
    BY <1>1, FiniteImage
  <2>2. IsFiniteSet({s[ab] : ab \in S})
    BY <1>1, FiniteImage
  <2> QED BY <2>1, <2>2
<1>3. \A ab \in G : g[ab] = [FirstManaCost(ab) EXCEPT !["colorless"] = @ + FirstManaCost(ab)["generic"],
                                                        !["generic"] = 0]
  OBVIOUS
<1>4. \A ab \in S : s[ab] = [NoMana EXCEPT !["any_color"] = Total(FirstManaCost(ab))]
  OBVIOUS
<1>5. /\ ManaForGrantLifelink(Cards[o]) = {g[ab] : ab \in G} /\ G \subseteq DOMAIN g
      /\ ManaForSubtypeCreate(Cards[o]) = {s[ab] : ab \in S} /\ S \subseteq DOMAIN s
  BY DEF ManaForGrantLifelink, ManaForSubtypeCreate
<1> HIDE DEF G, S, g, s
<1>6. ASSUME NEW a \in ManaAmount
      PROVE  /\ [a EXCEPT !["colorless"] = @ + a["generic"], !["generic"] = 0] \in ManaAmount
             /\ Total(a) \in Nat /\ [NoMana EXCEPT !["any_color"] = Total(a)] \in ManaAmount
  <2>1. {"white", "blue", "black", "red", "green", "colorless", "generic", "any_color"} \subseteq Fields
    BY DEF Fields, Pips, WUBRG
  <2>2. \A f \in Fields : a[f] \in Nat
    BY DEF ManaAmount
  <2>3. a["colorless"] + a["generic"] \in Nat
    BY <2>1, <2>2
  <2>4. Total(a) \in Nat
    BY <2>1, <2>2 DEF Total
  <2>5. NoMana \in ManaAmount
    BY DEF NoMana, ManaAmount
  <2>6. \A n \in Nat : [NoMana EXCEPT !["any_color"] = n] \in ManaAmount
    BY <2>5 DEF ManaAmount
  <2>7. \A n \in Nat : [a EXCEPT !["colorless"] = n] \in ManaAmount
    BY DEF ManaAmount
  <2>8. \A b \in ManaAmount : [b EXCEPT !["generic"] = 0] \in ManaAmount
    BY DEF ManaAmount
  <2>9. [a EXCEPT !["colorless"] = @ + a["generic"], !["generic"] = 0]
          = [[a EXCEPT !["colorless"] = a["colorless"] + a["generic"]] EXCEPT !["generic"] = 0]
    BY Zenon
  <2>10. [a EXCEPT !["colorless"] = a["colorless"] + a["generic"]] \in ManaAmount
    BY <2>3, <2>7, Zenon
  <2> QED BY <2>4, <2>6, <2>8, <2>9, <2>10
<1>7. \A ab \in G : g[ab] \in ManaAmount
  BY <1>2, <1>3, <1>6
<1>8. \A ab \in S : s[ab] \in ManaAmount
  BY <1>2, <1>4, <1>6
<1> QED BY <1>5, <1>7, <1>8, <1>9

\* The cash for artifacts that come back.
Cash(l, r) ==
  Start!RockMana(l, {l, r}) + Start!RockMana(r, {l, r}) + (IF Start!NeedsEchoesBootstrap({l, r}) THEN 2 ELSE 0)
Seeds(o, color) ==
  Sums(color, Start!ManaForGrantLifelink(Cards[o])) + Sums(color, Start!ManaForSubtypeCreate(Cards[o]))
LEMMA SeedManaSums ==
  ASSUME NEW l, NEW r
  PROVE  Start!SeedMana(l, r)
           = [color \in Fields |-> Seeds(l, color) + Seeds(r, color)
                                   + IF color = "colorless" THEN Cash(l, r) ELSE 0]
  BY Zenon DEF Start!SeedMana, Start!SumOver, Seeds, Sums, Cash, EachAmount!SetFold, AddField,
     Start!MapThenSumSet, Start!MapThenFoldSet, Start!Fields, Start!Pips, Start!WUBRG, Fields, Pips, WUBRG
LEMMA SameAmounts ==
  ASSUME NEW card
  PROVE  /\ Start!ManaForGrantLifelink(card) = ManaForGrantLifelink(card)
         /\ Start!ManaForSubtypeCreate(card) = ManaForSubtypeCreate(card)
<1>1. \A s, S : Start!Those(s, S) = Those(s, S)
  BY Zenon DEF Start!Those, Those, Start!Picked, Picked
<1>2. \A ab : Start!FirstManaCost(ab) = FirstManaCost(ab)
  BY <1>1, Zenon DEF Start!FirstManaCost, FirstManaCost, Start!ToSet, ToSet
<1>3. Start!ActivatedOf(card) = ActivatedOf(card)
  BY Zenon DEF Start!ActivatedOf, ActivatedOf, Start!ToSet, ToSet
<1>4. \A ab, kind : Start!HasCost(ab, kind) = HasCost(ab, kind) /\ Start!HasEffect(ab, kind) = HasEffect(ab, kind)
  BY Zenon DEF Start!HasCost, HasCost, Start!HasEffect, HasEffect, Start!ToSet, ToSet
<1>5. Start!GrantLifelinkAbility(card) = GrantLifelinkAbility(card)
  BY <1>1, <1>3, <1>4 DEF Start!GrantLifelinkAbility, GrantLifelinkAbility, Start!None, None, Start!Some, Some
<1>6. Start!SubtypeCreate(card) = SubtypeCreate(card)
  BY <1>1, <1>3 DEF Start!SubtypeCreate, SubtypeCreate, Start!None, None, Start!Some, Some, Start!ToSet, ToSet
<1>7. Start!NoMana = NoMana /\ \A a : Start!Total(a) = Total(a)
  BY DEF Start!NoMana, NoMana, Start!Total, Total, Start!Fields, Start!Pips, Start!WUBRG, Fields, Pips, WUBRG
<1>8. Start!ManaForGrantLifelink(card) = ManaForGrantLifelink(card)
  BY <1>2, <1>4, <1>5 DEF Start!ManaForGrantLifelink, ManaForGrantLifelink
<1>9. Start!ManaForSubtypeCreate(card) = ManaForSubtypeCreate(card)
  BY <1>2, <1>4, <1>6, <1>7 DEF Start!ManaForSubtypeCreate, ManaForSubtypeCreate
<1> QED BY <1>8, <1>9
LEMMA SeedManaTyped ==
  ASSUME NEW l, l \in DOMAIN Cards, NEW r, r \in DOMAIN Cards PROVE Start!SeedMana(l, r) \in ManaAmount
<1>1. \A o \in {l, r} : \A color \in Fields : Seeds(o, color) \in Nat
  <2> SUFFICES ASSUME NEW o \in {l, r}, NEW color \in Fields PROVE Seeds(o, color) \in Nat
    OBVIOUS
  <2>1. /\ Sums(color, ManaForGrantLifelink(Cards[o])) \in Nat
        /\ Sums(color, ManaForSubtypeCreate(Cards[o])) \in Nat
    BY PaidAmounts, SumsNat
  <2> QED BY <2>1, SameAmounts DEF Seeds
<1>2. Cash(l, r) \in Nat
  <2>1. \A o \in {l, r} : Cards[o].mana_value \in Nat
    BY CardsAssumption DEF WellFormed
  <2>2. \A o \in {l, r} : Start!RockMana(o, {l, r}) \in {0, Cards[o].mana_value}
    BY DEF Start!RockMana
  <2>3. Start!RockMana(l, {l, r}) \in Nat /\ Start!RockMana(r, {l, r}) \in Nat
    BY <2>1, <2>2
  <2> QED BY <2>3 DEF Cash
<1>3. \A color \in Fields : Seeds(l, color) + Seeds(r, color)
                            + (IF color = "colorless" THEN Cash(l, r) ELSE 0) \in Nat
  BY <1>1, <1>2
<1> QED BY <1>3, SeedManaSums DEF ManaAmount

\* A board is a state of the executor, once it is the initial state of a witness.
LEMMA BoardIsState ==
  ASSUME NEW b, Board(b), NEW mana, mana \in ManaAmount PROVE IsState(FromSpec(Start!SpecOf(b, mana)))
<1> DEFINE ids == {b[i][1] : i \in DOMAIN b}
           names == [i \in DOMAIN b |-> b[i][1]]
           perms == [id \in ids |-> b[CHOOSE i \in DOMAIN b : b[i][1] = id][2]]
           spec == Start!SpecOf(b, mana)
           st == FromSpec(spec)
<1>1. /\ spec.order = names /\ spec.permanents = perms /\ spec.life_you = 40 /\ spec.life_opponent = 40
      /\ spec.event_counters = <<>> /\ spec.mana = mana
  BY DEF Start!SpecOf, Start!InitialStateSpec
<1>2. IsSequence(names) /\ DOMAIN names = DOMAIN b /\ ToSet(names) = ids
  <2>1. names = [i \in DOMAIN b |-> names[i]] /\ ToSet(names) = {names[i] : i \in DOMAIN names}
    BY DEF ToSet
  <2>2. \A i \in DOMAIN b : names[i] = b[i][1]
    OBVIOUS
  <2> HIDE DEF names
  <2>3. IsSequence(names) /\ DOMAIN names = DOMAIN b
    BY <2>1, OverList DEF Board
  <2> QED BY <2>1, <2>2, <2>3
<1>3. IsFiniteSet(ids)
  <2>1. IsFiniteSet(DOMAIN names) /\ DOMAIN names = DOMAIN b /\ ids = {names[i] : i \in DOMAIN names}
    BY <1>2, FiniteElements, Zenon DEF ToSet
  <2> HIDE DEF names
  <2> QED BY <2>1, FiniteImage, Zenon
<1>4. DOMAIN perms = ids /\ \A id \in ids : IsPermanent(perms[id])
  <2>1. \A id \in ids : (CHOOSE i \in DOMAIN b : b[i][1] = id) \in DOMAIN b
    OBVIOUS
  <2> QED BY <2>1 DEF Board
<1> HIDE DEF spec, names, perms, ids
<1>5. /\ DOMAIN st = StateFields /\ st.order = names /\ st.permanents = perms
      /\ {st.library_you, st.library_opponent, st.graveyard_opponent, st.hand_you, st.energy_you,
          st.token_seq} \subseteq Nat
      /\ {st.life_you, st.life_opponent, st.last_sacrificed_power} \subseteq Int
      /\ st.pending_triggers = <<>> /\ st.mana = mana /\ st.mana_activate_only = NoMana
  BY <1>1 DEF FromSpec, StateFields, OpeningLibrary, OpeningHand
<1>6. st.event_counters \in [EventKeys -> Int]
  <2>1. DOMAIN spec.event_counters = {}
    BY <1>1
  <2>2. st.event_counters = [k \in EventKeys |-> 0]
    BY <2>1 DEF FromSpec
  <2> QED BY <2>2
<1> HIDE DEF st
<1>7. IsSequence(st.pending_triggers) /\ DOMAIN st.pending_triggers = {}
  BY <1>5, EmptyList
<1>8. NoMana \in ManaAmount
  BY DEF NoMana, ManaAmount
<1>9. IsState(st)
  BY <1>2, <1>3, <1>4, <1>5, <1>6, <1>7, <1>8 DEF IsState, Ids
<1> QED BY <1>9 DEF st, spec

\* Whatever the two cards of a pair are, the board they are searched on, with all its fodder, hosts,
\* lands and seeds, is a GameState that the executor can go on from.
THEOREM BoardsAreStates ==
  \A l, r \in DOMAIN Cards : IsState(FromSpec(Start!DefaultInitialState(l, r)))
  BY PlacedBoard, SeedManaTyped, BoardIsState, Zenon DEF Start!DefaultInitialState
-----------------------------------------------------------------------------
(* What is explored *)

\* The pairs that are left are candidates, and so are the one that is explored and those that were
\* reported; their board, with the seeds that were run on it, is a state of the executor.
Explored ==
  /\ order \in Pools /\ todo \in Seq(Candidates(order))
  /\ phase # "pairs" => pair \in Candidates(order) /\ IsState(origin.st)
  /\ \A i \in DOMAIN report : report[i].pair \in Candidates(order)

\* What the search looks at are states of the executor too.
OnBoards ==
  /\ \A i \in DOMAIN queue : IsState(queue[i].st)
  /\ phase \in {"found", "expand"} => IsState(node.st)

-----------------------------------------------------------------------------
(* The limits *)

\* The laps in the queue are as long as the lap looked at last or one step longer, the shorter
\* ones first, and none has more than MaxDepth steps.
InOrder ==
  /\ IsSequence(queue) /\ IsSequence(node.lap)
  /\ Len(node.lap) <= MaxDepth
  /\ \A i \in DOMAIN queue :
       /\ IsSequence(queue[i].lap) /\ Len(queue[i].lap) <= MaxDepth
       /\ Len(queue[i].lap) \in {Len(node.lap), Len(node.lap) + 1}
  /\ \A i, j \in DOMAIN queue : i <= j => Len(queue[i].lap) <= Len(queue[j].lap)

\* The nodes are counted, and a hit has a lap.
Phases == {"pairs", "seed", "search", "found", "expand"}
Visits ==
  /\ visited \in Nat /\ visited <= MaxStates /\ phase \in Phases
  /\ phase = "found" => node.lap # <<>>

Reported ==
  /\ IsSequence(report)
  /\ \A i \in DOMAIN report : Len(report[i].lap) \in 1..MaxDepth

Bounds == InOrder /\ Visits /\ Reported

LEMMA InitBounds == Init => Bounds
<1> SUFFICES ASSUME Init PROVE Bounds
  OBVIOUS
<1>1. queue = <<>> /\ report = <<>> /\ node = NoNode /\ visited = 0 /\ phase = "pairs"
  BY DEF Init
<1> QED
  BY <1>1, EmptyList, MaxDepthAssumption, MaxStatesAssumption
     DEF Bounds, InOrder, Visits, Phases, Reported, NoNode

-----------------------------------------------------------------------------
(* The steps *)

LEMMA BeginBounds == Bounds /\ Begin => Bounds'
<1> SUFFICES ASSUME Bounds, Begin PROVE Bounds'
  OBVIOUS
<1> DEFINE root == [st |-> origin.st, lap |-> <<>>]
<1>1. queue' = <<root>> /\ node'.lap = <<>> /\ visited' = 0 /\ phase' = "search" /\ report' = report
  BY DEF Begin, NoNode, explored
<1>2. IsSequence(<<root>>) /\ DOMAIN <<root>> = {1} /\ <<root>>[1].lap = <<>>
  <2>1. IsSequence(<<root>>)
    BY OneList
  <2>2. DOMAIN <<root>> = {1} /\ <<root>>[1] = root
    OBVIOUS
  <2> QED BY <2>1, <2>2
<1>4. InOrder'
  BY <1>1, <1>2, EmptyList, MaxDepthAssumption DEF InOrder
<1> QED
  BY <1>1, <1>4, MaxStatesAssumption DEF Bounds, Visits, Phases, Reported

\* Of two lengths out of the same two, the larger is at most one more.
LEMMA WithinOne ==
  ASSUME NEW n \in Nat, NEW a \in {n, n + 1}, NEW b \in {n, n + 1}, a <= b
  PROVE  b \in {a, a + 1}
  OBVIOUS

LEMMA VisitBounds == Bounds /\ Visit => Bounds'
<1> SUFFICES ASSUME Bounds, Visit PROVE Bounds'
  OBVIOUS
<1>1. /\ queue # <<>> /\ visited < MaxStates /\ node' = Head(queue) /\ queue' = Tail(queue)
      /\ visited' = visited + 1 /\ report' = report
      /\ phase' \in Phases
      /\ phase' = "found" => Acceptable(pair, origin, Head(queue))
  BY MaxStatesAssumption DEF Visit, AtLimit, Phases, Bounds, Visits
<1>2. /\ IsSequence(Tail(queue)) /\ Len(queue) \in Nat \ {0} /\ DOMAIN queue = 1..Len(queue)
      /\ DOMAIN Tail(queue) = 1..(Len(queue) - 1) /\ Head(queue) = queue[1]
      /\ \A i \in DOMAIN Tail(queue) : i + 1 \in DOMAIN queue /\ Tail(queue)[i] = queue[i + 1]
  BY <1>1, Popped DEF Bounds, InOrder
<1>3. IsSequence(node'.lap) /\ Len(node'.lap) <= MaxDepth
  BY <1>1, <1>2 DEF Bounds, InOrder
<1>4. Len(node.lap) \in Nat
  BY Appended DEF Bounds, InOrder
<1>5. \A i \in DOMAIN queue' :
        /\ IsSequence(queue'[i].lap) /\ Len(queue'[i].lap) <= MaxDepth
        /\ Len(queue'[i].lap) \in {Len(node'.lap), Len(node'.lap) + 1}
  <2> SUFFICES ASSUME NEW i \in DOMAIN queue'
               PROVE  /\ IsSequence(queue'[i].lap) /\ Len(queue'[i].lap) <= MaxDepth
                      /\ Len(queue'[i].lap) \in {Len(node'.lap), Len(node'.lap) + 1}
    OBVIOUS
  <2>1. queue'[i] = queue[i + 1] /\ i + 1 \in DOMAIN queue /\ 1 \in DOMAIN queue /\ 1 <= i + 1
    BY <1>1, <1>2
  <2>2. Len(queue[1].lap) <= Len(queue[i + 1].lap)
    BY <2>1 DEF Bounds, InOrder
  <2>3. /\ IsSequence(queue[i + 1].lap) /\ Len(queue[i + 1].lap) <= MaxDepth
        /\ Len(queue[i + 1].lap) \in {Len(node.lap), Len(node.lap) + 1}
        /\ Len(queue[1].lap) \in {Len(node.lap), Len(node.lap) + 1}
    BY <2>1 DEF Bounds, InOrder
  <2>4. Len(queue[i + 1].lap) \in {Len(queue[1].lap), Len(queue[1].lap) + 1}
    BY <1>4, <2>2, <2>3, WithinOne
  <2>5. node'.lap = queue[1].lap
    BY <1>1, <1>2
  <2> QED
    BY <2>1, <2>3, <2>4, <2>5
<1>6. \A i, j \in DOMAIN queue' : i <= j => Len(queue'[i].lap) <= Len(queue'[j].lap)
  BY <1>1, <1>2 DEF Bounds, InOrder
<1>7. phase' = "found" => node'.lap # <<>>
  BY <1>1 DEF Acceptable
<1> QED
  BY <1>1, <1>2, <1>3, <1>5, <1>6, <1>7, MaxStatesAssumption DEF Bounds, InOrder, Visits, Reported

LEMMA AcceptBounds == Bounds /\ Accept => Bounds'
<1> SUFFICES ASSUME Bounds, Accept PROVE Bounds'
  OBVIOUS
<1> DEFINE hit == [pair |-> pair, lap |-> node.lap]
<1>1. /\ report' = Append(report, hit) /\ phase = "found" /\ phase' = "pairs"
      /\ UNCHANGED <<queue, visited, node>>
  BY DEF Accept
<1>2. Len(node.lap) \in 1..MaxDepth
  <2>1. node.lap # <<>>
    BY <1>1 DEF Bounds, Visits
  <2>2. Len(node.lap) \in Nat \ {0}
    BY <2>1, Popped DEF Bounds, InOrder
  <2> QED
    BY <2>2, MaxDepthAssumption DEF Bounds, InOrder
<1>3. Reported'
  BY <1>1, <1>2, Appended DEF Bounds, Reported
<1> QED
  BY <1>1, <1>3 DEF Bounds, InOrder, Visits, Phases

LEMMA ExpandBounds == OnBoards /\ Bounds /\ Expand => Bounds'
<1> SUFFICES ASSUME OnBoards, Bounds, Expand PROVE Bounds'
  OBVIOUS
<1> DEFINE next == Successors(node.st)
           nodes == [i \in DOMAIN next |-> [st |-> next[i].r.st, lap |-> Append(node.lap, next[i].step)]]
<1>1. /\ queue' = queue \o nodes /\ Len(node.lap) < MaxDepth
      /\ phase' = "search" /\ UNCHANGED <<visited, node, report>>
  <2>1. Len(node.lap) \in Nat
    BY Appended DEF Bounds, InOrder
  <2>2. ~(Len(node.lap) >= MaxDepth)
    BY DEF Expand, AtDepth
  <2> QED
    BY <2>1, <2>2, MaxDepthAssumption DEF Expand, Enqueue
<1>2. IsSequence(nodes) /\ DOMAIN nodes = DOMAIN next
  <2>1. IsSequence(next)
    BY LegalStepsAreLegal DEF Expand, OnBoards
  <2>2. nodes = [i \in DOMAIN next |-> nodes[i]]
    OBVIOUS
  <2> HIDE DEF next, nodes
  <2> QED BY <2>1, <2>2, OverList
<1>3. \A i \in DOMAIN nodes :
        IsSequence(nodes[i].lap) /\ Len(nodes[i].lap) = Len(node.lap) + 1 /\ Len(nodes[i].lap) <= MaxDepth
  <2> SUFFICES ASSUME NEW i \in DOMAIN nodes
               PROVE  /\ IsSequence(nodes[i].lap) /\ Len(nodes[i].lap) = Len(node.lap) + 1
                      /\ Len(nodes[i].lap) <= MaxDepth
    OBVIOUS
  <2>1. nodes[i].lap = Append(node.lap, next[i].step)
    BY <1>2
  <2>2. /\ IsSequence(Append(node.lap, next[i].step)) /\ Len(node.lap) \in Nat
        /\ Len(Append(node.lap, next[i].step)) = Len(node.lap) + 1
    BY Appended DEF Bounds, InOrder
  <2>3. IsSequence(nodes[i].lap) /\ Len(nodes[i].lap) = Len(node.lap) + 1
    BY <2>1, <2>2
  <2>4. Len(node.lap) + 1 <= MaxDepth
    BY <1>1, <2>2, MaxDepthAssumption
  <2> HIDE DEF nodes
  <2> QED
    BY <2>3, <2>4
<1> HIDE DEF nodes
<1> DEFINE q == queue \o nodes
<1>4. /\ IsSequence(q) /\ Len(queue) \in Nat /\ Len(nodes) \in Nat
      /\ DOMAIN queue = 1..Len(queue) /\ DOMAIN nodes = 1..Len(nodes)
      /\ DOMAIN q = 1..(Len(queue) + Len(nodes))
      /\ \A i \in 1..Len(queue) : q[i] = queue[i]
      /\ \A i \in (Len(queue) + 1)..(Len(queue) + Len(nodes)) : q[i] = nodes[i - Len(queue)]
  BY <1>2, Joined DEF Bounds, InOrder
<1> HIDE DEF q
<1>5. \A i \in DOMAIN q : ~(i \in DOMAIN queue) => i - Len(queue) \in DOMAIN nodes
  BY <1>4
<1>6. \A i \in DOMAIN q : q[i] = IF i \in DOMAIN queue THEN queue[i] ELSE nodes[i - Len(queue)]
  BY <1>4
<1>7. \A i \in DOMAIN q :
        /\ IsSequence(q[i].lap) /\ Len(q[i].lap) <= MaxDepth
        /\ Len(q[i].lap) \in {Len(node.lap), Len(node.lap) + 1}
  BY <1>3, <1>5, <1>6 DEF Bounds, InOrder
<1>8. \A i, j \in DOMAIN q : i <= j => Len(q[i].lap) <= Len(q[j].lap)
  <2> SUFFICES ASSUME NEW i \in DOMAIN q, NEW j \in DOMAIN q, i <= j
               PROVE  Len(q[i].lap) <= Len(q[j].lap)
    OBVIOUS
  <2>1. Len(node.lap) \in Nat
    BY Appended DEF Bounds, InOrder
  <2>2. CASE j \in DOMAIN queue
    <3>1. i \in DOMAIN queue
      BY <1>4, <2>2
    <3> QED BY <1>6, <2>2, <3>1 DEF Bounds, InOrder
  <2>3. CASE ~(j \in DOMAIN queue)
    <3>1. Len(q[j].lap) = Len(node.lap) + 1
      BY <1>3, <1>5, <1>6, <2>3
    <3>2. Len(q[i].lap) \in {Len(node.lap), Len(node.lap) + 1}
      BY <1>7
    <3> QED BY <2>1, <3>1, <3>2
  <2> QED BY <2>2, <2>3
<1>9. queue' = q
  BY <1>1 DEF q
<1> QED
  BY <1>1, <1>4, <1>7, <1>8, <1>9 DEF Bounds, InOrder, Visits, Phases, Reported

LEMMA StepBounds == OnBoards /\ Bounds /\ [Next]_vars => Bounds'
<1> SUFFICES ASSUME OnBoards, Bounds, [Next]_vars PROVE Bounds'
  OBVIOUS
<1>1. CASE StartPair
  BY <1>1 DEF StartPair, Bounds, InOrder, Visits, Phases, Reported
<1>2. CASE Seed
  BY <1>2 DEF Seed, Bounds, InOrder, Visits, Phases, Reported
<1>3. CASE Begin
  BY <1>3, BeginBounds
<1>4. CASE Visit
  BY <1>4, VisitBounds
<1>5. CASE Abandon
  BY <1>5 DEF Abandon, Bounds, InOrder, Visits, Phases, Reported
<1>6. CASE Accept
  BY <1>6, AcceptBounds
<1>7. CASE Drop
  BY <1>7 DEF Drop, Bounds, InOrder, Visits, Phases, Reported
<1>8. CASE Expand
  BY <1>8, ExpandBounds
<1>9. CASE Return \/ UNCHANGED vars
  BY <1>9 DEF Return, vars, Bounds, InOrder, Visits, Reported
<1> QED
  BY <1>1, <1>2, <1>3, <1>4, <1>5, <1>6, <1>7, <1>8, <1>9 DEF Next

-----------------------------------------------------------------------------
(* The nodes *)

\* A node that is visited was the first of the queue, and the others are still in it.
LEMMA VisitedNode ==
  ASSUME Bounds, Visit
  PROVE  /\ \E j \in DOMAIN queue : node' = queue[j]
         /\ \A i \in DOMAIN queue' : \E j \in DOMAIN queue : queue'[i] = queue[j]
<1>1. queue # <<>> /\ node' = Head(queue) /\ queue' = Tail(queue) /\ IsSequence(queue)
  BY DEF Visit, Bounds, InOrder
<1>2. /\ Len(queue) \in Nat \ {0} /\ DOMAIN queue = 1..Len(queue) /\ Head(queue) = queue[1]
      /\ \A i \in DOMAIN Tail(queue) : i + 1 \in DOMAIN queue /\ Tail(queue)[i] = queue[i + 1]
  BY <1>1, Popped
<1>3. 1 \in DOMAIN queue
  BY <1>2
<1> QED BY <1>1, <1>2, <1>3

\* What an expanded node adds to the queue: its lap with one legal step more, and where it leads.
NodeAfter(s) == [st |-> s.r.st, lap |-> Append(node.lap, s.step)]
LEMMA ExpandedNode ==
  ASSUME OnBoards, Bounds, Expand
  PROVE  \A i \in DOMAIN queue' :
           \/ \E j \in DOMAIN queue : queue'[i] = queue[j]
           \/ \E s : LegalStep(node.st, s) /\ queue'[i] = NodeAfter(s)
<1> DEFINE next == Successors(node.st)
           nodes == [i \in DOMAIN next |-> [st |-> next[i].r.st, lap |-> Append(node.lap, next[i].step)]]
<1>1. queue' = queue \o nodes
  BY DEF Expand, Enqueue
<1>2. IsSequence(next) /\ \A i \in DOMAIN next : LegalStep(node.st, next[i])
  BY LegalStepsAreLegal DEF Expand, OnBoards
<1>3. nodes = [i \in DOMAIN next |-> nodes[i]]
  OBVIOUS
<1>4. \A i \in DOMAIN next : nodes[i] = NodeAfter(next[i])
  BY DEF NodeAfter
<1> HIDE DEF next, nodes
<1>5. IsSequence(nodes) /\ DOMAIN nodes = DOMAIN next
  BY <1>2, <1>3, OverList
<1>6. \A i \in DOMAIN nodes : \E s : LegalStep(node.st, s) /\ nodes[i] = NodeAfter(s)
  BY <1>2, <1>4, <1>5
<1>7. /\ Len(queue) \in Nat /\ Len(nodes) \in Nat
      /\ DOMAIN queue = 1..Len(queue) /\ DOMAIN nodes = 1..Len(nodes)
      /\ DOMAIN (queue \o nodes) = 1..(Len(queue) + Len(nodes))
      /\ \A i \in 1..Len(queue) : (queue \o nodes)[i] = queue[i]
      /\ \A i \in (Len(queue) + 1)..(Len(queue) + Len(nodes)) :
           (queue \o nodes)[i] = nodes[i - Len(queue)]
  BY <1>5, Joined DEF Bounds, InOrder
<1> SUFFICES ASSUME NEW i \in DOMAIN queue'
             PROVE  \/ \E j \in DOMAIN queue : queue'[i] = queue[j]
                    \/ \E s : LegalStep(node.st, s) /\ queue'[i] = NodeAfter(s)
  OBVIOUS
<1>8. CASE i \in 1..Len(queue)
  BY <1>1, <1>7, <1>8
<1>9. CASE i \notin 1..Len(queue)
  <2>1. /\ i \in (Len(queue) + 1)..(Len(queue) + Len(nodes)) /\ i - Len(queue) \in DOMAIN nodes
    BY <1>1, <1>7, <1>9
  <2>2. queue'[i] = nodes[i - Len(queue)]
    BY <1>1, <1>7, <2>1
  <2> QED BY <1>6, <2>1, <2>2
<1> QED BY <1>8, <1>9

LEMMA InitExplored == Init => Explored /\ OnBoards
<1> SUFFICES ASSUME Init PROVE Explored /\ OnBoards
  OBVIOUS
<1>1. /\ order \in Pools /\ todo = CandidatePairs(CapsOf(order), IndexedOrder(order))
      /\ phase = "pairs" /\ queue = <<>> /\ report = <<>>
  BY DEF Init
<1>2. todo \in Seq(Candidates(order))
  BY <1>1, PairsOfPool
<1> QED BY <1>1, <1>2, EmptyList DEF Explored, OnBoards

\* A seed leads from a state to a state.
LEMMA SeededState == ASSUME NEW a, IsState(a.st), NEW found PROVE IsState(Seeded(a, found).st)
<1>1. CASE found = None
  BY <1>1 DEF Seeded
<1>2. CASE found # None
  <2> DEFINE r == RunStep(a.st, The(found))
  <2>1. Seeded(a, found) = AfterSeed(a, The(found), r)
    BY <1>2 DEF Seeded
  <2>2. IsState(r.st)
    BY StepsStayTyped
  <2> HIDE DEF r
  <2> DEFINE longer == IF r.err = "ok" THEN Append(a.setup, The(found)) ELSE a.setup
             b == [a EXCEPT !.st = r.st]
  <2>3. \/ AfterSeed(a, The(found), r).st = r.st
        \/ AfterSeed(a, The(found), r).st = a.st
    BY DEF AfterSeed
  <2> QED BY <2>1, <2>2, <2>3
<1> QED BY <1>1, <1>2

LEMMA StepExplored == Explored /\ OnBoards /\ Bounds /\ [Next]_vars => Explored' /\ OnBoards'
<1> SUFFICES ASSUME Explored, OnBoards, Bounds, [Next]_vars PROVE Explored' /\ OnBoards'
  OBVIOUS
<1>1. CASE StartPair
  <2>1. /\ todo # <<>> /\ pair' = Head(todo) /\ todo' = Tail(todo)
        /\ origin' = Unseeded(Start!DefaultInitialState(Head(todo)[1], Head(todo)[2]))
        /\ phase = "pairs" /\ phase' = "seed" /\ UNCHANGED <<order, queue, expanded, visited, node, report>>
    BY <1>1 DEF StartPair
  <2>2. order \in Pools /\ todo \in Seq(Candidates(order))
    BY DEF Explored
  <2>3. Head(todo) \in Candidates(order) /\ Tail(todo) \in Seq(Candidates(order))
    BY <2>1, <2>2
  <2>4. Head(todo)[1] \in DOMAIN Cards /\ Head(todo)[2] \in DOMAIN Cards
    BY <2>2, <2>3, IndexedCards DEF Candidates
  <2>5. origin'.st = FromSpec(Start!DefaultInitialState(Head(todo)[1], Head(todo)[2]))
    BY <2>1 DEF Unseeded
  <2>6. IsState(origin'.st)
    BY <2>4, <2>5, BoardsAreStates
  <2> QED BY <2>1, <2>2, <2>3, <2>6 DEF Explored, OnBoards
<1>2. CASE Seed
  <2>1. IsState(origin.st) /\ \E found : origin' = Seeded(origin, found)
    BY <1>2 DEF Seed, Explored
  <2>2. IsState(origin'.st)
    BY <2>1, SeededState
  <2> QED BY <1>2, <2>2 DEF Seed, Explored, OnBoards
<1>3. CASE Begin
  <2>1. /\ queue' = <<[st |-> origin.st, lap |-> <<>>]>> /\ phase = "seed" /\ phase' = "search"
        /\ UNCHANGED <<order, todo, pair, origin, report>>
    BY <1>3 DEF Begin, explored
  <2>2. IsState(origin.st)
    BY <2>1 DEF Explored
  <2>3. \A i \in DOMAIN queue' : queue'[i].st = origin.st
    BY <2>1
  <2> QED BY <2>1, <2>2, <2>3 DEF Explored, OnBoards
<1>4. CASE Visit
  <2>1. \E j \in DOMAIN queue : node' = queue[j]
    BY <1>4, VisitedNode
  <2>2. \A i \in DOMAIN queue' : \E j \in DOMAIN queue : queue'[i] = queue[j]
    BY <1>4, VisitedNode
  <2>3. OnBoards'
    BY <2>1, <2>2 DEF OnBoards
  <2>4. Explored'
    BY <1>4 DEF Visit, explored, Explored
  <2> QED BY <2>3, <2>4
<1>5. CASE Abandon \/ Drop
  BY <1>5 DEF Abandon, Drop, explored, Explored, OnBoards
<1>6. CASE Accept
  <2> DEFINE hit == [pair |-> pair, lap |-> node.lap]
  <2>1. /\ report' = Append(report, hit) /\ phase = "found" /\ phase' = "pairs"
        /\ UNCHANGED <<order, todo, pair, origin, queue, node>>
    BY <1>6 DEF Accept, explored
  <2>2. hit.pair = pair
    OBVIOUS
  <2> HIDE DEF hit
  <2>3. /\ Len(report) \in Nat /\ DOMAIN Append(report, hit) = 1..(Len(report) + 1)
        /\ DOMAIN report = 1..Len(report)
        /\ \A i \in 1..Len(report) : Append(report, hit)[i] = report[i]
        /\ Append(report, hit)[Len(report) + 1] = hit
    BY Appended, ListIndices DEF Bounds, Reported
  <2>4. \A i \in DOMAIN report' : report'[i].pair \in Candidates(order)
    <3> SUFFICES ASSUME NEW i \in DOMAIN report' PROVE report'[i].pair \in Candidates(order)
      OBVIOUS
    <3>1. i \in 1..Len(report) \/ i = Len(report) + 1
      BY <2>1, <2>3
    <3> QED BY <2>1, <2>2, <2>3, <3>1 DEF Explored
  <2> QED BY <2>1, <2>4 DEF Explored, OnBoards
<1>7. CASE Expand
  <2>1. \A i \in DOMAIN queue' :
          \/ \E j \in DOMAIN queue : queue'[i] = queue[j]
          \/ \E s : LegalStep(node.st, s) /\ queue'[i] = NodeAfter(s)
    BY <1>7, ExpandedNode
  <2>2. \A s : LegalStep(node.st, s) => IsState(NodeAfter(s).st)
    BY DEF LegalStep, NodeAfter
  <2>3. \A i \in DOMAIN queue' : IsState(queue'[i].st)
    BY <2>1, <2>2 DEF OnBoards
  <2>4. phase' = "search" /\ Explored'
    BY <1>7 DEF Expand, explored, Explored
  <2> QED BY <2>3, <2>4 DEF OnBoards
<1>8. CASE Return \/ UNCHANGED vars
  BY <1>8 DEF Return, vars, explored, Explored, OnBoards
<1> QED
  BY <1>1, <1>2, <1>3, <1>4, <1>5, <1>6, <1>7, <1>8 DEF Next

-----------------------------------------------------------------------------
(* The line of descent *)

\* The states of a search follow the board that was put down for its pair.
FirstBoard == FromSpec(Start!DefaultInitialState(pair[1], pair[2]))
Descends ==
  /\ phase # "pairs" => Follows(FirstBoard, origin.st)
  /\ phase \in {"search", "found", "expand"} => \A i \in DOMAIN queue : Follows(FirstBoard, queue[i].st)
  /\ phase \in {"found", "expand"} => Follows(FirstBoard, node.st)

LEMMA FirstBoardState == ASSUME Explored, phase # "pairs" PROVE IsState(FirstBoard)
<1>1. order \in Pools /\ pair \in Candidates(order)
  BY DEF Explored
<1>2. pair[1] \in DOMAIN Cards /\ pair[2] \in DOMAIN Cards
  BY <1>1, IndexedCards DEF Candidates
<1> QED BY <1>2, BoardsAreStates DEF FirstBoard

LEMMA SeededFollows ==
  ASSUME NEW a, IsState(a.st), NEW found PROVE Follows(a.st, Seeded(a, found).st)
<1>1. CASE found = None
  BY <1>1, FollowsItself DEF Seeded
<1>2. CASE found # None
  <2> DEFINE r == RunStep(a.st, The(found))
  <2>1. Seeded(a, found) = AfterSeed(a, The(found), r)
    BY <1>2 DEF Seeded
  <2>2. Follows(a.st, r.st) /\ Follows(a.st, a.st)
    BY StepsStayTyped, FollowsItself
  <2> HIDE DEF r
  <2>3. \/ AfterSeed(a, The(found), r).st = r.st
        \/ AfterSeed(a, The(found), r).st = a.st
    BY DEF AfterSeed
  <2> QED BY <2>1, <2>2, <2>3
<1> QED BY <1>1, <1>2

LEMMA StepDescends ==
  Descends /\ Explored /\ OnBoards /\ Bounds /\ [Next]_vars => Descends'
<1> SUFFICES ASSUME Descends, Explored, OnBoards, Bounds, [Next]_vars PROVE Descends'
  OBVIOUS
<1>1. CASE StartPair
  <2> DEFINE start == FromSpec(Start!DefaultInitialState(Head(todo)[1], Head(todo)[2]))
  <2>1. /\ pair' = Head(todo) /\ phase' = "seed" /\ todo # <<>>
        /\ origin' = Unseeded(Start!DefaultInitialState(Head(todo)[1], Head(todo)[2]))
    BY <1>1 DEF StartPair
  <2>2. origin'.st = start
    BY <2>1 DEF Unseeded
  <2>3. FirstBoard' = start
    BY <2>1 DEF FirstBoard
  <2>4. order \in Pools /\ todo \in Seq(Candidates(order))
    BY DEF Explored
  <2>5. Head(todo) \in Candidates(order)
    BY <2>1, <2>4
  <2>6. Head(todo)[1] \in DOMAIN Cards /\ Head(todo)[2] \in DOMAIN Cards
    BY <2>4, <2>5, IndexedCards DEF Candidates
  <2>7. IsState(start)
    BY <2>6, BoardsAreStates
  <2> HIDE DEF start
  <2> QED BY <2>1, <2>2, <2>3, <2>7, FollowsItself DEF Descends
<1>2. CASE Seed
  <2>1. /\ phase = "seed" /\ phase' = "seed" /\ pair' = pair
        /\ \E found : origin' = Seeded(origin, found)
    BY <1>2 DEF Seed
  <2>2. FirstBoard' = FirstBoard /\ IsState(FirstBoard) /\ IsState(origin.st)
    BY <2>1, FirstBoardState DEF FirstBoard, Explored
  <2>3. Follows(origin.st, origin'.st) /\ IsState(origin'.st)
    BY <2>1, <2>2, SeededFollows, SeededState
  <2>4. Follows(FirstBoard, origin.st)
    BY <2>1 DEF Descends
  <2>5. Follows(FirstBoard, origin'.st)
    BY <2>2, <2>3, <2>4, FollowsOn
  <2> QED BY <2>1, <2>2, <2>5 DEF Descends
<1>3. CASE Begin
  <2>1. /\ queue' = <<[st |-> origin.st, lap |-> <<>>]>> /\ phase = "seed" /\ phase' = "search"
        /\ pair' = pair /\ origin' = origin
    BY <1>3 DEF Begin, explored
  <2>2. \A i \in DOMAIN queue' : queue'[i].st = origin.st
    BY <2>1
  <2>3. FirstBoard' = FirstBoard
    BY <2>1 DEF FirstBoard
  <2> QED BY <2>1, <2>2, <2>3 DEF Descends
<1>4. CASE Visit
  <2>1. \E j \in DOMAIN queue : node' = queue[j]
    BY <1>4, VisitedNode
  <2>2. \A i \in DOMAIN queue' : \E j \in DOMAIN queue : queue'[i] = queue[j]
    BY <1>4, VisitedNode
  <2>3. phase = "search" /\ pair' = pair /\ origin' = origin
    BY <1>4 DEF Visit, explored
  <2>4. FirstBoard' = FirstBoard
    BY <2>3 DEF FirstBoard
  <2> QED BY <2>1, <2>2, <2>3, <2>4 DEF Descends
<1>5. CASE Abandon \/ Accept
  <2>1. phase' = "pairs"
    BY <1>5 DEF Abandon, Accept
  <2> QED BY <2>1 DEF Descends
<1>6. CASE Drop
  <2>1. phase = "expand" /\ phase' = "search" /\ pair' = pair /\ origin' = origin /\ queue' = queue
    BY <1>6 DEF Drop, explored
  <2>2. FirstBoard' = FirstBoard
    BY <2>1 DEF FirstBoard
  <2> QED BY <2>1, <2>2 DEF Descends
<1>7. CASE Expand
  <2>1. \A i \in DOMAIN queue' :
          \/ \E j \in DOMAIN queue : queue'[i] = queue[j]
          \/ \E s : LegalStep(node.st, s) /\ queue'[i] = NodeAfter(s)
    BY <1>7, ExpandedNode
  <2>2. phase = "expand" /\ phase' = "search" /\ pair' = pair /\ origin' = origin
    BY <1>7 DEF Expand, explored
  <2>3. FirstBoard' = FirstBoard /\ IsState(FirstBoard) /\ IsState(node.st) /\ Follows(FirstBoard, node.st)
    BY <2>2, FirstBoardState DEF FirstBoard, OnBoards, Descends
  <2>4. ASSUME NEW s, LegalStep(node.st, s) PROVE Follows(FirstBoard, NodeAfter(s).st)
    <3>1. IsState(s.r.st) /\ Follows(node.st, s.r.st) /\ NodeAfter(s).st = s.r.st
      BY <2>4 DEF LegalStep, NodeAfter
    <3> QED BY <2>3, <3>1, FollowsOn
  <2>5. \A i \in DOMAIN queue' : Follows(FirstBoard, queue'[i].st)
    BY <2>1, <2>2, <2>4 DEF Descends
  <2> QED BY <2>2, <2>3, <2>5 DEF Descends
<1>8. CASE Return \/ UNCHANGED vars
  BY <1>8 DEF Return, vars, explored, Descends, FirstBoard
<1> QED
  BY <1>1, <1>2, <1>3, <1>4, <1>5, <1>6, <1>7, <1>8 DEF Next

-----------------------------------------------------------------------------
(* The laps *)

\* A step that goes well can be added to a list of steps that goes well.
LEMMA SequenceLast ==
  ASSUME NEW st, NEW steps, IsSequence(steps), NEW step, NEW after,
         RunSequence(st, steps) = Ok(after), RunStep(after, step).err = "ok"
  PROVE  RunSequence(st, Append(steps, step)) = Ok(RunStep(after, step).st)
<1> DEFINE S == {steps[i] : i \in DOMAIN steps}
<1>1. steps \in Seq(S)
  BY DEF IsSequence
<1> HIDE DEF S
<1>2. Ok(after).err = "ok" /\ Ok(after).st = after
  BY DEF Ok
<1>3. RunSequence(st, Append(steps, step))
        = EachStep!Fold(st, Ok(st), Append(steps, step))
  BY SequenceFold
<1>4. EachStep!Fold(st, Ok(st), Append(steps, step))
        = SequenceStep(st, EachStep!Fold(st, Ok(st), steps), step)
  BY <1>1, NatSets, EachStep!FoldLast
<1>5. EachStep!Fold(st, Ok(st), steps) = Ok(after)
  BY SequenceFold
<1> QED BY <1>2, <1>3, <1>4, <1>5, StepOk DEF SequenceStep

\* The seeds of a pair, one after the other.
SeedStep(c, a, kind) == Seeded(a, SeedOf(kind, a, c[1], c[2]))
Anything(c, a) == TRUE
EachSeed == INSTANCE FoldFacts WITH Op <- SeedStep, P <- Anything
LEMMA StartFold ==
  ASSUME NEW p
  PROVE  StartOf(p[1], p[2])
           = EachSeed!Fold(p, Unseeded(Start!DefaultInitialState(p[1], p[2])), SeedKinds)
  BY Zenon DEF StartOf, SeedStep, FoldLeft, MapThenFoldSet, Max, EachSeed!Fold, EachSeed!LastOf

\* A node is where its lap leads from the start of its pair.
Leads(n) == n = [st |-> n.st, lap |-> n.lap] /\ RunSequence(origin.st, n.lap) = Ok(n.st)

\* A hit that is sound: its lap can be run from where the search of its pair starts, and explore_pair
\* accepts it there: it closes, it yields something, both cards take part and the verifier agrees.
Sound(hit) ==
  LET start == StartOf(hit.pair[1], hit.pair[2])
  IN \E st : /\ IsState(st) /\ RunSequence(start.st, hit.lap) = Ok(st)
             /\ Acceptable(hit.pair, start, [st |-> st, lap |-> hit.lap])

\* The seeds that are left lead to the start of the pair; from there on the laps lead to their
\* nodes, what has been found is accepted, and what is reported is sound.
Seeding ==
  phase = "seed" =>
    /\ IsSequence(seeds) /\ EachSeed!Fold(pair, origin, seeds) = StartOf(pair[1], pair[2])
Running ==
  /\ phase \in {"search", "found", "expand"} =>
       /\ origin = StartOf(pair[1], pair[2]) /\ \A i \in DOMAIN queue : Leads(queue[i])
  /\ phase \in {"found", "expand"} => Leads(node)
  /\ phase = "found" => Acceptable(pair, origin, node)
OnTrack ==
  /\ Seeding /\ Running /\ IsSequence(seeds) /\ Len(seeds) <= Len(SeedKinds)
  /\ \A i \in DOMAIN report : Sound(report[i])

LEMMA SeedKindList == IsSequence(SeedKinds) /\ Len(SeedKinds) \in Nat /\ SeedKinds # <<>>
<1>1. SeedKinds \in Seq({"life", "bootstrap", "loss", "token", "lifelink", "paid", "tap_bounce"})
  BY DEF SeedKinds
<1>2. Len(SeedKinds) = 7
  BY DEF SeedKinds
<1> QED BY <1>1, <1>2, ListOfElements

LEMMA InitOnTrack == Init => OnTrack
  BY EmptyList, SeedKindList DEF Init, OnTrack, Seeding, Running

LEMMA StepOnTrack == OnTrack /\ Explored /\ OnBoards /\ Bounds /\ [Next]_vars => OnTrack'
<1> SUFFICES ASSUME OnTrack, Explored, OnBoards, Bounds, [Next]_vars PROVE OnTrack'
  OBVIOUS
<1>0. IsSequence(seeds) /\ Len(seeds) <= Len(SeedKinds)
  BY DEF OnTrack
<1>1. CASE StartPair
  <2>1. /\ pair' = Head(todo) /\ seeds' = SeedKinds /\ phase' = "seed" /\ report' = report
        /\ origin' = Unseeded(Start!DefaultInitialState(Head(todo)[1], Head(todo)[2]))
    BY <1>1 DEF StartPair
  <2>2. EachSeed!Fold(Head(todo), Unseeded(Start!DefaultInitialState(Head(todo)[1], Head(todo)[2])), SeedKinds)
          = StartOf(Head(todo)[1], Head(todo)[2])
    BY StartFold
  <2>3. Seeding'
    BY <2>1, <2>2, SeedKindList DEF Seeding
  <2>4. Running'
    BY <2>1 DEF Running
  <2>5. \A i \in DOMAIN report' : Sound(report'[i])
    BY <2>1 DEF OnTrack
  <2> QED BY <2>1, <2>3, <2>4, <2>5, SeedKindList DEF OnTrack
<1>2. CASE Seed
  <2> DEFINE after == Seeded(origin, SeedOf(Head(seeds), origin, pair[1], pair[2]))
  <2>1. /\ phase = "seed" /\ seeds # <<>> /\ seeds' = Tail(seeds) /\ origin' = after
        /\ UNCHANGED <<pair, queue, node, phase, report>>
    BY <1>2 DEF Seed
  <2>2. after = SeedStep(pair, origin, Head(seeds))
    BY Zenon DEF SeedStep
  <2> HIDE DEF after
  <2>3. seeds \in Seq({seeds[i] : i \in DOMAIN seeds})
    BY <1>0 DEF IsSequence
  <2>4. EachSeed!Fold(pair, origin, seeds)
          = EachSeed!Fold(pair, SeedStep(pair, origin, Head(seeds)), Tail(seeds))
    BY <2>1, <2>3, NatSets, EachSeed!FoldFirst, Zenon
  <2>5. IsSequence(Tail(seeds)) /\ Len(Tail(seeds)) <= Len(SeedKinds)
    <3>1. IsSequence(Tail(seeds)) /\ Len(seeds) \in Nat \ {0}
      BY <1>0, <2>1, Popped
    <3>2. Len(Tail(seeds)) = Len(seeds) - 1
      BY <2>1, <2>3
    <3> QED BY <1>0, <3>1, <3>2, SeedKindList
  <2>6. EachSeed!Fold(pair, origin', seeds') = StartOf(pair[1], pair[2])
    BY <2>1, <2>2, <2>4 DEF OnTrack, Seeding
  <2>7. Seeding'
    BY <2>1, <2>5, <2>6 DEF Seeding
  <2>8. Running'
    BY <2>1 DEF Running
  <2>9. \A i \in DOMAIN report' : Sound(report'[i])
    BY <2>1 DEF OnTrack
  <2> QED BY <2>1, <2>5, <2>7, <2>8, <2>9 DEF OnTrack
<1>3. CASE Begin
  <2> DEFINE root == [st |-> origin.st, lap |-> <<>>]
  <2>1. /\ queue' = <<root>> /\ phase = "seed" /\ seeds = <<>> /\ phase' = "search"
        /\ UNCHANGED <<pair, origin, seeds, report>>
    BY <1>3 DEF Begin, explored
  <2>2. EachSeed!Fold(pair, origin, <<>>) = origin
    BY NatSets, EachSeed!FoldEmpty
  <2>3. origin = StartOf(pair[1], pair[2])
    BY <2>1, <2>2 DEF OnTrack, Seeding
  <2>4. root.st = origin.st /\ root.lap = <<>> /\ root = [st |-> root.st, lap |-> root.lap]
    OBVIOUS
  <2> HIDE DEF root
  <2>5. \A i \in DOMAIN queue' : queue'[i] = root
    BY <2>1
  <2>6. Leads(root)
    BY <2>4, SequenceEmpty DEF Leads
  <2>7. Leads(root)'
    BY <2>1, <2>6 DEF Leads, root
  <2>8. Running'
    BY <2>1, <2>3, <2>5, <2>6 DEF Running, Leads
  <2>9. Seeding'
    BY <2>1 DEF Seeding
  <2>10. \A i \in DOMAIN report' : Sound(report'[i])
    BY <2>1 DEF OnTrack
  <2> QED BY <1>0, <2>1, <2>8, <2>9, <2>10 DEF OnTrack
<1>4. CASE Visit
  <2>1. /\ node' = Head(queue) /\ phase = "search" /\ phase' \in {"found", "expand"}
        /\ phase' = "found" => Acceptable(pair, origin, Head(queue))
        /\ UNCHANGED <<pair, origin, seeds, report>>
    BY <1>4 DEF Visit, explored
  <2>2. \E j \in DOMAIN queue : node' = queue[j]
    BY <1>4, VisitedNode
  <2>3. \A i \in DOMAIN queue' : \E j \in DOMAIN queue : queue'[i] = queue[j]
    BY <1>4, VisitedNode
  <2>4. origin = StartOf(pair[1], pair[2]) /\ \A i \in DOMAIN queue : Leads(queue[i])
    BY <2>1 DEF OnTrack, Running
  <2>5. \A i \in DOMAIN queue' : Leads(queue'[i])
    BY <2>3, <2>4
  <2>6. Leads(node')
    BY <2>2, <2>4
  <2>7. Running'
    BY <2>1, <2>4, <2>5, <2>6 DEF Running, Leads
  <2>8. Seeding'
    BY <2>1 DEF Seeding
  <2>9. \A i \in DOMAIN report' : Sound(report'[i])
    BY <2>1 DEF OnTrack
  <2> QED BY <1>0, <2>1, <2>7, <2>8, <2>9 DEF OnTrack
<1>5. CASE Abandon
  <2>1. phase' = "pairs" /\ seeds' = seeds /\ report' = report
    BY <1>5 DEF Abandon, explored
  <2> QED BY <1>0, <2>1 DEF OnTrack, Seeding, Running
<1>6. CASE Accept
  <2> DEFINE hit == [pair |-> pair, lap |-> node.lap]
  <2>1. /\ report' = Append(report, hit) /\ phase = "found" /\ phase' = "pairs" /\ seeds' = seeds
    BY <1>6 DEF Accept, explored
  <2>2. hit.pair = pair /\ hit.lap = node.lap
    OBVIOUS
  <2> HIDE DEF hit
  <2>3. /\ origin = StartOf(pair[1], pair[2]) /\ Leads(node) /\ Acceptable(pair, origin, node)
        /\ IsState(node.st)
    BY <2>1 DEF OnTrack, Running, OnBoards
  <2>4. Acceptable(pair, origin, [st |-> node.st, lap |-> node.lap])
    BY <2>3, Zenon DEF Leads
  <2>5. Sound(hit)
    BY <2>2, <2>3, <2>4 DEF Sound, Leads
  <2>6. /\ Len(report) \in Nat /\ DOMAIN Append(report, hit) = 1..(Len(report) + 1)
        /\ DOMAIN report = 1..Len(report)
        /\ \A i \in 1..Len(report) : Append(report, hit)[i] = report[i]
        /\ Append(report, hit)[Len(report) + 1] = hit
    BY Appended, ListIndices DEF Bounds, Reported
  <2>7. \A i \in DOMAIN report' : Sound(report'[i])
    <3> SUFFICES ASSUME NEW i \in DOMAIN report' PROVE Sound(report'[i])
      OBVIOUS
    <3>1. i \in 1..Len(report) \/ i = Len(report) + 1
      BY <2>1, <2>6
    <3> QED BY <2>1, <2>5, <2>6, <3>1 DEF OnTrack
  <2> QED BY <1>0, <2>1, <2>7 DEF OnTrack, Seeding, Running
<1>7. CASE Drop
  <2>1. /\ phase = "expand" /\ phase' = "search"
        /\ UNCHANGED <<pair, origin, seeds, queue, report>>
    BY <1>7 DEF Drop, explored
  <2> QED BY <1>0, <2>1 DEF OnTrack, Seeding, Running, Leads
<1>8. CASE Expand
  <2>1. /\ phase = "expand" /\ phase' = "search" /\ UNCHANGED <<pair, origin, seeds, report>>
    BY <1>8 DEF Expand, explored
  <2>2. \A i \in DOMAIN queue' :
          \/ \E j \in DOMAIN queue : queue'[i] = queue[j]
          \/ \E s : LegalStep(node.st, s) /\ queue'[i] = NodeAfter(s)
    BY <1>8, ExpandedNode
  <2>3. /\ origin = StartOf(pair[1], pair[2]) /\ Leads(node) /\ \A i \in DOMAIN queue : Leads(queue[i])
    BY <2>1 DEF OnTrack, Running
  <2>4. ASSUME NEW s, LegalStep(node.st, s) PROVE Leads(NodeAfter(s))
    <3>1. s.r = RunStep(node.st, s.step) /\ s.r.err = "ok"
      BY <2>4 DEF LegalStep
    <3>2. RunSequence(origin.st, Append(node.lap, s.step)) = Ok(s.r.st)
      BY <2>3, <3>1, SequenceLast DEF Bounds, InOrder, Leads
    <3> QED BY <3>2 DEF Leads, NodeAfter
  <2>5. \A i \in DOMAIN queue' : Leads(queue'[i])
    BY <2>2, <2>3, <2>4
  <2>6. Running'
    BY <2>1, <2>3, <2>5 DEF Running, Leads
  <2>7. Seeding'
    BY <2>1 DEF Seeding
  <2>8. \A i \in DOMAIN report' : Sound(report'[i])
    BY <2>1 DEF OnTrack
  <2> QED BY <1>0, <2>1, <2>6, <2>7, <2>8 DEF OnTrack
<1>9. CASE Return \/ UNCHANGED vars
  BY <1>9 DEF Return, vars, explored, OnTrack, Seeding, Running, Leads
<1> QED
  BY <1>1, <1>2, <1>3, <1>4, <1>5, <1>6, <1>7, <1>8, <1>9 DEF Next

-----------------------------------------------------------------------------
(* The theorems *)
Searching == Explored /\ OnBoards /\ Bounds /\ OnTrack /\ Descends

LEMMA SearchingHolds == Spec => []Searching
<1>1. Init => Descends
  BY DEF Init, Descends
<1>2. Init => Searching
  BY <1>1, InitExplored, InitBounds, InitOnTrack DEF Searching
<1>3. Searching /\ [Next]_vars => Searching'
  BY StepExplored, StepBounds, StepOnTrack, StepDescends DEF Searching
<1> QED
  BY <1>2, <1>3, PTL DEF Spec

\* What is explored, at any time and for every pool: two different supported cards of the pool that
\* have a reason to be joined, from a state of the executor, through states of the executor; the
\* seeds that are left are no more than the kinds of explore_pair.
WellExplored ==
  /\ order \in Pools /\ phase \in Phases /\ visited \in Nat /\ Len(seeds) <= Len(SeedKinds)
  /\ phase # "pairs" => pair \in Candidates(order) /\ Len(pair) = 2 /\ IsState(origin.st)
  /\ \A i \in DOMAIN queue : IsState(queue[i].st)
  /\ phase \in {"found", "expand"} => IsState(node.st)
THEOREM SearchStaysTyped == Spec => []WellExplored
<1>1. Searching => WellExplored
  <2> SUFFICES ASSUME Searching PROVE WellExplored
    OBVIOUS
  <2>1. \A p \in Candidates(order) : Len(p) = 2
    BY DEF Candidates
  <2> QED
    BY <2>1 DEF Searching, Explored, OnBoards, Bounds, Visits, OnTrack, WellExplored
<1> QED
  BY <1>1, SearchingHolds, PTL

\* As long as next_token_id has ids to hand out, the dictionary of every state that is looked at
\* lists every object once, whatever the lap that led there made, moved and removed, and its pools
\* hold what a ManaAmount may hold.
Supplied == phase \in {"found", "expand"} => node.st.token_seq <= Len(TokenIds)
THEOREM NodesStayNamed == Spec /\ []Supplied => []TypeOK
<1>1. Searching /\ WellExplored /\ Supplied => TypeOK
  <2> SUFFICES ASSUME Searching, WellExplored, Supplied PROVE TypeOK
    OBVIOUS
  <2>1. /\ order \in Pools /\ phase \in {"pairs", "seed", "search", "found", "expand"}
        /\ visited \in Nat /\ Len(seeds) <= Len(SeedKinds)
        /\ phase # "pairs" => Len(pair) = 2
    BY DEF WellExplored, Phases
  <2>2. ASSUME phase \in {"found", "expand"}
        PROVE  /\ Ids(node.st) = ToSet(node.st.order) /\ IsInjective(node.st.order)
               /\ {node.st.mana, node.st.mana_activate_only} \subseteq ManaAmount
    <3>1. pair \in Candidates(order) /\ order \in Pools /\ Follows(FirstBoard, node.st) /\ IsState(node.st)
      BY <2>2 DEF Searching, Descends, WellExplored
    <3>2. pair[1] \in ToSet(order) /\ pair[2] \in ToSet(order)
      BY <3>1, IndexedCards DEF Candidates, Indexed
    <3>3. Named(FirstBoard)
      BY <3>1, <3>2, NamesAssumption DEF FirstBoard
    <3>4. Named(node.st)
      BY <2>2, <3>1, <3>3 DEF Follows, Supplied
    <3> QED BY <3>1, <3>4 DEF Named, IsState
  <2> QED BY <2>1, <2>2 DEF TypeOK
<1> QED
  BY <1>1, SearchingHolds, SearchStaysTyped, PTL

\* For every pool, depth and number of states the search stays within its limits: explore_pair
\* visits no more than max_states nodes, and no lap it keeps or reports is longer than max_depth
\* or, when it is reported, empty.
THEOREM SearchStaysBounded == Spec => []SearchBounded
<1>1. Searching => SearchBounded
  BY DEF Searching, Bounds, InOrder, Visits, Reported, SearchBounded
<1> QED
  BY <1>1, SearchingHolds, PTL

\* For every pool the search of a pair is breadth-first: the laps wait in order of their length,
\* and with at most two lengths, so that no shorter lap is left when one is reported.
THEOREM SearchIsBreadthFirst == Spec => []BreadthFirst
<1>1. Bounds => BreadthFirst
  <2> SUFFICES ASSUME Bounds, NEW i \in DOMAIN queue, NEW j \in DOMAIN queue
               PROVE  /\ i <= j => Len(queue[i].lap) <= Len(queue[j].lap)
                      /\ Len(queue[j].lap) <= Len(queue[i].lap) + 1
                      /\ Len(node.lap) <= Len(queue[i].lap)
    BY DEF BreadthFirst
  <2>1. Len(node.lap) \in Nat
    BY Appended DEF Bounds, InOrder
  <2>2. /\ i <= j => Len(queue[i].lap) <= Len(queue[j].lap)
        /\ Len(queue[i].lap) \in {Len(node.lap), Len(node.lap) + 1}
        /\ Len(queue[j].lap) \in {Len(node.lap), Len(node.lap) + 1}
    BY DEF Bounds, InOrder
  <2> QED
    BY <2>1, <2>2
<1>2. Searching => BreadthFirst
  BY <1>1 DEF Searching
<1> QED
  BY <1>2, SearchingHolds, PTL

\* No false hit, whatever the pool and the limits: each pair that discover_loops reports is a
\* candidate of the pool, and its lap, run from the start state of that pair alone, goes well, closes,
\* and is accepted by the verifier with both cards taking part.  Nothing of the pairs searched before
\* it, of the queue or of the fingerprints is left in it.
SoundReport == \A i \in DOMAIN report : report[i].pair \in Candidates(order) /\ Sound(report[i])
THEOREM HitsAreSound == Spec => []SoundReport
<1>1. Searching => SoundReport
  BY DEF Searching, Explored, OnTrack, SoundReport
<1> QED
  BY <1>1, SearchingHolds, PTL

-----------------------------------------------------------------------------
(* The setup *)

\* Every seed but the paid one is checked before it changes anything.
LEMMA FailsClean ==
  ASSUME NEW st, NEW step, step.op \in SourceSeeds \cup GrantSeeds, RunStep(st, step).err # "ok"
  PROVE  RunStep(st, step).st = st
<1>0. \A status : Err(st, status).st = st
  BY DEF Err
<1>1. RunStep(st, step) = RunStepBody(st, step)
  BY DEF RunStep, AfterStep, Ok
<1>2. \A after : Ok(after).err = "ok"
  BY DEF Ok
<1>3. CASE step.op \in SourceSeeds
  <2>1. RunStepBody(st, step) = SeedFromSource(st, step)
    BY <1>3 DEF RunStepBody, SourceSeeds, GrantSeeds
  <2>2. CASE step.op = "seed_create_token"
    <3>1. Food.from = "amount" /\ Food.copy_target = FALSE
      BY DEF Food, CreateTokenEffect
    <3>2. \A result : Illegal(st, TRUE, result) = result
      BY DEF Illegal
    <3>3. ASSUME NEW template, NEW n PROVE MakeTokens(st, Food, template, n).err = "ok"
      <4> DEFINE copyable == /\ Exists(st, template) /\ Controlled(st.permanents[template])
                             /\ st.permanents[template].is_creature
                 made == MakeMany(st, TokenFrom(st, Food, template), n)
      <4>1. MakeTokens(st, Food, template, n)
              = IF n <= 0 THEN Ok(st) ELSE Illegal(st, Food.copy_target => copyable, Ok(made))
        BY Zenon DEF MakeTokens
      <4> HIDE DEF made, copyable
      <4>2. (Food.copy_target => copyable) = TRUE
        BY <3>1
      <4> QED BY <1>2, <3>2, <4>1, <4>2
    <3>4. \A c : CreateToken(st, Food, c).err = "ok"
      BY <3>1, <3>3 DEF CreateToken
    <3> QED BY <1>0, <1>1, <2>1, <2>2, <3>4 DEF SeedFromSource
  <2>3. CASE step.op # "seed_create_token"
    BY <1>0, <1>1, <1>2, <1>3, <2>1, <2>3 DEF SeedFromSource, SourceSeeds
  <2> QED BY <2>2, <2>3
<1>4. CASE step.op \in GrantSeeds
  <2>1. RunStepBody(st, step) = SeedGrant(st, step)
    BY <1>4 DEF RunStepBody, SourceSeeds, GrantSeeds
  <2> QED BY <1>0, <1>1, <1>2, <2>1 DEF SeedGrant, Illegal
<1> QED BY <1>3, <1>4

\* The seeds but the paid one are seeds of the executor.
LEMMA SeedOps ==
  ASSUME NEW kind, kind # "paid", NEW a, NEW l, NEW r, NEW seed \in SeedOf(kind, a, l, r)
  PROVE  seed.op \in SourceSeeds \cup GrantSeeds
<1>1. \A op, holders : \A x \in FromFirst(op, holders) : x.op = op
  BY DEF FromFirst, Some, None, Step
<1>2. \A op, ability, grantors, pingers : \A x \in OnLastPinger(op, ability, grantors, pingers) : x.op = op
  BY DEF OnLastPinger, Some, None, Step
<1>3. \A op, id : \A x \in Some(Step(op, NoId, NoAbility, id, NoId)) : x.op = op
  BY DEF Some, Step
<1>4. seed.op \in {"seed_gain_life", "seed_lose_life", "seed_create_token", "seed_grant_lifelink",
                  "seed_grant_tap_bounce"}
  BY <1>1, <1>2, <1>3 DEF SeedOf, None
<1> QED BY <1>4 DEF SourceSeeds, GrantSeeds

Origin(spec, st, setup) == [spec |-> spec, st |-> st, setup |-> setup]
Changed(a, st, setup) == [a EXCEPT !.st = st, !.setup = setup]
LEMMA TwoFields ==
  ASSUME NEW spec, NEW st, NEW setup, NEW after, NEW longer
  PROVE  Changed(Origin(spec, st, setup), after, longer) = Origin(spec, after, longer)
<1> DEFINE changed == [Origin(spec, st, setup) EXCEPT !.st = after]
<1>1. changed = Origin(spec, after, setup)
  BY DEF Origin
<1>2. [Origin(spec, after, setup) EXCEPT !.setup = longer] = Origin(spec, after, longer)
  BY DEF Origin
<1>3. [changed EXCEPT !.setup = longer] = [Origin(spec, after, setup) EXCEPT !.setup = longer]
  BY Zenon, <1>1
<1> QED BY Zenon, <1>2, <1>3 DEF Changed

\* What happens to the origin when a seed is run.
LEMMA SeededRecord ==
  ASSUME NEW a, a = Origin(a.spec, a.st, a.setup), NEW seed
  PROVE  AfterSeed(a, seed, RunStep(a.st, seed))
           = Origin(a.spec, RunStep(a.st, seed).st,
                    IF RunStep(a.st, seed).err = "ok" THEN Append(a.setup, seed) ELSE a.setup)
<1> DEFINE longer == IF RunStep(a.st, seed).err = "ok" THEN Append(a.setup, seed) ELSE a.setup
<1>1. AfterSeed(a, seed, RunStep(a.st, seed))
        = Changed(Origin(a.spec, a.st, a.setup), RunStep(a.st, seed).st, longer)
  BY Zenon DEF AfterSeed, Changed
<1> HIDE DEF longer
<1>2. Changed(Origin(a.spec, a.st, a.setup), RunStep(a.st, seed).st, longer)
        = Origin(a.spec, RunStep(a.st, seed).st, longer)
  BY TwoFields
<1> QED BY <1>1, <1>2 DEF longer

\* The one seed that pays, the activation that grants lifelink, leaves nothing behind when it
\* fails.  The mana for it is on the board; costs that are not mana are not.
PaidIsClean ==
  phase = "seed" /\ seeds # <<>> /\ Head(seeds) = "paid" =>
    \A seed \in SeedOf("paid", origin, pair[1], pair[2]) :
      RunStep(origin.st, seed).err # "ok" => RunStep(origin.st, seed).st = origin.st

Replays(a) ==
  /\ a = Origin(a.spec, a.st, a.setup)
  /\ IsSequence(a.setup) /\ RunSequence(FromSpec(a.spec), a.setup) = Ok(a.st)
OriginReplays == phase # "pairs" => Replays(origin)

LEMMA SeededReplays ==
  ASSUME NEW a, Replays(a), NEW found,
         \A seed \in found : RunStep(a.st, seed).err # "ok" => RunStep(a.st, seed).st = a.st
  PROVE  Replays(Seeded(a, found))
<1>1. CASE found = None
  BY <1>1 DEF Seeded
<1>2. CASE found # None
  <2> DEFINE seed == The(found)
             r == RunStep(a.st, seed)
             b == AfterSeed(a, seed, r)
  <2>1. seed \in found /\ Seeded(a, found) = b
    BY <1>2 DEF Seeded, The, None
  <2>2. b = Origin(a.spec, r.st, IF r.err = "ok" THEN Append(a.setup, seed) ELSE a.setup)
    BY SeededRecord DEF Replays
  <2> HIDE DEF seed, b
  <2>3. CASE r.err = "ok"
    <3>1. IsSequence(Append(a.setup, seed))
      BY Appended DEF Replays
    <3>2. RunSequence(FromSpec(a.spec), Append(a.setup, seed)) = Ok(r.st)
      BY <2>3, SequenceLast DEF Replays
    <3>3. b = Origin(a.spec, r.st, Append(a.setup, seed))
      BY <2>2, <2>3
    <3> HIDE DEF r
    <3> QED BY <2>1, <3>1, <3>2, <3>3 DEF Replays, Origin
  <2>4. CASE r.err # "ok"
    <3>1. r.st = a.st
      BY <2>1, <2>4
    <3>2. b = a
      BY <2>2, <2>4, <3>1 DEF Replays
    <3> QED BY <2>1, <3>2
  <2> QED BY <2>3, <2>4
<1> QED BY <1>1, <1>2

LEMMA SeedReplays == OriginReplays /\ PaidIsClean /\ Seed => OriginReplays'
<1> SUFFICES ASSUME OriginReplays, PaidIsClean, Seed PROVE OriginReplays'
  OBVIOUS
<1> DEFINE found == SeedOf(Head(seeds), origin, pair[1], pair[2])
<1>1. Replays(origin) /\ origin' = Seeded(origin, found)
  BY DEF Seed, OriginReplays
<1>2. \A seed \in found : RunStep(origin.st, seed).err # "ok" => RunStep(origin.st, seed).st = origin.st
  <2>1. CASE Head(seeds) = "paid"
    BY <2>1 DEF Seed, PaidIsClean
  <2>2. CASE Head(seeds) # "paid"
    <3>1. \A seed \in found : seed.op \in SourceSeeds \cup GrantSeeds
      BY <2>2, SeedOps
    <3> QED BY <3>1, FailsClean
  <2> QED BY <2>1, <2>2
<1> HIDE DEF found
<1>3. Replays(origin')
  BY <1>1, <1>2, SeededReplays
<1> QED BY <1>3 DEF OriginReplays, Replays

LEMMA StepReplays == OriginReplays /\ PaidIsClean /\ [Next]_vars => OriginReplays'
<1> SUFFICES ASSUME OriginReplays, PaidIsClean, [Next]_vars PROVE OriginReplays'
  OBVIOUS
<1>1. CASE StartPair
  <2> DEFINE spec == Start!DefaultInitialState(Head(todo)[1], Head(todo)[2])
  <2>1. origin' = Origin(spec, FromSpec(spec), <<>>)
    BY <1>1 DEF StartPair, Unseeded, Origin
  <2> HIDE DEF spec
  <2>2. IsSequence(<<>>)
    BY EmptyList
  <2>3. Replays(Origin(spec, FromSpec(spec), <<>>))
    BY <2>2, SequenceEmpty DEF Replays, Origin
  <2>4. Replays(origin')
    BY <2>1, <2>3
  <2> QED BY <2>4 DEF OriginReplays, Replays
<1>2. CASE Seed
  BY <1>2, SeedReplays
<1>3. CASE Begin \/ Visit \/ Accept \/ Abandon \/ Drop \/ Expand \/ Return \/ UNCHANGED vars
  <2>1. /\ origin' = origin
        /\ phase' # "pairs" => phase # "pairs"
    BY <1>3 DEF Begin, Visit, Accept, Abandon, Drop, Expand, Return, vars, explored
  <2> QED BY <2>1 DEF OriginReplays, Replays
<1> QED
  BY <1>1, <1>2, <1>3 DEF Next

\* Wherever the paid seed is clean when it fails, the recorded setup of every pair leads from the
\* initial state of its witness to the state explore_pair has searched from: seeds that fail are
\* left out of the setup and have changed nothing, and the others are in it in their order.
THEOREM SetupsReplay == Spec /\ []PaidIsClean => []SetupReplays
<1>1. Init => OriginReplays
  BY DEF Init, OriginReplays
<1>2. OriginReplays /\ PaidIsClean /\ [Next]_vars => OriginReplays'
  BY StepReplays
<1>3. OriginReplays => SetupReplays
  BY DEF OriginReplays, Replays, SetupReplays
<1> QED
  BY <1>1, <1>2, <1>3, PTL DEF Spec

=============================================================================
