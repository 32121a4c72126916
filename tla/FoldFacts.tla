------------------------------ MODULE FoldFacts ------------------------------
(***************************************************************************)
(* What a fold computes, over a list or over a finite set, for an operator *)
(* with a context: the rules of an induction over the list or the set, and *)
(* what a longer list folds to.  A module that folds a step of its own     *)
(* instantiates this one with that step, so this one takes nothing from    *)
(* the library: the folds are FoldLeft and MapThenFoldSet written out, and *)
(* the induction on the natural numbers is an hypothesis of each lemma,    *)
(* which ExecutorProofs proves (NatSets).                                  *)
(***************************************************************************)
EXTENDS Naturals, Sequences

CONSTANTS
  Op(_, _, _),  \* the step: context, accumulator, element
  P(_, _)       \* what the fold is to establish: context, accumulator

LastOf(s) == CHOOSE x \in s : \A y \in s : x >= y
NatInduction == \A N : 0 \in N /\ (\A n \in Nat : n \in N => n + 1 \in N) => Nat \subseteq N
Fold(c, base, seq) ==
  LET iter[s \in SUBSET DOMAIN seq] ==
        IF s = {} THEN base
        ELSE LET x == LastOf(s) IN Op(c, iter[s \ {x}], seq[x])
  IN  iter[DOMAIN seq]

\* a lists what the accumulator is before the first element and after each one.
Folds(c, base, seq, a) ==
  /\ a[0] = base
  /\ \A k \in 0..(Len(seq) - 1) : a[k + 1] = Op(c, a[k], seq[k + 1])

-----------------------------------------------------------------------------
(* The fold is defined by a recursive function over the subsets of the     *)
(* indices, which takes the greatest index last.                           *)

\* g is that function over the subsets of 1..n.
IsIter(g, c, base, seq, n) ==
  g = [s \in SUBSET (1..n) |->
         IF s = {} THEN base ELSE Op(c, g[s \ {LastOf(s)}], seq[LastOf(s)])]

LEMMA LastUpTo ==
  ASSUME NEW n \in Nat, NEW s \in SUBSET (1..(n + 1)), n + 1 \in s
  PROVE  LastOf(s) = n + 1
<1>1. \A y \in s : n + 1 >= y
  OBVIOUS
<1>2. \A x \in s : (\A y \in s : x >= y) => x = n + 1
  OBVIOUS
<1> QED BY <1>1, <1>2 DEF LastOf

LEMMA LastOfNonEmpty ==
  ASSUME NEW n \in Nat, \A s \in SUBSET (1..n) : s # {} => LastOf(s) \in s
  PROVE  \A s \in SUBSET (1..(n + 1)) : s # {} => LastOf(s) \in s
<1> SUFFICES ASSUME NEW s \in SUBSET (1..(n + 1)), s # {} PROVE LastOf(s) \in s
  OBVIOUS
<1>1. CASE n + 1 \in s
  BY <1>1, LastUpTo
<1>2. CASE n + 1 \notin s
  <2>1. \A x \in s : x \in 1..n
    BY <1>2
  <2> QED BY <2>1
<1> QED BY <1>1, <1>2

LEMMA LastIn ==
  ASSUME NatInduction, NEW n \in Nat, NEW s \in SUBSET (1..n), s # {} PROVE LastOf(s) \in s
<1> DEFINE S == {k \in Nat : \A t \in SUBSET (1..k) : t # {} => LastOf(t) \in t}
<1>1. 0 \in S
  <2>1. 1..0 = {}
    OBVIOUS
  <2> QED BY <2>1
<1>2. \A k \in Nat : k \in S => k + 1 \in S
  BY LastOfNonEmpty
<1> HIDE DEF S
<1>3. Nat \subseteq S
  BY <1>1, <1>2 DEF NatInduction
<1> QED BY <1>3 DEF S

\* The function exists for every n: the one for n + 1 extends the one for n.
LEMMA IterStep ==
  ASSUME NatInduction, NEW c, NEW base, NEW seq, NEW n \in Nat, NEW f, IsIter(f, c, base, seq, n)
  PROVE  \E g : IsIter(g, c, base, seq, n + 1)
<1> DEFINE g == [s \in SUBSET (1..(n + 1)) |->
                   IF n + 1 \in s THEN Op(c, f[s \ {n + 1}], seq[n + 1]) ELSE f[s]]
<1>0. \A s \in SUBSET (1..(n + 1)) : n + 1 \notin s => s \in SUBSET (1..n)
  OBVIOUS
<1>1. \A s \in SUBSET (1..(n + 1)) : s \ {n + 1} \in SUBSET (1..n)
  OBVIOUS
<1>2. ASSUME NEW s \in SUBSET (1..(n + 1)), s # {}
      PROVE  g[s] = Op(c, g[s \ {LastOf(s)}], seq[LastOf(s)])
  <2>1. CASE n + 1 \in s
    <3>1. LastOf(s) = n + 1
      BY <2>1, LastUpTo
    <3>2. g[s \ {n + 1}] = f[s \ {n + 1}]
      OBVIOUS
    <3> QED BY <2>1, <3>1, <3>2
  <2>2. CASE n + 1 \notin s
    <3>1. s \in SUBSET (1..n) /\ LastOf(s) \in s
      BY <2>2, <1>2, <1>0, LastIn
    <3>2. f[s] = Op(c, f[s \ {LastOf(s)}], seq[LastOf(s)])
      BY <3>1, <1>2 DEF IsIter
    <3>3. s \ {LastOf(s)} \in SUBSET (1..(n + 1)) /\ n + 1 \notin s \ {LastOf(s)}
      BY <2>2
    <3>4. g[s \ {LastOf(s)}] = f[s \ {LastOf(s)}]
      BY <3>3
    <3> QED BY <2>2, <3>2, <3>4
  <2> QED BY <2>1, <2>2
<1>3. g[{}] = base
  <2>1. f[{}] = base
    BY DEF IsIter
  <2> QED BY <2>1
<1>4. g = [s \in SUBSET (1..(n + 1)) |-> g[s]]
  OBVIOUS
<1> HIDE DEF g
<1>5. \A s \in SUBSET (1..(n + 1)) :
        g[s] = IF s = {} THEN base ELSE Op(c, g[s \ {LastOf(s)}], seq[LastOf(s)])
  BY <1>2, <1>3
<1>6. IsIter(g, c, base, seq, n + 1)
  BY <1>4, <1>5 DEF IsIter
<1> QED BY <1>6

LEMMA IterExists ==
  ASSUME NatInduction, NEW c, NEW base, NEW seq, NEW n \in Nat
  PROVE  \E g : IsIter(g, c, base, seq, n)
<1> DEFINE S == {k \in Nat : \E g : IsIter(g, c, base, seq, k)}
<1>1. 0 \in S
  <2> DEFINE g == [s \in SUBSET (1..0) |-> base]
  <2>1. 1..0 = {}
    OBVIOUS
  <2>2. IsIter(g, c, base, seq, 0)
    BY <2>1 DEF IsIter
  <2> QED BY <2>2
<1>2. \A k \in Nat : k \in S => k + 1 \in S
  BY IterStep
<1> HIDE DEF S
<1>3. Nat \subseteq S
  BY <1>1, <1>2 DEF NatInduction
<1> QED BY <1>3 DEF S

\* The fold is the value of that function at all indices.
LEMMA FoldIsIter ==
  ASSUME NatInduction, NEW c, NEW base, NEW seq, DOMAIN seq = 1..Len(seq), Len(seq) \in Nat
  PROVE  \E g : IsIter(g, c, base, seq, Len(seq)) /\ Fold(c, base, seq) = g[1..Len(seq)]
<1> DEFINE it == CHOOSE g : IsIter(g, c, base, seq, Len(seq))
<1>1. IsIter(it, c, base, seq, Len(seq))
  BY IterExists
<1>2. Fold(c, base, seq) = it[1..Len(seq)]
  BY DEF Fold, IsIter
<1> QED BY <1>1, <1>2

-----------------------------------------------------------------------------
(* A fold is its last accumulator *)
LEMMA FoldSteps ==
  ASSUME NatInduction, NEW c, NEW base, NEW seq, DOMAIN seq = 1..Len(seq), Len(seq) \in Nat
  PROVE  \E a : Folds(c, base, seq, a) /\ Fold(c, base, seq) = a[Len(seq)]
<1>1. PICK g : IsIter(g, c, base, seq, Len(seq)) /\ Fold(c, base, seq) = g[1..Len(seq)]
  BY FoldIsIter
<1> DEFINE a == [k \in 0..Len(seq) |-> g[1..k]]
<1>2. a[0] = base
  <2>1. 1..0 = {} /\ {} \in SUBSET (1..Len(seq))
    OBVIOUS
  <2> QED BY <1>1, <2>1 DEF IsIter
<1>3. ASSUME NEW k \in 0..(Len(seq) - 1) PROVE a[k + 1] = Op(c, a[k], seq[k + 1])
  <2>0. k \in Nat /\ k + 1 <= Len(seq) /\ k + 1 \in 1..(k + 1)
    OBVIOUS
  <2>1. 1..(k + 1) \in SUBSET (1..Len(seq)) /\ 1..(k + 1) # {}
    <3>1. \A i \in 1..(k + 1) : i \in 1..Len(seq)
      BY <2>0
    <3> QED BY <2>0, <3>1
  <2>2. LastOf(1..(k + 1)) = k + 1
    BY <2>0, LastUpTo
  <2>3. 1..(k + 1) \ {k + 1} = 1..k
    BY <2>0
  <2>4. g[1..(k + 1)] = Op(c, g[1..k], seq[k + 1])
    BY <1>1, <2>1, <2>2, <2>3 DEF IsIter
  <2> QED BY <2>4
<1>4. a[Len(seq)] = Fold(c, base, seq)
  BY <1>1
<1> HIDE DEF a
<1> QED BY <1>2, <1>3, <1>4 DEF Folds

\* Two lists that start alike and go on alike are alike.
LEMMA Agree ==
  ASSUME NatInduction, NEW n \in Nat, NEW a, NEW b, a[0] = b[0],
         \A k \in Nat : k < n /\ a[k] = b[k] => a[k + 1] = b[k + 1]
  PROVE  a[n] = b[n]
<1> DEFINE S == {k \in Nat : k <= n => a[k] = b[k]}
<1>1. 0 \in S
  OBVIOUS
<1>2. ASSUME NEW k \in Nat, k \in S PROVE k + 1 \in S
  <2> SUFFICES ASSUME k + 1 <= n PROVE a[k + 1] = b[k + 1]
    OBVIOUS
  <2>1. k < n /\ a[k] = b[k]
    BY <1>2
  <2> QED BY <2>1
<1> HIDE DEF S
<1>3. Nat \subseteq S
  BY <1>1, <1>2 DEF NatInduction
<1> QED BY <1>3 DEF S

\* What is true of the base and kept by every element is true of the fold.
LEMMA FoldInvariant ==
  ASSUME \A N : 0 \in N /\ (\A n \in Nat : n \in N => n + 1 \in N) => Nat \subseteq N,
         NEW c, NEW base, NEW seq, DOMAIN seq = 1..Len(seq), Len(seq) \in Nat, P(c, base),
         \A acc : \A i \in DOMAIN seq : P(c, acc) => P(c, Op(c, acc, seq[i]))
  PROVE  P(c, Fold(c, base, seq))
<1>0. NatInduction
  BY DEF NatInduction
<1>1. PICK a : Folds(c, base, seq, a) /\ Fold(c, base, seq) = a[Len(seq)]
  BY <1>0, FoldSteps
<1> DEFINE S == {k \in Nat : k <= Len(seq) => P(c, a[k])}
<1>2. 0 \in S
  BY <1>1 DEF Folds
<1>3. ASSUME NEW k \in Nat, k \in S PROVE k + 1 \in S
  <2> SUFFICES ASSUME k + 1 <= Len(seq) PROVE P(c, a[k + 1])
    OBVIOUS
  <2>1. k \in 0..(Len(seq) - 1) /\ k + 1 \in DOMAIN seq /\ P(c, a[k])
    BY <1>3
  <2>2. a[k + 1] = Op(c, a[k], seq[k + 1])
    BY <1>1, <2>1 DEF Folds
  <2> QED BY <2>1, <2>2
<1> HIDE DEF S
<1>4. Nat \subseteq S
  BY <1>2, <1>3 DEF NatInduction
<1> QED BY <1>1, <1>4 DEF S

LEMMA FoldEmpty ==
  ASSUME \A N : 0 \in N /\ (\A n \in Nat : n \in N => n + 1 \in N) => Nat \subseteq N,
         NEW c, NEW base
  PROVE  Fold(c, base, <<>>) = base
<1>0. NatInduction
  BY DEF NatInduction
<1>1. DOMAIN <<>> = 1..Len(<<>>) /\ Len(<<>>) = 0
  OBVIOUS
<1>2. PICK a : Folds(c, base, <<>>, a) /\ Fold(c, base, <<>>) = a[Len(<<>>)]
  BY <1>0, <1>1, FoldSteps
<1> QED BY <1>1, <1>2 DEF Folds

\* The first element of a list is folded first.
LEMMA FoldFirst ==
  ASSUME \A N : 0 \in N /\ (\A n \in Nat : n \in N => n + 1 \in N) => Nat \subseteq N,
         NEW c, NEW base, NEW S, NEW seq \in Seq(S), seq # <<>>
  PROVE  Fold(c, base, seq) = Fold(c, Op(c, base, Head(seq)), Tail(seq))
<1>0. NatInduction
  BY DEF NatInduction
<1> DEFINE n == Len(seq)
           rest == Tail(seq)
<1>1. /\ n \in Nat /\ n >= 1 /\ DOMAIN seq = 1..n /\ Head(seq) = seq[1]
      /\ Len(rest) = n - 1 /\ DOMAIN rest = 1..(n - 1) /\ n - 1 \in Nat
      /\ \A k \in 1..(n - 1) : rest[k] = seq[k + 1]
  OBVIOUS
<1> HIDE DEF n, rest
<1>2. PICK a : Folds(c, base, seq, a) /\ Fold(c, base, seq) = a[n]
  BY <1>0, <1>1, FoldSteps DEF n
<1>3. PICK b : /\ Folds(c, Op(c, base, Head(seq)), rest, b)
               /\ Fold(c, Op(c, base, Head(seq)), rest) = b[n - 1]
  BY <1>0, <1>1, FoldSteps
<1> DEFINE d == [k \in 0..(n - 1) |-> a[k + 1]]
<1>4. d[0] = Op(c, base, Head(seq))
  BY <1>1, <1>2 DEF Folds, n
<1>5. ASSUME NEW k \in Nat, k < n - 1, d[k] = b[k] PROVE d[k + 1] = b[k + 1]
  <2>1. k + 1 \in 0..(n - 1) /\ k + 1 \in 1..(n - 1) /\ k \in 0..(n - 1) /\ k \in 0..((n - 1) - 1)
    BY <1>1, <1>5
  <2>2. a[(k + 1) + 1] = Op(c, a[k + 1], seq[(k + 1) + 1])
    BY <1>2, <2>1 DEF Folds, n
  <2>3. b[k + 1] = Op(c, b[k], rest[k + 1])
    BY <1>1, <1>3, <2>1 DEF Folds
  <2>4. d[k + 1] = a[(k + 1) + 1] /\ d[k] = a[k + 1] /\ rest[k + 1] = seq[(k + 1) + 1]
    BY <1>1, <2>1
  <2> QED BY <1>5, <2>2, <2>3, <2>4
<1>6. b[0] = Op(c, base, Head(seq))
  BY <1>3 DEF Folds
<1>7. d[n - 1] = a[n]
  BY <1>1
<1> HIDE DEF d
<1>8. d[n - 1] = b[n - 1]
  BY <1>1, <1>4, <1>5, <1>6, <1>0, Agree
<1> QED BY <1>2, <1>3, <1>7, <1>8 DEF rest

\* The last element of a list is folded last.
LEMMA FoldLast ==
  ASSUME \A N : 0 \in N /\ (\A n \in Nat : n \in N => n + 1 \in N) => Nat \subseteq N,
         NEW c, NEW base, NEW S, NEW seq \in Seq(S), NEW e
  PROVE  Fold(c, base, Append(seq, e)) = Op(c, Fold(c, base, seq), e)
<1>9. NatInduction
  BY DEF NatInduction
<1> DEFINE n == Len(seq)
           all == Append(seq, e)
<1>0. all \in Seq(S \cup {e})
  OBVIOUS
<1>1. /\ n \in Nat /\ DOMAIN seq = 1..n /\ all[n + 1] = e
      /\ Len(all) = n + 1 /\ DOMAIN all = 1..(n + 1) /\ n + 1 \in Nat
      /\ \A k \in 1..n : all[k] = seq[k]
  BY <1>0
<1> HIDE DEF n, all
<1>2. PICK a : Folds(c, base, seq, a) /\ Fold(c, base, seq) = a[n]
  BY <1>9, <1>1, FoldSteps DEF n
<1>3. PICK b : Folds(c, base, all, b) /\ Fold(c, base, all) = b[n + 1]
  BY <1>9, <1>1, FoldSteps
<1>4. a[0] = base /\ b[0] = base
  BY <1>2, <1>3 DEF Folds
<1>5. ASSUME NEW k \in Nat, k < n, a[k] = b[k] PROVE a[k + 1] = b[k + 1]
  <2>1. k \in 0..(n - 1) /\ k \in 0..((n + 1) - 1) /\ k + 1 \in 1..n
    BY <1>1, <1>5
  <2>2. a[k + 1] = Op(c, a[k], seq[k + 1])
    BY <1>2, <2>1 DEF Folds, n
  <2>3. b[k + 1] = Op(c, b[k], all[k + 1])
    BY <1>1, <1>3, <2>1 DEF Folds
  <2> QED BY <1>1, <1>5, <2>1, <2>2, <2>3
<1>6. a[n] = b[n]
  <2>1. \A k \in Nat : k < n /\ a[k] = b[k] => a[k + 1] = b[k + 1]
    BY <1>5
  <2>2. n \in Nat /\ a[0] = b[0]
    BY <1>1, <1>4
  <2> QED BY <1>9, <2>1, <2>2, Agree
<1>7. b[n + 1] = Op(c, b[n], all[n + 1])
  <2>1. n \in 0..((n + 1) - 1)
    BY <1>1
  <2> QED BY <1>1, <1>3, <2>1 DEF Folds
<1> QED BY <1>1, <1>2, <1>3, <1>6, <1>7 DEF all

-----------------------------------------------------------------------------
(* Folding over a finite set *)
SetFold(c, base, S) ==
  LET iter[s \in SUBSET S] ==
        IF s = {} THEN base
        ELSE LET x == CHOOSE x \in s : TRUE IN Op(c, iter[s \ {x}], x)
  IN  iter[S]

\* The accumulator at every subset, and what it is up to a number of elements.
Chosen(s) == CHOOSE x \in s : TRUE
IsSetIter(g, c, base, S) ==
  g = [s \in SUBSET S |-> IF s = {} THEN base ELSE Op(c, g[s \ {Chosen(s)}], Chosen(s))]
UpTo(rank, g, c, base, S, n) ==
  \A s \in SUBSET S : rank[s] <= n =>
    g[s] = IF s = {} THEN base ELSE Op(c, g[s \ {Chosen(s)}], Chosen(s))

\* rank counts the elements of the subsets of S, which is therefore finite.
Ranked(rank, S) ==
  /\ rank \in [SUBSET S -> Nat]
  /\ \A s \in SUBSET S : (s = {} <=> rank[s] = 0) /\ rank[s] <= rank[S]
  /\ \A s \in SUBSET S : \A x \in s : rank[s \ {x}] = rank[s] - 1

\* A subset without one of its elements is a subset with one element less.
LEMMA OneLess ==
  ASSUME NEW S, NEW rank, Ranked(rank, S), NEW s \in SUBSET S, s # {}
  PROVE  /\ s \ {Chosen(s)} \in SUBSET S /\ Chosen(s) \in s
         /\ rank[s] \in Nat /\ rank[s] # 0
         /\ rank[s \ {Chosen(s)}] = rank[s] - 1
<1>1. Chosen(s) \in s
  BY DEF Chosen
<1> QED BY <1>1 DEF Ranked

LEMMA UpToStep ==
  ASSUME NEW c, NEW base, NEW S, NEW rank, Ranked(rank, S), NEW n \in Nat, NEW f,
         UpTo(rank, f, c, base, S, n)
  PROVE  \E g : UpTo(rank, g, c, base, S, n + 1)
<1> DEFINE g == [s \in SUBSET S |->
             IF rank[s] = n + 1 THEN Op(c, f[s \ {Chosen(s)}], Chosen(s)) ELSE f[s]]
<1> SUFFICES ASSUME NEW s \in SUBSET S, rank[s] <= n + 1
             PROVE  g[s] = IF s = {} THEN base ELSE Op(c, g[s \ {Chosen(s)}], Chosen(s))
  BY DEF UpTo
<1>1. CASE s = {}
  <2>1. rank[s] = 0
    BY <1>1 DEF Ranked
  <2>2. rank[s] <= n
    BY <2>1
  <2>3. f[s] = base
    BY <1>1, <2>2 DEF UpTo
  <2>4. g[s] = f[s]
    BY <2>1
  <2> QED BY <1>1, <2>3, <2>4
<1>2. CASE s # {}
  <2> DEFINE r == s \ {Chosen(s)}
  <2>1. r \in SUBSET S /\ rank[s] \in Nat /\ rank[r] = rank[s] - 1
    BY <1>2, OneLess
  <2> HIDE DEF r
  <2>2. rank[r] # n + 1 /\ g[r] = f[r]
    BY <2>1
  <2>3. CASE rank[s] = n + 1
    <3>1. g[s] = Op(c, f[r], Chosen(s))
      BY <2>3 DEF r
    <3> QED BY <1>2, <2>2, <3>1 DEF r
  <2>4. CASE rank[s] # n + 1
    <3>1. rank[s] <= n
      BY <2>1, <2>4
    <3>2. f[s] = Op(c, f[r], Chosen(s))
      BY <1>2, <3>1 DEF UpTo, r
    <3> QED BY <1>2, <2>2, <2>4, <3>2 DEF r
  <2> QED BY <2>3, <2>4
<1> QED BY <1>1, <1>2

LEMMA SetIterExists ==
  ASSUME NatInduction, NEW c, NEW base, NEW S, NEW rank, Ranked(rank, S)
  PROVE  \E g : IsSetIter(g, c, base, S)
<1> DEFINE N == {n \in Nat : \E g : UpTo(rank, g, c, base, S, n)}
<1>1. 0 \in N
  <2> DEFINE g == [s \in SUBSET S |-> base]
  <2>1. ASSUME NEW s \in SUBSET S, rank[s] <= 0 PROVE s = {}
    <3> SUFFICES ASSUME s # {} PROVE FALSE
      OBVIOUS
    <3>1. rank[s] \in Nat /\ rank[s] # 0
      BY DEF Ranked
    <3> QED BY <2>1, <3>1
  <2>2. g[{}] = base /\ {} \in SUBSET S
    OBVIOUS
  <2> HIDE DEF g
  <2>3. UpTo(rank, g, c, base, S, 0)
    BY <2>1, <2>2 DEF UpTo
  <2> QED BY <2>3
<1>2. \A n \in Nat : n \in N => n + 1 \in N
  BY UpToStep
<1> HIDE DEF N
<1>3. rank[S] \in Nat
  BY DEF Ranked
<1>4. PICK g : UpTo(rank, g, c, base, S, rank[S])
  BY <1>1, <1>2, <1>3 DEF NatInduction, N
<1>5. \A s \in SUBSET S : rank[s] <= rank[S]
  BY DEF Ranked
<1> DEFINE h == [s \in SUBSET S |-> g[s]]
<1>6. \A s \in SUBSET S : h[s] = IF s = {} THEN base ELSE Op(c, h[s \ {Chosen(s)}], Chosen(s))
  <2> TAKE s \in SUBSET S
  <2>1. h[s] = IF s = {} THEN base ELSE Op(c, g[s \ {Chosen(s)}], Chosen(s))
    BY <1>4, <1>5 DEF UpTo
  <2>2. s # {} => s \ {Chosen(s)} \in SUBSET S
    OBVIOUS
  <2> QED BY <2>1, <2>2
<1>7. h = [s \in SUBSET S |-> h[s]]
  OBVIOUS
<1> HIDE DEF h
<1>8. IsSetIter(h, c, base, S)
  BY <1>6, <1>7 DEF IsSetIter
<1> QED BY <1>8

LEMMA SetFoldIsIter ==
  ASSUME NatInduction, NEW c, NEW base, NEW S, NEW rank, Ranked(rank, S)
  PROVE  \E g : IsSetIter(g, c, base, S) /\ SetFold(c, base, S) = g[S]
<1> DEFINE it == CHOOSE g : IsSetIter(g, c, base, S)
<1>1. IsSetIter(it, c, base, S)
  BY SetIterExists
<1>2. SetFold(c, base, S) = it[S]
  BY DEF SetFold, IsSetIter, Chosen
<1> QED BY <1>1, <1>2

LEMMA RankedFold ==
  ASSUME NatInduction, NEW c, NEW base, NEW S, NEW rank, Ranked(rank, S), P(c, base),
         \A acc : \A x \in S : P(c, acc) => P(c, Op(c, acc, x))
  PROVE  P(c, SetFold(c, base, S))
<1>1. PICK g : IsSetIter(g, c, base, S) /\ SetFold(c, base, S) = g[S]
  BY SetFoldIsIter
<1> DEFINE N == {n \in Nat : \A s \in SUBSET S : rank[s] = n => P(c, g[s])}
<1>2. \A s \in SUBSET S : g[s] = IF s = {} THEN base ELSE Op(c, g[s \ {Chosen(s)}], Chosen(s))
  BY <1>1 DEF IsSetIter
<1>3. 0 \in N
  BY <1>1, <1>2 DEF Ranked
<1>4. ASSUME NEW n \in Nat, n \in N PROVE n + 1 \in N
  <2> SUFFICES ASSUME NEW s \in SUBSET S, rank[s] = n + 1 PROVE P(c, g[s])
    OBVIOUS
  <2>1. s # {}
    BY DEF Ranked
  <2> DEFINE r == s \ {Chosen(s)}
  <2>2. r \in SUBSET S /\ Chosen(s) \in S /\ rank[r] = n
    <3>1. Chosen(s) \in s
      BY <2>1 DEF Chosen
    <3>2. rank[r] = rank[s] - 1
      BY <3>1 DEF Ranked
    <3>3. rank[r] = n
      BY <3>2
    <3> QED BY <3>1, <3>3
  <2>3. P(c, g[r])
    BY <1>4, <2>2
  <2>4. g[s] = Op(c, g[r], Chosen(s))
    BY <1>2, <2>1
  <2> HIDE DEF r
  <2> QED BY <2>2, <2>3, <2>4
<1> HIDE DEF N
<1>5. Nat \subseteq N
  BY <1>3, <1>4 DEF NatInduction
<1>6. rank[S] \in Nat
  BY DEF Ranked
<1> QED BY <1>1, <1>5, <1>6 DEF N

\* What is true of the base and kept by every element is true of the fold.
LEMMA SetFoldInvariant ==
  ASSUME \A N : 0 \in N /\ (\A n \in Nat : n \in N => n + 1 \in N) => Nat \subseteq N,
         NEW c, NEW base, NEW S, P(c, base),
         \E rank : /\ rank \in [SUBSET S -> Nat]
                   /\ \A s \in SUBSET S : (s = {} <=> rank[s] = 0) /\ rank[s] <= rank[S]
                   /\ \A s \in SUBSET S : \A x \in s : rank[s \ {x}] = rank[s] - 1,
         \A acc : \A x \in S : P(c, acc) => P(c, Op(c, acc, x))
  PROVE  P(c, SetFold(c, base, S))
<1>1. NatInduction /\ \E rank : Ranked(rank, S)
  BY DEF NatInduction, Ranked
<1> QED BY <1>1, RankedFold

=============================================================================
