------------------------------- MODULE Discovery -------------------------------
(***************************************************************************)
(* What blind discovery promises (search/README.md, docs of                *)
(* search/explorer.py): every pair of cards that may interact is searched; *)
(* a pair is reported with a shortest lap that the verifier accepts and in *)
(* which both cards take part; a pair is left out only if it has no such   *)
(* lap of up to MaxDepth steps, or more than MaxStates laps to look at.    *)
(* Nothing is said about queues, fingerprints or pruning.                  *)
(***************************************************************************)
EXTENDS Naturals, TLC

CONSTANTS
  Cards, ObjectIds, TokenIds, PrintedPT, ExactOracles, MaxEssentialCards,  \* as in Search
  Pools, MaxDepth, MaxStates

INSTANCE Witnesses

VARIABLES todo, report

\* The pairs of a pool that may interact: sets of two supported cards, in either order.
CapsOf(order) ==
  [o \in Indexed(ToSet(order), Cards) |-> ExtractCapabilities(Cards[o])]
Interacting(order) ==
  {{p[1], p[2]} : p \in {q \in (DOMAIN CapsOf(order)) \X (DOMAIN CapsOf(order)) :
      q[1] # q[2] /\ JoinReasons(CapsOf(order)[q[1]], CapsOf(order)[q[2]]) # {}}}

\* All laps of the same length with the states they lead to, one level after the other, up to
\* MaxDepth steps or to a level with an accepted lap.
Longer(laps) ==
  UNION {{[st |-> s.r.st, lap |-> Append(node.lap, s.step)] : s \in ToSet(Successors(node.st))} :
         node \in laps}
Judged(pair, origin, laps) ==
  [laps |-> laps, accepted |-> {node \in laps : Acceptable(pair, origin, node)}]
Deeper(pair, origin, levels) ==
  IF Last(levels).accepted # {} THEN levels
  ELSE Append(levels, Judged(pair, origin, Longer(Last(levels).laps)))
Levels(pair, origin) ==
  FoldLeft(LAMBDA levels, n : Deeper(pair, origin, levels),
           <<[laps |-> {[st |-> origin.st, lap |-> <<>>]}, accepted |-> {}]>>,
           [n \in 1..MaxDepth |-> n])
Laps(levels) == MapThenSumSet(LAMBDA n : Cardinality(levels[n].laps), DOMAIN levels)

Init ==
  /\ report = <<>>
  /\ \E order \in Pools :
       /\ Len(todo) = Cardinality(ToSet(todo))
       /\ {{p[1], p[2]} : p \in ToSet(todo)} = Interacting(order)

Search ==
  /\ todo # <<>> /\ todo' = Tail(todo)
  /\ \E origin \in {StartOf(Head(todo)[1], Head(todo)[2])} :
     \E levels \in {Levels(Head(todo), origin)} :
       \/ \E node \in Last(levels).accepted :
            report' = Append(report, [pair |-> Head(todo), lap |-> node.lap])
       \/ /\ Last(levels).accepted = {} \/ Laps(levels) > MaxStates
          /\ UNCHANGED report

Spec == Init /\ [][Search]_<<todo, report>>

=============================================================================
