-------------------------------- MODULE Search --------------------------------
(***************************************************************************)
(* Blind discovery: discover_loops of search/discover.py asks the index    *)
(* for the candidate pairs of a pool of cards and explores them one after  *)
(* the other; explore_pair of search/explorer.py searches the legal steps  *)
(* of a pair breadth-first, prunes by the fingerprints of                  *)
(* search/pruning.py, and hands every lap that may close to the verifier.  *)
(***************************************************************************)
EXTENDS Witnesses

CONSTANTS
  Pools,     \* the card pools: sequences of oracle ids in string order
  MaxDepth,  \* max_depth and max_states of explore_pair
  MaxStates

\* Every card of a pool has been compiled, and so is in the semantics map.
ASSUME PoolsAssumption ==
  \A pool \in Pools : IsSequence(pool) /\ \A i \in DOMAIN pool : pool[i] \in DOMAIN Cards
ASSUME SeedsAssumption == \A o \in DOMAIN SeedSemantics : Cards[o] = SeedSemantics[o]
\* The ids a board is given are distinct, and none is that of a token.
ASSUME NamesAssumption ==
  \A pool \in Pools : \A l, r \in ToSet(pool) : Named(FromSpec(Start!DefaultInitialState(l, r)))
\* A printed size is a pair of numbers.
ASSUME PrintedPTAssumption == \A o \in DOMAIN PrintedPT : PrintedPT[o] \in Int \X Int
ASSUME MaxDepthAssumption == MaxDepth \in Nat
ASSUME MaxStatesAssumption == MaxStates \in Nat

VARIABLES
  order,     \* the pool that is searched
  todo,      \* the candidate pairs that are still to explore
  pair,      \* the pair that is explored
  origin,    \* its start state and the setup that led there: [st, setup]
  seeds,     \* the kinds of seeds that are still to run
  queue,     \* the nodes that are still to visit: [st, lap]
  expanded,  \* the fingerprints that have been expanded, with the state that was
  visited,   \* the number of nodes visited
  node,      \* the node that is visited
  phase,     \* "pairs", "seed", "search", "found" or "expand"
  report     \* the hits: [pair, lap]
explored == <<order, todo, pair, origin, seeds>>
vars == <<explored, queue, expanded, visited, node, phase, report>>

-----------------------------------------------------------------------------
(* reusable_fingerprint *)
\* What it keeps of a permanent; tokens are only counted.
PermanentKey(p) ==
  [oracle |-> p.oracle, zone |-> p.zone, tapped |-> p.tapped, sick |-> p.summoning_sick,
   counters |-> p.counters, used |-> p.once_per_turn_used]
Nontokens(st) == {id \in Ids(st) : ~st.permanents[id].is_token}
CreatureTokens(st) ==
  {id \in Ids(st) : LET p == st.permanents[id] IN p.is_token /\ OnBattlefield(p) /\ p.is_creature}

\* Mutant: pending triggers are not looked at.
Fingerprint_NoTriggers(st) ==
  LET keys == {PermanentKey(st.permanents[id]) : id \in Nontokens(st)}
  IN [perms |-> [k \in keys |-> Cardinality({id \in Nontokens(st) :
                                              PermanentKey(st.permanents[id]) = k})],
      tokens |-> Cardinality(CreatureTokens(st)), mana |-> st.mana, triggers |-> <<>>]

\* A sorted tuple is the bag of its elements.
Fingerprint(st) ==
  LET keys == {PermanentKey(st.permanents[id]) : id \in Nontokens(st)}
  IN [perms |-> [k \in keys |-> Cardinality({id \in Nontokens(st) :
                                              PermanentKey(st.permanents[id]) = k})],
      tokens |-> Cardinality(CreatureTokens(st)), mana |-> st.mana,
      triggers |-> st.pending_triggers]

-----------------------------------------------------------------------------
\* InteractionIndex: the supported cards of the pool, and their facets.
CapsOf(pool) == [o \in Indexed(ToSet(pool), Cards) |-> ExtractCapabilities(Cards[o])]
IndexedOrder(pool) == Those(pool, Indexed(ToSet(pool), Cards))

Nowhere == [spec |-> None, st |-> None, setup |-> <<>>]
NoNode == [st |-> None, lap |-> <<>>]
Init ==
  /\ order \in Pools
  /\ todo = CandidatePairs(CapsOf(order), IndexedOrder(order))
  /\ pair = <<>> /\ origin = Nowhere /\ seeds = <<>> /\ queue = <<>> /\ expanded = <<>> /\ visited = 0
  /\ node = NoNode /\ phase = "pairs" /\ report = <<>>

\* explore_pair up to its loop: the board, the seeds one by one, the first node.
StartPair ==
  /\ phase = "pairs" /\ todo # <<>>
  /\ pair' = Head(todo) /\ todo' = Tail(todo)
  /\ origin' = Unseeded(Start!DefaultInitialState(Head(todo)[1], Head(todo)[2]))
  /\ seeds' = SeedKinds /\ phase' = "seed"
  /\ UNCHANGED <<order, queue, expanded, visited, node, report>>

Seed ==
  /\ phase = "seed" /\ seeds # <<>> /\ seeds' = Tail(seeds)
  /\ \E after \in {Seeded(origin, SeedOf(Head(seeds), origin, pair[1], pair[2]))} : origin' = after
  /\ UNCHANGED <<order, todo, pair, queue, expanded, visited, node, phase, report>>

Begin ==
  /\ phase = "seed" /\ seeds = <<>>
  /\ queue' = <<[st |-> origin.st, lap |-> <<>>]>>
  /\ expanded' = <<>> /\ visited' = 0 /\ node' = NoNode /\ phase' = "search"
  /\ UNCHANGED <<explored, report>>

\* Mutant: one node too many is visited.
AtLimit_Late == visited > MaxStates

AtLimit == visited >= MaxStates

\* The next node is popped, counted and, on arrival, tried as the end of a lap.
Visit ==
  /\ phase = "search" /\ queue # <<>> /\ ~AtLimit
  /\ node' = Head(queue) /\ queue' = Tail(queue) /\ visited' = visited + 1
  /\ phase' = IF Acceptable(pair, origin, Head(queue)) THEN "found" ELSE "expand"
  /\ UNCHANGED <<explored, expanded, report>>

\* The search of a pair ends without a hit: the queue is empty, or one node too many is popped.
Abandon ==
  /\ phase = "search" /\ (queue = <<>> \/ AtLimit)
  /\ phase' = "pairs"
  /\ UNCHANGED <<explored, queue, expanded, visited, node, report>>

\* The first lap that is accepted is reported, and the pair is done.
Accept ==
  /\ phase = "found"
  /\ report' = Append(report, [pair |-> pair, lap |-> node.lap])
  /\ phase' = "pairs"
  /\ UNCHANGED <<explored, queue, expanded, visited, node>>

\* Mutant: laps of one step too many.
AtDepth_Late == Len(node.lap) > MaxDepth

AtDepth == Len(node.lap) >= MaxDepth
Pruned == Fingerprint(node.st) \in DOMAIN expanded

\* A node at the depth limit, or with a fingerprint that was expanded, has no successors.
Drop ==
  /\ phase = "expand" /\ (AtDepth \/ Pruned)
  /\ phase' = "search"
  /\ UNCHANGED <<explored, queue, expanded, visited, node, report>>

\* Mutant: new nodes are searched first.
Enqueue_Stack(nodes) == nodes \o queue

Enqueue(nodes) == queue \o nodes
Expand ==
  /\ phase = "expand" /\ ~AtDepth /\ ~Pruned
  /\ expanded' = (Fingerprint(node.st) :> node.st) @@ expanded
  /\ \E next \in {Successors(node.st)} :
       queue' = Enqueue([i \in DOMAIN next |->
                           [st |-> next[i].r.st, lap |-> Append(node.lap, next[i].step)]])
  /\ phase' = "search"
  /\ UNCHANGED <<explored, visited, node, report>>

\* discover_loops returns, and only then nothing is left to do.
Return == phase = "pairs" /\ todo = <<>> /\ UNCHANGED vars

Next == StartPair \/ Seed \/ Begin \/ Visit \/ Abandon \/ Accept \/ Drop \/ Expand \/ Return
Spec == Init /\ [][Next]_vars

-----------------------------------------------------------------------------
(* Properties *)

\* Every field has its type, and what is explored is a candidate.
TypeOK ==
  /\ order \in Pools /\ phase \in {"pairs", "seed", "search", "found", "expand"}
  /\ visited \in Nat /\ Len(seeds) <= Len(SeedKinds)
  /\ phase # "pairs" => Len(pair) = 2
  /\ phase \in {"found", "expand"} =>
       /\ Ids(node.st) = ToSet(node.st.order) /\ IsInjective(node.st.order)
       /\ {node.st.mana, node.st.mana_activate_only} \subseteq ManaAmount

\* The search stays within its limits: no lap in the queue or in the report is longer than
\* MaxDepth, no reported lap is empty, and no more than MaxStates nodes are visited for a pair.
SearchBounded ==
  /\ visited <= MaxStates
  /\ \A i \in DOMAIN queue : Len(queue[i].lap) <= MaxDepth
  /\ \A i \in DOMAIN report : Len(report[i].lap) \in 1..MaxDepth

\* The search is breadth-first: laps are looked at in order of their length, and the queue never
\* holds more than two lengths.  So the lap that is reported is a shortest one.
BreadthFirst ==
  \A i, j \in DOMAIN queue :
    /\ i <= j => Len(queue[i].lap) <= Len(queue[j].lap)
    /\ Len(queue[j].lap) <= Len(queue[i].lap) + 1
    /\ Len(node.lap) <= Len(queue[i].lap)

\* Running the recorded setup on the initial state of the witness leads to the state the search
\* has started from: a seed that fails has changed nothing, and none is left out of the setup.
SetupReplays ==
  phase = "search" /\ visited = 0 =>
    RunSequence(FromSpec(origin.spec), origin.setup) = Ok(origin.st)

\* Whatever a hit needs beside its two cards is disclosed: every other permanent of its board and
\* every step of its setup (eval/README.md:43).
SeedsDisclosed ==
  phase = "found" =>
    LET cards == {pair[1], pair[2]}
    IN /\ \A id \in DOMAIN origin.spec.permanents :
            \/ origin.spec.permanents[id].oracle \in cards
            \/ id \in DisclosedPermanents(origin.spec, origin.setup)
       /\ ToSet(origin.setup) = DisclosedSteps(cards, origin.setup)

\* A hit is a loop of two cards: on the same board without one of the two, the same setup and the
\* same lap are none.  (An instant is not on the board: what it grants is seeded.)
BoardWithout(spec, oracle) ==
  LET rest == {id \in DOMAIN spec.permanents : spec.permanents[id].oracle # oracle}
  IN [spec EXCEPT !.order = Those(@, rest),
                  !.permanents = [id \in rest |-> @[id]]]
BothNeeded ==
  phase = "found" =>
    \A o \in {origin.spec.permanents[id].oracle : id \in DOMAIN origin.spec.permanents} \cap {pair[1], pair[2]} :
      ~Verifies(BuildWitness({pair[1], pair[2]}, [origin EXCEPT !.spec = BoardWithout(@, o)], node))

\* A state that is pruned offers the same kinds of steps as the state that was expanded in its
\* place (pruning.py:12, "Equality of reusable fingerprints asserts search-equivalence for all
\* currently modeled future legal behavior").
KindsOfSteps(st) ==
  LET oracle(id) == IF Exists(st, id) THEN st.permanents[id].oracle ELSE id
  IN {<<s.step.op, oracle(s.step.actor), s.step.ability_id, oracle(s.step.target)>> :
        s \in ToSet(Successors(st))}
PruneEquivalent ==
  phase = "expand" /\ ~AtDepth /\ Pruned =>
    KindsOfSteps(node.st) = KindsOfSteps(expanded[Fingerprint(node.st)])

\* The search keeps the promise of blind discovery.  A pair that is being explored is still to
\* be done there.
D == INSTANCE Discovery WITH
       todo <- IF phase = "pairs" THEN todo ELSE <<pair>> \o todo,
       report <- report
IsDiscovery == D!Spec

=============================================================================
