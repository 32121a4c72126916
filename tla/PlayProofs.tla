------------------------------ MODULE PlayProofs ------------------------------
(***************************************************************************)
(* What a run of steps guarantees for every semantics map of the IR and    *)
(* every board: what StepProofs says of each of its steps, from the board  *)
(* on.                                                                     *)
(***************************************************************************)
EXTENDS Play, StepProofs

LEMMA StepStable ==
  ASSUME NEW op, NEW r, Take(op, r)
  PROVE  SBAStable'
<1>1. /\ state' = AfterStep(r).st /\ status' = AfterStep(r).err
  BY DEF Take
<1>2. CASE r.err = "ok"
  <2>1. state' = ApplySBA(r.st)
    BY <1>1, <1>2 DEF AfterStep, Ok
  <2> QED BY <2>1, OnePassIsEnough DEF SBAStable
<1>3. CASE r.err # "ok"
  BY <1>1, <1>3 DEF AfterStep, SBAStable
<1> QED BY <1>2, <1>3

\* Whatever a run does, no creature that ought to be dead is in play between two of its steps.
THEOREM BoardStaysStable == Spec => []SBAStable
<1>1. Init => SBAStable
  BY BoardsAssumption DEF Init, SBAStable
<1>2. SBAStable /\ [Next]_vars => SBAStable'
  <2> SUFFICES ASSUME SBAStable, [Next]_vars PROVE SBAStable'
    OBVIOUS
  <2>1. CASE Next
    <3>1. \E op, r : Take(op, r)
      BY <2>1 DEF Next, Activate, Resolve, SacrificeOne, Cast, BounceByGrant, SeedSource,
                  SeedTarget, Declare
    <3> QED BY <3>1, StepStable
  <2>2. CASE UNCHANGED vars
    BY <2>2 DEF vars, SBAStable
  <2> QED BY <2>1, <2>2
<1> QED BY <1>1, <1>2, PTL DEF Spec

-----------------------------------------------------------------------------
(* The books of a run.  They are opened with the board.                     *)
Opening(b) ==
  [start |-> b.start, hand |-> OpeningHand, energy |-> 0,
   life |-> b.start.life_you + b.start.life_opponent]
InBooks == board \in Boards /\ Kept(Opening(board), state)

LEMMA OpeningKept == ASSUME NEW b \in Boards PROVE Kept(Opening(b), b.start)
<1> DEFINE st == b.start
           l == Opening(b)
<1>1. IsState(st) /\ Unplayed(st)
  BY BoardsAssumption
<1>2. \A key \in LedgerKeys : st.event_counters[key] = 0
  BY <1>1, KeysAreEvents DEF Unplayed
<1>3. st.life_you \in Int /\ st.life_opponent \in Int /\ st.hand_you = 7 /\ st.energy_you = 0
  BY <1>1, StateInts DEF Unplayed, OpeningHand
<1>4. HandLeft(st) = 7 /\ EnergyLeft(st) = 0 /\ LifeLeft(st) = st.life_you + st.life_opponent
  BY <1>2, <1>3 DEF HandLeft, EnergyLeft, LifeLeft, LedgerKeys
<1>5. /\ l.start = st /\ l.hand = 7 /\ l.energy = 0
      /\ l.life = st.life_you + st.life_opponent
  BY DEF Opening, OpeningHand
<1> HIDE DEF l, st
<1>6. Kept(l, st)
  BY <1>1, <1>4, <1>5, FollowsItself DEF Kept
<1> QED BY <1>6 DEF l, st

LEMMA TakeKept ==
  ASSUME NEW l, NEW op, NEW r, Kept(l, r.st), Take(op, r) PROVE board' = board /\ Kept(l, state')
<1>1. Kept(l, AfterStep(r).st)
  BY AfterKept
<1> QED BY <1>1 DEF Take

LEMMA NextKept ==
  ASSUME NEW l, Kept(l, state), Ids(state) \subseteq Ids(l.start), Next PROVE board' = board /\ Kept(l, state')
<1>1. CASE Activate
  BY <1>1, ActivatedKept, TakeKept DEF Activate
<1>2. CASE Resolve
  BY <1>2, ResolveKept, TakeKept DEF Resolve
<1>3. CASE SacrificeOne
  BY <1>3, SacrificeNamedKept, TakeKept DEF SacrificeOne
<1>4. CASE Cast
  BY <1>4, CastKept, TakeKept DEF Cast
<1>5. CASE BounceByGrant
  BY <1>5, TapBounceKept, TakeKept DEF BounceByGrant
<1>6. CASE SeedSource
  <2>1. PICK op \in SourceSeeds, id \in Ids(state) :
          Take(op, SeedFromSource(state, Step(op, id, NoAbility, NoId, NoId)))
    BY <1>6 DEF SeedSource
  <2>2. Step(op, id, NoAbility, NoId, NoId).op = op
    BY DEF Step
  <2>3. Kept(l, SeedFromSource(state, Step(op, id, NoAbility, NoId, NoId)).st)
    BY <2>2, SeedSourceKept
  <2> QED BY <2>1, <2>3, TakeKept
<1>7. CASE SeedTarget
  <2>1. PICK op \in GrantSeeds, id \in board.targets :
          Take(op, SeedGrant(state, Step(op, NoId, NoAbility, id, NoId)))
    BY <1>7 DEF SeedTarget
  <2>2. Step(op, NoId, NoAbility, id, NoId).op = op
    BY DEF Step
  <2>3. Kept(l, SeedGrant(state, Step(op, NoId, NoAbility, id, NoId)).st)
    BY <2>2, SeedGrantKept
  <2> QED BY <2>1, <2>3, TakeKept
<1>8. CASE Declare
  BY <1>8, DeclaredKept, TakeKept DEF Declare
<1> QED BY <1>1, <1>2, <1>3, <1>4, <1>5, <1>6, <1>7, <1>8 DEF Next

LEMMA InBooksStep == InBooks /\ [Next]_vars => InBooks'
<1> SUFFICES ASSUME InBooks, [Next]_vars PROVE InBooks'
  OBVIOUS
<1>1. CASE UNCHANGED vars
  BY <1>1 DEF InBooks, vars
<1>2. CASE Next
  <2>1. PICK m : /\ m.start = state /\ Kept(m, state)
                 /\ \A t : Kept(m, t) => Kept(Opening(board), t) /\ Follows(state, t)
    BY BooksNow DEF InBooks
  <2>2. board' = board /\ Kept(m, state')
    BY <1>2, <2>1, NextKept
  <2>3. Kept(Opening(board), state')
    BY <2>1, <2>2
  <2> QED BY <2>2, <2>3 DEF InBooks
<1> QED BY <1>1, <1>2

LEMMA InBooksAlways == Spec => []InBooks
<1>1. Init => InBooks
  BY OpeningKept DEF Init, InBooks
<1> QED BY <1>1, InBooksStep, PTL DEF Spec

\* Whatever a run of run_step does, it ends every step with a known status and leaves a GameState:
\* pools, libraries, hand, energy and counters never go below zero, every object is in the battlefield
\* order and every pending trigger has its source and its subject, for every semantics map of the IR
\* and every board, after steps that fail as after those that succeed.
THEOREM StateStaysTyped == Spec => [](status \in Statuses /\ IsState(state))
<1>1. InBooks => IsState(state)
  BY DEF InBooks, Kept
<1>2. Init => status \in Statuses
  BY DEF Init, Statuses
<1>3. (status \in Statuses) /\ [Next]_vars => (status \in Statuses)'
  <2> SUFFICES ASSUME status \in Statuses, [Next]_vars PROVE status' \in Statuses
    OBVIOUS
  <2>0. ASSUME NEW op, NEW r, Take(op, r), Ended(r) PROVE status' \in Statuses
    BY <2>0, OkEnded DEF Take, AfterStep, Ended
  <2>1. CASE UNCHANGED vars
    BY <2>1 DEF vars
  <2>2. CASE Activate
    BY <2>0, <2>2, ActivatedEnded DEF Activate
  <2>3. CASE Resolve
    BY <2>0, <2>3, TriggerEnded DEF Resolve
  <2>4. CASE SacrificeOne
    BY <2>0, <2>4, SmallStepsEnded DEF SacrificeOne
  <2>5. CASE Cast
    BY <2>0, <2>5, CastEnded DEF Cast
  <2>6. CASE BounceByGrant
    BY <2>0, <2>6, SmallStepsEnded DEF BounceByGrant
  <2>7. CASE SeedSource
    <3>1. PICK op \in SourceSeeds, id \in Ids(state) :
            Take(op, SeedFromSource(state, Step(op, id, NoAbility, NoId, NoId)))
      BY <2>7 DEF SeedSource
    <3>2. Step(op, id, NoAbility, NoId, NoId).op = op
      BY DEF Step
    <3>3. Ended(SeedFromSource(state, Step(op, id, NoAbility, NoId, NoId)))
      BY <3>2, SmallStepsEnded
    <3> QED BY <2>0, <3>1, <3>3
  <2>8. CASE SeedTarget
    BY <2>0, <2>8, SmallStepsEnded DEF SeedTarget
  <2>9. CASE Declare
    <3>1. PICK op : Take(op, Declared(state, op))
      BY <2>9 DEF Declare
    <3>2. Declared(state, Step(op, NoId, NoAbility, NoId, NoId).op) = Declared(state, op)
      BY DEF Step
    <3>3. Ended(Declared(state, op))
      BY <3>2, SmallStepsEnded
    <3> QED BY <2>0, <3>1, <3>3
  <2> QED BY <2>1, <2>2, <2>3, <2>4, <2>5, <2>6, <2>7, <2>8, <2>9 DEF Next
<1>4. Spec => [](status \in Statuses)
  BY <1>2, <1>3, PTL DEF Spec
<1> QED BY <1>1, <1>4, InBooksAlways, PTL

\* As long as next_token_id has ids to hand out, the dictionary lists every object once, and the tokens
\* among them are those of the ids handed out so far: no token takes the place of another object.
THEOREM BoardsStayNamed == Spec /\ [](state.token_seq <= Len(TokenIds)) => []TypeOK
<1>1. InBooks /\ (status \in Statuses /\ IsState(state)) /\ state.token_seq <= Len(TokenIds) => TypeOK
  <2> SUFFICES ASSUME InBooks, status \in Statuses, IsState(state), state.token_seq <= Len(TokenIds)
               PROVE  TypeOK
    OBVIOUS
  <2>1. Opening(board).start = board.start
    BY DEF Opening
  <2>2. Follows(board.start, state) /\ Named(board.start)
    BY <2>1, BoardsAssumption DEF InBooks, Kept
  <2> QED BY <2>2 DEF Follows, TypeOK
<1> QED BY <1>1, InBooksAlways, StateStaysTyped, PTL

\* The hand and the energy pool are what the events of draw, discard, gain and payment add up to,
\* whichever costs, effects, triggers and seeds the run went through and however it failed.
THEOREM LedgersBalance == Spec => []Ledgers
<1>1. InBooks => Ledgers
  <2> SUFFICES ASSUME InBooks PROVE Ledgers
    OBVIOUS
  <2>1. IsState(state) /\ Opening(board).hand = HandLeft(state) /\ Opening(board).energy = EnergyLeft(state)
    BY DEF InBooks, Kept
  <2>2. Opening(board).hand = OpeningHand /\ Opening(board).energy = 0
    BY DEF Opening
  <2>3. /\ {state.hand_you, state.energy_you} \subseteq Int
        /\ \A key \in LedgerKeys : state.event_counters[key] \in Int
    BY <2>1, StateInts
  <2>4. /\ state.event_counters["draw"] \in Int
        /\ state.event_counters["discard"] \in Int
        /\ state.event_counters["energy"] \in Int
        /\ state.event_counters["energy_paid"] \in Int
    BY <2>3, Zenon DEF LedgerKeys
  <2>5. state.hand_you \in Int /\ state.energy_you \in Int
    BY <2>3
  <2>6. OpeningHand = state.hand_you - Events("draw") + Events("discard")
    BY <2>1, <2>2, Zenon DEF HandLeft, Events
  <2>7. 0 = state.energy_you - Events("energy") + Events("energy_paid")
    BY <2>1, <2>2, Zenon DEF EnergyLeft, Events
  <2>8. state.hand_you = OpeningHand + Events("draw") - Events("discard")
    BY <2>4, <2>5, <2>6 DEF Events
  <2>9. state.energy_you = Events("energy") - Events("energy_paid")
    BY <2>4, <2>5, <2>7 DEF Events
  <2> QED BY <2>8, <2>9 DEF Ledgers
<1> QED BY <1>1, InBooksAlways, PTL

\* The life totals are what the events of life gained and lost add up to, unless some card deals
\* damage to each player: _apply_effects counts that damage once and takes it from both.
THEOREM LifeBalances == ASSUME ~SharedDamage PROVE Spec => []LifeLedger
<1>1. InBooks => LifeLedger
  <2> SUFFICES ASSUME InBooks PROVE LifeLedger
    OBVIOUS
  <2>1. IsState(state) /\ Opening(board).life = LifeLeft(state)
    BY DEF InBooks, Kept
  <2>2. Opening(board).life = board.start.life_you + board.start.life_opponent
    BY DEF Opening
  <2>3. /\ {state.life_you, state.life_opponent} \subseteq Int
        /\ \A key \in LedgerKeys : state.event_counters[key] \in Int
    BY <2>1, StateInts
  <2>4. {board.start.life_you, board.start.life_opponent} \subseteq Int
    BY BoardsAssumption, StateInts DEF InBooks
  <2> QED BY <2>1, <2>2, <2>3, <2>4 DEF LifeLedger, Events, LifeLeft, LedgerKeys
<1> QED BY <1>1, InBooksAlways, PTL

=============================================================================
