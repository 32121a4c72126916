---------------------------- MODULE VerifierProofs ----------------------------
(***************************************************************************)
(* The dimensions the verifier owns hold in every verified lap, whatever   *)
(* the corpus, the cards and what a witness declares about the same paths. *)
(*                                                                         *)
(* The merge gives every mandatory path the value of the state before the  *)
(* loop, an exact comparison with that value is an equality, and nothing   *)
(* changes the two states once a lap is judged.                            *)
(***************************************************************************)
EXTENDS Verifier, ExecutorProofs

\* On a mandatory path the merged relevant state pins what was there before the loop.
LEMMA MandatoryWins ==
  ASSUME NEW w, NEW b, NEW path \in DOMAIN MandatoryDimensions(w.loop_actions, b)
  PROVE  /\ path \in DOMAIN EffectiveRelevantState(w, b)
         /\ EffectiveRelevantState(w, b)[path] = Dim(Exact, Some(At(b, path)))
<1>1. MandatoryDimensions(w.loop_actions, b)[path] = Dim(Exact, Some(At(b, path)))
  BY DEF MandatoryDimensions
<1> QED BY <1>1 DEF EffectiveRelevantState, With

\* An exact comparison with the state before the loop is an equality.
LEMMA ExactIsEqual ==
  ASSUME NEW b, NEW a, NEW path, Recurs(b, a, path, Dim(Exact, Some(At(b, path))))
  PROVE  At(a, path) = At(b, path)
<1>1. OrElse(Some(At(b, path)), At(b, path)) = At(b, path)
  BY DEF OrElse, Some, The, None
<1> QED BY <1>1 DEF Recurs, Dim, Exact, Minimum, Maximum

\* What recurs under the merged relevant state leaves every mandatory path as it was.
LEMMA RecurrenceIsMandatory ==
  ASSUME NEW w, NEW b, NEW a, CheckRecurrence(b, a, EffectiveRelevantState(w, b))
  PROVE  \A path \in DOMAIN MandatoryDimensions(w.loop_actions, b) : At(a, path) = At(b, path)
  BY MandatoryWins, ExactIsEqual DEF CheckRecurrence

LEMMA VerifiedRecurs ==
  ASSUME NEW w, NEW b, NEW a, JudgeVerdict(w, b, a) = "verified"
  PROVE  CheckRecurrence(b, a, EffectiveRelevantState(w, b))
  BY DEF JudgeVerdict

\* No witness is verified whose lap leaves more or fewer pending triggers than it found, uses up
\* a once-per-turn ability or leaves a new -1/-1 counter on a permanent that pays with them.
THEOREM MandatoryDimensionsHold == Spec => []MandatoryHold
<1>1. Init => MandatoryHold
  BY DEF Init, MandatoryHold, Verified
<1>2. MandatoryHold /\ [Next]_vars => MandatoryHold'
  <2> SUFFICES ASSUME MandatoryHold, [Next]_vars PROVE MandatoryHold'
    OBVIOUS
  <2>1. CASE Gates
    BY <2>1 DEF Gates, Reject, MandatoryHold, Verified
  <2>2. CASE Execute
    BY <2>2 DEF Execute, Reject, MandatoryHold, Verified
  <2>3. CASE StartLoop
    BY <2>3 DEF StartLoop, MandatoryHold, Verified
  <2>4. CASE Judge
    <3> SUFFICES ASSUME verdict' = "verified" PROVE MandatoryHold'
      BY DEF MandatoryHold, Verified
    <3>1. JudgeVerdict(witness, before, state) = "verified" /\ UNCHANGED <<witness, state, before>>
      BY <2>4 DEF Judge
    <3>2. \A path \in DOMAIN MandatoryDimensions(witness.loop_actions, before) :
            At(state, path) = At(before, path)
      BY <3>1, VerifiedRecurs, RecurrenceIsMandatory
    <3>3. \A path \in OncePerTurnPaths(witness.loop_actions, before) \cup M1M1PayPaths(before)
                      \cup {PendingPath} : At(state, path) = At(before, path)
      BY <3>2 DEF MandatoryDimensions
    <3> QED BY <3>1, <3>3 DEF MandatoryHold
  <2>5. CASE UNCHANGED vars
    BY <2>5 DEF vars, MandatoryHold, Verified
  <2> QED BY <2>1, <2>2, <2>3, <2>4, <2>5 DEF Next
<1> QED BY <1>1, <1>2, PTL DEF Spec

-----------------------------------------------------------------------------
(* The gates are those of the contract *)
LEMMA SequenceTail ==
  ASSUME NEW s, IsSequence(s), s # <<>> PROVE IsSequence(Tail(s))
<1> DEFINE S == {s[i] : i \in DOMAIN s}
           t == Tail(s)
           n == Len(s) - 1
<1>1. s \in Seq(S)
  BY DEF IsSequence
<1> HIDE DEF S
<1>2. t \in Seq(S) /\ Len(t) = n /\ n \in Nat /\ DOMAIN t = 1..n
  BY <1>1
<1> HIDE DEF t, n
<1>3. t = [i \in 1..n |-> t[i]]
  BY <1>2
<1>4. t \in [1..n -> {t[i] : i \in DOMAIN t}]
  BY <1>2, <1>3
<1>5. t \in Seq({t[i] : i \in DOMAIN t})
  BY <1>2, <1>4
<1> QED BY <1>5 DEF IsSequence, t

LEMMA ConcatElements ==
  ASSUME NEW s, NEW t, IsSequence(s), IsSequence(t)
  PROVE  ToSet(s \o t) = ToSet(s) \cup ToSet(t)
<1>1. /\ Len(s) \in Nat /\ Len(t) \in Nat /\ DOMAIN s = 1..Len(s) /\ DOMAIN t = 1..Len(t)
      /\ s \in Seq(ToSet(s)) /\ t \in Seq(ToSet(t))
  BY DEF IsSequence, ToSet
<1> DEFINE u == s \o t
<1>2. /\ DOMAIN u = 1..(Len(s) + Len(t))
      /\ \A i \in 1..Len(s) : u[i] = s[i]
      /\ \A i \in 1..Len(t) : u[Len(s) + i] = t[i]
      /\ \A i \in (Len(s) + 1)..(Len(s) + Len(t)) : u[i] = t[i - Len(s)]
  BY <1>1
<1> HIDE DEF u
<1>3. ToSet(u) \subseteq ToSet(s) \cup ToSet(t)
  <2> SUFFICES ASSUME NEW i \in DOMAIN u PROVE u[i] \in ToSet(s) \cup ToSet(t)
    BY DEF ToSet
  <2>1. CASE i \in 1..Len(s)
    BY <1>1, <1>2, <2>1 DEF ToSet
  <2>2. CASE i \in (Len(s) + 1)..(Len(s) + Len(t))
    <3>1. i - Len(s) \in 1..Len(t)
      BY <1>1, <2>2
    <3> QED BY <1>1, <1>2, <2>2, <3>1 DEF ToSet
  <2> QED BY <1>1, <1>2, <2>1, <2>2
<1>4. ToSet(s) \subseteq ToSet(u)
  <2>1. \A i \in 1..Len(s) : i \in DOMAIN u
    BY <1>1, <1>2
  <2> QED BY <1>1, <1>2, <2>1 DEF ToSet
<1>5. ToSet(t) \subseteq ToSet(u)
  <2> SUFFICES ASSUME NEW i \in 1..Len(t) PROVE t[i] \in ToSet(u)
    BY <1>1 DEF ToSet
  <2>1. Len(s) + i \in DOMAIN u
    BY <1>1, <1>2
  <2>2. u[Len(s) + i] = t[i]
    BY <1>2
  <2> QED BY <2>1, <2>2 DEF ToSet
<1> QED BY <1>3, <1>4, <1>5 DEF u

LEMMA GatesAreAdmissible ==
  ASSUME NEW w \in Corpus
  PROVE  GateVerdict(w) = "none" <=> Admissible(w)
<1>1. UsesLifelinkSeed(w) <=>
        \E step \in ToSet(w.setup_actions) \cup ToSet(w.loop_actions) : step.op = "seed_grant_lifelink"
  BY CorpusAssumption, ConcatElements DEF UsesLifelinkSeed
<1>2. LifelinkQuarantine(w) <=>
        ~(w.essential_cards # {} /\ w.essential_cards \subseteq ExactOracles
            => \A step \in ToSet(w.setup_actions) \cup ToSet(w.loop_actions) :
                 step.op # "seed_grant_lifelink")
  BY <1>1 DEF LifelinkQuarantine
<1>3. NeedsMore(w) <=>
        ~(~w.functional_external_requirements /\ w.essential_card_count <= MaxEssentialCards)
  BY CorpusAssumption, MaxEssentialCardsAssumption DEF NeedsMore
<1> QED BY <1>2, <1>3 DEF GateVerdict, Admissible, Unsupported, BadPath

LEMMA GateVerdicts ==
  ASSUME NEW w PROVE GateVerdict(w) \in Verdicts \ {"verified"}
  BY DEF GateVerdict, Verdicts

-----------------------------------------------------------------------------
(* The judgement of a lap is that of the contract *)
LEMMA MandatoryPaths ==
  ASSUME NEW loop, NEW b, NEW path \in DOMAIN MandatoryDimensions(loop, b)
  PROVE  HasPath(b, path)
<1>1. path \in OncePerTurnPaths(loop, b) \cup M1M1PayPaths(b) \cup {PendingPath}
  BY DEF MandatoryDimensions
<1>2. CASE path = PendingPath
  BY <1>2 DEF HasPath, PendingPath
<1>3. CASE path \in OncePerTurnPaths(loop, b)
  BY <1>3 DEF OncePerTurnPaths, UsedPath, HasPath
<1>4. CASE path \in M1M1PayPaths(b)
  BY <1>4 DEF M1M1PayPaths, CounterPath, HasPath, Exists
<1> QED BY <1>1, <1>2, <1>3, <1>4

LEMMA PinnedRecurs ==
  ASSUME NEW b, NEW a, NEW path, NEW dim, HasPath(b, path), dim = Dim(Exact, Some(At(b, path)))
  PROVE  Recurs(b, a, path, dim) <=> HasPath(a, path) /\ At(a, path) = At(b, path)
<1> DEFINE now == At(b, path)
           then == At(a, path)
<1> HIDE DEF now, then
<1>1. dim.op = Exact /\ dim.value = Some(now)
  BY DEF Dim, now
<1>2. OrElse(dim.value, now) = now
  BY <1>1 DEF OrElse, Some, The, None
<1>3. (CASE dim.op = Exact -> then = OrElse(dim.value, now)
         [] dim.op = Minimum -> then >= OrElse(dim.value, now) /\ then >= now
         [] dim.op = Maximum -> then <= OrElse(dim.value, now)) <=> then = now
  BY <1>1, <1>2 DEF Exact, Minimum, Maximum
<1> QED BY <1>3, Zenon DEF Recurs, now, then

LEMMA MergeIsRecurring ==
  ASSUME NEW w, NEW b, NEW a
  PROVE  CheckRecurrence(b, a, EffectiveRelevantState(w, b)) <=> Recurring(w, b, a)
<1> DEFINE mandatory == DOMAIN MandatoryDimensions(w.loop_actions, b)
           declared == DOMAIN w.relevant_state
           merged == EffectiveRelevantState(w, b)
<1>1. DOMAIN merged = declared \cup mandatory
  BY DEF EffectiveRelevantState, With
<1>2. ASSUME NEW path \in mandatory
      PROVE  Recurs(b, a, path, merged[path]) <=> HasPath(a, path) /\ At(a, path) = At(b, path)
  BY MandatoryWins, MandatoryPaths, PinnedRecurs
<1>3. ASSUME NEW path \in declared \ mandatory
      PROVE  merged[path] = w.relevant_state[path]
  BY <1>3 DEF EffectiveRelevantState, With
<1>4. CheckRecurrence(b, a, merged) <=> \A path \in declared \cup mandatory : Recurs(b, a, path, merged[path])
  BY <1>1 DEF CheckRecurrence
<1>5. Recurring(w, b, a) <=>
        /\ \A path \in mandatory : HasPath(a, path) /\ At(a, path) = At(b, path)
        /\ \A path \in declared \ mandatory : Recurs(b, a, path, w.relevant_state[path])
  BY Zenon DEF Recurring
<1> HIDE DEF merged, mandatory, declared
<1> QED BY <1>2, <1>3, <1>4, <1>5, Zenon DEF merged

LEMMA JudgementIsLoop ==
  ASSUME NEW w \in Corpus, NEW b, NEW a, Admissible(w)
  PROVE  JudgeVerdict(w, b, a) = "verified" <=> IsLoop(w, Ok(b), Ok(a))
<1>1. CheckOutputs(b, a, w.expected_outputs) <=> Productive(w, b, a)
  BY DEF CheckOutputs, Productive, Delta
<1>2. w.expected_net_state \in {None, Some(NetState(b, a))}
        <=> \A net \in w.expected_net_state : NetState(b, a) = net
  BY CorpusAssumption DEF None, Some
<1>3. ClaimMismatch(DerivedClaim(NetState(b, a)), w.expected_claim_consequence)
        <=> ~\A claim \in w.expected_claim_consequence \cap DerivedConsequences :
               DerivedClaim(NetState(b, a)) = claim
  BY DEF ClaimMismatch
<1>4. IsLoop(w, Ok(b), Ok(a)) <=> Recurring(w, b, a) /\ Productive(w, b, a) /\ AsClaimed(w, b, a)
  BY DEF IsLoop, Ok
<1> QED BY <1>1, <1>2, <1>3, <1>4, MergeIsRecurring DEF JudgeVerdict, AsClaimed

LEMMA JudgeVerdicts ==
  ASSUME NEW w, NEW b, NEW a PROVE JudgeVerdict(w, b, a) \in Verdicts \ {"none"}
  BY DEF JudgeVerdict, Verdicts

-----------------------------------------------------------------------------
(* Types *)

\* The verdict is a status of the proof, it is there exactly when the verification is over, and
\* nothing is verified before the whole lap has run: for every corpus and all cards.
THEOREM VerifierTypes == Spec => []TypeOK
<1>1. Init => TypeOK
  BY DEF Init, TypeOK, Verdicts
<1>2. TypeOK /\ [Next]_vars => TypeOK'
  <2> SUFFICES ASSUME TypeOK, [Next]_vars PROVE TypeOK'
    OBVIOUS
  <2>1. CASE Gates
    BY <2>1, GateVerdicts DEF Gates, Reject, TypeOK, Verdicts
  <2>2. CASE Execute
    <3>1. PICK r : r.err \in Statuses /\ IF r.err # "ok" THEN Reject(r.err) ELSE UNCHANGED <<pc, verdict>>
      BY <2>2, StepEnds DEF Execute
    <3>2. Errors \subseteq Verdicts \ {"none", "verified"}
      BY DEF Errors, Verdicts
    <3>3. CASE r.err # "ok"
      BY <2>2, <3>1, <3>2, <3>3 DEF Execute, Reject, TypeOK, Statuses
    <3>4. CASE r.err = "ok"
      BY <2>2, <3>1, <3>4 DEF Execute, TypeOK
    <3> QED BY <3>3, <3>4
  <2>3. CASE StartLoop
    BY <2>3 DEF StartLoop, TypeOK
  <2>4. CASE Judge
    BY <2>4, JudgeVerdicts DEF Judge, TypeOK
  <2>5. CASE UNCHANGED vars
    BY <2>5 DEF vars, TypeOK
  <2> QED BY <2>1, <2>2, <2>3, <2>4, <2>5 DEF Next
<1> QED BY <1>1, <1>2, PTL DEF Spec

-----------------------------------------------------------------------------
(* The verifier implements the judgement *)

\* Between two steps, running what is left to do gives what the whole sequence gives.
OnTheWay ==
  /\ witness \in Corpus /\ IsSequence(todo)
  /\ pc \in {"gates", "setup"} => RunSequence(state, todo) = AfterSetup(witness)
  /\ pc \in {"setup", "loop"} => Admissible(witness)
  /\ pc = "loop" => /\ AfterSetup(witness) = Ok(before)
                    /\ RunSequence(state, todo) = AfterLap(witness, Ok(before))

LEMMA OnTheWayInit == Init => OnTheWay
  BY CorpusAssumption DEF Init, OnTheWay, AfterSetup

LEMMA OnTheWayNext == TypeOK /\ OnTheWay /\ [Next]_vars => OnTheWay'
<1> SUFFICES ASSUME TypeOK, OnTheWay, [Next]_vars PROVE OnTheWay'
  OBVIOUS
<1>1. CASE Gates
  BY <1>1, GatesAreAdmissible DEF Gates, Reject, OnTheWay
<1>2. CASE Execute
  <2>1. PICK r : /\ r = RunStep(state, Head(todo)) /\ state' = r.st
                 /\ IF r.err # "ok" THEN Reject(r.err) ELSE UNCHANGED <<pc, verdict>>
    BY <1>2 DEF Execute
  <2>2. IsSequence(todo')
    BY <1>2, SequenceTail DEF Execute, OnTheWay
  <2>3. CASE r.err = "ok"
    <3>1. RunSequence(state', todo') = RunSequence(state, todo)
      BY <1>2, <2>1, <2>3, SequenceFirst DEF Execute, OnTheWay
    <3> QED BY <1>2, <2>1, <2>2, <2>3, <3>1 DEF Execute, OnTheWay
  <2>4. CASE r.err # "ok"
    BY <1>2, <2>1, <2>2, <2>4 DEF Execute, Reject, OnTheWay
  <2> QED BY <2>3, <2>4
<1>3. CASE StartLoop
  <2>1. AfterSetup(witness) = Ok(state)
    BY <1>3, SequenceEmpty DEF StartLoop, OnTheWay
  <2>2. RunSequence(state, witness.loop_actions) = AfterLap(witness, Ok(state))
    BY DEF AfterLap, Ok
  <2> QED BY <1>3, <2>1, <2>2, CorpusAssumption DEF StartLoop, OnTheWay
<1>4. CASE Judge
  BY <1>4 DEF Judge, OnTheWay
<1>5. CASE UNCHANGED vars
  BY <1>5 DEF vars, OnTheWay
<1> QED BY <1>1, <1>2, <1>3, <1>4, <1>5 DEF Next

LEMMA StepIsDecide ==
  TypeOK /\ OnTheWay /\ [Next]_vars => [J!Decide]_<<witness, verdict>>
<1> SUFFICES ASSUME TypeOK, OnTheWay, [Next]_vars
             PROVE  J!Decide \/ UNCHANGED <<witness, verdict>>
  OBVIOUS
<1>1. CASE Gates
  <2>1. CASE GateVerdict(witness) = "none"
    BY <1>1, <2>1 DEF Gates
  <2>2. CASE GateVerdict(witness) # "none"
    <3>1. verdict = "none" /\ verdict' = GateVerdict(witness) /\ witness' = witness
      BY <1>1, <2>2 DEF Gates, Reject, TypeOK
    <3>2. ~Admissible(witness)
      BY <2>2, GatesAreAdmissible DEF OnTheWay
    <3>3. verdict' # "verified" /\ verdict' # "none"
      BY <3>1, <2>2, GateVerdicts
    <3> QED BY <3>1, <3>2, <3>3 DEF J!Decide, IsLoop
  <2> QED BY <2>1, <2>2
<1>2. CASE Execute
  <2>1. PICK r : /\ r = RunStep(state, Head(todo))
                 /\ IF r.err # "ok" THEN Reject(r.err) ELSE UNCHANGED <<pc, verdict>>
    BY <1>2 DEF Execute
  <2>2. CASE r.err = "ok"
    BY <1>2, <2>1, <2>2 DEF Execute
  <2>3. CASE r.err # "ok"
    <3>1. RunSequence(state, todo) = r
      BY <1>2, <2>1, <2>3, SequenceFirst DEF Execute, OnTheWay
    <3>2. r.err \notin {"none", "verified"}
      BY <2>1, <2>3, StepEnds DEF Statuses, Errors
    <3>3. verdict = "none" /\ verdict' = r.err /\ witness' = witness
      BY <1>2, <2>1, <2>3 DEF Execute, Reject, TypeOK
    <3>4. CASE pc = "setup"
      <4>1. AfterSetup(witness) = r
        BY <3>1, <3>4 DEF OnTheWay
      <4>2. \A a : Failure(r, a) = Some(r.err) /\ ~IsLoop(witness, r, a)
        BY <2>3 DEF Failure, IsLoop
      <4> QED BY <3>2, <3>3, <4>1, <4>2 DEF J!Decide, Some
    <3>5. CASE pc = "loop"
      <4>1. AfterSetup(witness) = Ok(before) /\ AfterLap(witness, Ok(before)) = r
        BY <3>1, <3>5 DEF OnTheWay
      <4>2. Failure(Ok(before), r) = Some(r.err) /\ ~IsLoop(witness, Ok(before), r)
        BY <2>3, OkEnded DEF Failure, IsLoop
      <4> QED BY <3>2, <3>3, <4>1, <4>2 DEF J!Decide, Some
    <3> QED BY <1>2, <3>4, <3>5 DEF Execute
  <2> QED BY <2>2, <2>3
<1>3. CASE StartLoop
  BY <1>3 DEF StartLoop
<1>4. CASE Judge
  <2>1. /\ verdict = "none" /\ witness' = witness
        /\ verdict' = JudgeVerdict(witness, before, state)
    BY <1>4 DEF Judge, TypeOK
  <2>2. /\ AfterSetup(witness) = Ok(before) /\ AfterLap(witness, Ok(before)) = Ok(state)
        /\ Admissible(witness)
    BY <1>4, SequenceEmpty DEF Judge, OnTheWay
  <2>3. Failure(Ok(before), Ok(state)) = {}
    BY OkEnded DEF Failure, None
  <2>4. verdict' = "verified" <=> IsLoop(witness, Ok(before), Ok(state))
    BY <2>1, <2>2, JudgementIsLoop DEF OnTheWay
  <2>5. verdict' # "none"
    BY <2>1, JudgeVerdicts
  <2> QED BY <2>1, <2>2, <2>3, <2>4, <2>5 DEF J!Decide
<1>5. CASE UNCHANGED vars
  BY <1>5 DEF vars
<1> QED BY <1>1, <1>2, <1>3, <1>4, <1>5 DEF Next

\* Running the witness step by step, in this order of gates and with one merged relevant state,
\* verifies exactly the loops of the contract; a lap that cannot be run is rejected with the
\* status of the step that failed: for every corpus and all cards.
THEOREM VerifierImplementsJudgement == Spec => IsJudgement
<1>1. Init => J!Init
  BY DEF Init, J!Init
<1> QED BY <1>1, OnTheWayInit, OnTheWayNext, StepIsDecide, VerifierTypes, PTL
        DEF Spec, IsJudgement, J!Spec

=============================================================================
