------------------------------- MODULE Verifier -------------------------------
(***************************************************************************)
(* Verifier.verify of verify/verifier.py: the gates a witness passes       *)
(* before anything is executed, the run of its setup and of one lap of its *)
(* loop, step by step, and the judgement of that lap.                      *)
(***************************************************************************)
EXTENDS LoopContract

CONSTANT Corpus  \* the witnesses handed to the verifier

ASSUME MaxEssentialCardsAssumption == MaxEssentialCards \in 1..3

\* Of a witness the verifier relies on this: it starts on a board of the classes, its two sequences
\* are sequences, the number of its essential cards is a number, and it claims at most one net state.
ASSUME CorpusAssumption ==
  \A w \in Corpus :
    /\ IsState(FromSpec(w.initial_state)) /\ Named(FromSpec(w.initial_state))
    /\ IsSequence(w.setup_actions) /\ IsSequence(w.loop_actions)
    /\ w.essential_card_count \in Nat
    /\ \A net1, net2 \in w.expected_net_state : net1 = net2

VARIABLES
  witness,  \* the witness under verification
  pc,       \* "gates", "setup", "loop", "rejected" or "judged"
  todo,     \* the steps of the current sequence that are still to run
  state,    \* the executor's state
  before,   \* the copy of it taken between setup and loop
  verdict   \* "none", or the VerificationStatus of the proof
vars == <<witness, pc, todo, state, before, verdict>>

Verdicts ==
  {"none", "verified", "nondeterministic", "unsupported_rule", "unsupported_semantics",
   "external_functional_piece_required", "state_not_recurrent", "not_a_loop",
   "resource_deficit", "illegal_action", "illegal_target", "timing_violation",
   "mana_restriction", "once_per_turn_limit", "opponent_cooperation_required"}

-----------------------------------------------------------------------------
(* The gates, in the order of the code *)
\* Mutant: the setup is not looked at.
UsesLifelinkSeed_LoopOnly(w) ==
  \E step \in ToSet(w.loop_actions) : step.op = "seed_grant_lifelink"

UsesLifelinkSeed(w) ==
  \E step \in ToSet(w.setup_actions \o w.loop_actions) : step.op = "seed_grant_lifelink"
LifelinkQuarantine(w) ==
  UsesLifelinkSeed(w) /\ w.essential_cards # {} /\ w.essential_cards \subseteq ExactOracles
Unsupported(w) ==
  \/ w.semantic_coverage = "partial_relevant_to_proof"
  \/ \E oracle \in w.card_semantics : RelevantUnsupported(Cards[oracle])
NeedsMore(w) ==
  w.functional_external_requirements \/ w.essential_card_count > MaxEssentialCards
BadPath(w) == \E path \in DOMAIN w.relevant_state : ~ValidPath(path)

GateVerdict(w) ==
  IF ~w.deterministic THEN "nondeterministic"
  ELSE IF LifelinkQuarantine(w) THEN "unsupported_rule"
  ELSE IF Unsupported(w) THEN "unsupported_semantics"
  ELSE IF NeedsMore(w) THEN "external_functional_piece_required"
  ELSE IF BadPath(w) THEN "state_not_recurrent"
  ELSE "none"

\* What follows the run of the loop: recurrence, outputs, net state, claim.
JudgeVerdict(w, b, a) ==
  IF ~CheckRecurrence(b, a, EffectiveRelevantState(w, b)) THEN "state_not_recurrent"
  ELSE IF \/ ~CheckOutputs(b, a, w.expected_outputs)
          \/ w.expected_net_state \notin {None, Some(NetState(b, a))}
          \/ ClaimMismatch(DerivedClaim(NetState(b, a)), w.expected_claim_consequence)
       THEN "not_a_loop"
  ELSE "verified"

-----------------------------------------------------------------------------
Init ==
  /\ witness \in Corpus
  /\ pc = "gates" /\ verdict = "none" /\ todo = witness.setup_actions
  /\ state = FromSpec(witness.initial_state) /\ before = state

Reject(status) == pc' = "rejected" /\ verdict' = status

\* All gates are passed before the first step is executed.
Gates ==
  /\ pc = "gates"
  /\ IF GateVerdict(witness) # "none" THEN Reject(GateVerdict(witness))
     ELSE pc' = "setup" /\ UNCHANGED verdict
  /\ UNCHANGED <<witness, todo, state, before>>

\* run_sequence: the next step of the setup or of the loop; its first error is the verdict.
Execute ==
  /\ pc \in {"setup", "loop"} /\ todo # <<>>
  /\ \E r \in {RunStep(state, Head(todo))} :
       /\ state' = r.st
       /\ IF r.err # "ok" THEN Reject(r.err) ELSE UNCHANGED <<pc, verdict>>
  /\ todo' = Tail(todo)
  /\ UNCHANGED <<witness, before>>

\* The copy between setup and loop.
StartLoop ==
  /\ pc = "setup" /\ todo = <<>>
  /\ before' = state /\ todo' = witness.loop_actions /\ pc' = "loop"
  /\ UNCHANGED <<witness, state, verdict>>

\* Mutant: the lap is judged before all of it has run.
Judge_Early ==
  /\ pc = "loop"
  /\ pc' = "judged" /\ verdict' = JudgeVerdict(witness, before, state)
  /\ UNCHANGED <<witness, todo, state, before>>

Judge ==
  /\ pc = "loop" /\ todo = <<>>
  /\ pc' = "judged" /\ verdict' = JudgeVerdict(witness, before, state)
  /\ UNCHANGED <<witness, todo, state, before>>

Next == Gates \/ Execute \/ StartLoop \/ Judge

Spec == Init /\ [][Next]_vars

-----------------------------------------------------------------------------
(* Properties *)

\* Every field has its type; steps are only left over by a rejection, and nothing is verified
\* before the lap has been judged.
TypeOK ==
  /\ verdict \in Verdicts
  /\ pc \in {"gates", "setup", "loop", "rejected", "judged"}
  /\ pc \in {"rejected", "judged"} <=> verdict # "none"
  /\ pc = "judged" => todo = <<>>
  /\ verdict = "verified" => pc = "judged"

\* The proof is of kind VALID.
Verified == pc = "judged" /\ verdict = "verified"

\* A verified lap satisfies every dimension the verifier owns, whatever the witness declares for
\* the same path or leaves out (ADR 0008): the queue of triggers is as long as before, no
\* once-per-turn ability was used up, no -1/-1 counter was left on a payer.
MandatoryHold ==
  Verified =>
    \A path \in OncePerTurnPaths(witness.loop_actions, before) \cup M1M1PayPaths(before)
                \cup {PendingPath} :
      At(state, path) = At(before, path)

\* No verified loop activates an ability that works once per turn: it would be used up after the
\* lap and was not before it.
OncePerTurnNotInLoop ==
  Verified => OncePerTurnPaths(witness.loop_actions, before) = {}

\* A lap that declares what the search declares (derive_relevant_state) can be run again and
\* again: after one more lap and after two, without an error, what the witness and the verifier
\* pin still recurs against the state before, and the outputs of each lap are produced again (README.md:41: "if you run these steps under these assumptions,
\* the board returns to a repeatable state and the stated advantage accumulates").
DeclaresAsSearched ==
  witness.relevant_state = DeriveRelevantState(witness.initial_state, before, witness.loop_actions)
Laps ==
  LET after[n \in 0..2] ==
        IF n = 0 THEN Ok(state) ELSE RunSequence(after[n - 1].st, witness.loop_actions)
  IN after
Repeats(from, to) ==
  /\ to.err = "ok"
  /\ CheckRecurrence(before, to.st, EffectiveRelevantState(witness, before))
  /\ CheckOutputs(from, to.st, witness.expected_outputs)
VerifiedRepeats ==
  Verified /\ DeclaresAsSearched => \E after \in {Laps} : \A n \in 1..2 : Repeats(after[n - 1].st, after[n])

\* The verdict is the one of Judgement, which looks at the two sequences as wholes and at the
\* declared and the mandatory dimensions apart: running step by step, in this order of gates and
\* with one merged relevant state, verifies exactly the loops.
J == INSTANCE Judgement
IsJudgement == J!Spec

=============================================================================
