------------------------------ MODULE LoopContract ------------------------------
(***************************************************************************)
(* What a loop is, of a witness w and the results b and a of its setup and *)
(* of one lap after it (verify/README.md, ADR 0008), without saying how or *)
(* in which order it is found out.                                         *)
(***************************************************************************)
EXTENDS Recurrence

CONSTANTS
  ExactOracles,      \* the oracle ids whose fixture has provenance ORACLE_EXACT
  MaxEssentialCards  \* EngineConfig.max_essential_cards

\* The two runs, each as a whole.
AfterSetup(w) == RunSequence(FromSpec(w.initial_state), w.setup_actions)
AfterLap(w, b) == RunSequence(b.st, w.loop_actions)

\* May the witness be judged at all?
Admissible(w) ==
  /\ w.deterministic
  /\ ~w.functional_external_requirements /\ w.essential_card_count <= MaxEssentialCards
  /\ w.semantic_coverage # "partial_relevant_to_proof"
  /\ \A oracle \in w.card_semantics : ~RelevantUnsupported(Cards[oracle])
  /\ w.essential_cards # {} /\ w.essential_cards \subseteq ExactOracles
       => \A step \in ToSet(w.setup_actions) \cup ToSet(w.loop_actions) :
            step.op # "seed_grant_lifelink"
  /\ \A path \in DOMAIN w.relevant_state : ValidPath(path)

\* The verifier's own dimensions are unchanged; what else is declared holds as declared.
Recurring(w, b, a) ==
  LET mandatory == DOMAIN MandatoryDimensions(w.loop_actions, b)
  IN /\ \A path \in mandatory : HasPath(a, path) /\ At(a, path) = At(b, path)
     /\ \A path \in DOMAIN w.relevant_state \ mandatory : Recurs(b, a, path, w.relevant_state[path])

Productive(w, b, a) ==
  /\ w.expected_outputs # {}
  /\ \A out \in w.expected_outputs :
       a.event_counters[out.type] - b.event_counters[out.type] >= out.delta

AsClaimed(w, b, a) ==
  /\ \A net \in w.expected_net_state : NetState(b, a) = net
  /\ \A claim \in w.expected_claim_consequence \cap DerivedConsequences :
       DerivedClaim(NetState(b, a)) = claim

\* b and a are the results of the setup and of one lap after it.
IsLoop(w, b, a) ==
  /\ Admissible(w) /\ b.err = "ok" /\ a.err = "ok"
  /\ Recurring(w, b.st, a.st) /\ Productive(w, b.st, a.st) /\ AsClaimed(w, b.st, a.st)

\* The status of the step that failed first, if one did.
Failure(b, a) == IF b.err # "ok" THEN Some(b.err) ELSE IF a.err # "ok" THEN Some(a.err) ELSE None

=============================================================================
