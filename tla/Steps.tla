--------------------------------- MODULE Steps ---------------------------------
(***************************************************************************)
(* The executor for a set of cards, as the runs of a board, the verifier   *)
(* and the search use it: its parameters, and what is known of the cards.  *)
(***************************************************************************)
EXTENDS Naturals, TLC

CONSTANTS
  Cards,      \* the semantics map: [oracle ids -> CardSemantics]
  ObjectIds,  \* every object id of the board, tokens included, in string order
  TokenIds    \* the ids next_token_id hands out, in the order it does

INSTANCE Executor

\* next_token_id counts: it hands out no id twice.
ASSUME IdsAssumption ==
  /\ IsSequence(ObjectIds)
  /\ IsSequence(TokenIds) /\ IsInjective(TokenIds)

\* The cards are those of the IR; a spell's own body has no effect that runs another spell.
ASSUME CardsAssumption ==
  /\ IsFiniteSet(DOMAIN Cards)
  /\ \A oracle \in DOMAIN Cards :
       /\ WellFormed(Cards[oracle])
       /\ \A ab \in ToSet(Cards[oracle].abilities) : IsSpellBody(ab) => ListOf(ab.effects, BasicEffects)

=============================================================================
