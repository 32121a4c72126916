------------------------------- MODULE Compiler -------------------------------
(***************************************************************************)
(* From Oracle text to semantics: split_oracle_abilities and               *)
(* compile_oracle_text of semantics/compiler.py.                           *)
(***************************************************************************)
EXTENDS Patterns

CONSTANT Texts  \* the printed cards, by oracle id

-----------------------------------------------------------------------------
(* Lines into clauses *)
IsKeywordLine(line) == Len(line) = 1 /\ line[1].says \in Keywords
StartsAbility(line) == Head(line).opens \/ IsKeywordLine(line)
Flush(acc) ==
  [clauses |-> IF acc.buf = <<>> THEN acc.clauses ELSE Append(acc.clauses, acc.buf), buf |-> <<>>]

\* Mutant: a line that does not start an ability is taken for a reminder.
TakeLine_DropsRest(acc, line) ==
  IF line = <<>> THEN Flush(acc)
  ELSE IF acc.buf = <<>> \/ StartsAbility(line) \/ IsKeywordLine(acc.buf)
       THEN [Flush(acc) EXCEPT !.buf = line]
       ELSE acc

\* A line that starts no ability goes on with the clause before it, unless that is of keywords.
TakeLine(acc, line) ==
  IF line = <<>> THEN Flush(acc)
  ELSE IF acc.buf = <<>> \/ StartsAbility(line) \/ IsKeywordLine(acc.buf)
       THEN [Flush(acc) EXCEPT !.buf = line]
       ELSE [acc EXCEPT !.buf = @ \o line]

\* A clause is cut before a sentence that starts an ability of its own and after a reminder.
CutsBefore(clause, j) == clause[j].splits \/ clause[j - 1].reminds
Abilities(clause) ==
  LET starts == SetToSortSeq({1} \cup {j \in 2..Len(clause) : CutsBefore(clause, j)}, <)
      last(i) == IF i = Len(starts) THEN Len(clause) ELSE starts[i + 1] - 1
  IN [i \in DOMAIN starts |-> SubSeq(clause, starts[i], last(i))]

SplitOracleAbilities(text) ==
  LET clauses == Flush(FoldLeft(TakeLine, [clauses |-> <<>>, buf |-> <<>>], text)).clauses
  IN FlattenSeq([i \in DOMAIN clauses |-> Abilities(clauses[i])])

-----------------------------------------------------------------------------
(* Clauses into semantics *)
FragmentOf(clause) == [text |-> clause, ability |-> TryMatch(clause)]
\* An empty text is one fragment that nothing matches.
Fragments(text) ==
  IF ToSet(text) \subseteq {<<>>} THEN <<[text |-> <<>>, ability |-> None]>>
  ELSE FoldLeft(LAMBDA fragments, clause : Append(fragments, FragmentOf(clause)),
                <<>>, SplitOracleAbilities(text))
Supported(fragments) == SelectSeq(fragments, LAMBDA f : f.ability # None)

\* Mutant: what is not understood does not matter.
CoverageOf_AnyMatch(fragments) ==
  IF Supported(fragments) # <<>> THEN "complete" ELSE "partial_relevant_to_proof"

CoverageOf(fragments) ==
  IF Supported(fragments) = fragments THEN "complete" ELSE "partial_relevant_to_proof"

\* compile_card and compile_oracle_text: the semantics of the report.
SemanticsOf(card, cost, fragments) ==
  [CardSemantics EXCEPT
     !.words = card.words, !.types = card.types, !.mana_cost = cost,
     !.mana_value = OrElse(card.mana_value, Total(cost)),
     !.abilities = FoldLeft(LAMBDA abilities, f : abilities \o SetToSeq(f.ability), <<>>, fragments),
     !.coverage = CoverageOf(fragments)]
Compiled(card) ==
  The({SemanticsOf(card, ParseManaBraces(card.mana_cost), fragments) :
       fragments \in {Fragments(card.text)}})
CompiledCards == [o \in DOMAIN Texts |-> Compiled(Texts[o])]

===============================================================================
