---------------------------- MODULE MCWorkbench -----------------------------
(* Two gold candidates, of which one is a labelled extra, with an absent one  *)
(* between them or none; one or two tabs.                                     *)
EXTENDS Workbench, TLC

CONSTANTS g1, g2, a1, t1, t2, yes, no

TwoRank == [i \in {g1, g2} |-> IF i = g1 THEN 0 ELSE 1]
ThreeRank == [i \in {g1, g2, a1} |-> CASE i = g1 -> 0 [] i = a1 -> 1 [] i = g2 -> 2]

(* The committed gold file: g1 is adjudicated, g2 is not. *)
OneOfTwo == [rows |-> [i \in Ids |-> CASE i = g1 -> yes [] i = g2 -> Unreviewed
                                       [] OTHER -> Missing],
             torn |-> FALSE]
Labels == (g1 :> yes)
AllFilters == Corpora \X Reviews
WholeQueue == {<<"all", "all">>}
TabSymmetry == Permutations(Tabs)
=============================================================================
