------------------------------ MODULE OracleText ------------------------------
(***************************************************************************)
(* Cards as they are printed.  A text is a sequence of lines, a line the   *)
(* sequence of its sentences (an empty line has none), and a sentence is   *)
(* what the compiler tells apart in it:                                    *)
(*   price    what stands before its colon, cut at the commas; each part   *)
(*            is the sequence of the symbols in its braces, or words       *)
(*   says     the rest, one phrase for all the wordings that a regular     *)
(*            expression takes for the same                                *)
(*   symbols  the mana symbols in it,   n  the number in it                *)
(*   token    the token it names: its name, the words of it, power and     *)
(*            toughness                                                    *)
(*   opens    whether it begins as an ability does (ability_start), splits *)
(*            and reminds are read by the splitter                         *)
(*   letters  whether it is of letters and blanks only                     *)
(***************************************************************************)
EXTENDS TLC

Colors == ("W" :> "white") @@ ("U" :> "blue") @@ ("B" :> "black") @@ ("R" :> "red")
          @@ ("G" :> "green") @@ ("C" :> "colorless")
Digits == ("0" :> 0) @@ ("1" :> 1) @@ ("2" :> 2) @@ ("3" :> 3) @@ ("4" :> 4) @@ ("5" :> 5)
\* The symbols of Oracle text that are no mana: tap, untap and energy.
Symbols == DOMAIN Colors \cup DOMAIN Digits \cup {"T", "Q", "E", "X"}

NoToken == [name |-> "", words |-> {}, pt |-> <<1, 1>>]
Sentence ==
  [price |-> <<>>, says |-> "", symbols |-> <<>>, n |-> 1, token |-> NoToken,
   opens |-> TRUE, splits |-> FALSE, reminds |-> FALSE, letters |-> FALSE]

\* mana_value is None for a card whose cost gives it.
Printed == [words |-> {}, types |-> {}, mana_cost |-> <<>>, mana_value |-> {}, text |-> <<>>]

=============================================================================
