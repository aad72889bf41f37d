-------------------------------- MODULE MCDesk --------------------------------
(***************************************************************************)
(* Instances of StateDesk, ItemCreate, Forms and Selector for TLC: what a  *)
(* user does on one page, or in one search field, of the four.  They share *)
(* no state in the browser.                                                *)
(***************************************************************************)
EXTENDS StateDesk, ItemCreate, Forms, Selector

CONSTANTS o1, o2

VARIABLE page

TwoObjects == {o1, o2}
SomeLists == {<<>>, <<o2, o1>>, <<o2, o2>>, <<o2, NoObject>>}

\* An ampersand ends the parameter.
CutAtAmpersand == [p \in {"", "A", "B", "A&B"} |-> IF p = "A&B" THEN "A" ELSE p]

Init ==
  /\ page \in {"state", "items", "form", "selector"}
  /\ DeskInit /\ ItemInit /\ FormInit /\ SelectorInit
  \* One initial state of the pages that are not used is enough.
  /\ page = "state" \/ (box = "quickLoan" /\ status = [o \in Objects |-> "InStock"])
  /\ page = "items" \/ taken = {}
  /\ page = "form" \/ form = QuickMove
  /\ page = "selector" \/ kind = SelectObject

Next ==
  /\ page' = page
  /\ \/ page = "state" /\ DeskNext /\ UNCHANGED <<itemVars, formVars, selectorVars>>
     \/ page = "items" /\ ItemNext /\ UNCHANGED <<deskVars, formVars, selectorVars>>
     \/ page = "form" /\ FormNext /\ UNCHANGED <<deskVars, itemVars, selectorVars>>
     \/ page = "selector" /\ SelectorNext /\ UNCHANGED <<deskVars, itemVars, formVars>>

Spec ==
  /\ Init /\ [][Next]_<<page, deskVars, itemVars, formVars, selectorVars>>
  /\ DeskFairness /\ FormFairness

TypeOK == DeskTypeOK /\ ItemTypeOK /\ FormTypeOK /\ SelectorTypeOK

\* Every click comes to an end, in the boxes that change states and in the forms:
\* the flag is given back, unless the callback of a box or the click on an
\* untouched list of moves threw after it was set, or the form was left.
FlagsFreed == Freed /\ FormFreed
=============================================================================
