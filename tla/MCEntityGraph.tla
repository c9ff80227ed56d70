---------------------------- MODULE MCEntityGraph ----------------------------
(***************************************************************************)
(* A small graph: entities to be created and merged, one full name, one    *)
(* address, one artifact with hints and one vCard.                         *)
(***************************************************************************)
EXTENDS EntityGraph, TLC

CONSTANTS e1, e2, e3, a1, c1, i1, i2, n1, n2, x1, x2, d1, d2

MCFullKey == [d \in DisplayNames |-> n1]
MCNameKeys == [d \in DisplayNames |-> {n1}]

Hint(al, d, suggest) == [alias |-> al, raw |-> d, suggest |-> suggest]

MCHintLists ==
  {<<Hint(n1, d1, FALSE), Hint(x1, d1, FALSE)>>}

MCCardContents ==
  {[name |-> d1, emails |-> {x1}, phones |-> {}],
   [name |-> d1, emails |-> {}, phones |-> {}]}

MCForms == {[name |-> d1, addresses |-> {x1}], [name |-> d1, addresses |-> {}]}

Interchangeable == Permutations(Entities)
=============================================================================
