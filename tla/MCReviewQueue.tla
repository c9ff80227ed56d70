---------------------------- MODULE MCReviewQueue ----------------------------
(***************************************************************************)
(* Hints that ask for a proposal, an agent's proposals and the directory's *)
(* against vCard imports that settle the same sender: one address, known   *)
(* under two names, and the name a connector only hints at.                *)
(***************************************************************************)
EXTENDS EntityGraph, TLC

CONSTANTS e1, e2, e3, a1, c1, i1, i2, sender, listed, senderKey, listedKey, address

MCFullKey == (sender :> senderKey) @@ (listed :> listedKey)
MCNameKeys == (sender :> {senderKey}) @@ (listed :> {listedKey})

Hint(al, d, suggest) == [alias |-> al, raw |-> d, suggest |-> suggest]
MCHintLists ==
  {<<Hint(senderKey, sender, FALSE), Hint(address, sender, TRUE)>>,
   <<Hint(senderKey, sender, FALSE)>>,
   <<Hint(address, sender, FALSE)>>}

\* The directory lists the address; an agent proposes the name as its own alias.
MCExport == {<<address, listed>>}
MCSuggestions == {<<sender, senderKey>>}
MCCardContents == {[name |-> listed, emails |-> {address}, phones |-> {}]}

\* The same sender under two spellings of one name, for the rejected_again run.
OneKey == [d \in DisplayNames |-> senderKey]
OneKeySet == [d \in DisplayNames |-> {senderKey}]
MCSpellings == {<<Hint(address, sender, TRUE)>>, <<Hint(address, listed, TRUE)>>}

Interchangeable == Permutations(Entities) \cup Permutations(Importers)
=============================================================================
