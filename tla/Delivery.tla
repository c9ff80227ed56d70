------------------------------- MODULE Delivery -------------------------------
(***************************************************************************)
(* What a connector promises with its file of what need not be sent again, *)
(* with no batches, no runs, no failures and no other processes: delivery  *)
(* at least once. An item may be sent any number of times, and the file    *)
(* may forget that it was; it never names an item too early.               *)
(***************************************************************************)
CONSTANT Items

VARIABLES
  delivered,   \* the items the server has
  passed       \* the items the file says need not be sent again

Init == delivered = {} /\ passed = {}

\* The server takes some items. What it has, it does not lose.
Deliver ==
  /\ delivered \subseteq delivered' /\ delivered' \subseteq Items
  /\ UNCHANGED passed

\* The file is written: as it is up to date, or as an older run remembers it.
Pass ==
  /\ passed' \subseteq delivered
  /\ UNCHANGED delivered

Next == Deliver \/ Pass

Spec == Init /\ [][Next]_<<delivered, passed>>
=============================================================================
