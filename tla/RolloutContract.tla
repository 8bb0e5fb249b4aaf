--------------------------- MODULE RolloutContract --------------------------
(***************************************************************************)
(* What the version rollout promises, in terms of LTS lines only: the pods *)
(* are offered the line recorded for their data or the next one, and what  *)
(* is recorded is always the line on offer.  Copies, conflicts, restarts   *)
(* and the user's changes of mind do not appear.                           *)
(***************************************************************************)
EXTENDS Naturals

VARIABLES
  recorded,  \* the line of status.appliedMysqlVersion
  offered    \* the line of the StatefulSet's pod template

vars == <<recorded, offered>>

Lines == 0..2

Init == recorded \in Lines /\ offered = recorded

Offer(l) ==
  /\ l \in {recorded, recorded + 1}
  /\ offered' = l
  /\ UNCHANGED recorded

Record == recorded' = offered /\ UNCHANGED offered

Next == (\E l \in Lines : Offer(l)) \/ Record

Spec == Init /\ [][Next]_vars
=============================================================================
