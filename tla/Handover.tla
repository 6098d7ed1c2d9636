------------------------------ MODULE Handover ------------------------------
(***************************************************************************)
(* What the write cutover of a database promises: the rows its clients see *)
(* move from the source to the target unchanged.  DBCutover implements it. *)
(***************************************************************************)
CONSTANT Ids

VARIABLES primary,  \* where the services read and write
          data      \* the rows they see there

vars == <<primary, data>>

Init == primary = "source" /\ data = {}

Insert == \E id \in Ids \ data : data' = data \cup {id} /\ UNCHANGED primary

Delete == \E id \in data : data' = data \ {id} /\ UNCHANGED primary

\* The switch loses no row and adds none; there is no way back.
Switch == primary = "source" /\ primary' = "target" /\ UNCHANGED data

Next == Insert \/ Delete \/ Switch

Spec == Init /\ [][Next]_vars
=============================================================================
