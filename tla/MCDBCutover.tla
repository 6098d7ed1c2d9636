---------------------------- MODULE MCDBCutover ----------------------------
(***************************************************************************)
(* DBCutover as TLC runs it: the .cfg files give every constant its value. *)
(* Two keys are enough for a lost insert and a lost delete whose row       *)
(* counts agree, for a gap below the highest key, for a copy onto rows     *)
(* that are there already, and for changes logged before and after the     *)
(* publication was gone; a fault after the promotion takes a third.        *)
(***************************************************************************)
EXTENDS DBCutover
=============================================================================
