------------------------------ MODULE MCFleet ------------------------------
(***************************************************************************)
(* Settings of Fleet for TLC.                                              *)
(***************************************************************************)
EXTENDS Fleet, TLC

CONSTANTS i1, i2, i3, h1, h2, h3

(* The first migration has two statements, the second one. *)
StatementCounts == <<2, 1>>

(* Two instances on hosts of their own, with object storage and discovery *)
Apart ==
  [instances |-> {i1, i2}, host |-> i1 :> h1 @@ i2 :> h2 @@ i3 :> h3,
   minio |-> TRUE, discovery |-> TRUE]

(* ... and three, two of them on one host *)
Together ==
  [instances |-> {i1, i2, i3}, host |-> i1 :> h1 @@ i2 :> h1 @@ i3 :> h3,
   minio |-> FALSE, discovery |-> FALSE]

All == {Apart, Together}
=============================================================================
