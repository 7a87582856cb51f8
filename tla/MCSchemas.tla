------------------------------- MODULE MCSchemas -------------------------------
(***************************************************************************)
(* The documents TLC considers for Schemas: one, two that extend it, one   *)
(* after the other, by a nullable column, and one that changes the type of *)
(* its column.  A column that is missing or has another type fails the     *)
(* backward part of the check only; no pair fails the forward part alone,  *)
(* so mode full lets pass what backward does.                              *)
(***************************************************************************)
EXTENDS Schemas

CONSTANTS c1, c2, c3, t1, t2

Column(type, nullable) == [type |-> type, nullable |-> nullable]

MCColumns == {c1, c2, c3}
MCTypes == {t1, t2}
MCDocuments ==
    {[c \in {c1} |-> Column(t1, FALSE)],
     [c \in {c1, c2} |-> Column(t1, c = c2)],
     [c \in {c1, c2, c3} |-> Column(t1, c # c1)],
     [c \in {c1} |-> Column(t2, FALSE)]}
=============================================================================
