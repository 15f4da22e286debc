------------------------------ MODULE MCSqlLab ------------------------------
(* SqlLab on small instances. *)
EXTENDS SqlLab

CONSTANT q1
=============================================================================
