------------------------------ MODULE MCAtaDisk ------------------------------
(* AtaDisk with two contents of a sector and calls of one or two sectors, on a *)
(* drive of three. *)
EXTENDS AtaDisk

CONSTANTS x, y
=============================================================================
