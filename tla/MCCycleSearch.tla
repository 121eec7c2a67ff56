--------------------------- MODULE MCCycleSearch ---------------------------
(* Every wait-for graph of four transactions, searched in every order. *)
EXTENDS CycleSearch

CONSTANTS t1, t2, t3, t4

FourNodes == {t1, t2, t3, t4}
=============================================================================
