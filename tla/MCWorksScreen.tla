--------------------------- MODULE MCWorksScreen ---------------------------
(* One work is enough for flags and for the enabling of the screen, which  *)
(* never depend on which work it is; two are the smallest trash in which a *)
(* row can come to stand for another work; three let a list change around  *)
(* a work that stays.                                                      *)
EXTENDS WorksScreen

CONSTANTS w1, w2, w3

MCWork1 == {w1}
MCWorkOrder1 == <<w1>>

MCWork2 == {w1, w2}
MCWorkOrder2 == <<w1, w2>>

MCWork3 == {w1, w2, w3}
MCWorkOrder3 == <<w1, w2, w3>>
=============================================================================
