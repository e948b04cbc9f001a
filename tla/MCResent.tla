------------------------------ MODULE MCResent ------------------------------
(* Two works of one owner; five pending writes let a work be published,    *)
(* withdrawn and removed before the first of them is confirmed.            *)
EXTENDS Resent, TLC

CONSTANTS w1, w2

MCWork == {w1, w2}

(* The works are interchangeable, and the properties are all of safety.    *)
Symmetry == Permutations(MCWork)
=============================================================================
