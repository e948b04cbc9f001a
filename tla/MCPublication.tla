--------------------------- MODULE MCPublication ---------------------------
(* Two works of one owner; four pending writes let two handlers with two   *)
(* writes each overlap.                                                    *)
EXTENDS Publication

CONSTANTS w1, w2

MCWork == {w1, w2}
=============================================================================
