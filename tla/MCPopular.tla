----------------------------- MODULE MCPopular -----------------------------
(* Two works are the fewest the screen shows at all.                       *)
EXTENDS Popular

CONSTANTS w1, w2

MCWork == {w1, w2}
=============================================================================
