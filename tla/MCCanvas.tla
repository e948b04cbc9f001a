------------------------------ MODULE MCCanvas ------------------------------
(* Two sizes, so that a grid can grow and shrink, and three shades, of    *)
(* which the middle one is stored as the lowest.                           *)
EXTENDS Canvas

MCSize == {1, 2}
=============================================================================
