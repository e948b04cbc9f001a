------------------------------ MODULE MCFeeds ------------------------------
(* Two works: the card shown and another one.                              *)
EXTENDS Feeds

CONSTANTS w1, w2

MCWork == {w1, w2}
=============================================================================
