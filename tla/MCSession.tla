----------------------------- MODULE MCSession -----------------------------
(* Two accounts, so that one can follow the other on the same device, and  *)
(* two canvas sizes.                                                       *)
EXTENDS Session

CONSTANTS a1, a2

MCAccount == {a1, a2}

MCSize == {8, 16}

MCDefaultSize == 8
=============================================================================
