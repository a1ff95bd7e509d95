--------------------------- MODULE MCTokenCache ---------------------------
(* A small instance of TokenCache: a token lives two ticks and is renewed  *)
(* one tick before its end.                                                *)
EXTENDS TokenCache, TLC

Symmetry == Permutations(Worker)
=============================================================================
