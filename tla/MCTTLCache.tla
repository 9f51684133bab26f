----------------------------- MODULE MCTTLCache -----------------------------
(* A small instance of TTLCache: the keys are kept for different times.     *)
EXTENDS TTLCache

CONSTANTS c1, c2, c3, k1, k2

MCFetchTTL == [k \in Keys |-> IF k = k1 THEN 1 ELSE 2]

=============================================================================
