--------------------------- MODULE MCUserAccounts ---------------------------
(* Small instances of UserAccounts. Symmetric in the browsers.              *)
EXTENDS UserAccounts, TLC

CONSTANTS u1, u2, u3, e1, e2, p1, p2

MCSymmetry == Permutations(Browsers) \cup Permutations(Users)

=============================================================================
