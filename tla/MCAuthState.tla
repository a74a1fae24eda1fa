---------------------------- MODULE MCAuthState ----------------------------
(* Two requests of one user at a time.                                       *)
EXTENDS AuthState, TLC

CONSTANTS r1, r2

TwoRequests == {r1, r2}
Symmetry == Permutations(TwoRequests)
=============================================================================
