--------------------------- MODULE MCAuthSessions ---------------------------
(* Browsers and requests are interchangeable.                                *)
EXTENDS AuthSessions, TLC

Symmetry == Permutations(Browsers) \cup Permutations(Requests)
=============================================================================
