--------------------------- MODULE MC_HttpStream ----------------------------
(***************************************************************************)
(* Sessions and principals are interchangeable.                            *)
(***************************************************************************)
EXTENDS HttpStream, TLC

Symmetry == Permutations(Sessions) \cup Permutations(Principals)
=============================================================================
