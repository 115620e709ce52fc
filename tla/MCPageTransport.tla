--------------------------- MODULE MCPageTransport ---------------------------
(* Small instances of PageTransport. *)
EXTENDS PageTransport, TLC

\* Pages and exchanges are interchangeable.
Symmetry == Permutations(Page) \cup Permutations(Request)
=============================================================================
