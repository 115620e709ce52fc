----------------------- MODULE MCBroadcastOutputBuffer -----------------------
(* Small instances of BroadcastOutputBuffer. *)
EXTENDS BroadcastOutputBuffer, TLC

\* Consumers, pages and drivers are interchangeable.
Symmetry == Permutations(Id) \cup Permutations(Page) \cup Permutations(Driver)
=============================================================================
