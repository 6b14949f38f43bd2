------------------------- MODULE MCSessionManager -------------------------
(* Small instances of SessionManager for TLC.                            *)
EXTENDS SessionManager, TLC

\* Sessions, sandboxes and snapshots are interchangeable.
Symmetry == Permutations(Ids) \cup Permutations(Sandboxes)
                \cup Permutations(Snapshots)
=============================================================================
