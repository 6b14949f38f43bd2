-------------------------- MODULE MCSandboxPool --------------------------
(* Small instances of SandboxPool for TLC.                               *)
EXTENDS SandboxPool, TLC

\* Callers and sandboxes are interchangeable; used by runs without liveness.
Symmetry == Permutations(Callers) \cup Permutations(Sandboxes)
                \cup Permutations(Warmers)
=============================================================================
