--------------------------- MODULE MCReviewLifecycle ---------------------------
(* Small instances of ReviewLifecycle for TLC. *)
EXTENDS ReviewLifecycle, TLC

\* Requests are interchangeable, and so are findings: safety runs only.
Symmetry == Permutations(Calls) \cup Permutations(Findings)

=============================================================================
