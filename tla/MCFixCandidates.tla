--------------------------- MODULE MCFixCandidates ---------------------------
EXTENDS FixCandidates, TLC

\* Findings and candidates are not told apart.
IdsAreAlike == Permutations(Issues) \cup Permutations(Candidates)

\* A file of two lines in which both are new, as one hunk or as two.
MCHunks == {{[first |-> 1, last |-> 2]}, {[first |-> i, last |-> i] : i \in 1..2}}

==============================================================================
