----------------------------- MODULE MCChunkReview -----------------------------
(* A file in two chunks that share their border row, as two declarations on     *)
(* one line do: one of that single line, which cannot be split, and one whose   *)
(* halves are uneven: the first ends with an empty line, so that it has too     *)
(* little text to be split again, the second can be.                            *)
EXTENDS ChunkReview

MCPlan == << [from |-> 1, to |-> 5], [from |-> 5, to |-> 5] >>

=============================================================================
