--------------------------- MODULE MCCommitPipeline ---------------------------
(* CommitPipeline with the writers as model values. *)
EXTENDS CommitPipeline
=============================================================================
