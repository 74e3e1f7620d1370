--------------------------- MODULE MCCompileServer ---------------------------
(* CompileServer for TLC.  Submissions are interchangeable, and so are servers. *)
EXTENDS CompileServer, TLC

JobSymmetry == Permutations(Jobs) \cup Permutations(Servers)

=============================================================================
