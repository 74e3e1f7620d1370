--------------------------- MODULE MCLoadBalance ---------------------------
(* LoadBalance for TLC.  The workers of the thread pool are interchangeable, *)
(* so the safety runs reduce by their permutations; the liveness runs do not. *)
EXTENDS LoadBalance

WorkerSymmetry == Permutations(Workers)

=============================================================================
