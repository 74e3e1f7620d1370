---------------------------- MODULE MCJudgeSystem ----------------------------
(* JudgeSystem for TLC: two submissions that overtake each other, a machine  *)
(* that is killed and one that only times out.                               *)
EXTENDS JudgeSystem

=============================================================================
