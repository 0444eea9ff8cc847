--------------------------- MODULE MCJudgeService ---------------------------
(* As in MCCodeRunner.                                                       *)
EXTENDS JudgeService, TLC

Symmetry == Permutations(Workers) \cup Permutations(Submissions)
              \cup Permutations(Containers)
=============================================================================
