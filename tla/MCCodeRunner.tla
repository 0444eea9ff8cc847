---------------------------- MODULE MCCodeRunner ----------------------------
(* Workers, submissions and containers are interchangeable: the safety runs  *)
(* without a fixed role for any of them are reduced by symmetry.             *)
EXTENDS CodeRunner, TLC

Symmetry == Permutations(Workers) \cup Permutations(Submissions)
              \cup Permutations(Containers)
=============================================================================
