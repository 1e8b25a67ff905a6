--------------------------- MODULE MCContinuation ---------------------------
(* Two callers around one task.                                            *)
EXTENDS Continuation, TLC

Alike == Permutations(Callers) \cup Permutations(Handoffs) \cup Permutations(RunIds) \cup Permutations(ApprovalIds)
             \cup Permutations(Digests) \cup Permutations(Objectives)
=============================================================================
