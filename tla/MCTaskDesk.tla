----------------------------- MODULE MCTaskDesk -----------------------------
(* Instances of TaskDesk for TLC. *)
EXTENDS TaskDesk, TLC

CONSTANTS c1, c2, c3, here, there

\* c1 and c2 run two tool calls of one conversation at once, as a ToolNode
\* does; c3 belongs to another conversation.
HereAndThere == [c \in Callers |-> IF c = c3 THEN there ELSE here]

\* Callers of one conversation run the same code.
CallerSymmetry == Permutations(Callers)

=============================================================================
