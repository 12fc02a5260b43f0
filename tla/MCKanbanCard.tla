---------------------------- MODULE MCKanbanCard ----------------------------
(* Instances of KanbanCard for TLC. *)
EXTENDS KanbanCard, TLC

\* What the command line and the prompts offer.  The MCP door takes any name
\* of a stage, "unattended" included.
Offered == {"attended", "red", "green", "finished"}

\* Callers run the same code, and one test is as good as another.
Symmetry == Permutations(Callers) \cup Permutations(Tests)

=============================================================================
