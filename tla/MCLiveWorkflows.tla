-------------------------- MODULE MCLiveWorkflows --------------------------
(* Instances of LiveWorkflows for TLC: a parent package that mounts a child. *)
EXTENDS LiveWorkflows, TLC

CONSTANTS parent, child

ParentMountsChild == [s \in Slugs |-> IF s = parent THEN {child} ELSE {}]

\* The parent is on disk; the child may not be there yet.
ParentOnDisk == {[s \in Slugs |-> IF s = parent THEN 1 ELSE v] : v \in {0, 1}}

NoMounts == [s \in Slugs |-> {}]
AllOnDisk == {[s \in Slugs |-> 1]}

\* The two threads run the same code: sound for the safety properties.
ThreadSymmetry == Permutations(Threads)

=============================================================================
