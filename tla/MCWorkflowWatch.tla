-------------------------- MODULE MCWorkflowWatch ---------------------------
(* Instances of WorkflowWatch for TLC. *)
EXTENDS WorkflowWatch

\* Two packages, so that a sweep reads one while the other changes, and two
\* tabs, so that one can leave a package that the other still watches.
TwoPackages == {"report", "triage"}
TwoTabs == {"tab1", "tab2"}

=============================================================================
