----------------------------- MODULE MCRunStream -----------------------------
(* Instances of RunStream for TLC. *)
EXTENDS RunStream

CONSTANTS w1, w2, bg, twin, deep, mount

\* Two workers of two orchestrators whose plans both say "task-1", a child on
\* the desk, a delegation that reuses its call's id, one without an id and a
\* mounted workflow.
EveryKind == (w1 :> "fanout") @@ (w2 :> "fanout") @@ (bg :> "async")
               @@ (twin :> "subagent") @@ (deep :> "subagent") @@ (mount :> "subgraph")
TheirKeys == (w1 :> "task-1") @@ (w2 :> "task-1") @@ (bg :> "call-1")
               @@ (twin :> "call-1") @@ (deep :> NoKey) @@ (mount :> "audit")

=============================================================================
