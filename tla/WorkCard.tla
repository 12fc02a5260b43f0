------------------------------ MODULE WorkCard ------------------------------
(***************************************************************************)
(* What abc/kanban_store.py promises to agents and people, as if each of   *)
(* its calls were one step: a card is filed once, claimed by the first     *)
(* that asks, moved on one stage at a time with the evidence of the stage  *)
(* it reaches and of no other, emptied by a release, and decided once.     *)
(***************************************************************************)
CONSTANTS Callers, Tests, Nobody, NoTest

VARIABLES filed,      \* was the card filed?
          judgement,  \* may only a person decide it?
          stage,
          told,       \* who was told that the card is theirs
          evidence,   \* what the card shows
          answer      \* who decided it

vars == <<filed, judgement, stage, told, evidence, answer>>

Showing(t, g, c) == [test |-> t, green |-> g, commit |-> c]
Nothing == Showing(NoTest, NoTest, FALSE)

\* The evidence of a stage: a failing test, then that test passing, then a
\* commit besides.
EvidenceOf(s) ==
  CASE s = "attended" -> {Nothing}
    [] s = "red"      -> {Showing(t, NoTest, FALSE) : t \in Tests}
    [] s = "green"    -> {Showing(t, t, FALSE) : t \in Tests}
    [] s = "finished" -> {Showing(t, t, TRUE) : t \in Tests}

Before == [red |-> "attended", green |-> "red", finished |-> "green"]

Init ==
  /\ filed = FALSE
  /\ judgement = FALSE
  /\ stage = "unattended"
  /\ told = {}
  /\ evidence = Nothing
  /\ answer = Nobody

File(j) ==
  /\ ~filed
  /\ filed' = TRUE
  /\ judgement' = j
  /\ UNCHANGED <<stage, told, evidence, answer>>

Claim(c) ==
  /\ filed
  /\ stage = "unattended"
  /\ stage' = "attended"
  /\ told' = {c}
  /\ evidence' \in EvidenceOf("attended")
  /\ UNCHANGED <<filed, judgement, answer>>

\* Whose call it is, the store does not ask.
Report(s) ==
  /\ stage = Before[s]
  /\ stage' = s
  /\ evidence' \in EvidenceOf(s)
  /\ UNCHANGED <<filed, judgement, told, answer>>

\* The card looks as if nobody had ever touched it, but for its answer.  What
\* was stale when it was looked at may have moved on since, even to the end.
Release ==
  /\ stage # "unattended"
  /\ stage' = "unattended"
  /\ told' = {}
  /\ evidence' = Nothing
  /\ UNCHANGED <<filed, judgement, answer>>

Decide(c) ==
  /\ filed /\ judgement
  /\ stage = "unattended"
  /\ answer = Nobody
  /\ answer' = c
  /\ UNCHANGED <<filed, judgement, stage, told, evidence>>

Next ==
  \/ \E j \in BOOLEAN : File(j)
  \/ \E c \in Callers : Claim(c) \/ Decide(c)
  \/ \E s \in {"red", "green", "finished"} : Report(s)
  \/ Release

Spec == Init /\ [][Next]_vars

=============================================================================
