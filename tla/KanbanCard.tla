----------------------------- MODULE KanbanCard -----------------------------
(***************************************************************************)
(* abc/kanban_store.py, AbstractKanbanStore, over the conditional writes   *)
(* of kanban_sqlite.py (those of kanban_postgres.py are the same): one     *)
(* card of a board that agents in several processes and people work on.    *)
(*                                                                         *)
(* Every operation reads the card on one connection and writes it on       *)
(* another; a single statement is atomic, and anything may happen between  *)
(* the two.  A call that is refused on its first read changes nothing and  *)
(* is left out.  A process that dies takes no further step.                *)
(*                                                                         *)
(* evidence.test stands for the test id and the red reason, written        *)
(* together; evidence.green is the test the green call named, where the    *)
(* code keeps only that there was one; evidence.commit is "a commit".      *)
(***************************************************************************)
EXTENDS Naturals

CONSTANTS
  Callers,   \* agents and people
  Tests,     \* test ids
  Asked,     \* the stages callers ask for
  Nobody,    \* no actor, no answer
  NoTest,    \* a blank test id
  MaxCalls   \* bound: calls that are not refused on their first read

ASSUME MaxCallsIsNatural == MaxCalls \in Nat
ASSUME NobodyIsNoCaller == Nobody \notin Callers
ASSUME NoTestIsNoTest == NoTest \notin Tests

Stages == {"unattended", "attended", "red", "green", "finished"}

ASSUME AskedAreStages == Asked \subseteq Stages

\* required_previous_stage: one back in the list of stages; the list's item
\* before the first is its last.
Previous == [unattended |-> "finished", attended |-> "unattended",
             red |-> "attended", green |-> "red", finished |-> "green"]

Evidence == [test : Tests \cup {NoTest}, green : Tests \cup {NoTest}, commit : BOOLEAN]
Blank    == [test |-> NoTest, green |-> NoTest, commit |-> FALSE]

VARIABLES
  filed,     \* is there a row?
  judgement, \* is the card's kind one only a person may decide?
  stage, actor, evidence, answer,   \* the row's columns
  old,       \* is last_heartbeat_at set and past the threshold?
  pc,        \* pc[c]: what caller c has read and is about to write
  want,      \* want[c]: the stage of its set_stage
  carries,   \* carries[c]: the evidence that set_stage will write
  calls,
  holders,   \* history: who was told "ok" by attend since the card was free
  deciders   \* history: who was told "ok" by answer_card

card == <<stage, actor, evidence, answer, old>>
callVars == <<pc, want, carries, calls>>
vars == <<filed, judgement, card, callVars, holders, deciders>>

Active == stage \in {"attended", "red", "green"}

Begin(c, to) ==
  /\ filed
  /\ calls < MaxCalls
  /\ calls' = calls + 1
  /\ pc[c] = "idle"
  /\ pc' = [pc EXCEPT ![c] = to]

Return(c, from) == pc[c] = from /\ pc' = [pc EXCEPT ![c] = "idle"]

-----------------------------------------------------------------------------
(***************************************************************************)
(* file_card, file_idea_card.  The insert ignores an id that is taken: the *)
(* patrol's filing is then a no-op, the idea's is refused.  An idea names  *)
(* who filed it in the actor's column.                                     *)
(***************************************************************************)
Inserts == ~filed

File(who, isJudgement) ==
  /\ calls < MaxCalls
  /\ calls' = calls + 1
  /\ IF Inserts
     THEN /\ filed' = TRUE
          /\ judgement' = isJudgement
          /\ stage' = "unattended"
          /\ actor' = who
          /\ evidence' = Blank
          /\ answer' = Nobody
          /\ old' = FALSE
     ELSE UNCHANGED <<filed, judgement, card>>
  /\ UNCHANGED <<pc, want, carries, holders, deciders>>

-----------------------------------------------------------------------------
(***************************************************************************)
(* set_stage: the checks on the card that was read ...                     *)
(***************************************************************************)
\* The order of stages; "finished" is left to its evidence.
InOrder(s) ==
  CASE s = "attended" -> stage \in {"unattended", "attended"}
    [] s = "finished" -> TRUE
    [] OTHER -> stage = Previous[s]

\* What the evidence becomes, if the gate lets s pass; t is the caller's test.
Gate(s, t) ==
  CASE s = "red" -> {[evidence EXCEPT !.test = t]}
    [] s = "green" /\ t = evidence.test -> {[evidence EXCEPT !.green = t]}
    [] s = "finished" /\ NoTest \notin {evidence.test, evidence.green} ->
         {[evidence EXCEPT !.commit = TRUE]}
    [] s \in {"unattended", "attended"} -> {evidence}
    [] OTHER -> {}

Ask(c, s, t) ==
  \E e \in Gate(s, t) :
    /\ Begin(c, "stage")
    /\ InOrder(s)
    /\ want' = [want EXCEPT ![c] = s]
    /\ carries' = [carries EXCEPT ![c] = e]
    /\ UNCHANGED <<filed, judgement, card, holders, deciders>>

(***************************************************************************)
(* ... and _advance_stage, the one conditional UPDATE.                     *)
(***************************************************************************)
\* Mutants: the write is not conditional; it sets its own columns only.
ReadThenWrite(s) == TRUE
OwnColumns(e) == [evidence EXCEPT !.green = e.green, !.commit = e.commit,
                                  !.test = IF @ = NoTest THEN e.test ELSE @]

Matches(s) == stage = Previous[s]
Written(e) == e

\* The callers who may say the card is theirs, after c's write of s.
Holding(c, s) ==
  CASE s = "unattended" -> {}
    [] s = "attended" -> holders \cup {c}
    [] OTHER -> holders

Advance(c) ==
  LET s == want[c] IN
  /\ Return(c, "stage")
  /\ Matches(s)
  /\ stage' = s
  /\ actor' = c
  /\ evidence' = Written(carries[c])
  /\ old' = FALSE
  /\ holders' = Holding(c, s)
  /\ UNCHANGED <<filed, judgement, answer, want, carries, calls, deciders>>

\* Nothing was written; a lost attend reads the card again to say who has it.
AdvanceLost(c) ==
  /\ Return(c, "stage")
  /\ ~Matches(want[c])
  /\ UNCHANGED <<filed, judgement, card, want, carries, calls, holders, deciders>>

-----------------------------------------------------------------------------
(***************************************************************************)
(* release_card: flagged_stale reads the board, _reset_card writes.        *)
(***************************************************************************)
\* Mutant: the reset keeps the columns of the last report.
ClearedInPart == [Blank EXCEPT !.commit = evidence.commit, !.test = evidence.test]

Cleared == Blank
Stale == Active /\ old

Release(c) ==
  /\ Begin(c, "release")
  /\ Stale
  /\ UNCHANGED <<filed, judgement, card, want, carries, holders, deciders>>

Reset(c) ==
  /\ Return(c, "release")
  /\ IF stage # "unattended"
     THEN /\ stage' = "unattended"
          /\ actor' = Nobody
          /\ evidence' = Cleared
          /\ old' = FALSE
          /\ holders' = {}
     ELSE UNCHANGED <<stage, actor, evidence, old, holders>>
  /\ UNCHANGED <<filed, judgement, answer, want, carries, calls, deciders>>

\* An hour goes by without a word from whoever holds the card.
GrowOld ==
  /\ Active \/ stage = "finished"
  /\ ~old
  /\ old' = TRUE
  /\ UNCHANGED <<filed, judgement, stage, actor, evidence, answer,
                 callVars, holders, deciders>>

-----------------------------------------------------------------------------
(***************************************************************************)
(* answer_card: only a judgement nobody has claimed is waiting in Needs    *)
(* You, and an answer is written once.                                     *)
(***************************************************************************)
NeedsYou == stage = "unattended" /\ judgement /\ answer = Nobody

Decide(c) ==
  /\ Begin(c, "answer")
  /\ NeedsYou
  /\ UNCHANGED <<filed, judgement, card, want, carries, holders, deciders>>

\* Mutant: the UPDATE asks only for one half of its condition.
StillUnattended == stage = "unattended"

Unanswered == stage = "unattended" /\ answer = Nobody

RecordAnswer(c) ==
  /\ Return(c, "answer")
  /\ Unanswered
  /\ answer' = c
  /\ deciders' = deciders \cup {c}
  /\ UNCHANGED <<filed, judgement, stage, actor, evidence, old, want, carries, calls, holders>>

AnswerLost(c) ==
  /\ Return(c, "answer")
  /\ ~Unanswered
  /\ UNCHANGED <<filed, judgement, card, want, carries, calls, holders, deciders>>

-----------------------------------------------------------------------------
Init ==
  /\ filed = FALSE
  /\ judgement = FALSE
  /\ stage = "unattended" /\ actor = Nobody /\ evidence = Blank /\ answer = Nobody
  /\ old = FALSE
  /\ pc = [c \in Callers |-> "idle"]
  /\ want = [c \in Callers |-> "unattended"]
  /\ carries = [c \in Callers |-> Blank]
  /\ calls = 0
  /\ holders = {}
  /\ deciders = {}

SetStage(c) ==
  \/ \E s \in Asked, t \in Tests : Ask(c, s, t)
  \/ Advance(c) \/ AdvanceLost(c)

ReleaseCard(c) == Release(c) \/ Reset(c)
AnswerCard(c)  == Decide(c) \/ RecordAnswer(c) \/ AnswerLost(c)

Next ==
  \/ \E who \in Callers \cup {Nobody}, j \in BOOLEAN : File(who, j)
  \/ \E c \in Callers : SetStage(c) \/ ReleaseCard(c) \/ AnswerCard(c)
  \/ GrowOld

Spec == Init /\ [][Next]_vars

-----------------------------------------------------------------------------
\* The type invariant of every variable.
TypeOK ==
  /\ filed \in BOOLEAN /\ judgement \in BOOLEAN
  /\ stage \in Stages
  /\ actor \in Callers \cup {Nobody} /\ answer \in Callers \cup {Nobody}
  /\ evidence \in Evidence
  /\ old \in BOOLEAN
  /\ pc \in [Callers -> {"idle", "stage", "release", "answer"}]
  /\ want \in [Callers -> Stages]
  /\ carries \in [Callers -> Evidence]
  /\ calls \in Nat
  /\ holders \subseteq Callers /\ deciders \subseteq Callers

(***************************************************************************)
(* First caller wins (mcp_server.py:1434): from one moment the card is     *)
(* free to the next, at most one caller is told that it has the card, and  *)
(* while the card is with somebody, one was.                               *)
(***************************************************************************)
OneHolder ==
  /\ \A b, c \in holders : b = c
  /\ stage = "unattended" <=> holders = {}

(***************************************************************************)
(* The evidence gate: whatever is read before a release and written after  *)
(* it, a card past red has a test, the green it has is of that test, and a *)
(* resolved card has all of it.                                            *)
(***************************************************************************)
EvidenceGate ==
  /\ stage \in {"red", "green", "finished"} => evidence.test # NoTest
  /\ stage \in {"green", "finished"} => evidence.green = evidence.test
  /\ stage = "finished" => evidence.commit

(***************************************************************************)
(* No evidence is left "to bleed into whoever attends next"                *)
(* (abc/kanban_store.py:528): a card that is free or freshly attended      *)
(* carries none.                                                           *)
(***************************************************************************)
StartsClean == stage \in {"unattended", "attended"} => evidence = Blank

(***************************************************************************)
(* The first decision stands (answer_card): an answer, once recorded, is   *)
(* never replaced, not by a release or a second filing either.             *)
(***************************************************************************)
DecisionStands ==
  [][answer # Nobody => answer' = answer]_vars

\* ... and one caller was told "ok" by answer_card: the one the card names.
OneDecider == deciders = {answer} \ {Nobody}

\* "Only a judgement nobody has claimed carries a question to answer"
\* (answer_card): what was read holds when the answer is written.
AnsweredWhileWaiting ==
  [][answer' # answer => stage = "unattended" /\ judgement]_vars

(***************************************************************************)
(* "A genuine resume landing between the check and the write must not be   *)
(* silently clobbered" (abc/kanban_store.py:522): only a card that is      *)
(* stale when it is reset is reset.                                        *)
(***************************************************************************)
ReleasedWasStale ==
  [][stage # "unattended" /\ stage' = "unattended" => Stale]_vars

\* "Stage only ever advances, one step at a time" (abc/kanban_store.py:419),
\* except by a release.
OnlyAdvances ==
  [][stage' # stage => \/ stage = Previous[stage'] /\ stage # "finished"
                       \/ evidence' = Blank /\ actor' = Nobody]_vars

\* "Only the holder calls these" (abc/kanban_store.py:492): a card past
\* attended was moved there by the caller that was told it has it.
HolderAdvances == Active => actor \in holders

(***************************************************************************)
(* What the calls promise, each in one step: that every one of them reads  *)
(* first and writes later, with anything in between, does not show.        *)
(***************************************************************************)
Contract == INSTANCE WorkCard WITH told <- holders

CardSpec == Contract!Spec

=============================================================================
