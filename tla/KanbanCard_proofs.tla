-------------------------- MODULE KanbanCard_proofs --------------------------
(***************************************************************************)
(* Proofs about KanbanCard, for any callers, tests and number of calls.    *)
(*                                                                         *)
(* RecordInv needs nothing of what callers ask for: who holds a card and   *)
(* who decided it follow from the conditions of the writes.  EvidenceInv   *)
(* holds as long as nobody asks for the stage "unattended".                *)
(***************************************************************************)
EXTENDS KanbanCard, TLAPS

\* A card that was not filed has the columns it will be filed with.
UnfiledIsBlank == ~filed => stage = "unattended" /\ answer = Nobody /\ evidence = Blank

\* A call past its read has read a card, and an answer's, a judgement.
CallsReadACard ==
  \A c \in Callers : /\ pc[c] # "idle" => filed
                     /\ pc[c] = "answer" => judgement

RecordInv ==
  /\ TypeOK
  /\ UnfiledIsBlank
  /\ CallsReadACard
  /\ OneHolder
  /\ OneDecider

\* What a row can hold at stage s, and so what a write of s carries.
SoundAt(s, e) ==
  /\ s \in {"unattended", "attended"} => e = Blank
  /\ s = "red" => e.test # NoTest /\ e.green = NoTest
  /\ s \in {"green", "finished"} => e.test # NoTest /\ e.green = e.test
  /\ e.commit <=> s = "finished"

EvidenceInv ==
  /\ RecordInv
  /\ SoundAt(stage, evidence)
  /\ \A c \in Callers : pc[c] = "stage" => /\ want[c] # "unattended"
                                            /\ SoundAt(want[c], carries[c])

-----------------------------------------------------------------------------
LEMMA BlankIsTyped == Blank \in Evidence
BY DEF Blank, Evidence

LEMMA RecordInvInit == Init => RecordInv
<1> SUFFICES ASSUME Init PROVE RecordInv
  OBVIOUS
<1>1. TypeOK
  BY BlankIsTyped DEF Init, TypeOK, Stages
<1>2. UnfiledIsBlank /\ CallsReadACard
  BY DEF Init, UnfiledIsBlank, CallsReadACard
<1>3. OneHolder /\ OneDecider
  BY DEF Init, OneHolder, OneDecider
<1> QED
  BY <1>1, <1>2, <1>3 DEF RecordInv

LEMMA GateIsTyped ==
  ASSUME TypeOK, NEW s \in Stages, NEW t \in Tests, NEW e \in Gate(s, t)
  PROVE  e \in Evidence
BY DEF TypeOK, Gate, Stages, Evidence

LEMMA RecordInvStep == RecordInv /\ [Next]_vars => RecordInv'
<1> SUFFICES ASSUME RecordInv, [Next]_vars PROVE RecordInv'
  OBVIOUS
<1> USE DEF RecordInv
<1>1. ASSUME NEW who \in Callers \cup {Nobody}, NEW j \in BOOLEAN, File(who, j)
      PROVE  RecordInv'
  <2>1. CASE filed
    BY <1>1, <2>1
    DEF File, Inserts, card, TypeOK, UnfiledIsBlank, CallsReadACard, OneHolder, OneDecider
  <2>2. CASE ~filed
    <3>1. TypeOK'
      <4>1. filed' \in BOOLEAN /\ judgement' \in BOOLEAN /\ old' \in BOOLEAN
        BY <1>1, <2>2 DEF File, Inserts
      <4>2. /\ stage' \in Stages /\ evidence' \in Evidence
            /\ actor' \in Callers \cup {Nobody} /\ answer' \in Callers \cup {Nobody}
        BY <1>1, <2>2, BlankIsTyped DEF File, Inserts, Stages
      <4>3. calls' \in Nat
        BY <1>1 DEF File, TypeOK
      <4> QED
        BY <1>1, <4>1, <4>2, <4>3 DEF File, TypeOK
    <3>2. UnfiledIsBlank' /\ CallsReadACard'
      BY <1>1, <2>2 DEF File, Inserts, UnfiledIsBlank, CallsReadACard
    <3>3. OneHolder' /\ OneDecider'
      BY <1>1, <2>2 DEF File, Inserts, UnfiledIsBlank, OneHolder, OneDecider
    <3> QED
      BY <3>1, <3>2, <3>3
  <2> QED
    BY <2>1, <2>2
<1>2. ASSUME NEW c \in Callers, NEW s \in Asked, NEW t \in Tests, Ask(c, s, t)
      PROVE  RecordInv'
  <2> PICK e \in Gate(s, t) :
        /\ Begin(c, "stage")
        /\ want' = [want EXCEPT ![c] = s]
        /\ carries' = [carries EXCEPT ![c] = e]
        /\ UNCHANGED <<filed, judgement, card, holders, deciders>>
    BY <1>2 DEF Ask
  <2>1. s \in Stages /\ e \in Evidence
    BY AskedAreStages, GateIsTyped
  <2> QED
    BY <2>1 DEF Begin, card, TypeOK, UnfiledIsBlank, CallsReadACard, OneHolder, OneDecider
<1>3. ASSUME NEW c \in Callers, Advance(c) PROVE RecordInv'
  <2>1. filed
    BY <1>3 DEF Advance, Return, CallsReadACard
  <2>2. TypeOK'
    BY <1>3 DEF Advance, Return, Written, Holding, TypeOK, Stages
  <2>3. OneHolder'
    BY <1>3 DEF Advance, Return, Matches, Previous, Holding, TypeOK, Stages, OneHolder
  <2> QED
    BY <1>3, <2>1, <2>2, <2>3
    DEF Advance, Return, TypeOK, UnfiledIsBlank, CallsReadACard, OneDecider
<1>4. ASSUME NEW c \in Callers, AdvanceLost(c) \/ AnswerLost(c) PROVE RecordInv'
  BY <1>4
  DEF AdvanceLost, AnswerLost, Return, card, TypeOK, UnfiledIsBlank, CallsReadACard,
      OneHolder, OneDecider
<1>5. ASSUME NEW c \in Callers, Release(c) \/ Decide(c) PROVE RecordInv'
  BY <1>5
  DEF Release, Decide, NeedsYou, Begin, card, TypeOK, UnfiledIsBlank, CallsReadACard,
      OneHolder, OneDecider
<1>6. ASSUME NEW c \in Callers, Reset(c) PROVE RecordInv'
  <2>1. TypeOK'
    BY <1>6, BlankIsTyped DEF Reset, Return, Cleared, TypeOK, Stages
  <2>2. UnfiledIsBlank' /\ CallsReadACard'
    BY <1>6 DEF Reset, Return, Cleared, TypeOK, UnfiledIsBlank, CallsReadACard
  <2>3. OneHolder' /\ OneDecider'
    BY <1>6 DEF Reset, OneHolder, OneDecider
  <2> QED
    BY <2>1, <2>2, <2>3
<1>7. ASSUME NEW c \in Callers, RecordAnswer(c) PROVE RecordInv'
  BY <1>7, NobodyIsNoCaller
  DEF RecordAnswer, Return, Unanswered, TypeOK, UnfiledIsBlank, CallsReadACard,
      OneHolder, OneDecider
<1>8. CASE GrowOld
  BY <1>8
  DEF GrowOld, callVars, TypeOK, UnfiledIsBlank, CallsReadACard, OneHolder, OneDecider
<1>9. CASE UNCHANGED vars
  BY <1>9
  DEF vars, card, callVars, TypeOK, UnfiledIsBlank, CallsReadACard, OneHolder, OneDecider
<1> QED
  BY <1>1, <1>2, <1>3, <1>4, <1>5, <1>6, <1>7, <1>8, <1>9
  DEF Next, SetStage, ReleaseCard, AnswerCard

\* Whoever claims, reports, releases or answers, in any interleaving and
\* whatever stage they ask for, RecordInv holds.
THEOREM Recorded == Spec => []RecordInv
BY RecordInvInit, RecordInvStep, PTL DEF Spec

-----------------------------------------------------------------------------
\* Every variable keeps its type.
THEOREM TypeCorrect == Spec => []TypeOK
<1>1. RecordInv => TypeOK
  BY DEF RecordInv
<1> QED
  BY <1>1, Recorded, PTL

\* First caller wins: set_stage tells at most one caller "ok" to an attend
\* between two moments at which the card is free.
THEOREM FirstCallerWins == Spec => []OneHolder
<1>1. RecordInv => OneHolder
  BY DEF RecordInv
<1> QED
  BY <1>1, Recorded, PTL

\* answer_card tells one caller "ok", the one the card names.
THEOREM OneAnswerIsAccepted == Spec => []OneDecider
<1>1. RecordInv => OneDecider
  BY DEF RecordInv
<1> QED
  BY <1>1, Recorded, PTL

\* No call changes a recorded answer.
THEOREM AnswersStand == Spec => DecisionStands
<1>1. RecordInv /\ [Next]_vars => [answer # Nobody => answer' = answer]_vars
  <2> SUFFICES ASSUME RecordInv, Next, answer # Nobody PROVE answer' = answer
    BY DEF vars, card
  <2> USE DEF RecordInv, card, callVars
  <2>1. ASSUME NEW who \in Callers \cup {Nobody}, NEW j \in BOOLEAN, File(who, j)
        PROVE  answer' = answer
    BY <2>1 DEF File, Inserts, UnfiledIsBlank
  <2>2. ASSUME NEW c \in Callers, SetStage(c) \/ ReleaseCard(c) PROVE answer' = answer
    BY <2>2 DEF SetStage, Ask, Advance, AdvanceLost, ReleaseCard, Release, Reset
  <2>3. ASSUME NEW c \in Callers, AnswerCard(c) PROVE answer' = answer
    BY <2>3 DEF AnswerCard, Decide, RecordAnswer, Unanswered, AnswerLost
  <2>4. CASE GrowOld
    BY <2>4 DEF GrowOld
  <2> QED
    BY <2>1, <2>2, <2>3, <2>4 DEF Next
<1> QED
  BY <1>1, Recorded, PTL DEF Spec, DecisionStands

\* An answer is written to an unclaimed judgement only, although the column
\* was read before the write.
THEOREM AnswersAreWaitedFor == Spec => AnsweredWhileWaiting
<1>1. RecordInv /\ [Next]_vars
        => [answer' # answer => stage = "unattended" /\ judgement]_vars
  <2> SUFFICES ASSUME RecordInv, Next, answer' # answer
               PROVE  stage = "unattended" /\ judgement
    BY DEF vars, card
  <2> USE DEF RecordInv, card, callVars
  <2>1. ASSUME NEW who \in Callers \cup {Nobody}, NEW j \in BOOLEAN, File(who, j)
        PROVE  FALSE
    BY <2>1 DEF File, Inserts, UnfiledIsBlank
  <2>2. ASSUME NEW c \in Callers, SetStage(c) \/ ReleaseCard(c) PROVE FALSE
    BY <2>2 DEF SetStage, Ask, Advance, AdvanceLost, ReleaseCard, Release, Reset
  <2>3. ASSUME NEW c \in Callers, AnswerCard(c) PROVE stage = "unattended" /\ judgement
    BY <2>3
    DEF AnswerCard, Decide, RecordAnswer, Return, Unanswered, AnswerLost, CallsReadACard
  <2>4. CASE GrowOld
    BY <2>4 DEF GrowOld
  <2> QED
    BY <2>1, <2>2, <2>3, <2>4 DEF Next
<1> QED
  BY <1>1, Recorded, PTL DEF Spec, AnsweredWhileWaiting

-----------------------------------------------------------------------------
LEMMA BlankIsSound == SoundAt("unattended", Blank) /\ SoundAt("attended", Blank)
BY DEF SoundAt, Blank

LEMMA EvidenceInvInit == Init => EvidenceInv
BY RecordInvInit, BlankIsSound DEF Init, EvidenceInv

\* What the gate lets through is what a card at the asked stage can hold.
LEMMA GateIsSound ==
  ASSUME TypeOK, SoundAt(stage, evidence),
         NEW s \in Stages \ {"unattended"}, NEW t \in Tests, InOrder(s),
         NEW e \in Gate(s, t)
  PROVE  SoundAt(s, e)
<1>1. evidence \in Evidence /\ stage \in Stages
  BY DEF TypeOK
<1>2. CASE s = "attended"
  BY <1>2 DEF Gate, InOrder, SoundAt
<1>3. CASE s = "red"
  BY <1>1, <1>3, NoTestIsNoTest DEF Gate, InOrder, SoundAt, Previous, Evidence, Blank
<1>4. CASE s = "green"
  BY <1>1, <1>4, NoTestIsNoTest DEF Gate, InOrder, SoundAt, Previous, Evidence
<1>5. CASE s = "finished"
  BY <1>1, <1>5 DEF Gate, SoundAt, Evidence, Blank, Stages
<1> QED
  BY <1>2, <1>3, <1>4, <1>5 DEF Stages

LEMMA EvidenceInvStep ==
  ASSUME "unattended" \notin Asked
  PROVE  EvidenceInv /\ [Next]_vars => EvidenceInv'
<1> SUFFICES ASSUME EvidenceInv, [Next]_vars PROVE EvidenceInv'
  OBVIOUS
<1> USE DEF EvidenceInv
<1>0. RecordInv' /\ TypeOK
  BY RecordInvStep DEF RecordInv
<1>1. ASSUME NEW who \in Callers \cup {Nobody}, NEW j \in BOOLEAN, File(who, j)
      PROVE  EvidenceInv'
  <2>1. UNCHANGED <<stage, evidence>> \/ (stage' = "unattended" /\ evidence' = Blank)
    BY <1>1 DEF File, Inserts, card
  <2>2. SoundAt(stage, evidence)'
    BY <2>1, BlankIsSound DEF SoundAt
  <2> QED
    BY <1>0, <1>1, <2>2 DEF File, SoundAt
<1>2. ASSUME NEW c \in Callers, NEW s \in Asked, NEW t \in Tests, Ask(c, s, t)
      PROVE  EvidenceInv'
  <2> PICK e \in Gate(s, t) :
        /\ Begin(c, "stage")
        /\ InOrder(s)
        /\ want' = [want EXCEPT ![c] = s]
        /\ carries' = [carries EXCEPT ![c] = e]
        /\ UNCHANGED <<filed, judgement, card, holders, deciders>>
    BY <1>2 DEF Ask
  <2>1. s # "unattended" /\ SoundAt(s, e)
    BY <1>0, AskedAreStages, GateIsSound
  <2>2. ASSUME NEW b \in Callers, pc'[b] = "stage"
        PROVE  want'[b] # "unattended" /\ SoundAt(want'[b], carries'[b])
    BY <1>0, <2>1, <2>2 DEF Begin, TypeOK
  <2> QED
    BY <1>0, <2>2 DEF card, SoundAt
<1>3. ASSUME NEW c \in Callers, Advance(c) PROVE EvidenceInv'
  <2>1. SoundAt(want[c], carries[c])
    BY <1>3 DEF Advance, Return
  <2>2. stage' = want[c] /\ evidence' = carries[c]
    BY <1>3 DEF Advance, Written
  <2>3. ASSUME NEW b \in Callers, pc'[b] = "stage"
        PROVE  want'[b] # "unattended" /\ SoundAt(want'[b], carries'[b])
    BY <1>0, <1>3, <2>3 DEF Advance, Return, TypeOK
  <2> QED
    BY <1>0, <2>1, <2>2, <2>3 DEF SoundAt
<1>4. ASSUME NEW c \in Callers,
             \/ AdvanceLost(c) \/ ReleaseCard(c) \/ AnswerCard(c)
      PROVE  EvidenceInv'
  <2>0. UNCHANGED <<stage, evidence>> \/ (stage' = "unattended" /\ evidence' = Blank)
    BY <1>4
    DEF AdvanceLost, ReleaseCard, Release, Reset, Cleared, AnswerCard, Decide,
        RecordAnswer, AnswerLost, card
  <2>1. SoundAt(stage, evidence)'
    BY <2>0, BlankIsSound DEF SoundAt
  <2>2. ASSUME NEW b \in Callers, pc'[b] = "stage" PROVE pc[b] = "stage"
    BY <1>0, <1>4, <2>2
    DEF AdvanceLost, ReleaseCard, Release, Reset, AnswerCard, Decide,
        RecordAnswer, AnswerLost, Begin, Return, TypeOK
  <2>3. UNCHANGED <<want, carries>>
    BY <1>4
    DEF AdvanceLost, ReleaseCard, Release, Reset, AnswerCard, Decide,
        RecordAnswer, AnswerLost
  <2> QED
    BY <1>0, <2>1, <2>2, <2>3 DEF SoundAt
<1>5. CASE GrowOld
  BY <1>0, <1>5 DEF GrowOld, callVars, SoundAt
<1>6. CASE UNCHANGED vars
  BY <1>0, <1>6 DEF vars, card, callVars, SoundAt
<1> QED
  BY <1>1, <1>2, <1>3, <1>4, <1>5, <1>6 DEF Next, SetStage

\* As long as no caller asks for "unattended", what a card holds fits its
\* stage, and so does what a begun call is about to write.
THEOREM EvidenceFits ==
  ASSUME "unattended" \notin Asked
  PROVE  Spec => []EvidenceInv
BY EvidenceInvInit, EvidenceInvStep, PTL DEF Spec

\* A card past red has the test it was red with, its green is of that test,
\* and a resolved card has a commit.
THEOREM NothingIsAsserted ==
  ASSUME "unattended" \notin Asked
  PROVE  Spec => []EvidenceGate
<1>1. EvidenceInv => EvidenceGate
  BY DEF EvidenceInv, SoundAt, EvidenceGate
<1> QED
  BY <1>1, EvidenceFits, PTL

\* Whoever attends a card, even one that was released, starts without
\* another's evidence.
THEOREM NothingBleeds ==
  ASSUME "unattended" \notin Asked
  PROVE  Spec => []StartsClean
<1>1. EvidenceInv => StartsClean
  BY DEF EvidenceInv, SoundAt, StartsClean
<1> QED
  BY <1>1, EvidenceFits, PTL

\* Apart from a release, a stage is left for the next one only, and
\* "finished" is not left.
THEOREM StageAdvances ==
  ASSUME "unattended" \notin Asked
  PROVE  Spec => OnlyAdvances
<1> DEFINE Emptied == evidence' = Blank /\ actor' = Nobody
           OneOn == stage = Previous[stage'] /\ stage # "finished"
<1>1. EvidenceInv /\ [Next]_vars => [stage' # stage => OneOn \/ Emptied]_vars
  <2> SUFFICES ASSUME EvidenceInv, Next, stage' # stage PROVE OneOn \/ Emptied
    BY DEF vars, card
  <2> USE DEF EvidenceInv, RecordInv, card, callVars
  <2>1. ASSUME NEW who \in Callers \cup {Nobody}, NEW j \in BOOLEAN, File(who, j)
        PROVE  FALSE
    BY <2>1 DEF File, Inserts, UnfiledIsBlank
  <2>2. ASSUME NEW c \in Callers, Advance(c) PROVE OneOn
    <3>1. want[c] \in Stages \ {"unattended"} /\ stage' = want[c] /\ stage = Previous[want[c]]
      BY <2>2 DEF Advance, Return, Matches, TypeOK
    <3> QED
      BY <3>1 DEF Previous, Stages
  <2>3. ASSUME NEW c \in Callers, Reset(c) PROVE Emptied
    BY <2>3 DEF Reset, Cleared
  <2>4. ASSUME NEW c \in Callers, NEW s \in Asked, NEW t \in Tests, Ask(c, s, t)
        PROVE  FALSE
    BY <2>4 DEF Ask
  <2>5. ASSUME NEW c \in Callers, AdvanceLost(c) \/ Release(c) \/ AnswerCard(c)
        PROVE  FALSE
    BY <2>5 DEF AdvanceLost, Release, AnswerCard, Decide, RecordAnswer, AnswerLost
  <2>6. CASE GrowOld
    BY <2>6 DEF GrowOld
  <2> QED
    BY <2>1, <2>2, <2>3, <2>4, <2>5, <2>6 DEF Next, SetStage, ReleaseCard
<1> QED
  BY <1>1, EvidenceFits, PTL DEF Spec, OnlyAdvances

-----------------------------------------------------------------------------
(***************************************************************************)
(* KanbanCard implements WorkCard.                                         *)
(***************************************************************************)
\* Evidence that is sound at a stage is what the contract shows there.
LEMMA SoundIsShown ==
  ASSUME NEW s \in Stages \ {"unattended"}, NEW e \in Evidence, SoundAt(s, e)
  PROVE  e \in Contract!EvidenceOf(s)
<1> DEFINE r == Contract!Showing(e.test, e.green, e.commit)
<1>1. e = r
  BY DEF Evidence, Contract!Showing
<1>2. e.test \in Tests \cup {NoTest}
  BY DEF Evidence
<1>3. CASE s = "attended"
  BY <1>3 DEF SoundAt, Blank, Contract!EvidenceOf, Contract!Nothing, Contract!Showing
<1>4. CASE s = "red"
  <2>1. e = Contract!Showing(e.test, NoTest, FALSE) /\ e.test \in Tests
    BY <1>1, <1>2, <1>4 DEF SoundAt, Evidence, Contract!Showing
  <2> QED
    BY <1>4, <2>1 DEF Contract!EvidenceOf
<1>5. CASE s = "green"
  <2>1. e = Contract!Showing(e.test, e.test, FALSE) /\ e.test \in Tests
    BY <1>1, <1>2, <1>5 DEF SoundAt, Evidence, Contract!Showing
  <2> QED
    BY <1>5, <2>1 DEF Contract!EvidenceOf
<1>6. CASE s = "finished"
  <2>1. e = Contract!Showing(e.test, e.test, TRUE) /\ e.test \in Tests
    BY <1>1, <1>2, <1>6 DEF SoundAt, Evidence, Contract!Showing
  <2> QED
    BY <1>6, <2>1 DEF Contract!EvidenceOf
<1> QED
  BY <1>3, <1>4, <1>5, <1>6 DEF Stages

LEMMA AdvanceIsOneStep ==
  ASSUME EvidenceInv, NEW c \in Callers, Advance(c)
  PROVE  Contract!Claim(c) \/ \E s \in {"red", "green", "finished"} : Contract!Report(s)
<1> USE DEF EvidenceInv, RecordInv
<1>1. PICK s \in Stages \ {"unattended"} : s = want[c]
  BY DEF Advance, Return, TypeOK
<1>2. /\ stage = Previous[s] /\ stage' = s /\ evidence' = carries[c]
      /\ holders' = Holding(c, s) /\ UNCHANGED <<filed, judgement, answer>>
  BY <1>1 DEF Advance, Matches, Written
<1>3. evidence' \in Contract!EvidenceOf(s)
  <2>1. carries[c] \in Evidence /\ SoundAt(s, carries[c])
    BY <1>1 DEF Advance, Return, TypeOK
  <2> QED
    BY <1>2, <2>1, SoundIsShown
<1>4. CASE s = "attended"
  <2>1. filed
    BY DEF Advance, Return, CallsReadACard
  <2>2. stage = "unattended" /\ holders = {}
    BY <1>2, <1>4 DEF Previous, OneHolder
  <2>3. holders' = {c}
    BY <1>2, <1>4, <2>2 DEF Holding
  <2> QED
    BY <1>2, <1>3, <1>4, <2>1, <2>2, <2>3 DEF Contract!Claim
<1>5. CASE s \in {"red", "green", "finished"}
  <2>1. stage = Contract!Before[s]
    BY <1>2, <1>5 DEF Previous, Contract!Before
  <2>2. holders' = holders
    BY <1>2, <1>5 DEF Holding
  <2> QED
    BY <1>2, <1>3, <1>5, <2>1, <2>2 DEF Contract!Report
<1> QED
  BY <1>4, <1>5 DEF Stages

LEMMA CardStep ==
  ASSUME EvidenceInv, [Next]_vars
  PROVE  [Contract!Next]_Contract!vars
<1> USE DEF EvidenceInv, RecordInv, card
<1>1. ASSUME NEW who \in Callers \cup {Nobody}, NEW j \in BOOLEAN, File(who, j)
      PROVE  Contract!File(j) \/ UNCHANGED Contract!vars
  <2>1. CASE filed
    BY <1>1, <2>1 DEF File, Inserts, Contract!vars
  <2>2. CASE ~filed
    BY <1>1, <2>2 DEF File, Inserts, UnfiledIsBlank, Contract!File
  <2> QED
    BY <2>1, <2>2
<1>2. ASSUME NEW c \in Callers, NEW s \in Asked, NEW t \in Tests, Ask(c, s, t)
      PROVE  UNCHANGED Contract!vars
  BY <1>2 DEF Ask, Contract!vars
<1>3. ASSUME NEW c \in Callers, AdvanceLost(c) \/ Release(c) \/ Decide(c) \/ AnswerLost(c)
      PROVE  UNCHANGED Contract!vars
  BY <1>3 DEF AdvanceLost, Release, Decide, AnswerLost, Contract!vars
<1>4. ASSUME NEW c \in Callers, Reset(c) PROVE Contract!Release \/ UNCHANGED Contract!vars
  BY <1>4
  DEF Reset, Cleared, Blank, Contract!Release, Contract!Nothing, Contract!Showing, Contract!vars
<1>5. ASSUME NEW c \in Callers, RecordAnswer(c) PROVE Contract!Decide(c)
  BY <1>5 DEF RecordAnswer, Return, Unanswered, CallsReadACard, Contract!Decide
<1>6. CASE GrowOld
  BY <1>6 DEF GrowOld, Contract!vars
<1>7. CASE UNCHANGED vars
  BY <1>7 DEF vars, Contract!vars
<1> QED
  BY <1>1, <1>2, <1>3, <1>4, <1>5, <1>6, <1>7, AdvanceIsOneStep
  DEF Next, SetStage, ReleaseCard, AnswerCard, Contract!Next

\* As long as nobody asks for "unattended", the calls of kanban_store.py,
\* each a read and a later write, are a card whose calls are single steps.
THEOREM CallsAreSingleSteps ==
  ASSUME "unattended" \notin Asked
  PROVE  Spec => CardSpec
<1>1. Init => Contract!Init
  BY DEF Init, Blank, Contract!Init, Contract!Nothing, Contract!Showing
<1>2. EvidenceInv /\ [Next]_vars => [Contract!Next]_Contract!vars
  BY CardStep
<1> QED
  BY <1>1, <1>2, EvidenceFits, PTL DEF Spec, CardSpec, Contract!Spec

=============================================================================
