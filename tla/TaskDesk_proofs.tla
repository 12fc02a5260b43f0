--------------------------- MODULE TaskDesk_proofs ----------------------------
(***************************************************************************)
(* Proofs about TaskDesk, for any tasks, callers, conversations and bounds *)
(***************************************************************************)
EXTENDS TaskDesk, FiniteSetTheorems, TLAPS

\* The callers that are about to submit a driver: each has spent a call.
Submitting == {c \in Callers : calling[c] \in {"launch", "relaunch"}}

DriversAreCalls ==
  /\ IsFiniteSet(Submitting)
  /\ drivers + Cardinality(Submitting) =< calls
  /\ \A d \in Drivers : d > drivers => at[d] = "none"

\* What is driven, or about to be, has not ended; so a task that ended may be
\* given a new driver.
DrivenIsLive ==
  \A k \in Ids : DriversOf(k) \cup Launching(k) # {} =>
                   status[k] \in {"running", "cancelled"}

\* Only its driver folds the queue of a task into its conversation.
TurnIsWhole == \A d \in Drivers : at[d] = "turn" => saw[d] = turns[works[d]]

HeldHasTurns == \A k \in Held : turns[k] > 0

\* A check under way: the task it asked about has all the turns it had then,
\* and an answer of before is gone or had read them.
CheckIsWhole ==
  \A c \in Callers :
    calling[c] \in {"checked", "result"} =>
      LET k == frame[c].task IN
      /\ k \in Held /\ frame[c].got = NoAnswer
      /\ frame[c].asked =< turns[k]
      /\ answer[k] = NoAnswer \/ answer[k] >= frame[c].asked

DeskInv ==
  /\ TypeOK /\ DriversAreCalls /\ OneDriver /\ DrivenIsLive /\ TurnIsWhole
  /\ HeldHasTurns /\ SuccessIsWhole /\ TurnsAreKept /\ CheckIsWhole /\ ToldIsWhole

\* Before the process restarts: a row is of a task its conversation started,
\* and so is the task a call is about to write a row for.
Starting == {c \in Callers : calling[c] \in {"launch", "relaunch", "assign"}}

TasksAreOwn ==
  /\ \A v \in Convs : \A k \in rows[v] : k \in Held /\ owner[k] = v
  /\ \A c \in Starting : frame[c].task \in Held /\ owner[frame[c].task] = Conv[c]

RowsInv == restarts = 0 => TasksAreOwn

\* Before a recompile rebinds the desk and a shutdown begins.
AllDriven == launchers = Agents /\ stopping.at = "no" /\ RunningIsDriven

DrivenInv == rebinds = 0 /\ shutdowns = 0 => AllDriven

-----------------------------------------------------------------------------
LEMMA NoFrameIsFrame == NoFrame \in Frame
BY SomeOfEach DEF NoFrame, Locals, Frame, NoDriver, NoAnswer

LEMMA FrameTakesLocals ==
  ASSUME frame \in [Callers -> Frame], NEW c \in Callers, NEW k \in Ids,
         NEW d \in Drivers \cup {NoDriver}, NEW n \in Nat, NEW a \in Nat,
         frame' = [frame EXCEPT ![c] = Locals(k, d, n, a)]
  PROVE  frame' \in [Callers -> Frame]
<1>1. Locals(k, d, n, a) \in Frame
  BY DEF Locals, Frame
<1> QED
  BY <1>1

\* A caller that is about to submit a driver finds a number for it.
LEMMA RoomToSubmit ==
  ASSUME TypeOK, DriversAreCalls, NEW c \in Submitting
  PROVE  /\ drivers + 1 \in Drivers /\ drivers + 1 =< MaxCalls
         /\ at[drivers + 1] = "none"
<1>1. Cardinality(Submitting) \in Nat /\ Cardinality(Submitting) # 0
  BY FS_CardinalityType, FS_EmptySet DEF DriversAreCalls
<1> QED
  BY <1>1, BoundsAreNaturals DEF TypeOK, DriversAreCalls, Drivers

LEMMA TypeInit == Init => TypeOK
<1> SUFFICES ASSUME Init PROVE TypeOK
  OBVIOUS
<1>1. /\ agent \in [Ids -> Agents] /\ owner \in [Ids -> Convs]
      /\ works \in [Drivers -> Ids] /\ frame \in [Callers -> Frame]
  BY SomeOfEach, NoFrameIsFrame DEF Init
<1>2. status \in [Ids -> Statuses]
  BY DEF Init, Statuses
<1>3. /\ stopping \in [at : {"no", "cancelling"}, todo : SUBSET Ids]
      /\ drivers \in 0 .. MaxCalls /\ calls \in 0 .. MaxCalls
  BY BoundsAreNaturals DEF Init
<1> QED
  BY <1>1, <1>2, <1>3 DEF Init, TypeOK, NoDriver, NoAnswer

LEMMA TypeStep == TypeOK /\ DriversAreCalls /\ [Next]_vars => TypeOK'
<1> SUFFICES ASSUME TypeOK, DriversAreCalls, [Next]_vars PROVE TypeOK'
  OBVIOUS
<1> USE BoundsAreNaturals, NoFrameIsFrame
    DEF TypeOK, Statuses, Terminal, NoDriver, NoAnswer
<1> USE DEF taskVars, driverVars, callVars, hostVars, history
<1>1. ASSUME NEW c \in Callers, NEW k \in Ids, Start(c, k) PROVE TypeOK'
  <2>0. FreeId(k) \subseteq Ids
    BY DEF FreeId
  <2>1. PICK i \in FreeId(k), a \in launchers :
          /\ Call(c, "launch")
          /\ status' = [status EXCEPT ![i] = "running"]
          /\ turns' = [turns EXCEPT ![i] = 1]
          /\ pending' = [pending EXCEPT ![i] = 0]
          /\ answer' = [answer EXCEPT ![i] = NoAnswer]
          /\ agent' = [agent EXCEPT ![i] = a]
          /\ future' = [future EXCEPT ![i] = NoDriver]
          /\ frame' = [frame EXCEPT ![c] = Locals(i, NoDriver, 0, NoAnswer)]
          /\ accepted' = [accepted EXCEPT ![i] = 1]
          /\ owner' = [owner EXCEPT ![i] = Conv[c]]
          /\ silenced' = silenced \ {i}
          /\ UNCHANGED <<driverVars, rows, hostVars>>
    BY <1>1, Zenon DEF Start
  <2>2. i \in Ids /\ Conv[c] \in Convs
    BY <2>0, <2>1, CallersHaveConversations
  <2>3. frame' \in [Callers -> Frame]
    BY <2>1, <2>2, FrameTakesLocals
  <2> QED
    BY <2>1, <2>2, <2>3 DEF Call, Go
<1>2. ASSUME NEW c \in Callers, NEW k \in Ids, FollowUp(c, k) PROVE TypeOK'
  <2>1. CASE status[k] \in Terminal
    <3>1. frame' \in [Callers -> Frame]
      <4>1. frame' = [frame EXCEPT ![c] = Locals(k, NoDriver, 0, NoAnswer)]
        BY <1>2, <2>1 DEF FollowUp
      <4> QED
        BY <4>1, FrameTakesLocals
    <3> QED
      BY <1>2, <2>1, <3>1 DEF FollowUp, Call, Go, Reopened
  <2>2. CASE status[k] \notin Terminal
    BY <1>2, <2>2 DEF FollowUp, Call, Go, Reopened
  <2> QED
    BY <2>1, <2>2
<1>3. ASSUME NEW c \in Callers, NEW k \in Ids, Cancel(c, k) PROVE TypeOK'
  <2>1. CASE future[k] # NoDriver
    <3>1. frame' \in [Callers -> Frame]
      <4>1. frame' = [frame EXCEPT ![c] = Locals(k, future[k], 0, NoAnswer)]
        BY <1>3, <2>1 DEF Cancel
      <4> QED
        BY <4>1, FrameTakesLocals
    <3> QED
      BY <1>3, <2>1, <3>1 DEF Cancel, Call, Go
  <2>2. CASE future[k] = NoDriver
    BY <1>3, <2>2 DEF Cancel, Call, Go
  <2> QED
    BY <2>1, <2>2
<1>4. ASSUME NEW c \in Callers, NEW k \in Ids, CheckStatus(c, k) PROVE TypeOK'
  <2>1. frame' \in [Callers -> Frame]
    BY <1>4, FrameTakesLocals DEF CheckStatus
  <2> QED
    BY <1>4, <2>1 DEF CheckStatus, Call, Go
<1>5. ASSUME NEW c \in Callers, Submit(c) PROVE TypeOK'
  <2>1. drivers + 1 \in Drivers /\ drivers + 1 =< MaxCalls
    BY <1>5, RoomToSubmit DEF Submit, Submitting
  <2>2. frame[c].task \in Ids
    BY DEF Frame
  <2>3. frame' \in [Callers -> Frame]
    <3>1. frame' = [frame EXCEPT ![c] = Locals(frame[c].task, drivers + 1, 0, NoAnswer)]
      BY <1>5 DEF Submit
    <3> QED
      BY <2>1, <2>2, <3>1, FrameTakesLocals
  <2> QED
    <3>1. /\ at' \in [Drivers -> {"none", "queued", "turn", "between", "done", "lost"}]
          /\ works' \in [Drivers -> Ids]
      BY <1>5, <2>2 DEF Submit
    <3>2. drivers' \in 0 .. MaxCalls
      BY <1>5, <2>1 DEF Submit
    <3>3. calling' \in [Callers -> {"idle", "launch", "relaunch", "assign", "kill",
                                   "checked", "result", "said"}]
      BY <1>5 DEF Submit
    <3> QED
      BY <1>5, <2>3, <3>1, <3>2, <3>3 DEF Submit
<1>6. ASSUME NEW c \in Callers, LauncherGone(c) PROVE TypeOK'
  BY <1>6 DEF LauncherGone, Return, Go
<1>7. ASSUME NEW c \in Callers, Assign(c) PROVE TypeOK'
  <2>1. frame[c].task \in Ids /\ frame[c].driver \in Drivers \cup {NoDriver}
    BY DEF Frame
  <2>2. rows' \in [Convs -> SUBSET Ids]
    BY <1>7, <2>1, CallersHaveConversations DEF Assign
  <2> QED
    BY <1>7, <2>1, <2>2 DEF Assign, Return, Go
<1>8. ASSUME NEW c \in Callers, Kill(c) PROVE TypeOK'
  <2>1. doomed' \subseteq Drivers
    BY <1>8 DEF Kill, Live
  <2> QED
    BY <1>8, <2>1 DEF Kill, Return, Go
<1>9. ASSUME NEW c \in Callers, CheckResult(c) PROVE TypeOK'
  BY <1>9 DEF CheckResult, Go
<1>10. ASSUME NEW c \in Callers, CheckAnswer(c) PROVE TypeOK'
  <2>1. frame[c].task \in Ids /\ frame[c].asked \in Nat
    BY DEF Frame
  <2>2. frame' \in [Callers -> Frame]
    BY <1>10, <2>1, FrameTakesLocals DEF CheckAnswer
  <2> QED
    BY <1>10, <2>2 DEF CheckAnswer, Go
<1>11. ASSUME NEW c \in Callers, Said(c) PROVE TypeOK'
  BY <1>11 DEF Said, Return, Go
<1>12. ASSUME NEW d \in Drivers, NextTurn(d) PROVE TypeOK'
  BY <1>12 DEF NextTurn, Folded
<1>13. ASSUME NEW d \in Drivers, DriverQuits(d) PROVE TypeOK'
  BY <1>13 DEF DriverQuits
<1>14. ASSUME NEW d \in Drivers, TurnAnswers(d) PROVE TypeOK'
  BY <1>14 DEF TurnAnswers
<1>15. ASSUME NEW d \in Drivers, TurnRaises(d) PROVE TypeOK'
  BY <1>15 DEF TurnRaises
<1>16. ASSUME NEW d \in Drivers, TurnCancelled(d) PROVE TypeOK'
  BY <1>16 DEF TurnCancelled
<1>17. CASE ShutdownMarks
  <2>1. stopping' \in [at : {"no", "cancelling"}, todo : SUBSET Ids]
    BY <1>17 DEF ShutdownMarks, Held
  <2> QED
    BY <1>17, <2>1 DEF ShutdownMarks
<1>18. ASSUME NEW k \in Ids, ShutdownCancels(k) PROVE TypeOK'
  <2>1. doomed' \subseteq Drivers
    BY <1>18 DEF ShutdownCancels, Live
  <2> QED
    BY <1>18, <2>1 DEF ShutdownCancels
<1>19. CASE ShutdownStops
  BY <1>19 DEF ShutdownStops, Lost
<1>20. ASSUME NEW S \in SUBSET Agents, Rebind(S) PROVE TypeOK'
  BY <1>20 DEF Rebind
<1>21. CASE Restart
  <2>1. at' \in [Drivers -> {"none", "queued", "turn", "between", "done", "lost"}]
    BY <1>21 DEF Restart, Lost
  <2>2. stopping' \in [at : {"no", "cancelling"}, todo : SUBSET Ids]
    BY <1>21 DEF Restart
  <2> QED
    BY <1>21, <2>1, <2>2 DEF Restart
<1>22. CASE UNCHANGED vars
  BY <1>22 DEF vars
<1> QED
  BY <1>1, <1>2, <1>3, <1>4, <1>5, <1>6, <1>7, <1>8, <1>9, <1>10, <1>11, <1>12,
     <1>13, <1>14, <1>15, <1>16, <1>17, <1>18, <1>19, <1>20, <1>21, <1>22
  DEF Next, CallGoesOn, DriverStep, LauncherEnds, ShutdownStep

-----------------------------------------------------------------------------
LEMMA CountKept ==
  ASSUME TypeOK, TypeOK', DriversAreCalls, drivers' = drivers, calls' >= calls,
         Submitting' = Submitting, \A d \in Drivers : at[d] = "none" => at'[d] = "none"
  PROVE  DriversAreCalls'
<1>1. Cardinality(Submitting) \in Nat
  BY FS_CardinalityType DEF DriversAreCalls
<1> QED
  BY <1>1 DEF DriversAreCalls, TypeOK

\* One call more, for one more caller that will submit.
LEMMA CountGrows ==
  ASSUME TypeOK, DriversAreCalls, NEW c \in Callers, drivers' = drivers, at' = at,
         calls' = calls + 1, Submitting' = Submitting \cup {c}
  PROVE  DriversAreCalls'
<1>1. /\ IsFiniteSet(Submitting \cup {c})
      /\ Cardinality(Submitting) \in Nat
      /\ Cardinality(Submitting \cup {c}) \in Nat
      /\ Cardinality(Submitting \cup {c}) =< Cardinality(Submitting) + 1
  BY FS_AddElement, FS_CardinalityType DEF DriversAreCalls
<1> QED
  BY <1>1 DEF DriversAreCalls, TypeOK

LEMMA CountStep == TypeOK /\ DriversAreCalls /\ [Next]_vars => DriversAreCalls'
<1> SUFFICES ASSUME TypeOK, DriversAreCalls, [Next]_vars PROVE DriversAreCalls'
  OBVIOUS
<1>0. TypeOK'
  BY TypeStep
<1> USE DEF taskVars, driverVars, callVars, hostVars, history, Call, Go, Return
<1>1. ASSUME NEW c \in Callers, NEW k \in Ids, Start(c, k) PROVE DriversAreCalls'
  <2>1. /\ calling[c] = "idle" /\ calling' = [calling EXCEPT ![c] = "launch"]
        /\ calls' = calls + 1 /\ UNCHANGED <<drivers, at>>
    BY <1>1 DEF Start
  <2>2. Submitting' = Submitting \cup {c}
    BY <2>1 DEF TypeOK, Submitting
  <2> QED
    BY <2>1, <2>2, CountGrows
<1>2. ASSUME NEW c \in Callers, NEW k \in Ids, FollowUp(c, k) PROVE DriversAreCalls'
  <2>1. CASE status[k] \in Terminal
    <3>1. /\ calling[c] = "idle" /\ calling' = [calling EXCEPT ![c] = "relaunch"]
          /\ calls' = calls + 1 /\ UNCHANGED <<drivers, at>>
      BY <1>2, <2>1 DEF FollowUp
    <3>2. Submitting' = Submitting \cup {c}
      BY <3>1 DEF TypeOK, Submitting
    <3> QED
      BY <3>1, <3>2, CountGrows
  <2>2. CASE status[k] \notin Terminal
    <3>1. /\ calling[c] = "idle" /\ calling' = [calling EXCEPT ![c] = "idle"]
          /\ calls' = calls + 1 /\ UNCHANGED <<drivers, at>>
      BY <1>2, <2>2 DEF FollowUp
    <3>2. Submitting' = Submitting
      BY <3>1 DEF TypeOK, Submitting
    <3> QED
      BY <1>0, <3>1, <3>2, CountKept DEF TypeOK
  <2> QED
    BY <2>1, <2>2
<1>3. ASSUME NEW c \in Callers, NEW k \in Ids, Cancel(c, k) PROVE DriversAreCalls'
  <2>1. /\ calling[c] = "idle"
        /\ calling' \in {[calling EXCEPT ![c] = "kill"], [calling EXCEPT ![c] = "idle"]}
        /\ calls' = calls + 1 /\ UNCHANGED <<drivers, at>>
    BY <1>3 DEF Cancel
  <2>2. Submitting' = Submitting
    BY <2>1 DEF TypeOK, Submitting
  <2> QED
    BY <1>0, <2>1, <2>2, CountKept DEF TypeOK
<1>4. ASSUME NEW c \in Callers, NEW k \in Ids, CheckStatus(c, k) PROVE DriversAreCalls'
  <2>1. /\ calling[c] = "idle" /\ calling' = [calling EXCEPT ![c] = "checked"]
        /\ calls' = calls + 1 /\ UNCHANGED <<drivers, at>>
    BY <1>4 DEF CheckStatus
  <2>2. Submitting' = Submitting
    BY <2>1 DEF TypeOK, Submitting
  <2> QED
    BY <1>0, <2>1, <2>2, CountKept DEF TypeOK
<1>5. ASSUME NEW c \in Callers, Submit(c) PROVE DriversAreCalls'
  <2>1. c \in Submitting
    BY <1>5 DEF Submit, Submitting
  <2>2. Submitting' = Submitting \ {c}
    BY <1>5 DEF Submit, Submitting, TypeOK
  <2>3. /\ IsFiniteSet(Submitting \ {c})
        /\ Cardinality(Submitting) \in Nat
        /\ Cardinality(Submitting \ {c}) = Cardinality(Submitting) - 1
    BY <2>1, FS_RemoveElement, FS_CardinalityType DEF DriversAreCalls
  <2>4. drivers' = drivers + 1 /\ calls' = calls
    BY <1>5 DEF Submit
  <2>5. \A d \in Drivers : d > drivers' => at'[d] = "none"
    BY <1>5, <2>4 DEF Submit, DriversAreCalls, TypeOK, Drivers
  <2> QED
    BY <2>2, <2>3, <2>4, <2>5 DEF DriversAreCalls, TypeOK
<1>6. ASSUME NEW c \in Callers, LauncherGone(c) PROVE DriversAreCalls'
  <2>1. Submitting' = Submitting \ {c}
    BY <1>6 DEF LauncherGone, Submitting, TypeOK
  <2>0. c \in Submitting
    BY <1>6 DEF LauncherGone, Submitting
  <2>2. /\ IsFiniteSet(Submitting \ {c})
        /\ Cardinality(Submitting) \in Nat
        /\ Cardinality(Submitting \ {c}) = Cardinality(Submitting) - 1
    BY <2>0, FS_RemoveElement, FS_CardinalityType DEF DriversAreCalls
  <2>3. UNCHANGED <<drivers, calls, at>>
    BY <1>6 DEF LauncherGone
  <2> QED
    BY <2>1, <2>2, <2>3 DEF DriversAreCalls, TypeOK
<1>7. ASSUME NEW c \in Callers,
             Assign(c) \/ Kill(c) \/ CheckResult(c) \/ CheckAnswer(c) \/ Said(c)
      PROVE  DriversAreCalls'
  <2>1. /\ calling[c] \in {"assign", "kill", "checked", "result", "said"}
        /\ calling' \in {[calling EXCEPT ![c] = "idle"], [calling EXCEPT ![c] = "result"],
                         [calling EXCEPT ![c] = "said"]}
        /\ UNCHANGED <<drivers, calls, at>>
    BY <1>7 DEF Assign, Kill, CheckResult, CheckAnswer, Said
  <2>2. Submitting' = Submitting
    BY <2>1 DEF TypeOK, Submitting
  <2> QED
    BY <1>0, <2>1, <2>2, CountKept DEF TypeOK
<1>8. ASSUME NEW d \in Drivers, DriverStep(d) PROVE DriversAreCalls'
  <2>1. /\ UNCHANGED <<calling, drivers, calls>>
        /\ \A e \in Drivers : at[e] = "none" => at'[e] = "none"
    BY <1>8 DEF DriverStep, LauncherEnds, NextTurn, DriverQuits, TurnAnswers, TurnRaises,
                TurnCancelled, TypeOK, Live
  <2> QED
    BY <1>0, <2>1, CountKept DEF Submitting, TypeOK
<1>9. CASE ShutdownMarks \/ ShutdownStep \/ (\E S \in SUBSET Agents : Rebind(S))
  <2>1. /\ UNCHANGED <<calling, drivers, calls>>
        /\ \A e \in Drivers : at[e] = "none" => at'[e] = "none"
    <3>1. CASE ShutdownStops
      BY <3>1 DEF ShutdownStops, Lost, Live
    <3>2. CASE ShutdownMarks \/ (\E k \in Ids : ShutdownCancels(k))
                 \/ (\E S \in SUBSET Agents : Rebind(S))
      BY <3>2 DEF ShutdownMarks, ShutdownCancels, Rebind
    <3> QED
      BY <1>9, <3>1, <3>2 DEF ShutdownStep
  <2> QED
    BY <1>0, <2>1, CountKept DEF Submitting, TypeOK
<1>10. CASE Restart
  <2>1. Submitting' = {}
    BY <1>10 DEF Restart, Submitting
  <2>2. Cardinality(Submitting) \in Nat
    BY FS_CardinalityType DEF DriversAreCalls
  <2>3. /\ UNCHANGED <<drivers, calls>>
        /\ \A e \in Drivers : at[e] = "none" => at'[e] = "none"
    BY <1>10 DEF Restart, Lost, Live
  <2> QED
    BY <2>1, <2>2, <2>3, FS_EmptySet DEF DriversAreCalls, TypeOK
<1>11. CASE UNCHANGED vars
  BY <1>0, <1>11, CountKept DEF vars, Submitting, TypeOK
<1> QED
  BY <1>1, <1>2, <1>3, <1>4, <1>5, <1>6, <1>7, <1>8, <1>9, <1>10, <1>11
  DEF Next, CallGoesOn

-----------------------------------------------------------------------------
\* What OneDriver and DrivenIsLive say of one task.
Driven(k) ==
  /\ \A d, e \in DriversOf(k) : d = e
  /\ \A b, c \in Launching(k) : b = c
  /\ DriversOf(k) = {} \/ Launching(k) = {}
  /\ DriversOf(k) \cup Launching(k) # {} => status[k] \in {"running", "cancelled"}

LEMMA DrivenIsBoth == OneDriver /\ DrivenIsLive <=> \A k \in Ids : Driven(k)
BY DEF OneDriver, DrivenIsLive, Driven

LEMMA DrivenKept ==
  ASSUME NEW k \in Ids, Driven(k),
         DriversOf(k)' \subseteq DriversOf(k), Launching(k)' \subseteq Launching(k),
         status'[k] = status[k] \/ status'[k] \in {"running", "cancelled"}
  PROVE  Driven(k)'
BY DEF Driven

\* A task may be started under an id only if nothing drives what had it.
LEMMA FreeIdIsFree ==
  ASSUME TypeOK, HeldHasTurns, NEW k \in Ids, NEW i \in FreeId(k)
  PROVE  i \in Ids /\ status[i] = "unknown"
BY DEF FreeId, TypeOK, HeldHasTurns, Held

\* A driver at work is the only one of its task.
LEMMA WorksAlone ==
  ASSUME TypeOK, \A k \in Ids : Driven(k), NEW d \in Live
  PROVE  /\ works[d] \in Ids /\ d \in DriversOf(works[d])
         /\ DriversOf(works[d]) = {d} /\ Launching(works[d]) = {}
         /\ status[works[d]] \in {"running", "cancelled"}
<1>1. d \in Drivers /\ works[d] \in Ids /\ d \in DriversOf(works[d])
  BY DEF TypeOK, Live, DriversOf
<1> QED
  BY <1>1 DEF Driven

LEMMA DrivenStep ==
  TypeOK /\ DriversAreCalls /\ HeldHasTurns /\ (\A k \in Ids : Driven(k)) /\ [Next]_vars
    => \A k \in Ids : Driven(k)'
<1> SUFFICES ASSUME TypeOK, DriversAreCalls, HeldHasTurns, \A i \in Ids : Driven(i),
                    [Next]_vars, NEW k \in Ids
             PROVE  Driven(k)'
  OBVIOUS
<1>0. Driven(k)
  OBVIOUS
<1> USE DEF taskVars, driverVars, callVars, hostVars, history, Call, Go, Return
<1>1. ASSUME NEW c \in Callers, NEW wanted \in Ids, Start(c, wanted) PROVE Driven(k)'
  <2>1. PICK i \in FreeId(wanted) :
          /\ calling[c] = "idle" /\ calling' = [calling EXCEPT ![c] = "launch"]
          /\ frame' = [frame EXCEPT ![c] = Locals(i, NoDriver, 0, NoAnswer)]
          /\ status' = [status EXCEPT ![i] = "running"]
          /\ UNCHANGED <<at, works>>
    BY <1>1, Zenon DEF Start
  <2>2. i \in Ids /\ status[i] = "unknown"
    BY FreeIdIsFree
  <2>3. DriversOf(k)' = DriversOf(k)
    BY <2>1 DEF DriversOf, Live
  <2>4. Launching(k)' = IF k = i THEN Launching(k) \cup {c} ELSE Launching(k)
    BY <2>1 DEF Launching, Locals, TypeOK
  <2>5. CASE k = i
    <3>1. DriversOf(k) = {} /\ Launching(k) = {}
      BY <1>0, <2>2, <2>5 DEF Driven
    <3> QED
      BY <2>1, <2>3, <2>4, <2>5, <3>1 DEF Driven, TypeOK
  <2>6. CASE k # i
    BY <1>0, <2>1, <2>3, <2>4, <2>6, DrivenKept DEF TypeOK
  <2> QED
    BY <2>5, <2>6
<1>2. ASSUME NEW c \in Callers, NEW i \in Ids, FollowUp(c, i) PROVE Driven(k)'
  <2>1. DriversOf(k)' = DriversOf(k)
    BY <1>2 DEF FollowUp, DriversOf, Live
  <2>2. status' = [status EXCEPT ![i] = "running"]
    BY <1>2 DEF FollowUp, Reopened
  <2>3. CASE status[i] \in Terminal
    <3>1. /\ calling[c] = "idle" /\ calling' = [calling EXCEPT ![c] = "relaunch"]
          /\ frame' = [frame EXCEPT ![c] = Locals(i, NoDriver, 0, NoAnswer)]
      BY <1>2, <2>3 DEF FollowUp
    <3>2. Launching(k)' = IF k = i THEN Launching(k) \cup {c} ELSE Launching(k)
      BY <3>1 DEF Launching, Locals, TypeOK
    <3>3. CASE k = i
      <4>1. DriversOf(k) = {} /\ Launching(k) = {}
        BY <1>0, <1>2, <2>3, <3>3 DEF Driven, FollowUp, Terminal
      <4> QED
        BY <2>1, <2>2, <3>2, <3>3, <4>1 DEF Driven, TypeOK
    <3>4. CASE k # i
      BY <1>0, <2>1, <2>2, <3>2, <3>4, DrivenKept DEF TypeOK
    <3> QED
      BY <3>3, <3>4
  <2>4. CASE status[i] \notin Terminal
    <3>1. /\ calling[c] = "idle" /\ calling' = [calling EXCEPT ![c] = "idle"]
          /\ UNCHANGED frame
      BY <1>2, <2>4 DEF FollowUp
    <3>2. Launching(k)' = Launching(k)
      BY <3>1 DEF Launching, TypeOK
    <3> QED
      BY <1>0, <2>1, <2>2, <3>2, DrivenKept DEF TypeOK
  <2> QED
    BY <2>3, <2>4
<1>3. ASSUME NEW c \in Callers, NEW i \in Ids, Cancel(c, i) \/ CheckStatus(c, i)
      PROVE  Driven(k)'
  <2>1. /\ calling[c] = "idle" /\ calling'[c] \in {"kill", "idle", "checked"}
        /\ \A b \in Callers : b # c => calling'[b] = calling[b] /\ frame'[b] = frame[b]
        /\ UNCHANGED <<at, works>>
        /\ status' = [status EXCEPT ![i] = "cancelled"] \/ status' = status
    <3>1. CASE Cancel(c, i)
      BY <3>1 DEF Cancel, TypeOK
    <3>2. CASE CheckStatus(c, i)
      BY <3>2 DEF CheckStatus, TypeOK
    <3> QED
      BY <1>3, <3>1, <3>2
  <2>2. DriversOf(k)' = DriversOf(k)
    BY <2>1 DEF DriversOf, Live
  <2>3. Launching(k)' = Launching(k)
    BY <2>1 DEF Launching, TypeOK
  <2> QED
    BY <1>0, <2>1, <2>2, <2>3, DrivenKept DEF TypeOK
<1>4. ASSUME NEW c \in Callers, Submit(c) PROVE Driven(k)'
  <2> DEFINE i == frame[c].task
             d == drivers + 1
  <2>1. d \in Drivers /\ at[d] = "none" /\ i \in Ids /\ c \in Launching(i)
    BY <1>4, RoomToSubmit DEF Submit, Submitting, Launching, TypeOK, Frame
  <2>2. DriversOf(k)' = IF k = i THEN DriversOf(k) \cup {d} ELSE DriversOf(k)
    BY <1>4, <2>1 DEF Submit, DriversOf, Live, TypeOK
  <2>3. \A b \in Callers : b # c => calling'[b] = calling[b] /\ frame'[b] = frame[b]
    BY <1>4 DEF Submit, TypeOK
  <2>4. calling'[c] = "assign"
    BY <1>4 DEF Submit, TypeOK
  <2>5. Launching(k)' = Launching(k) \ {c}
    BY <2>3, <2>4 DEF Launching
  <2>6. status' = status
    BY <1>4 DEF Submit
  <2>7. CASE k = i
    <3>1. DriversOf(k) = {} /\ Launching(k) = {c} /\ status[k] \in {"running", "cancelled"}
      BY <1>0, <2>1, <2>7 DEF Driven
    <3> QED
      BY <2>2, <2>5, <2>6, <2>7, <3>1 DEF Driven
  <2>8. CASE k # i
    BY <1>0, <2>2, <2>5, <2>6, <2>8, DrivenKept
  <2> QED
    BY <2>7, <2>8
<1>5. ASSUME NEW c \in Callers, LauncherGone(c) \/ Assign(c) \/ Kill(c) \/ CheckResult(c)
                                  \/ CheckAnswer(c) \/ Said(c)
      PROVE  Driven(k)'
  <2>1. /\ calling'[c] \in {"idle", "result", "said"}
        /\ \A b \in Callers : b # c => calling'[b] = calling[b] /\ frame'[b] = frame[b]
        /\ UNCHANGED <<at, works, status>>
    BY <1>5 DEF LauncherGone, Assign, Kill, CheckResult, CheckAnswer, Said, TypeOK
  <2>2. DriversOf(k)' = DriversOf(k)
    BY <2>1 DEF DriversOf, Live
  <2>3. Launching(k)' \subseteq Launching(k)
    BY <2>1 DEF Launching
  <2> QED
    BY <1>0, <2>1, <2>2, <2>3, DrivenKept
<1>6. ASSUME NEW d \in Drivers, NextTurn(d) PROVE Driven(k)'
  <2>1. DriversOf(k)' = DriversOf(k) /\ Launching(k)' = Launching(k) /\ status' = status
    BY <1>6 DEF NextTurn, DriversOf, Launching, Live, TypeOK
  <2> QED
    BY <1>0, <2>1, DrivenKept
<1>7. ASSUME NEW d \in Drivers, DriverQuits(d) \/ LauncherEnds(d) PROVE Driven(k)'
  <2>1. /\ d \in Live /\ works' = works /\ UNCHANGED <<calling, frame>>
        /\ \A e \in Drivers : e # d => at'[e] = at[e]
        /\ \A i \in Ids : i # works[d] => status'[i] = status[i]
        /\ \/ at'[d] = "done"
           \/ at'[d] = "between" /\ status'[works[d]] = "running"
    <3>1. CASE DriverQuits(d)
      BY <3>1 DEF DriverQuits, TypeOK
    <3>2. CASE TurnAnswers(d)
      BY <3>2 DEF TurnAnswers, TypeOK, Live
    <3>3. CASE TurnRaises(d)
      BY <3>3 DEF TurnRaises, TypeOK, Live
    <3>4. CASE TurnCancelled(d)
      BY <3>4 DEF TurnCancelled, TypeOK, Live
    <3> QED
      BY <1>7, <3>1, <3>2, <3>3, <3>4 DEF LauncherEnds
  <2>2. Launching(k)' = Launching(k)
    BY <2>1 DEF Launching
  <2>3. DriversOf(k)' \subseteq DriversOf(k)
    BY <2>1 DEF DriversOf, Live
  <2>4. CASE k # works[d]
    BY <1>0, <2>1, <2>2, <2>3, <2>4, DrivenKept
  <2>5. CASE k = works[d] /\ at'[d] = "between"
    BY <1>0, <2>1, <2>2, <2>3, <2>5, DrivenKept
  <2>6. CASE k = works[d] /\ at'[d] = "done"
    <3>1. DriversOf(k) = {d} /\ Launching(k) = {}
      BY <2>1, <2>6, WorksAlone
    <3>2. d \notin DriversOf(k)'
      BY <2>6 DEF DriversOf, Live
    <3> QED
      BY <2>2, <2>3, <3>1, <3>2 DEF Driven
  <2> QED
    BY <2>1, <2>4, <2>5, <2>6
<1>8. CASE ShutdownMarks \/ (\E i \in Ids : ShutdownCancels(i))
             \/ (\E S \in SUBSET Agents : Rebind(S))
  <2>1. /\ UNCHANGED <<at, works, calling, frame>>
        /\ status'[k] = status[k] \/ status'[k] = "cancelled"
    BY <1>8 DEF ShutdownMarks, ShutdownCancels, Rebind
  <2>2. DriversOf(k)' = DriversOf(k) /\ Launching(k)' = Launching(k)
    BY <2>1 DEF DriversOf, Launching, Live
  <2> QED
    BY <1>0, <2>1, <2>2, DrivenKept
<1>9. CASE ShutdownStops
  <2>1. DriversOf(k)' = {}
    BY <1>9 DEF ShutdownStops, Lost, DriversOf, Live
  <2>2. Launching(k)' = Launching(k) /\ status' = status
    BY <1>9 DEF ShutdownStops, Launching
  <2> QED
    BY <1>0, <2>1, <2>2, DrivenKept
<1>10. CASE Restart
  <2>1. DriversOf(k)' = {}
    BY <1>10 DEF Restart, Lost, DriversOf, Live
  <2>2. Launching(k)' = {}
    BY <1>10 DEF Restart, Launching
  <2> QED
    BY <2>1, <2>2 DEF Driven
<1>11. CASE UNCHANGED vars
  <2>1. DriversOf(k)' = DriversOf(k) /\ Launching(k)' = Launching(k) /\ status' = status
    BY <1>11 DEF vars, DriversOf, Launching, Live
  <2> QED
    BY <1>0, <2>1, DrivenKept
<1> QED
  BY <1>1, <1>2, <1>3, <1>4, <1>5, <1>6, <1>7, <1>8, <1>9, <1>10, <1>11
  DEF Next, CallGoesOn, DriverStep, ShutdownStep

-----------------------------------------------------------------------------
(***************************************************************************)
(* Turns and answers.                                                      *)
(***************************************************************************)
WholeInv == HeldHasTurns /\ TurnIsWhole /\ SuccessIsWhole /\ TurnsAreKept

\* A step that touches no task and begins no turn.
LEMMA WholeKept ==
  ASSUME WholeInv, UNCHANGED <<status, turns, pending, answer, accepted, works, saw>>,
         \A d \in Drivers : at'[d] = "turn" => at[d] = "turn"
  PROVE  WholeInv'
BY DEF WholeInv, HeldHasTurns, TurnIsWhole, SuccessIsWhole, TurnsAreKept, Held

LEMMA WholeStep ==
  TypeOK /\ WholeInv /\ (\A k \in Ids : Driven(k)) /\ [Next]_vars => WholeInv'
<1> SUFFICES ASSUME TypeOK, WholeInv, \A k \in Ids : Driven(k), [Next]_vars
             PROVE  WholeInv'
  OBVIOUS
<1> USE DEF taskVars, driverVars, callVars, hostVars, history, Call, Go, Return
<1>1. ASSUME NEW c \in Callers, NEW wanted \in Ids, Start(c, wanted) PROVE WholeInv'
  <2>1. PICK i \in FreeId(wanted) :
          /\ status' = [status EXCEPT ![i] = "running"]
          /\ turns' = [turns EXCEPT ![i] = 1]
          /\ pending' = [pending EXCEPT ![i] = 0]
          /\ answer' = [answer EXCEPT ![i] = NoAnswer]
          /\ accepted' = [accepted EXCEPT ![i] = 1]
          /\ UNCHANGED <<at, works, saw>>
    BY <1>1, Zenon DEF Start
  <2>2. i \in Ids /\ status[i] = "unknown"
    BY FreeIdIsFree DEF WholeInv
  <2>3. \A d \in Drivers : at[d] = "turn" => works[d] # i
    BY <2>2, WorksAlone DEF Live
  <2> QED
    BY <2>1, <2>2, <2>3
    DEF WholeInv, HeldHasTurns, TurnIsWhole, SuccessIsWhole, TurnsAreKept, Held, TypeOK
<1>2. ASSUME NEW c \in Callers, NEW i \in Ids, FollowUp(c, i) PROVE WholeInv'
  <2>1. /\ status[i] # "unknown" /\ status' = [status EXCEPT ![i] = "running"]
        /\ pending' = [pending EXCEPT ![i] = @ + 1]
        /\ accepted' = [accepted EXCEPT ![i] = @ + 1]
        /\ UNCHANGED <<turns, answer, at, works, saw>>
    BY <1>2 DEF FollowUp, Reopened
  <2>2. TurnIsWhole' /\ HeldHasTurns' /\ SuccessIsWhole'
    BY <2>1 DEF WholeInv, TurnIsWhole, HeldHasTurns, SuccessIsWhole, Held, TypeOK
  <2>3. ASSUME NEW k \in Ids, status'[k] # "unknown"
        PROVE  turns'[k] + pending'[k] = accepted'[k]
    <3>1. turns[k] \in Nat /\ turns[k] + pending[k] = accepted[k]
      BY <2>1, <2>3 DEF WholeInv, TurnsAreKept, Held, TypeOK
    <3>2. CASE k = i
      BY <2>1, <3>1, <3>2 DEF TypeOK
    <3>3. CASE k # i
      BY <2>1, <3>1, <3>3 DEF TypeOK
    <3> QED
      BY <3>2, <3>3
  <2> QED
    BY <2>2, <2>3 DEF WholeInv, TurnsAreKept, Held
<1>3. ASSUME NEW c \in Callers, NEW i \in Ids, Cancel(c, i) PROVE WholeInv'
  <2>1. /\ status[i] = "running" /\ status' = [status EXCEPT ![i] = "cancelled"]
        /\ pending' = [pending EXCEPT ![i] = 0]
        /\ accepted' = [accepted EXCEPT ![i] = turns[i]]
        /\ UNCHANGED <<turns, answer, at, works, saw>>
    BY <1>3 DEF Cancel
  <2> QED
    BY <2>1
    DEF WholeInv, HeldHasTurns, TurnIsWhole, SuccessIsWhole, TurnsAreKept, Held, TypeOK
<1>4. ASSUME NEW c \in Callers, Submit(c) PROVE WholeInv'
  <2>1. /\ UNCHANGED <<status, turns, pending, answer, accepted, saw>>
        /\ \A d \in Drivers : at'[d] = "turn" => at[d] = "turn" /\ works'[d] = works[d]
    BY <1>4 DEF Submit, TypeOK
  <2> QED
    BY <2>1 DEF WholeInv, HeldHasTurns, TurnIsWhole, SuccessIsWhole, TurnsAreKept, Held
<1>5. ASSUME NEW c \in Callers, \/ \E i \in Ids : CheckStatus(c, i)
                                \/ LauncherGone(c) \/ Assign(c) \/ Kill(c)
                                \/ CheckResult(c) \/ CheckAnswer(c) \/ Said(c)
      PROVE  WholeInv'
  <2>1. UNCHANGED <<status, turns, pending, answer, accepted, at, works, saw>>
    BY <1>5, Zenon
    DEF CheckStatus, LauncherGone, Assign, Kill, CheckResult, CheckAnswer, Said
  <2> QED
    BY <2>1, WholeKept
<1>6. ASSUME NEW d \in Drivers, NextTurn(d) PROVE WholeInv'
  <2> DEFINE k == works[d]
  <2>1. d \in Live
    BY <1>6 DEF NextTurn, Live
  <2>2. k \in Ids /\ status[k] = "running" /\ DriversOf(k) = {d}
    BY <1>6, <2>1, WorksAlone DEF NextTurn
  <2>3. /\ turns' = [turns EXCEPT ![k] = turns[k] + pending[k]]
        /\ pending' = [pending EXCEPT ![k] = 0]
        /\ saw' = [saw EXCEPT ![d] = turns[k] + pending[k]]
        /\ at' = [at EXCEPT ![d] = "turn"]
        /\ UNCHANGED <<status, answer, works, accepted>>
    BY <1>6 DEF NextTurn, Folded
  <2>4. \A e \in Drivers : at[e] = "turn" /\ works[e] = k => e = d
    BY <2>2 DEF DriversOf, Live
  <2>5. TurnIsWhole'
    BY <2>2, <2>3, <2>4 DEF WholeInv, TurnIsWhole, TypeOK
  <2> QED
    BY <2>2, <2>3, <2>5
    DEF WholeInv, HeldHasTurns, SuccessIsWhole, TurnsAreKept, Held, TypeOK
<1>7. ASSUME NEW d \in Drivers, DriverQuits(d) PROVE WholeInv'
  BY <1>7, WholeKept DEF DriverQuits, TypeOK
<1>8. ASSUME NEW d \in Drivers, LauncherEnds(d) PROVE WholeInv'
  <2> DEFINE k == works[d]
  <2>1. at[d] = "turn" /\ d \in Live
    BY <1>8 DEF LauncherEnds, TurnAnswers, TurnRaises, TurnCancelled, Live
  <2>2. k \in Ids /\ status[k] \in {"running", "cancelled"} /\ saw[d] = turns[k]
    BY <2>1, WorksAlone DEF WholeInv, TurnIsWhole
  <2>3. /\ UNCHANGED <<turns, pending, accepted, works, saw>>
        /\ \A e \in Drivers : at'[e] = "turn" => at[e] = "turn"
        /\ \A i \in Ids : i # k => status'[i] = status[i] /\ answer'[i] = answer[i]
        /\ \/ status'[k] \in {"running", "error", "cancelled"}
           \/ status'[k] = "success" /\ pending[k] = 0 /\ answer'[k] = turns[k]
    <3>1. CASE TurnAnswers(d)
      BY <2>2, <3>1 DEF TurnAnswers, More, TypeOK
    <3>2. CASE TurnRaises(d)
      BY <2>2, <3>2 DEF TurnRaises, TypeOK
    <3>3. CASE TurnCancelled(d)
      BY <2>2, <3>3 DEF TurnCancelled, TypeOK
    <3> QED
      BY <1>8, <3>1, <3>2, <3>3 DEF LauncherEnds
  <2> QED
    BY <2>2, <2>3
    DEF WholeInv, HeldHasTurns, TurnIsWhole, SuccessIsWhole, TurnsAreKept, Held
<1>9. CASE ShutdownMarks
  <2>1. /\ UNCHANGED <<turns, pending, answer, accepted, at, works, saw>>
        /\ \A i \in Ids : \/ status'[i] = status[i]
                          \/ status'[i] = "cancelled" /\ status[i] # "unknown"
    <3>1. ASSUME NEW i \in Ids
          PROVE  status'[i] = IF status[i] = "running" THEN "cancelled" ELSE status[i]
      BY <1>9 DEF ShutdownMarks, Held
    <3>2. UNCHANGED <<turns, pending, answer, accepted, at, works, saw>>
      BY <1>9 DEF ShutdownMarks
    <3> QED
      BY <3>1, <3>2
  <2> QED
    BY <2>1
    DEF WholeInv, HeldHasTurns, TurnIsWhole, SuccessIsWhole, TurnsAreKept, Held
<1>10. CASE ShutdownStep \/ (\E S \in SUBSET Agents : Rebind(S))
  <2>1. CASE ShutdownStops
    BY <2>1, WholeKept DEF ShutdownStops, Lost
  <2>2. CASE (\E i \in Ids : ShutdownCancels(i)) \/ (\E S \in SUBSET Agents : Rebind(S))
    BY <2>2, WholeKept DEF ShutdownCancels, Rebind
  <2> QED
    BY <1>10, <2>1, <2>2 DEF ShutdownStep
<1>11. CASE Restart
  <2>1. /\ \A i \in Ids : status'[i] = "unknown"
        /\ \A d \in Drivers : at'[d] # "turn"
    BY <1>11 DEF Restart, Lost, Live
  <2> QED
    BY <2>1 DEF WholeInv, HeldHasTurns, TurnIsWhole, SuccessIsWhole, TurnsAreKept, Held
<1>12. CASE UNCHANGED vars
  BY <1>12, WholeKept DEF vars
<1> QED
  BY <1>1, <1>2, <1>3, <1>4, <1>5, <1>6, <1>7, <1>8, <1>9, <1>10, <1>11, <1>12
  DEF Next, CallGoesOn, DriverStep, ShutdownStep

\* What no step but a restart does to a task the desk holds: it forgets it,
\* takes turns from it, or gives it an answer that has not read them all.
LEMMA HeldIsKept ==
  ASSUME TypeOK, WholeInv, \A i \in Ids : Driven(i), [Next]_vars, ~Restart, NEW k \in Held
  PROVE  /\ status'[k] # "unknown" /\ turns'[k] >= turns[k]
         /\ answer'[k] \in {answer[k], NoAnswer, turns[k]}
<1> USE DEF taskVars, driverVars, callVars, hostVars, history, Call, Go, Return
<1>0. k \in Ids /\ turns[k] \in Nat /\ pending[k] \in Nat
  BY DEF Held, TypeOK
<1>1. ASSUME NEW c \in Callers, NEW wanted \in Ids, Start(c, wanted)
      PROVE  UNCHANGED <<status[k], turns[k], answer[k]>>
  <2>1. PICK i \in FreeId(wanted) :
          /\ status' = [status EXCEPT ![i] = "running"]
          /\ turns' = [turns EXCEPT ![i] = 1]
          /\ answer' = [answer EXCEPT ![i] = NoAnswer]
    BY <1>1, Zenon DEF Start
  <2>2. i # k
    BY FreeIdIsFree DEF WholeInv, Held
  <2> QED
    BY <1>0, <2>1, <2>2 DEF TypeOK
<1>2. ASSUME NEW c \in Callers, NEW i \in Ids, FollowUp(c, i) \/ Cancel(c, i)
      PROVE  status'[k] # "unknown" /\ UNCHANGED <<turns[k], answer[k]>>
  <2>1. \A v \in {"running", "cancelled"} : [status EXCEPT ![i] = v][k] # "unknown"
    BY <1>0 DEF TypeOK, Held
  <2>2. /\ \E v \in {"running", "cancelled"} : status' = [status EXCEPT ![i] = v]
        /\ UNCHANGED <<turns, answer>>
    BY <1>2 DEF FollowUp, Cancel, Reopened
  <2> QED
    BY <2>1, <2>2
<1>3. ASSUME NEW c \in Callers, CallGoesOn(c) \/ (\E i \in Ids : CheckStatus(c, i))
      PROVE  UNCHANGED <<status, turns, answer>>
  BY <1>3, Zenon DEF CallGoesOn, CheckStatus, Submit, LauncherGone, Assign, Kill,
                     CheckResult, CheckAnswer, Said
<1>4. ASSUME NEW d \in Drivers, NextTurn(d)
      PROVE  turns'[k] >= turns[k] /\ UNCHANGED <<status, answer>>
  BY <1>0, <1>4 DEF NextTurn, Folded, TypeOK
<1>5. ASSUME NEW d \in Drivers, DriverQuits(d) \/ LauncherEnds(d)
      PROVE  /\ status'[k] # "unknown" /\ turns' = turns
             /\ answer'[k] \in {answer[k], NoAnswer, turns[k]}
  <2>1. CASE DriverQuits(d)
    BY <2>1 DEF DriverQuits, Held
  <2>2. CASE TurnAnswers(d)
    BY <1>0, <2>2 DEF TurnAnswers, WholeInv, TurnIsWhole, TypeOK, Held
  <2>3. CASE TurnRaises(d)
    BY <1>0, <2>3 DEF TurnRaises, TypeOK, Held
  <2>4. CASE TurnCancelled(d)
    BY <1>0, <2>4 DEF TurnCancelled, TypeOK, Held
  <2> QED
    BY <1>5, <2>1, <2>2, <2>3, <2>4 DEF LauncherEnds
<1>6. CASE ShutdownMarks \/ ShutdownStep \/ (\E S \in SUBSET Agents : Rebind(S))
  BY <1>0, <1>6 DEF ShutdownMarks, ShutdownStep, ShutdownCancels, ShutdownStops, Rebind, Held
<1>7. CASE UNCHANGED vars
  BY <1>0, <1>7 DEF vars, Held
<1> QED
  BY <1>0, <1>1, <1>2, <1>3, <1>4, <1>5, <1>6, <1>7 DEF Next, DriverStep, Held

-----------------------------------------------------------------------------
(***************************************************************************)
(* Checks.                                                                 *)
(***************************************************************************)
\* What CheckIsWhole and ToldIsWhole say of one caller.
Checks(c) ==
  LET k == frame[c].task IN
  /\ calling[c] \in {"checked", "result"} =>
       /\ k \in Held /\ frame[c].got = NoAnswer
       /\ frame[c].asked =< turns[k]
       /\ answer[k] = NoAnswer \/ answer[k] >= frame[c].asked
  /\ calling[c] = "said" =>
       frame[c].got \in {NoAnswer} \cup {n \in Nat : n >= frame[c].asked}

LEMMA ChecksIsBoth == CheckIsWhole /\ ToldIsWhole <=> \A c \in Callers : Checks(c)
BY DEF CheckIsWhole, ToldIsWhole, Checks

\* A caller that does not move keeps what it knows of its task.
LEMMA ChecksKept ==
  ASSUME TypeOK, TypeOK', WholeInv, \A i \in Ids : Driven(i), [Next]_vars, ~Restart,
         NEW c \in Callers, Checks(c), calling'[c] = calling[c], frame'[c] = frame[c]
  PROVE  Checks(c)'
<1> DEFINE k == frame[c].task
<1>1. frame[c].asked \in Nat /\ k \in Ids
  BY DEF TypeOK, Frame
<1>2. CASE calling[c] \in {"checked", "result"}
  <2>1. k \in Held /\ frame[c].asked =< turns[k]
        /\ (answer[k] = NoAnswer \/ answer[k] >= frame[c].asked)
    BY <1>2 DEF Checks
  <2>2. /\ status'[k] # "unknown" /\ turns'[k] >= turns[k]
        /\ answer'[k] \in {answer[k], NoAnswer, turns[k]}
    BY <2>1, HeldIsKept
  <2>3. turns[k] \in Nat /\ turns'[k] \in Nat /\ answer[k] \in Nat
    BY <1>1 DEF TypeOK
  <2>4. frame[c].asked =< turns'[k] /\ (answer'[k] = NoAnswer \/ answer'[k] >= frame[c].asked)
    BY <1>1, <2>1, <2>2, <2>3
  <2> QED
    BY <1>1, <1>2, <2>2, <2>4 DEF Checks, Held
<1>3. CASE calling[c] \notin {"checked", "result"}
  BY <1>3 DEF Checks
<1> QED
  BY <1>2, <1>3

LEMMA ChecksStep ==
  TypeOK /\ TypeOK' /\ WholeInv /\ (\A k \in Ids : Driven(k))
    /\ (\A c \in Callers : Checks(c)) /\ [Next]_vars => \A c \in Callers : Checks(c)'
<1> SUFFICES ASSUME TypeOK, TypeOK', WholeInv, \A i \in Ids : Driven(i),
                    \A b \in Callers : Checks(b), [Next]_vars, NEW b \in Callers
             PROVE  Checks(b)'
  OBVIOUS
<1> USE DEF taskVars, driverVars, callVars, hostVars, history, Call, Go, Return
<1>0. CASE Restart
  <2>1. calling'[b] = "idle"
    BY <1>0 DEF Restart
  <2> QED
    BY <2>1 DEF Checks
<1>1. CASE ~Restart /\ calling'[b] = calling[b] /\ frame'[b] = frame[b]
  BY <1>1, ChecksKept
<1>2. CASE calling'[b] \notin {"checked", "result", "said"}
  BY <1>2 DEF Checks
<1>3. ASSUME NEW c \in Callers, NEW k \in Ids,
             Start(c, k) \/ FollowUp(c, k) \/ Cancel(c, k) \/ CheckStatus(c, k), ~Restart
      PROVE  Checks(b)'
  <2>1. CASE b # c
    <3>1. calling'[b] = calling[b] /\ frame'[b] = frame[b]
      <4>1. CASE Start(c, k)
        BY <2>1, <4>1 DEF Start, TypeOK
      <4>2. CASE FollowUp(c, k)
        BY <2>1, <4>2 DEF FollowUp, TypeOK
      <4>3. CASE Cancel(c, k)
        BY <2>1, <4>3 DEF Cancel, TypeOK
      <4>4. CASE CheckStatus(c, k)
        BY <2>1, <4>4 DEF CheckStatus, TypeOK
      <4> QED
        BY <1>3, <4>1, <4>2, <4>3, <4>4
    <3> QED
      BY <1>1, <1>3, <3>1
  <2>2. CASE b = c /\ ~CheckStatus(c, k)
    <3>1. calling'[b] \in {"launch", "relaunch", "idle", "kill"}
      <4>1. CASE Start(c, k)
        BY <2>2, <4>1 DEF Start, TypeOK
      <4>2. CASE FollowUp(c, k)
        BY <2>2, <4>2 DEF FollowUp, TypeOK
      <4>3. CASE Cancel(c, k)
        BY <2>2, <4>3 DEF Cancel, TypeOK
      <4> QED
        BY <1>3, <2>2, <4>1, <4>2, <4>3
    <3> QED
      BY <1>2, <3>1
  <2>3. CASE b = c /\ CheckStatus(c, k)
    <3>1. /\ status[k] = "success" /\ calling'[c] = "checked"
          /\ frame'[c] = Locals(k, NoDriver, accepted[k], NoAnswer)
          /\ UNCHANGED <<status, turns, answer>>
      BY <2>3 DEF CheckStatus, TypeOK
    <3>2. /\ k \in Held /\ turns[k] \in Nat
          /\ accepted[k] = turns[k] /\ answer[k] = turns[k]
      <4>1. k \in Held /\ turns[k] \in Nat /\ accepted[k] \in Nat
        BY <3>1 DEF Held, TypeOK
      <4>2. pending[k] = 0 /\ answer[k] = turns[k] /\ turns[k] + pending[k] = accepted[k]
        BY <3>1, <4>1 DEF WholeInv, SuccessIsWhole, TurnsAreKept
      <4> QED
        BY <4>1, <4>2
    <3> QED
      BY <2>3, <3>1, <3>2 DEF Checks, Locals, Held
  <2> QED
    BY <2>1, <2>2, <2>3
<1>4. ASSUME NEW c \in Callers, CallGoesOn(c), ~Restart PROVE Checks(b)'
  <2>1. CASE b # c
    <3>1. calling'[b] = calling[b] /\ frame'[b] = frame[b]
      <4>1. CASE Submit(c) \/ LauncherGone(c) \/ Assign(c) \/ Kill(c)
        BY <2>1, <4>1 DEF Submit, LauncherGone, Assign, Kill, TypeOK
      <4>2. CASE CheckResult(c) \/ CheckAnswer(c) \/ Said(c)
        BY <2>1, <4>2 DEF CheckResult, CheckAnswer, Said, TypeOK
      <4> QED
        BY <1>4, <4>1, <4>2 DEF CallGoesOn
    <3> QED
      BY <1>1, <1>4, <3>1
  <2>2. CASE b = c /\ (Submit(c) \/ LauncherGone(c) \/ Assign(c) \/ Kill(c) \/ Said(c))
    <3>1. calling'[b] \in {"assign", "idle"}
      BY <2>2 DEF Submit, LauncherGone, Assign, Kill, Said, TypeOK
    <3> QED
      BY <1>2, <3>1
  <2>3. CASE b = c /\ CheckResult(c)
    <3>1. /\ calling[c] = "checked" /\ calling'[c] \in {"result", "said"}
          /\ UNCHANGED <<status, turns, answer, frame>>
      BY <2>3 DEF CheckResult, TypeOK
    <3> QED
      BY <2>3, <3>1 DEF Checks, Held
  <2>4. CASE b = c /\ CheckAnswer(c)
    <3>1. /\ calling[c] = "result" /\ calling'[c] = "said"
          /\ frame'[c] = Locals(frame[c].task, NoDriver, frame[c].asked, answer[frame[c].task])
      BY <2>4 DEF CheckAnswer, TypeOK
    <3>2. /\ answer[frame[c].task] \in Nat
          /\ \/ answer[frame[c].task] = NoAnswer
             \/ answer[frame[c].task] >= frame[c].asked
      BY <3>1 DEF Checks, Held, TypeOK
    <3> QED
      BY <2>4, <3>1, <3>2 DEF Checks, Locals
  <2> QED
    BY <1>4, <2>1, <2>2, <2>3, <2>4 DEF CallGoesOn
<1>5. ASSUME NEW d \in Drivers, DriverStep(d) PROVE UNCHANGED <<calling, frame>>
  BY <1>5 DEF DriverStep, LauncherEnds, NextTurn, DriverQuits, TurnAnswers, TurnRaises,
              TurnCancelled
<1>6. CASE ShutdownMarks \/ ShutdownStep \/ (\E S \in SUBSET Agents : Rebind(S))
             \/ UNCHANGED vars
  <2>1. UNCHANGED <<calling, frame>>
    BY <1>6 DEF ShutdownMarks, ShutdownStep, ShutdownCancels, ShutdownStops, Rebind, vars
  <2> QED
    BY <1>0, <1>1, <2>1
<1> QED
  BY <1>0, <1>1, <1>3, <1>4, <1>5, <1>6 DEF Next

-----------------------------------------------------------------------------
(***************************************************************************)
(* The inductive invariant, and what it implies.                           *)
(***************************************************************************)
LEMMA DeskInvParts ==
  DeskInv <=> /\ TypeOK /\ DriversAreCalls /\ WholeInv
              /\ \A k \in Ids : Driven(k)
              /\ \A c \in Callers : Checks(c)
BY DrivenIsBoth, ChecksIsBoth DEF DeskInv, WholeInv

LEMMA DeskInit == Init => DeskInv
<1> SUFFICES ASSUME Init PROVE DeskInv
  OBVIOUS
<1>1. TypeOK
  BY TypeInit
<1>2. DriversAreCalls
  <2>1. Submitting = {}
    BY DEF Init, Submitting
  <2> QED
    BY <2>1, FS_EmptySet DEF Init, DriversAreCalls
<1>3. WholeInv
  BY DEF Init, WholeInv, HeldHasTurns, TurnIsWhole, SuccessIsWhole, TurnsAreKept, Held
<1>4. ASSUME NEW k \in Ids PROVE Driven(k)
  BY DEF Init, Driven, DriversOf, Live, Launching
<1>5. ASSUME NEW c \in Callers PROVE Checks(c)
  BY DEF Init, Checks
<1> QED
  BY <1>1, <1>2, <1>3, <1>4, <1>5, DeskInvParts

LEMMA DeskStep == DeskInv /\ [Next]_vars => DeskInv'
<1> SUFFICES ASSUME DeskInv, [Next]_vars PROVE DeskInv'
  OBVIOUS
<1>1. /\ TypeOK /\ DriversAreCalls /\ WholeInv /\ HeldHasTurns
      /\ \A k \in Ids : Driven(k)
      /\ \A c \in Callers : Checks(c)
  BY DeskInvParts DEF WholeInv
<1>2. TypeOK' /\ DriversAreCalls' /\ WholeInv'
  BY <1>1, TypeStep, CountStep, WholeStep
<1>3. \A k \in Ids : Driven(k)'
  BY <1>1, DrivenStep
<1>4. \A c \in Callers : Checks(c)'
  BY <1>1, <1>2, ChecksStep
<1>5. OneDriver' /\ DrivenIsLive'
  BY <1>3 DEF OneDriver, DrivenIsLive, Driven
<1>6. CheckIsWhole' /\ ToldIsWhole'
  BY <1>4 DEF CheckIsWhole, ToldIsWhole, Checks
<1> QED
  BY <1>2, <1>5, <1>6 DEF DeskInv, WholeInv

\* The desk keeps its invariant: a driver belongs to one task that has not
\* ended, and turns, answers and checks are those of one conversation.
THEOREM DeskInvariant == Spec => []DeskInv
<1>1. Init => DeskInv
  BY DeskInit
<1>2. DeskInv /\ [Next]_vars => DeskInv'
  BY DeskStep
<1> QED
  BY <1>1, <1>2, PTL DEF Spec

\* Every variable has its type; the drivers are no more than the tool calls.
THEOREM DeskTypes == Spec => []TypeOK
<1>1. DeskInv => TypeOK
  BY DEF DeskInv
<1> QED
  BY <1>1, DeskInvariant, PTL

\* A task is driven by one coroutine (async_tasks.py:513), whatever tool calls,
\* shutdowns, rebinds and restarts meet.
THEOREM TaskHasOneDriver == Spec => []OneDriver
<1>1. DeskInv => OneDriver
  BY DEF DeskInv
<1> QED
  BY <1>1, DeskInvariant, PTL

\* The answer of a task that succeeded has read every turn of it.
THEOREM SuccessAnswersEverything == Spec => []SuccessIsWhole
<1>1. DeskInv => SuccessIsWhole
  BY DEF DeskInv
<1> QED
  BY <1>1, DeskInvariant, PTL

\* An accepted turn is in the conversation or in the queue, once.
THEOREM NoTurnIsLost == Spec => []TurnsAreKept
<1>1. DeskInv => TurnsAreKept
  BY DEF DeskInv
<1> QED
  BY <1>1, DeskInvariant, PTL

\* What check_async_task tells the model has read all it asked about, though
\* status and answer are read in two steps.
THEOREM ToldTheWholeAnswer == Spec => []ToldIsWhole
<1>1. DeskInv => ToldIsWhole
  BY DEF DeskInv
<1> QED
  BY <1>1, DeskInvariant, PTL

-----------------------------------------------------------------------------
\* A cancelled task runs on as a failed one at most.
SilencedInv == \A k \in silenced : status[k] \in {"cancelled", "error", "unknown"}

\* What a step does to a task that was cancelled and took no turn since.
StaysQuiet(k) ==
  /\ k \in silenced' =>
       /\ status'[k] \in {"cancelled", "error", "unknown"}
       /\ turns'[k] = turns[k]
       /\ answer'[k] \in {answer[k], NoAnswer}
       /\ \A d \in Drivers : works[d] = k /\ at'[d] = "turn" => at[d] = "turn"
  /\ k \notin silenced' => status[k] \in {"error", "unknown"}

LEMMA QuietStep ==
  ASSUME DeskInv, [Next]_vars, NEW k \in Ids, k \in silenced,
         status[k] \in {"cancelled", "error", "unknown"}
  PROVE  StaysQuiet(k)
<1> USE DEF taskVars, driverVars, callVars, hostVars, history, Call, Go, Return
<1>0. /\ TypeOK /\ HeldHasTurns /\ DrivenIsLive
      /\ \A d \in Live : works[d] = k => status[k] = "cancelled"
  <2>1. TypeOK /\ HeldHasTurns /\ DrivenIsLive
    BY DEF DeskInv
  <2>2. \A d \in Live : works[d] = k => d \in DriversOf(k)
    BY DEF DriversOf
  <2> QED
    BY <2>1, <2>2 DEF DrivenIsLive
<1>1. ASSUME NEW c \in Callers, NEW wanted \in Ids, Start(c, wanted)
      PROVE  StaysQuiet(k)
  <2>1. PICK i \in FreeId(wanted) :
          /\ status' = [status EXCEPT ![i] = "running"]
          /\ turns' = [turns EXCEPT ![i] = 1]
          /\ answer' = [answer EXCEPT ![i] = NoAnswer]
          /\ silenced' = silenced \ {i}
          /\ UNCHANGED <<at, works>>
    BY <1>1, Zenon DEF Start
  <2>2. i \in Ids /\ status[i] = "unknown"
    BY <1>0, FreeIdIsFree
  <2> QED
    BY <1>0, <2>1, <2>2 DEF StaysQuiet, TypeOK
<1>2. ASSUME NEW c \in Callers, NEW i \in Ids, FollowUp(c, i)
      PROVE  StaysQuiet(k)
  <2>1. /\ status[i] \notin {"unknown", "cancelled"}
        /\ status' = [status EXCEPT ![i] = "running"]
        /\ silenced' = silenced \ {i}
        /\ UNCHANGED <<turns, answer, at, works>>
    BY <1>2 DEF FollowUp, Reopened
  <2> QED
    BY <1>0, <2>1 DEF StaysQuiet, TypeOK
<1>3. ASSUME NEW c \in Callers, NEW i \in Ids, Cancel(c, i)
      PROVE  StaysQuiet(k)
  <2>1. /\ status' = [status EXCEPT ![i] = "cancelled"]
        /\ silenced' = silenced \cup {i}
        /\ UNCHANGED <<turns, answer, at, works>>
    BY <1>3 DEF Cancel
  <2> QED
    BY <1>0, <2>1 DEF StaysQuiet, TypeOK
<1>4. ASSUME UNCHANGED <<status, turns, answer, silenced>>,
             \A d \in Drivers : works[d] = k /\ at'[d] = "turn" => at[d] = "turn"
      PROVE  StaysQuiet(k)
  BY <1>4 DEF StaysQuiet
<1>5. ASSUME NEW c \in Callers, CallGoesOn(c) \/ (\E i \in Ids : CheckStatus(c, i))
      PROVE  StaysQuiet(k)
  <2>1. UNCHANGED <<status, turns, answer, silenced>>
    BY <1>5, Zenon DEF CallGoesOn, CheckStatus, Submit, LauncherGone, Assign, Kill,
                       CheckResult, CheckAnswer, Said
  <2>2. at' = at \/ \E e \in Drivers \cup {drivers + 1} : at' = [at EXCEPT ![e] = "queued"]
    BY <1>5 DEF CallGoesOn, CheckStatus, Submit, LauncherGone, Assign, Kill,
                CheckResult, CheckAnswer, Said
  <2>3. \A d \in Drivers : at'[d] = "turn" => at[d] = "turn"
    BY <1>0, <2>2 DEF TypeOK
  <2> QED
    BY <1>4, <2>1, <2>3
<1>6. ASSUME NEW d \in Drivers, DriverStep(d)
      PROVE  StaysQuiet(k)
  <2>1. works[d] \in Ids /\ silenced' = silenced
    BY <1>0, <1>6 DEF TypeOK, DriverStep, LauncherEnds, NextTurn, DriverQuits, TurnAnswers,
                      TurnRaises, TurnCancelled
  <2>2. d \in Live /\ (works[d] = k => status[k] = "cancelled")
    BY <1>0, <1>6 DEF DriverStep, LauncherEnds, NextTurn, DriverQuits, TurnAnswers,
                      TurnRaises, TurnCancelled, Live
  <2>3. CASE NextTurn(d)
    BY <1>0, <2>1, <2>2, <2>3 DEF NextTurn, StaysQuiet, TypeOK
  <2>4. CASE DriverQuits(d)
    BY <1>0, <2>1, <2>4 DEF DriverQuits, StaysQuiet, TypeOK
  <2>5. CASE TurnAnswers(d)
    BY <1>0, <2>1, <2>2, <2>5 DEF TurnAnswers, Published, StaysQuiet, TypeOK
  <2>6. CASE TurnRaises(d)
    BY <1>0, <2>1, <2>6 DEF TurnRaises, StaysQuiet, TypeOK
  <2>7. CASE TurnCancelled(d)
    BY <1>0, <2>1, <2>7 DEF TurnCancelled, StaysQuiet, TypeOK
  <2> QED
    BY <1>6, <2>3, <2>4, <2>5, <2>6, <2>7 DEF DriverStep, LauncherEnds
<1>7. CASE ShutdownMarks
  BY <1>0, <1>7 DEF ShutdownMarks, StaysQuiet, TypeOK
<1>8. CASE ShutdownStep \/ (\E S \in SUBSET Agents : Rebind(S)) \/ UNCHANGED vars
  <2>1. UNCHANGED <<status, turns, answer, silenced>>
    BY <1>8 DEF ShutdownStep, ShutdownCancels, ShutdownStops, Rebind, vars
  <2>2. \A d \in Drivers : at'[d] = "turn" => at[d] = "turn"
    BY <1>8 DEF ShutdownStep, ShutdownCancels, ShutdownStops, Lost, Rebind, vars
  <2> QED
    BY <1>4, <2>1, <2>2
<1>9. CASE Restart
  BY <1>9 DEF Restart, Lost, StaysQuiet
<1> QED
  BY <1>1, <1>2, <1>3, <1>5, <1>6, <1>7, <1>8, <1>9 DEF Next

\* Only cancel() and shutdown() silence a task, and both cancel it.
LEMMA NewlySilenced ==
  ASSUME TypeOK, [Next]_vars, NEW k \in Ids, k \in silenced', k \notin silenced
  PROVE  status'[k] = "cancelled"
<1> USE DEF taskVars, driverVars, callVars, hostVars, history
<1>1. ASSUME NEW c \in Callers, NEW wanted \in Ids, Start(c, wanted)
      PROVE  silenced' \subseteq silenced
  BY <1>1, Zenon DEF Start
<1>2. ASSUME NEW c \in Callers, NEW i \in Ids, FollowUp(c, i) \/ CheckStatus(c, i)
      PROVE  silenced' \subseteq silenced
  BY <1>2 DEF FollowUp, CheckStatus
<1>3. ASSUME NEW c \in Callers, NEW i \in Ids, Cancel(c, i)
      PROVE  status'[k] = "cancelled"
  BY <1>3 DEF Cancel, TypeOK
<1>4. ASSUME NEW c \in Callers, CallGoesOn(c) PROVE silenced' = silenced
  BY <1>4, Zenon DEF CallGoesOn, Submit, LauncherGone, Assign, Kill, CheckResult, CheckAnswer,
                     Said
<1>5. ASSUME NEW d \in Drivers, DriverStep(d) PROVE silenced' = silenced
  BY <1>5, Zenon DEF DriverStep, LauncherEnds, NextTurn, DriverQuits, TurnAnswers, TurnRaises,
                     TurnCancelled
<1>6. CASE ShutdownMarks
  BY <1>6 DEF ShutdownMarks
<1>7. CASE ShutdownStep \/ (\E S \in SUBSET Agents : Rebind(S)) \/ Restart
             \/ UNCHANGED vars
  BY <1>7 DEF ShutdownStep, ShutdownCancels, ShutdownStops, Rebind, Restart, vars
<1> QED
  BY <1>1, <1>2, <1>3, <1>4, <1>5, <1>6, <1>7 DEF Next

LEMMA SilencedStep == DeskInv /\ SilencedInv /\ [Next]_vars => SilencedInv'
<1> SUFFICES ASSUME DeskInv, SilencedInv, [Next]_vars, NEW k \in silenced'
             PROVE  status'[k] \in {"cancelled", "error", "unknown"}
  BY DEF SilencedInv
<1>1. TypeOK /\ k \in Ids
  BY DeskStep DEF DeskInv, TypeOK
<1>2. CASE k \in silenced
  BY <1>1, <1>2, QuietStep DEF SilencedInv, StaysQuiet
<1>3. CASE k \notin silenced
  BY <1>1, <1>3, NewlySilenced
<1> QED
  BY <1>2, <1>3

\* Once cancel() returned True, and until a later turn is accepted, a task
\* begins no turn and publishes no answer, and such a turn is accepted only if
\* the child failed or the process restarted: CancelledIsQuiet for every number
\* of tasks, callers, shutdowns and restarts.
THEOREM CancelSilences == Spec => CancelledIsQuiet
<1>1. Init => SilencedInv
  BY DEF Init, SilencedInv
<1>2. DeskInv /\ SilencedInv /\ [Next]_vars => SilencedInv'
  BY SilencedStep
<1>3. DeskInv /\ SilencedInv /\ [Next]_vars =>
        [/\ \A k \in silenced \cap silenced' :
              /\ turns'[k] = turns[k]
              /\ answer'[k] \in {answer[k], NoAnswer}
              /\ \A d \in Drivers : works[d] = k /\ at'[d] = "turn" => at[d] = "turn"
         /\ \A k \in silenced \ silenced' : status[k] \in {"error", "unknown"}]_vars
  <2> SUFFICES ASSUME DeskInv, SilencedInv, [Next]_vars, NEW k \in silenced
               PROVE  StaysQuiet(k)
    BY DEF StaysQuiet
  <2>1. k \in Ids
    BY DEF DeskInv, TypeOK
  <2> QED
    BY <2>1, QuietStep DEF SilencedInv
<1> QED
  BY <1>1, <1>2, <1>3, DeskInvariant, PTL DEF Spec, CancelledIsQuiet

-----------------------------------------------------------------------------
(***************************************************************************)
(* What holds until the process restarts, and until the desk is rebound or *)
(* shut down.                                                              *)
(***************************************************************************)
LEMMA RestartsAreCounted ==
  ASSUME TypeOK, [Next]_vars
  PROVE  /\ restarts' = 0 => restarts = 0 /\ ~Restart
         /\ rebinds' = 0 => rebinds = 0 /\ \A S \in SUBSET Agents : ~Rebind(S)
         /\ shutdowns' = 0 => shutdowns = 0 /\ ~ShutdownMarks
<1> USE DEF TypeOK, taskVars, driverVars, callVars, hostVars, history
<1>1. ASSUME NEW c \in Callers, NEW k \in Ids,
             Start(c, k) \/ FollowUp(c, k) \/ Cancel(c, k) \/ CheckStatus(c, k)
      PROVE  UNCHANGED <<restarts, rebinds, shutdowns>>
  BY <1>1, Zenon DEF Start, FollowUp, Cancel, CheckStatus
<1>2. ASSUME NEW c \in Callers, CallGoesOn(c) PROVE UNCHANGED <<restarts, rebinds, shutdowns>>
  BY <1>2, Zenon DEF CallGoesOn, Submit, LauncherGone, Assign, Kill, CheckResult, CheckAnswer, Said
<1>3. ASSUME NEW d \in Drivers, DriverStep(d) PROVE UNCHANGED <<restarts, rebinds, shutdowns>>
  BY <1>3, Zenon DEF DriverStep, LauncherEnds, NextTurn, DriverQuits, TurnAnswers, TurnRaises,
                     TurnCancelled
<1>4. /\ ShutdownMarks => shutdowns' = shutdowns + 1 /\ UNCHANGED <<restarts, rebinds>>
      /\ ShutdownStep => UNCHANGED <<restarts, rebinds, shutdowns>>
  BY DEF ShutdownMarks, ShutdownStep, ShutdownCancels, ShutdownStops
<1>5. /\ \A S \in SUBSET Agents :
           Rebind(S) => rebinds' = rebinds + 1 /\ UNCHANGED <<restarts, shutdowns>>
      /\ Restart => restarts' = restarts + 1 /\ UNCHANGED <<rebinds, shutdowns>>
      /\ UNCHANGED vars => UNCHANGED <<restarts, rebinds, shutdowns>>
  BY Zenon DEF Rebind, Restart, vars
<1>6. /\ restarts \in Nat /\ rebinds \in Nat /\ shutdowns \in Nat
      /\ restarts' \in {restarts, restarts + 1} /\ (Restart => restarts' = restarts + 1)
      /\ rebinds' \in {rebinds, rebinds + 1}
      /\ \A S \in SUBSET Agents : Rebind(S) => rebinds' = rebinds + 1
      /\ shutdowns' \in {shutdowns, shutdowns + 1}
      /\ (ShutdownMarks => shutdowns' = shutdowns + 1)
  BY <1>1, <1>2, <1>3, <1>4, <1>5 DEF Next
<1> QED
  BY <1>6

LEMMA OwnStep == DeskInv /\ TasksAreOwn /\ [Next]_vars /\ ~Restart => TasksAreOwn'
<1> SUFFICES ASSUME DeskInv, TasksAreOwn, [Next]_vars, ~Restart PROVE TasksAreOwn'
  OBVIOUS
<1> USE DEF taskVars, driverVars, callVars, hostVars, history, Call, Go, Return
<1>0. TypeOK /\ WholeInv /\ HeldHasTurns /\ (\A k \in Ids : Driven(k))
  BY DeskInvParts DEF WholeInv
<1>5. \A k \in Held : k \in Held'
  BY <1>0, HeldIsKept DEF Held
<1>6. ASSUME UNCHANGED <<rows, owner>>,
             \A c \in Starting' : \/ c \in Starting /\ frame'[c].task = frame[c].task
                                  \/ /\ frame'[c].task \in Held
                                     /\ owner[frame'[c].task] = Conv[c]
      PROVE  TasksAreOwn'
  BY <1>5, <1>6 DEF TasksAreOwn
<1>7. ASSUME NEW c \in Callers, NEW wanted \in Ids, Start(c, wanted)
      PROVE  TasksAreOwn'
  <2>1. PICK i \in FreeId(wanted) :
          /\ calling' = [calling EXCEPT ![c] = "launch"]
          /\ frame' = [frame EXCEPT ![c] = Locals(i, NoDriver, 0, NoAnswer)]
          /\ status' = [status EXCEPT ![i] = "running"]
          /\ owner' = [owner EXCEPT ![i] = Conv[c]]
          /\ rows' = rows
    BY <1>7, Zenon DEF Start
  <2>2. i \in Ids /\ i \notin Held
    BY <1>0, FreeIdIsFree DEF Held
  <2>3. \A k \in Held : owner'[k] = owner[k]
    BY <1>0, <2>1, <2>2 DEF TypeOK, Held
  <2>4. i \in Held' /\ owner'[i] = Conv[c] /\ frame'[c].task = i
    BY <1>0, <2>1, <2>2 DEF TypeOK, Held, Locals
  <2>5. ASSUME NEW b \in Starting', b # c PROVE b \in Starting /\ frame'[b] = frame[b]
    BY <1>0, <2>1, <2>5 DEF TypeOK, Starting
  <2> QED
    BY <1>5, <2>1, <2>3, <2>4, <2>5 DEF TasksAreOwn
<1>8. ASSUME NEW c \in Callers, NEW i \in Ids,
             FollowUp(c, i) \/ Cancel(c, i) \/ CheckStatus(c, i)
      PROVE  TasksAreOwn'
  <2>1. UNCHANGED <<rows, owner>> /\ i \in rows[Conv[c]]
    BY <1>8 DEF FollowUp, Cancel, CheckStatus
  <2>2. \/ frame' = [frame EXCEPT ![c] = Locals(i, NoDriver, 0, NoAnswer)]
        \/ calling'[c] \in {"idle", "kill", "checked"}
    BY <1>0, <1>8 DEF FollowUp, Cancel, CheckStatus, TypeOK
  <2>3. \A b \in Callers : b # c => calling'[b] = calling[b] /\ frame'[b] = frame[b]
    <3>1. CASE FollowUp(c, i)
      BY <1>0, <3>1 DEF FollowUp, TypeOK
    <3>2. CASE Cancel(c, i)
      BY <1>0, <3>2 DEF Cancel, TypeOK
    <3>3. CASE CheckStatus(c, i)
      BY <1>0, <3>3 DEF CheckStatus, TypeOK
    <3> QED
      BY <1>8, <3>1, <3>2, <3>3
  <2>4. ASSUME c \in Starting'
        PROVE  frame'[c].task \in Held /\ owner[frame'[c].task] = Conv[c]
    <3>1. frame'[c].task = i
      BY <1>0, <2>2, <2>4 DEF Starting, Locals, TypeOK
    <3> QED
      BY <2>1, <3>1, CallersHaveConversations DEF TasksAreOwn
  <2> QED
    BY <1>6, <2>1, <2>3, <2>4 DEF Starting
<1>9. ASSUME NEW c \in Callers, Assign(c)
      PROVE  TasksAreOwn'
  <2>1. c \in Starting /\ frame[c].task \in Held /\ owner[frame[c].task] = Conv[c]
    BY <1>9 DEF Assign, Starting, TasksAreOwn
  <2>2. /\ rows' = [rows EXCEPT ![Conv[c]] = @ \cup {frame[c].task}] /\ owner' = owner
        /\ \A b \in Starting' : b \in Starting /\ frame'[b] = frame[b]
    BY <1>0, <1>9 DEF Assign, Starting, TypeOK
  <2> QED
    BY <1>0, <1>5, <2>1, <2>2 DEF TypeOK, TasksAreOwn
<1>10. ASSUME NEW c \in Callers, Submit(c)
       PROVE  TasksAreOwn'
  <2>1. UNCHANGED <<rows, owner>>
    BY <1>10 DEF Submit
  <2>2. \A b \in Starting' : b \in Starting /\ frame'[b].task = frame[b].task
    BY <1>0, <1>10 DEF Submit, Starting, Locals, TypeOK
  <2> QED
    BY <1>6, <2>1, <2>2
<1>11. ASSUME NEW c \in Callers,
              LauncherGone(c) \/ Kill(c) \/ CheckResult(c) \/ CheckAnswer(c) \/ Said(c)
       PROVE  TasksAreOwn'
  <2>1. UNCHANGED <<rows, owner>>
    BY <1>11 DEF LauncherGone, Kill, CheckResult, CheckAnswer, Said
  <2>2. \A b \in Starting' : b \in Starting /\ frame'[b] = frame[b]
    BY <1>0, <1>11 DEF LauncherGone, Kill, CheckResult, CheckAnswer, Said, Starting, TypeOK
  <2> QED
    BY <1>6, <2>1, <2>2
<1>12. ASSUME NEW d \in Drivers, DriverStep(d) PROVE UNCHANGED <<rows, owner, calling, frame>>
  BY <1>12 DEF DriverStep, LauncherEnds, NextTurn, DriverQuits, TurnAnswers, TurnRaises,
               TurnCancelled
<1>13. CASE ShutdownMarks \/ ShutdownStep \/ (\E S \in SUBSET Agents : Rebind(S))
              \/ UNCHANGED vars
  <2>1. UNCHANGED <<rows, owner, calling, frame>>
    BY <1>13 DEF ShutdownMarks, ShutdownStep, ShutdownCancels, ShutdownStops, Rebind, vars
  <2> QED
    BY <1>6, <2>1 DEF Starting
<1>14. ASSUME UNCHANGED <<rows, owner, calling, frame>>
       PROVE  TasksAreOwn'
  BY <1>6, <1>14 DEF Starting
<1> QED
  BY <1>7, <1>8, <1>9, <1>10, <1>11, <1>12, <1>13, <1>14 DEF Next, CallGoesOn

\* Until a restart, a conversation's rows name only tasks it started itself.
THEOREM RowsAreOwnUntilRestart == Spec => [](restarts = 0 => RowsAreOwn)
<1>1. Init => RowsInv
  BY DEF Init, RowsInv, TasksAreOwn, Starting
<1>2. DeskInv /\ RowsInv /\ [Next]_vars => RowsInv'
  BY OwnStep, RestartsAreCounted DEF RowsInv, DeskInv
<1>3. RowsInv => (restarts = 0 => RowsAreOwn)
  BY DEF RowsInv, TasksAreOwn, RowsAreOwn
<1> QED
  BY <1>1, <1>2, <1>3, DeskInvariant, PTL DEF Spec

-----------------------------------------------------------------------------
\* A step that takes no driver and no launching caller from a task, and does
\* not set it running, leaves it driven.
LEMMA DrivenStays ==
  ASSUME NEW k \in Ids, status[k] = "running" => DriversOf(k) \cup Launching(k) # {},
         status'[k] = "running" => status[k] = "running",
         DriversOf(k) \subseteq DriversOf(k)', Launching(k) \subseteq Launching(k)'
  PROVE  status'[k] = "running" => DriversOf(k)' \cup Launching(k)' # {}
OBVIOUS

LEMMA AllDrivenStep ==
  DeskInv /\ AllDriven /\ [Next]_vars /\ ~ShutdownMarks /\ (\A S \in SUBSET Agents : ~Rebind(S))
    => AllDriven'
<1> SUFFICES ASSUME DeskInv, AllDriven, [Next]_vars, ~ShutdownMarks,
                    \A S \in SUBSET Agents : ~Rebind(S)
             PROVE  AllDriven'
  OBVIOUS
<1> USE DEF taskVars, driverVars, callVars, hostVars, history, Call, Go, Return
<1>0. TypeOK /\ DriversAreCalls /\ HeldHasTurns /\ (\A k \in Ids : Driven(k))
  BY DeskInvParts DEF WholeInv
<1>1. launchers' = Agents /\ stopping'.at = "no"
  <2>1. ASSUME NEW c \in Callers, NEW k \in Ids,
               Start(c, k) \/ FollowUp(c, k) \/ Cancel(c, k) \/ CheckStatus(c, k)
        PROVE  UNCHANGED <<launchers, stopping>>
    BY <2>1, Zenon DEF Start, FollowUp, Cancel, CheckStatus
  <2>2. ASSUME NEW c \in Callers, CallGoesOn(c) PROVE UNCHANGED <<launchers, stopping>>
    BY <2>2, Zenon DEF CallGoesOn, Submit, LauncherGone, Assign, Kill, CheckResult, CheckAnswer, Said
  <2>3. ASSUME NEW d \in Drivers, DriverStep(d) PROVE UNCHANGED <<launchers, stopping>>
    BY <2>3, Zenon DEF DriverStep, LauncherEnds, NextTurn, DriverQuits, TurnAnswers, TurnRaises,
                       TurnCancelled
  <2>4. CASE ShutdownStep
    BY <1>0, <2>4 DEF ShutdownStep, ShutdownCancels, ShutdownStops, AllDriven, TypeOK
  <2>5. CASE Restart \/ UNCHANGED vars
    BY <2>5 DEF Restart, vars, AllDriven
  <2> QED
    BY <2>1, <2>2, <2>3, <2>4, <2>5 DEF Next, AllDriven
<1>2. SUFFICES ASSUME NEW k \in Ids
               PROVE  status'[k] = "running" => DriversOf(k)' \cup Launching(k)' # {}
  BY <1>1 DEF AllDriven, RunningIsDriven
<1>3. status[k] = "running" => DriversOf(k) \cup Launching(k) # {}
  BY DEF AllDriven, RunningIsDriven
<1>4. ASSUME NEW c \in Callers, NEW wanted \in Ids, Start(c, wanted)
      PROVE  status'[k] = "running" => DriversOf(k)' \cup Launching(k)' # {}
  <2>1. PICK i \in FreeId(wanted) :
          /\ calling[c] = "idle" /\ calling' = [calling EXCEPT ![c] = "launch"]
          /\ frame' = [frame EXCEPT ![c] = Locals(i, NoDriver, 0, NoAnswer)]
          /\ status' = [status EXCEPT ![i] = "running"]
          /\ UNCHANGED <<at, works>>
    BY <1>4, Zenon DEF Start
  <2>2. DriversOf(k)' = DriversOf(k)
    BY <2>1 DEF DriversOf, Live
  <2>3. Launching(k)' = IF k = i THEN Launching(k) \cup {c} ELSE Launching(k)
    BY <1>0, <2>1 DEF Launching, Locals, TypeOK
  <2> QED
    BY <1>0, <1>3, <2>1, <2>2, <2>3 DEF TypeOK
<1>5. ASSUME NEW c \in Callers, NEW i \in Ids, FollowUp(c, i)
      PROVE  status'[k] = "running" => DriversOf(k)' \cup Launching(k)' # {}
  <2>1. DriversOf(k)' = DriversOf(k) /\ calling[c] = "idle"
    BY <1>5 DEF FollowUp, DriversOf, Live
  <2>2. status' = [status EXCEPT ![i] = "running"] /\ status[i] \notin {"unknown", "cancelled"}
    BY <1>5 DEF FollowUp, Reopened
  <2>3. CASE status[i] \in Terminal
    <3>1. /\ calling' = [calling EXCEPT ![c] = "relaunch"]
          /\ frame' = [frame EXCEPT ![c] = Locals(i, NoDriver, 0, NoAnswer)]
      BY <1>5, <2>3 DEF FollowUp
    <3>2. Launching(k)' = IF k = i THEN Launching(k) \cup {c} ELSE Launching(k)
      BY <1>0, <2>1, <3>1 DEF Launching, Locals, TypeOK
    <3> QED
      BY <1>0, <1>3, <2>1, <2>2, <3>2 DEF TypeOK
  <2>4. CASE status[i] \notin Terminal
    <3>1. calling' = [calling EXCEPT ![c] = "idle"] /\ UNCHANGED frame
      BY <1>5, <2>4 DEF FollowUp
    <3>2. Launching(k)' = Launching(k)
      BY <1>0, <2>1, <3>1 DEF Launching, TypeOK
    <3>3. status[i] = "running"
      BY <1>0, <2>2, <2>4 DEF TypeOK, Statuses, Terminal
    <3> QED
      BY <1>0, <1>3, <2>1, <2>2, <3>2, <3>3, DrivenStays DEF TypeOK
  <2> QED
    BY <2>3, <2>4
<1>6. ASSUME NEW c \in Callers, NEW i \in Ids, Cancel(c, i) \/ CheckStatus(c, i)
      PROVE  status'[k] = "running" => DriversOf(k)' \cup Launching(k)' # {}
  <2>1. /\ calling[c] = "idle" /\ UNCHANGED <<at, works>>
        /\ \A b \in Callers : b # c => calling'[b] = calling[b] /\ frame'[b] = frame[b]
        /\ status' = [status EXCEPT ![i] = "cancelled"] \/ status' = status
    <3>1. CASE Cancel(c, i)
      BY <1>0, <3>1 DEF Cancel, TypeOK
    <3>2. CASE CheckStatus(c, i)
      BY <1>0, <3>2 DEF CheckStatus, TypeOK
    <3> QED
      BY <1>6, <3>1, <3>2
  <2>2. DriversOf(k)' = DriversOf(k)
    BY <2>1 DEF DriversOf, Live
  <2>3. Launching(k) \subseteq Launching(k)'
    BY <2>1 DEF Launching
  <2> QED
    BY <1>0, <1>3, <2>1, <2>2, <2>3, DrivenStays DEF TypeOK
<1>7. ASSUME NEW c \in Callers, Submit(c)
      PROVE  status'[k] = "running" => DriversOf(k)' \cup Launching(k)' # {}
  <2> DEFINE i == frame[c].task
             d == drivers + 1
  <2>1. d \in Drivers /\ at[d] = "none"
    BY <1>0, <1>7, RoomToSubmit DEF Submit, Submitting
  <2>2. DriversOf(k)' = IF k = i THEN DriversOf(k) \cup {d} ELSE DriversOf(k)
    BY <1>0, <1>7, <2>1 DEF Submit, DriversOf, Live, TypeOK
  <2>3. \A b \in Callers : b # c => calling'[b] = calling[b] /\ frame'[b] = frame[b]
    BY <1>0, <1>7 DEF Submit, TypeOK
  <2>4. k # i => Launching(k) \subseteq Launching(k)'
    BY <2>3 DEF Launching
  <2>5. status' = status
    BY <1>7 DEF Submit
  <2> QED
    BY <1>3, <2>2, <2>4, <2>5
<1>8. ASSUME NEW c \in Callers, LauncherGone(c)
      PROVE  status'[k] = "running" => DriversOf(k)' \cup Launching(k)' # {}
  <2>1. frame[c].task \in Ids
    BY <1>0 DEF TypeOK, Frame
  <2> QED
    BY <1>0, <1>8, <2>1 DEF LauncherGone, AllDriven, TypeOK
<1>9. ASSUME NEW c \in Callers,
             Assign(c) \/ Kill(c) \/ CheckResult(c) \/ CheckAnswer(c) \/ Said(c)
      PROVE  status'[k] = "running" => DriversOf(k)' \cup Launching(k)' # {}
  <2>1. /\ calling[c] \in {"assign", "kill", "checked", "result", "said"}
        /\ \A b \in Callers : b # c => calling'[b] = calling[b] /\ frame'[b] = frame[b]
        /\ UNCHANGED <<at, works, status>>
    BY <1>0, <1>9 DEF Assign, Kill, CheckResult, CheckAnswer, Said, TypeOK
  <2>2. DriversOf(k)' = DriversOf(k) /\ Launching(k) \subseteq Launching(k)'
    BY <2>1 DEF DriversOf, Live, Launching
  <2> QED
    BY <1>3, <2>1, <2>2, DrivenStays
<1>10. ASSUME NEW d \in Drivers, NextTurn(d)
       PROVE  status'[k] = "running" => DriversOf(k)' \cup Launching(k)' # {}
  <2>1. DriversOf(k)' = DriversOf(k) /\ Launching(k)' = Launching(k) /\ status' = status
    BY <1>0, <1>10 DEF NextTurn, DriversOf, Launching, Live, TypeOK
  <2> QED
    BY <1>3, <2>1, DrivenStays
<1>11. ASSUME NEW d \in Drivers, DriverQuits(d) \/ LauncherEnds(d)
       PROVE  status'[k] = "running" => DriversOf(k)' \cup Launching(k)' # {}
  <2>1. /\ d \in Live /\ works' = works /\ UNCHANGED <<calling, frame>>
        /\ \A e \in Drivers : e # d => at'[e] = at[e]
        /\ \A i \in Ids : i # works[d] => status'[i] = status[i]
        /\ status'[works[d]] = "running" => at'[d] = "between"
    <3>1. CASE DriverQuits(d)
      BY <1>0, <3>1 DEF DriverQuits, TypeOK
    <3>2. CASE TurnAnswers(d)
      BY <1>0, <3>2 DEF TurnAnswers, TypeOK, Live
    <3>3. CASE TurnRaises(d)
      BY <1>0, <3>3 DEF TurnRaises, TypeOK, Live
    <3>4. CASE TurnCancelled(d)
      BY <1>0, <3>4 DEF TurnCancelled, TypeOK, Live
    <3> QED
      BY <1>11, <3>1, <3>2, <3>3, <3>4 DEF LauncherEnds
  <2>2. CASE k = works[d]
    BY <2>1, <2>2 DEF DriversOf, Live
  <2>3. CASE k # works[d]
    <3>1. DriversOf(k) \subseteq DriversOf(k)' /\ Launching(k)' = Launching(k)
      BY <2>1, <2>3 DEF DriversOf, Live, Launching
    <3> QED
      BY <1>3, <2>1, <2>3, <3>1, DrivenStays
  <2> QED
    BY <2>2, <2>3
<1>12. CASE ShutdownStep \/ UNCHANGED vars
  <2>1. ~ShutdownStops
    BY DEF ShutdownStops, AllDriven
  <2>2. UNCHANGED <<at, works, calling, frame, status>>
    BY <1>12, <2>1 DEF ShutdownStep, ShutdownCancels, vars
  <2>3. DriversOf(k)' = DriversOf(k) /\ Launching(k)' = Launching(k)
    BY <2>2 DEF DriversOf, Live, Launching
  <2> QED
    BY <1>3, <2>2, <2>3, DrivenStays
<1>13. CASE Restart
  BY <1>13 DEF Restart
<1> QED
  BY <1>4, <1>5, <1>6, <1>7, <1>8, <1>9, <1>10, <1>11, <1>12, <1>13
  DEF Next, CallGoesOn, DriverStep

\* Until a recompile rebinds the desk or a shutdown begins, a task that says it
\* is running has a driver or a caller about to submit one: nobody polls it for
\* ever.  Restarts are allowed.
THEOREM RunningIsDrivenUntilRebind ==
  Spec => [](rebinds = 0 /\ shutdowns = 0 => RunningIsDriven)
<1>1. Init => DrivenInv
  BY DEF Init, DrivenInv, AllDriven, RunningIsDriven
<1>2. DeskInv /\ DrivenInv /\ [Next]_vars => DrivenInv'
  BY AllDrivenStep, RestartsAreCounted DEF DrivenInv, DeskInv
<1>3. DrivenInv => (rebinds = 0 /\ shutdowns = 0 => RunningIsDriven)
  BY DEF DrivenInv, AllDriven
<1> QED
  BY <1>1, <1>2, <1>3, DeskInvariant, PTL DEF Spec
=============================================================================
