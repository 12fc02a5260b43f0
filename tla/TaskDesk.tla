------------------------------ MODULE TaskDesk ------------------------------
(***************************************************************************)
(* backend/openstategraph/async_tasks.py, InProcessTaskDesk, and the tools *)
(* of abc/async_task_middleware.py that call it.                           *)
(*                                                                         *)
(* A model's tool call starts a child run, asks about it, gives it another *)
(* turn or cancels it; the child is run by a driver, a coroutine on the    *)
(* loop the desk owns.  Tool calls run on threads of their own, several    *)
(* for one conversation.  Each `with self._lock` block is one action.      *)
(*                                                                         *)
(* Turns are counted, not spelled: turns[k] is len(task.turns), and an     *)
(* answer is the number of turns the child had read when it gave it.       *)
(***************************************************************************)
EXTENDS Naturals, FiniteSets

CONSTANTS
  Ids,           \* task ids; a bound on the tasks started
  Callers,       \* threads that run tool calls
  Convs,         \* conversations
  Conv,          \* Conv[c]: the conversation whose tool calls c runs
  Agents,        \* names of declared async workers
  MaxCalls,      \* bound: tool calls
  MaxRebinds,    \* bound: recompiles that rebind the desk's launchers
  MaxShutdowns,  \* bound: calls of shutdown()
  MaxRestarts    \* bound: restarts of the process

ASSUME CallersHaveConversations == Conv \in [Callers -> Convs]
ASSUME BoundsAreNaturals ==
  /\ MaxCalls \in Nat
  /\ MaxRebinds \in Nat
  /\ MaxShutdowns \in Nat
  /\ MaxRestarts \in Nat
ASSUME SomeOfEach == Ids # {} /\ Convs # {} /\ Agents # {}

Drivers  == 1 .. MaxCalls
NoDriver == 0
NoAnswer == 0

\* Mutant: a failed task is left out.
EndedWell == {"success", "cancelled"}

Terminal == {"success", "error", "cancelled"}
Statuses == Terminal \cup {"unknown", "running"}

VARIABLES
  launchers,  \* InProcessTaskDesk.launchers: the agents it can run
  status,     \* _Task.record.status; "unknown" for an id not held
  turns,      \* len(_Task.turns)
  pending,    \* len(_Task.pending)
  answer,     \* _Task.answer
  agent,      \* _Task.record.agent_name
  future,     \* _Task.future: the driver it belongs to, NoDriver for None
  at,         \* at[d]: where driver d is
  works,      \* works[d]: the task d drives
  saw,        \* saw[d]: turns handed to the launcher for the turn d is on
  doomed,     \* drivers whose future was cancelled
  drivers,    \* drivers submitted so far
  calling,    \* calling[c]: where caller c is in its tool call
  frame,      \* frame[c]: the locals of that call
  rows,       \* rows[v]: the ids under ASYNC_TASKS_KEY in conversation v
  stopping,   \* where shutdown() is, and the tasks it has still to cancel
  calls, rebinds, shutdowns, restarts,
  accepted,   \* history: turns accepted for a task and not withdrawn by cancel
  owner,      \* history: the conversation that started it
  silenced    \* history: tasks that were cancelled, by cancel() or shutdown(),
              \* and that no turn was accepted for since

taskVars   == <<status, turns, pending, answer, agent, future>>
driverVars == <<at, works, saw, doomed, drivers>>
callVars   == <<calling, frame, rows, calls>>
hostVars   == <<launchers, stopping, rebinds, shutdowns, restarts>>
history    == <<accepted, owner, silenced>>
vars == <<taskVars, driverVars, callVars, hostVars, history>>

(***************************************************************************)
(* The locals of a tool call: its task; the driver it submitted, or the    *)
(* one whose future it read and is about to cancel; and for check, how     *)
(* many turns had been accepted when it read "success", and the answer.    *)
(***************************************************************************)
Frame == [task : Ids, driver : Drivers \cup {NoDriver},
          asked : Nat, got : Nat]

Locals(k, d, n, a) == [task |-> k, driver |-> d, asked |-> n, got |-> a]
NoFrame == Locals(CHOOSE k \in Ids : TRUE, NoDriver, 0, NoAnswer)

Live == {d \in Drivers : at[d] \in {"queued", "turn", "between"}}
Held == {k \in Ids : status[k] # "unknown"}

Go(c, from, to) == calling[c] = from /\ calling' = [calling EXCEPT ![c] = to]

\* The tool call returns.
Return(c, from) == Go(c, from, "idle") /\ frame' = [frame EXCEPT ![c] = NoFrame]

Call(c, to) ==
  /\ calls < MaxCalls
  /\ calls' = calls + 1
  /\ Go(c, "idle", to)

-----------------------------------------------------------------------------
(***************************************************************************)
(* start_async_task.  The tool call id becomes the task id, unless the     *)
(* desk holds that id already.                                             *)
(***************************************************************************)
\* Mutant: a held id is handed out again.
AnyId(wanted) == {wanted}

\* A fresh uuid is an id no task ever had.
FreeId(wanted) == IF wanted \in Held THEN {k \in Ids : turns[k] = 0} ELSE {wanted}

Start(c, wanted) ==
  \E k \in FreeId(wanted), a \in launchers :
    /\ Call(c, "launch")
    /\ status' = [status EXCEPT ![k] = "running"]
    /\ turns' = [turns EXCEPT ![k] = 1]
    /\ pending' = [pending EXCEPT ![k] = 0]
    /\ answer' = [answer EXCEPT ![k] = NoAnswer]
    /\ agent' = [agent EXCEPT ![k] = a]
    /\ future' = [future EXCEPT ![k] = NoDriver]
    /\ frame' = [frame EXCEPT ![c] = Locals(k, NoDriver, 0, NoAnswer)]
    /\ accepted' = [accepted EXCEPT ![k] = 1]
    /\ owner' = [owner EXCEPT ![k] = Conv[c]]
    /\ silenced' = silenced \ {k}
    /\ UNCHANGED <<driverVars, rows, hostVars>>

\* run_coroutine_threadsafe: the driver is on the loop, not yet scheduled.
Submit(c) ==
  LET d == drivers + 1 IN
  /\ \/ calling[c] = "launch"
     \/ calling[c] = "relaunch" /\ agent[frame[c].task] \in launchers
  /\ calling' = [calling EXCEPT ![c] = "assign"]
  /\ drivers' = d
  /\ at' = [at EXCEPT ![d] = "queued"]
  /\ works' = [works EXCEPT ![d] = frame[c].task]
  /\ frame' = [frame EXCEPT ![c] = Locals(frame[c].task, d, 0, NoAnswer)]
  /\ UNCHANGED <<taskVars, saw, doomed, rows, calls, hostVars, history>>

\* `task.future = future`, in a lock section of its own; then the tool's
\* Command writes the row into the conversation's state.
Assign(c) ==
  LET k == frame[c].task IN
  /\ Return(c, "assign")
  /\ future' = [future EXCEPT ![k] = frame[c].driver]
  /\ rows' = [rows EXCEPT ![Conv[c]] = @ \cup {k}]
  /\ UNCHANGED <<status, turns, pending, answer, agent,
                 driverVars, calls, hostVars, history>>

-----------------------------------------------------------------------------
(***************************************************************************)
(* update_async_task.  A cancelled or unknown task is refused; a finished  *)
(* one is restarted.                                                       *)
(***************************************************************************)
\* Mutants: the status of a task being restarted stays what it was; it gets
\* the SDK's name for a run that waits.
OldStatus(k) == status[k]
SdkStatus(k) == "pending"

Reopened(k) == "running"

FollowUp(c, k) ==
  /\ k \in rows[Conv[c]]
  /\ status[k] \notin {"unknown", "cancelled"}
  /\ IF status[k] \in Terminal
     THEN /\ Call(c, "relaunch")
          /\ frame' = [frame EXCEPT ![c] = Locals(k, NoDriver, 0, NoAnswer)]
     ELSE Call(c, "idle") /\ UNCHANGED frame
  /\ pending' = [pending EXCEPT ![k] = @ + 1]
  /\ status' = [status EXCEPT ![k] = Reopened(k)]
  /\ accepted' = [accepted EXCEPT ![k] = @ + 1]
  /\ silenced' = silenced \ {k}
  /\ UNCHANGED <<turns, answer, agent, future, driverVars, rows,
                 hostVars, owner>>

\* `self.launchers[task.record.agent_name]` raises KeyError, out of the tool.
LauncherGone(c) ==
  /\ agent[frame[c].task] \notin launchers
  /\ Return(c, "relaunch")
  /\ UNCHANGED <<taskVars, driverVars, rows, calls, hostVars, history>>

-----------------------------------------------------------------------------
(***************************************************************************)
(* cancel_async_task: the record under the lock, the future after it.      *)
(***************************************************************************)
Cancel(c, k) ==
  /\ k \in rows[Conv[c]]
  /\ status[k] = "running"
  /\ IF future[k] # NoDriver
     THEN /\ Call(c, "kill")
          /\ frame' = [frame EXCEPT ![c] = Locals(k, future[k], 0, NoAnswer)]
     ELSE Call(c, "idle") /\ UNCHANGED frame
  /\ status' = [status EXCEPT ![k] = "cancelled"]
  /\ pending' = [pending EXCEPT ![k] = 0]
  /\ accepted' = [accepted EXCEPT ![k] = turns[k]]
  /\ silenced' = silenced \cup {k}
  /\ UNCHANGED <<turns, answer, agent, future, driverVars, rows,
                 hostVars, owner>>

\* Cancelling the future of a driver that has ended does nothing.
Kill(c) ==
  /\ Return(c, "kill")
  /\ doomed' = doomed \cup ({frame[c].driver} \cap Live)
  /\ UNCHANGED <<taskVars, at, works, saw, drivers, rows, calls,
                 hostVars, history>>

-----------------------------------------------------------------------------
(***************************************************************************)
(* check_async_task: status(), then result(), which fetches the task under *)
(* the lock and reads its status and its answer after it.                  *)
(***************************************************************************)
CheckStatus(c, k) ==
  /\ k \in rows[Conv[c]]
  /\ status[k] = "success"
  /\ Call(c, "checked")
  /\ frame' = [frame EXCEPT ![c] = Locals(k, NoDriver, accepted[k], NoAnswer)]
  /\ UNCHANGED <<taskVars, driverVars, rows, hostVars, history>>

\* result() is None unless the status is still success: "(finished with no
\* output)".
CheckResult(c) ==
  LET done == status[frame[c].task] = "success" IN
  /\ Go(c, "checked", IF done THEN "result" ELSE "said")
  /\ UNCHANGED <<taskVars, driverVars, frame, rows, calls, hostVars, history>>

CheckAnswer(c) ==
  LET k == frame[c].task IN
  /\ Go(c, "result", "said")
  /\ frame' = [frame EXCEPT ![c] = Locals(k, NoDriver, frame[c].asked, answer[k])]
  /\ UNCHANGED <<taskVars, driverVars, rows, calls, hostVars, history>>

Said(c) ==
  /\ Return(c, "said")
  /\ UNCHANGED <<taskVars, driverVars, rows, calls, hostVars, history>>

-----------------------------------------------------------------------------
(***************************************************************************)
(* _drive: one coroutine per task, turn after turn until nothing is        *)
(* queued.  The launcher is third-party code: it answers, raises, or, once *)
(* its future is cancelled, lets the CancelledError through.               *)
(***************************************************************************)
\* Mutant: what was queued is cleared without joining the conversation.
ForgetPending(k) == turns[k]

Folded(k) == turns[k] + pending[k]

NextTurn(d) ==
  LET k == works[d] IN
  /\ at[d] \in {"queued", "between"}
  /\ status[k] # "cancelled"
  /\ turns' = [turns EXCEPT ![k] = Folded(k)]
  /\ pending' = [pending EXCEPT ![k] = 0]
  /\ saw' = [saw EXCEPT ![d] = Folded(k)]
  /\ at' = [at EXCEPT ![d] = "turn"]
  /\ UNCHANGED <<status, answer, agent, future, works, doomed, drivers,
                 callVars, hostVars, history>>

\* The task was cancelled before a turn, or during one that ends with an
\* answer: the answer is dropped.
DriverQuits(d) ==
  /\ d \in Live
  /\ status[works[d]] = "cancelled"
  /\ at' = [at EXCEPT ![d] = "done"]
  /\ UNCHANGED <<taskVars, works, saw, doomed, drivers, callVars, hostVars, history>>

\* Mutants: the status is not looked at again after the await; the queue
\* is not.
Always(k) == TRUE
NeverMore(k) == FALSE

Published(k) == status[k] # "cancelled"
More(k) == pending[k] > 0

TurnAnswers(d) ==
  LET k == works[d] IN
  /\ at[d] = "turn"
  /\ Published(k)
  /\ answer' = [answer EXCEPT ![k] = saw[d]]
  /\ status' = [status EXCEPT ![k] = IF More(k) THEN "running" ELSE "success"]
  /\ at' = [at EXCEPT ![d] = IF More(k) THEN "between" ELSE "done"]
  /\ UNCHANGED <<turns, pending, agent, future, works, saw, doomed, drivers,
                 callVars, hostVars, history>>

\* The one exit that reads neither the status nor the queue.
TurnRaises(d) ==
  LET k == works[d] IN
  /\ at[d] = "turn"
  /\ answer' = [answer EXCEPT ![k] = NoAnswer]
  /\ status' = [status EXCEPT ![k] = "error"]
  /\ at' = [at EXCEPT ![d] = "done"]
  /\ UNCHANGED <<turns, pending, agent, future, works, saw, doomed, drivers,
                 callVars, hostVars, history>>

TurnCancelled(d) ==
  /\ at[d] = "turn"
  /\ d \in doomed
  /\ status' = [status EXCEPT ![works[d]] = "cancelled"]
  /\ at' = [at EXCEPT ![d] = "done"]
  /\ UNCHANGED <<turns, pending, answer, agent, future, works, saw, doomed,
                 drivers, callVars, hostVars, history>>

-----------------------------------------------------------------------------
(***************************************************************************)
(* shutdown(): live tasks are marked, their futures cancelled one by one,  *)
(* without the lock, and the loop is stopped whether or not _drain saw     *)
(* them end.  A driver on a stopped loop is "lost"; the next submit makes  *)
(* another loop.                                                           *)
(***************************************************************************)
Lost == [d \in Drivers |-> IF d \in Live THEN "lost" ELSE at[d]]

ShutdownMarks ==
  LET live == {k \in Held : status[k] = "running"} IN
  /\ stopping.at = "no"
  /\ shutdowns < MaxShutdowns
  /\ shutdowns' = shutdowns + 1
  /\ status' = [k \in Ids |-> IF k \in live THEN "cancelled" ELSE status[k]]
  /\ stopping' = [at |-> "cancelling", todo |-> live]
  /\ silenced' = silenced \cup live
  /\ UNCHANGED <<turns, pending, answer, agent, future, driverVars, callVars,
                 launchers, rebinds, restarts, accepted, owner>>

ShutdownCancels(k) ==
  /\ k \in stopping.todo
  /\ doomed' = doomed \cup ({future[k]} \cap Live)
  /\ stopping' = [stopping EXCEPT !.todo = @ \ {k}]
  /\ UNCHANGED <<taskVars, at, works, saw, drivers, callVars,
                 launchers, rebinds, shutdowns, restarts, history>>

ShutdownStops ==
  /\ stopping.at = "cancelling"
  /\ stopping.todo = {}
  /\ at' = Lost
  /\ stopping' = [stopping EXCEPT !.at = "no"]
  /\ UNCHANGED <<taskVars, works, saw, doomed, drivers, callVars,
                 launchers, rebinds, shutdowns, restarts, history>>

(***************************************************************************)
(* desk_for: a recompile rebinds the launchers of a desk that holds tasks. *)
(***************************************************************************)
Rebind(S) ==
  /\ rebinds < MaxRebinds
  /\ S # launchers
  /\ rebinds' = rebinds + 1
  /\ launchers' = S
  /\ UNCHANGED <<taskVars, driverVars, callVars, stopping, shutdowns, restarts,
                 history>>

(***************************************************************************)
(* The process restarts: the desk, its children and the tool calls are     *)
(* gone; the rows are in the workflow's checkpointer.                      *)
(***************************************************************************)
Restart ==
  /\ restarts < MaxRestarts
  /\ restarts' = restarts + 1
  /\ status' = [k \in Ids |-> "unknown"]
  /\ pending' = [k \in Ids |-> 0]
  /\ at' = Lost
  /\ calling' = [c \in Callers |-> "idle"]
  /\ frame' = [c \in Callers |-> NoFrame]
  /\ stopping' = [at |-> "no", todo |-> {}]
  /\ UNCHANGED <<turns, answer, agent, future, works, saw, doomed, drivers,
                 rows, calls, launchers, rebinds, shutdowns, history>>

-----------------------------------------------------------------------------
Init ==
  /\ launchers = Agents
  /\ status = [k \in Ids |-> "unknown"]
  /\ turns = [k \in Ids |-> 0]
  /\ pending = [k \in Ids |-> 0]
  /\ answer = [k \in Ids |-> NoAnswer]
  /\ agent = [k \in Ids |-> CHOOSE a \in Agents : TRUE]
  /\ future = [k \in Ids |-> NoDriver]
  /\ at = [d \in Drivers |-> "none"]
  /\ works = [d \in Drivers |-> CHOOSE k \in Ids : TRUE]
  /\ saw = [d \in Drivers |-> 0]
  /\ doomed = {}
  /\ drivers = 0
  /\ calling = [c \in Callers |-> "idle"]
  /\ frame = [c \in Callers |-> NoFrame]
  /\ rows = [v \in Convs |-> {}]
  /\ stopping = [at |-> "no", todo |-> {}]
  /\ calls = 0
  /\ rebinds = 0
  /\ shutdowns = 0
  /\ restarts = 0
  /\ accepted = [k \in Ids |-> 0]
  /\ owner = [k \in Ids |-> CHOOSE v \in Convs : TRUE]
  /\ silenced = {}

\* The rest of a tool call once it is begun.
CallGoesOn(c) ==
  \/ Submit(c) \/ LauncherGone(c) \/ Assign(c) \/ Kill(c)
  \/ CheckResult(c) \/ CheckAnswer(c) \/ Said(c)

LauncherEnds(d) == TurnAnswers(d) \/ TurnRaises(d) \/ TurnCancelled(d)

DriverStep(d) == NextTurn(d) \/ DriverQuits(d) \/ LauncherEnds(d)

ShutdownStep == (\E k \in Ids : ShutdownCancels(k)) \/ ShutdownStops

Next ==
  \/ \E c \in Callers, k \in Ids :
       Start(c, k) \/ FollowUp(c, k) \/ Cancel(c, k) \/ CheckStatus(c, k)
  \/ \E c \in Callers : CallGoesOn(c)
  \/ \E d \in Drivers : DriverStep(d)
  \/ ShutdownMarks \/ ShutdownStep
  \/ \E S \in SUBSET Agents : Rebind(S)
  \/ Restart

Spec == Init /\ [][Next]_vars

(***************************************************************************)
(* A tool call that began runs on, the loop schedules its coroutines, and  *)
(* a child's turn ends: its model answers or its client times out.         *)
(***************************************************************************)
Fairness ==
  /\ \A c \in Callers : WF_vars(CallGoesOn(c))
  /\ \A d \in Drivers : WF_vars(DriverStep(d))

FairSpec == Spec /\ Fairness

-----------------------------------------------------------------------------
\* The type invariant of every variable.
TypeOK ==
  /\ launchers \subseteq Agents
  /\ status \in [Ids -> Statuses]
  /\ turns \in [Ids -> Nat] /\ pending \in [Ids -> Nat] /\ answer \in [Ids -> Nat]
  /\ agent \in [Ids -> Agents]
  /\ future \in [Ids -> Drivers \cup {NoDriver}]
  /\ at \in [Drivers -> {"none", "queued", "turn", "between", "done", "lost"}]
  /\ works \in [Drivers -> Ids]
  /\ saw \in [Drivers -> Nat]
  /\ doomed \subseteq Drivers
  /\ drivers \in 0 .. MaxCalls
  /\ calling \in [Callers -> {"idle", "launch", "relaunch", "assign", "kill",
                              "checked", "result", "said"}]
  /\ frame \in [Callers -> Frame]
  /\ rows \in [Convs -> SUBSET Ids]
  /\ stopping \in [at : {"no", "cancelling"}, todo : SUBSET Ids]
  /\ calls \in 0 .. MaxCalls
  /\ rebinds \in Nat /\ shutdowns \in Nat /\ restarts \in Nat
  /\ accepted \in [Ids -> Nat]
  /\ owner \in [Ids -> Convs]
  /\ silenced \subseteq Ids

\* The drivers at work on k, and the callers about to submit one.
DriversOf(k) == {d \in Live : works[d] = k}
Launching(k) ==
  {c \in Callers : calling[c] \in {"launch", "relaunch"} /\ frame[c].task = k}

(***************************************************************************)
(* "One coroutine per task" (:513): however follow-ups, cancels and ends   *)
(* of turns interleave, a task never has two drivers, or a driver and a    *)
(* caller about to add one.                                                *)
(***************************************************************************)
OneDriver ==
  \A k \in Ids :
    /\ \A d, e \in DriversOf(k) : d = e
    /\ \A b, c \in Launching(k) : b = c
    /\ DriversOf(k) = {} \/ Launching(k) = {}

(***************************************************************************)
(* A success is an answer to the whole conversation: nothing is queued, no *)
(* turn was accepted after the last one the child read.                    *)
(***************************************************************************)
SuccessIsWhole ==
  \A k \in Ids :
    status[k] = "success" => pending[k] = 0 /\ answer[k] = turns[k]

(***************************************************************************)
(* A turn that was accepted is in the conversation or in the queue, once,  *)
(* until cancel withdraws it: a restart neither drops nor repeats one.     *)
(***************************************************************************)
TurnsAreKept ==
  \A k \in Held : turns[k] + pending[k] = accepted[k]

(***************************************************************************)
(* What cancel() returned True for, over the whole time until a later turn *)
(* is accepted, also if the child failed meanwhile: no turn of the task    *)
(* begins, no answer of its child is published, and a turn is accepted     *)
(* only after it failed or was forgotten.                                  *)
(***************************************************************************)
CancelledIsQuiet ==
  [][/\ \A k \in silenced \cap silenced' :
          /\ turns'[k] = turns[k]
          /\ answer'[k] \in {answer[k], NoAnswer}
          /\ \A d \in Drivers : works[d] = k /\ at'[d] = "turn" => at[d] = "turn"
     /\ \A k \in silenced \ silenced' : status[k] \in {"error", "unknown"}]_vars

(***************************************************************************)
(* TERMINAL are "statuses that will never change again" (:128): a task     *)
(* that was cancelled says so from then on, and takes no turn.  The except *)
(* branch of _drive makes an error of it (:535), and follow_up accepts a   *)
(* turn for a task in error.                                               *)
(***************************************************************************)
CancelledIsFinal == \A k \in silenced : status[k] \in {"cancelled", "unknown"}

(***************************************************************************)
(* What check reports as the answer of a task that succeeded was given     *)
(* with every turn read that had been accepted when its status was read,   *)
(* although result() reads it outside the lock.                            *)
(***************************************************************************)
ToldIsWhole ==
  \A c \in Callers :
    calling[c] = "said" => frame[c].got \in {NoAnswer} \cup {n \in Nat : n >= frame[c].asked}

(***************************************************************************)
(* A conversation sees its own tasks only (async_task_middleware.py:555):  *)
(* an id in its rows that the desk holds is a task it started, though tool *)
(* call ids are reused.                                                    *)
(***************************************************************************)
RowsAreOwn ==
  \A v \in Convs : \A k \in rows[v] \cap Held : owner[k] = v

(***************************************************************************)
(* A task that says it is running is run by somebody, or about to be: it   *)
(* is not "a task id the model will poll forever" (:369).                  *)
(***************************************************************************)
RunningIsDriven ==
  \A k \in Ids : status[k] = "running" => DriversOf(k) \cup Launching(k) # {}

(***************************************************************************)
(* "Queued. It will read this as its next turn, once the turn it is on now *)
(* has finished" (async_task_middleware.py:447).                           *)
(***************************************************************************)
QueuedIsRead == \A k \in Ids : pending[k] > 0 => status[k] = "running"

\* "Stop the child" (:256): with no cancel() under way, no child of a
\* cancelled task is at work without its driver having been told to stop.
CancelReaches ==
  \A d \in Live :
    at[d] = "turn" /\ status[works[d]] = "cancelled" =>
      d \in doomed \/ \E c \in Callers : calling[c] = "kill"

\* A task that is running is so for a while only: it ends, is cancelled or
\* is forgotten with the process.
EveryTaskEnds == \A k \in Ids : status[k] = "running" ~> status[k] # "running"

=============================================================================
