------------------------------ MODULE RunStream ------------------------------
(***************************************************************************)
(* One streamed run (backend/openstategraph/api/streaming.py): three       *)
(* generators, one inside the other.                                       *)
(*                                                                         *)
(*   stop_when_client_leaves  pulls a frame in a task of its own, races    *)
(*                            it against the disconnect and sends it       *)
(*   _stream_run              opens and closes the stream: `started`, the  *)
(*                            sweep of the children's lanes, `error`       *)
(*   _run_frames              folds the graph's updates into frames and    *)
(*                            writes the run's one row (run_journal.py)    *)
(*                                                                         *)
(* `owed` is the code still to run before the generators next await: every *)
(* pull takes one frame of it.  A pull runs in a fresh context, and a      *)
(* frame built where nobody bound the clock carries no seq: `dated`.       *)
(* The graph is external: it starts and ends children, finishes, pauses,   *)
(* spends its step budget or raises.  So is the client, who leaves when it *)
(* likes.  A stop of the server, and what a frame says, are left out.      *)
(***************************************************************************)
EXTENDS Naturals, Sequences, FiniteSets, SequencesExt

CONSTANTS
  Children,  \* workers, delegations and mounts the graph may start
  KindOf,    \* KindOf[c]: "fanout", "subagent", "subgraph" or "async"
  KeyOf,     \* KeyOf[c]: the subtask, tool call or node id c goes by
  NoKey,     \* the id of a tool call that carries none
  NoLane,    \* a frame that is about no child
  MaxChunks  \* bound: updates of the graph

ASSUME StreamAssumption ==
  /\ IsFiniteSet(Children)
  /\ KindOf \in [Children -> {"fanout", "subagent", "subgraph", "async"}]
  /\ DOMAIN KeyOf = Children
  /\ \A c \in Children :
       KeyOf[c] = NoKey => KindOf[c] \in {"subagent", "async"}
  /\ NoLane \notin Children
  /\ MaxChunks \in Nat

VARIABLES
  phase,     \* where _run_frames is: "seed", "graph", "snapshot", "spent"
  opening,   \* _stream_run still holds the `started` frame
  owed,      \* frames to come before the next await
  step,      \* the task of the pull: "none", "running", "ready", "over"
  announced, \* children with a lane (_namespaces, _tasks, _tool_calls)
  open,      \* lanes nobody has closed (_open)
  row,       \* the row RunTurn.record wrote, or "none"
  left,      \* the client is gone
  returned,  \* stop_when_client_leaves has returned
  closed     \* _stream_run is closed: returned, or unwound by a stop

\* What the properties speak of and nobody in the code keeps.
VARIABLES
  wire,      \* the frames sent
  status,    \* status[c]: "unborn", "running", "ended"
  chunks     \* updates so far

streamVars == <<phase, opening, owed, step, row>>
laneVars   == <<announced, open, status>>
doorVars   == <<left, returned, closed, wire>>
vars == <<streamVars, laneVars, doorVars, chunks>>

Rows == {"none", "run", "stopped", "exhausted"}
Terminal == {"done", "interrupt", "error"}

Frame(e, c, d) == [event |-> e, lane |-> c, dated |-> d]
Frames == [event : {"started", "spawn", "update", "settled"} \union Terminal,
           lane : Children \union {NoLane}, dated : BOOLEAN]

\* A resume first reads the thread's checkpoint.
Init ==
  /\ phase \in {"seed", "graph"} /\ opening = TRUE /\ owed = <<>>
  /\ step = "none" /\ row = "none"
  /\ announced = {} /\ open = {} /\ status = [c \in Children |-> "unborn"]
  /\ left = FALSE /\ returned = FALSE /\ closed = FALSE
  /\ wire = <<>> /\ chunks = 0

Opening == IF opening THEN <<Frame("started", NoLane, TRUE)>> ELSE <<>>

LaneFrames(e, lanes, d) ==
  LET lane == SetToSeq(lanes)
  IN  [i \in DOMAIN lane |-> Frame(e, lane[i], d)]

\* record() writes at most once.
Recorded(kind) == IF row = "none" THEN kind ELSE row

\* The pull awaits something of the graph's.
Awaiting(p) == step = "running" /\ phase = p

(***************************************************************************)
(* SpawnWatcher.                                                           *)
(***************************************************************************)
\* Ids are told apart by the set that remembers them: _namespaces, _tasks, and
\* _tool_calls for delegations and background children alike.
Memory(c) == IF KindOf[c] \in {"subagent", "async"} THEN "tool_calls" ELSE KindOf[c]

SameId(c, d) ==
  Memory(c) = Memory(d) /\ KeyOf[c] = KeyOf[d] /\ KeyOf[c] # NoKey

\* inspect: an id announces one lane for the whole run, a call without an id
\* always one; of several children of one id in an update the first is born.
Announces(starts, born) ==
  /\ \A c \in starts \ born : \E d \in announced \union born : SameId(c, d)
  /\ \A c \in born, d \in announced \union born : SameId(c, d) => c = d

\* settled: the lane of that kind and id.  Nothing on the stream ends an async
\* child, nor a call without an id.
Closes(ends, lanes) ==
  {l \in lanes : KindOf[l] # "async" /\ \E c \in ends : KindOf[c] = KindOf[l] /\ SameId(c, l)}

\* Mutant of Pull: a pull never finds the stream at its end.
PullForEver ==
  /\ step = "none" /\ ~returned
  /\ step' = IF owed # <<>> THEN "ready" ELSE "running"
  /\ UNCHANGED <<phase, opening, owed, row, laneVars, doorVars, chunks>>

(***************************************************************************)
(* The transport asks for the next frame.  The task runs what is owed, or  *)
(* into the next await, before anybody looks whether the client is there.  *)
(***************************************************************************)
Pull ==
  /\ step = "none" /\ ~returned
  /\ step' = IF owed # <<>> THEN "ready"
             ELSE IF phase = "spent" THEN "over" ELSE "running"
  /\ UNCHANGED <<phase, opening, owed, row, laneVars, doorVars, chunks>>

Seeded ==
  /\ Awaiting("seed")
  /\ phase' = "graph"
  /\ UNCHANGED <<opening, owed, step, row, laneVars, doorVars, chunks>>

(***************************************************************************)
(* The graph reports an update: children it starts, children that ended.   *)
(* The lanes open before the update's own frame and close after it.        *)
(***************************************************************************)
Chunk ==
  /\ Awaiting("graph") /\ chunks < MaxChunks
  /\ \E starts \in SUBSET {c \in Children : status[c] = "unborn"},
        ends \in SUBSET {c \in Children : status[c] = "running"} :
       /\ \E born \in SUBSET starts :
            LET gone == Closes(ends, open \union born)
            IN  /\ Announces(starts, born)
                /\ announced' = announced \union born
                /\ open' = (open \union born) \ gone
                /\ owed' = Opening \o LaneFrames("spawn", born, TRUE)
                             \o <<Frame("update", NoLane, TRUE)>>
                             \o LaneFrames("settled", gone, TRUE)
       /\ status' = [c \in Children |-> IF c \in starts THEN "running"
                                        ELSE IF c \in ends THEN "ended"
                                        ELSE status[c]]
  /\ opening' = FALSE /\ step' = "ready" /\ chunks' = chunks + 1
  /\ UNCHANGED <<phase, row, doorVars>>

Finish ==
  /\ Awaiting("graph")
  /\ phase' = "snapshot"
  /\ UNCHANGED <<opening, owed, step, row, laneVars, doorVars, chunks>>

\* Mutant of Ending: the stream ends with its lanes open.
EndingUnswept(last, kind) ==
  /\ owed' = Opening \o <<last>>
  /\ row' = Recorded(kind)
  /\ phase' = "spent" /\ opening' = FALSE /\ step' = "ready" /\ open' = {}
  /\ UNCHANGED <<announced, status, doorVars, chunks>>

\* The stream hands over `last`, the lanes still open before it.
Ending(last, kind) ==
  /\ owed' = Opening \o LaneFrames("settled", open, ~opening) \o <<last>>
  /\ row' = Recorded(kind)
  /\ phase' = "spent" /\ opening' = FALSE /\ step' = "ready" /\ open' = {}
  /\ UNCHANGED <<announced, status, doorVars, chunks>>

\* The fold reads the checkpoint, writes the row and builds the ending.
Snapshot ==
  /\ Awaiting("snapshot")
  /\ \E e \in {"done", "interrupt"} : Ending(Frame(e, NoLane, TRUE), "run")

\* Mutant of Raised: the handler forgets the frame still to be yielded.
RaisedUnopened(kind) ==
  /\ step = "running"
  /\ owed' = LaneFrames("settled", open, TRUE)
               \o <<Frame("error", NoLane, open = {})>>
  /\ row' = Recorded(kind)
  /\ phase' = "spent" /\ opening' = FALSE /\ step' = "ready" /\ open' = {}
  /\ UNCHANGED <<announced, status, doorVars, chunks>>

\* The error frame is built after the frames before it were yielded, and
\* only the pull that caught the exception has bound the clock.
Raised(kind) ==
  /\ step = "running"
  /\ Ending(Frame("error", NoLane, ~opening /\ open = {}), kind)

\* GraphRecursionError: the fold writes its row before it raises.
Exhaust == phase = "graph" /\ Raised("exhausted")

\* The row is written, and building the ending raises: a pause whose payload is
\* no mapping (:2709), the drawing of the document (:2881).
Unpublished == phase = "snapshot" /\ Raised("run")

\* Anything else the graph or the checkpointer raises leaves no row.
Fail == Raised(row)

(***************************************************************************)
(* The transport's wait is over.  It asks about the disconnect first.      *)
(***************************************************************************)
Deliver ==
  /\ step = "ready" /\ ~left
  /\ wire' = Append(wire, Head(owed)) /\ owed' = Tail(owed)
  /\ step' = "none"
  /\ UNCHANGED <<phase, opening, row, laneVars, left, returned, closed,
                 chunks>>

Over ==
  /\ step = "over" /\ ~returned
  /\ returned' = TRUE /\ closed' = TRUE
  /\ UNCHANGED <<streamVars, laneVars, left, wire, chunks>>

\* Mutant of Unwound: a stop writes nothing.
UnwoundUnwritten == row

\* A stop unwinds the fold: a row only if the graph's stream was open.
Unwound == IF phase = "graph" THEN Recorded("stopped") ELSE row

\* Mutant of HangUp: "the step did not win the race", read off the step.
HangUpIfPending ==
  /\ left /\ step = "running" /\ ~returned
  /\ returned' = TRUE /\ step' = "over" /\ row' = Unwound /\ closed' = TRUE
  /\ UNCHANGED <<phase, opening, owed, laneVars, left, wire, chunks>>

\* The abandoned task is cancelled, never awaited.  One that already has its
\* frame cannot be: its generator stays where it yielded.
HangUp ==
  /\ left /\ step \in {"running", "ready"} /\ ~returned
  /\ returned' = TRUE
  /\ IF step = "running" THEN step' = "over" /\ row' = Unwound /\ closed' = TRUE
     ELSE UNCHANGED <<step, row, closed>>
  /\ UNCHANGED <<phase, opening, owed, laneVars, left, wire, chunks>>

\* The event loop closes the generator nobody refers to any more.
Finalise ==
  /\ returned /\ ~closed
  /\ row' = Unwound /\ closed' = TRUE
  /\ UNCHANGED <<phase, opening, owed, step, laneVars, left, returned, wire,
                 chunks>>

Leave ==
  /\ ~left /\ ~returned
  /\ left' = TRUE
  /\ UNCHANGED <<streamVars, laneVars, returned, closed, wire, chunks>>

Next ==
  \/ Pull \/ Seeded \/ Chunk \/ Finish \/ Snapshot \/ Unpublished \/ Exhaust
  \/ Fail \/ Deliver \/ Over \/ HangUp \/ Finalise \/ Leave

Spec == Init /\ [][Next]_vars

\* The event loop runs what is ready.  Nothing is asked of the graph: it may
\* never answer.
Fairness ==
  WF_vars(Pull) /\ WF_vars(Deliver) /\ WF_vars(Over) /\ WF_vars(HangUp)
    /\ WF_vars(Finalise)

FairSpec == Spec /\ Fairness

(***************************************************************************)
(* Properties.                                                             *)
(***************************************************************************)

\* Types, and what the three generators rely on of each other: a task is
\* waiting only when nothing is owed and the fold has something to wait for,
\* and it holds a frame only if one is owed.
TypeOK ==
  /\ phase \in {"seed", "graph", "snapshot", "spent"}
  /\ opening \in BOOLEAN /\ owed \in Seq(Frames) /\ row \in Rows
  /\ step \in {"none", "running", "ready", "over"}
  /\ open \subseteq announced /\ announced \subseteq Children
  /\ left \in BOOLEAN /\ returned \in BOOLEAN /\ closed \in BOOLEAN
  /\ wire \in Seq(Frames) /\ chunks \in 0..MaxChunks
  /\ status \in [Children -> {"unborn", "running", "ended"}]
  /\ step = "running" => owed = <<>> /\ phase # "spent"
  /\ step = "ready" => owed # <<>>

At(i, events) == wire[i].event \in events
Sent(events) == \E i \in DOMAIN wire : At(i, events)

\* Whatever the run met, a client hears `started` first and once, at most one
\* ending and nothing after it, and if it stays until the stream is closed it
\* has been told an ending.
EndsOnce ==
  /\ \A i \in DOMAIN wire : At(i, {"started"}) <=> i = 1
  /\ \A i \in DOMAIN wire : At(i, Terminal) => i = Len(wire)
  /\ closed /\ ~left => Sent(Terminal)

\* A lane is announced once, closed at most once and only after it was
\* announced, and when the client reads the ending no lane is open: also if
\* ids repeat, a call has none, or the run died with children running.
LanesAccounted ==
  \A i \in DOMAIN wire :
    /\ At(i, {"settled"}) =>
         \E j \in 1..(i - 1) : At(j, {"spawn"}) /\ wire[j].lane = wire[i].lane
    /\ At(i, {"spawn", "settled"}) =>
         \A j \in DOMAIN wire :
           wire[j].event = wire[i].event /\ wire[j].lane = wire[i].lane => j = i
    /\ At(i, {"spawn"}) /\ Sent(Terminal) =>
         \E j \in DOMAIN wire :
           At(j, {"settled"}) /\ wire[j].lane = wire[i].lane

\* The journal agrees with the stream: an answer or a pause reaches the client
\* only with the row of a finished turn written; the row of a stopped run says
\* that the client left and was told no ending; that of an overrun, that an
\* error is all it may have been told; and a stream unwound while the graph was
\* being driven leaves the row of a stopped run.  An error says nothing of the
\* row: see ErrorIsNoTurn.
RowAgrees ==
  /\ Sent({"done", "interrupt"}) => row = "run"
  /\ row = "stopped" => left /\ ~Sent(Terminal)
  /\ row = "exhausted" => phase = "spent" /\ ~Sent({"done", "interrupt"})
  /\ closed /\ phase = "graph" => row = "stopped"

\* A turn that the journal has as finished did not reach its client as an
\* error.  The row is written before the ending is built (:2682).
ErrorIsNoTurn == Sent({"error"}) => row # "run"

\* A run whose client left, and one whose graph is over, is closed: also when
\* the graph never answers, and when the frame and the disconnect are ready in
\* the same pass (stop_when_client_leaves).
StopIsHonoured == (left \/ phase = "spent") ~> closed

\* "The clock is a published field on every frame" (FRAME_FIELDS,
\* streaming.py:1207-1210).
FramesAreDated == \A i \in DOMAIN wire : wire[i].dated

\* "A run the user stopped - or abandoned by closing the tab -" is a row
\* (run_journal.py:67): unless it raised, a run that is over has one.
StoppedIsARow == closed /\ ~Sent({"error"}) /\ owed = <<>> => row # "none"

\* A lane that closes before the ending closes because the child it was
\* announced for has ended (SpawnWatcher: "what ends it").
CloseIsTheChilds ==
  \A i \in DOMAIN wire :
    At(i, {"settled"}) /\ status[wire[i].lane] = "running" =>
      phase = "spent"

\* "The supersteps after it no longer run" (stop_when_client_leaves).
StopStartsNothing ==
  [][left /\ phase = "graph" /\ step' = "running" => step = "running"]_vars
=============================================================================
