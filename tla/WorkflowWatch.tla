--------------------------- MODULE WorkflowWatch ----------------------------
(***************************************************************************)
(* backend/openstategraph/api/workflow_events.py: WorkflowChangeWatcher,   *)
(* attached by one `GET /api/events?slug=` per open editor (api/routes/    *)
(* system.py).                                                             *)
(*                                                                         *)
(* One event loop runs the connections and the poll; a sweep runs on a     *)
(* thread of the executor, and goes on when its poll has been cancelled.   *)
(* Poll p is the p-th task created; job[p] is its sweep.  A file's bytes   *)
(* are a version number, 0 for a package that is not there.                *)
(*                                                                         *)
(* The client refetches its document on a frame, and once after it has     *)
(* connected, as the route asks of it (system.py:161).  The editor does    *)
(* the first in useExternalWorkflowChange.ts; for want of an open listener *)
(* (LiveEventStream.ts:180) its poll does the second.  How a frame reaches *)
(* its connection is module Broadcast.                                     *)
(***************************************************************************)
EXTENDS Naturals, FiniteSets

CONSTANTS
  Slugs,     \* packages
  Conns,     \* editor tabs; a tab has one connection at a time
  MaxEdits,  \* bound: writes to workflow.json files
  MaxOpens,  \* bound: connections opened
  MayRevert, \* may a write put earlier bytes back, or delete the file?
  Overlap    \* may a connection open while a cancelled sweep still runs?

ASSUME BoundsAreNaturals == MaxEdits \in Nat /\ MaxOpens \in Nat
ASSUME SwitchesAreBoolean == MayRevert \in BOOLEAN /\ Overlap \in BOOLEAN

Versions == 0 .. (MaxEdits + 1)
NoDigest == MaxEdits + 2
Polls    == 1 .. MaxOpens
NoPoll   == 0

VARIABLES
  disk,      \* disk[s]: the version of the file of s
  edits,
  watching,  \* WorkflowChangeWatcher._watching
  last,      \* WorkflowChangeWatcher._last, NoDigest for a missing key
  task,      \* WorkflowChangeWatcher._task
  poll,      \* poll[p]: where task p is
  job,       \* job[p]: the sweep task p submitted
  polls,     \* tasks created so far
  open,      \* open[c]: the slugs c is attached for: none or one
  hinted,    \* the clients that were told to refetch and have not yet
  seen,      \* seen[c]: the version client c fetched last
  opens

fileVars   == <<disk, edits>>
watchVars  == <<watching, last, task>>
pollVars   == <<poll, job, polls>>
clientVars == <<open, hinted, seen, opens>>
vars == <<fileVars, watchVars, pollVars, clientVars>>

Job == [at : {"none", "queued", "running", "done"}, todo : SUBSET Slugs,
        reading : SUBSET Slugs, digest : Versions, changed : SUBSET Slugs]
NoJob == [at |-> "none", todo |-> {}, reading |-> {}, digest |-> 0, changed |-> {}]

Watched == {s \in Slugs : watching[s] > 0}

\* A sweep whose poll is over: nobody will publish what it finds.
Orphans == {p \in Polls : poll[p] = "ended" /\ job[p].at = "running"}

Edit(s) ==
  \E v \in Versions :
    /\ edits < MaxEdits
    /\ v = disk[s] + 1 \/ (MayRevert /\ v < disk[s])
    /\ edits' = edits + 1
    /\ disk' = [disk EXCEPT ![s] = v]
    /\ UNCHANGED <<watchVars, pollVars, clientVars>>

-----------------------------------------------------------------------------
(***************************************************************************)
(* attach(slug, subscriber): _enter and _leave, on the loop.               *)
(***************************************************************************)
\* Mutant: every connection takes the baseline anew.
BaselineEachTime(s) == [last EXCEPT ![s] = disk[s]]

\* The baseline of a slug nobody watched yet is what the file holds now.
Baseline(s) == IF watching[s] = 0 THEN [last EXCEPT ![s] = disk[s]] ELSE last
NeedsPoll == task = NoPoll

Open(c, s) ==
  /\ opens < MaxOpens
  /\ Overlap \/ Orphans = {}
  /\ open[c] = {}
  /\ opens' = opens + 1
  /\ open' = [open EXCEPT ![c] = {s}]
  /\ hinted' = hinted \cup {c}
  /\ last' = Baseline(s)
  /\ watching' = [watching EXCEPT ![s] = @ + 1]
  /\ IF NeedsPoll
     THEN /\ polls' = polls + 1
          /\ task' = polls + 1
          /\ poll' = [poll EXCEPT ![polls + 1] = "asleep"]
     ELSE UNCHANGED <<polls, task, poll>>
  /\ UNCHANGED <<fileVars, job, seen>>

\* Mutant: a connection is uncounted by the exit of attach() and by _leave.
UncountedTwice(s) == watching[s] - 2

Remaining(s) == watching[s] - 1
Idle(w) == \A s \in Slugs : w[s] = 0

\* A sweep that is still queued is cancelled with its poll.
Close(c, s) ==
  /\ s \in open[c]
  /\ open' = [open EXCEPT ![c] = {}]
  /\ hinted' = hinted \ {c}
  /\ watching' = [watching EXCEPT ![s] = Remaining(s)]
  /\ last' = IF Remaining(s) > 0 THEN last ELSE [last EXCEPT ![s] = NoDigest]
  /\ IF Idle(watching') /\ task # NoPoll
     THEN /\ task' = NoPoll
          /\ poll' = [poll EXCEPT ![task] = "ended"]
          /\ job' = IF job[task].at = "running" THEN job
                    ELSE [job EXCEPT ![task] = NoJob]
     ELSE UNCHANGED <<task, poll, job>>
  /\ UNCHANGED <<fileVars, polls, seen, opens>>

\* react() of the editor: it loads the document of a frame, and of the row its
\* five-second poll reads next, which stands in for a refetch on connect.
Refetch(c, s) ==
  /\ c \in hinted
  /\ s \in open[c]
  /\ hinted' = hinted \ {c}
  /\ seen' = [seen EXCEPT ![c] = disk[s]]
  /\ UNCHANGED <<fileVars, watchVars, pollVars, open, opens>>

-----------------------------------------------------------------------------
(***************************************************************************)
(* _poll: sleep, sweep in the executor, publish what it found.             *)
(***************************************************************************)
PollWakes(p) ==
  /\ poll[p] = "asleep"
  /\ poll' = [poll EXCEPT ![p] = "sweeping"]
  /\ job' = [job EXCEPT ![p].at = "queued"]
  /\ UNCHANGED <<fileVars, watchVars, polls, clientVars>>

\* `tuple(self._watching)`
SweepStarts(p) ==
  /\ job[p].at = "queued"
  /\ job' = [job EXCEPT ![p].at = "running", ![p].todo = Watched]
  /\ UNCHANGED <<fileVars, watchVars, poll, polls, clientVars>>

SweepReads(p, s) ==
  /\ job[p].at = "running"
  /\ job[p].reading = {}
  /\ s \in job[p].todo
  /\ job' = [job EXCEPT ![p].todo = @ \ {s}, ![p].reading = {s}, ![p].digest = disk[s]]
  /\ UNCHANGED <<fileVars, watchVars, poll, polls, clientVars>>

Differs(p, s) == last[s] # job[p].digest

SweepCompares(p, s) ==
  /\ job[p].at = "running"
  /\ s \in job[p].reading
  /\ last' = [last EXCEPT ![s] = job[p].digest]
  /\ job' = [job EXCEPT ![p].reading = {},
                        ![p].changed = IF Differs(p, s) THEN @ \cup {s} ELSE @]
  /\ UNCHANGED <<fileVars, watching, task, poll, polls, clientVars>>

SweepEnds(p) ==
  /\ job[p].at = "running"
  /\ job[p].todo = {} /\ job[p].reading = {}
  /\ job' = IF poll[p] = "ended" THEN [job EXCEPT ![p] = NoJob]
            ELSE [job EXCEPT ![p].at = "done"]
  /\ UNCHANGED <<fileVars, watchVars, poll, polls, clientVars>>

\* The route hands a connection the frames of its own slug only.
PollPublishes(p) ==
  /\ poll[p] = "sweeping"
  /\ job[p].at = "done"
  /\ hinted' = hinted \cup {c \in Conns : open[c] \cap job[p].changed # {}}
  /\ poll' = [poll EXCEPT ![p] = "asleep"]
  /\ job' = [job EXCEPT ![p] = NoJob]
  /\ UNCHANGED <<fileVars, watchVars, polls, open, seen, opens>>

-----------------------------------------------------------------------------
Init ==
  /\ disk = [s \in Slugs |-> 1]
  /\ edits = 0
  /\ watching = [s \in Slugs |-> 0]
  /\ last = [s \in Slugs |-> NoDigest]
  /\ task = NoPoll
  /\ poll = [p \in Polls |-> "none"]
  /\ job = [p \in Polls |-> NoJob]
  /\ polls = 0
  /\ open = [c \in Conns |-> {}]
  /\ hinted = {}
  /\ seen = [c \in Conns |-> 0]
  /\ opens = 0

PollStep(p) ==
  \/ PollWakes(p) \/ PollPublishes(p)
  \/ SweepStarts(p) \/ SweepEnds(p)
  \/ \E s \in Slugs : SweepReads(p, s) \/ SweepCompares(p, s)

Next ==
  \/ \E s \in Slugs : Edit(s)
  \/ \E c \in Conns, s \in Slugs : Open(c, s) \/ Close(c, s) \/ Refetch(c, s)
  \/ \E p \in Polls : PollStep(p)

Spec == Init /\ [][Next]_vars

\* The loop and the executor run; a client that was told to refetch does.
Fairness ==
  /\ \A p \in Polls : WF_vars(PollStep(p))
  /\ \A c \in Conns : WF_vars(\E s \in Slugs : Refetch(c, s))

FairSpec == Spec /\ Fairness

-----------------------------------------------------------------------------
\* The type invariant of every variable.
TypeOK ==
  /\ disk \in [Slugs -> Versions]
  /\ edits \in 0 .. MaxEdits
  /\ watching \in [Slugs -> Nat]
  /\ last \in [Slugs -> Versions \cup {NoDigest}]
  /\ task \in Polls \cup {NoPoll}
  /\ poll \in [Polls -> {"none", "asleep", "sweeping", "ended"}]
  /\ job \in [Polls -> Job]
  /\ polls \in 0 .. MaxOpens
  /\ open \in [Conns -> SUBSET Slugs]
  /\ hinted \subseteq Conns
  /\ seen \in [Conns -> Versions]
  /\ opens \in 0 .. MaxOpens

(***************************************************************************)
(* "The baseline is taken now, so the first tick reports what changed      *)
(* since this client connected" (:236): a client whose document is older   *)
(* than the file has been told, or the live poll has it to tell, or will   *)
(* find that the file is not what it last saw.                             *)
(***************************************************************************)
NothingMissed ==
  \A c \in Conns, s \in Slugs :
    s \in open[c] /\ seen[c] # disk[s] =>
      c \in hinted \/ last[s] # disk[s] \/ s \in job[task].changed

\* A client that stays connected has the file as it is, each time the file
\* stays as it is.
ClientCatchesUp ==
  \A c \in Conns, s \in Slugs :
    s \in open[c] /\ seen[c] # disk[s] ~> (s \notin open[c] \/ seen[c] = disk[s])

=============================================================================
