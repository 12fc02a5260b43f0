------------------------ MODULE WorkflowWatch_proofs -------------------------
(***************************************************************************)
(* Proofs about WorkflowWatch for every set of packages and of tabs, every *)
(* bound.  WatchInv, which needs nothing of the two switches, is inductive *)
(* and gives the types; TellInv adds to it what makes NothingMissed hold   *)
(* when no write puts earlier bytes back and no sweep outlives its poll    *)
(* beside another.                                                         *)
(***************************************************************************)
EXTENDS WorkflowWatch, FiniteSetTheorems, TLAPS

Watchers(s) == {c \in Conns : s \in open[c]}

\* _watching counts the connections that are open for each slug.
Counted ==
  \A s \in Slugs : IsFiniteSet(Watchers(s)) /\ watching[s] = Cardinality(Watchers(s))

OneSlugEach == \A c \in Conns : \A s, r \in open[c] : s = r

\* A watched slug has the live poll, and every other poll is over: it may
\* have left a running sweep behind, and never one that waits or is done.
OnePoll ==
  /\ (\E s \in Slugs : watching[s] > 0) => task # NoPoll
  /\ task # NoPoll => poll[task] \in {"asleep", "sweeping"}
  /\ \A p \in Polls \ {task} :
       /\ poll[p] \in {"none", "ended"}
       /\ job[p].at \in {"none", "running"}
       /\ poll[p] = "none" => job[p].at = "none"

PollsAreFew == polls =< opens

WatchInv ==
  /\ TypeOK
  /\ Counted
  /\ OneSlugEach
  /\ OnePoll
  /\ PollsAreFew

\* What was read of a file is not newer than the file.
ReadsArePast ==
  /\ \A s \in Slugs : last[s] # NoDigest => last[s] =< disk[s]
  /\ \A p \in Polls : \A s \in job[p].reading : job[p].digest =< disk[s]

NoOrphanBeside == task # NoPoll => Orphans = {}

TellInv ==
  /\ ReadsArePast
  /\ NoOrphanBeside
  /\ NothingMissed

LEMMA BoundFacts ==
  /\ Versions \subseteq Nat /\ NoDigest \in Nat /\ NoDigest \notin Versions
  /\ Polls \subseteq Nat \ {0} /\ NoPoll = 0
  /\ 0 \in Versions /\ 1 \in Versions
BY BoundsAreNaturals DEF Versions, NoDigest, Polls, NoPoll

LEMMA InitWatchInv == Init => WatchInv
<1> SUFFICES ASSUME Init PROVE WatchInv
  OBVIOUS
<1>1. TypeOK
  BY BoundFacts, BoundsAreNaturals DEF Init, TypeOK, Job, NoJob
<1>2. \A s \in Slugs : Watchers(s) = {}
  BY DEF Init, Watchers
<1>3. Counted
  BY <1>2, FS_EmptySet DEF Init, Counted
<1>4. OneSlugEach /\ OnePoll /\ PollsAreFew
  BY DEF Init, OneSlugEach, OnePoll, PollsAreFew, NoJob, NoPoll
<1> QED
  BY <1>1, <1>3, <1>4 DEF WatchInv

LEMMA InitTellInv == Init => TellInv
BY DEF Init, TellInv, ReadsArePast, NoOrphanBeside, NothingMissed, NoJob, NoPoll, Orphans

-----------------------------------------------------------------------------
(***************************************************************************)
(* Connections                                                             *)
(***************************************************************************)
LEMMA OpenKeepsWatchInv ==
  ASSUME WatchInv, NEW c \in Conns, NEW s \in Slugs, Open(c, s)
  PROVE  WatchInv'
<1> USE DEF WatchInv
<1>1. /\ open[c] = {} /\ open' = [open EXCEPT ![c] = {s}] /\ opens' = opens + 1
      /\ watching' = [watching EXCEPT ![s] = watching[s] + 1]
      /\ hinted' = hinted \cup {c} /\ UNCHANGED <<disk, edits, job, seen>>
      /\ last' = Baseline(s) /\ opens < MaxOpens
  BY DEF Open, fileVars
<1>2. \/ /\ polls' = polls + 1 /\ task' = polls + 1
         /\ poll' = [poll EXCEPT ![polls + 1] = "asleep"]
         /\ task = NoPoll /\ polls + 1 \in Polls /\ polls + 1 # NoPoll
      \/ UNCHANGED <<polls, task, poll>> /\ task # NoPoll
  <2>1. polls + 1 \in Polls /\ polls + 1 # NoPoll
    BY <1>1, BoundsAreNaturals DEF TypeOK, PollsAreFew, Polls, NoPoll
  <2> QED
    BY <2>1 DEF Open, NeedsPoll
<1>3. TypeOK'
  <2>1. /\ disk' \in [Slugs -> Versions] /\ edits' \in 0 .. MaxEdits
        /\ watching' \in [Slugs -> Nat] /\ open' \in [Conns -> SUBSET Slugs]
        /\ hinted' \subseteq Conns
        /\ seen' \in [Conns -> Versions] /\ job' \in [Polls -> Job]
    BY <1>1 DEF TypeOK
  <2>4. last' \in [Slugs -> Versions \cup {NoDigest}]
    <3>1. last' = last \/ last' = [last EXCEPT ![s] = disk[s]]
      BY <1>1 DEF Baseline
    <3>2. disk[s] \in Versions
      BY DEF TypeOK
    <3> QED
      BY <3>1, <3>2 DEF TypeOK
  <2>2. opens' \in 0 .. MaxOpens
    BY <1>1, BoundsAreNaturals DEF TypeOK
  <2>3. /\ task' \in Polls \cup {NoPoll} /\ polls' \in 0 .. MaxOpens
        /\ poll' \in [Polls -> {"none", "asleep", "sweeping", "ended"}]
    <3>1. CASE UNCHANGED <<polls, task, poll>>
      BY <3>1 DEF TypeOK
    <3>2. CASE /\ polls' = polls + 1 /\ task' = polls + 1 /\ polls + 1 \in Polls
               /\ poll' = [poll EXCEPT ![polls + 1] = "asleep"]
      BY <3>2, BoundsAreNaturals DEF TypeOK, Polls
    <3> QED
      BY <1>2, <3>1, <3>2
  <2> QED
    BY <2>1, <2>2, <2>3, <2>4 DEF TypeOK
<1>4. Counted' /\ OneSlugEach'
  <2>1. /\ Watchers(s)' = Watchers(s) \cup {c} /\ c \notin Watchers(s)
        /\ \A r \in Slugs \ {s} : Watchers(r)' = Watchers(r)
    BY <1>1 DEF Watchers, TypeOK
  <2>2. watching'[s] = watching[s] + 1 /\ \A r \in Slugs \ {s} : watching'[r] = watching[r]
    BY <1>1 DEF TypeOK
  <2>3. Counted'
    BY <2>1, <2>2, FS_AddElement DEF Counted
  <2>4. OneSlugEach'
    BY <1>1 DEF OneSlugEach, TypeOK
  <2> QED
    BY <2>3, <2>4
<1>5. OnePoll'
  <2>1. CASE task = NoPoll /\ task' = polls + 1
    BY <1>1, <1>2, <2>1, BoundFacts DEF OnePoll, TypeOK
  <2>2. CASE UNCHANGED <<polls, task, poll>> /\ task # NoPoll
    BY <1>1, <2>2 DEF OnePoll
  <2> QED
    BY <1>2, <2>1, <2>2
<1>6. PollsAreFew'
  BY <1>1, <1>2, BoundsAreNaturals DEF PollsAreFew, TypeOK
<1> QED
  BY <1>3, <1>4, <1>5, <1>6

\* The last connection of a slug: Remaining is what is left of its count.
LEMMA CloseFacts ==
  ASSUME WatchInv, NEW c \in Conns, NEW s \in Slugs, Close(c, s)
  PROVE  /\ open' = [open EXCEPT ![c] = {}] /\ open[c] = {s}
         /\ watching[s] \in Nat \ {0}
         /\ watching' = [watching EXCEPT ![s] = watching[s] - 1]
         /\ Counted'
<1> USE DEF WatchInv
<1>1. /\ s \in open[c] /\ open' = [open EXCEPT ![c] = {}]
      /\ watching' = [watching EXCEPT ![s] = watching[s] - 1]
  BY DEF Close, Remaining
<1>2. open[c] = {s}
  BY <1>1 DEF OneSlugEach, TypeOK
<1>3. /\ Watchers(s)' = Watchers(s) \ {c} /\ c \in Watchers(s)
      /\ \A r \in Slugs \ {s} : Watchers(r)' = Watchers(r)
  BY <1>1, <1>2 DEF Watchers, TypeOK
<1>4. watching[s] \in Nat \ {0}
  <2>1. watching[s] = Cardinality(Watchers(s)) /\ Watchers(s) # {} /\ IsFiniteSet(Watchers(s))
    BY <1>3 DEF Counted
  <2> QED
    BY <2>1, FS_EmptySet DEF TypeOK
<1>5. Counted'
  <2>1. watching'[s] = watching[s] - 1 /\ \A r \in Slugs \ {s} : watching'[r] = watching[r]
    BY <1>1 DEF TypeOK
  <2> QED
    BY <1>3, <2>1, FS_RemoveElement DEF Counted
<1> QED
  BY <1>1, <1>2, <1>4, <1>5

LEMMA CloseKeepsWatchInv ==
  ASSUME WatchInv, NEW c \in Conns, NEW s \in Slugs, Close(c, s)
  PROVE  WatchInv'
<1>0. Counted'
  BY CloseFacts
<1> USE DEF WatchInv
<1>1. /\ open' = [open EXCEPT ![c] = {}] /\ open[c] = {s} /\ watching[s] \in Nat \ {0}
      /\ watching' = [watching EXCEPT ![s] = watching[s] - 1]
  BY CloseFacts
<1>2. /\ UNCHANGED <<disk, edits, polls, seen, opens>> /\ hinted' = hinted \ {c}
      /\ \/ last' = last
         \/ last' = [last EXCEPT ![s] = NoDigest]
  BY DEF Close, fileVars
<1>3. \/ UNCHANGED <<task, poll, job>> /\ (task = NoPoll \/ ~Idle(watching'))
      \/ /\ task # NoPoll /\ task' = NoPoll /\ poll' = [poll EXCEPT ![task] = "ended"]
         /\ \/ job' = job /\ job[task].at = "running"
            \/ job' = [job EXCEPT ![task] = NoJob]
         /\ Idle(watching')
  BY DEF Close
<1>4. TypeOK'
  <2>1. watching' \in [Slugs -> Nat] /\ open' \in [Conns -> SUBSET Slugs]
    BY <1>1 DEF TypeOK
  <2>2. last' \in [Slugs -> Versions \cup {NoDigest}] /\ hinted' \subseteq Conns
    BY <1>2 DEF TypeOK
  <2>3. task' \in Polls \cup {NoPoll} /\ job' \in [Polls -> Job]
        /\ poll' \in [Polls -> {"none", "asleep", "sweeping", "ended"}]
    BY <1>3, BoundFacts DEF TypeOK, Job, NoJob
  <2> QED
    BY <1>2, <2>1, <2>2, <2>3 DEF TypeOK
<1>5. OneSlugEach'
  BY <1>1 DEF OneSlugEach, TypeOK
<1>6. OnePoll'
  <2>1. CASE UNCHANGED <<task, poll, job>>
    <3>1. \A r \in Slugs : watching'[r] > 0 => watching[r] > 0
      BY <1>1 DEF TypeOK
    <3> QED
      BY <2>1, <3>1 DEF OnePoll
  <2>2. CASE /\ task # NoPoll /\ task' = NoPoll /\ poll' = [poll EXCEPT ![task] = "ended"]
             /\ job' = job /\ job[task].at = "running"
             /\ Idle(watching')
    BY <2>2, BoundFacts DEF OnePoll, TypeOK, Idle
  <2>3. CASE /\ task # NoPoll /\ task' = NoPoll /\ poll' = [poll EXCEPT ![task] = "ended"]
             /\ job' = [job EXCEPT ![task] = NoJob]
             /\ Idle(watching')
    BY <2>3, BoundFacts DEF OnePoll, TypeOK, Idle, NoJob
  <2> QED
    BY <1>3, <2>1, <2>2, <2>3
<1> QED
  BY <1>0, <1>2, <1>4, <1>5, <1>6 DEF PollsAreFew

-----------------------------------------------------------------------------
(***************************************************************************)
(* The poll and its sweep                                                  *)
(***************************************************************************)

\* What a step of poll p does to the polls: it writes poll[p] and job[p] only.
LEMMA PollFacts ==
  ASSUME WatchInv, NEW p \in Polls, PollStep(p)
  PROVE  /\ UNCHANGED <<disk, edits, watching, task, polls, open, seen, opens>>
         /\ poll' \in [Polls -> {"none", "asleep", "sweeping", "ended"}]
         /\ job' \in [Polls -> Job]
         /\ hinted \subseteq hinted' /\ hinted' \subseteq Conns
         /\ \A q \in Polls \ {p} : poll'[q] = poll[q] /\ job'[q] = job[q]
         /\ \/ p = task /\ poll'[p] \in {"asleep", "sweeping"}
            \/ /\ p # task /\ poll[p] = "ended" /\ job[p].at = "running"
               /\ poll' = poll /\ job'[p].at \in {"none", "running"}
<1> USE DEF WatchInv, TypeOK
<1>0. job[p] \in Job
  OBVIOUS
<1>8. NoJob \in Job /\ NoJob.at = "none"
  BY BoundFacts DEF NoJob, Job
<1>1. CASE PollWakes(p)
  <2>1. p = task
    BY <1>1 DEF PollWakes, OnePoll
  <2> QED
    BY <1>0, <1>1, <2>1 DEF PollWakes, Job, fileVars, watchVars, clientVars
<1>2. CASE PollPublishes(p)
  <2>1. p = task
    BY <1>2 DEF PollPublishes, OnePoll
  <2> QED
    BY <1>2, <1>8, <2>1 DEF PollPublishes, fileVars, watchVars
<1>3. CASE SweepStarts(p)
  <2>4. [job[p] EXCEPT !.at = "running", !.todo = Watched] \in Job
    BY <1>0 DEF Watched, Job
  <2>5. job' = [job EXCEPT ![p] = [job[p] EXCEPT !.at = "running", !.todo = Watched]]
    BY <1>3 DEF SweepStarts
  <2>1. p = task
    BY <1>3 DEF SweepStarts, OnePoll
  <2>2. poll[p] \in {"asleep", "sweeping"}
    BY <2>1, BoundFacts DEF OnePoll
  <2> QED
    BY <1>3, <2>1, <2>2, <2>4, <2>5 DEF SweepStarts, fileVars, watchVars, clientVars
<1>4. ASSUME job[p].at = "running"
      PROVE  \/ p = task /\ poll[p] \in {"asleep", "sweeping"}
             \/ p # task /\ poll[p] = "ended"
  BY <1>4, BoundFacts DEF OnePoll
<1>5. CASE SweepEnds(p)
  <2>1. \/ job' = [job EXCEPT ![p] = NoJob] /\ poll[p] = "ended"
        \/ job' = [job EXCEPT ![p].at = "done"] /\ poll[p] # "ended"
    BY <1>5, Zenon DEF SweepEnds
  <2>2. [job[p] EXCEPT !.at = "done"] \in Job
    BY <1>0 DEF Job
  <2>5. \/ job' = [job EXCEPT ![p] = NoJob]
        \/ job' = [job EXCEPT ![p] = [job[p] EXCEPT !.at = "done"]]
    BY <2>1
  <2>3. job' \in [Polls -> Job] /\ \A q \in Polls \ {p} : job'[q] = job[q]
    BY <1>8, <2>2, <2>5
  <2>4. poll[p] = "ended" => job'[p].at = "none"
    BY <1>8, <2>1
  <2> QED
    BY <1>4, <1>5, <2>3, <2>4 DEF SweepEnds, fileVars, watchVars, clientVars
<1>6. ASSUME NEW s \in Slugs, SweepReads(p, s) \/ SweepCompares(p, s)
      PROVE  /\ UNCHANGED <<disk, edits, watching, task, poll, polls, clientVars>>
             /\ job' \in [Polls -> Job] /\ job[p].at = "running" /\ job'[p].at = "running"
             /\ \A q \in Polls \ {p} : job'[q] = job[q]
  <2>1. CASE SweepReads(p, s)
    <3> DEFINE j == [job[p] EXCEPT !.todo = @ \ {s}, !.reading = {s}, !.digest = disk[s]]
    <3>1. job' = [job EXCEPT ![p] = j]
      BY <2>1 DEF SweepReads
    <3>2. job[p].at = "running" /\ j.at = "running" /\ j \in Job
      BY <1>0, <2>1 DEF SweepReads, Job
    <3> HIDE DEF j
    <3>3. job' \in [Polls -> Job] /\ job'[p] = j /\ \A q \in Polls \ {p} : job'[q] = job[q]
      BY <1>0, <3>1, <3>2
    <3> QED
      BY <2>1, <3>2, <3>3 DEF SweepReads, fileVars, watchVars
  <2>2. CASE SweepCompares(p, s)
    <3>1. PICK found \in SUBSET Slugs :
            job' = [job EXCEPT ![p].reading = {}, ![p].changed = found]
      <4>1. job' = [job EXCEPT ![p].reading = {},
                      ![p].changed = IF Differs(p, s) THEN job[p].changed \cup {s}
                                     ELSE job[p].changed]
        BY <2>2 DEF SweepCompares
      <4> QED
        BY <1>0, <4>1 DEF Job
    <3>2. [job[p] EXCEPT !.reading = {}, !.changed = found] \in Job
      BY <1>0, <3>1 DEF Job
    <3>3. job' = [job EXCEPT ![p] = [job[p] EXCEPT !.reading = {}, !.changed = found]]
      BY <3>1
    <3>4. job[p].at = "running" /\ [job[p] EXCEPT !.reading = {}, !.changed = found].at = "running"
      BY <1>0, <2>2 DEF SweepCompares, Job
    <3> DEFINE j == [job[p] EXCEPT !.reading = {}, !.changed = found]
    <3>5. j \in Job /\ j.at = "running" /\ job' = [job EXCEPT ![p] = j]
      BY <3>2, <3>3, <3>4
    <3> HIDE DEF j
    <3>6. job' \in [Polls -> Job] /\ job'[p] = j /\ \A q \in Polls \ {p} : job'[q] = job[q]
      BY <1>0, <3>5
    <3> QED
      BY <2>2, <3>4, <3>5, <3>6 DEF SweepCompares, fileVars
  <2> QED
    BY <1>6, <2>1, <2>2
<1>7. CASE \E s \in Slugs : SweepReads(p, s) \/ SweepCompares(p, s)
  BY <1>4, <1>6, <1>7 DEF clientVars
<1> QED
  BY <1>1, <1>2, <1>3, <1>5, <1>7 DEF PollStep

LEMMA PollKeepsWatchInv ==
  ASSUME WatchInv, NEW p \in Polls, PollStep(p)
  PROVE  WatchInv'
<1>1. /\ UNCHANGED <<disk, edits, watching, task, polls, open, seen, opens>>
      /\ poll' \in [Polls -> {"none", "asleep", "sweeping", "ended"}]
      /\ job' \in [Polls -> Job] /\ hinted' \subseteq Conns
      /\ \A q \in Polls \ {p} : poll'[q] = poll[q] /\ job'[q] = job[q]
      /\ \/ p = task /\ poll'[p] \in {"asleep", "sweeping"}
         \/ /\ p # task /\ poll[p] = "ended" /\ job[p].at = "running"
            /\ poll' = poll /\ job'[p].at \in {"none", "running"}
  BY PollFacts
<1>2. last' \in [Slugs -> Versions \cup {NoDigest}]
  <2>1. CASE \E s \in Slugs : SweepCompares(p, s)
    <3>1. PICK s \in Slugs : last' = [last EXCEPT ![s] = job[p].digest]
      BY <2>1 DEF SweepCompares
    <3>2. job[p].digest \in Versions
      BY DEF WatchInv, TypeOK, Job
    <3> QED
      BY <3>1, <3>2 DEF WatchInv, TypeOK
  <2>2. CASE ~\E s \in Slugs : SweepCompares(p, s)
    BY <2>2 DEF PollStep, PollWakes, PollPublishes, SweepStarts, SweepEnds, SweepReads,
                watchVars, WatchInv, TypeOK
  <2> QED
    BY <2>1, <2>2
<1>3. TypeOK'
  BY <1>1, <1>2 DEF WatchInv, TypeOK
<1>4. Counted' /\ OneSlugEach' /\ PollsAreFew'
  BY <1>1 DEF WatchInv, Counted, Watchers, OneSlugEach, PollsAreFew
<1>5. OnePoll'
  BY <1>1, BoundFacts DEF WatchInv, OnePoll
<1> QED
  BY <1>3, <1>4, <1>5 DEF WatchInv

\* Writes to the files, refetches and stutters leave the polls alone.
LEMMA OthersKeepWatchInv ==
  ASSUME WatchInv,
         \/ \E s \in Slugs : Edit(s)
         \/ \E c \in Conns, s \in Slugs : Refetch(c, s)
         \/ UNCHANGED vars
  PROVE  WatchInv'
<1>1. UNCHANGED <<watching, last, task, poll, job, polls, open, opens>>
  BY DEF Edit, Refetch, vars, watchVars, pollVars, clientVars
<1>2. CASE \E s \in Slugs : Edit(s)
  <2>1. edits' \in 0 .. MaxEdits /\ disk' \in [Slugs -> Versions]
    BY <1>2, BoundsAreNaturals DEF Edit, WatchInv, TypeOK
  <2>2. UNCHANGED <<hinted, seen>>
    BY <1>2 DEF Edit, clientVars
  <2> QED
    BY <1>1, <2>1, <2>2
    DEF WatchInv, TypeOK, Counted, Watchers, OneSlugEach, OnePoll, PollsAreFew
<1>3. CASE UNCHANGED vars \/ \E c \in Conns, s \in Slugs : Refetch(c, s)
  <2>1. UNCHANGED <<disk, edits>> /\ hinted' \subseteq Conns /\ seen' \in [Conns -> Versions]
    BY <1>3 DEF Refetch, vars, fileVars, clientVars, WatchInv, TypeOK
  <2> QED
    BY <1>1, <2>1
    DEF WatchInv, TypeOK, Counted, Watchers, OneSlugEach, OnePoll, PollsAreFew
<1> QED
  BY <1>2, <1>3

LEMMA WatchStep ==
  ASSUME WatchInv, [Next]_vars
  PROVE  WatchInv'
BY OpenKeepsWatchInv, CloseKeepsWatchInv, PollKeepsWatchInv, OthersKeepWatchInv DEF Next

\* The structure holds of every behaviour, overlapping sweeps and reverts
\* included.
THEOREM WatchInvariant == Spec => []WatchInv
<1>1. Init => WatchInv
  BY InitWatchInv
<1>2. WatchInv /\ [Next]_vars => WatchInv'
  BY WatchStep
<1> QED
  BY <1>1, <1>2, PTL DEF Spec

\* Every variable keeps its type; the counts of _watching never fall below
\* zero (workflow_events.py: _enter and _leave).
THEOREM WatchTypes == Spec => []TypeOK
<1>1. WatchInv => TypeOK
  BY DEF WatchInv
<1> QED
  BY <1>1, WatchInvariant, PTL

-----------------------------------------------------------------------------
(***************************************************************************)
(* Nothing is missed                                                       *)
(***************************************************************************)
LEMMA DiskFacts ==
  ASSUME TypeOK
  PROVE  \A s \in Slugs : disk[s] \in Nat /\ disk[s] # NoDigest /\ last[s] \in Nat
<1> TAKE s \in Slugs
<1>1. disk[s] \in Versions /\ (last[s] \in Versions \/ last[s] = NoDigest)
  BY DEF TypeOK
<1>2. \A v \in Versions : v \in Nat /\ v # NoDigest
  BY BoundFacts
<1>3. NoDigest \in Nat
  BY BoundFacts
<1> QED
  BY <1>1, <1>2, <1>3

\* While a connection is open its poll is the only one at work.
LEMMA WatchedFacts ==
  ASSUME WatchInv, NEW c \in Conns, NEW s \in Slugs, s \in open[c]
  PROVE  watching[s] \in Nat \ {0} /\ task \in Polls
<1>1. Watchers(s) # {} /\ IsFiniteSet(Watchers(s)) /\ watching[s] = Cardinality(Watchers(s))
  BY DEF WatchInv, Counted, Watchers
<1>2. watching[s] \in Nat \ {0}
  BY <1>1, FS_EmptySet DEF WatchInv, TypeOK
<1> QED
  BY <1>2 DEF WatchInv, OnePoll, TypeOK

\* A file grows past whatever was read of it.
LEMMA EditTells ==
  ASSUME WatchInv, TellInv, MayRevert = FALSE, NEW s \in Slugs, Edit(s)
  PROVE  TellInv'
<1>1. /\ UNCHANGED <<last, job, task, poll, open, hinted, seen>>
      /\ disk' = [disk EXCEPT ![s] = disk[s] + 1] /\ disk[s] + 1 \in Versions
  BY DEF Edit, watchVars, pollVars, clientVars
<1>2. \A r \in Slugs : /\ disk[r] \in Nat /\ disk'[r] \in Nat /\ last[r] \in Nat
                       /\ disk'[r] = IF r = s THEN disk[r] + 1 ELSE disk[r]
  BY <1>1, DiskFacts DEF WatchInv, TypeOK
<1>3. \A p \in Polls : job[p].digest \in Nat /\ job[p].reading \subseteq Slugs
  BY BoundFacts DEF WatchInv, TypeOK, Job
<1>4. ReadsArePast'
  BY <1>1, <1>2, <1>3 DEF TellInv, ReadsArePast
<1>5. NoOrphanBeside'
  BY <1>1 DEF TellInv, NoOrphanBeside, Orphans
<1>6. NothingMissed'
  <2> SUFFICES ASSUME NEW c \in Conns, NEW r \in Slugs,
                      r \in open[c], seen[c] # disk'[r], c \notin hinted
               PROVE  last[r] # disk'[r] \/ r \in job[task].changed
    BY <1>1 DEF NothingMissed
  <2>1. CASE r = s
    <3>1. disk'[s] # NoDigest
      BY <1>1, <1>2, BoundFacts
    <3> QED
      BY <1>2, <2>1, <3>1 DEF TellInv, ReadsArePast
  <2>2. CASE r # s
    BY <1>2, <2>2 DEF TellInv, NothingMissed
  <2> QED
    BY <2>1, <2>2
<1> QED
  BY <1>4, <1>5, <1>6 DEF TellInv

\* A new connection is told to fetch; a slug others watch keeps its baseline.
LEMMA OpenTells ==
  ASSUME WatchInv, TellInv, Overlap = FALSE, NEW c \in Conns, NEW s \in Slugs, Open(c, s)
  PROVE  TellInv'
<1>1. /\ open' = [open EXCEPT ![c] = {s}] /\ hinted' = hinted \cup {c}
      /\ UNCHANGED <<disk, job, seen>> /\ Orphans = {}
      /\ \/ last' = last /\ watching[s] # 0
         \/ last' = [last EXCEPT ![s] = disk[s]] /\ watching[s] = 0
      /\ \/ task' = task /\ poll' = poll
         \/ task = NoPoll /\ poll' = [poll EXCEPT ![polls + 1] = "asleep"]
  BY DEF Open, Baseline, NeedsPoll, fileVars
<1>2. ReadsArePast'
  BY <1>1, DiskFacts DEF WatchInv, TypeOK, TellInv, ReadsArePast
<1>3. NoOrphanBeside'
  BY <1>1 DEF NoOrphanBeside, Orphans, WatchInv, TypeOK
<1>4. NothingMissed'
  <2> SUFFICES ASSUME NEW b \in Conns, NEW r \in Slugs,
                      r \in open'[b], seen[b] # disk[r], b \notin hinted'
               PROVE  last'[r] # disk[r] \/ r \in job[task'].changed
    BY <1>1 DEF NothingMissed
  <2>1. b # c /\ r \in open[b] /\ b \notin hinted
    BY <1>1 DEF WatchInv, TypeOK
  <2>2. watching[r] # 0 /\ task # NoPoll
    BY <2>1, WatchedFacts, BoundFacts
  <2>3. last'[r] = last[r] /\ task' = task
    BY <1>1, <2>2 DEF WatchInv, TypeOK
  <2> QED
    BY <2>1, <2>3 DEF TellInv, NothingMissed
<1> QED
  BY <1>2, <1>3, <1>4 DEF TellInv

\* Who stays keeps the poll, and the baseline of its slug.
LEMMA CloseTells ==
  ASSUME WatchInv, TellInv, NEW c \in Conns, NEW s \in Slugs, Close(c, s)
  PROVE  TellInv'
<1>1. /\ open' = [open EXCEPT ![c] = {}] /\ hinted' = hinted \ {c}
      /\ UNCHANGED <<disk, seen>>
      /\ \/ last' = last
         \/ last' = [last EXCEPT ![s] = NoDigest] /\ watching'[s] = 0
  <2>1. watching'[s] = Remaining(s)
    BY DEF Close, WatchInv, TypeOK
  <2>2. watching[s] \in Nat \ {0}
    BY CloseFacts
  <2>3. \/ last' = last
        \/ last' = [last EXCEPT ![s] = NoDigest] /\ Remaining(s) = 0
    <3>1. last' = IF Remaining(s) > 0 THEN last ELSE [last EXCEPT ![s] = NoDigest]
      BY DEF Close
    <3>2. Remaining(s) \in Nat
      BY <2>2 DEF Remaining
    <3> QED
      BY <3>1, <3>2
  <2> QED
    BY <2>1, <2>3 DEF Close, fileVars
<1>2. \/ UNCHANGED <<task, poll, job>>
      \/ /\ task' = NoPoll /\ Idle(watching')
         /\ job' = job \/ job' = [job EXCEPT ![task] = NoJob]
  BY DEF Close
<1>3. WatchInv'
  BY CloseKeepsWatchInv
<1>4. ReadsArePast'
  <2>1. \A r \in Slugs : last'[r] = last[r] \/ last'[r] = NoDigest
    BY <1>1 DEF WatchInv, TypeOK
  <2>2. \A p \in Polls : job'[p] = job[p] \/ job'[p].reading = {}
    BY <1>2 DEF WatchInv, TypeOK, NoJob
  <2> QED
    BY <1>1, <2>1, <2>2 DEF TellInv, ReadsArePast
<1>5. NoOrphanBeside'
  BY <1>2 DEF TellInv, NoOrphanBeside, Orphans
<1>6. NothingMissed'
  <2> SUFFICES ASSUME NEW b \in Conns, NEW r \in Slugs,
                      r \in open'[b], seen[b] # disk[r], b \notin hinted'
               PROVE  last'[r] # disk[r] \/ r \in job'[task'].changed
    BY <1>1 DEF NothingMissed
  <2>1. b # c /\ r \in open[b] /\ b \notin hinted
    BY <1>1 DEF WatchInv, TypeOK
  <2>2. \A a \in Conns : r \in open'[a] => watching'[r] # 0
    <3>1. Watchers(r)' # {} /\ IsFiniteSet(Watchers(r)') /\ watching'[r] = Cardinality(Watchers(r)')
      BY <1>3 DEF WatchInv, Counted, Watchers
    <3> QED
      BY <3>1, FS_EmptySet
  <2>3. last'[r] = last[r] /\ UNCHANGED <<task, job>>
    BY <1>1, <1>2, <2>2 DEF Idle, WatchInv, TypeOK
  <2> QED
    BY <2>1, <2>3 DEF TellInv, NothingMissed
<1> QED
  BY <1>4, <1>5, <1>6 DEF TellInv

LEMMA RefetchTells ==
  ASSUME WatchInv, TellInv, NEW c \in Conns, NEW s \in Slugs, Refetch(c, s)
  PROVE  TellInv'
<1>1. /\ UNCHANGED <<disk, last, task, poll, job, open>> /\ open[c] = {s}
      /\ hinted' = hinted \ {c} /\ seen' = [seen EXCEPT ![c] = disk[s]]
  BY DEF Refetch, fileVars, watchVars, pollVars, WatchInv, OneSlugEach, TypeOK
<1>2. ReadsArePast' /\ NoOrphanBeside'
  BY <1>1 DEF TellInv, ReadsArePast, NoOrphanBeside, Orphans
<1>3. NothingMissed'
  BY <1>1 DEF TellInv, NothingMissed, WatchInv, TypeOK
<1> QED
  BY <1>2, <1>3 DEF TellInv

\* A sweep compares what it read: it differs from the last digest, and the
\* slug is among the changed, or the last digest stays.
LEMMA CompareTells ==
  ASSUME WatchInv, TellInv, NEW p \in Polls, NEW s \in Slugs, SweepCompares(p, s)
  PROVE  TellInv'
<1>1. /\ job[p].at = "running" /\ s \in job[p].reading
      /\ last' = [last EXCEPT ![s] = job[p].digest]
      /\ UNCHANGED <<disk, task, poll, open, hinted, seen>>
  BY DEF SweepCompares, fileVars, clientVars
<1>2. PICK found : /\ found = IF Differs(p, s) THEN job[p].changed \cup {s} ELSE job[p].changed
                   /\ job' = [job EXCEPT ![p].reading = {}, ![p].changed = found]
  BY DEF SweepCompares
<1>3. /\ job'[p].at = job[p].at /\ job'[p].reading = {} /\ job'[p].changed = found
      /\ \A q \in Polls \ {p} : job'[q] = job[q]
  BY <1>2 DEF WatchInv, TypeOK, Job
<1>4. ReadsArePast'
  BY <1>1, <1>3 DEF TellInv, ReadsArePast, WatchInv, TypeOK
<1>5. NoOrphanBeside'
  BY <1>1, <1>3 DEF TellInv, NoOrphanBeside, Orphans
<1>6. NothingMissed'
  <2> SUFFICES ASSUME NEW c \in Conns, NEW r \in Slugs,
                      r \in open[c], seen[c] # disk[r], c \notin hinted
               PROVE  last'[r] # disk[r] \/ r \in job'[task].changed
    BY <1>1 DEF NothingMissed
  <2>1. p = task
    <3>1. task \in Polls
      BY WatchedFacts
    <3>2. p # task => p \in Orphans
      BY <1>1 DEF Orphans, WatchInv, OnePoll
    <3> QED
      BY <3>1, <3>2, BoundFacts DEF TellInv, NoOrphanBeside
  <2>2. CASE r = s /\ Differs(p, s)
    <3>1. found = job[p].changed \cup {s}
      BY <1>2, <2>2
    <3> QED
      BY <1>3, <2>1, <2>2, <3>1
  <2>3. CASE r # s \/ ~Differs(p, s)
    <3>1. last'[r] = last[r]
      BY <1>1, <2>3 DEF Differs, WatchInv, TypeOK
    <3>2. job[p].changed \subseteq found
      BY <1>2
    <3> QED
      BY <1>3, <2>1, <3>1, <3>2 DEF TellInv, NothingMissed
  <2> QED
    BY <2>2, <2>3
<1> QED
  BY <1>4, <1>5, <1>6 DEF TellInv

\* The other steps of a poll: what a sweep found stays with the live poll
\* until it is published.
LEMMA SweepTells ==
  ASSUME WatchInv, TellInv, NEW p \in Polls,
         \/ PollWakes(p) \/ SweepStarts(p) \/ SweepEnds(p)
         \/ \E s \in Slugs : SweepReads(p, s)
  PROVE  TellInv'
<1>1. /\ UNCHANGED <<disk, last, task, open, hinted, seen>>
      /\ \A q \in Polls \ {p} : poll'[q] = poll[q] /\ job'[q] = job[q]
  BY DEF PollWakes, SweepStarts, SweepEnds, SweepReads, fileVars, watchVars, clientVars,
         WatchInv, TypeOK
<1>2. /\ \A s \in job'[p].reading : job'[p].digest =< disk[s]
      /\ p = task => job[p].changed \subseteq job'[p].changed
      /\ p # task \/ poll'[p] # "ended"
         \/ (poll'[p] = poll[p] /\ (job'[p].at = "running" => job[p].at = "running"))
  <2>1. job[p] \in Job /\ \A s \in job[p].reading : job[p].digest =< disk[s]
    BY DEF WatchInv, TypeOK, TellInv, ReadsArePast
  <2>2. CASE PollWakes(p)
    <3>1. job'[p] = [job[p] EXCEPT !.at = "queued"] /\ poll'[p] = "sweeping"
      BY <2>2 DEF PollWakes, WatchInv, TypeOK
    <3> QED
      BY <2>1, <3>1 DEF Job
  <2>3. CASE SweepStarts(p)
    <3>1. job'[p] = [job[p] EXCEPT !.at = "running", !.todo = Watched] /\ poll' = poll
      BY <2>3 DEF SweepStarts, WatchInv, TypeOK
    <3>2. p = task /\ poll[p] # "ended"
      BY <2>3, BoundFacts DEF SweepStarts, WatchInv, OnePoll
    <3> QED
      BY <2>1, <3>1, <3>2 DEF Job
  <2>4. CASE SweepEnds(p)
    <3>1. poll' = poll
      BY <2>4 DEF SweepEnds
    <3>2. CASE poll[p] = "ended"
      <4>1. job'[p] = NoJob
        BY <2>4, <3>2 DEF SweepEnds, WatchInv, TypeOK
      <4>2. p # task
        BY <3>2, BoundFacts DEF WatchInv, OnePoll
      <4> QED
        BY <3>1, <4>1, <4>2 DEF NoJob
    <3>3. CASE poll[p] # "ended"
      <4>1. job'[p] = [job[p] EXCEPT !.at = "done"]
        BY <2>4, <3>3 DEF SweepEnds, WatchInv, TypeOK
      <4> QED
        BY <2>1, <3>1, <3>3, <4>1 DEF Job
    <3> QED
      BY <3>2, <3>3
  <2>5. ASSUME NEW s \in Slugs, SweepReads(p, s)
        PROVE  /\ \A r \in job'[p].reading : job'[p].digest =< disk[r]
               /\ job[p].changed \subseteq job'[p].changed
               /\ poll' = poll /\ job[p].at = "running"
    <3>1. /\ job'[p] = [job[p] EXCEPT !.todo = @ \ {s}, !.reading = {s}, !.digest = disk[s]]
          /\ poll' = poll /\ job[p].at = "running"
      BY <2>5 DEF SweepReads, WatchInv, TypeOK
    <3>2. disk[s] \in Nat
      BY DiskFacts DEF WatchInv
    <3> QED
      BY <2>1, <3>1, <3>2 DEF Job
  <2> QED
    BY <2>2, <2>3, <2>4, <2>5
<1>3. ReadsArePast'
  BY <1>1, <1>2 DEF TellInv, ReadsArePast
<1>4. NoOrphanBeside'
  <2> SUFFICES ASSUME task # NoPoll, NEW q \in Polls, poll'[q] = "ended", job'[q].at = "running"
               PROVE  FALSE
    BY <1>1 DEF NoOrphanBeside, Orphans
  <2>1. q # task
    <3>1. p = task => poll'[p] # "ended"
      BY BoundFacts DEF WatchInv, TypeOK, OnePoll, PollWakes, SweepStarts, SweepEnds, SweepReads
    <3> QED
      BY <1>1, <3>1 DEF WatchInv, OnePoll
  <2>2. poll[q] = "ended" /\ job[q].at = "running"
    <3>1. CASE q # p
      BY <1>1, <3>1
    <3>2. CASE q = p
      BY <2>1, <3>2, PollFacts DEF PollStep
    <3> QED
      BY <3>1, <3>2
  <2> QED
    BY <2>2 DEF TellInv, NoOrphanBeside, Orphans
<1>5. NothingMissed'
  <2> SUFFICES ASSUME NEW c \in Conns, NEW r \in Slugs,
                      r \in open[c], seen[c] # disk[r], c \notin hinted
               PROVE  last[r] # disk[r] \/ r \in job'[task].changed
    BY <1>1 DEF NothingMissed
  <2>1. task \in Polls /\ job[task].changed \subseteq job'[task].changed
    BY <1>1, <1>2, WatchedFacts
  <2> QED
    BY <2>1 DEF TellInv, NothingMissed
<1> QED
  BY <1>3, <1>4, <1>5 DEF TellInv

\* What a sweep found is told to every connection of a changed slug.
LEMMA PublishTells ==
  ASSUME WatchInv, TellInv, NEW p \in Polls, PollPublishes(p)
  PROVE  TellInv'
<1>1. /\ UNCHANGED <<disk, last, task, open, seen>>
      /\ hinted' = hinted \cup {c \in Conns : open[c] \cap job[p].changed # {}}
      /\ poll'[p] = "asleep" /\ job'[p] = NoJob
      /\ \A q \in Polls \ {p} : poll'[q] = poll[q] /\ job'[q] = job[q]
  BY DEF PollPublishes, fileVars, watchVars, WatchInv, TypeOK
<1>2. p = task
  BY DEF PollPublishes, WatchInv, OnePoll
<1>3. ReadsArePast'
  BY <1>1 DEF TellInv, ReadsArePast, NoJob
<1>4. NoOrphanBeside'
  BY <1>1 DEF TellInv, NoOrphanBeside, Orphans
<1>5. NothingMissed'
  BY <1>1, <1>2 DEF TellInv, NothingMissed
<1> QED
  BY <1>3, <1>4, <1>5 DEF TellInv

LEMMA TellStep ==
  ASSUME MayRevert = FALSE, Overlap = FALSE, WatchInv, TellInv, [Next]_vars
  PROVE  TellInv'
<1>1. CASE \E s \in Slugs : Edit(s)
  BY <1>1, EditTells
<1>2. CASE \E c \in Conns, s \in Slugs : Open(c, s) \/ Close(c, s) \/ Refetch(c, s)
  BY <1>2, OpenTells, CloseTells, RefetchTells
<1>3. ASSUME NEW p \in Polls, PollStep(p)
      PROVE  TellInv'
  BY <1>3, SweepTells, PublishTells, CompareTells DEF PollStep
<1>4. CASE UNCHANGED vars
  BY <1>4 DEF vars, fileVars, watchVars, pollVars, clientVars, TellInv, ReadsArePast,
              NoOrphanBeside, Orphans, NothingMissed
<1> QED
  BY <1>1, <1>2, <1>3, <1>4 DEF Next

(***************************************************************************)
(* workflow_events.py:236: a connected client whose document is older than *)
(* the file has been told, or the live poll has it to tell, or will find   *)
(* that the file is not what it last saw.  It takes both hypotheses: bytes *)
(* put back between two polls are not seen to have moved, and a sweep that *)
(* outlived its poll can take the difference from the next one.            *)
(***************************************************************************)
THEOREM NoChangeIsMissed ==
  ASSUME MayRevert = FALSE, Overlap = FALSE
  PROVE  Spec => []NothingMissed
<1>1. Init => TellInv
  BY InitTellInv
<1>2. WatchInv /\ TellInv /\ [Next]_vars => TellInv'
  BY TellStep
<1>3. TellInv => NothingMissed
  BY DEF TellInv
<1> QED
  BY <1>1, <1>2, <1>3, WatchInvariant, PTL DEF Spec
=============================================================================
