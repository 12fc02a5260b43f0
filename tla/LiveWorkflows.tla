--------------------------- MODULE LiveWorkflows ---------------------------
(***************************************************************************)
(* backend/openstategraph/live.py: a directory of packages, compiled on    *)
(* ask and recompiled on change.                                           *)
(*                                                                         *)
(* Threads call use(slug) and hold the compiled graph for the length of a  *)
(* block (a lease).  The disk changes under them at any moment, and a host *)
(* thread calls invalidate() and close().  Everything the code does under  *)
(* _map_lock is one action; the per-slug gate is held over many actions.   *)
(*                                                                         *)
(* A package's bytes are a version number: 0 is "no such directory", and   *)
(* two equal numbers are two equal digests.  An entry is named by the      *)
(* number of the use() that compiled it.  The checkpointer stands for the  *)
(* checkpointer and the memory store, which are resolved and closed alike. *)
(***************************************************************************)
EXTENDS Naturals, FiniteSets

CONSTANTS
  Slugs,       \* package directories under the root
  Threads,     \* threads that call use()
  Mounts,      \* Mounts[s]: the packages the document of s mounts
  FirstDisk,   \* the disks the process may start over
  MaxEdits,    \* bound: edits of the disk
  MaxUses,     \* bound: calls of use()
  MaxCalls,    \* bound: calls of invalidate() and close()
  MayRevert    \* may an edit put earlier bytes back (undo, git checkout)?

ASSUME SizesAreNaturals ==
  /\ MaxEdits \in Nat
  /\ MaxUses \in Nat
  /\ MaxCalls \in Nat
ASSUME ThreadsAreFinite == IsFiniteSet(Threads)
ASSUME MountsAreSlugs == Mounts \in [Slugs -> SUBSET Slugs]
ASSUME MayRevertIsBoolean == MayRevert \in BOOLEAN
ASSUME SomeSlug == Slugs # {}

Versions == 0 .. (MaxEdits + 1)
Entries  == 1 .. MaxUses
NoEntry  == 0
NoSaver  == 0

ASSUME FirstDiskOfVersions == FirstDisk \subseteq [Slugs -> Versions]

VARIABLES
  disk,     \* disk[s]: the version of s on disk
  edits,    \* edits so far
  held,     \* LiveWorkflows._held: slug -> entry, NoEntry when absent
  gates,    \* the slugs whose compile lock is taken
  graph,    \* graph[e]: what was read and stamped for entry e
  leases,   \* _Held.leases
  retired,  \* the entries with _Held.retired set
  closes,   \* how often workflow.close() was called on each entry
  saver,    \* LiveWorkflows._checkpointer
  opened,   \* checkpointers built so far; they are 1 .. opened
  shut,     \* the checkpointers whose connection was closed
  pc,       \* pc[t]: where thread t is inside use()
  frame,    \* frame[t]: the locals of the use() thread t is in
  uses,     \* calls of use() so far
  hostPc, hostClosing, hostFinal, calls

diskVars   == <<disk, edits>>
entryVars  == <<held, leases, retired>>
saverVars  == <<saver, opened, shut>>
threadVars == <<pc, frame, uses>>
hostVars   == <<hostPc, hostClosing, hostFinal, calls>>
vars == <<disk, edits, held, gates, graph, leases, retired, closes, saver, opened, shut,
          pc, frame, uses,
          hostPc, hostClosing, hostFinal, calls>>

(***************************************************************************)
(* The locals of a use(): its number; `held` of _entry, what the first     *)
(* look found; the mounts its compile has still to read; the entry it      *)
(* leases; and, for the properties only, the disk when it was called.      *)
(***************************************************************************)
Frame == [ticket : Entries \cup {NoEntry}, seen : Entries \cup {NoEntry},
          todo : SUBSET Slugs, mine : Entries \cup {NoEntry},
          asked : [Slugs -> Versions]]

NoFrame == [ticket |-> NoEntry, seen |-> NoEntry, todo |-> {}, mine |-> NoEntry,
            asked |-> [s \in Slugs |-> 0]]

Ticket(t) == frame[t].ticket
Mine(t)   == frame[t].mine
Seen(t)   == frame[t].seen
Slug(t)   == graph[Ticket(t)].slug

(***************************************************************************)
(* The stamps.  `covers` are the keys of _Held.stamps other than the root  *)
(* listing; `wanted` and `built` are what the compiler went to read and    *)
(* the version it found there, 0 for a mount that resolved to nothing.     *)
(***************************************************************************)
Graph == [slug : Slugs, covers : SUBSET Slugs, stamps : [Slugs -> Versions],
          listing : SUBSET Slugs, wanted : SUBSET Slugs,
          built : [Slugs -> Versions], saver : Nat]

Blank(s) == [slug |-> s, covers |-> {}, stamps |-> [m \in Slugs |-> 0],
             listing |-> {}, wanted |-> {s}, built |-> [m \in Slugs |-> 0],
             saver |-> NoSaver]

Listing == {s \in Slugs : disk[s] > 0}

\* Mutant: the root listing is left out of the comparison.
CurrentWithoutListing(e) ==
  \A s \in graph[e].covers : graph[e].stamps[s] = disk[s]

Current(e) ==
  /\ graph[e].listing = Listing
  /\ \A s \in graph[e].covers : graph[e].stamps[s] = disk[s]

\* _stamps: every name not stamped yet gets the digest the disk has now.
Stamped(g, names) ==
  [g EXCEPT !.covers = @ \cup names,
            !.stamps = [s \in Slugs |-> IF s \in names \ g.covers THEN disk[s] ELSE @[s]]]

(***************************************************************************)
(* The disk.  A write through the API, a hand edit or a git pull: nothing  *)
(* here takes a lock of LiveWorkflows.                                     *)
(***************************************************************************)
Edit(s) ==
  \E v \in Versions :
    /\ edits < MaxEdits
    /\ v = disk[s] + 1 \/ (MayRevert /\ v < disk[s])
    /\ edits' = edits + 1
    /\ disk' = [disk EXCEPT ![s] = v]
    /\ UNCHANGED <<entryVars, gates, graph, closes,
                   saverVars, threadVars, hostVars>>

-----------------------------------------------------------------------------
(***************************************************************************)
(* use(slug): _entry, the block, _release                                  *)
(***************************************************************************)
Go(t, from, to) == pc[t] = from /\ pc' = [pc EXCEPT ![t] = to]

Use(t, s) ==
  /\ uses < MaxUses
  /\ Go(t, "idle", "ask")
  /\ uses' = uses + 1
  /\ frame' = [frame EXCEPT ![t].ticket = uses + 1, ![t].asked = disk]
  /\ graph' = [graph EXCEPT ![uses + 1] = Blank(s)]
  /\ UNCHANGED <<diskVars, entryVars, gates, closes, saverVars, hostVars>>

Lease(t, e) ==
  /\ leases' = [leases EXCEPT ![e] = @ + 1]
  /\ frame' = [frame EXCEPT ![t].mine = e]

\* The first look, under the map lock: a current entry is leased on the spot.
LookHit(t) ==
  LET e == held[Slug(t)] IN
  /\ Go(t, "ask", "leased")
  /\ e # NoEntry
  /\ Current(e)
  /\ Lease(t, e)
  /\ UNCHANGED <<diskVars, held, retired, gates, graph,
                 closes, saverVars, uses, hostVars>>

LookMiss(t) ==
  LET e == held[Slug(t)] IN
  /\ Go(t, "ask", "wait")
  /\ e # NoEntry => ~Current(e)
  /\ frame' = [frame EXCEPT ![t].seen = e]
  /\ UNCHANGED <<diskVars, entryVars, gates, graph, closes,
                 saverVars, uses, hostVars>>

(***************************************************************************)
(* The gate, then the second look.  Taking the gate and looking are one    *)
(* action: the look depends on nothing the gate protects, and a thread     *)
(* that returns or retries gives the gate back at once.                    *)
(***************************************************************************)
\* Mutant: every caller mints a lock of its own.
OwnGate(t) == TRUE

GateFree(t) == Slug(t) \notin gates

\* Somebody installed another entry while this thread waited: ask again.
GatedRetry(t) ==
  LET e == held[Slug(t)] IN
  /\ Go(t, "wait", "ask")
  /\ GateFree(t)
  /\ e # NoEntry
  /\ e # Seen(t)
  /\ UNCHANGED <<diskVars, entryVars, gates, graph, closes,
                 saverVars, frame, uses, hostVars>>

\* The same entry, and the disk reads as it did at its compile again.
GatedHit(t) ==
  LET e == held[Slug(t)] IN
  /\ Go(t, "wait", "leased")
  /\ GateFree(t)
  /\ e # NoEntry
  /\ e = Seen(t)
  /\ Current(e)
  /\ Lease(t, e)
  /\ UNCHANGED <<diskVars, held, retired, gates, graph,
                 closes, saverVars, uses, hostVars>>

GatedMiss(t) ==
  LET e == held[Slug(t)] IN
  /\ Go(t, "wait", "stamp")
  /\ GateFree(t)
  /\ e # NoEntry => (e = Seen(t) /\ ~Current(e))
  /\ gates' = gates \cup {Slug(t)}
  /\ UNCHANGED <<diskVars, entryVars, graph, closes, saverVars,
                 frame, uses, hostVars>>

\* `stamps = self._stamps(slug, ())`: own package and root listing, before
\* the compile.
StampOwn(t) ==
  /\ Go(t, "stamp", "resolve")
  /\ graph' = [graph EXCEPT ![Ticket(t)] =
                 [Stamped(@, {Slug(t)}) EXCEPT !.listing = Listing]]
  /\ UNCHANGED <<diskVars, entryVars, gates, closes, saverVars,
                 frame, uses, hostVars>>

(***************************************************************************)
(* _resolved_checkpointer: a test, an assignment and a return that reads   *)
(* the attribute again.  No lock is held that another slug's compile takes.*)
(***************************************************************************)
TestSaver(t) ==
  /\ \/ saver = NoSaver /\ Go(t, "resolve", "open")
     \/ saver # NoSaver /\ Go(t, "resolve", "take")
  /\ UNCHANGED <<diskVars, entryVars, gates, graph, closes,
                 saverVars, frame, uses, hostVars>>

OpenSaver(t) ==
  /\ Go(t, "open", "take")
  /\ opened' = opened + 1
  /\ saver' = opened + 1
  /\ UNCHANGED <<diskVars, entryVars, gates, graph, closes,
                 shut, frame, uses, hostVars>>

\* NoSaver here (close() came in between) makes load() build a private one.
TakeSaver(t) ==
  /\ Go(t, "take", "read")
  /\ graph' = [graph EXCEPT ![Ticket(t)].saver = saver]
  /\ UNCHANGED <<diskVars, entryVars, gates, closes, saverVars,
                 frame, uses, hostVars>>

(***************************************************************************)
(* Workflows.load: the package, then every mount the compiler reaches, to  *)
(* any depth.  It raises for a package that is not there, and for one that *)
(* does not compile; the gate is released and the caller gets no lease.    *)
(***************************************************************************)
ReadOwn(t) ==
  LET s == Slug(t) IN
  /\ Go(t, "read", "mounts")
  /\ disk[s] > 0
  /\ graph' = [graph EXCEPT ![Ticket(t)].built[s] = disk[s]]
  /\ frame' = [frame EXCEPT ![t].todo = Mounts[s] \ {s}]
  /\ UNCHANGED <<diskVars, entryVars, gates, closes, saverVars, uses, hostVars>>

ReadMount(t, m) ==
  LET g == graph[Ticket(t)]
      wanted == g.wanted \cup {m} IN
  /\ pc[t] = "mounts"
  /\ m \in frame[t].todo
  /\ graph' = [graph EXCEPT ![Ticket(t)] =
                 [g EXCEPT !.wanted = wanted, !.built[m] = disk[m]]]
  /\ frame' = [frame EXCEPT ![t].todo =
                (@ \cup IF disk[m] > 0 THEN Mounts[m] ELSE {}) \ wanted]
  /\ UNCHANGED <<diskVars, entryVars, gates, closes, saverVars,
                 pc, uses, hostVars>>

\* Mutant: an error of the compile leaves the gate taken.
LoadFailsGated(t) ==
  /\ Go(t, "read", "idle") \/ Go(t, "mounts", "idle")
  /\ frame' = [frame EXCEPT ![t] = NoFrame]
  /\ UNCHANGED <<diskVars, entryVars, gates, graph, closes, saverVars, uses, hostVars>>

LoadFails(t) ==
  /\ Go(t, "read", "idle") \/ Go(t, "mounts", "idle")
  /\ gates' = gates \ {Slug(t)}
  /\ frame' = [frame EXCEPT ![t] = NoFrame]
  /\ UNCHANGED <<diskVars, entryVars, graph, closes, saverVars, uses, hostVars>>

\* `self._stamps(slug, _mounted_slugs(workflow), taken=stamps)`: the mounts
\* are stamped here, after the compile read them.
StampMounts(t) ==
  LET g == graph[Ticket(t)] IN
  /\ Go(t, "mounts", "install")
  /\ frame[t].todo = {}
  /\ graph' = [graph EXCEPT ![Ticket(t)] =
                 Stamped(g, {m \in g.wanted : g.built[m] > 0})]
  /\ UNCHANGED <<diskVars, entryVars, gates, closes, saverVars,
                 frame, uses, hostVars>>

\* Mutants: a superseded entry is left to its leases even when it has none;
\* and an entry is closed when its last lease ends, retired or not, or as
\* soon as one lease of a retired entry ends.
NotSupersededFree(old) == FALSE
EveryLastOut(e) == leases[e] = 1
AnyOut(e) == e \in retired

SupersededFree(old) == old # NoEntry /\ leases[old] = 0
LastOut(e) == e \in retired /\ leases[e] = 1

\* Under the map lock.  A superseded entry without leases is closed by this
\* thread, outside the map lock but still inside the gate.
Install(t) ==
  LET s == Slug(t)
      old == held[s]
      closing == SupersededFree(old) IN
  /\ Go(t, "install", IF closing THEN "supersede" ELSE "leased")
  /\ held' = [held EXCEPT ![s] = Ticket(t)]
  /\ retired' = retired \cup ({old} \ {NoEntry})
  /\ leases' = [leases EXCEPT ![Ticket(t)] = 1]
  /\ frame' = [frame EXCEPT ![t].mine = Ticket(t), ![t].seen = old]
  /\ gates' = IF closing THEN gates ELSE gates \ {s}
  /\ UNCHANGED <<diskVars, graph, closes, saverVars, uses, hostVars>>

CloseSuperseded(t) ==
  /\ Go(t, "supersede", "leased")
  /\ closes' = [closes EXCEPT ![Seen(t)] = @ + 1]
  /\ gates' = gates \ {Slug(t)}
  /\ UNCHANGED <<diskVars, entryVars, graph, saverVars, frame, uses, hostVars>>

Release(t) ==
  LET e == Mine(t)
      closing == LastOut(e) IN
  /\ Go(t, "leased", IF closing THEN "drain" ELSE "idle")
  /\ frame' = IF closing THEN frame ELSE [frame EXCEPT ![t] = NoFrame]
  /\ leases' = [leases EXCEPT ![e] = @ - 1]
  /\ UNCHANGED <<diskVars, held, retired, gates, graph,
                 closes, saverVars, uses, hostVars>>

CloseDrained(t) ==
  /\ Go(t, "drain", "idle")
  /\ frame' = [frame EXCEPT ![t] = NoFrame]
  /\ closes' = [closes EXCEPT ![Mine(t)] = @ + 1]
  /\ UNCHANGED <<diskVars, entryVars, gates, graph, saverVars, uses, hostVars>>

-----------------------------------------------------------------------------
(***************************************************************************)
(* invalidate(slug), invalidate() and close(), called by one host thread.  *)
(***************************************************************************)
HeldOf(S) == {held[s] : s \in S} \ {NoEntry}

\* Mutant: invalidate() closes what it retires, leased or not.
AllReleasable(S) == HeldOf(S)

Releasable(S) == {e \in HeldOf(S) : leases[e] = 0}

\* Entries still to close, then the checkpointer if this is close().
HostNext(closing, final) ==
  IF closing # {} THEN "closing" ELSE IF final THEN "shutting" ELSE "idle"

Invalidate(S, final) ==
  /\ hostPc = "idle"
  /\ calls < MaxCalls
  /\ calls' = calls + 1
  /\ held' = [s \in Slugs |-> IF s \in S THEN NoEntry ELSE held[s]]
  /\ retired' = retired \cup HeldOf(S)
  /\ hostClosing' = Releasable(S)
  /\ hostFinal' = final
  /\ hostPc' = HostNext(hostClosing', final)
  /\ UNCHANGED <<diskVars, leases, gates, graph, closes, saverVars, threadVars>>

InvalidateOne == \E s \in Slugs : Invalidate({s}, FALSE)
InvalidateAll == Invalidate(Slugs, FALSE)
Close == Invalidate(Slugs, TRUE)

HostCloses(e) ==
  /\ hostPc = "closing"
  /\ e \in hostClosing
  /\ closes' = [closes EXCEPT ![e] = @ + 1]
  /\ hostClosing' = hostClosing \ {e}
  /\ hostPc' = HostNext(hostClosing', hostFinal)
  /\ UNCHANGED <<diskVars, entryVars, gates, graph, saverVars,
                 threadVars, hostFinal, calls>>

\* close(): the connection first, the attribute after.
ShutSaver ==
  /\ hostPc = "shutting"
  /\ shut' = shut \cup ({saver} \ {NoSaver})
  /\ hostPc' = "forgetting"
  /\ UNCHANGED <<diskVars, entryVars, gates, graph, closes, saver,
                 opened, threadVars, hostClosing, hostFinal, calls>>

ForgetSaver ==
  /\ hostPc = "forgetting"
  /\ saver' = NoSaver
  /\ hostPc' = "idle"
  /\ UNCHANGED <<diskVars, entryVars, gates, graph, closes, opened,
                 shut, threadVars, hostClosing, hostFinal, calls>>

-----------------------------------------------------------------------------
Init ==
  /\ disk \in FirstDisk
  /\ edits = 0
  /\ held = [s \in Slugs |-> NoEntry]
  /\ gates = {}
  /\ graph = [e \in Entries |-> Blank(CHOOSE s \in Slugs : TRUE)]
  /\ leases = [e \in Entries |-> 0]
  /\ retired = {}
  /\ closes = [e \in Entries |-> 0]
  /\ saver = NoSaver
  /\ opened = 0
  /\ shut = {}
  /\ pc = [t \in Threads |-> "idle"]
  /\ frame = [t \in Threads |-> NoFrame]
  /\ uses = 0
  /\ hostPc = "idle"
  /\ hostClosing = {}
  /\ hostFinal = FALSE
  /\ calls = 0

\* What a thread does once it is inside use(), up to its lease.
Entering(t) ==
  \/ LookHit(t) \/ LookMiss(t)
  \/ GatedRetry(t) \/ GatedHit(t) \/ GatedMiss(t)
  \/ StampOwn(t) \/ TestSaver(t) \/ OpenSaver(t) \/ TakeSaver(t)
  \/ ReadOwn(t) \/ (\E m \in Slugs : ReadMount(t, m)) \/ LoadFails(t)
  \/ StampMounts(t) \/ Install(t) \/ CloseSuperseded(t)

Leaving(t) == Release(t) \/ CloseDrained(t)

HostCall == InvalidateOne \/ InvalidateAll \/ Close

HostStep ==
  \/ \E e \in Entries : HostCloses(e)
  \/ ShutSaver \/ ForgetSaver

Next ==
  \/ \E s \in Slugs : Edit(s)
  \/ \E t \in Threads, s \in Slugs : Use(t, s)
  \/ \E t \in Threads : Entering(t) \/ Leaving(t)
  \/ HostCall \/ HostStep

Spec == Init /\ [][Next]_vars

(***************************************************************************)
(* A thread that runs is scheduled, and leaves its `with` block: a run     *)
(* ends.  Nobody is obliged to call use(), to edit or to invalidate.       *)
(***************************************************************************)
Fairness ==
  /\ \A t \in Threads : WF_vars(Entering(t)) /\ WF_vars(Leaving(t))
  /\ WF_vars(HostStep)

FairSpec == Spec /\ Fairness

-----------------------------------------------------------------------------
Labels == {"idle", "ask", "wait", "stamp", "resolve", "open", "take",
           "read", "mounts", "install", "supersede", "leased", "drain"}

\* The type invariant of every variable.
TypeOK ==
  /\ disk \in [Slugs -> Versions]
  /\ edits \in Nat
  /\ held \in [Slugs -> Entries \cup {NoEntry}]
  /\ gates \subseteq Slugs
  /\ graph \in [Entries -> Graph]
  /\ leases \in [Entries -> Nat]
  /\ retired \subseteq Entries
  /\ closes \in [Entries -> Nat]
  /\ saver \in Nat
  /\ opened \in Nat
  /\ shut \subseteq Nat
  /\ pc \in [Threads -> Labels]
  /\ frame \in [Threads -> Frame]
  /\ uses \in 0 .. MaxUses
  /\ hostPc \in {"idle", "closing", "shutting", "forgetting"}
  /\ hostClosing \subseteq Entries
  /\ hostFinal \in BOOLEAN
  /\ calls \in Nat

(***************************************************************************)
(* A run in flight is never disturbed (live.py:117): while a thread is in  *)
(* its block, the workflow it was handed has not been closed, however many *)
(* edits, recompiles and invalidations landed meanwhile.                   *)
(***************************************************************************)
LeaseHolds == \A t \in Threads : pc[t] = "leased" => closes[Mine(t)] = 0

(***************************************************************************)
(* An entry may leave the map by invalidate(), by close() or by being      *)
(* superseded, and its last lease may end before, during or after that:    *)
(* exactly one of these closes it, never two.                              *)
(***************************************************************************)
ClosedOnce == \A e \in Entries : closes[e] =< 1

\* The threads and the host about to call close() on e, outside the map lock.
DueToClose(e) ==
  \/ e \in hostClosing
  \/ \E t \in Threads : pc[t] = "supersede" /\ Seen(t) = e
  \/ \E t \in Threads : pc[t] = "drain" /\ Mine(t) = e

(***************************************************************************)
(* No handle leaks: an entry nobody leases that was taken out of the map   *)
(* has been closed, or somebody is on the way to close it.                 *)
(***************************************************************************)
NothingLeaks ==
  \A e \in retired : leases[e] = 0 => (closes[e] = 1 \/ DueToClose(e))

Compiling == {"stamp", "resolve", "open", "take", "read", "mounts", "install"}

(***************************************************************************)
(* Two requests arriving during an invalidation do not both compile        *)
(* (live.py:133): per slug one thread at a time is behind the gate.        *)
(***************************************************************************)
OneCompile ==
  \A t, u \in Threads :
    pc[t] \in Compiling /\ pc[u] \in Compiling /\ Slug(t) = Slug(u) => t = u

(***************************************************************************)
(* The promise of the module: every edit to the package finished before    *)
(* use() was called is in the graph handed out, and so is every mount that *)
(* existed by then, even one that resolved to nothing at an earlier        *)
(* compile (live.py:70).  Needs edits that never put earlier bytes back.   *)
(***************************************************************************)
FreshLease ==
  \A t \in Threads :
    pc[t] = "leased" =>
      LET g == graph[Mine(t)] IN
      /\ g.built[g.slug] >= frame[t].asked[g.slug]
      /\ \A m \in g.wanted : frame[t].asked[m] > 0 => g.built[m] > 0

(***************************************************************************)
(* The same promise for the packages a graph mounts: "a save that lands    *)
(* while a compile is running is recorded as not yet included" (:139).     *)
(***************************************************************************)
FreshMounts ==
  \A t \in Threads :
    pc[t] = "leased" =>
      \A m \in graph[Mine(t)].wanted : graph[Mine(t)].built[m] >= frame[t].asked[m]

(***************************************************************************)
(* "One checkpointer and one memory Store for every compile" (:272): the   *)
(* graphs in use never hold two different ones.                            *)
(***************************************************************************)
OneCheckpointer ==
  \A t, u \in Threads :
    pc[t] = "leased" /\ pc[u] = "leased" =>
      graph[Mine(t)].saver = graph[Mine(u)].saver

(***************************************************************************)
(* "close() on a holder is not a licence to break a run that is still      *)
(* going" (:350): a leased graph can still reach its checkpointer.         *)
(***************************************************************************)
LeaseKeepsCheckpointer ==
  \A t \in Threads : pc[t] = "leased" => graph[Mine(t)].saver \notin shut

(***************************************************************************)
(* No use() hangs: neither the retry loop of _entry nor the gate of a      *)
(* thread that fails keeps a caller from its lease or its error.           *)
(***************************************************************************)
EveryUseAnswered ==
  \A t \in Threads : pc[t] = "ask" ~> pc[t] \in {"leased", "idle"}

-----------------------------------------------------------------------------
(***************************************************************************)
(* LiveWorkflows implements WorkflowHolder.                                *)
(***************************************************************************)
Using(t) == pc[t] \in {"leased", "supersede"}
Users(e) == {t \in Threads : Using(t) /\ Mine(t) = e}

Status(e) ==
  IF closes[e] > 0 THEN "closed"
  ELSE IF e \in retired THEN "retired"
  ELSE IF \E s \in Slugs : held[s] = e THEN "held" ELSE "none"

Holder == INSTANCE WorkflowHolder WITH
  current <- held,
  status  <- [e \in Entries |-> Status(e)],
  users   <- [e \in Entries |-> Users(e)]

\* What the code promises its callers: leases, retirement and closing are
\* those of WorkflowHolder, whatever stamps, gates and compiles do.
HolderSpec == Holder!Spec
-----------------------------------------------------------------------------
(***************************************************************************)
(* The inductive invariant behind LeaseHolds, ClosedOnce and NothingLeaks. *)
(***************************************************************************)
PreInstall == {"ask", "wait"} \cup Compiling
Installed(e) == e \in retired \/ \E s \in Slugs : held[s] = e

\* Thread t is about to close e.
Claims(t, e) ==
  \/ pc[t] = "supersede" /\ Seen(t) = e
  \/ pc[t] = "drain" /\ Mine(t) = e

\* The counter the code keeps is the number of runs inside.
LeasesCounted == \A e \in Entries : leases[e] = Cardinality(Users(e))

HeldIsLive ==
  \A s \in Slugs :
    held[s] # NoEntry => held[s] \notin retired /\ graph[held[s]].slug = s

\* The entry a compile will install is nobody else's.
TicketsAreFresh ==
  /\ \A t \in Threads :
       pc[t] \in PreInstall => Ticket(t) \in 1 .. uses /\ ~Installed(Ticket(t))
  /\ \A t, u \in Threads :
       pc[t] \in PreInstall /\ pc[u] \in PreInstall /\ Ticket(t) = Ticket(u) => t = u

LeasedIsInstalled ==
  \A t \in Threads :
    pc[t] # "idle" => Ticket(t) \in 1 .. uses
                      /\ (Using(t) => Mine(t) \in Entries /\ Installed(Mine(t)))

\* Installed entries were compiled by a use() that was called.
InstalledIsOld ==
  /\ retired \subseteq 1 .. uses
  /\ \A s \in Slugs : held[s] \in {NoEntry} \cup 1 .. uses

\* Who is about to close e is alone, and e is retired, unleased and open.
ClaimsAreExclusive ==
  /\ \A e \in hostClosing : e \in retired /\ leases[e] = 0 /\ closes[e] = 0
  /\ \A t \in Threads, e \in Entries \cup {NoEntry} : Claims(t, e) =>
       e \in retired /\ leases[e] = 0 /\ closes[e] = 0 /\ e \notin hostClosing
  /\ \A t, u \in Threads, e \in Entries : Claims(t, e) /\ Claims(u, e) => t = u

ClosedIsUnleased ==
  \A e \in Entries :
    closes[e] > 0 => closes[e] = 1 /\ e \in retired /\ leases[e] = 0

\* The host leaves invalidate() only when it closed what it took out.
HostIsDone == hostPc # "closing" => hostClosing = {}

IInv ==
  /\ TypeOK
  /\ HostIsDone
  /\ LeasesCounted
  /\ HeldIsLive
  /\ TicketsAreFresh
  /\ LeasedIsInstalled
  /\ InstalledIsOld
  /\ ClaimsAreExclusive
  /\ ClosedIsUnleased
  /\ NothingLeaks

=============================================================================
