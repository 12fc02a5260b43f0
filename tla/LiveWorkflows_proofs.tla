------------------------ MODULE LiveWorkflows_proofs ------------------------
(***************************************************************************)
(* Proofs about LiveWorkflows for every set of slugs and threads, every    *)
(* mount relation and every bound, in four parts, each with its inductive  *)
(* invariant:                                                              *)
(*   - IInv: LeaseHolds, ClosedOnce and NothingLeaks;                      *)
(*   - GateInv: OneCompile;                                                *)
(*   - IInv again: every step is a step of WorkflowHolder, or a stutter;   *)
(*   - FreshInv: FreshLease, when no edit puts earlier bytes back.         *)
(***************************************************************************)
EXTENDS LiveWorkflows, FiniteSetTheorems, TLAPS

\* Entries are positive naturals; NoEntry is none of them.
LEMMA EntryFacts ==
  /\ Entries \subseteq Nat
  /\ NoEntry \in Nat
  /\ NoEntry \notin Entries
BY SizesAreNaturals DEF Entries, NoEntry

\* The runs inside an entry are finitely many.
LEMMA UsersFinite == \A e : IsFiniteSet(Users(e)) /\ Cardinality(Users(e)) \in Nat
<1> TAKE e
<1>1. Users(e) \subseteq Threads
  BY DEF Users
<1> QED
  BY <1>1, ThreadsAreFinite, FS_Subset, FS_CardinalityType

\* A run inside an entry shows in its counter.
LEMMA UserIsCounted ==
  ASSUME LeasesCounted, NEW t \in Threads, NEW e \in Entries, t \in Users(e)
  PROVE  leases[e] \in Nat /\ leases[e] # 0
<1>1. Users(e) # {}
  OBVIOUS
<1> QED
  BY <1>1, UsersFinite, FS_EmptySet DEF LeasesCounted

\* The record a use() starts with is a graph record.
LEMMA BlankIsGraph == \A s \in Slugs : Blank(s) \in Graph
BY SizesAreNaturals DEF Blank, Graph, Versions, NoSaver

\* Stamping keeps a graph a graph and leaves its slug alone.
LEMMA StampedIsGraph ==
  ASSUME NEW g \in Graph, NEW names \in SUBSET Slugs, disk \in [Slugs -> Versions]
  PROVE  /\ Stamped(g, names) \in Graph
         /\ Stamped(g, names).slug = g.slug
BY DEF Stamped, Graph

\* The locals of a thread outside use() are well typed.
LEMMA NoFrameIsFrame == NoFrame \in Frame
BY SizesAreNaturals DEF NoFrame, Frame, Versions

\* Writing one local of a use() keeps its locals well typed.
LEMMA FrameUpdates ==
  ASSUME NEW f \in Frame, NEW e \in Entries \cup {NoEntry}, NEW d \in [Slugs -> Versions]
  PROVE  /\ [f EXCEPT !.mine = e] \in Frame
         /\ [f EXCEPT !.seen = e] \in Frame
         /\ [f EXCEPT !.ticket = e, !.asked = d] \in Frame
BY DEF Frame

\* The initial states satisfy the type invariant.
LEMMA InitTypeOK == Init => TypeOK
<1> SUFFICES ASSUME Init PROVE TypeOK
  OBVIOUS
<1>1. (CHOOSE s \in Slugs : TRUE) \in Slugs
  BY SomeSlug
<1>2. graph \in [Entries -> Graph]
  BY <1>1, BlankIsGraph DEF Init
<1>3. frame \in [Threads -> Frame]
  BY NoFrameIsFrame DEF Init
<1>4. pc \in [Threads -> Labels]
  BY DEF Init, Labels
<1>5. disk \in [Slugs -> Versions]
  BY FirstDiskOfVersions DEF Init
<1>6. /\ held \in [Slugs -> Entries \cup {NoEntry}]
      /\ leases \in [Entries -> Nat]
      /\ closes \in [Entries -> Nat]
      /\ uses \in 0 .. MaxUses
      /\ saver \in Nat
  BY SizesAreNaturals DEF Init, NoSaver
<1> QED
  BY <1>2, <1>3, <1>4, <1>5, <1>6 DEF Init, TypeOK

-----------------------------------------------------------------------------
(***************************************************************************)
(* Type correctness of each step.                                          *)
(***************************************************************************)
LEMMA FrameFacts ==
  ASSUME TypeOK, LeasedIsInstalled, NEW t \in Threads, pc[t] # "idle"
  PROVE  /\ Ticket(t) \in Entries
         /\ graph[Ticket(t)] \in Graph
         /\ Slug(t) \in Slugs
         /\ frame[t] \in Frame
<1>1. Ticket(t) \in 1 .. uses
  BY DEF LeasedIsInstalled
<1>2. Ticket(t) \in Entries
  BY <1>1, SizesAreNaturals DEF TypeOK, Entries
<1> QED
  BY <1>2 DEF TypeOK, Slug, Graph

\* Writing the graph of one's own ticket keeps every graph a graph.
LEMMA TypeReads ==
  ASSUME IInv, NEW t \in Threads,
         StampOwn(t) \/ TakeSaver(t) \/ ReadOwn(t) \/ (\E m \in Slugs : ReadMount(t, m))
           \/ StampMounts(t)
  PROVE  TypeOK' /\ \A e \in Entries : graph'[e].slug = graph[e].slug
<1> USE DEF IInv
<1>0. pc[t] # "idle"
  BY DEF StampOwn, TakeSaver, ReadOwn, ReadMount, StampMounts, Go
<1>1. /\ Ticket(t) \in Entries
      /\ graph[Ticket(t)] \in Graph
      /\ Slug(t) \in Slugs
      /\ frame[t] \in Frame
  BY <1>0, FrameFacts
<1>2. CASE StampOwn(t)
  <2> DEFINE g == [Stamped(graph[Ticket(t)], {Slug(t)}) EXCEPT !.listing = Listing]
  <2>1. g \in Graph /\ g.slug = graph[Ticket(t)].slug
    <3> DEFINE st == Stamped(graph[Ticket(t)], {Slug(t)})
    <3>1. st \in Graph /\ st.slug = graph[Ticket(t)].slug
      BY <1>1, StampedIsGraph DEF TypeOK
    <3>2. Listing \in SUBSET Slugs
      BY DEF Listing
    <3> HIDE DEF st
    <3>3. [st EXCEPT !.listing = Listing] \in Graph
      BY <3>1, <3>2 DEF Graph
    <3>4. [st EXCEPT !.listing = Listing].slug = st.slug
      BY <3>1 DEF Graph
    <3> QED
      BY <3>1, <3>3, <3>4 DEF st
  <2>2. graph' = [graph EXCEPT ![Ticket(t)] = g]
    BY <1>2 DEF StampOwn
  <2> HIDE DEF g
  <2>3. pc' \in [Threads -> Labels]
    BY <1>2 DEF StampOwn, Go, TypeOK, Labels
  <2> QED
    BY <1>1, <1>2, <2>1, <2>2, <2>3
    DEF StampOwn, TypeOK, entryVars, saverVars, hostVars, diskVars
<1>3. CASE TakeSaver(t)
  <2> DEFINE g == [graph[Ticket(t)] EXCEPT !.saver = saver]
  <2>1. g \in Graph /\ g.slug = graph[Ticket(t)].slug
    BY <1>1 DEF TypeOK, Graph
  <2>2. graph' = [graph EXCEPT ![Ticket(t)] = g]
    BY <1>3 DEF TakeSaver
  <2> HIDE DEF g
  <2>3. pc' \in [Threads -> Labels]
    BY <1>3 DEF TakeSaver, Go, TypeOK, Labels
  <2> QED
    BY <1>1, <1>3, <2>1, <2>2, <2>3
    DEF TakeSaver, TypeOK, entryVars, saverVars, hostVars, diskVars
<1>4. CASE ReadOwn(t)
  <2> DEFINE s == Slug(t)
             g == [graph[Ticket(t)] EXCEPT !.built[s] = disk[s]]
  <2>1. g \in Graph /\ g.slug = graph[Ticket(t)].slug
    BY <1>1 DEF TypeOK, Graph
  <2>2. graph' = [graph EXCEPT ![Ticket(t)] = g]
    BY <1>4 DEF ReadOwn
  <2>3. frame' \in [Threads -> Frame]
    BY <1>1, <1>4, MountsAreSlugs DEF ReadOwn, TypeOK, Frame
  <2> HIDE DEF g
  <2>4. pc' \in [Threads -> Labels]
    BY <1>4 DEF ReadOwn, Go, TypeOK, Labels
  <2> QED
    BY <1>1, <1>4, <2>1, <2>2, <2>3, <2>4
    DEF ReadOwn, TypeOK, entryVars, saverVars, hostVars, diskVars
<1>5. CASE \E m \in Slugs : ReadMount(t, m)
  <2> PICK m \in Slugs : ReadMount(t, m)
    BY <1>5
  <2> DEFINE w == graph[Ticket(t)].wanted \cup {m}
             g == [graph[Ticket(t)] EXCEPT !.wanted = w, !.built[m] = disk[m]]
  <2>1. g \in Graph /\ g.slug = graph[Ticket(t)].slug
    BY <1>1 DEF TypeOK, Graph
  <2>2. graph' = [graph EXCEPT ![Ticket(t)] = g]
    BY DEF ReadMount
  <2>3. frame' \in [Threads -> Frame]
    <3>1. frame[t].todo \cup (IF disk[m] > 0 THEN Mounts[m] ELSE {}) \subseteq Slugs
      BY <1>1, MountsAreSlugs DEF Frame
    <3> QED
      BY <1>1, <3>1 DEF ReadMount, TypeOK, Frame
  <2> HIDE DEF g
  <2> QED
    BY <1>1, <2>1, <2>2, <2>3
    DEF ReadMount, TypeOK, entryVars, saverVars, hostVars, diskVars
<1>6. CASE StampMounts(t)
  <2> DEFINE names == {m \in graph[Ticket(t)].wanted : graph[Ticket(t)].built[m] > 0}
             g == Stamped(graph[Ticket(t)], names)
  <2>1. g \in Graph /\ g.slug = graph[Ticket(t)].slug
    <3>1. names \in SUBSET Slugs
      BY <1>1 DEF Graph
    <3> QED
      BY <1>1, <3>1, StampedIsGraph DEF TypeOK
  <2>2. graph' = [graph EXCEPT ![Ticket(t)] = g]
    BY <1>6 DEF StampMounts
  <2> HIDE DEF g
  <2>3. pc' \in [Threads -> Labels]
    BY <1>6 DEF StampMounts, Go, TypeOK, Labels
  <2> QED
    BY <1>1, <1>6, <2>1, <2>2, <2>3
    DEF StampMounts, TypeOK, entryVars, saverVars, hostVars, diskVars
<1> QED
  BY <1>2, <1>3, <1>4, <1>5, <1>6

\* TypeOK across the steps of a thread that touch the map, a lease or a gate.
LEMMA TypeThreads ==
  ASSUME IInv, NEW t \in Threads,
         LookHit(t) \/ LookMiss(t) \/ GatedRetry(t) \/ GatedHit(t) \/ GatedMiss(t)
           \/ TestSaver(t) \/ OpenSaver(t) \/ LoadFails(t) \/ Install(t)
           \/ CloseSuperseded(t) \/ Release(t) \/ CloseDrained(t)
  PROVE  TypeOK'
<1> USE DEF IInv
<1>0. pc[t] # "idle"
  BY DEF LookHit, LookMiss, GatedRetry, GatedHit, GatedMiss, TestSaver, OpenSaver,
         LoadFails, Install, CloseSuperseded, Release, CloseDrained, Go
<1>1. /\ Ticket(t) \in Entries
      /\ graph[Ticket(t)] \in Graph
      /\ Slug(t) \in Slugs
      /\ frame[t] \in Frame
      /\ held[Slug(t)] \in Entries \cup {NoEntry}
  BY <1>0, FrameFacts DEF TypeOK
<1> USE DEF entryVars, saverVars, hostVars, diskVars, threadVars
<1>2. CASE LookHit(t) \/ GatedHit(t)
  <2>1. pc' \in [Threads -> Labels]
    BY <1>2 DEF LookHit, GatedHit, Go, TypeOK, Labels
  <2> DEFINE e == held[Slug(t)]
  <2>2. leases' \in [Entries -> Nat]
    BY <1>1, <1>2 DEF LookHit, GatedHit, Lease, TypeOK
  <2>3. frame' = [frame EXCEPT ![t] = [frame[t] EXCEPT !.mine = e]]
    BY <1>2 DEF LookHit, GatedHit, Lease
  <2>4. frame' \in [Threads -> Frame]
    BY <1>1, <2>3, FrameUpdates DEF TypeOK
  <2> QED
    BY <1>2, <2>1, <2>2, <2>4 DEF LookHit, GatedHit, TypeOK
<1>3. CASE LookMiss(t) \/ GatedRetry(t)
  <2>1. pc' \in [Threads -> Labels]
    BY <1>3 DEF LookMiss, GatedRetry, Go, TypeOK, Labels
  <2>2. \/ frame' = frame
        \/ frame' = [frame EXCEPT ![t] = [frame[t] EXCEPT !.seen = held[Slug(t)]]]
    BY <1>3 DEF LookMiss, GatedRetry
  <2>3. frame' \in [Threads -> Frame]
    <3>1. [frame[t] EXCEPT !.seen = held[Slug(t)]] \in Frame
      BY <1>1, FrameUpdates DEF TypeOK
    <3> QED
      BY <2>2, <3>1 DEF TypeOK
  <2> QED
    BY <1>3, <2>1, <2>3 DEF LookMiss, GatedRetry, TypeOK
<1>4. CASE GatedMiss(t) \/ TestSaver(t)
  <2>1. pc' \in [Threads -> Labels]
    BY <1>4 DEF GatedMiss, TestSaver, Go, TypeOK, Labels
  <2> QED
    BY <1>1, <1>4, <2>1 DEF GatedMiss, TestSaver, TypeOK
<1>5. CASE OpenSaver(t)
  <2>1. pc' \in [Threads -> Labels]
    BY <1>5 DEF OpenSaver, Go, TypeOK, Labels
  <2> QED
    BY <1>5, <2>1 DEF OpenSaver, TypeOK
<1>6. CASE LoadFails(t)
  <2>1. pc' \in [Threads -> Labels]
    BY <1>6 DEF LoadFails, Go, TypeOK, Labels
  <2> QED
    BY <1>6, <2>1, NoFrameIsFrame DEF LoadFails, TypeOK
<1>7. CASE Install(t)
  <2>1. pc' \in [Threads -> Labels]
    BY <1>7 DEF Install, Go, TypeOK, Labels
  <2>2. frame' \in [Threads -> Frame]
    BY <1>1, <1>7 DEF Install, TypeOK, Frame
  <2>3. leases' \in [Entries -> Nat]
    BY <1>1, <1>7 DEF Install, TypeOK
  <2>4. /\ held' \in [Slugs -> Entries \cup {NoEntry}]
        /\ retired' \subseteq Entries
        /\ gates' \subseteq Slugs
    BY <1>1, <1>7 DEF Install, TypeOK
  <2> QED
    BY <1>7, <2>1, <2>2, <2>3, <2>4 DEF Install, TypeOK
<1>8. CASE CloseSuperseded(t) \/ CloseDrained(t)
  <2>1. pc' \in [Threads -> Labels]
    BY <1>8 DEF CloseSuperseded, CloseDrained, Go, TypeOK, Labels
  <2>2. frame' \in [Threads -> Frame]
    BY <1>8, NoFrameIsFrame DEF CloseSuperseded, CloseDrained, TypeOK
  <2>3. closes' \in [Entries -> Nat]
    BY <1>1, <1>8 DEF CloseSuperseded, CloseDrained, TypeOK
  <2> QED
    BY <1>8, <2>1, <2>2, <2>3 DEF CloseSuperseded, CloseDrained, TypeOK
<1>9. CASE Release(t)
  <2>1. pc' \in [Threads -> Labels]
    BY <1>9 DEF Release, Go, TypeOK, Labels
  <2>2. frame' \in [Threads -> Frame]
    BY <1>9, NoFrameIsFrame DEF Release, TypeOK
  <2>3. Mine(t) \in Entries /\ t \in Users(Mine(t))
    BY <1>0, <1>9 DEF Release, Go, LeasedIsInstalled, Using, Users
  <2>4. leases[Mine(t)] \in Nat /\ leases[Mine(t)] # 0
    BY <2>3, UserIsCounted
  <2>5. leases' \in [Entries -> Nat]
    <3>1. leases' = [leases EXCEPT ![Mine(t)] = leases[Mine(t)] - 1]
      BY <1>9 DEF Release
    <3>2. leases[Mine(t)] - 1 \in Nat
      BY <2>4
    <3> QED
      BY <3>1, <3>2 DEF TypeOK
  <2> QED
    BY <1>9, <2>1, <2>2, <2>5 DEF Release, TypeOK
<1> QED
  BY <1>2, <1>3, <1>4, <1>5, <1>6, <1>7, <1>8, <1>9

\* TypeOK across the disk, the checkpointer and the host.
LEMMA TypeOthers ==
  ASSUME IInv,
         (\E s \in Slugs : Edit(s)) \/ (\E t \in Threads, s \in Slugs : Use(t, s))
           \/ HostCall \/ HostStep
  PROVE  TypeOK'
<1> USE DEF IInv, entryVars, saverVars, hostVars, diskVars, threadVars
<1>1. CASE \E s \in Slugs : Edit(s)
  BY <1>1, SizesAreNaturals DEF Edit, TypeOK, Versions
<1>2. ASSUME NEW t \in Threads, NEW s \in Slugs, Use(t, s)
      PROVE  TypeOK'
  <2>1. uses + 1 \in Entries /\ uses' \in 0 .. MaxUses
    BY <1>2, SizesAreNaturals DEF Use, TypeOK, Entries
  <2>2. pc' \in [Threads -> Labels]
    BY <1>2 DEF Use, Go, TypeOK, Labels
  <2>3. frame' \in [Threads -> Frame]
    <3>1. frame' = [frame EXCEPT ![t] = [frame[t] EXCEPT !.ticket = uses + 1, !.asked = disk]]
      BY <1>2 DEF Use, TypeOK
    <3> QED
      BY <2>1, <3>1, FrameUpdates DEF TypeOK
  <2>4. graph' \in [Entries -> Graph]
    BY <1>2, BlankIsGraph DEF Use, TypeOK
  <2> QED
    BY <1>2, <2>1, <2>2, <2>3, <2>4 DEF Use, TypeOK
<1>3. ASSUME NEW S \in SUBSET Slugs, NEW final \in BOOLEAN, Invalidate(S, final)
      PROVE  TypeOK'
  <2>1. HeldOf(S) \subseteq Entries
    BY DEF HeldOf, TypeOK
  <2> QED
    BY <1>3, <2>1 DEF Invalidate, HostNext, Releasable, TypeOK
<1>4. CASE HostCall
  BY <1>3, <1>4 DEF HostCall, InvalidateOne, InvalidateAll, Close
<1>5. ASSUME NEW e \in Entries, HostCloses(e)
      PROVE  TypeOK'
  BY <1>5 DEF HostCloses, HostNext, TypeOK
<1>6. CASE ShutSaver
  BY <1>6 DEF ShutSaver, TypeOK
<1>7. CASE ForgetSaver
  BY <1>7 DEF ForgetSaver, TypeOK, NoSaver
<1> QED
  BY <1>1, <1>2, <1>4, <1>5, <1>6, <1>7 DEF HostStep

-----------------------------------------------------------------------------
(***************************************************************************)
(* Who holds, leases and closes what.                                      *)
(***************************************************************************)
Ownership ==
  /\ LeasesCounted
  /\ HeldIsLive
  /\ TicketsAreFresh
  /\ LeasedIsInstalled
  /\ InstalledIsOld
  /\ ClaimsAreExclusive
  /\ ClosedIsUnleased
  /\ NothingLeaks

\* A step that only moves threads about before their lease.
Quiet ==
  /\ UNCHANGED <<held, leases, retired, closes, hostClosing, uses>>
  /\ \A e \in Entries : graph'[e].slug = graph[e].slug
  /\ \A t \in Threads :
       \/ pc'[t] = pc[t] /\ frame'[t] = frame[t]
       \/ pc[t] \in PreInstall /\ pc'[t] = "idle"
       \/ /\ pc[t] \in PreInstall
          /\ pc'[t] \in PreInstall
          /\ frame'[t].ticket = frame[t].ticket

\* The labels before an install are none of those after it.
LEMMA PreInstallFacts ==
  /\ "idle" \notin PreInstall
  /\ "leased" \notin PreInstall
  /\ "supersede" \notin PreInstall
  /\ "drain" \notin PreInstall
BY DEF PreInstall, Compiling

\* Ownership survives every step that touches neither leases nor the map.
LEMMA QuietOwnership ==
  ASSUME TypeOK, Ownership, Quiet
  PROVE  Ownership'
<1> USE PreInstallFacts DEF Ownership
<1>1. \A e : Users(e)' = Users(e)
  BY DEF Quiet, Users, Using, Mine
<1>2. \A t \in Threads : \A e : Claims(t, e)' <=> Claims(t, e)
  BY DEF Quiet, Claims, Mine, Seen
<1>3. \A e : Installed(e)' <=> Installed(e)
  BY DEF Quiet, Installed
<1>4. LeasesCounted'
  BY <1>1 DEF Quiet, LeasesCounted
<1>5. HeldIsLive'
  BY DEF Quiet, HeldIsLive, TypeOK
<1>6. TicketsAreFresh'
  <2>1. \A t \in Threads : pc'[t] \in PreInstall =>
          pc[t] \in PreInstall /\ Ticket(t)' = Ticket(t)
    BY DEF Quiet, Ticket
  <2> QED
    BY <1>3, <2>1 DEF Quiet, TicketsAreFresh
<1>7. LeasedIsInstalled'
  <2>1. \A t \in Threads : pc'[t] # "idle" =>
          /\ pc[t] # "idle" /\ Ticket(t)' = Ticket(t)
          /\ Using(t)' => Using(t) /\ Mine(t)' = Mine(t)
    BY DEF Quiet, Ticket, Using, Mine
  <2> QED
    BY <1>3, <2>1 DEF Quiet, LeasedIsInstalled
<1>8. InstalledIsOld'
  BY DEF Quiet, InstalledIsOld
<1>9. ClaimsAreExclusive'
  BY <1>2 DEF Quiet, ClaimsAreExclusive
<1>10. ClosedIsUnleased'
  BY DEF Quiet, ClosedIsUnleased
<1>11. NothingLeaks'
  <2>1. \A e : DueToClose(e)' <=> DueToClose(e)
    BY <1>2 DEF Quiet, DueToClose, Claims, Mine, Seen
  <2> QED
    BY <2>1 DEF Quiet, NothingLeaks
<1> QED
  BY <1>4, <1>5, <1>6, <1>7, <1>8, <1>9, <1>10, <1>11

\* Ownership holds before any use() was called.
LEMMA InitOwnership == Init => Ownership
<1> SUFFICES ASSUME Init PROVE Ownership
  OBVIOUS
<1>1. \A e : Users(e) = {}
  BY DEF Init, Users, Using
<1>2. LeasesCounted
  BY <1>1, FS_EmptySet DEF Init, LeasesCounted
<1>3. \A t \in Threads : pc[t] = "idle"
  BY DEF Init
<1> QED
  BY <1>2, <1>3, PreInstallFacts
  DEF Init, Ownership, HeldIsLive, TicketsAreFresh, LeasedIsInstalled, InstalledIsOld,
      ClaimsAreExclusive, ClosedIsUnleased, NothingLeaks, Claims, Using

-----------------------------------------------------------------------------
\* Which steps those are.
LEMMA QuietSteps ==
  ASSUME IInv,
         \/ \E s \in Slugs : Edit(s)
         \/ ShutSaver \/ ForgetSaver
         \/ \E t \in Threads : LookMiss(t) \/ GatedRetry(t) \/ GatedMiss(t)
              \/ TestSaver(t) \/ OpenSaver(t) \/ LoadFails(t)
         \/ \E t \in Threads : StampOwn(t) \/ TakeSaver(t) \/ ReadOwn(t)
              \/ (\E m \in Slugs : ReadMount(t, m)) \/ StampMounts(t)
  PROVE  Quiet
<1> USE DEF IInv, entryVars, saverVars, hostVars, diskVars, threadVars
<1>1. CASE (\E s \in Slugs : Edit(s)) \/ ShutSaver \/ ForgetSaver
  BY <1>1 DEF Edit, ShutSaver, ForgetSaver, Quiet
<1>2. ASSUME NEW t \in Threads, LookMiss(t) \/ GatedRetry(t)
      PROVE  Quiet
  <2>1. frame'[t].ticket = frame[t].ticket
    BY <1>2 DEF LookMiss, GatedRetry, TypeOK, Frame
  <2>2. \A u \in Threads \ {t} : frame'[u] = frame[u] /\ pc'[u] = pc[u]
    BY <1>2 DEF LookMiss, GatedRetry, Go, TypeOK
  <2>3. pc[t] \in PreInstall /\ pc'[t] \in PreInstall
    BY <1>2 DEF LookMiss, GatedRetry, Go, TypeOK, PreInstall
  <2> QED
    BY <1>2, <2>1, <2>2, <2>3 DEF LookMiss, GatedRetry, Quiet
<1>3. ASSUME NEW t \in Threads, GatedMiss(t) \/ TestSaver(t) \/ OpenSaver(t)
      PROVE  Quiet
  <2>1. \A u \in Threads \ {t} : pc'[u] = pc[u]
    BY <1>3 DEF GatedMiss, TestSaver, OpenSaver, Go, TypeOK
  <2>2. pc[t] \in PreInstall /\ pc'[t] \in PreInstall
    BY <1>3 DEF GatedMiss, TestSaver, OpenSaver, Go, TypeOK, PreInstall, Compiling
  <2> QED
    BY <1>3, <2>1, <2>2 DEF GatedMiss, TestSaver, OpenSaver, Quiet
<1>4. ASSUME NEW t \in Threads, LoadFails(t)
      PROVE  Quiet
  <2>1. \A u \in Threads \ {t} : frame'[u] = frame[u] /\ pc'[u] = pc[u]
    BY <1>4 DEF LoadFails, Go, TypeOK
  <2>2. pc[t] \in PreInstall /\ pc'[t] = "idle"
    BY <1>4 DEF LoadFails, Go, TypeOK, PreInstall, Compiling
  <2> QED
    BY <1>4, <2>1, <2>2 DEF LoadFails, Quiet
<1>5. ASSUME NEW t \in Threads,
             StampOwn(t) \/ TakeSaver(t) \/ ReadOwn(t) \/ (\E m \in Slugs : ReadMount(t, m))
               \/ StampMounts(t)
      PROVE  Quiet
  <2>1. \A e \in Entries : graph'[e].slug = graph[e].slug
    BY <1>5, TypeReads
  <2>a. \/ frame' = frame
        \/ \E S : frame' = [frame EXCEPT ![t].todo = S]
    BY <1>5 DEF StampOwn, TakeSaver, ReadOwn, ReadMount, StampMounts
  <2>b. \/ pc' = pc
        \/ \E to : pc' = [pc EXCEPT ![t] = to]
    BY <1>5 DEF StampOwn, TakeSaver, ReadOwn, ReadMount, StampMounts, Go
  <2>2. \A u \in Threads \ {t} : frame'[u] = frame[u] /\ pc'[u] = pc[u]
    BY <2>a, <2>b DEF TypeOK
  <2>3. pc[t] \in PreInstall /\ pc'[t] \in PreInstall
    <3>1. /\ pc[t] \in Compiling
          /\ pc' = pc \/ \E to \in Compiling : pc' = [pc EXCEPT ![t] = to]
      BY <1>5 DEF StampOwn, TakeSaver, ReadOwn, ReadMount, StampMounts, Go, Compiling
    <3> QED
      BY <3>1 DEF TypeOK, PreInstall
  <2>4. frame'[t].ticket = frame[t].ticket
    BY <2>a DEF TypeOK, Frame
  <2>5. UNCHANGED <<held, leases, retired, closes, hostClosing, uses>>
    BY <1>5 DEF StampOwn, TakeSaver, ReadOwn, ReadMount, StampMounts
  <2> QED
    BY <2>1, <2>2, <2>3, <2>4, <2>5 DEF Quiet
<1> QED
  BY <1>1, <1>2, <1>3, <1>4, <1>5

\* A new call takes a number nobody has.
LEMMA UseOwnership ==
  ASSUME IInv, NEW t \in Threads, NEW s \in Slugs, Use(t, s)
  PROVE  Ownership'
<1> USE PreInstallFacts DEF IInv
<1>1. /\ uses \in Nat /\ uses + 1 \in Entries
      /\ pc[t] = "idle" /\ pc'[t] = "ask" /\ Ticket(t)' = uses + 1
      /\ \A u \in Threads \ {t} : pc'[u] = pc[u] /\ frame'[u] = frame[u]
      /\ UNCHANGED <<held, leases, retired, closes, hostClosing>>
      /\ uses' = uses + 1
  BY SizesAreNaturals DEF Use, Go, TypeOK, Entries, Frame, Ticket, entryVars, hostVars
<1>2. \A e : Users(e)' = Users(e)
  BY <1>1 DEF Users, Using, Mine
<1>3. \A u \in Threads : \A e : Claims(u, e)' <=> Claims(u, e)
  BY <1>1 DEF Claims, Mine, Seen
<1>4. \A e : Installed(e)' <=> Installed(e)
  BY <1>1 DEF Installed
<1>5. ~Installed(uses + 1)
  BY <1>1 DEF InstalledIsOld, Installed, NoEntry
<1>6. \A e \in Entries \ {uses + 1} : graph'[e] = graph[e]
  BY DEF Use, TypeOK
<1>7. LeasesCounted'
  BY <1>1, <1>2 DEF LeasesCounted
<1>8. HeldIsLive'
  <2>1. \A r \in Slugs : held[r] # NoEntry => held[r] \in Entries \ {uses + 1}
    BY <1>1 DEF InstalledIsOld, TypeOK
  <2> QED
    BY <1>1, <1>6, <2>1 DEF HeldIsLive
<1>9. TicketsAreFresh'
  <2>1. \A u \in Threads \ {t} : Ticket(u)' = Ticket(u) /\ pc'[u] = pc[u]
    BY <1>1 DEF Ticket
  <2>2. \A u \in Threads : pc[u] \in PreInstall => Ticket(u) \in 1 .. uses
    BY DEF TicketsAreFresh
  <2>3. \A n : n \in 1 .. uses => n \in 1 .. (uses + 1) /\ n # uses + 1
    BY <1>1
  <2>4. uses + 1 \in 1 .. (uses + 1)
    BY <1>1
  <2> QED
    BY <1>1, <1>4, <1>5, <2>1, <2>2, <2>3, <2>4 DEF TicketsAreFresh
<1>10. LeasedIsInstalled'
  BY <1>1, <1>4 DEF LeasedIsInstalled, Ticket, Using, Mine
<1>11. InstalledIsOld'
  BY <1>1 DEF InstalledIsOld
<1>12. ClaimsAreExclusive'
  BY <1>1, <1>3 DEF ClaimsAreExclusive
<1>13. ClosedIsUnleased'
  BY <1>1 DEF ClosedIsUnleased
<1>14. NothingLeaks'
  BY <1>1, <1>3 DEF NothingLeaks, DueToClose, Claims, Mine, Seen
<1> QED
  BY <1>7, <1>8, <1>9, <1>10, <1>11, <1>12, <1>13, <1>14 DEF Ownership

\* A lease on a held entry: one more run, one more on its counter.
LEMMA HitOwnership ==
  ASSUME IInv, NEW t \in Threads, LookHit(t) \/ GatedHit(t)
  PROVE  Ownership'
<1> USE PreInstallFacts, EntryFacts DEF IInv
<1>0. PICK e : e = held[Slug(t)]
  OBVIOUS
<1>1. pc[t] # "idle" /\ pc[t] \in PreInstall
  BY DEF LookHit, GatedHit, Go, PreInstall
<1>2. Slug(t) \in Slugs /\ Ticket(t) \in Entries /\ frame[t] \in Frame
  BY <1>1, FrameFacts
<1>3. /\ e \in Entries
      /\ UNCHANGED <<held, retired, graph, closes, hostClosing, uses>>
      /\ leases' = [leases EXCEPT ![e] = leases[e] + 1]
      /\ pc' = [pc EXCEPT ![t] = "leased"]
      /\ frame' = [frame EXCEPT ![t] = [frame[t] EXCEPT !.mine = e]]
  BY <1>0, <1>2 DEF LookHit, GatedHit, Lease, Go, TypeOK, entryVars, hostVars, threadVars
<1>4. e \notin retired /\ Installed(e)
  BY <1>0, <1>2, <1>3 DEF HeldIsLive, Installed
<1>5. /\ pc'[t] = "leased" /\ Mine(t)' = e /\ Ticket(t)' = Ticket(t)
      /\ \A u \in Threads \ {t} : pc'[u] = pc[u] /\ frame'[u] = frame[u]
  BY <1>2, <1>3 DEF TypeOK, Frame, Mine, Ticket
<1>6. Users(e)' = Users(e) \cup {t} /\ t \notin Users(e)
  <2>1. ~Using(t) /\ Using(t)'
    BY <1>1, <1>5 DEF Using
  <2>2. \A u \in Threads \ {t} : (Using(u)' <=> Using(u)) /\ Mine(u)' = Mine(u)
    BY <1>5 DEF Using, Mine
  <2> QED
    BY <1>5, <2>1, <2>2 DEF Users
<1>7. \A f \in Entries \ {e} : Users(f)' = Users(f)
  BY <1>1, <1>5 DEF Users, Using, Mine
<1>8. LeasesCounted'
  <2>1. Cardinality(Users(e)') = Cardinality(Users(e)) + 1
    BY <1>6, UsersFinite, FS_AddElement
  <2>2. leases'[e] = leases[e] + 1 /\ \A f \in Entries \ {e} : leases'[f] = leases[f]
    BY <1>3 DEF TypeOK
  <2>3. leases'[e] = Cardinality(Users(e)')
    BY <1>3, <2>1, <2>2 DEF LeasesCounted
  <2>4. \A f \in Entries \ {e} : leases'[f] = Cardinality(Users(f)')
    BY <1>7, <2>2 DEF LeasesCounted
  <2> QED
    BY <2>3, <2>4 DEF LeasesCounted
<1>9. \A u \in Threads : \A f : Claims(u, f)' <=> Claims(u, f)
  BY <1>1, <1>5 DEF Claims, Mine, Seen
<1>10. \A f : Installed(f)' <=> Installed(f)
  BY <1>3 DEF Installed
<1>11. HeldIsLive' /\ InstalledIsOld'
  BY <1>3 DEF HeldIsLive, InstalledIsOld
<1>12. TicketsAreFresh'
  BY <1>3, <1>5, <1>10 DEF TicketsAreFresh, Ticket
<1>13. LeasedIsInstalled'
  BY <1>1, <1>3, <1>4, <1>5, <1>10 DEF LeasedIsInstalled, Ticket, Mine, Using
<1>14. \A f \in Entries \ {e} : leases'[f] = leases[f]
  BY <1>3 DEF TypeOK
<1>15. ClaimsAreExclusive'
  BY <1>3, <1>4, <1>9, <1>14 DEF ClaimsAreExclusive, TypeOK
<1>16. ClosedIsUnleased'
  BY <1>3, <1>4, <1>14 DEF ClosedIsUnleased
<1>17. NothingLeaks'
  <2>1. \A f \in Entries : DueToClose(f)' <=> DueToClose(f)
    BY <1>3, <1>9, ZenonT(20) DEF DueToClose, Claims, Mine, Seen
  <2>2. retired' = retired /\ retired \subseteq Entries /\ e \notin retired
    BY <1>3, <1>4 DEF TypeOK
  <2> QED
    BY <1>3, <1>14, <2>1, <2>2 DEF NothingLeaks
<1> QED
  BY <1>8, <1>11, <1>12, <1>13, <1>15, <1>16, <1>17 DEF Ownership

\* close() of an entry this thread was alone to claim.
LEMMA CloseOwnership ==
  ASSUME IInv, NEW t \in Threads, CloseSuperseded(t) \/ CloseDrained(t)
  PROVE  Ownership'
<1> USE PreInstallFacts, EntryFacts DEF IInv
<1>0. PICK e : e = IF pc[t] = "supersede" THEN Seen(t) ELSE Mine(t)
  OBVIOUS
<1>1. /\ pc[t] \in {"supersede", "drain"}
      /\ UNCHANGED <<held, leases, retired, graph, hostClosing, uses>>
      /\ closes' = [closes EXCEPT ![e] = closes[e] + 1]
  BY <1>0 DEF CloseSuperseded, CloseDrained, Go, entryVars, hostVars, threadVars
<1>2. Claims(t, e)
  BY <1>0, <1>1 DEF Claims
<1>3. e \in Entries \cup {NoEntry}
  BY <1>0 DEF TypeOK, Frame, Seen, Mine
<1>4. e \in retired /\ leases[e] = 0 /\ closes[e] = 0 /\ e \notin hostClosing
  BY <1>2, <1>3 DEF ClaimsAreExclusive
<1>5. e \in Entries /\ closes'[e] = 1 /\ \A f \in Entries \ {e} : closes'[f] = closes[f]
  BY <1>1, <1>4 DEF TypeOK
<1>6. \/ /\ pc[t] = "supersede" /\ pc'[t] = "leased" /\ frame'[t] = frame[t]
      \/ /\ pc[t] = "drain" /\ pc'[t] = "idle"
  BY DEF CloseSuperseded, CloseDrained, Go, TypeOK, threadVars
<1>7. \A u \in Threads \ {t} : pc'[u] = pc[u] /\ frame'[u] = frame[u]
  BY DEF CloseSuperseded, CloseDrained, Go, TypeOK, threadVars
<1>8. \A f : Users(f)' = Users(f)
  BY <1>6, <1>7 DEF Users, Using, Mine
<1>9. \A u \in Threads : \A f : Claims(u, f)' <=> (Claims(u, f) /\ u # t)
  BY <1>6, <1>7 DEF Claims, Mine, Seen
<1>10. \A u \in Threads \ {t} : ~Claims(u, e)
  BY <1>2, <1>5 DEF ClaimsAreExclusive
<1>11. \A f \in Entries \ {e} : ~Claims(t, f)
  BY <1>0, <1>1, <1>2, <1>6 DEF Claims
<1>12. LeasesCounted'
  BY <1>1, <1>8 DEF LeasesCounted
<1>13. HeldIsLive' /\ InstalledIsOld'
  BY <1>1 DEF HeldIsLive, InstalledIsOld
<1>14. \A f : Installed(f)' <=> Installed(f)
  BY <1>1 DEF Installed
<1>15. TicketsAreFresh'
  BY <1>1, <1>6, <1>7, <1>14 DEF TicketsAreFresh, Ticket
<1>16. LeasedIsInstalled'
  BY <1>1, <1>6, <1>7, <1>14 DEF LeasedIsInstalled, Ticket, Mine, Using
<1>17. ClaimsAreExclusive'
  <2>1. \A f \in hostClosing : f # e
    BY <1>4
  <2>2. \A u \in Threads, f \in Entries \cup {NoEntry} :
          Claims(u, f)' => Claims(u, f) /\ f # e
    BY <1>9, <1>10
  <2>3. \A u \in Threads, f \in Entries \cup {NoEntry} : Claims(u, f) => f \in retired
    BY DEF ClaimsAreExclusive
  <2>4. retired \subseteq Entries /\ hostClosing \subseteq Entries
    BY DEF TypeOK
  <2> QED
    BY <1>1, <1>5, <1>9, <2>1, <2>2, <2>3, <2>4 DEF ClaimsAreExclusive
<1>18. ClosedIsUnleased'
  BY <1>1, <1>4, <1>5 DEF ClosedIsUnleased
<1>19. NothingLeaks'
  <2>1. \A f \in Entries : DueToClose(f) <=> f \in hostClosing \/ \E u \in Threads : Claims(u, f)
    BY DEF DueToClose, Claims
  <2>2. \A f \in Entries : DueToClose(f)' <=> f \in hostClosing \/ \E u \in Threads : Claims(u, f)'
    BY <1>1 DEF DueToClose, Claims
  <2>3. \A f \in Entries \ {e} : DueToClose(f) => DueToClose(f)'
    BY <1>9, <1>11, <2>1, <2>2
  <2> QED
    BY <1>1, <1>5, <2>3 DEF NothingLeaks, TypeOK
<1> QED
  BY <1>12, <1>13, <1>15, <1>16, <1>17, <1>18, <1>19 DEF Ownership

\* The new entry enters the map with its first lease; the one it replaces is
\* retired, and closed by this thread if it has no lease.
LEMMA InstallOwnership ==
  ASSUME IInv, NEW t \in Threads, Install(t)
  PROVE  Ownership'
<1> USE PreInstallFacts, EntryFacts DEF IInv
<1>0. PICK n, s, old : n = Ticket(t) /\ s = Slug(t) /\ old = held[s]
  OBVIOUS
<1>1. pc[t] # "idle" /\ pc[t] = "install" /\ pc[t] \in PreInstall
  BY DEF Install, Go, PreInstall, Compiling
<1>2. /\ s \in Slugs /\ n \in Entries /\ frame[t] \in Frame /\ graph[n].slug = s
      /\ old \in Entries \cup {NoEntry}
  BY <1>0, <1>1, FrameFacts DEF Slug, TypeOK
<1>3. /\ UNCHANGED <<graph, closes, hostClosing, uses>>
      /\ held' = [held EXCEPT ![s] = n]
      /\ retired' = retired \cup ({old} \ {NoEntry})
      /\ leases' = [leases EXCEPT ![n] = 1]
      /\ pc' = [pc EXCEPT ![t] = IF SupersededFree(old) THEN "supersede" ELSE "leased"]
      /\ frame' = [frame EXCEPT ![t] = [frame[t] EXCEPT !.mine = n, !.seen = old]]
  BY <1>0 DEF Install, Go, hostVars
<1>4. /\ Ticket(t)' = n /\ Mine(t)' = n /\ Seen(t)' = old
      /\ pc'[t] = IF SupersededFree(old) THEN "supersede" ELSE "leased"
      /\ \A u \in Threads \ {t} : pc'[u] = pc[u] /\ frame'[u] = frame[u]
  BY <1>0, <1>2, <1>3 DEF TypeOK, Frame, Ticket, Mine, Seen
<1>5. n \in 1 .. uses /\ ~Installed(n)
  BY <1>0, <1>1 DEF TicketsAreFresh
<1>6. n \notin retired /\ n # old /\ closes[n] = 0
  BY <1>0, <1>2, <1>5 DEF Installed, ClosedIsUnleased, TypeOK
<1>7. old # NoEntry => /\ Installed(old) /\ old \notin retired
                       /\ closes[old] = 0 /\ old \notin hostClosing
                       /\ graph[old].slug = s
  BY <1>0, <1>2 DEF HeldIsLive, ClosedIsUnleased, ClaimsAreExclusive, Installed, TypeOK
<1>8. \A f \in Entries : Installed(f)' <=> (Installed(f) \/ f = n)
  <2>1. held'[s] = n /\ \A r \in Slugs \ {s} : held'[r] = held[r]
    BY <1>2, <1>3 DEF TypeOK
  <2>2. \A f \in Entries : (\E r \in Slugs : held'[r] = f)
          <=> (f = n \/ \E r \in Slugs \ {s} : held[r] = f)
    BY <1>2, <2>1
  <2>3. \A f \in Entries : f \in retired' <=> f \in retired \/ f = old
    BY <1>3
  <2> QED
    BY <1>0, <1>2, <2>2, <2>3 DEF Installed
<1>8a. 1 .. uses \subseteq Entries
  BY SizesAreNaturals DEF TypeOK, Entries
<1>9. Users(n)' = {t}
  <2>1. \A u \in Threads \ {t} : ~(Using(u)' /\ Mine(u)' = n)
    BY <1>4, <1>5 DEF LeasedIsInstalled, Using, Mine
  <2>2. Using(t)'
    BY <1>4 DEF Using
  <2> QED
    BY <1>4, <2>1, <2>2 DEF Users
<1>10. \A f \in Entries \ {n} : Users(f)' = Users(f)
  BY <1>1, <1>4 DEF Users, Using, Mine
<1>11. leases'[n] = 1 /\ \A f \in Entries \ {n} : leases'[f] = leases[f]
  BY <1>2, <1>3 DEF TypeOK
<1>12. LeasesCounted'
  BY <1>9, <1>10, <1>11, FS_Singleton DEF LeasesCounted
<1>13. HeldIsLive'
  <2>1. held'[s] = n /\ \A r \in Slugs \ {s} : held'[r] = held[r]
    BY <1>2, <1>3 DEF TypeOK
  <2>2. n \notin retired'
    BY <1>3, <1>6
  <2>3. \A r \in Slugs \ {s} :
          held[r] # NoEntry => held[r] \notin retired' /\ graph[held[r]].slug = r
    BY <1>3, <1>7 DEF HeldIsLive
  <2> QED
    BY <1>2, <1>3, <2>1, <2>2, <2>3 DEF HeldIsLive
<1>14. TicketsAreFresh'
  <2>1. \A u \in Threads : pc'[u] \in PreInstall =>
          u # t /\ pc[u] \in PreInstall /\ Ticket(u)' = Ticket(u)
    BY <1>4 DEF Ticket
  <2>2. \A u \in Threads \ {t} : pc[u] \in PreInstall => Ticket(u) # n
    BY <1>0, <1>1 DEF TicketsAreFresh
  <2> QED
    BY <1>3, <1>8, <1>8a, <2>1, <2>2 DEF TicketsAreFresh
<1>15. LeasedIsInstalled'
  <2>1. \A u \in Threads \ {t} : /\ Ticket(u)' = Ticket(u) /\ Mine(u)' = Mine(u)
                                 /\ Using(u)' <=> Using(u)
    BY <1>4 DEF Ticket, Mine, Using
  <2> QED
    BY <1>2, <1>3, <1>4, <1>5, <1>8, <2>1 DEF LeasedIsInstalled
<1>16. InstalledIsOld'
  <2>1. \A r \in Slugs : held'[r] \in {held[r], n}
    BY <1>3 DEF TypeOK
  <2>2. old \in {NoEntry} \cup 1 .. uses
    BY <1>0, <1>2 DEF InstalledIsOld
  <2> QED
    BY <1>3, <1>5, <2>1, <2>2 DEF InstalledIsOld
<1>17. \A u \in Threads \ {t} : \A f : Claims(u, f)' <=> Claims(u, f)
  BY <1>4 DEF Claims, Mine, Seen
<1>18. \A f : Claims(t, f)' => f = old /\ SupersededFree(old)
  BY <1>4 DEF Claims, Mine, Seen
<1>19. \A f : f \in retired' <=> f \in retired \/ (f = old /\ old # NoEntry)
  BY <1>3
<1>20. ClaimsAreExclusive'
  <2>1. \A f \in hostClosing : f \in retired' /\ leases'[f] = 0 /\ closes[f] = 0
    BY <1>6, <1>11, <1>19 DEF ClaimsAreExclusive, TypeOK
  <2>2. \A u \in Threads \ {t}, f \in Entries \cup {NoEntry} : Claims(u, f) =>
          /\ f \in retired' /\ leases'[f] = 0 /\ closes[f] = 0 /\ f \notin hostClosing
          /\ f # old
    BY <1>6, <1>7, <1>11, <1>19 DEF ClaimsAreExclusive, TypeOK
  <2>3. \A f : Claims(t, f)' =>
          f \in retired' /\ leases'[f] = 0 /\ closes[f] = 0 /\ f \notin hostClosing
    BY <1>2, <1>6, <1>7, <1>11, <1>18, <1>19 DEF SupersededFree
  <2> QED
    BY <1>3, <1>17, <1>18, <2>1, <2>2, <2>3 DEF ClaimsAreExclusive
<1>21. ClosedIsUnleased'
  BY <1>3, <1>6, <1>11, <1>19 DEF ClosedIsUnleased
<1>22. NothingLeaks'
  <2>1. \A f \in Entries : DueToClose(f) => DueToClose(f)'
    BY <1>1, <1>3, <1>4 DEF DueToClose, Mine, Seen
  <2>2. SupersededFree(old) => DueToClose(old)'
    BY <1>4 DEF DueToClose
  <2>3. \A f \in retired : leases'[f] = 0 => closes[f] = 1 \/ DueToClose(f)'
    BY <1>6, <1>11, <2>1 DEF NothingLeaks, TypeOK
  <2>4. old # NoEntry /\ leases'[old] = 0 => DueToClose(old)'
    BY <1>2, <1>6, <1>11, <2>2 DEF SupersededFree
  <2> QED
    BY <1>3, <1>19, <2>3, <2>4 DEF NothingLeaks
<1> QED
  BY <1>12, <1>13, <1>14, <1>15, <1>16, <1>20, <1>21, <1>22 DEF Ownership

\* A run leaves: one less on the counter, and the last one out of a retired
\* entry is alone to close it.
LEMMA ReleaseOwnership ==
  ASSUME IInv, NEW t \in Threads, Release(t)
  PROVE  Ownership'
<1> USE PreInstallFacts, EntryFacts DEF IInv
<1>0. PICK e : e = Mine(t)
  OBVIOUS
<1>1. pc[t] = "leased" /\ e \in Entries /\ t \in Users(e)
  BY <1>0 DEF Release, Go, LeasedIsInstalled, Using, Users
<1>2. leases[e] \in Nat /\ leases[e] # 0
  BY <1>1, UserIsCounted
<1>3. /\ UNCHANGED <<held, retired, graph, closes, hostClosing, uses>>
      /\ leases' = [leases EXCEPT ![e] = leases[e] - 1]
      /\ pc' = [pc EXCEPT ![t] = IF LastOut(e) THEN "drain" ELSE "idle"]
      /\ frame' = IF LastOut(e) THEN frame ELSE [frame EXCEPT ![t] = NoFrame]
  BY <1>0 DEF Release, Go, hostVars
<1>4. /\ leases'[e] = leases[e] - 1
      /\ \A f \in Entries \ {e} : leases'[f] = leases[f]
      /\ pc'[t] = IF LastOut(e) THEN "drain" ELSE "idle"
      /\ LastOut(e) => frame' = frame
      /\ \A u \in Threads \ {t} : pc'[u] = pc[u] /\ frame'[u] = frame[u]
  BY <1>1, <1>3 DEF TypeOK
<1>5. Users(e)' = Users(e) \ {t}
  <2>1. ~Using(t)'
    BY <1>4 DEF Using
  <2>2. \A u \in Threads \ {t} : (Using(u)' <=> Using(u)) /\ Mine(u)' = Mine(u)
    BY <1>4 DEF Using, Mine
  <2> QED
    BY <2>1, <2>2 DEF Users
<1>6. \A f \in Entries \ {e} : Users(f)' = Users(f)
  <2>1. ~Using(t)'
    BY <1>4 DEF Using
  <2>2. \A u \in Threads \ {t} : (Using(u)' <=> Using(u)) /\ Mine(u)' = Mine(u)
    BY <1>4 DEF Using, Mine
  <2> QED
    BY <1>0, <2>1, <2>2 DEF Users
<1>7. LeasesCounted'
  <2>1. Cardinality(Users(e)') = Cardinality(Users(e)) - 1
    BY <1>1, <1>5, UsersFinite, FS_RemoveElement
  <2>2. leases'[e] = Cardinality(Users(e)')
    BY <1>1, <1>4, <2>1 DEF LeasesCounted
  <2>3. \A f \in Entries \ {e} : leases'[f] = Cardinality(Users(f)')
    BY <1>4, <1>6 DEF LeasesCounted
  <2> QED
    BY <2>2, <2>3 DEF LeasesCounted
<1>8. HeldIsLive' /\ InstalledIsOld'
  BY <1>3 DEF HeldIsLive, InstalledIsOld
<1>9. \A f : Installed(f)' <=> Installed(f)
  BY <1>3 DEF Installed
<1>10. TicketsAreFresh'
  BY <1>3, <1>4, <1>9 DEF TicketsAreFresh, Ticket
<1>11. LeasedIsInstalled'
  BY <1>1, <1>3, <1>4, <1>9 DEF LeasedIsInstalled, Ticket, Mine, Using
<1>12. \A u \in Threads \ {t} : \A f : Claims(u, f)' <=> Claims(u, f)
  BY <1>4 DEF Claims, Mine, Seen
<1>13. \A f : Claims(t, f)' => f = e /\ LastOut(e)
  BY <1>0, <1>4 DEF Claims, Mine, Seen
<1>14. \A f : ~Claims(t, f)
  BY <1>1 DEF Claims
<1>15. /\ e \notin hostClosing
       /\ \A u \in Threads : ~Claims(u, e)
       /\ closes[e] = 0
  BY <1>1, <1>2 DEF ClaimsAreExclusive, ClosedIsUnleased, TypeOK
<1>16. LastOut(e) => e \in retired /\ leases'[e] = 0
  BY <1>4 DEF LastOut
<1>17. ClaimsAreExclusive'
  <2>1. \A f \in hostClosing : f \in retired /\ leases'[f] = 0 /\ closes[f] = 0
    BY <1>4, <1>15 DEF ClaimsAreExclusive, TypeOK
  <2>2. \A u \in Threads \ {t}, f \in Entries \cup {NoEntry} : Claims(u, f) =>
          /\ f \in retired /\ leases'[f] = 0 /\ closes[f] = 0 /\ f \notin hostClosing
          /\ f # e
    BY <1>4, <1>15 DEF ClaimsAreExclusive, TypeOK
  <2> QED
    BY <1>3, <1>12, <1>13, <1>15, <1>16, <2>1, <2>2 DEF ClaimsAreExclusive
<1>18. ClosedIsUnleased'
  BY <1>3, <1>4, <1>15 DEF ClosedIsUnleased
<1>19. NothingLeaks'
  <2>1. \A f \in Entries : DueToClose(f) => DueToClose(f)'
    BY <1>1, <1>3, <1>4 DEF DueToClose, Mine, Seen
  <2>2. e \in retired /\ leases'[e] = 0 => DueToClose(e)'
    BY <1>0, <1>2, <1>4 DEF DueToClose, LastOut, Mine
  <2> QED
    BY <1>3, <1>4, <2>1, <2>2 DEF NothingLeaks, TypeOK
<1> QED
  BY <1>7, <1>8, <1>10, <1>11, <1>17, <1>18, <1>19 DEF Ownership

\* invalidate() and close() take entries out of the map, and claim those
\* nobody leases.
LEMMA InvalidateOwnership ==
  ASSUME IInv, NEW S \in SUBSET Slugs, NEW final, Invalidate(S, final)
  PROVE  Ownership'
<1> USE PreInstallFacts, EntryFacts DEF IInv
<1>0. PICK D : D = HeldOf(S)
  OBVIOUS
<1>1. /\ UNCHANGED <<graph, leases, closes, pc, frame, uses>>
      /\ held' = [r \in Slugs |-> IF r \in S THEN NoEntry ELSE held[r]]
      /\ retired' = retired \cup D
      /\ hostClosing' = {f \in D : leases[f] = 0}
      /\ hostClosing = {}
  BY <1>0 DEF Invalidate, Releasable, HostIsDone, threadVars
<1>2. /\ D \subseteq Entries
      /\ \A f \in D : f \notin retired /\ closes[f] = 0 /\ Installed(f)
      /\ \A r \in Slugs \ S : held[r] \notin D
  <2>1. \A f \in D : f \in Entries /\ \E r \in S : held[r] = f /\ f # NoEntry
    BY <1>0 DEF HeldOf, TypeOK
  <2>2. \A f \in D : f \notin retired /\ Installed(f)
    BY <2>1 DEF HeldIsLive, Installed
  <2>3. \A f \in D : closes[f] = 0
    <3> SUFFICES ASSUME NEW f \in D PROVE closes[f] = 0
      OBVIOUS
    <3>1. f \in Entries /\ f \notin retired
      BY <2>1, <2>2
    <3>2. closes[f] \in Nat
      BY <3>1 DEF TypeOK
    <3>3. ~(closes[f] > 0)
      BY <3>1 DEF ClosedIsUnleased
    <3> QED
      BY <3>2, <3>3
  <2>4. \A r \in Slugs \ S : held[r] \notin D
    <3> SUFFICES ASSUME NEW r \in Slugs \ S, held[r] \in D PROVE FALSE
      OBVIOUS
    <3>1. PICK q \in S : held[q] = held[r] /\ held[r] # NoEntry
      BY <2>1
    <3>2. graph[held[q]].slug = q /\ graph[held[r]].slug = r
      BY <3>1 DEF HeldIsLive
    <3> QED
      BY <3>1, <3>2
  <2> QED
    BY <2>1, <2>2, <2>3, <2>4
<1>3. \A f \in Entries : Installed(f)' <=> Installed(f)
  <2>1. \A r \in S : held[r] # NoEntry => held[r] \in D
    BY <1>0 DEF HeldOf
  <2>2. \A f \in Entries, r \in Slugs : held[r] = f => f \in D \/ held'[r] = f
    BY <1>1, <2>1
  <2>3. \A f \in Entries, r \in Slugs : held'[r] = f => held[r] = f
    BY <1>1
  <2> QED
    BY <1>1, <1>2, <2>2, <2>3 DEF Installed
<1>4. \A f : Users(f)' = Users(f)
  BY <1>1 DEF Users, Using, Mine
<1>5. \A u \in Threads : \A f : Claims(u, f)' <=> Claims(u, f)
  BY <1>1 DEF Claims, Mine, Seen
<1>6. LeasesCounted'
  BY <1>1, <1>4 DEF LeasesCounted
<1>7. HeldIsLive'
  BY <1>1, <1>2 DEF HeldIsLive
<1>8. 1 .. uses \subseteq Entries
  BY SizesAreNaturals DEF TypeOK, Entries
<1>9. TicketsAreFresh'
  BY <1>1, <1>3, <1>8 DEF TicketsAreFresh, Ticket
<1>10. LeasedIsInstalled'
  BY <1>1, <1>3, <1>8 DEF LeasedIsInstalled, Ticket, Mine, Using
<1>11. InstalledIsOld'
  <2>1. D \subseteq 1 .. uses
    BY <1>0 DEF HeldOf, InstalledIsOld
  <2> QED
    BY <1>1, <2>1 DEF InstalledIsOld
<1>12. ClaimsAreExclusive'
  <2>1. \A u \in Threads, f \in Entries \cup {NoEntry} : Claims(u, f) => f \notin D
    BY <1>2 DEF ClaimsAreExclusive
  <2> QED
    BY <1>1, <1>2, <1>5, <2>1 DEF ClaimsAreExclusive
<1>13. ClosedIsUnleased'
  BY <1>1 DEF ClosedIsUnleased
<1>14. NothingLeaks'
  <2>1. \A f \in retired : DueToClose(f) => DueToClose(f)'
    BY <1>1, <1>5 DEF DueToClose, Claims, Mine, Seen
  <2>2. \A f \in D : leases[f] = 0 => DueToClose(f)'
    BY <1>1 DEF DueToClose
  <2> QED
    BY <1>1, <2>1, <2>2 DEF NothingLeaks
<1> QED
  BY <1>6, <1>7, <1>9, <1>10, <1>11, <1>12, <1>13, <1>14 DEF Ownership

\* The host closes an entry it was alone to claim.
LEMMA HostClosesOwnership ==
  ASSUME IInv, NEW e \in Entries, HostCloses(e)
  PROVE  Ownership'
<1> USE PreInstallFacts, EntryFacts DEF IInv
<1>1. /\ UNCHANGED <<held, leases, retired, graph, pc, frame, uses>>
      /\ closes'[e] = closes[e] + 1
      /\ \A f \in Entries \ {e} : closes'[f] = closes[f]
      /\ hostClosing' = hostClosing \ {e}
      /\ e \in retired /\ leases[e] = 0 /\ closes[e] = 0
      /\ \A u \in Threads : ~Claims(u, e)
  BY DEF HostCloses, TypeOK, entryVars, threadVars, ClaimsAreExclusive
<1>2. \A f : Users(f)' = Users(f)
  BY <1>1 DEF Users, Using, Mine
<1>3. \A u \in Threads : \A f : Claims(u, f)' <=> Claims(u, f)
  BY <1>1 DEF Claims, Mine, Seen
<1>4. \A f : Installed(f)' <=> Installed(f)
  BY <1>1 DEF Installed
<1>5. LeasesCounted'
  BY <1>1, <1>2 DEF LeasesCounted
<1>6. HeldIsLive' /\ InstalledIsOld'
  BY <1>1 DEF HeldIsLive, InstalledIsOld
<1>7. TicketsAreFresh'
  BY <1>1, <1>4 DEF TicketsAreFresh, Ticket
<1>8. LeasedIsInstalled'
  BY <1>1, <1>4 DEF LeasedIsInstalled, Ticket, Mine, Using
<1>9. ClaimsAreExclusive'
  <2>1. \A u \in Threads, f \in Entries \cup {NoEntry} : Claims(u, f) => f \in Entries \ {e}
    BY <1>1 DEF ClaimsAreExclusive, TypeOK
  <2>2. \A f \in hostClosing' : f \in Entries \ {e} /\ f \in hostClosing
    BY <1>1 DEF TypeOK
  <2>3. \A f \in Entries : f \notin hostClosing => f \notin hostClosing'
    BY <1>1
  <2> QED
    BY <1>1, <1>3, <2>1, <2>2, <2>3 DEF ClaimsAreExclusive
<1>10. ClosedIsUnleased'
  BY <1>1 DEF ClosedIsUnleased
<1>11. NothingLeaks'
  <2>1. \A f \in Entries \ {e} : DueToClose(f) => DueToClose(f)'
    BY <1>1 DEF DueToClose, Mine, Seen
  <2> QED
    BY <1>1, <2>1 DEF NothingLeaks, TypeOK
<1> QED
  BY <1>5, <1>6, <1>7, <1>8, <1>9, <1>10, <1>11 DEF Ownership

-----------------------------------------------------------------------------
\* The host has nothing left to close when it leaves invalidate().
LEMMA HostIsDoneStep ==
  ASSUME IInv, [Next]_vars
  PROVE  HostIsDone'
<1> USE DEF IInv, HostIsDone
<1>1. CASE HostCall
  BY <1>1 DEF HostCall, InvalidateOne, InvalidateAll, Close, Invalidate, HostNext
<1>2. CASE HostStep
  BY <1>2 DEF HostStep, HostCloses, HostNext, ShutSaver, ForgetSaver
<1>3. CASE UNCHANGED hostVars
  BY <1>3 DEF hostVars
<1>4. ASSUME NEW t \in Threads, Entering(t) \/ Leaving(t)
      PROVE  UNCHANGED hostVars
  BY <1>4 DEF Entering, Leaving, LookHit, LookMiss, GatedRetry, GatedHit, GatedMiss,
     StampOwn, TestSaver, OpenSaver, TakeSaver, ReadOwn, ReadMount, LoadFails,
     StampMounts, Install, CloseSuperseded, Release, CloseDrained
<1>5. CASE (\E s \in Slugs : Edit(s)) \/ (\E t \in Threads, s \in Slugs : Use(t, s))
  BY <1>3, <1>5 DEF Edit, Use
<1>6. CASE UNCHANGED vars
  BY <1>6 DEF vars
<1> QED
  BY <1>1, <1>2, <1>3, <1>4, <1>5, <1>6 DEF Next

\* A stuttering step changes nothing.
LEMMA UnchangedIInv ==
  ASSUME IInv, UNCHANGED vars
  PROVE  TypeOK' /\ Ownership'
<1>1. TypeOK'
  BY DEF IInv, TypeOK, vars
<1>2. Quiet
  BY DEF Quiet, vars
<1> QED
  BY <1>1, <1>2, QuietOwnership DEF IInv, Ownership

\* IInv is inductive.
LEMMA IInvStep ==
  ASSUME IInv, [Next]_vars
  PROVE  IInv'
<1>1. HostIsDone'
  BY HostIsDoneStep
<1>2. ASSUME TypeOK', Ownership'
      PROVE  IInv'
  BY <1>1, <1>2 DEF IInv, Ownership
<1>3. TypeOK /\ Ownership
  BY DEF IInv, Ownership
<1>4. CASE \E t \in Threads, s \in Slugs : Use(t, s)
  BY <1>2, <1>4, UseOwnership, TypeOthers
<1>5. CASE \E s \in Slugs : Edit(s)
  BY <1>2, <1>3, <1>5, QuietSteps, QuietOwnership, TypeOthers
<1>6. CASE HostCall
  <2>1. PICK S \in SUBSET Slugs, final \in BOOLEAN : Invalidate(S, final)
    BY <1>6 DEF HostCall, InvalidateOne, InvalidateAll, Close
  <2> QED
    BY <1>2, <1>6, <2>1, InvalidateOwnership, TypeOthers
<1>7. CASE HostStep
  <2>1. CASE \E e \in Entries : HostCloses(e)
    BY <1>2, <1>7, <2>1, HostClosesOwnership, TypeOthers
  <2>2. CASE ShutSaver \/ ForgetSaver
    BY <1>2, <1>3, <1>7, <2>2, QuietSteps, QuietOwnership, TypeOthers
  <2> QED
    BY <1>7, <2>1, <2>2 DEF HostStep
<1>8. ASSUME NEW t \in Threads, Entering(t) \/ Leaving(t)
      PROVE  IInv'
  <2>1. CASE LookMiss(t) \/ GatedRetry(t) \/ GatedMiss(t) \/ TestSaver(t)
               \/ OpenSaver(t) \/ LoadFails(t)
    BY <1>2, <1>3, <2>1, QuietSteps, QuietOwnership, TypeThreads
  <2>2. CASE StampOwn(t) \/ TakeSaver(t) \/ ReadOwn(t)
               \/ (\E m \in Slugs : ReadMount(t, m)) \/ StampMounts(t)
    BY <1>2, <1>3, <2>2, QuietSteps, QuietOwnership, TypeReads
  <2>3. CASE LookHit(t) \/ GatedHit(t)
    BY <1>2, <2>3, HitOwnership, TypeThreads
  <2>4. CASE Install(t)
    BY <1>2, <2>4, InstallOwnership, TypeThreads
  <2>5. CASE CloseSuperseded(t) \/ CloseDrained(t)
    BY <1>2, <2>5, CloseOwnership, TypeThreads
  <2>6. CASE Release(t)
    BY <1>2, <2>6, ReleaseOwnership, TypeThreads
  <2> QED
    BY <1>8, <2>1, <2>2, <2>3, <2>4, <2>5, <2>6 DEF Entering, Leaving
<1>9. CASE UNCHANGED vars
  BY <1>2, <1>9, UnchangedIInv
<1> QED
  BY <1>4, <1>5, <1>6, <1>7, <1>8, <1>9 DEF Next

\* The inductive invariant holds of every behaviour.
THEOREM Inductive == Spec => []IInv
<1>1. Init => IInv
  BY InitTypeOK, InitOwnership DEF IInv, Ownership, HostIsDone, Init
<1>2. IInv /\ [Next]_vars => IInv'
  BY IInvStep
<1> QED
  BY <1>1, <1>2, PTL DEF Spec

\* Every variable keeps its type (the fields of _Held and the locals of use()).
THEOREM TypeCorrect == Spec => []TypeOK
<1>1. IInv => TypeOK
  BY DEF IInv
<1> QED
  BY <1>1, Inductive, PTL

\* live.py:117, "a run in flight is never disturbed": no thread is ever inside
\* a workflow that was closed.
THEOREM LeaseNeverClosed == Spec => []LeaseHolds
<1>1. IInv => LeaseHolds
  <2> SUFFICES ASSUME IInv, NEW t \in Threads, pc[t] = "leased"
               PROVE  closes[Mine(t)] = 0
    BY DEF LeaseHolds
  <2>1. Mine(t) \in Entries /\ t \in Users(Mine(t))
    BY DEF IInv, LeasedIsInstalled, Using, Users
  <2>2. leases[Mine(t)] # 0
    BY <2>1, UserIsCounted DEF IInv
  <2> QED
    BY <2>1, <2>2 DEF IInv, ClosedIsUnleased, TypeOK
<1> QED
  BY <1>1, Inductive, PTL

\* However an entry leaves the map, close() is called on it at most once.
THEOREM AtMostOneClose == Spec => []ClosedOnce
<1>1. IInv => ClosedOnce
  BY DEF IInv, ClosedIsUnleased, ClosedOnce, TypeOK
<1> QED
  BY <1>1, Inductive, PTL

\* An entry that is out of the map and unleased is closed or about to be.
THEOREM NoHandleLeaks == Spec => []NothingLeaks
<1>1. IInv => NothingLeaks
  BY DEF IInv
<1> QED
  BY <1>1, Inductive, PTL
-----------------------------------------------------------------------------
(***************************************************************************)
(* OneCompile: the gate of a slug is taken while a thread is behind it, to *)
(* the close of the entry it replaced.                                     *)
(***************************************************************************)
Gated(t) == pc[t] \in Compiling \cup {"supersede"}

GateInv ==
  /\ \A t \in Threads : Gated(t) => Slug(t) \in gates
  /\ \A t, u \in Threads : Gated(t) /\ Gated(u) /\ Slug(t) = Slug(u) => t = u

\* A thread inside use() keeps the slug it asked for.
LEMMA SlugIsKept ==
  ASSUME IInv, [Next]_vars, NEW t \in Threads, pc[t] # "idle", pc'[t] # "idle"
  PROVE  Slug(t)' = Slug(t)
<1> USE DEF IInv
<1>1. frame[t] \in Frame /\ Ticket(t) \in 1 .. uses /\ Ticket(t) \in Entries
  BY FrameFacts DEF LeasedIsInstalled
<1>2. ASSUME frame'[t].ticket = frame[t].ticket,
             \A e \in Entries : graph'[e].slug = graph[e].slug
      PROVE  Slug(t)' = Slug(t)
  BY <1>1, <1>2 DEF Slug, Ticket
<1>3. ASSUME Quiet PROVE Slug(t)' = Slug(t)
  <2>1. frame'[t].ticket = frame[t].ticket
    BY <1>3 DEF Quiet
  <2> QED
    BY <1>2, <1>3, <2>1 DEF Quiet
<1>4. CASE UNCHANGED vars
  BY <1>2, <1>4 DEF vars
<1>5. CASE (\E s \in Slugs : Edit(s)) \/ ShutSaver \/ ForgetSaver
  BY <1>3, <1>5, QuietSteps
<1>6. CASE \E u \in Threads, s \in Slugs : Use(u, s)
  <2>1. PICK u \in Threads, s \in Slugs : Use(u, s)
    BY <1>6
  <2>2. u # t /\ frame'[t] = frame[t]
    BY <2>1 DEF Use, Go, TypeOK
  <2>3. graph'[Ticket(t)] = graph[Ticket(t)]
    BY <1>1, <2>1 DEF Use, TypeOK
  <2> QED
    BY <2>2, <2>3 DEF Slug, Ticket
<1>7. CASE HostCall \/ (\E e \in Entries : HostCloses(e))
  BY <1>2, <1>7 DEF HostCall, InvalidateOne, InvalidateAll, Close, Invalidate, HostCloses,
                    threadVars
<1>8. ASSUME NEW u \in Threads,
             \/ LookMiss(u) \/ GatedRetry(u) \/ GatedMiss(u)
             \/ TestSaver(u) \/ OpenSaver(u) \/ LoadFails(u)
             \/ StampOwn(u) \/ TakeSaver(u) \/ ReadOwn(u)
             \/ (\E m \in Slugs : ReadMount(u, m)) \/ StampMounts(u)
      PROVE  Slug(t)' = Slug(t)
  BY <1>3, <1>8, QuietSteps
<1>9. ASSUME NEW u \in Threads,
             \/ LookHit(u) \/ GatedHit(u) \/ Install(u)
             \/ CloseSuperseded(u) \/ Release(u) \/ CloseDrained(u)
      PROVE  Slug(t)' = Slug(t)
  <2>1. graph' = graph
    BY <1>9 DEF LookHit, GatedHit, Install, CloseSuperseded, Release, CloseDrained
  <2>2. frame \in [Threads -> Frame]
    BY DEF TypeOK
  <2>3. frame'[t].ticket = frame[t].ticket
    <3>1. CASE LookHit(u) \/ GatedHit(u)
      <4>1. frame' = [frame EXCEPT ![u].mine = held[Slug(u)]]
        BY <3>1, Zenon DEF LookHit, GatedHit, Lease
      <4> QED
        BY <1>1, <2>2, <4>1 DEF Frame
    <3>2. CASE Install(u)
      BY <1>1, <2>2, <3>2 DEF Install, Frame
    <3>3. CASE CloseSuperseded(u)
      BY <3>3 DEF CloseSuperseded
    <3>4. CASE Release(u) \/ CloseDrained(u)
      <4>1. frame' = frame \/ (frame' = [frame EXCEPT ![u] = NoFrame] /\ pc'[u] = "idle")
        BY <3>4 DEF Release, CloseDrained, Go, TypeOK
      <4>2. frame'[t] = frame[t]
        BY <2>2, <4>1
      <4> QED
        BY <4>2
    <3> QED
      BY <1>9, <3>1, <3>2, <3>3, <3>4
  <2> QED
    BY <1>2, <2>1, <2>3
<1> QED
  BY <1>4, <1>5, <1>6, <1>7, <1>8, <1>9 DEF Next, Entering, Leaving, HostStep

\* Nobody comes behind a gate in a step that leaves the gates alone.
LEMMA GateStays ==
  ASSUME IInv, GateInv, [Next]_vars, gates' = gates,
         \A t \in Threads : Gated(t)' => Gated(t)
  PROVE  GateInv'
<1>1. \A t \in Threads : Gated(t)' => Gated(t) /\ Slug(t)' = Slug(t)
  BY SlugIsKept DEF Gated, Compiling
<1> QED
  BY <1>1 DEF GateInv

\* A thread gives its gate back.
LEMMA GateGiven ==
  ASSUME IInv, GateInv, [Next]_vars, NEW t \in Threads, Gated(t), ~Gated(t)',
         gates' = gates \ {Slug(t)}, \A u \in Threads \ {t} : Gated(u)' => Gated(u)
  PROVE  GateInv'
<1>1. \A u \in Threads : Gated(u)' => u # t /\ Gated(u) /\ Slug(u)' = Slug(u)
  BY SlugIsKept DEF Gated, Compiling
<1>2. \A u \in Threads : Gated(u)' => Slug(u) # Slug(t)
  BY <1>1 DEF GateInv
<1> QED
  BY <1>1, <1>2 DEF GateInv

LEMMA GateStep ==
  ASSUME IInv, GateInv, [Next]_vars
  PROVE  GateInv'
<1> USE DEF IInv
<1>1. CASE UNCHANGED <<pc, gates>>
  BY <1>1, GateStays DEF Gated
<1>2. ASSUME NEW t \in Threads, NEW to, Go(t, "idle", to) \/ Go(t, "ask", to)
               \/ Go(t, "wait", to) \/ Go(t, "leased", to) \/ Go(t, "drain", to),
             to \notin Compiling \cup {"supersede"}, gates' = gates
      PROVE  GateInv'
  <2>1. \A u \in Threads : Gated(u)' => Gated(u)
    BY <1>2 DEF Go, Gated, TypeOK
  <2> QED
    BY <1>2, <2>1, GateStays
<1>3. ASSUME NEW t \in Threads, NEW to, NEW from \in Compiling, Go(t, from, to), gates' = gates
      PROVE  GateInv'
  <2>1. \A u \in Threads : Gated(u)' => Gated(u)
    BY <1>3 DEF Go, Gated, TypeOK
  <2> QED
    BY <1>3, <2>1, GateStays
<1>4. ASSUME NEW t \in Threads, NEW to \in {"idle", "leased"},
             NEW from \in Compiling \cup {"supersede"},
             Go(t, from, to), gates' = gates \ {Slug(t)}
      PROVE  GateInv'
  <2>1. Gated(t) /\ ~Gated(t)' /\ \A u \in Threads \ {t} : Gated(u)' => Gated(u)
    BY <1>4 DEF Go, Gated, TypeOK, Compiling
  <2> QED
    BY <1>4, <2>1, GateGiven
<1>5. CASE (\E s \in Slugs : Edit(s)) \/ HostCall \/ HostStep
  BY <1>1, <1>5 DEF Edit, HostCall, InvalidateOne, InvalidateAll, Close, Invalidate,
                    HostStep, HostCloses, ShutSaver, ForgetSaver, threadVars
<1>6. CASE \E t \in Threads, s \in Slugs : Use(t, s)
  BY <1>2, <1>6 DEF Use, Compiling
<1>7. ASSUME NEW t \in Threads,
             LookHit(t) \/ LookMiss(t) \/ GatedRetry(t) \/ GatedHit(t) \/ CloseDrained(t)
      PROVE  GateInv'
  <2>1. PICK to \in {"ask", "wait", "leased", "idle"} :
          /\ Go(t, "ask", to) \/ Go(t, "wait", to) \/ Go(t, "drain", to)
          /\ gates' = gates
    BY <1>7 DEF LookHit, LookMiss, GatedRetry, GatedHit, CloseDrained
  <2> QED
    BY <1>2, <2>1 DEF Compiling
<1>8. ASSUME NEW t \in Threads, Release(t) PROVE GateInv'
  <2>1. PICK to \in {"drain", "idle"} : Go(t, "leased", to) /\ gates' = gates
    BY <1>8 DEF Release
  <2> QED
    BY <1>2, <2>1 DEF Compiling
<1>9. ASSUME NEW t \in Threads, GatedMiss(t) PROVE GateInv'
  <2>1. /\ pc[t] = "wait" /\ pc' = [pc EXCEPT ![t] = "stamp"]
        /\ Slug(t) \notin gates /\ gates' = gates \cup {Slug(t)}
    BY <1>9 DEF GatedMiss, Go, GateFree
  <2>2. \A u \in Threads \ {t} : Gated(u)' => Gated(u) /\ Slug(u)' = Slug(u)
    BY <2>1, SlugIsKept DEF Gated, TypeOK, Compiling
  <2>3. Slug(t)' = Slug(t)
    BY <2>1, SlugIsKept DEF TypeOK
  <2>4. \A u \in Threads \ {t} : Gated(u)' => Slug(u) \in gates /\ Slug(u) # Slug(t)
    BY <2>1, <2>2 DEF GateInv
  <2> QED
    BY <2>1, <2>2, <2>3, <2>4 DEF GateInv
<1>10. ASSUME NEW t \in Threads,
              \/ StampOwn(t) \/ TestSaver(t) \/ OpenSaver(t) \/ TakeSaver(t)
              \/ ReadOwn(t) \/ StampMounts(t)
       PROVE  GateInv'
  <2>1. \E from \in Compiling : \E to : Go(t, from, to) /\ gates' = gates
    BY <1>10 DEF StampOwn, TestSaver, OpenSaver, TakeSaver, ReadOwn, StampMounts, Compiling
  <2> QED
    BY <1>3, <2>1
<1>11. ASSUME NEW t \in Threads, NEW m \in Slugs, ReadMount(t, m) PROVE GateInv'
  BY <1>1, <1>11 DEF ReadMount
<1>12. ASSUME NEW t \in Threads, LoadFails(t) \/ CloseSuperseded(t) PROVE GateInv'
  <2>1. \E from \in Compiling \cup {"supersede"}, to \in {"idle", "leased"} :
          Go(t, from, to) /\ gates' = gates \ {Slug(t)}
    BY <1>12 DEF LoadFails, CloseSuperseded, Compiling
  <2> QED
    BY <1>4, <2>1
<1>13. ASSUME NEW t \in Threads, Install(t) PROVE GateInv'
  <2>1. CASE SupersededFree(held[Slug(t)])
    <3>1. Go(t, "install", "supersede") /\ gates' = gates /\ "install" \in Compiling
      BY <1>13, <2>1 DEF Install, Compiling
    <3> QED
      BY <1>3, <3>1
  <2>2. CASE ~SupersededFree(held[Slug(t)])
    <3>1. Go(t, "install", "leased") /\ gates' = gates \ {Slug(t)} /\ "install" \in Compiling
      BY <1>13, <2>2 DEF Install, Compiling
    <3> QED
      BY <1>4, <3>1
  <2> QED
    BY <2>1, <2>2
<1>14. CASE UNCHANGED vars
  BY <1>1, <1>14 DEF vars
<1> QED
  BY <1>5, <1>6, <1>7, <1>8, <1>9, <1>10, <1>11, <1>12, <1>13, <1>14
  DEF Next, Entering, Leaving

\* Two requests arriving during an invalidation do not both compile
\* (live.py:133): per slug one thread at a time is behind the gate.
THEOREM OneCompileAtATime == Spec => []OneCompile
<1>1. Init => GateInv
  BY DEF Init, GateInv, Gated, Compiling
<1>2. IInv /\ GateInv /\ [Next]_vars => GateInv'
  BY GateStep
<1>3. GateInv => OneCompile
  BY DEF GateInv, Gated, OneCompile
<1> QED
  BY <1>1, <1>2, <1>3, Inductive, PTL DEF Spec
-----------------------------------------------------------------------------
(***************************************************************************)
(* LiveWorkflows implements WorkflowHolder.                                *)
(***************************************************************************)
StatusMap == [e \in Entries |-> Status(e)]
UsersMap  == [e \in Entries |-> Users(e)]

LEMMA HolderInit == Init => Holder!Init
<1> SUFFICES ASSUME Init PROVE Holder!Init
  OBVIOUS
<1>1. \A e \in Entries : Users(e) = {}
  BY DEF Init, Users, Using
<1>2. \A e \in Entries : Status(e) = "none"
  BY EntryFacts DEF Init, Status
<1> QED
  BY <1>1, <1>2 DEF Holder!Init, Init

\* A step that hands out, retires and closes nothing is a stutter.
LEMMA HolderStutters ==
  ASSUME UNCHANGED <<held, retired, closes>>,
         \A e \in Entries : Users(e)' = Users(e)
  PROVE  UNCHANGED Holder!vars
<1>1. \A e \in Entries : Status(e)' = Status(e)
  BY DEF Status
<1>2. StatusMap' = StatusMap /\ UsersMap' = UsersMap
  BY <1>1 DEF StatusMap, UsersMap
<1> QED
  BY <1>2 DEF Holder!vars, StatusMap, UsersMap

LEMMA QuietStutters == Quiet => UNCHANGED Holder!vars
<1> SUFFICES ASSUME Quiet PROVE UNCHANGED Holder!vars
  OBVIOUS
<1>1. \A e : Users(e)' = Users(e)
  BY PreInstallFacts DEF Quiet, Users, Using, Mine
<1> QED
  BY <1>1, HolderStutters DEF Quiet

\* Users change only at t, who was and who is inside these entries.
LEMMA UsersMove ==
  ASSUME NEW t \in Threads,
         \A u \in Threads \ {t} : pc'[u] = pc[u] /\ frame'[u] = frame[u]
  PROVE  \A e : Users(e)' = (Users(e) \ {t}) \cup {u \in {t} : Using(t)' /\ Mine(t)' = e}
BY DEF Users, Using, Mine

LEMMA HolderShares ==
  ASSUME IInv, NEW t \in Threads, LookHit(t) \/ GatedHit(t)
  PROVE  Holder!Share(Slug(t), t) /\ Slug(t) \in Slugs
<1> USE EntryFacts DEF IInv
<1>0. PICK e : e = held[Slug(t)]
  OBVIOUS
<1>1. pc[t] \in {"ask", "wait"} /\ pc[t] # "idle"
  BY DEF LookHit, GatedHit, Go
<1>2. Slug(t) \in Slugs /\ frame[t] \in Frame
  BY <1>1, FrameFacts
<1>3. /\ e \in Entries /\ UNCHANGED <<held, retired, closes>>
      /\ pc' = [pc EXCEPT ![t] = "leased"]
      /\ frame' = [frame EXCEPT ![t].mine = e]
  BY <1>0, <1>2 DEF LookHit, GatedHit, Lease, Go, TypeOK
<1>4. /\ pc'[t] = "leased" /\ Mine(t)' = e
      /\ \A u \in Threads \ {t} : pc'[u] = pc[u] /\ frame'[u] = frame[u]
  BY <1>2, <1>3 DEF TypeOK, Frame, Mine
<1>5. Users(e)' = Users(e) \cup {t} /\ \A f \in Entries \ {e} : Users(f)' = Users(f)
  BY <1>1, <1>4 DEF Users, Using, Mine
<1>6. Status(e) = "held"
  <2>1. e \notin retired /\ ~(closes[e] > 0)
    BY <1>0, <1>2, <1>3 DEF HeldIsLive, ClosedIsUnleased
  <2> QED
    BY <1>0, <1>2, <2>1 DEF Status
<1>7. \A f \in Entries : Status(f)' = Status(f)
  BY <1>3 DEF Status
<1>8. /\ StatusMap' = StatusMap /\ StatusMap[e] = "held"
      /\ UsersMap' = [UsersMap EXCEPT ![e] = @ \cup {t}]
  BY <1>3, <1>5, <1>6, <1>7 DEF StatusMap, UsersMap
<1> QED
  BY <1>0, <1>2, <1>3, <1>8 DEF Holder!Share, StatusMap, UsersMap

LEMMA HolderReplaces ==
  ASSUME IInv, NEW t \in Threads, Install(t)
  PROVE  Holder!Replace(Slug(t), Ticket(t), t) /\ Slug(t) \in Slugs /\ Ticket(t) \in Entries
<1> USE EntryFacts DEF IInv
<1>0. PICK n, s, old : n = Ticket(t) /\ s = Slug(t) /\ old = held[s]
  OBVIOUS
<1>1. pc[t] = "install" /\ pc[t] # "idle" /\ pc[t] \in PreInstall
  BY DEF Install, Go, PreInstall, Compiling
<1>2. s \in Slugs /\ n \in Entries /\ frame[t] \in Frame /\ old \in Entries \cup {NoEntry}
  BY <1>0, <1>1, FrameFacts DEF TypeOK
<1>3. /\ held' = [held EXCEPT ![s] = n] /\ closes' = closes
      /\ retired' = retired \cup ({old} \ {NoEntry})
      /\ pc' = [pc EXCEPT ![t] = IF SupersededFree(old) THEN "supersede" ELSE "leased"]
      /\ frame' = [frame EXCEPT ![t].mine = n, ![t].seen = old]
  BY <1>0 DEF Install, Go
<1>4. /\ pc'[t] \in {"supersede", "leased"} /\ Mine(t)' = n
      /\ \A u \in Threads \ {t} : pc'[u] = pc[u] /\ frame'[u] = frame[u]
  BY <1>2, <1>3 DEF TypeOK, Frame, Mine
<1>5. ~Installed(n) /\ closes[n] = 0
  BY <1>0, <1>1, <1>2 DEF TicketsAreFresh, ClosedIsUnleased, Installed, TypeOK
<1>6. \A u \in Threads : ~(Using(u) /\ Mine(u) = n)
  BY <1>5 DEF LeasedIsInstalled, Using
<1>7. Users(n)' = {t} /\ \A f \in Entries \ {n} : Users(f)' = Users(f)
  BY <1>1, <1>4, <1>6 DEF Users, Using, Mine
<1>8. old # NoEntry => old \notin retired /\ closes[old] = 0 /\ old # n
  BY <1>0, <1>2, <1>5 DEF HeldIsLive, ClosedIsUnleased, Installed, TypeOK
<1>9. Status(n) = "none" /\ Status(n)' = "held"
  <2>1. held'[s] = n
    BY <1>2, <1>3 DEF TypeOK
  <2>2. n \notin retired'
    BY <1>2, <1>3, <1>5, <1>8 DEF Installed
  <2> QED
    BY <1>2, <1>3, <1>5, <2>1, <2>2 DEF Status, Installed
<1>10. old \in Entries => Status(old)' = "retired"
  BY <1>3, <1>8 DEF Status
<1>11. \A f \in Entries \ {n, old} : Status(f)' = Status(f)
  <2>1. \A f \in Entries \ {n, old} :
          (\E r \in Slugs : held'[r] = f) <=> (\E r \in Slugs : held[r] = f)
    BY <1>0, <1>2, <1>3 DEF TypeOK
  <2> QED
    BY <1>3, <2>1 DEF Status
<1> DEFINE R == [f \in Entries |-> IF f \in {old} \ {NoEntry} THEN "retired" ELSE StatusMap[f]]
<1>12. /\ StatusMap[n] = "none"
       /\ StatusMap' = [R EXCEPT ![n] = "held"]
       /\ UsersMap' = [UsersMap EXCEPT ![n] = {t}]
  BY <1>2, <1>7, <1>9, <1>10, <1>11 DEF StatusMap, UsersMap
<1> QED
  BY <1>0, <1>2, <1>3, <1>12 DEF Holder!Replace, Holder!Retiring, StatusMap, UsersMap

LEMMA HolderLeaves ==
  ASSUME IInv, NEW t \in Threads, Release(t)
  PROVE  Holder!Leave(Mine(t), t) /\ Mine(t) \in Entries
<1> USE EntryFacts DEF IInv
<1>0. PICK e : e = Mine(t)
  OBVIOUS
<1>1. pc[t] = "leased" /\ e \in Entries /\ Using(t)
  BY <1>0 DEF Release, Go, LeasedIsInstalled, Using
<1>2. /\ UNCHANGED <<held, retired, closes>>
      /\ pc' = [pc EXCEPT ![t] = IF LastOut(e) THEN "drain" ELSE "idle"]
      /\ frame' = IF LastOut(e) THEN frame ELSE [frame EXCEPT ![t] = NoFrame]
  BY <1>0 DEF Release, Go
<1>3. /\ ~Using(t)'
      /\ \A u \in Threads \ {t} : pc'[u] = pc[u] /\ frame'[u] = frame[u]
  BY <1>2 DEF TypeOK, Using
<1>4. Users(e)' = Users(e) \ {t} /\ \A f \in Entries \ {e} : Users(f)' = Users(f)
  BY <1>0, <1>1, <1>3 DEF Users, Using, Mine
<1>5. \A f \in Entries : Status(f)' = Status(f)
  BY <1>2 DEF Status
<1>6. t \in Users(e)
  BY <1>0, <1>1 DEF Users
<1>7. /\ StatusMap' = StatusMap /\ t \in UsersMap[e]
      /\ UsersMap' = [UsersMap EXCEPT ![e] = @ \ {t}]
  BY <1>1, <1>4, <1>5, <1>6 DEF StatusMap, UsersMap
<1> QED
  BY <1>0, <1>1, <1>2, <1>7 DEF Holder!Leave, StatusMap, UsersMap

\* Whoever closes an entry closes a retired one that nobody is inside.
LEMMA HolderCloses ==
  ASSUME IInv, NEW e \in Entries, e \in retired, leases[e] = 0, closes[e] = 0,
         UNCHANGED <<held, retired>>, closes' = [closes EXCEPT ![e] = @ + 1],
         \A f \in Entries : Users(f)' = Users(f)
  PROVE  Holder!Close(e)
<1> USE EntryFacts DEF IInv
<1>1. closes'[e] = 1 /\ \A f \in Entries \ {e} : closes'[f] = closes[f]
  BY DEF TypeOK
<1>2. Users(e) = {}
  BY UsersFinite, FS_EmptySet DEF LeasesCounted
<1>3. Status(e) = "retired" /\ Status(e)' = "closed"
  BY <1>1 DEF Status
<1>4. \A f \in Entries \ {e} : Status(f)' = Status(f)
  BY <1>1 DEF Status
<1>5. /\ StatusMap[e] = "retired" /\ UsersMap[e] = {} /\ UsersMap' = UsersMap
      /\ StatusMap' = [StatusMap EXCEPT ![e] = "closed"]
  BY <1>2, <1>3, <1>4 DEF StatusMap, UsersMap
<1> QED
  BY <1>5 DEF Holder!Close, StatusMap, UsersMap

LEMMA ThreadCloses ==
  ASSUME IInv, NEW t \in Threads, CloseSuperseded(t) \/ CloseDrained(t)
  PROVE  \E e \in Entries : Holder!Close(e)
<1> USE EntryFacts DEF IInv
<1>0. PICK e : e = IF pc[t] = "supersede" THEN Seen(t) ELSE Mine(t)
  OBVIOUS
<1>1. /\ pc[t] \in {"supersede", "drain"}
      /\ UNCHANGED <<held, retired>>
      /\ closes' = [closes EXCEPT ![e] = @ + 1]
  BY <1>0 DEF CloseSuperseded, CloseDrained, Go, entryVars
<1>2. Claims(t, e) /\ e \in Entries \cup {NoEntry}
  BY <1>0, <1>1 DEF Claims, TypeOK, Frame, Seen, Mine
<1>3. e \in retired /\ leases[e] = 0 /\ closes[e] = 0 /\ e \in Entries
  BY <1>2 DEF ClaimsAreExclusive, TypeOK
<1>4. \/ pc[t] = "supersede" /\ pc'[t] = "leased" /\ frame'[t] = frame[t]
      \/ pc[t] = "drain" /\ pc'[t] = "idle"
  BY DEF CloseSuperseded, CloseDrained, Go, TypeOK, threadVars
<1>5. \A u \in Threads \ {t} : pc'[u] = pc[u] /\ frame'[u] = frame[u]
  BY DEF CloseSuperseded, CloseDrained, Go, TypeOK, threadVars
<1>6. \A f : Users(f)' = Users(f)
  BY <1>4, <1>5 DEF Users, Using, Mine
<1> QED
  BY <1>1, <1>3, <1>6, HolderCloses

LEMMA HolderRetires ==
  ASSUME IInv, NEW S \in SUBSET Slugs, NEW final, Invalidate(S, final)
  PROVE  Holder!Retire(S)
<1> USE EntryFacts DEF IInv
<1>1. /\ UNCHANGED <<closes, pc, frame>>
      /\ held' = [s \in Slugs |-> IF s \in S THEN NoEntry ELSE held[s]]
      /\ retired' = retired \cup HeldOf(S)
  BY DEF Invalidate, threadVars
<1>2. \A f : Users(f)' = Users(f)
  BY <1>1 DEF Users, Using, Mine
<1>3. \A f \in HeldOf(S) : f \in Entries /\ closes[f] = 0
  <2>1. \A f \in HeldOf(S) : f \in Entries /\ f \notin retired
    BY DEF HeldOf, TypeOK, HeldIsLive
  <2>2. ASSUME NEW f \in Entries, f \notin retired PROVE closes[f] = 0
    <3>1. closes[f] \in Nat
      BY DEF TypeOK
    <3>2. ~(closes[f] > 0)
      BY <2>2 DEF ClosedIsUnleased
    <3> QED
      BY <3>1, <3>2
  <2> QED
    BY <2>1, <2>2
<1>4. \A f \in Entries : f \in HeldOf(S) => Status(f)' = "retired"
  BY <1>1, <1>3 DEF Status
<1>5. \A f \in Entries : f \notin HeldOf(S) => Status(f)' = Status(f)
  <2> SUFFICES ASSUME NEW f \in Entries, f \notin HeldOf(S)
               PROVE  Status(f)' = Status(f)
    OBVIOUS
  <2>1. \A s \in Slugs : held'[s] = f <=> held[s] = f
    BY <1>1 DEF HeldOf
  <2> QED
    BY <1>1, <2>1 DEF Status
<1>6. /\ UsersMap' = UsersMap
      /\ StatusMap' = [f \in Entries |-> IF f \in HeldOf(S) THEN "retired" ELSE StatusMap[f]]
  BY <1>2, <1>4, <1>5 DEF StatusMap, UsersMap
<1> QED
  BY <1>1, <1>6 DEF Holder!Retire, Holder!Retiring, StatusMap, UsersMap, HeldOf

LEMMA HolderStep ==
  ASSUME IInv, [Next]_vars
  PROVE  [Holder!Next]_(Holder!vars)
<1>1. CASE UNCHANGED vars
  <2>1. UNCHANGED <<held, retired, closes>> /\ \A e \in Entries : Users(e)' = Users(e)
    BY <1>1 DEF vars, Users, Using, Mine
  <2> QED
    BY <2>1, HolderStutters
<1>2. CASE (\E s \in Slugs : Edit(s)) \/ ShutSaver \/ ForgetSaver
  BY <1>2, QuietSteps, QuietStutters
<1>3. ASSUME NEW t \in Threads,
             \/ LookMiss(t) \/ GatedRetry(t) \/ GatedMiss(t)
             \/ TestSaver(t) \/ OpenSaver(t) \/ LoadFails(t)
             \/ StampOwn(t) \/ TakeSaver(t) \/ ReadOwn(t)
             \/ (\E m \in Slugs : ReadMount(t, m)) \/ StampMounts(t)
      PROVE  UNCHANGED Holder!vars
  BY <1>3, QuietSteps, QuietStutters
<1>4. ASSUME NEW t \in Threads, NEW s \in Slugs, Use(t, s)
      PROVE  UNCHANGED Holder!vars
  <2>1. /\ UNCHANGED <<held, retired, closes>>
        /\ pc[t] = "idle" /\ pc'[t] = "ask"
        /\ \A u \in Threads \ {t} : pc'[u] = pc[u] /\ frame'[u] = frame[u]
    BY <1>4 DEF IInv, TypeOK, Use, Go, entryVars
  <2>2. \A e \in Entries : Users(e)' = Users(e)
    BY <2>1 DEF Users, Using, Mine
  <2> QED
    BY <2>1, <2>2, HolderStutters
<1>5. ASSUME NEW t \in Threads, LookHit(t) \/ GatedHit(t)
      PROVE  Holder!Next
  BY <1>5, HolderShares DEF Holder!Next
<1>6. ASSUME NEW t \in Threads, Install(t)
      PROVE  Holder!Next
  BY <1>6, HolderReplaces DEF Holder!Next
<1>7. ASSUME NEW t \in Threads, Release(t)
      PROVE  Holder!Next
  BY <1>7, HolderLeaves DEF Holder!Next
<1>8. ASSUME NEW t \in Threads, CloseSuperseded(t) \/ CloseDrained(t)
      PROVE  Holder!Next
  BY <1>8, ThreadCloses DEF Holder!Next
<1>9. ASSUME NEW e \in Entries, HostCloses(e)
      PROVE  Holder!Next
  <2>1. /\ e \in retired /\ leases[e] = 0 /\ closes[e] = 0
        /\ UNCHANGED <<held, retired, pc, frame>> /\ closes' = [closes EXCEPT ![e] = @ + 1]
    BY <1>9 DEF IInv, HostCloses, entryVars, threadVars, ClaimsAreExclusive
  <2>2. \A f \in Entries : Users(f)' = Users(f)
    BY <2>1 DEF Users, Using, Mine
  <2>3. Holder!Close(e)
    BY <2>1, <2>2, HolderCloses
  <2> QED
    BY <2>3 DEF Holder!Next
<1>10. CASE HostCall
  <2>1. PICK S \in SUBSET Slugs, final \in BOOLEAN : Invalidate(S, final)
    BY <1>10 DEF HostCall, InvalidateOne, InvalidateAll, Close
  <2>2. Holder!Retire(S)
    BY <2>1, HolderRetires
  <2> QED
    BY <2>2 DEF Holder!Next
<1> QED
  BY <1>1, <1>2, <1>3, <1>4, <1>5, <1>6, <1>7, <1>8, <1>9, <1>10
  DEF Next, Entering, Leaving, HostStep

\* What the code promises its callers, whatever stamps, gates and compiles do:
\* one current graph per slug, shared by its leases; a graph taken out of the
\* map is handed to nobody new and closed once, after its last lease.
THEOREM ImplementsHolder == Spec => HolderSpec
<1>1. Init => Holder!Init
  BY HolderInit
<1>2. IInv /\ [Next]_vars => [Holder!Next]_(Holder!vars)
  BY HolderStep
<1> QED
  BY <1>1, <1>2, Inductive, PTL DEF Spec, HolderSpec, Holder!Spec
-----------------------------------------------------------------------------
(***************************************************************************)
(* FreshLease, when no edit puts earlier bytes back: then a version only   *)
(* grows and a package that is there stays, so what a compile reads is at  *)
(* least what the caller asked for, and an entry whose stamps still match  *)
(* was read from the disk as it is.                                        *)
(***************************************************************************)
Fresh(g, asked) ==
  /\ g.built[g.slug] >= asked[g.slug]
  /\ \A m \in g.wanted : asked[m] > 0 => g.built[m] > 0

\* What the stamps of a finished compile say of what it read.
Sound(g) ==
  /\ g.slug \in g.covers /\ g.stamps[g.slug] =< g.built[g.slug]
  /\ \A m \in g.wanted : m \in g.listing => g.built[m] > 0

Unstamped == {"ask", "wait", "stamp"}
Unread  == {"ask", "wait", "stamp", "resolve", "open", "take", "read"}
Listed  == {"resolve", "open", "take", "read", "mounts", "install"}
ReadPcs == {"mounts", "install"}

FreshThread(t) ==
  LET g == graph[Ticket(t)]
      asked == frame[t].asked IN
  /\ pc[t] # "idle" => \A m \in Slugs : asked[m] =< disk[m]
  /\ pc[t] \in Unstamped => g.covers = {}
  /\ pc[t] \in Unread => g.wanted = {g.slug}
  /\ pc[t] \in Listed => g.slug \in g.covers /\ g.stamps[g.slug] =< disk[g.slug]
  /\ pc[t] \in ReadPcs => Sound(g) /\ Fresh(g, asked)
  /\ Using(t) => Fresh(graph[Mine(t)], asked)

FreshMap ==
  /\ \A e \in Entries : \A m \in graph[e].listing : disk[m] > 0
  /\ \A s \in Slugs : held[s] # NoEntry => Sound(graph[held[s]])

FreshInv == FreshMap /\ \A t \in Threads : FreshThread(t)

\* No version on the disk falls.
Grows == \A m \in Slugs : disk[m] \in Nat /\ disk'[m] \in Nat /\ disk[m] =< disk'[m]

LEMMA DiskFacts == TypeOK => \A m \in Slugs : disk[m] \in Nat
BY SizesAreNaturals DEF TypeOK, Versions

\* What the types say of a thread inside use().
LEMMA ThreadFacts ==
  ASSUME IInv, NEW t \in Threads, pc[t] # "idle"
  PROVE  /\ frame[t] \in Frame /\ Ticket(t) \in Entries /\ graph[Ticket(t)] \in Graph
         /\ Slug(t) \in Slugs /\ frame[t].asked \in [Slugs -> Nat]
         /\ Using(t) => Mine(t) \in Entries /\ graph[Mine(t)] \in Graph
<1>1. frame[t] \in Frame /\ Ticket(t) \in Entries /\ Slug(t) \in Slugs
  BY FrameFacts DEF IInv
<1>2. graph[Ticket(t)] \in Graph /\ (Using(t) => Mine(t) \in Entries /\ graph[Mine(t)] \in Graph)
  BY <1>1 DEF IInv, TypeOK, LeasedIsInstalled
<1>3. frame[t].asked \in [Slugs -> Nat]
  BY <1>1, SizesAreNaturals DEF Frame, Versions
<1> QED
  BY <1>1, <1>2, <1>3

\* A thread that does not move, while the graph of another is written.
LEMMA OthersStayFresh ==
  ASSUME IInv, FreshInv, Grows, NEW n, NEW u \in Threads,
         pc'[u] = pc[u], frame'[u] = frame[u],
         \A e \in Entries : e # n => graph'[e] = graph[e],
         pc[u] \in PreInstall => Ticket(u) # n, Using(u) => Mine(u) # n
  PROVE  FreshThread(u)'
<1>1. CASE pc[u] = "idle"
  BY <1>1 DEF FreshThread, Unread, Unstamped, Listed, ReadPcs, Using
<1>2. CASE pc[u] # "idle"
  <2>1. /\ frame[u] \in Frame /\ Ticket(u) \in Entries /\ graph[Ticket(u)] \in Graph
        /\ Slug(u) \in Slugs /\ frame[u].asked \in [Slugs -> Nat]
        /\ Using(u) => Mine(u) \in Entries /\ graph[Mine(u)] \in Graph
    BY <1>2, ThreadFacts
  <2>2. FreshThread(u)
    BY DEF FreshInv
  <2>3. Ticket(u)' = Ticket(u) /\ Mine(u)' = Mine(u) /\ (Using(u)' <=> Using(u))
    BY DEF Ticket, Mine, Using
  <2>4. pc[u] \in Unread \cup Listed \cup ReadPcs => graph'[Ticket(u)] = graph[Ticket(u)]
    BY <2>1 DEF Unread, Listed, ReadPcs, PreInstall, Compiling
  <2>11. pc'[u] \in Unstamped => graph'[Ticket(u)].covers = {}
    BY <2>2, <2>4 DEF FreshThread, Unstamped, Unread
  <2>5. Using(u) => graph'[Mine(u)] = graph[Mine(u)]
    BY <2>1
  <2>6. \A m \in Slugs : frame[u].asked[m] =< disk'[m]
    BY <1>2, <2>1, <2>2 DEF FreshThread, Grows
  <2>7. pc[u] \in Listed =>
          LET g == graph[Ticket(u)]
          IN  g.slug \in g.covers /\ g.stamps[g.slug] =< disk'[g.slug]
    <3>1. /\ graph[Ticket(u)].slug \in Slugs
          /\ graph[Ticket(u)].stamps[graph[Ticket(u)].slug] \in Nat
      BY <2>1, SizesAreNaturals DEF Graph, Versions
    <3> QED
      BY <2>2, <3>1 DEF FreshThread, Grows
  <2>8. pc'[u] \in Unread => graph'[Ticket(u)].wanted = {graph'[Ticket(u)].slug}
    BY <2>2, <2>4 DEF FreshThread
  <2>9. pc'[u] \in ReadPcs => Sound(graph'[Ticket(u)]) /\ Fresh(graph'[Ticket(u)], frame'[u].asked)
    BY <2>2, <2>4 DEF FreshThread
  <2>10. Using(u) => Fresh(graph'[Mine(u)], frame'[u].asked)
    BY <2>2, <2>5 DEF FreshThread
  <2> QED
    BY <2>3, <2>4, <2>6, <2>7, <2>8, <2>9, <2>10, <2>11 DEF FreshThread
<1> QED
  BY <1>1, <1>2

\* The map, while a graph is written that is not in it.
LEMMA MapStaysFresh ==
  ASSUME IInv, FreshInv, Grows, NEW n, UNCHANGED held,
         \A e \in Entries : e # n => graph'[e] = graph[e],
         n \in Entries => \A m \in graph'[n].listing : disk'[m] > 0,
         \A s \in Slugs : held[s] # n \/ held[s] = NoEntry
  PROVE  FreshMap'
<1>1. ASSUME NEW e \in Entries, NEW m \in graph'[e].listing PROVE disk'[m] > 0
  <2>1. CASE e = n
    BY <1>1, <2>1
  <2>2. CASE e # n
    <3>1. m \in graph[e].listing /\ m \in Slugs
      BY <1>1, <2>2 DEF IInv, TypeOK, Graph
    <3>2. disk[m] > 0
      BY <3>1 DEF FreshInv, FreshMap
    <3> QED
      BY <3>1, <3>2 DEF Grows
  <2> QED
    BY <2>1, <2>2
<1>2. ASSUME NEW s \in Slugs, held[s] # NoEntry PROVE Sound(graph'[held[s]])
  <2>1. held[s] \in Entries /\ held[s] # n
    BY <1>2 DEF IInv, TypeOK
  <2> QED
    BY <1>2, <2>1 DEF FreshInv, FreshMap
<1> QED
  BY <1>1, <1>2 DEF FreshMap

\* The graph of a ticket that is not installed yet is nobody else's.
LEMMA TicketIsMine ==
  ASSUME IInv, NEW t \in Threads, pc[t] \in PreInstall
  PROVE  /\ \A u \in Threads \ {t} : pc[u] \in PreInstall => Ticket(u) # Ticket(t)
         /\ \A u \in Threads : Using(u) => Mine(u) # Ticket(t)
         /\ \A s \in Slugs : held[s] # Ticket(t)
BY PreInstallFacts DEF IInv, TicketsAreFresh, LeasedIsInstalled, Installed, Using
\* A step of t that writes no graph and no disk: t and the map decide.
LEMMA FreshAfterMove ==
  ASSUME IInv, FreshInv, NEW t \in Threads, UNCHANGED <<disk, graph>>,
         \A u \in Threads \ {t} : pc'[u] = pc[u] /\ frame'[u] = frame[u],
         FreshThread(t)',
         \A s \in Slugs : held'[s] # NoEntry => held'[s] = held[s] \/ Sound(graph[held'[s]])
  PROVE  FreshInv'
<1>1. Grows
  BY DiskFacts DEF IInv, Grows
<1>2. PICK n : n \notin Entries /\ n \notin {Ticket(u) : u \in Threads} \cup {Mine(u) : u \in Threads}
  <2>1. \E n : n \notin Entries \cup {Ticket(u) : u \in Threads} \cup {Mine(u) : u \in Threads}
    BY NoSetContainsEverything
  <2> QED
    BY <2>1
<1>3. ASSUME NEW u \in Threads \ {t} PROVE FreshThread(u)'
  BY <1>1, <1>2, OthersStayFresh
<1>4. FreshMap'
  BY DEF FreshInv, FreshMap
<1> QED
  BY <1>3, <1>4 DEF FreshInv

\* A compile of t writes the graph of its ticket.
LEMMA FreshAfterRead ==
  ASSUME IInv, FreshInv, NEW t \in Threads, pc[t] \in PreInstall, UNCHANGED <<disk, held>>,
         \A u \in Threads \ {t} : pc'[u] = pc[u] /\ frame'[u] = frame[u],
         \A e \in Entries : e # Ticket(t) => graph'[e] = graph[e],
         \A m \in graph'[Ticket(t)].listing : disk[m] > 0,
         FreshThread(t)'
  PROVE  FreshInv'
<1>1. Grows
  BY DiskFacts DEF IInv, Grows
<1>2. PICK n : n = Ticket(t)
  OBVIOUS
<1>3. ASSUME NEW u \in Threads \ {t} PROVE FreshThread(u)'
  BY <1>1, <1>2, OthersStayFresh, TicketIsMine
<1>4. FreshMap'
  BY <1>1, <1>2, MapStaysFresh, TicketIsMine
<1> QED
  BY <1>3, <1>4 DEF FreshInv

\* A held entry that is current was read from the disk as it is.
LEMMA CurrentIsFresh ==
  ASSUME IInv, FreshInv, NEW t \in Threads, pc[t] # "idle", NEW e \in Entries,
         e = held[Slug(t)], Current(e)
  PROVE  Fresh(graph[e], frame[t].asked)
<1> DEFINE g == graph[e]
           asked == frame[t].asked
<1>1. /\ Slug(t) \in Slugs /\ asked \in [Slugs -> Nat]
      /\ \A m \in Slugs : asked[m] =< disk[m]
  BY ThreadFacts DEF FreshInv, FreshThread
<1>2. g \in Graph /\ g.slug = Slug(t) /\ Sound(g)
  BY <1>1, EntryFacts DEF IInv, TypeOK, HeldIsLive, FreshInv, FreshMap
<1>3. g.stamps[g.slug] = disk[g.slug] /\ g.listing = Listing
  BY <1>2 DEF Current, Sound
<1>4. /\ g.built[g.slug] \in Nat /\ disk[g.slug] \in Nat /\ asked[g.slug] \in Nat
      /\ disk[g.slug] =< g.built[g.slug] /\ asked[g.slug] =< disk[g.slug]
  BY <1>1, <1>2, <1>3, DiskFacts, SizesAreNaturals DEF IInv, Sound, Graph, Versions
<1>5. ASSUME NEW m \in g.wanted, asked[m] > 0 PROVE g.built[m] > 0
  <2>1. m \in Slugs /\ disk[m] \in Nat /\ asked[m] \in Nat /\ asked[m] =< disk[m]
    BY <1>1, <1>2, DiskFacts DEF IInv, Graph
  <2>2. m \in g.listing
    BY <1>3, <1>5, <2>1 DEF Listing
  <2> QED
    BY <1>2, <2>2 DEF Sound
<1>6. g.built[g.slug] >= asked[g.slug]
  BY <1>4
<1> QED
  BY <1>5, <1>6 DEF Fresh

\* Looking, waiting, resolving the checkpointer, failing and leaving.
LEMMA MovesKeepFresh ==
  ASSUME IInv, FreshInv, NEW t \in Threads,
         \/ LookMiss(t) \/ GatedRetry(t) \/ GatedMiss(t) \/ TestSaver(t) \/ OpenSaver(t)
         \/ LoadFails(t) \/ CloseSuperseded(t) \/ Release(t) \/ CloseDrained(t)
  PROVE  FreshInv'
<1> USE DEF IInv
<1>1. pc[t] # "idle"
  BY DEF LookMiss, GatedRetry, GatedMiss, TestSaver, OpenSaver, LoadFails, CloseSuperseded,
         Release, CloseDrained, Go
<1>2. frame[t] \in Frame
  BY <1>1, ThreadFacts
<1>3. /\ UNCHANGED <<disk, graph, held>>
      /\ \A u \in Threads \ {t} : pc'[u] = pc[u] /\ frame'[u] = frame[u]
  <2>1. CASE LookMiss(t) \/ GatedRetry(t) \/ GatedMiss(t) \/ TestSaver(t) \/ OpenSaver(t)
    BY <2>1 DEF LookMiss, GatedRetry, GatedMiss, TestSaver, OpenSaver, Go, TypeOK,
                diskVars, entryVars
  <2>2. CASE LoadFails(t) \/ CloseSuperseded(t) \/ Release(t) \/ CloseDrained(t)
    BY <2>2 DEF LoadFails, CloseSuperseded, Release, CloseDrained, Go, TypeOK,
                diskVars, entryVars
  <2> QED
    BY <2>1, <2>2
<1>4. \/ pc'[t] = "idle"
      \/ pc'[t] = "drain" /\ frame'[t] = frame[t]
      \/ pc[t] = "supersede" /\ pc'[t] = "leased" /\ frame'[t] = frame[t]
      \/ /\ pc[t] \in {"ask", "wait"} /\ pc'[t] \in {"ask", "wait", "stamp"}
         /\ frame'[t].ticket = frame[t].ticket /\ frame'[t].asked = frame[t].asked
      \/ /\ pc[t] \in {"resolve", "open"} /\ pc'[t] \in {"open", "take"}
         /\ frame'[t].ticket = frame[t].ticket /\ frame'[t].asked = frame[t].asked
  <2>1. CASE LookMiss(t)
    BY <1>2, <2>1 DEF LookMiss, Go, TypeOK, Frame
  <2>2. ASSUME NEW from, NEW to, Go(t, from, to), frame' = frame,
               \/ from = "wait" /\ to \in {"ask", "stamp"}
               \/ from \in {"resolve", "open"} /\ to \in {"open", "take"}
        PROVE  \/ /\ pc[t] \in {"ask", "wait"} /\ pc'[t] \in {"ask", "wait", "stamp"}
                  /\ frame'[t].ticket = frame[t].ticket /\ frame'[t].asked = frame[t].asked
               \/ /\ pc[t] \in {"resolve", "open"} /\ pc'[t] \in {"open", "take"}
                  /\ frame'[t].ticket = frame[t].ticket /\ frame'[t].asked = frame[t].asked
    BY <2>2 DEF Go, TypeOK
  <2>4. CASE GatedRetry(t) \/ GatedMiss(t) \/ TestSaver(t) \/ OpenSaver(t)
    <3>1. /\ frame' = frame
          /\ \/ Go(t, "wait", "ask") \/ Go(t, "wait", "stamp")
             \/ Go(t, "resolve", "open") \/ Go(t, "resolve", "take") \/ Go(t, "open", "take")
      BY <2>4, Zenon DEF GatedRetry, GatedMiss, TestSaver, OpenSaver
    <3> QED
      BY <2>2, <3>1
  <2>3. CASE LoadFails(t) \/ CloseDrained(t)
    BY <2>3 DEF LoadFails, CloseDrained, Go, TypeOK
  <2>5. CASE CloseSuperseded(t)
    BY <2>5 DEF CloseSuperseded, Go, TypeOK, threadVars
  <2>6. CASE Release(t)
    BY <2>6 DEF Release, Go, TypeOK
  <2> QED
    BY <2>1, <2>2, <2>3, <2>4, <2>5, <2>6
<1>5. FreshThread(t)'
  BY <1>1, <1>3, <1>4 DEF FreshInv, FreshThread, Unread, Unstamped, Listed, ReadPcs,
                             Using, Ticket, Mine
<1> QED
  BY <1>3, <1>5, FreshAfterMove

LEMMA HitsKeepFresh ==
  ASSUME IInv, FreshInv, NEW t \in Threads, LookHit(t) \/ GatedHit(t)
  PROVE  FreshInv'
<1> USE DEF IInv
<1>0. PICK e : e = held[Slug(t)]
  OBVIOUS
<1>1. pc[t] # "idle"
  BY DEF LookHit, GatedHit, Go
<1>2. frame[t] \in Frame /\ Slug(t) \in Slugs
  BY <1>1, ThreadFacts
<1>3. /\ UNCHANGED <<disk, graph, held>> /\ e \in Entries /\ Current(e)
      /\ pc' = [pc EXCEPT ![t] = "leased"]
      /\ frame' = [frame EXCEPT ![t].mine = e]
  BY <1>0, <1>2 DEF LookHit, GatedHit, Lease, Go, TypeOK, diskVars
<1>4. /\ pc'[t] = "leased" /\ frame'[t].mine = e /\ frame'[t].asked = frame[t].asked
      /\ \A u \in Threads \ {t} : pc'[u] = pc[u] /\ frame'[u] = frame[u]
  BY <1>2, <1>3 DEF TypeOK, Frame
<1>5. Fresh(graph[e], frame[t].asked)
  BY <1>0, <1>1, <1>3, CurrentIsFresh
<1>6. FreshThread(t)'
  BY <1>1, <1>3, <1>4, <1>5
  DEF FreshInv, FreshThread, Unread, Unstamped, Listed, ReadPcs, Using, Mine
<1> QED
  BY <1>3, <1>4, <1>6, FreshAfterMove

LEMMA InstallKeepsFresh ==
  ASSUME IInv, FreshInv, NEW t \in Threads, Install(t)
  PROVE  FreshInv'
<1> USE DEF IInv
<1>1. pc[t] = "install" /\ pc[t] # "idle" /\ pc[t] \in ReadPcs
  BY DEF Install, Go, ReadPcs
<1>2. frame[t] \in Frame /\ Slug(t) \in Slugs
  BY <1>1, ThreadFacts
<1>3. /\ UNCHANGED <<disk, graph>>
      /\ held' = [held EXCEPT ![Slug(t)] = Ticket(t)]
      /\ frame' = [frame EXCEPT ![t].mine = Ticket(t), ![t].seen = held[Slug(t)]]
      /\ pc'[t] \in {"supersede", "leased"}
      /\ \A u \in Threads \ {t} : pc'[u] = pc[u]
  BY DEF Install, Go, TypeOK, diskVars
<1>4. /\ frame'[t].mine = Ticket(t) /\ frame'[t].asked = frame[t].asked
      /\ \A u \in Threads \ {t} : frame'[u] = frame[u]
  BY <1>2, <1>3 DEF TypeOK, Frame
<1>5. Sound(graph[Ticket(t)]) /\ Fresh(graph[Ticket(t)], frame[t].asked)
  BY <1>1 DEF FreshInv, FreshThread
<1>6. FreshThread(t)'
  BY <1>1, <1>3, <1>4, <1>5
  DEF FreshInv, FreshThread, Unread, Unstamped, Listed, ReadPcs, Using, Mine
<1>7. \A s \in Slugs : held'[s] = held[s] \/ Sound(graph[held'[s]])
  BY <1>2, <1>3, <1>5 DEF TypeOK
<1> QED
  BY <1>3, <1>4, <1>6, <1>7, FreshAfterMove

\* What a step of a compile reads and where it writes.
LEMMA CompileFacts ==
  ASSUME IInv, FreshInv, NEW t \in Threads, pc[t] \in Compiling
  PROVE  /\ pc[t] \in PreInstall /\ pc[t] # "idle" /\ ~Using(t)
         /\ frame[t] \in Frame /\ Ticket(t) \in Entries /\ graph[Ticket(t)] \in Graph
         /\ Slug(t) \in Slugs /\ disk[Slug(t)] \in Nat
         /\ graph[Ticket(t)].slug = Slug(t) /\ graph[Ticket(t)].stamps[Slug(t)] \in Nat
         /\ graph[Ticket(t)].wanted \subseteq Slugs /\ graph[Ticket(t)].listing \subseteq Slugs
         /\ \A m \in Slugs :
              /\ frame[t].asked[m] \in Nat /\ disk[m] \in Nat /\ frame[t].asked[m] =< disk[m]
              /\ graph[Ticket(t)].built[m] \in Nat
         /\ \A m \in graph[Ticket(t)].listing : disk[m] > 0
<1>1. pc[t] \in PreInstall /\ pc[t] # "idle" /\ ~Using(t)
  BY DEF PreInstall, Compiling, Using
<1>2. /\ frame[t] \in Frame /\ Ticket(t) \in Entries /\ graph[Ticket(t)] \in Graph
      /\ Slug(t) \in Slugs /\ frame[t].asked \in [Slugs -> Nat]
  BY <1>1, ThreadFacts
<1>3. \A m \in Slugs : disk[m] \in Nat
  BY DiskFacts DEF IInv
<1>4. /\ graph[Ticket(t)].slug = Slug(t) /\ graph[Ticket(t)].stamps \in [Slugs -> Nat]
      /\ graph[Ticket(t)].built \in [Slugs -> Nat]
      /\ graph[Ticket(t)].wanted \subseteq Slugs /\ graph[Ticket(t)].listing \subseteq Slugs
  BY <1>2, SizesAreNaturals DEF Slug, Graph, Versions
<1>5. \A m \in Slugs : frame[t].asked[m] =< disk[m]
  BY <1>1 DEF FreshInv, FreshThread
<1>6. \A m \in graph[Ticket(t)].listing : disk[m] > 0
  BY <1>2 DEF FreshInv, FreshMap
<1> QED
  BY <1>1, <1>2, <1>3, <1>4, <1>5, <1>6

\* The package's own digest and the listing are taken before the compile.
LEMMA StampOwnKeepsFresh ==
  ASSUME IInv, FreshInv, NEW t \in Threads, StampOwn(t)
  PROVE  FreshInv'
<1> USE DEF IInv
<1>1. pc[t] = "stamp" /\ pc[t] \in Compiling
  BY DEF StampOwn, Go, Compiling
<1>2. PICK n : n = Ticket(t)
  OBVIOUS
<1>3. PICK g : g = graph[n]
  OBVIOUS
<1>4. /\ pc'[t] = "resolve" /\ frame' = frame /\ UNCHANGED <<disk, held>>
      /\ \A u \in Threads \ {t} : pc'[u] = pc[u]
      /\ \A e \in Entries : e # n => graph'[e] = graph[e]
      /\ graph'[n] = [Stamped(g, {Slug(t)}) EXCEPT !.listing = Listing]
  <2>1. n \in Entries
    BY <1>1, <1>2, CompileFacts
  <2>2. graph' = [graph EXCEPT ![n] = [Stamped(g, {Slug(t)}) EXCEPT !.listing = Listing]]
    BY <1>2, <1>3, Zenon DEF StampOwn
  <2>3. PICK h : h = [Stamped(g, {Slug(t)}) EXCEPT !.listing = Listing]
    OBVIOUS
  <2>4. graph'[n] = h /\ \A e \in Entries : e # n => graph'[e] = graph[e]
    BY <2>1, <2>2, <2>3 DEF TypeOK
  <2>5. /\ pc'[t] = "resolve" /\ frame' = frame /\ UNCHANGED <<disk, held>>
        /\ \A u \in Threads \ {t} : pc'[u] = pc[u]
    BY DEF StampOwn, Go, TypeOK, diskVars, entryVars
  <2> QED
    BY <2>3, <2>4, <2>5
<1>5. g.covers = {} /\ g.wanted = {g.slug} /\ g \in Graph /\ g.slug = Slug(t) /\ Slug(t) \in Slugs
  BY <1>1, <1>2, <1>3, CompileFacts DEF FreshInv, FreshThread, Unstamped, Unread
<1>6. /\ graph'[n].slug = g.slug /\ graph'[n].wanted = g.wanted /\ graph'[n].listing = Listing
      /\ graph'[n].covers = {g.slug} /\ graph'[n].stamps[g.slug] = disk[g.slug]
  BY <1>4, <1>5 DEF Stamped, Graph
<1>7. FreshThread(t)'
  <2>1. /\ frame'[t].asked = frame[t].asked /\ Ticket(t)' = n
        /\ \A m \in Slugs : frame[t].asked[m] =< disk'[m]
    BY <1>1, <1>2, <1>4, CompileFacts DEF Ticket
  <2>2. disk'[g.slug] = disk[g.slug] /\ disk[g.slug] \in Nat
    BY <1>1, <1>4, <1>5, CompileFacts
  <2>3. graph'[n].stamps[g.slug] =< disk'[g.slug]
    BY <1>6, <2>2
  <2> QED
    BY <1>4, <1>5, <1>6, <2>1, <2>3
    DEF FreshThread, Unread, Unstamped, Listed, ReadPcs, Using
<1> QED
  BY <1>1, <1>2, <1>4, <1>6, <1>7, CompileFacts, FreshAfterRead DEF Listing

LEMMA TakeSaverKeepsFresh ==
  ASSUME IInv, FreshInv, NEW t \in Threads, TakeSaver(t)
  PROVE  FreshInv'
<1> USE DEF IInv
<1>1. pc[t] = "take" /\ pc[t] \in Compiling
  BY DEF TakeSaver, Go, Compiling
<1>2. PICK n : n = Ticket(t)
  OBVIOUS
<1>3. PICK g : g = graph[n]
  OBVIOUS
<1>4. /\ pc'[t] = "read" /\ frame' = frame /\ UNCHANGED <<disk, held>>
      /\ \A u \in Threads \ {t} : pc'[u] = pc[u]
      /\ \A e \in Entries : e # n => graph'[e] = graph[e]
      /\ graph'[n] = [g EXCEPT !.saver = saver]
  <2>1. n \in Entries
    BY <1>1, <1>2, CompileFacts
  <2>2. graph' = [graph EXCEPT ![n].saver = saver]
    BY <1>2, Zenon DEF TakeSaver
  <2> QED
    BY <1>3, <2>1, <2>2 DEF TakeSaver, Go, TypeOK, diskVars, entryVars
<1>5. /\ g.wanted = {g.slug} /\ g.slug \in g.covers /\ g.stamps[g.slug] =< disk[g.slug]
      /\ g \in Graph
  BY <1>1, <1>2, <1>3, CompileFacts DEF FreshInv, FreshThread, Listed, Unread
<1>6. /\ graph'[n].slug = g.slug /\ graph'[n].wanted = g.wanted /\ graph'[n].listing = g.listing
      /\ graph'[n].covers = g.covers /\ graph'[n].stamps = g.stamps
  BY <1>4, <1>5 DEF Graph
<1>7. FreshThread(t)'
  <2>1. /\ frame'[t].asked = frame[t].asked /\ Ticket(t)' = n
        /\ \A m \in Slugs : frame[t].asked[m] =< disk'[m]
    BY <1>1, <1>2, <1>4, CompileFacts DEF Ticket
  <2> QED
    BY <1>1, <1>4, <1>5, <1>6, <2>1
    DEF FreshThread, Unread, Unstamped, Listed, ReadPcs, Using
<1>8. \A m \in graph'[n].listing : disk[m] > 0
  BY <1>1, <1>2, <1>3, <1>6, CompileFacts
<1> QED
  BY <1>1, <1>2, <1>4, <1>7, <1>8, CompileFacts, FreshAfterRead

\* The compile reads the package: what it finds is on the disk now.
LEMMA ReadOwnKeepsFresh ==
  ASSUME IInv, FreshInv, NEW t \in Threads, ReadOwn(t)
  PROVE  FreshInv'
<1> USE DEF IInv
<1>1. pc[t] = "read" /\ pc[t] \in Compiling
  BY DEF ReadOwn, Go, Compiling
<1>2. PICK n : n = Ticket(t)
  OBVIOUS
<1>3. PICK g : g = graph[n]
  OBVIOUS
<1>4. PICK s : s = Slug(t)
  OBVIOUS
<1>5. /\ pc'[t] = "mounts" /\ UNCHANGED <<disk, held>> /\ disk[s] > 0
      /\ \A u \in Threads \ {t} : pc'[u] = pc[u] /\ frame'[u] = frame[u]
      /\ frame'[t].asked = frame[t].asked /\ frame'[t].ticket = n
  <2>1. frame' = [frame EXCEPT ![t].todo = Mounts[s] \ {s}]
    BY <1>4, Zenon DEF ReadOwn
  <2>2. frame[t] \in Frame /\ frame[t].ticket = n
    BY <1>1, <1>2, CompileFacts DEF Ticket
  <2> QED
    BY <1>4, <2>1, <2>2 DEF ReadOwn, Go, TypeOK, Frame, diskVars, entryVars
<1>6. /\ \A e \in Entries : e # n => graph'[e] = graph[e]
      /\ graph'[n] = [g EXCEPT !.built[s] = disk[s]]
  <2>1. n \in Entries
    BY <1>1, <1>2, CompileFacts
  <2>2. graph' = [graph EXCEPT ![n].built[s] = disk[s]]
    BY <1>2, <1>4, Zenon DEF ReadOwn
  <2> QED
    BY <1>3, <2>1, <2>2 DEF TypeOK
<1>7. /\ g.wanted = {s} /\ s \in g.covers /\ g.stamps[s] =< disk[s]
      /\ g \in Graph /\ g.slug = s /\ s \in Slugs
  BY <1>1, <1>2, <1>3, <1>4, CompileFacts DEF FreshInv, FreshThread, Listed, Unread
<1>8. /\ graph'[n].slug = s /\ graph'[n].wanted = {s} /\ graph'[n].listing = g.listing
      /\ graph'[n].covers = g.covers /\ graph'[n].stamps = g.stamps
      /\ graph'[n].built[s] = disk[s]
  BY <1>6, <1>7 DEF Graph
<1>9. /\ \A m \in Slugs : frame[t].asked[m] =< disk[m]
      /\ \A m \in graph'[n].listing : disk[m] > 0
  BY <1>1, <1>2, <1>3, <1>8, CompileFacts
<1>10. Sound(graph'[n]) /\ Fresh(graph'[n], frame[t].asked)
  BY <1>1, <1>4, <1>5, <1>7, <1>8, <1>9, CompileFacts DEF Sound, Fresh
<1>11. FreshThread(t)'
  <2>1. Ticket(t)' = n
    BY <1>5 DEF Ticket
  <2> QED
    BY <1>5, <1>7, <1>8, <1>9, <1>10, <2>1
    DEF FreshThread, Unread, Unstamped, Listed, ReadPcs, Using
<1> QED
  BY <1>1, <1>2, <1>5, <1>6, <1>9, <1>11, CompileFacts, FreshAfterRead

\* And every mount: a name that is listed, or was there at the call, resolves.
LEMMA ReadMountKeepsFresh ==
  ASSUME IInv, FreshInv, NEW t \in Threads, NEW m \in Slugs, ReadMount(t, m)
  PROVE  FreshInv'
<1> USE DEF IInv
<1>1. pc[t] = "mounts" /\ pc[t] \in Compiling
  BY DEF ReadMount, Compiling
<1>2. PICK n : n = Ticket(t)
  OBVIOUS
<1>3. PICK g : g = graph[n]
  OBVIOUS
<1>4. /\ pc' = pc /\ UNCHANGED <<disk, held>>
      /\ \A u \in Threads \ {t} : frame'[u] = frame[u]
      /\ frame'[t].asked = frame[t].asked /\ frame'[t].ticket = n
  <2>1. PICK todo : frame' = [frame EXCEPT ![t].todo = todo]
    <3>1. frame' = [frame EXCEPT ![t].todo =
            (@ \cup IF disk[m] > 0 THEN Mounts[m] ELSE {}) \ (graph[Ticket(t)].wanted \cup {m})]
      BY Zenon DEF ReadMount
    <3> QED
      BY <3>1
  <2>2. frame[t] \in Frame /\ frame[t].ticket = n
    BY <1>1, <1>2, CompileFacts DEF Ticket
  <2> QED
    BY <2>1, <2>2 DEF ReadMount, TypeOK, Frame, diskVars, entryVars
<1>5. /\ \A e \in Entries : e # n => graph'[e] = graph[e]
      /\ graph'[n] = [g EXCEPT !.wanted = g.wanted \cup {m}, !.built[m] = disk[m]]
  <2>1. n \in Entries
    BY <1>1, <1>2, CompileFacts
  <2>2. graph' = [graph EXCEPT ![n] =
          [g EXCEPT !.wanted = g.wanted \cup {m}, !.built[m] = disk[m]]]
    BY <1>2, <1>3, Zenon DEF ReadMount
  <2> QED
    BY <2>1, <2>2 DEF TypeOK
<1>6. /\ g \in Graph /\ g.slug = Slug(t) /\ g.slug \in Slugs /\ g.wanted \subseteq Slugs
      /\ g.slug \in g.covers /\ g.stamps[g.slug] =< disk[g.slug]
      /\ Sound(g) /\ Fresh(g, frame[t].asked)
      /\ \A x \in g.listing : disk[x] > 0
  BY <1>1, <1>2, <1>3, CompileFacts DEF FreshInv, FreshThread, Listed, ReadPcs
<1>7. /\ graph'[n].slug = g.slug /\ graph'[n].wanted = g.wanted \cup {m}
      /\ graph'[n].listing = g.listing /\ graph'[n].covers = g.covers
      /\ graph'[n].stamps = g.stamps
      /\ graph'[n].built[m] = disk[m]
      /\ \A x \in Slugs \ {m} : graph'[n].built[x] = g.built[x]
  BY <1>5, <1>6 DEF Graph
<1>8. \A x \in Slugs : /\ frame[t].asked[x] =< disk[x]
                       /\ frame[t].asked[x] \in Nat /\ disk[x] \in Nat
  BY <1>1, CompileFacts
<1>9. Sound(graph'[n])
  BY <1>6, <1>7 DEF Sound
<1>10. Fresh(graph'[n], frame[t].asked)
  BY <1>6, <1>7, <1>8 DEF Fresh
<1>11. FreshThread(t)'
  <2>1. Ticket(t)' = n
    BY <1>4 DEF Ticket
  <2> QED
    BY <1>1, <1>4, <1>6, <1>7, <1>8, <1>9, <1>10, <2>1
    DEF FreshThread, Unread, Unstamped, Listed, ReadPcs, Using
<1> QED
  BY <1>1, <1>2, <1>4, <1>5, <1>6, <1>7, <1>11, CompileFacts, FreshAfterRead

\* The second stamping keeps the digest the package had before the compile.
LEMMA StampMountsKeepsFresh ==
  ASSUME IInv, FreshInv, NEW t \in Threads, StampMounts(t)
  PROVE  FreshInv'
<1> USE DEF IInv
<1>1. pc[t] = "mounts" /\ pc[t] \in Compiling
  BY DEF StampMounts, Go, Compiling
<1>2. PICK n : n = Ticket(t)
  OBVIOUS
<1>3. PICK g : g = graph[n]
  OBVIOUS
<1>4. PICK found : found = {m \in g.wanted : g.built[m] > 0}
  OBVIOUS
<1>5. /\ pc'[t] = "install" /\ frame' = frame /\ UNCHANGED <<disk, held>>
      /\ \A u \in Threads \ {t} : pc'[u] = pc[u]
  BY DEF StampMounts, Go, TypeOK, diskVars, entryVars
<1>6. /\ \A e \in Entries : e # n => graph'[e] = graph[e]
      /\ graph'[n] = Stamped(g, found)
  <2>1. n \in Entries
    BY <1>1, <1>2, CompileFacts
  <2>2. PICK h : h = Stamped(g, found)
    OBVIOUS
  <2>3. graph' = [graph EXCEPT ![n] = h]
    BY <1>2, <1>3, <1>4, <2>2, Zenon DEF StampMounts
  <2> QED
    BY <2>1, <2>2, <2>3 DEF TypeOK
<1>7. /\ g \in Graph /\ g.slug \in Slugs
      /\ g.slug \in g.covers /\ g.stamps[g.slug] =< disk[g.slug]
      /\ Sound(g) /\ Fresh(g, frame[t].asked)
      /\ \A x \in g.listing : disk[x] > 0
      /\ \A x \in Slugs : frame[t].asked[x] =< disk[x]
  BY <1>1, <1>2, <1>3, CompileFacts DEF FreshInv, FreshThread, Listed, ReadPcs
<1>8. /\ graph'[n].slug = g.slug /\ graph'[n].wanted = g.wanted
      /\ graph'[n].listing = g.listing /\ graph'[n].built = g.built
      /\ g.covers \subseteq graph'[n].covers
      /\ graph'[n].stamps[g.slug] = g.stamps[g.slug]
  BY <1>6, <1>7 DEF Graph, Stamped
<1>9. Sound(graph'[n]) /\ Fresh(graph'[n], frame[t].asked)
  BY <1>7, <1>8 DEF Sound, Fresh
<1>10. FreshThread(t)'
  <2>1. Ticket(t)' = n
    BY <1>2, <1>5 DEF Ticket
  <2> QED
    BY <1>5, <1>7, <1>8, <1>9, <2>1
    DEF FreshThread, Unread, Unstamped, Listed, ReadPcs, Using
<1> QED
  BY <1>1, <1>2, <1>5, <1>6, <1>7, <1>8, <1>10, CompileFacts, FreshAfterRead

\* A new call: its graph is blank, and what it asks for is the disk as it is.
LEMMA UseKeepsFresh ==
  ASSUME IInv, FreshInv, NEW t \in Threads, NEW s \in Slugs, Use(t, s)
  PROVE  FreshInv'
<1> USE DEF IInv
<1>1. PICK n : n = uses + 1
  OBVIOUS
<1>2. n \in Entries /\ n \notin 1 .. uses /\ n # NoEntry
  BY <1>1, SizesAreNaturals DEF Use, TypeOK, Entries, NoEntry
<1>3. /\ pc'[t] = "ask" /\ UNCHANGED <<disk, held>>
      /\ \A u \in Threads \ {t} : pc'[u] = pc[u] /\ frame'[u] = frame[u]
      /\ frame'[t].asked = disk /\ frame'[t].ticket = n
  <2>1. frame' = [frame EXCEPT ![t].ticket = n, ![t].asked = disk]
    BY <1>1, Zenon DEF Use
  <2>2. frame[t] \in Frame
    BY DEF TypeOK
  <2> QED
    BY <2>1, <2>2 DEF Use, Go, TypeOK, Frame, diskVars, entryVars
<1>4. graph'[n] = Blank(s) /\ \A e \in Entries : e # n => graph'[e] = graph[e]
  <2>1. graph' = [graph EXCEPT ![n] = Blank(s)]
    BY <1>1, Zenon DEF Use
  <2> QED
    BY <1>2, <2>1 DEF TypeOK
<1>5. Grows /\ \A m \in Slugs : disk[m] \in Nat
  BY <1>3, DiskFacts DEF Grows
<1>6. ASSUME NEW u \in Threads \ {t} PROVE FreshThread(u)'
  <2>1. pc[u] \in PreInstall => Ticket(u) # n
    BY <1>2 DEF TicketsAreFresh
  <2>2. Using(u) => Mine(u) # n
    BY <1>2 DEF LeasedIsInstalled, Installed, InstalledIsOld, Using
  <2> QED
    BY <1>3, <1>4, <1>5, <2>1, <2>2, OthersStayFresh
<1>7. FreshThread(t)'
  <2>1. Ticket(t)' = n
    BY <1>3 DEF Ticket
  <2> QED
    BY <1>3, <1>4, <1>5, <2>1
    DEF FreshThread, Blank, Unread, Unstamped, Listed, ReadPcs, Using
<1>8. FreshMap'
  <2>1. \A m \in graph'[n].listing : disk'[m] > 0
    BY <1>4 DEF Blank
  <2>2. \A x \in Slugs : held[x] # n \/ held[x] = NoEntry
    BY <1>2 DEF InstalledIsOld
  <2> QED
    BY <1>3, <1>4, <1>5, <2>1, <2>2, MapStaysFresh
<1> QED
  BY <1>6, <1>7, <1>8 DEF FreshInv

\* An edit that brings new bytes: no version falls.
LEMMA EditKeepsFresh ==
  ASSUME IInv, FreshInv, MayRevert = FALSE, NEW s \in Slugs, Edit(s)
  PROVE  FreshInv'
<1> USE DEF IInv
<1>1. disk' = [disk EXCEPT ![s] = disk[s] + 1]
  BY DEF Edit
<1>2. Grows
  BY <1>1, DiskFacts DEF Grows, TypeOK
<1>3. UNCHANGED <<held, graph, pc, frame>>
  BY DEF Edit, entryVars, threadVars
<1>4. PICK n : n \notin Entries \cup {Ticket(u) : u \in Threads} \cup {Mine(u) : u \in Threads}
  BY NoSetContainsEverything
<1>5. ASSUME NEW u \in Threads PROVE FreshThread(u)'
  BY <1>2, <1>3, <1>4, OthersStayFresh
<1>6. FreshMap'
  BY <1>2, <1>3, <1>4, MapStaysFresh DEF TypeOK
<1> QED
  BY <1>5, <1>6 DEF FreshInv

\* The host empties slots of the map and closes what it took out.
LEMMA HostKeepsFresh ==
  ASSUME IInv, FreshInv, HostCall \/ HostStep
  PROVE  FreshInv'
<1> USE DEF IInv
<1>1. /\ UNCHANGED <<disk, graph, pc, frame>>
      /\ \A s \in Slugs : held'[s] = held[s] \/ held'[s] = NoEntry
  <2>1. ASSUME NEW S, NEW final, Invalidate(S, final)
        PROVE  /\ UNCHANGED <<disk, graph, pc, frame>>
               /\ \A s \in Slugs : held'[s] = held[s] \/ held'[s] = NoEntry
    BY <2>1 DEF Invalidate, diskVars, threadVars
  <2>2. CASE HostCall
    BY <2>1, <2>2 DEF HostCall, InvalidateOne, InvalidateAll, Close
  <2>3. CASE HostStep
    BY <2>3 DEF HostStep, HostCloses, ShutSaver, ForgetSaver, diskVars, entryVars, threadVars
  <2> QED
    BY <2>2, <2>3
<1>2. ASSUME NEW u \in Threads PROVE FreshThread(u)'
  BY <1>1 DEF FreshInv, FreshThread, Using, Ticket, Mine
<1>3. FreshMap'
  BY <1>1 DEF FreshInv, FreshMap
<1> QED
  BY <1>2, <1>3 DEF FreshInv

LEMMA FreshInit == Init => FreshInv
BY DEF Init, FreshInv, FreshMap, FreshThread, Blank, Unread, Unstamped, Listed, ReadPcs, Using

LEMMA FreshStep ==
  ASSUME MayRevert = FALSE, IInv, FreshInv, [Next]_vars
  PROVE  FreshInv'
<1>1. CASE \E s \in Slugs : Edit(s)
  BY <1>1, EditKeepsFresh
<1>2. CASE \E t \in Threads, s \in Slugs : Use(t, s)
  BY <1>2, UseKeepsFresh
<1>3. ASSUME NEW t \in Threads, Entering(t)
      PROVE  FreshInv'
  <2>1. CASE LookHit(t) \/ GatedHit(t)
    BY <2>1, HitsKeepFresh
  <2>2. CASE \/ LookMiss(t) \/ GatedRetry(t) \/ GatedMiss(t) \/ TestSaver(t)
             \/ OpenSaver(t) \/ LoadFails(t) \/ CloseSuperseded(t)
    BY <2>2, MovesKeepFresh
  <2>3. CASE StampOwn(t) \/ TakeSaver(t) \/ StampMounts(t)
    BY <2>3, StampOwnKeepsFresh, TakeSaverKeepsFresh, StampMountsKeepsFresh
  <2>4. CASE ReadOwn(t) \/ \E m \in Slugs : ReadMount(t, m)
    BY <2>4, ReadOwnKeepsFresh, ReadMountKeepsFresh
  <2>5. CASE Install(t)
    BY <2>5, InstallKeepsFresh
  <2> QED
    BY <1>3, <2>1, <2>2, <2>3, <2>4, <2>5 DEF Entering
<1>4. ASSUME NEW t \in Threads, Leaving(t)
      PROVE  FreshInv'
  BY <1>4, MovesKeepFresh DEF Leaving
<1>5. CASE HostCall \/ HostStep
  BY <1>5, HostKeepsFresh
<1>6. CASE UNCHANGED vars
  BY <1>6 DEF vars, FreshInv, FreshMap, FreshThread, Using, Ticket, Mine
<1> QED
  BY <1>1, <1>2, <1>3, <1>4, <1>5, <1>6 DEF Next

(***************************************************************************)
(* live.py:70: as long as no edit puts earlier bytes back, a lease is on a *)
(* graph that read every edit of its own package finished before use() was *)
(* called, and resolved every mount that was on the disk by then.          *)
(***************************************************************************)
THEOREM LeasesAreFresh ==
  ASSUME MayRevert = FALSE
  PROVE  Spec => []FreshLease
<1>1. Init => FreshInv
  BY FreshInit
<1>2. IInv /\ FreshInv /\ [Next]_vars => FreshInv'
  BY FreshStep
<1>3. FreshInv => FreshLease
  BY DEF FreshInv, FreshThread, FreshLease, Fresh, Using
<1> QED
  BY <1>1, <1>2, <1>3, Inductive, PTL DEF Spec
=============================================================================
