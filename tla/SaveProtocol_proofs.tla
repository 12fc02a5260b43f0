------------------------- MODULE SaveProtocol_proofs -------------------------
(***************************************************************************)
(* Proofs about SaveProtocol for any tabs, any number of saves under way   *)
(* and any bounds.                                                         *)
(***************************************************************************)
EXTENDS SaveProtocol, FiniteSetTheorems, WellFoundedInduction, TLAPS

USE BoundsAreNaturals

-----------------------------------------------------------------------------
(***************************************************************************)
(* A version nobody remembers exists, because few versions are remembered. *)
(***************************************************************************)
\* A row or a frame on its way to a tab is one version of the file.
HintsAreFinite ==
  hint \in [Tabs -> SUBSET MaybeDigest] /\ \A t \in Tabs : IsFiniteSet(hint[t])

\* A set of naturals has a least member.
LEMMA LeastNatural ==
  ASSUME NEW S \in SUBSET Nat, S # {}
  PROVE  \E n \in S : \A m \in S : n =< m
<1>1. PICK n \in S : \A m \in S : ~(<<m, n>> \in OpToRel(<, Nat))
  BY NatLessThanWellFounded, WFMin
<1>2. \A m \in S : <<m, n>> \in Nat \X Nat
  OBVIOUS
<1>3. \A m \in S : ~(m < n)
  BY <1>1, <1>2 DEF OpToRel
<1> QED
  BY <1>3

LEMMA AFewAreFinite ==
  ASSUME NEW a, NEW b, NEW c
  PROVE  IsFiniteSet({a, b, c})
<1>1. IsFiniteSet({a}) /\ IsFiniteSet({b}) /\ IsFiniteSet({c})
  BY FS_Singleton, Zenon
<1>2. IsFiniteSet({a} \cup {b})
  BY <1>1, FS_Union, Zenon
<1>3. IsFiniteSet(({a} \cup {b}) \cup {c})
  BY <1>1, <1>2, FS_Union, Zenon
<1>4. {a, b, c} = ({a} \cup {b}) \cup {c}
  OBVIOUS
<1> QED
  BY <1>3, <1>4, Zenon

LEMMA RememberedIsFinite ==
  ASSUME HintsAreFinite
  PROVE  IsFiniteSet(Remembered)
<1>1. ASSUME NEW t \in Tabs
      PROVE  IsFiniteSet(UNION {{call[t][i].quote, call[t][i].got, call[t][i].kept} : i \in Slots})
  <2> DEFINE f == [i \in Slots |-> {call[t][i].quote, call[t][i].got, call[t][i].kept}]
             S == {{call[t][i].quote, call[t][i].got, call[t][i].kept} : i \in Slots}
  <2>1. f \in [Slots -> S] /\ S = {f[i] : i \in Slots}
    OBVIOUS
  <2>2. \A T \in S : IsFiniteSet(T)
    <3>1. SUFFICES ASSUME NEW i \in Slots
                   PROVE  IsFiniteSet({call[t][i].quote, call[t][i].got, call[t][i].kept})
      OBVIOUS
    <3> QED
      BY AFewAreFinite, Zenon
  <2> HIDE DEF f, S
  <2>3. IsFiniteSet(S)
    <3>1. IsFiniteSet(Slots)
      BY FewTabs
    <3>2. f \in Surjection(Slots, S)
      BY <2>1 DEF Surjection
    <3> QED
      BY <3>1, <3>2, FS_Surjection
  <2>4. IsFiniteSet(UNION S)
    BY <2>2, <2>3, FS_UNION
  <2> QED
    BY <2>4, Zenon DEF S
<1>2. ASSUME NEW t \in Tabs
      PROVE  IsFiniteSet(RememberedBy(t))
  <2>1. PICK A : A = UNION {{call[t][i].quote, call[t][i].got, call[t][i].kept} : i \in Slots}
    BY Zenon
  <2>2. IsFiniteSet({known[t], offer[t], kept[t]}) /\ IsFiniteSet({draft[t].base, load[t].file, file})
    BY AFewAreFinite, Zenon
  <2>3. IsFiniteSet({draft[t].base, load[t].file})
    BY <2>2, FS_Subset
  <2>4. IsFiniteSet({known[t], offer[t], kept[t]} \cup {draft[t].base, load[t].file})
    BY <2>2, <2>3, FS_Union, Zenon
  <2>5. IsFiniteSet(({known[t], offer[t], kept[t]} \cup {draft[t].base, load[t].file}) \cup hint[t])
    BY <2>4, FS_Union, Zenon DEF HintsAreFinite
  <2>6. IsFiniteSet((({known[t], offer[t], kept[t]} \cup {draft[t].base, load[t].file}) \cup hint[t])
                      \cup A)
    BY <1>1, <2>1, <2>5, FS_Union, Zenon
  <2>7. RememberedBy(t)
          = (({known[t], offer[t], kept[t]} \cup {draft[t].base, load[t].file}) \cup hint[t]) \cup A
    BY <2>1 DEF RememberedBy
  <2> QED
    BY <2>6, <2>7, Zenon
<1>3. IsFiniteSet(UNION {RememberedBy(t) : t \in Tabs})
  <2> DEFINE f == [t \in Tabs |-> RememberedBy(t)]
             S == {RememberedBy(t) : t \in Tabs}
  <2>1. f \in [Tabs -> S] /\ S = {f[t] : t \in Tabs}
    OBVIOUS
  <2>2. \A T \in S : IsFiniteSet(T)
    BY <1>2
  <2> HIDE DEF f, S
  <2>3. IsFiniteSet(S)
    <3>1. IsFiniteSet(Tabs)
      BY FewTabs
    <3>2. f \in Surjection(Tabs, S)
      BY <2>1 DEF Surjection
    <3> QED
      BY <3>1, <3>2, FS_Surjection
  <2>4. IsFiniteSet(UNION S)
    BY <2>2, <2>3, FS_UNION
  <2> QED
    BY <2>4, Zenon DEF S
<1> QED
  BY <1>3, FS_Singleton, FS_Union, Zenon DEF Remembered

\* The new write count is one that no remembered version of the document has.
LEMMA StampIsFresh ==
  ASSUME HintsAreFinite, NEW doc
  PROVE  FreshStamp(doc) \in Nat /\ [doc |-> doc, write |-> FreshStamp(doc)] \notin Remembered
<1> DEFINE N == Cardinality(Remembered)
           V(n) == [doc |-> doc, write |-> n]
<1>1. IsFiniteSet(Remembered) /\ N \in Nat
  BY RememberedIsFinite, FS_CardinalityType
<1>2. \E n \in 0 .. N : V(n) \notin Remembered
  <2>1. SUFFICES ASSUME \A n \in 0 .. N : V(n) \in Remembered
                 PROVE  FALSE
    OBVIOUS
  <2> DEFINE f == [n \in 0 .. N |-> V(n)]
  <2>2. f \in Injection(0 .. N, Remembered)
    <3>1. \A m, n \in 0 .. N : f[m] = f[n] => m = n
      OBVIOUS
    <3>2. f \in [0 .. N -> Remembered]
      BY <2>1
    <3> HIDE DEF f
    <3> QED
      BY <3>1, <3>2, Zenon DEF Injection, IsInjective
  <2> HIDE DEF f
  <2>3. Cardinality(0 .. N) =< N
    BY <1>1, <2>2, FS_Injection
  <2>4. Cardinality(0 .. N) = N + 1
    <3> HIDE DEF N
    <3>1. Cardinality(0 .. N) = IF 0 > N THEN 0 ELSE N - 0 + 1
      BY <1>1, FS_Interval
    <3> QED
      BY <1>1, <3>1
  <2> QED
    <3> HIDE DEF N
    <3> QED
      BY <1>1, <2>3, <2>4
<1> HIDE DEF N
<1>3. PICK n \in {k \in 0 .. N : V(k) \notin Remembered} :
        \A m \in {k \in 0 .. N : V(k) \notin Remembered} : n =< m
  <2> DEFINE T == {k \in 0 .. N : V(k) \notin Remembered}
  <2>1. T \in SUBSET Nat /\ T # {}
    BY <1>1, <1>2
  <2> HIDE DEF T
  <2>2. \E n \in T : \A m \in T : n =< m
    BY <2>1, LeastNatural
  <2> QED
    BY <2>2 DEF T
<1>4. n \in 0 .. N /\ V(n) \notin Remembered
  BY <1>3
<1>5. \A m \in 0 .. (n - 1) : V(m) \in Remembered
  BY <1>1, <1>3
<1>6. FreshStamp(doc) \in 0 .. N /\ V(FreshStamp(doc)) \notin Remembered
  <2> HIDE DEF V
  <2> DEFINE P(k) == V(k) \notin Remembered /\ \A m \in 0 .. (k - 1) : V(m) \in Remembered
  <2>1. FreshStamp(doc) = CHOOSE k \in 0 .. N : P(k)
    BY DEF FreshStamp, N, V
  <2>2. \E k \in 0 .. N : P(k)
    BY <1>4, <1>5
  <2> HIDE DEF P
  <2>3. P(CHOOSE k \in 0 .. N : P(k)) /\ (CHOOSE k \in 0 .. N : P(k)) \in 0 .. N
    BY <2>2, Zenon
  <2> QED
    BY <2>1, <2>3 DEF P
<1> QED
  BY <1>1, <1>6

-----------------------------------------------------------------------------
(***************************************************************************)
(* Types.                                                                  *)
(***************************************************************************)
Loads == [pc : {"idle", "load", "row"}, act : {"open", "refresh", "ask", "restore"},
          file : MaybeDigest, typed : Docs]
Saves == [pc : {"idle", "check", "write", "receipt", "answer"}, kind : {"auto", "button"},
          doc : Docs, quote : MaybeDigest, kept : MaybeDigest, got : MaybeDigest,
          result : {"none", "ok", "conflict", "missing", "row"}, home : BOOLEAN]

FileTypes == file \in MaybeDigest /\ publisher \in Docs \cup {NoDoc} /\ landed \in Docs
DocTypes ==
  /\ screen \in [Tabs -> Docs]
  /\ base \in [Tabs -> Docs \cup {NoDoc}]
  /\ known \in [Tabs -> MaybeDigest]
  /\ offer \in [Tabs -> MaybeDigest]
  /\ draft \in [Tabs -> [doc : Docs \cup {NoDoc}, base : MaybeDigest]]
  /\ timer \in [Tabs -> BOOLEAN] /\ down \in [Tabs -> BOOLEAN]
  /\ open \in [Tabs -> BOOLEAN] /\ reported \in [Tabs -> BOOLEAN]
AskTypes == kept \in [Tabs -> MaybeDigest] /\ deferred \in [Tabs -> BOOLEAN]
HintTypes ==
  /\ hint \in [Tabs -> SUBSET MaybeDigest]
  /\ \A t \in Tabs : IsFiniteSet(hint[t]) /\ Cardinality(hint[t]) =< 1
LoadTypes == load \in [Tabs -> Loads]
CallTypes == call \in [Tabs -> [Slots -> Saves]]
SeenTypes == seen \in [Tabs -> Docs]
LateTypes == late \in [Tabs -> SUBSET {"others", "itself"}]
SpentTypes == spent \in [{"edits", "answers", "rare"} -> Nat]

\* What every step keeps: the types, and that every hint is one version.
Types == /\ FileTypes /\ DocTypes /\ AskTypes /\ HintTypes /\ LoadTypes /\ CallTypes
         /\ SeenTypes /\ LateTypes /\ SpentTypes

LEMMA BoundsDomain == DOMAIN Bounds = {"edits", "answers", "rare"}
BY DEF Bounds

LEMMA TypesSplit == Types <=> TypeOK /\ HintsAreFinite
<1>1. /\ \A f \in {timer, down, open, reported, deferred} : f \in [Tabs -> BOOLEAN]
      <=> /\ timer \in [Tabs -> BOOLEAN] /\ down \in [Tabs -> BOOLEAN]
          /\ open \in [Tabs -> BOOLEAN] /\ reported \in [Tabs -> BOOLEAN]
          /\ deferred \in [Tabs -> BOOLEAN]
  BY Zenon
<1> QED
  BY <1>1, BoundsDomain, Zenon
  DEF Types, TypeOK, HintsAreFinite, FileTypes, DocTypes, AskTypes, HintTypes, LoadTypes,
      CallTypes, SeenTypes, LateTypes, SpentTypes, Loads, Saves

\* No file, and no document, is one that no edit is in.
LEMMA FileFacts ==
  /\ NoDoc \notin Docs /\ Gone.doc = NoDoc /\ Gone \notin Files
  /\ {} \in Docs /\ Gone \in MaybeDigest
  /\ \A f \in MaybeDigest : f # Gone => f \in Files /\ f.doc \in Docs
  /\ \A f \in MaybeDigest : f.doc \in Docs \cup {NoDoc}
  /\ \A c, d \in Docs : c \cup d \in Docs
<1>1. NoDoc \notin Docs
  <2>1. 0 \notin 1 .. MaxEdits
    OBVIOUS
  <2> QED
    BY <2>1 DEF NoDoc, Docs
<1>2. Gone.doc = NoDoc
  BY DEF Gone
<1>3. \A f \in Files : f.doc \in Docs
  BY DEF Files
<1>4. Gone \notin Files
  BY <1>1, <1>2, <1>3
<1> QED
  BY <1>1, <1>2, <1>3, <1>4 DEF MaybeDigest, Docs

\* An answer written to one call leaves the others alone.
LEMMA OneCallChanges ==
  ASSUME CallTypes, NEW t \in Tabs, NEW i \in Slots, NEW c \in Saves,
         call' = [call EXCEPT ![t][i] = c]
  PROVE  /\ CallTypes'
         /\ call'[t][i] = c
         /\ \A u \in Tabs, j \in Slots : u # t \/ j # i => call'[u][j] = call[u][j]
BY DEF CallTypes

LEMMA OneLoadChanges ==
  ASSUME LoadTypes, NEW t \in Tabs, NEW l \in Loads, load' = [load EXCEPT ![t] = l]
  PROVE  /\ LoadTypes' /\ load'[t] = l
         /\ \A u \in Tabs : u # t => load'[u] = load[u]
BY DEF LoadTypes

LEMMA NoCallIsSave == NoCall \in Saves /\ NoLoad \in Loads
BY FileFacts DEF NoCall, NoLoad, Saves, Loads

\* The edit that is about to be made is within the bound.
LEMMA NextEditFits ==
  ASSUME SpentTypes, spent.edits < MaxEdits
  PROVE  {NextEdit} \in Docs
<1>1. spent.edits \in Nat
  BY DEF SpentTypes
<1>2. NextEdit \in 1 .. MaxEdits
  BY <1>1 DEF NextEdit
<1> QED
  BY <1>2 DEF Docs

LEMMA SpendTypes ==
  ASSUME SpentTypes, NEW what \in {"edits", "answers", "rare"}, Spend(what)
  PROVE  SpentTypes' /\ spent[what] < Bounds[what]
BY DEF Spend, SpentTypes

\* New bytes: the document, landed, and a note to whoever is in a window.
LEMMA PutChanges ==
  ASSUME Types, NEW doc \in Docs, NEW writers, Put(doc, writers)
  PROVE  /\ file' \in Files /\ file' # Gone /\ file'.doc = doc
         /\ landed' = landed \cup doc /\ landed' \in Docs
         /\ LateTypes'
         /\ \A t \in Tabs : late[t] \subseteq late'[t]
         /\ \A t \in Tabs : t \notin writers /\ InWindow(t) => "others" \in late'[t]
<1>1. file' = [doc |-> doc, write |-> FreshStamp(doc)]
  BY Zenon DEF Put
<1>2. FreshStamp(doc) \in Nat
  BY StampIsFresh, TypesSplit
<1>3. file' \in Files /\ file'.doc = doc
  BY <1>1, <1>2 DEF Files
<1>4. landed' = landed \cup doc /\ landed' \in Docs
  BY FileFacts DEF Put, Types, FileTypes
<1>5. late' = [t \in Tabs |-> IF t \notin writers /\ InWindow(t)
                              THEN late[t] \cup {"others"} ELSE late[t]]
  BY Zenon DEF Put, Disturb
<1>6. /\ LateTypes'
      /\ \A t \in Tabs : late[t] \subseteq late'[t]
      /\ \A t \in Tabs : t \notin writers /\ InWindow(t) => "others" \in late'[t]
  <2> HIDE DEF InWindow
  <2> QED
    BY <1>5 DEF Types, LateTypes
<1> QED
  BY <1>3, <1>4, <1>6, FileFacts

LEMMA CrossesChanges ==
  ASSUME LateTypes, NEW t \in Tabs, Crosses(t)
  PROVE  /\ LateTypes'
         /\ \A u \in Tabs : "others" \in late[u] <=> "others" \in late'[u]
         /\ \A u \in Tabs : u # t => late'[u] = late[u]
<1>1. late' = late \/ late' = [late EXCEPT ![t] = @ \cup {"itself"}]
  BY Zenon DEF Crosses
<1> QED
  BY <1>1 DEF LateTypes

LEMMA CallRecord ==
  ASSUME CallTypes, NEW t \in Tabs, NEW i \in Slots
  PROVE  call[t][i] \in Saves
BY DEF CallTypes

LEMMA CheckChanges ==
  ASSUME Types, NEW t \in Tabs, NEW i \in Slots, Check(t, i)
  PROVE  \E c \in Saves :
           /\ call' = [call EXCEPT ![t][i] = c]
           /\ c.doc = call[t][i].doc /\ c.quote = call[t][i].quote
           /\ \/ c.pc = "answer" /\ c.result = "missing"
              \/ c.pc = "answer" /\ c.result = "conflict" /\ c.got # Gone
              \/ c.pc = "write" /\ call[t][i].quote \in {Gone, file} /\ file # Gone
<1>1. CallTypes /\ file \in MaybeDigest
  BY DEF Types, FileTypes
<1>2. PICK d \in Saves : d = call[t][i]
  BY <1>1, CallRecord
<1>3. CASE file = Gone
  <2>1. call' = [call EXCEPT ![t][i].pc = "answer", ![t][i].result = "missing"]
    BY <1>3, Zenon DEF Check, Answered
  <2> DEFINE c == [d EXCEPT !.pc = "answer", !.result = "missing"]
  <2>2. call' = [call EXCEPT ![t][i] = c]
    BY <2>1, <1>1, <1>2 DEF CallTypes
  <2>3. c \in Saves /\ c.doc = d.doc /\ c.quote = d.quote /\ c.pc = "answer" /\ c.result = "missing"
    BY DEF Saves
  <2> HIDE DEF c
  <2> QED
    BY <1>2, <2>2, <2>3
<1>4. CASE file # Gone /\ Moved(t, i)
  <2>1. call' = [[call EXCEPT ![t][i].pc = "answer", ![t][i].result = "conflict"]
                   EXCEPT ![t][i].got = file]
    BY <1>4, Zenon DEF Check, Answered
  <2> DEFINE c == [d EXCEPT !.pc = "answer", !.result = "conflict", !.got = file]
  <2>2. call' = [call EXCEPT ![t][i] = c]
    BY <2>1, <1>1, <1>2 DEF CallTypes
  <2>3. c \in Saves /\ c.doc = d.doc /\ c.quote = d.quote /\ c.pc = "answer" /\ c.result = "conflict"
      /\ c.got = file
    BY <1>1 DEF Saves
  <2> HIDE DEF c
  <2> QED
    BY <1>2, <1>4, <2>2, <2>3
<1>5. CASE file # Gone /\ ~Moved(t, i)
  <2>1. call' = [call EXCEPT ![t][i].pc = "write"]
    BY <1>5, Zenon DEF Check
  <2> DEFINE c == [d EXCEPT !.pc = "write"]
  <2>2. call' = [call EXCEPT ![t][i] = c]
    BY <2>1, <1>1, <1>2 DEF CallTypes
  <2>3. c \in Saves /\ c.doc = d.doc /\ c.quote = d.quote /\ c.pc = "write"
    BY DEF Saves
  <2>4. d.quote \in {Gone, file}
    BY <1>2, <1>5, Zenon DEF Moved
  <2> HIDE DEF c
  <2> QED
    BY <1>2, <1>5, <2>2, <2>3, <2>4
<1> QED
  BY <1>3, <1>4, <1>5

-----------------------------------------------------------------------------
(***************************************************************************)
(* The invariant.  What the tabs hold of the file did reach it (LandedOf), *)
(* and a tab has shown or announced what its digests are of, unless        *)
(* somebody wrote in a window of the tab (GuardOf).                        *)
(***************************************************************************)
Reached(f) == f = Gone \/ f.doc \subseteq landed

LandedSave(c) ==
  \/ c.pc = "receipt"
  \/ c.pc = "answer" /\ c.result \in {"ok", "row"}
  => c.doc \subseteq landed

LandedOf(t) ==
  /\ base[t] = NoDoc \/ base[t] \subseteq landed
  /\ Reached(offer[t]) /\ Reached(load[t].file)
  /\ load[t].pc = "load" /\ load[t].act = "refresh"
     => screen[t] \subseteq landed \cup load[t].typed
  /\ \A i \in Slots : LandedSave(call[t][i])

Missed(t) == "others" \in late[t]
Shown(t, f) == f # Gone /\ f.doc \subseteq seen[t]

GuardedSave(t, c) ==
  /\ c.pc # "idle" => c.doc \subseteq seen[t]
  /\ c.pc = "check" => Missed(t) \/ c.quote = Gone \/ Shown(t, c.quote)
  /\ c.pc = "receipt" \/ (c.pc = "write" /\ c.quote # Gone) => Missed(t) \/ Shown(t, file)
  /\ c.pc = "answer" /\ c.result \in {"ok", "row"} => Missed(t) \/ Shown(t, c.got)
  /\ c.pc = "answer" /\ c.result = "conflict" => c.got # Gone

DocGuarded(t) ==
  /\ screen[t] \subseteq seen[t]
  /\ draft[t].doc = NoDoc \/ draft[t].doc \subseteq seen[t]
  /\ offer[t] = Gone \/ Shown(t, offer[t])
  /\ \/ Missed(t)
     \/ /\ known[t] = Gone \/ Shown(t, known[t])
        /\ draft[t].base = Gone \/ Shown(t, draft[t].base)

\* A tab that waits for its row knows what the row will say.
RowGuarded(t) ==
  load[t].pc = "row" =>
    /\ load[t].act = "restore" => load[t].file # Gone
    /\ \/ Missed(t) \/ file = Gone
       \/ file.doc \subseteq seen[t]
       \/ load[t].act = "restore" /\ file.doc \subseteq seen[t] \cup load[t].file.doc

GuardOf(t) ==
  DocGuarded(t) /\ RowGuarded(t) /\ \A i \in Slots : GuardedSave(t, call[t][i])

SaveInv == Types /\ Reached(file) /\ \A t \in Tabs : LandedOf(t) /\ GuardOf(t)

\* A step that is none of tab t's leaves what t holds.
TabKeeps(t) ==
  UNCHANGED <<screen[t], base[t], known[t], offer[t], draft[t], load[t], call[t], seen[t]>>

\* A step of tab t alone: it keeps the file, the other tabs, and its own part.
TabStep(t) ==
  /\ Types' /\ file' = file /\ landed' = landed
  /\ \A u \in Tabs : u # t => TabKeeps(u) /\ (Missed(u) => Missed(u)')
  /\ LandedOf(t)' /\ GuardOf(t)'

LEMMA SavesStay ==
  ASSUME NEW t \in Tabs, NEW c, GuardedSave(t, c), LandedSave(c),
         landed \subseteq landed', seen[t] \subseteq seen'[t], Missed(t) => Missed(t)',
         file' = file \/ c.pc \notin {"write", "receipt"} \/ Missed(t)'
  PROVE  GuardedSave(t, c)' /\ LandedSave(c)'
BY DEF GuardedSave, LandedSave, Shown, Missed

LEMMA OtherTabs ==
  ASSUME NEW t \in Tabs, LandedOf(t), GuardOf(t), TabKeeps(t), landed \subseteq landed',
         Missed(t) => Missed(t)',
         file' = file \/ (InWindow(t) => Missed(t)')
  PROVE  LandedOf(t)' /\ GuardOf(t)'
<1>1. ASSUME NEW i \in Slots
      PROVE  GuardedSave(t, call[t][i])' /\ LandedSave(call[t][i])'
  <2>1. PICK c : c = call[t][i]
    BY Zenon
  <2>2. c = call'[t][i]
    BY <2>1 DEF TabKeeps
  <2>3. file' = file \/ c.pc \notin {"write", "receipt"} \/ Missed(t)'
    BY <2>1 DEF InWindow
  <2>4. GuardedSave(t, c) /\ LandedSave(c)
    BY <2>1 DEF LandedOf, GuardOf
  <2>5. seen[t] \subseteq seen'[t]
    BY DEF TabKeeps
  <2>6. GuardedSave(t, c)' /\ LandedSave(c)'
    BY <2>3, <2>4, <2>5, SavesStay
  <2> QED
    BY <2>2, <2>6
<1>2. LandedOf(t)'
  BY <1>1 DEF LandedOf, TabKeeps, Reached
<1>3. DocGuarded(t)'
  BY DEF GuardOf, DocGuarded, TabKeeps, Shown, Missed
<1>4. RowGuarded(t)'
  BY DEF GuardOf, RowGuarded, TabKeeps, Missed, InWindow
<1> QED
  BY <1>1, <1>2, <1>3, <1>4 DEF GuardOf

LEMMA TabStepKeeps ==
  ASSUME SaveInv, NEW t \in Tabs, TabStep(t)
  PROVE  SaveInv'
<1>1. Types' /\ Reached(file)'
  BY DEF TabStep, SaveInv, Reached
<1>2. ASSUME NEW u \in Tabs
      PROVE  LandedOf(u)' /\ GuardOf(u)'
  <2>1. CASE u = t
    BY <2>1, Zenon DEF TabStep
  <2>2. CASE u # t
    <3>1. /\ TabKeeps(u) /\ (Missed(u) => Missed(u)') /\ file' = file /\ landed \subseteq landed'
          /\ LandedOf(u) /\ GuardOf(u)
      BY <2>2 DEF TabStep, SaveInv
    <3> QED
      BY <3>1, OtherTabs
  <2> QED
    BY <2>1, <2>2
<1> QED
  BY <1>1, <1>2, Zenon DEF SaveInv

\* What a step of tab t has to show of the saves of the tab.
SavesOf(t) == \A i \in Slots : GuardedSave(t, call[t][i]) /\ LandedSave(call[t][i])

LEMMA SavesUntouched ==
  ASSUME NEW t \in Tabs, LandedOf(t), GuardOf(t), file' = file, landed' = landed,
         seen[t] \subseteq seen'[t], Missed(t) => Missed(t)', call'[t] = call[t]
  PROVE  SavesOf(t)'
<1>1. ASSUME NEW i \in Slots
      PROVE  GuardedSave(t, call[t][i])' /\ LandedSave(call[t][i])'
  <2>1. PICK c : c = call[t][i] /\ c = call'[t][i]
    BY Zenon
  <2>2. GuardedSave(t, c) /\ LandedSave(c)
    BY <2>1 DEF LandedOf, GuardOf
  <2>3. GuardedSave(t, c)' /\ LandedSave(c)'
    BY <2>2, SavesStay
  <2> QED
    BY <2>1, <2>3
<1> QED
  BY <1>1, Zenon DEF SavesOf

LEMMA OneSaveChanges ==
  ASSUME CallTypes, NEW t \in Tabs, LandedOf(t), GuardOf(t), file' = file, landed' = landed,
         seen[t] \subseteq seen'[t], Missed(t) => Missed(t)',
         NEW i \in Slots, NEW c \in Saves, call' = [call EXCEPT ![t][i] = c],
         GuardedSave(t, c)', LandedSave(c)'
  PROVE  CallTypes' /\ SavesOf(t)' /\ \A u \in Tabs : u # t => call'[u] = call[u]
<1>1. /\ CallTypes' /\ call'[t][i] = c
      /\ \A j \in Slots : j # i => call'[t][j] = call[t][j]
      /\ \A u \in Tabs : u # t => call'[u] = call[u]
  BY DEF CallTypes
<1>2. ASSUME NEW j \in Slots
      PROVE  GuardedSave(t, call[t][j])' /\ LandedSave(call[t][j])'
  <2>1. CASE j = i
    BY <1>1, <2>1, Zenon
  <2>2. CASE j # i
    <3>1. PICK d : d = call[t][j] /\ d = call'[t][j]
      BY <1>1, <2>2, Zenon
    <3>2. GuardedSave(t, d) /\ LandedSave(d)
      BY <3>1 DEF LandedOf, GuardOf
    <3>3. GuardedSave(t, d)' /\ LandedSave(d)'
      BY <3>2, SavesStay
    <3> QED
      BY <3>1, <3>3
  <2> QED
    BY <2>1, <2>2
<1> QED
  BY <1>1, <1>2, Zenon DEF SavesOf

\* A step of tab t, from what it does to each part of the state.
LEMMA TabStepParts ==
  ASSUME NEW t \in Tabs, Types', file' = file, landed' = landed,
         \A u \in Tabs : u # t => TabKeeps(u) /\ (Missed(u) => Missed(u)'),
         SavesOf(t)', DocGuarded(t)', RowGuarded(t)',
         base'[t] = NoDoc \/ base'[t] \subseteq landed,
         Reached(offer[t])', Reached(load[t].file)',
         load'[t].pc = "load" /\ load'[t].act = "refresh"
           => screen'[t] \subseteq landed \cup load'[t].typed
  PROVE  TabStep(t)
BY DEF TabStep, LandedOf, GuardOf, SavesOf

LEMMA CallStep ==
  ASSUME SaveInv, NEW t \in Tabs, NEW i \in Slots, NEW c \in Saves,
         call' = [call EXCEPT ![t][i] = c], GuardedSave(t, c)', LandedSave(c)',
         UNCHANGED <<fileVars, docVars, askVars, hint, load, seen, late, spent>>
  PROVE  TabStep(t)
<1>1. Types /\ LandedOf(t) /\ GuardOf(t) /\ CallTypes
  BY DEF SaveInv, Types
<1>2. CallTypes' /\ SavesOf(t)' /\ \A u \in Tabs : u # t => call'[u] = call[u]
  <2>1. /\ file' = file /\ landed' = landed /\ seen[t] \subseteq seen'[t]
        /\ Missed(t) => Missed(t)'
    BY DEF fileVars, Missed
  <2> QED
    BY <1>1, <2>1, OneSaveChanges
<1>3. Types'
  BY <1>1, <1>2
  DEF Types, FileTypes, DocTypes, AskTypes, HintTypes, LoadTypes, SeenTypes, LateTypes,
      SpentTypes, fileVars, docVars, askVars
<1>4. DocGuarded(t)' /\ RowGuarded(t)'
  BY <1>1 DEF GuardOf, DocGuarded, RowGuarded, Missed, Shown, fileVars, docVars
<1>5. /\ file' = file /\ landed' = landed
      /\ \A u \in Tabs : u # t => TabKeeps(u) /\ (Missed(u) => Missed(u)')
      /\ base'[t] = NoDoc \/ base'[t] \subseteq landed
      /\ Reached(offer[t])' /\ Reached(load[t].file)'
      /\ load'[t].pc = "load" /\ load'[t].act = "refresh"
           => screen'[t] \subseteq landed \cup load'[t].typed
  BY <1>1, <1>2 DEF TabKeeps, Missed, LandedOf, Reached, fileVars, docVars
<1> QED
  BY <1>2, <1>3, <1>4, <1>5, TabStepParts

-----------------------------------------------------------------------------
(***************************************************************************)
(* The server's side of a save, and the answers to it.                     *)
(***************************************************************************)
LEMMA CheckIsTabStep ==
  ASSUME SaveInv, NEW t \in Tabs, NEW i \in Slots, Check(t, i)
  PROVE  TabStep(t)
<1>1. Types /\ GuardOf(t)
  BY DEF SaveInv
<1>2. PICK c \in Saves :
        /\ call' = [call EXCEPT ![t][i] = c]
        /\ c.doc = call[t][i].doc /\ c.quote = call[t][i].quote
        /\ \/ c.pc = "answer" /\ c.result = "missing"
           \/ c.pc = "answer" /\ c.result = "conflict" /\ c.got # Gone
           \/ c.pc = "write" /\ call[t][i].quote \in {Gone, file} /\ file # Gone
  BY <1>1, CheckChanges
<1>3. UNCHANGED <<fileVars, docVars, askVars, hint, load, seen, late, spent>>
  BY DEF Check
<1>4. GuardedSave(t, call[t][i]) /\ call[t][i].pc = "check"
  BY <1>1 DEF Check, GuardOf
<1>5. GuardedSave(t, c)'
  BY <1>2, <1>3, <1>4 DEF GuardedSave, Missed, Shown, fileVars
<1>6. LandedSave(c)'
  BY <1>2 DEF LandedSave
<1> QED
  BY <1>2, <1>3, <1>5, <1>6, CallStep

\* The receipt is what the file holds now: the save's own bytes, or another's.
LEMMA ReceiptIsTabStep ==
  ASSUME SaveInv, NEW t \in Tabs, NEW i \in Slots, Receipt(t, i)
  PROVE  TabStep(t)
<1>1. Types /\ GuardOf(t) /\ LandedOf(t) /\ CallTypes /\ file \in MaybeDigest
  BY DEF SaveInv, Types, FileTypes
<1>2. PICK d \in Saves : d = call[t][i]
  BY <1>1, CallRecord
<1> DEFINE c == [d EXCEPT !.pc = "answer", !.result = "ok", !.got = file]
<1>3. call' = [call EXCEPT ![t][i] = c]
  <2>1. call' = [[call EXCEPT ![t][i].pc = "answer", ![t][i].result = "ok"]
                   EXCEPT ![t][i].got = file]
    BY Zenon DEF Receipt, Answered
  <2> QED
    BY <2>1, <1>1, <1>2 DEF CallTypes
<1>4. c \in Saves /\ c.doc = d.doc /\ c.pc = "answer" /\ c.result = "ok" /\ c.got = file
  BY <1>1 DEF Saves
<1>5. UNCHANGED <<fileVars, docVars, askVars, hint, load, seen, late, spent>>
  BY DEF Receipt
<1>6. d.pc = "receipt" /\ GuardedSave(t, d) /\ LandedSave(d)
  BY <1>1, <1>2 DEF Receipt, GuardOf, LandedOf
<1> HIDE DEF c
<1>7. PICK e \in Saves : e = c /\ e.doc = d.doc /\ e.pc = "answer" /\ e.result = "ok" /\ e.got = file
  BY <1>4
<1>8. GuardedSave(t, e)' /\ LandedSave(e)'
  BY <1>5, <1>6, <1>7 DEF GuardedSave, LandedSave, Missed, Shown, fileVars
<1> QED
  BY <1>3, <1>5, <1>7, <1>8, CallStep

LEMMA NoSaveIsSafe ==
  ASSUME NEW t \in Tabs
  PROVE  NoCall \in Saves /\ GuardedSave(t, NoCall)' /\ LandedSave(NoCall)'
BY NoCallIsSave DEF GuardedSave, LandedSave, NoCall

LEMMA UnheardIsTabStep ==
  ASSUME SaveInv, NEW t \in Tabs, NEW i \in Slots, Unheard(t, i)
  PROVE  TabStep(t)
BY NoSaveIsSafe, CallStep DEF Unheard

LEMMA AdoptChanges ==
  ASSUME DocTypes, NEW t \in Tabs, NEW f \in MaybeDigest, Adopt(t, f)
  PROVE  /\ known' \in [Tabs -> MaybeDigest]
         /\ known'[t] = known[t] \/ (f # Gone /\ known'[t] = f)
         /\ \A u \in Tabs : u # t => known'[u] = known[u]
BY DEF DocTypes, Adopt

\* The answer that the document is on disk makes it the baseline.
LEMMA AutosaveLandsIsTabStep ==
  ASSUME SaveInv, NEW t \in Tabs, NEW i \in Slots, AutosaveLands(t, i)
  PROVE  TabStep(t)
<1>1. Types /\ GuardOf(t) /\ LandedOf(t) /\ CallTypes /\ DocTypes
  BY DEF SaveInv, Types
<1>2. PICK d \in Saves : d = call[t][i]
  BY <1>1, CallRecord
<1>3. d.pc = "answer" /\ d.result = "ok" /\ GuardedSave(t, d) /\ LandedSave(d)
  BY <1>1, <1>2 DEF AutosaveLands, Hears, GuardOf, LandedOf
<1>4. /\ d.doc \in Docs /\ d.got \in MaybeDigest
      /\ d.doc \subseteq landed
      /\ Missed(t) \/ Shown(t, d.got)
  BY <1>3 DEF GuardedSave, LandedSave, Saves
<1>5. /\ base' = [base EXCEPT ![t] = d.doc]
      /\ Adopt(t, d.got)
      /\ reported' = [reported EXCEPT ![t] = FALSE]
      /\ call' = [call EXCEPT ![t][i] = NoCall]
      /\ UNCHANGED <<fileVars, screen, timer, down, offer, draft, open, askVars, hint, load,
                     seen, late, spent>>
  BY <1>2 DEF AutosaveLands
<1>6. CallTypes' /\ SavesOf(t)' /\ \A u \in Tabs : u # t => call'[u] = call[u]
  <2>1. /\ file' = file /\ landed' = landed /\ seen[t] \subseteq seen'[t]
        /\ Missed(t) => Missed(t)'
    BY <1>5 DEF fileVars, Missed
  <2> QED
    BY <1>1, <1>5, <2>1, NoSaveIsSafe, OneSaveChanges
<1>7. /\ known' \in [Tabs -> MaybeDigest]
      /\ known'[t] = known[t] \/ known'[t] = d.got
      /\ \A u \in Tabs : u # t => known'[u] = known[u]
  BY <1>1, <1>4, <1>5, AdoptChanges
<1>8. /\ base' \in [Tabs -> Docs \cup {NoDoc}] /\ base'[t] = d.doc
      /\ \A u \in Tabs : u # t => base'[u] = base[u]
  BY <1>1, <1>4, <1>5 DEF DocTypes
<1>9. Types'
  <2>1. DocTypes'
    BY <1>1, <1>5, <1>7, <1>8 DEF DocTypes
  <2> QED
    BY <1>1, <1>5, <1>6, <2>1
    DEF Types, FileTypes, AskTypes, HintTypes, LoadTypes, SeenTypes, LateTypes,
        SpentTypes, fileVars, askVars
<1>10. DocGuarded(t)' /\ RowGuarded(t)'
  BY <1>1, <1>4, <1>5, <1>7 DEF GuardOf, DocGuarded, RowGuarded, Missed, Shown, fileVars
<1>11. /\ file' = file /\ landed' = landed
       /\ \A u \in Tabs : u # t => TabKeeps(u) /\ (Missed(u) => Missed(u)')
       /\ base'[t] = NoDoc \/ base'[t] \subseteq landed
       /\ Reached(offer[t])' /\ Reached(load[t].file)'
       /\ load'[t].pc = "load" /\ load'[t].act = "refresh"
            => screen'[t] \subseteq landed \cup load'[t].typed
  BY <1>1, <1>4, <1>5, <1>6, <1>7, <1>8
  DEF TabKeeps, Missed, LandedOf, Reached, fileVars
<1> QED
  BY <1>6, <1>9, <1>10, <1>11, TabStepParts

\* The refusal carries the file it met, and the user is told of it.
LEMMA AutosaveRefusedIsTabStep ==
  ASSUME SaveInv, NEW t \in Tabs, NEW i \in Slots, AutosaveRefused(t, i)
  PROVE  TabStep(t)
<1>1. Types /\ GuardOf(t) /\ LandedOf(t) /\ CallTypes /\ DocTypes /\ SeenTypes
  BY DEF SaveInv, Types
<1>2. PICK d \in Saves : d = call[t][i]
  BY <1>1, CallRecord
<1>3. d.pc = "answer" /\ d.result = "conflict" /\ GuardedSave(t, d)
  BY <1>1, <1>2 DEF AutosaveRefused, Hears, GuardOf
<1>4. d.got \in MaybeDigest /\ d.got # Gone /\ d.got.doc \in Docs
  BY <1>3, FileFacts DEF GuardedSave, Saves
<1>5. /\ base' = [base EXCEPT ![t] = NoDoc]
      /\ Adopt(t, d.got)
      /\ down' = [down EXCEPT ![t] = TRUE]
      /\ reported' = [reported EXCEPT ![t] = FALSE]
      /\ seen' = [seen EXCEPT ![t] = seen[t] \cup d.got.doc]
      /\ call' = [call EXCEPT ![t][i] = NoCall]
      /\ UNCHANGED <<fileVars, screen, timer, offer, draft, open, askVars, hint, load, late,
                     spent>>
  BY <1>2 DEF AutosaveRefused
<1>6. /\ SeenTypes' /\ seen[t] \subseteq seen'[t] /\ d.got.doc \subseteq seen'[t]
      /\ \A u \in Tabs : u # t => seen'[u] = seen[u]
  <2>1. seen[t] \cup d.got.doc \in Docs
    BY <1>1, <1>4, FileFacts DEF SeenTypes
  <2> QED
    BY <1>1, <1>5, <2>1 DEF SeenTypes
<1>7. CallTypes' /\ SavesOf(t)' /\ \A u \in Tabs : u # t => call'[u] = call[u]
  <2>1. file' = file /\ landed' = landed /\ (Missed(t) => Missed(t)')
    BY <1>5 DEF fileVars, Missed
  <2> QED
    BY <1>1, <1>5, <1>6, <2>1, NoSaveIsSafe, OneSaveChanges
<1>8. /\ known' \in [Tabs -> MaybeDigest]
      /\ known'[t] = known[t] \/ known'[t] = d.got
      /\ \A u \in Tabs : u # t => known'[u] = known[u]
  BY <1>1, <1>4, <1>5, AdoptChanges
<1>9. Types'
  <2>1. DocTypes'
    BY <1>1, <1>5, <1>8 DEF DocTypes
  <2> QED
    BY <1>1, <1>5, <1>6, <1>7, <2>1
    DEF Types, FileTypes, AskTypes, HintTypes, LoadTypes, LateTypes, SpentTypes, fileVars, askVars
<1>10. DocGuarded(t)' /\ RowGuarded(t)'
  BY <1>1, <1>4, <1>5, <1>6, <1>8 DEF GuardOf, DocGuarded, RowGuarded, Missed, Shown, fileVars
<1>11. /\ file' = file /\ landed' = landed
       /\ \A u \in Tabs : u # t => TabKeeps(u) /\ (Missed(u) => Missed(u)')
       /\ base'[t] = NoDoc \/ base'[t] \subseteq landed
       /\ Reached(offer[t])' /\ Reached(load[t].file)'
       /\ load'[t].pc = "load" /\ load'[t].act = "refresh"
            => screen'[t] \subseteq landed \cup load'[t].typed
  BY <1>1, <1>5, <1>6, <1>7, <1>8 DEF TabKeeps, Missed, LandedOf, Reached, fileVars, DocTypes
<1> QED
  BY <1>6, <1>7, <1>9, <1>10, <1>11, TabStepParts

LEMMA SaveFailsIsTabStep ==
  ASSUME SaveInv, NEW t \in Tabs, NEW i \in Slots, SaveFails(t, i)
  PROVE  TabStep(t)
<1>1. Types /\ GuardOf(t) /\ LandedOf(t) /\ CallTypes
  BY DEF SaveInv, Types
<1>2. /\ reported' = [reported EXCEPT ![t] = TRUE]
      /\ call' = [call EXCEPT ![t][i] = NoCall]
      /\ UNCHANGED <<fileVars, screen, base, known, timer, down, offer, draft, open, askVars,
                     hint, load, seen, late>>
  BY DEF SaveFails
<1>3. CallTypes' /\ SavesOf(t)' /\ \A u \in Tabs : u # t => call'[u] = call[u]
  <2>1. /\ file' = file /\ landed' = landed /\ seen[t] \subseteq seen'[t]
        /\ Missed(t) => Missed(t)'
    BY <1>2 DEF fileVars, Missed
  <2> QED
    BY <1>1, <1>2, <2>1, NoSaveIsSafe, OneSaveChanges
<1>4. Types'
  <2>1. spent' = spent \/ Spend("rare")
    BY DEF SaveFails
  <2>2. SpentTypes'
    BY <1>1, <2>1, SpendTypes DEF Types, SpentTypes
  <2> QED
    BY <1>1, <1>2, <1>3, <2>2
    DEF Types, FileTypes, DocTypes, AskTypes, HintTypes, LoadTypes, SeenTypes, LateTypes,
        fileVars, askVars
<1>5. DocGuarded(t)' /\ RowGuarded(t)'
  BY <1>1, <1>2 DEF GuardOf, DocGuarded, RowGuarded, Missed, Shown, fileVars
<1>6. /\ file' = file /\ landed' = landed
      /\ \A u \in Tabs : u # t => TabKeeps(u) /\ (Missed(u) => Missed(u)')
      /\ base'[t] = NoDoc \/ base'[t] \subseteq landed
      /\ Reached(offer[t])' /\ Reached(load[t].file)'
      /\ load'[t].pc = "load" /\ load'[t].act = "refresh"
           => screen'[t] \subseteq landed \cup load'[t].typed
  BY <1>1, <1>2, <1>3 DEF TabKeeps, Missed, LandedOf, Reached, fileVars
<1> QED
  BY <1>3, <1>4, <1>5, <1>6, TabStepParts

LEMMA ButtonLandsIsTabStep ==
  ASSUME SaveInv, NEW t \in Tabs, NEW i \in Slots, ButtonLands(t, i)
  PROVE  TabStep(t)
<1>1. Types /\ GuardOf(t) /\ LandedOf(t) /\ CallTypes /\ DocTypes
  BY DEF SaveInv, Types
<1>2. PICK d \in Saves : d = call[t][i]
  BY <1>1, CallRecord
<1>3. d.pc = "answer" /\ d.result = "ok" /\ GuardedSave(t, d) /\ LandedSave(d)
  BY <1>1, <1>2 DEF ButtonLands, Hears, GuardOf, LandedOf
<1>4. d.doc \in Docs /\ d.doc \subseteq landed
  BY <1>3 DEF LandedSave, Saves
<1>5. /\ base' = [base EXCEPT ![t] = d.doc]
      /\ open' = [open EXCEPT ![t] = TRUE]
      /\ down' = [down EXCEPT ![t] = FALSE]
      /\ deferred' = [deferred EXCEPT ![t] = FALSE]
      /\ UNCHANGED <<fileVars, screen, known, timer, offer, draft, reported, kept, hint, load,
                     seen, late, spent>>
  BY <1>2 DEF ButtonLands
<1> DEFINE c == [d EXCEPT !.result = "row"]
<1>6. c \in Saves /\ c.pc = d.pc /\ c.result = "row" /\ c.doc = d.doc /\ c.got = d.got
  BY DEF Saves
<1>7. call' = [call EXCEPT ![t][i] = c]
  <2>1. call' = [call EXCEPT ![t][i].result = "row"]
    BY Zenon DEF ButtonLands
  <2> QED
    BY <2>1, <1>1, <1>2 DEF CallTypes
<1> HIDE DEF c
<1>8. CallTypes' /\ SavesOf(t)' /\ \A u \in Tabs : u # t => call'[u] = call[u]
  <2>1. PICK e \in Saves : e = c /\ e.pc = "answer" /\ e.result = "row" /\ e.doc = d.doc
                           /\ e.got = d.got
    BY <1>3, <1>6
  <2>2. GuardedSave(t, e)' /\ LandedSave(e)'
    BY <1>3, <1>5, <2>1 DEF GuardedSave, LandedSave, Missed, Shown, fileVars
  <2>3. /\ file' = file /\ landed' = landed /\ seen[t] \subseteq seen'[t]
        /\ Missed(t) => Missed(t)'
    BY <1>5 DEF fileVars, Missed
  <2> QED
    BY <1>1, <1>7, <2>1, <2>2, <2>3, OneSaveChanges
<1>9. Types'
  <2>1. DocTypes' /\ AskTypes'
    BY <1>1, <1>4, <1>5 DEF Types, DocTypes, AskTypes
  <2> QED
    BY <1>1, <1>5, <1>8, <2>1
    DEF Types, FileTypes, HintTypes, LoadTypes, SeenTypes, LateTypes, SpentTypes, fileVars
<1>10. DocGuarded(t)' /\ RowGuarded(t)'
  BY <1>1, <1>5 DEF GuardOf, DocGuarded, RowGuarded, Missed, Shown, fileVars
<1>11. /\ file' = file /\ landed' = landed
       /\ \A u \in Tabs : u # t => TabKeeps(u) /\ (Missed(u) => Missed(u)')
       /\ base'[t] = NoDoc \/ base'[t] \subseteq landed
       /\ Reached(offer[t])' /\ Reached(load[t].file)'
       /\ load'[t].pc = "load" /\ load'[t].act = "refresh"
            => screen'[t] \subseteq landed \cup load'[t].typed
  BY <1>1, <1>4, <1>5, <1>8 DEF TabKeeps, Missed, LandedOf, Reached, fileVars, DocTypes
<1> QED
  BY <1>8, <1>9, <1>10, <1>11, TabStepParts

LEMMA ButtonRowIsTabStep ==
  ASSUME SaveInv, NEW t \in Tabs, NEW i \in Slots, ButtonRow(t, i)
  PROVE  TabStep(t)
<1>1. /\ Types /\ GuardOf(t) /\ LandedOf(t) /\ CallTypes /\ DocTypes /\ file \in MaybeDigest
  BY DEF SaveInv, Types, FileTypes
<1>2. PICK d \in Saves : d = call[t][i]
  BY <1>1, CallRecord
<1>3. d.pc = "answer" /\ d.result = "row" /\ GuardedSave(t, d)
  BY <1>1, <1>2 DEF ButtonRow, Hears, GuardOf
<1>4. PICK f \in MaybeDigest : /\ f = IF d.got = Gone THEN file ELSE d.got
                               /\ Missed(t) \/ Shown(t, f)
  BY <1>1, <1>3 DEF GuardedSave, Saves, Shown
<1>5. /\ Adopt(t, f)
      /\ call' = [call EXCEPT ![t][i] = NoCall]
      /\ UNCHANGED <<fileVars, screen, base, timer, down, offer, draft, open, reported, askVars,
                     hint, load, seen, late, spent>>
  BY <1>2, <1>4 DEF ButtonRow
<1>6. CallTypes' /\ SavesOf(t)' /\ \A u \in Tabs : u # t => call'[u] = call[u]
  <2>1. /\ file' = file /\ landed' = landed /\ seen[t] \subseteq seen'[t]
        /\ Missed(t) => Missed(t)'
    BY <1>5 DEF fileVars, Missed
  <2> QED
    BY <1>1, <1>5, <2>1, NoSaveIsSafe, OneSaveChanges
<1>7. /\ known' \in [Tabs -> MaybeDigest]
      /\ known'[t] = known[t] \/ known'[t] = f
      /\ \A u \in Tabs : u # t => known'[u] = known[u]
  BY <1>1, <1>5, AdoptChanges
<1>8. Types'
  BY <1>1, <1>5, <1>6, <1>7
  DEF Types, FileTypes, DocTypes, AskTypes, HintTypes, LoadTypes, SeenTypes, LateTypes,
      SpentTypes, fileVars, askVars
<1>9. DocGuarded(t)' /\ RowGuarded(t)'
  BY <1>1, <1>4, <1>5, <1>7 DEF GuardOf, DocGuarded, RowGuarded, Missed, Shown, fileVars
<1>10. /\ file' = file /\ landed' = landed
       /\ \A u \in Tabs : u # t => TabKeeps(u) /\ (Missed(u) => Missed(u)')
       /\ base'[t] = NoDoc \/ base'[t] \subseteq landed
       /\ Reached(offer[t])' /\ Reached(load[t].file)'
       /\ load'[t].pc = "load" /\ load'[t].act = "refresh"
            => screen'[t] \subseteq landed \cup load'[t].typed
  BY <1>1, <1>5, <1>6, <1>7 DEF TabKeeps, Missed, LandedOf, Reached, fileVars
<1> QED
  BY <1>6, <1>8, <1>9, <1>10, TabStepParts

-----------------------------------------------------------------------------
(***************************************************************************)
(* The timer, the Save button, and what a tab hears.                       *)
(***************************************************************************)
\* A save leaves with the document on screen.
LEMMA SentChanges ==
  ASSUME NEW t \in Tabs, Types, GuardOf(t), NEW i \in Slots, NEW kind \in {"auto", "button"},
         NEW q \in MaybeDigest, Missed(t) \/ q = Gone \/ Shown(t, q), call' = Sent(t, i, kind, q)
  PROVE  \E c \in Saves : /\ call' = [call EXCEPT ![t][i] = c]
                          /\ c.pc = "check" /\ c.quote = q /\ c.doc \subseteq seen[t]
<1>1. screen[t] \in Docs /\ kept[t] \in MaybeDigest /\ screen[t] \subseteq seen[t]
  BY DEF Types, DocTypes, AskTypes, GuardOf, DocGuarded
<1> DEFINE c == [NoCall EXCEPT !.pc = "check", !.kind = kind, !.doc = screen[t],
                               !.quote = q, !.kept = kept[t]]
<1>2. c \in Saves /\ c.pc = "check" /\ c.quote = q /\ c.doc = screen[t]
  BY <1>1, NoCallIsSave DEF Saves
<1>3. call' = [call EXCEPT ![t][i] = c]
  BY Zenon DEF Sent
<1> HIDE DEF c
<1> QED
  BY <1>1, <1>2, <1>3

LEMMA DraftChanges ==
  ASSUME NEW t \in Tabs, DocTypes, DocGuarded(t), draft' = [draft EXCEPT ![t] = DraftNow(t)]
  PROVE  /\ draft' \in [Tabs -> [doc : Docs \cup {NoDoc}, base : MaybeDigest]]
         /\ draft'[t].doc \subseteq seen[t]
         /\ draft'[t].base = Gone \/ draft'[t].base = known[t]
         /\ \A u \in Tabs : u # t => draft'[u] = draft[u]
<1>1. screen[t] \in Docs /\ known[t] \in MaybeDigest /\ screen[t] \subseteq seen[t]
  BY DEF DocTypes, DocGuarded
<1>2. PICK b \in {Gone, known[t]} : DraftNow(t) = [doc |-> screen[t], base |-> b]
  BY Zenon DEF DraftNow
<1>3. DraftNow(t) \in [doc : Docs \cup {NoDoc}, base : MaybeDigest]
  BY <1>1, <1>2, FileFacts
<1>4. DraftNow(t).doc = screen[t] /\ DraftNow(t).base = b
  BY <1>2
<1> QED
  BY <1>1, <1>3, <1>4 DEF DocTypes

LEMMA FireQuietlyIsTabStep ==
  ASSUME SaveInv, NEW t \in Tabs, FireQuietly(t)
  PROVE  TabStep(t)
<1>1. Types /\ GuardOf(t) /\ LandedOf(t) /\ DocTypes /\ LateTypes /\ DocGuarded(t)
  BY DEF SaveInv, Types, GuardOf
<1>2. /\ timer' = [timer EXCEPT ![t] = FALSE]
      /\ draft' = [draft EXCEPT ![t] = DraftNow(t)]
      /\ reported' = [reported EXCEPT ![t] = FALSE]
      /\ UNCHANGED <<fileVars, screen, base, known, down, offer, open, askVars, hint, load,
                     call, seen, spent>>
  BY DEF FireQuietly, TimerFires
<1>3. /\ draft' \in [Tabs -> [doc : Docs \cup {NoDoc}, base : MaybeDigest]]
      /\ draft'[t].doc \subseteq seen[t]
      /\ draft'[t].base = Gone \/ draft'[t].base = known[t]
      /\ \A u \in Tabs : u # t => draft'[u] = draft[u]
  BY <1>1, <1>2, DraftChanges
<1>4. LateTypes' /\ \A u \in Tabs : Missed(u) <=> Missed(u)'
  BY <1>1, CrossesChanges DEF FireQuietly, Missed
<1>5. Types'
  BY <1>1, <1>2, <1>3, <1>4
  DEF Types, FileTypes, DocTypes, AskTypes, HintTypes, LoadTypes, CallTypes, SeenTypes,
      SpentTypes, fileVars, askVars
<1>6. SavesOf(t)'
  BY <1>1, <1>2, <1>4, SavesUntouched DEF fileVars
<1>7. DocGuarded(t)' /\ RowGuarded(t)'
  BY <1>1, <1>2, <1>3, <1>4 DEF GuardOf, DocGuarded, RowGuarded, Shown, fileVars
<1>8. /\ file' = file /\ landed' = landed
      /\ \A u \in Tabs : u # t => TabKeeps(u) /\ (Missed(u) => Missed(u)')
      /\ base'[t] = NoDoc \/ base'[t] \subseteq landed
      /\ Reached(offer[t])' /\ Reached(load[t].file)'
      /\ load'[t].pc = "load" /\ load'[t].act = "refresh"
           => screen'[t] \subseteq landed \cup load'[t].typed
  BY <1>1, <1>2, <1>3, <1>4 DEF TabKeeps, LandedOf, Reached, fileVars
<1> QED
  BY <1>5, <1>6, <1>7, <1>8, TabStepParts

LEMMA FireSaveIsTabStep ==
  ASSUME SaveInv, NEW t \in Tabs, NEW i \in Slots, FireSave(t, i)
  PROVE  TabStep(t)
<1>1. /\ Types /\ GuardOf(t) /\ LandedOf(t) /\ DocTypes /\ LateTypes /\ CallTypes /\ DocGuarded(t)
      /\ known[t] \in MaybeDigest
  BY DEF SaveInv, Types, GuardOf, DocTypes
<1>2. /\ timer' = [timer EXCEPT ![t] = FALSE]
      /\ draft' = [draft EXCEPT ![t] = DraftNow(t)]
      /\ call' = Sent(t, i, "auto", known[t])
      /\ UNCHANGED <<fileVars, screen, base, known, down, offer, open, reported, askVars,
                     hint, load, seen>>
  BY DEF FireSave, TimerFires
<1>3. /\ draft' \in [Tabs -> [doc : Docs \cup {NoDoc}, base : MaybeDigest]]
      /\ draft'[t].doc \subseteq seen[t]
      /\ draft'[t].base = Gone \/ draft'[t].base = known[t]
      /\ \A u \in Tabs : u # t => draft'[u] = draft[u]
  BY <1>1, <1>2, DraftChanges
<1>4. LateTypes' /\ \A u \in Tabs : Missed(u) <=> Missed(u)'
  BY <1>1, CrossesChanges DEF FireSave, Missed
<1>5. Missed(t) \/ known[t] = Gone \/ Shown(t, known[t])
  BY <1>1 DEF DocGuarded
<1>6. PICK c \in Saves : /\ call' = [call EXCEPT ![t][i] = c]
                         /\ c.pc = "check" /\ c.quote = known[t] /\ c.doc \subseteq seen[t]
  <2>1. PICK q \in MaybeDigest, kind \in {"auto", "button"} : q = known[t] /\ kind = "auto"
    BY <1>1
  <2>2. Missed(t) \/ q = Gone \/ Shown(t, q)
    BY <1>5, <2>1
  <2>3. call' = Sent(t, i, kind, q)
    BY <1>2, <2>1
  <2>4. \E c \in Saves : /\ call' = [call EXCEPT ![t][i] = c]
                         /\ c.pc = "check" /\ c.quote = q /\ c.doc \subseteq seen[t]
    BY <1>1, <2>2, <2>3, SentChanges
  <2> QED
    BY <2>1, <2>4
<1>7. CallTypes' /\ SavesOf(t)' /\ \A u \in Tabs : u # t => call'[u] = call[u]
  <2>1. GuardedSave(t, c)' /\ LandedSave(c)'
    BY <1>2, <1>4, <1>5, <1>6 DEF GuardedSave, LandedSave, Shown, fileVars
  <2>2. /\ file' = file /\ landed' = landed /\ seen[t] \subseteq seen'[t]
        /\ Missed(t) => Missed(t)'
    BY <1>2, <1>4 DEF fileVars
  <2> QED
    BY <1>1, <1>6, <2>1, <2>2, OneSaveChanges
<1>8. Types'
  <2>1. spent' = spent \/ Spend("rare")
    BY DEF FireSave
  <2>2. SpentTypes'
    BY <1>1, <2>1, SpendTypes DEF Types, SpentTypes
  <2> QED
    BY <1>1, <1>2, <1>3, <1>4, <1>7, <2>2
    DEF Types, FileTypes, DocTypes, AskTypes, HintTypes, LoadTypes, SeenTypes, fileVars, askVars
<1>9. DocGuarded(t)' /\ RowGuarded(t)'
  BY <1>1, <1>2, <1>3, <1>4 DEF GuardOf, DocGuarded, RowGuarded, Shown, fileVars
<1>10. /\ file' = file /\ landed' = landed
       /\ \A u \in Tabs : u # t => TabKeeps(u) /\ (Missed(u) => Missed(u)')
       /\ base'[t] = NoDoc \/ base'[t] \subseteq landed
       /\ Reached(offer[t])' /\ Reached(load[t].file)'
       /\ load'[t].pc = "load" /\ load'[t].act = "refresh"
            => screen'[t] \subseteq landed \cup load'[t].typed
  BY <1>1, <1>2, <1>3, <1>4, <1>7 DEF TabKeeps, LandedOf, Reached, fileVars
<1> QED
  BY <1>7, <1>8, <1>9, <1>10, TabStepParts

LEMMA PressSaveIsTabStep ==
  ASSUME SaveInv, NEW t \in Tabs, NEW i \in Slots, PressSave(t, i)
  PROVE  TabStep(t)
<1>1. Types /\ GuardOf(t) /\ LandedOf(t) /\ LateTypes /\ CallTypes /\ SpentTypes
  BY DEF SaveInv, Types, GuardOf
<1>2. /\ call' = Sent(t, i, "button", Gone) /\ Spend("rare")
      /\ UNCHANGED <<fileVars, docVars, askVars, hint, load, seen>>
  BY DEF PressSave
<1>3. LateTypes' /\ \A u \in Tabs : Missed(u) <=> Missed(u)'
  BY <1>1, CrossesChanges DEF PressSave, Missed
<1>4. PICK c \in Saves : /\ call' = [call EXCEPT ![t][i] = c]
                         /\ c.pc = "check" /\ c.quote = Gone /\ c.doc \subseteq seen[t]
  BY <1>1, <1>2, FileFacts, SentChanges
<1>5. CallTypes' /\ SavesOf(t)' /\ \A u \in Tabs : u # t => call'[u] = call[u]
  <2>1. GuardedSave(t, c)' /\ LandedSave(c)'
    BY <1>2, <1>4 DEF GuardedSave, LandedSave
  <2>2. /\ file' = file /\ landed' = landed /\ seen[t] \subseteq seen'[t]
        /\ Missed(t) => Missed(t)'
    BY <1>2, <1>3 DEF fileVars
  <2> QED
    BY <1>1, <1>4, <2>1, <2>2, OneSaveChanges
<1>6. Types'
  <2>1. SpentTypes'
    BY <1>1, <1>2, SpendTypes
  <2> QED
    BY <1>1, <1>2, <1>3, <1>5, <2>1
    DEF Types, FileTypes, DocTypes, AskTypes, HintTypes, LoadTypes, SeenTypes, fileVars,
        docVars, askVars
<1>7. DocGuarded(t)' /\ RowGuarded(t)'
  BY <1>1, <1>2, <1>3 DEF GuardOf, DocGuarded, RowGuarded, Shown, fileVars, docVars
<1>8. /\ file' = file /\ landed' = landed
      /\ \A u \in Tabs : u # t => TabKeeps(u) /\ (Missed(u) => Missed(u)')
      /\ base'[t] = NoDoc \/ base'[t] \subseteq landed
      /\ Reached(offer[t])' /\ Reached(load[t].file)'
      /\ load'[t].pc = "load" /\ load'[t].act = "refresh"
           => screen'[t] \subseteq landed \cup load'[t].typed
  BY <1>1, <1>2, <1>3, <1>5 DEF TabKeeps, LandedOf, Reached, fileVars, docVars
<1> QED
  BY <1>5, <1>6, <1>7, <1>8, TabStepParts

LEMMA HintChanges ==
  ASSUME HintTypes, NEW t \in Tabs, NEW h \in MaybeDigest,
         hint' = [hint EXCEPT ![t] = {}] \/ hint' = [hint EXCEPT ![t] = {h}]
  PROVE  HintTypes'
<1>1. PICK s \in SUBSET MaybeDigest : s \in {{}, {h}} /\ hint' = [hint EXCEPT ![t] = s]
  OBVIOUS
<1>2. IsFiniteSet(s) /\ Cardinality(s) =< 1
  <2>1. IsFiniteSet({}) /\ Cardinality({}) = 0 /\ IsFiniteSet({h}) /\ Cardinality({h}) = 1
    BY FS_EmptySet, FS_Singleton, Zenon
  <2> QED
    BY <1>1, <2>1
<1> QED
  BY <1>1, <1>2 DEF HintTypes

\* Steps that only bring news to the tab, or end a question put to its user.
LEMMA NewsIsTabStep ==
  ASSUME SaveInv, NEW t \in Tabs, HintTypes', DocTypes', LoadTypes', SpentTypes',
         base' = base \/ base' = [base EXCEPT ![t] = NoDoc],
         known' = known \/ known' = [known EXCEPT ![t] = Gone],
         UNCHANGED <<fileVars, screen, offer, draft, askVars, load, call, seen, late>>
  PROVE  TabStep(t)
<1>1. Types /\ GuardOf(t) /\ LandedOf(t) /\ DocTypes
  BY DEF SaveInv, Types
<1>2. Types'
  BY <1>1 DEF Types, FileTypes, AskTypes, CallTypes, SeenTypes, LateTypes, fileVars, askVars
<1>3. SavesOf(t)'
  BY <1>1, SavesUntouched DEF fileVars, Missed
<1>4. /\ known'[t] = known[t] \/ known'[t] = Gone
      /\ base'[t] = base[t] \/ base'[t] = NoDoc
      /\ \A u \in Tabs : u # t => known'[u] = known[u] /\ base'[u] = base[u]
  BY <1>1 DEF DocTypes
<1>5. DocGuarded(t)' /\ RowGuarded(t)'
  BY <1>1, <1>4 DEF GuardOf, DocGuarded, RowGuarded, Missed, Shown, fileVars
<1>6. /\ file' = file /\ landed' = landed
      /\ \A u \in Tabs : u # t => TabKeeps(u) /\ (Missed(u) => Missed(u)')
      /\ base'[t] = NoDoc \/ base'[t] \subseteq landed
      /\ Reached(offer[t])' /\ Reached(load[t].file)'
      /\ load'[t].pc = "load" /\ load'[t].act = "refresh"
           => screen'[t] \subseteq landed \cup load'[t].typed
  BY <1>1, <1>4 DEF TabKeeps, Missed, LandedOf, Reached, fileVars
<1> QED
  BY <1>2, <1>3, <1>5, <1>6, TabStepParts

LEMMA HearIsTabStep ==
  ASSUME SaveInv, NEW t \in Tabs, Hear(t)
  PROVE  TabStep(t)
<1>1. Types /\ file \in MaybeDigest
  BY DEF SaveInv, Types, FileTypes
<1>2. /\ hint' = [hint EXCEPT ![t] = {file}]
      /\ UNCHANGED <<fileVars, docVars, askVars, load, call, seen, late, spent>>
  BY DEF Hear
<1>3. HintTypes'
  <2>1. PICK h \in MaybeDigest : h = file
    BY <1>1
  <2>2. HintTypes /\ hint' = [hint EXCEPT ![t] = {h}]
    BY <1>1, <1>2, <2>1 DEF Types
  <2> QED
    BY <2>2, HintChanges
<1>4. DocTypes' /\ LoadTypes' /\ SpentTypes'
  BY <1>1, <1>2 DEF Types, DocTypes, LoadTypes, SpentTypes, docVars
<1> QED
  BY <1>2, <1>3, <1>4, NewsIsTabStep DEF docVars

LEMMA HeardChanges ==
  ASSUME HintTypes, NEW t \in Tabs, Heard(t)
  PROVE  HintTypes'
BY HintChanges, FileFacts DEF Heard

LEMMA AbandonIsTabStep ==
  ASSUME SaveInv, NEW t \in Tabs, Abandon(t)
  PROVE  TabStep(t)
<1>1. Types /\ HintTypes /\ DocTypes
  BY DEF SaveInv, Types
<1>2. /\ base' = [base EXCEPT ![t] = NoDoc]
      /\ known' = [known EXCEPT ![t] = Gone]
      /\ open' = [open EXCEPT ![t] = FALSE]
      /\ UNCHANGED <<fileVars, screen, timer, down, offer, draft, reported, askVars, load,
                     call, seen, late, spent>>
  BY DEF Abandon
<1>3. HintTypes'
  BY <1>1, HeardChanges DEF Abandon
<1>4. DocTypes' /\ LoadTypes' /\ SpentTypes'
  BY <1>1, <1>2, FileFacts DEF Types, DocTypes, LoadTypes, SpentTypes
<1> QED
  BY <1>2, <1>3, <1>4, NewsIsTabStep

LEMMA IgnoreIsTabStep ==
  ASSUME SaveInv, NEW t \in Tabs, Ignore(t)
  PROVE  TabStep(t)
<1>1. Types /\ HintTypes
  BY DEF SaveInv, Types
<1>2. UNCHANGED <<fileVars, docVars, askVars, load, call, seen, late, spent>>
  BY DEF Ignore
<1>3. HintTypes'
  BY <1>1, HeardChanges DEF Ignore
<1>4. DocTypes' /\ LoadTypes' /\ SpentTypes'
  BY <1>1, <1>2 DEF Types, DocTypes, LoadTypes, SpentTypes, docVars
<1> QED
  BY <1>2, <1>3, <1>4, NewsIsTabStep DEF docVars

-----------------------------------------------------------------------------
(***************************************************************************)
(* Loading the file.                                                       *)
(***************************************************************************)
\* Steps of a tab that change nothing but what it is loading.
LEMMA LoadIsTabStep ==
  ASSUME SaveInv, NEW t \in Tabs, NEW l \in Loads, load' = [load EXCEPT ![t] = l],
         HintTypes', SpentTypes', Reached(l.file), l.pc = "row" => l.act = "restore" /\ l.file = file /\ file # Gone,
         l.pc = "load" /\ l.act = "refresh" => base[t] = screen[t],
         UNCHANGED <<fileVars, docVars, askVars, call, seen, late>>
  PROVE  TabStep(t)
<1>1. Types /\ GuardOf(t) /\ LandedOf(t) /\ DocTypes /\ LoadTypes
  BY DEF SaveInv, Types
<1>2. LoadTypes' /\ load'[t] = l /\ \A u \in Tabs : u # t => load'[u] = load[u]
  BY <1>1, OneLoadChanges
<1>3. Types'
  BY <1>1, <1>2
  DEF Types, FileTypes, DocTypes, AskTypes, CallTypes, SeenTypes, LateTypes, fileVars,
      docVars, askVars
<1>4. SavesOf(t)'
  BY <1>1, SavesUntouched DEF fileVars, Missed
<1>5. DocGuarded(t)' /\ RowGuarded(t)'
  BY <1>1, <1>2 DEF GuardOf, DocGuarded, RowGuarded, Missed, Shown, fileVars, docVars
<1>6. screen[t] # NoDoc
  BY <1>1, FileFacts DEF DocTypes
<1>7. /\ file' = file /\ landed' = landed
      /\ \A u \in Tabs : u # t => TabKeeps(u) /\ (Missed(u) => Missed(u)')
      /\ base'[t] = NoDoc \/ base'[t] \subseteq landed
      /\ Reached(offer[t])' /\ Reached(load[t].file)'
      /\ load'[t].pc = "load" /\ load'[t].act = "refresh"
           => screen'[t] \subseteq landed \cup load'[t].typed
  BY <1>1, <1>2, <1>6 DEF TabKeeps, Missed, LandedOf, Reached, fileVars, docVars
<1> QED
  BY <1>3, <1>4, <1>5, <1>7, TabStepParts

\* The canvas is the baseline, or the user is asked.
LEMMA ReactIsTabStep ==
  ASSUME SaveInv, NEW t \in Tabs, React(t)
  PROVE  TabStep(t)
<1>1. Types /\ HintTypes /\ SpentTypes
  BY DEF SaveInv, Types
<1>2. Reaction(t) \in {"refresh", "ask"} /\ (Reaction(t) = "refresh" => base[t] = screen[t])
  BY DEF Reaction
<1>3. PICK l \in Loads : /\ load' = [load EXCEPT ![t] = l]
                         /\ l.pc = "load" /\ l.act = Reaction(t) /\ l.file = Gone
  <2> DEFINE l == [NoLoad EXCEPT !.pc = "load", !.act = Reaction(t)]
  <2>1. l \in Loads /\ l.pc = "load" /\ l.act = Reaction(t) /\ l.file = Gone
    BY <1>2, FileFacts DEF NoLoad, Loads
  <2>2. load' = [load EXCEPT ![t] = l]
    BY Zenon DEF React
  <2> HIDE DEF l
  <2> QED
    BY <2>1, <2>2
<1>4. HintTypes'
  BY <1>1, HeardChanges DEF React
<1>5. UNCHANGED <<fileVars, docVars, askVars, call, seen, late, spent>>
  BY DEF React
<1>6. SpentTypes'
  BY <1>1, <1>5 DEF SpentTypes
<1> QED
  BY <1>2, <1>3, <1>4, <1>5, <1>6, LoadIsTabStep DEF Reached

\* What becomes of a load that is over.
LEMMA IdleLoad == NoLoad \in Loads /\ NoLoad.pc = "idle" /\ NoLoad.file = Gone
BY NoCallIsSave DEF NoLoad

LEMMA FetchedIsTabStep ==
  ASSUME SaveInv, NEW t \in Tabs, Fetched(t)
  PROVE  TabStep(t)
<1>1. Types /\ HintTypes /\ SpentTypes /\ Reached(file) /\ file \in MaybeDigest /\ file # Gone
  BY DEF SaveInv, Types, FileTypes, Fetched, Loaded
<1>2. UNCHANGED <<fileVars, docVars, askVars, hint, call, seen, late, spent>>
  BY DEF Fetched
<1>3. HintTypes' /\ SpentTypes'
  BY <1>1, <1>2 DEF HintTypes, SpentTypes
<1>4. CASE Unbaselined(t)
  <2> DEFINE l == [NoLoad EXCEPT !.pc = "row", !.act = "restore", !.file = file]
  <2>1. l \in Loads /\ l.pc = "row" /\ l.act = "restore" /\ l.file = file
    BY <1>1, NoCallIsSave DEF NoLoad, Loads
  <2>2. load' = [load EXCEPT ![t] = l]
    BY <1>4, Zenon DEF Fetched
  <2> HIDE DEF l
  <2> QED
    BY <1>1, <1>2, <1>3, <2>1, <2>2, LoadIsTabStep
<1>5. CASE ~Unbaselined(t)
  <2>1. load' = [load EXCEPT ![t] = NoLoad]
    BY <1>5, Zenon DEF Fetched
  <2> QED
    BY <1>2, <1>3, <2>1, IdleLoad, LoadIsTabStep DEF Reached
<1> QED
  BY <1>4, <1>5

LEMMA LoadFailsIsTabStep ==
  ASSUME SaveInv, NEW t \in Tabs, LoadFails(t)
  PROVE  TabStep(t)
<1>1. Types /\ HintTypes /\ SpentTypes
  BY DEF SaveInv, Types
<1>2. /\ load' = [load EXCEPT ![t] = NoLoad]
      /\ UNCHANGED <<fileVars, docVars, askVars, hint, call, seen, late>>
  BY DEF LoadFails
<1>3. HintTypes' /\ SpentTypes'
  <2>1. spent' = spent \/ Spend("rare")
    BY DEF LoadFails
  <2> QED
    BY <1>1, <1>2, <2>1, SpendTypes DEF HintTypes, SpentTypes
<1> QED
  BY <1>2, <1>3, IdleLoad, LoadIsTabStep DEF Reached

LEMMA OpenAgainIsTabStep ==
  ASSUME SaveInv, NEW t \in Tabs, OpenAgain(t)
  PROVE  TabStep(t)
<1>1. Types /\ HintTypes /\ SpentTypes
  BY DEF SaveInv, Types
<1>2. /\ load' = [load EXCEPT ![t] = [NoLoad EXCEPT !.pc = "load", !.act = "open"]]
      /\ Spend("answers")
      /\ UNCHANGED <<fileVars, docVars, askVars, hint, call, seen, late>>
  BY DEF OpenAgain
<1>3. HintTypes' /\ SpentTypes'
  BY <1>1, <1>2, SpendTypes DEF HintTypes
<1> DEFINE l == [NoLoad EXCEPT !.pc = "load", !.act = "open"]
<1>4. l \in Loads /\ l.pc = "load" /\ l.act = "open" /\ l.file = Gone
  BY NoCallIsSave DEF NoLoad, Loads
<1> HIDE DEF l
<1>5. load' = [load EXCEPT ![t] = l]
  BY <1>2, Zenon DEF l
<1> QED
  BY <1>2, <1>3, <1>4, <1>5, LoadIsTabStep DEF Reached

\* The file is put in front of the user.
LEMMA OfferedIsTabStep ==
  ASSUME SaveInv, NEW t \in Tabs, Offered(t)
  PROVE  TabStep(t)
<1>1. /\ Types /\ GuardOf(t) /\ LandedOf(t) /\ DocTypes /\ LateTypes /\ LoadTypes /\ SeenTypes
      /\ file \in MaybeDigest /\ file # Gone /\ file.doc \in Docs /\ Reached(file)
  BY FileFacts DEF SaveInv, Types, FileTypes, Offered, Loaded
<1>2. /\ base' = [base EXCEPT ![t] = NoDoc]
      /\ offer' = [offer EXCEPT ![t] = file]
      /\ seen' = [seen EXCEPT ![t] = seen[t] \cup file.doc]
      /\ load' = [load EXCEPT ![t] = NoLoad]
      /\ UNCHANGED <<fileVars, screen, known, timer, down, draft, open, reported, askVars,
                     hint, call, spent>>
  BY DEF Offered
<1>3. LateTypes' /\ \A u \in Tabs : Missed(u) <=> Missed(u)'
  BY <1>1, CrossesChanges DEF Offered, Missed
<1>4. /\ SeenTypes' /\ seen[t] \subseteq seen'[t] /\ file.doc \subseteq seen'[t]
      /\ \A u \in Tabs : u # t => seen'[u] = seen[u]
  <2>1. seen[t] \cup file.doc \in Docs
    BY <1>1, FileFacts DEF SeenTypes
  <2> QED
    BY <1>1, <1>2, <2>1 DEF SeenTypes
<1>5. LoadTypes' /\ load'[t] = NoLoad /\ \A u \in Tabs : u # t => load'[u] = load[u]
  BY <1>1, <1>2, IdleLoad, OneLoadChanges
<1>6. /\ DocTypes' /\ offer'[t] = file /\ base'[t] = NoDoc
      /\ \A u \in Tabs : u # t => offer'[u] = offer[u] /\ base'[u] = base[u]
  BY <1>1, <1>2 DEF DocTypes
<1>7. Types'
  BY <1>1, <1>2, <1>3, <1>4, <1>5, <1>6
  DEF Types, FileTypes, AskTypes, HintTypes, CallTypes, SpentTypes, fileVars, askVars
<1>8. SavesOf(t)'
  BY <1>1, <1>2, <1>3, <1>4, SavesUntouched DEF fileVars
<1>9. DocGuarded(t)' /\ RowGuarded(t)'
  BY <1>1, <1>2, <1>3, <1>4, <1>5, <1>6, IdleLoad DEF GuardOf, DocGuarded, RowGuarded, Shown, fileVars
<1>10. /\ file' = file /\ landed' = landed
       /\ \A u \in Tabs : u # t => TabKeeps(u) /\ (Missed(u) => Missed(u)')
       /\ base'[t] = NoDoc \/ base'[t] \subseteq landed
       /\ Reached(offer[t])' /\ Reached(load[t].file)'
       /\ load'[t].pc = "load" /\ load'[t].act = "refresh"
            => screen'[t] \subseteq landed \cup load'[t].typed
  BY <1>1, <1>2, <1>3, <1>4, <1>5, <1>6, IdleLoad DEF TabKeeps, Reached, fileVars
<1> QED
  BY <1>7, <1>8, <1>9, <1>10, TabStepParts

\* What is imported is on the canvas, and is the baseline.
LEMMA ImportChanges ==
  ASSUME DocTypes, LateTypes, NEW t \in Tabs, NEW doc \in Docs, Import(t, doc)
  PROVE  /\ screen' \in [Tabs -> Docs] /\ screen'[t] = doc
         /\ base' \in [Tabs -> Docs \cup {NoDoc}] /\ base'[t] = doc
         /\ timer' \in [Tabs -> BOOLEAN]
         /\ \A u \in Tabs : u # t => screen'[u] = screen[u] /\ base'[u] = base[u]
         /\ LateTypes' /\ \A u \in Tabs : Missed(u) <=> Missed(u)'
<1>1. /\ screen' = [screen EXCEPT ![t] = doc]
      /\ base' = [base EXCEPT ![t] = doc]
      /\ timer' = [timer EXCEPT ![t] = TRUE]
      /\ Crosses(t)
  BY Zenon DEF Import
<1>2. LateTypes' /\ \A u \in Tabs : Missed(u) <=> Missed(u)'
  BY <1>1, CrossesChanges DEF Missed
<1> QED
  BY <1>1, <1>2 DEF DocTypes

LEMMA ImportedIsTabStep ==
  ASSUME SaveInv, NEW t \in Tabs, Imported(t)
  PROVE  TabStep(t)
<1>1. /\ Types /\ GuardOf(t) /\ LandedOf(t) /\ DocTypes /\ LateTypes /\ LoadTypes /\ SeenTypes
      /\ AskTypes /\ file \in MaybeDigest /\ file # Gone /\ file.doc \in Docs /\ Reached(file)
      /\ load[t].act \in {"refresh", "open"}
  BY FileFacts DEF SaveInv, Types, FileTypes, Imported, Loaded
<1>2. /\ Import(t, file.doc)
      /\ seen' = [seen EXCEPT ![t] = seen[t] \cup file.doc]
      /\ load' = [load EXCEPT ![t] = [NoLoad EXCEPT !.pc = "row", !.act = load[t].act]]
      /\ UNCHANGED <<fileVars, known, offer, draft, open, reported, hint, call, spent>>
  BY DEF Imported
<1>3. /\ screen' \in [Tabs -> Docs] /\ screen'[t] = file.doc
      /\ base' \in [Tabs -> Docs \cup {NoDoc}] /\ base'[t] = file.doc
      /\ timer' \in [Tabs -> BOOLEAN]
      /\ \A u \in Tabs : u # t => screen'[u] = screen[u] /\ base'[u] = base[u]
      /\ LateTypes' /\ \A u \in Tabs : Missed(u) <=> Missed(u)'
  BY <1>1, <1>2, ImportChanges
<1>4. /\ SeenTypes' /\ seen[t] \subseteq seen'[t] /\ file.doc \subseteq seen'[t]
      /\ \A u \in Tabs : u # t => seen'[u] = seen[u]
  <2>1. seen[t] \cup file.doc \in Docs
    BY <1>1, FileFacts DEF SeenTypes
  <2> QED
    BY <1>1, <1>2, <2>1 DEF SeenTypes
<1>5. PICK l \in Loads : /\ load' = [load EXCEPT ![t] = l]
                         /\ l.pc = "row" /\ l.act # "restore" /\ l.file = Gone
  <2> DEFINE l == [NoLoad EXCEPT !.pc = "row", !.act = load[t].act]
  <2>1. l \in Loads /\ l.pc = "row" /\ l.act # "restore" /\ l.file = Gone
    BY <1>1, NoCallIsSave DEF NoLoad, Loads
  <2> HIDE DEF l
  <2>2. load' = [load EXCEPT ![t] = l]
    BY <1>2, Zenon DEF l
  <2> QED
    BY <2>1, <2>2
<1>6. LoadTypes' /\ load'[t] = l /\ \A u \in Tabs : u # t => load'[u] = load[u]
  BY <1>1, <1>5, OneLoadChanges
<1>7. down' \in [Tabs -> BOOLEAN] /\ AskTypes'
  <2>1. CASE UNCHANGED <<down, askVars>>
    BY <1>1, <2>1 DEF DocTypes, AskTypes, askVars
  <2>2. CASE /\ down' = [down EXCEPT ![t] = FALSE]
             /\ kept' = [kept EXCEPT ![t] = Gone]
             /\ deferred' = [deferred EXCEPT ![t] = FALSE]
    BY <1>1, <2>2, FileFacts DEF DocTypes, AskTypes
  <2> QED
    BY <2>1, <2>2, Zenon DEF Imported
<1>8. Types'
  <2>1. DocTypes'
    BY <1>1, <1>2, <1>3, <1>7 DEF DocTypes
  <2> QED
    BY <1>1, <1>2, <1>3, <1>4, <1>6, <1>7, <2>1
    DEF Types, FileTypes, HintTypes, CallTypes, SpentTypes, fileVars
<1>9. SavesOf(t)'
  BY <1>1, <1>2, <1>3, <1>4, SavesUntouched DEF fileVars
<1>10. DocGuarded(t)' /\ RowGuarded(t)'
  BY <1>1, <1>2, <1>3, <1>4, <1>5, <1>6 DEF GuardOf, DocGuarded, RowGuarded, Shown, fileVars
<1>11. /\ file' = file /\ landed' = landed
       /\ \A u \in Tabs : u # t => TabKeeps(u) /\ (Missed(u) => Missed(u)')
       /\ base'[t] = NoDoc \/ base'[t] \subseteq landed
       /\ Reached(offer[t])' /\ Reached(load[t].file)'
       /\ load'[t].pc = "load" /\ load'[t].act = "refresh"
            => screen'[t] \subseteq landed \cup load'[t].typed
  BY <1>1, <1>2, <1>3, <1>4, <1>5, <1>6 DEF TabKeeps, LandedOf, Reached, fileVars
<1> QED
  BY <1>8, <1>9, <1>10, <1>11, TabStepParts

LEMMA RowArrivesIsTabStep ==
  ASSUME SaveInv, NEW t \in Tabs, RowArrives(t)
  PROVE  TabStep(t)
<1>1. /\ Types /\ GuardOf(t) /\ LandedOf(t) /\ DocTypes /\ LoadTypes /\ file \in MaybeDigest
      /\ load[t].pc = "row" /\ load[t].act \in {"refresh", "open"}
  BY DEF SaveInv, Types, FileTypes, RowArrives
<1>2. /\ Adopt(t, file)
      /\ load' = [load EXCEPT ![t] = NoLoad]
      /\ UNCHANGED <<fileVars, screen, base, timer, down, offer, draft, open, reported, askVars,
                     hint, call, seen, late, spent>>
  BY DEF RowArrives
<1>3. /\ known' \in [Tabs -> MaybeDigest]
      /\ known'[t] = known[t] \/ (file # Gone /\ known'[t] = file)
      /\ \A u \in Tabs : u # t => known'[u] = known[u]
  BY <1>1, <1>2, AdoptChanges
<1>4. Missed(t) \/ file = Gone \/ file.doc \subseteq seen[t]
  BY <1>1 DEF GuardOf, RowGuarded
<1>5. LoadTypes' /\ load'[t] = NoLoad /\ \A u \in Tabs : u # t => load'[u] = load[u]
  BY <1>1, <1>2, IdleLoad, OneLoadChanges
<1>6. Types'
  BY <1>1, <1>2, <1>3, <1>5
  DEF Types, FileTypes, DocTypes, AskTypes, HintTypes, CallTypes, SeenTypes, LateTypes,
      SpentTypes, fileVars, askVars
<1>7. SavesOf(t)'
  BY <1>1, <1>2, SavesUntouched DEF fileVars, Missed
<1>8. DocGuarded(t)' /\ RowGuarded(t)'
  BY <1>1, <1>2, <1>3, <1>4, <1>5, IdleLoad
  DEF GuardOf, DocGuarded, RowGuarded, Missed, Shown, fileVars
<1>9. /\ file' = file /\ landed' = landed
      /\ \A u \in Tabs : u # t => TabKeeps(u) /\ (Missed(u) => Missed(u)')
      /\ base'[t] = NoDoc \/ base'[t] \subseteq landed
      /\ Reached(offer[t])' /\ Reached(load[t].file)'
      /\ load'[t].pc = "load" /\ load'[t].act = "refresh"
           => screen'[t] \subseteq landed \cup load'[t].typed
  BY <1>1, <1>2, <1>3, <1>5, IdleLoad DEF TabKeeps, Missed, LandedOf, Reached, fileVars
<1> QED
  BY <1>6, <1>7, <1>8, <1>9, TabStepParts

\* Whether the file moved or not, the tab learns the digest of what it holds
\* by now: the document it fetched, the one on screen, or the draft's base.
LEMMA RowDecidesIsTabStep ==
  ASSUME SaveInv, NEW t \in Tabs, RowDecides(t)
  PROVE  TabStep(t)
<1>1. /\ Types /\ GuardOf(t) /\ LandedOf(t) /\ DocTypes /\ LoadTypes /\ SeenTypes
      /\ DocGuarded(t) /\ file \in MaybeDigest
      /\ load[t].pc = "row" /\ load[t].act = "restore"
  BY DEF SaveInv, Types, FileTypes, RowDecides, GuardOf
<1>2. /\ Adopt(t, file)
      /\ load' = [load EXCEPT ![t] = NoLoad]
      /\ UNCHANGED <<fileVars, screen, timer, down, draft, open, reported, askVars, hint, call,
                     late, spent>>
  BY DEF RowDecides
<1>3. PICK f \in MaybeDigest :
        /\ f = load[t].file /\ f # Gone /\ f.doc \in Docs /\ Reached(f)
        /\ Missed(t) \/ file = Gone \/ file.doc \subseteq seen[t] \cup f.doc
  <2>1. load[t].file \in MaybeDigest /\ load[t].file # Gone /\ Reached(load[t].file)
    BY <1>1 DEF LoadTypes, Loads, GuardOf, RowGuarded, LandedOf
  <2>2. Missed(t) \/ file = Gone \/ file.doc \subseteq seen[t] \cup load[t].file.doc
    BY <1>1 DEF GuardOf, RowGuarded
  <2> QED
    BY <2>1, <2>2, FileFacts
<1>4. /\ known' \in [Tabs -> MaybeDigest]
      /\ known'[t] = known[t] \/ (file # Gone /\ known'[t] = file)
      /\ \A u \in Tabs : u # t => known'[u] = known[u]
  BY <1>1, <1>2, AdoptChanges
<1>5. LoadTypes' /\ load'[t] = NoLoad /\ \A u \in Tabs : u # t => load'[u] = load[u]
  BY <1>1, <1>2, IdleLoad, OneLoadChanges
<1>6. /\ base' \in [Tabs -> Docs \cup {NoDoc}] /\ offer' \in [Tabs -> MaybeDigest] /\ SeenTypes'
      /\ base'[t] = base[t] \/ base'[t] = f.doc
      /\ offer'[t] = offer[t] \/ (offer'[t] = f /\ f.doc \subseteq seen'[t])
      /\ seen[t] \subseteq seen'[t]
      /\ Missed(t) \/ file = Gone \/ file.doc \subseteq seen'[t]
      /\ \A u \in Tabs : u # t => base'[u] = base[u] /\ offer'[u] = offer[u] /\ seen'[u] = seen[u]
  <2>1. CASE Unmoved(t)
    <3>1. base' = [base EXCEPT ![t] = f.doc] /\ offer' = offer /\ seen' = seen
      BY <1>3, <2>1 DEF RowDecides
    <3>2. Missed(t) \/ file = Gone \/ file.doc \subseteq seen[t]
      <4>1. CASE f.doc = screen[t]
        BY <1>1, <1>3, <4>1 DEF DocGuarded
      <4>2. CASE file # Gone /\ draft[t].base = file
        BY <1>1, <4>2 DEF DocGuarded, Shown
      <4> QED
        BY <1>3, <2>1, <4>1, <4>2 DEF Unmoved
    <3> QED
      BY <1>1, <1>3, <3>1, <3>2 DEF DocTypes, SeenTypes
  <2>2. CASE ~Unmoved(t)
    <3>1. /\ base' = base /\ offer' = [offer EXCEPT ![t] = f]
          /\ seen' = [seen EXCEPT ![t] = seen[t] \cup f.doc]
      BY <1>3, <2>2 DEF RowDecides
    <3>2. seen[t] \cup f.doc \in Docs
      BY <1>1, <1>3, FileFacts DEF SeenTypes
    <3>3. SeenTypes' /\ seen'[t] = seen[t] \cup f.doc /\ \A u \in Tabs : u # t => seen'[u] = seen[u]
      BY <1>1, <3>1, <3>2 DEF SeenTypes
    <3> QED
      BY <1>1, <1>3, <3>1, <3>3 DEF DocTypes
  <2> QED
    BY <2>1, <2>2
<1>7. Types'
  <2>1. DocTypes'
    BY <1>1, <1>2, <1>4, <1>6 DEF DocTypes
  <2> QED
    BY <1>1, <1>2, <1>5, <1>6, <2>1
    DEF Types, FileTypes, AskTypes, HintTypes, CallTypes, LateTypes, SpentTypes, fileVars, askVars
<1>8. SavesOf(t)'
  BY <1>1, <1>2, <1>6, SavesUntouched DEF fileVars, Missed
<1>9. DocGuarded(t)' /\ RowGuarded(t)'
  <2>1. DocGuarded(t)'
    BY <1>1, <1>2, <1>3, <1>4, <1>6 DEF DocGuarded, Missed, Shown
  <2>2. RowGuarded(t)'
    BY <1>5, IdleLoad DEF RowGuarded
  <2> QED
    BY <2>1, <2>2
<1>10. /\ file' = file /\ landed' = landed
       /\ \A u \in Tabs : u # t => TabKeeps(u) /\ (Missed(u) => Missed(u)')
       /\ base'[t] = NoDoc \/ base'[t] \subseteq landed
       /\ Reached(offer[t])' /\ Reached(load[t].file)'
       /\ load'[t].pc = "load" /\ load'[t].act = "refresh"
            => screen'[t] \subseteq landed \cup load'[t].typed
  BY <1>1, <1>2, <1>3, <1>4, <1>5, <1>6, IdleLoad DEF TabKeeps, Missed, LandedOf, Reached, fileVars
<1> QED
  BY <1>7, <1>8, <1>9, <1>10, TabStepParts

-----------------------------------------------------------------------------
(***************************************************************************)
(* The user.                                                               *)
(***************************************************************************)
\* What is typed while a document is on its way is remembered as such.
LEMMA TypeIsTabStep ==
  ASSUME SaveInv, NEW t \in Tabs, Type(t)
  PROVE  TabStep(t)
<1>1. /\ Types /\ GuardOf(t) /\ LandedOf(t) /\ DocTypes /\ LoadTypes /\ SeenTypes /\ SpentTypes
      /\ DocGuarded(t)
  BY DEF SaveInv, Types, GuardOf
<1>2. SpentTypes' /\ spent.edits < MaxEdits
  BY <1>1, SpendTypes DEF Type, Bounds
<1>3. PICK e : e = {NextEdit} /\ e \in Docs
  BY <1>1, <1>2, NextEditFits
<1>4. /\ screen' = [screen EXCEPT ![t] = screen[t] \cup e]
      /\ timer' = [timer EXCEPT ![t] = TRUE]
      /\ load' = IF load[t].pc = "load"
                 THEN [load EXCEPT ![t].typed = load[t].typed \cup e] ELSE load
      /\ seen' = [seen EXCEPT ![t] = seen[t] \cup e]
      /\ UNCHANGED <<fileVars, base, known, down, offer, draft, open, reported, askVars,
                     hint, call, late>>
  BY <1>3 DEF Type
<1>5. /\ screen' \in [Tabs -> Docs] /\ screen'[t] = screen[t] \cup e
      /\ SeenTypes' /\ seen'[t] = seen[t] \cup e
      /\ \A u \in Tabs : u # t => screen'[u] = screen[u] /\ seen'[u] = seen[u]
  <2>1. screen[t] \cup e \in Docs /\ seen[t] \cup e \in Docs
    BY <1>1, <1>3, FileFacts DEF DocTypes, SeenTypes
  <2> QED
    BY <1>1, <1>4, <2>1 DEF DocTypes, SeenTypes
<1>6. /\ LoadTypes'
      /\ load'[t].pc = load[t].pc /\ load'[t].act = load[t].act /\ load'[t].file = load[t].file
      /\ load[t].pc = "load" => load'[t].typed = load[t].typed \cup e
      /\ \A u \in Tabs : u # t => load'[u] = load[u]
  <2>1. CASE load[t].pc = "load"
    <3>1. PICK d \in Loads : d = load[t]
      BY <1>1 DEF LoadTypes
    <3> DEFINE l == [d EXCEPT !.typed = d.typed \cup e]
    <3>2. d.typed \cup e \in Docs
      BY <1>3, FileFacts DEF Loads
    <3>3. /\ l \in Loads /\ l.pc = d.pc /\ l.act = d.act /\ l.file = d.file
          /\ l.typed = d.typed \cup e
      BY <3>2 DEF Loads
    <3>4. load' = [load EXCEPT ![t] = l]
      <4>1. load' = [load EXCEPT ![t].typed = load[t].typed \cup e]
        BY <1>4, <2>1, Zenon
      <4> QED
        BY <1>1, <3>1, <4>1 DEF LoadTypes
    <3> HIDE DEF l
    <3>5. LoadTypes' /\ load'[t] = l /\ \A u \in Tabs : u # t => load'[u] = load[u]
      BY <1>1, <3>3, <3>4, OneLoadChanges
    <3> QED
      BY <3>1, <3>3, <3>5
  <2>2. CASE load[t].pc # "load"
    <3>1. load' = load
      BY <1>4, <2>2, Zenon
    <3> QED
      BY <1>1, <2>2, <3>1 DEF LoadTypes
  <2> QED
    BY <2>1, <2>2
<1>7. Types'
  <2>1. DocTypes'
    BY <1>1, <1>4, <1>5 DEF DocTypes
  <2> QED
    BY <1>1, <1>2, <1>4, <1>5, <1>6, <2>1
    DEF Types, FileTypes, AskTypes, HintTypes, CallTypes, LateTypes, fileVars, askVars
<1>8. SavesOf(t)'
  BY <1>1, <1>4, <1>5, SavesUntouched DEF fileVars, Missed
<1>9. DocGuarded(t)' /\ RowGuarded(t)'
  <2>1. DocGuarded(t)'
    BY <1>1, <1>4, <1>5 DEF DocGuarded, Missed, Shown
  <2>2. RowGuarded(t)'
    BY <1>1, <1>4, <1>5, <1>6 DEF GuardOf, RowGuarded, Missed, fileVars
  <2> QED
    BY <2>1, <2>2
<1>10. /\ file' = file /\ landed' = landed
       /\ \A u \in Tabs : u # t => TabKeeps(u) /\ (Missed(u) => Missed(u)')
       /\ base'[t] = NoDoc \/ base'[t] \subseteq landed
       /\ Reached(offer[t])' /\ Reached(load[t].file)'
       /\ load'[t].pc = "load" /\ load'[t].act = "refresh"
            => screen'[t] \subseteq landed \cup load'[t].typed
  BY <1>1, <1>4, <1>5, <1>6 DEF TabKeeps, Missed, LandedOf, Reached, fileVars
<1> QED
  BY <1>7, <1>8, <1>9, <1>10, TabStepParts

LEMMA KeepIsTabStep ==
  ASSUME SaveInv, NEW t \in Tabs, Keep(t)
  PROVE  TabStep(t)
<1>1. /\ Types /\ GuardOf(t) /\ LandedOf(t) /\ DocTypes /\ AskTypes /\ DocGuarded(t) /\ SpentTypes
  BY DEF SaveInv, Types, GuardOf
<1>2. PICK f \in MaybeDigest : f = offer[t] /\ f # Gone /\ f.doc \in Docs /\ Reached(f)
  <2>1. offer[t] \in MaybeDigest /\ offer[t] # Gone /\ Reached(offer[t])
    BY <1>1 DEF DocTypes, Keep, Answers, LandedOf
  <2> QED
    BY <2>1, FileFacts
<1>3. /\ offer' = [offer EXCEPT ![t] = Gone]
      /\ base' = [base EXCEPT ![t] = f.doc]
      /\ kept' = [kept EXCEPT ![t] = f]
      /\ deferred' = [deferred EXCEPT ![t] = FALSE]
      /\ UNCHANGED <<fileVars, screen, known, timer, down, draft, open, reported, hint, load,
                     call, seen, late>>
  BY <1>2 DEF Keep, Answers
<1>4. /\ DocTypes' /\ AskTypes' /\ offer'[t] = Gone /\ base'[t] = f.doc
      /\ \A u \in Tabs : u # t => offer'[u] = offer[u] /\ base'[u] = base[u]
  BY <1>1, <1>2, <1>3, FileFacts DEF DocTypes, AskTypes
<1>5. Types'
  <2>1. SpentTypes'
    BY <1>1, SpendTypes DEF Keep, Answers
  <2> QED
    BY <1>1, <1>3, <1>4, <2>1
    DEF Types, FileTypes, HintTypes, LoadTypes, CallTypes, SeenTypes, LateTypes, fileVars
<1>6. SavesOf(t)'
  BY <1>1, <1>3, SavesUntouched DEF fileVars, Missed
<1>7. DocGuarded(t)' /\ RowGuarded(t)'
  BY <1>1, <1>3, <1>4 DEF GuardOf, DocGuarded, RowGuarded, Missed, Shown, fileVars
<1>8. /\ file' = file /\ landed' = landed
      /\ \A u \in Tabs : u # t => TabKeeps(u) /\ (Missed(u) => Missed(u)')
      /\ base'[t] = NoDoc \/ base'[t] \subseteq landed
      /\ Reached(offer[t])' /\ Reached(load[t].file)'
      /\ load'[t].pc = "load" /\ load'[t].act = "refresh"
           => screen'[t] \subseteq landed \cup load'[t].typed
  BY <1>1, <1>2, <1>3, <1>4 DEF TabKeeps, Missed, LandedOf, Reached, fileVars
<1> QED
  BY <1>5, <1>6, <1>7, <1>8, TabStepParts

LEMMA TakeIsTabStep ==
  ASSUME SaveInv, NEW t \in Tabs, Take(t)
  PROVE  TabStep(t)
<1>1. /\ Types /\ GuardOf(t) /\ LandedOf(t) /\ DocTypes /\ AskTypes /\ DocGuarded(t)
      /\ LateTypes /\ SpentTypes
  BY DEF SaveInv, Types, GuardOf
<1>2. PICK f \in MaybeDigest : /\ f = offer[t] /\ f # Gone /\ f.doc \in Docs /\ Reached(f)
                               /\ f.doc \subseteq seen[t]
  <2>1. /\ offer[t] \in MaybeDigest /\ offer[t] # Gone /\ Reached(offer[t])
        /\ Shown(t, offer[t])
    BY <1>1 DEF DocTypes, Take, Answers, LandedOf, DocGuarded
  <2> QED
    BY <2>1, FileFacts DEF Shown
<1>3. /\ offer' = [offer EXCEPT ![t] = Gone]
      /\ Import(t, f.doc)
      /\ kept' = [kept EXCEPT ![t] = Gone]
      /\ deferred' = [deferred EXCEPT ![t] = FALSE]
      /\ UNCHANGED <<fileVars, known, down, draft, open, reported, hint, load, call, seen>>
  BY <1>2 DEF Take, Answers
<1>4. /\ screen' \in [Tabs -> Docs] /\ screen'[t] = f.doc
      /\ base' \in [Tabs -> Docs \cup {NoDoc}] /\ base'[t] = f.doc
      /\ timer' \in [Tabs -> BOOLEAN]
      /\ \A u \in Tabs : u # t => screen'[u] = screen[u] /\ base'[u] = base[u]
      /\ LateTypes' /\ \A u \in Tabs : Missed(u) <=> Missed(u)'
  BY <1>1, <1>2, <1>3, ImportChanges
<1>5. /\ DocTypes' /\ AskTypes' /\ offer'[t] = Gone
      /\ \A u \in Tabs : u # t => offer'[u] = offer[u]
  BY <1>1, <1>3, <1>4, FileFacts DEF DocTypes, AskTypes
<1>6. Types'
  <2>1. SpentTypes'
    BY <1>1, SpendTypes DEF Take, Answers
  <2> QED
    BY <1>1, <1>3, <1>4, <1>5, <2>1
    DEF Types, FileTypes, HintTypes, LoadTypes, CallTypes, SeenTypes, fileVars
<1>7. SavesOf(t)'
  BY <1>1, <1>3, <1>4, SavesUntouched DEF fileVars
<1>8. DocGuarded(t)' /\ RowGuarded(t)'
  BY <1>1, <1>2, <1>3, <1>4, <1>5 DEF GuardOf, DocGuarded, RowGuarded, Shown, fileVars
<1>9. /\ file' = file /\ landed' = landed
      /\ \A u \in Tabs : u # t => TabKeeps(u) /\ (Missed(u) => Missed(u)')
      /\ base'[t] = NoDoc \/ base'[t] \subseteq landed
      /\ Reached(offer[t])' /\ Reached(load[t].file)'
      /\ load'[t].pc = "load" /\ load'[t].act = "refresh"
           => screen'[t] \subseteq landed \cup load'[t].typed
  BY <1>1, <1>2, <1>3, <1>4, <1>5 DEF TabKeeps, LandedOf, Reached, fileVars
<1> QED
  BY <1>6, <1>7, <1>8, <1>9, TabStepParts

LEMMA DeferIsTabStep ==
  ASSUME SaveInv, NEW t \in Tabs, Defer(t)
  PROVE  TabStep(t)
<1>1. Types /\ GuardOf(t) /\ LandedOf(t) /\ DocTypes /\ AskTypes /\ SpentTypes
  BY DEF SaveInv, Types, GuardOf
<1>2. /\ offer' = [offer EXCEPT ![t] = Gone]
      /\ deferred' = [deferred EXCEPT ![t] = TRUE]
      /\ UNCHANGED <<fileVars, screen, base, known, timer, down, draft, open, reported, kept,
                     hint, load, call, seen, late>>
  BY DEF Defer, Answers
<1>3. DocTypes' /\ AskTypes' /\ offer'[t] = Gone /\ \A u \in Tabs : u # t => offer'[u] = offer[u]
  BY <1>1, <1>2, FileFacts DEF DocTypes, AskTypes
<1>4. Types'
  <2>1. SpentTypes'
    BY <1>1, SpendTypes DEF Defer, Answers
  <2> QED
    BY <1>1, <1>2, <1>3, <2>1
    DEF Types, FileTypes, HintTypes, LoadTypes, CallTypes, SeenTypes, LateTypes, fileVars
<1>5. SavesOf(t)'
  BY <1>1, <1>2, SavesUntouched DEF fileVars, Missed
<1>6. DocGuarded(t)' /\ RowGuarded(t)'
  BY <1>1, <1>2, <1>3 DEF GuardOf, DocGuarded, RowGuarded, Missed, Shown, fileVars
<1>7. /\ file' = file /\ landed' = landed
      /\ \A u \in Tabs : u # t => TabKeeps(u) /\ (Missed(u) => Missed(u)')
      /\ base'[t] = NoDoc \/ base'[t] \subseteq landed
      /\ Reached(offer[t])' /\ Reached(load[t].file)'
      /\ load'[t].pc = "load" /\ load'[t].act = "refresh"
           => screen'[t] \subseteq landed \cup load'[t].typed
  BY <1>1, <1>2, <1>3 DEF TabKeeps, Missed, LandedOf, Reached, fileVars
<1> QED
  BY <1>4, <1>5, <1>6, <1>7, TabStepParts

\* The calls of the page that was left go on with nobody to hear them.
LEMMA OrphanedSave ==
  ASSUME NEW t \in Tabs, NEW c \in Saves, GuardedSave(t, c)', LandedSave(c)'
  PROVE  LET d == [c EXCEPT !.home = c.home /\ c.pc = "idle"]
         IN  d \in Saves /\ GuardedSave(t, d)' /\ LandedSave(d)'
<1> DEFINE d == [c EXCEPT !.home = c.home /\ c.pc = "idle"]
<1>1. /\ d \in Saves /\ d.pc = c.pc /\ d.doc = c.doc /\ d.quote = c.quote
      /\ d.result = c.result /\ d.got = c.got
  <2>1. PICK b \in BOOLEAN : b = (c.home /\ c.pc = "idle")
    BY Zenon DEF Saves
  <2>2. d = [c EXCEPT !.home = b]
    BY <2>1, Zenon
  <2> HIDE DEF d
  <2> QED
    BY <2>2 DEF Saves
<1> HIDE DEF d
<1>2. PICK e \in Saves : /\ e = d /\ e.pc = c.pc /\ e.doc = c.doc /\ e.quote = c.quote
                         /\ e.result = c.result /\ e.got = c.got
  BY <1>1
<1>3. GuardedSave(t, e)' /\ LandedSave(e)'
  BY <1>2 DEF GuardedSave, LandedSave
<1>4. d \in Saves /\ GuardedSave(t, d)' /\ LandedSave(d)'
  BY <1>2, <1>3
<1> QED
  BY <1>4 DEF d

LEMMA ReloadIsTabStep ==
  ASSUME SaveInv, NEW t \in Tabs, Reload(t)
  PROVE  TabStep(t)
<1>1. /\ Types /\ GuardOf(t) /\ LandedOf(t) /\ DocTypes /\ AskTypes /\ LoadTypes /\ CallTypes
      /\ HintTypes /\ LateTypes /\ SpentTypes /\ DocGuarded(t)
  BY DEF SaveInv, Types, GuardOf
<1>2. PICK doc \in Docs : doc = draft[t].doc /\ doc \subseteq seen[t]
  <2>1. draft[t] \in [doc : Docs \cup {NoDoc}, base : MaybeDigest] /\ draft[t].doc # NoDoc
    BY <1>1 DEF DocTypes, Reload
  <2> QED
    BY <1>1, <2>1 DEF DocGuarded
<1>3. /\ screen' = [screen EXCEPT ![t] = doc]
      /\ base' = [base EXCEPT ![t] = NoDoc]
      /\ known' = [known EXCEPT ![t] = Gone]
      /\ timer' = [timer EXCEPT ![t] = TRUE]
      /\ down' = [down EXCEPT ![t] = FALSE]
      /\ offer' = [offer EXCEPT ![t] = Gone]
      /\ reported' = [reported EXCEPT ![t] = FALSE]
      /\ kept' = [kept EXCEPT ![t] = Gone]
      /\ deferred' = [deferred EXCEPT ![t] = FALSE]
      /\ hint' = [hint EXCEPT ![t] = {}]
      /\ UNCHANGED <<fileVars, draft, open, seen>>
  BY <1>2 DEF Reload
<1>4. LateTypes' /\ \A u \in Tabs : Missed(u) <=> Missed(u)'
  BY <1>1, CrossesChanges DEF Reload, Missed
<1>5. /\ DocTypes' /\ screen'[t] = doc /\ base'[t] = NoDoc /\ known'[t] = Gone /\ offer'[t] = Gone
      /\ \A u \in Tabs : u # t => /\ screen'[u] = screen[u] /\ base'[u] = base[u]
                                  /\ known'[u] = known[u] /\ offer'[u] = offer[u]
  BY <1>1, <1>3, FileFacts DEF DocTypes
<1>6. AskTypes' /\ HintTypes' /\ SpentTypes'
  <2>1. AskTypes'
    BY <1>1, <1>3, FileFacts DEF AskTypes
  <2>2. HintTypes'
    BY <1>1, <1>3, FileFacts, HintChanges
  <2>3. SpentTypes'
    BY <1>1, SpendTypes DEF Reload
  <2> QED
    BY <2>1, <2>2, <2>3
<1>7. PICK l \in Loads : /\ load' = [load EXCEPT ![t] = l]
                         /\ l.pc = "load" /\ l.act = "restore" /\ l.file = Gone
  <2> DEFINE l == [NoLoad EXCEPT !.pc = "load", !.act = "restore"]
  <2>1. l \in Loads /\ l.pc = "load" /\ l.act = "restore" /\ l.file = Gone
    BY NoCallIsSave DEF NoLoad, Loads
  <2> HIDE DEF l
  <2>2. load' = [load EXCEPT ![t] = l]
    BY Zenon DEF Reload, l
  <2> QED
    BY <2>1, <2>2
<1>8. LoadTypes' /\ load'[t] = l /\ \A u \in Tabs : u # t => load'[u] = load[u]
  BY <1>1, <1>7, OneLoadChanges
<1>9. CallTypes' /\ SavesOf(t)' /\ \A u \in Tabs : u # t => call'[u] = call[u]
  <2>1. PICK s : /\ s = [i \in Slots |-> [call[t][i] EXCEPT !.home = /\ call[t][i].home
                                                               /\ call[t][i].pc = "idle"]]
                 /\ call' = [call EXCEPT ![t] = s]
    BY Zenon DEF Reload
  <2>2. ASSUME NEW i \in Slots
        PROVE  s[i] \in Saves /\ GuardedSave(t, s[i])' /\ LandedSave(s[i])'
    <3>1. PICK c \in Saves : c = call[t][i]
      BY <1>1, CallRecord
    <3>2. GuardedSave(t, c) /\ LandedSave(c)
      BY <1>1, <3>1 DEF GuardOf, LandedOf
    <3>3. GuardedSave(t, c)' /\ LandedSave(c)'
      <4>1. /\ file' = file /\ landed \subseteq landed' /\ seen[t] \subseteq seen'[t]
            /\ Missed(t) => Missed(t)'
        BY <1>3, <1>4 DEF fileVars
      <4> QED
        BY <3>2, <4>1, SavesStay
    <3>4. PICK d \in Saves : /\ d = [c EXCEPT !.home = c.home /\ c.pc = "idle"]
                             /\ GuardedSave(t, d)' /\ LandedSave(d)'
      BY <3>3, OrphanedSave, Zenon
    <3>5. s[i] = d
      BY <2>1, <3>1, <3>4, Zenon
    <3> QED
      BY <3>4, <3>5
  <2>3. s \in [Slots -> Saves]
    BY <2>1, <2>2
  <2>4. CallTypes' /\ call'[t] = s /\ \A u \in Tabs : u # t => call'[u] = call[u]
    BY <1>1, <2>1, <2>3 DEF CallTypes
  <2> QED
    BY <2>2, <2>4 DEF SavesOf
<1>10. Types'
  BY <1>1, <1>3, <1>4, <1>5, <1>6, <1>8, <1>9 DEF Types, FileTypes, SeenTypes, fileVars
<1>11. DocGuarded(t)' /\ RowGuarded(t)'
  BY <1>1, <1>2, <1>3, <1>4, <1>5, <1>7, <1>8 DEF DocGuarded, RowGuarded, Shown
<1>12. /\ file' = file /\ landed' = landed
       /\ \A u \in Tabs : u # t => TabKeeps(u) /\ (Missed(u) => Missed(u)')
       /\ base'[t] = NoDoc \/ base'[t] \subseteq landed
       /\ Reached(offer[t])' /\ Reached(load[t].file)'
       /\ load'[t].pc = "load" /\ load'[t].act = "refresh"
            => screen'[t] \subseteq landed \cup load'[t].typed
  BY <1>1, <1>3, <1>4, <1>5, <1>7, <1>8, <1>9 DEF TabKeeps, Reached, fileVars
<1> QED
  BY <1>9, <1>10, <1>11, <1>12, TabStepParts

-----------------------------------------------------------------------------
(***************************************************************************)
(* Writers of the file.                                                    *)
(***************************************************************************)
LEMMA OthersWrite ==
  ASSUME SaveInv, NEW doc \in Docs, Put(doc, {}), publisher' \in Docs \cup {NoDoc}, SpentTypes',
         UNCHANGED <<docVars, askVars, hint, load, call, seen>>
  PROVE  SaveInv'
<1>1. Types
  BY DEF SaveInv
<1>2. /\ file' \in Files /\ file' # Gone /\ file'.doc = doc
      /\ landed' = landed \cup doc /\ landed' \in Docs
      /\ LateTypes'
      /\ \A t \in Tabs : late[t] \subseteq late'[t]
      /\ \A t \in Tabs : t \notin {} /\ InWindow(t) => "others" \in late'[t]
  BY <1>1, PutChanges
<1>3. Types'
  BY <1>1, <1>2
  DEF Types, FileTypes, MaybeDigest, DocTypes, AskTypes, HintTypes, LoadTypes, CallTypes,
      SeenTypes, docVars, askVars
<1>4. Reached(file)'
  BY <1>2 DEF Reached
<1>5. ASSUME NEW t \in Tabs
      PROVE  LandedOf(t)' /\ GuardOf(t)'
  <2>1. LandedOf(t) /\ GuardOf(t) /\ TabKeeps(t) /\ landed \subseteq landed'
    BY <1>2 DEF SaveInv, TabKeeps, docVars
  <2>2. (Missed(t) => Missed(t)') /\ (InWindow(t) => Missed(t)')
    BY <1>2 DEF Missed
  <2> QED
    BY <2>1, <2>2, OtherTabs
<1> QED
  BY <1>3, <1>4, <1>5, Zenon DEF SaveInv

LEMMA AgentWritesKeeps ==
  ASSUME SaveInv, AgentWrites
  PROVE  SaveInv'
<1>1. Types /\ SpentTypes /\ landed \in Docs /\ spent.edits < MaxEdits
  BY DEF SaveInv, Types, FileTypes, AgentWrites
<1>2. PICK doc \in Docs : Put(doc, {})
  <2>1. PICK read \in SUBSET landed : Put(read \cup {NextEdit}, {})
    BY Zenon DEF AgentWrites
  <2>2. read \in Docs
    BY <1>1, <2>1 DEF Docs
  <2>3. read \cup {NextEdit} \in Docs
    BY <1>1, <2>2, FileFacts, NextEditFits
  <2> QED
    BY <2>1, <2>3
<1>3. /\ Put(doc, {}) /\ publisher' = publisher
      /\ UNCHANGED <<docVars, askVars, hint, load, call, seen>>
  BY <1>2 DEF AgentWrites
<1>4. SpentTypes'
  <2>1. spent' = [spent EXCEPT !.rare = spent.rare + 1, !.edits = spent.edits + 1]
    BY Zenon DEF AgentWrites
  <2>2. spent["rare"] + 1 \in Nat /\ spent["edits"] + 1 \in Nat
    BY <1>1 DEF SpentTypes
  <2> QED
    BY <1>1, <2>1, <2>2 DEF SpentTypes
<1>5. publisher' \in Docs \cup {NoDoc}
  BY <1>1, <1>3 DEF Types, FileTypes
<1> QED
  BY <1>3, <1>4, <1>5, OthersWrite

\* Reading changes nothing but the reader.
LEMMA PublisherKeeps ==
  ASSUME SaveInv, publisher' \in Docs \cup {NoDoc}, SpentTypes',
         UNCHANGED <<file, landed, docVars, askVars, hint, load, call, seen, late>>
  PROVE  SaveInv'
<1>1. Types'
  BY DEF SaveInv, Types, FileTypes, DocTypes, AskTypes, HintTypes, LoadTypes, CallTypes,
         SeenTypes, LateTypes, docVars, askVars
<1>2. Reached(file)'
  BY DEF SaveInv, Reached
<1>3. ASSUME NEW t \in Tabs
      PROVE  LandedOf(t)' /\ GuardOf(t)'
  <2>1. /\ LandedOf(t) /\ GuardOf(t) /\ TabKeeps(t) /\ landed \subseteq landed'
        /\ (Missed(t) => Missed(t)') /\ file' = file
    BY DEF SaveInv, TabKeeps, Missed, docVars
  <2> QED
    BY <2>1, OtherTabs
<1> QED
  BY <1>1, <1>2, <1>3, Zenon DEF SaveInv

LEMMA PublishKeeps ==
  ASSUME SaveInv, PublishReads \/ PublishWrites
  PROVE  SaveInv'
<1>1. Types /\ SpentTypes /\ file \in MaybeDigest /\ publisher \in Docs \cup {NoDoc}
  BY DEF SaveInv, Types, FileTypes
<1>2. CASE PublishReads
  <2>1. SpentTypes'
    BY <1>1, <1>2, SpendTypes DEF PublishReads
  <2>2. publisher' \in Docs \cup {NoDoc}
    BY <1>1, <1>2, FileFacts DEF PublishReads
  <2> QED
    BY <1>2, <2>1, <2>2, PublisherKeeps DEF PublishReads
<1>3. CASE PublishWrites
  <2>1. SpentTypes' /\ publisher' \in Docs \cup {NoDoc}
    BY <1>1, <1>3 DEF PublishWrites, SpentTypes
  <2>2. CASE file = Gone
    BY <1>3, <2>1, <2>2, PublisherKeeps DEF PublishWrites
  <2>3. CASE file # Gone
    <3>1. PICK doc \in Docs : doc = publisher
      BY <1>1, <1>3 DEF PublishWrites
    <3>2. Put(doc, {}) /\ UNCHANGED <<docVars, askVars, hint, load, call, seen>>
      BY <1>3, <2>3, <3>1 DEF PublishWrites
    <3> QED
      BY <2>1, <3>2, OthersWrite
  <2> QED
    BY <2>2, <2>3
<1> QED
  BY <1>2, <1>3

LEMMA DeleteKeeps ==
  ASSUME SaveInv, Delete
  PROVE  SaveInv'
<1>1. Types /\ SpentTypes /\ LateTypes
  BY DEF SaveInv, Types
<1>2. /\ file' = Gone /\ Disturb({})
      /\ UNCHANGED <<landed, publisher, docVars, askVars, hint, load, call, seen>>
  BY DEF Delete
<1>3. /\ LateTypes'
      /\ \A t \in Tabs : Missed(t) => Missed(t)'
      /\ \A t \in Tabs : InWindow(t) => Missed(t)'
  <2>1. late' = [t \in Tabs |-> IF t \notin {} /\ InWindow(t)
                                THEN late[t] \cup {"others"} ELSE late[t]]
    BY <1>2, Zenon DEF Disturb
  <2> HIDE DEF InWindow
  <2> QED
    BY <1>1, <2>1 DEF LateTypes, Missed
<1>4. Types'
  <2>1. SpentTypes'
    BY <1>1, SpendTypes DEF Delete
  <2> QED
    BY <1>1, <1>2, <1>3, <2>1, FileFacts
    DEF Types, FileTypes, DocTypes, AskTypes, HintTypes, LoadTypes, CallTypes, SeenTypes,
        docVars, askVars
<1>5. Reached(file)'
  BY <1>2 DEF Reached
<1>6. ASSUME NEW t \in Tabs
      PROVE  LandedOf(t)' /\ GuardOf(t)'
  <2>1. LandedOf(t) /\ GuardOf(t) /\ TabKeeps(t) /\ landed \subseteq landed'
    BY <1>2 DEF SaveInv, TabKeeps, docVars
  <2> QED
    BY <1>3, <2>1, OtherTabs
<1> QED
  BY <1>4, <1>5, <1>6, Zenon DEF SaveInv

\* A save writes what its tab has shown, and does not disturb its own tab.
LEMMA WriteKeeps ==
  ASSUME SaveInv, NEW t \in Tabs, NEW i \in Slots, Write(t, i)
  PROVE  SaveInv'
<1>1. Types /\ GuardOf(t) /\ LandedOf(t) /\ CallTypes /\ Reached(file)
  BY DEF SaveInv, Types
<1>2. PICK d \in Saves : d = call[t][i]
  BY <1>1, CallRecord
<1>3. d.pc = "write" /\ d.doc \in Docs /\ d.doc \subseteq seen[t]
  BY <1>1, <1>2 DEF Write, GuardOf, GuardedSave, Saves
<1>4. PICK c \in Saves : /\ call' = [call EXCEPT ![t][i] = c]
                         /\ c.pc = "receipt" /\ c.doc = d.doc
  <2> DEFINE c == [d EXCEPT !.pc = "receipt"]
  <2>1. call' = [call EXCEPT ![t][i].pc = "receipt"]
    BY Zenon DEF Write
  <2>2. call' = [call EXCEPT ![t][i] = c]
    BY <1>1, <1>2, <2>1 DEF CallTypes
  <2>3. c \in Saves /\ c.pc = "receipt" /\ c.doc = d.doc
    BY DEF Saves
  <2> HIDE DEF c
  <2> QED
    BY <2>2, <2>3
<1>5. UNCHANGED <<publisher, docVars, askVars, hint, load, seen, spent>>
  BY DEF Write
<1>6. CASE file # Gone /\ file.doc = d.doc
  <2>1. UNCHANGED <<file, landed, late>>
    BY <1>2, <1>6, Zenon DEF Write
  <2>2. GuardedSave(t, c)' /\ LandedSave(c)'
    BY <1>1, <1>3, <1>4, <1>5, <1>6, <2>1 DEF GuardedSave, LandedSave, Shown, Missed, Reached
  <2>3. UNCHANGED <<fileVars, docVars, askVars, hint, load, seen, late, spent>>
    BY <1>5, <2>1 DEF fileVars
  <2> QED
    BY <1>4, <2>2, <2>3, CallStep, TabStepKeeps
<1>7. CASE ~(file # Gone /\ file.doc = d.doc)
  <2>1. Put(d.doc, {t})
    BY <1>2, <1>7, Zenon DEF Write
  <2>2. /\ file' \in Files /\ file' # Gone /\ file'.doc = d.doc
        /\ landed' = landed \cup d.doc /\ landed' \in Docs
        /\ LateTypes'
        /\ \A u \in Tabs : late[u] \subseteq late'[u]
        /\ \A u \in Tabs : u \notin {t} /\ InWindow(u) => "others" \in late'[u]
    BY <1>1, <1>3, <2>1, PutChanges
  <2>3. /\ CallTypes' /\ call'[t][i] = c
        /\ \A j \in Slots : j # i => call'[t][j] = call[t][j]
        /\ \A u \in Tabs : u # t => call'[u] = call[u]
    BY <1>1, <1>4 DEF CallTypes
  <2>4. Types'
    BY <1>1, <1>5, <2>2, <2>3
    DEF Types, FileTypes, MaybeDigest, DocTypes, AskTypes, HintTypes, LoadTypes, SeenTypes,
        SpentTypes, docVars, askVars
  <2>5. Reached(file)'
    BY <2>2 DEF Reached
  <2>6. ASSUME NEW u \in Tabs, u # t
        PROVE  LandedOf(u)' /\ GuardOf(u)'
    <3>1. LandedOf(u) /\ GuardOf(u) /\ TabKeeps(u) /\ landed \subseteq landed'
      BY <1>5, <2>2, <2>3, <2>6 DEF SaveInv, TabKeeps, docVars
    <3>2. (Missed(u) => Missed(u)') /\ (InWindow(u) => Missed(u)')
      BY <2>2, <2>6 DEF Missed
    <3> QED
      BY <3>1, <3>2, OtherTabs
  <2>7. (Missed(t) => Missed(t)') /\ Shown(t, file)' /\ seen' = seen /\ landed \subseteq landed'
    BY <1>3, <1>5, <2>2 DEF Missed, Shown
  <2>8. SavesOf(t)'
    <3>1. ASSUME NEW j \in Slots
          PROVE  GuardedSave(t, call[t][j])' /\ LandedSave(call[t][j])'
      <4>1. CASE j = i
        <5>1. GuardedSave(t, c)' /\ LandedSave(c)'
          BY <1>3, <1>4, <2>2, <2>7 DEF GuardedSave, LandedSave
        <5> QED
          BY <2>3, <4>1, <5>1, Zenon
      <4>2. CASE j # i
        <5>1. PICK e : e = call[t][j] /\ e = call'[t][j]
          BY <2>3, <4>2, Zenon
        <5>2. GuardedSave(t, e) /\ LandedSave(e)
          BY <1>1, <5>1 DEF GuardOf, LandedOf
        <5>3. GuardedSave(t, e)' /\ LandedSave(e)'
          BY <2>7, <5>2 DEF GuardedSave, LandedSave, Shown
        <5> QED
          BY <5>1, <5>3
      <4> QED
        BY <4>1, <4>2
    <3> QED
      BY <3>1, Zenon DEF SavesOf
  <2>9. DocGuarded(t)' /\ RowGuarded(t)'
    <3>1. DocGuarded(t)'
      BY <1>1, <1>5, <2>7 DEF GuardOf, DocGuarded, Shown, docVars
    <3>2. RowGuarded(t)'
      BY <1>1, <1>5, <2>7 DEF GuardOf, RowGuarded, Shown
    <3> QED
      BY <3>1, <3>2
  <2>10. LandedOf(t)'
    BY <1>1, <1>5, <2>7, <2>8 DEF LandedOf, SavesOf, Reached, docVars
  <2> QED
    BY <2>4, <2>5, <2>6, <2>8, <2>9, <2>10 DEF SaveInv, GuardOf, SavesOf
<1> QED
  BY <1>6, <1>7

-----------------------------------------------------------------------------
(***************************************************************************)
(* The theorems.                                                           *)
(***************************************************************************)
LEMMA SaveInvInit == Init => SaveInv
<1> SUFFICES ASSUME Init
             PROVE  SaveInv
  OBVIOUS
<1>1. file \in Files /\ file.doc = {} /\ publisher = NoDoc /\ landed = {} /\ {} \in Docs
  BY FileFacts DEF Init, Files
<1>2. PICK l \in Loads : /\ load = [t \in Tabs |-> l]
                         /\ l.pc = "row" /\ l.act = "open" /\ l.file = Gone
  <2> DEFINE l == [NoLoad EXCEPT !.pc = "row"]
  <2>1. l \in Loads /\ l.pc = "row" /\ l.act = "open" /\ l.file = Gone
    BY NoCallIsSave DEF NoLoad, Loads
  <2> HIDE DEF l
  <2>2. load = [t \in Tabs |-> l]
    BY Zenon DEF Init, l
  <2> QED
    BY <2>1, <2>2
<1>3. PICK c \in Saves : call = [t \in Tabs |-> [i \in Slots |-> c]] /\ c.pc = "idle"
  <2>1. call = [t \in Tabs |-> [i \in Slots |-> NoCall]]
    BY Zenon DEF Init
  <2>2. NoCall \in Saves /\ NoCall.pc = "idle"
    BY NoCallIsSave DEF NoCall
  <2> QED
    BY <2>1, <2>2
<1>4. PICK d \in [doc : Docs \cup {NoDoc}, base : MaybeDigest] :
        draft = [t \in Tabs |-> d] /\ d.doc = NoDoc /\ d.base = Gone
  <2>1. draft = [t \in Tabs |-> [doc |-> NoDoc, base |-> Gone]]
    BY Zenon DEF Init
  <2>2. [doc |-> NoDoc, base |-> Gone] \in [doc : Docs \cup {NoDoc}, base : MaybeDigest]
    BY FileFacts
  <2> QED
    BY <2>1, <2>2
<1>5. Types
  <2>1. FileTypes
    BY <1>1 DEF FileTypes, MaybeDigest
  <2>2. DocTypes
    BY <1>1, <1>4, FileFacts DEF Init, DocTypes
  <2>3. AskTypes /\ SeenTypes /\ LateTypes
    BY <1>1, FileFacts DEF Init, AskTypes, SeenTypes, LateTypes
  <2>4. HintTypes
    BY FS_EmptySet DEF Init, HintTypes
  <2>5. LoadTypes /\ CallTypes
    BY <1>2, <1>3 DEF LoadTypes, CallTypes
  <2>6. SpentTypes
    BY BoundsDomain DEF Init, SpentTypes
  <2> QED
    BY <2>1, <2>2, <2>3, <2>4, <2>5, <2>6 DEF Types
<1>6. ASSUME NEW t \in Tabs
      PROVE  LandedOf(t) /\ GuardOf(t)
  <2>1. /\ screen[t] = {} /\ base[t] = {} /\ known[t] = Gone /\ offer[t] = Gone /\ seen[t] = {}
        /\ draft[t].doc = NoDoc /\ draft[t].base = Gone
    BY <1>4 DEF Init
  <2>2. load[t].pc = "row" /\ load[t].act = "open" /\ load[t].file = Gone
    BY <1>2
  <2>3. \A i \in Slots : GuardedSave(t, call[t][i]) /\ LandedSave(call[t][i])
    BY <1>3 DEF GuardedSave, LandedSave
  <2> QED
    BY <1>1, <2>1, <2>2, <2>3
    DEF LandedOf, GuardOf, DocGuarded, RowGuarded, Reached, Shown
<1> QED
  BY <1>1, <1>5, <1>6 DEF SaveInv, Reached

LEMMA SaveInvStep == SaveInv /\ [Next]_vars => SaveInv'
<1> SUFFICES ASSUME SaveInv, [Next]_vars
             PROVE  SaveInv'
  OBVIOUS
<1>1. CASE Others
  BY <1>1, AgentWritesKeeps, PublishKeeps, DeleteKeeps DEF Others
<1>2. ASSUME NEW t \in Tabs, User(t)
      PROVE  SaveInv'
  <2>1. TabStep(t)
    BY <1>2, TypeIsTabStep, KeepIsTabStep, TakeIsTabStep, DeferIsTabStep, OpenAgainIsTabStep,
       ReloadIsTabStep, PressSaveIsTabStep, Zenon DEF User
  <2> QED
    BY <2>1, TabStepKeeps
<1>3. ASSUME NEW t \in Tabs, Fire(t)
      PROVE  SaveInv'
  <2>1. TabStep(t)
    BY <1>3, FireQuietlyIsTabStep, FireSaveIsTabStep, Zenon DEF Fire
  <2> QED
    BY <2>1, TabStepKeeps
<1>4. ASSUME NEW t \in Tabs, Listen(t)
      PROVE  SaveInv'
  <2>1. TabStep(t)
    BY <1>4, HearIsTabStep, AbandonIsTabStep, IgnoreIsTabStep, ReactIsTabStep, Zenon DEF Listen
  <2> QED
    BY <2>1, TabStepKeeps
<1>5. ASSUME NEW t \in Tabs, Loading(t)
      PROVE  SaveInv'
  <2>1. TabStep(t)
    BY <1>5, OfferedIsTabStep, ImportedIsTabStep, FetchedIsTabStep, RowArrivesIsTabStep,
       RowDecidesIsTabStep, LoadFailsIsTabStep, Zenon DEF Loading
  <2> QED
    BY <2>1, TabStepKeeps
<1>6. ASSUME NEW t \in Tabs, NEW i \in Slots, Serve(t, i)
      PROVE  SaveInv'
  <2>1. CASE Write(t, i)
    BY <2>1, WriteKeeps
  <2>2. CASE Check(t, i) \/ Receipt(t, i)
    BY <2>2, CheckIsTabStep, ReceiptIsTabStep, TabStepKeeps
  <2> QED
    BY <1>6, <2>1, <2>2 DEF Serve
<1>7. ASSUME NEW t \in Tabs, NEW i \in Slots, Hearing(t, i) \/ SaveFails(t, i)
      PROVE  SaveInv'
  <2>1. TabStep(t)
    BY <1>7, AutosaveLandsIsTabStep, AutosaveRefusedIsTabStep, ButtonLandsIsTabStep,
       ButtonRowIsTabStep, UnheardIsTabStep, SaveFailsIsTabStep, Zenon DEF Hearing
  <2> QED
    BY <2>1, TabStepKeeps
<1>8. CASE UNCHANGED vars
  <2>1. UNCHANGED <<file, publisher, landed, docVars, askVars, hint, load, call, seen, late, spent>>
    BY <1>8 DEF vars, fileVars
  <2>2. publisher' \in Docs \cup {NoDoc} /\ SpentTypes'
    BY <2>1 DEF SaveInv, Types, FileTypes, SpentTypes
  <2> QED
    BY <2>1, <2>2, PublisherKeeps
<1> QED
  BY <1>1, <1>2, <1>3, <1>4, <1>5, <1>6, <1>7, <1>8, Zenon DEF Next

\* Whatever the tabs, the server and the other writers do, SaveInv holds.
THEOREM SaveInvariant == Spec => []SaveInv
<1> QED
  BY SaveInvInit, SaveInvStep, PTL DEF Spec

\* Types: digests are of versions that were written, a tab loads one document
\* at a time, no more than one hint is on its way to it.
THEOREM SaveTypes == Spec => []TypeOK
<1>1. SaveInv => TypeOK
  BY TypesSplit DEF SaveInv
<1> QED
  BY <1>1, SaveInvariant, PTL

\* workflow_store.save compares digests and then writes: a save that quotes a
\* version overwrites no edit its tab has not shown or announced, and brings no
\* deleted package back, unless somebody wrote in a window of the tab.
THEOREM QuotedSavesAreGuarded == Spec => SavesAreGuarded
<1>1. SaveInv
      => \A t \in Tabs, i \in Slots :
           (/\ call[t][i].pc = "write" /\ call'[t][i].pc = "receipt"
            /\ call[t][i].quote # Gone
            /\ file' # file)
           => "others" \in late[t] \/ (file # Gone /\ file.doc \subseteq seen[t])
  BY DEF SaveInv, GuardOf, GuardedSave, Missed, Shown
<1> QED
  BY <1>1, SaveInvariant, PTL DEF SavesAreGuarded

\* A refresh of the canvas from disk takes off it nothing but what reached the
\* file, or was typed while the tab waited for the document.
THEOREM RefreshKeepsEdits == Spec => EditsSurvive
<1>1. SaveInv
      => \A t \in Tabs :
           load[t].pc = "load" /\ load[t].act = "refresh" /\ load'[t].pc = "row"
           => screen[t] \ screen'[t] \subseteq landed \cup load[t].typed
  BY DEF SaveInv, LandedOf
<1> QED
  BY <1>1, SaveInvariant, PTL DEF EditsSurvive
=============================================================================
