--------------------------- MODULE RunStream_proofs ---------------------------
(***************************************************************************)
(* Proofs about RunStream, for any children, ids and number of updates.    *)
(*                                                                         *)
(* They speak of the whole stream, the frames sent and the frames owed: a  *)
(* step of the graph appends to it, a delivery leaves it as it is.         *)
(***************************************************************************)
EXTENDS RunStream, SequenceTheorems, FiniteSetTheorems, TLAPS

Stream == wire \o owed

\* S has one frame e for each lane of L, and no other frame e.
Once(S, e, L) ==
  /\ \A i \in DOMAIN S : S[i].event = e => S[i].lane \in L
  /\ \A c \in L : \E i \in DOMAIN S : S[i].event = e /\ S[i].lane = c
  /\ \A i, j \in DOMAIN S :
       S[i].event = e /\ S[j].event = e /\ S[i].lane = S[j].lane => i = j

\* A lane is announced before it is closed.
SpawnedFirst(S) ==
  \A i \in DOMAIN S : S[i].event = "settled" =>
    \E j \in DOMAIN S : j < i /\ S[j].event = "spawn" /\ S[j].lane = S[i].lane

StartedFirst(S) == \A i \in DOMAIN S : S[i].event = "started" <=> i = 1

NoneOf(S, events) == \A i \in DOMAIN S : S[i].event \notin events

Opened ==
  /\ opening <=> Stream = <<>>
  /\ StartedFirst(Stream)

Ended ==
  /\ \A i \in DOMAIN Stream :
       Stream[i].event \in Terminal => i = Len(Stream) /\ phase = "spent"
  /\ phase = "spent" =>
       Len(Stream) > 0 /\ Stream[Len(Stream)].event \in Terminal

Lanes ==
  /\ Once(Stream, "spawn", announced) /\ Once(Stream, "settled", announced \ open)
  /\ SpawnedFirst(Stream)
  /\ \A c \in announced : status[c] # "unborn"
  /\ phase = "spent" => open = {}

\* The row is written when the run ends, or when the stream is unwound.
Written ==
  /\ ~closed /\ phase # "spent" => row = "none"
  /\ phase = "spent" =>
       LET e == Stream[Len(Stream)].event IN
       /\ e \in {"done", "interrupt"} => row = "run"
       /\ e = "error" => row # "stopped"
  /\ row = "stopped" => left /\ phase = "graph"
  /\ row = "exhausted" => phase = "spent"
  /\ closed /\ phase = "graph" => row = "stopped"

\* The transport returns at the end of the stream, or because the client left.
Doors ==
  /\ returned => step \in {"ready", "over"}
  /\ closed => returned
  /\ returned => left \/ closed
  /\ step = "over" /\ ~returned => phase = "spent" /\ owed = <<>>
  /\ closed /\ ~left => phase = "spent" /\ owed = <<>>

StreamInv == TypeOK /\ Opened /\ Ended /\ Lanes /\ Written /\ Doors

-----------------------------------------------------------------------------
(***************************************************************************)
(* Lemmas about sequences of frames.                                       *)
(***************************************************************************)
LEMMA SetToSeqEnumerates ==
  ASSUME NEW S, IsFiniteSet(S)
  PROVE  /\ SetToSeq(S) \in Seq(S) /\ DOMAIN SetToSeq(S) = 1 .. Len(SetToSeq(S))
         /\ \A c \in S : \E i \in DOMAIN SetToSeq(S) : SetToSeq(S)[i] = c
         /\ \A i, j \in DOMAIN SetToSeq(S) : SetToSeq(S)[i] = SetToSeq(S)[j] => i = j
<1> DEFINE n == Cardinality(S)
           q == SetToSeq(S)
<1>1. n \in Nat /\ ExistsBijection(1 .. n, S)
  BY FS_CardinalityType
<1>2. \E f \in [1 .. n -> S] : IsInjective(f)
  BY <1>1 DEF ExistsBijection, Bijection, Injection
<1>3. q \in [1 .. n -> S] /\ IsInjective(q)
  BY <1>2, Zenon DEF SetToSeq
<1>4. q \in Seq(S) /\ Len(q) = n /\ DOMAIN q = 1 .. n
  BY <1>1, <1>3, SMT
<1>5. IsFiniteSet(1 .. n) /\ Cardinality(1 .. n) = n
  BY <1>1, FS_Interval
<1>6. q \in Injection(1 .. n, S)
  BY <1>3 DEF Injection
<1>7. q \in Surjection(1 .. n, S)
  BY <1>5, <1>6, FS_Injection
<1> QED
  BY <1>3, <1>4, <1>7 DEF IsInjective, Surjection

LEMMA FramesOfLanes ==
  ASSUME NEW L \in SUBSET Children, NEW d \in BOOLEAN, NEW e \in {"spawn", "settled"}
  PROVE  /\ LaneFrames(e, L, d) \in Seq(Frames)
         /\ \A i \in DOMAIN LaneFrames(e, L, d) : LaneFrames(e, L, d)[i].event = e
         /\ Once(LaneFrames(e, L, d), e, L)
<1> DEFINE q == SetToSeq(L)
           f == LaneFrames(e, L, d)
<1>1. IsFiniteSet(L)
  BY FS_Subset, StreamAssumption
<1>2. /\ q \in Seq(L) /\ DOMAIN q = 1 .. Len(q)
      /\ \A c \in L : \E i \in DOMAIN q : q[i] = c
      /\ \A i, j \in DOMAIN q : q[i] = q[j] => i = j
  BY <1>1, SetToSeqEnumerates
<1>3. f = [i \in 1 .. Len(q) |-> [event |-> e, lane |-> q[i], dated |-> d]]
  BY <1>2 DEF LaneFrames, Frame
<1>4. Len(q) \in Nat /\ \A i \in 1 .. Len(q) : q[i] \in L
  BY <1>2
<1>5. \A i \in 1 .. Len(q) : [event |-> e, lane |-> q[i], dated |-> d] \in Frames
  BY <1>4 DEF Frames
<1>6. f \in Seq(Frames)
  BY <1>3, <1>4, <1>5
<1>7. /\ DOMAIN f = DOMAIN q
      /\ \A i \in DOMAIN f : f[i].event = e /\ f[i].lane = q[i]
  BY <1>2, <1>3
<1>8. Once(f, e, L)
  BY <1>2, <1>4, <1>7 DEF Once
<1> QED
  BY <1>6, <1>7, <1>8

LEMMA OnceConcat ==
  ASSUME NEW S \in Seq(Frames), NEW T \in Seq(Frames), NEW e, NEW L, NEW M,
         Once(S, e, L), Once(T, e, M), L \cap M = {}
  PROVE  Once(S \o T, e, L \cup M)
<1> DEFINE U == S \o T
<1>1. /\ DOMAIN U = 1 .. Len(S) + Len(T) /\ Len(S) \in Nat /\ Len(T) \in Nat
      /\ DOMAIN S = 1 .. Len(S) /\ DOMAIN T = 1 .. Len(T)
      /\ \A i \in DOMAIN U : U[i] = IF i =< Len(S) THEN S[i] ELSE T[i - Len(S)]
  BY ConcatProperties
<1> HIDE DEF U
<1>2. ASSUME NEW i \in DOMAIN U, U[i].event = e PROVE U[i].lane \in L \cup M
  <2>1. CASE i =< Len(S)
    BY <1>1, <1>2, <2>1 DEF Once
  <2>2. CASE i > Len(S)
    <3>1. i - Len(S) \in DOMAIN T /\ U[i] = T[i - Len(S)]
      BY <1>1, <2>2
    <3> QED
      BY <1>2, <3>1 DEF Once
  <2> QED
    BY <1>1, <2>1, <2>2
<1>3. ASSUME NEW c \in L \cup M PROVE \E i \in DOMAIN U : U[i].event = e /\ U[i].lane = c
  <2>1. CASE c \in L
    <3>1. PICK i \in DOMAIN S : S[i].event = e /\ S[i].lane = c
      BY <2>1 DEF Once
    <3>2. i \in DOMAIN U /\ U[i] = S[i]
      BY <1>1
    <3> QED
      BY <3>1, <3>2
  <2>2. CASE c \in M
    <3>1. PICK i \in DOMAIN T : T[i].event = e /\ T[i].lane = c
      BY <2>2 DEF Once
    <3>2. i + Len(S) \in DOMAIN U /\ U[i + Len(S)] = T[i]
      BY <1>1
    <3> QED
      BY <3>1, <3>2
  <2> QED
    BY <2>1, <2>2
<1>4. ASSUME NEW i \in DOMAIN U, NEW j \in DOMAIN U,
             U[i].event = e, U[j].event = e, U[i].lane = U[j].lane
      PROVE  i = j
  <2>1. CASE i =< Len(S) /\ j =< Len(S)
    BY <1>1, <1>4, <2>1 DEF Once
  <2>2. CASE i > Len(S) /\ j > Len(S)
    <3>1. /\ i - Len(S) \in DOMAIN T /\ U[i] = T[i - Len(S)]
          /\ j - Len(S) \in DOMAIN T /\ U[j] = T[j - Len(S)]
      BY <1>1, <2>2
    <3>2. i - Len(S) = j - Len(S)
      BY <1>4, <3>1 DEF Once
    <3> QED
      BY <1>1, <3>2
  <2>3. ASSUME NEW a \in DOMAIN U, NEW b \in DOMAIN U, a =< Len(S), b > Len(S),
               U[a].event = e, U[b].event = e
        PROVE  U[a].lane # U[b].lane
    <3>1. /\ a \in DOMAIN S /\ U[a] = S[a]
          /\ b - Len(S) \in DOMAIN T /\ U[b] = T[b - Len(S)]
      BY <1>1, <2>3
    <3>2. U[a].lane \in L /\ U[b].lane \in M
      BY <2>3, <3>1 DEF Once
    <3> QED
      BY <3>2
  <2> QED
    BY <1>1, <1>4, <2>1, <2>2, <2>3
<1> QED
  BY <1>2, <1>3, <1>4 DEF Once, U

\* Frames of other events add nothing.
LEMMA OnceOther ==
  ASSUME NEW S \in Seq(Frames), NEW T \in Seq(Frames), NEW e, NEW L,
         Once(S, e, L), \A i \in DOMAIN T : T[i].event # e
  PROVE  Once(S \o T, e, L)
<1>1. Once(T, e, {})
  BY DEF Once
<1>2. Once(S \o T, e, L \cup {})
  BY <1>1, OnceConcat
<1> QED
  BY <1>2

LEMMA SpawnedFirstConcat ==
  ASSUME NEW S \in Seq(Frames), NEW T \in Seq(Frames), NEW L,
         SpawnedFirst(S), Once(S, "spawn", L),
         \A i \in DOMAIN T : T[i].event = "settled" => T[i].lane \in L
  PROVE  SpawnedFirst(S \o T)
<1> DEFINE U == S \o T
<1>1. /\ DOMAIN U = 1 .. Len(S) + Len(T) /\ Len(S) \in Nat /\ Len(T) \in Nat
      /\ DOMAIN S = 1 .. Len(S) /\ DOMAIN T = 1 .. Len(T)
      /\ \A i \in DOMAIN U : U[i] = IF i =< Len(S) THEN S[i] ELSE T[i - Len(S)]
  BY ConcatProperties
<1> HIDE DEF U
<1>2. ASSUME NEW i \in DOMAIN U, U[i].event = "settled"
      PROVE  \E j \in DOMAIN U : j < i /\ U[j].event = "spawn" /\ U[j].lane = U[i].lane
  <2>1. CASE i =< Len(S)
    <3>1. PICK j \in DOMAIN S : j < i /\ S[j].event = "spawn" /\ S[j].lane = S[i].lane
      BY <1>1, <1>2, <2>1 DEF SpawnedFirst
    <3> QED
      BY <1>1, <2>1, <3>1
  <2>2. CASE i > Len(S)
    <3>1. i - Len(S) \in DOMAIN T /\ U[i] = T[i - Len(S)]
      BY <1>1, <2>2
    <3>2. PICK j \in DOMAIN S : S[j].event = "spawn" /\ S[j].lane = U[i].lane
      BY <1>2, <3>1 DEF Once
    <3> QED
      BY <1>1, <2>2, <3>2
  <2> QED
    BY <1>1, <2>1, <2>2
<1> QED
  BY <1>2 DEF SpawnedFirst, U

LEMMA StartedFirstConcat ==
  ASSUME NEW S \in Seq(Frames), NEW T \in Seq(Frames), S # <<>>,
         StartedFirst(S), NoneOf(T, {"started"})
  PROVE  S \o T # <<>> /\ StartedFirst(S \o T)
<1> DEFINE U == S \o T
<1>1. /\ U \in Seq(Frames) /\ Len(U) = Len(S) + Len(T)
      /\ DOMAIN U = 1 .. Len(S) + Len(T) /\ Len(S) \in Nat \ {0} /\ Len(T) \in Nat
      /\ DOMAIN S = 1 .. Len(S) /\ DOMAIN T = 1 .. Len(T)
      /\ \A i \in DOMAIN U : U[i] = IF i =< Len(S) THEN S[i] ELSE T[i - Len(S)]
  BY ConcatProperties, EmptySeq
<1> HIDE DEF U
<1>2. U # <<>>
  BY <1>1, EmptySeq
<1>3. ASSUME NEW i \in DOMAIN U PROVE U[i].event = "started" <=> i = 1
  <2>1. CASE i =< Len(S)
    BY <1>1, <2>1 DEF StartedFirst
  <2>2. CASE i > Len(S)
    <3>1. i - Len(S) \in DOMAIN T /\ U[i] = T[i - Len(S)] /\ i # 1
      BY <1>1, <2>2
    <3> QED
      BY <3>1 DEF NoneOf
  <2> QED
    BY <1>1, <2>1, <2>2
<1> QED
  BY <1>2, <1>3 DEF StartedFirst, U

LEMMA NoneOfConcat ==
  ASSUME NEW S \in Seq(Frames), NEW T \in Seq(Frames), NEW E,
         NoneOf(S, E), NoneOf(T, E)
  PROVE  NoneOf(S \o T, E)
<1> DEFINE U == S \o T
<1>1. /\ DOMAIN U = 1 .. Len(S) + Len(T) /\ Len(S) \in Nat /\ Len(T) \in Nat
      /\ DOMAIN S = 1 .. Len(S) /\ DOMAIN T = 1 .. Len(T)
      /\ \A i \in DOMAIN U : U[i] = IF i =< Len(S) THEN S[i] ELSE T[i - Len(S)]
  BY ConcatProperties
<1> HIDE DEF U
<1>2. \A i \in DOMAIN U : i > Len(S) => i - Len(S) \in DOMAIN T
  BY <1>1
<1>3. \A i \in DOMAIN U : ~(i > Len(S)) => i =< Len(S) /\ i \in DOMAIN S
  BY <1>1
<1> QED
  BY <1>1, <1>2, <1>3 DEF NoneOf, U

\* The last frame of a stream is the one just appended.
LEMMA LastOfConcat ==
  ASSUME NEW S \in Seq(Frames), NEW f \in Frames
  PROVE  LET U == S \o <<f>>
         IN  /\ U \in Seq(Frames) /\ Len(U) = Len(S) + 1 /\ U[Len(U)] = f
             /\ \A i \in DOMAIN U : i < Len(U) => i \in DOMAIN S /\ U[i] = S[i]
<1> DEFINE T == <<f>>
           U == S \o T
<1>1. T \in Seq(Frames) /\ Len(T) = 1 /\ T[1] = f
  OBVIOUS
<1> HIDE DEF T
<1>2. /\ U \in Seq(Frames) /\ Len(U) = Len(S) + 1 /\ DOMAIN U = 1 .. Len(U)
      /\ Len(S) \in Nat /\ DOMAIN S = 1 .. Len(S)
      /\ \A i \in 1 .. Len(S) + 1 : U[i] = IF i =< Len(S) THEN S[i] ELSE T[i - Len(S)]
  BY <1>1, ConcatProperties, LenProperties
<1> HIDE DEF U
<1>3. U[Len(U)] = f
  BY <1>1, <1>2
<1> QED
  BY <1>2, <1>3 DEF U, T

-----------------------------------------------------------------------------
(***************************************************************************)
(* The start of every batch of frames.                                     *)
(***************************************************************************)
LEMMA FrameIsAFrame ==
  /\ \A e \in {"started", "update"} \cup Terminal, d \in BOOLEAN :
       /\ Frame(e, NoLane, d) \in Frames
       /\ Frame(e, NoLane, d).event = e
       /\ <<Frame(e, NoLane, d)>> \in Seq(Frames)
       /\ \A i \in DOMAIN <<Frame(e, NoLane, d)>> : <<Frame(e, NoLane, d)>>[i].event = e
BY DEF Frame, Frames, Terminal

LEMMA OpeningKeeps ==
  ASSUME TypeOK, Opened, Lanes, owed = <<>>
  PROVE  LET W == wire \o Opening
         IN  /\ Opening \in Seq(Frames) /\ W \in Seq(Frames) /\ W # <<>>
             /\ StartedFirst(W) /\ SpawnedFirst(W)
             /\ Once(W, "spawn", announced)
             /\ Once(W, "settled", announced \ open)
             /\ NoneOf(wire, Terminal) => NoneOf(W, Terminal)
<1> DEFINE W == wire \o Opening
<1>1. wire \in Seq(Frames) /\ Stream = wire
  BY ConcatEmptySeq DEF TypeOK, Stream
<1>2. CASE opening
  <2> DEFINE f == Frame("started", NoLane, TRUE)
  <2>1. f \in Frames /\ f.event = "started" /\ <<f>> \in Seq(Frames)
    BY FrameIsAFrame
  <2> HIDE DEF f
  <2>2. wire = <<>> /\ Opening = <<f>>
    BY <1>1, <1>2 DEF Opened, Opening, f
  <2>3. W = <<f>>
    BY <2>1, <2>2, ConcatEmptySeq
  <2>4. DOMAIN W = {1} /\ W[1].event = "started" /\ W # <<>>
    BY <2>1, <2>3
  <2>5. announced = {}
    BY <1>1, <2>2 DEF Lanes, Once
  <2>6. Once(W, "spawn", announced) /\ Once(W, "settled", announced \ open)
    BY <2>4, <2>5 DEF Once
  <2>7. StartedFirst(W) /\ SpawnedFirst(W) /\ NoneOf(W, Terminal)
    BY <2>4 DEF StartedFirst, SpawnedFirst, NoneOf, Terminal
  <2> QED
    BY <2>1, <2>2, <2>3, <2>4, <2>6, <2>7
<1>3. CASE ~opening
  <2>1. Opening = <<>> /\ W = wire
    BY <1>1, <1>3, ConcatEmptySeq DEF Opening
  <2>2. wire # <<>>
    BY <1>1, <1>3 DEF Opened
  <2>3. <<>> \in Seq(Frames)
    OBVIOUS
  <2> QED
    BY <1>1, <2>1, <2>2, <2>3 DEF Opened, Lanes
<1> QED
  BY <1>2, <1>3
-----------------------------------------------------------------------------
(***************************************************************************)
(* The steps.                                                              *)
(***************************************************************************)
\* Before the ending nothing that ends has been said.
LEMMA NoEndingYet ==
  ASSUME TypeOK, Ended, owed = <<>>, phase # "spent"
  PROVE  Stream = wire /\ wire \in Seq(Frames) /\ NoneOf(wire, Terminal)
BY ConcatEmptySeq DEF TypeOK, Ended, Stream, NoneOf

LEMMA ChunkKeepsInv == StreamInv /\ Chunk => StreamInv'
<1> SUFFICES ASSUME StreamInv, Chunk PROVE StreamInv'
  OBVIOUS
<1> USE DEF StreamInv
<1>1. /\ step = "running" /\ owed = <<>> /\ phase = "graph" /\ opening' = FALSE
      /\ step' = "ready" /\ phase' = phase /\ row' = row /\ chunks < MaxChunks
      /\ chunks' = chunks + 1
      /\ left' = left /\ returned' = returned /\ closed' = closed /\ wire' = wire
  BY DEF Chunk, Awaiting, TypeOK, doorVars
<1>2. PICK starts \in SUBSET {c \in Children : status[c] = "unborn"},
           ends \in SUBSET {c \in Children : status[c] = "running"} :
        /\ \E b \in SUBSET starts :
             LET g == Closes(ends, open \union b)
             IN  /\ Announces(starts, b)
                 /\ announced' = announced \union b
                 /\ open' = (open \union b) \ g
                 /\ owed' = Opening \o LaneFrames("spawn", b, TRUE)
                              \o <<Frame("update", NoLane, TRUE)>>
                              \o LaneFrames("settled", g, TRUE)
        /\ status' = [c \in Children |-> IF c \in starts THEN "running"
                                         ELSE IF c \in ends THEN "ended"
                                         ELSE status[c]]
  BY Zenon DEF Chunk
<1>3. PICK born \in SUBSET starts :
        LET g == Closes(ends, open \union born)
        IN  /\ announced' = announced \union born
            /\ open' = (open \union born) \ g
            /\ owed' = Opening \o LaneFrames("spawn", born, TRUE)
                         \o <<Frame("update", NoLane, TRUE)>>
                         \o LaneFrames("settled", g, TRUE)
  BY <1>2, Zenon
<1> DEFINE gone == Closes(ends, open \union born)
           A == LaneFrames("spawn", born, TRUE)
           u == Frame("update", NoLane, TRUE)
           B == LaneFrames("settled", gone, TRUE)
           W1 == wire \o Opening
           W2 == W1 \o A
           W3 == W2 \o <<u>>
           W4 == W3 \o B
<1>4. /\ born \subseteq starts /\ gone \subseteq open \union born
      /\ born \subseteq Children /\ gone \subseteq Children
  BY DEF Closes, TypeOK
<1>5. born \cap announced = {} /\ open \subseteq announced /\ announced \subseteq Children
  BY <1>4 DEF Lanes, TypeOK
<1>6. /\ announced' = announced \union born
      /\ open' = (open \union born) \ gone
      /\ owed' = Opening \o A \o <<u>> \o B
  BY <1>3, Zenon
<1>7. /\ A \in Seq(Frames) /\ Once(A, "spawn", born)
      /\ \A i \in DOMAIN A : A[i].event = "spawn"
  BY <1>4, FramesOfLanes
<1>8. /\ B \in Seq(Frames) /\ Once(B, "settled", gone)
      /\ \A i \in DOMAIN B : B[i].event = "settled"
  BY <1>4, FramesOfLanes
<1>9. /\ <<u>> \in Seq(Frames) /\ \A i \in DOMAIN <<u>> : <<u>>[i].event = "update"
      /\ u \in Frames
  <2>1. "update" \in {"started", "update"} \cup Terminal /\ TRUE \in BOOLEAN
    OBVIOUS
  <2> QED
    BY <2>1, FrameIsAFrame, Zenon
<1>10. NoneOf(wire, Terminal) /\ wire \in Seq(Frames)
  BY <1>1, NoEndingYet
<1>11. /\ Opening \in Seq(Frames) /\ W1 \in Seq(Frames) /\ W1 # <<>>
       /\ StartedFirst(W1) /\ SpawnedFirst(W1)
       /\ Once(W1, "spawn", announced)
       /\ Once(W1, "settled", announced \ open)
       /\ NoneOf(W1, Terminal)
  BY <1>1, <1>10, OpeningKeeps, Zenon
<1> HIDE DEF gone, A, u, B, W1
<1>12. W2 \in Seq(Frames) /\ W3 \in Seq(Frames) /\ W4 \in Seq(Frames)
  BY <1>7, <1>8, <1>9, <1>11, ConcatProperties
<1> HIDE DEF W2, W3, W4
<1>13. Stream' = W4 /\ owed' \in Seq(Frames)
  <2> DEFINE U == <<u>>
             O1 == Opening \o A
             O2 == O1 \o U
             O3 == O2 \o B
  <2>1. U \in Seq(Frames)
    BY <1>9
  <2> HIDE DEF U
  <2>2. O1 \in Seq(Frames) /\ O2 \in Seq(Frames) /\ O3 \in Seq(Frames)
    BY <1>7, <1>8, <1>11, <2>1, ConcatProperties
  <2>3. W2 = wire \o O1
    BY <1>7, <1>10, <1>11, ConcatAssociative DEF W1, W2
  <2> HIDE DEF O1
  <2>4. (wire \o O1) \o U = wire \o O2
    BY <1>10, <2>1, <2>2, ConcatAssociative
  <2> HIDE DEF O2
  <2>5. (wire \o O2) \o B = wire \o O3
    <3>1. wire \in Seq(Frames) /\ O2 \in Seq(Frames) /\ B \in Seq(Frames)
      BY <1>8, <1>10, <2>2, Zenon
    <3>2. (wire \o O2) \o B = wire \o (O2 \o B)
      <4> HIDE DEF O3
      <4> QED
        BY <3>1, ConcatAssociative
    <3> QED
      BY <3>2
  <2>6. W4 = wire \o O3
    BY <2>3, <2>4, <2>5 DEF W3, W4, U
  <2>7. owed' = O3
    BY <1>6, Zenon DEF O1, O2, U
  <2> HIDE DEF O3
  <2>8. Stream' = W4
    BY <1>1, <2>6, <2>7, Zenon DEF Stream
  <2> QED
    BY <2>2, <2>7, <2>8, Zenon
<1>14. W2 # <<>> /\ StartedFirst(W2) /\ NoneOf(W2, Terminal)
  <2>1. NoneOf(A, {"started"}) /\ NoneOf(A, Terminal)
    BY <1>7 DEF NoneOf, Terminal
  <2> QED
    BY <1>7, <1>11, <2>1, StartedFirstConcat, NoneOfConcat DEF W2
<1>15. W3 # <<>> /\ StartedFirst(W3) /\ NoneOf(W3, Terminal)
  <2>1. NoneOf(<<u>>, {"started"}) /\ NoneOf(<<u>>, Terminal)
    BY <1>9 DEF NoneOf, Terminal
  <2> QED
    BY <1>9, <1>12, <1>14, <2>1, StartedFirstConcat, NoneOfConcat DEF W3
<1>16. W4 # <<>> /\ StartedFirst(W4) /\ NoneOf(W4, Terminal)
  <2>1. NoneOf(B, {"started"}) /\ NoneOf(B, Terminal)
    BY <1>8 DEF NoneOf, Terminal
  <2> QED
    BY <1>8, <1>12, <1>15, <2>1, StartedFirstConcat, NoneOfConcat DEF W4
<1>17. Once(W4, "spawn", announced \union born)
  <2>1. Once(W2, "spawn", announced \union born)
    BY <1>5, <1>7, <1>11, OnceConcat DEF W2
  <2>2. Once(W3, "spawn", announced \union born)
    BY <1>9, <1>12, <2>1, OnceOther DEF W3
  <2> QED
    BY <1>8, <1>12, <2>2, OnceOther DEF W4
<1>18. Once(W4, "settled", (announced \ open) \union gone)
  <2>1. Once(W2, "settled", announced \ open)
    BY <1>7, <1>11, OnceOther DEF W2
  <2>2. Once(W3, "settled", announced \ open)
    BY <1>9, <1>12, <2>1, OnceOther DEF W3
  <2>3. (announced \ open) \cap gone = {}
    BY <1>4, <1>5
  <2> QED
    BY <1>8, <1>12, <2>2, <2>3, OnceConcat DEF W4
<1>19. SpawnedFirst(W4)
  <2>1. SpawnedFirst(W2)
    BY <1>7, <1>11, SpawnedFirstConcat DEF W2
  <2>2. Once(W2, "spawn", announced \union born)
    BY <1>5, <1>7, <1>11, OnceConcat DEF W2
  <2>3. SpawnedFirst(W3)
    BY <1>9, <1>12, <2>1, <2>2, SpawnedFirstConcat DEF W3
  <2>4. Once(W3, "spawn", announced \union born)
    BY <1>9, <1>12, <2>2, OnceOther DEF W3
  <2>5. \A i \in DOMAIN B : B[i].lane \in announced \union born
    BY <1>4, <1>5, <1>8 DEF Once
  <2> QED
    BY <1>8, <1>12, <2>3, <2>4, <2>5, SpawnedFirstConcat DEF W4
<1>20. Opened'
  BY <1>1, <1>13, <1>16 DEF Opened
<1>21. Ended'
  BY <1>1, <1>13, <1>16 DEF Ended, NoneOf
<1>22. Lanes'
  <2>1. announced' \ open' = (announced \ open) \union gone
    BY <1>4, <1>5, <1>6
  <2>2. \A c \in announced' : status'[c] # "unborn"
    BY <1>2, <1>4, <1>5, <1>6 DEF Lanes
  <2> QED
    BY <1>1, <1>6, <1>13, <1>17, <1>18, <1>19, <2>1, <2>2 DEF Lanes
<1>23. TypeOK'
  <2>1. owed' # <<>>
    BY <1>6, <1>7, <1>8, <1>9, <1>11, ConcatProperties, EmptySeq
  <2>2. open' \subseteq announced' /\ announced' \subseteq Children
    BY <1>4, <1>5, <1>6
  <2>3. status' \in [Children -> {"unborn", "running", "ended"}]
    BY <1>2 DEF TypeOK
  <2>4. chunks' \in 0 .. MaxChunks
    BY <1>1, StreamAssumption DEF TypeOK
  <2> QED
    BY <1>1, <1>13, <2>1, <2>2, <2>3, <2>4 DEF TypeOK
<1>24. Written' /\ Doors'
  BY <1>1 DEF Written, Doors
<1> QED
  BY <1>20, <1>21, <1>22, <1>23, <1>24

LEMMA EndingKeepsInv ==
  ASSUME StreamInv, step = "running", NEW e \in Terminal, NEW d \in BOOLEAN, NEW kind,
         Ending(Frame(e, NoLane, d), kind),
         e \in {"done", "interrupt"} => kind = "run",
         e = "error" => kind \in {"none", "exhausted", "run"}
  PROVE  StreamInv'
<1> USE DEF StreamInv
<1> DEFINE B == LaneFrames("settled", open, ~opening)
           f == Frame(e, NoLane, d)
           W1 == wire \o Opening
           W2 == W1 \o B
           W3 == W2 \o <<f>>
<1>1. /\ owed = <<>> /\ phase # "spent" /\ step # "over" /\ opening' = FALSE
      /\ step' = "ready" /\ phase' = "spent" /\ open' = {} /\ announced' = announced
      /\ status' = status /\ chunks' = chunks
      /\ left' = left /\ returned' = returned /\ closed' = closed /\ wire' = wire
      /\ owed' = Opening \o B \o <<f>>
  <2>1. owed = <<>> /\ phase # "spent" /\ step # "over"
    BY DEF TypeOK
  <2> QED
    BY <2>1, Zenon DEF Ending, doorVars
<1>2. row = "none" /\ row' = kind /\ ~closed /\ ~returned
  <2>1. ~closed /\ ~returned
    BY DEF Doors
  <2>2. row = "none"
    BY <1>1, <2>1 DEF Written
  <2>3. row' = Recorded(kind)
    BY Zenon DEF Ending
  <2> QED
    BY <2>1, <2>2, <2>3 DEF Recorded
<1>3. open \subseteq announced /\ open \in SUBSET Children /\ (~opening) \in BOOLEAN
  BY DEF TypeOK
<1>4. /\ B \in Seq(Frames) /\ Once(B, "settled", open)
      /\ \A i \in DOMAIN B : B[i].event = "settled"
  BY <1>3, FramesOfLanes
<1>5. f \in Frames /\ f.event = e /\ <<f>> \in Seq(Frames)
      /\ \A i \in DOMAIN <<f>> : <<f>>[i].event = e
  <2>1. e \in {"started", "update"} \cup Terminal
    OBVIOUS
  <2> QED
    BY <2>1, FrameIsAFrame, Zenon
<1>6. NoneOf(wire, Terminal) /\ wire \in Seq(Frames)
  BY <1>1, NoEndingYet
<1>7. /\ Opening \in Seq(Frames) /\ W1 \in Seq(Frames) /\ W1 # <<>>
      /\ StartedFirst(W1) /\ SpawnedFirst(W1)
      /\ Once(W1, "spawn", announced)
      /\ Once(W1, "settled", announced \ open)
      /\ NoneOf(W1, Terminal)
  BY <1>1, <1>6, OpeningKeeps, Zenon
<1> HIDE DEF B, f, W1
<1>8. W2 \in Seq(Frames) /\ W3 \in Seq(Frames)
  BY <1>4, <1>5, <1>7, ConcatProperties
<1> HIDE DEF W2, W3
<1>9. Stream' = W3 /\ owed' \in Seq(Frames) /\ owed' # <<>>
  <2> DEFINE U == <<f>>
             O1 == Opening \o B
             O2 == O1 \o U
  <2>1. U \in Seq(Frames) /\ U # <<>>
    BY <1>5
  <2> HIDE DEF U
  <2>2. O1 \in Seq(Frames) /\ O2 \in Seq(Frames)
    BY <1>4, <1>7, <2>1, ConcatProperties
  <2>3. W2 = wire \o O1
    BY <1>4, <1>6, <1>7, ConcatAssociative DEF W1, W2
  <2> HIDE DEF O1
  <2>4. (wire \o O1) \o U = wire \o O2
    BY <1>6, <2>1, <2>2, ConcatAssociative
  <2>5. O2 # <<>>
    BY <2>1, <2>2, ConcatEqualIffEmpty
  <2>6. W3 = wire \o O2
    BY <2>3, <2>4 DEF W3, U
  <2> QED
    BY <1>1, <2>2, <2>5, <2>6 DEF Stream, O1, U
<1>10. W2 # <<>> /\ StartedFirst(W2) /\ NoneOf(W2, Terminal)
  <2>1. NoneOf(B, {"started"}) /\ NoneOf(B, Terminal)
    BY <1>4 DEF NoneOf, Terminal
  <2> QED
    BY <1>4, <1>7, <2>1, StartedFirstConcat, NoneOfConcat DEF W2
<1>11. W3 # <<>> /\ StartedFirst(W3)
  <2>1. NoneOf(<<f>>, {"started"})
    BY <1>5 DEF NoneOf, Terminal
  <2> QED
    BY <1>5, <1>8, <1>10, <2>1, StartedFirstConcat DEF W3
<1>12. Once(W2, "spawn", announced) /\ Once(W2, "settled", announced) /\ SpawnedFirst(W2)
  <2>1. Once(W2, "spawn", announced)
    BY <1>4, <1>7, OnceOther DEF W2
  <2>2. Once(W2, "settled", (announced \ open) \cup open)
    <3>1. (announced \ open) \cap open = {}
      OBVIOUS
    <3> QED
      BY <1>4, <1>7, <3>1, OnceConcat DEF W2
  <2>3. (announced \ open) \cup open = announced
    BY <1>3
  <2>4. \A i \in DOMAIN B : B[i].lane \in announced
    BY <1>3, <1>4 DEF Once
  <2>5. SpawnedFirst(W2)
    BY <1>4, <1>7, <2>4, SpawnedFirstConcat DEF W2
  <2> QED
    BY <2>1, <2>2, <2>3, <2>5, Zenon
<1>13. Once(W3, "spawn", announced) /\ Once(W3, "settled", announced) /\ SpawnedFirst(W3)
  <2>1. \A i \in DOMAIN <<f>> : <<f>>[i].event # "spawn" /\ <<f>>[i].event # "settled"
    BY <1>5 DEF Terminal
  <2>2. Once(W3, "spawn", announced)
    BY <1>5, <1>8, <1>12, <2>1, OnceOther DEF W3
  <2>3. Once(W3, "settled", announced)
    BY <1>5, <1>8, <1>12, <2>1, OnceOther DEF W3
  <2>4. SpawnedFirst(W3)
    BY <1>5, <1>8, <1>12, <2>1, SpawnedFirstConcat DEF W3
  <2> QED
    BY <2>2, <2>3, <2>4
<1>14. /\ Len(W3) = Len(W2) + 1 /\ W3[Len(W3)] = f
       /\ \A i \in DOMAIN W3 : i < Len(W3) => i \in DOMAIN W2 /\ W3[i] = W2[i]
       /\ DOMAIN W3 = 1 .. Len(W3) /\ Len(W2) \in Nat
  BY <1>5, <1>8, LastOfConcat, LenProperties DEF W3
<1>15. Opened'
  BY <1>1, <1>9, <1>11 DEF Opened
<1>16. Ended'
  <2>1. \A i \in DOMAIN W3 : W3[i].event \in Terminal => i = Len(W3)
    BY <1>10, <1>14 DEF NoneOf
  <2>2. Len(W3) > 0 /\ W3[Len(W3)].event \in Terminal
    BY <1>5, <1>14
  <2> QED
    BY <1>1, <1>9, <2>1, <2>2 DEF Ended
<1>17. Lanes'
  <2>1. announced' \ open' = announced
    BY <1>1
  <2>2. \A c \in announced' : status'[c] # "unborn"
    BY <1>1 DEF Lanes
  <2> QED
    BY <1>1, <1>9, <1>13, <2>1, <2>2 DEF Lanes
<1>18. Written'
  <2>1. Stream'[Len(Stream')].event = e
    BY <1>5, <1>9, <1>14
  <2>2. kind # "stopped"
    BY DEF Terminal
  <2> QED
    BY <1>1, <1>2, <2>1, <2>2 DEF Written
<1>19. TypeOK'
  <2>1. row' \in Rows
    BY <1>2 DEF Rows, Terminal
  <2> QED
    BY <1>1, <1>3, <1>9, <2>1 DEF TypeOK
<1>20. Doors'
  BY <1>1, <1>2 DEF Doors
<1> QED
  BY <1>15, <1>16, <1>17, <1>18, <1>19, <1>20

\* A frame sent is the frame that was owed first.
LEMMA DeliverKeepsInv == StreamInv /\ Deliver => StreamInv'
<1> SUFFICES ASSUME StreamInv, Deliver PROVE StreamInv'
  OBVIOUS
<1> USE DEF StreamInv
<1>1. /\ step = "ready" /\ ~left /\ owed # <<>> /\ owed \in Seq(Frames) /\ wire \in Seq(Frames)
      /\ wire' = Append(wire, Head(owed)) /\ owed' = Tail(owed) /\ step' = "none"
      /\ phase' = phase /\ opening' = opening /\ row' = row /\ left' = left
      /\ returned' = returned /\ closed' = closed /\ chunks' = chunks
      /\ announced' = announced /\ open' = open /\ status' = status
  BY DEF Deliver, laneVars, TypeOK
<1> DEFINE h == Head(owed)
           t == Tail(owed)
<1>2. h \in Frames /\ t \in Seq(Frames) /\ <<h>> \o t = owed
  BY <1>1
<1>3. Append(wire, h) \in Seq(Frames) /\ Append(wire, h) = wire \o <<h>> /\ <<h>> \in Seq(Frames)
  BY <1>1, <1>2
<1> HIDE DEF h, t
<1>4. (wire \o <<h>>) \o t = wire \o (<<h>> \o t)
  BY <1>1, <1>2, <1>3, ConcatAssociative
<1>5. Stream' = Stream
  BY <1>1, <1>2, <1>3, <1>4, Zenon DEF Stream, h, t
<1>6. ~returned /\ ~closed
  BY <1>1 DEF Doors
<1>7. TypeOK'
  <2>1. wire' \in Seq(Frames) /\ owed' \in Seq(Frames)
    BY <1>1, <1>2, <1>3 DEF h, t
  <2> QED
    BY <1>1, <2>1 DEF TypeOK
<1>8. Opened' /\ Ended' /\ Lanes'
  BY <1>1, <1>5 DEF Opened, Ended, Lanes
<1>9. Written' /\ Doors'
  BY <1>1, <1>5, <1>6 DEF Written, Doors
<1> QED
  BY <1>7, <1>8, <1>9

\* The steps that neither send nor owe a frame.
LEMMA QuietKeepsInv ==
  ASSUME StreamInv,
         Pull \/ Seeded \/ Finish \/ Over \/ HangUp \/ Finalise \/ Leave \/ UNCHANGED vars
  PROVE  StreamInv'
<1> USE DEF StreamInv
<1>1. /\ opening' = opening /\ owed' = owed /\ wire' = wire /\ chunks' = chunks
      /\ announced' = announced /\ open' = open /\ status' = status
  BY Zenon DEF Pull, Seeded, Finish, Over, HangUp, Finalise, Leave, vars, streamVars,
               laneVars, doorVars
<1>2. Stream' = Stream
  BY <1>1 DEF Stream
<1>3. SUFFICES TypeOK' /\ (phase' = "spent" <=> phase = "spent") /\ Written' /\ Doors'
  BY <1>1, <1>2 DEF Opened, Ended, Lanes
<1> USE DEF Written, Doors, TypeOK
<1>4. CASE Pull
  BY <1>1, <1>2, <1>4 DEF Pull, doorVars
<1>5. CASE Seeded
  BY <1>1, <1>2, <1>5 DEF Seeded, Awaiting, doorVars
<1>6. CASE Finish
  BY <1>1, <1>2, <1>6 DEF Finish, Awaiting, doorVars
<1>7. CASE Over
  BY <1>1, <1>2, <1>7 DEF Over, streamVars
<1>8. CASE HangUp
  <2>1. CASE step = "running"
    BY <1>1, <1>2, <1>8, <2>1 DEF HangUp, Unwound, Recorded, Rows
  <2>2. CASE step # "running"
    BY <1>1, <1>2, <1>8, <2>2 DEF HangUp
  <2> QED
    BY <2>1, <2>2
<1>9. CASE Finalise
  BY <1>1, <1>2, <1>9 DEF Finalise, Unwound, Recorded, Rows
<1>10. CASE Leave
  BY <1>1, <1>2, <1>10 DEF Leave, streamVars
<1>11. CASE UNCHANGED vars
  BY <1>1, <1>2, <1>11 DEF vars, streamVars, doorVars
<1> QED
  BY <1>4, <1>5, <1>6, <1>7, <1>8, <1>9, <1>10, <1>11

LEMMA StreamInit == Init => StreamInv
<1> SUFFICES ASSUME Init PROVE StreamInv
  OBVIOUS
<1>1. Stream = <<>> /\ <<>> \in Seq(Frames) /\ DOMAIN <<>> = {}
  BY DEF Init, Stream
<1>2. TypeOK
  <2>1. 0 \in 0 .. MaxChunks
    BY StreamAssumption
  <2> QED
    BY <1>1, <2>1 DEF Init, TypeOK, Rows
<1>3. Opened /\ Ended
  BY <1>1 DEF Init, Opened, StartedFirst, Ended
<1>4. Lanes
  BY <1>1 DEF Init, Lanes, Once, SpawnedFirst
<1>5. Written /\ Doors
  BY DEF Init, Written, Doors
<1> QED
  BY <1>2, <1>3, <1>4, <1>5 DEF StreamInv

LEMMA StreamStep == StreamInv /\ [Next]_vars => StreamInv'
<1> SUFFICES ASSUME StreamInv, [Next]_vars PROVE StreamInv'
  OBVIOUS
<1>1. CASE Chunk
  BY <1>1, ChunkKeepsInv
<1>2. CASE Snapshot
  <2>1. step = "running"
    BY <1>2 DEF Snapshot, Awaiting
  <2>2. PICK e \in {"done", "interrupt"} : Ending(Frame(e, NoLane, TRUE), "run")
    BY <1>2, Zenon DEF Snapshot
  <2>3. e \in Terminal /\ e # "error" /\ TRUE \in BOOLEAN
    BY DEF Terminal
  <2> QED
    BY <2>1, <2>2, <2>3, EndingKeepsInv
<1>3. ASSUME NEW kind \in {"none", "exhausted", "run"}, Raised(kind) PROVE StreamInv'
  <2> DEFINE d == ~opening /\ open = {}
  <2>1. d \in BOOLEAN /\ "error" \in Terminal
    BY DEF Terminal
  <2>2. step = "running" /\ Ending(Frame("error", NoLane, d), kind)
    BY <1>3, Zenon DEF Raised
  <2> HIDE DEF d
  <2> QED
    BY <1>3, <2>1, <2>2, EndingKeepsInv
<1>4. CASE Exhaust \/ Unpublished
  BY <1>3, <1>4 DEF Exhaust, Unpublished
<1>5. CASE Fail
  <2>1. step = "running"
    BY <1>5 DEF Fail, Raised
  <2>2. row = "none"
    BY <2>1 DEF StreamInv, TypeOK, Doors, Written
  <2> QED
    BY <1>3, <1>5, <2>2 DEF Fail
<1>6. CASE Deliver
  BY <1>6, DeliverKeepsInv
<1>7. CASE Pull \/ Seeded \/ Finish \/ Over \/ HangUp \/ Finalise \/ Leave \/ UNCHANGED vars
  BY <1>7, QuietKeepsInv
<1> QED
  BY <1>1, <1>2, <1>4, <1>5, <1>6, <1>7, Zenon DEF Next

\* The generators rely on each other as written, in every reachable state.
THEOREM StreamInvariant == Spec => []StreamInv
<1>1. Init => StreamInv
  BY StreamInit
<1>2. StreamInv /\ [Next]_vars => StreamInv'
  BY StreamStep
<1> QED
  BY <1>1, <1>2, PTL DEF Spec

-----------------------------------------------------------------------------
(***************************************************************************)
(* What a client hears, from what the whole stream is.                     *)
(***************************************************************************)
\* What was sent is the beginning of the stream; an ending that was sent is
\* the end of it.
LEMMA WireIsPrefix ==
  ASSUME TypeOK
  PROVE  /\ Stream \in Seq(Frames) /\ Len(Stream) = Len(wire) + Len(owed)
         /\ DOMAIN Stream = 1 .. Len(Stream) /\ DOMAIN wire = 1 .. Len(wire)
         /\ Len(wire) \in Nat /\ Len(owed) \in Nat
         /\ \A i \in DOMAIN wire : i \in DOMAIN Stream /\ wire[i] = Stream[i]
         /\ owed = <<>> => wire = Stream
<1>1. wire \in Seq(Frames) /\ owed \in Seq(Frames)
  BY DEF TypeOK
<1>2. /\ Len(wire) \in Nat /\ Len(owed) \in Nat /\ DOMAIN wire = 1 .. Len(wire)
      /\ owed = <<>> => wire = Stream
  BY <1>1, ConcatEmptySeq DEF Stream
<1>3. /\ Stream \in Seq(Frames) /\ Len(Stream) = Len(wire) + Len(owed)
      /\ \A i \in 1 .. Len(wire) + Len(owed) :
           Stream[i] = IF i <= Len(wire) THEN wire[i] ELSE owed[i - Len(wire)]
  BY <1>1, ConcatProperties DEF Stream
<1>4. DOMAIN Stream = 1 .. Len(Stream)
  BY <1>3
<1> QED
  BY <1>2, <1>3, <1>4

LEMMA EndingIsLast ==
  ASSUME StreamInv, NEW E, Sent(E), E \subseteq Terminal
  PROVE  /\ phase = "spent" /\ wire = Stream /\ Stream[Len(Stream)].event \in E
<1> USE DEF StreamInv
<1>1. PICK i \in DOMAIN wire : wire[i].event \in E
  BY DEF Sent, At
<1>2. i \in DOMAIN Stream /\ Stream[i].event \in E
  BY <1>1, WireIsPrefix
<1>3. i = Len(Stream) /\ phase = "spent"
  BY <1>2 DEF Ended
<1>4. Len(owed) = 0
  <2>1. i \in 1 .. Len(wire) /\ Len(Stream) = Len(wire) + Len(owed)
        /\ Len(wire) \in Nat /\ Len(owed) \in Nat
    BY <1>1, WireIsPrefix
  <2> QED
    BY <1>3, <2>1
<1>5. owed = <<>>
  BY <1>4, EmptySeq DEF TypeOK
<1> QED
  BY <1>2, <1>3, <1>5, WireIsPrefix
LEMMA InvEndsOnce == StreamInv => EndsOnce
<1> SUFFICES ASSUME StreamInv PROVE EndsOnce
  OBVIOUS
<1> USE DEF StreamInv
<1>1. \A i \in DOMAIN wire : At(i, {"started"}) <=> i = 1
  BY WireIsPrefix DEF Opened, StartedFirst, At
<1>2. ASSUME NEW i \in DOMAIN wire, At(i, Terminal) PROVE i = Len(wire)
  <2>1. wire = Stream
    BY <1>2, EndingIsLast DEF Sent
  <2> QED
    BY <1>2, <2>1 DEF Ended, At
<1>3. ASSUME closed, ~left PROVE Sent(Terminal)
  <2>1. phase = "spent" /\ owed = <<>>
    BY <1>3 DEF Doors
  <2>2. wire = Stream /\ DOMAIN wire = 1 .. Len(wire) /\ Len(wire) \in Nat
    BY <2>1, WireIsPrefix
  <2>3. Len(wire) \in DOMAIN wire /\ wire[Len(wire)].event \in Terminal
    BY <2>1, <2>2 DEF Ended
  <2> QED
    BY <2>3 DEF Sent, At
<1> QED
  BY <1>1, <1>2, <1>3 DEF EndsOnce

LEMMA InvLanesAccounted == StreamInv => LanesAccounted
<1> SUFFICES ASSUME StreamInv, NEW i \in DOMAIN wire
             PROVE  /\ At(i, {"settled"}) =>
                         \E j \in 1..(i - 1) :
                           At(j, {"spawn"}) /\ wire[j].lane = wire[i].lane
                    /\ At(i, {"spawn", "settled"}) =>
                         \A j \in DOMAIN wire :
                           wire[j].event = wire[i].event /\ wire[j].lane = wire[i].lane
                             => j = i
                    /\ At(i, {"spawn"}) /\ Sent(Terminal) =>
                         \E j \in DOMAIN wire :
                           At(j, {"settled"}) /\ wire[j].lane = wire[i].lane
  BY DEF LanesAccounted
<1> USE DEF StreamInv
<1>1. /\ DOMAIN wire = 1 .. Len(wire) /\ Len(wire) \in Nat
      /\ DOMAIN Stream = 1 .. Len(Stream)
      /\ \A k \in DOMAIN wire : k \in DOMAIN Stream /\ wire[k] = Stream[k]
  BY WireIsPrefix
<1>2. ASSUME At(i, {"settled"})
      PROVE  \E j \in 1..(i - 1) : At(j, {"spawn"}) /\ wire[j].lane = wire[i].lane
  <2>1. PICK j \in DOMAIN Stream :
          j < i /\ Stream[j].event = "spawn" /\ Stream[j].lane = Stream[i].lane
    BY <1>1, <1>2 DEF Lanes, SpawnedFirst, At
  <2>2. j \in DOMAIN wire /\ j \in 1..(i - 1)
    BY <1>1, <2>1
  <2> QED
    BY <1>1, <2>1, <2>2 DEF At
<1>3. ASSUME At(i, {"spawn", "settled"}), NEW j \in DOMAIN wire,
             wire[j].event = wire[i].event, wire[j].lane = wire[i].lane
      PROVE  j = i
  BY <1>1, <1>3 DEF Lanes, Once, At
<1>4. ASSUME At(i, {"spawn"}), Sent(Terminal)
      PROVE  \E j \in DOMAIN wire : At(j, {"settled"}) /\ wire[j].lane = wire[i].lane
  <2>1. wire = Stream /\ phase = "spent"
    BY <1>4, EndingIsLast
  <2>2. wire[i].lane \in announced \ open
    BY <1>4, <2>1 DEF Lanes, Once, At
  <2> QED
    BY <2>1, <2>2 DEF Lanes, Once, At
<1> QED
  BY <1>2, <1>3, <1>4

LEMMA InvRowAgrees == StreamInv => RowAgrees
<1> SUFFICES ASSUME StreamInv PROVE RowAgrees
  OBVIOUS
<1>1. ASSUME Sent({"done", "interrupt"}) PROVE row = "run"
  <2>1. phase = "spent" /\ Stream[Len(Stream)].event \in {"done", "interrupt"}
    BY <1>1, EndingIsLast DEF Terminal
  <2> QED
    BY <2>1 DEF StreamInv, Written
<1>2. ASSUME row = "stopped" PROVE left /\ ~Sent(Terminal)
  <2>1. Sent(Terminal) => phase = "spent"
    BY EndingIsLast
  <2> QED
    BY <1>2, <2>1 DEF StreamInv, Written
<1> QED
  BY <1>1, <1>2 DEF StreamInv, Written, RowAgrees

\* Types, and what the three generators rely on of each other
\* (stop_when_client_leaves, _stream_run and _run_frames).
THEOREM StreamTypes == Spec => []TypeOK
<1>1. StreamInv => TypeOK
  BY DEF StreamInv
<1> QED
  BY <1>1, StreamInvariant, PTL

\* A client hears `started` first and once, at most one ending and nothing
\* after it, and an ending if it stays: whatever the graph does and whenever
\* the client leaves.
THEOREM StreamEndsOnce == Spec => []EndsOnce
BY InvEndsOnce, StreamInvariant, PTL

\* A lane is announced once, closed at most once and after it was announced,
\* and none is open once the ending was sent (SpawnWatcher and the sweep of
\* _stream_run), also when ids repeat or the run dies.
THEOREM EveryLaneIsAccounted == Spec => []LanesAccounted
BY InvLanesAccounted, StreamInvariant, PTL

\* The one row of the journal agrees with what the client was sent, and a
\* stream unwound while the graph was driven leaves the row of a stopped run.
THEOREM RowAgreesWithStream == Spec => []RowAgrees
BY InvRowAgrees, StreamInvariant, PTL

=============================================================================
