-------------------------- MODULE Broadcast_proofs --------------------------
(***************************************************************************)
(* Proofs that TypeOK, NoSilentLoss and InOrder hold of Broadcast for      *)
(* every set of connections and of publishing threads, and every limit of  *)
(* the backlog.  FeedInv is the inductive invariant.                       *)
(***************************************************************************)
EXTENDS Broadcast, SequenceTheorems, TLAPS

\* A consumer drains only when it has yielded all it drained before.
BatchIsRead == \A s \in Subs : batch[s] # <<>> => reader[s] \in {"yield", "gone"}

\* Whatever is in a stream or in a publisher's hands was published.
AllWereSent ==
  /\ \A p \in Pubs : publisher[p].event =< sent
  /\ \A s \in Subs : \A i \in DOMAIN Stream(s) : Stream(s)[i] =< sent

PublisherIsAuthor ==
  \A p \in Pubs : publisher[p].event # NoEvent => by[publisher[p].event] = p

\* What a publisher has still to offer to a connection is not in its stream,
\* and nothing that thread published later is.
OffersAreAhead ==
  \A p \in Pubs : \A s \in publisher[p].targets :
    /\ publisher[p].event # NoEvent
    /\ \A i \in DOMAIN Stream(s) :
         /\ Stream(s)[i] # publisher[p].event
         /\ by[Stream(s)[i]] = p => Stream(s)[i] < publisher[p].event

FeedInv ==
  /\ TypeOK
  /\ BatchIsRead
  /\ AllWereSent
  /\ PublisherIsAuthor
  /\ OffersAreAhead
  /\ NoSilentLoss
  /\ InOrder

LEMMA EventFacts == Events \subseteq Nat \ {0} /\ NoEvent = 0 /\ NoEvent \notin Events
BY MaxEventsIsNatural DEF Events, NoEvent

LEMMA InitTypeOK == Init => TypeOK
BY LimitIsPositive, MaxEventsIsNatural, SomePublisher
DEF Init, TypeOK, Silent, Publisher, Events, NoEvent

LEMMA InitFeedInv == Init => FeedInv
<1> SUFFICES ASSUME Init PROVE FeedInv
  OBVIOUS
<1>1. TypeOK
  BY InitTypeOK
<1>2. \A s \in Subs : Stream(s) = <<>>
  BY DEF Init, Stream
<1>3. \A s \in Subs : DOMAIN Stream(s) = {}
  BY <1>2
<1>4. BatchIsRead /\ AllWereSent /\ PublisherIsAuthor /\ OffersAreAhead /\ NoSilentLoss /\ InOrder
  BY <1>3, MaxEventsIsNatural
  DEF Init, BatchIsRead, AllWereSent, PublisherIsAuthor, OffersAreAhead, NoSilentLoss, InOrder,
      Silent, NoEvent
<1> QED
  BY <1>1, <1>4 DEF FeedInv

-----------------------------------------------------------------------------
(***************************************************************************)
(* Types                                                                   *)
(***************************************************************************)
LEMMA PublishTypes ==
  ASSUME TypeOK, NEW p \in Pubs, Publish(p)
  PROVE  TypeOK'
<1>1. sent + 1 \in Events
  BY MaxEventsIsNatural DEF Publish, TypeOK, Events
<1>2. publisher' \in [Pubs -> Publisher]
  BY <1>1 DEF Publish, TypeOK, Publisher, Silent
<1>3. owed' \in [Subs -> SUBSET Events] /\ by' \in [Events -> Pubs]
  BY <1>1 DEF Publish, TypeOK
<1>4. sent' \in 0 .. MaxEvents
  BY MaxEventsIsNatural DEF Publish, TypeOK
<1> QED
  BY <1>2, <1>3, <1>4 DEF Publish, TypeOK, subVars, wakeVars, readerVars

LEMMA OfferTypes ==
  ASSUME TypeOK, NEW p \in Pubs, NEW s \in Subs,
         OfferRefused(p, s) \/ OfferOverflows(p, s) \/ OfferBanked(p, s),
         OfferBanked(p, s) => publisher[p].event \in Events
  PROVE  TypeOK'
<1>1. publisher[p] \in Publisher
  BY DEF TypeOK
<1>2. CASE OfferRefused(p, s)
  BY <1>1, <1>2
  DEF OfferRefused, TypeOK, Publisher, subVars, wakeVars, readerVars, history
<1>3. CASE OfferOverflows(p, s)
  <2>1. /\ publisher' = [publisher EXCEPT ![p].targets = @ \ {s}, ![p].waking = {s},
                                         ![p].dropped = @ \cup {s}]
        /\ closed' = closed \cup {s} /\ overflowed' = overflowed \cup {s}
        /\ UNCHANGED <<registered, pending, wakeVars, readerVars, sent, history>>
    BY <1>3 DEF OfferOverflows, Overflowing
  <2>2. publisher' \in [Pubs -> Publisher]
    <3> DEFINE w == [publisher[p] EXCEPT !.targets = @ \ {s}, !.waking = {s},
                                         !.dropped = @ \cup {s}]
    <3>1. w \in Publisher /\ publisher' = [publisher EXCEPT ![p] = w]
      BY <1>1, <2>1 DEF Publisher
    <3> HIDE DEF w
    <3> QED
      BY <3>1 DEF TypeOK
  <2> QED
    BY <2>1, <2>2 DEF TypeOK, wakeVars, readerVars, history
<1>4. CASE OfferBanked(p, s)
  <2>1. publisher' \in [Pubs -> Publisher]
    BY <1>1, <1>4 DEF OfferBanked, TypeOK, Publisher
  <2>2. pending' \in [Subs -> Seq(Events)] /\ \A x \in Subs : Len(pending'[x]) =< Limit
    <3>1. /\ pending[s] \in Seq(Events) /\ Len(pending[s]) \in Nat /\ Len(pending[s]) < Limit
          /\ pending' = [pending EXCEPT ![s] = Append(pending[s], publisher[p].event)]
      BY <1>4, LenProperties, LimitIsPositive DEF OfferBanked, Full, Banked, TypeOK
    <3>2. /\ Append(pending[s], publisher[p].event) \in Seq(Events)
          /\ Len(Append(pending[s], publisher[p].event)) = Len(pending[s]) + 1
      BY <1>4, <3>1, AppendProperties
    <3> QED
      BY <3>1, <3>2, LimitIsPositive DEF TypeOK
  <2> QED
    BY <1>4, <2>1, <2>2 DEF OfferBanked, TypeOK, wakeVars, readerVars, history
<1> QED
  BY <1>2, <1>3, <1>4

LEMMA WakeTypes ==
  ASSUME TypeOK, NEW p \in Pubs, Wake(p) \/ PublishReturns(p)
  PROVE  TypeOK'
<1>1. publisher[p] \in Publisher
  BY DEF TypeOK
<1>2. CASE Wake(p)
  BY <1>1, <1>2 DEF Wake, TypeOK, Publisher, subVars, readerVars, history
<1>3. CASE PublishReturns(p)
  BY <1>3 DEF PublishReturns, TypeOK, Publisher, Silent, subVars, wakeVars, readerVars, history
<1> QED
  BY <1>2, <1>3

LEMMA LoopTypes ==
  ASSUME TypeOK, NEW s \in Subs,
         Attach(s) \/ SetWakeup(s) \/ ReaderStep(s) \/ Disconnect(s)
  PROVE  TypeOK'
<1> USE DEF TypeOK, Go, subVars, wakeVars, readerVars, history
<1>1. CASE Attach(s) \/ SetWakeup(s)
  BY <1>1 DEF Attach, SetWakeup
<1>2. CASE ClearWakeup(s)
  BY <1>2 DEF ClearWakeup
<1>3. CASE Drain(s)
  BY <1>3, LimitIsPositive, EmptySeq DEF Drain
<1>4. CASE Yield(s)
  <2>1. Head(batch[s]) \in Events /\ Tail(batch[s]) \in Seq(Events)
    BY <1>4, HeadTailProperties DEF Yield
  <2>2. Append(got[s], Head(batch[s])) \in Seq(Events)
    BY <2>1, AppendProperties
  <2> QED
    BY <1>4, <2>1, <2>2 DEF Yield
<1>5. CASE Pause(s)
  BY <1>5 DEF Pause, AtWait
<1>6. CASE Resume(s)
  BY <1>6 DEF Resume
<1>7. CASE StreamEnds(s) \/ Disconnect(s)
  BY <1>7 DEF StreamEnds, Disconnect, Detached
<1> QED
  BY <1>1, <1>2, <1>3, <1>4, <1>5, <1>6, <1>7 DEF ReaderStep

-----------------------------------------------------------------------------
(***************************************************************************)
(* The stream of a connection                                              *)
(***************************************************************************)
LEMMA StreamType ==
  ASSUME TypeOK, NEW s \in Subs
  PROVE  /\ Stream(s) \in Seq(Events) /\ Len(Stream(s)) \in Nat
         /\ DOMAIN Stream(s) = 1 .. Len(Stream(s))
         /\ \A i \in DOMAIN Stream(s) : Stream(s)[i] \in Events
<1>1. got[s] \in Seq(Events) /\ batch[s] \in Seq(Events) /\ pending[s] \in Seq(Events)
  BY DEF TypeOK
<1>2. Stream(s) \in Seq(Events)
  BY <1>1, ConcatProperties DEF Stream
<1> QED
  BY <1>2, LenProperties, ElementOfSeq

\* To yield an event moves it within the stream.
LEMMA YieldMoves ==
  ASSUME NEW S, NEW a \in Seq(S), NEW b \in Seq(S), NEW c \in Seq(S), b # <<>>
  PROVE  (Append(a, Head(b)) \o Tail(b)) \o c = (a \o b) \o c
<1>1. PICK h, r : h = Head(b) /\ r = Tail(b)
  OBVIOUS
<1>2. h \in S /\ r \in Seq(S) /\ b = <<h>> \o r
  BY <1>1, HeadTailProperties
<1>3. <<h>> \in Seq(S) /\ Append(a, h) = a \o <<h>>
  BY <1>2, AppendIsConcat
<1>4. (a \o <<h>>) \o r = a \o (<<h>> \o r)
  BY <1>2, <1>3, ConcatAssociative
<1> QED
  BY <1>1, <1>2, <1>3, <1>4

\* To bank an event puts it at the end of the stream.
LEMMA BankAppends ==
  ASSUME NEW S, NEW a \in Seq(S), NEW b \in Seq(S), NEW c \in Seq(S), NEW e \in S
  PROVE  (a \o b) \o Append(c, e) = Append((a \o b) \o c, e)
<1>1. PICK d : d = a \o b
  OBVIOUS
<1>2. d \in Seq(S) /\ <<e>> \in Seq(S) /\ d \o c \in Seq(S)
  BY <1>1, ConcatProperties
<1>3. Append(c, e) = c \o <<e>> /\ Append(d \o c, e) = (d \o c) \o <<e>>
  BY <1>2, AppendIsConcat
<1>4. (d \o c) \o <<e>> = d \o (c \o <<e>>)
  BY <1>2, ConcatAssociative, SMTT(20)
<1> QED
  BY <1>1, <1>3, <1>4

\* Only a banked event changes a stream; the loop moves events within it.
LEMMA LoopKeepsStreams ==
  ASSUME TypeOK, BatchIsRead, NEW t \in Subs,
         Attach(t) \/ SetWakeup(t) \/ ReaderStep(t) \/ Disconnect(t)
  PROVE  BatchIsRead' /\ \A s \in Subs : Stream(s)' = Stream(s)
<1> USE DEF Stream, BatchIsRead, TypeOK, Go, subVars, wakeVars, readerVars
<1>1. CASE Attach(t) \/ SetWakeup(t)
  BY <1>1 DEF Attach, SetWakeup
<1>2. CASE ClearWakeup(t) \/ Pause(t) \/ Resume(t)
  BY <1>2 DEF ClearWakeup, Pause, Resume
<1>3. CASE Drain(t)
  <2>1. batch[t] = <<>> /\ got[t] \in Seq(Events) /\ pending[t] \in Seq(Events)
    BY <1>3 DEF Drain
  <2>2. /\ batch'[t] = pending[t] /\ pending'[t] = <<>> /\ got' = got /\ reader'[t] = "yield"
        /\ \A s \in Subs \ {t} :
             batch'[s] = batch[s] /\ pending'[s] = pending[s] /\ reader'[s] = reader[s]
    BY <1>3 DEF Drain
  <2>3. (got[t] \o pending[t]) \o <<>> = (got[t] \o <<>>) \o pending[t]
    BY <2>1, ConcatProperties, ConcatEmptySeq
  <2> QED
    BY <2>1, <2>2, <2>3
<1>4. CASE Yield(t)
  <2>1. /\ batch[t] # <<>> /\ batch[t] \in Seq(Events)
        /\ got[t] \in Seq(Events) /\ pending[t] \in Seq(Events)
    BY <1>4 DEF Yield
  <2>2. /\ batch'[t] = Tail(batch[t]) /\ got'[t] = Append(got[t], Head(batch[t]))
        /\ pending' = pending /\ reader' = reader /\ reader[t] = "yield"
        /\ \A s \in Subs \ {t} : batch'[s] = batch[s] /\ got'[s] = got[s]
    BY <1>4 DEF Yield
  <2>3. (Append(got[t], Head(batch[t])) \o Tail(batch[t])) \o pending[t]
          = (got[t] \o batch[t]) \o pending[t]
    BY <2>1, YieldMoves
  <2>4. Stream(t)' = Stream(t)
    BY <2>2, <2>3
  <2> QED
    BY <2>2, <2>4
<1>5. CASE StreamEnds(t) \/ Disconnect(t)
  BY <1>5 DEF StreamEnds, Disconnect, Detached
<1> QED
  BY <1>1, <1>2, <1>3, <1>4, <1>5 DEF ReaderStep

-----------------------------------------------------------------------------
(***************************************************************************)
(* The steps                                                               *)
(***************************************************************************)

\* A step that changes no stream: what a publisher no longer has to offer
\* was refused by a closed connection.
LEMMA QuietKeepsFeedInv ==
  ASSUME FeedInv, TypeOK', BatchIsRead', \A s \in Subs : Stream(s)' = Stream(s),
         UNCHANGED <<sent, owed, by>>, closed \subseteq closed',
         \A p \in Pubs :
           \/ /\ publisher'[p].event = publisher[p].event
              /\ publisher'[p].targets \subseteq publisher[p].targets
              /\ publisher[p].targets \ publisher'[p].targets \subseteq closed'
           \/ publisher[p].targets = {} /\ publisher'[p] = Silent
  PROVE  FeedInv'
<1> USE DEF FeedInv, Silent
<1>1. AllWereSent' /\ PublisherIsAuthor' /\ OffersAreAhead' /\ InOrder'
  <2>1. AllWereSent'
    <3>1. sent \in Nat
      BY MaxEventsIsNatural DEF TypeOK
    <3>2. \A p \in Pubs : publisher'[p].event = publisher[p].event \/ publisher'[p].event = 0
      BY DEF NoEvent
    <3>3. \A p \in Pubs : publisher'[p].event =< sent
      BY <3>1, <3>2 DEF AllWereSent
    <3> QED
      BY <3>3 DEF AllWereSent
  <2>2. PublisherIsAuthor'
    BY DEF PublisherIsAuthor
  <2>3. OffersAreAhead'
    <3> SUFFICES ASSUME NEW p \in Pubs, NEW s \in publisher'[p].targets
                 PROVE  /\ publisher'[p].event # NoEvent
                        /\ \A i \in DOMAIN Stream(s)' :
                             /\ Stream(s)'[i] # publisher'[p].event
                             /\ by'[Stream(s)'[i]] = p => Stream(s)'[i] < publisher'[p].event
      BY DEF OffersAreAhead
    <3>1. publisher'[p].event = publisher[p].event /\ s \in publisher[p].targets
      OBVIOUS
    <3>2. s \in Subs
      BY <3>1 DEF TypeOK, Publisher
    <3> QED
      BY <3>1, <3>2 DEF OffersAreAhead
  <2>4. InOrder'
    BY DEF InOrder
  <2> QED
    BY <2>1, <2>2, <2>3, <2>4
<1>2. NoSilentLoss'
  <2> SUFFICES ASSUME NEW s \in Subs \ closed', NEW e \in owed[s], e \notin ToSet(Stream(s)')
               PROVE  e \in OnTheWay(s)'
    BY DEF NoSilentLoss
  <2>1. e \in OnTheWay(s)
    BY DEF NoSilentLoss
  <2>2. PICK p \in Pubs : s \in publisher[p].targets /\ e = publisher[p].event
    BY <2>1 DEF OnTheWay
  <2>3. s \in publisher'[p].targets /\ e = publisher'[p].event
    BY <2>2
  <2> QED
    BY <2>3 DEF OnTheWay
<1> QED
  BY <1>1, <1>2

\* An event enters: it is the latest, and it is offered to all it is owed to.
LEMMA PublishKeepsFeedInv ==
  ASSUME FeedInv, NEW p \in Pubs, Publish(p)
  PROVE  FeedInv'
<1> USE DEF FeedInv
<1>1. PICK n : n = sent + 1
  OBVIOUS
<1>2. /\ sent \in Nat /\ n \in Events /\ n \in Nat /\ n > sent /\ sent' = n /\ n # NoEvent
      /\ publisher[p].event = NoEvent
      /\ publisher' = [publisher EXCEPT ![p] = [Silent EXCEPT !.event = n, !.targets = registered]]
      /\ by' = [by EXCEPT ![n] = p]
      /\ owed' = [s \in Subs |-> IF s \in registered THEN owed[s] \cup {n} ELSE owed[s]]
  BY <1>1, MaxEventsIsNatural DEF Publish, TypeOK, Events, NoEvent
<1>3. UNCHANGED <<registered, pending, closed, batch, got, reader>>
  BY DEF Publish, subVars, readerVars
<1>4. \A s \in Subs : Stream(s)' = Stream(s)
  BY <1>3 DEF Stream
<1>5. TypeOK' /\ BatchIsRead'
  BY <1>3, PublishTypes DEF BatchIsRead
<1>6. /\ publisher'[p].event = n /\ publisher'[p].targets = registered
      /\ \A q \in Pubs \ {p} : publisher'[q] = publisher[q]
      /\ by'[n] = p /\ \A e \in Events \ {n} : by'[e] = by[e]
  BY <1>2 DEF TypeOK, Silent
<1>7. \A s \in Subs : \A i \in DOMAIN Stream(s) :
        Stream(s)[i] \in Events /\ Stream(s)[i] \in Nat /\ Stream(s)[i] < n
  BY <1>2, StreamType, EventFacts DEF AllWereSent
<1>8. \A q \in Pubs : publisher[q].event \in Nat /\ publisher[q].event < n
                      /\ publisher[q].event \in Events \cup {NoEvent}
  BY <1>2, EventFacts DEF AllWereSent, TypeOK, Publisher
<1>9. AllWereSent'
  BY <1>2, <1>4, <1>6, <1>7, <1>8 DEF AllWereSent
<1>10. PublisherIsAuthor'
  BY <1>6, <1>8 DEF PublisherIsAuthor
<1>11. OffersAreAhead'
  <2> SUFFICES ASSUME NEW q \in Pubs, NEW s \in publisher'[q].targets
               PROVE  /\ publisher'[q].event # NoEvent
                      /\ \A i \in DOMAIN Stream(s)' :
                           /\ Stream(s)'[i] # publisher'[q].event
                           /\ by'[Stream(s)'[i]] = q => Stream(s)'[i] < publisher'[q].event
    BY DEF OffersAreAhead
  <2>1. s \in Subs
    BY <1>5 DEF TypeOK, Publisher
  <2>2. CASE q = p
    BY <1>2, <1>4, <1>6, <1>7, <2>1, <2>2
  <2>3. CASE q # p
    <3>1. \A i \in DOMAIN Stream(s) : by'[Stream(s)[i]] = by[Stream(s)[i]]
      BY <1>6, <1>7, <2>1
    <3> QED
      BY <1>4, <1>6, <2>1, <2>3, <3>1 DEF OffersAreAhead
  <2> QED
    BY <2>2, <2>3
<1>12. NoSilentLoss'
  <2> SUFFICES ASSUME NEW s \in Subs \ closed', NEW e \in owed'[s], e \notin ToSet(Stream(s)')
               PROVE  e \in OnTheWay(s)'
    BY DEF NoSilentLoss
  <2>1. CASE e = n /\ s \in registered
    BY <1>6, <2>1 DEF OnTheWay
  <2>2. CASE e \in owed[s]
    <3>1. e \in OnTheWay(s) /\ e \in Events
      BY <1>3, <1>4, <2>2 DEF NoSilentLoss, TypeOK
    <3>2. PICK q \in Pubs : s \in publisher[q].targets /\ e = publisher[q].event
      BY <3>1 DEF OnTheWay
    <3>3. q # p
      BY <1>2, <3>1, <3>2, EventFacts
    <3> QED
      BY <1>6, <3>2, <3>3 DEF OnTheWay
  <2> QED
    BY <1>2, <2>1, <2>2
<1>13. InOrder'
  <2>1. \A s \in Subs : \A i \in DOMAIN Stream(s) : by'[Stream(s)[i]] = by[Stream(s)[i]]
    BY <1>6, <1>7
  <2> QED
    BY <1>4, <2>1 DEF InOrder
<1> QED
  BY <1>5, <1>9, <1>10, <1>11, <1>12, <1>13

\* An event is banked: it comes last in the stream of its connection.
LEMMA BankKeepsFeedInv ==
  ASSUME FeedInv, NEW p \in Pubs, NEW t \in Subs, OfferBanked(p, t)
  PROVE  FeedInv'
<1> USE DEF FeedInv
<1>1. PICK e : e = publisher[p].event
  OBVIOUS
<1>2. PICK n : n = Len(Stream(t)) + 1
  OBVIOUS
<1>3. /\ t \in publisher[p].targets /\ e \in Events /\ by[e] = p
      /\ \A i \in DOMAIN Stream(t) :
           Stream(t)[i] # e /\ (by[Stream(t)[i]] = p => Stream(t)[i] < e)
  BY <1>1 DEF OfferBanked, Offering, OffersAreAhead, PublisherIsAuthor, TypeOK, Publisher
<1>4. TypeOK'
  BY <1>1, <1>3, OfferTypes
<1>5. UNCHANGED <<registered, closed, batch, got, reader, sent, owed, by>>
  BY DEF OfferBanked, readerVars, history
<1>6. pending' = [pending EXCEPT ![t] = Append(pending[t], e)]
  BY <1>1 DEF OfferBanked, Banked
<1>7. /\ Stream(t)' = Append(Stream(t), e)
      /\ \A s \in Subs \ {t} : Stream(s)' = Stream(s)
  <2>1. /\ got[t] \in Seq(Events) /\ batch[t] \in Seq(Events) /\ pending[t] \in Seq(Events)
        /\ pending'[t] = Append(pending[t], e)
    BY <1>6 DEF TypeOK
  <2>2. PICK a, b, c : a = got[t] /\ b = batch[t] /\ c = pending[t]
    OBVIOUS
  <2>3. (a \o b) \o Append(c, e) = Append((a \o b) \o c, e)
    <3>1. a \in Seq(Events) /\ b \in Seq(Events) /\ c \in Seq(Events) /\ e \in Events
      BY <1>3, <2>1, <2>2
    <3> HIDE DEF FeedInv
    <3> QED
      BY <3>1, BankAppends
  <2>4. Stream(t)' = (a \o b) \o Append(c, e) /\ Stream(t) = (a \o b) \o c
    BY <1>5, <2>1, <2>2 DEF Stream
  <2>5. \A s \in Subs \ {t} : pending'[s] = pending[s]
    BY <1>6 DEF TypeOK
  <2>6. \A s \in Subs \ {t} : Stream(s)' = Stream(s)
    BY <1>5, <2>5 DEF Stream
  <2> QED
    BY <2>3, <2>4, <2>6
<1>8. /\ DOMAIN Stream(t) = 1 .. (n - 1) /\ n \in Nat \ {0}
      /\ DOMAIN Stream(t)' = 1 .. n /\ Stream(t)'[n] = e
      /\ \A i \in 1 .. (n - 1) : Stream(t)'[i] = Stream(t)[i]
  BY <1>2, <1>3, <1>7, StreamType, AppendProperties, LenProperties
<1>9. /\ publisher'[p].event = e /\ publisher'[p].targets = publisher[p].targets \ {t}
      /\ \A q \in Pubs \ {p} : publisher'[q] = publisher[q]
  <2>1. publisher[p] \in Publisher
    BY DEF TypeOK
  <2> QED
    BY <1>1, <2>1 DEF OfferBanked, TypeOK, Publisher
<1>10. BatchIsRead'
  BY <1>5 DEF BatchIsRead
<1>11. AllWereSent'
  <2>1. \A q \in Pubs : publisher'[q].event = publisher[q].event
    BY <1>1, <1>9
  <2>2. e =< sent
    BY <1>1 DEF AllWereSent
  <2>3. \A i \in 1 .. n : i = n \/ i \in 1 .. (n - 1)
    BY <1>8
  <2>4. \A i \in DOMAIN Stream(t)' : Stream(t)'[i] =< sent
    BY <1>8, <2>2, <2>3 DEF AllWereSent
  <2> QED
    BY <1>5, <1>7, <2>1, <2>4 DEF AllWereSent
<1>12. PublisherIsAuthor'
  BY <1>1, <1>5, <1>9 DEF PublisherIsAuthor
<1>13. OffersAreAhead'
  <2> SUFFICES ASSUME NEW q \in Pubs, NEW s \in publisher'[q].targets
               PROVE  /\ publisher'[q].event # NoEvent
                      /\ \A i \in DOMAIN Stream(s)' :
                           /\ Stream(s)'[i] # publisher'[q].event
                           /\ by'[Stream(s)'[i]] = q => Stream(s)'[i] < publisher'[q].event
    BY DEF OffersAreAhead
  <2>1. s \in Subs /\ s \in publisher[q].targets /\ publisher'[q].event = publisher[q].event
    BY <1>1, <1>4, <1>9 DEF TypeOK, Publisher
  <2>2. CASE s # t
    BY <1>5, <1>7, <2>1, <2>2 DEF OffersAreAhead
  <2>3. CASE s = t
    <3>1. q # p
      BY <1>9, <2>3
    <3>2. publisher[q].event # NoEvent /\ by[publisher[q].event] = q /\ publisher[q].event # e
      BY <1>3, <2>1, <3>1 DEF OffersAreAhead, PublisherIsAuthor
    <3>3. \A i \in 1 .. n : i = n \/ i \in 1 .. (n - 1)
      BY <1>8
    <3> QED
      BY <1>3, <1>5, <1>8, <2>1, <2>3, <3>1, <3>2, <3>3 DEF OffersAreAhead
  <2> QED
    BY <2>2, <2>3
<1>14. NoSilentLoss'
  <2> SUFFICES ASSUME NEW s \in Subs \ closed', NEW d \in owed[s], d \notin ToSet(Stream(s)')
               PROVE  d \in OnTheWay(s)'
    BY <1>5 DEF NoSilentLoss
  <2>1. d \notin ToSet(Stream(s))
    <3>1. CASE s = t
      <4>1. \A i \in DOMAIN Stream(t) : i \in DOMAIN Stream(t)' /\ Stream(t)'[i] = Stream(t)[i]
        BY <1>8
      <4> QED
        BY <3>1, <4>1 DEF ToSet
    <3>2. CASE s # t
      BY <1>7, <3>2
    <3> QED
      BY <3>1, <3>2
  <2>2. d \in OnTheWay(s)
    BY <1>5, <2>1 DEF NoSilentLoss
  <2>3. PICK q \in Pubs : s \in publisher[q].targets /\ d = publisher[q].event
    BY <2>2 DEF OnTheWay
  <2>4. ~(q = p /\ s = t)
    <3>1. e \in ToSet(Stream(t)')
      BY <1>8 DEF ToSet
    <3> QED
      BY <1>1, <2>3, <3>1
  <2>5. s \in publisher'[q].targets /\ d = publisher'[q].event
    BY <1>1, <1>9, <2>3, <2>4
  <2> QED
    BY <2>5 DEF OnTheWay
<1>15. InOrder'
  <2> SUFFICES ASSUME NEW s \in Subs, NEW i \in DOMAIN Stream(s)', NEW j \in DOMAIN Stream(s)',
                      i < j
               PROVE  /\ Stream(s)'[i] # Stream(s)'[j]
                      /\ by[Stream(s)'[i]] = by[Stream(s)'[j]] =>
                           Stream(s)'[i] < Stream(s)'[j]
    BY <1>5 DEF InOrder
  <2>1. CASE s # t
    BY <1>7, <2>1 DEF InOrder
  <2>2. CASE s = t /\ j = n
    <3>1. i \in DOMAIN Stream(t) /\ Stream(t)'[i] = Stream(t)[i] /\ Stream(t)'[j] = e
      BY <1>8, <2>2
    <3> QED
      BY <1>3, <2>2, <3>1
  <2>3. CASE s = t /\ j # n
    <3>1. i \in 1 .. (n - 1) /\ j \in 1 .. (n - 1)
      BY <1>8, <2>3
    <3>2. i \in DOMAIN Stream(t) /\ j \in DOMAIN Stream(t)
      BY <1>8, <3>1
    <3>3. Stream(t)'[i] = Stream(t)[i] /\ Stream(t)'[j] = Stream(t)[j]
      BY <1>8, <3>1
    <3> QED
      BY <2>3, <3>2, <3>3 DEF InOrder
  <2> QED
    BY <2>1, <2>2, <2>3
<1> QED
  BY <1>4, <1>10, <1>11, <1>12, <1>13, <1>14, <1>15

LEMMA FeedStep ==
  ASSUME FeedInv, [Next]_vars
  PROVE  FeedInv'
<1> USE DEF FeedInv
<1>1. ASSUME NEW p \in Pubs, Publish(p)
      PROVE  FeedInv'
  BY <1>1, PublishKeepsFeedInv
<1>2. ASSUME NEW p \in Pubs, NEW s \in Subs, OfferRefused(p, s) \/ OfferOverflows(p, s)
      PROVE  FeedInv'
  <2>1. publisher[p] \in Publisher
    BY DEF TypeOK
  <2>2. TypeOK'
    BY <1>2, OfferTypes DEF OfferRefused, OfferOverflows, OfferBanked
  <2>3. /\ UNCHANGED <<pending, batch, got, reader, sent, owed, by>>
        /\ closed \subseteq closed' /\ s \in closed'
    BY <1>2 DEF OfferRefused, OfferOverflows, Overflowing, subVars, readerVars, history
  <2>4. /\ publisher'[p].event = publisher[p].event
        /\ publisher'[p].targets = publisher[p].targets \ {s}
        /\ \A q \in Pubs \ {p} : publisher'[q] = publisher[q]
    BY <1>2, <2>1 DEF OfferRefused, OfferOverflows, TypeOK, Publisher
  <2>5. BatchIsRead' /\ \A x \in Subs : Stream(x)' = Stream(x)
    BY <2>3 DEF BatchIsRead, Stream
  <2> QED
    BY <2>2, <2>3, <2>4, <2>5, QuietKeepsFeedInv
<1>3. ASSUME NEW p \in Pubs, NEW s \in Subs, OfferBanked(p, s)
      PROVE  FeedInv'
  BY <1>3, BankKeepsFeedInv
<1>4. ASSUME NEW p \in Pubs, Wake(p) \/ PublishReturns(p)
      PROVE  FeedInv'
  <2>1. publisher[p] \in Publisher
    BY DEF TypeOK
  <2>2. TypeOK'
    BY <1>4, WakeTypes
  <2>3. UNCHANGED <<pending, closed, batch, got, reader, sent, owed, by>>
    BY <1>4 DEF Wake, PublishReturns, subVars, readerVars, history
  <2>4. /\ \/ /\ publisher'[p].event = publisher[p].event
              /\ publisher'[p].targets = publisher[p].targets
           \/ publisher[p].targets = {} /\ publisher'[p] = Silent
        /\ \A q \in Pubs \ {p} : publisher'[q] = publisher[q]
    BY <1>4, <2>1 DEF Wake, PublishReturns, TypeOK, Publisher
  <2>5. BatchIsRead' /\ \A x \in Subs : Stream(x)' = Stream(x)
    BY <2>3 DEF BatchIsRead, Stream
  <2> QED
    BY <2>2, <2>3, <2>4, <2>5, QuietKeepsFeedInv
<1>5. ASSUME NEW s \in Subs, Attach(s) \/ SetWakeup(s) \/ ReaderStep(s) \/ Disconnect(s)
      PROVE  FeedInv'
  <2>1. TypeOK' /\ BatchIsRead' /\ \A x \in Subs : Stream(x)' = Stream(x)
    BY <1>5, LoopTypes, LoopKeepsStreams
  <2>2. UNCHANGED <<publisher, sent, owed, by>> /\ closed \subseteq closed'
    BY <1>5 DEF Attach, SetWakeup, ReaderStep, ClearWakeup, Drain, Yield, Pause, Resume,
                StreamEnds, Disconnect, Detached, subVars, history
  <2> QED
    BY <2>1, <2>2, QuietKeepsFeedInv
<1>6. CASE UNCHANGED vars
  <2>1. TypeOK'
    BY <1>6 DEF vars, TypeOK, subVars, wakeVars, readerVars, history
  <2>2. BatchIsRead' /\ \A x \in Subs : Stream(x)' = Stream(x)
    BY <1>6 DEF vars, subVars, readerVars, BatchIsRead, Stream
  <2>3. UNCHANGED <<publisher, sent, owed, by, closed>>
    BY <1>6 DEF vars, subVars, history
  <2> QED
    BY <2>1, <2>2, <2>3, QuietKeepsFeedInv
<1> QED
  BY <1>1, <1>2, <1>3, <1>4, <1>5, <1>6 DEF Next, PublishStep

-----------------------------------------------------------------------------
\* The inductive invariant holds of every behaviour.
THEOREM FeedInvariant == Spec => []FeedInv
<1>1. Init => FeedInv
  BY InitFeedInv
<1>2. FeedInv /\ [Next]_vars => FeedInv'
  BY FeedStep
<1> QED
  BY <1>1, <1>2, PTL DEF Spec

\* Every variable keeps its type; no backlog grows past DEFAULT_BACKLOG_LIMIT.
THEOREM FeedTypes == Spec => []TypeOK
<1>1. FeedInv => TypeOK
  BY DEF FeedInv
<1> QED
  BY <1>1, FeedInvariant, PTL

\* broadcast.py:51: whatever was published while a connection was registered
\* reaches its stream, or the connection is closed and its client refetches.
THEOREM NothingIsLostSilently == Spec => []NoSilentLoss
<1>1. FeedInv => NoSilentLoss
  BY DEF FeedInv
<1> QED
  BY <1>1, FeedInvariant, PTL

\* A connection reads no event twice, and what one thread published (publish(),
\* Subscriber.events) in the order it was published, however many threads
\* publish at once and however a drain falls between them.
THEOREM StreamsAreInOrder == Spec => []InOrder
<1>1. FeedInv => InOrder
  BY DEF FeedInv
<1> QED
  BY <1>1, FeedInvariant, PTL
=============================================================================
