----------------------------- MODULE Broadcast ------------------------------
(***************************************************************************)
(* backend/openstategraph/api/broadcast.py: Broadcaster and Subscriber.    *)
(*                                                                         *)
(* Threads of the pool publish; one event loop runs every connection's     *)
(* consumer, Subscriber.events().  Each `with self._lock` block is one     *)
(* action; only the wakeup crosses to the loop, where it is set later.     *)
(* A subscriber is one connection: a client that comes back is another.    *)
(***************************************************************************)
EXTENDS Naturals, Sequences, SequencesExt

CONSTANTS
  Subs,      \* subscribers
  Pubs,      \* publishing threads
  Limit,     \* DEFAULT_BACKLOG_LIMIT
  MaxEvents  \* bound: calls of publish()

ASSUME LimitIsPositive == Limit \in Nat \ {0}
ASSUME MaxEventsIsNatural == MaxEvents \in Nat
ASSUME SomePublisher == Pubs # {}

Events  == 1 .. MaxEvents
NoEvent == 0

VARIABLES
  registered,  \* Broadcaster._subscribers
  pending,     \* Subscriber._pending
  closed,      \* the subscribers with `closed` set
  overflowed,  \* the subscribers with `overflowed` set
  wakeup,      \* the subscribers whose asyncio.Event is set
  posted,      \* those with a `_wakeup.set` waiting on the loop
  reader,      \* reader[s]: where the consumer of s is in events()
  batch,       \* batch[s]: drained and not yet yielded
  last,        \* last[s]: `closed` as the consumer read it when it drained
  got,         \* got[s]: the events yielded to the connection of s
  publisher,   \* publisher[p]: where p is in publish()
  sent,        \* events published so far; they are numbered in that order
  owed,        \* history: owed[s]: events whose snapshot held s
  by           \* history: by[e]: the thread that published e

subVars    == <<pending, closed, overflowed>>
wakeVars   == <<wakeup, posted>>
readerVars == <<reader, batch, last, got>>
history    == <<owed, by>>
vars == <<registered, subVars, wakeVars, readerVars, publisher, sent, history>>

\* The locals of publish(): its event, the targets it has still to offer it
\* to, the one it is about to wake, and those that refused.
Publisher == [event : Events \cup {NoEvent}, targets : SUBSET Subs,
              waking : SUBSET Subs, dropped : SUBSET Subs]
Silent == [event |-> NoEvent, targets |-> {}, waking |-> {}, dropped |-> {}]

-----------------------------------------------------------------------------
(***************************************************************************)
(* publish(): a snapshot of the subscribers, an offer to each, and those   *)
(* that refused leave the set.                                             *)
(***************************************************************************)
Publish(p) ==
  /\ publisher[p].event = NoEvent
  /\ sent < MaxEvents
  /\ sent' = sent + 1
  /\ publisher' = [publisher EXCEPT ![p] =
                     [Silent EXCEPT !.event = sent + 1, !.targets = registered]]
  /\ owed' = [s \in Subs |-> IF s \in registered THEN owed[s] \cup {sent + 1} ELSE owed[s]]
  /\ by' = [by EXCEPT ![sent + 1] = p]
  /\ UNCHANGED <<registered, subVars, wakeVars, readerVars>>

Offering(p, s) ==
  /\ publisher[p].waking = {}
  /\ s \in publisher[p].targets

\* Mutants: the newest event goes first; the backlog takes one too many; a
\* full backlog loses the event and keeps the subscriber.
BankedFirst(s, e) == <<e>> \o pending[s]
FullLate(s) == Len(pending[s]) > Limit
Kept(s) == {}

Banked(s, e) == Append(pending[s], e)
Full(s) == Len(pending[s]) >= Limit
Overflowing(s) == {s}

OfferRefused(p, s) ==
  /\ Offering(p, s)
  /\ s \in closed
  /\ publisher' = [publisher EXCEPT ![p].targets = @ \ {s}, ![p].dropped = @ \cup {s}]
  /\ UNCHANGED <<registered, subVars, wakeVars, readerVars, sent, history>>

OfferOverflows(p, s) ==
  /\ Offering(p, s)
  /\ s \notin closed
  /\ Full(s)
  /\ closed' = closed \cup Overflowing(s)
  /\ overflowed' = overflowed \cup Overflowing(s)
  /\ publisher' = [publisher EXCEPT ![p].targets = @ \ {s}, ![p].waking = {s},
                                    ![p].dropped = @ \cup Overflowing(s)]
  /\ UNCHANGED <<registered, pending, wakeVars, readerVars, sent, history>>

OfferBanked(p, s) ==
  /\ Offering(p, s)
  /\ s \notin closed
  /\ ~Full(s)
  /\ pending' = [pending EXCEPT ![s] = Banked(s, publisher[p].event)]
  /\ publisher' = [publisher EXCEPT ![p].targets = @ \ {s}, ![p].waking = {s}]
  /\ UNCHANGED <<registered, closed, overflowed, wakeVars, readerVars, sent, history>>

\* `call_soon_threadsafe(self._wakeup.set)`, after the lock.
Wake(p) ==
  /\ publisher[p].waking # {}
  /\ posted' = posted \cup publisher[p].waking
  /\ publisher' = [publisher EXCEPT ![p].waking = {}]
  /\ UNCHANGED <<registered, subVars, wakeup, readerVars, sent, history>>

PublishReturns(p) ==
  /\ publisher[p].event # NoEvent
  /\ publisher[p].targets = {}
  /\ publisher[p].waking = {}
  /\ registered' = registered \ publisher[p].dropped
  /\ publisher' = [publisher EXCEPT ![p] = Silent]
  /\ UNCHANGED <<subVars, wakeVars, readerVars, sent, history>>

-----------------------------------------------------------------------------
(***************************************************************************)
(* The loop: attach(), events() and the end of a connection.               *)
(***************************************************************************)
Go(s, from, to) == reader[s] = from /\ reader' = [reader EXCEPT ![s] = to]

Attach(s) ==
  /\ Go(s, "away", "top")
  /\ registered' = registered \cup {s}
  /\ UNCHANGED <<subVars, wakeVars, batch, last, got, publisher, sent, history>>

SetWakeup(s) ==
  /\ s \in posted
  /\ posted' = posted \ {s}
  /\ wakeup' = wakeup \cup {s}
  /\ UNCHANGED <<registered, subVars, readerVars, publisher, sent, history>>

ClearWakeup(s) ==
  /\ Go(s, "top", "drain")
  /\ wakeup' = wakeup \ {s}
  /\ UNCHANGED <<registered, subVars, posted, batch, last, got, publisher, sent, history>>

Drain(s) ==
  /\ Go(s, "drain", "yield")
  /\ batch' = [batch EXCEPT ![s] = pending[s]]
  /\ pending' = [pending EXCEPT ![s] = <<>>]
  /\ last' = [last EXCEPT ![s] = s \in closed]
  /\ UNCHANGED <<registered, closed, overflowed, wakeVars, got, publisher, sent, history>>

Yield(s) ==
  /\ reader[s] = "yield"
  /\ batch[s] # <<>>
  /\ got' = [got EXCEPT ![s] = Append(@, Head(batch[s]))]
  /\ batch' = [batch EXCEPT ![s] = Tail(@)]
  /\ UNCHANGED <<registered, subVars, wakeVars, reader, last, publisher, sent, history>>

\* Mutants: the stream goes on whatever was drained with; the wakeup is
\* cleared when the consumer goes to wait.
NeverLast(s) == FALSE
ClearedAgain(s) == wakeup \ {s}

IsLast(s) == last[s]
AtWait(s) == wakeup

Pause(s) ==
  /\ batch[s] = <<>>
  /\ ~IsLast(s)
  /\ Go(s, "yield", "wait")
  /\ wakeup' = AtWait(s)
  /\ UNCHANGED <<registered, subVars, posted, batch, last, got, publisher, sent, history>>

\* `await self._wakeup.wait()`.  The keepalive timeout also goes to the top;
\* it is left out, so that nothing here rests on it.
Resume(s) ==
  /\ s \in wakeup
  /\ Go(s, "wait", "top")
  /\ UNCHANGED <<registered, subVars, wakeVars, batch, last, got, publisher, sent, history>>

\* The stream ends; the connection's exit stack detaches and closes.
Detached(s) ==
  /\ reader' = [reader EXCEPT ![s] = "gone"]
  /\ registered' = registered \ {s}
  /\ closed' = closed \cup {s}
  /\ UNCHANGED <<pending, overflowed, wakeVars, batch, last, got, publisher, sent, history>>

StreamEnds(s) ==
  /\ reader[s] = "yield"
  /\ batch[s] = <<>>
  /\ IsLast(s)
  /\ Detached(s)

\* The client leaves, whatever its consumer was waiting for.
Disconnect(s) ==
  /\ reader[s] \in {"top", "yield", "wait"}
  /\ Detached(s)

-----------------------------------------------------------------------------
Init ==
  /\ registered = {}
  /\ pending = [s \in Subs |-> <<>>]
  /\ closed = {} /\ overflowed = {}
  /\ wakeup = {} /\ posted = {}
  /\ reader = [s \in Subs |-> "away"]
  /\ batch = [s \in Subs |-> <<>>]
  /\ last = [s \in Subs |-> FALSE]
  /\ got = [s \in Subs |-> <<>>]
  /\ publisher = [p \in Pubs |-> Silent]
  /\ sent = 0
  /\ owed = [s \in Subs |-> {}]
  /\ by = [e \in Events |-> CHOOSE p \in Pubs : TRUE]

PublishStep(p) ==
  \/ \E s \in Subs : OfferRefused(p, s) \/ OfferOverflows(p, s) \/ OfferBanked(p, s)
  \/ Wake(p)
  \/ PublishReturns(p)

ReaderStep(s) ==
  \/ ClearWakeup(s) \/ Drain(s) \/ Yield(s) \/ Pause(s) \/ Resume(s) \/ StreamEnds(s)

Next ==
  \/ \E p \in Pubs : Publish(p) \/ PublishStep(p)
  \/ \E s \in Subs : Attach(s) \/ SetWakeup(s) \/ ReaderStep(s) \/ Disconnect(s)

Spec == Init /\ [][Next]_vars

\* A publish() that began returns, and the loop runs what is ready on it.
\* A client reads what it is sent, or its disconnect is noticed.
Fairness ==
  /\ \A p \in Pubs : WF_vars(PublishStep(p))
  /\ \A s \in Subs : WF_vars(SetWakeup(s)) /\ WF_vars(ReaderStep(s))

FairSpec == Spec /\ Fairness

-----------------------------------------------------------------------------
\* The type invariant; the backlog is the bounded one.
TypeOK ==
  /\ registered \subseteq Subs
  /\ pending \in [Subs -> Seq(Events)]
  /\ \A s \in Subs : Len(pending[s]) =< Limit
  /\ closed \subseteq Subs /\ overflowed \subseteq closed
  /\ wakeup \subseteq Subs /\ posted \subseteq Subs
  /\ reader \in [Subs -> {"away", "top", "drain", "yield", "wait", "gone"}]
  /\ batch \in [Subs -> Seq(Events)]
  /\ last \in [Subs -> BOOLEAN]
  /\ got \in [Subs -> Seq(Events)]
  /\ publisher \in [Pubs -> Publisher]
  /\ sent \in 0 .. MaxEvents
  /\ owed \in [Subs -> SUBSET Events]
  /\ by \in [Events -> Pubs]

Stream(s) == got[s] \o batch[s] \o pending[s]

OnTheWay(s) == {publisher[p].event : p \in {q \in Pubs : s \in publisher[q].targets}}

(***************************************************************************)
(* No silent loss: what was published while a connection was registered is *)
(* in its stream, or on the way to it, or the connection was dropped and   *)
(* its stream ends, which is what makes its client refetch (:51).          *)
(***************************************************************************)
NoSilentLoss ==
  \A s \in Subs \ closed : owed[s] \subseteq ToSet(Stream(s)) \cup OnTheWay(s)

(***************************************************************************)
(* What one connection reads has no event twice and, of what one thread    *)
(* publishes, is in the order it published.                                *)
(***************************************************************************)
InOrder ==
  \A s \in Subs : \A i, j \in DOMAIN Stream(s) :
    LET d == Stream(s)[i]
        e == Stream(s)[j] IN
    i < j => d # e /\ (by[d] = by[e] => d < e)

\* Every event that was banked for a connection is yielded, or the client left:
\* "an event banked between the drain and the wait re-sets it" (:144).
BankedIsRead ==
  \A s \in Subs : pending[s] # <<>> ~> (pending[s] = <<>> \/ reader[s] = "gone")

(***************************************************************************)
(* A dropped subscriber ends its stream rather than block forever on a     *)
(* queue nobody fills any more (:91).                                      *)
(***************************************************************************)
DroppedIsTold == \A s \in Subs : s \in overflowed ~> reader[s] = "gone"

=============================================================================
