----------------------------- MODULE McpSessions -----------------------------
(***************************************************************************)
(* One McpSessionProxy (backend/openstategraph/mcp_sessions.py): the live  *)
(* session every tool of one MCP server shares.                            *)
(*                                                                         *)
(* Calls are coroutines on the MCP loop.  They take turns at their awaits, *)
(* and an asyncio.Lock guards the opening of a session; adopt() comes from *)
(* whichever thread asks the pool for the proxy, between any two           *)
(* statements of theirs.  Transports, the server and the network are       *)
(* external: a session opens or fails to, breaks when it likes, and one    *)
(* that is closed or broken fails whatever is sent over it.  A call that   *)
(* the server refuses is answered.  Closing always ends: whatever it       *)
(* raises is dropped (_close).  close_all_sessions runs at exit only and   *)
(* is left out.                                                            *)
(***************************************************************************)
EXTENDS Naturals

CONSTANTS
  Calls,        \* coroutines, each making one call
  Sessions,     \* sessions ever opened, numbered in that order
  NoCall,
  MaxRotations, \* bound: values a credential takes, the first apart
  MaxBreaks,    \* bound: sessions broken by the server or the network
  MaxFaults     \* bound: handshakes that fail, and calls cancelled by the
                \* timeout of their caller

ASSUME ProxyAssumption ==
  /\ Sessions \subseteq Nat \ {0}
  /\ NoCall \notin Calls
  /\ {MaxRotations, MaxBreaks, MaxFaults} \subseteq Nat

NoSession == 0

VARIABLES
  connection, \* _connection: which value of the credential it holds
  stale,      \* _stale
  session,    \* _session and _stack, or NoSession
  lock,       \* the call that holds _lock, or NoCall
  pc,         \* pc[c]: where coroutine c is
  on,         \* on[c]: the session c opens, or sends over
  old,        \* old[c]: the stack c has taken to close
  tries,      \* tries[c]: how often c has asked for a session
  state,      \* state[s]: "unused", "up", "broken", "closed"
  value,      \* value[s]: the credential s was opened with
  adopting    \* a thread is between the two assignments of adopt()

\* What the properties speak of and nobody in the code keeps.
VARIABLES
  adopted,    \* the newest credential an adopt() has returned from
  since,      \* since[c]: what `adopted` was when c asked for its session
  lost,       \* sessions whose handshake failed: nobody holds their stack
  spent       \* how often each bounded thing has happened

proxyVars == <<connection, stale, session, lock>>
callVars  == <<pc, on, old, tries, since>>
pipeVars  == <<state, value, lost>>
adoptVars == <<adopting, adopted>>
vars == <<proxyVars, callVars, pipeVars, adoptVars, spent>>

Bounds == [breaks |-> MaxBreaks, faults |-> MaxFaults]

Spend(what) == spent[what] < Bounds[what] /\ spent' = [spent EXCEPT ![what] = @ + 1]

Goes(c, where) == pc' = [pc EXCEPT ![c] = where]

-----------------------------------------------------------------------------
(***************************************************************************)
(* adopt(): the newest value, then the mark.  _POOL_LOCK admits one thread *)
(* at a time.                                                              *)
(***************************************************************************)
Rebind ==
  /\ ~adopting /\ connection < MaxRotations
  /\ connection' = connection + 1
  /\ adopting' = TRUE
  /\ UNCHANGED <<stale, session, lock, callVars, pipeVars, adopted, spent>>

Mark ==
  /\ adopting
  /\ stale' = TRUE
  /\ adopting' = FALSE
  /\ adopted' = connection
  /\ UNCHANGED <<connection, session, lock, callVars, pipeVars, spent>>

-----------------------------------------------------------------------------
(***************************************************************************)
(* _ensure and _open                                                       *)
(***************************************************************************)
Begin(c) ==
  /\ pc[c] = "idle"
  /\ Goes(c, "ensure")
  /\ tries' = [tries EXCEPT ![c] = 1]
  /\ since' = [since EXCEPT ![c] = adopted]
  /\ UNCHANGED <<proxyVars, on, old, pipeVars, adoptVars, spent>>

\* Mutant: sessions are opened without a lock.
AnyTime == TRUE

LockFree == lock = NoCall

\* The session in hand: the request goes out before anything else runs.
Reuse(c) ==
  /\ pc[c] = "ensure" /\ LockFree
  /\ ~stale /\ session # NoSession
  /\ on' = [on EXCEPT ![c] = session]
  /\ Goes(c, "sent")
  /\ UNCHANGED <<proxyVars, old, tries, since, pipeVars, adoptVars, spent>>

\* A stale session is closed under the lock, and no session is opened by it.
Renew(c) ==
  /\ pc[c] = "ensure" /\ LockFree
  /\ stale \/ session = NoSession
  /\ lock' = c
  /\ stale' = FALSE
  /\ session' = NoSession
  /\ old' = [old EXCEPT ![c] = session]
  /\ Goes(c, IF session = NoSession THEN "entering" ELSE "closing")
  /\ UNCHANGED <<connection, on, tries, since, pipeVars, adoptVars, spent>>

Closed(c) == /\ state' = [state EXCEPT ![old[c]] = "closed"]
             /\ old' = [old EXCEPT ![c] = NoSession]
             /\ UNCHANGED <<value, lost>>

StaleClosed(c) ==
  /\ pc[c] = "closing"
  /\ Closed(c)
  /\ Goes(c, "entering")
  /\ UNCHANGED <<proxyVars, on, tries, since, adoptVars, spent>>

FirstUnused(s) == state[s] = "unused" /\ \A r \in Sessions : r < s => state[r] # "unused"

\* create_session reads _connection as it stands by now.
Enter(c, s) ==
  /\ pc[c] = "entering"
  /\ FirstUnused(s)
  /\ state' = [state EXCEPT ![s] = "up"]
  /\ value' = [value EXCEPT ![s] = connection]
  /\ on' = [on EXCEPT ![c] = s]
  /\ Goes(c, "opening")
  /\ UNCHANGED <<proxyVars, old, tries, since, lost, adoptVars, spent>>

\* Mutant: the mark of adopt() is cleared where the session is opened.
OpenedClean(c) ==
  /\ pc[c] = "opening" /\ state[on[c]] = "up"
  /\ session' = on[c]
  /\ lock' = NoCall
  /\ stale' = FALSE
  /\ Goes(c, "sent")
  /\ UNCHANGED <<connection, on, old, tries, since, pipeVars, adoptVars, spent>>

\* initialize() answered.
Opened(c) ==
  /\ pc[c] = "opening" /\ state[on[c]] = "up"
  /\ session' = on[c]
  /\ lock' = NoCall
  /\ Goes(c, "sent")
  /\ UNCHANGED <<connection, stale, on, old, tries, since, pipeVars, adoptVars, spent>>

\* Entering the transport failed, and it cleaned up after itself; or
\* initialize() did, and the stack is a local that nobody closes.
Unopened(c) ==
  \/ state' = [state EXCEPT ![on[c]] = "closed"] /\ UNCHANGED lost
  \/ lost' = lost \cup {on[c]} /\ UNCHANGED state

\* Mutant: the lock is released where a session was opened, only there.
OpenFailsLocked(c) ==
  /\ pc[c] = "opening"
  /\ IF state[on[c]] = "up" THEN Spend("faults") ELSE UNCHANGED spent
  /\ Unopened(c)
  /\ Goes(c, "refused")
  /\ UNCHANGED <<proxyVars, on, old, tries, since, value, adoptVars>>

\* It raises out of _attempt: no handshake is tried again.
OpenFails(c) ==
  /\ pc[c] = "opening"
  /\ IF state[on[c]] = "up" THEN Spend("faults") ELSE UNCHANGED spent
  /\ Unopened(c)
  /\ lock' = NoCall
  /\ Goes(c, "refused")
  /\ UNCHANGED <<connection, stale, session, on, old, tries, since, value, adoptVars>>

-----------------------------------------------------------------------------
(***************************************************************************)
(* _attempt and _drop                                                      *)
(***************************************************************************)
Answer(c) ==
  /\ pc[c] = "sent" /\ state[on[c]] = "up"
  /\ Goes(c, "answered")
  /\ UNCHANGED <<proxyVars, on, old, tries, since, pipeVars, adoptVars, spent>>

\* is_transport_failure: once it is tried again, twice it is raised.
PipeFails(c) ==
  /\ pc[c] = "sent" /\ state[on[c]] # "up"
  /\ IF tries[c] = 1
     THEN Goes(c, "drop") /\ tries' = [tries EXCEPT ![c] = 2]
     ELSE Goes(c, "failed") /\ UNCHANGED tries
  /\ UNCHANGED <<proxyVars, on, old, since, pipeVars, adoptVars, spent>>

\* _drop takes the session there is, whichever broke, and closes it after
\* the lock.
Drop(c) ==
  /\ pc[c] = "drop" /\ LockFree
  /\ session' = NoSession
  /\ old' = [old EXCEPT ![c] = session]
  /\ Goes(c, IF session = NoSession THEN "ensure" ELSE "dropping")
  /\ UNCHANGED <<connection, stale, lock, on, tries, since, pipeVars, adoptVars, spent>>

Dropped(c) ==
  /\ pc[c] = "dropping"
  /\ Closed(c)
  /\ Goes(c, "ensure")
  /\ UNCHANGED <<proxyVars, on, tries, since, adoptVars, spent>>

-----------------------------------------------------------------------------
\* The server, or what is between, breaks a session.
Break(s) ==
  /\ state[s] = "up"
  /\ Spend("breaks")
  /\ state' = [state EXCEPT ![s] = "broken"]
  /\ UNCHANGED <<proxyVars, callVars, value, lost, adoptVars>>

\* The caller's wait_for runs out (prebuilt_mcp._discover_tools).  While a
\* session is being closed, _close swallows the cancellation.
Cancel(c) ==
  /\ Spend("faults")
  /\ \/ pc[c] \in {"ensure", "drop", "sent"} /\ UNCHANGED <<lock, state, lost>>
     \/ pc[c] = "opening" /\ Unopened(c) /\ lock' = NoCall
  /\ Goes(c, "cancelled")
  /\ UNCHANGED <<connection, stale, session, on, old, tries, since, value, adoptVars>>

-----------------------------------------------------------------------------
Init ==
  /\ connection = 0 /\ stale = FALSE /\ session = NoSession /\ lock = NoCall
  /\ pc = [c \in Calls |-> "idle"]
  /\ on = [c \in Calls |-> NoSession]
  /\ old = [c \in Calls |-> NoSession]
  /\ tries = [c \in Calls |-> 0]
  /\ since = [c \in Calls |-> 0]
  /\ state = [s \in Sessions |-> "unused"]
  /\ value = [s \in Sessions |-> 0]
  /\ adopting = FALSE /\ adopted = 0
  /\ lost = {}
  /\ spent = [what \in DOMAIN Bounds |-> 0]

Opening(c) == Opened(c) \/ OpenFails(c)
Sending(c) == Answer(c) \/ PipeFails(c)
Closing(c) == StaleClosed(c) \/ Dropped(c)
Entering(c) == \E s \in Sessions : Enter(c, s)
Locking(c) == Reuse(c) \/ Renew(c) \/ Drop(c)

Next ==
  \/ Rebind \/ Mark
  \/ \E c \in Calls : \/ Begin(c) \/ Cancel(c)
                      \/ Locking(c) \/ Closing(c) \/ Entering(c) \/ Opening(c) \/ Sending(c)
  \/ \E s \in Sessions : Break(s)

Spec == Init /\ [][Next]_vars

\* The loop runs every coroutine that can go on, handshakes have a timeout,
\* and a request is answered or its pipe breaks.
Fairness ==
  \A c \in Calls : /\ WF_vars(Locking(c)) /\ WF_vars(Closing(c)) /\ WF_vars(Entering(c))
                   /\ WF_vars(Opening(c)) /\ WF_vars(Sending(c))

FairSpec == Spec /\ Fairness

-----------------------------------------------------------------------------
Places == {"idle", "ensure", "closing", "entering", "opening", "sent", "drop", "dropping"}
Ends   == {"answered", "refused", "failed", "cancelled"}

\* Types, and a call asks for a session twice at most.
TypeOK ==
  /\ connection \in Nat /\ adopted \in Nat
  /\ stale \in BOOLEAN /\ adopting \in BOOLEAN
  /\ session \in Sessions \cup {NoSession}
  /\ lock \in Calls \cup {NoCall}
  /\ pc \in [Calls -> Places \cup Ends]
  /\ on \in [Calls -> Sessions \cup {NoSession}]
  /\ old \in [Calls -> Sessions \cup {NoSession}]
  /\ tries \in [Calls -> 0 .. 2]
  /\ since \in [Calls -> Nat]
  /\ state \in [Sessions -> {"unused", "up", "broken", "closed"}]
  /\ value \in [Sessions -> Nat]
  /\ lost \in SUBSET Sessions
  /\ spent \in [DOMAIN Bounds -> Nat]

\* A call goes out on a credential no older than the one adopted before it
\* asked for a session ("_ensure does the drop, before the next call goes
\* out", adopt()), however openings, drops and rotations interleave.
NewestCredential == \A c \in Calls : pc[c] = "sent" => value[on[c]] >= since[c]

\* Every session that is not closed is the one the proxy holds, or is being
\* opened or closed by a call: none is overwritten and forgotten.  The ones a
\* failed handshake left are apart (_open keeps their stack in a local).
SessionsAreHeld ==
  \A s \in Sessions \ lost :
    state[s] \in {"up", "broken"} =>
      \/ s = session
      \/ \E c \in Calls : \/ pc[c] = "opening" /\ on[c] = s
                          \/ pc[c] \in {"closing", "dropping"} /\ old[c] = s

\* No call waits for ever: not for the lock, and not for a session that
\* others keep closing under it.
EveryCallEnds == <>[](\A c \in Calls : pc[c] \in {"idle"} \cup Ends)

\* "on a transport failure it drops the session, opens a new one and retries
\* the call" (the module's docstring): with one broken session and one
\* credential, no call is given up.
OneBreakIsSurvived ==
  spent.breaks <= 1 /\ connection = 0
  => \A c \in Calls : pc[c] # "failed"

=============================================================================
