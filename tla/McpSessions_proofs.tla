------------------------- MODULE McpSessions_proofs --------------------------
(***************************************************************************)
(* Proofs about McpSessions, for any calls, sessions, rotations and faults *)
(***************************************************************************)
EXTENDS McpSessions, TLAPS

\* Only the call that holds the lock closes a stale session or opens one, and
\* while it does the proxy has none.
LockGuards ==
  /\ \A c \in Calls : pc[c] \in {"closing", "entering", "opening"} => lock = c
  /\ lock # NoCall => session = NoSession

\* Sessions in hand, being opened or sent over are not unused numbers.
InUse ==
  /\ session # NoSession => state[session] # "unused"
  /\ \A c \in Calls : pc[c] \in {"opening", "sent"} =>
                        on[c] \in Sessions /\ state[on[c]] # "unused"

\* What was adopted is at hand, and without the mark the session in hand, or
\* the one being opened, is no older.
Marked ==
  /\ adopted <= connection
  /\ \A c \in Calls : since[c] <= adopted
  /\ session # NoSession /\ ~stale => value[session] >= adopted
  /\ \A c \in Calls : pc[c] = "opening" =>
       /\ value[on[c]] >= since[c]
       /\ ~stale => value[on[c]] >= adopted

ProxyInv ==
  TypeOK /\ LockGuards /\ InUse /\ Marked /\ NewestCredential /\ SessionsAreHeld

-----------------------------------------------------------------------------
LEMMA BoundedThings == DOMAIN Bounds = {"breaks", "faults"}
BY DEF Bounds

LEMMA SpentIsTyped ==
  ASSUME TypeOK, NEW what \in {"breaks", "faults"}, Spend(what)
  PROVE  spent' \in [DOMAIN Bounds -> Nat]
BY BoundedThings DEF TypeOK, Spend

LEMMA InvInit == Init => ProxyInv
<1> SUFFICES ASSUME Init PROVE ProxyInv
  OBVIOUS
<1> USE DEF Init
<1>1. TypeOK
  <2>1. spent \in [DOMAIN Bounds -> Nat]
    OBVIOUS
  <2>2. /\ pc \in [Calls -> Places \cup Ends] /\ tries \in [Calls -> 0 .. 2]
        /\ on \in [Calls -> Sessions \cup {NoSession}]
        /\ old \in [Calls -> Sessions \cup {NoSession}]
    BY DEF Places
  <2> QED
    BY <2>1, <2>2 DEF TypeOK
<1>2. LockGuards /\ InUse /\ Marked /\ NewestCredential /\ SessionsAreHeld
  BY ProxyAssumption DEF LockGuards, InUse, Marked, NewestCredential, SessionsAreHeld, NoSession
<1> QED
  BY <1>1, <1>2 DEF ProxyInv

-----------------------------------------------------------------------------
LEMMA TypeStep == TypeOK /\ InUse /\ [Next]_vars => TypeOK'
<1> SUFFICES ASSUME TypeOK, InUse, [Next]_vars PROVE TypeOK'
  OBVIOUS
<1> USE ProxyAssumption DEF TypeOK, Places, Ends, Goes, NoSession
<1>1. CASE Rebind \/ Mark
  <2>1. CASE Rebind
    BY <2>1 DEF Rebind, callVars, pipeVars
  <2>2. CASE Mark
    BY <2>2 DEF Mark, callVars, pipeVars
  <2> QED
    BY <1>1, <2>1, <2>2
<1>2. ASSUME NEW c \in Calls, Begin(c) PROVE TypeOK'
  BY <1>2 DEF Begin, proxyVars, pipeVars, adoptVars
<1>3. ASSUME NEW c \in Calls, Cancel(c) PROVE TypeOK'
  <2>1. spent' \in [DOMAIN Bounds -> Nat]
    BY <1>3, SpentIsTyped DEF Cancel
  <2>2. /\ state' \in [Sessions -> {"unused", "up", "broken", "closed"}]
        /\ lost' \in SUBSET Sessions
        /\ lock' \in Calls \cup {NoCall}
    <3>1. CASE pc[c] \in {"ensure", "drop", "sent"} /\ UNCHANGED <<lock, state, lost>>
      BY <3>1
    <3>2. CASE pc[c] = "opening" /\ Unopened(c) /\ lock' = NoCall
      <4>1. CASE state' = [state EXCEPT ![on[c]] = "closed"] /\ UNCHANGED lost
        BY <3>2, <4>1
      <4>2. CASE lost' = lost \cup {on[c]} /\ UNCHANGED state
        BY <3>2, <4>2 DEF InUse
      <4> QED
        BY <3>2, <4>1, <4>2 DEF Unopened
    <3> QED
      BY <1>3, <3>1, <3>2 DEF Cancel
  <2> QED
    BY <1>3, <2>1, <2>2 DEF Cancel, adoptVars
<1>4. ASSUME NEW c \in Calls, Locking(c) PROVE TypeOK'
  <2>1. CASE Reuse(c)
    BY <2>1 DEF Reuse, proxyVars, pipeVars, adoptVars
  <2>2. CASE Renew(c)
    BY <2>2 DEF Renew, pipeVars, adoptVars
  <2>3. CASE Drop(c)
    BY <2>3 DEF Drop, pipeVars, adoptVars
  <2> QED
    BY <1>4, <2>1, <2>2, <2>3 DEF Locking
<1>5. ASSUME NEW c \in Calls, Closing(c) PROVE TypeOK'
  BY <1>5 DEF Closing, StaleClosed, Dropped, Closed, proxyVars, adoptVars
<1>6. ASSUME NEW c \in Calls, NEW s \in Sessions, Enter(c, s) PROVE TypeOK'
  BY <1>6 DEF Enter, proxyVars, adoptVars
<1>7. ASSUME NEW c \in Calls, Opened(c) PROVE TypeOK'
  BY <1>7 DEF Opened, pipeVars, adoptVars
<1>8. ASSUME NEW c \in Calls, OpenFails(c) PROVE TypeOK'
  <2>1. spent' \in [DOMAIN Bounds -> Nat]
    BY <1>8, SpentIsTyped DEF OpenFails
  <2>2. /\ state' \in [Sessions -> {"unused", "up", "broken", "closed"}]
        /\ lost' \in SUBSET Sessions
    <3>0. on[c] \in Sessions
      BY <1>8 DEF OpenFails, InUse
    <3>1. CASE state' = [state EXCEPT ![on[c]] = "closed"] /\ UNCHANGED lost
      BY <3>1
    <3>2. CASE lost' = lost \cup {on[c]} /\ UNCHANGED state
      BY <3>0, <3>2
    <3> QED
      BY <1>8, <3>1, <3>2 DEF OpenFails, Unopened
  <2> QED
    BY <1>8, <2>1, <2>2 DEF OpenFails, adoptVars
<1>9. ASSUME NEW c \in Calls, Sending(c) PROVE TypeOK'
  <2>1. CASE Answer(c)
    BY <2>1 DEF Answer, proxyVars, pipeVars, adoptVars
  <2>2. CASE PipeFails(c)
    <3>1. pc' \in [Calls -> Places \cup Ends]
      BY <2>2 DEF PipeFails
    <3>2. tries' \in [Calls -> 0 .. 2]
      BY <2>2 DEF PipeFails
    <3> QED
      BY <2>2, <3>1, <3>2 DEF PipeFails, proxyVars, pipeVars, adoptVars
  <2> QED
    BY <1>9, <2>1, <2>2 DEF Sending
<1>10. ASSUME NEW s \in Sessions, Break(s) PROVE TypeOK'
  BY <1>10, SpentIsTyped DEF Break, proxyVars, callVars, adoptVars
<1>11. CASE UNCHANGED vars
  BY <1>11 DEF vars, proxyVars, callVars, pipeVars, adoptVars
<1> QED
  BY <1>1, <1>2, <1>3, <1>4, <1>5, <1>6, <1>7, <1>8, <1>9, <1>10, <1>11
  DEF Next, Entering, Opening

-----------------------------------------------------------------------------
\* The part of the invariant that says more than types.
Safe == LockGuards /\ InUse /\ Marked /\ NewestCredential /\ SessionsAreHeld

LEMMA SafeStep == ProxyInv /\ [Next]_vars => Safe'
<1> SUFFICES ASSUME ProxyInv, [Next]_vars PROVE Safe'
  OBVIOUS
<1> USE ProxyAssumption DEF ProxyInv
<1>1. CASE Rebind
  <2>1. LockGuards'
    BY <1>1 DEF Rebind, callVars, pipeVars, TypeOK, NoSession, LockGuards
  <2>2. InUse'
    BY <1>1 DEF Rebind, callVars, pipeVars, TypeOK, NoSession, InUse
  <2>3. Marked'
    BY <1>1 DEF Rebind, callVars, pipeVars, TypeOK, NoSession, LockGuards, InUse, Marked
  <2>4. NewestCredential'
    BY <1>1 DEF Rebind, callVars, pipeVars, TypeOK, NoSession, InUse, Marked, NewestCredential
  <2>5. SessionsAreHeld'
    BY <1>1 DEF Rebind, callVars, pipeVars, TypeOK, NoSession, LockGuards, InUse, SessionsAreHeld
  <2> QED
    BY <2>1, <2>2, <2>3, <2>4, <2>5 DEF Safe
<1>2. CASE Mark
  <2>1. LockGuards'
    BY <1>2 DEF Mark, callVars, pipeVars, TypeOK, NoSession, LockGuards
  <2>2. InUse'
    BY <1>2 DEF Mark, callVars, pipeVars, TypeOK, NoSession, InUse
  <2>3. Marked'
    BY <1>2 DEF Mark, callVars, pipeVars, TypeOK, NoSession, LockGuards, InUse, Marked
  <2>4. NewestCredential'
    BY <1>2 DEF Mark, callVars, pipeVars, TypeOK, NoSession, InUse, Marked, NewestCredential
  <2>5. SessionsAreHeld'
    BY <1>2 DEF Mark, callVars, pipeVars, TypeOK, NoSession, LockGuards, InUse, SessionsAreHeld
  <2> QED
    BY <2>1, <2>2, <2>3, <2>4, <2>5 DEF Safe
<1>3. ASSUME NEW c \in Calls, Begin(c) PROVE Safe'
  <2>1. LockGuards'
    BY <1>3 DEF Begin, Goes, proxyVars, pipeVars, adoptVars, TypeOK, NoSession, LockGuards
  <2>2. InUse'
    BY <1>3 DEF Begin, Goes, proxyVars, pipeVars, adoptVars, TypeOK, NoSession, InUse
  <2>3. Marked'
    BY <1>3 DEF Begin, Goes, proxyVars, pipeVars, adoptVars, TypeOK, NoSession, LockGuards, InUse, Marked
  <2>4. NewestCredential'
    BY <1>3 DEF Begin, Goes, proxyVars, pipeVars, adoptVars, TypeOK, NoSession, InUse, Marked, NewestCredential
  <2>5. SessionsAreHeld'
    BY <1>3 DEF Begin, Goes, proxyVars, pipeVars, adoptVars, TypeOK, NoSession, LockGuards, InUse, SessionsAreHeld
  <2> QED
    BY <2>1, <2>2, <2>3, <2>4, <2>5 DEF Safe
<1>4. ASSUME NEW c \in Calls, Cancel(c) PROVE Safe'
  <2>1. LockGuards'
    BY <1>4 DEF Cancel, Goes, Unopened, adoptVars, TypeOK, NoSession, LockGuards
  <2>2. InUse'
    BY <1>4 DEF Cancel, Goes, Unopened, adoptVars, TypeOK, NoSession, InUse
  <2>3. Marked'
    BY <1>4 DEF Cancel, Goes, Unopened, adoptVars, TypeOK, NoSession, LockGuards, InUse, Marked
  <2>4. NewestCredential'
    BY <1>4 DEF Cancel, Goes, Unopened, adoptVars, TypeOK, NoSession, InUse, Marked, NewestCredential
  <2>5. SessionsAreHeld'
    BY <1>4 DEF Cancel, Goes, Unopened, adoptVars, TypeOK, NoSession, LockGuards, InUse, SessionsAreHeld
  <2> QED
    BY <2>1, <2>2, <2>3, <2>4, <2>5 DEF Safe
<1>5. ASSUME NEW c \in Calls, Reuse(c) PROVE Safe'
  <2>1. LockGuards'
    BY <1>5 DEF Reuse, Goes, LockFree, proxyVars, pipeVars, adoptVars, TypeOK, NoSession, LockGuards
  <2>2. InUse'
    BY <1>5 DEF Reuse, Goes, LockFree, proxyVars, pipeVars, adoptVars, TypeOK, NoSession, InUse
  <2>3. Marked'
    BY <1>5 DEF Reuse, Goes, LockFree, proxyVars, pipeVars, adoptVars, TypeOK, NoSession, LockGuards, InUse, Marked
  <2>4. NewestCredential'
    BY <1>5 DEF Reuse, Goes, LockFree, proxyVars, pipeVars, adoptVars, TypeOK, NoSession, InUse, Marked, NewestCredential
  <2>5. SessionsAreHeld'
    BY <1>5 DEF Reuse, Goes, LockFree, proxyVars, pipeVars, adoptVars, TypeOK, NoSession, LockGuards, InUse, SessionsAreHeld
  <2> QED
    BY <2>1, <2>2, <2>3, <2>4, <2>5 DEF Safe
<1>6. ASSUME NEW c \in Calls, Renew(c) PROVE Safe'
  <2>1. LockGuards'
    BY <1>6 DEF Renew, Goes, LockFree, pipeVars, adoptVars, TypeOK, NoSession, LockGuards
  <2>2. InUse'
    BY <1>6 DEF Renew, Goes, LockFree, pipeVars, adoptVars, TypeOK, NoSession, InUse
  <2>3. Marked'
    BY <1>6 DEF Renew, Goes, LockFree, pipeVars, adoptVars, TypeOK, NoSession, LockGuards, InUse, Marked
  <2>4. NewestCredential'
    BY <1>6 DEF Renew, Goes, LockFree, pipeVars, adoptVars, TypeOK, NoSession, InUse, Marked, NewestCredential
  <2>5. SessionsAreHeld'
    BY <1>6 DEF Renew, Goes, LockFree, pipeVars, adoptVars, TypeOK, NoSession, LockGuards, InUse, SessionsAreHeld
  <2> QED
    BY <2>1, <2>2, <2>3, <2>4, <2>5 DEF Safe
<1>7. ASSUME NEW c \in Calls, Drop(c) PROVE Safe'
  <2>1. LockGuards'
    BY <1>7 DEF Drop, Goes, LockFree, pipeVars, adoptVars, TypeOK, NoSession, LockGuards
  <2>2. InUse'
    BY <1>7 DEF Drop, Goes, LockFree, pipeVars, adoptVars, TypeOK, NoSession, InUse
  <2>3. Marked'
    BY <1>7 DEF Drop, Goes, LockFree, pipeVars, adoptVars, TypeOK, NoSession, LockGuards, InUse, Marked
  <2>4. NewestCredential'
    BY <1>7 DEF Drop, Goes, LockFree, pipeVars, adoptVars, TypeOK, NoSession, InUse, Marked, NewestCredential
  <2>5. SessionsAreHeld'
    BY <1>7 DEF Drop, Goes, LockFree, pipeVars, adoptVars, TypeOK, NoSession, LockGuards, InUse, SessionsAreHeld
  <2> QED
    BY <2>1, <2>2, <2>3, <2>4, <2>5 DEF Safe
<1>8. ASSUME NEW c \in Calls, Closing(c) PROVE Safe'
  <2>1. LockGuards'
    BY <1>8 DEF Closing, StaleClosed, Dropped, Closed, Goes, proxyVars, adoptVars, TypeOK, NoSession, LockGuards
  <2>2. InUse'
    <3>1. /\ state' = [state EXCEPT ![old[c]] = "closed"]
          /\ UNCHANGED <<session, on>>
          /\ \A d \in Calls : pc'[d] \in {"opening", "sent"} => pc[d] \in {"opening", "sent"}
      BY <1>8 DEF Closing, StaleClosed, Dropped, Closed, Goes, proxyVars, TypeOK
    <3>2. \A s \in Sessions : state[s] # "unused" => state'[s] # "unused"
      BY <3>1 DEF TypeOK
    <3> QED
      BY <3>1, <3>2 DEF TypeOK, NoSession, InUse
  <2>3. Marked'
    BY <1>8 DEF Closing, StaleClosed, Dropped, Closed, Goes, proxyVars, adoptVars, TypeOK, NoSession, LockGuards, InUse, Marked
  <2>4. NewestCredential'
    BY <1>8 DEF Closing, StaleClosed, Dropped, Closed, Goes, proxyVars, adoptVars, TypeOK, NoSession, InUse, Marked, NewestCredential
  <2>5. SessionsAreHeld'
    BY <1>8 DEF Closing, StaleClosed, Dropped, Closed, Goes, proxyVars, adoptVars, TypeOK, NoSession, LockGuards, InUse, SessionsAreHeld
  <2> QED
    BY <2>1, <2>2, <2>3, <2>4, <2>5 DEF Safe
<1>9. ASSUME NEW c \in Calls, NEW s \in Sessions, Enter(c, s) PROVE Safe'
  <2>1. LockGuards'
    BY <1>9 DEF Enter, FirstUnused, Goes, proxyVars, adoptVars, TypeOK, NoSession, LockGuards
  <2>2. InUse'
    BY <1>9 DEF Enter, FirstUnused, Goes, proxyVars, adoptVars, TypeOK, NoSession, InUse
  <2>3. Marked'
    BY <1>9 DEF Enter, FirstUnused, Goes, proxyVars, adoptVars, TypeOK, NoSession, LockGuards, InUse, Marked
  <2>4. NewestCredential'
    BY <1>9 DEF Enter, FirstUnused, Goes, proxyVars, adoptVars, TypeOK, NoSession, InUse, Marked, NewestCredential
  <2>5. SessionsAreHeld'
    BY <1>9 DEF Enter, FirstUnused, Goes, proxyVars, adoptVars, TypeOK, NoSession, LockGuards, InUse, SessionsAreHeld
  <2> QED
    BY <2>1, <2>2, <2>3, <2>4, <2>5 DEF Safe
<1>10. ASSUME NEW c \in Calls, Opened(c) PROVE Safe'
  <2>1. LockGuards'
    BY <1>10 DEF Opened, Goes, pipeVars, adoptVars, TypeOK, NoSession, LockGuards
  <2>2. InUse'
    BY <1>10 DEF Opened, Goes, pipeVars, adoptVars, TypeOK, NoSession, InUse
  <2>3. Marked'
    <3>1. /\ on[c] \in Sessions /\ session' = on[c]
          /\ UNCHANGED <<value, stale, since, on, adopted, connection>>
          /\ ~stale => value[on[c]] >= adopted
      BY <1>10 DEF Opened, pipeVars, adoptVars, InUse, Marked
    <3>2. \A d \in Calls : pc'[d] # "opening"
      BY <1>10 DEF Opened, Goes, TypeOK, LockGuards
    <3> QED
      BY <3>1, <3>2 DEF Marked
  <2>4. NewestCredential'
    <3>1. value[on[c]] >= since[c] /\ UNCHANGED <<value, since, on>>
      BY <1>10 DEF Opened, pipeVars, Marked
    <3>2. \A d \in Calls : pc'[d] = "sent" => d = c \/ pc[d] = "sent"
      BY <1>10 DEF Opened, Goes, TypeOK
    <3> QED
      BY <3>1, <3>2 DEF NewestCredential
  <2>5. SessionsAreHeld'
    BY <1>10 DEF Opened, Goes, pipeVars, adoptVars, TypeOK, NoSession, LockGuards, InUse, SessionsAreHeld
  <2> QED
    BY <2>1, <2>2, <2>3, <2>4, <2>5 DEF Safe
<1>11. ASSUME NEW c \in Calls, OpenFails(c) PROVE Safe'
  <2>1. LockGuards'
    BY <1>11 DEF OpenFails, Unopened, Goes, adoptVars, TypeOK, NoSession, LockGuards
  <2>2. InUse'
    BY <1>11 DEF OpenFails, Unopened, Goes, adoptVars, TypeOK, NoSession, InUse
  <2>3. Marked'
    BY <1>11 DEF OpenFails, Unopened, Goes, adoptVars, TypeOK, NoSession, LockGuards, InUse, Marked
  <2>4. NewestCredential'
    BY <1>11 DEF OpenFails, Unopened, Goes, adoptVars, TypeOK, NoSession, InUse, Marked, NewestCredential
  <2>5. SessionsAreHeld'
    BY <1>11 DEF OpenFails, Unopened, Goes, adoptVars, TypeOK, NoSession, LockGuards, InUse, SessionsAreHeld
  <2> QED
    BY <2>1, <2>2, <2>3, <2>4, <2>5 DEF Safe
<1>12. ASSUME NEW c \in Calls, Sending(c) PROVE Safe'
  <2>1. LockGuards'
    BY <1>12 DEF Sending, Answer, PipeFails, Goes, proxyVars, pipeVars, adoptVars, TypeOK, NoSession, LockGuards
  <2>2. InUse'
    BY <1>12 DEF Sending, Answer, PipeFails, Goes, proxyVars, pipeVars, adoptVars, TypeOK, NoSession, InUse
  <2>3. Marked'
    BY <1>12 DEF Sending, Answer, PipeFails, Goes, proxyVars, pipeVars, adoptVars, TypeOK, NoSession, LockGuards, InUse, Marked
  <2>4. NewestCredential'
    BY <1>12 DEF Sending, Answer, PipeFails, Goes, proxyVars, pipeVars, adoptVars, TypeOK, NoSession, InUse, Marked, NewestCredential
  <2>5. SessionsAreHeld'
    BY <1>12 DEF Sending, Answer, PipeFails, Goes, proxyVars, pipeVars, adoptVars, TypeOK, NoSession, LockGuards, InUse, SessionsAreHeld
  <2> QED
    BY <2>1, <2>2, <2>3, <2>4, <2>5 DEF Safe
<1>13. ASSUME NEW s \in Sessions, Break(s) PROVE Safe'
  <2>1. LockGuards'
    BY <1>13 DEF Break, proxyVars, callVars, adoptVars, TypeOK, NoSession, LockGuards
  <2>2. InUse'
    BY <1>13 DEF Break, proxyVars, callVars, adoptVars, TypeOK, NoSession, InUse
  <2>3. Marked'
    BY <1>13 DEF Break, proxyVars, callVars, adoptVars, TypeOK, NoSession, LockGuards, InUse, Marked
  <2>4. NewestCredential'
    BY <1>13 DEF Break, proxyVars, callVars, adoptVars, TypeOK, NoSession, InUse, Marked, NewestCredential
  <2>5. SessionsAreHeld'
    BY <1>13 DEF Break, proxyVars, callVars, adoptVars, TypeOK, NoSession, LockGuards, InUse, SessionsAreHeld
  <2> QED
    BY <2>1, <2>2, <2>3, <2>4, <2>5 DEF Safe
<1>14. CASE UNCHANGED vars
  <2>1. LockGuards'
    BY <1>14 DEF vars, proxyVars, callVars, pipeVars, adoptVars, TypeOK, NoSession, LockGuards
  <2>2. InUse'
    BY <1>14 DEF vars, proxyVars, callVars, pipeVars, adoptVars, TypeOK, NoSession, InUse
  <2>3. Marked'
    BY <1>14 DEF vars, proxyVars, callVars, pipeVars, adoptVars, TypeOK, NoSession, LockGuards, InUse, Marked
  <2>4. NewestCredential'
    BY <1>14 DEF vars, proxyVars, callVars, pipeVars, adoptVars, TypeOK, NoSession, InUse, Marked, NewestCredential
  <2>5. SessionsAreHeld'
    BY <1>14 DEF vars, proxyVars, callVars, pipeVars, adoptVars, TypeOK, NoSession, LockGuards, InUse, SessionsAreHeld
  <2> QED
    BY <2>1, <2>2, <2>3, <2>4, <2>5 DEF Safe
<1> QED
  BY <1>1, <1>2, <1>3, <1>4, <1>5, <1>6, <1>7, <1>8, <1>9, <1>10, <1>11, <1>12, <1>13, <1>14
  DEF Next, Locking, Entering, Opening

-----------------------------------------------------------------------------
\* However openings, drops, rotations, breaks and cancellations interleave, the
\* proxy's types, its lock's guard, and what its sessions were opened with hold:
\* the inductive invariant the next three theorems are read off.
THEOREM ProxyInvariant == Spec => []ProxyInv
<1>1. Init => ProxyInv
  BY InvInit
<1>2. ProxyInv /\ [Next]_vars => ProxyInv'
  BY TypeStep, SafeStep DEF ProxyInv, Safe
<1> QED
  BY <1>1, <1>2, PTL DEF Spec

\* Type correctness; `tries` stays at two, the retry of _attempt.
THEOREM ProxyTypes == Spec => []TypeOK
<1>1. ProxyInv => TypeOK
  BY DEF ProxyInv
<1> QED
  BY <1>1, ProxyInvariant, PTL

\* No tool call goes out on a credential older than the one adopted before it
\* asked for a session (adopt and _ensure).
THEOREM NewestOnTheWire == Spec => []NewestCredential
<1>1. ProxyInv => NewestCredential
  BY DEF ProxyInv
<1> QED
  BY <1>1, ProxyInvariant, PTL

\* A session that was opened is held, being opened, being closed, or closed:
\* only a handshake that fails (_open) leaves one behind.
THEOREM NoSessionLeaks == Spec => []SessionsAreHeld
<1>1. ProxyInv => SessionsAreHeld
  BY DEF ProxyInv
<1> QED
  BY <1>1, ProxyInvariant, PTL

=============================================================================
