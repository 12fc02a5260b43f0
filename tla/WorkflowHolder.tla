--------------------------- MODULE WorkflowHolder ---------------------------
(***************************************************************************)
(* What live.py promises its callers, without stamps, locks or compiles:   *)
(* a slug has at most one current graph; a graph is shared by the runs     *)
(* that lease it; one that was taken out of the map is retired, is handed  *)
(* to nobody new, and is closed once, when its last lease has ended.       *)
(***************************************************************************)
EXTENDS FiniteSets

CONSTANTS Slugs, Threads, Entries, NoEntry

VARIABLES current,  \* current[s]: the graph handed out for s, or NoEntry
          status,   \* status[e]: "none", "held", "retired" or "closed"
          users     \* users[e]: the runs inside graph e

vars == <<current, status, users>>

Init ==
  /\ current = [s \in Slugs |-> NoEntry]
  /\ status = [e \in Entries |-> "none"]
  /\ users = [e \in Entries |-> {}]

Retiring(D) ==
  [e \in Entries |-> IF e \in D THEN "retired" ELSE status[e]]

\* A new graph takes the place of the one current for s, if there is one.
Replace(s, e, t) ==
  /\ status[e] = "none"
  /\ current' = [current EXCEPT ![s] = e]
  /\ status' = [Retiring({current[s]} \ {NoEntry}) EXCEPT ![e] = "held"]
  /\ users' = [users EXCEPT ![e] = {t}]

Share(s, t) ==
  /\ current[s] # NoEntry
  /\ status[current[s]] = "held"
  /\ users' = [users EXCEPT ![current[s]] = @ \cup {t}]
  /\ UNCHANGED <<current, status>>

Leave(e, t) ==
  /\ t \in users[e]
  /\ users' = [users EXCEPT ![e] = @ \ {t}]
  /\ UNCHANGED <<current, status>>

Retire(S) ==
  /\ current' = [s \in Slugs |-> IF s \in S THEN NoEntry ELSE current[s]]
  /\ status' = Retiring({current[s] : s \in S} \ {NoEntry})
  /\ UNCHANGED users

Close(e) ==
  /\ status[e] = "retired"
  /\ users[e] = {}
  /\ status' = [status EXCEPT ![e] = "closed"]
  /\ UNCHANGED <<current, users>>

Next ==
  \/ \E s \in Slugs, e \in Entries, t \in Threads : Replace(s, e, t)
  \/ \E s \in Slugs, t \in Threads : Share(s, t)
  \/ \E e \in Entries, t \in Threads : Leave(e, t)
  \/ \E S \in SUBSET Slugs : Retire(S)
  \/ \E e \in Entries : Close(e)

Spec == Init /\ [][Next]_vars

=============================================================================
