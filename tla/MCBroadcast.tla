---------------------------- MODULE MCBroadcast -----------------------------
(* Instances of Broadcast for TLC. *)
EXTENDS Broadcast

\* Subscribers share no state but the publisher that walks over them, so one
\* connection meets every interleaving with the publishers that there is.
OneTab == {"tab"}

\* A save of a request thread and a tick of the patrol publish at once.
SaveAndPatrol == {"save", "patrol"}

=============================================================================
