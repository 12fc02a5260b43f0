--------------------------- MODULE MCSaveProtocol ----------------------------
(* Instances of SaveProtocol for TLC. *)
EXTENDS SaveProtocol

=============================================================================
