--------------------------- MODULE MCRelayService ---------------------------
(* A subscription, a negentropy session, an event published twice and a     *)
(* COUNT, over at most two sockets at a time.                               *)
EXTENDS RelayService

CONSTANTS sub, session, event, count
=============================================================================
