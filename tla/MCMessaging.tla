---------------------------- MODULE MCMessaging -----------------------------
(* One Join, with a few requests of other nodes in between. *)
EXTENDS Messaging
=============================================================================
