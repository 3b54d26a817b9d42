----------------------------- MODULE MCPresence -----------------------------
(* Instance of Presence for TLC. *)
EXTENDS Presence
=============================================================================
