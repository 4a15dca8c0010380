----------------------------- MODULE MCExogQueue -----------------------------
(* ExogQueue on small instances, see the .cfg files. *)
EXTENDS ExogQueue
=============================================================================
