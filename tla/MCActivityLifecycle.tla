------------------------- MODULE MCActivityLifecycle -------------------------
(* ActivityLifecycle on a small instance, see the .cfg files. *)
EXTENDS ActivityLifecycle
=============================================================================
