---------------------------- MODULE MCRemoraCore ----------------------------
(* RemoraCore on small instances; each .cfg chooses an interface.          *)
EXTENDS RemoraCore
=============================================================================
