---------------------------- MODULE MCLogExporter ----------------------------
(* Small instances of LogExporter. *)
EXTENDS LogExporter

CONSTANTS t1, t2
=============================================================================
