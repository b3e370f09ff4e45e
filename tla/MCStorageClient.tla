-------------------------- MODULE MCStorageClient --------------------------
(***************************************************************************)
(* Two requests over three tables, two of which break a rule; the second   *)
(* request meets what the first one left.                                  *)
(***************************************************************************)
EXTENDS StorageClient

CONSTANTS orders, lineitem, region
=============================================================================
