--------------------------- MODULE MCDatastoreSql ---------------------------
(***************************************************************************)
(* A small instance of DatastoreSql: any table of up to three rows that    *)
(* describe two things, read in pages of two rows by each of the readers.  *)
(***************************************************************************)
EXTENDS DatastoreSql

CONSTANTS a, b, q1, q2
=============================================================================
