--------------------------- MODULE MCSQLiteStore ----------------------------
(* Checking SQLiteStore: its constants are numbers the cfg gives. *)
EXTENDS SQLiteStore
=============================================================================
