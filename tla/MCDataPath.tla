------------------------------ MODULE MCDataPath ------------------------------
(* Model-checking instance of DataPath; the constants are in the .cfg files. *)
EXTENDS DataPath
=============================================================================
