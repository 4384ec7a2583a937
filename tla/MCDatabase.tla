----------------------------- MODULE MCDatabase -----------------------------
(***************************************************************************)
(* Values for the constants of Database: every table has every index.       *)
(***************************************************************************)
EXTENDS Database, TLC

MCIndexesOf == [t \in Tables |-> IndexNames]
=============================================================================
