------------------------------ MODULE MCJournal ------------------------------
(* Model-checking instance of NetworkJournal. *)
EXTENDS NetworkJournal
=============================================================================
