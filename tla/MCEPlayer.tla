---------------------------- MODULE MCEPlayer ----------------------------
(* EPlayer with two files and two play threads: the second file may be     *)
(* opened, and its thread created, while the first file's still runs.      *)
EXTENDS EPlayer
=============================================================================
