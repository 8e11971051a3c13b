------------------------------ MODULE MCBackup ------------------------------
(***************************************************************************)
(* A small instance of Backup for TLC.                                     *)
(***************************************************************************)
EXTENDS Backup
=============================================================================
