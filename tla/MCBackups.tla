------------------------------- MODULE MCBackups -------------------------------
(* TLC instance of Backups: model values come from the cfg files.              *)
EXTENDS Backups
================================================================================
