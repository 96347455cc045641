---------------------------- MODULE MCFileData ----------------------------
(* Instances of FileData for TLC: all the constants are given in the configuration. *)
EXTENDS FileData
=============================================================================
