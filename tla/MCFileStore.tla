---------------------------- MODULE MCFileStore ----------------------------
(* Two commands and two writes outside, one of each about an archived      *)
(* Mission, for TLC.                                                       *)
EXTENDS FileStore, TLC

CONSTANTS c1, c2, o1, o2
=============================================================================
