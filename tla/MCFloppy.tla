------------------------------ MODULE MCFloppy ------------------------------
(* Three sectors of a disk with two sectors to a track: two on one cylinder  *)
(* and both heads, and one on another.  The delays keep the proportions of   *)
(* the driver's, 36 : 100 : 200 : 300 ticks.                                 *)
EXTENDS Floppy
=============================================================================
