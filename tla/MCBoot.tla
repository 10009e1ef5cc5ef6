------------------------------- MODULE MCBoot -------------------------------
(* Two USB disks, each with a partition table that may overlap itself, and a *)
(* floppy drive; four disks in the run that fills the device table.          *)
EXTENDS Boot

MCExtents == {[start |-> 1, size |-> 2], [start |-> 2, size |-> 2], [start |-> 3, size |-> 1]}

OneExtent == {[start |-> 1, size |-> 1]}
=============================================================================
