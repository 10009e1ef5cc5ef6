---------------------------- MODULE MCUsbStorage ----------------------------
(* Two units, of one block size or of two; a block is two packets or four,   *)
(* as every real one is an even number of them.                              *)
EXTENDS UsbStorage

MCSizes == {[lun \in Lun |-> 2], [lun \in Lun |-> 2 * (lun + 1)]}
MCJunk == {0, 1}
MCRequests == {[lba |-> 0, blocks |-> 1], [lba |-> 1, blocks |-> 1]}
=============================================================================
