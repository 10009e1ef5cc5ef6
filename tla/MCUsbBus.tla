------------------------------ MODULE MCUsbBus ------------------------------
(* Two controllers with two ports each and a USB 2 controller between other  *)
(* functions.  Kinds of devices: disks with packets of 64 bytes and of 8,    *)
(* the latter with two units; a disk among several interfaces, whose         *)
(* configuration does not fit; a keyboard; one with packets of 16 bytes and  *)
(* one with two configurations, which are not supported.                     *)
EXTENDS UsbBus

Kind(packet, total, configurations, units) ==
  [packet |-> packet, total |-> total, configurations |-> configurations, units |-> units]

MCBus == <<"other", "uhci", "absent", "uhci", "ehci">>
Disk64 == Kind(8, 4, 1, 1)
Disk8 == Kind(1, 4, 1, 2)
Composite == Kind(4, 7, 1, 1)
Keyboard == Kind(1, 5, 1, 0)
Packets16 == Kind(2, 4, 1, 1)
Configurations2 == Kind(8, 4, 2, 0)

Kinds == {NoDevice, Disk64, Disk8, Composite, Keyboard, Packets16, Configurations2}

\* Anything in either port of the first controller, with a disk in the other,
\* and in the second nothing, or a disk.
MCPlugs == {plug \in [Places -> Kinds] :
              /\ plug[<<2, 0>>] = Disk64 \/ plug[<<2, 1>>] = Disk8
              /\ <<plug[<<4, 0>>], plug[<<4, 1>>]>> \in
                   {<<NoDevice, NoDevice>>, <<NoDevice, Disk8>>}}

\* Entries that are clear, and entries that hold a disk's configuration of the
\* boot before.
MCMemories == {[q \in 1..MaxPieces |-> Zero],
               [q \in 1..MaxPieces |-> IF q <= 4 THEN [of |-> Earlier, piece |-> q] ELSE Zero]}
=============================================================================
