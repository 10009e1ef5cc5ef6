------------------------------- MODULE UsbBus -------------------------------
(***************************************************************************)
(* How the system finds its USB devices: the PCI functions are listed      *)
(* (drivers/bus/pci.c), the USB 2 controllers give up their ports          *)
(* (usb/ehci.c), each USB 1 controller is reset and the devices at its two *)
(* ports are enumerated (usb/uhci.c), and those that are disks are set up  *)
(* (block/usb_storage.c).                                                  *)
(*                                                                         *)
(* A device answers at address 0 from the reset of its port until it is    *)
(* given another.  The driver has to see to it that no two do.  A control  *)
(* transfer is one action: the driver waits for it and nothing else uses   *)
(* the bus.  It may fail at any packet.  Descriptors are counted in pieces *)
(* of 8 bytes, the smallest packet.                                        *)
(*                                                                         *)
(* Without a file system or a shell the kernel ends in its echo mode,      *)
(* where "loadusb" enumerates the devices again.                           *)
(***************************************************************************)
EXTENDS Integers, Sequences, FiniteSets

CONSTANTS Bus,       \* the PCI functions in the order they are looked at
          NoDevice,
          Plugs,     \* what may be plugged in: functions from Places to kinds
          Earlier,   \* a disk of an earlier boot
          Memories,  \* what the memory of an entry of usb_devices may hold
          MAX_USB,   \* usb_devices has 4 entries
          MAX_PCI,   \* pci_devices has 32
          MAX_CONTROLLERS   \* uhci_controllers and ehci_controllers have 16

Functions == {"absent", "other", "ehci", "uhci"}

\* The ports: a controller's position on the bus and a port number.
Places == {f \in 1..Len(Bus) : Bus[f] = "uhci"} \X {0, 1}

\* A kind of device: pieces in a packet of its control endpoint and in its
\* configuration descriptor, its configurations, and its units if it is a
\* disk, else 0.  Nine bytes say how many interfaces there are.  A disk has
\* one and two endpoints to describe.
IsKind(k) == /\ k.packet \in {1, 2, 4, 8} /\ k.total \in Nat \ {0, 1}
             /\ k.configurations \in Nat \ {0} /\ k.units \in 0..16
             /\ k.units > 0 => k.total >= 4

Those(kinds) == {f \in DOMAIN Bus : Bus[f] \in kinds}

\* The tables of functions and controllers are taken to suffice: no limit is
\* looked at, and what is written past them is not modelled.
ASSUME BusAssumption == /\ Bus \in Seq(Functions)
                        /\ \E f \in DOMAIN Bus : Bus[f] # "absent"
                        /\ Cardinality(Those(Functions \ {"absent"})) <= MAX_PCI
                        /\ \A kind \in {"uhci", "ehci"} :
                             Cardinality(Those({kind})) <= MAX_CONTROLLERS
                        /\ MAX_USB \in Nat
                        /\ \A plug \in Plugs : \A p \in Places :
                             plug[p] = NoDevice \/ IsKind(plug[p])

\* The most pieces of a configuration descriptor that are kept apart.
MaxPieces == 12

\* Memory holds anything: usb_devices is not initialised, nor is .bss.
ASSUME MemoryAssumption == /\ Earlier \notin Places
                           /\ \A memory \in Memories : DOMAIN memory = 1..MaxPieces

VARIABLES pc, i,        \* what is done, and to which function or device
          port,         \* the port under enumeration
          pciDevices,   \* the functions found
          routed,       \* the USB 2 controllers have the ports
          plugged,      \* the device at each port
          enabled,      \* the port is enabled
          address,      \* the address of the device
          described,    \* the device whose descriptor was read last
          booting,      \* this is the enumeration at the start
          earlier,      \* how many entries those before have left behind
          usbDevices,   \* usb_devices from there on
          disks,        \* the devices set up by usb_storage_init
          failed,       \* history: something has failed
          left          \* history: places where enumeration ended with an
                        \* enabled port and the device not at an address
                        \* under which the table has it

bus == <<pciDevices, routed, plugged, booting, earlier>>
ports == <<enabled, address>>
vars == <<pc, i, port, bus, ports, described, usbDevices, disks, failed, left>>

Here == <<pciDevices[i], port>>

Connected(p) == plugged[p] # NoDevice /\ ~routed

\* The devices that answer at an address.
Responders(controller, a, en, ad) ==
  {p \in Places : p[1] = controller /\ Connected(p) /\ en[p] /\ ad[p] = a}

\* The next one of a list, and after the last what comes then.
Step(end, now, after) == IF i < end THEN i' = i + 1 /\ pc' = now
                                    ELSE i' = 1 /\ pc' = after

-----------------------------------------------------------------------------
(* PCI and USB 2 *)

Init == /\ pc = "scan" /\ i = 1 /\ port = 0
        /\ pciDevices = <<>>
        /\ routed \in {FALSE, \E f \in 1..Len(Bus) : Bus[f] = "ehci"}
        /\ plugged \in Plugs
        /\ enabled \in {[p \in Places |-> b] : b \in BOOLEAN}
        /\ address = [p \in Places |-> 0]
        /\ described = NoDevice
        /\ booting = TRUE /\ earlier = 0
        /\ usbDevices = <<>> /\ disks = <<>>
        /\ failed = FALSE /\ left = {}

\* pci_check_device.
CheckFunction == /\ pc = "scan" /\ i <= Len(Bus)
                 /\ pciDevices' = IF Bus[i] = "absent" THEN pciDevices ELSE Append(pciDevices, i)
                 /\ i' = i + 1
                 /\ UNCHANGED <<pc, port, routed, plugged, booting, earlier, ports, described,
                                usbDevices, disks, failed, left>>

ScanDone == /\ pc = "scan" /\ i > Len(Bus)
            /\ pc' = "ehci" /\ i' = 1
            /\ UNCHANGED <<port, bus, ports, described, usbDevices, disks, failed, left>>

\* Fault: the ports stay with the USB 2 controllers.
EhciKept == /\ pc = "ehci"
            /\ Step(Len(pciDevices), "ehci", "uhci")
            /\ UNCHANGED <<port, bus, ports, described, usbDevices, disks, failed, left>>

\* usb_ehci_init, which disables every controller it finds.
Ehci == /\ pc = "ehci"
        /\ routed' = (routed /\ Bus[pciDevices[i]] # "ehci")
        /\ Step(Len(pciDevices), "ehci", "uhci")
        /\ UNCHANGED <<port, pciDevices, plugged, booting, earlier, ports, described,
                       usbDevices, disks, failed, left>>

-----------------------------------------------------------------------------
(* usb_uhci_init: the controllers one after another *)

\* Disks are only looked for at the start.
NextController ==
  Step(Len(pciDevices), "uhci", IF booting /\ usbDevices # <<>> THEN "storage" ELSE "done")

NotUhci == /\ pc = "uhci" /\ Bus[pciDevices[i]] # "uhci"
           /\ NextController
           /\ UNCHANGED <<port, bus, ports, described, usbDevices, disks, failed, left>>

\* The registers are not as they should be, or the controller does not come
\* out of its reset.
ControllerFails == /\ pc = "uhci" /\ Bus[pciDevices[i]] = "uhci"
                   /\ NextController
                   /\ failed' = TRUE
                   /\ enabled' = [p \in Places |-> enabled[p] /\ p[1] # pciDevices[i]]
                   /\ UNCHANGED <<port, bus, address, described, usbDevices, disks, left>>

\* All devices of the controller are reset and its ports disabled.
ResetController == /\ pc = "uhci" /\ Bus[pciDevices[i]] = "uhci"
                   /\ pc' = "port" /\ port' = 0
                   /\ enabled' = [p \in Places |-> enabled[p] /\ p[1] # pciDevices[i]]
                   /\ address' = [p \in Places |-> IF p[1] = pciDevices[i] THEN 0 ELSE address[p]]
                   /\ UNCHANGED <<i, bus, described, usbDevices, disks, failed, left>>

\* The next port, or the next controller.
NextPort == /\ IF port = 0 THEN port' = 1 /\ pc' = "port" /\ UNCHANGED i
                           ELSE NextController /\ UNCHANGED port
            /\ left' = IF enabled'[Here] /\ ~\E k \in DOMAIN usbDevices' :
                                             /\ usbDevices'[k].place = Here
                                             /\ usbDevices'[k].address = address'[Here]
                         THEN left \cup {Here} ELSE left

\* uhci_reset_port.
NotConnected == /\ pc = "port" /\ ~Connected(Here)
                /\ UNCHANGED <<bus, ports, described, usbDevices, disks, failed>>
                /\ NextPort

ResetPort == /\ pc = "port" /\ Connected(Here)
             /\ enabled' = [enabled EXCEPT ![Here] = TRUE]
             /\ address' = [address EXCEPT ![Here] = 0]
             /\ pc' = "describe"
             /\ UNCHANGED <<i, port, bus, described, usbDevices, disks, failed, left>>

\* It is not seen enabled in time.
ResetPortFails == /\ pc = "port" /\ Connected(Here)
                  /\ \E late \in BOOLEAN : enabled' = [enabled EXCEPT ![Here] = late]
                  /\ address' = [address EXCEPT ![Here] = 0]
                  /\ failed' = TRUE
                  /\ UNCHANGED <<bus, described, usbDevices, disks>>
                  /\ NextPort

-----------------------------------------------------------------------------
(* uhci_get_device_descriptor: at address 0 *)

\* The 18 bytes are asked for in one packet, which suffices if it takes 32.
\* If not, they are asked for again in packets of 8, and a device that sends
\* more in one makes the controller stop.
CanDescribe(kind) == kind.packet # 2

Described == /\ pc = "describe"
             /\ \E p \in Responders(pciDevices[i], 0, enabled, address) :
                  /\ CanDescribe(plugged[p])
                  /\ described' = p
             /\ pc' = "check"
             /\ UNCHANGED <<i, port, bus, ports, usbDevices, disks, failed, left>>

DescribeFails == /\ pc = "describe"
                 /\ failed' = (failed \/ CanDescribe(plugged[Here]))
                 /\ UNCHANGED <<bus, ports, described, usbDevices, disks>>
                 /\ NextPort

\* Only devices with a single configuration are supported: continue.
ManyConfigurations == /\ pc = "check" /\ plugged[described].configurations # 1
                      /\ UNCHANGED <<bus, ports, described, usbDevices, disks, failed>>
                      /\ NextPort

-----------------------------------------------------------------------------
(* Registration *)

Taken == {usbDevices[k].address : k \in {d \in DOMAIN usbDevices :
                                           usbDevices[d].place[1] = pciDevices[i]}}

\* Fault: the search starts at 0.
FreeIdFromZero == CHOOSE id \in 0..126 \ Taken : \A free \in 0..126 \ Taken : id <= free

\* Fault: addresses are not looked up.
FreeIdFirst == 1

\* The first address without a device: controller->devices.
FreeId == CHOOSE id \in 1..126 \ Taken : \A free \in 1..126 \ Taken : id <= free

\* The port is reset a second time, the outcome of which is not looked at.
\* Then any device at address 0 may take the new one.
TakeAddress(again) ==
  LET reset == [address EXCEPT ![Here] = 0]
  IN /\ enabled' = [enabled EXCEPT ![Here] = again]
     /\ \E taken \in SUBSET Responders(pciDevices[i], 0, enabled', reset) :
          address' = [p \in Places |-> IF p \in taken THEN FreeId ELSE reset[p]]

\* uhci_set_address returns FAILURE, and nothing is registered.  The device
\* may have taken the address all the same: when the driver gives up the
\* queue is still linked, for a millisecond after it has last looked.
AddressFails == /\ pc = "check" /\ plugged[described].configurations = 1
                /\ \E again \in BOOLEAN : TakeAddress(again)
                /\ failed' = TRUE
                /\ UNCHANGED <<bus, described, usbDevices, disks>>
                /\ NextPort

Zero == [of |-> NoDevice, piece |-> 0]

\* It passes too if only the end of the transfer has broken: then no device
\* has taken the address.  The entry is what its memory held before but for
\* what is written here.  usb_devices is not guarded.
SetAddress ==
  /\ pc = "check" /\ plugged[described].configurations = 1
  /\ \E again \in BOOLEAN :
       /\ TakeAddress(again)
       /\ Responders(pciDevices[i], 0, enabled', [address EXCEPT ![Here] = 0]) # {}
       /\ failed' = (failed \/ ~again)
  /\ IF earlier + Len(usbDevices) = MAX_USB
       THEN pc' = "undefined" /\ UNCHANGED usbDevices
       ELSE /\ pc' = "configuration"
            /\ \E memory \in Memories :
                 usbDevices' = Append(usbDevices,
                   [place |-> Here, address |-> FreeId, descriptor |-> described,
                    configuration |-> memory,
                    before |-> memory,   \* history
                    whole |-> FALSE])    \* history: every packet has arrived
  /\ UNCHANGED <<i, port, bus, described, disks, left>>

-----------------------------------------------------------------------------
(* uhci_execute_transaction: reading a configuration descriptor *)

Lesser(a, b) == IF a < b THEN a ELSE b
PacketsFor(length, packet) == (length + packet - 1) \div packet

\* Fault: the packets are put a packet apart, and the first one too.
BufferOffsetLate(k) == k
BufferOffset(k) == k - 1   \* 8 bytes apart, whatever they hold

\* The buffer after packets 1..n of p's descriptor, in packets of the given
\* size, were written over it.
Stored(buffer, p, size, n) ==
  LET covers(k, q) == q - BufferOffset(k) \in 1..Lesser(size, plugged[p].total - (k - 1) * size)
  IN [q \in DOMAIN buffer |->
        LET packets == {k \in 1..n : covers(k, q)}
            last    == CHOOSE k \in packets : \A other \in packets : other <= k
        IN IF packets = {} THEN buffer[q]
           ELSE [of |-> p, piece |-> (last - 1) * size + q - BufferOffset(last)]]

Last == usbDevices[Len(usbDevices)]

\* uhci_get_configuration_descriptor: one packet, and if that is not all the
\* whole again.  It may end after any packet, and its result is not looked
\* at.  Without a device of the size expected there is no answer.
ReadConfiguration ==
  /\ pc = "configuration"
  /\ \/ UNCHANGED usbDevices /\ failed' = TRUE
     \/ \E p \in Responders(pciDevices[i], Last.address, enabled, address) :
          LET kind  == plugged[p]
              first == Stored(Last.configuration, p, kind.packet, 1)
              rest  == PacketsFor(kind.total, kind.packet)
          IN /\ kind.packet = plugged[Last.descriptor].packet
             /\ \E n \in IF kind.total <= kind.packet THEN {1} ELSE 0..rest :
                  /\ usbDevices' = [usbDevices EXCEPT
                       ![Len(usbDevices)].configuration = Stored(first, p, kind.packet, n),
                       ![Len(usbDevices)].whole = ~(n < rest)]
                  /\ failed' \in IF n < rest THEN {TRUE} ELSE {failed, TRUE}
  /\ UNCHANGED <<bus, ports, described, disks>>
  /\ NextPort

-----------------------------------------------------------------------------
(* usb_storage_init *)

\* The second to the fourth piece have the one interface looked at and its
\* endpoints, the first says that there is one.
IsDisk(device) ==
  /\ device.configuration[1].piece = 1
  /\ \A q \in 2..4 : LET piece == device.configuration[q]
                     IN /\ piece.piece = q
                        /\ \/ piece.of = Earlier
                           \/ piece.of \in Places /\ Connected(piece.of)
                              /\ plugged[piece.of].units > 0

\* usb_storage_check_device.
NotADisk == /\ pc = "storage" /\ ~IsDisk(usbDevices[i])
            /\ Step(Len(usbDevices), "storage", "done")
            /\ UNCHANGED <<port, bus, ports, described, usbDevices, disks, failed, left>>

\* usb_storage_setup_device: the configuration is set, and whether that works
\* is not looked at; one unit if get_max_lun fails.
SetupDisk ==
  /\ pc = "storage" /\ IsDisk(usbDevices[i])
  /\ \/ /\ disks' = Append(disks, [device |-> i, units |-> 1])
        /\ failed' = TRUE
     \/ \E p \in Responders(usbDevices[i].place[1], usbDevices[i].address, enabled, address) :
          /\ disks' = Append(disks, [device |-> i, units |-> IF plugged[p].units > 0
                                                              THEN plugged[p].units ELSE 1])
          /\ failed' \in {failed, TRUE}
  /\ Step(Len(usbDevices), "storage", "done")
  /\ UNCHANGED <<port, bus, ports, described, usbDevices, left>>

-----------------------------------------------------------------------------
(* loadusb, in the echo mode of the kernel *)

\* usb_uhci_init once more, with whatever is plugged in by then.  It takes new
\* structures for the controllers, but usb_device_count goes on.
LoadUsb == /\ pc = "done"
           /\ pc' = "uhci" /\ i' = 1
           /\ plugged' \in Plugs
           /\ booting' = FALSE /\ earlier' = earlier + Len(usbDevices)
           /\ usbDevices' = <<>> /\ disks' = <<>> /\ failed' = FALSE /\ left' = {}
           /\ described' = NoDevice
           /\ UNCHANGED <<port, pciDevices, routed, ports>>

Next == \/ CheckFunction \/ ScanDone \/ Ehci
        \/ NotUhci \/ ControllerFails \/ ResetController
        \/ NotConnected \/ ResetPort \/ ResetPortFails
        \/ Described \/ DescribeFails \/ ManyConfigurations
        \/ AddressFails \/ SetAddress \/ ReadConfiguration
        \/ NotADisk \/ SetupDisk \/ LoadUsb

Spec == Init /\ [][Next]_vars

-----------------------------------------------------------------------------
(* Properties *)

TypeOK == /\ pc \in {"scan", "ehci", "uhci", "port", "describe", "check", "configuration",
                     "storage", "done", "undefined"}
          /\ i \in 1..Len(Bus)+1 \/ (pc = "storage" /\ i \in DOMAIN usbDevices)
          /\ port \in {0, 1}
          /\ pciDevices \in Seq(1..Len(Bus))
          /\ routed \in BOOLEAN /\ plugged \in Plugs
          /\ enabled \in [Places -> BOOLEAN] /\ address \in [Places -> 0..126]
          /\ described \in Places \cup {NoDevice}
          /\ booting \in BOOLEAN /\ earlier \in Nat
          /\ earlier + Len(usbDevices) <= MAX_USB
          /\ \A k \in DOMAIN usbDevices : /\ usbDevices[k].place \in Places
                                          /\ usbDevices[k].address \in 1..126
                                          /\ usbDevices[k].descriptor \in Places
          /\ \A k \in DOMAIN disks : disks[k].device \in DOMAIN usbDevices /\ disks[k].units \in 1..16
          /\ failed \in BOOLEAN /\ left \subseteq Places

\* Enumeration went well up to this place of its controller: no device was
\* left at address 0 or at an address that is taken for free.  What comes
\* after a device that was left is excluded below: it answers together with
\* the next one.
Undisturbed(p) == \A q \in left : q[1] = p[1] => q[2] > p[2]

\* A device that was registered is the only one at its address, and is where
\* the driver has it, whatever happens to the other port of its controller
\* and to the other controllers afterwards.
RegisteredRight ==
  \A k \in DOMAIN usbDevices :
    LET d == usbDevices[k]
    IN Undisturbed(d.place) /\ pc # "configuration" /\ pc # "undefined" =>
         Responders(d.place[1], d.address, enabled, address) = {d.place}

\* The device descriptor kept for a device is its own.  Each piece of the
\* configuration is its own, and where it belongs, or what memory held there
\* before; after a read without a failure all of them are its own.  Where a
\* packet has more than 8 bytes the configuration has to fit into one: the
\* packets are stored 8 bytes apart, which a TODO of the code admits
\* (uhci.c:709).
DescriptorsRight ==
  \A k \in DOMAIN usbDevices :
    LET d == usbDevices[k]
        kind == plugged[d.place]
    IN Undisturbed(d.place) /\ pc # "configuration" /\ pc # "undefined" =>
         /\ d.descriptor = d.place
         /\ kind.packet = 1 \/ kind.total <= kind.packet =>
              \A q \in DOMAIN d.configuration :
                LET own == [of |-> d.place, piece |-> q]
                IN /\ d.configuration[q] \in {d.before[q], own}
                   /\ d.whole /\ q <= kind.total => d.configuration[q] = own

\* If nothing fails every device that is supported is registered, and at the
\* start every disk among them is set up with all its units, once, and
\* nothing but the disks is, whatever the entries held before.  Not supported
\* are devices with more than one configuration or packets of 16 bytes, and
\* disks whose configuration does not fit.
EnumerationComplete ==
  pc = "done" /\ ~failed =>
    \A p \in Places :
      LET kind == plugged[p]
          registered == {k \in DOMAIN usbDevices : usbDevices[k].place = p}
          setUp == {k \in DOMAIN disks : usbDevices[disks[k].device].place = p}
      IN kind # NoDevice /\ Undisturbed(p) =>
           /\ Cardinality(registered) = 1
           /\ booting /\ (kind.packet = 1 \/ kind.total <= kind.packet) =>
                IF kind.units = 0 THEN setUp = {}
                ELSE Cardinality(setUp) = 1 /\ \A k \in setUp : disks[k].units = kind.units
=============================================================================
