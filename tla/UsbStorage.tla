----------------------------- MODULE UsbStorage -----------------------------
(***************************************************************************)
(* The USB mass storage driver (drivers/block/usb_storage.c) over the bulk *)
(* transactions of the host controller driver (drivers/bus/usb/uhci.c):    *)
(* the units of a device are identified, their capacities asked for in up  *)
(* to three attempts, they are registered as disks, and blocks are read.   *)
(*                                                                         *)
(* A command is three transactions: the command block, the data and the    *)
(* status.  The controller carries out the packets of a transaction while  *)
(* the driver waits for the last of them.  The device may take its time,   *)
(* refuse, or be in the middle of an earlier command that the driver has   *)
(* given up.  Nothing in a command or a status tells one from another: the *)
(* tag is always 0.                                                        *)
(***************************************************************************)
EXTENDS Integers, Sequences

CONSTANTS MAX_LUN,    \* the units a device may have: 0..15
          SizesOf,    \* what their block sizes may be, in packets
          Junk,       \* what the stack may hold in place of one
          Requests,   \* what is read: [lba, blocks]
          ATTEMPTS    \* 3

Lun == 0..MAX_LUN

MAX_CSW == 13   \* the length of a command status wrapper

ASSUME UsbAssumption == /\ MAX_LUN \in 0..15
                        /\ SizesOf \subseteq [Lun -> Nat \ {0}]
                        /\ Junk \subseteq Nat /\ Junk # {}
                        /\ \A r \in Requests : r.lba \in Nat /\ r.blocks \in Nat \ {0}
                        /\ ATTEMPTS \in Nat \ {0}

VARIABLES at,         \* the command the driver is in, "idle" or "start"
          phase,      \* the transaction of the command: "command", "data", "status"
          command,    \* the command block
          lunCount,   \* of setup_device
          attempt,    \* of setup_device
          blockSize,  \* block_size of the UsbStorageDevice, one for all units
          toggle,     \* toggle of the endpoints "in" and "out"
          queue,      \* the packets the controller has still to carry out
          halted,     \* the controller has stopped at the first of them
          first,      \* whether the length of the first packet says that there was data
          buffer,     \* where the packets of this transaction arrive
          data,       \* the caller's buffer: the packets of the data phase
          disks,      \* the units registered, in order, with their block size
          result,     \* what the last read returned
          dev,        \* the device
          trouble     \* history: the worst that has happened to a transaction.
                      \* "failed": it was not carried out; "lost": nor was that
                      \* the end of it, data was lost or the device left waiting

vars == <<at, phase, command, lunCount, attempt, blockSize, toggle, queue, halted,
          first, buffer, data, disks, result, dev, trouble>>

host == <<at, phase, command, lunCount, attempt, blockSize, toggle, data, disks,
          result>>

NoCommand == [op |-> "none", lun |-> 0, lba |-> 0, blocks |-> 0, length |-> 0]

NoResult == [status |-> "none", data |-> <<>>]

Inquiry(lun) == [op |-> "inquiry", lun |-> lun, lba |-> 0, blocks |-> 0, length |-> 1]
ReadCapacity(lun) == [op |-> "capacity", lun |-> lun, lba |-> 0, blocks |-> 0, length |-> 1]
RequestSense(lun) == [op |-> "sense", lun |-> lun, lba |-> 0, blocks |-> 0, length |-> 1]

\* scsi_read_10: the length is that of as many blocks of the one size kept.
Read10(lun, r) == [op |-> "read", lun |-> lun, lba |-> r.lba, blocks |-> r.blocks,
                   length |-> r.blocks * blockSize]

\* Bytes in a packet of the data phase.
PacketSize(op) == CASE op = "inquiry" -> 36 [] op = "capacity" -> 8
                    [] op = "sense" -> 18 [] op = "read" -> 64

Empty == [kind |-> "empty", lun |-> 0, lba |-> 0, part |-> 0, size |-> 0]
Cut(packet) == [packet EXCEPT !.kind = "padding"]
Status(passed) == [Empty EXCEPT !.kind = IF passed THEN "passed" ELSE "refused", !.size = MAX_CSW]

-----------------------------------------------------------------------------
(* The device *)

\* The k-th packet that the device sends for a command.  What it has nothing
\* for is padding: of a command it refuses and beyond the blocks asked for.
DataPacket(c, k, passed) ==
  LET size == dev.sizes[c.lun]
      kind == IF ~passed \/ (c.op = "read" /\ k >= c.blocks * size) THEN "padding" ELSE c.op
  IN [kind |-> kind, lun |-> c.lun, size |-> PacketSize(c.op),
      lba |-> IF kind = "read" THEN c.lba + k \div size ELSE 0,
      part |-> IF kind = "read" THEN k % size ELSE 0]

\* It is sent less than its blocks have: the device reports a phase error.
TooShort(c) == c.op = "read" /\ c.length < c.blocks * dev.sizes[c.lun]

Taking(c, passed) == [dev EXCEPT !.stage = "data", !.cmd = c, !.sent = 0,
                                 !.passed = passed /\ ~TooShort(c)]

\* The packet on offer, and the device after it was sent.
Offered == IF dev.stage = "data" THEN DataPacket(dev.cmd, dev.sent, dev.passed)
                                 ELSE Status(dev.passed)

\* After the status comes the command that was held, if there is one.
AfterSending ==
  IF dev.stage = "data"
    THEN {[dev EXCEPT !.in = 1 - @, !.sent = @ + 1,
                      !.stage = IF dev.sent + 1 = dev.cmd.length THEN "status" ELSE "data"]}
    ELSE IF dev.held = NoCommand
           THEN {[dev EXCEPT !.in = 1 - @, !.stage = "ready", !.cmd = NoCommand, !.sent = 0,
                            !.passed = TRUE]}
           ELSE {[Taking(dev.held, passed) EXCEPT !.in = 1 - @, !.held = NoCommand] :
                   passed \in BOOLEAN}

-----------------------------------------------------------------------------
(* The controller carries out the first packet of the queue *)

PacketDone == /\ queue' = Tail(queue)
              /\ first' = IF first = "unset" THEN "some" ELSE first
              /\ UNCHANGED halted

\* The length is written as none, or is left at the 0 that the driver has put
\* there, which says one byte.
Stopped == /\ halted' = TRUE
           /\ first' \in {first, "some"}
           /\ UNCHANGED queue

\* The device takes a command for which it is ready, or gives up the one it
\* is in for it, or holds it beside that.
CommandTaken ==
  /\ queue # <<>> /\ ~halted /\ Head(queue).pid = "out" /\ Head(queue).toggle = dev.out
  /\ \/ \E passed \in BOOLEAN :
           dev' = [Taking(command, passed) EXCEPT !.out = 1 - @, !.held = NoCommand]
     \/ /\ dev.stage # "ready" /\ dev.held = NoCommand
        /\ dev' = [dev EXCEPT !.out = 1 - @, !.held = command]
  /\ PacketDone
  /\ UNCHANGED <<host, buffer, trouble>>

\* With the wrong toggle it looks like one that has arrived before, and is
\* acknowledged and thrown away.
CommandDiscarded ==
  /\ queue # <<>> /\ ~halted /\ Head(queue).pid = "out" /\ Head(queue).toggle # dev.out
  /\ PacketDone
  /\ UNCHANGED <<host, buffer, dev, trouble>>

\* The device sends.  With the wrong toggle the controller throws the packet
\* away and waits for another; one that is too long makes it stop, with or
\* without having stored the beginning.
PacketSent ==
  /\ queue # <<>> /\ ~halted /\ Head(queue).pid = "in" /\ dev.stage # "ready"
  /\ dev' \in AfterSending
  /\ \/ /\ Head(queue).toggle = dev.in /\ Offered.size <= Head(queue).max
        /\ buffer' = Append(buffer, Offered)
        /\ PacketDone
     \/ /\ Head(queue).toggle = dev.in /\ Offered.size > Head(queue).max
        /\ buffer' \in {buffer, Append(buffer, Cut(Offered))}
        /\ Stopped
     \/ /\ Head(queue).toggle # dev.in
        /\ UNCHANGED <<buffer, queue, first, halted>>
  /\ UNCHANGED <<host, trouble>>

\* The device stalls, or the bus fails three times.
PacketBreaks == /\ queue # <<>> /\ ~halted
                /\ Stopped
                /\ UNCHANGED <<host, buffer, dev, trouble>>

-----------------------------------------------------------------------------
(* uhci_execute_bulk_transaction *)

\* n packets with alternating toggles.
Packets(pid, n, max, from) == [k \in 1..n |-> [pid |-> pid, toggle |-> (from + k - 1) % 2, max |-> max]]

\* The toggle of the endpoint is advanced for each of them in advance.
Execute(pid, n, max) ==
  /\ queue' = Packets(pid, n, max, toggle[pid])
  /\ toggle' = [toggle EXCEPT ![pid] = (@ + n) % 2]
  /\ halted' = FALSE
  /\ first' = "unset"
  /\ buffer' = <<>>

\* A command begins with its command block.
Issue(c) == /\ at' = c.op
            /\ command' = c
            /\ phase' = "command"
            /\ data' = <<>>
            /\ Execute("out", 1, 31)

\* The wait ends when the last packet is done: the queue is empty, or the
\* controller has stopped at the last one.
LastDone == queue = <<>> \/ (halted /\ Len(queue) = 1)

\* The first packet is done and carried nothing.
NothingFirst == halted /\ first = "unset"

Succeeded == LastDone /\ ~NothingFirst

-----------------------------------------------------------------------------
(* The commands and their callers *)

\* Fault: the toggles are reset with the command.
QuietReset == /\ queue' = <<>>
              /\ halted' = FALSE
              /\ first' = "unset"
              /\ buffer' = <<>>
              /\ phase' = "none"
              /\ command' = NoCommand
              /\ toggle' = [in |-> 0, out |-> 0]

\* No command is under way.
Quiet == /\ queue' = <<>>
         /\ halted' = FALSE
         /\ first' = "unset"
         /\ buffer' = <<>>
         /\ phase' = "none"
         /\ command' = NoCommand
         /\ UNCHANGED toggle

\* The next unit of the loop of setup_device.
NextUnit == IF command.lun + 1 < lunCount
              THEN Issue(Inquiry(command.lun + 1))
              ELSE at' = "idle" /\ data' = <<>> /\ Quiet

\* Fault: one attempt too many.
AttemptsLeftOneMore == attempt < ATTEMPTS
AttemptsLeft == attempt + 1 < ATTEMPTS

\* Fault: attempts are not counted.
AttemptUncounted == attempt
NextAttempt == attempt + 1

\* What the caller does with a command that has failed.
Fails ==
  /\ \/ /\ at = "inquiry"
        /\ NextUnit
        /\ UNCHANGED <<attempt, result>>
     \/ /\ at = "capacity"
        /\ Issue(RequestSense(command.lun))
        /\ UNCHANGED <<attempt, result>>
     \/ /\ at = "sense" /\ AttemptsLeft
        /\ Issue(ReadCapacity(command.lun))
        /\ attempt' = NextAttempt
        /\ UNCHANGED result
     \/ /\ at = "sense" /\ ~AttemptsLeft
        /\ NextUnit
        /\ UNCHANGED <<attempt, result>>
     \/ /\ at = "read"
        /\ at' = "idle"
        /\ result' = [NoResult EXCEPT !.status = "failure"]
        /\ data' = <<>> /\ Quiet
        /\ UNCHANGED attempt
  /\ UNCHANGED <<blockSize, disks>>

\* The block size that is found in a reply to READ CAPACITY.  If something
\* else has arrived, or nothing, it is what was on the stack.
SizesIn(reply) == IF reply # <<>> /\ reply[1].kind = "capacity" THEN {dev.sizes[reply[1].lun]}
                                                                ELSE Junk

\* Fault: the unit is registered before its capacity is known.
PassesEarly ==
  \/ /\ at = "inquiry"
     /\ disks' = Append(disks, [lun |-> command.lun, size |-> blockSize])
     /\ Issue(ReadCapacity(command.lun))
     /\ attempt' = 0
     /\ UNCHANGED <<blockSize, result>>
  \/ /\ at = "capacity"
     /\ blockSize' \in SizesIn(data)
     /\ NextUnit
     /\ UNCHANGED <<attempt, result, disks>>
  \/ /\ at \in {"sense", "read"}
     /\ Fails

\* What the caller does with a command that has passed.
Passes ==
  \/ /\ at = "inquiry"
     /\ Issue(ReadCapacity(command.lun))
     /\ attempt' = 0
     /\ UNCHANGED <<blockSize, disks, result>>
  \/ /\ at = "capacity"
     /\ \E size \in SizesIn(data) :
          /\ blockSize' = size
          /\ disks' = Append(disks, [lun |-> command.lun, size |-> size])
     /\ NextUnit
     /\ UNCHANGED <<attempt, result>>
  \/ /\ at = "sense"
     /\ Fails
  \/ /\ at = "read"
     /\ at' = "idle"
     /\ result' = [status |-> "success", data |-> data]
     /\ data' = <<>> /\ Quiet
     /\ UNCHANGED <<attempt, blockSize, disks>>

Trouble(kind) == trouble' = IF trouble = "lost" THEN trouble ELSE kind

\* The wait for the transaction is over, after a second if nothing else ends
\* it, and it has failed.
TransactionFails == /\ at \notin {"start", "idle"}
                    /\ ~Succeeded
                    /\ Trouble(IF dev.stage = "ready" THEN "failed" ELSE "lost")
                    /\ Fails
                    /\ UNCHANGED <<lunCount, dev>>

\* All that is looked at is that the last packet is done: a transaction whose
\* last packet broke can have succeeded.
Unnoticed(kind) == IF halted THEN Trouble(kind) ELSE UNCHANGED trouble

ToData == /\ phase = "command" /\ Succeeded
          /\ phase' = "data"
          /\ Unnoticed("failed")
          /\ Execute("in", command.length, PacketSize(command.op))
          /\ UNCHANGED <<at, command, lunCount, attempt, blockSize, data, disks, result, dev>>

ToStatus == /\ phase = "data" /\ Succeeded
            /\ phase' = "status"
            /\ Unnoticed("lost")
            /\ data' = buffer
            /\ Execute("in", 1, MAX_CSW)
            /\ UNCHANGED <<at, command, lunCount, attempt, blockSize, disks, result, dev>>

\* Fault: the status is not looked at.
CommandEndsUnchecked == /\ phase = "status" /\ Succeeded
                        /\ Passes
                        /\ Unnoticed("failed")
                        /\ UNCHANGED <<lunCount, dev>>

\* The signature and the status are looked at, the tag is not.
CommandEnds == /\ phase = "status" /\ Succeeded
               /\ IF buffer # <<>> /\ buffer[1].kind = "passed" THEN Passes ELSE Fails
               /\ Unnoticed("failed")
               /\ UNCHANGED <<lunCount, dev>>

\* usb_storage_setup_device: the number of units is taken to be one if it
\* cannot be had.
SetupDevice == /\ at = "start"
               /\ \E n \in {1} \cup {m + 1 : m \in Lun} :
                    lunCount' = n
               /\ Issue(Inquiry(0))
               /\ UNCHANGED <<attempt, blockSize, disks, result, dev, trouble>>

\* usb_storage_read of a disk that was registered.  Of a block size of 0 no
\* descriptor is made, and the memory before them is waited for: not modelled.
Read(disk, r) == /\ at = "idle" /\ blockSize # 0
                 /\ Issue(Read10(disk.lun, r))
                 /\ result' = NoResult
                 /\ UNCHANGED <<lunCount, attempt, blockSize, disks, dev, trouble>>

Init == /\ at = "start" /\ phase = "none" /\ command = NoCommand
        /\ lunCount = 0 /\ attempt = 0 /\ blockSize = 0
        /\ toggle = [in |-> 0, out |-> 0]
        /\ queue = <<>> /\ halted = FALSE /\ first = "unset"
        /\ buffer = <<>> /\ data = <<>> /\ disks = <<>>
        /\ result = NoResult
        /\ \E sizes \in SizesOf :
             dev = [stage |-> "ready", cmd |-> NoCommand, held |-> NoCommand, sent |-> 0,
                    passed |-> TRUE, in |-> 0, out |-> 0, sizes |-> sizes]
        /\ trouble = "none"

Driver == SetupDevice \/ TransactionFails \/ ToData \/ ToStatus \/ CommandEnds

Controller == CommandTaken \/ CommandDiscarded \/ PacketSent \/ PacketBreaks

Next == \/ Driver \/ Controller
        \/ \E k \in DOMAIN disks, r \in Requests : Read(disks[k], r)

Spec == Init /\ [][Next]_vars

\* The driver runs, and its waits have a limit; the device need not answer.
FairSpec == Spec /\ WF_vars(Driver)

-----------------------------------------------------------------------------
(* Properties *)

Ops == {"none", "inquiry", "capacity", "sense", "read"}
Command == [op : Ops, lun : Lun, lba : Nat, blocks : Nat, length : Nat]
Packet == [kind : {"inquiry", "capacity", "sense", "read", "padding", "passed", "refused"},
           lun : Lun, lba : Nat, part : Nat, size : Nat]

TypeOK == /\ at \in (Ops \ {"none"}) \cup {"start", "idle"}
          /\ phase \in {"none", "command", "data", "status"}
          /\ command \in Command
          /\ lunCount \in Nat /\ attempt \in 0..ATTEMPTS-1 /\ blockSize \in Nat
          /\ toggle \in [{"in", "out"} -> 0..1]
          /\ \A k \in DOMAIN queue : queue[k] \in [pid : {"in", "out"}, toggle : 0..1, max : Nat]
          /\ halted \in BOOLEAN /\ first \in {"unset", "some"}
          /\ \A k \in DOMAIN buffer : buffer[k] \in Packet
          /\ Len(buffer) + Len(queue) <= command.length + 1
          /\ \A k \in DOMAIN disks : disks[k] \in [lun : Lun, size : Nat]
          /\ dev.stage \in {"ready", "data", "status"} /\ dev.cmd \in Command
          /\ dev.held \in Command /\ dev.sent \in 0..dev.cmd.length
          /\ dev.in \in 0..1 /\ dev.out \in 0..1 /\ dev.sizes \in SizesOf
          /\ trouble \in {"none", "failed", "lost"}

\* The packets of the blocks that a command asks for.
Blocks(sizes, c) == [k \in 1..c.blocks * sizes[c.lun] |->
                       [kind |-> "read", lun |-> c.lun, lba |-> c.lba + (k - 1) \div sizes[c.lun],
                        part |-> (k - 1) % sizes[c.lun], size |-> PacketSize("read")]]

Key(c) == [lun |-> c.lun, lba |-> c.lba, blocks |-> c.blocks]

Asked == at = "read"

Request == IF Asked THEN Key(command) ELSE NoCommand

Promised == /\ Asked /\ trouble # "lost"
            /\ command.length = command.blocks * dev.sizes[command.lun]

Answered == IF Asked THEN "asked" ELSE IF result = NoResult THEN "idle" ELSE result.status

Answer == IF Asked THEN <<>> ELSE result.data

D == INSTANCE Disk WITH
       disk <- dev.sizes, request <- Request, promised <- Promised, status <- Answered,
       data <- Answer,
       Requests <- [lun : Lun, lba : {r.lba : r \in Requests}, blocks : {r.blocks : r \in Requests}],
       NoRequest <- NoCommand, Contents <- Blocks, Refuses <- TRUE

\* A unit is a Disk.  Whatever was refused or thrown away before, a read that
\* reports success has the blocks of the unit it was for, all of them and in
\* order, if the size kept is that of the unit.  There are two ways out of
\* this.  A transaction was given up while the device was in a command: its
\* answer can pass for that to a later command, as the tag does not tell them
\* apart.  Or the last packet of the data breaks, which is not looked at.
ImplementsDisk == D!Spec

\* As long as every transaction was carried out, commands that the device refuses
\* included, both ends agree between commands: on the toggles, and that the
\* device waits for a command.
InStep == at = "idle" /\ trouble = "none" =>
            /\ toggle["in"] = dev.in /\ toggle["out"] = dev.out
            /\ dev.stage = "ready"

\* Every unit is registered at most once, in order, with its own block size.
UnitsRight == /\ \A k \in 1..Len(disks)-1 : disks[k].lun < disks[k+1].lun
              /\ trouble # "lost" =>
                   \A k \in DOMAIN disks : disks[k].size = dev.sizes[disks[k].lun]

\* Set-up and every read end, whatever the device does.
DriverReturns == []<>(at = "idle")
=============================================================================
