-------------------------- MODULE UsbStorageProofs --------------------------
(***************************************************************************)
(* UsbStorage for every number of units, size of block and request: its    *)
(* types, that both ends stay in step, that the units are right, and that  *)
(* a unit is a Disk.                                                       *)
(*                                                                         *)
(* Nothing in a status says which command it is of.  What keeps an old one *)
(* from being taken for a new one is the toggle of the packet: a status    *)
(* that was left behind has the toggle that the controller does not wait   *)
(* for, so it is thrown away where the data of the next command should     *)
(* come.  One packet that is thrown away later makes the status arrive as  *)
(* the last packet of the data, and then there is none to pass.            *)
(***************************************************************************)
EXTENDS UsbStorage, TLAPS

-----------------------------------------------------------------------------
(* The types *)

Device == [stage : {"ready", "data", "status"}, cmd : Command, held : Command, sent : Nat,
           passed : BOOLEAN, in : 0..1, out : 0..1, sizes : SizesOf]

Queued == [pid : {"in", "out"}, toggle : 0..1, max : Nat]
Unit == [lun : Lun, size : Nat]
Result == [status : {"none", "success", "failure"}, data : Seq(Packet)]

Types == /\ at \in {"start", "idle", "inquiry", "capacity", "sense", "read"}
         /\ phase \in {"none", "command", "data", "status"}
         /\ command \in Command
         /\ lunCount \in 0..MAX_LUN+1 /\ attempt \in 0..ATTEMPTS-1 /\ blockSize \in Nat
         /\ toggle \in [{"in", "out"} -> 0..1]
         /\ queue \in Seq(Queued)
         /\ halted \in BOOLEAN /\ first \in {"unset", "some"}
         /\ buffer \in Seq(Packet) /\ data \in Seq(Packet)
         /\ disks \in Seq(Unit)
         /\ result \in Result
         /\ dev \in Device
         /\ trouble \in {"none", "failed", "lost"}

-----------------------------------------------------------------------------
(* The driver and the controller *)

\* What the driver is in.
DriverRight ==
  /\ at \in {"start", "idle"} <=> phase = "none"
  /\ phase = "none" => /\ command = NoCommand /\ queue = <<>> /\ ~halted
                       /\ buffer = <<>> /\ data = <<>>
  /\ phase # "none" => command.op = at /\ command.length > 0
  /\ at \in {"inquiry", "capacity", "sense"} => command.length = 1 /\ command.lun < lunCount
  /\ at = "start" => disks = <<>>

\* The packets of a transaction.
Total == IF phase = "data" THEN command.length ELSE 1
Space == IF phase = "data" THEN PacketSize(command.op) ELSE MAX_CSW

Alternating(packets) ==
  \A k \in 1..Len(packets)-1 : packets[k+1].toggle = 1 - packets[k].toggle

\* What the controller has still to do.  Toggles alternate, and the one kept
\* is that after the last packet.
QueueRight ==
  /\ phase = "command" =>
       /\ buffer = <<>> /\ Len(queue) <= 1
       /\ \A k \in DOMAIN queue : queue[k].pid = "out" /\ queue[k].toggle = 1 - toggle["out"]
       /\ halted => queue # <<>>
  /\ phase \in {"data", "status"} =>
       /\ \A k \in DOMAIN queue : queue[k].pid = "in" /\ queue[k].max = Space
       /\ Alternating(queue)
       /\ queue # <<>> => queue[Len(queue)].toggle = 1 - toggle["in"]
       /\ Len(queue) <= Total
       /\ ~halted => Len(buffer) + Len(queue) = Total
       /\ halted => /\ Len(queue) > 0
                    /\ Len(buffer) + Len(queue) \in {Total, Total + 1}

-----------------------------------------------------------------------------
(* The device *)

Working(d) ==
  /\ d.stage = "ready" => d.cmd = NoCommand /\ d.held = NoCommand /\ d.sent = 0
  /\ d.stage # "ready" => d.cmd.op # "none"
  /\ d.stage = "data" => d.sent < d.cmd.length
  /\ d.stage = "status" => d.sent = d.cmd.length
  /\ d.held # NoCommand => d.held.length > 0 /\ d.held.op # "none"

DeviceRight == Working(dev)

Ready == dev.stage = "ready"

\* The toggle of the next packet that the controller waits for.
NextIn == IF phase = "command" \/ queue = <<>> THEN toggle["in"] ELSE queue[1].toggle

\* A status that was not fetched: the controller will throw it away.
Leftover == dev.stage = "status" /\ dev.in # NextIn

\* The device is in the command that the driver is in.
Own == ~Ready /\ dev.cmd = command /\ dev.held = NoCommand

\* The packets are the first ones of the command's data.
DataOf(packets, passed) ==
  \A k \in DOMAIN packets : packets[k] = DataPacket(command, k - 1, passed)

AllData(passed) == Len(data) = command.length /\ DataOf(data, passed)

Passed == buffer # <<>> /\ buffer[1].kind = "passed"

\* As long as nothing was lost, these are all the ways in which the device can
\* be at odds with the driver.
Together ==
  \/ /\ phase = "none" \/ (phase = "command" /\ queue # <<>>)
     /\ Ready \/ (Leftover /\ dev.held = NoCommand)
  \/ /\ phase = "command" /\ queue = <<>>
     /\ \/ Ready
        \/ Leftover /\ dev.held \in {NoCommand, command}
        \/ Own /\ dev.stage = "data" /\ dev.sent = 0
  \/ /\ phase = "data"
     /\ \/ Ready
        \/ Leftover /\ dev.held \in {NoCommand, command} /\ buffer = <<>>
        \/ /\ Own /\ Len(buffer) <= dev.sent
           /\ dev.sent = Len(buffer) => /\ DataOf(buffer, dev.passed)
                                        /\ dev.sent > 0 => dev.in = NextIn
  \/ /\ phase = "status"
     /\ \/ Ready /\ (Passed => AllData(TRUE))
        \/ /\ Own /\ dev.stage = "status" /\ dev.in = NextIn /\ AllData(dev.passed)
           /\ buffer = <<>> /\ queue # <<>>

\* As long as every transaction was carried out.
Lockstep ==
  /\ dev.in = NextIn
  /\ dev.out = IF phase = "command" /\ queue # <<>> THEN 1 - toggle["out"] ELSE toggle["out"]
  /\ Ready <=> \/ phase = "none" \/ (phase = "command" /\ queue # <<>>)
               \/ (phase = "status" /\ queue = <<>>)
  /\ phase = "data" => dev.sent = Len(buffer)

InTime == /\ trouble # "lost" => Together
          /\ trouble = "none" /\ ~halted => Lockstep

\* The units registered are those before the one that is being set up.
UnitsBefore ==
  /\ \A k \in DOMAIN disks :
       at \in {"inquiry", "capacity", "sense"} => disks[k].lun < command.lun
  /\ \A k \in 1..Len(disks)-1 : disks[k].lun < disks[k+1].lun
  /\ trouble # "lost" => \A k \in DOMAIN disks : disks[k].size = dev.sizes[disks[k].lun]

UsbInv == Types /\ DriverRight /\ QueueRight /\ DeviceRight /\ InTime /\ UnitsBefore

-----------------------------------------------------------------------------
(* What the operators give *)

LEMMA Sizes ==
  ASSUME dev \in Device, NEW lun \in Lun
  PROVE  dev.sizes \in SizesOf /\ dev.sizes[lun] \in Nat \ {0}
<1>1. dev.sizes \in SizesOf
  BY DEF Device
<1>2. dev.sizes \in [Lun -> Nat \ {0}]
  BY <1>1, UsbAssumption
<1> QED
  BY <1>1, <1>2

LEMMA EmptySeq == \A S : <<>> \in Seq(S)
OBVIOUS

LEMMA OneElement ==
  ASSUME NEW S, NEW s \in Seq(S), Len(s) = 1
  PROVE  s # <<>> /\ 1 \in DOMAIN s /\ s[1] \in S
OBVIOUS

LEMMA NoCommandType == NoCommand \in Command /\ 0 \in Lun
BY UsbAssumption DEF NoCommand, Command, Ops, Lun

LEMMA PacketSizes ==
  ASSUME NEW op \in Ops \ {"none"}
  PROVE  PacketSize(op) \in Nat
BY DEF Ops, PacketSize

LEMMA DataPacketType ==
  ASSUME dev \in Device, NEW c \in Command, c.op # "none", NEW k \in Nat, NEW passed
  PROVE  /\ DataPacket(c, k, passed) \in Packet
         /\ DataPacket(c, k, passed).size = PacketSize(c.op)
         /\ DataPacket(c, k, passed).kind \in {"inquiry", "capacity", "sense", "read", "padding"}
<1> DEFINE size == dev.sizes[c.lun]
           kind == IF ~passed \/ (c.op = "read" /\ k >= c.blocks * size) THEN "padding" ELSE c.op
           lba == IF kind = "read" THEN c.lba + k \div size ELSE 0
           part == IF kind = "read" THEN k % size ELSE 0
<1>1. c.lun \in Lun /\ c.lba \in Nat /\ c.op \in Ops \ {"none"}
  BY DEF Command
<1>2. size \in Nat \ {0}
  BY <1>1, Sizes
<1>3. k \div size \in Nat /\ k % size \in Nat
  BY <1>2
<1> HIDE DEF size
<1>4. kind \in {"inquiry", "capacity", "sense", "read", "padding"}
  BY <1>1 DEF Ops
<1> HIDE DEF kind
<1>5. lba \in Nat /\ part \in Nat
  BY <1>1, <1>3
<1>6. PacketSize(c.op) \in Nat
  BY <1>1, PacketSizes
<1>7. DataPacket(c, k, passed) = [kind |-> kind, lun |-> c.lun, size |-> PacketSize(c.op),
                                  lba |-> lba, part |-> part]
  BY DEF DataPacket, kind, size
<1> HIDE DEF lba, part
<1> QED
  BY <1>1, <1>4, <1>5, <1>6, <1>7 DEF Packet

LEMMA StatusType ==
  ASSUME NEW passed \in BOOLEAN
  PROVE  /\ Status(passed) \in Packet /\ Status(passed).size = MAX_CSW
         /\ Status(passed).kind = IF passed THEN "passed" ELSE "refused"
  BY NoCommandType DEF Status, Empty, Packet, MAX_CSW

LEMMA CutType ==
  ASSUME NEW packet \in Packet
  PROVE  Cut(packet) \in Packet /\ Cut(packet).kind = "padding"
  BY DEF Cut, Packet

LEMMA TakingRight ==
  ASSUME dev \in Device, NEW c \in Command, c.length > 0, c.op # "none", NEW passed \in BOOLEAN
  PROVE  LET d == Taking(c, passed)
         IN /\ d \in Device /\ d.stage = "data" /\ d.cmd = c /\ d.sent = 0
            /\ d.in = dev.in /\ d.out = dev.out /\ d.held = dev.held /\ d.sizes = dev.sizes
<1>1. (passed /\ ~TooShort(c)) \in BOOLEAN
  OBVIOUS
<1> QED
  BY <1>1 DEF Taking, Device

LEMMA SendingRight ==
  ASSUME dev \in Device, DeviceRight, ~Ready, NEW d \in AfterSending
  PROVE  /\ d \in Device /\ Working(d)
         /\ d.in = 1 - dev.in /\ d.out = dev.out /\ d.sizes = dev.sizes
         /\ dev.stage = "data" =>
              /\ d.cmd = dev.cmd /\ d.held = dev.held /\ d.sent = dev.sent + 1
              /\ d.passed = dev.passed
              /\ d.stage = IF d.sent = dev.cmd.length THEN "status" ELSE "data"
         /\ dev.stage = "status" /\ dev.held = NoCommand =>
              d.stage = "ready" /\ d.held = NoCommand
         /\ dev.stage = "status" /\ dev.held # NoCommand =>
              d.stage = "data" /\ d.cmd = dev.held /\ d.sent = 0 /\ d.held = NoCommand
<1>1. dev.in \in 0..1 /\ 1 - dev.in \in 0..1
  BY DEF Device
<1>2. CASE dev.stage = "data"
  <2>1. d = [dev EXCEPT !.in = 1 - @, !.sent = @ + 1,
                        !.stage = IF dev.sent + 1 = dev.cmd.length THEN "status" ELSE "data"]
    BY <1>2 DEF AfterSending
  <2>2. dev.sent + 1 \in Nat /\ dev.sent < dev.cmd.length /\ dev.cmd.length \in Nat
    BY <1>2 DEF DeviceRight, Working, Device, Command
  <2>3. /\ d \in Device
        /\ d.in = 1 - dev.in /\ d.out = dev.out /\ d.sizes = dev.sizes
        /\ d.cmd = dev.cmd /\ d.held = dev.held /\ d.sent = dev.sent + 1
        /\ d.passed = dev.passed
        /\ d.stage = IF d.sent = dev.cmd.length THEN "status" ELSE "data"
    BY <1>1, <2>1, <2>2 DEF Device
  <2>4. Working(d)
    BY <1>2, <2>2, <2>3 DEF DeviceRight, Working, Device
  <2> QED
    BY <1>2, <2>3, <2>4
<1>3. CASE dev.stage # "data" /\ dev.held = NoCommand
  <2>1. d = [dev EXCEPT !.in = 1 - @, !.stage = "ready", !.cmd = NoCommand, !.sent = 0,
                        !.passed = TRUE]
    BY <1>3 DEF AfterSending
  <2>2. /\ d \in Device
        /\ d.in = 1 - dev.in /\ d.out = dev.out /\ d.sizes = dev.sizes
        /\ d.stage = "ready" /\ d.held = NoCommand /\ d.cmd = NoCommand /\ d.sent = 0
    BY <1>1, <1>3, <2>1, NoCommandType DEF Device
  <2> QED
    BY <1>3, <2>2 DEF Working
<1>4. CASE dev.stage # "data" /\ dev.held # NoCommand
  <2>1. PICK passed \in BOOLEAN :
          d = [Taking(dev.held, passed) EXCEPT !.in = 1 - @, !.held = NoCommand]
    BY <1>4 DEF AfterSending
  <2>2. dev.held \in Command /\ dev.held.length > 0 /\ dev.held.op # "none"
    BY <1>4 DEF DeviceRight, Working, Device
  <2> DEFINE t == Taking(dev.held, passed)
  <2>3. /\ t \in Device /\ t.stage = "data" /\ t.cmd = dev.held /\ t.sent = 0
        /\ t.in = dev.in /\ t.out = dev.out /\ t.sizes = dev.sizes
    BY <2>2, TakingRight
  <2> HIDE DEF t
  <2>4. /\ d \in Device
        /\ d.in = 1 - dev.in /\ d.out = dev.out /\ d.sizes = dev.sizes
        /\ d.stage = "data" /\ d.held = NoCommand /\ d.cmd = dev.held /\ d.sent = 0
    <3>1. d = [t EXCEPT !.in = 1 - @, !.held = NoCommand]
      BY <2>1 DEF t
    <3> QED
      BY <1>1, <2>3, <3>1, NoCommandType DEF Device
  <2> QED
    BY <1>4, <2>2, <2>4 DEF Working
<1> QED
  BY <1>2, <1>3, <1>4 DEF Ready

-----------------------------------------------------------------------------
(* A command begins, or none is under way *)

ToggleAfter(from, n) == (from + n) % 2

\* The queue of a transaction that begins.
Prepared(q, pid, n, max, from) ==
  /\ q \in Seq(Queued) /\ Len(q) = n
  /\ \A k \in DOMAIN q : q[k].pid = pid /\ q[k].max = max
  /\ Alternating(q)
  /\ n > 0 => q[1].toggle = from
  /\ n > 0 => q[n].toggle = 1 - ToggleAfter(from, n)

LEMMA PacketsPrepared ==
  ASSUME NEW pid \in {"in", "out"}, NEW n \in Nat, NEW max \in Nat, NEW from \in 0..1
  PROVE  Prepared(Packets(pid, n, max, from), pid, n, max, from)
<1> DEFINE q == Packets(pid, n, max, from)
<1>1. \A k \in 1..n : (from + k - 1) % 2 \in 0..1
  OBVIOUS
<1>2. q = [k \in 1..n |-> [pid |-> pid, toggle |-> (from + k - 1) % 2, max |-> max]]
  BY DEF Packets
<1>3. \A k \in 1..n : q[k] \in Queued /\ q[k].pid = pid /\ q[k].max = max
                      /\ q[k].toggle = (from + k - 1) % 2
  BY <1>1, <1>2 DEF Queued
<1>4. q \in [1..n -> Queued]
  BY <1>2, <1>3
<1> HIDE DEF q
<1>5. \A k \in 1..n-1 : q[k+1].toggle = 1 - q[k].toggle
  <2> TAKE k \in 1..n-1
  <2>1. q[k].toggle = (from + k - 1) % 2 /\ q[k+1].toggle = (from + (k + 1) - 1) % 2
    BY <1>3
  <2>2. (from + (k + 1) - 1) % 2 = 1 - ((from + k - 1) % 2)
    OBVIOUS
  <2> QED
    BY <2>1, <2>2
<1>6. n > 0 => q[1].toggle = from /\ q[n].toggle = 1 - ((from + n) % 2)
  <2> SUFFICES ASSUME n > 0 PROVE q[1].toggle = from /\ q[n].toggle = 1 - ((from + n) % 2)
    OBVIOUS
  <2>1. q[1].toggle = (from + 1 - 1) % 2 /\ q[n].toggle = (from + n - 1) % 2
    BY <1>3
  <2>2. (from + 1 - 1) % 2 = from /\ (from + n - 1) % 2 = 1 - ((from + n) % 2)
    OBVIOUS
  <2> QED
    BY <2>1, <2>2
<1>8. q \in Seq(Queued) /\ Len(q) = n /\ DOMAIN q = 1..n
  BY <1>4
<1> QED
  BY <1>3, <1>5, <1>6, <1>8 DEF ToggleAfter, Alternating, Prepared, q

\* The toggles and the queue between commands, or at the beginning of one.
Fresh ==
  /\ buffer' = <<>> /\ data' = <<>> /\ halted' = FALSE /\ first' = "unset"
  /\ toggle' \in [{"in", "out"} -> 0..1] /\ toggle'["in"] = toggle["in"]
  /\ queue' \in Seq(Queued)
  /\ \/ /\ phase' = "none" /\ queue' = <<>> /\ toggle'["out"] = toggle["out"]
        /\ command' = NoCommand
     \/ /\ phase' = "command" /\ Len(queue') = 1
        /\ queue'[1].pid = "out" /\ queue'[1].toggle = toggle["out"]
        /\ toggle'["out"] = 1 - toggle["out"]

LEMMA IssueFresh ==
  ASSUME Types, NEW c, Issue(c)
  PROVE  Fresh /\ at' = c.op /\ command' = c /\ phase' = "command"
<1> DEFINE q == Packets("out", 1, 31, toggle["out"])
<1>1. toggle["out"] \in 0..1 /\ toggle["in"] \in 0..1
      /\ toggle \in [{"in", "out"} -> 0..1]
  BY DEF Types
<1>2. /\ q \in Seq(Queued) /\ Len(q) = 1
      /\ \A k \in DOMAIN q : q[k].pid = "out"
      /\ q[1].toggle = toggle["out"]
  <2>1. Prepared(q, "out", 1, 31, toggle["out"])
    BY <1>1, PacketsPrepared
  <2> HIDE DEF q
  <2> QED
    BY <2>1 DEF Prepared
<1>3. queue' = q /\ toggle' = [toggle EXCEPT !["out"] = (@ + 1) % 2]
      /\ halted' = FALSE /\ first' = "unset" /\ buffer' = <<>>
  BY DEF Issue, Execute
<1>4. (toggle["out"] + 1) % 2 = 1 - toggle["out"] /\ (toggle["out"] + 1) % 2 \in 0..1
  BY <1>1
<1>5. /\ toggle' \in [{"in", "out"} -> 0..1] /\ toggle'["in"] = toggle["in"]
      /\ toggle'["out"] = 1 - toggle["out"]
  BY <1>1, <1>3, <1>4
<1> HIDE DEF q
<1>6. queue'[1].pid = "out"
  BY <1>2, <1>3
<1> QED
  BY <1>2, <1>3, <1>5, <1>6 DEF Fresh, Issue

LEMMA QuietFresh ==
  ASSUME Types, Quiet, data' = <<>>
  PROVE  Fresh /\ command' = NoCommand /\ phase' = "none"
BY DEF Types, Quiet, Fresh

LEMMA FreshInTime ==
  ASSUME Types, Fresh, dev' = dev,
         trouble' # "lost" => \/ Ready
                              \/ /\ dev.stage = "status" /\ dev.in # toggle["in"]
                                 /\ dev.held = NoCommand,
         trouble' = "none" => Ready /\ dev.in = toggle["in"] /\ dev.out = toggle["out"]
  PROVE  QueueRight' /\ InTime'
<1>1. QueueRight'
  <2>1. CASE phase' = "none"
    BY <2>1 DEF QueueRight
  <2>2. CASE phase' = "command"
    <3>1. /\ Len(queue') = 1 /\ queue' \in Seq(Queued) /\ buffer' = <<>> /\ ~halted'
          /\ queue'[1].pid = "out" /\ queue'[1].toggle = toggle["out"]
          /\ toggle'["out"] = 1 - toggle["out"]
      BY <2>2 DEF Fresh
    <3>2. toggle["out"] \in 0..1
      BY DEF Types
    <3>3. 1 - toggle'["out"] = toggle["out"]
      BY <3>1, <3>2
    <3>4. \A k \in DOMAIN queue' : k = 1
      BY <3>1
    <3> QED
      BY <2>2, <3>1, <3>3, <3>4 DEF QueueRight
  <2> QED
    BY <2>1, <2>2 DEF Fresh
<1>2. NextIn' = toggle["in"]
  BY DEF NextIn, Fresh
<1>3. phase' = "none" \/ (phase' = "command" /\ queue' # <<>>)
  BY DEF Fresh
<1>4. ASSUME trouble' # "lost" PROVE Together'
  BY <1>2, <1>3, <1>4 DEF Together, Ready, Leftover
<1>5. ASSUME trouble' = "none" PROVE Lockstep'
  <2>1. phase' = "none" => queue' = <<>> /\ toggle'["out"] = toggle["out"]
    BY DEF Fresh
  <2>2. phase' = "command" => 1 - toggle'["out"] = toggle["out"]
    BY DEF Fresh, Types
  <2> QED
    BY <1>2, <1>3, <1>5, <2>1, <2>2 DEF Lockstep, Ready
<1> QED
  BY <1>1, <1>4, <1>5 DEF InTime

-----------------------------------------------------------------------------
(* What the driver does at the end of a command *)

SettingUp == at \in {"inquiry", "capacity", "sense"}

\* A command that may be issued.
Legal(c) == /\ c \in Command /\ c.op \in {"inquiry", "capacity", "sense", "read"}
            /\ c.length > 0
            /\ c.op # "read" => c.length = 1 /\ c.lun < lunCount

\* The driver goes on: to a command, or to none.
Goes == \/ \E c : Legal(c) /\ Issue(c)
        \/ at' = "idle" /\ data' = <<>> /\ Quiet

LEMMA SetupCommands ==
  ASSUME NEW lun \in Lun, lun < lunCount, NEW c,
         c = Inquiry(lun) \/ c = ReadCapacity(lun) \/ c = RequestSense(lun)
  PROVE  Legal(c) /\ c.lun = lun /\ c.op \in {"inquiry", "capacity", "sense"}
<1>1. CASE c = Inquiry(lun)
  BY <1>1 DEF Inquiry, Legal, Command, Ops
<1>2. CASE c = ReadCapacity(lun)
  BY <1>2 DEF ReadCapacity, Legal, Command, Ops
<1>3. CASE c = RequestSense(lun)
  BY <1>3 DEF RequestSense, Legal, Command, Ops
<1> QED
  BY <1>1, <1>2, <1>3

LEMMA GoesRight ==
  ASSUME Types, Goes, lunCount' = lunCount, attempt' \in 0..ATTEMPTS-1, blockSize' \in Nat,
         disks' \in Seq(Unit), result' \in Result,
         dev' \in Device, trouble' \in {"none", "failed", "lost"}
  PROVE  Types' /\ DriverRight' /\ Fresh
<1>1. ASSUME NEW c, Legal(c), Issue(c) PROVE Types' /\ DriverRight' /\ Fresh
  <2>1. Fresh /\ at' = c.op /\ command' = c /\ phase' = "command"
    BY <1>1, IssueFresh
  <2>2. Types'
    <3>1. buffer' \in Seq(Packet) /\ data' \in Seq(Packet)
      BY <2>1, EmptySeq DEF Fresh
    <3>2. /\ queue' \in Seq(Queued) /\ toggle' \in [{"in", "out"} -> 0..1]
          /\ halted' = FALSE /\ first' = "unset"
      BY <2>1 DEF Fresh
    <3>3. at' \in {"inquiry", "capacity", "sense", "read"} /\ command' \in Command
      BY <1>1, <2>1 DEF Legal
    <3> QED
      BY <2>1, <3>1, <3>2, <3>3 DEF Types
  <2>3. DriverRight'
    BY <1>1, <2>1 DEF DriverRight, Legal
  <2> QED
    BY <2>1, <2>2, <2>3
<1>2. ASSUME at' = "idle", data' = <<>>, Quiet PROVE Types' /\ DriverRight' /\ Fresh
  <2>1. Fresh /\ command' = NoCommand /\ phase' = "none" /\ queue' = <<>>
    BY <1>2, QuietFresh DEF Quiet
  <2>2. Types'
    <3>1. buffer' \in Seq(Packet) /\ data' \in Seq(Packet)
      BY <2>1, EmptySeq DEF Fresh
    <3>2. /\ queue' \in Seq(Queued) /\ toggle' \in [{"in", "out"} -> 0..1]
          /\ halted' = FALSE /\ first' = "unset"
      BY <2>1 DEF Fresh
    <3> QED
      BY <1>2, <2>1, <3>1, <3>2, NoCommandType DEF Types
  <2>3. DriverRight'
    BY <1>2, <2>1 DEF DriverRight, Fresh
  <2> QED
    BY <2>1, <2>2, <2>3
<1> QED
  BY <1>1, <1>2 DEF Goes

LEMMA NextUnitGoes ==
  ASSUME Types, command.lun < lunCount, NextUnit
  PROVE  Goes /\ (at' = "idle" \/ command'.lun = command.lun + 1)
<1>1. CASE command.lun + 1 < lunCount
  <2> DEFINE lun == command.lun + 1
  <2>1. lun \in Lun /\ lun < lunCount
    BY <1>1, UsbAssumption DEF Types, Command, Lun
  <2> HIDE DEF lun
  <2>2. Legal(Inquiry(lun)) /\ Inquiry(lun).lun = lun
    BY <2>1, SetupCommands
  <2>3. Issue(Inquiry(lun))
    BY <1>1 DEF NextUnit, lun
  <2>4. command' = Inquiry(lun)
    BY <2>3 DEF Issue
  <2> QED
    BY <2>2, <2>3, <2>4 DEF Goes, lun
<1>2. CASE ~(command.lun + 1 < lunCount)
  BY <1>2 DEF NextUnit, Goes
<1> QED
  BY <1>1, <1>2

LEMMA FailsGoes ==
  ASSUME Types, DriverRight, Fails
  PROVE  /\ Goes /\ attempt' \in 0..ATTEMPTS-1 /\ result' \in Result
         /\ disks' = disks /\ blockSize' = blockSize
         /\ SettingUp' => SettingUp /\ command'.lun >= command.lun
         /\ at = "read" => at' = "idle" /\ result' = [NoResult EXCEPT !.status = "failure"]
         /\ at # "read" => at' # "read" /\ result' = result
<1>0. /\ SettingUp => command.lun < lunCount /\ command.lun \in Lun /\ command.lun \in Nat
      /\ attempt \in 0..ATTEMPTS-1 /\ result \in Result
  BY DEF SettingUp, Types, DriverRight, Command, Lun
<1>1. CASE at = "inquiry" /\ NextUnit /\ UNCHANGED <<attempt, result>>
  <2>1. Goes /\ (at' = "idle" \/ command'.lun = command.lun + 1)
    BY <1>0, <1>1, NextUnitGoes DEF SettingUp
  <2>2. at' # "read"
    BY <1>1 DEF NextUnit, Issue, Inquiry
  <2> QED
    BY <1>0, <1>1, <2>1, <2>2 DEF Fails, SettingUp
<1>2. CASE at = "capacity" /\ Issue(RequestSense(command.lun)) /\ UNCHANGED <<attempt, result>>
  <2>1. Legal(RequestSense(command.lun)) /\ RequestSense(command.lun).lun = command.lun
    BY <1>0, <1>2, SetupCommands DEF SettingUp
  <2>2. command' = RequestSense(command.lun) /\ at' = "sense"
    BY <1>2 DEF Issue, RequestSense
  <2> QED
    BY <1>0, <1>2, <2>1, <2>2 DEF Fails, SettingUp, Goes
<1>3. CASE /\ at = "sense" /\ AttemptsLeft
           /\ Issue(ReadCapacity(command.lun))
           /\ attempt' = NextAttempt
           /\ UNCHANGED result
  <2>1. Legal(ReadCapacity(command.lun)) /\ ReadCapacity(command.lun).lun = command.lun
    BY <1>0, <1>3, SetupCommands DEF SettingUp
  <2>2. command' = ReadCapacity(command.lun) /\ at' = "capacity"
    BY <1>3 DEF Issue, ReadCapacity
  <2>3. attempt' \in 0..ATTEMPTS-1
    BY <1>0, <1>3, UsbAssumption DEF AttemptsLeft, NextAttempt
  <2> QED
    BY <1>0, <1>3, <2>1, <2>2, <2>3 DEF Fails, SettingUp, Goes
<1>4. CASE at = "sense" /\ ~AttemptsLeft /\ NextUnit /\ UNCHANGED <<attempt, result>>
  <2>1. Goes /\ (at' = "idle" \/ command'.lun = command.lun + 1)
    BY <1>0, <1>4, NextUnitGoes DEF SettingUp
  <2>2. at' # "read"
    BY <1>4 DEF NextUnit, Issue, Inquiry
  <2> QED
    BY <1>0, <1>4, <2>1, <2>2 DEF Fails, SettingUp
<1>5. CASE /\ at = "read" /\ at' = "idle" /\ result' = [NoResult EXCEPT !.status = "failure"]
           /\ data' = <<>> /\ Quiet /\ UNCHANGED attempt
  <2>1. result' \in Result
    <3>1. result' = [status |-> "failure", data |-> <<>>]
      BY <1>5 DEF NoResult
    <3> QED
      BY <3>1, EmptySeq DEF Result
  <2> QED
    BY <1>0, <1>5, <2>1 DEF Fails, Goes, SettingUp
<1> QED
  BY <1>1, <1>2, <1>3, <1>4, <1>5 DEF Fails

LEMMA SizesInType ==
  ASSUME dev \in Device, data \in Seq(Packet), NEW size \in SizesIn(data)
  PROVE  size \in Nat
<1>1. CASE data # <<>> /\ data[1].kind = "capacity"
  <2>1. data[1] \in Packet
    BY <1>1
  <2>2. data[1].lun \in Lun
    BY <2>1 DEF Packet
  <2> QED
    BY <1>1, <2>2, Sizes DEF SizesIn
<1>2. CASE ~(data # <<>> /\ data[1].kind = "capacity")
  BY <1>2, UsbAssumption DEF SizesIn
<1> QED
  BY <1>1, <1>2

LEMMA PassesGoes ==
  ASSUME Types, DriverRight, Passes
  PROVE  /\ Goes /\ attempt' \in 0..ATTEMPTS-1 /\ result' \in Result
         /\ blockSize' \in Nat /\ disks' \in Seq(Unit)
         /\ \/ disks' = disks /\ (SettingUp' => SettingUp /\ command'.lun >= command.lun)
            \/ /\ at = "capacity"
               /\ \E size \in SizesIn(data) :
                    disks' = Append(disks, [lun |-> command.lun, size |-> size])
               /\ SettingUp' => command'.lun = command.lun + 1
         /\ at = "read" => at' = "idle" /\ result' = [status |-> "success", data |-> data]
         /\ at # "read" => at' # "read" /\ result' = result
<1>0. /\ SettingUp => command.lun < lunCount /\ command.lun \in Lun /\ command.lun \in Nat
      /\ attempt \in 0..ATTEMPTS-1 /\ result \in Result /\ blockSize \in Nat
      /\ disks \in Seq(Unit)
  BY DEF SettingUp, Types, DriverRight, Command, Lun
<1>1. CASE at = "inquiry" /\ Issue(ReadCapacity(command.lun)) /\ attempt' = 0
           /\ UNCHANGED <<blockSize, disks, result>>
  <2>1. Legal(ReadCapacity(command.lun)) /\ ReadCapacity(command.lun).lun = command.lun
    BY <1>0, <1>1, SetupCommands DEF SettingUp
  <2>2. command' = ReadCapacity(command.lun) /\ at' = "capacity"
    BY <1>1 DEF Issue, ReadCapacity
  <2>3. attempt' \in 0..ATTEMPTS-1
    BY <1>1, UsbAssumption
  <2> QED
    BY <1>0, <1>1, <2>1, <2>2, <2>3 DEF SettingUp, Goes
<1>2. ASSUME at = "capacity", NextUnit, UNCHANGED <<attempt, result>>,
             NEW size \in SizesIn(data), blockSize' = size,
             disks' = Append(disks, [lun |-> command.lun, size |-> size])
      PROVE  /\ Goes /\ attempt' \in 0..ATTEMPTS-1 /\ result' \in Result
             /\ blockSize' \in Nat /\ disks' \in Seq(Unit)
             /\ SettingUp' => command'.lun = command.lun + 1
             /\ at' # "read"
  <2>1. Goes /\ (at' = "idle" \/ command'.lun = command.lun + 1)
    BY <1>0, <1>2, NextUnitGoes DEF SettingUp
  <2>2. at' # "read"
    BY <1>2 DEF NextUnit, Issue, Inquiry
  <2>3. size \in Nat
    BY SizesInType DEF Types
  <2>4. disks' \in Seq(Unit)
    <3>1. [lun |-> command.lun, size |-> size] \in Unit
      BY <1>0, <1>2, <2>3 DEF Unit, SettingUp
    <3> QED
      BY <1>0, <1>2, <3>1
  <2> QED
    BY <1>0, <1>2, <2>1, <2>2, <2>3, <2>4 DEF SettingUp
<1>3. CASE at = "sense" /\ Fails
  <2>1. /\ Goes /\ attempt' \in 0..ATTEMPTS-1 /\ result' \in Result
        /\ disks' = disks /\ blockSize' = blockSize
        /\ SettingUp' => SettingUp /\ command'.lun >= command.lun
        /\ at' # "read" /\ result' = result
    BY <1>3, FailsGoes
  <2> QED
    BY <1>0, <1>3, <2>1
<1>4. CASE /\ at = "read" /\ at' = "idle" /\ result' = [status |-> "success", data |-> data]
           /\ data' = <<>> /\ Quiet /\ UNCHANGED <<attempt, blockSize, disks>>
  <2>1. result' \in Result
    BY <1>4 DEF Types, Result
  <2> QED
    BY <1>0, <1>4, <2>1 DEF Goes, SettingUp
<1> QED
  BY <1>1, <1>2, <1>3, <1>4 DEF Passes

-----------------------------------------------------------------------------
(* The driver's steps *)

LEMMA SameDevice ==
  ASSUME dev' = dev
  PROVE  /\ Ready' <=> Ready
         /\ DeviceRight' <=> DeviceRight
         /\ \A c, k, passed : DataPacket(c, k, passed)' = DataPacket(c, k, passed)
BY DEF Ready, DeviceRight, Working, DataPacket

LEMMA UnitsKept ==
  ASSUME Types, UnitsBefore, disks' = disks, dev'.sizes = dev.sizes,
         trouble' # "lost" => trouble # "lost",
         SettingUp' => SettingUp /\ command'.lun >= command.lun, command' \in Command
  PROVE  UnitsBefore'
<1>1. \A k \in DOMAIN disks : disks[k].lun \in Nat
  <2> TAKE k \in DOMAIN disks
  <2>1. disks[k] \in Unit
    BY DEF Types
  <2> QED
    BY <2>1 DEF Unit, Lun
<1>2. command.lun \in Nat /\ command'.lun \in Nat
  BY DEF Types, Command, Lun
<1>3. ASSUME NEW k \in DOMAIN disks, SettingUp' PROVE disks[k].lun < command'.lun
  <2>1. disks[k].lun < command.lun /\ command.lun <= command'.lun
    BY <1>3 DEF UnitsBefore, SettingUp
  <2> QED
    BY <1>1, <1>2, <2>1
<1> QED
  BY <1>3 DEF UnitsBefore, SettingUp

LEMMA UnitAdded ==
  ASSUME Types, UnitsBefore, at = "capacity", dev'.sizes = dev.sizes,
         trouble' # "lost" => trouble # "lost",
         NEW size \in SizesIn(data),
         trouble' # "lost" => size = dev.sizes[command.lun],
         disks' = Append(disks, [lun |-> command.lun, size |-> size]),
         SettingUp' => command'.lun = command.lun + 1
  PROVE  UnitsBefore'
<1> DEFINE unit == [lun |-> command.lun, size |-> size]
           n == Len(disks) + 1
<1>1. \A k \in DOMAIN disks : disks[k].lun \in Nat
  <2> TAKE k \in DOMAIN disks
  <2>1. disks[k] \in Unit
    BY DEF Types
  <2> QED
    BY <2>1 DEF Unit, Lun
<1>2. command.lun \in Nat /\ disks \in Seq(Unit) /\ n \in Nat
  BY DEF Types, Command, Lun
<1>3. unit \in Unit
  BY SizesInType DEF Types, Unit, Command
<1>4. unit.lun = command.lun /\ unit.size = size
  OBVIOUS
<1> HIDE DEF unit
<1>5. /\ DOMAIN disks' = 1..n /\ Len(disks') = n /\ disks'[n] = unit
      /\ \A k \in DOMAIN disks : disks'[k] = disks[k]
      /\ \A k \in 1..n : k \in DOMAIN disks \/ k = n
  BY <1>2, <1>3 DEF unit
<1>6. \A k \in DOMAIN disks : disks[k].lun < command.lun
  BY DEF UnitsBefore
<1>7. \A k \in DOMAIN disks' : disks'[k].lun <= command.lun
  BY <1>1, <1>2, <1>4, <1>5, <1>6
<1>8. \A k \in 1..Len(disks')-1 : disks'[k].lun < disks'[k+1].lun
  <2> SUFFICES ASSUME NEW k \in 1..Len(disks) PROVE disks'[k].lun < disks'[k+1].lun
    BY <1>2, <1>5
  <2>1. CASE k = Len(disks)
    BY <1>2, <1>4, <1>5, <1>6, <2>1
  <2>2. CASE k # Len(disks)
    <3>1. k \in 1..Len(disks)-1 /\ k \in DOMAIN disks /\ k + 1 \in DOMAIN disks
      BY <1>2, <2>2
    <3> QED
      BY <1>5, <3>1 DEF UnitsBefore
  <2> QED
    BY <2>1, <2>2
<1>9. ASSUME trouble' # "lost"
      PROVE  \A k \in DOMAIN disks' : disks'[k].size = dev'.sizes[disks'[k].lun]
  BY <1>4, <1>5, <1>9 DEF UnitsBefore
<1>10. ASSUME SettingUp' PROVE \A k \in DOMAIN disks' : disks'[k].lun < command'.lun
  <2>1. \A k \in DOMAIN disks' : disks'[k].lun \in Nat
    BY <1>1, <1>2, <1>4, <1>5
  <2> QED
    BY <1>2, <1>7, <1>10, <2>1
<1> QED
  BY <1>8, <1>9, <1>10 DEF UnitsBefore, SettingUp

\* The end of a command, whatever came of it.
LEMMA EndRight ==
  ASSUME UsbInv, Fails \/ (Passes /\ (trouble' # "lost" => AllData(TRUE))),
         dev' = dev, lunCount' = lunCount, trouble' \in {"none", "failed", "lost"},
         phase # "none", trouble' # "lost" => trouble # "lost",
         trouble' # "lost" => \/ Ready
                              \/ /\ dev.stage = "status" /\ dev.in # toggle["in"]
                                 /\ dev.held = NoCommand,
         trouble' = "none" => Ready /\ dev.in = toggle["in"] /\ dev.out = toggle["out"]
  PROVE  UsbInv'
<1>0. Types /\ DriverRight /\ DeviceRight /\ UnitsBefore
  BY DEF UsbInv
<1>1. /\ Goes /\ attempt' \in 0..ATTEMPTS-1 /\ result' \in Result
      /\ blockSize' \in Nat /\ disks' \in Seq(Unit)
  <2>1. blockSize \in Nat /\ disks \in Seq(Unit)
    BY <1>0 DEF Types
  <2> QED
    BY <1>0, <2>1, FailsGoes, PassesGoes
<1>2. Types' /\ DriverRight' /\ Fresh
  <2>1. dev' \in Device
    BY <1>0 DEF Types
  <2> QED
    BY <1>0, <1>1, <2>1, GoesRight
<1>3. QueueRight' /\ InTime'
  BY <1>0, <1>2, FreshInTime
<1>4. DeviceRight'
  BY <1>0, SameDevice
<1>5. UnitsBefore'
  <2>1. command' \in Command
    BY <1>2 DEF Types
  <2>2. CASE disks' = disks /\ (SettingUp' => SettingUp /\ command'.lun >= command.lun)
    BY <1>0, <2>1, <2>2, UnitsKept
  <2>3. ASSUME Passes, trouble' # "lost" => AllData(TRUE), at = "capacity",
               NEW size \in SizesIn(data),
               disks' = Append(disks, [lun |-> command.lun, size |-> size]),
               SettingUp' => command'.lun = command.lun + 1
        PROVE  UnitsBefore'
    <3>1. ASSUME trouble' # "lost" PROVE size = dev.sizes[command.lun]
      <4>1. /\ command.op = "capacity" /\ command.length = 1 /\ Len(data) = 1
            /\ data \in Seq(Packet)
        BY <1>0, <2>3, <3>1 DEF DriverRight, AllData, Types
      <4>2. data # <<>> /\ data[1] = DataPacket(command, 0, TRUE)
        <5>1. DataOf(data, TRUE)
          BY <2>3, <3>1 DEF AllData
        <5>2. data # <<>> /\ 1 \in DOMAIN data
          BY <4>1, OneElement
        <5>3. data[1] = DataPacket(command, 1 - 1, TRUE)
          BY <5>1, <5>2 DEF DataOf
        <5> QED
          BY <5>2, <5>3
      <4>3. data[1].kind = "capacity" /\ data[1].lun = command.lun
        BY <4>1, <4>2 DEF DataPacket
      <4> QED
        BY <2>3, <4>2, <4>3 DEF SizesIn
    <3> QED
      BY <1>0, <2>3, <3>1, UnitAdded
  <2> QED
    BY <1>0, <2>2, <2>3, FailsGoes, PassesGoes
<1> QED
  BY <1>2, <1>3, <1>4, <1>5 DEF UsbInv

LEMMA TransactionFailsRight ==
  ASSUME UsbInv, TransactionFails
  PROVE  UsbInv'
<1>1. phase # "none" /\ trouble \in {"none", "failed", "lost"}
  BY DEF UsbInv, DriverRight, Types, TransactionFails
<1>2. /\ trouble' = IF trouble = "lost" THEN trouble
                     ELSE IF dev.stage = "ready" THEN "failed" ELSE "lost"
      /\ Fails /\ dev' = dev /\ lunCount' = lunCount
  BY DEF TransactionFails, Trouble
<1>3. /\ trouble' \in {"none", "failed", "lost"} /\ trouble' # "none"
      /\ trouble' # "lost" => trouble # "lost" /\ Ready
  BY <1>1, <1>2 DEF Ready
<1> QED
  BY <1>1, <1>2, <1>3, EndRight

\* What a step that goes on says of the trouble there was.
LEMMA UnnoticedRight ==
  ASSUME Types, NEW kind \in {"failed", "lost"}, Unnoticed(kind)
  PROVE  /\ trouble' \in {"none", "failed", "lost"}
         /\ trouble' # "lost" => trouble # "lost" /\ (kind = "lost" => ~halted)
         /\ trouble' = "none" => trouble = "none" /\ ~halted
BY DEF Types, Unnoticed, Trouble

\* A packet that is the last one has the toggle that comes before the one kept.
LEMMA LastToggle ==
  ASSUME Types, QueueRight, phase \in {"data", "status"}, Len(queue) = 1
  PROVE  NextIn = 1 - toggle["in"] /\ NextIn # toggle["in"] /\ NextIn \in 0..1
<1>1. queue # <<>> /\ NextIn = queue[1].toggle /\ toggle["in"] \in 0..1
  <2>1. queue # <<>>
    BY OneElement DEF Types
  <2>2. toggle["in"] \in 0..1
    BY DEF Types
  <2> QED
    BY <2>1, <2>2 DEF NextIn
<1>2. queue[1].toggle = 1 - toggle["in"]
  BY <1>1 DEF QueueRight
<1> QED
  BY <1>1, <1>2

LEMMA CommandEndsRight ==
  ASSUME UsbInv, CommandEnds
  PROVE  UsbInv'
<1>0. /\ Types /\ QueueRight /\ InTime /\ phase = "status" /\ dev' = dev /\ lunCount' = lunCount
      /\ Unnoticed("failed") /\ LastDone
  BY DEF UsbInv, CommandEnds, Succeeded
<1>1. /\ trouble' \in {"none", "failed", "lost"}
      /\ trouble' # "lost" => trouble # "lost"
      /\ trouble' = "none" => trouble = "none" /\ ~halted
  BY <1>0, UnnoticedRight
<1>2. ASSUME trouble' # "lost"
      PROVE  \/ Ready
             \/ dev.stage = "status" /\ dev.in # toggle["in"] /\ dev.held = NoCommand
  <2>1. CASE Own /\ dev.stage = "status" /\ dev.in = NextIn /\ queue # <<>>
    <3>1. Len(queue) = 1
      BY <1>0, <2>1 DEF LastDone
    <3> QED
      BY <1>0, <2>1, <3>1, LastToggle DEF Own
  <2> QED
    BY <1>0, <1>1, <1>2, <2>1 DEF InTime, Together
<1>3. ASSUME trouble' = "none"
      PROVE  Ready /\ dev.in = toggle["in"] /\ dev.out = toggle["out"]
  <2>1. Lockstep /\ queue = <<>>
    BY <1>0, <1>1, <1>3 DEF InTime, LastDone
  <2> QED
    BY <1>0, <2>1 DEF Lockstep, NextIn
<1>4. Fails \/ (Passes /\ (trouble' # "lost" => AllData(TRUE)))
  <2>1. ASSUME trouble' # "lost", Passed PROVE AllData(TRUE)
    BY <1>0, <1>1, <2>1 DEF InTime, Together, Passed
  <2> QED
    BY <2>1 DEF CommandEnds, Passed
<1> QED
  BY <1>0, <1>1, <1>2, <1>3, <1>4, EndRight

\* The data or the status is waited for.
LEMMA ExecuteIn ==
  ASSUME Types, NEW n \in Nat \ {0}, NEW max \in Nat, Execute("in", n, max)
  PROVE  /\ queue' \in Seq(Queued) /\ Len(queue') = n /\ queue' # <<>>
         /\ \A k \in DOMAIN queue' : queue'[k].pid = "in" /\ queue'[k].max = max
         /\ Alternating(queue')
         /\ queue'[1].toggle = toggle["in"]
         /\ queue'[n].toggle = 1 - toggle'["in"]
         /\ toggle' \in [{"in", "out"} -> 0..1] /\ toggle'["out"] = toggle["out"]
         /\ halted' = FALSE /\ first' = "unset" /\ buffer' = <<>>
<1> DEFINE q == Packets("in", n, max, toggle["in"])
           after == ToggleAfter(toggle["in"], n)
<1>1. toggle["in"] \in 0..1 /\ toggle["out"] \in 0..1
      /\ toggle \in [{"in", "out"} -> 0..1]
  BY DEF Types
<1>2. Prepared(q, "in", n, max, toggle["in"])
  BY <1>1, PacketsPrepared
<1>3. queue' = q /\ halted' = FALSE /\ first' = "unset" /\ buffer' = <<>>
      /\ toggle' = [toggle EXCEPT !["in"] = after]
  BY DEF Execute, ToggleAfter
<1>4. after \in 0..1
  BY <1>1 DEF ToggleAfter
<1> HIDE DEF q
<1>5. /\ q \in Seq(Queued) /\ Len(q) = n
      /\ \A k \in DOMAIN q : q[k].pid = "in" /\ q[k].max = max
      /\ Alternating(q) /\ q[1].toggle = toggle["in"] /\ q[n].toggle = 1 - after
  BY <1>2 DEF Prepared
<1> HIDE DEF after
<1>6. toggle' \in [{"in", "out"} -> 0..1] /\ toggle'["out"] = toggle["out"]
      /\ toggle'["in"] = after
  BY <1>1, <1>3, <1>4
<1>7. queue' # <<>>
  BY <1>3, <1>5
<1> QED
  BY <1>3, <1>5, <1>6, <1>7

LEMMA TransactionBegins ==
  ASSUME Types, DriverRight, DeviceRight, UnitsBefore,
         phase # "none", phase' \in {"data", "status"},
         Execute("in", Total', Space'), Total' \in Nat \ {0}, Space' \in Nat,
         UNCHANGED <<at, command, lunCount, attempt, blockSize, disks, result, dev>>,
         data' \in Seq(Packet), trouble' \in {"none", "failed", "lost"},
         trouble' # "lost" => trouble # "lost"
  PROVE  /\ Types' /\ DriverRight' /\ QueueRight' /\ DeviceRight' /\ UnitsBefore'
         /\ NextIn' = toggle["in"] /\ queue' # <<>> /\ buffer' = <<>> /\ halted' = FALSE
         /\ toggle'["out"] = toggle["out"]
<1>1. /\ queue' \in Seq(Queued) /\ Len(queue') = Total' /\ queue' # <<>>
      /\ \A k \in DOMAIN queue' : queue'[k].pid = "in" /\ queue'[k].max = Space'
      /\ Alternating(queue')
      /\ queue'[1].toggle = toggle["in"]
      /\ queue'[Total'].toggle = 1 - toggle'["in"]
      /\ toggle' \in [{"in", "out"} -> 0..1] /\ toggle'["out"] = toggle["out"]
      /\ halted' = FALSE /\ first' = "unset" /\ buffer' = <<>>
  BY ExecuteIn
<1>2. buffer' \in Seq(Packet) /\ Len(buffer') = 0
  BY <1>1, EmptySeq
<1>3. Types'
  BY <1>1, <1>2 DEF Types
<1>4. DriverRight'
  BY DEF DriverRight
<1>5. QueueRight'
  <2>1. Len(queue') <= Total' /\ Len(buffer') + Len(queue') = Total'
    <3>1. Len(queue') = Total' /\ Len(buffer') = 0
      BY <1>1, <1>2, Zenon
    <3>2. \A n \in Nat \ {0} : n <= n /\ 0 + n = n
      OBVIOUS
    <3> QED
      BY <3>1, <3>2, Zenon
  <2> QED
    BY <1>1, <2>1 DEF QueueRight
<1>6. DeviceRight'
  BY SameDevice
<1>7. UnitsBefore'
  <2>1. SettingUp' => SettingUp /\ command'.lun >= command.lun
    BY DEF SettingUp, Types, Command, Lun
  <2> QED
    BY <1>3, <2>1, UnitsKept DEF Types
<1>8. NextIn' = toggle["in"]
  BY <1>1 DEF NextIn
<1> QED
  BY <1>1, <1>3, <1>4, <1>5, <1>6, <1>7, <1>8

LEMMA CommandSizes ==
  ASSUME Types, DriverRight, phase # "none"
  PROVE  /\ command.op \in Ops \ {"none"} /\ command.length \in Nat \ {0}
         /\ PacketSize(command.op) \in Nat /\ MAX_CSW \in Nat
<1>1. command.op \in Ops \ {"none"} /\ command.length \in Nat \ {0}
  BY DEF Types, DriverRight, Command, Ops
<1> QED
  BY <1>1, PacketSizes DEF MAX_CSW

LEMMA ToDataRight ==
  ASSUME UsbInv, ToData
  PROVE  UsbInv'
<1>0. /\ Types /\ DriverRight /\ QueueRight /\ DeviceRight /\ InTime /\ UnitsBefore
      /\ phase = "command" /\ phase' = "data" /\ LastDone /\ dev' = dev
      /\ command' = command
  BY DEF UsbInv, ToData, Succeeded
<1>1. /\ trouble' \in {"none", "failed", "lost"}
      /\ trouble' # "lost" => trouble # "lost"
      /\ trouble' = "none" => trouble = "none" /\ ~halted
  BY <1>0, UnnoticedRight DEF ToData
<1>2. Total' = command.length /\ Space' = PacketSize(command.op)
      /\ command.length \in Nat \ {0} /\ PacketSize(command.op) \in Nat
  BY <1>0, CommandSizes DEF Total, Space
<1>3. /\ Types' /\ DriverRight' /\ QueueRight' /\ DeviceRight' /\ UnitsBefore'
      /\ NextIn' = toggle["in"] /\ queue' # <<>> /\ buffer' = <<>> /\ halted' = FALSE
      /\ toggle'["out"] = toggle["out"]
  <2>1. /\ Execute("in", Total', Space') /\ Total' \in Nat \ {0} /\ Space' \in Nat
        /\ UNCHANGED <<at, command, lunCount, attempt, blockSize, disks, result, dev>>
        /\ data' \in Seq(Packet)
    BY <1>0, <1>2 DEF ToData, Types
  <2> QED
    BY <1>0, <1>1, <2>1, TransactionBegins
<1>4. NextIn = toggle["in"] /\ Len(buffer') = 0
  BY <1>0, <1>3 DEF NextIn
<1>5. ASSUME trouble' # "lost" PROVE Together'
  <2>1. CASE Ready
    BY <1>0, <2>1 DEF Together, Ready
  <2>2. CASE Leftover /\ dev.held \in {NoCommand, command}
    BY <1>0, <1>3, <1>4, <2>2 DEF Together, Leftover
  <2>3. CASE Own /\ dev.stage = "data" /\ dev.sent = 0
    <3>1. Own' /\ Len(buffer') <= dev'.sent /\ ~(dev'.sent > 0)
      BY <1>0, <1>4, <2>3 DEF Own, Ready
    <3>2. DataOf(buffer, dev.passed)'
      BY <1>3 DEF DataOf
    <3> QED
      BY <1>0, <1>3, <3>1, <3>2 DEF Together, DataOf
  <2> QED
    BY <1>0, <1>1, <1>5, <2>1, <2>2, <2>3 DEF InTime, Together
<1>6. ASSUME trouble' = "none" PROVE Lockstep'
  <2>1. Lockstep /\ Together /\ queue = <<>>
    BY <1>0, <1>1, <1>6 DEF InTime, LastDone
  <2>2. dev.in = NextIn /\ dev.out = toggle["out"] /\ ~Ready
    BY <1>0, <2>1 DEF Lockstep
  <2>3. dev.sent = 0
    BY <1>0, <2>1, <2>2 DEF Together, Leftover
  <2> QED
    BY <1>0, <1>3, <1>4, <2>2, <2>3 DEF Lockstep, Ready
<1> QED
  BY <1>3, <1>5, <1>6 DEF UsbInv, InTime

LEMMA ToStatusRight ==
  ASSUME UsbInv, ToStatus
  PROVE  UsbInv'
<1>0. /\ Types /\ DriverRight /\ QueueRight /\ DeviceRight /\ InTime /\ UnitsBefore
      /\ phase = "data" /\ phase' = "status" /\ LastDone /\ dev' = dev
      /\ command' = command /\ data' = buffer
  BY DEF UsbInv, ToStatus, Succeeded
<1>1. /\ trouble' \in {"none", "failed", "lost"}
      /\ trouble' # "lost" => trouble # "lost" /\ ~halted
      /\ trouble' = "none" => trouble = "none" /\ ~halted
  BY <1>0, UnnoticedRight DEF ToStatus
<1>2. Total' = 1 /\ Space' = MAX_CSW /\ MAX_CSW \in Nat /\ command.length \in Nat \ {0}
  BY <1>0, CommandSizes DEF Total, Space
<1>3. /\ Types' /\ DriverRight' /\ QueueRight' /\ DeviceRight' /\ UnitsBefore'
      /\ NextIn' = toggle["in"] /\ queue' # <<>> /\ buffer' = <<>> /\ halted' = FALSE
      /\ toggle'["out"] = toggle["out"]
  <2>1. /\ Execute("in", Total', Space') /\ Total' \in Nat \ {0} /\ Space' \in Nat
        /\ UNCHANGED <<at, command, lunCount, attempt, blockSize, disks, result, dev>>
        /\ data' \in Seq(Packet)
    BY <1>0, <1>2 DEF ToStatus, Types
  <2> QED
    BY <1>0, <1>1, <2>1, TransactionBegins
<1>4. ASSUME ~halted PROVE queue = <<>> /\ NextIn = toggle["in"] /\ Len(buffer) = command.length
  <2>1. queue = <<>>
    BY <1>0, <1>4 DEF LastDone
  <2>2. Len(buffer) + Len(queue) = command.length
    BY <1>0, <1>4 DEF QueueRight, Total
  <2>3. Len(queue) = 0 /\ Len(buffer) \in Nat
    BY <1>0, <2>1 DEF Types
  <2> QED
    BY <1>2, <2>1, <2>2, <2>3 DEF NextIn
<1>5. ASSUME trouble' # "lost" PROVE Together'
  <2>1. Together /\ queue = <<>> /\ NextIn = toggle["in"] /\ Len(buffer) = command.length
    BY <1>0, <1>1, <1>4, <1>5 DEF InTime
  <2>2. CASE Ready
    BY <1>0, <1>3, <2>2 DEF Together, Ready, Passed
  <2>3. CASE buffer = <<>>
    BY <1>2, <2>1, <2>3
  <2>4. CASE /\ Own /\ Len(buffer) <= dev.sent
             /\ dev.sent = Len(buffer) => /\ DataOf(buffer, dev.passed)
                                          /\ dev.sent > 0 => dev.in = NextIn
    <3>1. dev.cmd.length = command.length /\ ~Ready /\ dev.stage \in {"ready", "data", "status"}
          /\ dev.sent \in Nat
      BY <1>0, <2>4 DEF Own, Types, Device
    <3>2. dev.stage = "status" /\ dev.sent = command.length
      BY <1>0, <1>2, <2>1, <2>4, <3>1 DEF DeviceRight, Working, Ready
    <3>3. DataOf(buffer, dev.passed) /\ dev.in = toggle["in"]
      BY <1>2, <2>1, <2>4, <3>2
    <3>4. AllData(dev.passed)'
      <4>1. \A c, k, passed : DataPacket(c, k, passed)' = DataPacket(c, k, passed)
        BY <1>0, SameDevice
      <4> QED
        BY <1>0, <2>1, <3>3, <4>1 DEF AllData, DataOf
    <3>5. Own'
      BY <1>0, <2>4 DEF Own, Ready
    <3> QED
      BY <1>0, <1>3, <3>2, <3>3, <3>4, <3>5 DEF Together
  <2> QED
    BY <1>0, <2>1, <2>2, <2>3, <2>4 DEF Together
<1>6. ASSUME trouble' = "none" PROVE Lockstep'
  <2>1. Lockstep /\ NextIn = toggle["in"]
    BY <1>0, <1>1, <1>4, <1>6 DEF InTime
  <2> QED
    BY <1>0, <1>3, <2>1 DEF Lockstep, Ready
<1> QED
  BY <1>3, <1>5, <1>6 DEF UsbInv, InTime

\* Between commands.
LEMMA BetweenCommands ==
  ASSUME UsbInv, phase = "none", trouble' = trouble
  PROVE  /\ trouble' # "lost" => \/ Ready
                                 \/ /\ dev.stage = "status" /\ dev.in # toggle["in"]
                                    /\ dev.held = NoCommand
         /\ trouble' = "none" => Ready /\ dev.in = toggle["in"] /\ dev.out = toggle["out"]
<1>1. NextIn = toggle["in"] /\ ~halted
  BY DEF UsbInv, DriverRight, NextIn
<1>2. trouble # "lost" => Ready \/ (Leftover /\ dev.held = NoCommand)
  BY DEF UsbInv, InTime, Together
<1>3. trouble = "none" => Lockstep
  BY <1>1 DEF UsbInv, InTime
<1> QED
  BY <1>1, <1>2, <1>3 DEF Leftover, Lockstep

LEMMA SetupDeviceRight ==
  ASSUME UsbInv, SetupDevice
  PROVE  UsbInv'
<1> DEFINE c == Inquiry(0)
<1>0. /\ Types /\ DriverRight /\ DeviceRight /\ UnitsBefore
      /\ at = "start" /\ phase = "none" /\ disks = <<>>
      /\ UNCHANGED <<attempt, blockSize, disks, result, dev, trouble>>
  BY DEF UsbInv, DriverRight, SetupDevice
<1>1. lunCount' \in 1..MAX_LUN+1
  BY UsbAssumption DEF SetupDevice, Lun
<1>2. /\ c \in Command /\ c.op = "inquiry" /\ c.length = 1 /\ c.lun = 0
  BY NoCommandType DEF Inquiry, Command, Ops
<1>3. Issue(c)
  BY DEF SetupDevice
<1> HIDE DEF c
<1>4. Fresh /\ at' = "inquiry" /\ command' = c /\ phase' = "command"
  BY <1>0, <1>2, <1>3, IssueFresh
<1>5. Types'
  <2>1. buffer' \in Seq(Packet) /\ data' \in Seq(Packet)
    BY <1>4, EmptySeq DEF Fresh
  <2>2. /\ queue' \in Seq(Queued) /\ toggle' \in [{"in", "out"} -> 0..1]
        /\ halted' = FALSE /\ first' = "unset"
    BY <1>4 DEF Fresh
  <2>3. lunCount' \in 0..MAX_LUN+1
    BY <1>1
  <2> QED
    BY <1>0, <1>2, <1>4, <2>1, <2>2, <2>3 DEF Types
<1>6. DriverRight'
  BY <1>0, <1>1, <1>2, <1>4 DEF DriverRight
<1>7. QueueRight' /\ InTime'
  BY <1>0, <1>4, BetweenCommands, FreshInTime
<1>8. DeviceRight'
  BY <1>0, SameDevice
<1>9. UnitsBefore'
  <2>1. disks' = <<>> /\ Len(disks') = 0 /\ DOMAIN disks' = {}
    BY <1>0
  <2> QED
    BY <2>1 DEF UnitsBefore
<1> QED
  BY <1>5, <1>6, <1>7, <1>8, <1>9 DEF UsbInv

LEMMA ReadLegal ==
  ASSUME Types, blockSize # 0, NEW k \in DOMAIN disks, NEW r \in Requests
  PROVE  LET c == Read10(disks[k].lun, r)
         IN /\ Legal(c) /\ c.op = "read" /\ c.lun = disks[k].lun /\ c.lba = r.lba
            /\ c.blocks = r.blocks /\ c.length = r.blocks * blockSize
<1>1. disks[k].lun \in Lun
  <2>1. disks[k] \in Unit
    BY DEF Types
  <2> QED
    BY <2>1 DEF Unit
<1>2. r.lba \in Nat /\ r.blocks \in Nat \ {0} /\ blockSize \in Nat \ {0}
  BY UsbAssumption DEF Types
<1>3. r.blocks * blockSize \in Nat /\ r.blocks * blockSize > 0
  BY <1>2
<1> DEFINE length == r.blocks * blockSize
<1> HIDE DEF length
<1>4. Read10(disks[k].lun, r) = [op |-> "read", lun |-> disks[k].lun, lba |-> r.lba,
                                 blocks |-> r.blocks, length |-> length]
  BY DEF Read10, length
<1>5. length \in Nat /\ length > 0
  BY <1>3 DEF length
<1>6. [op |-> "read", lun |-> disks[k].lun, lba |-> r.lba,
       blocks |-> r.blocks, length |-> length] \in Command
  BY <1>1, <1>2, <1>5 DEF Command, Ops
<1> QED
  BY <1>2, <1>4, <1>5, <1>6 DEF Legal, length

LEMMA ReadRight ==
  ASSUME UsbInv, NEW k \in DOMAIN disks, NEW r \in Requests, Read(disks[k], r)
  PROVE  UsbInv'
<1> DEFINE c == Read10(disks[k].lun, r)
<1>0. /\ Types /\ DriverRight /\ DeviceRight /\ UnitsBefore
      /\ phase = "none" /\ result' = NoResult /\ Issue(c)
      /\ UNCHANGED <<lunCount, attempt, blockSize, disks, dev, trouble>>
  BY DEF UsbInv, DriverRight, Read
<1>1. Legal(c) /\ c.op = "read"
  <2>1. blockSize # 0
    BY DEF Read
  <2> QED
    BY <1>0, <2>1, ReadLegal
<1> HIDE DEF c
<1>2. result' \in Result
  BY <1>0, EmptySeq DEF NoResult, Result
<1>3. Goes
  BY <1>0, <1>1 DEF Goes
<1>4. Types' /\ DriverRight' /\ Fresh
  BY <1>0, <1>2, <1>3, GoesRight DEF Types, DriverRight
<1>5. QueueRight' /\ InTime'
  BY <1>0, <1>4, BetweenCommands, FreshInTime
<1>6. DeviceRight'
  BY <1>0, SameDevice
<1>7. UnitsBefore'
  <2>1. ~SettingUp' /\ command' \in Command
    BY <1>0, <1>1, <1>4 DEF Issue, SettingUp, Types
  <2> QED
    BY <1>0, <2>1, UnitsKept
<1> QED
  BY <1>4, <1>5, <1>6, <1>7 DEF UsbInv

-----------------------------------------------------------------------------
(* The controller's steps *)

LEMMA QueueParts ==
  ASSUME NEW S, NEW q \in Seq(S), q # <<>>
  PROVE  /\ Head(q) = q[1] /\ q[1] \in S /\ 1 \in DOMAIN q /\ Len(q) \in Nat \ {0}
         /\ Tail(q) \in Seq(S) /\ Len(Tail(q)) = Len(q) - 1
         /\ \A k \in 1..Len(q)-1 : Tail(q)[k] = q[k+1]
         /\ Len(q) = 1 => Tail(q) = <<>>
         /\ Tail(q) = <<>> => Len(q) = 1
<1>1. Len(q) \in Nat \ {0} /\ 1 \in DOMAIN q /\ q[1] \in S
  OBVIOUS
<1>2. Head(q) = q[1]
  OBVIOUS
<1>3. Tail(q) \in Seq(S) /\ Len(Tail(q)) = Len(q) - 1
  BY <1>1
<1>4. \A k \in 1..Len(q)-1 : Tail(q)[k] = q[k+1]
  BY <1>1
<1>5. Tail(q) = <<>> <=> Len(Tail(q)) = 0
  <2> DEFINE t == Tail(q)
  <2>1. t \in Seq(S)
    BY <1>3
  <2> HIDE DEF t
  <2>2. t = <<>> <=> Len(t) = 0
    BY <2>1
  <2> QED
    BY <2>2 DEF t
<1> QED
  BY <1>1, <1>2, <1>3, <1>4, <1>5

LEMMA AtMostOne ==
  ASSUME NEW n \in Nat \ {0}, n <= 1
  PROVE  n = 1
OBVIOUS

LEMMA ControllerKeeps ==
  ASSUME Types, DriverRight, UnitsBefore, phase # "none",
         UNCHANGED <<host, trouble>>, queue' \in Seq(Queued), buffer' \in Seq(Packet),
         halted' \in BOOLEAN, first' \in {"unset", "some"},
         dev' \in Device, dev'.sizes = dev.sizes
  PROVE  Types' /\ DriverRight' /\ UnitsBefore'
<1>1. /\ at' = at /\ phase' = phase /\ command' = command /\ lunCount' = lunCount
      /\ attempt' = attempt /\ blockSize' = blockSize /\ toggle' = toggle /\ data' = data
      /\ disks' = disks /\ result' = result /\ trouble' = trouble
  BY DEF host
<1>2. Types'
  BY <1>1 DEF Types
<1>3. DriverRight'
  BY <1>1 DEF DriverRight
<1>4. UnitsBefore'
  <2>1. SettingUp' => SettingUp /\ command'.lun >= command.lun
    BY <1>1 DEF SettingUp, Types, Command, Lun
  <2> QED
    BY <1>1, <1>2, <2>1, UnitsKept DEF Types
<1> QED
  BY <1>2, <1>3, <1>4

\* The command block leaves.
LEMMA CommandLeaves ==
  ASSUME UsbInv, queue # <<>>, ~halted, Head(queue).pid = "out", PacketDone,
         UNCHANGED <<host, buffer, trouble>>,
         dev' \in Device, Working(dev'), dev'.sizes = dev.sizes
  PROVE  /\ Types' /\ DriverRight' /\ QueueRight' /\ DeviceRight' /\ UnitsBefore'
         /\ phase = "command" /\ phase' = "command" /\ command' = command
         /\ queue' = <<>> /\ trouble' = trouble
         /\ Head(queue).toggle = 1 - toggle["out"] /\ toggle' = toggle
         /\ NextIn' = toggle["in"] /\ NextIn = toggle["in"]
<1>1. /\ Types /\ DriverRight /\ QueueRight /\ UnitsBefore
      /\ queue \in Seq(Queued) /\ buffer \in Seq(Packet)
  BY DEF UsbInv, Types
<1>2. /\ Head(queue) = queue[1] /\ 1 \in DOMAIN queue /\ Len(queue) \in Nat \ {0}
      /\ Tail(queue) \in Seq(Queued) /\ (Len(queue) = 1 => Tail(queue) = <<>>)
  BY <1>1, QueueParts
<1>3. phase = "command"
  <2>1. phase # "none"
    BY <1>1 DEF DriverRight
  <2>2. ASSUME phase \in {"data", "status"} PROVE FALSE
    <3>1. queue[1].pid = "in"
      BY <1>1, <1>2, <2>2 DEF QueueRight
    <3> QED
      BY <1>2, <3>1
  <2> QED
    BY <1>1, <2>1, <2>2 DEF Types
<1>4. queue[1].toggle = 1 - toggle["out"] /\ Len(queue) = 1 /\ buffer = <<>>
  <2>1. /\ buffer = <<>> /\ Len(queue) <= 1
        /\ \A k \in DOMAIN queue : queue[k].toggle = 1 - toggle["out"]
    BY <1>1, <1>3 DEF QueueRight
  <2>2. queue[1].toggle = 1 - toggle["out"]
    BY <1>2, <2>1, Zenon
  <2>3. Len(queue) = 1
    <3>1. Len(queue) \in Nat \ {0}
      BY <1>2
    <3>2. Len(queue) <= 1
      BY <2>1
    <3> QED
      BY <3>1, <3>2, AtMostOne
  <2> QED
    BY <2>1, <2>2, <2>3
<1>5. /\ queue' = <<>> /\ halted' = halted /\ first' \in {"unset", "some"}
      /\ buffer' = buffer /\ phase' = phase /\ toggle' = toggle /\ command' = command
      /\ trouble' = trouble
  BY <1>1, <1>2, <1>4 DEF PacketDone, host, Types
<1>6. Types' /\ DriverRight' /\ UnitsBefore'
  <2>1. queue' \in Seq(Queued) /\ halted' \in BOOLEAN /\ buffer' \in Seq(Packet)
    BY <1>1, <1>5, EmptySeq DEF Types
  <2> QED
    BY <1>1, <1>3, <1>5, <2>1, ControllerKeeps
<1>7. QueueRight'
  BY <1>3, <1>4, <1>5 DEF QueueRight
<1>8. DeviceRight'
  BY DEF DeviceRight, Working
<1>9. NextIn' = toggle["in"] /\ NextIn = toggle["in"]
  BY <1>3, <1>5 DEF NextIn
<1> QED
  BY <1>2, <1>3, <1>4, <1>5, <1>6, <1>7, <1>8, <1>9

LEMMA CommandTakenRight ==
  ASSUME UsbInv, CommandTaken
  PROVE  UsbInv'
<1>0. /\ Types /\ DriverRight /\ QueueRight /\ DeviceRight /\ InTime /\ UnitsBefore
      /\ queue # <<>> /\ ~halted /\ Head(queue).pid = "out" /\ Head(queue).toggle = dev.out
      /\ PacketDone /\ UNCHANGED <<host, buffer, trouble>>
  BY DEF UsbInv, CommandTaken
<1>1. /\ dev \in Device /\ command \in Command /\ toggle["out"] \in 0..1
      /\ dev.out \in 0..1 /\ 1 - dev.out \in 0..1
  BY <1>0 DEF Types, Device
<1>2. phase # "none" /\ command.length > 0 /\ command.op # "none"
  BY <1>0, CommandSizes DEF DriverRight
<1>3. CASE \E passed \in BOOLEAN :
             dev' = [Taking(command, passed) EXCEPT !.out = 1 - @, !.held = NoCommand]
  <2>1. PICK passed \in BOOLEAN :
          dev' = [Taking(command, passed) EXCEPT !.out = 1 - @, !.held = NoCommand]
    BY <1>3
  <2> DEFINE t == Taking(command, passed)
  <2>2. /\ t \in Device /\ t.stage = "data" /\ t.cmd = command /\ t.sent = 0
        /\ t.in = dev.in /\ t.out = dev.out /\ t.sizes = dev.sizes
    BY <1>1, <1>2, TakingRight
  <2>3. dev' = [t EXCEPT !.out = 1 - @, !.held = NoCommand]
    BY <2>1
  <2> HIDE DEF t
  <2>4. /\ dev' \in Device /\ dev'.stage = "data" /\ dev'.cmd = command /\ dev'.sent = 0
        /\ dev'.in = dev.in /\ dev'.out = 1 - dev.out /\ dev'.held = NoCommand
        /\ dev'.sizes = dev.sizes
    BY <1>1, <2>2, <2>3, NoCommandType DEF Device
  <2>5. Working(dev')
    BY <1>1, <1>2, <2>4 DEF Working, Command
  <2>6. /\ Types' /\ DriverRight' /\ QueueRight' /\ DeviceRight' /\ UnitsBefore'
        /\ phase = "command" /\ phase' = "command" /\ command' = command
        /\ queue' = <<>> /\ trouble' = trouble
        /\ Head(queue).toggle = 1 - toggle["out"] /\ toggle' = toggle
        /\ NextIn' = toggle["in"] /\ NextIn = toggle["in"]
    BY <1>0, <2>4, <2>5, CommandLeaves
  <2>7. Together'
    BY <2>4, <2>6 DEF Together, Own, Ready
  <2>8. ASSUME trouble' = "none" PROVE Lockstep'
    <3>1. Lockstep
      BY <1>0, <2>6, <2>8 DEF InTime
    <3>2. dev'.in = NextIn'
      BY <2>4, <2>6, <3>1 DEF Lockstep
    <3>3. dev'.out = toggle["out"]
      BY <1>0, <1>1, <2>4, <2>6
    <3> QED
      BY <2>4, <2>6, <3>2, <3>3 DEF Lockstep, Ready
  <2> QED
    BY <2>6, <2>7, <2>8 DEF UsbInv, InTime
<1>4. CASE /\ dev.stage # "ready" /\ dev.held = NoCommand
           /\ dev' = [dev EXCEPT !.out = 1 - @, !.held = command]
  <2>1. /\ dev' \in Device /\ dev'.stage = dev.stage /\ dev'.cmd = dev.cmd
        /\ dev'.sent = dev.sent /\ dev'.in = dev.in /\ dev'.held = command
        /\ dev'.sizes = dev.sizes
    BY <1>1, <1>4 DEF Device
  <2>2. Working(dev')
    BY <1>0, <1>2, <1>4, <2>1 DEF DeviceRight, Working
  <2>3. /\ Types' /\ DriverRight' /\ QueueRight' /\ DeviceRight' /\ UnitsBefore'
        /\ phase = "command" /\ phase' = "command" /\ command' = command
        /\ queue' = <<>> /\ trouble' = trouble
        /\ NextIn' = toggle["in"] /\ NextIn = toggle["in"]
    BY <1>0, <2>1, <2>2, CommandLeaves
  <2>4. ASSUME trouble' # "lost" PROVE Together'
    <3>1. Leftover
      BY <1>0, <1>4, <2>3, <2>4 DEF InTime, Together, Ready
    <3> QED
      BY <2>1, <2>3, <3>1 DEF Together, Leftover
  <2>5. ASSUME trouble' = "none" PROVE FALSE
    BY <1>0, <1>4, <2>3, <2>5 DEF InTime, Lockstep, Ready
  <2> QED
    BY <2>3, <2>4, <2>5 DEF UsbInv, InTime
<1> QED
  BY <1>3, <1>4 DEF CommandTaken

LEMMA CommandDiscardedRight ==
  ASSUME UsbInv, CommandDiscarded
  PROVE  UsbInv'
<1>0. /\ Types /\ DriverRight /\ QueueRight /\ DeviceRight /\ InTime /\ UnitsBefore
      /\ queue # <<>> /\ ~halted /\ Head(queue).pid = "out" /\ Head(queue).toggle # dev.out
      /\ PacketDone /\ UNCHANGED <<host, buffer, trouble>> /\ dev' = dev
  BY DEF UsbInv, CommandDiscarded
<1>1. dev' \in Device /\ Working(dev') /\ dev'.sizes = dev.sizes
  BY <1>0 DEF Types, DeviceRight
<1>2. /\ Types' /\ DriverRight' /\ QueueRight' /\ DeviceRight' /\ UnitsBefore'
      /\ phase = "command" /\ phase' = "command" /\ command' = command
      /\ queue' = <<>> /\ trouble' = trouble
      /\ Head(queue).toggle = 1 - toggle["out"]
      /\ NextIn' = toggle["in"] /\ NextIn = toggle["in"]
  BY <1>0, <1>1, CommandLeaves
<1>3. ASSUME trouble' # "lost" PROVE Together'
  <2>1. Ready \/ (Leftover /\ dev.held = NoCommand)
    BY <1>0, <1>2, <1>3 DEF InTime, Together
  <2> QED
    BY <1>0, <1>2, <2>1 DEF Together, Ready, Leftover
<1>4. ASSUME trouble' = "none" PROVE FALSE
  <2>1. dev.out = 1 - toggle["out"]
    BY <1>0, <1>2, <1>4 DEF InTime, Lockstep
  <2> QED
    BY <1>0, <1>2, <2>1
<1> QED
  BY <1>2, <1>3, <1>4 DEF UsbInv, InTime

LEMMA PacketBreaksRight ==
  ASSUME UsbInv, PacketBreaks
  PROVE  UsbInv'
<1>0. /\ Types /\ DriverRight /\ QueueRight /\ DeviceRight /\ InTime /\ UnitsBefore
      /\ queue # <<>> /\ ~halted /\ halted' = TRUE /\ first' \in {first, "some"} /\ queue' = queue
      /\ UNCHANGED <<host, buffer, trouble>> /\ dev' = dev
  BY DEF UsbInv, PacketBreaks, Stopped
<1>1. phase # "none" /\ queue \in Seq(Queued)
  BY <1>0 DEF DriverRight, Types
<1>2. /\ at' = at /\ phase' = phase /\ command' = command /\ toggle' = toggle
      /\ data' = data /\ buffer' = buffer /\ trouble' = trouble
  BY <1>0 DEF host
<1>3. Types' /\ DriverRight' /\ UnitsBefore'
  <2>1. /\ queue' \in Seq(Queued) /\ buffer' \in Seq(Packet) /\ halted' \in BOOLEAN
        /\ first' \in {"unset", "some"} /\ dev' \in Device /\ dev'.sizes = dev.sizes
    BY <1>0, <1>2 DEF Types
  <2> QED
    BY <1>0, <1>1, <2>1, ControllerKeeps
<1>4. QueueRight'
  <2>1. Len(queue) > 0 /\ Total' = Total /\ Space' = Space
    BY <1>0, <1>1, <1>2 DEF Total, Space
  <2> QED
    BY <1>0, <1>2, <2>1 DEF QueueRight
<1>5. DeviceRight' /\ (Ready' <=> Ready) /\ NextIn' = NextIn
      /\ \A c, k, passed : DataPacket(c, k, passed)' = DataPacket(c, k, passed)
  BY <1>0, <1>2, SameDevice DEF NextIn
<1>6. Together => Together'
  <2>1. (Leftover' <=> Leftover) /\ (Own' <=> Own) /\ (Passed' <=> Passed)
    BY <1>0, <1>2, <1>5 DEF Leftover, Own, Passed
  <2>2. /\ DataOf(buffer, dev.passed)' <=> DataOf(buffer, dev.passed)
        /\ AllData(TRUE)' <=> AllData(TRUE)
        /\ AllData(dev.passed)' <=> AllData(dev.passed)
    BY <1>0, <1>2, <1>5 DEF AllData, DataOf
  <2> QED
    BY <1>0, <1>2, <1>5, <2>1, <2>2 DEF Together
<1> QED
  BY <1>0, <1>2, <1>3, <1>4, <1>5, <1>6 DEF UsbInv, InTime

\* The device sends.
Sending == /\ UsbInv /\ queue # <<>> /\ ~halted /\ Head(queue).pid = "in" /\ ~Ready
           /\ dev' \in AfterSending
           /\ UNCHANGED <<host, trouble>>

LEMMA SendingState ==
  ASSUME Sending
  PROVE  /\ phase \in {"data", "status"} /\ phase # "none"
         /\ Head(queue) = queue[1] /\ Head(queue).toggle = NextIn /\ Head(queue).max = Space
         /\ NextIn \in 0..1
         /\ Len(buffer) \in Nat /\ Len(queue) \in Nat \ {0} /\ Total \in Nat \ {0}
         /\ Len(buffer) + Len(queue) = Total
         /\ dev \in Device /\ buffer \in Seq(Packet) /\ queue \in Seq(Queued)
         /\ dev.stage \in {"data", "status"}
         /\ phase' = phase /\ command' = command /\ toggle' = toggle /\ data' = data
         /\ at' = at /\ trouble' = trouble
<1>1. /\ Types /\ DriverRight /\ QueueRight /\ ~halted /\ queue # <<>> /\ Head(queue).pid = "in"
      /\ ~Ready
  BY DEF Sending, UsbInv
<1>2. dev \in Device /\ buffer \in Seq(Packet) /\ queue \in Seq(Queued)
      /\ phase \in {"none", "command", "data", "status"}
  BY <1>1 DEF Types
<1>3. /\ Head(queue) = queue[1] /\ queue[1] \in Queued /\ 1 \in DOMAIN queue
      /\ Len(queue) \in Nat \ {0}
  BY <1>1, <1>2, QueueParts
<1>4. phase \in {"data", "status"}
  <2>1. phase # "none"
    BY <1>1 DEF DriverRight
  <2>2. phase = "command" => queue[1].pid = "out"
    BY <1>1, <1>3 DEF QueueRight
  <2> QED
    BY <1>1, <1>2, <1>3, <2>1, <2>2
<1>5. NextIn = queue[1].toggle /\ queue[1].toggle \in 0..1
  BY <1>1, <1>3, <1>4 DEF NextIn, Queued
<1>6. queue[1].max = Space
  BY <1>1, <1>3, <1>4 DEF QueueRight
<1>7. Len(buffer) \in Nat /\ Len(buffer) + Len(queue) = Total
  BY <1>1, <1>2, <1>4 DEF QueueRight
<1>8. Total \in Nat \ {0}
  BY <1>1, <1>4, CommandSizes DEF Total
<1>9. dev.stage \in {"data", "status"}
  BY <1>1, <1>2 DEF Device, Ready
<1>10. /\ phase' = phase /\ command' = command /\ toggle' = toggle /\ data' = data
       /\ at' = at /\ trouble' = trouble
  BY DEF Sending, host
<1> QED
  BY <1>2, <1>3, <1>4, <1>5, <1>6, <1>7, <1>8, <1>9, <1>10

LEMMA OfferedType ==
  ASSUME Sending
  PROVE  /\ Offered \in Packet
         /\ dev.stage = "data" => /\ Offered = DataPacket(dev.cmd, dev.sent, dev.passed)
                                  /\ Offered.size = PacketSize(dev.cmd.op)
         /\ dev.stage = "status" => /\ Offered.size = MAX_CSW
                                    /\ Offered.kind = IF dev.passed THEN "passed" ELSE "refused"
<1>1. /\ dev \in Device /\ dev.cmd \in Command /\ dev.cmd.op # "none" /\ dev.sent \in Nat
      /\ dev.passed \in BOOLEAN /\ dev.stage \in {"data", "status"}
  BY SendingState DEF Sending, UsbInv, DeviceRight, Working, Device
<1>2. CASE dev.stage = "data"
  <2>1. Offered = DataPacket(dev.cmd, dev.sent, dev.passed)
    BY <1>2 DEF Offered
  <2> QED
    BY <1>1, <1>2, <2>1, DataPacketType
<1>3. CASE dev.stage = "status"
  <2>1. Offered = Status(dev.passed)
    BY <1>3 DEF Offered
  <2> QED
    BY <1>1, <1>3, <2>1, StatusType
<1> QED
  BY <1>1, <1>2, <1>3

\* What the device becomes does not depend on what becomes of the packet.
LEMMA DeviceSends ==
  ASSUME Sending
  PROVE  /\ dev' \in Device /\ DeviceRight' /\ dev'.sizes = dev.sizes
         /\ dev'.in = 1 - dev.in /\ dev'.out = dev.out
         /\ dev.stage = "data" =>
              /\ dev'.cmd = dev.cmd /\ dev'.held = dev.held /\ dev'.sent = dev.sent + 1
              /\ dev'.passed = dev.passed /\ ~Ready'
              /\ dev'.stage = IF dev'.sent = dev.cmd.length THEN "status" ELSE "data"
         /\ dev.stage = "status" /\ dev.held = NoCommand => Ready'
         /\ dev.stage = "status" /\ dev.held # NoCommand =>
              dev'.stage = "data" /\ dev'.cmd = dev.held /\ dev'.sent = 0 /\ dev'.held = NoCommand
         /\ \A c, k, passed : DataPacket(c, k, passed)' = DataPacket(c, k, passed)
<1>1. dev \in Device /\ DeviceRight /\ ~Ready /\ dev' \in AfterSending
  BY SendingState DEF Sending, UsbInv
<1>2. /\ dev' \in Device /\ Working(dev')
      /\ dev'.in = 1 - dev.in /\ dev'.out = dev.out /\ dev'.sizes = dev.sizes
      /\ dev.stage = "data" =>
           /\ dev'.cmd = dev.cmd /\ dev'.held = dev.held /\ dev'.sent = dev.sent + 1
           /\ dev'.passed = dev.passed
           /\ dev'.stage = IF dev'.sent = dev.cmd.length THEN "status" ELSE "data"
      /\ dev.stage = "status" /\ dev.held = NoCommand =>
           dev'.stage = "ready" /\ dev'.held = NoCommand
      /\ dev.stage = "status" /\ dev.held # NoCommand =>
           dev'.stage = "data" /\ dev'.cmd = dev.held /\ dev'.sent = 0 /\ dev'.held = NoCommand
  BY <1>1, SendingRight
<1>3. DeviceRight'
  BY <1>2 DEF DeviceRight, Working
<1>4. \A c, k, passed : DataPacket(c, k, passed)' = DataPacket(c, k, passed)
  BY <1>2 DEF DataPacket
<1> QED
  BY <1>2, <1>3, <1>4 DEF Ready

\* A packet that the device sends does not fit only if it is a status that
\* comes in the place of data.
LEMMA ArrivesRight ==
  ASSUME Sending, Head(queue).toggle = dev.in, Offered.size <= Head(queue).max,
         buffer' = Append(buffer, Offered), PacketDone
  PROVE  UsbInv'
<1> DEFINE n == Len(queue)
<1>0. Types /\ DriverRight /\ QueueRight /\ DeviceRight /\ InTime /\ UnitsBefore /\ ~halted
  BY DEF Sending, UsbInv
<1>1. /\ queue' = Tail(queue) /\ Tail(queue) \in Seq(Queued) /\ Len(Tail(queue)) = n - 1
      /\ \A k \in 1..n-1 : Tail(queue)[k] = queue[k+1]
      /\ n = 1 => Tail(queue) = <<>>
      /\ Tail(queue) = <<>> => n = 1
      /\ n \in Nat \ {0}
  BY SendingState, QueueParts DEF Sending, PacketDone
<1> DEFINE q == Tail(queue)
<1> HIDE DEF q, n
<1>2. /\ queue' = q /\ q \in Seq(Queued) /\ Len(q) = n - 1 /\ DOMAIN q = 1..n-1
      /\ \A k \in 1..n-1 : q[k] = queue[k+1]
      /\ (q = <<>> <=> n = 1) /\ n \in Nat \ {0} /\ n = Len(queue)
  BY <1>1 DEF q, n
<1>3. /\ buffer' \in Seq(Packet) /\ Len(buffer') = Len(buffer) + 1
      /\ buffer'[Len(buffer)+1] = Offered
      /\ \A k \in DOMAIN buffer : buffer'[k] = buffer[k]
      /\ \A k \in DOMAIN buffer' : k \in DOMAIN buffer \/ k = Len(buffer) + 1
  BY SendingState, OfferedType
<1>4. Types' /\ DriverRight' /\ UnitsBefore'
  <2>1. halted' \in BOOLEAN /\ first' \in {"unset", "some"}
    BY <1>0 DEF PacketDone, Types
  <2> QED
    BY <1>0, <1>2, <1>3, <2>1, SendingState, DeviceSends, ControllerKeeps DEF Sending
<1>5. /\ \A k \in 1..n : queue[k].pid = "in" /\ queue[k].max = Space
      /\ \A k \in 1..n-1 : queue[k+1].toggle = 1 - queue[k].toggle
      /\ queue[n].toggle = 1 - toggle["in"]
      /\ n <= Total /\ Len(buffer) + n = Total
  BY <1>0, <1>2, SendingState DEF QueueRight, Alternating, Sending
<1>6. QueueRight'
  <2>1. Total' = Total /\ Space' = Space /\ phase' \in {"data", "status"} /\ ~halted'
    BY <1>0, SendingState DEF Total, Space, PacketDone
  <2>2. \A k \in 1..n-1 : q[k].pid = "in" /\ q[k].max = Space
    <3> TAKE k \in 1..n-1
    <3>1. k + 1 \in 1..n /\ q[k] = queue[k+1]
      BY <1>2
    <3> QED
      BY <1>5, <3>1
  <2>3. Alternating(q)
    <3> SUFFICES ASSUME NEW k \in 1..(n-1)-1 PROVE q[k+1].toggle = 1 - q[k].toggle
      BY <1>2 DEF Alternating
    <3>1. k + 1 \in 1..n-1 /\ k \in 1..n-1
      BY <1>2
    <3>2. q[k] = queue[k+1] /\ q[k+1] = queue[(k+1)+1]
      BY <1>2, <3>1
    <3> QED
      BY <1>5, <3>1, <3>2
  <2>4. q # <<>> => q[n-1].toggle = 1 - toggle["in"]
    <3> SUFFICES ASSUME q # <<>> PROVE q[n-1].toggle = 1 - toggle["in"]
      OBVIOUS
    <3>1. n - 1 \in 1..n-1 /\ (n - 1) + 1 = n
      BY <1>2
    <3>2. q[n-1] = queue[(n-1)+1]
      BY <1>2, <3>1
    <3> QED
      BY <1>5, <3>1, <3>2
  <2>5. Len(q) <= Total /\ Len(buffer') + Len(q) = Total
    BY <1>2, <1>3, <1>5, SendingState
  <2> QED
    BY <1>2, <2>1, <2>2, <2>3, <2>4, <2>5, SendingState DEF QueueRight
<1>7. NextIn' = 1 - NextIn /\ dev.in = NextIn /\ dev'.in = NextIn'
  <2>1. NextIn = queue[1].toggle /\ dev.in = NextIn
    BY SendingState
  <2>2. CASE n = 1
    <3>1. NextIn' = toggle["in"] /\ NextIn = 1 - toggle["in"]
      BY <1>2, <1>5, <2>1, <2>2, SendingState DEF NextIn
    <3>2. toggle["in"] \in 0..1
      BY <1>0 DEF Types
    <3> QED
      BY <2>1, <3>1, <3>2, DeviceSends
  <2>3. CASE n # 1
    <3>1. 1 \in 1..n-1
      BY <1>2, <2>3
    <3>2. NextIn' = q[1].toggle /\ q[1] = queue[1+1]
      BY <1>2, <2>3, <3>1, SendingState DEF NextIn
    <3>3. queue[1+1].toggle = 1 - queue[1].toggle
      BY <1>5, <3>1
    <3> QED
      BY <2>1, <3>2, <3>3, DeviceSends
  <2> QED
    BY <2>2, <2>3
<1>8. ~Leftover
  BY <1>7 DEF Leftover
<1>9. ASSUME trouble # "lost", phase = "data"
      PROVE  /\ Own /\ Len(buffer) <= dev.sent
             /\ dev.sent = Len(buffer) => DataOf(buffer, dev.passed)
  BY <1>0, <1>8, <1>9 DEF InTime, Together, Sending
<1>10. ASSUME trouble # "lost", phase = "status"
       PROVE  Own /\ dev.stage = "status" /\ AllData(dev.passed) /\ buffer = <<>> /\ Ready'
  <2>1. Own /\ dev.stage = "status" /\ AllData(dev.passed) /\ buffer = <<>>
    BY <1>0, <1>8, <1>10 DEF InTime, Together, Sending
  <2> QED
    BY <2>1, DeviceSends DEF Own
<1>11. ASSUME trouble' # "lost" PROVE Together'
  <2>0. trouble # "lost"
    BY <1>11, SendingState
  <2>1. CASE phase = "data" /\ dev.stage = "status"
    <3>1. Ready'
      BY <1>9, <2>0, <2>1, DeviceSends DEF Own
    <3> QED
      BY <2>1, <3>1, SendingState DEF Together
  <2>2. CASE phase = "data" /\ dev.stage = "data"
    <3>1. /\ Own' /\ dev'.sent = dev.sent + 1 /\ dev'.passed = dev.passed
          /\ dev.cmd = command
      BY <1>9, <2>0, <2>2, DeviceSends, SendingState DEF Own, Ready
    <3>2. dev.sent \in Nat
      BY SendingState DEF Device
    <3>3. Len(buffer') <= dev'.sent
      BY <1>3, <1>9, <2>0, <2>2, <3>1, <3>2, SendingState
    <3>4. ASSUME dev'.sent = Len(buffer')
          PROVE  DataOf(buffer, dev.passed)'
      <4>1. dev.sent = Len(buffer) /\ DataOf(buffer, dev.passed)
        BY <1>3, <1>9, <2>0, <2>2, <3>1, <3>2, <3>4, SendingState
      <4>2. Offered = DataPacket(command, dev.sent, dev.passed)
        BY <2>2, <3>1, OfferedType
      <4>3. \A k \in DOMAIN buffer' : buffer'[k] = DataPacket(command, k - 1, dev.passed)
        <5> TAKE k \in DOMAIN buffer'
        <5>1. CASE k \in DOMAIN buffer
          BY <1>3, <4>1, <5>1 DEF DataOf
        <5>2. CASE k = Len(buffer) + 1
          <6>1. k - 1 = dev.sent
            BY <3>2, <4>1, <5>2
          <6> QED
            BY <1>3, <4>2, <5>2, <6>1
        <5> QED
          BY <1>3, <5>1, <5>2
      <4>4. \A c, k, passed : DataPacket(c, k, passed)' = DataPacket(c, k, passed)
        BY DeviceSends
      <4> QED
        BY <3>1, <4>3, <4>4, SendingState DEF DataOf
    <3> QED
      BY <1>7, <2>2, <3>1, <3>3, <3>4, SendingState DEF Together
  <2>3. CASE phase = "status"
    <3>1. Ready' /\ buffer' = <<Offered>> /\ AllData(dev.passed)
      BY <1>10, <2>0, <2>3, OfferedType
    <3>2. ASSUME Passed' PROVE AllData(TRUE)'
      <4>1. buffer'[1].kind = "passed" /\ buffer'[1] = Offered
        BY <3>1, <3>2 DEF Passed
      <4>2. dev.passed
        BY <1>10, <2>0, <2>3, <4>1, OfferedType
      <4>3. dev.passed = TRUE
        BY <4>2, SendingState DEF Device
      <4>4. AllData(TRUE)
        BY <3>1, <4>3
      <4>5. \A c, k, passed : DataPacket(c, k, passed)' = DataPacket(c, k, passed)
        BY DeviceSends
      <4> QED
        BY <4>4, <4>5, SendingState DEF AllData, DataOf
    <3> QED
      BY <2>3, <3>1, <3>2, SendingState DEF Together
  <2> QED
    BY <2>1, <2>2, <2>3, SendingState
<1>12. ASSUME trouble' = "none" PROVE Lockstep'
  <2>0. trouble = "none" /\ Lockstep
    BY <1>0, <1>12, SendingState DEF InTime
  <2>1. dev'.out = toggle'["out"] /\ phase' # "command"
    BY <2>0, SendingState, DeviceSends DEF Lockstep
  <2>2. CASE phase = "data"
    <3>1. dev.sent = Len(buffer) /\ Own
      BY <1>9, <2>0, <2>2 DEF Lockstep
    <3>2. dev.stage = "data"
      <4>1. ASSUME dev.stage = "status" PROVE FALSE
        <5>1. dev.sent = command.length
          BY <1>0, <3>1, <4>1 DEF DeviceRight, Working, Own
        <5>2. Total = command.length
          BY <2>2 DEF Total
        <5> QED
          BY <3>1, <5>1, <5>2, SendingState
      <4> QED
        BY <4>1, SendingState
    <3>3. ~Ready' /\ dev'.sent = Len(buffer')
      BY <1>3, <3>1, <3>2, DeviceSends
    <3> QED
      BY <1>7, <2>1, <2>2, <3>3, SendingState DEF Lockstep
  <2>3. CASE phase = "status"
    <3>1. Ready'
      BY <1>10, <2>0, <2>3
    <3>2. n <= 1
      BY <1>5, <2>3 DEF Total
    <3>3. n = 1
      BY <1>2, <3>2, AtMostOne
    <3>4. queue' = <<>>
      BY <1>2, <3>3
    <3> QED
      BY <1>7, <2>1, <2>3, <3>1, <3>4, SendingState DEF Lockstep
  <2> QED
    BY <2>2, <2>3, SendingState
<1> QED
  BY <1>4, <1>6, <1>11, <1>12, DeviceSends DEF UsbInv, InTime

LEMMA TooLongRight ==
  ASSUME Sending, Head(queue).toggle = dev.in, Offered.size > Head(queue).max,
         buffer' \in {buffer, Append(buffer, Cut(Offered))}, Stopped
  PROVE  UsbInv'
<1>0. Types /\ DriverRight /\ QueueRight /\ DeviceRight /\ InTime /\ UnitsBefore /\ ~halted
  BY DEF Sending, UsbInv
<1>1. queue' = queue /\ halted' = TRUE /\ first' \in {"unset", "some"}
  BY <1>0 DEF Stopped, Types
<1>2. buffer' \in Seq(Packet) /\ Len(buffer') \in {Len(buffer), Len(buffer) + 1}
  <2> DEFINE cut == Cut(Offered)
  <2>1. cut \in Packet /\ buffer \in Seq(Packet)
    BY SendingState, OfferedType, CutType
  <2>2. buffer' = buffer \/ buffer' = Append(buffer, cut)
    OBVIOUS
  <2> HIDE DEF cut
  <2>3. Append(buffer, cut) \in Seq(Packet) /\ Len(Append(buffer, cut)) = Len(buffer) + 1
    BY <2>1
  <2> QED
    BY <2>1, <2>2, <2>3
<1>3. Types' /\ DriverRight' /\ UnitsBefore'
  BY <1>0, <1>1, <1>2, SendingState, DeviceSends, ControllerKeeps DEF Sending
<1>4. QueueRight'
  <2>1. /\ Total' = Total /\ Space' = Space /\ phase' \in {"data", "status"} /\ toggle' = toggle
    BY SendingState DEF Total, Space
  <2>2. Len(queue) > 0
    BY SendingState
  <2>3. Len(buffer') + Len(queue) \in {Total, Total + 1}
    <3>1. CASE Len(buffer') = Len(buffer)
      BY <3>1, SendingState
    <3>2. CASE Len(buffer') = Len(buffer) + 1
      <4>1. /\ Len(buffer) \in Nat /\ Len(queue) \in Nat /\ Len(buffer) + Len(queue) = Total
        BY SendingState
      <4> QED
        BY <3>2, <4>1
    <3> QED
      BY <1>2, <3>1, <3>2
  <2> QED
    BY <1>0, <1>1, <2>1, <2>2, <2>3, SendingState DEF QueueRight
<1>5. ~Leftover
  BY SendingState DEF Leftover
<1>6. MAX_CSW = 13
  BY DEF MAX_CSW
<1>7. ASSUME trouble' # "lost" PROVE Together'
  <2>0. trouble # "lost"
    BY <1>7, SendingState
  <2>1. CASE phase = "data"
    <3>1. Own
      BY <1>0, <1>5, <2>0, <2>1 DEF InTime, Together, Sending
    <3>2. dev.stage # "data"
      <4>1. ASSUME dev.stage = "data" PROVE FALSE
        <5>1. Offered.size = Space
          BY <2>1, <3>1, <4>1, OfferedType DEF Own, Space
        <5>2. Space \in Nat
          BY <1>0, <2>1, CommandSizes DEF Space, Sending
        <5> QED
          BY <5>1, <5>2, SendingState
      <4> QED
        BY <4>1
    <3>3. Ready'
      BY <3>1, <3>2, SendingState, DeviceSends DEF Own
    <3> QED
      BY <2>1, <3>3, SendingState DEF Together
  <2>2. CASE phase = "status"
    <3>1. Own /\ dev.stage = "status"
      BY <1>0, <1>5, <2>0, <2>2 DEF InTime, Together, Sending
    <3>2. Offered.size = 13 /\ Head(queue).max = 13
      BY <1>6, <2>2, <3>1, OfferedType, SendingState DEF Space
    <3> QED
      BY <3>2
  <2> QED
    BY <2>1, <2>2, SendingState
<1> QED
  BY <1>1, <1>3, <1>4, <1>7, DeviceSends DEF UsbInv, InTime

LEMMA ThrownAwayRight ==
  ASSUME Sending, Head(queue).toggle # dev.in, UNCHANGED <<buffer, queue, first, halted>>
  PROVE  UsbInv'
<1>0. Types /\ DriverRight /\ QueueRight /\ DeviceRight /\ InTime /\ UnitsBefore /\ ~halted
  BY DEF Sending, UsbInv
<1>1. Types' /\ DriverRight' /\ UnitsBefore'
  <2>1. halted' \in BOOLEAN /\ first' \in {"unset", "some"}
    BY <1>0 DEF Types
  <2> QED
    BY <1>0, <2>1, SendingState, DeviceSends, ControllerKeeps DEF Sending
<1>2. QueueRight'
  <2>1. Total' = Total /\ Space' = Space /\ phase' = phase /\ toggle' = toggle
    BY SendingState DEF Total, Space
  <2> QED
    BY <1>0, <2>1 DEF QueueRight
<1>3. NextIn' = NextIn /\ dev.in # NextIn
  BY SendingState DEF NextIn
<1>4. ASSUME trouble' # "lost" PROVE Together'
  <2>0. trouble # "lost" /\ Together /\ ~Ready
    BY <1>0, <1>4, SendingState DEF InTime, Sending
  <2>1. phase = "data"
    BY <1>3, <2>0, SendingState DEF Together
  <2>2. CASE Leftover /\ dev.held \in {NoCommand, command} /\ buffer = <<>>
    <3>1. CASE dev.held = NoCommand
      <4>1. Ready'
        BY <2>2, <3>1, DeviceSends DEF Leftover
      <4> QED
        BY <2>1, <4>1, SendingState DEF Together
    <3>2. CASE dev.held # NoCommand
      <4>1. Own' /\ dev'.sent = 0 /\ buffer' = <<>>
        BY <2>2, <3>2, DeviceSends, SendingState DEF Leftover, Own, Ready
      <4>2. Len(buffer') = 0 /\ ~(dev'.sent > 0) /\ DataOf(buffer, dev.passed)'
        BY <4>1 DEF DataOf
      <4> QED
        BY <2>1, <4>1, <4>2, SendingState DEF Together
    <3> QED
      BY <3>1, <3>2
  <2>3. CASE Own /\ Len(buffer) <= dev.sent
    <3>1. CASE dev.stage = "status"
      <4>1. Ready'
        BY <2>3, <3>1, DeviceSends DEF Own
      <4> QED
        BY <2>1, <4>1, SendingState DEF Together
    <3>2. CASE dev.stage = "data"
      <4>1. Own' /\ dev'.sent = dev.sent + 1 /\ buffer' = buffer
        BY <2>3, <3>2, DeviceSends, SendingState DEF Own
      <4>2. dev.sent \in Nat
        BY SendingState DEF Device
      <4>3. Len(buffer') <= dev'.sent /\ dev'.sent # Len(buffer')
        BY <2>3, <4>1, <4>2, SendingState
      <4> QED
        BY <2>1, <4>1, <4>3, SendingState DEF Together
    <3> QED
      BY <3>1, <3>2, SendingState
  <2> QED
    BY <2>0, <2>1, <2>2, <2>3 DEF Together
<1>5. ASSUME trouble' = "none" PROVE FALSE
  BY <1>0, <1>3, <1>5, SendingState DEF InTime, Lockstep
<1> QED
  BY <1>1, <1>2, <1>4, <1>5, DeviceSends DEF UsbInv, InTime

LEMMA PacketSentRight ==
  ASSUME UsbInv, PacketSent
  PROVE  UsbInv'
<1>1. Sending
  BY DEF PacketSent, Sending, Ready
<1> QED
  BY <1>1, ArrivesRight, TooLongRight, ThrownAwayRight DEF PacketSent

-----------------------------------------------------------------------------
(* The specification *)

LEMMA InitRight == Init => UsbInv
<1> SUFFICES ASSUME Init PROVE UsbInv
  OBVIOUS
<1>1. PICK sizes \in SizesOf :
        dev = [stage |-> "ready", cmd |-> NoCommand, held |-> NoCommand, sent |-> 0,
               passed |-> TRUE, in |-> 0, out |-> 0, sizes |-> sizes]
  BY DEF Init
<1>2. dev \in Device /\ Working(dev) /\ dev.stage = "ready" /\ dev.in = 0 /\ dev.out = 0
  BY <1>1, NoCommandType DEF Device, Working
<1>3. /\ queue = <<>> /\ buffer = <<>> /\ data = <<>> /\ disks = <<>> /\ result = NoResult
      /\ phase = "none" /\ ~halted /\ trouble = "none" /\ toggle = [in |-> 0, out |-> 0]
  BY DEF Init
<1>4. toggle \in [{"in", "out"} -> 0..1] /\ toggle["in"] = 0 /\ toggle["out"] = 0
  BY <1>3
<1>5. Types
  <2>1. /\ queue \in Seq(Queued) /\ buffer \in Seq(Packet) /\ data \in Seq(Packet)
        /\ disks \in Seq(Unit)
    BY <1>3, EmptySeq
  <2>2. result \in Result
    BY <1>3, EmptySeq DEF NoResult, Result
  <2>3. lunCount \in 0..MAX_LUN+1 /\ attempt \in 0..ATTEMPTS-1
    BY UsbAssumption DEF Init
  <2> QED
    BY <1>2, <1>4, <2>1, <2>2, <2>3, NoCommandType DEF Init, Types
<1>6. DriverRight
  BY DEF Init, DriverRight
<1>7. QueueRight
  BY <1>3 DEF QueueRight
<1>8. InTime
  BY <1>2, <1>3, <1>4 DEF InTime, Together, Lockstep, Ready, NextIn
<1>9. UnitsBefore
  <2>1. DOMAIN disks = {} /\ Len(disks) = 0
    BY <1>3
  <2> QED
    BY <2>1 DEF UnitsBefore
<1> QED
  BY <1>2, <1>5, <1>6, <1>7, <1>8, <1>9 DEF UsbInv, DeviceRight

LEMMA StutterRight ==
  ASSUME UsbInv, UNCHANGED vars
  PROVE  UsbInv'
BY DEF vars, UsbInv, Types, DriverRight, QueueRight, DeviceRight, Working, InTime, UnitsBefore,
       Together, Lockstep, Ready, Leftover, Own, Passed, AllData, DataOf, DataPacket, NextIn,
       Total, Space

LEMMA StepRight == UsbInv /\ [Next]_vars => UsbInv'
<1> SUFFICES ASSUME UsbInv, [Next]_vars PROVE UsbInv'
  OBVIOUS
<1>1. CASE Driver
  BY <1>1, SetupDeviceRight, TransactionFailsRight, ToDataRight, ToStatusRight, CommandEndsRight
     DEF Driver
<1>2. CASE Controller
  BY <1>2, CommandTakenRight, CommandDiscardedRight, PacketSentRight, PacketBreaksRight
     DEF Controller
<1>3. ASSUME NEW k \in DOMAIN disks, NEW r \in Requests, Read(disks[k], r) PROVE UsbInv'
  BY <1>3, ReadRight
<1>4. CASE UNCHANGED vars
  BY <1>4, StutterRight
<1> QED
  BY <1>1, <1>2, <1>3, <1>4 DEF Next

\* The inductive invariant of the USB mass storage driver, for every number of
\* units, every block size and every device that answers as it likes.
THEOREM UsbInvariance == Spec => []UsbInv
<1>1. UsbInv /\ [Next]_vars => UsbInv'
  BY StepRight
<1> QED
  BY InitRight, <1>1, PTL DEF Spec

\* Everything is of its type, and a transaction never brings more packets than
\* there is place for, but one that is cut.
THEOREM UsbTypes == Spec => []TypeOK
<1>1. UsbInv => TypeOK
  <2> SUFFICES ASSUME UsbInv PROVE TypeOK
    OBVIOUS
  <2>0. Types /\ DriverRight /\ QueueRight /\ DeviceRight
    BY DEF UsbInv
  <2>1. \A k \in DOMAIN queue : queue[k] \in [pid : {"in", "out"}, toggle : 0..1, max : Nat]
    <3>1. \A k \in DOMAIN queue : queue[k] \in Queued
      BY <2>0 DEF Types
    <3> QED
      BY <3>1 DEF Queued
  <2>2. \A k \in DOMAIN buffer : buffer[k] \in Packet
    BY <2>0 DEF Types
  <2>3. \A k \in DOMAIN disks : disks[k] \in [lun : Lun, size : Nat]
    <3>1. \A k \in DOMAIN disks : disks[k] \in Unit
      BY <2>0 DEF Types
    <3> QED
      BY <3>1 DEF Unit
  <2>4. Len(buffer) + Len(queue) <= command.length + 1
    <3>1. Len(buffer) \in Nat /\ Len(queue) \in Nat /\ command.length \in Nat
      BY <2>0 DEF Types, Command
    <3>2. CASE phase = "none"
      <4>1. Len(buffer) = 0 /\ Len(queue) = 0
        BY <2>0, <3>2 DEF DriverRight
      <4> QED
        BY <3>1, <4>1
    <3>3. CASE phase = "command"
      <4>1. Len(buffer) = 0 /\ Len(queue) <= 1
        BY <2>0, <3>3 DEF QueueRight
      <4> QED
        BY <3>1, <4>1
    <3>4. CASE phase \in {"data", "status"}
      <4>1. command.length > 0
        BY <2>0, <3>4 DEF DriverRight
      <4>2. Total <= command.length /\ Total \in Nat
        BY <3>1, <4>1 DEF Total
      <4>3. Len(buffer) + Len(queue) \in {Total, Total + 1}
        BY <2>0, <3>4 DEF QueueRight, Types
      <4> QED
        BY <3>1, <4>2, <4>3
    <3> QED
      BY <2>0, <3>2, <3>3, <3>4 DEF Types
  <2>5. /\ dev.stage \in {"ready", "data", "status"} /\ dev.cmd \in Command
        /\ dev.held \in Command /\ dev.sent \in Nat
        /\ dev.in \in 0..1 /\ dev.out \in 0..1 /\ dev.sizes \in SizesOf
    BY <2>0 DEF Types, Device
  <2>6. dev.sent \in 0..dev.cmd.length
    <3>1. dev.cmd.length \in Nat
      BY <2>5 DEF Command
    <3>2. dev.sent <= dev.cmd.length
      BY <2>0, <2>5, <3>1 DEF DeviceRight, Working
    <3> QED
      BY <2>5, <3>1, <3>2
  <2>7. at \in (Ops \ {"none"}) \cup {"start", "idle"} /\ lunCount \in Nat
    BY <2>0, UsbAssumption DEF Types, Ops
  <2> QED
    BY <2>0, <2>1, <2>2, <2>3, <2>4, <2>5, <2>6, <2>7 DEF TypeOK, Types
<1> QED
  BY UsbInvariance, <1>1, PTL

\* Both ends agree between commands as long as every transaction was carried
\* out (the toggles of uhci_execute_bulk_transaction).
THEOREM EndsInStep == Spec => []InStep
<1>1. UsbInv => InStep
  <2> SUFFICES ASSUME UsbInv, at = "idle", trouble = "none"
               PROVE  /\ toggle["in"] = dev.in /\ toggle["out"] = dev.out
                      /\ dev.stage = "ready"
    BY DEF InStep
  <2>1. phase = "none" /\ queue = <<>> /\ ~halted
    BY DEF UsbInv, DriverRight
  <2>2. Lockstep
    BY <2>1 DEF UsbInv, InTime
  <2> QED
    BY <2>1, <2>2 DEF Lockstep, NextIn, Ready
<1> QED
  BY UsbInvariance, <1>1, PTL

\* Every unit is registered at most once, in order, and with its own block size
\* (usb_storage_setup_device).
THEOREM EveryUnitRight == Spec => []UnitsRight
<1>1. UsbInv => UnitsRight
  BY DEF UsbInv, UnitsBefore, UnitsRight
<1> QED
  BY UsbInvariance, <1>1, PTL

-----------------------------------------------------------------------------
(* A unit is a Disk *)

LEMMA InitImplements == Init => D!Init
<1> SUFFICES ASSUME Init PROVE D!Init
  OBVIOUS
<1>1. ~Asked /\ result = NoResult
  BY DEF Init, Asked
<1> QED
  BY <1>1 DEF D!Init, Request, Promised, Answered, Answer, NoResult

\* The blocks of the units do not change.
LEMMA SizesFixed ==
  ASSUME UsbInv, [Next]_vars
  PROVE  dev'.sizes = dev.sizes
<1>1. CASE Driver
  BY <1>1 DEF Driver, SetupDevice, TransactionFails, ToData, ToStatus, CommandEnds
<1>2. CASE CommandTaken
  <2>1. /\ dev \in Device /\ command \in Command /\ command.length > 0 /\ command.op # "none"
    <3>1. queue # <<>> /\ Types /\ DriverRight
      BY <1>2 DEF CommandTaken, UsbInv
    <3>2. phase # "none"
      BY <3>1 DEF DriverRight
    <3> QED
      BY <3>1, <3>2, CommandSizes DEF Types
  <2>2. ASSUME NEW passed \in BOOLEAN,
               dev' = [Taking(command, passed) EXCEPT !.out = 1 - @, !.held = NoCommand]
        PROVE  dev'.sizes = dev.sizes
    <3> DEFINE t == Taking(command, passed)
    <3>1. t \in Device /\ t.sizes = dev.sizes
      BY <2>1, TakingRight
    <3>2. dev' = [t EXCEPT !.out = 1 - @, !.held = NoCommand]
      BY <2>2
    <3> HIDE DEF t
    <3> QED
      BY <3>1, <3>2 DEF Device
  <2>3. dev' = [dev EXCEPT !.out = 1 - @, !.held = command] => dev'.sizes = dev.sizes
    BY <2>1 DEF Device
  <2> QED
    BY <1>2, <2>2, <2>3 DEF CommandTaken
<1>3. CASE CommandDiscarded \/ PacketBreaks
  BY <1>3 DEF CommandDiscarded, PacketBreaks
<1>4. CASE PacketSent
  <2>1. Sending
    BY <1>4 DEF PacketSent, Sending, Ready
  <2> QED
    BY <2>1, DeviceSends
<1>5. ASSUME NEW k \in DOMAIN disks, NEW r \in Requests, Read(disks[k], r)
      PROVE  dev'.sizes = dev.sizes
  BY <1>5 DEF Read
<1>6. CASE UNCHANGED vars
  BY <1>6 DEF vars
<1> QED
  BY <1>1, <1>2, <1>3, <1>4, <1>5, <1>6 DEF Next, Controller

\* What is not a request or an answer is at most a promise withdrawn.
LEMMA Between ==
  ASSUME UNCHANGED <<at, command, result>>, dev'.sizes = dev.sizes,
         trouble = "lost" => trouble' = "lost"
  PROVE  [D!Next]_(D!vars)
<1>1. UNCHANGED <<Request, Answered, Answer>> /\ (Asked' <=> Asked)
  BY DEF Asked, Request, Answered, Answer, Key
<1>2. CASE Promised' = Promised
  BY <1>1, <1>2 DEF D!vars
<1>3. CASE Promised' # Promised
  <2>1. Promised' = FALSE /\ Answered = "asked"
    BY <1>1, <1>3 DEF Promised, Answered
  <2>2. D!Break
    BY <1>1, <2>1 DEF D!Break
  <2> QED
    BY <2>2 DEF D!Next
<1> QED
  BY <1>2, <1>3

\* Nobody has asked.
LEMMA Unasked ==
  ASSUME ~Asked, ~Asked', result' = result, dev'.sizes = dev.sizes
  PROVE  UNCHANGED D!vars
BY DEF D!vars, Request, Promised, Answered, Answer

LEMMA RequestEnds ==
  ASSUME Asked, ~Asked', result'.status \in {"failure", "success"}, dev'.sizes = dev.sizes
  PROVE  /\ Answered = "asked" /\ Answered' = result'.status /\ Request = Key(command)
         /\ Answer' = result'.data /\ D!Answered
<1>1. result' # NoResult
  BY DEF NoResult
<1>2. Request' = NoCommand /\ Promised' = FALSE
  BY DEF Request, Promised
<1> QED
  BY <1>1, <1>2 DEF Answered, Request, Answer, D!Answered

\* The data that has arrived is that of the blocks asked for.
LEMMA DataIsBlocks ==
  ASSUME Types, command.op = "read", AllData(TRUE),
         command.length = command.blocks * dev.sizes[command.lun]
  PROVE  data = Blocks(dev.sizes, Key(command))
<1> DEFINE size == dev.sizes[command.lun]
           n == command.blocks * size
<1>1. data \in Seq(Packet) /\ Len(data) = n
  BY DEF Types, AllData
<1>2. /\ size \in Nat \ {0} /\ command.blocks \in Nat /\ command.lba \in Nat
      /\ command.lun \in Lun /\ dev \in Device
  BY Sizes DEF Types, Command
<1>3. n \in Nat
  BY <1>2
<1>4. \A k \in 1..n : data[k] = DataPacket(command, k - 1, TRUE)
  <2>1. DataOf(data, TRUE)
    BY DEF AllData
  <2> HIDE DEF n
  <2>2. DOMAIN data = 1..n
    BY <1>1
  <2> QED
    BY <2>1, <2>2 DEF DataOf
<1>5. ASSUME NEW k \in 1..n
      PROVE  data[k] = [kind |-> "read", lun |-> command.lun,
                        lba |-> command.lba + (k - 1) \div size,
                        part |-> (k - 1) % size, size |-> PacketSize("read")]
  <2> HIDE DEF n
  <2>1. ~(k - 1 >= n)
    BY <1>3
  <2>2. ~(k - 1 >= command.blocks * dev.sizes[command.lun])
    BY <2>1 DEF n
  <2>3. DataPacket(command, k - 1, TRUE)
          = [kind |-> "read", lun |-> command.lun, size |-> PacketSize(command.op),
             lba |-> command.lba + (k - 1) \div dev.sizes[command.lun],
             part |-> (k - 1) % dev.sizes[command.lun]]
    BY <2>2 DEF DataPacket
  <2> QED
    BY <1>4, <2>3
<1>6. Blocks(dev.sizes, Key(command))
        = [k \in 1..n |-> [kind |-> "read", lun |-> command.lun,
                           lba |-> command.lba + (k - 1) \div size,
                           part |-> (k - 1) % size, size |-> PacketSize("read")]]
  BY DEF Blocks, Key
<1>7. data \in [1..n -> Packet]
  BY <1>1
<1> HIDE DEF n, size
<1> QED
  BY <1>5, <1>6, <1>7

LEMMA StepImplements ==
  ASSUME UsbInv, [Next]_vars
  PROVE  [D!Next]_(D!vars)
<1>0. /\ Types /\ DriverRight /\ QueueRight /\ InTime /\ dev'.sizes = dev.sizes
  BY SizesFixed DEF UsbInv
<1>1. ASSUME Fails PROVE [D!Next]_(D!vars)
  <2>1. CASE at = "read"
    <3>1. at' = "idle" /\ result' = [NoResult EXCEPT !.status = "failure"]
      BY <1>0, <1>1, <2>1, FailsGoes
    <3>2. Asked /\ ~Asked' /\ result'.status = "failure" /\ result'.data = <<>>
      BY <2>1, <3>1 DEF Asked, NoResult
    <3>3. D!Fail
      BY <1>0, <3>2, RequestEnds DEF D!Fail
    <3> QED
      BY <3>3 DEF D!Next
  <2>2. CASE at # "read"
    <3>1. ~Asked /\ ~Asked' /\ result' = result
      BY <1>0, <1>1, <2>2, FailsGoes DEF Asked
    <3> QED
      BY <1>0, <3>1, Unasked
  <2> QED
    BY <2>1, <2>2
<1>2. ASSUME Passes, trouble # "lost" => AllData(TRUE) PROVE [D!Next]_(D!vars)
  <2>1. CASE at = "read"
    <3>1. at' = "idle" /\ result' = [status |-> "success", data |-> data]
      BY <1>0, <1>2, <2>1, PassesGoes
    <3>2. Asked /\ ~Asked' /\ result'.status = "success" /\ result'.data = data
      BY <2>1, <3>1 DEF Asked
    <3>3. Promised => data = Blocks(dev.sizes, Key(command))
      <4>1. command.op = "read"
        BY <1>0, <2>1 DEF DriverRight
      <4> QED
        BY <1>0, <1>2, <4>1, DataIsBlocks DEF Promised
    <3>4. D!Succeed
      BY <1>0, <3>2, <3>3, RequestEnds DEF D!Succeed
    <3> QED
      BY <3>4 DEF D!Next
  <2>2. CASE at # "read"
    <3>1. ~Asked /\ ~Asked' /\ result' = result
      BY <1>0, <1>2, <2>2, PassesGoes DEF Asked
    <3> QED
      BY <1>0, <3>1, Unasked
  <2> QED
    BY <2>1, <2>2
<1>3. CASE CommandEnds
  <2>1. ASSUME trouble # "lost", Passed PROVE AllData(TRUE)
    BY <1>0, <1>3, <2>1 DEF InTime, Together, Passed, CommandEnds
  <2> QED
    BY <1>1, <1>2, <1>3, <2>1 DEF CommandEnds, Passed
<1>4. CASE ToData \/ ToStatus
  <2>1. UNCHANGED <<at, command, result>> /\ (trouble = "lost" => trouble' = "lost")
    BY <1>4 DEF ToData, ToStatus, Unnoticed, Trouble
  <2> QED
    BY <1>0, <2>1, Between
<1>5. CASE Controller
  <2>1. UNCHANGED <<at, command, result>> /\ trouble' = trouble
    BY <1>5 DEF Controller, CommandTaken, CommandDiscarded, PacketSent, PacketBreaks, host
  <2> QED
    BY <1>0, <2>1, Between
<1>6. CASE SetupDevice
  <2>1. ~Asked /\ ~Asked' /\ result' = result
    BY <1>6 DEF SetupDevice, Issue, Inquiry, Asked
  <2> QED
    BY <1>0, <2>1, Unasked
<1>7. ASSUME NEW k \in DOMAIN disks, NEW r \in Requests, Read(disks[k], r)
      PROVE  [D!Next]_(D!vars)
  <2> DEFINE c == Read10(disks[k].lun, r)
  <2>1. /\ Legal(c) /\ c.op = "read" /\ c.lun = disks[k].lun /\ c.lba = r.lba
        /\ c.blocks = r.blocks
    <3>1. blockSize # 0
      BY <1>7 DEF Read
    <3> QED
      BY <1>0, <3>1, ReadLegal
  <2>2. at = "idle" /\ Issue(c)
    BY <1>7 DEF Read
  <2> HIDE DEF c
  <2>3. ~Asked /\ Asked' /\ command' = c
    BY <2>1, <2>2 DEF Asked, Issue
  <2>4. Answered # "asked"
    BY <1>0, <2>3 DEF Answered, Types, Result
  <2>5. Answered' = "asked" /\ Answer' = <<>> /\ Request' = Key(c) /\ Promised' \in BOOLEAN
    BY <2>3 DEF Answered, Answer, Request, Promised
  <2>6. Key(c) \in [lun : Lun, lba : {q.lba : q \in Requests}, blocks : {q.blocks : q \in Requests}]
    BY <2>1 DEF Key, Legal, Command
  <2>7. D!Ask(Key(c))
    BY <1>0, <2>4, <2>5 DEF D!Ask
  <2> QED
    BY <2>6, <2>7 DEF D!Next
<1>8. CASE TransactionFails
  BY <1>1, <1>8 DEF TransactionFails
<1>9. CASE UNCHANGED vars
  BY <1>0, <1>9, Between DEF vars
<1> QED
  BY <1>3, <1>4, <1>5, <1>6, <1>7, <1>8, <1>9 DEF Next, Driver

\* A unit of a USB stick is a Disk: every read is answered once, and as long as
\* no data was lost with the blocks asked for, never with those of an earlier
\* command (usb_storage_read and the tag of its command blocks).
THEOREM UnitImplementsDisk == Spec => ImplementsDisk
<1>1. UsbInv /\ [Next]_vars => [D!Next]_(D!vars)
  BY StepImplements
<1> QED
  BY <1>1, InitImplements, UsbInvariance, PTL DEF Spec, ImplementsDisk, D!Spec
=============================================================================
