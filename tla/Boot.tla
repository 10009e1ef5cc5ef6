-------------------------------- MODULE Boot --------------------------------
(***************************************************************************)
(* The second half of the kernel's main (core/kernel.c): the drivers       *)
(* register the disks they find, find_partitions adds the partitions of    *)
(* every disk, a file system is looked for on each device and mounted, and *)
(* the shell is started from the first one mounted.  What the hardware and *)
(* the disks hold is chosen nondeterministically.                          *)
(***************************************************************************)
EXTENDS BlockRegistry, Integers

CONSTANTS usb, floppy, dot,  \* the words and the mark that names are made of
          MaxUsb,     \* bound: USB disks plugged in
          Entries,    \* entries of a partition table (0..3 on a real one)
          Extents     \* where an entry may say that a partition lies

Words == {usb, floppy, dot}

ASSUME BootAssumption == /\ MaxUsb \in Nat
                         /\ Entries \in Nat
                         /\ Words \cap Nat = {}
                         /\ \A x \in Extents : x.start \in Nat /\ x.size \in Nat

RAW_DEVICE == -2
UNPARTITIONED == -1

VARIABLES pc,       \* what main is doing
          i,        \* its loop counter, from 1
          entry,    \* find_partitions' loop counter
          tables,   \* history: the tables read, by position of the disk
          cwd       \* the mount point of the working directory

bootVars == <<pc, i, entry, tables, cwd>>
vars == <<registryVars, bootVars>>

Device(type, disk, partition, offset) ==
  [type |-> type, disk |-> disk, partition |-> partition, offset |-> offset]

FileSystem(device, initialised) ==
  [device |-> device, initialised |-> initialised]

Init == /\ RegistryInit
        /\ pc = "usb"
        /\ i = 1
        /\ entry = 0
        /\ tables = <<>>
        /\ cwd = <<>>

-----------------------------------------------------------------------------
(* Drivers *)

\* usb_storage_init finds another disk and registers it.
UsbDisk == /\ pc = "usb" /\ ~overflow
           /\ Len(devices) < MaxUsb
           /\ RegisterBlockDevice(Device("HARD_DISK", Len(devices) + 1, RAW_DEVICE, 0), <<usb>>)
           /\ UNCHANGED bootVars

UsbDone == /\ pc = "usb" /\ ~overflow
           /\ pc' = "floppy"
           /\ UNCHANGED <<registryVars, i, entry, tables, cwd>>

\* install_floppy: no drive, a controller that does not reset, or a drive.
NoFloppy == /\ pc = "floppy" /\ ~overflow
            /\ pc' = IF devices = <<>> THEN "loopback" ELSE "partitions"
            /\ UNCHANGED <<registryVars, i, entry, tables, cwd>>

Floppy == /\ pc = "floppy" /\ ~overflow
          /\ RegisterBlockDevice(Device("FLOPPY", 0, UNPARTITIONED, 0), <<floppy>>)
          /\ pc' = "partitions"
          /\ UNCHANGED <<i, entry, tables, cwd>>

-----------------------------------------------------------------------------
(* Partitions: main's loop, whose bound grows as partitions are registered *)

\* Fault: main looks for partitions on every hard disk entry.
IsRawDiskAny(d) == d.type = "HARD_DISK"

IsRawDisk(d) == d.type = "HARD_DISK" /\ d.partition = RAW_DEVICE

\* Fault: a device that is no whole disk is not passed over.
SkipDeviceStuck == /\ pc = "partitions" /\ ~overflow
                   /\ i <= Len(devices)
                   /\ IsRawDisk(devices[i])
                   /\ i' = i + 1
                   /\ UNCHANGED <<registryVars, pc, entry, tables, cwd>>

\* Not a whole disk, or its first sector cannot be read.
SkipDevice == /\ pc = "partitions" /\ ~overflow
              /\ i <= Len(devices)
              /\ i' = i + 1
              /\ UNCHANGED <<registryVars, pc, entry, tables, cwd>>

\* find_partitions reads the table: any of its entries may be in use, and may
\* lie anywhere, for nothing is checked.
ReadTable == /\ pc = "partitions" /\ ~overflow
             /\ i <= Len(devices)
             /\ IsRawDisk(devices[i])
             /\ \E used \in SUBSET (1..Entries) : \E extent \in [used -> Extents] :
                  tables' = Append(tables, [at |-> i, used |-> used, extent |-> extent])
             /\ entry' = 1
             /\ pc' = "entries"
             /\ UNCHANGED <<registryVars, i, cwd>>

Table == tables[Len(tables)]

\* Fault: the copy of the disk's record keeps the offset of the disk.
PartitionAtDisk ==
  /\ pc = "entries" /\ ~overflow
  /\ entry \in Table.used
  /\ RegisterBlockDevice(
       Device(devices[i].type, devices[i].disk, entry, devices[i].offset),
       Append(devices[i].name, dot))
  /\ entry' = entry + 1
  /\ UNCHANGED <<pc, i, tables, cwd>>

\* An entry in use becomes a device named after the disk, a dot and a number,
\* which begins where the entry says.
Partition == /\ pc = "entries" /\ ~overflow
             /\ entry \in Table.used
             /\ RegisterBlockDevice(
                  Device(devices[i].type, devices[i].disk, entry, Table.extent[entry].start),
                  Append(devices[i].name, dot))
             /\ entry' = entry + 1
             /\ UNCHANGED <<pc, i, tables, cwd>>

\* Fault: the loop over the table starts at one and still ends at its size.
UnusedEntryLate == /\ pc = "entries" /\ ~overflow
                   /\ entry \in 1..Entries+1 \ Table.used
                   /\ entry' = entry + 1
                   /\ UNCHANGED <<registryVars, pc, i, tables, cwd>>

UnusedEntry == /\ pc = "entries" /\ ~overflow
               /\ entry \in 1..Entries \ Table.used
               /\ entry' = entry + 1
               /\ UNCHANGED <<registryVars, pc, i, tables, cwd>>

TableDone == /\ pc = "entries" /\ ~overflow
             /\ entry > Entries
             /\ i' = i + 1
             /\ pc' = "partitions"
             /\ UNCHANGED <<registryVars, entry, tables, cwd>>

PartitionsDone == /\ pc = "partitions" /\ ~overflow
                  /\ i > Len(devices)
                  /\ i' = 1
                  /\ pc' = "filesystems"
                  /\ UNCHANGED <<registryVars, entry, tables, cwd>>

-----------------------------------------------------------------------------
(* File systems *)

\* A floppy is mounted whether or not fs_fat12.init succeeds.
MountFloppy == /\ pc = "filesystems" /\ ~overflow
               /\ i <= Len(devices)
               /\ devices[i].type = "FLOPPY"
               /\ \E ok \in BOOLEAN : MountFs(FileSystem(i, ok), "fd")
               /\ i' = i + 1
               /\ UNCHANGED <<pc, entry, tables, cwd>>

\* A partition is mounted if it holds a FAT volume that can be read.
MountPartition == /\ pc = "filesystems" /\ ~overflow
                  /\ i <= Len(devices)
                  /\ devices[i].type = "HARD_DISK" /\ devices[i].partition > 0
                  /\ MountFs(FileSystem(i, TRUE), "hd")
                  /\ i' = i + 1
                  /\ UNCHANGED <<pc, entry, tables, cwd>>

\* A whole disk, or a partition without a file system.
NotMounted == /\ pc = "filesystems" /\ ~overflow
              /\ i <= Len(devices)
              /\ devices[i].type = "HARD_DISK"
              /\ i' = i + 1
              /\ UNCHANGED <<registryVars, pc, entry, tables, cwd>>

\* Fault: the file system mounted last becomes the working directory.
StartInLast ==
  /\ pc = "filesystems" /\ ~overflow
  /\ i > Len(devices)
  /\ IF mounts = <<>>
       THEN pc' = "loopback" /\ UNCHANGED cwd
       ELSE pc' \in {"shell", "loopback"} /\ cwd' = mounts[Len(mounts)].mountPoint
  /\ UNCHANGED <<registryVars, i, entry, tables>>

\* Without a mount there is only the echo loop; else the shell is started in
\* the first mount, and the echo loop follows if it cannot be.
Start == /\ pc = "filesystems" /\ ~overflow
         /\ i > Len(devices)
         /\ IF mounts = <<>>
              THEN pc' = "loopback" /\ UNCHANGED cwd
              ELSE pc' \in {"shell", "loopback"} /\ cwd' = mounts[1].mountPoint
         /\ UNCHANGED <<registryVars, i, entry, tables>>

Main == \/ UsbDisk \/ UsbDone \/ NoFloppy \/ Floppy
        \/ SkipDevice \/ ReadTable \/ Partition \/ UnusedEntry \/ TableDone
        \/ PartitionsDone
        \/ MountFloppy \/ MountPartition \/ NotMounted \/ Start

Next == Main

Spec == Init /\ [][Next]_vars
FairSpec == Spec /\ WF_vars(Main)

-----------------------------------------------------------------------------
(* Properties *)

DeviceType ==
  [name : Seq(Nat \cup Words), prefix : Seq(Nat \cup Words),
   index : Nat, type : {"HARD_DISK", "FLOPPY"}, disk : Nat,
   partition : {RAW_DEVICE, UNPARTITIONED} \cup 1..Entries, offset : Nat]

MountType == [mountPoint : {"fd", "hd"} \X Nat, device : Nat \ {0}, initialised : BOOLEAN]

TableType ==
  {table \in [at : Nat, used : SUBSET (1..Entries),
              extent : UNION {[used -> Extents] : used \in SUBSET (1..Entries)}] :
     DOMAIN table.extent = table.used}

TypeOK == /\ devices \in Seq(DeviceType)
          /\ mounts \in Seq(MountType)
          /\ overflow \in BOOLEAN
          /\ pc \in {"usb", "floppy", "partitions", "entries", "filesystems",
                     "shell", "loopback"}
          /\ i \in Nat \ {0}
          /\ entry \in 0..Entries+1
          /\ tables \in Seq(TableType)

\* The loop over a table that grows under it finds every partition: once it
\* has ended, each table that could be read has exactly its entries in use in
\* the device table, once each, numbered in the order of the entries.
PartitionsComplete ==
  pc \in {"filesystems", "shell", "loopback"} =>
    \A t \in DOMAIN tables :
      LET disk  == devices[tables[t].at]
          parts == {d \in DOMAIN devices :
                      devices[d].disk = disk.disk /\ devices[d].partition > 0}
      IN /\ {devices[d].partition : d \in parts} = tables[t].used
         /\ \A d, e \in parts : d < e => devices[d].partition < devices[e].partition
         /\ \A d \in parts :
              devices[d].name = disk.name \o
                <<dot, Cardinality({e \in tables[t].used : e < devices[d].partition})>>

\* The sectors from start on, and those that the table of its disk gives a
\* device; a whole disk has all of them.
Sectors(start, size) == start .. start + size - 1
Area(device, table) ==
  IF device.partition > 0
    THEN Sectors(device.offset, table.extent[device.partition].size)
    ELSE UNION {Sectors(table.extent[p].start, table.extent[p].size) : p \in table.used}

EntriesApart(table) ==
  \A p, q \in table.used : p # q =>
    Sectors(table.extent[p].start, table.extent[p].size)
      \cap Sectors(table.extent[q].start, table.extent[q].size) = {}

\* Two file systems never share a sector of a disk whose table keeps its
\* partitions apart: through registering, naming and mounting each of them
\* lies where its own entry says, and none on the whole disk.  Where entries
\* overlap nothing stops their file systems from doing so too.
MountsApart ==
  \A m, n \in DOMAIN mounts : \A t \in DOMAIN tables :
    LET one   == devices[mounts[m].device]
        other == devices[mounts[n].device]
        disk  == devices[tables[t].at].disk
    IN m # n /\ one.disk = disk /\ other.disk = disk /\ EntriesApart(tables[t])
         => Area(one, tables[t]) \cap Area(other, tables[t]) = {}

\* With a floppy drive the system starts from it: it is registered before
\* any partition, so it is mounted first and becomes the working directory.
StartsFromFloppy ==
  (pc = "shell" /\ \E d \in DOMAIN devices : devices[d].type = "FLOPPY")
    => cwd = <<"fd", 0>>

\* Start-up ends, in the shell or in the echo loop, although the loop that
\* looks for partitions adds to the table it goes through.
BootEnds == <>(pc \in {"shell", "loopback"})

\* "if (index >= MAX_BLOCK_DEVICES) return FAILURE" (blockdev.c:20): a device
\* that does not fit is refused.  The test is on the number of its kind, after
\* the entry has been written.
TableNotOverrun == ~overflow
=============================================================================
