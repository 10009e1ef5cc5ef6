----------------------------- MODULE BootProofs -----------------------------
(***************************************************************************)
(* What holds of Boot for every number of disks, of partitions on them and *)
(* of places in the tables.                                                *)
(*                                                                         *)
(* Names: a number counts the names with its prefix.  The table only       *)
(* grows, so the count never falls, and an entry has its own prefix, so    *)
(* the count exceeds its number: the next entry gets a larger one.         *)
(*                                                                         *)
(* Partitions and mounts: the table of devices is in the order main goes   *)
(* through it, whole disks before the floppy before partitions.  A name    *)
(* begins with a disk's name and a dot only if it is of one of its         *)
(* partitions, so the number given to a partition counts those before it.  *)
(***************************************************************************)
EXTENDS Boot, FiniteSetTheorems, TLAPS

\* The number of every entry is below the next one for its prefix.
NumbersBelow ==
  \A j \in DOMAIN devices :
    /\ devices[j].name = Append(devices[j].prefix, devices[j].index)
    /\ devices[j].index < NextIndex(devices[j].prefix, devices)

\* While a partition table is gone through, it is the last one read and
\* its disk is in the table of devices.
AtTable ==
  pc = "entries" => i \in DOMAIN devices /\ Len(tables) > 0

Inv == TypeOK /\ NumbersBelow /\ NamesUnique /\ AtTable

Names == Seq(Nat \cup Words)

Named(prefix, devs) == {j \in DOMAIN devs : HasPrefix(devs[j].name, prefix)}

\* The number the table gives is a natural number.
LEMMA NextIndexNat ==
  ASSUME NEW devs \in Seq(DeviceType), NEW prefix
  PROVE  /\ IsFiniteSet(Named(prefix, devs))
         /\ NextIndex(prefix, devs) = Cardinality(Named(prefix, devs))
         /\ NextIndex(prefix, devs) \in Nat
<1>1. IsFiniteSet(1..Len(devs)) /\ Named(prefix, devs) \in SUBSET (1..Len(devs))
  BY FS_Interval DEF Named
<1>2. IsFiniteSet(Named(prefix, devs))
  BY <1>1, FS_Subset
<1> QED
  BY <1>2, FS_CardinalityType DEF NextIndex, Named

\* A name has the prefix it was made from.
LEMMA NameHasPrefix ==
  ASSUME NEW prefix \in Names, NEW n \in Nat
  PROVE  HasPrefix(Append(prefix, n), prefix)
BY DEF HasPrefix, Names

\* Names are read back: prefix and number are those they were made from.
LEMMA NameParts ==
  ASSUME NEW p \in Names, NEW q \in Names, NEW m \in Nat, NEW n \in Nat,
         Append(p, m) = Append(q, n)
  PROVE  p = q /\ m = n
<1>1. Len(p) = Len(q)
  BY DEF Names
<1>2. m = n
  BY <1>1 DEF Names
<1>3. \A k \in 1..Len(p) : p[k] = q[k]
  <2> TAKE k \in 1..Len(p)
  <2>1. Append(p, m)[k] = p[k] /\ Append(q, n)[k] = q[k]
    BY <1>1 DEF Names
  <2> QED
    BY <2>1
<1> QED
  BY <1>1, <1>2, <1>3 DEF Names

\* Another entry never lowers the number given next, and one with the
\* prefix in question raises it.
LEMMA NextIndexGrows ==
  ASSUME NEW devs \in Seq(DeviceType), NEW d \in DeviceType, NEW prefix \in Names
  PROVE  /\ NextIndex(prefix, devs) <= NextIndex(prefix, Append(devs, d))
         /\ HasPrefix(d.name, prefix) =>
              NextIndex(prefix, devs) < NextIndex(prefix, Append(devs, d))
<1> DEFINE old == Named(prefix, devs)
           new == Named(prefix, Append(devs, d))
<1>1. Append(devs, d) \in Seq(DeviceType)
  OBVIOUS
<1>2. IsFiniteSet(old) /\ IsFiniteSet(new)
  BY <1>1, NextIndexNat
<1>3. old \subseteq new
  BY DEF Named
<1>4. Cardinality(old) <= Cardinality(new)
  BY <1>2, <1>3, FS_Subset
<1>5. ASSUME HasPrefix(d.name, prefix)
      PROVE  Cardinality(old) < Cardinality(new)
  <2>1. Len(devs) + 1 \in new \ old
    BY <1>5 DEF Named
  <2>2. Cardinality(old) # Cardinality(new)
    BY <2>1, <1>2, <1>3, FS_Subset
  <2> QED
    BY <2>2, <1>2, <1>4, FS_CardinalityType
<1> QED
  BY <1>1, <1>4, <1>5, NextIndexNat

\* What register_block_device preserves.
LEMMA Registering ==
  ASSUME devices \in Seq(DeviceType), NumbersBelow, NamesUnique,
         NEW type \in {"HARD_DISK", "FLOPPY"}, NEW disk \in Nat,
         NEW part \in {RAW_DEVICE, UNPARTITIONED} \cup 1..Entries,
         NEW offset \in Nat, NEW prefix \in Names,
         RegisterBlockDevice(Device(type, disk, part, offset), prefix)
  PROVE  devices' \in Seq(DeviceType) /\ NumbersBelow' /\ NamesUnique' /\ overflow' \in BOOLEAN
<1> DEFINE n == NextIndex(prefix, devices)
           d == [name |-> Append(prefix, n), prefix |-> prefix, index |-> n,
                 type |-> type, disk |-> disk, partition |-> part, offset |-> offset]
<1>1. n \in Nat
  BY NextIndexNat
<1>2. overflow' \in BOOLEAN
  BY RegistryAssumption DEF RegisterBlockDevice
<1>3. CASE devices' = devices
  BY <1>2, <1>3 DEF NumbersBelow, NamesUnique
<1>4. CASE devices' = Append(devices, d)
  <2> HIDE DEF n
  <2>1. /\ d.name = Append(prefix, n) /\ d.prefix = prefix /\ d.index = n
        /\ d \in DeviceType
    <3>1. Append(prefix, n) \in Names
      BY <1>1 DEF Names
    <3> QED
      BY <1>1, <3>1 DEF DeviceType, Names
  <2> HIDE DEF d
  <2>2. devices' \in Seq(DeviceType) /\ Len(devices') = Len(devices) + 1
    BY <1>4, <2>1
  <2>3. \A j \in DOMAIN devices : devices'[j] = devices[j] /\ devices[j] \in DeviceType
    BY <1>4, <2>1
  <2>4. devices'[Len(devices) + 1] = d
    BY <1>4, <2>1
  <2>5. \A j \in DOMAIN devices' : j \in DOMAIN devices \/ j = Len(devices) + 1
    BY <2>2
  <2>6. \A j \in DOMAIN devices :
          devices[j].prefix \in Names /\ devices[j].index \in Nat
    BY <2>3 DEF DeviceType, Names
  <2>7. NumbersBelow'
    <3> SUFFICES ASSUME NEW j \in DOMAIN devices'
                 PROVE  /\ devices'[j].name = Append(devices'[j].prefix, devices'[j].index)
                        /\ devices'[j].index < NextIndex(devices'[j].prefix, devices')
      BY DEF NumbersBelow
    <3>1. CASE j \in DOMAIN devices
      <4> DEFINE p == devices[j].prefix
      <4>1. p \in Names /\ devices[j].index \in Nat
        BY <3>1, <2>6
      <4>2. NextIndex(p, devices) <= NextIndex(p, devices')
        BY <4>1, <1>4, <2>1, NextIndexGrows
      <4>3. NextIndex(p, devices) \in Nat /\ NextIndex(p, devices') \in Nat
        BY <2>2, NextIndexNat
      <4>4. /\ devices[j].name = Append(p, devices[j].index)
            /\ devices[j].index < NextIndex(p, devices)
        BY <3>1 DEF NumbersBelow
      <4> HIDE DEF p
      <4>5. devices[j].index < NextIndex(p, devices')
        BY <4>1, <4>2, <4>3, <4>4
      <4> QED
        BY <3>1, <2>3, <4>4, <4>5 DEF p
    <3>2. CASE j = Len(devices) + 1
      <4>1. HasPrefix(d.name, prefix)
        BY <1>1, <2>1, NameHasPrefix
      <4>2. n < NextIndex(prefix, devices')
        BY <4>1, <1>4, <2>1, NextIndexGrows DEF n
      <4> QED
        BY <3>2, <2>1, <2>4, <4>2
    <3> QED
      BY <2>5, <3>1, <3>2
  <2>8. \A j \in DOMAIN devices : devices[j].name # d.name
    <3> SUFFICES ASSUME NEW j \in DOMAIN devices, devices[j].name = d.name
                 PROVE  FALSE
      OBVIOUS
    <3>1. Append(devices[j].prefix, devices[j].index) = Append(prefix, n)
      BY <2>1 DEF NumbersBelow
    <3>2. devices[j].prefix = prefix /\ devices[j].index = n
      <4> DEFINE p == devices[j].prefix
                 m == devices[j].index
      <4>1. p \in Names /\ m \in Nat
        BY <2>6
      <4>2. Append(p, m) = Append(prefix, n)
        BY <3>1
      <4> HIDE DEF p, m
      <4>3. p = prefix /\ m = n
        BY <4>1, <4>2, <1>1, NameParts
      <4> QED
        BY <4>3 DEF p, m
    <3>3. devices[j].index < NextIndex(prefix, devices)
      BY <3>2 DEF NumbersBelow
    <3> QED
      BY <3>2, <3>3, <1>1 DEF n
  <2>9. NamesUnique'
    BY <2>3, <2>4, <2>5, <2>8 DEF NamesUnique
  <2> QED
    BY <1>2, <2>2, <2>7, <2>9
<1> QED
  BY <1>3, <1>4 DEF RegisterBlockDevice, Device

\* What mount_fs preserves.
LEMMA Mounting ==
  ASSUME mounts \in Seq(MountType), NEW device \in Nat \ {0}, NEW ok \in BOOLEAN,
         NEW prefix \in {"fd", "hd"},
         MountFs(FileSystem(device, ok), prefix)
  PROVE  /\ mounts' \in Seq(MountType)
         /\ overflow' \in BOOLEAN
         /\ devices' = devices
<1> DEFINE m == [mountPoint |-> <<prefix, Len(mounts)>>, device |-> device,
                 initialised |-> ok]
<1>1. m \in MountType
  BY DEF MountType
<1>2. mounts' = mounts \/ mounts' = Append(mounts, m)
  BY DEF MountFs, FileSystem, NextMountIndex
<1> HIDE DEF m
<1>3. mounts' \in Seq(MountType)
  BY <1>1, <1>2
<1> QED
  BY <1>3, RegistryAssumption DEF MountFs

\* The entries of the table keep what the properties say of them.
LEMMA SameDevices ==
  ASSUME NumbersBelow, NamesUnique, devices' = devices
  PROVE  NumbersBelow' /\ NamesUnique'
BY DEF NumbersBelow, NamesUnique

LEMMA LastInRange ==
  ASSUME NEW S, NEW s \in Seq(S), Len(s) > 0
  PROVE  s[Len(s)] \in S
OBVIOUS

LEMMA ElementOfSeq ==
  ASSUME NEW S, NEW s \in Seq(S), NEW k \in DOMAIN s
  PROVE  s[k] \in S
OBVIOUS

\* A table is made of what its entries in use say, and these are numbers.
LEMMA TableMade ==
  ASSUME NEW at \in Nat, NEW used \in SUBSET (1..Entries), NEW extent \in [used -> Extents]
  PROVE  [at |-> at, used |-> used, extent |-> extent] \in TableType
<1>1. extent \in UNION {[u -> Extents] : u \in SUBSET (1..Entries)}
  OBVIOUS
<1> QED
  BY <1>1 DEF TableType

LEMMA TableParts ==
  ASSUME NEW table \in TableType
  PROVE  /\ table.at \in Nat /\ table.used \in SUBSET (1..Entries)
         /\ \A e \in table.used : /\ table.extent[e].start \in Nat
                                  /\ table.extent[e].size \in Nat
<1>1. /\ table.at \in Nat /\ table.used \in SUBSET (1..Entries)
      /\ DOMAIN table.extent = table.used
      /\ table.extent \in UNION {[u -> Extents] : u \in SUBSET (1..Entries)}
  BY DEF TableType
<1>2. PICK u \in SUBSET (1..Entries) : table.extent \in [u -> Extents]
  BY <1>1
<1>3. \A e \in table.used : table.extent[e] \in Extents
  BY <1>1, <1>2
<1> QED
  BY <1>1, <1>3, BootAssumption

LEMMA EmptySeq == \A S : <<>> \in Seq(S)
OBVIOUS

LEMMA InitInv == Init => Inv
<1> SUFFICES ASSUME Init PROVE Inv
  OBVIOUS
<1>1. devices = <<>> /\ mounts = <<>> /\ tables = <<>> /\ DOMAIN devices = {}
  BY DEF Init, RegistryInit
<1>2. TypeOK
  <2>1. /\ devices \in Seq(DeviceType) /\ mounts \in Seq(MountType)
        /\ tables \in Seq(TableType)
    BY <1>1, EmptySeq
  <2>2. overflow \in BOOLEAN
    BY DEF Init, RegistryInit
  <2>3. entry = 0 /\ i = 1
    BY DEF Init
  <2>4. entry \in 0..Entries+1 /\ i \in Nat \ {0}
    BY <2>3, BootAssumption
  <2> QED
    BY <2>1, <2>2, <2>4 DEF Init, TypeOK
<1>3. NumbersBelow /\ NamesUnique
  BY <1>1 DEF NumbersBelow, NamesUnique
<1>4. AtTable
  BY DEF Init, AtTable
<1> QED
  BY <1>2, <1>3, <1>4 DEF Inv

LEMMA StepInv == Inv /\ [Next]_vars => Inv'
<1> SUFFICES ASSUME Inv, [Next]_vars PROVE Inv'
  OBVIOUS
<1>0. TypeOK /\ NumbersBelow /\ NamesUnique
  BY DEF Inv
<1>. AtTable
  BY DEF Inv
<1> USE BootAssumption
<1>1. CASE UsbDisk
  <2>1. Len(devices) + 1 \in Nat
    BY <1>0 DEF TypeOK
  <2>2. <<usb>> \in Names
    BY DEF Names, Words
  <2>3. devices' \in Seq(DeviceType) /\ NumbersBelow' /\ NamesUnique' /\ overflow' \in BOOLEAN
    BY <1>0, <1>1, <2>1, <2>2, Registering DEF UsbDisk, TypeOK
  <2>4. TypeOK'
    BY <1>0, <1>1, <2>3 DEF UsbDisk, RegisterBlockDevice, bootVars, TypeOK
  <2> QED
    BY <1>1, <2>3, <2>4 DEF Inv, AtTable, UsbDisk, bootVars
<1>2. CASE UsbDone
  BY <1>0, <1>2, SameDevices DEF UsbDone, registryVars, TypeOK, AtTable, Inv
<1>3. CASE NoFloppy
  BY <1>0, <1>3, SameDevices DEF NoFloppy, registryVars, TypeOK, AtTable, Inv
<1>4. CASE Floppy
  <2>1. <<floppy>> \in Names
    BY DEF Names, Words
  <2>2. devices' \in Seq(DeviceType) /\ NumbersBelow' /\ NamesUnique' /\ overflow' \in BOOLEAN
    BY <1>0, <1>4, <2>1, Registering DEF Floppy, TypeOK
  <2>3. TypeOK'
    BY <1>0, <1>4, <2>2 DEF Floppy, RegisterBlockDevice, TypeOK
  <2> QED
    BY <1>4, <2>2, <2>3 DEF Inv, AtTable, Floppy
<1>5. CASE SkipDevice
  BY <1>0, <1>5, SameDevices DEF SkipDevice, registryVars, TypeOK, AtTable, Inv
<1>6. CASE ReadTable
  <2>0. PICK used \in SUBSET (1..Entries) : \E extent \in [used -> Extents] :
          tables' = Append(tables, [at |-> i, used |-> used, extent |-> extent])
    BY <1>6 DEF ReadTable
  <2>1. PICK extent \in [used -> Extents] :
          tables' = Append(tables, [at |-> i, used |-> used, extent |-> extent])
    BY <2>0
  <2>2. tables' \in Seq(TableType)
    <3>1. [at |-> i, used |-> used, extent |-> extent] \in TableType
      BY <1>0, TableMade DEF TypeOK
    <3> QED
      BY <1>0, <2>1, <3>1 DEF TypeOK
  <2>3. TypeOK'
    BY <1>0, <1>6, <2>2 DEF ReadTable, registryVars, TypeOK
  <2>4. AtTable'
    <3>1. Len(tables') > 0
      BY <1>0, <2>1 DEF TypeOK
    <3> QED
      BY <1>0, <1>6, <3>1 DEF ReadTable, registryVars, TypeOK, AtTable
  <2> QED
    BY <1>0, <1>6, <2>3, <2>4, SameDevices DEF ReadTable, registryVars, Inv
<1>7. CASE Partition
  <2>1. i \in DOMAIN devices /\ Len(tables) > 0
    BY <1>7 DEF Partition, AtTable
  <2>0. Table \in TableType
    BY <1>0, <2>1, LastInRange DEF TypeOK, Table
  <2>2. entry \in 1..Entries
    BY <1>7, <2>0, TableParts DEF Partition
  <2>3. devices[i] \in DeviceType
    BY <1>0, <2>1 DEF TypeOK
  <2>4. Append(devices[i].name, dot) \in Names
    BY <2>3 DEF DeviceType, Names, Words
  <2>5. devices' \in Seq(DeviceType) /\ NumbersBelow' /\ NamesUnique' /\ overflow' \in BOOLEAN
    <3>1. devices[i].type \in {"HARD_DISK", "FLOPPY"} /\ devices[i].disk \in Nat
      BY <2>3 DEF DeviceType
    <3>2. Table.extent[entry].start \in Nat
      BY <1>7, <2>0, TableParts DEF Partition
    <3> QED
      BY <1>0, <1>7, <2>2, <2>4, <3>1, <3>2, Registering DEF Partition, TypeOK
  <2>6. TypeOK'
    BY <1>0, <1>7, <2>2, <2>5 DEF Partition, RegisterBlockDevice, TypeOK
  <2>7. i' \in DOMAIN devices' /\ Len(tables') > 0
    <3>1. Len(devices) <= Len(devices')
      BY <1>0, <1>7 DEF Partition, RegisterBlockDevice, TypeOK
    <3> QED
      BY <1>0, <1>7, <2>1, <2>5, <3>1 DEF Partition, TypeOK
  <2> QED
    BY <2>5, <2>6, <2>7 DEF Inv, AtTable
<1>8. CASE UnusedEntry
  <2>1. entry + 1 \in 0..Entries+1
    BY <1>0, <1>8 DEF UnusedEntry, TypeOK
  <2> QED
    BY <1>0, <1>8, <2>1, SameDevices DEF UnusedEntry, registryVars, TypeOK, AtTable, Inv
<1>9. CASE TableDone
  BY <1>0, <1>9, SameDevices DEF TableDone, registryVars, TypeOK, AtTable, Inv
<1>10. CASE PartitionsDone
  BY <1>0, <1>10, SameDevices DEF PartitionsDone, registryVars, TypeOK, AtTable, Inv
<1>11. CASE MountFloppy
  <2>1. PICK ok \in BOOLEAN : MountFs(FileSystem(i, ok), "fd")
    BY <1>11 DEF MountFloppy
  <2>2. mounts' \in Seq(MountType) /\ overflow' \in BOOLEAN /\ devices' = devices
    BY <1>0, <2>1, Mounting DEF TypeOK
  <2> QED
    BY <1>0, <1>11, <2>2, SameDevices DEF MountFloppy, TypeOK, AtTable, Inv
<1>12. CASE MountPartition
  <2>1. mounts' \in Seq(MountType) /\ overflow' \in BOOLEAN /\ devices' = devices
    BY <1>0, <1>12, Mounting DEF MountPartition, TypeOK
  <2> QED
    BY <1>0, <1>12, <2>1, SameDevices DEF MountPartition, TypeOK, AtTable, Inv
<1>13. CASE NotMounted
  BY <1>0, <1>13, SameDevices DEF NotMounted, registryVars, TypeOK, AtTable, Inv
<1>14. CASE Start
  BY <1>0, <1>14, SameDevices DEF Start, registryVars, TypeOK, AtTable, Inv
<1>15. CASE UNCHANGED vars
  BY <1>0, <1>15, SameDevices DEF vars, registryVars, bootVars, TypeOK, AtTable, Inv
<1> QED
  BY <1>1, <1>2, <1>3, <1>4, <1>5, <1>6, <1>7, <1>8, <1>9, <1>10, <1>11, <1>12, <1>13,
     <1>14, <1>15 DEF Next, Main

\* Start-up keeps the types, and the number of each entry of the device table
\* below the one its kind gets next.
THEOREM BootInvariance == Spec => []Inv
BY InitInv, StepInv, PTL DEF Spec

\* However many disks are found and whatever their partition tables hold,
\* register_block_device never gives a device the name of another one.
THEOREM DeviceNamesUnique == Spec => []NamesUnique
<1>1. Inv => NamesUnique
  BY DEF Inv
<1> QED
  BY <1>1, BootInvariance, PTL

-----------------------------------------------------------------------------
(* What is where in the table of devices *)

Raw(d) == IsRawDisk(devices[d])
IsPartition(d) == devices[d].partition > 0

\* The whole disks come first, then the floppy, then partitions of disks
\* whose table has been read.
Layout ==
  \A d \in DOMAIN devices :
    \/ /\ Raw(d) /\ devices[d].disk = d /\ Len(devices[d].name) = 2
    \/ /\ devices[d].type = "FLOPPY" /\ devices[d].partition = UNPARTITIONED
       /\ devices[d].disk = 0 /\ Len(devices[d].name) = 2
       /\ \A e \in 1..d-1 : Raw(e)
    \/ /\ devices[d].type = "HARD_DISK" /\ IsPartition(d)
       /\ \E t \in DOMAIN tables : tables[t].at = devices[d].disk

\* The tables are those of whole disks before the one that main is at.
TablesRead ==
  /\ \A t \in DOMAIN tables : tables[t].at \in DOMAIN devices /\ Raw(tables[t].at)
  /\ \A t, u \in DOMAIN tables : t < u => tables[t].at < tables[u].at
  /\ pc = "partitions" => \A t \in DOMAIN tables : tables[t].at < i
  /\ pc = "entries" => Table.at = i

\* Every partition begins where its entry in the table of its disk says.
Offsets ==
  \A d \in DOMAIN devices : IsPartition(d) =>
    \E t \in DOMAIN tables :
      /\ tables[t].at = devices[d].disk
      /\ devices[d].partition \in tables[t].used
      /\ devices[d].offset = tables[t].extent[devices[d].partition].start

Beginning ==
  /\ pc \in {"usb", "floppy"} => tables = <<>> /\ \A d \in DOMAIN devices : Raw(d)
  /\ pc \in {"usb", "floppy", "partitions", "entries"} => mounts = <<>>

\* The partitions of a disk in a device table, and the entries in use below a limit.
PartsOf(devs, disk) == {d \in DOMAIN devs : devs[d].disk = disk /\ devs[d].partition > 0}
Through(used, limit) == {e \in used : e < limit}

\* What PartitionsComplete says, of the entries gone through, and that there
\* are as many partitions as these.
Kept(devs, table, limit) ==
  LET parts == PartsOf(devs, table.at)
      through == Through(table.used, limit)
  IN /\ {devs[d].partition : d \in parts} = through
     /\ Cardinality(parts) = Cardinality(through)
     /\ \A d, e \in parts : d < e => devs[d].partition < devs[e].partition
     /\ \A d \in parts : devs[d].name = devs[table.at].name \o
                           <<dot, Cardinality(Through(table.used, devs[d].partition))>>

\* A device that does not fit while a table is gone through is the end.
Limit(t) == IF pc = "entries" /\ t = Len(tables) THEN entry ELSE Entries + 1
TablesKept == \/ overflow /\ pc = "entries"
              \/ \A t \in DOMAIN tables : Kept(devices, tables[t], Limit(t))

\* The mounts are of devices that main has passed, in order.
MountsInOrder ==
  /\ \A m \in DOMAIN mounts :
       /\ mounts[m].device \in DOMAIN devices /\ ~Raw(mounts[m].device)
       /\ pc = "filesystems" => mounts[m].device < i
  /\ \A m, n \in DOMAIN mounts : m < n => mounts[m].device < mounts[n].device

FloppyFirst ==
  pc = "filesystems" =>
    \A d \in DOMAIN devices : devices[d].type = "FLOPPY" =>
      IF d < i THEN overflow \/ (mounts # <<>> /\ mounts[1].mountPoint = <<"fd", 0>>)
               ELSE mounts = <<>>

OrderInv == Layout /\ TablesRead /\ Offsets /\ Beginning /\ TablesKept /\ MountsInOrder /\ FloppyFirst
            /\ StartsFromFloppy

-----------------------------------------------------------------------------
(* The order is kept *)

\* A device is registered at the end of the table, or there was no place.
LEMMA Registered ==
  ASSUME devices \in Seq(DeviceType), NEW type, NEW disk, NEW part, NEW offset,
         NEW prefix \in Names, RegisterBlockDevice(Device(type, disk, part, offset), prefix)
  PROVE  /\ mounts' = mounts
         /\ \A d \in DOMAIN devices : d \in DOMAIN devices' /\ devices'[d] = devices[d]
         /\ \/ devices' = devices /\ overflow'
            \/ LET n == Len(devices) + 1
               IN /\ Len(devices') = n /\ DOMAIN devices' = 1..n
                  /\ devices'[n].type = type /\ devices'[n].disk = disk
                  /\ devices'[n].partition = part /\ devices'[n].offset = offset
                  /\ devices'[n].name = Append(prefix, NextIndex(prefix, devices))
<1> DEFINE index == NextIndex(prefix, devices)
           new == [name |-> Append(prefix, index), prefix |-> prefix, index |-> index,
                   type |-> type, disk |-> disk, partition |-> part, offset |-> offset]
<1>1. index \in Nat /\ index <= Len(devices)
  <2>1. IsFiniteSet(1..Len(devices)) /\ Cardinality(1..Len(devices)) = Len(devices)
    <3>1. 1 \in Int /\ Len(devices) \in Int /\ 1 <= Len(devices) + 1
      OBVIOUS
    <3>2. Cardinality(1..Len(devices)) = IF 1 > Len(devices) THEN 0 ELSE Len(devices) - 1 + 1
      BY <3>1, FS_Interval
    <3>3. IsFiniteSet(1..Len(devices))
      BY <3>1, FS_Interval
    <3>4. Len(devices) \in Nat
      OBVIOUS
    <3> QED
      BY <3>2, <3>3, <3>4
  <2>2. Named(prefix, devices) \subseteq 1..Len(devices)
    BY DEF Named
  <2>3. Cardinality(Named(prefix, devices)) <= Len(devices)
    BY <2>1, <2>2, FS_Subset
  <2> QED
    BY <2>3, NextIndexNat
<1>2. devices' = IF index >= MAX_BLOCK_DEVICES THEN devices ELSE Append(devices, new)
  BY DEF RegisterBlockDevice, Device
<1>3. CASE index >= MAX_BLOCK_DEVICES
  <2>1. devices' = devices /\ mounts' = mounts
    BY <1>2, <1>3 DEF RegisterBlockDevice
  <2>2. overflow' = (Len(devices) >= MAX_BLOCK_DEVICES)
    BY DEF RegisterBlockDevice
  <2> HIDE DEF index
  <2>3. Len(devices) >= MAX_BLOCK_DEVICES
    BY <1>1, <1>3, RegistryAssumption
  <2> QED
    BY <2>1, <2>2, <2>3
<1>4. CASE ~(index >= MAX_BLOCK_DEVICES)
  <2>1. devices' = Append(devices, new)
    BY <1>2, <1>4
  <2> HIDE DEF new
  <2>2. /\ Len(devices') = Len(devices) + 1 /\ DOMAIN devices' = 1..Len(devices) + 1
        /\ devices'[Len(devices) + 1] = new
        /\ \A d \in DOMAIN devices : d \in DOMAIN devices' /\ devices'[d] = devices[d]
    BY <2>1
  <2> QED
    BY <2>2 DEF new, RegisterBlockDevice
<1> QED
  BY <1>3, <1>4

\* Nothing in the tables is ever changed.
LEMMA Grows ==
  ASSUME Inv, [Next]_vars
  PROVE  /\ \A d \in DOMAIN devices : d \in DOMAIN devices' /\ devices'[d] = devices[d]
         /\ \A t \in DOMAIN tables : t \in DOMAIN tables' /\ tables'[t] = tables[t]
<1>0. devices \in Seq(DeviceType) /\ tables \in Seq(TableType)
  BY DEF Inv, TypeOK
<1>1. CASE UsbDisk
  <2>1. <<usb>> \in Names
    BY DEF Names, Words
  <2>2. RegisterBlockDevice(Device("HARD_DISK", Len(devices) + 1, RAW_DEVICE, 0), <<usb>>)
    BY <1>1 DEF UsbDisk
  <2> QED
    BY <1>0, <1>1, <2>1, <2>2, Registered DEF UsbDisk, bootVars
<1>2. CASE Floppy
  <2>1. <<floppy>> \in Names
    BY DEF Names, Words
  <2>2. RegisterBlockDevice(Device("FLOPPY", 0, UNPARTITIONED, 0), <<floppy>>)
    BY <1>2 DEF Floppy
  <2> QED
    BY <1>0, <1>2, <2>1, <2>2, Registered DEF Floppy
<1>3. CASE Partition
  <2>1. Append(devices[i].name, dot) \in Names
    <3>1. devices[i] \in DeviceType
      BY <1>0, <1>3 DEF Partition, AtTable, Inv
    <3> QED
      BY <3>1 DEF DeviceType, Names, Words
  <2>2. RegisterBlockDevice(Device(devices[i].type, devices[i].disk, entry, Table.extent[entry].start),
                            Append(devices[i].name, dot))
    BY <1>3 DEF Partition
  <2> QED
    BY <1>0, <1>3, <2>1, <2>2, Registered DEF Partition
<1>4. CASE ReadTable
  <2>0. PICK used \in SUBSET (1..Entries) : \E extent \in [used -> Extents] :
          tables' = Append(tables, [at |-> i, used |-> used, extent |-> extent])
    BY <1>4 DEF ReadTable
  <2>1. PICK extent \in [used -> Extents] :
          tables' = Append(tables, [at |-> i, used |-> used, extent |-> extent])
    BY <2>0
  <2> QED
    BY <1>0, <1>4, <2>1 DEF ReadTable, registryVars
<1>5. CASE MountFloppy \/ MountPartition
  BY <1>5 DEF MountFloppy, MountPartition, MountFs
<1>6. CASE \/ UsbDone \/ NoFloppy \/ SkipDevice \/ UnusedEntry \/ TableDone \/ PartitionsDone
           \/ NotMounted \/ Start \/ UNCHANGED vars
  BY <1>6 DEF UsbDone, NoFloppy, SkipDevice, UnusedEntry, TableDone, PartitionsDone,
              NotMounted, Start, vars, registryVars, bootVars
<1> QED
  BY <1>1, <1>2, <1>3, <1>4, <1>5, <1>6 DEF Next, Main

\* Which steps change the tables.
LEMMA SameTables ==
  ASSUME [Next]_vars, ~UsbDisk, ~Floppy, ~Partition, ~ReadTable
  PROVE  UNCHANGED <<devices, tables>>
  BY DEF Next, Main, UsbDone, NoFloppy, SkipDevice, UnusedEntry, TableDone, PartitionsDone,
         NotMounted, Start, MountFloppy, MountPartition, MountFs, vars, registryVars, bootVars

LEMMA LayoutStep ==
  ASSUME Inv, OrderInv, [Next]_vars
  PROVE  Layout'
<1>0. devices \in Seq(DeviceType) /\ Layout /\ AtTable /\ TablesRead /\ Beginning
  BY DEF Inv, TypeOK, OrderInv
<1>1. \A d \in DOMAIN devices : d \in DOMAIN devices' /\ devices'[d] = devices[d]
  BY Grows
<1>2. \A t \in DOMAIN tables : t \in DOMAIN tables' /\ tables'[t] = tables[t]
  BY Grows
<1> DEFINE New(d) ==
      \/ /\ IsRawDisk(devices'[d]) /\ devices'[d].disk = d /\ Len(devices'[d].name) = 2
      \/ /\ devices'[d].type = "FLOPPY" /\ devices'[d].partition = UNPARTITIONED
         /\ devices'[d].disk = 0 /\ Len(devices'[d].name) = 2
         /\ \A e \in 1..d-1 : IsRawDisk(devices'[e])
      \/ /\ devices'[d].type = "HARD_DISK" /\ devices'[d].partition > 0
         /\ \E t \in DOMAIN tables' : tables'[t].at = devices'[d].disk
<1>3. ASSUME NEW d \in DOMAIN devices PROVE New(d)
  <2>1. devices'[d] = devices[d]
    BY <1>1
  <2>2. CASE Raw(d) /\ devices[d].disk = d /\ Len(devices[d].name) = 2
    BY <2>1, <2>2 DEF Raw, IsRawDisk
  <2>3. CASE /\ devices[d].type = "FLOPPY" /\ devices[d].partition = UNPARTITIONED
             /\ devices[d].disk = 0 /\ Len(devices[d].name) = 2
             /\ \A e \in 1..d-1 : Raw(e)
    <3>1. \A e \in 1..d-1 : e \in DOMAIN devices
      BY <1>0
    <3> QED
      BY <1>1, <2>1, <2>3, <3>1 DEF Raw, IsRawDisk
  <2>4. CASE /\ devices[d].type = "HARD_DISK" /\ IsPartition(d)
             /\ \E t \in DOMAIN tables : tables[t].at = devices[d].disk
    BY <1>2, <2>1, <2>4 DEF IsPartition
  <2> QED
    BY <1>0, <2>2, <2>3, <2>4 DEF Layout
<1> HIDE DEF New
<1>4. ASSUME DOMAIN devices' = 1..Len(devices) + 1, New(Len(devices) + 1) PROVE Layout'
  <2>1. \A d \in DOMAIN devices' : d \in DOMAIN devices \/ d = Len(devices) + 1
    BY <1>0, <1>4
  <2>2. \A d \in DOMAIN devices' : New(d)
    BY <1>3, <1>4, <2>1
  <2> QED
    BY <2>2 DEF Layout, New, Raw, IsPartition
<1>5. ASSUME devices' = devices PROVE Layout'
  <2>1. \A d \in DOMAIN devices' : New(d)
    BY <1>3, <1>5
  <2> QED
    BY <2>1 DEF Layout, New, Raw, IsPartition
<1>6. CASE UsbDisk
  <2>1. <<usb>> \in Names /\ Len(<<usb>>) = 1
    BY DEF Names, Words
  <2>2. RegisterBlockDevice(Device("HARD_DISK", Len(devices) + 1, RAW_DEVICE, 0), <<usb>>)
    BY <1>6 DEF UsbDisk
  <2>3. \/ devices' = devices
        \/ LET n == Len(devices) + 1
           IN /\ DOMAIN devices' = 1..n
              /\ devices'[n].type = "HARD_DISK" /\ devices'[n].disk = n
              /\ devices'[n].partition = RAW_DEVICE
              /\ devices'[n].name = Append(<<usb>>, NextIndex(<<usb>>, devices))
    BY <1>0, <2>1, <2>2, Registered
  <2>4. Len(Append(<<usb>>, NextIndex(<<usb>>, devices))) = 2
    BY <1>0, <2>1, NextIndexNat DEF Names
  <2>6. CASE devices' = devices
    BY <1>5, <2>6
  <2>7. CASE devices' # devices
    <3>1. New(Len(devices) + 1)
      BY <2>3, <2>7, <2>4 DEF Raw, IsRawDisk, New
    <3> QED
      BY <1>4, <2>3, <2>7, <3>1
  <2> QED
    BY <2>6, <2>7
<1>7. CASE Floppy
  <2>1. <<floppy>> \in Names /\ Len(<<floppy>>) = 1
    BY DEF Names, Words
  <2>2. RegisterBlockDevice(Device("FLOPPY", 0, UNPARTITIONED, 0), <<floppy>>)
    BY <1>7 DEF Floppy
  <2>3. \/ devices' = devices
        \/ LET n == Len(devices) + 1
           IN /\ DOMAIN devices' = 1..n
              /\ devices'[n].type = "FLOPPY" /\ devices'[n].partition = UNPARTITIONED
              /\ devices'[n].disk = 0
              /\ devices'[n].name = Append(<<floppy>>, NextIndex(<<floppy>>, devices))
    BY <1>0, <2>1, <2>2, Registered
  <2>4. Len(Append(<<floppy>>, NextIndex(<<floppy>>, devices))) = 2
    BY <1>0, <2>1, NextIndexNat DEF Names
  <2>5. \A e \in 1..Len(devices) + 1 - 1 : IsRawDisk(devices'[e])
    <3>1. \A e \in 1..Len(devices) + 1 - 1 : e \in DOMAIN devices /\ Raw(e)
      BY <1>0, <1>7 DEF Beginning, Floppy
    <3> QED
      BY <1>1, <3>1 DEF Raw
  <2>6. CASE devices' = devices
    BY <1>5, <2>6
  <2>7. CASE devices' # devices
    <3>1. New(Len(devices) + 1)
      <4> DEFINE n == Len(devices) + 1
      <4>1. /\ devices'[n].type = "FLOPPY" /\ devices'[n].partition = UNPARTITIONED
            /\ devices'[n].disk = 0 /\ Len(devices'[n].name) = 2
        BY <2>3, <2>4, <2>7
      <4>2. \A e \in 1..n-1 : IsRawDisk(devices'[e])
        BY <2>5
      <4> HIDE DEF n
      <4>3. New(n)
        BY <4>1, <4>2 DEF New
      <4> QED
        BY <4>3 DEF n
    <3> QED
      BY <1>4, <2>3, <2>7, <3>1
  <2> QED
    BY <2>6, <2>7
<1>8. CASE Partition
  <2>1. /\ i \in DOMAIN devices /\ Len(tables) > 0 /\ Table.at = i /\ entry > 0
        /\ Len(tables) \in DOMAIN tables
    <3>1. i \in DOMAIN devices /\ Len(tables) > 0 /\ Table.at = i
      BY <1>0, <1>8 DEF Partition, AtTable, TablesRead
    <3>2. tables \in Seq(TableType)
      BY DEF Inv, TypeOK
    <3>3. Len(tables) \in DOMAIN tables
      BY <3>1, <3>2
    <3>4. Table \in TableType
      BY <3>2, <3>3, ElementOfSeq DEF Table
    <3> QED
      BY <3>3, <3>4, <1>8, <3>1, TableParts DEF Partition
  <2>2. Raw(i) /\ devices[i].disk = i /\ devices[i] \in DeviceType
    <3>1. Raw(i)
      BY <2>1, <1>0 DEF TablesRead, Table
    <3> QED
      BY <2>1, <3>1, <1>0 DEF Layout, Raw, IsRawDisk, RAW_DEVICE, IsPartition
  <2>3. Append(devices[i].name, dot) \in Names
    BY <2>2 DEF DeviceType, Names, Words
  <2>4. RegisterBlockDevice(Device("HARD_DISK", i, entry, Table.extent[entry].start),
                            Append(devices[i].name, dot))
    BY <1>8, <2>2 DEF Partition, Raw, IsRawDisk
  <2>5. \/ devices' = devices
        \/ LET n == Len(devices) + 1
           IN /\ DOMAIN devices' = 1..n
              /\ devices'[n].type = "HARD_DISK" /\ devices'[n].disk = i
              /\ devices'[n].partition = entry
    BY <1>0, <2>3, <2>4, Registered
  <2>6. \E t \in DOMAIN tables' : tables'[t].at = i
    BY <2>1, <1>2 DEF Table
  <2>7. CASE devices' = devices
    BY <1>5, <2>7
  <2>8. CASE devices' # devices
    <3>1. New(Len(devices) + 1)
      BY <2>1, <2>5, <2>6, <2>8 DEF IsPartition, New
    <3> QED
      BY <1>4, <2>5, <2>8, <3>1
  <2> QED
    BY <2>7, <2>8
<1>9. CASE ReadTable
  BY <1>5, <1>9 DEF ReadTable, registryVars
<1> QED
  BY <1>5, <1>6, <1>7, <1>8, <1>9, SameTables

LEMMA TablesReadStep ==
  ASSUME Inv, OrderInv, [Next]_vars
  PROVE  TablesRead'
<1>0. /\ devices \in Seq(DeviceType) /\ tables \in Seq(TableType)
      /\ TablesRead /\ Beginning /\ AtTable /\ i \in Nat \ {0}
  BY DEF Inv, TypeOK, OrderInv
<1>1. \A d \in DOMAIN devices : d \in DOMAIN devices' /\ devices'[d] = devices[d]
  BY Grows
<1>2. CASE ReadTable
  <2>0. PICK used \in SUBSET (1..Entries) : \E extent \in [used -> Extents] :
          tables' = Append(tables, [at |-> i, used |-> used, extent |-> extent])
    BY <1>2 DEF ReadTable
  <2>1. PICK extent \in [used -> Extents] :
          tables' = Append(tables, [at |-> i, used |-> used, extent |-> extent])
    BY <2>0
  <2>2. /\ Len(tables') = Len(tables) + 1 /\ DOMAIN tables' = 1..Len(tables) + 1
        /\ tables'[Len(tables) + 1].at = i
        /\ \A t \in DOMAIN tables : tables'[t] = tables[t]
        /\ \A t \in DOMAIN tables' : t \in DOMAIN tables \/ t = Len(tables) + 1
    BY <1>0, <2>1
  <2>3. /\ i \in DOMAIN devices /\ Raw(i) /\ i' = i /\ pc' = "entries" /\ devices' = devices
        /\ \A t \in DOMAIN tables : tables[t].at < i
    BY <1>0, <1>2 DEF ReadTable, Raw, registryVars, TablesRead
  <2>4. \A t \in DOMAIN tables' : tables'[t].at \in DOMAIN devices' /\ Raw(tables'[t].at)
    BY <1>0, <2>2, <2>3 DEF TablesRead
  <2>5. \A t, u \in DOMAIN tables' : t < u => tables'[t].at < tables'[u].at
    <3> SUFFICES ASSUME NEW t \in DOMAIN tables', NEW u \in DOMAIN tables', t < u
                 PROVE  tables'[t].at < tables'[u].at
      OBVIOUS
    <3>1. t \in DOMAIN tables
      BY <1>0, <2>2
    <3> QED
      BY <1>0, <2>2, <2>3, <3>1 DEF TablesRead
  <2> QED
    BY <2>2, <2>3, <2>4, <2>5 DEF TablesRead, Raw, Table
<1>3. ASSUME tables' = tables
      PROVE  /\ \A t \in DOMAIN tables' : (tables[t].at \in DOMAIN devices /\ Raw(tables[t].at))'
             /\ \A t, u \in DOMAIN tables' : t < u => tables'[t].at < tables'[u].at
  BY <1>0, <1>1, <1>3 DEF TablesRead, Raw
<1>4. ASSUME tables' = tables,
             pc' = "partitions" => \A t \in DOMAIN tables : tables[t].at < i',
             pc' = "entries" => pc = "entries" /\ i' = i
      PROVE  TablesRead'
  BY <1>0, <1>3, <1>4 DEF TablesRead, Table
<1>5. CASE UsbDisk \/ UsbDone
  BY <1>0, <1>4, <1>5 DEF UsbDisk, UsbDone, bootVars, TablesRead
<1>6. CASE Floppy \/ NoFloppy
  BY <1>0, <1>4, <1>6 DEF Floppy, NoFloppy, Beginning
<1>7. CASE SkipDevice
  <2>1. \A t \in DOMAIN tables : tables[t].at < i'
    BY <1>0, <1>7 DEF SkipDevice, TablesRead
  <2> QED
    BY <1>4, <1>7, <2>1 DEF SkipDevice
<1>8. CASE TableDone
  <2>1. Table.at = i /\ Len(tables) > 0 /\ i' = i + 1
    BY <1>0, <1>8 DEF TableDone, TablesRead, AtTable
  <2>2. \A t \in DOMAIN tables : tables[t].at < i'
    <3>0. \A t \in DOMAIN tables : tables[t].at \in Nat
      <4> TAKE t \in DOMAIN tables
      <4>1. tables[t] \in TableType
        BY <1>0, ElementOfSeq
      <4> QED
        BY <4>1, TableParts
    <3> SUFFICES ASSUME NEW t \in DOMAIN tables PROVE tables[t].at <= i
      BY <1>0, <2>1, <3>0
    <3>1. CASE t = Len(tables)
      BY <1>0, <2>1, <3>1 DEF Table
    <3>2. CASE t < Len(tables)
      BY <1>0, <2>1, <3>2 DEF Table, TablesRead
    <3> QED
      BY <1>0, <3>1, <3>2
  <2> QED
    BY <1>4, <1>8, <2>2 DEF TableDone
<1>9. CASE Partition \/ UnusedEntry
  BY <1>0, <1>4, <1>9 DEF Partition, UnusedEntry
<1>10. CASE \/ PartitionsDone \/ MountFloppy \/ MountPartition \/ NotMounted \/ Start
            \/ UNCHANGED vars
  BY <1>0, <1>4, <1>10 DEF PartitionsDone, MountFloppy, MountPartition, NotMounted, Start, vars,
                           bootVars, TablesRead
<1> QED
  BY <1>2, <1>5, <1>6, <1>7, <1>8, <1>9, <1>10 DEF Next, Main

LEMMA BeginningStep ==
  ASSUME Inv, OrderInv, [Next]_vars
  PROVE  Beginning'
<1>0. Beginning /\ devices \in Seq(DeviceType)
  BY DEF Inv, TypeOK, OrderInv
<1>1. CASE UsbDisk
  <2>1. <<usb>> \in Names
    BY DEF Names, Words
  <2>2. RegisterBlockDevice(Device("HARD_DISK", Len(devices) + 1, RAW_DEVICE, 0), <<usb>>)
    BY <1>1 DEF UsbDisk
  <2>3. /\ mounts' = mounts /\ tables' = tables /\ tables = <<>> /\ mounts = <<>>
        /\ \A d \in DOMAIN devices : devices'[d] = devices[d] /\ Raw(d)
    BY <1>0, <1>1, <2>1, <2>2, Registered DEF UsbDisk, bootVars, Beginning
  <2>4. \/ devices' = devices
        \/ LET n == Len(devices) + 1
           IN /\ DOMAIN devices' = 1..n
              /\ devices'[n].type = "HARD_DISK" /\ devices'[n].partition = RAW_DEVICE
    BY <1>0, <2>1, <2>2, Registered
  <2>5. \A d \in DOMAIN devices' : Raw(d)'
    <3> SUFFICES ASSUME NEW d \in DOMAIN devices'
                 PROVE  IsRawDisk(devices'[d])
      BY DEF Raw
    <3>1. d \in DOMAIN devices \/ d = Len(devices) + 1
      BY <1>0, <2>4
    <3>2. CASE d \in DOMAIN devices
      BY <2>3, <3>2 DEF Raw
    <3>3. CASE d \notin DOMAIN devices
      BY <2>4, <3>1, <3>3 DEF IsRawDisk
    <3> QED
      BY <3>2, <3>3
  <2> QED
    BY <2>3, <2>5 DEF Beginning
<1>2. CASE UsbDone
  BY <1>0, <1>2 DEF UsbDone, registryVars, Beginning, Raw
<1>3. CASE NoFloppy \/ Floppy \/ SkipDevice \/ ReadTable \/ Partition \/ UnusedEntry \/ TableDone
  BY <1>0, <1>3 DEF NoFloppy, Floppy, SkipDevice, ReadTable, Partition, UnusedEntry, TableDone,
                    RegisterBlockDevice, registryVars, Beginning
<1>4. CASE PartitionsDone \/ MountFloppy \/ MountPartition \/ NotMounted \/ Start
  BY <1>4 DEF PartitionsDone, MountFloppy, MountPartition, NotMounted, Start, Beginning
<1>5. CASE UNCHANGED vars
  BY <1>0, <1>5 DEF vars, registryVars, bootVars, Beginning, Raw
<1> QED
  BY <1>1, <1>2, <1>3, <1>4, <1>5 DEF Next, Main

\* mount_fs adds a mount at the end, or there was no place.
LEMMA Mounted ==
  ASSUME mounts \in Seq(MountType), NEW device, NEW ok, NEW prefix,
         MountFs(FileSystem(device, ok), prefix)
  PROVE  /\ devices' = devices
         /\ \A m \in DOMAIN mounts : m \in DOMAIN mounts' /\ mounts'[m] = mounts[m]
         /\ \/ mounts' = mounts /\ overflow'
            \/ LET n == Len(mounts) + 1
               IN /\ Len(mounts') = n /\ DOMAIN mounts' = 1..n
                  /\ mounts'[n].device = device
                  /\ mounts'[n].mountPoint = <<prefix, Len(mounts)>>
<1> DEFINE new == [mountPoint |-> <<prefix, Len(mounts)>>, device |-> device,
                   initialised |-> ok]
<1>1. mounts' = IF Len(mounts) >= MAX_MOUNTPOINTS THEN mounts ELSE Append(mounts, new)
  BY DEF MountFs, FileSystem, NextMountIndex
<1>2. devices' = devices /\ overflow' = (Len(mounts) >= MAX_MOUNTPOINTS)
  BY DEF MountFs
<1>3. CASE Len(mounts) >= MAX_MOUNTPOINTS
  BY <1>1, <1>2, <1>3
<1>4. CASE ~(Len(mounts) >= MAX_MOUNTPOINTS)
  <2>1. mounts' = Append(mounts, new)
    BY <1>1, <1>4
  <2> HIDE DEF new
  <2>2. /\ Len(mounts') = Len(mounts) + 1 /\ DOMAIN mounts' = 1..Len(mounts) + 1
        /\ mounts'[Len(mounts) + 1] = new
        /\ \A m \in DOMAIN mounts : m \in DOMAIN mounts' /\ mounts'[m] = mounts[m]
    BY <2>1
  <2> QED
    BY <1>2, <2>2 DEF new
<1> QED
  BY <1>3, <1>4

\* Mounting the device that main is at keeps the mounts in order.
LEMMA MountKeepsOrder ==
  ASSUME Inv, MountsInOrder, pc = "filesystems", ~Raw(i), i \in DOMAIN devices, i' = i + 1,
         NEW ok, NEW prefix, MountFs(FileSystem(i, ok), prefix)
  PROVE  MountsInOrder'
<1>0. /\ mounts \in Seq(MountType) /\ i \in Nat
      /\ \A m \in DOMAIN mounts : mounts[m].device < i /\ mounts[m].device \in Nat
      /\ \A m \in DOMAIN mounts : mounts[m].device \in DOMAIN devices /\ ~Raw(mounts[m].device)
      /\ \A m, n \in DOMAIN mounts : m < n => mounts[m].device < mounts[n].device
  BY DEF Inv, TypeOK, MountsInOrder, MountType
<1>1. /\ devices' = devices
      /\ \A m \in DOMAIN mounts : m \in DOMAIN mounts' /\ mounts'[m] = mounts[m]
  BY <1>0, Mounted
<1>2. \/ mounts' = mounts
      \/ LET n == Len(mounts) + 1
         IN DOMAIN mounts' = 1..n /\ mounts'[n].device = i
  BY <1>0, Mounted
<1>3. ASSUME NEW m \in DOMAIN mounts'
      PROVE  \/ m \in DOMAIN mounts /\ mounts'[m] = mounts[m]
             \/ m = Len(mounts) + 1 /\ mounts'[m].device = i
  BY <1>0, <1>1, <1>2
<1>4. \A m \in DOMAIN mounts' :
        /\ mounts'[m].device \in DOMAIN devices' /\ ~IsRawDisk(devices'[mounts'[m].device])
        /\ mounts'[m].device < i'
  BY <1>0, <1>1, <1>3 DEF Raw
<1>5. \A m, n \in DOMAIN mounts' : m < n => mounts'[m].device < mounts'[n].device
  <2> SUFFICES ASSUME NEW m \in DOMAIN mounts', NEW n \in DOMAIN mounts', m < n
               PROVE  mounts'[m].device < mounts'[n].device
    OBVIOUS
  <2>1. m \in DOMAIN mounts /\ mounts'[m] = mounts[m]
    BY <1>0, <1>1, <1>2
  <2> QED
    BY <1>0, <1>3, <2>1
<1> QED
  BY <1>4, <1>5 DEF MountsInOrder, Raw

LEMMA MountsInOrderStep ==
  ASSUME Inv, OrderInv, [Next]_vars
  PROVE  MountsInOrder'
<1>0. MountsInOrder /\ Beginning /\ mounts \in Seq(MountType) /\ devices \in Seq(DeviceType)
      /\ i \in Nat \ {0}
  BY DEF Inv, TypeOK, OrderInv
<1>1. \A d \in DOMAIN devices : d \in DOMAIN devices' /\ devices'[d] = devices[d]
  BY Grows
<1>2. ASSUME mounts' = mounts, pc' = "filesystems" => (pc = "filesystems" /\ i' \in {i, i + 1})
      PROVE  MountsInOrder'
  <2>1. \A m \in DOMAIN mounts : mounts[m].device \in Nat
    <3> TAKE m \in DOMAIN mounts
    <3>1. mounts[m] \in MountType
      BY <1>0, ElementOfSeq
    <3> QED
      BY <3>1 DEF MountType
  <2> QED
    BY <1>0, <1>1, <1>2, <2>1 DEF MountsInOrder, Raw
<1>3. CASE MountFloppy
  <2>1. PICK ok \in BOOLEAN : MountFs(FileSystem(i, ok), "fd")
    BY <1>3 DEF MountFloppy
  <2>2. pc = "filesystems" /\ i \in DOMAIN devices /\ ~Raw(i) /\ i' = i + 1
    BY <1>0, <1>3 DEF MountFloppy, Raw, IsRawDisk
  <2> QED
    BY <1>0, <2>1, <2>2, MountKeepsOrder
<1>4. CASE MountPartition
  <2>1. pc = "filesystems" /\ i \in DOMAIN devices /\ ~Raw(i) /\ i' = i + 1
    BY <1>0, <1>4 DEF MountPartition, Raw, IsRawDisk, RAW_DEVICE
  <2>2. MountFs(FileSystem(i, TRUE), "hd")
    BY <1>4 DEF MountPartition
  <2> QED
    BY <1>0, <2>1, <2>2, MountKeepsOrder
<1>5. CASE PartitionsDone
  BY <1>0, <1>5 DEF PartitionsDone, registryVars, Beginning, MountsInOrder
<1>6. CASE UsbDisk \/ Floppy \/ Partition
  BY <1>2, <1>6 DEF UsbDisk, Floppy, Partition, RegisterBlockDevice, bootVars
<1>7. CASE \/ UsbDone \/ NoFloppy \/ SkipDevice \/ ReadTable \/ UnusedEntry \/ TableDone
           \/ NotMounted \/ Start \/ UNCHANGED vars
  BY <1>2, <1>7 DEF UsbDone, NoFloppy, SkipDevice, ReadTable, UnusedEntry, TableDone,
                    NotMounted, Start, vars, registryVars, bootVars
<1> QED
  BY <1>3, <1>4, <1>5, <1>6, <1>7 DEF Next, Main

LEMMA FloppyFirstStep ==
  ASSUME Inv, OrderInv, [Next]_vars
  PROVE  FloppyFirst'
<1>0. FloppyFirst /\ Beginning /\ Layout /\ mounts \in Seq(MountType)
      /\ devices \in Seq(DeviceType) /\ i \in Nat \ {0}
  BY DEF Inv, TypeOK, OrderInv
<1>1. CASE PartitionsDone
  BY <1>0, <1>1 DEF PartitionsDone, registryVars, Beginning, FloppyFirst
<1>2. ASSUME NEW d \in DOMAIN devices, devices[d].type = "FLOPPY", NEW e \in DOMAIN devices, e < d
      PROVE  Raw(e)
  <2>1. \A c \in 1..d-1 : Raw(c)
    BY <1>2, <1>0 DEF Layout, Raw, IsRawDisk
  <2> QED
    BY <1>0, <1>2, <2>1
<1>3. CASE MountFloppy
  <2>1. PICK ok \in BOOLEAN : MountFs(FileSystem(i, ok), "fd")
    BY <1>3 DEF MountFloppy
  <2>2. /\ pc = "filesystems" /\ i \in DOMAIN devices /\ devices[i].type = "FLOPPY" /\ i' = i + 1
    BY <1>0, <1>3 DEF MountFloppy
  <2>3. mounts = <<>>
    BY <1>0, <2>2 DEF FloppyFirst
  <2>4. \A d \in DOMAIN devices : devices[d].type = "FLOPPY" => d = i
    <3> SUFFICES ASSUME NEW d \in DOMAIN devices, devices[d].type = "FLOPPY", d # i
                 PROVE  FALSE
      OBVIOUS
    <3>1. d < i \/ i < d
      BY <1>0
    <3> QED
      BY <1>2, <2>2, <3>1 DEF Raw, IsRawDisk
  <2>5. /\ devices' = devices
        /\ overflow' \/ (mounts' # <<>> /\ mounts'[1].mountPoint = <<"fd", 0>>)
    <3>1. Len(mounts) = 0
      BY <2>3
    <3>2. /\ devices' = devices
          /\ \/ overflow'
             \/ DOMAIN mounts' = 1..1 /\ mounts'[1].mountPoint = <<"fd", 0>>
      BY <1>0, <2>1, <3>1, Mounted
    <3> QED
      BY <3>2
  <2> QED
    BY <1>0, <2>2, <2>4, <2>5 DEF FloppyFirst
<1>4. ASSUME ~overflow, pc = "filesystems", i \in DOMAIN devices, i' = i + 1,
             devices[i].type = "HARD_DISK", devices' = devices,
             \/ mounts' = mounts
             \/ /\ ~Raw(i)
                /\ overflow' \/ (mounts # <<>> => (mounts' # <<>> /\ mounts'[1] = mounts[1]))
      PROVE  FloppyFirst'
  <2> SUFFICES ASSUME NEW d \in DOMAIN devices, devices[d].type = "FLOPPY"
               PROVE  IF d < i + 1
                        THEN overflow' \/ (mounts' # <<>> /\ mounts'[1].mountPoint = <<"fd", 0>>)
                        ELSE mounts' = <<>>
    BY <1>4 DEF FloppyFirst
  <2>1. CASE d < i
    BY <1>0, <1>4, <2>1 DEF FloppyFirst
  <2>2. CASE i < d
    BY <1>0, <1>2, <1>4, <2>2 DEF FloppyFirst
  <2> QED
    BY <1>0, <1>4, <2>1, <2>2
<1>5. CASE MountPartition
  <2>1. MountFs(FileSystem(i, TRUE), "hd")
    BY <1>5 DEF MountPartition
  <2>2. /\ pc = "filesystems" /\ i \in DOMAIN devices /\ i' = i + 1 /\ ~overflow
        /\ devices[i].type = "HARD_DISK" /\ ~Raw(i)
    BY <1>0, <1>5 DEF MountPartition, Raw, IsRawDisk, RAW_DEVICE
  <2>3. devices' = devices /\ \A m \in DOMAIN mounts : m \in DOMAIN mounts' /\ mounts'[m] = mounts[m]
    BY <1>0, <2>1, Mounted
  <2>4. mounts # <<>> => (mounts' # <<>> /\ mounts'[1] = mounts[1])
    <3>1. mounts # <<>> => 1 \in DOMAIN mounts
      BY <1>0
    <3> QED
      BY <2>3, <3>1
  <2> QED
    BY <1>4, <2>2, <2>3, <2>4
<1>6. CASE NotMounted
  BY <1>0, <1>4, <1>6 DEF NotMounted, registryVars
<1>7. CASE \/ UsbDisk \/ UsbDone \/ NoFloppy \/ Floppy \/ SkipDevice \/ ReadTable \/ Partition
           \/ UnusedEntry \/ TableDone \/ Start
  BY <1>7 DEF UsbDisk, UsbDone, NoFloppy, Floppy, SkipDevice, ReadTable, Partition,
              UnusedEntry, TableDone, Start, bootVars, FloppyFirst
<1>8. CASE UNCHANGED vars
  BY <1>0, <1>8 DEF vars, registryVars, bootVars, FloppyFirst
<1> QED
  BY <1>1, <1>3, <1>5, <1>6, <1>7, <1>8 DEF Next, Main

LEMMA StartsFromFloppyStep ==
  ASSUME Inv, OrderInv, [Next]_vars
  PROVE  StartsFromFloppy'
<1>0. FloppyFirst /\ StartsFromFloppy /\ devices \in Seq(DeviceType) /\ i \in Nat \ {0}
  BY DEF Inv, TypeOK, OrderInv
<1>1. CASE Start
  <2> SUFFICES ASSUME pc' = "shell", NEW d \in DOMAIN devices, devices[d].type = "FLOPPY"
               PROVE  cwd' = <<"fd", 0>>
    BY <1>1 DEF StartsFromFloppy, Start, registryVars
  <2>1. mounts # <<>> /\ cwd' = mounts[1].mountPoint
    BY <1>1 DEF Start
  <2>2. pc = "filesystems" /\ ~overflow /\ d < i
    BY <1>0, <1>1 DEF Start
  <2> QED
    BY <1>0, <2>1, <2>2 DEF FloppyFirst
<1>2. CASE UNCHANGED vars
  BY <1>0, <1>2 DEF vars, registryVars, bootVars, StartsFromFloppy
<1>3. CASE \/ UsbDisk \/ UsbDone \/ NoFloppy \/ Floppy \/ SkipDevice \/ ReadTable \/ Partition
           \/ UnusedEntry \/ TableDone \/ PartitionsDone
  BY <1>3 DEF UsbDisk, UsbDone, NoFloppy, Floppy, SkipDevice, ReadTable, Partition,
              UnusedEntry, TableDone, PartitionsDone, bootVars, StartsFromFloppy
<1>4. CASE MountFloppy \/ MountPartition \/ NotMounted
  BY <1>4 DEF MountFloppy, MountPartition, NotMounted, StartsFromFloppy
<1> QED
  BY <1>1, <1>2, <1>3, <1>4 DEF Next, Main

-----------------------------------------------------------------------------
(* Every partition is registered, once, under the name it should have *)

\* Another device is at the end of the table.
Extended(devs, more) ==
  /\ DOMAIN more = 1..Len(devs) + 1
  /\ \A d \in DOMAIN devs : more[d] = devs[d]

LEMMA SameEntriesKept ==
  ASSUME NEW devs, NEW table, NEW l, NEW m, Kept(devs, table, l),
         Through(table.used, l) = Through(table.used, m)
  PROVE  Kept(devs, table, m)
BY DEF Kept

\* A device that is no partition of the disk does not disturb its table.
LEMMA OtherKept ==
  ASSUME NEW devs \in Seq(DeviceType), NEW more, Extended(devs, more),
         NEW table, NEW limit, table.at \in DOMAIN devs, Kept(devs, table, limit),
         more[Len(devs) + 1].disk # table.at
  PROVE  Kept(more, table, limit)
<1> DEFINE parts == PartsOf(devs, table.at)
<1>1. PartsOf(more, table.at) = parts
  BY DEF PartsOf, Extended
<1>2. more[table.at] = devs[table.at] /\ \A d \in parts : more[d] = devs[d]
  BY DEF PartsOf, Extended
<1>3. {more[d].partition : d \in parts} = {devs[d].partition : d \in parts}
  BY <1>2
<1> HIDE DEF parts
<1> QED
  BY <1>1, <1>2, <1>3 DEF Kept, parts

LEMMA EntriesFinite ==
  ASSUME NEW used \in SUBSET (1..Entries), NEW limit
  PROVE  /\ IsFiniteSet(Through(used, limit))
         /\ Cardinality(Through(used, limit)) \in Nat
<1>1. IsFiniteSet(1..Entries)
  BY BootAssumption, FS_Interval
<1>2. Through(used, limit) \subseteq 1..Entries
  BY DEF Through
<1> QED
  BY <1>1, <1>2, FS_Subset, FS_CardinalityType

LEMMA PartsFinite ==
  ASSUME NEW devs \in Seq(DeviceType), NEW disk
  PROVE  IsFiniteSet(PartsOf(devs, disk))
<1>1. IsFiniteSet(1..Len(devs))
  BY FS_Interval
<1>2. PartsOf(devs, disk) \subseteq 1..Len(devs)
  BY DEF PartsOf
<1> QED
  BY <1>1, <1>2, FS_Subset

\* The partition of the entry that is being looked at makes its table right
\* up to the next entry.
LEMMA EntryKept ==
  ASSUME NEW devs \in Seq(DeviceType), NEW more, Extended(devs, more),
         NEW table \in TableType, table.at \in DOMAIN devs,
         NEW e \in table.used, Kept(devs, table, e),
         more[Len(devs) + 1].disk = table.at, more[Len(devs) + 1].partition = e,
         more[Len(devs) + 1].name =
           devs[table.at].name \o <<dot, Cardinality(Through(table.used, e))>>
  PROVE  Kept(more, table, e + 1)
<1> DEFINE n == Len(devs) + 1
           parts == PartsOf(devs, table.at)
           through == Through(table.used, e)
<1>1. table.used \in SUBSET (1..Entries) /\ e \in 1..Entries /\ e > 0
  BY BootAssumption DEF TableType
<1>2. PartsOf(more, table.at) = parts \cup {n} /\ n \notin parts
  BY <1>1 DEF PartsOf, Extended
<1>3. /\ more[table.at] = devs[table.at]
      /\ \A d \in parts : more[d] = devs[d] /\ d \in Nat /\ d < n
  BY DEF PartsOf, Extended
<1>4. Through(table.used, e + 1) = through \cup {e} /\ e \notin through
  BY <1>1 DEF Through
<1>5. /\ IsFiniteSet(parts) /\ IsFiniteSet(through)
      /\ Cardinality(parts) = Cardinality(through)
      /\ {devs[d].partition : d \in parts} = through
  BY <1>1, PartsFinite, EntriesFinite DEF Kept
<1> HIDE DEF n
<1>6. Cardinality(parts \cup {n}) = Cardinality(through \cup {e})
  <2> HIDE DEF parts, through
  <2>1. Cardinality(parts \cup {n}) = Cardinality(parts) + 1
    BY <1>2, <1>5, FS_AddElement
  <2>2. Cardinality(through \cup {e}) = Cardinality(through) + 1
    BY <1>4, <1>5, FS_AddElement
  <2> QED
    BY <1>5, <2>1, <2>2
<1>7. {more[d].partition : d \in parts \cup {n}} = through \cup {e}
  <2>1. more[n].partition = e
    BY DEF n
  <2> HIDE DEF parts, through
  <2> QED
    BY <1>3, <1>5, <2>1
<1>8. ASSUME NEW c \in parts \cup {n}, NEW d \in parts \cup {n}, c < d
      PROVE  more[c].partition < more[d].partition
  <2>1. c \in parts
    BY <1>3, <1>8 DEF n
  <2>2. CASE d \in parts
    BY <1>3, <1>8, <2>1, <2>2 DEF Kept
  <2>3. CASE d = n
    <3>1. devs[c].partition \in through
      BY <1>5, <2>1
    <3> QED
      BY <1>3, <2>1, <2>3, <3>1 DEF Through, n
  <2> QED
    BY <2>2, <2>3
<1>9. ASSUME NEW d \in parts \cup {n}
      PROVE  more[d].name = more[table.at].name \o
                              <<dot, Cardinality(Through(table.used, more[d].partition))>>
  BY <1>3, <1>9 DEF Kept, n
<1> HIDE DEF parts, through
<1> QED
  BY <1>2, <1>4, <1>6, <1>7, <1>8, <1>9 DEF Kept

LEMMA TablesKnown ==
  ASSUME Inv, OrderInv
  PROVE  /\ devices \in Seq(DeviceType) /\ tables \in Seq(TableType) /\ i \in Nat \ {0}
         /\ entry \in Nat
         /\ \A t \in DOMAIN tables :
              /\ tables[t] \in TableType /\ tables[t].at \in DOMAIN devices
              /\ Raw(tables[t].at)
              /\ devices[tables[t].at].disk = tables[t].at
              /\ Len(devices[tables[t].at].name) = 2
<1>1. /\ devices \in Seq(DeviceType) /\ tables \in Seq(TableType) /\ i \in Nat \ {0}
      /\ entry \in Nat
  BY BootAssumption DEF Inv, TypeOK, TableType
<1>2. ASSUME NEW t \in DOMAIN tables
      PROVE  tables[t] \in TableType /\ tables[t].at \in DOMAIN devices /\ Raw(tables[t].at)
  BY <1>1, ElementOfSeq DEF OrderInv, TablesRead
<1>3. ASSUME NEW d \in DOMAIN devices, Raw(d)
      PROVE  devices[d].disk = d /\ Len(devices[d].name) = 2
  BY <1>3 DEF OrderInv, Layout, Raw, IsRawDisk, RAW_DEVICE, IsPartition
<1> QED
  BY <1>1, <1>2, <1>3

LEMMA NamesKnown ==
  ASSUME NEW devs \in Seq(DeviceType), NEW d \in DOMAIN devs
  PROVE  devs[d].name \in Names
<1>1. devs[d] \in DeviceType
  BY ElementOfSeq
<1> QED
  BY <1>1 DEF DeviceType, Names

LEMMA AppendElements ==
  ASSUME NEW S, NEW s \in Seq(S), NEW x \in S
  PROVE  /\ Len(s) \in Nat /\ Len(Append(s, x)) = Len(s) + 1
         /\ Append(s, x)[Len(s) + 1] = x
         /\ \A k \in 1..Len(s) : Append(s, x)[k] = s[k]
OBVIOUS

LEMMA ConcatElements ==
  ASSUME NEW S, NEW s \in Seq(S), NEW r \in Seq(S)
  PROVE  /\ Len(s \o r) = Len(s) + Len(r)
         /\ \A k \in 1..Len(s) + Len(r) :
              (s \o r)[k] = IF k <= Len(s) THEN s[k] ELSE r[k - Len(s)]
OBVIOUS

LEMMA DiskAndDot ==
  ASSUME NEW p \in Names, Len(p) = 2, NEW x
  PROVE  LET q == Append(p, x)
         IN Len(q) = 3 /\ q[1] = p[1] /\ q[2] = p[2] /\ q[3] = x
<1> DEFINE q == Append(p, x)
           S == Nat \cup Words \cup {x}
<1>1. p \in Seq(S) /\ x \in S
  BY DEF Names
<1> HIDE DEF S
<1>2. \A s \in Seq(S) : /\ Len(Append(s, x)) = Len(s) + 1
                         /\ Append(s, x)[Len(s) + 1] = x
                         /\ \A k \in 1..Len(s) : Append(s, x)[k] = s[k]
  BY <1>1, AppendElements
<1>3. Len(q) = Len(p) + 1 /\ q[Len(p) + 1] = x /\ \A k \in 1..Len(p) : q[k] = p[k]
  BY <1>1, <1>2, Zenon
<1> HIDE DEF q
<1> QED
  BY <1>3

LEMMA DiskDotNumber ==
  ASSUME NEW p \in Names, Len(p) = 2, NEW x, NEW y
  PROVE  LET q == p \o <<x, y>>
         IN Len(q) = 4 /\ q[1] = p[1] /\ q[2] = p[2] /\ q[3] = x
<1> DEFINE r == <<x, y>>
           q == p \o r
           S == Nat \cup Words \cup {x, y}
<1>1. p \in Seq(S) /\ r \in Seq(S) /\ Len(r) = 2 /\ r[1] = x
  BY DEF Names
<1> HIDE DEF r, S
<1>2. /\ Len(q) = Len(p) + Len(r)
      /\ \A k \in 1..Len(p) + Len(r) : q[k] = IF k <= Len(p) THEN p[k] ELSE r[k - Len(p)]
  BY <1>1, ConcatElements
<1> HIDE DEF q
<1>3. Len(q) = 4 /\ q[1] = p[1] /\ q[2] = p[2] /\ q[3] = r[1]
  BY <1>1, <1>2
<1> QED
  BY <1>1, <1>3 DEF q, r

LEMMA DiskNames ==
  ASSUME NEW p \in Names, NEW q \in Names, Len(p) = 2, Len(q) = 2, p[1] = q[1], p[2] = q[2]
  PROVE  p = q
<1>1. \A k \in 1..2 : p[k] = q[k]
  OBVIOUS
<1> QED
  BY <1>1 DEF Names

\* The names that begin with a disk's name and a dot are those of its
\* partitions, so the number given next counts them.
LEMMA PartsAreNamed ==
  ASSUME Inv, OrderInv, \A t \in DOMAIN tables : Kept(devices, tables[t], Limit(t)),
         NEW u \in DOMAIN tables
  PROVE  LET at == tables[u].at
         IN Named(Append(devices[at].name, dot), devices) = PartsOf(devices, at)
<1> DEFINE at == tables[u].at
           prefix == Append(devices[at].name, dot)
<1>1. /\ devices \in Seq(DeviceType) /\ at \in DOMAIN devices /\ Len(devices[at].name) = 2
      /\ devices[at].name \in Names
  BY TablesKnown, NamesKnown
<1>2. /\ Len(prefix) = 3 /\ prefix[3] = dot
      /\ prefix[1] = devices[at].name[1] /\ prefix[2] = devices[at].name[2]
  <2> HIDE DEF at
  <2> QED
    BY <1>1, DiskAndDot
<1>3. ASSUME NEW d \in PartsOf(devices, at) PROVE d \in Named(prefix, devices)
  <2>1. PICK k : devices[d].name = devices[at].name \o <<dot, k>>
    BY <1>3 DEF Kept
  <2>2. /\ Len(devices[d].name) = 4 /\ devices[d].name[3] = dot
        /\ devices[d].name[1] = devices[at].name[1]
        /\ devices[d].name[2] = devices[at].name[2]
    <3> HIDE DEF at
    <3> QED
      BY <1>1, <2>1, DiskDotNumber
  <2> HIDE DEF prefix
  <2>3. HasPrefix(devices[d].name, prefix)
    BY <1>2, <2>2 DEF HasPrefix
  <2> QED
    BY <1>3, <2>3 DEF Named, PartsOf
<1>4. ASSUME NEW d \in Named(prefix, devices) PROVE d \in PartsOf(devices, at)
  <2> HIDE DEF prefix
  <2>1. /\ d \in DOMAIN devices /\ Len(devices[d].name) >= 3 /\ devices[d].name \in Names
        /\ devices[d].name[1] = devices[at].name[1] /\ devices[d].name[2] = devices[at].name[2]
    <3>1. d \in DOMAIN devices /\ HasPrefix(devices[d].name, prefix)
      BY <1>4 DEF Named
    <3> QED
      BY <1>1, <1>2, <3>1, NamesKnown DEF HasPrefix
  <2>2. /\ IsPartition(d)
        /\ \E t \in DOMAIN tables : tables[t].at = devices[d].disk
    <3> DEFINE l == Len(devices[d].name)
    <3>0. l \in Nat /\ l >= 3
      BY <2>1, AppendElements DEF Names
    <3> HIDE DEF l
    <3>1. l # 2
      BY <3>0
    <3> QED
      BY <2>1, <3>1 DEF OrderInv, Layout, l
  <2>3. PICK t \in DOMAIN tables : tables[t].at = devices[d].disk
    BY <2>2
  <2> DEFINE disk == tables[t].at
  <2>4. /\ disk \in DOMAIN devices /\ Len(devices[disk].name) = 2
        /\ devices[disk].name \in Names
    BY <1>1, TablesKnown, NamesKnown
  <2>5. PICK k : devices[d].name = devices[disk].name \o <<dot, k>>
    <3>1. d \in PartsOf(devices, disk)
      BY <2>1, <2>2, <2>3 DEF PartsOf, IsPartition
    <3> QED
      BY <3>1 DEF Kept
  <2> HIDE DEF disk, at
  <2>6. /\ devices[disk].name[1] = devices[d].name[1]
        /\ devices[disk].name[2] = devices[d].name[2]
    BY <2>4, <2>5, DiskDotNumber
  <2>7. devices[disk].name = devices[at].name
    BY <1>1, <2>1, <2>4, <2>6, DiskNames
  <2>8. disk = at
    BY <1>1, <2>4, <2>7 DEF Inv, NamesUnique
  <2> QED
    BY <2>1, <2>2, <2>3, <2>8 DEF PartsOf, IsPartition, disk
<1> QED
  BY <1>3, <1>4

\* The offset of a device is never changed, and a new partition gets its own.
LEMMA OffsetsStep ==
  ASSUME Inv, OrderInv, [Next]_vars
  PROVE  Offsets'
<1>0. /\ devices \in Seq(DeviceType) /\ tables \in Seq(TableType)
      /\ Offsets /\ AtTable /\ TablesRead
  BY DEF Inv, TypeOK, OrderInv
<1> DEFINE New(d) ==
      devices'[d].partition > 0 =>
        \E t \in DOMAIN tables' :
          /\ tables'[t].at = devices'[d].disk
          /\ devices'[d].partition \in tables'[t].used
          /\ devices'[d].offset = tables'[t].extent[devices'[d].partition].start
<1>1. ASSUME NEW d \in DOMAIN devices PROVE New(d)
  <2>1. devices'[d] = devices[d] /\ \A t \in DOMAIN tables : t \in DOMAIN tables' /\ tables'[t] = tables[t]
    BY Grows
  <2> QED
    BY <1>0, <2>1 DEF Offsets, IsPartition
<1> HIDE DEF New
<1>2. ASSUME \/ devices' = devices
             \/ DOMAIN devices' = 1..Len(devices) + 1 /\ New(Len(devices) + 1)
      PROVE  Offsets'
  <2>1. \A d \in DOMAIN devices' : New(d)
    BY <1>0, <1>1, <1>2
  <2> QED
    BY <2>1 DEF Offsets, New, IsPartition
<1>3. CASE UsbDisk
  <2>1. <<usb>> \in Names
    BY DEF Names, Words
  <2>2. RegisterBlockDevice(Device("HARD_DISK", Len(devices) + 1, RAW_DEVICE, 0), <<usb>>)
    BY <1>3 DEF UsbDisk
  <2>3. \/ devices' = devices
        \/ LET n == Len(devices) + 1
           IN DOMAIN devices' = 1..n /\ devices'[n].partition = RAW_DEVICE
    BY <1>0, <2>1, <2>2, Registered
  <2> QED
    BY <1>2, <2>3 DEF New, RAW_DEVICE
<1>4. CASE Floppy
  <2>1. <<floppy>> \in Names
    BY DEF Names, Words
  <2>2. RegisterBlockDevice(Device("FLOPPY", 0, UNPARTITIONED, 0), <<floppy>>)
    BY <1>4 DEF Floppy
  <2>3. \/ devices' = devices
        \/ LET n == Len(devices) + 1
           IN DOMAIN devices' = 1..n /\ devices'[n].partition = UNPARTITIONED
    BY <1>0, <2>1, <2>2, Registered
  <2> QED
    BY <1>2, <2>3 DEF New, UNPARTITIONED
<1>5. CASE Partition
  <2>1. /\ i \in DOMAIN devices /\ Len(tables) \in DOMAIN tables /\ tables' = tables
        /\ Table = tables[Len(tables)] /\ Table.at = i /\ entry \in Table.used
    BY <1>0, <1>5 DEF Partition, AtTable, TablesRead, Table
  <2>2. devices[i].disk = i
    BY <2>1, TablesKnown
  <2>3. Append(devices[i].name, dot) \in Names
    <3>1. devices[i] \in DeviceType
      BY <1>0, <2>1
    <3> QED
      BY <3>1 DEF DeviceType, Names, Words
  <2>4. RegisterBlockDevice(Device(devices[i].type, devices[i].disk, entry, Table.extent[entry].start),
                            Append(devices[i].name, dot))
    BY <1>5 DEF Partition
  <2>5. \/ devices' = devices
        \/ LET n == Len(devices) + 1
           IN /\ DOMAIN devices' = 1..n
              /\ devices'[n].disk = devices[i].disk /\ devices'[n].partition = entry
              /\ devices'[n].offset = Table.extent[entry].start
    BY <1>0, <2>3, <2>4, Registered
  <2> QED
    BY <1>2, <2>1, <2>2, <2>5 DEF New
<1>6. CASE ReadTable
  BY <1>2, <1>6 DEF ReadTable, registryVars
<1> QED
  BY <1>2, <1>3, <1>4, <1>5, <1>6, SameTables

LEMMA TablesKeptStep ==
  ASSUME Inv, OrderInv, [Next]_vars
  PROVE  TablesKept'
<1>0. /\ devices \in Seq(DeviceType) /\ tables \in Seq(TableType) /\ i \in Nat \ {0}
      /\ entry \in 0..Entries + 1
      /\ Beginning /\ TablesRead /\ Layout /\ AtTable
  BY TablesKnown DEF Inv, OrderInv, TypeOK
<1> USE BootAssumption
<1>1. CASE UNCHANGED vars
  BY <1>1 DEF vars, registryVars, bootVars, OrderInv, TablesKept, Limit
<1>2. CASE overflow /\ ~UNCHANGED vars
  BY <1>2 DEF Next, Main, UsbDisk, UsbDone, NoFloppy, Floppy, SkipDevice, ReadTable,
              Partition, UnusedEntry, TableDone, PartitionsDone, MountFloppy, MountPartition,
              NotMounted, Start
<1> SUFFICES ASSUME ~overflow, Next PROVE TablesKept'
  BY <1>1, <1>2
<1>3. \A t \in DOMAIN tables : Kept(devices, tables[t], Limit(t))
  BY DEF OrderInv, TablesKept
<1>4. \A t \in DOMAIN tables : tables[t] \in TableType /\ tables[t].at \in DOMAIN devices
  BY TablesKnown
<1>5. ASSUME devices' = devices, tables' = tables,
             \A t \in DOMAIN tables :
               Through(tables[t].used, Limit(t)) = Through(tables[t].used, Limit(t)')
      PROVE  TablesKept'
  <2>1. \A t \in DOMAIN tables : Kept(devices, tables[t], Limit(t)')
    BY <1>3, <1>5, SameEntriesKept
  <2> QED
    BY <1>5, <2>1 DEF TablesKept
<1>6. CASE UsbDisk \/ Floppy
  <2>1. tables' = <<>>
    BY <1>0, <1>6 DEF UsbDisk, Floppy, bootVars, Beginning
  <2> QED
    BY <2>1 DEF TablesKept
<1>7. CASE ReadTable
  <2>0. PICK used \in SUBSET (1..Entries) : \E extent \in [used -> Extents] :
          tables' = Append(tables, [at |-> i, used |-> used, extent |-> extent])
    BY <1>7 DEF ReadTable
  <2>1. PICK extent \in [used -> Extents] :
          tables' = Append(tables, [at |-> i, used |-> used, extent |-> extent])
    BY <2>0
  <2> DEFINE n == Len(tables) + 1
             table == [at |-> i, used |-> used, extent |-> extent]
  <2>2. /\ pc = "partitions" /\ pc' = "entries" /\ entry' = 1 /\ devices' = devices
    BY <1>7 DEF ReadTable, registryVars
  <2>3. /\ DOMAIN tables' = 1..n /\ Len(tables') = n /\ tables'[n] = table
        /\ \A t \in DOMAIN tables : tables'[t] = tables[t] /\ t # n
        /\ \A t \in 1..n : t \in DOMAIN tables \/ t = n
    BY <1>0, <2>1 DEF TableType
  <2>4. \A t \in DOMAIN tables : Kept(devices, tables[t], Entries + 1)
    BY <1>3, <2>2 DEF Limit
  <2>5. Kept(devices, table, 1)
    <3>1. PartsOf(devices, i) = {}
      <4> SUFFICES ASSUME NEW d \in PartsOf(devices, i) PROVE FALSE
        OBVIOUS
      <4>1. d \in DOMAIN devices /\ devices[d].disk = i /\ devices[d].partition > 0
        BY DEF PartsOf
      <4>2. PICK t \in DOMAIN tables : tables[t].at = i
        BY <1>0, <4>1 DEF Layout, Raw, IsRawDisk, RAW_DEVICE, UNPARTITIONED
      <4>3. i < i
        BY <1>0, <2>2, <4>2 DEF TablesRead
      <4> QED
        BY <1>0, <4>3
    <3>2. Through(used, 1) = {}
      <4>1. \A e \in used : e \in 1..Entries
        OBVIOUS
      <4>2. \A e \in used : ~(e < 1)
        BY <4>1
      <4> QED
        BY <4>2 DEF Through
    <3> QED
      BY <3>1, <3>2 DEF Kept
  <2> HIDE DEF table, n
  <2>6. \A t \in DOMAIN tables' : Kept(devices', tables'[t], Limit(t)')
    <3> SUFFICES ASSUME NEW t \in DOMAIN tables' PROVE Kept(devices, tables'[t], Limit(t)')
      BY <2>2
    <3>1. CASE t = n
      BY <2>2, <2>3, <2>5, <3>1 DEF Limit
    <3>2. CASE t # n
      BY <2>2, <2>3, <2>4, <3>2 DEF Limit
    <3> QED
      BY <3>1, <3>2
  <2> QED
    BY <2>6 DEF TablesKept
<1>8. CASE Partition
  <2> DEFINE m == Len(tables)
             n == Len(devices) + 1
  <2>1. /\ pc = "entries" /\ pc' = "entries" /\ tables' = tables /\ entry' = entry + 1
        /\ entry \in Table.used /\ m \in DOMAIN tables /\ Table.at = i /\ Table = tables[m]
    BY <1>0, <1>8 DEF Partition, AtTable, TablesRead, Table
  <2>2. /\ i \in DOMAIN devices /\ devices[i].disk = i /\ Raw(i)
        /\ Len(devices[i].name) = 2 /\ devices[i].name \in Names
    BY <1>0, <2>1, TablesKnown, NamesKnown
  <2>3. Append(devices[i].name, dot) \in Names
    BY <2>2 DEF Names, Words
  <2>4. RegisterBlockDevice(Device(devices[i].type, devices[i].disk, entry, Table.extent[entry].start),
                            Append(devices[i].name, dot))
    BY <1>8 DEF Partition
  <2> DEFINE number == NextIndex(Append(devices[i].name, dot), devices)
  <2>5. \/ overflow'
        \/ /\ DOMAIN devices' = 1..n
           /\ devices'[n].disk = i
           /\ devices'[n].partition = entry
           /\ devices'[n].name = Append(Append(devices[i].name, dot), number)
    <3> DEFINE prefix == Append(devices[i].name, dot)
    <3>1. devices \in Seq(DeviceType) /\ prefix \in Names
      BY <1>0, <2>3
    <3>2. RegisterBlockDevice(Device(devices[i].type, i, entry, Table.extent[entry].start), prefix)
      BY <2>2, <2>4
    <3> HIDE DEF prefix
    <3>3. \/ devices' = devices /\ overflow'
          \/ LET k == Len(devices) + 1
             IN /\ DOMAIN devices' = 1..k
                /\ devices'[k].disk = i
                /\ devices'[k].partition = entry
                /\ devices'[k].name = Append(prefix, NextIndex(prefix, devices))
      BY <3>1, <3>2, Registered
    <3> QED
      BY <3>3 DEF prefix
  <2>6. \A d \in DOMAIN devices : devices'[d] = devices[d]
    BY <1>0, <2>3, <2>4, Registered
  <2>7. CASE overflow'
    BY <2>1, <2>7 DEF TablesKept
  <2>8. Kept(devices, Table, entry)
    BY <1>3, <2>1 DEF Limit
  <2>9. number = Cardinality(Through(Table.used, entry))
    <3>1. number = Cardinality(PartsOf(devices, i))
      BY <1>0, <1>3, <2>1, PartsAreNamed, NextIndexNat
    <3> QED
      BY <2>1, <2>8, <3>1 DEF Kept
  <2>10. Append(Append(devices[i].name, dot), number) = devices[i].name \o <<dot, number>>
    BY <2>2 DEF Names
  <2> HIDE DEF number, n
  <2>11. CASE ~overflow'
    <3>1. Extended(devices, devices')
      BY <2>5, <2>6, <2>11 DEF Extended, n
    <3>2. /\ devices'[n].disk = i /\ devices'[n].partition = entry
          /\ devices'[n].name = devices[i].name \o <<dot, Cardinality(Through(Table.used, entry))>>
      BY <2>5, <2>9, <2>10, <2>11
    <3>3. Kept(devices', Table, entry + 1)
      BY <1>0, <1>4, <2>1, <2>2, <2>8, <3>1, <3>2, EntryKept DEF n
    <3>4. ASSUME NEW t \in DOMAIN tables, t # m PROVE Kept(devices', tables[t], Entries + 1)
      <4>1. tables[t].at # i
        <5>1. t < m
          BY <1>0, <3>4
        <5>2. tables[t].at < i
          BY <1>0, <2>1, <5>1 DEF TablesRead
        <5> QED
          BY <1>0, <5>2
      <4>2. Kept(devices, tables[t], Entries + 1)
        BY <1>3, <3>4 DEF Limit
      <4> QED
        BY <1>0, <1>4, <3>1, <3>2, <4>1, <4>2, OtherKept DEF n
    <3> HIDE DEF m
    <3>5. \A t \in DOMAIN tables : Kept(devices', tables[t], Limit(t)')
      <4> SUFFICES ASSUME NEW t \in DOMAIN tables PROVE Kept(devices', tables[t], Limit(t)')
        OBVIOUS
      <4>1. CASE t = m
        <5>1. Limit(t)' = entry + 1
          BY <2>1, <4>1 DEF Limit, m
        <5> QED
          BY <2>1, <3>3, <4>1, <5>1
      <4>2. CASE t # m
        <5>1. Limit(t)' = Entries + 1
          BY <2>1, <4>2 DEF Limit, m
        <5> QED
          BY <3>4, <4>2, <5>1
      <4> QED
        BY <4>1, <4>2
    <3> QED
      BY <2>1, <3>5 DEF TablesKept
  <2> QED
    BY <2>7, <2>11
<1>9. CASE UnusedEntry
  <2>1. \A t \in DOMAIN tables :
          Through(tables[t].used, Limit(t)) = Through(tables[t].used, Limit(t)')
    <3> SUFFICES ASSUME NEW t \in DOMAIN tables
                 PROVE  Through(tables[t].used, Limit(t)) = Through(tables[t].used, Limit(t)')
      OBVIOUS
    <3>1. CASE t = Len(tables)
      <4>1. /\ Limit(t) = entry /\ Limit(t)' = entry + 1 /\ entry \notin tables[t].used
            /\ tables[t].used \in SUBSET (1..Entries) /\ entry \in 1..Entries
        BY <1>4, <1>9, <3>1 DEF UnusedEntry, Limit, Table, TableType
      <4> QED
        BY <4>1 DEF Through
    <3>2. CASE t # Len(tables)
      BY <1>9, <3>2 DEF UnusedEntry, Limit
    <3> QED
      BY <3>1, <3>2
  <2> QED
    BY <1>5, <1>9, <2>1 DEF UnusedEntry, registryVars
<1>10. CASE TableDone
  <2>1. entry = Entries + 1
    BY <1>0, <1>10 DEF TableDone
  <2> QED
    BY <1>5, <1>10, <2>1 DEF TableDone, registryVars, Limit
<1>11. CASE \/ UsbDone \/ NoFloppy \/ SkipDevice \/ PartitionsDone \/ MountFloppy
            \/ MountPartition \/ NotMounted \/ Start
  <2>1. pc # "entries" /\ pc' # "entries"
    BY <1>11 DEF UsbDone, NoFloppy, SkipDevice, PartitionsDone, MountFloppy, MountPartition,
                 NotMounted, Start
  <2>2. devices' = devices /\ tables' = tables
    BY <1>11 DEF UsbDone, NoFloppy, SkipDevice, PartitionsDone, MountFloppy, MountPartition,
                 NotMounted, Start, MountFs, registryVars
  <2> QED
    BY <1>5, <2>1, <2>2 DEF Limit
<1> QED
  BY <1>6, <1>7, <1>8, <1>9, <1>10, <1>11 DEF Next, Main

LEMMA InitOrder == Init => OrderInv
<1> SUFFICES ASSUME Init PROVE OrderInv
  OBVIOUS
<1>1. /\ devices = <<>> /\ mounts = <<>> /\ tables = <<>> /\ pc = "usb"
      /\ DOMAIN devices = {} /\ DOMAIN mounts = {} /\ DOMAIN tables = {}
  BY DEF Init, RegistryInit
<1> QED
  BY <1>1 DEF OrderInv, Layout, TablesRead, Offsets, Beginning, TablesKept, MountsInOrder, FloppyFirst,
              StartsFromFloppy

\* The device table, the tables read and the mounts stay in the order in
\* which main goes through them.
THEOREM OrderInvariance == Spec => []OrderInv
<1>1. Inv /\ OrderInv /\ [Next]_vars => OrderInv'
  BY LayoutStep, TablesReadStep, OffsetsStep, BeginningStep, TablesKeptStep, MountsInOrderStep,
     FloppyFirstStep, StartsFromFloppyStep DEF OrderInv
<1> QED
  BY <1>1, InitOrder, BootInvariance, PTL DEF Spec

\* Start-up keeps the types of what it fills in, however many disks there are.
THEOREM BootTypes == Spec => []TypeOK
<1>1. Inv => TypeOK
  BY DEF Inv
<1> QED
  BY <1>1, BootInvariance, PTL

\* main's loop, whose bound moves as find_partitions adds to the table, leaves
\* out no partition and registers none twice, whatever the disks and tables.
THEOREM EveryPartitionFound == Spec => []PartitionsComplete
<1>1. Inv /\ OrderInv => PartitionsComplete
  <2> SUFFICES ASSUME Inv, OrderInv, pc \in {"filesystems", "shell", "loopback"},
                      NEW t \in DOMAIN tables
               PROVE
                 LET disk  == devices[tables[t].at]
                     parts == {d \in DOMAIN devices :
                                 devices[d].disk = disk.disk /\ devices[d].partition > 0}
                 IN /\ {devices[d].partition : d \in parts} = tables[t].used
                    /\ \A d, e \in parts : d < e => devices[d].partition < devices[e].partition
                    /\ \A d \in parts : devices[d].name = disk.name \o
                         <<dot, Cardinality({e \in tables[t].used : e < devices[d].partition})>>
    BY DEF PartitionsComplete
  <2> DEFINE at == tables[t].at
             parts == PartsOf(devices, at)
  <2>1. /\ at \in DOMAIN devices /\ devices[at].disk = at
        /\ tables[t].used \in SUBSET (1..Entries)
    BY TablesKnown DEF TableType
  <2>2. Kept(devices, tables[t], Entries + 1)
    BY DEF OrderInv, TablesKept, Limit
  <2>3. Through(tables[t].used, Entries + 1) = tables[t].used
    BY <2>1, BootAssumption DEF Through
  <2>4. {d \in DOMAIN devices : devices[d].disk = devices[at].disk /\ devices[d].partition > 0}
          = parts
    BY <2>1 DEF PartsOf
  <2>5. /\ {devices[d].partition : d \in parts} = tables[t].used
        /\ \A d, e \in parts : d < e => devices[d].partition < devices[e].partition
    BY <2>2, <2>3 DEF Kept
  <2>6. \A d \in parts :
          devices[d].name = devices[at].name \o
            <<dot, Cardinality({e \in tables[t].used : e < devices[d].partition})>>
    BY <2>2 DEF Kept, Through
  <2> HIDE DEF parts
  <2> QED
    BY <2>4, <2>5, <2>6
<1> QED
  BY <1>1, BootInvariance, OrderInvariance, PTL

\* Wherever the partitions of a disk lie, as long as its table keeps them
\* apart no two file systems share one of its sectors.
THEOREM NoSectorMountedTwice == Spec => []MountsApart
<1>1. Inv /\ OrderInv => MountsApart
  <2> SUFFICES ASSUME Inv, OrderInv,
                      NEW m \in DOMAIN mounts, NEW n \in DOMAIN mounts, NEW t \in DOMAIN tables,
                      m # n,
                      devices[mounts[m].device].disk = devices[tables[t].at].disk,
                      devices[mounts[n].device].disk = devices[tables[t].at].disk,
                      EntriesApart(tables[t])
               PROVE  Area(devices[mounts[m].device], tables[t])
                        \cap Area(devices[mounts[n].device], tables[t]) = {}
    BY DEF MountsApart
  <2> DEFINE at == tables[t].at
             c == mounts[m].device
             d == mounts[n].device
             table == tables[t]
  <2>1. /\ mounts \in Seq(MountType) /\ devices \in Seq(DeviceType)
        /\ MountsInOrder /\ Layout /\ TablesRead /\ Offsets /\ TablesKept /\ Beginning
        /\ pc \in {"usb", "floppy", "partitions", "entries", "filesystems", "shell", "loopback"}
    BY DEF Inv, TypeOK, OrderInv
  <2>2. at \in DOMAIN devices /\ devices[at].disk = at /\ table \in TableType
    BY TablesKnown
  <2>3. c \in DOMAIN devices /\ d \in DOMAIN devices /\ ~Raw(c) /\ ~Raw(d)
        /\ (c < d \/ d < c)
    <3>1. m < n \/ n < m
      BY <2>1
    <3> QED
      BY <2>1, <3>1 DEF MountsInOrder
  <2>4. IsPartition(c) /\ IsPartition(d)
    BY <2>1, <2>2, <2>3 DEF Layout
  <2>5. \A u \in DOMAIN tables : tables[u].at = at => u = t
    <3> SUFFICES ASSUME NEW u \in DOMAIN tables, tables[u].at = at, u # t PROVE FALSE
      OBVIOUS
    <3>1. u < t \/ t < u
      BY DEF Inv, TypeOK
    <3>2. at < at
      BY <2>1, <3>1 DEF TablesRead
    <3> QED
      BY <2>1, <2>2, <3>2
  <2>6. /\ devices[c].partition \in table.used /\ devices[d].partition \in table.used
        /\ devices[c].offset = table.extent[devices[c].partition].start
        /\ devices[d].offset = table.extent[devices[d].partition].start
    BY <2>1, <2>2, <2>3, <2>4, <2>5 DEF Offsets
  <2>7. devices[c].partition # devices[d].partition
    <3>1. mounts # <<>>
      BY <2>1
    <3>2. pc # "entries"
      BY <2>1, <3>1 DEF Beginning
    <3>3. Kept(devices, table, Entries + 1)
      BY <2>1, <3>2 DEF TablesKept, Limit
    <3>4. c \in PartsOf(devices, at) /\ d \in PartsOf(devices, at)
      BY <2>2, <2>3, <2>4 DEF PartsOf, IsPartition
    <3>5. \/ devices[c].partition < devices[d].partition
          \/ devices[d].partition < devices[c].partition
      BY <2>3, <3>3, <3>4 DEF Kept
    <3>6. devices[c].partition \in Nat /\ devices[d].partition \in Nat
      BY <2>2, <2>6, TableParts
    <3> QED
      BY <3>5, <3>6
  <2> QED
    BY <2>4, <2>6, <2>7 DEF EntriesApart, Area, IsPartition
<1> QED
  BY <1>1, BootInvariance, OrderInvariance, PTL

\* A floppy drive that registers is mounted before anything else, so the
\* shell starts in it.
THEOREM FloppyStartsTheSystem == Spec => []StartsFromFloppy
<1>1. OrderInv => StartsFromFloppy
  BY DEF OrderInv
<1> QED
  BY <1>1, OrderInvariance, PTL
=============================================================================
