---------------------------- MODULE BlockRegistry ----------------------------
(***************************************************************************)
(* The tables of named things: block devices (drivers/block/blockdev.c)    *)
(* and mounted file systems (mount_fs and friends in drivers/fs/fs.c).     *)
(*                                                                         *)
(* A name is a sequence: the prefix the caller gives and the number the    *)
(* table adds, which the code writes as the single character '0' + number. *)
(* The disk "usb0" is <<"usb", 0>>, its partition "usb0.1" is              *)
(* <<"usb", 0, ".", 1>>.                                                   *)
(***************************************************************************)
EXTENDS Naturals, Sequences, FiniteSets

CONSTANTS MAX_BLOCK_DEVICES, MAX_MOUNTPOINTS

ASSUME RegistryAssumption == /\ MAX_BLOCK_DEVICES \in Nat
                             /\ MAX_MOUNTPOINTS \in Nat

VARIABLES devices,   \* block_devices[0 .. block_devices_count-1]
          mounts,    \* fs_mounts[0 .. fs_mounts_count-1]
          overflow   \* a table was written past its end: undefined from here

registryVars == <<devices, mounts, overflow>>

RegistryInit == /\ devices = <<>>
                /\ mounts = <<>>
                /\ overflow = FALSE

\* strcmp_wl(name, prefix, strlen(prefix)) > 0.
HasPrefix(name, prefix) ==
  /\ Len(prefix) <= Len(name)
  /\ \A k \in 1..Len(prefix) : name[k] = prefix[k]

\* Fault: the entries without that prefix are counted.
NextIndexOfOthers(prefix, devs) ==
  Cardinality({i \in DOMAIN devs : ~HasPrefix(devs[i].name, prefix)})

\* get_next_index_for_block_dev_type: the entries with that prefix.
NextIndex(prefix, devs) ==
  Cardinality({i \in DOMAIN devs : HasPrefix(devs[i].name, prefix)})

\* register_block_device(dev, prefix).  The entry is written before any limit
\* is looked at, and the limit is on the number of that prefix, not on the
\* number of entries.
RegisterBlockDevice(dev, prefix) ==
  LET index == NextIndex(prefix, devices)
  IN /\ overflow' = (Len(devices) >= MAX_BLOCK_DEVICES)
     /\ devices' = IF index >= MAX_BLOCK_DEVICES THEN devices
                   ELSE Append(devices,
                       [name |-> Append(prefix, index), prefix |-> prefix, index |-> index,
                        type |-> dev.type, disk |-> dev.disk, partition |-> dev.partition,
                        offset |-> dev.offset])
     /\ UNCHANGED mounts

\* get_next_index_for_mount_type compares the entry being written, which
\* always has the prefix, so it counts all the mounts.
NextMountIndex(prefix) == Len(mounts)

\* mount_fs(fs, prefix), also written before the limit is looked at.
MountFs(fs, prefix) ==
  LET index == NextMountIndex(prefix)
  IN /\ overflow' = (Len(mounts) >= MAX_MOUNTPOINTS)
     /\ mounts' = IF index >= MAX_MOUNTPOINTS THEN mounts
                  ELSE Append(mounts, [mountPoint |-> <<prefix, index>>, device |-> fs.device,
                                       initialised |-> fs.initialised])
     /\ UNCHANGED devices

-----------------------------------------------------------------------------
(* Properties of the tables *)

\* "required to make a unique device name" (blockdev.c:60): no two entries
\* of /dev have the same name, so a path names at most one device, whatever
\* the order in which disks and partitions are registered.
NamesUnique == \A i, j \in DOMAIN devices : devices[i].name = devices[j].name => i = j
=============================================================================
