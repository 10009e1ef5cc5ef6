------------------------------- MODULE MCFat -------------------------------
(* A volume of each type with three clusters, one more with clusters of two  *)
(* sectors, and a disk without a file system.  A directory sector has two    *)
(* entries, so that three and four names fill the first and start the next.  *)
EXTENDS Fat

Geo(type, per, rootEntries, sectors) ==
  [type |-> type, sectorsPerCluster |-> per, reserved |-> 1, fats |-> 2,
   sectorsPerFat |-> 1, rootEntries |-> rootEntries, rootStart |-> 2, sectors |-> sectors]

MCGeometries == {Geo("FAT12", 1, 4, 8), Geo("FAT16", 1, 4, 8), Geo("FAT12", 2, 4, 11),
                 Geo("FAT32", 1, 0, 6), Geo("FAT32", 2, 0, 9), Geo("other", 1, 4, 8)}

MCLeftovers == {Geo("FAT16", 1, 4, 8), Geo("other", 1, 4, 8)}

\* Entries 0 and 1 are the mark of the medium and an end.
MCTable(medium, end, values) ==
  {[c \in 0..4 |-> CASE c = 0 -> medium [] c = 1 -> end [] OTHER -> v[c]] :
     v \in [2..4 -> values]}

MCTables == [FAT12 |-> MCTable(4080, 4095, {0, 3, 4, 4087, 4088}),
             FAT16 |-> MCTable(65528, 65535, {0, 3, 4, 65528}),
             FAT32 |-> MCTable(268435448, 268435455, {0, 3, 4, 268435455}),
             other |-> MCTable(0, 0, {0})]

\* autoexec has eight letters, empty no cluster.
MCFirst == [shell |-> 3, autoexec |-> 4, empty |-> 0, notes |-> 2]
MCRoots == {<<>>, <<"autoexec", "shell">>, <<"empty", "notes", "shell">>,
            <<"notes", "shell", "empty", "autoexec">>}
MCEightLetters == {"autoexec"}
MCOdd == {0, 3, 4095}

\* A shell of another volume, a file of this one, and no entry at all.
MCRemains == {[name |-> "shell", exact |-> TRUE, first |-> 2],
              [name |-> "notes", exact |-> TRUE, first |-> 2],
              [name |-> "none", exact |-> TRUE, first |-> 65535]}
=============================================================================
