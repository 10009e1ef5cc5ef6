------------------------------ MODULE FatTable ------------------------------
(***************************************************************************)
(* The file allocation table of a FAT volume as drivers/fs/fat12.c reads   *)
(* it: entries of 12, 16 or 32 bits in a table of bytes, the marks that    *)
(* end a chain, and where a volume keeps what.                             *)
(***************************************************************************)
EXTENDS Integers

CONSTANTS BYTES_PER_SECTOR,        \* 512
          DIR_ENTRIES_PER_SECTOR   \* 16

ASSUME FatTableAssumption == /\ BYTES_PER_SECTOR \in Nat \ {0}
                             /\ DIR_ENTRIES_PER_SECTOR \in Nat \ {0}

Byte == 0..255
FatTypes == {"FAT12", "FAT16", "FAT32"}

\* The entries that a table of a type can hold; 28 bits of 32 are used.
Entries12 == 0..4095
Entries16 == {e \in Nat : e < 65536}
Entries32 == {e \in Nat : e < 268435456}
Entries(type) == CASE type = "FAT12" -> Entries12
                   [] type = "FAT16" -> Entries16
                   [] type = "FAT32" -> Entries32

-----------------------------------------------------------------------------
(* A table on disk, from the definition of the format *)

EntryOf(table, c) == IF c \in DOMAIN table THEN table[c] ELSE 0

\* Two entries of 12 bits share three bytes.
Byte12(even, odd, i) == CASE i = 0 -> even % 256
                          [] i = 1 -> even \div 256 + 16 * (odd % 16)
                          [] i = 2 -> odd \div 16

\* The i-th byte of a table of a type.
TableByte(type, table, i) ==
  CASE type = "FAT12" -> Byte12(EntryOf(table, 2 * (i \div 3)),
                                EntryOf(table, 2 * (i \div 3) + 1), i % 3)
    [] type = "FAT16" -> IF i % 2 = 0 THEN EntryOf(table, i \div 2) % 256
                                      ELSE EntryOf(table, i \div 2) \div 256
    [] type = "FAT32" ->
         LET entry == EntryOf(table, i \div 4)
         IN CASE i % 4 = 0 -> entry % 256
              [] i % 4 = 1 -> (entry \div 256) % 256
              [] i % 4 = 2 -> (entry \div 65536) % 256
              [] i % 4 = 3 -> entry \div 16777216

-----------------------------------------------------------------------------
(* The table in memory *)

\* Fault: odd entries are taken apart as even ones are.
DecodeAsEven(type, fat, c) ==
  LET first == 3 * (c \div 2) + (c % 2)
  IN CASE type = "FAT12" -> (fat[first + 1] % 16) * 256 + fat[first]
       [] type = "FAT16" -> fat[2 * c] + 256 * fat[2 * c + 1]
       [] type = "FAT32" -> fat[4 * c] + 256 * fat[4 * c + 1] + 65536 * fat[4 * c + 2]
                            + 16777216 * fat[4 * c + 3]

\* fat12_decode_fat_entry; bits that are shifted out are divided out here.
Decode(type, fat, c) ==
  LET offset == 3 * (c \div 2)
  IN CASE type = "FAT12" /\ c % 2 = 0 -> (fat[offset + 1] % 16) * 256 + fat[offset]
       [] type = "FAT12" /\ c % 2 = 1 -> fat[offset + 2] * 16 + fat[offset + 1] \div 16
       [] type = "FAT16" -> fat[2 * c] + 256 * fat[2 * c + 1]
       [] type = "FAT32" -> fat[4 * c] + 256 * fat[4 * c + 1] + 65536 * fat[4 * c + 2]
                            + 16777216 * fat[4 * c + 3]

\* calculate_next_cluster of the boot loader: the word at one and a half times
\* the cluster, of a table of 12 bits.
LoaderNext(fat, c) ==
  LET word == fat[(3 * c) \div 2] + 256 * fat[(3 * c) \div 2 + 1]
  IN IF c % 2 = 0 THEN word % 4096 ELSE word \div 16

\* The last byte that decoding the entry looks at.
LastByte(type, c) == CASE type = "FAT12" -> 3 * (c \div 2) + 1 + (c % 2)
                       [] type = "FAT16" -> 2 * c + 1
                       [] type = "FAT32" -> 4 * c + 3

\* cluster_is_end_of_chain.
EndOfChain(type, entry) == CASE type = "FAT12" -> entry >= 4088
                             [] type = "FAT16" -> entry >= 65528
                             [] type = "FAT32" -> entry % 268435456 >= 268435448

-----------------------------------------------------------------------------
(* Where a volume keeps what: geo is what its first sector says *)

RootAreaStart(geo) == geo.reserved + geo.sectorsPerFat * geo.fats

\* Directory sectors in front of the data; the division rounds down.
SectorsPerDir(geo) == geo.rootEntries \div DIR_ENTRIES_PER_SECTOR

\* first_data_sector.
FirstDataSector(geo) == RootAreaStart(geo) + SectorsPerDir(geo)

\* The first sector of a cluster; a negative one is 32 bits wide in the
\* driver and past the end of any disk.
SectorOf(geo, cluster) == (cluster - 2) * geo.sectorsPerCluster + FirstDataSector(geo)
=============================================================================
