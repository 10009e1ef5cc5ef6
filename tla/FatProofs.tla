------------------------------ MODULE FatProofs ------------------------------
(***************************************************************************)
(* Proofs about the FAT driver, for every volume, directory and failure of *)
(* the device: the table in memory is decoded to the entries that were     *)
(* written, and a file read without a failure is the chain of the disk.    *)
(***************************************************************************)
EXTENDS Fat, FiniteSetTheorems, SequenceTheorems, TLAPS

\* What Decode makes of the bytes of an entry, or of two.
Even12(even, odd) == (Byte12(even, odd, 1) % 16) * 256 + Byte12(even, odd, 0)
Odd12(even, odd) == Byte12(even, odd, 2) * 16 + Byte12(even, odd, 1) \div 16
Joined16(e) == (e % 256) + 256 * (e \div 256)
Joined32(e) == (e % 256) + 256 * ((e \div 256) % 256) + 65536 * ((e \div 65536) % 256)
               + 16777216 * (e \div 16777216)

LEMMA Entries16Are == 0 \in Entries16 /\ \A e \in Entries16 : e \in Nat /\ e < 65536
BY SMT DEF Entries16

\* Two entries of 12 bits that share three bytes come out of them again:
\* the arithmetic of fat12_decode_fat_entry for even and for odd clusters.
LEMMA Unpacked12 ==
  ASSUME NEW even \in Entries12, NEW odd \in Entries12
  PROVE  Even12(even, odd) = even /\ Odd12(even, odd) = odd
<1>0. even \in 0..4095 /\ odd \in 0..4095
  BY DEF Entries12
<1>1. /\ Byte12(even, odd, 0) = even % 256
      /\ Byte12(even, odd, 1) = even \div 256 + 16 * (odd % 16)
      /\ Byte12(even, odd, 2) = odd \div 16
  BY DEF Byte12
<1>2. /\ even \div 256 \in 0..15
      /\ odd % 16 \in 0..15
      /\ odd \div 16 \in 0..255
  <2>1. even \div 256 \in 0..15
    BY <1>0
  <2>2. odd % 16 \in 0..15
    BY <1>0
  <2>3. odd \div 16 \in 0..255
    BY <1>0
  <2> QED
    BY <2>1, <2>2, <2>3
<1>3. (even \div 256 + 16 * (odd % 16)) % 16 = even \div 256
  BY <1>2
<1>4. (even \div 256 + 16 * (odd % 16)) \div 16 = odd % 16
  BY <1>2
<1>5. even = (even \div 256) * 256 + (even % 256)
  BY <1>0
<1>6. odd = (odd \div 16) * 16 + (odd % 16)
  BY <1>0
<1> QED
  BY <1>1, <1>3, <1>4, <1>5, <1>6 DEF Even12, Odd12

LEMMA Unpacked16 ==
  ASSUME NEW e \in Entries16
  PROVE  Joined16(e) = e
<1>1. e \in Nat
  BY Entries16Are
<1> QED
  BY SMT, <1>1 DEF Joined16

LEMMA Unpacked32 ==
  ASSUME NEW e \in Entries32
  PROVE  Joined32(e) = e
<1>1. e \in Nat
  BY SMT DEF Entries32
<1> QED
  BY SMT, <1>1 DEF Joined32

\* The bytes that belong to one number, and the number that a byte belongs to.
LEMMA Places ==
  ASSUME NEW n \in Nat
  PROVE  /\ (3 * n) \div 3 = n /\ (3 * n) % 3 = 0
         /\ (3 * n + 1) \div 3 = n /\ (3 * n + 1) % 3 = 1
         /\ (3 * n + 2) \div 3 = n /\ (3 * n + 2) % 3 = 2
         /\ (2 * n) \div 2 = n /\ (2 * n) % 2 = 0
         /\ (2 * n + 1) \div 2 = n /\ (2 * n + 1) % 2 = 1
         /\ (4 * n) \div 4 = n /\ (4 * n) % 4 = 0
         /\ (4 * n + 1) \div 4 = n /\ (4 * n + 1) % 4 = 1
         /\ (4 * n + 2) \div 4 = n /\ (4 * n + 2) % 4 = 2
         /\ (4 * n + 3) \div 4 = n /\ (4 * n + 3) % 4 = 3
<1>1. (3 * n) \div 3 = n /\ (3 * n) % 3 = 0
  OBVIOUS
<1>2. (3 * n + 1) \div 3 = n /\ (3 * n + 1) % 3 = 1
  OBVIOUS
<1>3. (3 * n + 2) \div 3 = n /\ (3 * n + 2) % 3 = 2
  OBVIOUS
<1>4. (2 * n) \div 2 = n /\ (2 * n) % 2 = 0
  OBVIOUS
<1>5. (2 * n + 1) \div 2 = n /\ (2 * n + 1) % 2 = 1
  OBVIOUS
<1>6. (4 * n) \div 4 = n /\ (4 * n) % 4 = 0
  OBVIOUS
<1>7. (4 * n + 1) \div 4 = n /\ (4 * n + 1) % 4 = 1
  OBVIOUS
<1>8. (4 * n + 2) \div 4 = n /\ (4 * n + 2) % 4 = 2
  OBVIOUS
<1>9. (4 * n + 3) \div 4 = n /\ (4 * n + 3) % 4 = 3
  OBVIOUS
<1> QED
  BY <1>1, <1>2, <1>3, <1>4, <1>5, <1>6, <1>7, <1>8, <1>9

\* Where a table of bytes holds what the format says, every entry is decoded
\* to itself: that of an even cluster and that of an odd one, of each width.
THEOREM DecodeRight ==
  ASSUME NEW type \in FatTypes, NEW table, NEW c \in DOMAIN table, NEW bytes,
         DOMAIN table \subseteq Nat, \A e \in DOMAIN table : table[e] \in Entries(type),
         \A b \in 0..LastByte(type, c) : bytes[b] = TableByte(type, table, b)
  PROVE  Decode(type, bytes, c) = table[c]
<1>1. c \in Nat /\ EntryOf(table, c) = table[c]
  BY DEF EntryOf
<1>2. CASE type = "FAT12"
  <2>1. PICK n \in Nat : c = 2 * n \/ c = 2 * n + 1
    <3>1. c \div 2 \in Nat /\ (c = 2 * (c \div 2) \/ c = 2 * (c \div 2) + 1)
      BY <1>1
    <3> QED
      BY <3>1
  <2> DEFINE even == EntryOf(table, 2 * n)
             odd == EntryOf(table, 2 * n + 1)
  <2>2. \A v \in Entries(type) : v \in Entries12
    BY <1>2 DEF Entries
  <2>3. even \in Entries12 /\ odd \in Entries12
    <3>1. \A e \in DOMAIN table : table[e] \in Entries12
      BY <2>2
    <3>2. 0 \in Entries12
      BY DEF Entries12
    <3> QED
      BY <3>1, <3>2 DEF EntryOf
  <2>4. \A b \in 0..LastByte(type, c) :
          bytes[b] = Byte12(EntryOf(table, 2 * (b \div 3)), EntryOf(table, 2 * (b \div 3) + 1), b % 3)
    BY <1>2 DEF TableByte
  <2>5. c \div 2 = n /\ LastByte(type, c) = 3 * n + 1 + (c % 2)
    <3>1. c \div 2 = n
      BY <2>1, Places
    <3> QED
      BY <1>2, <3>1 DEF LastByte
  <2>6. CASE c = 2 * n
    <3>1. c % 2 = 0
      BY <2>6, Places
    <3>2. 3 * n \in 0..LastByte(type, c) /\ 3 * n + 1 \in 0..LastByte(type, c)
      BY <2>5, <3>1
    <3>3. bytes[3 * n] = Byte12(even, odd, 0) /\ bytes[3 * n + 1] = Byte12(even, odd, 1)
      BY <2>4, <3>2, Places
    <3>4. Decode(type, bytes, c) = (bytes[3 * n + 1] % 16) * 256 + bytes[3 * n]
      BY <1>2, <2>5, <3>1 DEF Decode
    <3>5. even = table[c]
      BY <1>1, <2>6
    <3> HIDE DEF even, odd
    <3>6. Decode(type, bytes, c) = Even12(even, odd)
      BY Zenon, <3>3, <3>4 DEF Even12
    <3>7. Even12(even, odd) = even
      BY Zenon, <2>3, Unpacked12
    <3> QED
      BY Zenon, <3>5, <3>6, <3>7
  <2>7. CASE c = 2 * n + 1
    <3>1. c % 2 = 1
      BY <2>7, Places
    <3>2. 3 * n + 1 \in 0..LastByte(type, c) /\ 3 * n + 2 \in 0..LastByte(type, c)
      BY <2>5, <3>1
    <3>3. bytes[3 * n + 1] = Byte12(even, odd, 1) /\ bytes[3 * n + 2] = Byte12(even, odd, 2)
      BY <2>4, <3>2, Places
    <3>4. Decode(type, bytes, c) = bytes[3 * n + 2] * 16 + bytes[3 * n + 1] \div 16
      BY <1>2, <2>5, <3>1 DEF Decode
    <3>5. odd = table[c]
      BY <1>1, <2>7
    <3> HIDE DEF even, odd
    <3>6. Decode(type, bytes, c) = Odd12(even, odd)
      BY Zenon, <3>3, <3>4 DEF Odd12
    <3>7. Odd12(even, odd) = odd
      BY Zenon, <2>3, Unpacked12
    <3> QED
      BY Zenon, <3>5, <3>6, <3>7
  <2> QED
    BY <2>1, <2>6, <2>7
<1>3. CASE type = "FAT16"
  <2>1. table[c] \in Entries16
    BY <1>3 DEF Entries
  <2>2. LastByte(type, c) = 2 * c + 1
    BY <1>3 DEF LastByte
  <2>3. 2 * c \in 0..LastByte(type, c) /\ 2 * c + 1 \in 0..LastByte(type, c)
    BY <1>1, <2>2
  <2>4. /\ bytes[2 * c] = TableByte(type, table, 2 * c)
        /\ bytes[2 * c + 1] = TableByte(type, table, 2 * c + 1)
    BY <2>3
  <2>5. bytes[2 * c] = table[c] % 256 /\ bytes[2 * c + 1] = table[c] \div 256
    BY <1>1, <1>3, <2>4, Places DEF TableByte
  <2>6. Decode(type, bytes, c) = bytes[2 * c] + 256 * bytes[2 * c + 1]
    BY <1>3 DEF Decode
  <2>7. Decode(type, bytes, c) = Joined16(table[c])
    BY Zenon, <2>5, <2>6 DEF Joined16
  <2> QED
    BY Zenon, <2>1, <2>7, Unpacked16
<1>4. CASE type = "FAT32"
  <2>1. table[c] \in Entries32
    BY <1>4 DEF Entries
  <2>2. LastByte(type, c) = 4 * c + 3
    BY <1>4 DEF LastByte
  <2>3. /\ bytes[4 * c] = table[c] % 256
        /\ bytes[4 * c + 1] = (table[c] \div 256) % 256
        /\ bytes[4 * c + 2] = (table[c] \div 65536) % 256
        /\ bytes[4 * c + 3] = table[c] \div 16777216
    <3>1. /\ bytes[4 * c] = TableByte(type, table, 4 * c)
          /\ bytes[4 * c + 1] = TableByte(type, table, 4 * c + 1)
          /\ bytes[4 * c + 2] = TableByte(type, table, 4 * c + 2)
          /\ bytes[4 * c + 3] = TableByte(type, table, 4 * c + 3)
      BY <1>1, <2>2
    <3>2. TableByte(type, table, 4 * c) = table[c] % 256
      BY SMT, <1>1, <1>4, Places DEF TableByte
    <3>3. TableByte(type, table, 4 * c + 1) = (table[c] \div 256) % 256
      BY SMT, <1>1, <1>4, Places DEF TableByte
    <3>4. TableByte(type, table, 4 * c + 2) = (table[c] \div 65536) % 256
      BY SMT, <1>1, <1>4, Places DEF TableByte
    <3>5. TableByte(type, table, 4 * c + 3) = table[c] \div 16777216
      BY SMT, <1>1, <1>4, Places DEF TableByte
    <3> QED
      BY SMT, <3>1, <3>2, <3>3, <3>4, <3>5
  <2>4. Decode(type, bytes, c) = bytes[4 * c] + 256 * bytes[4 * c + 1]
                                 + 65536 * bytes[4 * c + 2] + 16777216 * bytes[4 * c + 3]
    BY SMT, <1>4 DEF Decode
  <2>5. Decode(type, bytes, c) = Joined32(table[c])
    BY SMT, <2>3, <2>4 DEF Joined32
  <2> QED
    BY <2>1, <2>5, Unpacked32
<1> QED
  BY <1>2, <1>3, <1>4 DEF FatTypes

\* A byte of a table of 12 bits fits a byte.
LEMMA Bytes12 ==
  ASSUME NEW even \in Entries12, NEW odd \in Entries12
  PROVE  \A k \in 0..2 : Byte12(even, odd, k) \in 0..255
<1>1. /\ even % 256 \in 0..255
      /\ even \div 256 + 16 * (odd % 16) \in 0..255
      /\ odd \div 16 \in 0..255
  <2>1. even \in Int /\ 0 <= even /\ even < 4096 /\ odd \in Int /\ 0 <= odd /\ odd < 4096
    BY DEF Entries12
  <2>2. even \div 256 \in Int /\ 0 <= even \div 256 /\ even \div 256 < 16
    BY <2>1
  <2>3. odd % 16 \in Int /\ 0 <= odd % 16 /\ odd % 16 < 16
    BY <2>1
  <2>4. odd \div 16 \in 0..255
    BY <2>1
  <2>5. even \div 256 + 16 * (odd % 16) \in 0..255
    BY <2>2, <2>3
  <2> QED
    BY <2>1, <2>4, <2>5
<1>2. \A k \in 0..2 : k = 0 \/ k = 1 \/ k = 2
  OBVIOUS
<1> QED
  BY <1>1, <1>2 DEF Byte12

\* The boot loader, which takes the word apart, and the driver, which takes
\* the bytes apart, follow the same chain: wherever the table of a floppy is
\* in memory both read each entry as it was written.
THEOREM LoaderDecodeRight ==
  ASSUME NEW table, NEW c \in DOMAIN table, NEW bytes,
         DOMAIN table \subseteq Nat, \A e \in DOMAIN table : table[e] \in Entries12,
         \A b \in 0..LastByte("FAT12", c) : bytes[b] = TableByte("FAT12", table, b)
  PROVE  /\ LoaderNext(bytes, c) = Decode("FAT12", bytes, c)
         /\ LoaderNext(bytes, c) = table[c]
<1>1. Decode("FAT12", bytes, c) = table[c]
  <2>1. "FAT12" \in FatTypes /\ \A e \in DOMAIN table : table[e] \in Entries("FAT12")
    BY DEF FatTypes, Entries
  <2> QED
    BY <2>1, DecodeRight
<1>2. PICK n \in Nat : c = 2 * n \/ c = 2 * n + 1
  <2>1. c \in Nat
    OBVIOUS
  <2>2. c \div 2 \in Nat /\ (c = 2 * (c \div 2) \/ c = 2 * (c \div 2) + 1)
    BY <2>1
  <2> QED
    BY <2>2
<1>3. LastByte("FAT12", c) = 3 * n + 1 + (c % 2)
  BY <1>2, Places DEF LastByte
<1> DEFINE even == EntryOf(table, 2 * n)
           odd == EntryOf(table, 2 * n + 1)
<1>4. even \in Entries12 /\ odd \in Entries12
  <2>1. 0 \in Entries12
    BY DEF Entries12
  <2> QED
    BY <2>1 DEF EntryOf
<1>5. \A b \in 0..LastByte("FAT12", c) :
        bytes[b] = Byte12(EntryOf(table, 2 * (b \div 3)), EntryOf(table, 2 * (b \div 3) + 1), b % 3)
  BY DEF TableByte
<1>6. CASE c = 2 * n
  <2>1. c % 2 = 0 /\ c \div 2 = n /\ (3 * c) \div 2 = 3 * n
    BY <1>6, Places
  <2>2. 3 * n \in 0..LastByte("FAT12", c) /\ 3 * n + 1 \in 0..LastByte("FAT12", c)
    BY <1>3, <2>1
  <2>3. bytes[3 * n] = Byte12(even, odd, 0) /\ bytes[3 * n + 1] = Byte12(even, odd, 1)
    BY <1>5, <2>2, Places
  <2> HIDE DEF even, odd
  <2> DEFINE low == bytes[3 * n]
             high == bytes[3 * n + 1]
  <2>4. low \in 0..255 /\ high \in 0..255
    BY <1>4, <2>3, Bytes12
  <2>5. LoaderNext(bytes, c) = (low + 256 * high) % 4096
    BY <2>1 DEF LoaderNext
  <2>6. Decode("FAT12", bytes, c) = (high % 16) * 256 + low
    BY <2>1 DEF Decode
  <2> HIDE DEF low, high
  <2>7. (low + 256 * high) % 4096 = (high % 16) * 256 + low
    BY <2>4
  <2>8. LoaderNext(bytes, c) = Decode("FAT12", bytes, c)
    BY <2>5, <2>6, <2>7
  <2> QED
    BY <1>1, <2>8
<1>7. CASE c = 2 * n + 1
  <2>1. c % 2 = 1 /\ c \div 2 = n /\ (3 * c) \div 2 = 3 * n + 1
    BY <1>7, Places
  <2>2. 3 * n + 1 \in 0..LastByte("FAT12", c) /\ 3 * n + 2 \in 0..LastByte("FAT12", c)
    BY <1>3, <2>1
  <2>3. bytes[3 * n + 1] = Byte12(even, odd, 1) /\ bytes[3 * n + 2] = Byte12(even, odd, 2)
    BY <1>5, <2>2, Places
  <2> HIDE DEF even, odd
  <2>4. bytes[3 * n + 1] \in 0..255 /\ bytes[3 * n + 2] \in 0..255
    BY <1>4, <2>3, Bytes12
  <2>5. LoaderNext(bytes, c) = (bytes[3 * n + 1] + 256 * bytes[3 * n + 2]) \div 16
    BY <2>1 DEF LoaderNext
  <2>6. Decode("FAT12", bytes, c) = bytes[3 * n + 2] * 16 + bytes[3 * n + 1] \div 16
    BY <2>1 DEF Decode
  <2>7. \A low, high \in 0..255 : (low + 256 * high) \div 16 = high * 16 + low \div 16
    OBVIOUS
  <2>8. LoaderNext(bytes, c) = Decode("FAT12", bytes, c)
    BY <2>4, <2>5, <2>6, <2>7, Zenon
  <2> QED
    BY <1>1, <2>8
<1> QED
  BY <1>2, <1>6, <1>7

-----------------------------------------------------------------------------
(* The table in memory *)

Mounted == {"idle", "root", "chain", "undefined"}

\* The table as the disk has it.
OnDisk(v) == [b \in 0..v.geo.sectorsPerFat * BYTES_PER_SECTOR - 1 |->
                TableByte(v.geo.type, v.table, b)]

\* A volume that is mounted as what it is has its table in memory.
TableInv == /\ volume.geo \in Geometries /\ volume.table \in Tables[volume.geo.type]
            /\ geo \in Geometries
            /\ pc \in Mounted \cup {"unmounted", "refused", "table"}
            /\ pc \in Mounted \cup {"table"} => geo.type \in FatTypes
            /\ pc \in Mounted /\ geo = volume.geo => fat = OnDisk(volume)

\* Actions of a mounted volume change neither the volume nor the table.
LEMMA KeepsMounted ==
  ASSUME pc \in Mounted, Next
  PROVE  UNCHANGED <<volume, geo, fat>> /\ pc' \in Mounted
<1>1. CASE List
  BY <1>1 DEF List, BeginListing, Mounted
<1>2. CASE Read
  BY <1>2 DEF Read, Mounted
<1>3. ASSUME NEW name \in Names, Open(name) PROVE UNCHANGED <<volume, geo, fat>> /\ pc' \in Mounted
  BY <1>3 DEF Open, BeginListing, Mounted
<1>4. ASSUME NEW entries, NEW n, Listed(entries, n) PROVE pc' \in Mounted
  BY <1>4 DEF Listed, Search, Mounted
<1>5. ASSUME ListingFails PROVE pc' \in Mounted
  BY <1>5 DEF ListingFails, Search, Mounted
<1>6. CASE RootSector
  BY <1>6 DEF RootSector, unchangedByRoot
<1>7. CASE RootSectorFails
  BY <1>5, <1>7 DEF RootSectorFails, unchangedByRoot
<1>8. CASE RootDone
  BY <1>4, <1>8 DEF RootDone, unchangedByRoot
<1>9. CASE ReadCluster
  <2>1. UNCHANGED <<volume, geo, fat>>
    BY <1>9 DEF ReadCluster, unchangedByChain
  <2>2. PICK next \in EntriesRead : Follow(next)
    BY <1>9 DEF ReadCluster
  <2>3. ASSUME DirectoryRead PROVE pc' \in Mounted
    BY <1>4, <2>3 DEF DirectoryRead, Mounted
  <2>4. ASSUME ChainEnds PROVE pc' \in Mounted
    BY <2>3, <2>4 DEF ChainEnds, Mounted
  <2>5. ASSUME ChainFails PROVE pc' \in Mounted
    BY <1>5, <2>5 DEF ChainFails, Mounted
  <2> QED
    BY <2>1, <2>2, <2>4, <2>5 DEF Follow
<1>10. CASE StackOverrun
  BY <1>10 DEF StackOverrun, unchangedByChain, Mounted
<1>11. ~MountParameters /\ ~MountTable
  BY DEF MountParameters, MountTable, Mounted
<1> QED
  BY <1>1, <1>2, <1>3, <1>6, <1>7, <1>8, <1>9, <1>10, <1>11 DEF Next, Step

LEMMA InitTable == Init => TableInv
<1> SUFFICES ASSUME Init PROVE TableInv
  OBVIOUS
<1>1. PICK g \in Geometries :
        /\ \E root \in Roots, table \in Tables[g.type] :
             volume = [geo |-> g, table |-> table, root |-> root]
        /\ geo = g /\ pc = "unmounted"
  BY DEF Init
<1> QED
  BY <1>1 DEF TableInv, Mounted

LEMMA StepTable == TableInv /\ [Next]_vars => TableInv'
<1> SUFFICES ASSUME TableInv, [Next]_vars PROVE TableInv'
  OBVIOUS
<1>1. CASE MountParameters
  <2>1. PICK g \in {volume.geo} \cup Leftovers :
          /\ geo' = g
          /\ pc' = IF g.type = "other" \/ g.sectors = 0 THEN "refused" ELSE "table"
    BY <1>1 DEF MountParameters
  <2>2. g \in Geometries /\ g.type \in FatTypes \cup {"other"}
    BY FatAssumption DEF TableInv
  <2>3. volume' = volume
    BY <1>1 DEF MountParameters, unchangedByMount
  <2> QED
    BY <2>1, <2>2, <2>3 DEF TableInv, Mounted
<1>2. CASE MountTable
  <2>1. pc = "table" /\ volume' = volume /\ geo' = geo
    BY <1>2 DEF MountTable, unchangedByMount
  <2>2. CASE pc' = "refused"
    BY <2>1, <2>2 DEF TableInv, Mounted
  <2>3. CASE pc' = "idle" /\ geo = volume.geo
    <3>1. geo.type \in FatTypes
      BY <2>1 DEF TableInv, Mounted
    <3>2. fat' = [b \in 0..geo.sectorsPerFat * BYTES_PER_SECTOR - 1 |->
                    IF geo.reserved = volume.geo.reserved /\ volume.geo.type \in FatTypes
                      THEN TableByte(volume.geo.type, volume.table, b) ELSE 0]
      BY <1>2, <2>3 DEF MountTable
    <3>3. fat' = OnDisk(volume')
      BY <2>1, <2>3, <3>1, <3>2 DEF OnDisk
    <3> QED
      BY <2>1, <2>3, <3>1, <3>3 DEF TableInv, Mounted
  <2>4. CASE pc' = "idle" /\ geo # volume.geo
    BY <2>1, <2>4 DEF TableInv, Mounted
  <2> QED
    BY <1>2, <2>2, <2>3, <2>4 DEF MountTable
<1>3. CASE pc \in Mounted /\ Next
  <2>1. UNCHANGED <<volume, geo, fat>> /\ pc' \in Mounted
    BY <1>3, KeepsMounted
  <2> QED
    BY <1>3, <2>1 DEF TableInv, OnDisk
<1>4. CASE UNCHANGED vars
  BY <1>4 DEF TableInv, OnDisk, vars
<1>5. pc \notin Mounted /\ Next => MountParameters \/ MountTable
  BY DEF Next, Step, List, Read, Open, RootSector, RootSectorFails, RootDone, ReadCluster,
         StackOverrun, Mounted
<1> QED
  BY <1>1, <1>2, <1>3, <1>4, <1>5

\* A byte offset of the table is a number.
LEMMA LastByteType ==
  ASSUME NEW type \in FatTypes, NEW c \in Nat
  PROVE  LastByte(type, c) \in Nat
<1>1. CASE type = "FAT12"
  <2>1. c \div 2 \in Nat /\ c % 2 \in 0..1
    OBVIOUS
  <2> QED
    BY <1>1, <2>1 DEF LastByte
<1> QED
  BY <1>1 DEF LastByte, FatTypes

\* In memory every entry of the volume's table is what it is on disk.
LEMMA EntryInMemory ==
  ASSUME TableInv, pc \in Mounted, geo = volume.geo,
         NEW c \in DOMAIN volume.table, LastByte(geo.type, c) \in DOMAIN fat
  PROVE  Decode(geo.type, fat, c) = volume.table[c]
<1> DEFINE size == geo.sectorsPerFat * BYTES_PER_SECTOR
<1>1. geo.type \in FatTypes /\ geo \in Geometries /\ volume.table \in Tables[geo.type]
      /\ fat = OnDisk(volume)
  BY DEF TableInv
<1>2. /\ DOMAIN volume.table \subseteq Nat
      /\ \A e \in DOMAIN volume.table : volume.table[e] \in Entries(geo.type)
  BY <1>1, FormatAssumption
<1>3. size \in Int /\ LastByte(geo.type, c) \in Nat
  <2>1. geo.sectorsPerFat \in Nat /\ BYTES_PER_SECTOR \in Nat
    BY <1>1, FatAssumption, FatTableAssumption
  <2> QED
    BY <1>1, <1>2, <2>1, LastByteType
<1>4. DOMAIN fat = 0..size-1 /\ \A b \in 0..size-1 : fat[b] = TableByte(geo.type, volume.table, b)
  BY <1>1 DEF OnDisk
<1> HIDE DEF size
<1>5. \A b \in 0..LastByte(geo.type, c) : b \in 0..size-1
  BY <1>3, <1>4
<1>6. \A b \in 0..LastByte(geo.type, c) : fat[b] = TableByte(geo.type, volume.table, b)
  BY <1>4, <1>5
<1> QED
  BY <1>1, <1>2, <1>6, DecodeRight

\* However it is packed, the table of a volume that was mounted as what it is
\* is read back as it was written.
THEOREM TableReadBack == Spec => []TableRight
<1>1. TableInv => TableRight
  BY EntryInMemory DEF TableRight, Mounted
<1> QED
  BY <1>1, InitTable, StepTable, PTL DEF Spec

-----------------------------------------------------------------------------
(* The chain of a file *)

LEMMA DataSectorType ==
  ASSUME NEW g \in Geometries
  PROVE  FirstDataSector(g) \in Nat
<1>1. /\ g.reserved \in Nat /\ g.sectorsPerFat \in Nat /\ g.fats \in Nat /\ g.rootEntries \in Nat
      /\ DIR_ENTRIES_PER_SECTOR \in Nat \ {0}
  BY FatAssumption, FatTableAssumption
<1>2. g.sectorsPerFat * g.fats \in Nat
  BY <1>1
<1>3. g.rootEntries \div DIR_ENTRIES_PER_SECTOR \in Nat
  BY <1>1
<1> QED
  BY <1>1, <1>2, <1>3 DEF FirstDataSector, RootAreaStart, SectorsPerDir

\* What has to hold for a read to be right: nothing went wrong so far, and a
\* cluster is a sector.
Sound == geo = volume.geo /\ ~missed /\ geo.sectorsPerCluster = 1 /\ handle.first >= 2

\* The buffer holds the clusters up to the one to be read next.
ChainSoFar ==
  /\ DOMAIN buffer = 0..MaxClusters-1
  /\ cluster \in Nat /\ cluster >= 2
  /\ i = 0 => cluster = handle.first
  /\ i > 0 => buffer[0] = SectorOf(volume.geo, handle.first)
              /\ cluster = NextOnDisk(buffer[i-1])
  /\ \A k \in 0..i-2 : buffer[k+1] = SectorOf(volume.geo, NextOnDisk(buffer[k]))

\* Every entry that a lookup can return names a first cluster.
EntriesInv == /\ \A s \in Slots : list[s].first \in Nat
              /\ handle.first \in Nat
              /\ volume.root \in Seq(Names)
              /\ pc = "chain" => IsFiniteSet(DOMAIN buffer)

FileInv == /\ i \in Nat
           /\ pc \in {"root", "chain"} => result.status # "read"
           /\ pc \in {"unmounted", "table", "refused", "undefined"} => result.status # "read"
           /\ pc = "chain" /\ op = "read" /\ Sound => ChainSoFar
           /\ FileRight

Inv == TableInv /\ EntriesInv /\ FileInv

-----------------------------------------------------------------------------
(* Entries *)

LEMMA NamesInType ==
  ASSUME volume.root \in Seq(Names), volume.geo \in Geometries, NEW lba, NEW n \in Nat
  PROVE  NamesIn(lba, n) \in Seq(Names)
<1> DEFINE root == volume.root
           k == lba - RootLba(volume.geo, 0)
           first == k * DIR_ENTRIES_PER_SECTOR + 1
           last == (k + n) * DIR_ENTRIES_PER_SECTOR
           end == IF last < Len(root) THEN last ELSE Len(root)
<1>1. DIR_ENTRIES_PER_SECTOR \in Nat /\ Len(root) \in Nat
  BY FatTableAssumption
<1>2. CASE lba # Stale /\ k \in 0..RootSectors(volume)-1
  <2>1. RootSectors(volume) \in Nat
    <3>1. volume.geo.sectorsPerCluster \in Nat
      BY FatAssumption
    <3>2. SectorsPerDir(volume.geo) \in Nat
      <4>1. volume.geo.rootEntries \in Nat /\ DIR_ENTRIES_PER_SECTOR \in Nat \ {0}
        BY FatAssumption, FatTableAssumption
      <4> QED
        BY <4>1 DEF SectorsPerDir
    <3> QED
      BY <3>1, <3>2 DEF RootSectors
  <2> HIDE DEF k
  <2>2. k \in Nat
    BY <1>2, <2>1
  <2>3. k * DIR_ENTRIES_PER_SECTOR \in Nat /\ (k + n) * DIR_ENTRIES_PER_SECTOR \in Nat
    <3>1. k + n \in Nat
      BY <2>2
    <3> QED
      BY <1>1, <2>2, <3>1
  <2>4. first \in Nat /\ first >= 1 /\ end \in Nat /\ end <= Len(root)
    BY <1>1, <2>3
  <2> HIDE DEF first, end
  <2>5. \A j \in first..end : root[j] \in Names
    BY <1>1, <2>4
  <2>6. SubSeq(root, first, end) \in Seq(Names)
    BY <2>4, <2>5, SubSeqProperties
  <2> QED
    BY <1>2, <2>6 DEF NamesIn, k, first, end
<1>3. CASE ~(lba # Stale /\ k \in 0..RootSectors(volume)-1)
  <2>1. NamesIn(lba, n) = <<>>
    BY <1>3 DEF NamesIn
  <2> QED
    BY <2>1
<1> QED
  BY <1>2, <1>3

LEMMA ParsedType ==
  ASSUME NEW names \in Seq(Names), NEW entries, \A s \in Slots : entries[s].first \in Nat,
         NEW s \in Slots
  PROVE  Parsed(names, entries)[s].first \in Nat
<1>1. s \in Nat
  BY FatTableAssumption DEF Slots
<1>2. CASE s < Len(names)
  <2>1. s + 1 \in 1..Len(names)
    BY <1>1, <1>2
  <2>2. names[s + 1] \in Names
    BY <2>1
  <2>3. Copied(names[s + 1]).first \in Nat
    BY <2>2, FatAssumption DEF Copied, Names
  <2> QED
    BY <1>2, <2>3 DEF Parsed
<1>3. CASE ~(s < Len(names))
  BY <1>3 DEF Parsed
<1> QED
  BY <1>2, <1>3

LEMMA SearchType ==
  ASSUME NEW entries, NEW n, \A s \in Slots : entries[s].first \in Nat,
         handle.first \in Nat, Search(entries, n)
  PROVE  handle'.first \in Nat /\ pc' # "chain" /\ result'.status # "read"
<1>1. handle'.first \in Nat
  <2>1. handle' = handle \/ \E s \in Slots : handle' = entries[s]
    BY DEF Search
  <2> QED
    BY <2>1
<1>2. pc' # "chain"
  BY DEF Search
<1>3. result'.status # "read"
  BY DEF Search
<1> QED
  BY <1>1, <1>2, <1>3

LEMMA ListedType ==
  ASSUME NEW entries, NEW n, \A s \in Slots : entries[s].first \in Nat,
         handle.first \in Nat, Listed(entries, n)
  PROVE  handle'.first \in Nat /\ pc' # "chain" /\ result'.status # "read"
BY SearchType DEF Listed

\* What find_file searches after a failure: what the listing wrote, and what
\* was there before.
Mixed(held) == [s \in Slots |-> IF list[s] = NoEntry THEN held[s] ELSE list[s]]

LEMMA ListingFailsType ==
  ASSUME \A s \in Slots : list[s].first \in Nat, handle.first \in Nat, ListingFails
  PROVE  handle'.first \in Nat /\ pc' # "chain" /\ result'.status # "read"
<1>1. CASE op = "open"
  <2>1. PICK held \in [Slots -> {NoEntry} \cup Remains], n \in 0..DIR_ENTRIES_PER_SECTOR + 1 :
          Search(Mixed(held), n)
    BY <1>1 DEF ListingFails, Mixed
  <2>2. \A entry \in {NoEntry} \cup Remains : entry.first \in Nat
    BY FatAssumption DEF NoEntry
  <2>3. \A s \in Slots : Mixed(held)[s].first \in Nat
    BY <2>2 DEF Mixed
  <2> QED
    BY <2>1, <2>3, SearchType
<1>2. CASE op # "open"
  BY <1>2 DEF ListingFails
<1> QED
  BY <1>1, <1>2

LEMMA DirectoryReadType ==
  ASSUME EntriesInv, TableInv, DOMAIN buffer' = DOMAIN buffer, pc = "chain", DirectoryRead
  PROVE  /\ \A s \in Slots : list'[s].first \in Nat
         /\ handle'.first \in Nat /\ pc' # "chain"
         /\ result'.status # "read" \/ result' = result
<1> DEFINE read == {p \in DOMAIN buffer' : buffer'[p] # Stale}
           names == NamesIn(buffer'[0], Cardinality(read))
<1>1. Cardinality(read) \in Nat
  <2>1. IsFiniteSet(DOMAIN buffer')
    BY DEF EntriesInv
  <2>2. IsFiniteSet(read)
    BY <2>1, FS_Subset
  <2> QED
    BY <2>2, FS_CardinalityType
<1>2. names \in Seq(Names)
  <2> HIDE DEF read
  <2> QED
    BY <1>1, NamesInType DEF EntriesInv, TableInv
<1>3. CASE list' = Parsed(names, list) /\ Listed(Parsed(names, list), Len(names))
  <2> HIDE DEF names
  <2>1. \A s \in Slots : Parsed(names, list)[s].first \in Nat
    BY <1>2, ParsedType DEF EntriesInv
  <2> QED
    BY <1>3, <2>1, ListedType DEF EntriesInv
<1>4. CASE pc' = "undefined" /\ UNCHANGED <<list, total, handle, result>>
  BY <1>4 DEF EntriesInv
<1> QED
  BY <1>3, <1>4 DEF DirectoryRead

LEMMA InitEntries == Init => EntriesInv
<1> SUFFICES ASSUME Init PROVE EntriesInv
  OBVIOUS
<1>1. \E g \in Geometries : \E root \in Roots, table \in Tables[g.type] :
        volume = [geo |-> g, table |-> table, root |-> root]
  BY DEF Init
<1>2. volume.root \in Seq(Names)
  BY <1>1, FatAssumption
<1>3. list = [s \in Slots |-> NoEntry] /\ handle = NoEntry /\ pc = "unmounted"
  BY DEF Init
<1> QED
  BY <1>2, <1>3 DEF EntriesInv, NoEntry

LEMMA FiniteRange ==
  ASSUME NEW n \in Nat, NEW m \in Nat
  PROVE  IsFiniteSet(0..n*m-1)
<1>1. n * m - 1 \in Int
  OBVIOUS
<1> QED
  BY <1>1, FS_Interval

\* What a turn of the chain's loop does to the directory entries.
LEMMA ReadClusterEntries ==
  ASSUME TableInv, EntriesInv, ReadCluster
  PROVE  /\ \A s \in Slots : list'[s].first \in Nat
         /\ handle'.first \in Nat
         /\ DOMAIN buffer' = DOMAIN buffer
         /\ op # "read" => result'.status # "read" \/ result' = result
<1>1. pc = "chain" /\ (\A s \in Slots : list[s].first \in Nat) /\ handle.first \in Nat
  BY DEF ReadCluster, EntriesInv
<1>2. DOMAIN buffer' = DOMAIN buffer
  BY DEF ReadCluster, ReadTo
<1>3. PICK next \in EntriesRead : Follow(next)
  BY DEF ReadCluster
<1>4. CASE UNCHANGED <<list, handle, result>>
  BY <1>1, <1>2, <1>4
<1>5. CASE ChainEnds /\ op = "read"
  BY <1>1, <1>2, <1>5 DEF ChainEnds
<1>6. CASE ChainEnds /\ op # "read"
  <2>1. DirectoryRead
    BY <1>6 DEF ChainEnds
  <2> QED
    BY <1>1, <1>2, <2>1, DirectoryReadType
<1>7. CASE ChainFails
  <2>1. list' = list
    BY <1>7 DEF ChainFails
  <2>2. CASE op = "read"
    BY <1>1, <1>2, <1>7, <2>1, <2>2 DEF ChainFails
  <2>3. CASE op # "read"
    <3>1. ListingFails
      BY <1>7, <2>3 DEF ChainFails
    <3> QED
      BY <1>1, <1>2, <2>1, <3>1, ListingFailsType
  <2> QED
    BY <2>2, <2>3
<1> QED
  BY <1>3, <1>4, <1>5, <1>6, <1>7 DEF Follow

LEMMA StepEntries == TableInv /\ EntriesInv /\ [Next]_vars => EntriesInv'
<1> SUFFICES ASSUME TableInv, EntriesInv, [Next]_vars PROVE EntriesInv'
  OBVIOUS
<1>0. /\ \A s \in Slots : list[s].first \in Nat
      /\ handle.first \in Nat /\ volume.root \in Seq(Names)
      /\ geo.sectorsPerCluster \in Nat /\ NoEntry.first \in Nat
  BY FatAssumption DEF EntriesInv, TableInv, NoEntry
<1>1. CASE MountParameters \/ MountTable
  <2>1. UNCHANGED <<volume, list, handle>> /\ pc' # "chain"
    BY <1>1 DEF MountParameters, MountTable, unchangedByMount
  <2> QED
    BY <1>0, <2>1 DEF EntriesInv
<1>2. ASSUME BeginListing PROVE pc' = "chain" => IsFiniteSet(DOMAIN buffer')
  <2>1. CASE geo.type = "FAT32"
    <3>1. DOMAIN buffer' = 0..geo.sectorsPerCluster-1 /\ geo.sectorsPerCluster - 1 \in Int
      BY <1>0, <1>2, <2>1 DEF BeginListing
    <3> QED
      BY <3>1, FS_Interval
  <2> QED
    BY <1>2, <2>1 DEF BeginListing
<1>3. CASE List
  <2>1. /\ volume' = volume /\ handle' = handle /\ BeginListing
        /\ list' = [s \in Slots |-> NoEntry]
    BY <1>3 DEF List, BeginListing
  <2> QED
    BY <1>0, <1>2, <2>1 DEF EntriesInv
<1>4. ASSUME NEW name \in Names, Open(name) PROVE EntriesInv'
  <2>1. /\ volume' = volume /\ handle' = NoEntry /\ BeginListing
        /\ list' = [s \in Slots |-> NoEntry]
    BY <1>4 DEF Open, BeginListing
  <2> QED
    BY <1>0, <1>2, <2>1 DEF EntriesInv
<1>5. CASE Read
  <2>1. DOMAIN buffer' = 0..MaxClusters * geo.sectorsPerCluster - 1
    BY <1>5 DEF Read
  <2>2. UNCHANGED <<volume, list, handle>>
    BY <1>5 DEF Read
  <2>3. IsFiniteSet(DOMAIN buffer')
    BY <1>0, <2>1, FiniteRange, FatAssumption
  <2> QED
    BY <1>0, <2>2, <2>3 DEF EntriesInv
<1>6. CASE RootSector
  <2>1. /\ pc' = "root" /\ UNCHANGED <<volume, handle>>
        /\ list' = Parsed(NamesIn(RootLba(geo, i), 1), list)
    BY <1>6 DEF RootSector, unchangedByRoot
  <2>2. NamesIn(RootLba(geo, i), 1) \in Seq(Names)
    BY <1>0, NamesInType DEF TableInv
  <2>3. \A s \in Slots : list'[s].first \in Nat
    BY <1>0, <2>1, <2>2, ParsedType
  <2> QED
    BY <1>0, <2>1, <2>3 DEF EntriesInv
<1>7. CASE RootSectorFails
  <2>1. UNCHANGED <<volume, list>> /\ ListingFails
    BY <1>7 DEF RootSectorFails, unchangedByRoot
  <2> QED
    BY <1>0, <2>1, ListingFailsType DEF EntriesInv
<1>8. CASE RootDone
  <2>1. UNCHANGED <<volume, list>> /\ Listed(list, total)
    BY <1>8 DEF RootDone, unchangedByRoot
  <2> QED
    BY <1>0, <2>1, ListedType DEF EntriesInv
<1>9. CASE ReadCluster
  <2>1. volume' = volume /\ pc = "chain"
    BY <1>9 DEF ReadCluster, unchangedByChain
  <2> QED
    BY <1>0, <1>9, <2>1, ReadClusterEntries DEF EntriesInv
<1>10. CASE StackOverrun
  BY <1>0, <1>10 DEF StackOverrun, unchangedByChain, EntriesInv
<1>11. CASE UNCHANGED vars
  BY <1>11 DEF vars, EntriesInv
<1> QED
  BY <1>1, <1>3, <1>4, <1>5, <1>6, <1>7, <1>8, <1>9, <1>10, <1>11 DEF Next, Step

-----------------------------------------------------------------------------
(* The chain, cluster by cluster *)

\* Where a cluster is a sector, the sector tells the cluster.
LEMMA SectorOfOne ==
  ASSUME TableInv, geo = volume.geo, geo.sectorsPerCluster = 1, NEW c \in Nat, c >= 2
  PROVE  /\ SectorOf(geo, c) \in Nat /\ SectorOf(geo, c) >= c - 2
         /\ ClusterAt(SectorOf(geo, c)) = c
<1> DEFINE data == FirstDataSector(geo)
<1>1. data \in Nat
  BY DataSectorType DEF TableInv
<1>2. SectorOf(geo, c) = (c - 2) * 1 + data
  BY DEF SectorOf
<1> HIDE DEF data
<1>3. ClusterAt(SectorOf(geo, c)) = (SectorOf(geo, c) - data) \div 1 + 2
  BY DEF ClusterAt, data
<1>4. SectorOf(geo, c) = c - 2 + data /\ SectorOf(geo, c) - data = c - 2
  BY <1>1, <1>2
<1> QED
  BY <1>1, <1>3, <1>4

\* A turn of the loop in which nothing goes wrong reads the cluster to its
\* place, and finds the one that follows it on disk.
LEMMA SoundTurn ==
  ASSUME TableInv, EntriesInv, FileInv, ReadCluster, op = "read", Sound'
  PROVE  /\ Sound /\ ChainSoFar
         /\ i \in 0..MaxClusters-1 /\ DOMAIN buffer' = 0..MaxClusters-1
         /\ buffer'[i] = SectorOf(volume.geo, cluster)
         /\ \A p \in 0..MaxClusters-1 : p # i => buffer'[p] = buffer[p]
         /\ \A next \in EntriesRead : next = NextOnDisk(buffer'[i]) /\ next \in Nat
<1> DEFINE lba == SectorOf(geo, cluster)
<1>1. pc = "chain" /\ UNCHANGED <<volume, geo, fat>>
  BY DEF ReadCluster, unchangedByChain
<1>2. handle' = handle
  BY DEF ReadCluster, Follow, ChainEnds, ChainFails
<1>3. PICK got \in 0..geo.sectorsPerCluster :
        /\ got > 0 => lba >= 0 /\ lba + got <= volume.geo.sectors
        /\ buffer' = [p \in DOMAIN buffer |->
                        IF p - i \in 0..got-1 THEN lba + p - i ELSE buffer[p]]
        /\ missed' = (missed \/ got < geo.sectorsPerCluster)
  BY DEF ReadCluster, ReadTo
<1>4. ~missed' /\ geo = volume.geo /\ geo.sectorsPerCluster = 1 /\ handle.first >= 2
  BY <1>1, <1>2 DEF Sound
<1>5. got = 1 /\ ~missed
  <2>1. missed' = (missed \/ got < geo.sectorsPerCluster)
    BY <1>3
  <2>2. ~missed /\ ~(got < geo.sectorsPerCluster)
    BY <1>4, <2>1, Zenon
  <2>3. geo.sectorsPerCluster = 1 /\ got \in 0..geo.sectorsPerCluster
    BY <1>4
  <2>4. got = 1
    BY <2>2, <2>3
  <2> QED
    BY <2>2, <2>4
<1>6. Sound /\ ChainSoFar
  BY <1>1, <1>4, <1>5 DEF Sound, FileInv
<1>7. cluster \in Nat /\ cluster >= 2 /\ DOMAIN buffer = 0..MaxClusters-1
      /\ geo \in Geometries /\ geo.type \in FatTypes /\ volume.table \in Tables[geo.type]
  BY <1>1, <1>4, <1>6 DEF ChainSoFar, TableInv, Mounted
<1>8. i \in 0..MaxClusters-1
  <2>1. i \in Nat /\ i < MaxClusters /\ MaxClusters \in Nat
    BY FatAssumption DEF FileInv, ReadCluster
  <2> QED
    BY <2>1
<1>9. lba \in Nat /\ lba >= cluster - 2 /\ ClusterAt(lba) = cluster
  BY <1>4, <1>7, SectorOfOne
<1>10. lba + 1 <= geo.sectors /\ geo.sectors \in Nat
  BY <1>3, <1>4, <1>5, <1>7, FatAssumption
<1> HIDE DEF lba
<1>11. /\ buffer'[i] = lba
       /\ \A p \in 0..MaxClusters-1 : p # i => buffer'[p] = buffer[p]
       /\ DOMAIN buffer' = 0..MaxClusters-1
  <2>1. \A p \in 0..MaxClusters-1 :
          buffer'[p] = IF p - i \in 0..0 THEN lba + p - i ELSE buffer[p]
    BY <1>3, <1>5, <1>7
  <2>2. lba + i - i = lba /\ i - i \in 0..0
    BY <1>8, <1>9
  <2>3. \A p \in 0..MaxClusters-1 : p # i => p - i \notin 0..0
    BY <1>8
  <2> QED
    BY <1>3, <1>7, <1>8, <2>1, <2>2, <2>3
<1>12. cluster \in DOMAIN volume.table /\ LastByte(geo.type, cluster) \in DOMAIN fat
       /\ volume.table[cluster] \in Nat
  <2>1. cluster \in 2..geo.sectors + 2 /\ SectorOf(geo, cluster) < geo.sectors
    BY <1>7, <1>9, <1>10 DEF lba
  <2>2. /\ cluster \in DOMAIN volume.table
        /\ LastByte(geo.type, cluster) < geo.sectorsPerFat * BYTES_PER_SECTOR
        /\ volume.table[cluster] \in Entries(geo.type)
    BY <1>7, <2>1, FormatAssumption
  <2>3. DOMAIN fat = 0..geo.sectorsPerFat * BYTES_PER_SECTOR - 1
    BY <1>1, <1>4 DEF TableInv, Mounted, OnDisk
  <2>4. LastByte(geo.type, cluster) \in Nat /\ geo.sectorsPerFat * BYTES_PER_SECTOR \in Nat
    <3>1. geo.sectorsPerFat \in Nat /\ BYTES_PER_SECTOR \in Nat
      BY <1>7, FatAssumption, FatTableAssumption
    <3>2. LastByte(geo.type, cluster) \in Nat
      BY <1>7, LastByteType, Zenon
    <3>3. geo.sectorsPerFat * BYTES_PER_SECTOR \in Nat
      BY <3>1
    <3> QED
      BY <3>2, <3>3, Zenon
  <2>5. Entries(geo.type) \subseteq Nat
    <3>1. Entries12 \subseteq Nat
      BY DEF Entries12
    <3>2. Entries16 \subseteq Nat
      BY Entries16Are
    <3>3. Entries32 \subseteq Nat
      BY SMT DEF Entries32
    <3> QED
      BY <1>7, <3>1, <3>2, <3>3 DEF Entries, FatTypes
  <2> QED
    BY <2>2, <2>3, <2>4, <2>5
<1>13. Decode(geo.type, fat, cluster) = volume.table[cluster]
  BY <1>1, <1>4, <1>12, EntryInMemory DEF Mounted
<1>14. \A next \in EntriesRead : next = volume.table[cluster]
  BY <1>12, <1>13 DEF EntriesRead
<1>15. NextOnDisk(buffer'[i]) = volume.table[cluster]
  BY <1>9, <1>11 DEF NextOnDisk
<1> QED
  BY <1>4, <1>6, <1>8, <1>11, <1>12, <1>14, <1>15 DEF lba

\* The buffer, with the cluster just read, is the file so far.
LEMMA TurnExtends ==
  ASSUME TableInv, EntriesInv, FileInv, ReadCluster, op = "read", Sound'
  PROVE  /\ buffer'[0] = SectorOf(volume.geo, handle.first)
         /\ \A k \in 0..i-1 : buffer'[k+1] = SectorOf(volume.geo, NextOnDisk(buffer'[k]))
<1>1. /\ ChainSoFar
      /\ i \in 0..MaxClusters-1 /\ MaxClusters \in Nat
      /\ buffer'[i] = SectorOf(volume.geo, cluster)
      /\ \A p \in 0..MaxClusters-1 : p # i => buffer'[p] = buffer[p]
  BY SoundTurn, FatAssumption
<1>2. CASE i = 0
  BY <1>1, <1>2 DEF ChainSoFar
<1>3. CASE i > 0
  <2>1. buffer'[0] = buffer[0] /\ buffer[0] = SectorOf(volume.geo, handle.first)
    BY <1>1, <1>3 DEF ChainSoFar
  <2>2. ASSUME NEW k \in 0..i-1
        PROVE  buffer'[k+1] = SectorOf(volume.geo, NextOnDisk(buffer'[k]))
    <3>1. k \in 0..MaxClusters-1 /\ k # i /\ buffer'[k] = buffer[k]
      BY <1>1
    <3>2. CASE k = i - 1
      <4>1. k + 1 = i
        BY <1>1, <3>2
      <4>2. cluster = NextOnDisk(buffer[k])
        BY <1>1, <1>3, <3>2 DEF ChainSoFar
      <4> QED
        BY <1>1, <3>1, <4>1, <4>2
    <3>3. CASE k # i - 1
      <4>1. k \in 0..i-2 /\ k + 1 \in 0..MaxClusters-1 /\ k + 1 # i
        BY <1>1, <3>3
      <4>2. buffer'[k+1] = buffer[k+1]
        BY <1>1, <4>1
      <4>3. buffer[k+1] = SectorOf(volume.geo, NextOnDisk(buffer[k]))
        BY <1>1, <4>1 DEF ChainSoFar
      <4> QED
        BY <3>1, <4>2, <4>3
    <3> QED
      BY <3>2, <3>3
  <2> QED
    BY <2>1, <2>2
<1> QED
  BY <1>1, <1>2, <1>3

-----------------------------------------------------------------------------
(* A file that was read *)

LEMMA InitFile == Init => FileInv
<1> SUFFICES ASSUME Init PROVE FileInv
  OBVIOUS
<1>1. i = 0 /\ pc = "unmounted" /\ result = [status |-> "none", clusters |-> 0]
  BY DEF Init
<1> QED
  BY <1>1 DEF FileInv, FileRight, FileWasRead

\* Nothing is claimed of what is not a finished or an unfinished read.
LEMMA NoRead ==
  ASSUME i' \in Nat, result'.status # "read", pc' # "chain" \/ op' # "read"
  PROVE  FileInv'
BY DEF FileInv, FileRight, FileWasRead

\* The turn in which the end of the chain is found: the file is whole.
LEMMA TurnEnds ==
  ASSUME TableInv, EntriesInv, FileInv, ReadCluster, op = "read", i' = i,
         result'.clusters = i + 1, NEW next \in EntriesRead, EndOfChain(geo.type, next)
  PROVE  FileRight'
<1> SUFFICES ASSUME Sound', FileWasRead' PROVE WholeFile(result.clusters)'
  BY DEF FileRight, FileWasRead, Sound
<1>1. UNCHANGED <<volume, geo>> /\ geo = volume.geo /\ geo.sectorsPerCluster = 1
  BY DEF ReadCluster, unchangedByChain, Sound
<1>2. handle' = handle
  BY DEF ReadCluster, Follow, ChainEnds, ChainFails
<1>3. /\ buffer'[0] = SectorOf(volume.geo, handle.first)
      /\ \A k \in 0..i-1 : buffer'[k+1] = SectorOf(volume.geo, NextOnDisk(buffer'[k]))
  BY TurnExtends
<1>4. next = NextOnDisk(buffer'[i]) /\ i \in Nat
  BY SoundTurn DEF FileInv
<1>5. EndOfChain(volume.geo.type, NextOnDisk(buffer'[i]))
  BY <1>1, <1>4
<1>6. \A p \in 0..(i+1)*1-1 : p % 1 = 0
  BY <1>4
<1>7. /\ (i + 1) - 2 = i - 1 /\ ((i + 1) - 1) * 1 = i
      /\ \A k \in 0..(i+1)-2 : (k + 1) * 1 = k + 1 /\ k * 1 = k /\ k \in 0..i-1
  BY <1>4
<1> QED
  BY <1>1, <1>2, <1>3, <1>5, <1>6, <1>7 DEF WholeFile, NextOnDisk, ClusterAt

\* The turn after which the loop goes on: the buffer is the file so far.
LEMMA TurnGoesOn ==
  ASSUME TableInv, EntriesInv, FileInv, ReadCluster, op = "read", Sound',
         NEW next \in EntriesRead, next >= 2, cluster' = next, i' = i + 1
  PROVE  ChainSoFar'
<1>1. volume' = volume
  BY DEF ReadCluster, unchangedByChain
<1>2. handle' = handle
  BY DEF ReadCluster, Follow, ChainEnds, ChainFails
<1>3. /\ buffer'[0] = SectorOf(volume.geo, handle.first)
      /\ \A k \in 0..i-1 : buffer'[k+1] = SectorOf(volume.geo, NextOnDisk(buffer'[k]))
  BY TurnExtends
<1>4. /\ next = NextOnDisk(buffer'[i]) /\ next \in Nat
      /\ DOMAIN buffer' = 0..MaxClusters-1 /\ i \in 0..MaxClusters-1
  BY SoundTurn
<1>5. /\ i' # 0 /\ i' - 1 = i /\ i' - 2 = i - 1
  BY <1>4
<1> QED
  BY <1>1, <1>2, <1>3, <1>4, <1>5 DEF ChainSoFar, NextOnDisk, ClusterAt

LEMMA TurnFile == TableInv /\ EntriesInv /\ FileInv /\ ReadCluster => FileInv'
<1> SUFFICES ASSUME TableInv, EntriesInv, FileInv, ReadCluster PROVE FileInv'
  OBVIOUS
<1>1. pc = "chain" /\ op' = op /\ i \in Nat /\ result.status # "read"
  BY DEF ReadCluster, unchangedByChain, FileInv
<1>2. PICK next \in EntriesRead : Follow(next)
  BY DEF ReadCluster
<1>3. i' \in Nat /\ (i' = i \/ i' = i + 1)
  BY <1>1, <1>2 DEF Follow
<1>4. CASE op # "read"
  <2>1. result'.status # "read"
    BY <1>1, <1>4, ReadClusterEntries
  <2> QED
    BY <1>1, <1>3, <1>4, <2>1, NoRead
<1>5. CASE op = "read" /\ EndOfChain(geo.type, next) /\ ChainEnds /\ i' = i
  <2>1. result' = [status |-> "read", clusters |-> i + 1] /\ pc' = "idle"
    BY <1>5 DEF ChainEnds
  <2>2. FileRight'
    BY <1>5, <2>1, TurnEnds
  <2> QED
    BY <1>3, <2>1, <2>2 DEF FileInv
<1>6. CASE op = "read" /\ ChainFails
  <2>1. pc' = "idle" /\ result'.status # "read"
    BY <1>6 DEF ChainFails
  <2> QED
    BY <1>3, <2>1, NoRead
<1>7. CASE op = "read" /\ next >= 2 /\ cluster' = next /\ i' = i + 1 /\ UNCHANGED <<pc, result>>
  <2>1. Sound' => ChainSoFar'
    BY <1>7, TurnGoesOn
  <2>2. pc' = "chain" /\ result'.status # "read"
    BY <1>1, <1>7
  <2> QED
    BY <1>3, <2>1, <2>2 DEF FileInv, FileRight, FileWasRead
<1> QED
  BY <1>2, <1>4, <1>5, <1>6, <1>7 DEF Follow

LEMMA StepFile == TableInv /\ EntriesInv /\ FileInv /\ [Next]_vars => FileInv'
<1> SUFFICES ASSUME TableInv, EntriesInv, FileInv, [Next]_vars PROVE FileInv'
  OBVIOUS
<1>1. i \in Nat /\ \A s \in Slots : list[s].first \in Nat
  BY DEF FileInv, EntriesInv
<1>2. handle.first \in Nat
  BY DEF EntriesInv
<1>3. CASE MountParameters \/ MountTable
  <2>1. result.status # "read" /\ UNCHANGED <<i, result>> /\ pc' # "chain"
    BY <1>3 DEF MountParameters, MountTable, unchangedByMount, FileInv
  <2> QED
    BY <1>1, <2>1, NoRead
<1>4. CASE List
  <2>1. op' = "list" /\ i' = 0 /\ result' = [status |-> "none", clusters |-> 0]
    BY <1>4 DEF List, BeginListing
  <2> QED
    BY <2>1, NoRead
<1>5. ASSUME NEW name \in Names, Open(name) PROVE FileInv'
  <2>1. op' = "open" /\ i' = 0 /\ result' = [status |-> "none", clusters |-> 0]
    BY <1>5 DEF Open, BeginListing
  <2> QED
    BY <2>1, NoRead
<1>6. CASE Read
  <2>1. /\ UNCHANGED <<volume, geo, handle>> /\ cluster' = handle.first /\ i' = 0
        /\ buffer' = [p \in 0..MaxClusters * geo.sectorsPerCluster - 1 |-> Stale]
        /\ result' = [status |-> "none", clusters |-> 0]
    BY <1>6 DEF Read
  <2>2. ASSUME Sound' PROVE ChainSoFar'
    <3>1. geo.sectorsPerCluster = 1 /\ handle.first >= 2
      BY <2>1, <2>2 DEF Sound
    <3>2. MaxClusters * 1 = MaxClusters
      BY FatAssumption
    <3>3. DOMAIN buffer' = 0..MaxClusters-1
      BY <2>1, <3>1, <3>2
    <3>4. ~(i' > 0) /\ 0..i'-2 = {}
      BY <2>1
    <3> QED
      BY <1>2, <2>1, <3>1, <3>3, <3>4 DEF ChainSoFar
  <2> QED
    BY <2>1, <2>2 DEF FileInv, FileRight, FileWasRead
<1>7. CASE RootSector
  <2>1. pc = "root" /\ pc' = "root" /\ i' = i + 1 /\ result' = result
    BY <1>7 DEF RootSector
  <2>2. result'.status # "read" /\ i' \in Nat
    BY <1>1, <2>1 DEF FileInv
  <2> QED
    BY <2>1, <2>2, NoRead
<1>8. CASE RootSectorFails
  <2>1. i' = i /\ ListingFails
    BY <1>8 DEF RootSectorFails
  <2> QED
    BY <1>1, <1>2, <2>1, ListingFailsType, NoRead
<1>9. CASE RootDone
  <2>1. i' = i /\ Listed(list, total)
    BY <1>9 DEF RootDone
  <2> QED
    BY <1>1, <1>2, <2>1, ListedType, NoRead
<1>10. CASE ReadCluster
  BY <1>10, TurnFile
<1>11. CASE StackOverrun
  <2>1. pc = "chain" /\ pc' = "undefined" /\ UNCHANGED <<i, result>>
    BY <1>11 DEF StackOverrun
  <2> QED
    BY <1>1, <2>1, NoRead DEF FileInv
<1>12. CASE UNCHANGED vars
  BY <1>12 DEF vars, FileInv, FileRight, FileWasRead, Sound, ChainSoFar, WholeFile, NextOnDisk,
               ClusterAt
<1> QED
  BY <1>3, <1>4, <1>5, <1>6, <1>7, <1>8, <1>9, <1>10, <1>11, <1>12 DEF Next, Step

\* A read in which nothing has failed, of a volume that was mounted as what
\* it is and has one sector in a cluster, leaves the whole file in the
\* buffer, cluster after cluster as the table on disk has them, and says how
\* many there are: fat12_read_file, for every table, directory and failure.
THEOREM FileReadRight == Spec => []FileRight
<1>1. Init => Inv
  BY InitTable, InitEntries, InitFile DEF Inv
<1>2. Inv /\ [Next]_vars => Inv'
  BY StepTable, StepEntries, StepFile DEF Inv
<1>3. Inv => FileRight
  BY DEF Inv, FileInv
<1> QED
  BY <1>1, <1>2, <1>3, PTL DEF Spec

-----------------------------------------------------------------------------
(* The directory *)

Entry == {NoEntry} \cup {Copied(name) : name \in Names}

\* What a lookup can answer with.
HandleEntry == Entry \cup Remains

\* The entries that may match are entries of the root.
OfRoot(entries) == \A s \in Slots : entries[s].exact => InRoot(entries[s].name)

\* The list begins with the entries of the root.
HasRoot(entries) == \A s \in 0..Len(volume.root)-1 : entries[s] = Copied(volume.root[s + 1])

\* The entries of the first n sectors of the root.
Counted(n) == IF n * DIR_ENTRIES_PER_SECTOR < Len(volume.root)
                THEN n * DIR_ENTRIES_PER_SECTOR ELSE Len(volume.root)

\* A listing of the root that goes sector by sector.
RootSoFar == /\ i \in 0..SectorsPerDir(geo)
             /\ total = Counted(i)
             /\ i > 0 /\ Len(volume.root) <= DIR_ENTRIES_PER_SECTOR => HasRoot(list)

\* What is in place where a directory or a file is being read.
Reading == /\ pc \in {"unmounted", "refused", "table", "root", "chain"} => result.status = "none"
           /\ pc = "root" => /\ geo.type # "FAT32" /\ op # "read"
                             /\ geo = volume.geo => RootSoFar
           /\ pc = "chain" =>
                \/ op = "read" /\ DOMAIN buffer = 0..MaxClusters * geo.sectorsPerCluster - 1
                \/ op # "read" /\ geo.type = "FAT32" /\ (i = 0 => cluster = geo.rootStart)
                   /\ DOMAIN buffer = 0..geo.sectorsPerCluster-1
           /\ pc \in Mounted => DOMAIN fat = 0..geo.sectorsPerFat * BYTES_PER_SECTOR - 1

ListInv == /\ TypeOK
           /\ volume.root \in Seq(Names)
           /\ Len(volume.root) <= RootSectors(volume) * DIR_ENTRIES_PER_SECTOR
           /\ OfRoot(list)
           /\ Reading
           /\ ListingRight
           /\ LookupRight

LEMMA Shapes ==
  ASSUME NEW g \in Geometries
  PROVE  /\ g.sectorsPerCluster \in Nat \ {0}
         /\ SectorsPerDir(g) \in Nat /\ RootAreaStart(g) \in Nat
         /\ g.sectors \in Nat /\ g.sectorsPerFat * BYTES_PER_SECTOR \in Nat
         /\ g.rootStart \in Nat
<1>1. /\ g.reserved \in Nat /\ g.sectorsPerFat \in Nat /\ g.fats \in Nat /\ g.rootEntries \in Nat
      /\ g.sectorsPerCluster \in Nat \ {0} /\ g.sectors \in Nat /\ g.rootStart \in Nat
      /\ DIR_ENTRIES_PER_SECTOR \in Nat \ {0} /\ BYTES_PER_SECTOR \in Nat
  BY FatAssumption, FatTableAssumption
<1>2. g.rootEntries \div DIR_ENTRIES_PER_SECTOR \in Nat
  BY <1>1
<1>3. g.sectorsPerFat * g.fats \in Nat
  BY <1>1
<1>4. g.sectorsPerFat * BYTES_PER_SECTOR \in Nat
  BY <1>1
<1> QED
  BY <1>1, <1>2, <1>3, <1>4 DEF RootAreaStart, SectorsPerDir

\* The names between two places of the root.
LEMMA NamesBetween ==
  ASSUME volume.root \in Seq(Names), NEW from \in Nat, NEW to \in Nat,
         to <= Len(volume.root), from <= to
  PROVE  /\ Len(SubSeq(volume.root, from + 1, to)) = to - from
         /\ \A j \in 1..to-from : SubSeq(volume.root, from + 1, to)[j] = volume.root[from + j]
<1>1. \A j \in from+1..to : volume.root[j] \in Names
  OBVIOUS
<1>2. from + 1 \in Int /\ to \in Int
  OBVIOUS
<1>3. /\ Len(SubSeq(volume.root, from + 1, to)) =
           IF from + 1 <= to THEN to - (from + 1) + 1 ELSE 0
      /\ \A j \in 1..to-(from+1)+1 :
           SubSeq(volume.root, from + 1, to)[j] = volume.root[(from + 1) + j - 1]
  BY <1>1, <1>2, SubSeqProperties
<1>4. to - (from + 1) + 1 = to - from
  OBVIOUS
<1>5. (IF from + 1 <= to THEN to - (from + 1) + 1 ELSE 0) = to - from
  OBVIOUS
<1>6. \A j \in 1..to-from : (from + 1) + j - 1 = from + j
  OBVIOUS
<1> QED
  BY <1>3, <1>4, <1>5, <1>6

LEMMA CountedRange ==
  ASSUME volume.root \in Seq(Names), NEW n \in Nat
  PROVE  /\ Counted(n) \in Nat /\ Counted(n) <= Len(volume.root)
         /\ n * DIR_ENTRIES_PER_SECTOR \in Nat
         /\ (n + 1) * DIR_ENTRIES_PER_SECTOR = n * DIR_ENTRIES_PER_SECTOR + DIR_ENTRIES_PER_SECTOR
         /\ Counted(n) = n * DIR_ENTRIES_PER_SECTOR =>
              n * DIR_ENTRIES_PER_SECTOR <= Counted(n + 1)
<1>1. DIR_ENTRIES_PER_SECTOR \in Nat /\ Len(volume.root) \in Nat
  BY FatTableAssumption
<1>2. n * DIR_ENTRIES_PER_SECTOR \in Nat
  BY <1>1
<1>3. (n + 1) * DIR_ENTRIES_PER_SECTOR = n * DIR_ENTRIES_PER_SECTOR + DIR_ENTRIES_PER_SECTOR
  BY <1>1
<1> DEFINE p == n * DIR_ENTRIES_PER_SECTOR
           q == (n + 1) * DIR_ENTRIES_PER_SECTOR
<1>4. /\ Counted(n) = IF p < Len(volume.root) THEN p ELSE Len(volume.root)
      /\ Counted(n + 1) = IF q < Len(volume.root) THEN q ELSE Len(volume.root)
  BY DEF Counted
<1>5. p \in Nat /\ q = p + DIR_ENTRIES_PER_SECTOR
  BY <1>2, <1>3
<1> HIDE DEF p, q
<1>6. /\ Counted(n) \in Nat /\ Counted(n) <= Len(volume.root)
      /\ Counted(n) = p => p <= Counted(n + 1)
  BY <1>1, <1>4, <1>5
<1> QED
  BY <1>2, <1>3, <1>6 DEF p

\* The names in a sector of the root of a volume of 12 or 16 bits.
LEMMA NamesOfSector ==
  ASSUME volume.root \in Seq(Names), volume.geo \in Geometries, volume.geo.type # "FAT32",
         NEW k \in 0..SectorsPerDir(volume.geo)-1, Counted(k) = k * DIR_ENTRIES_PER_SECTOR,
         NEW names, names = NamesIn(RootLba(volume.geo, k), 1)
  PROVE  /\ Len(names) = Counted(k + 1) - Counted(k)
         /\ \A j \in 1..Len(names) : names[j] = volume.root[Counted(k) + j]
<1> DEFINE start == RootAreaStart(volume.geo)
<1>1. start \in Nat /\ SectorsPerDir(volume.geo) \in Nat
  BY Shapes
<1>2. RootLba(volume.geo, k) = start + k /\ RootLba(volume.geo, 0) = start + 0
      /\ RootSectors(volume) = SectorsPerDir(volume.geo)
  BY DEF RootLba, RootSectors
<1> HIDE DEF start
<1>3. k \in Nat
  BY <1>1
<1>4. /\ RootLba(volume.geo, k) - RootLba(volume.geo, 0) = k
      /\ RootLba(volume.geo, k) # Stale
  BY <1>1, <1>2, <1>3 DEF Stale
<1>5. names = SubSeq(volume.root, k * DIR_ENTRIES_PER_SECTOR + 1,
                     IF (k + 1) * DIR_ENTRIES_PER_SECTOR < Len(volume.root)
                       THEN (k + 1) * DIR_ENTRIES_PER_SECTOR ELSE Len(volume.root))
  BY Zenon, <1>2, <1>4 DEF NamesIn
<1>6. names = SubSeq(volume.root, Counted(k) + 1, Counted(k + 1))
  BY Zenon, <1>5 DEF Counted
<1>7. /\ Counted(k) \in Nat /\ Counted(k + 1) \in Nat /\ Counted(k + 1) <= Len(volume.root)
      /\ Counted(k) <= Counted(k + 1)
  <2>1. k + 1 \in Nat
    BY <1>3
  <2>2. Counted(k) \in Nat /\ Counted(k) <= Counted(k + 1)
    BY <1>3, CountedRange
  <2>3. Counted(k + 1) \in Nat /\ Counted(k + 1) <= Len(volume.root)
    BY <2>1, CountedRange
  <2> QED
    BY <2>2, <2>3
<1>8. /\ Len(names) = Counted(k + 1) - Counted(k)
      /\ \A j \in 1..Counted(k+1)-Counted(k) : names[j] = volume.root[Counted(k) + j]
  BY <1>6, <1>7, NamesBetween, Zenon
<1> QED
  BY <1>8

\* The names in the cluster of a root that is a chain are all of them.
LEMMA NamesOfCluster ==
  ASSUME volume.root \in Seq(Names), volume.geo \in Geometries, volume.geo.type = "FAT32",
         Len(volume.root) <= RootSectors(volume) * DIR_ENTRIES_PER_SECTOR,
         NEW lba \in Nat, lba = SectorOf(volume.geo, volume.geo.rootStart),
         NEW names, names = NamesIn(lba, volume.geo.sectorsPerCluster)
  PROVE  /\ Len(names) = Len(volume.root)
         /\ \A j \in 1..Len(names) : names[j] = volume.root[j]
<1> DEFINE per == volume.geo.sectorsPerCluster
           len == Len(volume.root)
<1>1. per \in Nat \ {0} /\ DIR_ENTRIES_PER_SECTOR \in Nat
  BY Shapes, FatTableAssumption
<1>2. RootLba(volume.geo, 0) = lba + 0 /\ RootSectors(volume) = per
  BY DEF RootLba, RootSectors
<1>3. lba - RootLba(volume.geo, 0) = 0 /\ lba # Stale
  BY <1>2 DEF Stale
<1> HIDE DEF per
<1>4. 0 \in 0..per-1 /\ 0 * DIR_ENTRIES_PER_SECTOR = 0 /\ 0 + per = per
      /\ per * DIR_ENTRIES_PER_SECTOR \in Nat
  BY <1>1
<1>5. names = SubSeq(volume.root, 0 + 1,
                     IF per * DIR_ENTRIES_PER_SECTOR < len THEN per * DIR_ENTRIES_PER_SECTOR ELSE len)
  BY <1>2, <1>3, <1>4, Zenon DEF NamesIn, per
<1>6. len \in Nat /\ len <= per * DIR_ENTRIES_PER_SECTOR
  BY <1>2
<1>7. (IF per * DIR_ENTRIES_PER_SECTOR < len THEN per * DIR_ENTRIES_PER_SECTOR ELSE len) = len
  BY <1>4, <1>6
<1>8. names = SubSeq(volume.root, 0 + 1, len)
  BY <1>5, <1>7
<1>9. /\ Len(names) = len - 0
      /\ \A j \in 1..len-0 : names[j] = volume.root[0 + j]
  BY <1>6, <1>8, NamesBetween
<1>10. \A j \in Nat : 0 + j = j
  OBVIOUS
<1> QED
  BY <1>6, <1>9, <1>10

\* Parsing the names of the whole root makes its list.
LEMMA ParsedRoot ==
  ASSUME volume.root \in Seq(Names), Len(volume.root) <= DIR_ENTRIES_PER_SECTOR,
         NEW names, NEW entries, Len(names) = Len(volume.root),
         \A j \in 1..Len(names) : names[j] = volume.root[j]
  PROVE  HasRoot(Parsed(names, entries))
<1> SUFFICES ASSUME NEW s \in 0..Len(volume.root)-1
             PROVE  Parsed(names, entries)[s] = Copied(volume.root[s + 1])
  BY DEF HasRoot
<1>1. Len(volume.root) \in Nat /\ DIR_ENTRIES_PER_SECTOR \in Nat
  BY FatTableAssumption
<1>2. s \in Slots /\ s < Len(names) /\ s + 1 \in 1..Len(names)
  BY <1>1 DEF Slots
<1>3. Parsed(names, entries)[s] = Copied(names[s + 1])
  BY <1>2 DEF Parsed
<1> QED
  BY <1>2, <1>3

\* Parsing nothing changes nothing.
LEMMA ParsedNothing ==
  ASSUME volume.root \in Seq(Names), Len(volume.root) <= DIR_ENTRIES_PER_SECTOR,
         NEW names, NEW entries, Len(names) = 0, HasRoot(entries)
  PROVE  HasRoot(Parsed(names, entries))
<1> SUFFICES ASSUME NEW s \in 0..Len(volume.root)-1
             PROVE  Parsed(names, entries)[s] = Copied(volume.root[s + 1])
  BY DEF HasRoot
<1>1. Len(volume.root) \in Nat /\ DIR_ENTRIES_PER_SECTOR \in Nat
  BY FatTableAssumption
<1>2. s \in Slots /\ ~(s < Len(names))
  BY <1>1 DEF Slots
<1>3. Parsed(names, entries)[s] = entries[s]
  BY <1>2 DEF Parsed
<1> QED
  BY <1>3 DEF HasRoot

LEMMA ParsedEntries ==
  ASSUME NEW names \in Seq(Names), NEW entries \in [Slots -> Entry]
  PROVE  Parsed(names, entries) \in [Slots -> Entry]
<1> SUFFICES ASSUME NEW s \in Slots
             PROVE  (IF s < Len(names) THEN Copied(names[s + 1]) ELSE entries[s]) \in Entry
  BY DEF Parsed
<1>1. s \in Nat
  BY FatTableAssumption DEF Slots
<1>2. CASE s < Len(names)
  <2>1. s + 1 \in 1..Len(names)
    BY <1>1, <1>2
  <2>2. names[s + 1] \in Names
    BY <2>1
  <2> QED
    BY <1>2, <2>2 DEF Entry
<1>3. CASE ~(s < Len(names))
  BY <1>3
<1> QED
  BY <1>2, <1>3

\* The names read are names of the root.
LEMMA NamesInRoot ==
  ASSUME volume.root \in Seq(Names), volume.geo \in Geometries, NEW lba, NEW n \in Nat,
         NEW j \in 1..Len(NamesIn(lba, n))
  PROVE  InRoot(NamesIn(lba, n)[j])
<1> DEFINE root == volume.root
           k == lba - RootLba(volume.geo, 0)
           first == k * DIR_ENTRIES_PER_SECTOR + 1
           last == (k + n) * DIR_ENTRIES_PER_SECTOR
           end == IF last < Len(root) THEN last ELSE Len(root)
<1>1. DIR_ENTRIES_PER_SECTOR \in Nat /\ Len(root) \in Nat
  BY FatTableAssumption
<1>2. CASE lba # Stale /\ k \in 0..RootSectors(volume)-1
  <2>1. RootSectors(volume) \in Nat
    BY Shapes DEF RootSectors
  <2>2. NamesIn(lba, n) = SubSeq(root, first, end)
    BY <1>2 DEF NamesIn
  <2> HIDE DEF k
  <2>3. k \in Nat
    BY <1>2, <2>1
  <2>4. k * DIR_ENTRIES_PER_SECTOR \in Nat /\ (k + n) * DIR_ENTRIES_PER_SECTOR \in Nat
    <3>1. k + n \in Nat
      BY <2>3
    <3> QED
      BY <1>1, <2>3, <3>1
  <2>5. first \in Nat /\ first >= 1 /\ end \in Nat /\ end <= Len(root)
    BY <1>1, <2>4
  <2> HIDE DEF first, end
  <2>6. \A m \in first..end : root[m] \in Names
    BY <1>1, <2>5
  <2>7. /\ Len(SubSeq(root, first, end)) = IF first <= end THEN end - first + 1 ELSE 0
        /\ \A m \in 1..end-first+1 : SubSeq(root, first, end)[m] = root[first + m - 1]
    BY <2>5, <2>6, SubSeqProperties
  <2>8. j \in 1..end-first+1 /\ first + j - 1 \in 1..Len(root)
    BY <1>1, <2>2, <2>5, <2>7
  <2>9. NamesIn(lba, n)[j] = root[first + j - 1]
    BY <2>2, <2>7, <2>8
  <2> QED
    BY <2>8, <2>9 DEF InRoot
<1>3. CASE ~(lba # Stale /\ k \in 0..RootSectors(volume)-1)
  <2>1. NamesIn(lba, n) = <<>>
    BY <1>3 DEF NamesIn
  <2> QED
    BY <2>1
<1> QED
  BY <1>2, <1>3

\* What is parsed from them is of the root.
LEMMA ParsedOfRoot ==
  ASSUME NEW names \in Seq(Names), \A j \in 1..Len(names) : InRoot(names[j]),
         NEW entries, OfRoot(entries)
  PROVE  OfRoot(Parsed(names, entries))
<1> SUFFICES ASSUME NEW s \in Slots, Parsed(names, entries)[s].exact
             PROVE  InRoot(Parsed(names, entries)[s].name)
  BY DEF OfRoot
<1>1. s \in Nat
  BY FatTableAssumption DEF Slots
<1>2. CASE s < Len(names)
  <2>1. s + 1 \in 1..Len(names)
    BY <1>1, <1>2
  <2>2. Parsed(names, entries)[s].name = names[s + 1]
    BY <1>2 DEF Parsed, Copied
  <2> QED
    BY <2>1, <2>2
<1>3. CASE ~(s < Len(names))
  <2>1. Parsed(names, entries)[s] = entries[s]
    BY <1>3 DEF Parsed
  <2> QED
    BY <2>1 DEF OfRoot
<1> QED
  BY <1>2, <1>3

LEMMA NothingOfRoot == OfRoot([s \in Slots |-> NoEntry])
BY DEF OfRoot, NoEntry

\* It is a matter of the list and of the root.
LEMMA OfRootKept ==
  ASSUME volume' = volume, NEW entries, OfRoot(entries), list' = entries
  PROVE  OfRoot(list)'
BY DEF OfRoot, InRoot

\* What a file found says of the root.
Found ==
  LookedThrough /\ result.status = "found" => InRoot(want) /\ handle = Copied(want)

\* What a file not found says of it.
Missing ==
  LookedThrough /\ result.status = "absent" /\ Len(volume.root) <= DIR_ENTRIES_PER_SECTOR =>
    want \in EightLetters \/ ~InRoot(want)

LEMMA LookupParts == LookupRight <=> Found /\ Missing
BY DEF LookupRight, Found, Missing

LEMMA EntryNamed ==
  ASSUME NEW entry \in Entry, Matches(entry)
  PROVE  entry = Copied(want)
<1>1. entry # NoEntry
  BY DEF Matches, NoEntry
<1>2. PICK name \in Names : entry = Copied(name)
  BY <1>1 DEF Entry
<1>3. entry.name = name
  BY <1>2 DEF Copied
<1> QED
  BY <1>2, <1>3 DEF Matches

\* find_file over n entries: it answers with one of them, or none matches.
LEMMA SearchAnswers ==
  ASSUME NEW S, NEW entries \in [Slots -> S], NEW n, Search(entries, n), handle \in S
  PROVE  /\ handle' \in S
         /\ pc' \in {"idle", "undefined"}
         /\ result'.status \in {"found", "absent"} /\ result'.clusters = 0
         /\ result'.status = "found" =>
              \E s \in Slots : Matches(entries[s]) /\ handle' = entries[s]
         /\ result'.status = "absent" => \A s \in Slots : s < n => ~Matches(entries[s])
<1>1. CASE \E s \in Slots : Matches(entries[s]) /\ handle' = entries[s]
           /\ result' = [status |-> "found", clusters |-> 0] /\ pc' = "idle"
  <2>1. PICK s \in Slots : Matches(entries[s]) /\ handle' = entries[s]
    BY <1>1
  <2>2. handle' \in S
    BY <2>1
  <2>3. result'.status = "found" /\ result'.clusters = 0 /\ pc' = "idle"
    BY <1>1
  <2> QED
    BY <2>1, <2>2, <2>3
<1>2. CASE /\ \A s \in Slots : s < n => ~Matches(entries[s])
           /\ result' = [status |-> "absent", clusters |-> 0]
           /\ pc' = IF n > DIR_ENTRIES_PER_SECTOR THEN "undefined" ELSE "idle"
           /\ UNCHANGED handle
  <2>1. result'.status = "absent" /\ result'.clusters = 0
    BY <1>2
  <2>2. pc' \in {"idle", "undefined"}
    BY <1>2
  <2> QED
    BY <1>2, <2>1, <2>2
<1> QED
  BY <1>1, <1>2 DEF Search

\* Where none of the entries of the root matches, the name is not in it.
LEMMA NameAbsent ==
  ASSUME volume.root \in Seq(Names), Len(volume.root) <= DIR_ENTRIES_PER_SECTOR,
         NEW entries, HasRoot(entries),
         \A s \in Slots : s < Len(volume.root) => ~Matches(entries[s])
  PROVE  want \in EightLetters \/ ~InRoot(want)
<1> SUFFICES ASSUME NEW k \in 1..Len(volume.root), volume.root[k] = want, want \notin EightLetters
             PROVE  FALSE
  BY DEF InRoot
<1>1. Len(volume.root) \in Nat /\ DIR_ENTRIES_PER_SECTOR \in Nat
  BY FatTableAssumption
<1>2. k - 1 \in Slots /\ k - 1 < Len(volume.root) /\ k - 1 \in 0..Len(volume.root)-1
      /\ (k - 1) + 1 = k
  BY <1>1 DEF Slots
<1>3. entries[k-1] = Copied(want)
  BY <1>2 DEF HasRoot
<1>4. Matches(entries[k-1])
  <2>1. entries[k-1].exact = (want \notin EightLetters) /\ entries[k-1].name = want
    BY <1>3 DEF Copied
  <2> QED
    BY <2>1, Zenon DEF Matches
<1> QED
  BY <1>2, <1>4

\* What a success of the listing tells, to list_dir or to find_file.
LEMMA ListedFinds ==
  ASSUME NEW entries \in [Slots -> Entry], OfRoot(entries), NEW n, Listed(entries, n),
         handle \in HandleEntry, UNCHANGED <<volume, want>>
  PROVE  /\ handle' \in HandleEntry /\ Found'
         /\ pc' \in {"idle", "undefined"}
         /\ result'.status \in {"found", "absent", "listed"} /\ result'.clusters = 0
         /\ result'.status = "listed" => op # "open"
         /\ result'.status = "absent" => \A s \in Slots : s < n => ~Matches(entries[s])
<1>1. CASE op = "open"
  <2>1. Search(entries, n) /\ entries \in [Slots -> HandleEntry]
    BY <1>1 DEF Listed, HandleEntry
  <2>2. /\ handle' \in HandleEntry /\ pc' \in {"idle", "undefined"}
        /\ result'.status \in {"found", "absent"} /\ result'.clusters = 0
        /\ result'.status = "found" =>
             \E s \in Slots : Matches(entries[s]) /\ handle' = entries[s]
        /\ result'.status = "absent" => \A s \in Slots : s < n => ~Matches(entries[s])
    BY <2>1, SearchAnswers
  <2>3. ASSUME result'.status = "found" PROVE InRoot(want) /\ handle' = Copied(want)
    <3>1. PICK s \in Slots : Matches(entries[s]) /\ handle' = entries[s]
      BY <2>2, <2>3
    <3>2. entries[s].exact /\ entries[s].name = want
      BY <3>1 DEF Matches
    <3> QED
      BY <3>1, <3>2, EntryNamed DEF OfRoot
  <2>4. Found'
    BY <2>3 DEF Found, InRoot
  <2> QED
    BY <2>2, <2>4
<1>2. CASE op # "open"
  <2>1. result' = [status |-> "listed", clusters |-> 0] /\ pc' = "idle" /\ handle' = handle
    BY <1>2 DEF Listed
  <2>2. result'.status = "listed" /\ result'.clusters = 0
    BY <2>1
  <2> QED
    BY <1>2, <2>1, <2>2 DEF Found
<1> QED
  BY <1>1, <1>2

\* After a failure the answer may be any entry that memory held.
LEMMA FailureFinds ==
  ASSUME list \in [Slots -> Entry], ListingFails, handle \in HandleEntry
  PROVE  /\ handle' \in HandleEntry
         /\ pc' \in {"idle", "undefined"}
         /\ result'.status \in {"found", "absent", "failure"} /\ result'.clusters = 0
<1>1. CASE op = "open"
  <2>1. PICK held \in [Slots -> {NoEntry} \cup Remains], n \in 0..DIR_ENTRIES_PER_SECTOR + 1 :
          Search(Mixed(held), n)
    BY <1>1 DEF ListingFails, Mixed
  <2>2. Mixed(held) \in [Slots -> HandleEntry]
    BY DEF Mixed, HandleEntry, Entry
  <2> QED
    BY <2>1, <2>2, SearchAnswers
<1>2. CASE op # "open"
  <2>1. result' = [status |-> "failure", clusters |-> 0] /\ pc' = "idle" /\ handle' = handle
    BY <1>2 DEF ListingFails
  <2>2. result'.status = "failure" /\ result'.clusters = 0
    BY <2>1
  <2> QED
    BY <2>1, <2>2
<1> QED
  BY <1>1, <1>2

-----------------------------------------------------------------------------
(* Bytes and entries *)

LEMMA EntryOfType ==
  ASSUME NEW S, 0 \in S, NEW table, \A e \in DOMAIN table : table[e] \in S, NEW c
  PROVE  EntryOf(table, c) \in S
BY DEF EntryOf

LEMMA HalfWords ==
  ASSUME NEW e \in Entries16
  PROVE  e % 256 \in 0..255 /\ e \div 256 \in 0..255
<1>1. e \in Int /\ 0 <= e /\ e < 65536
  BY Entries16Are
<1>2. e % 256 \in 0..255
  BY <1>1, SMT
<1>3. e \div 256 \in 0..255
  BY <1>1, SMT
<1> QED
  BY <1>2, <1>3

\* A byte of the table is a byte, whatever its width.
LEMMA TableByteType ==
  ASSUME NEW type \in FatTypes, NEW table, NEW b \in Nat,
         \A e \in DOMAIN table : table[e] \in Entries(type)
  PROVE  TableByte(type, table, b) \in Byte
<1>1. CASE type = "FAT12"
  <2>1. Entries(type) = Entries12 /\ 0 \in Entries12
    BY <1>1 DEF Entries, Entries12
  <2>2. \A c : EntryOf(table, c) \in Entries12
    BY <2>1, EntryOfType
  <2>3. b % 3 \in 0..2
    OBVIOUS
  <2>4. TableByte(type, table, b) =
          Byte12(EntryOf(table, 2 * (b \div 3)), EntryOf(table, 2 * (b \div 3) + 1), b % 3)
    BY <1>1 DEF TableByte
  <2> QED
    BY <2>2, <2>3, <2>4, Bytes12 DEF Byte
<1>2. CASE type = "FAT16"
  <2>1. Entries(type) = Entries16 /\ 0 \in Entries16
    BY <1>2, Entries16Are DEF Entries
  <2>2. EntryOf(table, b \div 2) \in Entries16
    BY <2>1, EntryOfType
  <2> DEFINE e == EntryOf(table, b \div 2)
  <2>3. TableByte(type, table, b) = IF b % 2 = 0 THEN e % 256 ELSE e \div 256
    BY <1>2 DEF TableByte
  <2> HIDE DEF e
  <2>4. e % 256 \in 0..255 /\ e \div 256 \in 0..255
    BY <2>2, HalfWords DEF e
  <2> QED
    BY <2>3, <2>4 DEF Byte
<1>3. CASE type = "FAT32"
  <2>1. Entries(type) = Entries32 /\ 0 \in Entries32
    BY <1>3, SMT DEF Entries, Entries32
  <2>2. EntryOf(table, b \div 4) \in Entries32
    BY <2>1, EntryOfType
  <2> DEFINE e == EntryOf(table, b \div 4)
  <2>3. TableByte(type, table, b) = CASE b % 4 = 0 -> e % 256
                                      [] b % 4 = 1 -> (e \div 256) % 256
                                      [] b % 4 = 2 -> (e \div 65536) % 256
                                      [] b % 4 = 3 -> e \div 16777216
    BY <1>3 DEF TableByte
  <2> HIDE DEF e
  <2>4. e \in Nat /\ e < 268435456
    BY <2>2, SMT DEF Entries32, e
  <2>5. e % 256 \in 0..255 /\ (e \div 256) % 256 \in 0..255 /\ (e \div 65536) % 256 \in 0..255
    <3>1. e \div 256 \in Nat /\ e \div 65536 \in Nat
      BY <2>4, SMT
    <3> QED
      BY <2>4, <3>1, SMT
  <2>6. e \div 16777216 \in 0..255
    BY <2>4, SMT
  <2>7. b % 4 \in 0..3
    BY SMT
  <2> QED
    BY <2>3, <2>5, <2>6, <2>7, SMT DEF Byte
<1> QED
  BY <1>1, <1>2, <1>3 DEF FatTypes

LEMMA JoinedBytes ==
  ASSUME NEW a \in 0..255, NEW b \in 0..255
  PROVE  (b % 16) * 256 + a \in Nat /\ a * 16 + b \div 16 \in Nat /\ a + 256 * b \in Nat
<1>1. a \in Int /\ 0 <= a /\ b \in Int /\ 0 <= b
  OBVIOUS
<1>2. b % 16 \in Nat
  BY <1>1
<1>3. b \div 16 \in Nat
  BY <1>1
<1> QED
  BY <1>1, <1>2, <1>3

\* What is decoded from bytes is a number.
LEMMA DecodeType ==
  ASSUME NEW type \in FatTypes, NEW c \in Nat, NEW size \in Nat, NEW bytes,
         DOMAIN bytes = 0..size-1, \A b \in 0..size-1 : bytes[b] \in Byte,
         LastByte(type, c) \in DOMAIN bytes
  PROVE  Decode(type, bytes, c) \in Nat
<1>1. \A b \in Nat : b <= LastByte(type, c) => bytes[b] \in 0..255
  BY DEF Byte
<1>2. CASE type = "FAT12"
  <2>1. c \div 2 \in Nat /\ (c % 2 = 0 \/ c % 2 = 1)
    OBVIOUS
  <2>2. LastByte(type, c) = 3 * (c \div 2) + 1 + (c % 2)
    BY <1>2 DEF LastByte
  <2> DEFINE offset == 3 * (c \div 2)
  <2>3. offset \in Nat /\ LastByte(type, c) = offset + 1 + (c % 2)
    BY <2>1, <2>2
  <2> HIDE DEF offset
  <2>4. CASE c % 2 = 0
    <3>1. bytes[offset] \in 0..255 /\ bytes[offset + 1] \in 0..255
      BY <1>1, <2>3, <2>4
    <3>2. Decode(type, bytes, c) = (bytes[offset + 1] % 16) * 256 + bytes[offset]
      BY <1>2, <2>4 DEF Decode, offset
    <3> DEFINE low == bytes[offset]
               high == bytes[offset + 1]
    <3>3. low \in 0..255 /\ high \in 0..255
      BY <3>1
    <3>4. Decode(type, bytes, c) = (high % 16) * 256 + low
      BY <3>2
    <3> HIDE DEF low, high
    <3>5. (high % 16) * 256 + low \in Nat
      BY <3>3, JoinedBytes
    <3> QED
      BY <3>4, <3>5
  <2>5. CASE c % 2 = 1
    <3>1. bytes[offset + 1] \in 0..255 /\ bytes[offset + 2] \in 0..255
      BY <1>1, <2>3, <2>5
    <3>2. Decode(type, bytes, c) = bytes[offset + 2] * 16 + bytes[offset + 1] \div 16
      BY <1>2, <2>5 DEF Decode, offset
    <3> DEFINE low == bytes[offset + 1]
               high == bytes[offset + 2]
    <3>3. low \in 0..255 /\ high \in 0..255
      BY <3>1
    <3>4. Decode(type, bytes, c) = high * 16 + low \div 16
      BY <3>2
    <3> HIDE DEF low, high
    <3>5. high * 16 + low \div 16 \in Nat
      BY <3>3, JoinedBytes
    <3> QED
      BY <3>4, <3>5
  <2> QED
    BY <2>1, <2>4, <2>5
<1>3. CASE type = "FAT16"
  <2>1. LastByte(type, c) = 2 * c + 1
    BY <1>3 DEF LastByte
  <2>2. 2 * c \in Nat /\ 2 * c + 1 \in Nat /\ 2 * c <= 2 * c + 1
    OBVIOUS
  <2>3. bytes[2 * c] \in 0..255 /\ bytes[2 * c + 1] \in 0..255
    <3>1. \A b \in Nat : b <= 2 * c + 1 => bytes[b] \in 0..255
      BY Zenon, <1>1, <2>1
    <3>2. 2 * c + 1 <= 2 * c + 1
      OBVIOUS
    <3> QED
      BY Zenon, <2>2, <3>1, <3>2
  <2>4. Decode(type, bytes, c) = bytes[2 * c] + 256 * bytes[2 * c + 1]
    BY <1>3 DEF Decode
  <2>5. \A a, b \in 0..255 : a + 256 * b \in Nat
    BY JoinedBytes
  <2>6. bytes[2 * c] + 256 * bytes[2 * c + 1] \in Nat
    BY <2>3, <2>5, Zenon
  <2> QED
    BY <2>4, <2>6, Zenon
<1>4. CASE type = "FAT32"
  <2>1. LastByte(type, c) = 4 * c + 3
    BY <1>4 DEF LastByte
  <2>2. /\ bytes[4 * c] \in 0..255 /\ bytes[4 * c + 1] \in 0..255
        /\ bytes[4 * c + 2] \in 0..255 /\ bytes[4 * c + 3] \in 0..255
    <3>1. \A b \in Nat : b <= 4 * c + 3 => bytes[b] \in 0..255
      BY Zenon, <1>1, <2>1
    <3>2. /\ 4 * c \in Nat /\ 4 * c + 1 \in Nat /\ 4 * c + 2 \in Nat /\ 4 * c + 3 \in Nat
          /\ 4 * c <= 4 * c + 3 /\ 4 * c + 1 <= 4 * c + 3 /\ 4 * c + 2 <= 4 * c + 3
          /\ 4 * c + 3 <= 4 * c + 3
      OBVIOUS
    <3> QED
      BY Zenon, <3>1, <3>2
  <2>3. Decode(type, bytes, c) = bytes[4 * c] + 256 * bytes[4 * c + 1]
                                 + 65536 * bytes[4 * c + 2] + 16777216 * bytes[4 * c + 3]
    BY SMT, <1>4 DEF Decode
  <2> DEFINE p == bytes[4 * c]
             q == bytes[4 * c + 1]
             r == bytes[4 * c + 2]
             s == bytes[4 * c + 3]
  <2>4. Decode(type, bytes, c) = p + 256 * q + 65536 * r + 16777216 * s
    BY <2>3
  <2> HIDE DEF p, q, r, s
  <2>5. p + 256 * q + 65536 * r + 16777216 * s \in Nat
    <3>1. p \in 0..255 /\ q \in 0..255 /\ r \in 0..255 /\ s \in 0..255
      BY <2>2 DEF p, q, r, s
    <3> QED
      BY SMT, <3>1
  <2> QED
    BY <2>4, <2>5
<1> QED
  BY <1>2, <1>3, <1>4 DEF FatTypes

-----------------------------------------------------------------------------
(* Every operation on the directory *)

VolumeType == /\ volume.geo \in Geometries /\ volume.root \in Roots
              /\ volume.table \in Tables[volume.geo.type]
              /\ geo \in Geometries
              /\ DOMAIN fat \subseteq Nat /\ \A b \in DOMAIN fat : fat[b] \in Byte

PlaceType == /\ pc \in {"unmounted", "refused", "table", "idle", "root", "chain", "undefined"}
             /\ op \in {"list", "open", "read"}
             /\ want \in Names \cup {"none"}

DirType == /\ list \in [Slots -> Entry] /\ total \in Nat /\ handle \in HandleEntry
           /\ result.status \in {"none", "found", "absent", "listed", "failure", "read"}
           /\ result.clusters \in 0..MaxClusters
           /\ missed \in BOOLEAN

ChainType == /\ cluster \in Nat /\ i \in Nat /\ (pc = "chain" => i <= MaxClusters)
             /\ \A p \in DOMAIN buffer : buffer[p] \in 0..volume.geo.sectors-1 \cup {Stale}

LEMMA TypeParts == TypeOK <=> VolumeType /\ PlaceType /\ DirType /\ ChainType
BY DEF TypeOK, VolumeType, PlaceType, DirType, ChainType, Entry, HandleEntry

RootRight == /\ volume.root \in Seq(Names)
             /\ Len(volume.root) <= RootSectors(volume) * DIR_ENTRIES_PER_SECTOR

\* The invariant in its parts.
LEMMA ListParts ==
  ListInv <=> /\ VolumeType /\ PlaceType /\ DirType /\ ChainType
              /\ RootRight /\ OfRoot(list) /\ Reading /\ ListingRight /\ Found /\ Missing
BY TypeParts, LookupParts DEF ListInv, RootRight

\* Nothing is claimed of the answer of an operation that has not ended, or has
\* failed.
LEMMA Silent ==
  ASSUME result'.status \notin {"listed", "absent", "found"}
  PROVE  ListingRight' /\ Found' /\ Missing'
BY DEF ListingRight, Found, Missing

LEMMA EntryFirst ==
  ASSUME NEW entry \in HandleEntry
  PROVE  entry.first \in Nat
<1>1. CASE entry = NoEntry
  BY <1>1 DEF NoEntry
<1>2. CASE \E name \in Names : entry = Copied(name)
  <2>1. PICK name \in Names : entry = Copied(name)
    BY <1>2
  <2>2. First[name] \in Nat
    BY FatAssumption DEF Names
  <2> QED
    BY <2>1, <2>2 DEF Copied
<1>3. CASE entry \in Remains
  BY <1>3, FatAssumption
<1> QED
  BY <1>1, <1>2, <1>3 DEF Entry, HandleEntry

\* An operation of a mounted volume changes nothing of the volume.
LEMMA MountedKept ==
  ASSUME VolumeType, RootRight, pc \in Mounted, Next
  PROVE  VolumeType' /\ RootRight' /\ UNCHANGED <<volume, geo, fat>> /\ pc' \in Mounted
<1>1. UNCHANGED <<volume, geo, fat>> /\ pc' \in Mounted
  BY KeepsMounted
<1> QED
  BY <1>1 DEF VolumeType, RootRight, RootSectors

LEMMA InitList == Init => ListInv
<1> SUFFICES ASSUME Init PROVE ListInv
  OBVIOUS
<1>1. PICK g \in Geometries :
        /\ \E root \in Roots, table \in Tables[g.type] :
             volume = [geo |-> g, table |-> table, root |-> root]
        /\ Len(volume.root) <= RootSectors(volume) * DIR_ENTRIES_PER_SECTOR
        /\ geo = g
  BY DEF Init
<1>2. volume.geo \in Geometries /\ volume.root \in Roots /\ volume.table \in Tables[volume.geo.type]
      /\ geo \in Geometries
  BY <1>1
<1>3. /\ pc = "unmounted" /\ op = "list" /\ want = "none" /\ list = [s \in Slots |-> NoEntry]
      /\ total = 0 /\ i = 0 /\ cluster = 0 /\ buffer = <<>> /\ handle = NoEntry /\ missed = FALSE
      /\ fat = <<>> /\ result = [status |-> "none", clusters |-> 0]
  BY DEF Init
<1>4. result.status = "none" /\ result.clusters = 0 /\ MaxClusters \in Nat
  BY <1>3, FatAssumption
<1>5. VolumeType
  BY <1>2, <1>3 DEF VolumeType
<1>6. PlaceType
  BY <1>3 DEF PlaceType
<1>7. DirType
  <2>1. list \in [Slots -> Entry] /\ handle \in HandleEntry
    BY <1>3 DEF Entry, HandleEntry
  <2>2. missed \in BOOLEAN
    BY <1>3
  <2>3. total \in Nat /\ result.clusters \in 0..MaxClusters
    BY <1>3, <1>4
  <2> QED
    BY Zenon, <1>4, <2>1, <2>2, <2>3 DEF DirType
<1>8. ChainType
  BY <1>3 DEF ChainType
<1>9. RootRight
  BY <1>1, <1>2, FatAssumption DEF RootRight
<1>10. Reading
  BY <1>3, <1>4 DEF Reading, Mounted
<1>11. ListingRight /\ Found /\ Missing
  BY <1>3, <1>4 DEF ListingRight, Found, Missing
<1>12. OfRoot(list)
  BY <1>3, NothingOfRoot
<1> QED
  BY <1>5, <1>6, <1>7, <1>8, <1>9, <1>10, <1>11, <1>12, ListParts

LEMMA MountParametersList ==
  ASSUME ListInv, MountParameters
  PROVE  ListInv'
<1>1. PICK g \in {volume.geo} \cup Leftovers :
        /\ missed' = (g # volume.geo)
        /\ geo' = g
        /\ pc' = IF g.type = "other" \/ g.sectors = 0 THEN "refused" ELSE "table"
  BY DEF MountParameters
<1>2. pc = "unmounted" /\ UNCHANGED <<fat, volume, op, want, list, total, i, cluster, buffer,
                                      handle, result>>
  BY DEF MountParameters, unchangedByMount
<1>3. VolumeType /\ PlaceType /\ DirType /\ ChainType /\ RootRight /\ OfRoot(list) /\ Reading
  BY ListParts
<1>4. g \in Geometries
  BY <1>3, FatAssumption DEF VolumeType
<1>5. pc' \in {"refused", "table"}
  BY <1>1
<1>6. VolumeType' /\ RootRight'
  BY <1>1, <1>2, <1>3, <1>4 DEF VolumeType, RootRight, RootSectors
<1>7. PlaceType' /\ ChainType' /\ OfRoot(list)'
  BY <1>2, <1>3, <1>5, OfRootKept DEF PlaceType, ChainType
<1>8. DirType'
  <2>1. missed' \in BOOLEAN
    BY <1>1
  <2> QED
    BY <1>2, <1>3, <2>1 DEF DirType
<1>9. result'.status = "none"
  BY <1>2, <1>3 DEF Reading
<1>10. Reading'
  BY <1>5, <1>9 DEF Reading, Mounted
<1>11. ListingRight' /\ Found' /\ Missing'
  BY <1>9, Silent
<1> QED
  BY <1>6, <1>7, <1>8, <1>10, <1>11, ListParts, PTL

LEMMA MountTableList ==
  ASSUME TableInv, ListInv, MountTable
  PROVE  ListInv'
<1>1. pc = "table" /\ UNCHANGED <<geo, missed, volume, op, want, list, total, i, cluster, buffer,
                                  handle, result>>
  BY DEF MountTable, unchangedByMount
<1>2. VolumeType /\ PlaceType /\ DirType /\ ChainType /\ RootRight /\ OfRoot(list) /\ Reading
  BY ListParts
<1>3. pc' \in {"refused", "idle"}
  BY DEF MountTable
<1> DEFINE size == geo.sectorsPerFat * BYTES_PER_SECTOR
<1>4. size \in Nat
  BY <1>2, Shapes DEF VolumeType
<1>5. /\ DOMAIN fat' \subseteq Nat /\ \A b \in DOMAIN fat' : fat'[b] \in Byte
      /\ pc' = "idle" => DOMAIN fat' = 0..size-1
  <2>1. CASE pc' = "refused" /\ fat' = fat
    BY <1>2, <2>1 DEF VolumeType
  <2>2. CASE /\ pc' = "idle"
             /\ fat' = [b \in 0..size-1 |->
                          IF geo.reserved = volume.geo.reserved /\ volume.geo.type \in FatTypes
                            THEN TableByte(volume.geo.type, volume.table, b) ELSE 0]
    <3> HIDE DEF size
    <3>1. DOMAIN fat' = 0..size-1 /\ 0..size-1 \subseteq Nat
      BY <1>4, <2>2
    <3>2. ASSUME NEW b \in 0..size-1 PROVE fat'[b] \in Byte
      <4>1. CASE geo.reserved = volume.geo.reserved /\ volume.geo.type \in FatTypes
        <5>1. \A e \in DOMAIN volume.table : volume.table[e] \in Entries(volume.geo.type)
          BY <1>2, <4>1, FormatAssumption DEF VolumeType
        <5>2. b \in Nat
          BY <3>1
        <5>3. TableByte(volume.geo.type, volume.table, b) \in Byte
          BY <4>1, <5>1, <5>2, TableByteType
        <5> QED
          BY <2>2, <4>1, <5>3
      <4>2. CASE ~(geo.reserved = volume.geo.reserved /\ volume.geo.type \in FatTypes)
        <5>1. fat'[b] = 0
          BY <2>2, <4>2
        <5> QED
          BY <5>1 DEF Byte
      <4> QED
        BY <4>1, <4>2
    <3> QED
      BY <3>1, <3>2
  <2> QED
    BY <2>1, <2>2 DEF MountTable
<1>6. VolumeType' /\ RootRight'
  BY <1>1, <1>2, <1>5 DEF VolumeType, RootRight, RootSectors
<1>7. PlaceType' /\ DirType' /\ ChainType' /\ OfRoot(list)'
  BY <1>1, <1>2, <1>3, OfRootKept DEF PlaceType, DirType, ChainType
<1>8. result'.status = "none"
  BY <1>1, <1>2 DEF Reading
<1>9. Reading'
  BY <1>1, <1>3, <1>5, <1>8 DEF Reading, Mounted
<1>10. ListingRight' /\ Found' /\ Missing'
  BY <1>8, Silent
<1> QED
  BY <1>6, <1>7, <1>9, <1>10, ListParts, PTL

\* A listing begins.
LEMMA BeginRight ==
  ASSUME ListInv, pc \in Mounted, BeginListing, op' \in {"list", "open"},
         UNCHANGED <<volume, geo, fat>>
  PROVE  /\ Reading' /\ ChainType' /\ OfRoot(list)' /\ ListingRight' /\ Found' /\ Missing'
         /\ list' = [s \in Slots |-> NoEntry]
         /\ total' = 0 /\ missed' = FALSE /\ pc' \in {"root", "chain"}
         /\ result'.status = "none" /\ result'.clusters = 0
<1>1. VolumeType /\ RootRight /\ Reading
  BY ListParts
<1>2. /\ list' = [s \in Slots |-> NoEntry]
      /\ total' = 0 /\ i' = 0 /\ missed' = FALSE /\ pc' \in {"root", "chain"}
      /\ result' = [status |-> "none", clusters |-> 0]
  BY DEF BeginListing
<1>3. result'.status = "none" /\ result'.clusters = 0
  BY <1>2
<1>4. /\ geo.type = "FAT32" => /\ pc' = "chain" /\ cluster' = geo.rootStart
                               /\ buffer' = [p \in 0..geo.sectorsPerCluster-1 |-> Stale]
      /\ geo.type # "FAT32" => pc' = "root" /\ cluster' = 0 /\ buffer' = <<>>
  BY DEF BeginListing
<1>5. ChainType'
  <2>1. cluster' \in Nat
    BY <1>1, <1>4, Shapes DEF VolumeType
  <2>2. \A p \in DOMAIN buffer' : buffer'[p] = Stale
    <3>1. CASE geo.type = "FAT32"
      BY <1>4, <3>1
    <3>2. CASE geo.type # "FAT32"
      <4>1. DOMAIN buffer' = {}
        BY <1>4, <3>2
      <4> QED
        BY <4>1
    <3> QED
      BY <3>1, <3>2
  <2>3. 0 <= MaxClusters
    BY FatAssumption
  <2> QED
    BY <1>2, <2>1, <2>2, <2>3 DEF ChainType
<1>6. RootSoFar'
  <2>1. SectorsPerDir(geo) \in Nat /\ DIR_ENTRIES_PER_SECTOR \in Nat /\ Len(volume.root) \in Nat
    BY <1>1, Shapes, FatTableAssumption DEF VolumeType, RootRight
  <2>2. 0 * DIR_ENTRIES_PER_SECTOR = 0
    BY <2>1
  <2>3. Counted(0) = 0
    BY <2>1, <2>2 DEF Counted
  <2>4. i' \in 0..SectorsPerDir(geo) /\ ~(i' > 0)
    BY <1>2, <2>1
  <2>5. total' = Counted(0)'
    BY <1>2, <2>3 DEF Counted
  <2> QED
    BY <1>2, <2>4, <2>5 DEF RootSoFar, Counted
<1>7. Reading'
  <2>1. DOMAIN fat = 0..geo.sectorsPerFat * BYTES_PER_SECTOR - 1
    BY <1>1 DEF Reading
  <2>2. pc' = "root" => geo.type # "FAT32" /\ op' # "read"
    BY <1>4
  <2>3. pc' = "chain" => /\ op' # "read" /\ geo.type = "FAT32" /\ cluster' = geo.rootStart
                         /\ DOMAIN buffer' = 0..geo.sectorsPerCluster-1
    BY <1>4
  <2> QED
    BY <1>2, <1>3, <1>6, <2>1, <2>2, <2>3 DEF Reading
<1>8. OfRoot(list)' /\ ListingRight' /\ Found' /\ Missing'
  BY <1>2, <1>3, NothingOfRoot, OfRootKept, Silent
<1> QED
  BY <1>2, <1>3, <1>5, <1>7, <1>8

LEMMA ListList ==
  ASSUME ListInv, List
  PROVE  ListInv'
<1>0. pc \in Mounted /\ Next
  BY DEF List, Mounted, Next
<1>1. VolumeType /\ PlaceType /\ DirType /\ RootRight
  BY ListParts
<1>2. VolumeType' /\ RootRight' /\ UNCHANGED <<volume, geo, fat>>
  BY <1>0, <1>1, MountedKept
<1>3. op' = "list" /\ BeginListing /\ UNCHANGED <<want, handle>>
  BY DEF List
<1>4. /\ Reading' /\ ChainType' /\ OfRoot(list)' /\ ListingRight' /\ Found' /\ Missing'
      /\ list' = [s \in Slots |-> NoEntry]
      /\ total' = 0 /\ missed' = FALSE /\ pc' \in {"root", "chain"}
      /\ result'.status = "none" /\ result'.clusters = 0
  BY <1>0, <1>2, <1>3, BeginRight
<1>5. PlaceType'
  BY <1>1, <1>3, <1>4 DEF PlaceType
<1>6. DirType'
  <2>1. list' \in [Slots -> Entry] /\ 0 \in 0..MaxClusters
    BY <1>4, FatAssumption DEF Entry
  <2> QED
    BY <1>1, <1>3, <1>4, <2>1 DEF DirType
<1> QED
  BY <1>2, <1>4, <1>5, <1>6, ListParts, PTL

LEMMA OpenList ==
  ASSUME ListInv, NEW name \in Names, Open(name)
  PROVE  ListInv'
<1>0. pc \in Mounted /\ Next
  BY DEF Open, Mounted, Next
<1>1. VolumeType /\ PlaceType /\ DirType /\ RootRight
  BY ListParts
<1>2. VolumeType' /\ RootRight' /\ UNCHANGED <<volume, geo, fat>>
  BY <1>0, <1>1, MountedKept
<1>3. op' = "open" /\ want' = name /\ BeginListing /\ handle' = NoEntry
  BY DEF Open
<1>4. /\ Reading' /\ ChainType' /\ OfRoot(list)' /\ ListingRight' /\ Found' /\ Missing'
      /\ list' = [s \in Slots |-> NoEntry]
      /\ total' = 0 /\ missed' = FALSE /\ pc' \in {"root", "chain"}
      /\ result'.status = "none" /\ result'.clusters = 0
  BY <1>0, <1>2, <1>3, BeginRight
<1>5. PlaceType'
  BY <1>1, <1>3, <1>4 DEF PlaceType
<1>6. DirType'
  <2>1. /\ list' \in [Slots -> Entry] /\ NoEntry \in HandleEntry
        /\ 0 \in 0..MaxClusters
    BY <1>4, FatAssumption DEF Entry, HandleEntry
  <2> QED
    BY <1>1, <1>3, <1>4, <2>1 DEF DirType
<1> QED
  BY <1>2, <1>4, <1>5, <1>6, ListParts, PTL

LEMMA ReadList ==
  ASSUME ListInv, Read
  PROVE  ListInv'
<1>0. pc \in Mounted /\ Next
  BY DEF Read, Mounted, Next
<1>1. VolumeType /\ PlaceType /\ DirType /\ RootRight /\ OfRoot(list) /\ Reading
  BY ListParts
<1>2. VolumeType' /\ RootRight' /\ UNCHANGED <<volume, geo, fat>>
  BY <1>0, <1>1, MountedKept
<1>3. /\ op' = "read" /\ pc' = "chain" /\ cluster' = handle.first /\ i' = 0 /\ missed' = FALSE
      /\ buffer' = [p \in 0..MaxClusters * geo.sectorsPerCluster - 1 |-> Stale]
      /\ result' = [status |-> "none", clusters |-> 0]
      /\ UNCHANGED <<want, list, total, handle>>
  BY DEF Read
<1>4. result'.status = "none" /\ result'.clusters = 0
  BY <1>3
<1>5. 0 \in 0..MaxClusters /\ 0 <= MaxClusters
  BY FatAssumption
<1>6. PlaceType' /\ OfRoot(list)'
  BY <1>1, <1>2, <1>3, OfRootKept DEF PlaceType
<1>7. DirType'
  BY <1>1, <1>3, <1>4, <1>5 DEF DirType
<1>8. ChainType'
  <2>1. cluster' \in Nat
    BY <1>1, <1>3, EntryFirst DEF DirType
  <2>2. \A p \in DOMAIN buffer' : buffer'[p] = Stale
    BY <1>3
  <2> QED
    BY <1>3, <1>5, <2>1, <2>2 DEF ChainType
<1>9. Reading'
  <2>1. DOMAIN fat = 0..geo.sectorsPerFat * BYTES_PER_SECTOR - 1
    BY <1>0, <1>1 DEF Reading
  <2>2. DOMAIN buffer' = 0..MaxClusters * geo.sectorsPerCluster - 1
    BY <1>3
  <2> QED
    BY <1>2, <1>3, <1>4, <2>1, <2>2 DEF Reading
<1>10. ListingRight' /\ Found' /\ Missing'
  BY <1>4, Silent
<1> QED
  BY <1>2, <1>6, <1>7, <1>8, <1>9, <1>10, ListParts, PTL

-----------------------------------------------------------------------------
(* The root of 12 and 16 bits, sector by sector *)

\* A sector more has been read into the list.
LEMMA SectorSoFar ==
  ASSUME TableInv, RootRight, RootSoFar, geo = volume.geo, geo.type # "FAT32", RootSector
  PROVE  RootSoFar'
<1> DEFINE names == NamesIn(RootLba(geo, i), 1)
<1>1. /\ pc = "root" /\ i < SectorsPerDir(geo) /\ total = i * DIR_ENTRIES_PER_SECTOR
      /\ list' = Parsed(names, list) /\ total' = total + Len(names) /\ i' = i + 1
      /\ UNCHANGED <<volume, geo>>
  BY DEF RootSector, unchangedByRoot
<1>2. volume.geo \in Geometries /\ volume.root \in Seq(Names) /\ Len(volume.root) \in Nat
      /\ SectorsPerDir(geo) \in Nat /\ DIR_ENTRIES_PER_SECTOR \in Nat \ {0}
  BY Shapes, FatTableAssumption DEF TableInv, RootRight
<1>3. /\ i \in 0..SectorsPerDir(geo) /\ total = Counted(i)
      /\ i > 0 /\ Len(volume.root) <= DIR_ENTRIES_PER_SECTOR => HasRoot(list)
  BY DEF RootSoFar
<1>4. i \in 0..SectorsPerDir(volume.geo)-1 /\ i \in Nat
  BY <1>1, <1>2, <1>3
<1>5. Counted(i) = i * DIR_ENTRIES_PER_SECTOR
  BY <1>1, <1>3
<1>6. /\ Len(names) = Counted(i + 1) - Counted(i)
      /\ \A j \in 1..Len(names) : names[j] = volume.root[Counted(i) + j]
  BY <1>2, <1>4, <1>5, NamesOfSector
<1> HIDE DEF names
<1>7. Counted(i) \in Nat /\ Counted(i) <= Len(volume.root)
  BY <1>2, <1>4, CountedRange
<1>8. Counted(i + 1) \in Nat /\ Counted(i + 1) <= Len(volume.root)
  <2>1. i + 1 \in Nat
    BY <1>4
  <2> QED
    BY <1>2, <2>1, CountedRange
<1>9. total' = Counted(i + 1) /\ i' \in 0..SectorsPerDir(geo)
  <2>1. total' = Counted(i) + Len(names)
    BY <1>1, <1>3
  <2>2. total' = Counted(i + 1)
    BY <1>6, <1>7, <1>8, <2>1
  <2>3. i' \in 0..SectorsPerDir(geo)
    BY <1>1, <1>2, <1>4
  <2> QED
    BY <2>2, <2>3
<1>10. ASSUME Len(volume.root) <= DIR_ENTRIES_PER_SECTOR
       PROVE  HasRoot(Parsed(names, list))
  <2>1. CASE i = 0
    <3>1. Counted(i) = 0
      BY <1>2, <1>5, <2>1
    <3>2. Counted(i + 1) = Len(volume.root)
      <4>1. (i + 1) * DIR_ENTRIES_PER_SECTOR = DIR_ENTRIES_PER_SECTOR
        BY <1>2, <2>1
      <4> QED
        BY <1>2, <1>10, <4>1 DEF Counted
    <3>3. Len(names) = Len(volume.root)
      BY <1>2, <1>6, <3>1, <3>2
    <3>4. \A j \in 1..Len(names) : names[j] = volume.root[j]
      <4>1. \A j \in 1..Len(names) : Counted(i) + j = j
        BY <1>2, <3>1, <3>3
      <4> QED
        BY <1>6, <4>1
    <3> QED
      BY <1>2, <1>10, <3>3, <3>4, ParsedRoot
  <2>2. CASE i > 0
    <3>1. HasRoot(list)
      BY <1>3, <1>10, <2>2
    <3>2. i * DIR_ENTRIES_PER_SECTOR >= DIR_ENTRIES_PER_SECTOR
      BY <1>2, <1>4, <2>2
    <3>3. Len(names) = 0
      <4>1. Counted(i) = Len(volume.root)
        BY <1>2, <1>5, <1>7, <1>10, <3>2
      <4>2. Counted(i) <= Counted(i + 1)
        BY <1>2, <1>4, <1>5, CountedRange
      <4> QED
        BY <1>2, <1>6, <1>8, <4>1, <4>2
    <3> QED
      BY <1>2, <1>10, <3>1, <3>3, ParsedNothing
  <2> QED
    BY <1>4, <2>1, <2>2
<1>11. Counted(i)' = Counted(i + 1)
  BY <1>1 DEF Counted
<1>12. Len(volume.root) <= DIR_ENTRIES_PER_SECTOR => HasRoot(list)'
  BY <1>1, <1>10 DEF HasRoot
<1> QED
  BY <1>1, <1>9, <1>11, <1>12 DEF RootSoFar

LEMMA RootSectorList ==
  ASSUME TableInv, ListInv, RootSector
  PROVE  ListInv'
<1>0. pc \in Mounted /\ Next
  BY DEF RootSector, Mounted, Next, Step
<1>1. VolumeType /\ PlaceType /\ DirType /\ ChainType /\ RootRight /\ OfRoot(list) /\ Reading
  BY ListParts
<1>2. VolumeType' /\ RootRight' /\ UNCHANGED <<volume, geo, fat>>
  BY <1>0, <1>1, MountedKept
<1> DEFINE names == NamesIn(RootLba(geo, i), 1)
<1>3. /\ pc = "root" /\ list' = Parsed(names, list) /\ total' = total + Len(names) /\ i' = i + 1
      /\ UNCHANGED <<pc, handle, result, missed, op, want, cluster, buffer>>
  BY DEF RootSector, unchangedByRoot
<1>4. names \in Seq(Names) /\ \A j \in 1..Len(names) : InRoot(names[j])
  BY <1>1, NamesInType, NamesInRoot DEF VolumeType, RootRight
<1> HIDE DEF names
<1>5. PlaceType' /\ OfRoot(list)'
  <2>1. OfRoot(Parsed(names, list))
    BY <1>1, <1>4, ParsedOfRoot
  <2> QED
    BY <1>1, <1>2, <1>3, <2>1, OfRootKept DEF PlaceType
<1>6. DirType'
  <2>1. list' \in [Slots -> Entry]
    BY <1>1, <1>3, <1>4, ParsedEntries DEF DirType
  <2>2. total' \in Nat
    BY <1>1, <1>3, <1>4 DEF DirType
  <2> QED
    BY <1>1, <1>3, <2>1, <2>2 DEF DirType
<1>7. ChainType'
  BY <1>1, <1>2, <1>3 DEF ChainType
<1>8. result'.status = "none"
  BY <1>1, <1>3 DEF Reading
<1>9. Reading'
  <2>1. geo.type # "FAT32" /\ op # "read" /\ (geo = volume.geo => RootSoFar)
    BY <1>1, <1>3 DEF Reading
  <2>2. geo = volume.geo => RootSoFar'
    BY <1>1, <2>1, SectorSoFar
  <2>3. DOMAIN fat = 0..geo.sectorsPerFat * BYTES_PER_SECTOR - 1
    BY <1>0, <1>1 DEF Reading
  <2> QED
    BY <1>2, <1>3, <1>8, <2>1, <2>2, <2>3 DEF Reading
<1>10. ListingRight' /\ Found' /\ Missing'
  BY <1>8, Silent
<1> QED
  BY <1>2, <1>5, <1>6, <1>7, <1>9, <1>10, ListParts, PTL

\* An operation ends: what is left to show is what it answers.
LEMMA AnswerList ==
  ASSUME ListInv, pc \in Mounted, Next, pc' \in {"idle", "undefined"}, UNCHANGED <<op, want>>,
         DirType', ChainType', OfRoot(list)', Found', ListingRight', Missing'
  PROVE  ListInv'
<1>1. VolumeType /\ PlaceType /\ RootRight /\ Reading
  BY ListParts
<1>2. VolumeType' /\ RootRight' /\ UNCHANGED <<volume, geo, fat>>
  BY <1>1, MountedKept
<1>3. PlaceType'
  BY <1>1 DEF PlaceType
<1>4. Reading'
  <2>1. DOMAIN fat = 0..geo.sectorsPerFat * BYTES_PER_SECTOR - 1
    BY <1>1 DEF Reading
  <2> QED
    BY <1>2, <2>1 DEF Reading
<1> QED
  BY <1>2, <1>3, <1>4, ListParts, PTL

\* Only a failure of the device keeps the driver from the next sector, and it
\* is noticed.
LEMMA RootSectorFailsList ==
  ASSUME ListInv, RootSectorFails
  PROVE  ListInv'
<1>0. pc \in Mounted /\ Next
  BY DEF RootSectorFails, Mounted, Next, Step
<1>1. DirType /\ ChainType /\ RootRight /\ OfRoot(list)
  BY ListParts
<1>2. /\ missed' = TRUE /\ ListingFails
      /\ UNCHANGED <<list, total, i, volume, geo, fat, op, want, cluster, buffer>>
  BY DEF RootSectorFails, unchangedByRoot
<1>3. /\ handle' \in HandleEntry /\ pc' \in {"idle", "undefined"}
      /\ result'.status \in {"found", "absent", "failure"} /\ result'.clusters = 0
  BY <1>1, <1>2, FailureFinds DEF DirType
<1>4. DirType'
  <2>1. missed' \in BOOLEAN /\ 0 \in 0..MaxClusters
    BY <1>2, FatAssumption
  <2> QED
    BY <1>1, <1>2, <1>3, <2>1 DEF DirType
<1>5. ChainType'
  BY <1>1, <1>2, <1>3 DEF ChainType
<1>6. ListingRight' /\ Found' /\ Missing'
  BY <1>2, <1>3 DEF ListingRight, Found, Missing, LookedThrough
<1>7. OfRoot(list)'
  BY <1>1, <1>2, OfRootKept
<1> QED
  BY <1>0, <1>2, <1>3, <1>4, <1>5, <1>6, <1>7, AnswerList

\* After the last sector, or one that is not full, the root has been counted.
LEMMA RootCounted ==
  ASSUME TableInv, RootRight, RootSoFar, geo = volume.geo, geo.type # "FAT32", RootDone
  PROVE  /\ total = Len(volume.root)
         /\ total <= DIR_ENTRIES_PER_SECTOR => HasRoot(list)
<1>1. i = SectorsPerDir(geo) \/ total < i * DIR_ENTRIES_PER_SECTOR
  BY DEF RootDone
<1>2. volume.root \in Seq(Names) /\ Len(volume.root) \in Nat
      /\ SectorsPerDir(geo) \in Nat /\ DIR_ENTRIES_PER_SECTOR \in Nat \ {0}
      /\ Len(volume.root) <= RootSectors(volume) * DIR_ENTRIES_PER_SECTOR
  BY Shapes, FatTableAssumption DEF TableInv, RootRight
<1>3. /\ i \in 0..SectorsPerDir(geo) /\ total = Counted(i)
      /\ i > 0 /\ Len(volume.root) <= DIR_ENTRIES_PER_SECTOR => HasRoot(list)
  BY DEF RootSoFar
<1>4. i \in Nat /\ i * DIR_ENTRIES_PER_SECTOR \in Nat
  <2>1. i \in Nat
    BY <1>2, <1>3
  <2> QED
    BY <1>2, <2>1
<1>5. RootSectors(volume) = SectorsPerDir(geo)
  BY DEF RootSectors
<1>6. total = Len(volume.root)
  <2>1. CASE i = SectorsPerDir(geo)
    <3>1. Len(volume.root) <= i * DIR_ENTRIES_PER_SECTOR
      BY <1>2, <1>5, <2>1, Zenon
    <3> QED
      BY <1>2, <1>3, <1>4, <3>1 DEF Counted
  <2>2. CASE total < i * DIR_ENTRIES_PER_SECTOR
    BY <1>2, <1>3, <1>4, <2>2 DEF Counted
  <2> QED
    BY <1>1, <2>1, <2>2
<1>7. CASE i > 0
  BY <1>3, <1>6, <1>7
<1>8. CASE i = 0
  <2>1. total = 0
    <3>1. 0 * DIR_ENTRIES_PER_SECTOR = 0
      BY <1>2
    <3> QED
      BY <1>2, <1>3, <1>8, <3>1 DEF Counted
  <2>2. HasRoot(list)
    <3>1. 0..Len(volume.root)-1 = {}
      BY <1>6, <2>1
    <3> QED
      BY <3>1 DEF HasRoot
  <2> QED
    BY <1>6, <2>2
<1> QED
  BY <1>4, <1>6, <1>7, <1>8

\* What may be said of an answer of the root: it is counted, and its list is
\* in place.
LEMMA AnswerRight ==
  ASSUME RootRight, UNCHANGED <<volume, geo, op, want>>, NEW entries, list' = entries,
         total' = Len(volume.root),
         total' <= DIR_ENTRIES_PER_SECTOR => HasRoot(entries),
         result'.status = "absent" => \A s \in Slots : s < total' => ~Matches(entries[s])
  PROVE  ListingRight' /\ Missing'
<1>1. ListingRight'
  BY DEF ListingRight, HasRoot
<1>2. Missing'
  <2>1. ASSUME result'.status = "absent", Len(volume.root) <= DIR_ENTRIES_PER_SECTOR
        PROVE  want \in EightLetters \/ ~InRoot(want)
    <3>1. HasRoot(entries) /\ \A s \in Slots : s < Len(volume.root) => ~Matches(entries[s])
      BY <2>1
    <3> QED
      BY <2>1, <3>1, NameAbsent DEF RootRight
  <2> QED
    BY <2>1 DEF Missing, InRoot
<1> QED
  BY <1>1, <1>2

LEMMA RootDoneList ==
  ASSUME TableInv, ListInv, RootDone
  PROVE  ListInv'
<1>0. pc \in Mounted /\ Next /\ pc = "root"
  BY DEF RootDone, Mounted, Next, Step
<1>1. DirType /\ ChainType /\ RootRight /\ OfRoot(list) /\ Reading
  BY ListParts
<1>2. Listed(list, total)
      /\ UNCHANGED <<list, total, i, missed, volume, geo, fat, op, want, cluster, buffer>>
  BY DEF RootDone, unchangedByRoot
<1>3. /\ handle' \in HandleEntry /\ Found' /\ pc' \in {"idle", "undefined"}
      /\ result'.status \in {"found", "absent", "listed"} /\ result'.clusters = 0
      /\ result'.status = "absent" => \A s \in Slots : s < total => ~Matches(list[s])
  BY <1>1, <1>2, ListedFinds DEF DirType
<1>4. DirType'
  <2>1. 0 \in 0..MaxClusters
    BY FatAssumption
  <2> QED
    BY <1>1, <1>2, <1>3, <2>1 DEF DirType
<1>5. ChainType'
  BY <1>1, <1>2, <1>3 DEF ChainType
<1>6. ListingRight' /\ Missing'
  <2>1. CASE geo # volume.geo
    BY <1>2, <2>1 DEF ListingRight, Missing, LookedThrough
  <2>2. CASE geo = volume.geo
    <3>1. RootSoFar /\ geo.type # "FAT32"
      BY <1>0, <1>1, <2>2 DEF Reading
    <3>2. total = Len(volume.root) /\ (total <= DIR_ENTRIES_PER_SECTOR => HasRoot(list))
      BY <1>1, <2>2, <3>1, RootCounted
    <3> QED
      BY <1>1, <1>2, <1>3, <3>2, AnswerRight
  <2> QED
    BY <2>1, <2>2
<1>7. OfRoot(list)'
  BY <1>1, <1>2, OfRootKept
<1> QED
  BY <1>0, <1>2, <1>3, <1>4, <1>5, <1>6, <1>7, AnswerList

-----------------------------------------------------------------------------
(* The root of 32 bits, and files *)

\* What is found for the next cluster is a number, be it one of the table or
\* what lies behind it.
LEMMA NextType ==
  ASSUME TableInv, VolumeType, Reading, ChainType, pc = "chain"
  PROVE  \A next \in EntriesRead : next \in Nat
<1>1. geo.type \in FatTypes /\ DOMAIN fat = 0..geo.sectorsPerFat * BYTES_PER_SECTOR - 1
  BY DEF TableInv, Reading, Mounted
<1>2. geo.sectorsPerFat * BYTES_PER_SECTOR \in Nat /\ cluster \in Nat
      /\ \A b \in DOMAIN fat : fat[b] \in Byte
  BY Shapes DEF VolumeType, ChainType
<1>3. CASE LastByte(geo.type, cluster) \in DOMAIN fat
  <2> DEFINE size == geo.sectorsPerFat * BYTES_PER_SECTOR
  <2>1. size \in Nat /\ DOMAIN fat = 0..size-1
    BY <1>1, <1>2
  <2> HIDE DEF size
  <2>2. Decode(geo.type, fat, cluster) \in Nat
    BY <1>1, <1>2, <1>3, <2>1, DecodeType
  <2> QED
    BY <1>3, <2>2 DEF EntriesRead
<1>4. CASE LastByte(geo.type, cluster) \notin DOMAIN fat
  BY <1>4, FatAssumption DEF EntriesRead
<1> QED
  BY <1>3, <1>4

LEMMA ClusterRange ==
  ASSUME VolumeType, ChainType, Reading, pc = "chain"
  PROVE  DOMAIN buffer \subseteq Int
<1>1. CASE DOMAIN buffer = 0..MaxClusters * geo.sectorsPerCluster - 1
  BY <1>1
<1>2. CASE DOMAIN buffer = 0..geo.sectorsPerCluster-1
  BY <1>2
<1> QED
  BY <1>1, <1>2 DEF Reading

\* The buffer only ever holds sectors of the disk.
LEMMA BufferType ==
  ASSUME VolumeType, ChainType, Reading, ReadCluster
  PROVE  /\ DOMAIN buffer' = DOMAIN buffer
         /\ \A p \in DOMAIN buffer' : buffer'[p] \in 0..volume.geo.sectors-1 \cup {Stale}
         /\ missed' \in BOOLEAN
<1> DEFINE lba == SectorOf(geo, cluster)
<1>1. PICK got \in 0..geo.sectorsPerCluster :
        /\ got > 0 => lba >= 0 /\ lba + got <= volume.geo.sectors
        /\ buffer' = [p \in DOMAIN buffer |->
                        IF p - i \in 0..got-1 THEN lba + p - i ELSE buffer[p]]
        /\ missed' = (missed \/ got < geo.sectorsPerCluster)
  BY DEF ReadCluster, ReadTo
<1>2. lba \in Int
  <2>1. geo.sectorsPerCluster \in Nat /\ FirstDataSector(geo) \in Nat /\ cluster \in Nat
    BY Shapes, DataSectorType DEF VolumeType, ChainType
  <2>2. (cluster - 2) * geo.sectorsPerCluster \in Int
    BY <2>1
  <2> QED
    BY <2>1, <2>2 DEF SectorOf
<1> HIDE DEF lba
<1>3. volume.geo.sectors \in Nat /\ i \in Nat /\ got \in Nat
  BY Shapes DEF VolumeType, ChainType
<1>4. pc = "chain"
  BY DEF ReadCluster
<1>5. ASSUME NEW p \in DOMAIN buffer
      PROVE  buffer'[p] \in 0..volume.geo.sectors-1 \cup {Stale}
  <2>1. p \in Int
    BY <1>4, ClusterRange
  <2>2. CASE p - i \in 0..got-1
    <3>1. buffer'[p] = lba + p - i
      BY <1>1, <2>2
    <3>2. lba >= 0 /\ lba + got <= volume.geo.sectors
      BY <1>1, <1>3, <2>2
    <3>3. lba + p - i \in 0..volume.geo.sectors-1
      BY <1>2, <1>3, <2>1, <2>2, <3>2
    <3> QED
      BY <3>1, <3>3
  <2>3. CASE ~(p - i \in 0..got-1)
    <3>1. buffer'[p] = buffer[p]
      BY <1>1, <2>3
    <3> QED
      BY <3>1 DEF ChainType
  <2> QED
    BY <2>2, <2>3
<1>6. missed' \in BOOLEAN
  BY <1>1
<1>7. DOMAIN buffer' = DOMAIN buffer
  BY <1>1
<1> QED
  BY <1>5, <1>6, <1>7

\* A root that is a chain, read without a failure: its cluster is in the
\* buffer, and what follows it is what the table on disk says.
LEMMA RootInBuffer ==
  ASSUME TableInv, VolumeType, ChainType, Reading, ReadCluster,
         op # "read", geo = volume.geo, ~missed'
  PROVE  /\ buffer'[0] \in Nat /\ buffer'[0] = SectorOf(volume.geo, volume.geo.rootStart)
         /\ Cardinality({p \in DOMAIN buffer' : buffer'[p] # Stale}) = volume.geo.sectorsPerCluster
         /\ EntriesRead = {volume.table[volume.geo.rootStart]}
<1> DEFINE lba == SectorOf(geo, cluster)
           per == geo.sectorsPerCluster
<1>1. pc = "chain" /\ i = 0
  BY DEF ReadCluster
<1>2. geo.type = "FAT32" /\ cluster = geo.rootStart /\ DOMAIN buffer = 0..per-1
  BY <1>1 DEF Reading
<1>3. PICK got \in 0..per :
        /\ got > 0 => lba >= 0 /\ lba + got <= volume.geo.sectors
        /\ buffer' = [p \in DOMAIN buffer |->
                        IF p - i \in 0..got-1 THEN lba + p - i ELSE buffer[p]]
        /\ missed' = (missed \/ got < per)
  BY DEF ReadCluster, ReadTo
<1>4. per \in Nat \ {0} /\ geo.sectors \in Nat /\ geo.rootStart \in Nat
      /\ FirstDataSector(geo) \in Nat
  BY Shapes, DataSectorType DEF VolumeType
<1>5. ~(got < per)
  <2>1. missed' = (missed \/ got < per)
    BY <1>3
  <2> QED
    BY <2>1, Zenon
<1>6. got = per
  BY <1>3, <1>4, <1>5
<1>7. geo.rootStart >= 2 /\ geo \in Geometries /\ geo.type \in FatTypes
  BY <1>2, FormatAssumption DEF VolumeType, FatTypes
<1>8. lba \in Nat /\ lba >= geo.rootStart - 2
  <2> DEFINE c == geo.rootStart - 2
             data == FirstDataSector(geo)
  <2>1. c \in Nat /\ lba = c * per + data
    BY <1>2, <1>4, <1>7 DEF SectorOf
  <2>2. data \in Nat
    BY <1>4
  <2> HIDE DEF c, data, lba, per
  <2>3. c * per \in Nat /\ c * per >= c
    BY <1>4, <2>1
  <2>4. lba \in Nat /\ lba >= c
    BY <2>1, <2>2, <2>3
  <2> QED
    BY <2>4 DEF c
<1>9. lba + per <= geo.sectors
  BY <1>3, <1>4, <1>6
<1> HIDE DEF lba
<1>10. \A p \in 0..per-1 : buffer'[p] = lba + p
  <2>1. \A p \in 0..per-1 : p - 0 \in 0..per-1 /\ lba + p - 0 = lba + p
    BY <1>4, <1>8
  <2> QED
    BY <1>1, <1>2, <1>3, <1>6, <2>1
<1>11. buffer'[0] = lba
  <2>1. 0 \in 0..per-1 /\ lba + 0 = lba
    BY <1>4, <1>8
  <2> QED
    BY <1>10, <2>1
<1>12. {p \in DOMAIN buffer' : buffer'[p] # Stale} = 0..per-1
  <2>1. DOMAIN buffer' = 0..per-1
    BY <1>2, <1>3
  <2>2. \A p \in 0..per-1 : buffer'[p] # Stale
    BY <1>8, <1>10 DEF Stale
  <2> QED
    BY <2>1, <2>2
<1>13. Cardinality(0..per-1) = per
  <2> HIDE DEF per
  <2>1. 0 \in Int /\ per - 1 \in Int
    BY <1>4
  <2>2. Cardinality(0..per-1) = IF 0 > per - 1 THEN 0 ELSE (per - 1) - 0 + 1
    BY <2>1, FS_Interval, Zenon
  <2> QED
    BY <1>4, <2>2
<1>14. EntriesRead = {volume.table[geo.rootStart]}
  <2>1. geo.rootStart \in 2..geo.sectors + 2 /\ SectorOf(geo, geo.rootStart) < geo.sectors
    BY <1>2, <1>4, <1>7, <1>8, <1>9 DEF lba
  <2>2. volume.table \in Tables[geo.type]
    BY DEF VolumeType
  <2>3. /\ geo.rootStart \in DOMAIN volume.table
        /\ LastByte(geo.type, geo.rootStart) < geo.sectorsPerFat * BYTES_PER_SECTOR
    BY <1>7, <2>1, <2>2, FormatAssumption
  <2>4. geo.sectorsPerFat * BYTES_PER_SECTOR \in Nat /\ LastByte(geo.type, geo.rootStart) \in Nat
    BY <1>4, <1>7, Shapes, LastByteType
  <2>5. DOMAIN fat = 0..geo.sectorsPerFat * BYTES_PER_SECTOR - 1
    BY <1>1 DEF Reading, Mounted
  <2>6. LastByte(geo.type, geo.rootStart) \in DOMAIN fat
    BY <2>3, <2>4, <2>5
  <2>7. Decode(geo.type, fat, geo.rootStart) = volume.table[geo.rootStart]
    BY <1>1, <2>3, <2>6, EntryInMemory DEF Mounted
  <2> QED
    BY <1>2, <2>6, <2>7 DEF EntriesRead
<1> QED
  BY <1>2, <1>8, <1>11, <1>12, <1>13, <1>14 DEF lba

\* The answer of a directory that is a chain: without a failure the whole root
\* has been parsed.
LEMMA DirectoryAnswer ==
  ASSUME TableInv, ListInv, ReadCluster, op # "read", DirectoryRead
  PROVE  /\ list' \in [Slots -> Entry] /\ OfRoot(list)' /\ total' \in Nat
         /\ handle' \in HandleEntry
         /\ result'.status \in {"found", "absent", "listed", "none"}
         /\ result'.clusters \in 0..MaxClusters
         /\ pc' \in {"idle", "undefined"} /\ Found' /\ ListingRight' /\ Missing'
<1> DEFINE read == {p \in DOMAIN buffer' : buffer'[p] # Stale}
           names == NamesIn(buffer'[0], Cardinality(read))
<1>1. VolumeType /\ PlaceType /\ DirType /\ ChainType /\ RootRight /\ OfRoot(list) /\ Reading
  BY ListParts
<1>2. pc = "chain" /\ UNCHANGED <<volume, geo, fat, op, want>>
  BY DEF ReadCluster, unchangedByChain
<1>3. names \in Seq(Names) /\ \A j \in 1..Len(names) : InRoot(names[j])
  <2>1. DOMAIN buffer' = DOMAIN buffer
    BY <1>1, BufferType
  <2>2. IsFiniteSet(DOMAIN buffer)
    <3>1. geo.sectorsPerCluster \in Nat /\ MaxClusters \in Nat
      BY <1>1, Shapes, FatAssumption DEF VolumeType
    <3>2. geo.sectorsPerCluster - 1 \in Int
      BY <3>1
    <3>3. DOMAIN buffer = 0..geo.sectorsPerCluster-1
      BY <1>1, <1>2 DEF Reading
    <3> QED
      BY <3>2, <3>3, FS_Interval
  <2>3. IsFiniteSet(read)
    BY <2>1, <2>2, FS_Subset
  <2>4. Cardinality(read) \in Nat
    BY <2>3, FS_CardinalityType
  <2> HIDE DEF read
  <2> QED
    BY <1>1, <2>4, NamesInType, NamesInRoot DEF VolumeType, RootRight
<1>4. CASE /\ Len(names) <= DIR_ENTRIES_PER_SECTOR
           /\ list' = Parsed(names, list)
           /\ total' = Len(names)
           /\ Listed(Parsed(names, list), Len(names))
  <2>1. geo = volume.geo /\ ~missed' =>
          /\ Len(names) = Len(volume.root)
          /\ \A j \in 1..Len(names) : names[j] = volume.root[j]
    <3> SUFFICES ASSUME geo = volume.geo, ~missed'
                 PROVE  /\ Len(names) = Len(volume.root)
                        /\ \A j \in 1..Len(names) : names[j] = volume.root[j]
      OBVIOUS
    <3>1. /\ buffer'[0] \in Nat /\ buffer'[0] = SectorOf(volume.geo, volume.geo.rootStart)
          /\ Cardinality(read) = volume.geo.sectorsPerCluster
      BY <1>1, RootInBuffer
    <3>2. names = NamesIn(buffer'[0], volume.geo.sectorsPerCluster)
      BY <3>1
    <3>3. volume.geo.type = "FAT32"
      BY <1>1, <1>2 DEF Reading
    <3> HIDE DEF names
    <3> QED
      BY <1>1, <3>1, <3>2, <3>3, NamesOfCluster DEF VolumeType, RootRight
  <2> HIDE DEF names
  <2> DEFINE entries == Parsed(names, list)
  <2>2. entries \in [Slots -> Entry] /\ OfRoot(entries)
    BY <1>1, <1>3, ParsedEntries, ParsedOfRoot DEF DirType
  <2>3. Len(names) \in Nat
    BY <1>3
  <2>4. geo = volume.geo /\ ~missed' => HasRoot(entries)
    BY <1>1, <1>4, <2>1, ParsedRoot DEF RootRight
  <2> HIDE DEF entries
  <2>5. list' = entries /\ total' = Len(names) /\ Listed(entries, Len(names))
    BY <1>4 DEF entries
  <2>6. /\ handle' \in HandleEntry /\ Found' /\ pc' \in {"idle", "undefined"}
        /\ result'.status \in {"found", "absent", "listed"} /\ result'.clusters = 0
        /\ result'.status = "absent" => \A s \in Slots : s < Len(names) => ~Matches(entries[s])
    BY <1>1, <1>2, <2>2, <2>5, ListedFinds DEF DirType
  <2>7. ListingRight' /\ Missing'
    <3>1. CASE geo = volume.geo /\ ~missed'
      <4>1. total' = Len(volume.root) /\ HasRoot(entries)
        BY <2>1, <2>4, <2>5, <3>1
      <4>2. result'.status = "absent" => \A s \in Slots : s < total' => ~Matches(entries[s])
        BY <2>5, <2>6
      <4> QED
        BY <1>1, <1>2, <2>5, <4>1, <4>2, AnswerRight
    <3>2. CASE geo # volume.geo
      BY <1>2, <3>2 DEF ListingRight, Missing, LookedThrough
    <3>3. CASE missed'
      <4>1. geo.type = "FAT32"
        BY <1>1, <1>2 DEF Reading
      <4> QED
        BY <1>2, <3>3, <4>1 DEF ListingRight, Missing, LookedThrough
    <3> QED
      BY <3>1, <3>2, <3>3
  <2>8. 0 \in 0..MaxClusters
    BY FatAssumption
  <2>9. OfRoot(list)'
    BY <1>2, <2>2, <2>5, OfRootKept
  <2> QED
    BY <2>2, <2>3, <2>5, <2>6, <2>7, <2>8, <2>9
<1>5. CASE pc' = "undefined" /\ UNCHANGED <<list, total, handle, result>>
  <2>1. result'.status = "none"
    BY <1>1, <1>2, <1>5 DEF Reading
  <2> QED
    BY <1>1, <1>2, <1>5, <2>1, Silent, OfRootKept DEF DirType
<1> QED
  BY <1>4, <1>5 DEF DirectoryRead

\* The answer of a directory that is a chain whose next cluster is none: the
\* device has failed, or the chain does not end.
LEMMA FailureAnswer ==
  ASSUME TableInv, ListInv, ReadCluster, op # "read", ListingFails, UNCHANGED <<list, total>>,
         NEW next \in EntriesRead, ~EndOfChain(geo.type, next)
  PROVE  /\ handle' \in HandleEntry /\ result'.status \in {"found", "absent", "failure"}
         /\ result'.clusters \in 0..MaxClusters
         /\ pc' \in {"idle", "undefined"} /\ Found' /\ ListingRight' /\ Missing'
<1>1. VolumeType /\ PlaceType /\ DirType /\ ChainType /\ RootRight /\ Reading
  BY ListParts
<1>2. pc = "chain" /\ UNCHANGED <<volume, geo, fat, op, want>>
  BY DEF ReadCluster, unchangedByChain
<1>3. /\ handle' \in HandleEntry /\ pc' \in {"idle", "undefined"}
      /\ result'.status \in {"found", "absent", "failure"} /\ result'.clusters = 0
  BY <1>1, <1>2, FailureFinds DEF DirType
<1>4. ListingRight'
  BY <1>3 DEF ListingRight
<1>5. Found' /\ Missing'
  <2> SUFFICES ASSUME ~missed', geo = volume.geo,
                      geo.type = "FAT32" => EndOfChain("FAT32", volume.table[geo.rootStart])
               PROVE  FALSE
    BY <1>2 DEF Found, Missing, LookedThrough
  <2>1. geo.type = "FAT32"
    BY <1>1, <1>2 DEF Reading
  <2>2. EntriesRead = {volume.table[volume.geo.rootStart]}
    BY <1>1, RootInBuffer
  <2>3. next = volume.table[geo.rootStart]
    BY <2>2
  <2> QED
    BY <2>1, <2>3
<1>6. 0 \in 0..MaxClusters
  BY FatAssumption
<1> QED
  BY <1>3, <1>4, <1>5, <1>6

LEMMA ReadClusterList ==
  ASSUME TableInv, ListInv, ReadCluster
  PROVE  ListInv'
<1>0. pc \in Mounted /\ Next
  BY DEF ReadCluster, Mounted, Next, Step
<1>1. VolumeType /\ PlaceType /\ DirType /\ ChainType /\ RootRight /\ OfRoot(list) /\ Reading
  BY ListParts
<1>2. VolumeType' /\ RootRight' /\ UNCHANGED <<volume, geo, fat, op, want>>
  BY <1>0, <1>1, MountedKept DEF ReadCluster, unchangedByChain
<1>3. pc = "chain" /\ i < MaxClusters /\ (op = "read" \/ i = 0) /\ i \in Nat /\ MaxClusters \in Nat
  BY <1>1, FatAssumption DEF ReadCluster, ChainType
<1>4. PICK next \in EntriesRead : Follow(next)
  BY DEF ReadCluster
<1>5. next \in Nat
  BY <1>1, <1>3, NextType
<1>6. /\ DOMAIN buffer' = DOMAIN buffer
      /\ \A p \in DOMAIN buffer' : buffer'[p] \in 0..volume.geo.sectors-1 \cup {Stale}
      /\ missed' \in BOOLEAN
  BY <1>1, BufferType
<1>7. CASE i' = i /\ cluster' = cluster /\ pc' \in {"idle", "undefined"}
           /\ list' \in [Slots -> Entry] /\ OfRoot(list)' /\ total' \in Nat
           /\ handle' \in HandleEntry
           /\ result'.status \in {"none", "found", "absent", "listed", "failure", "read"}
           /\ result'.clusters \in 0..MaxClusters
           /\ Found' /\ ListingRight' /\ Missing'
  <2>1. DirType'
    BY <1>6, <1>7 DEF DirType
  <2>2. ChainType'
    BY <1>1, <1>2, <1>6, <1>7 DEF ChainType
  <2> QED
    BY <1>0, <1>2, <1>7, <2>1, <2>2, AnswerList
<1>8. CASE EndOfChain(geo.type, next) /\ ChainEnds /\ UNCHANGED <<i, cluster>>
  <2>1. CASE op = "read"
    <3>1. /\ result' = [status |-> "read", clusters |-> i + 1] /\ pc' = "idle"
          /\ UNCHANGED <<list, total, handle>>
      BY <1>8, <2>1 DEF ChainEnds
    <3>2. result'.status = "read" /\ result'.clusters = i + 1 /\ i + 1 \in 0..MaxClusters
      BY <1>3, <3>1
    <3>3. Found' /\ ListingRight' /\ Missing'
      BY <3>2, Silent
    <3>4. OfRoot(list)'
      BY <1>1, <1>2, <3>1, OfRootKept
    <3> QED
      BY <1>1, <1>7, <1>8, <3>1, <3>2, <3>3, <3>4 DEF DirType
  <2>2. CASE op # "read"
    <3>1. DirectoryRead
      BY <1>8, <2>2 DEF ChainEnds
    <3>2. /\ list' \in [Slots -> Entry] /\ OfRoot(list)' /\ total' \in Nat
          /\ handle' \in HandleEntry
          /\ result'.status \in {"found", "absent", "listed", "none"}
          /\ result'.clusters \in 0..MaxClusters
          /\ pc' \in {"idle", "undefined"} /\ Found' /\ ListingRight' /\ Missing'
      BY <2>2, <3>1, DirectoryAnswer
    <3> QED
      BY <1>7, <1>8, <3>2
  <2> QED
    BY <2>1, <2>2
<1>9. CASE ~EndOfChain(geo.type, next) /\ ChainFails /\ UNCHANGED <<i, cluster>>
  <2>0. UNCHANGED <<list, total>> /\ OfRoot(list)'
    BY <1>1, <1>2, <1>9, OfRootKept DEF ChainFails
  <2>1. CASE op = "read"
    <3>1. result' = [status |-> "failure", clusters |-> 0] /\ pc' = "idle" /\ handle' = handle
      BY <1>9, <2>1 DEF ChainFails
    <3>2. result'.status = "failure" /\ result'.clusters = 0 /\ 0 \in 0..MaxClusters
      BY <1>3, <3>1
    <3>3. Found' /\ ListingRight' /\ Missing'
      BY <3>2, Silent
    <3> QED
      BY <1>1, <1>7, <1>9, <2>0, <3>1, <3>2, <3>3 DEF DirType
  <2>2. CASE op # "read"
    <3>1. ListingFails
      BY <1>9, <2>2 DEF ChainFails
    <3>2. /\ handle' \in HandleEntry /\ result'.status \in {"found", "absent", "failure"}
          /\ result'.clusters \in 0..MaxClusters
          /\ pc' \in {"idle", "undefined"} /\ Found' /\ ListingRight' /\ Missing'
      BY <1>9, <2>0, <2>2, <3>1, FailureAnswer
    <3> QED
      BY <1>1, <1>7, <1>9, <2>0, <3>2 DEF DirType
  <2> QED
    BY <2>1, <2>2
<1>10. CASE next >= 2 /\ cluster' = next /\ i' = i + 1
            /\ UNCHANGED <<pc, list, total, handle, result>>
  <2>1. result'.status = "none"
    BY <1>1, <1>3, <1>10 DEF Reading
  <2>2. PlaceType' /\ OfRoot(list)'
    BY <1>1, <1>2, <1>10, OfRootKept DEF PlaceType
  <2>3. DirType'
    BY <1>1, <1>6, <1>10 DEF DirType
  <2>4. ChainType'
    BY <1>1, <1>2, <1>3, <1>5, <1>6, <1>10 DEF ChainType
  <2>5. Reading'
    <3>1. DOMAIN fat = 0..geo.sectorsPerFat * BYTES_PER_SECTOR - 1
      BY <1>0, <1>1 DEF Reading
    <3>2. i' # 0 /\ pc' = "chain"
      BY <1>3, <1>10
    <3>3. \/ op = "read" /\ DOMAIN buffer' = 0..MaxClusters * geo.sectorsPerCluster - 1
          \/ op # "read" /\ geo.type = "FAT32" /\ DOMAIN buffer' = 0..geo.sectorsPerCluster-1
      BY <1>1, <1>3, <1>6 DEF Reading
    <3> QED
      BY <1>2, <2>1, <3>1, <3>2, <3>3 DEF Reading
  <2>6. ListingRight' /\ Found' /\ Missing'
    BY <2>1, Silent
  <2> QED
    BY <1>2, <2>2, <2>3, <2>4, <2>5, <2>6, ListParts, PTL
<1> QED
  BY <1>4, <1>8, <1>9, <1>10 DEF Follow

LEMMA StackOverrunList ==
  ASSUME ListInv, StackOverrun
  PROVE  ListInv'
<1>0. pc \in Mounted /\ Next
  BY DEF StackOverrun, Mounted, Next, Step
<1>1. DirType /\ ChainType /\ OfRoot(list) /\ Reading
  BY ListParts
<1>2. pc = "chain" /\ pc' = "undefined"
      /\ UNCHANGED <<list, total, i, cluster, buffer, handle, result, missed, volume, op, want>>
  BY DEF StackOverrun, unchangedByChain
<1>3. result'.status = "none"
  BY <1>1, <1>2 DEF Reading
<1>4. DirType' /\ ChainType' /\ OfRoot(list)'
  BY <1>1, <1>2, OfRootKept DEF DirType, ChainType
<1>5. ListingRight' /\ Found' /\ Missing'
  BY <1>3, Silent
<1> QED
  BY <1>0, <1>2, <1>4, <1>5, AnswerList

LEMMA StutterList ==
  ASSUME ListInv, UNCHANGED vars
  PROVE  ListInv'
<1>1. VolumeType' /\ PlaceType' /\ DirType' /\ ChainType' /\ RootRight'
  BY ListParts DEF vars, VolumeType, PlaceType, DirType, ChainType, RootRight, RootSectors
<1>2. Reading'
  BY ListParts DEF vars, Reading, RootSoFar, Counted, HasRoot
<1>3. ListingRight' /\ Found' /\ Missing' /\ OfRoot(list)'
  BY ListParts DEF vars, ListingRight, Found, Missing, LookedThrough, InRoot, OfRoot
<1> QED
  BY <1>1, <1>2, <1>3, ListParts, PTL

LEMMA StepList == TableInv /\ ListInv /\ [Next]_vars => ListInv'
<1> SUFFICES ASSUME TableInv, ListInv, [Next]_vars PROVE ListInv'
  OBVIOUS
<1>1. CASE Step
  BY <1>1, MountParametersList, MountTableList, RootSectorList, RootSectorFailsList, RootDoneList,
     ReadClusterList, StackOverrunList DEF Step
<1>2. CASE List \/ Read \/ \E name \in Names : Open(name)
  BY <1>2, ListList, ReadList, OpenList
<1>3. CASE UNCHANGED vars
  BY <1>3, StutterList
<1> QED
  BY <1>1, <1>2, <1>3 DEF Next

\* The inductive invariant of the directory: the types, how far a listing is,
\* and what its answer says of the disk.
THEOREM ListInvariance == Spec => []ListInv
<1>1. Init => TableInv /\ ListInv
  BY InitTable, InitList
<1>2. TableInv /\ ListInv /\ [Next]_vars => (TableInv /\ ListInv)'
  BY StepTable, StepList
<1> QED
  BY <1>1, <1>2, PTL DEF Spec

\* Everything is of its type: no sector outside the disk is ever in a buffer,
\* and the table in memory is bytes, whatever fails.
THEOREM FatTyped == Spec => []TypeOK
<1>1. ListInv => TypeOK
  BY DEF ListInv
<1> QED
  BY ListInvariance, <1>1, PTL

\* A listing that succeeds has counted the root and has its entries, for
\* every size of directory (fat12_list_root, fat12_list_dir).
THEOREM ListingIsRoot == Spec => []ListingRight
<1>1. ListInv => ListingRight
  BY DEF ListInv
<1> QED
  BY ListInvariance, <1>1, PTL

\* A lookup in which nothing went wrong finds a file only where the root has
\* it, and that file, and misses none in a directory of up to a sector but a
\* name of eight letters (find_file).
THEOREM LookupFindsName == Spec => []LookupRight
<1>1. ListInv => LookupRight
  BY DEF ListInv
<1> QED
  BY ListInvariance, <1>1, PTL

=============================================================================
