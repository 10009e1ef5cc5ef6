-------------------------------- MODULE Fat --------------------------------
(***************************************************************************)
(* The FAT file system driver (drivers/fs/fat12.c) with find_file and      *)
(* read_sectors_lba of drivers/fs/fs.c: a volume is mounted, its root      *)
(* directory is listed, a file is looked up in it and its chain of         *)
(* clusters is read.  The device may fail at any sector, and the driver    *)
(* looks at some of its failures only.                                     *)
(*                                                                         *)
(* The content of a sector is the number of the sector; of a directory     *)
(* sector, also the entries in it.  Nothing is ever written to the disk.   *)
(***************************************************************************)
EXTENDS FatTable, Sequences, FiniteSets

CONSTANTS Geometries,    \* what a first sector may say
          Leftovers,     \* those of other disks that may be left in memory
          Tables,        \* the allocation tables, by type
          Roots,         \* the root directories: sequences of names
          First,         \* the first cluster of each name
          EightLetters,  \* the names of eight letters
          Odd,           \* what may be found past the table in memory
          Remains,       \* entries of a lookup's array that it has not written
          MaxClusters    \* bound: clusters of one read

Names == DOMAIN First

ASSUME FatAssumption == /\ \A geo \in Geometries : geo.type \in FatTypes \cup {"other"}
                        /\ Leftovers \subseteq Geometries
                        /\ \A geo \in Geometries :
                             /\ geo.sectors \in Nat /\ geo.reserved \in Nat
                             /\ geo.fats \in Nat /\ geo.sectorsPerFat \in Nat
                             /\ geo.rootEntries \in Nat /\ geo.rootStart \in Nat
                             /\ geo.sectorsPerCluster \in Nat \ {0}
                        /\ First \in [Names -> Nat]
                        /\ Roots \subseteq Seq(Names)
                        /\ Odd \subseteq Nat
                        /\ \A entry \in Remains : entry.first \in Nat
                        /\ MaxClusters \in Nat \ {0}

\* A formatted disk: the entries fit the type, and the table, with a place in
\* its sectors, has one for every cluster that is on the disk.  Where the
\* root is a chain, it starts at a cluster.
ASSUME FormatAssumption ==
  \A geo \in Geometries : geo.type \in FatTypes =>
    /\ geo.type = "FAT32" => geo.rootStart >= 2
    /\ \A table \in Tables[geo.type] :
         /\ DOMAIN table \subseteq Nat /\ \A c \in DOMAIN table : table[c] \in Entries(geo.type)
         /\ \A c \in 2..geo.sectors + 2 : SectorOf(geo, c) < geo.sectors =>
              /\ c \in DOMAIN table
              /\ LastByte(geo.type, c) < geo.sectorsPerFat * BYTES_PER_SECTOR

Stale == -1   \* a sector of a buffer that has not been read into

VARIABLES volume,    \* the disk: [geo, table, root]
          geo,       \* instance_data
          fat,       \* the table in memory, a byte at each offset
          pc,        \* where the driver is
          op,        \* for whom it is there: "list", "open" or "read"
          want,      \* the name looked for
          list,      \* what this listing wrote to dir_entry_list_out
          total,     \* how many there are said to be
          i,         \* the sector of the root, or cluster_index
          cluster,   \* the cluster to be read
          buffer,    \* the sectors read
          handle,    \* the entry that the last lookup found
          result,    \* what the last operation returned
          missed     \* history: the device has failed in it

vars == <<volume, geo, fat, pc, op, want, list, total, i, cluster, buffer, handle,
          result, missed>>

NoEntry == [name |-> "none", exact |-> FALSE, first |-> 0]
Slots == 0..DIR_ENTRIES_PER_SECTOR-1

\* The k-th sector of the root directory.
RootLba(g, k) == IF g.type = "FAT32" THEN SectorOf(g, g.rootStart) + k
                                      ELSE RootAreaStart(g) + k

RootSectors(v) == IF v.geo.type = "FAT32" THEN v.geo.sectorsPerCluster
                                          ELSE SectorsPerDir(v.geo)

\* The names in n sectors from one on: none, unless that is of the root
\* directory.
NamesIn(lba, n) ==
  LET k == lba - RootLba(volume.geo, 0)
      last == (k + n) * DIR_ENTRIES_PER_SECTOR
  IN IF lba # Stale /\ k \in 0..RootSectors(volume)-1
       THEN SubSeq(volume.root, k * DIR_ENTRIES_PER_SECTOR + 1,
                   IF last < Len(volume.root) THEN last ELSE Len(volume.root))
       ELSE <<>>

\* A name of eight letters is copied together with what follows it.
Copied(name) == [name |-> name, exact |-> name \notin EightLetters, first |-> First[name]]

\* dir_entry_list_out after fat_parse_dir_entries: written from its start.
Parsed(names, entries) ==
  [s \in Slots |-> IF s < Len(names) THEN Copied(names[s + 1]) ELSE entries[s]]

Init == \E g \in Geometries :
          /\ \E root \in Roots, table \in Tables[g.type] :
               /\ volume = [geo |-> g, table |-> table, root |-> root]
               /\ Len(root) <= RootSectors(volume) * DIR_ENTRIES_PER_SECTOR
          /\ geo = g
          /\ fat = <<>>
          /\ pc = "unmounted"
          /\ op = "list"
          /\ want = "none"
          /\ list = [s \in Slots |-> NoEntry]
          /\ total = 0
          /\ i = 0
          /\ cluster = 0
          /\ buffer = <<>>
          /\ handle = NoEntry
          /\ result = [status |-> "none", clusters |-> 0]
          /\ missed = FALSE

unchangedByMount == <<volume, op, want, list, total, i, cluster, buffer, handle, result>>

-----------------------------------------------------------------------------
(* fat12_init *)

\* The first sector.  If it cannot be read, the driver goes on with what the
\* last call left on the stack: that of another disk, or nothing.
MountParameters ==
  /\ pc = "unmounted"
  /\ \E g \in {volume.geo} \cup Leftovers :
       /\ missed' = (g # volume.geo)
       /\ geo' = g
       /\ pc' = IF g.type = "other" \/ g.sectors = 0 THEN "refused" ELSE "table"
  /\ UNCHANGED <<fat, unchangedByMount>>

\* fat12_read_fat, whose failure is looked at.  What is found where the disk
\* has no table is taken to be blank.
MountTable ==
  /\ pc = "table"
  /\ \/ pc' = "refused" /\ UNCHANGED fat
     \/ /\ pc' = "idle"
        /\ fat' = [b \in 0..geo.sectorsPerFat * BYTES_PER_SECTOR - 1 |->
                     IF geo.reserved = volume.geo.reserved /\ volume.geo.type \in FatTypes
                       THEN TableByte(volume.geo.type, volume.table, b) ELSE 0]
  /\ UNCHANGED <<geo, missed, unchangedByMount>>

-----------------------------------------------------------------------------
(* Operations begin *)

\* fat12_list_root: the root of a FAT32 volume is a chain, read into a buffer
\* on the stack.
BeginListing ==
  /\ list' = [s \in Slots |-> NoEntry]
  /\ total' = 0
  /\ i' = 0
  /\ missed' = FALSE
  /\ result' = [status |-> "none", clusters |-> 0]
  /\ IF geo.type = "FAT32"
       THEN /\ pc' = "chain"
            /\ cluster' = geo.rootStart
            /\ buffer' = [p \in 0..geo.sectorsPerCluster-1 |-> Stale]
       ELSE /\ pc' = "root"
            /\ cluster' = 0
            /\ buffer' = <<>>

\* list_dir of a mounted volume.
List == /\ pc = "idle"
        /\ op' = "list"
        /\ BeginListing
        /\ UNCHANGED <<volume, geo, fat, want, handle>>

\* find_file, called by open_file.
Open(name) == /\ pc = "idle"
              /\ op' = "open"
              /\ want' = name
              /\ handle' = NoEntry
              /\ BeginListing
              /\ UNCHANGED <<volume, geo, fat>>

\* fat12_read_file, called by read.
Read == /\ pc = "idle" /\ handle # NoEntry
        /\ op' = "read"
        /\ pc' = "chain"
        /\ cluster' = handle.first
        /\ i' = 0
        /\ buffer' = [p \in 0..MaxClusters * geo.sectorsPerCluster - 1 |-> Stale]
        /\ result' = [status |-> "none", clusters |-> 0]
        /\ missed' = FALSE
        /\ UNCHANGED <<volume, geo, fat, want, list, total, handle>>

-----------------------------------------------------------------------------
(* A directory has been read *)

Matches(entry) == entry.exact /\ entry.name = want

\* Fault: the last entry is not looked at.
SearchShort(entries, n) ==
  \/ /\ \E s \in Slots :
            /\ s + 1 < n /\ Matches(entries[s]) /\ \A t \in 0..s-1 : ~Matches(entries[t])
            /\ handle' = entries[s]
     /\ result' = [status |-> "found", clusters |-> 0]
     /\ pc' = "idle"
  \/ /\ \A s \in Slots : s + 1 < n => ~Matches(entries[s])
     /\ result' = [status |-> "absent", clusters |-> 0]
     /\ pc' = IF n > DIR_ENTRIES_PER_SECTOR THEN "undefined" ELSE "idle"
     /\ UNCHANGED handle

\* The loop of find_file over the first n entries.  It does not stop at the
\* end of the array.
Search(entries, n) ==
  \/ /\ \E s \in Slots :
            /\ s < n /\ Matches(entries[s]) /\ \A t \in 0..s-1 : ~Matches(entries[t])
            /\ handle' = entries[s]
     /\ result' = [status |-> "found", clusters |-> 0]
     /\ pc' = "idle"
  \/ /\ \A s \in Slots : s < n => ~Matches(entries[s])
     /\ result' = [status |-> "absent", clusters |-> 0]
     /\ pc' = IF n > DIR_ENTRIES_PER_SECTOR THEN "undefined" ELSE "idle"
     /\ UNCHANGED handle

\* The listing returns SUCCESS, to list_dir or to find_file.
Listed(entries, n) ==
  IF op = "open" THEN Search(entries, n)
  ELSE /\ result' = [status |-> "listed", clusters |-> 0]
       /\ pc' = "idle"
       /\ UNCHANGED handle

\* It returns FAILURE.  find_file takes -1 for a success and goes on with as
\* many entries as its variable happens to say; those that the listing did not
\* write are what the stack had in their place, from a lookup in this volume,
\* from one in another, or from anything else.
ListingFails ==
  IF op = "open"
    THEN \E held \in [Slots -> {NoEntry} \cup Remains], n \in 0..DIR_ENTRIES_PER_SECTOR + 1 :
           Search([s \in Slots |-> IF list[s] = NoEntry THEN held[s] ELSE list[s]], n)
  ELSE /\ result' = [status |-> "failure", clusters |-> 0]
       /\ pc' = "idle"
       /\ UNCHANGED handle

-----------------------------------------------------------------------------
(* The root of a FAT12 or FAT16 volume, sector by sector *)

unchangedByRoot == <<volume, geo, fat, op, want, cluster, buffer>>

\* Fault: every sector but the last is expected to be full.
RootSectorNoBreak ==
  /\ pc = "root" /\ i < SectorsPerDir(geo)
  /\ LET names == NamesIn(RootLba(geo, i), 1)
     IN /\ list' = Parsed(names, list)
        /\ total' = total + DIR_ENTRIES_PER_SECTOR
        /\ i' = i + 1
  /\ UNCHANGED <<pc, handle, result, missed, unchangedByRoot>>

\* Each sector is parsed into the beginning of the list.
RootSector ==
  /\ pc = "root" /\ i < SectorsPerDir(geo) /\ total = i * DIR_ENTRIES_PER_SECTOR
  /\ RootLba(geo, i) < volume.geo.sectors
  /\ LET names == NamesIn(RootLba(geo, i), 1)
     IN /\ list' = Parsed(names, list)
        /\ total' = total + Len(names)
        /\ i' = i + 1
  /\ UNCHANGED <<pc, handle, result, missed, unchangedByRoot>>

RootSectorFails ==
  /\ pc = "root" /\ i < SectorsPerDir(geo) /\ total = i * DIR_ENTRIES_PER_SECTOR
  /\ missed' = TRUE
  /\ ListingFails
  /\ UNCHANGED <<list, total, i, unchangedByRoot>>

\* The last sector, or one that is not full.
RootDone ==
  /\ pc = "root" /\ (i = SectorsPerDir(geo) \/ total < i * DIR_ENTRIES_PER_SECTOR)
  /\ Listed(list, total)
  /\ UNCHANGED <<list, total, i, missed, unchangedByRoot>>

-----------------------------------------------------------------------------
(* fat12_read_file *)

unchangedByChain == <<volume, geo, fat, op, want>>

\* What is found where the table has the entry of the cluster.
EntriesRead == IF LastByte(geo.type, cluster) \in DOMAIN fat
                 THEN {Decode(geo.type, fat, cluster)} ELSE Odd

\* The sectors of the cluster, as many as the device gives, are read to
\* 512 * cluster_index.  That it failed is not noticed: !(-1) is not true.
ReadTo(position) ==
  LET lba == SectorOf(geo, cluster)
  IN \E got \in 0..geo.sectorsPerCluster :
       /\ got > 0 => lba >= 0 /\ lba + got <= volume.geo.sectors
       /\ buffer' = [p \in DOMAIN buffer |->
                       IF p - position \in 0..got-1 THEN lba + p - position ELSE buffer[p]]
       /\ missed' = (missed \/ got < geo.sectorsPerCluster)

\* fat12_list_dir: a sector that was not read may look empty or hold
\* anything, and the list may have more entries than there is place for.
DirectoryRead ==
  LET names == NamesIn(buffer'[0], Cardinality({p \in DOMAIN buffer' : buffer'[p] # Stale}))
  IN \/ /\ Len(names) <= DIR_ENTRIES_PER_SECTOR
        /\ list' = Parsed(names, list)
        /\ total' = Len(names)
        /\ Listed(Parsed(names, list), Len(names))
     \/ /\ Len(names) > DIR_ENTRIES_PER_SECTOR \/ missed'
        /\ pc' = "undefined"
        /\ UNCHANGED <<list, total, handle, result>>

\* Fault: one cluster more than was read.
ChainEndsPlusOne ==
  IF op = "read"
    THEN /\ result' = [status |-> "read", clusters |-> i + 2]
         /\ pc' = "idle"
         /\ UNCHANGED <<list, total, handle>>
    ELSE DirectoryRead

ChainEnds ==
  IF op = "read"
    THEN /\ result' = [status |-> "read", clusters |-> i + 1]
         /\ pc' = "idle"
         /\ UNCHANGED <<list, total, handle>>
    ELSE DirectoryRead

ChainFails ==
  /\ UNCHANGED <<list, total>>
  /\ IF op = "read"
       THEN /\ result' = [status |-> "failure", clusters |-> 0]
            /\ pc' = "idle"
            /\ UNCHANGED handle
       ELSE ListingFails

\* Fault: cluster_index is not advanced.
FollowInPlace(next) ==
  \/ /\ EndOfChain(geo.type, next)
     /\ ChainEnds
     /\ UNCHANGED <<i, cluster>>
  \/ /\ ~EndOfChain(geo.type, next) /\ next < 2
     /\ ChainFails
     /\ UNCHANGED <<i, cluster>>
  \/ /\ ~EndOfChain(geo.type, next) /\ next >= 2
     /\ cluster' = next
     /\ UNCHANGED <<i, pc, list, total, handle, result>>

\* Fault: the end of the chain is not looked for.
FollowNoEnd(next) ==
  \/ /\ next < 2
     /\ ChainFails
     /\ UNCHANGED <<i, cluster>>
  \/ /\ next >= 2
     /\ cluster' = next
     /\ i' = i + 1
     /\ UNCHANGED <<pc, list, total, handle, result>>

Follow(next) ==
  \/ /\ EndOfChain(geo.type, next)
     /\ ChainEnds
     /\ UNCHANGED <<i, cluster>>
  \/ /\ ~EndOfChain(geo.type, next) /\ next < 2
     /\ ChainFails
     /\ UNCHANGED <<i, cluster>>
  \/ /\ ~EndOfChain(geo.type, next) /\ next >= 2
     /\ cluster' = next
     /\ i' = i + 1
     /\ UNCHANGED <<pc, list, total, handle, result>>

\* One turn of the loop.  That a read stops after MaxClusters is a bound of the
\* model: the code has none.
ReadCluster == /\ pc = "chain" /\ i < MaxClusters
               /\ op = "read" \/ i = 0
               /\ ReadTo(i)
               /\ \E next \in EntriesRead : Follow(next)
               /\ UNCHANGED unchangedByChain

\* A directory of two clusters does not fit in the buffer on the stack.
StackOverrun == /\ pc = "chain" /\ i > 0 /\ op # "read"
                /\ pc' = "undefined"
                /\ UNCHANGED <<list, total, i, cluster, buffer, handle, result, missed,
                               unchangedByChain>>

Step == \/ MountParameters \/ MountTable
        \/ RootSector \/ RootSectorFails \/ RootDone
        \/ ReadCluster \/ StackOverrun

Next == \/ Step
        \/ List \/ Read
        \/ \E name \in Names : Open(name)

Spec == Init /\ [][Next]_vars

\* The driver runs; the device answers or fails.
FairSpec == Spec /\ WF_vars(Step)

-----------------------------------------------------------------------------
(* Properties *)

TypeOK == /\ volume.geo \in Geometries /\ volume.root \in Roots
          /\ volume.table \in Tables[volume.geo.type]
          /\ geo \in Geometries
          /\ DOMAIN fat \subseteq Nat /\ \A b \in DOMAIN fat : fat[b] \in Byte
          /\ pc \in {"unmounted", "refused", "table", "idle", "root", "chain", "undefined"}
          /\ op \in {"list", "open", "read"}
          /\ want \in Names \cup {"none"}
          /\ list \in [Slots -> {NoEntry} \cup {Copied(name) : name \in Names}]
          /\ total \in Nat /\ cluster \in Nat
          /\ i \in Nat /\ (pc = "chain" => i <= MaxClusters)
          /\ \A p \in DOMAIN buffer : buffer[p] \in 0..volume.geo.sectors-1 \cup {Stale}
          /\ handle \in {NoEntry} \cup {Copied(name) : name \in Names} \cup Remains
          /\ result.status \in {"none", "found", "absent", "listed", "failure", "read"}
          /\ result.clusters \in 0..MaxClusters
          /\ missed \in BOOLEAN

\* Once mounted as what it is, the volume's table is read back from the
\* packed bytes as it was written: every entry, odd or even.
TableRight ==
  pc \in {"idle", "root", "chain"} /\ geo = volume.geo =>
    \A c \in DOMAIN volume.table :
       LastByte(geo.type, c) \in DOMAIN fat => Decode(geo.type, fat, c) = volume.table[c]

ClusterAt(lba) == (lba - FirstDataSector(volume.geo)) \div volume.geo.sectorsPerCluster + 2
NextOnDisk(lba) == volume.table[ClusterAt(lba)]

\* The file in the first n clusters of the buffer: all the sectors of each
\* cluster, each cluster the one that the table names after the last, and
\* the chain is at its end.
WholeFile(n) ==
  LET per == volume.geo.sectorsPerCluster
  IN /\ buffer[0] = SectorOf(volume.geo, handle.first)
     /\ \A p \in 0..n*per-1 : p % per # 0 => buffer[p] = buffer[p-1] + 1
     /\ \A k \in 0..n-2 :
          buffer[(k + 1) * per] = SectorOf(volume.geo, NextOnDisk(buffer[k * per]))
     /\ EndOfChain(volume.geo.type, NextOnDisk(buffer[(n - 1) * per]))

FileWasRead == /\ result.status = "read" /\ ~missed
               /\ geo = volume.geo /\ handle.first >= 2

\* A read that nothing went wrong in has read the file, whole and in order,
\* and tells its length, where a cluster is a sector.  Where it has more, the
\* clusters still are put one sector apart.
FileRight == FileWasRead /\ geo.sectorsPerCluster = 1 => WholeFile(result.clusters)

\* A listing that succeeds says how many entries the root has, and has those
\* entries if they fit in a sector.  No failure of the device gets past it,
\* except where the root is a chain.
ListingRight ==
  result.status = "listed" /\ op = "list" /\ geo = volume.geo /\ (geo.type = "FAT32" => ~missed) =>
    /\ total = Len(volume.root)
    /\ total <= DIR_ENTRIES_PER_SECTOR =>
         \A s \in 0..total-1 : list[s] = Copied(volume.root[s + 1])

InRoot(name) == \E k \in 1..Len(volume.root) : volume.root[k] = name

\* Nothing went wrong in the lookup: the device did not fail, and the chain of
\* a FAT32 directory ends with its first cluster.
LookedThrough ==
  ~missed /\ geo = volume.geo
  /\ (geo.type = "FAT32" => EndOfChain("FAT32", volume.table[geo.rootStart]))

\* A lookup in which nothing went wrong finds a file only where the root has
\* one of the name, and it is that file, not one that an earlier lookup, be it
\* in another volume, left on the stack.  It misses none in a directory of up
\* to a sector but those with names of eight letters.
LookupRight ==
  LookedThrough =>
    /\ result.status = "found" => InRoot(want) /\ handle = Copied(want)
    /\ result.status = "absent" /\ Len(volume.root) <= DIR_ENTRIES_PER_SECTOR =>
         want \in EightLetters \/ ~InRoot(want)

\* The chain that starts at a cluster has an end, within n clusters.
Ends(c, n) ==
  \E path \in [1..n -> DOMAIN volume.table] :
     /\ path[1] = c
     /\ \A k \in 1..n-1 : volume.table[path[k]] = path[k + 1] /\ path[k] >= 2
     /\ EndOfChain(volume.geo.type, volume.table[path[n]])

\* A read of a chain that has an end returns, whatever the device does.
ReadEnds ==
  (pc = "chain" /\ op = "read" /\ i = 0 /\ geo = volume.geo
   /\ \E n \in 1..MaxClusters : Ends(cluster, n)) ~> (pc = "idle")
=============================================================================
