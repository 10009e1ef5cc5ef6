SPECIFICATION FairSpec
CONSTANTS
  BYTES_PER_SECTOR = 20
  DIR_ENTRIES_PER_SECTOR = 2
  Geometries <- MCGeometries
  Leftovers <- MCLeftovers
  Tables <- MCTables
  Roots <- MCRoots
  First <- MCFirst
  EightLetters <- MCEightLetters
  Odd <- MCOdd
  Remains <- MCRemains
  MaxClusters = 4
INVARIANTS TypeOK TableRight FileRight ListingRight LookupRight
PROPERTIES ReadEnds
CHECK_DEADLOCK FALSE
