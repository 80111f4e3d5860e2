SPECIFICATION FairSpec
CONSTANTS
  l1 = l1
  Lists = {l1}
  Details = {2}
  Readers = {r1, r2}
  Creators = {c1}
  Matching <- MCMatching
  SortKey <- MCSortKey
  Offset <- MCOffset
  PageSize <- MCPageSize
  InitialRows = 1
  MaxRows = 2
  MaxStock = 1
  MaxMoves = 1
  Absent = Absent
  Faults = {"redis", "throw"}
INVARIANTS
  TypeOK
  NoEntryOutlivesInvalidation
PROPERTY CachesCatchUp
