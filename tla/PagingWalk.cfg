CONSTANTS
  a = a
  b = b
  Tags = {a, b}
  DeadId = DeadId
  MaxPicks = 3
  MaxEdits = 2
  Queries <- FilterQueries
SPECIFICATION FairSpec
INVARIANTS TypeOK NothingMissed
PROPERTIES InOrder FilterHolds EveryRoundEnds
