CONSTANTS
  a = a
  b = b
  Tags = {a, b}
  DeadId = DeadId
  MaxPicks = 2
  MaxEdits = 0
  Queries <- PlainQueries
SPECIFICATION FairSpec
PROPERTY WalkEnds
