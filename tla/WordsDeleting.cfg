CONSTANTS
  r1 = r1
  r2 = r2
  r3 = r3
  r4 = r4
  p1 = p1
  p2 = p2
  a = a
  b = b
  u1 = u1
  d1 = d1
  d2 = d2
  w1 = w1
  Txs = {r1, r2, r3}
  NoTx = NoTx
  Tags = {a, b}
  Users = {u1}
  Words = {w1}
  Defs = {d1}
  WordOf <- MCWordOf
  PickIds = {1, 2, 3, 4}
  Procs = {p1}
  Host <- OneReplica
  Inputs <- DeletingInputs
SPECIFICATION FairSpec
INVARIANTS NoDanglingRows
PROPERTIES ImplementsPickBook RemovedUnlessRolledBack EveryRequestAnswered
