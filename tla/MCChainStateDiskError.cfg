SPECIFICATION Spec
CONSTANTS
  Spent = Spent
  Absent = Absent
  Null = Null
  root = root
  a1 = a1
  a2 = a2
  b1 = b1
  b2 = b2
  b3 = b3
  g = g
  h = h
  t = t
  u = u
  cb1 = cb1
  cbx = cbx
  Outpoints <- MCOutpoints
  Blocks <- MCBlocks
  Root = root
  Parent <- MCParent
  Height <- MCHeight
  Chain <- MCChain
  Vtx <- MCVtx
  RootCoins <- MCRootCoins
  TransientErrors = TRUE
INVARIANTS
  DiskMatchesItsBlock
