SPECIFICATION FairSpec
CONSTANTS
  Readers = {r1}
  p1 = p1
  p2 = p2
  k1 = k1
  k2 = k2
  Products = {p1, p2}
  Keys = {k1, k2}
  Files <- MCFiles
  Unreadable = Unreadable
  Missing = Missing
  ReloadTime = 1
  Grace = 2
  LookupTime = 2
  HashExist = 0
  MaxEdits = 2
INVARIANTS
  TypeOK
  ReadersDisjoint
  ServedWhole
PROPERTIES
  LookupsForward
  EditServed
CHECK_DEADLOCK FALSE
