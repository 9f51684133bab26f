\* Two discoveries of two devices, two users, one group.
CONSTANTS
  g1 = g1
  Ains = {1, 2}
  Groups = {g1}
  Discoveries = {d1, d2}
  Editors = {e1, e2}
  Requests <- MCRequests
  NoRow = NoRow
  NoAin = NoAin
  MaxBusy = 2
  MayFail = TRUE
SPECIFICATION Spec
INVARIANTS
  TypeOK
  FavouritesKept
PROPERTIES
  MirrorsReport
  EveryDiscoveryEnds
