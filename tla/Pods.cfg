SPECIFICATION Spec
CONSTANTS
  c1 = c1
  c2 = c2
  n1 = n1
  n2 = n2
  old = old
  new = new
  Containers = {c1, c2}
  Nodes = {n1}
  NodeOf <- Together
  Listed = {c1, c2}
  Images = {old, new}
  Unnamed = Unnamed
  Unset = Unset
  Absent = Absent
  NoList = NoList
  Worlds <- BothWorlds
  RefreshInterval = 2
INVARIANTS
  TypeOK
  ListHeld
  SettledAfterOneScrape
  DeletedPodForgotten
PROPERTIES
  NamedStaysNamed
  IntervalGoverns
