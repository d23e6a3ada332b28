\* The threads of automation and an acmd at one database; whoever is at a bound stops.
SPECIFICATION Spec
SYMMETRY Handlers
CHECK_DEADLOCK FALSE
CONSTANTS
  main = main
  h1 = h1
  h2 = h2
  a1 = a1
  shared = shared
  nobody = nobody
  l1 = l1
  l2 = l2
  i1 = i1
  i2 = i2
  i3 = i3
  file1 = file1
  file2 = file2
  show = show
  anon = anon
  schedule_row = schedule_row
  lock_row = lock_row
  List = {l1, l2}
  Item = {i1, i2, i3}
  Name <- Names
  NoName = anon
  Schedule = schedule_row
  Lock = {lock_row}
  Main = main
  Handler = {h1, h2}
  Acmd = {a1}
  Shared = shared
  Nobody = nobody
  Loaded <- TwoLoaded
  NewName = {1}
  Posted <- KnownAndNot
  Renamed = {show, anon}
  Weight = {1}
  MaxWrites = 3
INVARIANTS
  TypeOK
  AckedSurvives
  StaysConsistent
  LocksAreHeld
PROPERTIES
  WritesWhole
  AppendsStay
