\* A day of every command, undisturbed; the process may stop, so deadlock is not an error.
SPECIFICATION Spec
CHECK_DEADLOCK FALSE
CONSTANTS
  t1 = t1
  t2 = t2
  t3 = t3
  ghost = ghost
  raw = raw
  p1 = p1
  p2 = p2
  none = none
  anon = anon
  CalendarField <- Fields
  TopOfHour <- Fields
  Localtime <- Clock
  Window = 12
  DefaultWait = 4
  HugeGap = 20
  ImplicitLegalId = TRUE
  ImplicitGap = 1
  NoName = anon
  Track <- Tracks
  MissingItem = {ghost}
  RawItem = {raw}
  NoItem = none
  Duration <- Lengths
  PlaylistName = {p1, p2}
  PlaylistItems <- Lists
  Weighted = {p1, p2}
  LegalPlaylists <- AllLegal
  LegalMaxLength = 4
  BumperTrack = {t2}
  BumperCutoff = 3
  SleepCutoff = 1
  DoInit = TRUE
  DefaultHuman = FALSE
  FastShutdown = FALSE
  Schedules <- EveryCommand
  Requests = {}
  MaxQueue = 1
  MaxTime = 26
  LastRequest <- NoRequests
  MaxPausing = 1
  Delay = 2
  MaxLeft = 2
INVARIANTS
  TypeOK
  OnTime
  BlockStartsInGap
  NothingOverlooked
PROPERTIES
  BlockIsBehind
  KeepsAgenda
