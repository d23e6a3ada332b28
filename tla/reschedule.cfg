\* A person takes over, pauses, stops and posts, and the schedule is replaced; the process may stop.
SPECIFICATION Spec
CHECK_DEADLOCK FALSE
CONSTANTS
  t1 = t1
  t2 = t2
  t3 = t3
  ghost = ghost
  raw = raw
  p1 = p1
  p2 = p2
  none = none
  anon = anon
  CalendarField <- Fields
  TopOfHour <- Fields
  Localtime <- Clock
  Window = 12
  DefaultWait = 4
  HugeGap = 20
  ImplicitLegalId = FALSE
  ImplicitGap = 1
  NoName = anon
  Track = {t1, t2}
  MissingItem = {ghost}
  RawItem = {raw}
  NoItem = none
  Duration <- ShortLengths
  PlaylistName = {p1}
  PlaylistItems <- ShortLists
  Weighted = {p1}
  LegalPlaylists <- ShortLegal
  LegalMaxLength = 4
  BumperTrack = {t1}
  BumperCutoff = 3
  SleepCutoff = 1
  DoInit = FALSE
  DefaultHuman = FALSE
  FastShutdown = FALSE
  Schedules <- Rewritten
  Requests <- MissingPosted
  MaxQueue = 1
  MaxTime = 6
  LastRequest = 1
  MaxPausing = 1
  Delay = 1
  MaxLeft = 1
INVARIANTS
  ReplacementFollowed
  SkippedStaysSkipped
PROPERTIES
  InternalTimeMonotone
