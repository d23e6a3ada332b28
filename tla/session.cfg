\* A handler, and a player that may hang, recover or end at any moment, under fairness.
SPECIFICATION FairSpec
CONSTANTS
  main = main
  h1 = h1
  h2 = h2
  nobody = nobody
  Main = main
  Handler <- OneHandler
  Nobody = nobody
  Timeout = 1
  MaxBacklog = 1
INVARIANTS
  TypeOK
  WritesToOpenPipe
PROPERTIES
  KeepsPromise
  MuteIsKilled
  PausedSettles
  HandlersFinish
