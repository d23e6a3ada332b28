\* A person disables the override while the player is paused.
SPECIFICATION FairSpec
CONSTANTS
  main = main
  h1 = h1
  h2 = h2
  nobody = nobody
  Main = main
  Handler <- OneHandler
  Nobody = nobody
  Timeout = 1
  MaxBacklog = 1
PROPERTIES
  DisableFinishes
