\* A track whose player is slow to answer for the first time.
SPECIFICATION Spec
CONSTANTS
  main = main
  h1 = h1
  h2 = h2
  nobody = nobody
  Main = main
  Handler <- OneHandler
  Nobody = nobody
  Timeout = 1
  MaxBacklog = 1
PROPERTIES
  TimeoutHonoured
