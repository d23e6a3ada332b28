\* A player that ends while /player/stop looks for it.
SPECIFICATION Spec
CONSTANTS
  main = main
  h1 = h1
  h2 = h2
  nobody = nobody
  Main = main
  Handler <- OneHandler
  Nobody = nobody
  Timeout = 1
  MaxBacklog = 1
PROPERTIES
  StopHitsItsPlayer
