\* Two requests for one command; the bounds stop the process.
SPECIFICATION WebSpec
CHECK_DEADLOCK FALSE
CONSTANTS
  main = main
  h1 = h1
  h2 = h2
  nobody = nobody
  l1 = l1
  Main = main
  Handler = {h1, h2}
  Nobody = nobody
  Stored = {l1}
  Query <- Asked
  MaxEntries = 2
  MaxRequests = 2
INVARIANTS
  FetchReturnsItsList
