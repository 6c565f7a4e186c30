SPECIFICATION FairSpec
INVARIANTS TypeOK Reopens Durable
PROPERTIES Implements Delivered
CONSTANTS
  Clients = {c1, c2}
  Payloads = {a, b}
  Retain = 2
  Pending = 2
  MaxStreams = 2
  MaxId = 3
  MaxCrashes = 1
  MaxDrops = 1
CHECK_DEADLOCK FALSE
