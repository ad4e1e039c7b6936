SPECIFICATION BanksSpec
CONSTANTS
  main = main
  topic = topic
  m1 = m1
  t1 = t1
  t2 = t2
  u1 = u1
  a = a
  b = b
  c = c
  p = p
  x = x
  y = y
  bad = bad
  driver = driver
  node = node
  k1 = k1
  k2 = k2
  k3 = k3
  None = None
  Jobs = {m1, t1, u1, t2}
  Lines = {main, topic}
  Line <- TheLine
  Trunk <- TheTrunk
  After <- TheAfter
  Page = 3
  Blobs = {a, b, c}
  NumRanges = 1
  RangeOf <- TheRange
  Shard <- TheShard
  Disk <- TheDisk
  Makes <- TheMakes
  MaxSpills = 1
  MaxGone = 1
  Paths = {p}
  Results = {x, y, bad}
  Failures = {bad}
  Roles = {driver, node}
  Driver = driver
  Role <- TheRole
  Run <- TheRun
  Rank <- TheRank
  ReadsAll <- TheMode
  Writes <- TheWrites
  Drivers = {m1, t1, t2}
  Keys = {k1, k2, k3}
  Learns <- TheLearns
CHECK_DEADLOCK FALSE
INVARIANT BanksTypeOK
INVARIANT NamedBlobsArePacked
INVARIANT OwnersHoldTheirRange
INVARIANT ListsMatchSegments
INVARIANT RowsSurviveTheLap
INVARIANT HydrationIsWhole
PROPERTY HistoryIsKept
PROPERTY WaitingSpillsAreAbsorbed
