SPECIFICATION FairSpec
CONSTANTS
  Callers = {c1, c2}
  w1 = w1
  w2 = w2
  w3 = w3
  w4 = w4
  none = none
  Workers = {w1, w2, w3, w4}
  NoShard = none
  Shard <- FourShards
  MinWorkers = 2
  RequireShards = 2
CHECK_DEADLOCK FALSE
PROPERTY FormedPoolReleasesEveryCall
