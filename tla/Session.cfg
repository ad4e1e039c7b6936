SPECIFICATION FleetSpec
CONSTANTS
  Callers = {c1, c2}
  w1 = w1
  w2 = w2
  w3 = w3
  w4 = w4
  none = none
  Workers = {w1, w2, w3, w4}
  NoShard = none
  Shard <- FourShards
  MinWorkers = 2
  RequireShards = 2
  n1 = n1
  n2 = n2
  d0 = d0
  d1 = d1
  Nodes = {n1, n2}
  Of = 2
  NoPreload = none
  Preload <- ThePreload
  Digests = {d0, d1}
  ShardOf <- TheShardOf
  Holds <- TheHolds
  Relayed = {}
CHECK_DEADLOCK FALSE
INVARIANT TypeOK
INVARIANT DispatchOnlyAfterQuorum
INVARIANT SessionTypeOK
INVARIANT BanksLackOnlyWhatWasSkipped
PROPERTY ParkedCallsAreReleased
PROPERTY ShardsStayHome
PROPERTY EveryoneIsReleased
PROPERTY OrphansGiveUp
