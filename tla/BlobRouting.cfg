SPECIFICATION FairSpec
CONSTANTS
  Readers = {c1}
  Checkers = {c2}
  Workers = {w1, w2}
  None = None
  First = {w1}
  Seeded = {w2}
  Owners = {w2}
  Liars = {w1}
  Rounds = 2
  Mortal = {w2}
  Forgetful = {w1}
  Producers = {w1}
INVARIANT TypeOK
INVARIANT KnownHoldersAreNeverMissed
INVARIANT OwnerIsConsulted
INVARIANT PresenceIsTestified
PROPERTY ReadsSucceedInTheEnd
