SPECIFICATION DriverSpec
CONSTANTS
  j1 = j1
  j2 = j2
  j3 = j3
  w1 = w1
  w2 = w2
  w3 = w3
  linux = linux
  windows = windows
  x64 = x64
  None = None
  Timer = Timer
  AnyAxis = AnyAxis
  k1 = k1
  whole = whole
  torn = torn
  t = t
  u = u
  x = x
  z = z
  p1 = p1
  p2 = p2
  Corrupt = Corrupt
  Absent = Absent
  Jobs = {j1, j2, j3}
  Workers = {w1, w2, w3}
  Plat <- TheDemands
  Host <- ThreeHosts
  DriverHost <- LinuxHost
  Crate <- TheCrates
  Slots <- ThreeSlots
  MaxAttempts = 2
  LocalExec = FALSE
  Locality = FALSE
  Mortal = {w1, w2}
  Calls = {c1, c2}
  Keys = {k1}
  Results = {whole, torn}
  Peers = {p1, p2}
  Blobs = {t, u, x, z}
  Outputs <- TheOutputs
  Trees = {t, u}
  Inside <- TheInside
  Seed <- TheSeed
  Late = {}
  Builds <- TheBuilds
  Uploads = {}
  ProbesFail = TRUE
SYMMETRY DriverSymmetry
INVARIANT TypeOK
INVARIANT CreditsMatchFrames
INVARIANT FramesReachAdmittingWorkers
INVARIANT JobsHaveOnePlace
INVARIANT TwinsShareOneWorker
INVARIANT CacheTypeOK
INVARIANT HitsNameExistingBlobs
INVARIANT OnlyRacedVerdictsAreStale
PROPERTY AnsweredJobsStayAnswered
PROPERTY ImplementsWorkQueue
