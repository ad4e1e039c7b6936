SPECIFICATION LiveSpec
CONSTANTS
  j1 = j1
  j2 = j2
  j3 = j3
  w1 = w1
  w2 = w2
  w3 = w3
  linux = linux
  windows = windows
  x64 = x64
  None = None
  Timer = Timer
  AnyAxis = AnyAxis
  k1 = k1
  whole = whole
  torn = torn
  t = t
  u = u
  x = x
  z = z
  p1 = p1
  p2 = p2
  Corrupt = Corrupt
  Absent = Absent
  Jobs = {j1}
  Workers = {w1, w2}
  Plat <- OneDemand
  Host <- TwoLinux
  DriverHost <- LinuxHost
  Crate <- OnePinned
  Slots <- OneSlot
  MaxAttempts = 2
  LocalExec = TRUE
  Locality = TRUE
  Mortal = {w1}
  Calls = {c1}
  Keys = {k1}
  Results = {whole, torn}
  Peers = {p1, p2}
  Blobs = {t, u, x, z}
  Outputs <- TheOutputs
  Trees = {t, u}
  Inside <- TheInside
  Seed <- LateSeed
  Late = {p1}
  Builds <- FreshBuild
  Uploads = {whole}
  ProbesFail = FALSE
PROPERTY EveryJobIsAnswered
PROPERTY RefusalsEnd
