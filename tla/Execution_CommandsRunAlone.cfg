SPECIFICATION ExecutionSpec
CONSTANTS
  t1 = t1
  t2 = t2
  t3 = t3
  p1 = p1
  p2 = p2
  box = box
  crate = crate
  src = src
  out = out
  Tasks = {t1, t2, t3}
  Procs = {p1, p2}
  Box <- TheBox
  Crate <- TheCrate
  Nil = Nil
  Inputs <- TheInputs
  Outs <- TheOuts
  Dirs = {d1, d2, d3}
  Slots = 2
  MaxDeaths = 1
  x1 = x1
  x2 = x2
  q = q
  u = u
  v = v
  y = y
  z = z
  la = la
  lb = lb
  Actions = {x1, x2, q, u, v, y, z}
  Args <- TheArgs
  Envs <- TheEnvs
  Declared <- TheDeclared
  Tree <- TheTree
  Platform <- ThePlatform
  Uncached = {}
  Compilers = {x1, x2, q, u, v, y, z}
  Requests = {r1, r2, r3}
  Plain = Plain
  Norm = Norm
  Corrupt = Corrupt
  Bank = Bank
  None = None
SYMMETRY Alike
CHECK_DEADLOCK FALSE
INVARIANT CommandsRunAlone
