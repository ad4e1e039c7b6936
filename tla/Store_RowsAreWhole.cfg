SPECIFICATION BusySpec
CONSTANTS
  BlobTasks = {}
  RowTasks = {r1, r2}
  Results = {old, fresh}
  Inodes = {i1, i2, i3, i4}
  None = None
  MaxBusy = 2
INVARIANT RowsAreWhole
