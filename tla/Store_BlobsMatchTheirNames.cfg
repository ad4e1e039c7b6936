SPECIFICATION BusySpec
CONSTANTS
  BlobTasks = {b1, b2}
  RowTasks = {}
  Results = {fresh}
  Inodes = {i1, i2, i3, i4}
  None = None
  MaxBusy = 2
INVARIANT BlobsMatchTheirNames
