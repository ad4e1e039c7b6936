SPECIFICATION BusySpec
CONSTANTS
  BlobTasks = {b1, b2}
  RowTasks = {r1, r2}
  Results = {old, fresh}
  Inodes = {i1, i2, i3, i4}
  None = None
  MaxBusy = 2
SYMMETRY StoreSymmetry
INVARIANT TypeOK
INVARIANT OnlyBankedFilesAreSpoilt
INVARIANT StoredBlobsStay
PROPERTY ImplementsAtomicStore
