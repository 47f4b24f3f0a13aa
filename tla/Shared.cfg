SPECIFICATION SharedSpec
CONSTANTS
  app = app
  extension = extension
  a1 = a1
  a2 = a2
  e1 = e1
  c1 = c1
  c2 = c2
  c3 = c3
  k1 = k1
  k2 = k2
  k3 = k3
  d1 = d1
  d2 = d2
  d3 = d3
  Threads = {a1, a2, e1}
  Processes = {app, extension}
  Home <- SomeHome
  Inodes = {i1, i2}
  NoOne = NoOne
  Files = {c1, c2, c3}
  MaxMmaps = 1
  MaxOpenFiles = 1
  Databases = {d1, d2, d3}
  NoDatabase = NoDatabase
  NoInode = NoInode
  Serial = FALSE
  MayDestroy = TRUE
  Client = {c1, c2}
  Key = {k1, k2}
  Charges = {1}
  capacity_ = 1
  HashOf <- SameHashes
  MinLength = 1
  MaxInserts = 4
SYMMETRY Clients
INVARIANTS OneThreadOfProcess LeftOnlyByFailure AloneOneHolder TablesAreKept EnvironmentKeeps
PROPERTIES ImplementsKeyedCache
CHECK_DEADLOCK FALSE
