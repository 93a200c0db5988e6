SPECIFICATION PlatformSpec
CONSTANTS
  k1 = k1 k2 = k2
  Clients = {k1, k2}
  c1 = c1 c2 = c2
  Callers = {c1, c2}
  tA = tA tB = tB
  Tenants = {tA, tB}
  LastMigrated = tB
  Default = Default
  Nobody = Nobody
  MaxCalls = 4
  i1 = i1 i2 = i2
  Instances = {i1, i2}
  Public = Public
  TenantSchema = TenantSchema
  TenantSchemas = {TenantSchema}
  Files <- TwoAndThree
  OnceOnly <- Unguarded
  Seed <- SeedFile
  MaxCrashes = 2
INVARIANTS StatementsInOwnSchema ClientsReturnClean HistoryIsTrue
PROPERTIES FilesInOrder CallsEnd EveryInstanceStarts
CHECK_DEADLOCK FALSE
