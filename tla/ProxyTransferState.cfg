SPECIFICATION TSSpec
CONSTANTS
  Ids = {1, 2, 3}
  MaxInt64 = 99
  clientRid = 1
  clientUid = 2
  Names = {n1}
  Dims = {0, 1, 2}
  MaxEntities = 2
INVARIANTS
  ClientMirrorsBackend
  StableIdentity
