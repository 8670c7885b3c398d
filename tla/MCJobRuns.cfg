SPECIFICATION Spec
CONSTANTS
  j1 = j1
  r1 = r1
  r2 = r2
  w1 = w1
  w2 = w2
  Jobs = {j1}
  NoOwner = NoOwner
  Replicas = {r1, r2}
  Workers = {w1, w2}
  ReplicaOf <- MCReplicaOf
  Period <- MCPeriod
  Lease = 1
  Retention = 1
  MaxDelay = 1
  MaxTime = 3
  MaxManual = 1
SYMMETRY Swap
INVARIANTS
  TypeOK
  OneRunningRow
  OccurrenceRunsOnce
  OverlapNeedsExpiredLease
PROPERTY OutcomeIsFinal
CHECK_DEADLOCK FALSE
