SPECIFICATION LeaseSpec
CONSTANTS
  c1 = c1
  c2 = c2
  c3 = c3
  w1 = w1
  w2 = w2
  Runs = {r1}
  Workers = {w1, w2}
  Clients = {c1, c2, c3}
  WorkerOf <- SharedWorker
  LeaseTTL = 2
  MaxLeases = 6
  None = None
INVARIANTS
  LeaseTypeOK
  OneLeaseOwner
PROPERTY LeaseNotStolen
