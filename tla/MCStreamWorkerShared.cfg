\* Two entries of one key in one process: it may reclaim what it still queues.
CONSTANTS
  m1 = m1
  m2 = m2
  k1 = k1
  Msgs = {m1, m2}
  Keys = {k1}
  KeyOf <- SharedKey
  w1 = w1
  w2 = w2
  Workers = {w1}
  Mode = "lease"
  BufferAcks = FALSE
  Concurrency = 2
  MaxRetries = 1
  ReclaimIdle = 1
  LeaseTtl = 1
  MaxDeliveries = 2
  MaxFaults = 1
SPECIFICATION Spec
INVARIANTS NoLoss AtMostOnce
SYMMETRY Symmetry
