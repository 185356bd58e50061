\* Engine, enricher: checkAndMark.  One entry, two workers.
CONSTANTS
  m1 = m1
  m2 = m2
  k1 = k1
  Msgs = {m1}
  Keys = {k1}
  KeyOf <- SharedKey
  w1 = w1
  w2 = w2
  Workers = {w1, w2}
  Mode = "mark"
  BufferAcks = TRUE
  Concurrency = 1
  MaxRetries = 2
  ReclaimIdle = 2
  LeaseTtl = 2
  MaxDeliveries = 3
  MaxFaults = 1
SPECIFICATION Spec
INVARIANTS DuplicateIsReal
SYMMETRY Symmetry
