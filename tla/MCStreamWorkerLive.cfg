\* Delivery, AI: acquireLease.  One entry, two workers, every step fair.
CONSTANTS
  m1 = m1
  m2 = m2
  k1 = k1
  Msgs = {m1}
  Keys = {k1}
  KeyOf <- SharedKey
  w1 = w1
  w2 = w2
  Workers = {w1, w2}
  Mode = "lease"
  BufferAcks = FALSE
  Concurrency = 1
  MaxRetries = 1
  ReclaimIdle = 1
  LeaseTtl = 1
  MaxDeliveries = 2
  MaxFaults = 1
SPECIFICATION FairSpec
PROPERTY Drains
