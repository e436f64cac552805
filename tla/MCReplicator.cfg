\* Two writers, three keys, room for two writes, one retry: a key can have a
\* retried slot and a fresh one, and both writers can be held back.
CONSTANTS
  w1 = w1
  w2 = w2
  k1 = k1
  k2 = k2
  k3 = k3
  Keys = {k1, k2, k3}
  Writers = {w1, w2}
  Drainer = drainer
  NoItem = NoItem
  QueueMax = 2
  RetryMax = 1
  MaxWrites = 4
SPECIFICATION FairSpec
INVARIANTS
  NoLostWakeup
  NewestAccounted
  RetryBudget
PROPERTIES
  RefinesEagerWrites
  Drains
CHECK_DEADLOCK FALSE
