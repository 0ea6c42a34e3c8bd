CONSTANTS
  x = x  y = y  p = p  q = q  r = r  key = key
  Tasks = {x, y, p, q, r}
  Exclusive = {x, y}
  Sync = {x, p, r}
  Keys = {key}
  KeyOf <- MCKeyOf
  NoKey = NoKey
  MaxTools = 4
  MaxWorkers = 1
SPECIFICATION FairSpec
INVARIANTS
  TypeOK
  ExclusiveAlone
  SerialByKey
  NoLostWakeup
  NothingLeaks
PROPERTIES
  ExclusiveGetsIn
