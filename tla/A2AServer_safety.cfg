CONSTANTS
  t1 = t1  t2 = t2  n1 = n1
  Requests = {1, 2, 3}
  MaxConcurrent = 1
  MaxBacklog = 1
  QueueWaits = TRUE
  Nobody = Nobody
  NoName = NoName
  MaxFiles = 2
  MaxFileBytes = 3
  MaxMessage = 3
  MaxObjective = 3
  Tasks = {t1, t2}
  Executions = {1, 2}
  TaskOf <- MCTaskOf
  MessageOf <- MCMessageOf
  Nothing = Nothing
  TaskTTL = 0
  MaxTasks = 1
  MaxClock = 1
SPECIFICATION Spec
CHECK_DEADLOCK FALSE
INVARIANTS
  CountsBalance
  RegistryIsExact
  OneVerdict
PROPERTIES
  EverythingEnds
