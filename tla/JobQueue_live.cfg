CONSTANTS
  w1 = w1
  w2 = w2
  w3 = w3
  i1 = i1
  i2 = i2
  q1 = q1
  q2 = q2
  None = None
  Queues = {q1, q2}
  QueueOf <- ItemQueues
  Listens <- WorkerQueues
  Workers = {w1, w2}
  Items = {i1, i2}
  Invisibility = 1
  LockReliable = FALSE
  Serializable = TRUE
  Prompt = TRUE
SPECIFICATION LiveSpec
INVARIANTS
  TypeOK
  ExclusiveFetch
  KeptWhileWorking
PROPERTIES
  NoEarlyRefetch
  EventuallyRemoved
