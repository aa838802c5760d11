CONSTANTS
  w1 = w1
  w2 = w2
  w3 = w3
  i1 = i1
  i2 = i2
  q1 = q1
  q2 = q2
  None = None
  Queues = {q1, q2}
  QueueOf <- ItemQueues
  Listens <- WorkerQueues
  Workers = {w1, w2, w3}
  Items = {i1}
  Invisibility = 1
  LockReliable = TRUE
  Serializable = TRUE
  Prompt = FALSE
SPECIFICATION Spec
INVARIANTS
  InTimeExclusion
