CONSTANTS
  c1 = c1
  c2 = c2
  q1 = q1
  q2 = q2
  r1 = r1
  r2 = r2
  w1 = w1
  Queues = {q1, q2}
  Conns = {c1, c2}
  Requests = {r1, r2}
  Workers = {w1}
  UserOfConn <- MCUserOfConn
  OwnerOf <- MCOwnerOf
  QueueOf <- MCQueueOf
  Refused = {r2}
  MaxFaults = 2
  Contents = {"a", "b"}
  Services = {"s1", "s2"}
  MAX_REQUEST_RETRIES = 3
  MaxEdits = 2
  MaxStops = 1
  Parts = {"sockets", "previews", "hooks"}
SPECIFICATION Spec
CHECK_DEADLOCK FALSE
INVARIANTS
  RegistryIsLive
  
  StoredAsAnswered
  PreviewsSettle
  WebhookAnswersOnce
 
