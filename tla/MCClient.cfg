SPECIFICATION ProcessSpec
CONSTANTS
  t1 = t1
  t2 = t2
  t3 = t3
  Caller <- Callers
  self = t1
  MAX_DNS_QUEUE_DEPTH = 1
  SocketUnits = 2
  MAX_RECV_BUFFER = 3
  MAX_RECV_PER_POLL = 2
  MAX_MESSAGES_PER_POLL = 1
  COMMAND_WAIT = 3
  MAX_PINGS = 1
  Window = 1
  SendLimit = 2
  MaxQueued = 2
  MaxOutstanding = 1
  Tls = TRUE
INVARIANTS WireIntact AcksExact NobodyStuck ResultIsOwn WakeupsKept
PROPERTY DeadlineHolds
