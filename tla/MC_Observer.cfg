SPECIFICATION ObserverSpec
CONSTANTS
  s1 = s1
  s2 = s2
  c1 = c1
  c2 = c2
  t1 = t1
  t2 = t2
  Sockets <- MCSockets
  NoSocket = NoSocket
  Hosts <- MCHosts
  Ports <- MCPorts
  U64 = 16
  CPUs = {c1, c2}
  Tasks = {t1, t2}
  Probes <- MCProbes
  RING_SIZE = 2
  MAX_CONNECTIONS = 2
  MAX_TASK_SOCKETS = 2
  Endpoints <- MCEndpoints
  MaxProbes = 4
  MaxReuses = 0
  TABLE_SIZE = 2
  TIMELINE_TABLE_SIZE = 2
  EVENT_QUEUE_SIZE = 2
  Hash <- MCHash
  TimelineHash <- MCHash
  TIMELINE_MAX_EVENTS = 2
  MIN_STEPS = 2
  HTTP_FLOW_PORT = 9
  NS_PER_US = 2
  Faulty = {}
  NoFile = NoFile
  OldFile = OldFile
  Inputs = {}
  MaxCount = 4
  MaxRequests = 4
SYMMETRY MCSymmetry
CHECK_DEADLOCK FALSE
INVARIANTS
  ExportsAreExchanges
