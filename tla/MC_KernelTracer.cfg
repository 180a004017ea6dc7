SPECIFICATION TracerSpec
CONSTANTS
  s1 = s1
  s2 = s2
  c1 = c1
  c2 = c2
  t1 = t1
  t2 = t2
  t3 = t3
  Sockets <- MCSockets
  NoSocket = NoSocket
  Hosts <- MCHosts
  Ports <- MCPorts
  U64 = 5
  CPUs <- MCCPUs
  Tasks <- MCTasks
  Probes <- MCProbes
  RING_SIZE = 2
  MAX_CONNECTIONS = 1
  MAX_TASK_SOCKETS = 1
  Endpoints <- MCEndpoints
  MaxProbes = 3
  MaxReuses = 1
SYMMETRY MCSymmetry
CHECK_DEADLOCK FALSE
INVARIANTS
  RecordsAreOwned
  PerCpuOrder
  EndpointsAreTrue
