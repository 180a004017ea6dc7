SPECIFICATION CollectorSpec
CONSTANTS
  s1 = s1
  s2 = s2
  s3 = s3
  Sockets <- MCSockets
  NoSocket = NoSocket
  Hosts <- MCHosts
  Ports <- MCPorts
  U64 = 3
  TABLE_SIZE = 2
  TIMELINE_TABLE_SIZE = 1
  EVENT_QUEUE_SIZE = 2
  Hash <- MCHash
  TimelineHash <- MCTimelineHash
  TIMELINE_MAX_EVENTS = 3
  MIN_STEPS = 2
  HTTP_FLOW_PORT = 9
  NS_PER_US = 2
  Faulty = {}
  NoFile = NoFile
  OldFile = OldFile
  Inputs <- MCInputs
  MaxCount = 3
  MaxRequests = 1
INVARIANTS
  ConnTypeOK
  OneEntryPerSocket
  EntriesCoherent
  TimelinesAreConnections
  SameLatestEvent
  
PROPERTIES
  EventsCountOnce
