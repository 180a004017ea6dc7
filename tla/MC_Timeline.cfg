SPECIFICATION TimelineSpec
CONSTANTS
  s1 = s1
  s2 = s2
  s3 = s3
  Sockets <- MCSockets
  NoSocket = NoSocket
  Hosts <- MCHosts
  Ports <- MCPorts
  U64 = 3
  TABLE_SIZE = 2
  Hash <- MCHash
  TIMELINE_MAX_EVENTS = 3
  MIN_STEPS = 2
  HTTP_FLOW_PORT = 9
  NS_PER_US = 2
  Faulty <- MCSomeFiles
  NoFile = NoFile
  OldFile = OldFile
  Inputs <- MCInputs
  MaxRequests = 2
INVARIANTS
  TimelineTypeOK
  OneSlotPerSocket
  RecordingsWellFormed
  ExportWellFormed
  DeltasAddUp
  MetricsMatchJournal
PROPERTIES
  SlotsAreKept
  ImplementsRecorder
