SPECIFICATION FairExchangeSpec
CONSTANTS
  client = client
  browser = browser
  server = server
  Local = client
  Remote = server
  Frames <- MCFrames
  MAX_SHOWN = 2
  Responses <- MCResponses
  CHUNK_SIZE = 3
  INITIAL_CAPACITY = 2
  REQ_LEN = 2
  MaxTapped = 3
CHECK_DEADLOCK FALSE
INVARIANTS
  BufferFits
  VerdictIsRight
  RequestSentOnce
  
PROPERTY
  ExchangeEnds
