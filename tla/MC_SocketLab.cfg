SPECIFICATION FairLabSpec
CONSTANTS
  PIPE_SIZE = 2
  STDIO_SIZE = 2
CHECK_DEADLOCK FALSE
INVARIANTS
  OutputIsConserved
  
PROPERTIES
  EndingEnds
  SaidIsShown
