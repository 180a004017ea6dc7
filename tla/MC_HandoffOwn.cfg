SPECIFICATION HandoffSpec
CONSTANTS
  t1 = t1
  t2 = t2
  old = old
  short = short
  large = large
  NoRequest = NoRequest
  Threads <- MCThreads
  Requests <- MCRequests
  Steps <- MCSteps
  Spans <- MCSpans
  Long <- MCLong
  Wrapped <- MCNone
  Earlier <- MCNone
CHECK_DEADLOCK FALSE
INVARIANTS
  KernelPartIsOwn
