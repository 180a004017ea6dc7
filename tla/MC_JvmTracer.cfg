SPECIFICATION JvmSpec
CONSTANTS
  t1 = t1
  t2 = t2
  Threads <- MCThreads
  Methods <- MCMethods
  Roots <- MCRoots
  MayCall <- MCMayCall
  Throwing <- MCThrowing
  Catching <- MCCatchingJob
  NoRequest = NoRequest
  MaxTicks = 8
SYMMETRY MCSymmetry
CHECK_DEADLOCK FALSE
INVARIANTS
  StackMirrorsCalls
  RecordsAreRequests
  
  
