SPECIFICATION FairSpec
CONSTANTS
  NumBd = 4
  MaxChain = 3
  Pbuf = {p1, p2}
  NoPbuf = NoPbuf
  MaxRef = 3
  LinkAtFetch = FALSE
  SlowEngine = FALSE
CHECK_DEADLOCK FALSE
INVARIANTS TypeOK RingIsQueue RefPerFrame EngineReadsLivePbuf EngineRunsWhileWaiting CompletionIsSignalled
PROPERTIES HdpWrittenWhenStopped ImplementsFifo
