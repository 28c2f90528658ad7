SPECIFICATION FairSpec
CONSTANTS
  NumBd = 3
  Pbuf = {p1, p2, p3, p4}
  NoPbuf = NoPbuf
  Envs <- Surroundings
INVARIANTS EveryPbufInOnePlace EngineWritesLentPbuf UndeliveredInOrder EngineRunsWhileLent
PROPERTIES HdpWrittenWhenStopped FrameIsDelivered
