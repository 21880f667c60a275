\* Two replacement paths, one after the other, with two datagrams in flight; two TCP
\* slots, a primary and two more carriers. The settings of the registry are in MCRoaming.
SPECIFICATION AnySpec
CONSTANTS
  Registries <- MCRegistries
  MaxPath = 2
  MaxTransmissions = 3
  MaxToken = 2
  EarlyItems = 1
  InFlight = 2
  Queue = 1
  RxDead = TRUE
  CanRequest = TRUE
  Slot = {0, 1}
  Transport = {1, 2, 3}
  MaxEpoch = 2
  MaxStreams = 2
  MaxOrphans = 1
INVARIANTS
  ResumesAreAccountedFor
  HandoverStaysAgreed
PROPERTY RegistryIsConsistent
\* Sessions end, and epochs and tickets run out.
CHECK_DEADLOCK FALSE
