\* A JOIN between the last detach and its teardown.
SPECIFICATION Spec
CONSTANTS
  Kinds = {"tcp"}
  Key = {"ann1"}
  User <- MCUser
  Fixed <- MCFixed
  Subnets <- MCSubnets
  Mac = {}
  Addr = {1, 2}
  MaxSessions = 1
  MaxClients = 2
  MaxStreams = 2
  Sid = {1, 2}
  MaxJoins = 2
INVARIANT AttachedStreamsHaveASession
\* The bound on sessions is reached.
CHECK_DEADLOCK FALSE
