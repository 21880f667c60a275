SPECIFICATION AnySpec
\* The other constants are in ServerConnections.
CONSTANT Deliveries <- MCDeliveries
INVARIANTS
  HandshakesAreSound
  SessionsOwnTheirResources
  KicksAreHonoured
PROPERTY NobodyElseEndsASession
\* Handshakes end, bounded sessions and retransmissions run out, kicked sessions are over.
CHECK_DEADLOCK FALSE
