\* The constants of each instance are in the module.
SPECIFICATION AnySpec
CONSTANTS
  DhcpClients = {m1, m2}
  VpnUsers = {u1}
PROPERTIES
  StopsComplete
  RequestsAreServed
  ResourcesComeBack
\* Sessions, tasks and processes end.
CHECK_DEADLOCK FALSE
