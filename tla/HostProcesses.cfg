\* Three requests for one tunnel profile, one of which is dropped, and three commands for
\* a supervisor's queue of two. The constants of the other instances are in the module.
SPECIFICATION AnySpec
CONSTANTS
  Task = {1, 2, 3}
  Name = {1}
  Child = {1, 2}
  MaxCancels = 1
  Capacity = 2
  InitialBackoff = 1
  MaximumBackoff = 2
  StableAfter = 2
  ShutdownGrace = 2
  MaxCommands = 3
  MaxVersion = 1
  MaxFaults = 1
  Firewalls <- MCFirewalls
  Sysctls <- MCSysctls
INVARIANTS
  WorkerIsSupervised
  TunnelsAreOwned
  DialingIsSafe
PROPERTIES
  RoutesAreOnRecord
  SysctlsAreOnRecord
  EgressStaysClosed
\* Supervision ends, processes and generations run out.
CHECK_DEADLOCK FALSE
