--------------------------- MODULE MCHostProcesses ---------------------------
EXTENDS HostProcesses

OneServer == [f \in {4, 6} |-> IF f = 4 THEN {"a"} ELSE {}]

MCFirewalls ==
  {\* Two runs of one client, two faults.
   [part |-> "lifecycle", tun |-> {"t1"}, server |-> OneServer, leaks |-> {{}},
    tools |-> {{4, 6}}, runs |-> 2, faults |-> 2, lookups |-> 1, moves |-> 0],
   \* A server that moves, and an administrator who removes hooks.
   [part |-> "refresh", tun |-> {"t1"},
    server |-> [f \in {4, 6} |-> IF f = 4 THEN {"a", "b"} ELSE {"c"}], leaks |-> {{}},
    tools |-> {{4, 6}}, runs |-> 1, faults |-> 1, lookups |-> 2, moves |-> 1],
   \* The second client may use another TUN, and a tool may be missing.
   [part |-> "two_tuns", tun |-> {"t1", "t2"}, server |-> OneServer, leaks |-> {{}, {6}},
    tools |-> {{4, 6}, {4}}, runs |-> 2, faults |-> 1, lookups |-> 1, moves |-> 0]}

MCSysctls ==
  {\* Two processes share a global value, with a reboot.
   [part |-> "knobs", process |-> {"p", "q"}, global |-> {"g"}, link |-> {}, wanted |-> {1},
    identity |-> {1, 2}, starts |-> 2, boots |-> 2, faults |-> 1, moves |-> 1],
   \* An interface that is replaced by one of the same name.
   [part |-> "links", process |-> {"p", "q"}, global |-> {}, link |-> {"l"}, wanted |-> {1},
    identity |-> {1, 2}, starts |-> 2, boots |-> 1, faults |-> 1, moves |-> 1]}
=============================================================================
