------------------------ MODULE MCServerConnections ------------------------
EXTENDS ServerConnections

MCDeliveries ==
  {\* A kick and a notice over two bonded TCP streams.
   [part |-> "bonded", streams |-> {"s1", "s2"}, kickers |-> {"k1"}, abortable |-> {},
    notifiers |-> {"n"}, msgId |-> {"m1", "m2"}, datagram |-> FALSE, payload |-> {"p"},
    malformed |-> {}, cache |-> 2, ackLane |-> 1],
   \* Two kicks over UDP, one of them under a batch deadline.
   [part |-> "datagrams", streams |-> {"s1"}, kickers |-> {"k1", "k2"}, abortable |-> {"k1"},
    notifiers |-> {}, msgId |-> {"m1"}, datagram |-> TRUE, payload |-> {"p"},
    malformed |-> {}, cache |-> 2, ackLane |-> 1]}
=============================================================================
