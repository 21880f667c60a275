------------------------------ MODULE MCRoaming ------------------------------
(* The settings the UDP registry of Roaming is checked with. Connection    *)
(* ids are pairs, for the epochs that are reached.                        *)
EXTENDS Roaming

MCEpochs == 0..5

\* No two handshakes derive the same connection id.
DistinctCid == [g \in 1..2, e \in MCEpochs |-> <<g, e>>]

\* The ids of the second handshake are those of the first one, two epochs later:
\* they collide when the first session has moved once, or when it is about to.
CollidingCid == [g \in 1..2, e \in MCEpochs |-> IF g = 2 THEN <<1, e + 2>> ELSE <<g, e>>]

\* One session registers twice and moves twice; two sessions whose connection ids
\* collide compete for one candidate slot.
MCRegistries ==
  {[part |-> "registry", addresses |-> {"a1", "a2"}, sids |-> {"s1"}, maxGeneration |-> 2,
    maxEpoch |-> 2, maxTicket |-> 2, maxCandidates |-> 1, mailbox |-> 1,
    cid |-> DistinctCid],
   [part |-> "collide", addresses |-> {"a1", "a2"}, sids |-> {"s1", "s2"},
    maxGeneration |-> 2, maxEpoch |-> 1, maxTicket |-> 2, maxCandidates |-> 1,
    mailbox |-> 1, cid |-> CollidingCid]}
=============================================================================
