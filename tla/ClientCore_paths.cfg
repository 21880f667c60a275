\* Path transactions under arbitrary callers.
CONSTANTS
    Capabilities = {"ROAMING_PATH", "PATH_REFRESH"}
    EventCapacity = 3
    MaxSequence = 10
    MaxGeneration = 1
    MaxUpdate = 3
    MaxCandidate = 4
SPECIFICATION Spec
INVARIANTS
    TypeOK
    QueueWithinCapacity
    CommandsAreCurrent
    NewestObservationWins
    RoamAccounting
\* The bounds end every behaviour.
CHECK_DEADLOCK FALSE
