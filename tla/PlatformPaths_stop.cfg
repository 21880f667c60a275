CONSTANTS
    Capabilities = {"ROAMING_PATH"}
    EventCapacity = 3
    MaxSequence = 9
    MaxGeneration = 1
    MaxUpdate = 3
    MaxCandidate = 4
SPECIFICATION SystemSpec
INVARIANT BackpressureIsAtomic
CHECK_DEADLOCK FALSE
