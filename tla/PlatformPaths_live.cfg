\* Two observations behind a first candidate, one generation.
CONSTANTS
    Capabilities = {"ROAMING_PATH"}
    EventCapacity = 3
    MaxSequence = 11
    MaxGeneration = 1
    MaxUpdate = 2
    MaxCandidate = 3
SPECIFICATION FairSpec
INVARIANT
    PlatformStaysInStep
PROPERTY
    CandidateResolves
\* The bounds end every behaviour.
CHECK_DEADLOCK FALSE
