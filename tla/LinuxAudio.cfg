CONSTANTS
    k1 = k1
    k2 = k2
    c1 = c1
    Sensors = {k1, k2}
    Order <- MCOrder
    Hash <- MCHash
    kSystemAudioSlots = 2
    Cards <- MCCards
    Clients = {c1}
    kMaxAudioSubscribers = 1
    Grace = 2
    MaxFrames = 2
    MaxEvents = 3
    Pages = 2
    kDisconnectPasses = 2
    MaxLoaderEvents = 2
    MaxFaults = 2
SPECIFICATION MCSpec
CHECK_DEADLOCK FALSE
INVARIANTS
    CountersBalanced
    NoFrameMissed
    StopLeavesNothing
    RunsWholeImage
PROPERTIES
    PendingIsTried
