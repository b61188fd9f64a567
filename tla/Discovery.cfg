SPECIFICATION FairSpec
CONSTANTS
    Configured = TRUE
    Slots = {slot1, slot2}
    NoSlot = NoSlot
    MaxVersion = 2
    MaxShape = 2
    MaxConnects = 1
    MaxFaults = 1
INVARIANTS
    TypeOK
    EventsAreEnough
    RememberedIsListed
PROPERTIES
    ImplementsMirror
    DiscoveryKeepsUp
CHECK_DEADLOCK FALSE
