SPECIFICATION Spec
CONSTANTS
    Features = {f1, f2, f3}
    MaxReading = 2
    Batches <- AnyBatch
    MaxPerRequest = 2
    MaxPerMinute = 3
    Window = 2
    RetryDelay = 1
SYMMETRY Symmetry
INVARIANTS
    TypeOK
    NothingLost
    NoLostWakeup
    TimerNotTooLate
    WithinBudget
PROPERTIES
    NeverGoesBack
    NoCallAfterStop
