SPECIFICATION FairSpec
CONSTANTS
    Features = {f1, f2}
    MaxReading = 2
    Batches <- AnyBatch
    MaxPerRequest = 1
    MaxPerMinute = 2
    Window = 2
    RetryDelay = 1
PROPERTIES
    NoStarvation
    ImplementsChannel
