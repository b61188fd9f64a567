SPECIFICATION Spec
CONSTANTS
    Exchanges = {e1, e2}
    MaxConnects = 2
    MaxBoots = 1
    MaxChanges = 3
    MaxFaults = 1
INVARIANTS
    TypeOK
    RecordIsTheLock
    
    OfferedIfCapable
    LockIsFound
