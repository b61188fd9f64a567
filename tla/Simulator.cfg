SPECIFICATION Spec
CONSTANTS
    Connectors <- One
    TxIds <- Ids
    HistoryLimit = 1
    Tasks = {t1, t2}
    Persons <- Requests
    Played <- Scenarios
    Shows <- Asked
    Recorded <- Vendors
    Hardware = {hardware1, hardware2}
    InitialWh = 120000
    StepWh = 1233
    MaxWh = 122466
    Powers <- Powers2
    MaxPower = 7396
    MaxActions = 2
    MaxFaults = 1
INVARIANTS
    TypeOK
    SessionsAgree
    StatusAgrees
    OneOpenTransaction
    SessionEnergyIsKnown
    StatesFitFeatures
    NothingAskedIsCut
PROPERTIES
    SignatureTells
SYMMETRY Symmetry
CHECK_DEADLOCK FALSE
