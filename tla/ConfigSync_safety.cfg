SPECIFICATION Spec
CONSTANTS
    Identities = {cp1, cp2}
    Urls = {cloud}
    NoUrl = NoUrl
    Actions = {add1, add2}
    Updates = {update1}
    Connects = {connect1}
    Attempts = 2
    MaxAdds = 2
    MaxRestarts = 1
    MaxFaults = 2
    MaxTogether = 3
SYMMETRY Symmetry
INVARIANTS
    TypeOK
    RegistryWasSaved
    AtRestPushed
PROPERTIES
    OthersAreKept
CHECK_DEADLOCK FALSE
