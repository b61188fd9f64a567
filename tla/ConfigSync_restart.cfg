SPECIFICATION FairSpec
CONSTANTS
    Identities = {cp1, cp2}
    Urls = {cloud}
    NoUrl = NoUrl
    Actions = {add1}
    Updates = {update1}
    Connects = {connect1}
    Attempts = 2
    MaxAdds = 0
    MaxRestarts = 1
    MaxFaults = 0
    MaxTogether = 3
PROPERTIES
    SelfHeals
CHECK_DEADLOCK FALSE
