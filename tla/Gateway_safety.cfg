SPECIFICATION Spec
CONSTANTS
    Identities = {cp}
    Conns = {c1, c2}
    Connectors = {1, 2}
    TxIds = {1, 2}
    LocalIds = {1}
    CloudIds = {2}
    HistoryLimit = 2
    Urls = {cloudA, badUrl}
    BadUrls = {badUrl}
    NoUrl = NoUrl
    NoConn = NoConn
SYMMETRY Symmetry
INVARIANTS
    TypeOK
    LocalOnlyIfUnconfigured
    MapsFollowReconnects
    SessionIsRecorded
    ArchivedOnce
    ChangesAreAnnounced
