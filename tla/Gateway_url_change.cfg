SPECIFICATION FairSpec
CONSTANTS
    Identities = {cp}
    Conns = {c1, c2}
    Connectors = {1}
    TxIds = {}
    LocalIds = {}
    CloudIds = {}
    HistoryLimit = 1
    Urls = {cloudA, cloudB, badUrl}
    BadUrls = {badUrl}
    NoUrl = NoUrl
    NoConn = NoConn
PROPERTIES
    RelayedToConfiguredUrl
