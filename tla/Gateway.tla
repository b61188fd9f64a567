------------------------------ MODULE Gateway ------------------------------
(***************************************************************************)
(* The gateway sub-container: the connections of the charge points and how *)
(* they are routed (gateway/src/gateway.ts), the registry of origin clouds *)
(* (chargerRegistry.ts), local mode (localMode.ts), the POST that replaces *)
(* the registry (stateApi.ts) and what is observed meanwhile (state.ts,    *)
(* observe.ts, and notify() of changeFeed.ts).                             *)
(*                                                                         *)
(* A connection handler captures the ChargerState that the store held when *)
(* the charge point connected and writes to it until it closes, while      *)
(* everything else reads the store.  `feeds` tells whether the two are     *)
(* still the same object; what is written to an object that the store has  *)
(* dropped is never read, so the model forgets it.                         *)
(*                                                                         *)
(* The charge point is the environment.  It uses one connection at a time, *)
(* `attached`; the gateway may learn later that an older one is gone.      *)
(***************************************************************************)
EXTENDS ChargerState, FiniteSets

CONSTANTS
    Identities,  \* OCPP identities
    Conns,       \* the client objects the gateway may hold at once (a bound)
    Urls,        \* origin cloud URLs
    BadUrls,     \* those that buildPrimaryConnectionOptions() rejects
    LocalIds,    \* ids local mode may invent between two restarts (a bound)
    CloudIds,    \* ids the origin clouds may assign (a bound)
    NoUrl, NoConn

ASSUME GatewayAssumption ==
    /\ BadUrls \subseteq Urls
    /\ NoUrl \notin Urls
    /\ NoConn \notin Conns
    /\ LocalIds \subseteq TxIds /\ CloudIds \subseteq TxIds

VARIABLES
    registry,      \* ChargerRegistry.map, NoUrl for an absent identity
    store,         \* StateStore.chargers: the ChargerState of each identity
    known,         \* the identities that have one
    conns,         \* each client object, Unused when there is none
    localClients,
    liveClients,
    notified,      \* identities with a coalescing timer of the change feed
    usedLocal,     \* ids invented since the gateway started
    usedCloud,     \* external: ids the clouds have assigned
    attached,      \* external: the connection each charge point uses
    session,       \* external: the transaction each charge point believes open
    changed        \* ghost: identities whose state changed since it was emitted

gatewayVars == <<registry, store, known, conns, localClients, liveClients, notified, usedLocal>>
chargerVars == <<attached, session>>
vars == <<gatewayVars, chargerVars, usedCloud, changed>>

Unused == [phase |-> "unused"]
NoRequest == [method |-> "none"]

\* phase "closing": close() was called, the 'close' event is still to come.  A
\* client whose URL was rejected is closed by its own handler, never served.
Connection ==
    {x \in [phase : {"open", "closing"},
            id : Identities,
            mode : {"local", "relay", "rejected"},
            url : Urls \cup {NoUrl},
            feeds : BOOLEAN,
            call : Request \cup {NoRequest}] :
        x.mode = "rejected" => x.phase = "closing"}

TypeOK ==
    /\ registry \in [Identities -> Urls \cup {NoUrl}]
    /\ store \in [Identities -> ChargerStates]
    /\ known \subseteq Identities
    /\ conns \in [Conns -> Connection \cup {Unused}]
    /\ localClients \in [Identities -> Conns \cup {NoConn}]
    /\ liveClients \in [Identities -> Conns \cup {NoConn}]
    /\ notified \subseteq Identities
    /\ usedLocal \subseteq LocalIds
    /\ usedCloud \subseteq CloudIds
    /\ attached \in [Identities -> Conns \cup {NoConn}]
    /\ session \in [Identities -> [Connectors -> TxIds \cup {NoTx}]]
    /\ changed \subseteq Identities

\* A gateway that has just started.
Fresh ==
    /\ registry' = [i \in Identities |-> NoUrl]
    /\ store' = [i \in Identities |-> EmptyCharger]
    /\ known' = {}
    /\ conns' = [c \in Conns |-> Unused]
    /\ localClients' = [i \in Identities |-> NoConn]
    /\ liveClients' = [i \in Identities |-> NoConn]
    /\ notified' = {}
    /\ usedLocal' = {}
    /\ changed' = {}

Init ==
    /\ registry = [i \in Identities |-> NoUrl]
    /\ store = [i \in Identities |-> EmptyCharger]
    /\ known = {}
    /\ conns = [c \in Conns |-> Unused]
    /\ localClients = [i \in Identities |-> NoConn]
    /\ liveClients = [i \in Identities |-> NoConn]
    /\ notified = {}
    /\ usedLocal = {}
    /\ usedCloud = {}
    /\ attached = [i \in Identities |-> NoConn]
    /\ session = [i \in Identities |-> [k \in Connectors |-> NoTx]]
    /\ changed = {}

-----------------------------------------------------------------------------
Open(c) == conns[c].phase = "open"
Closing(c) == conns[c].phase = "closing"
Used(c) == conns[c].phase # "unused"

\* changeFeed.notify()
Notify(id) == notified' = notified \cup {id}

\* The captured object becomes s: the store shows it if it still holds that
\* object.
Write(c, s) ==
    LET id == conns[c].id
    IN IF conns[c].feeds
       THEN /\ store' = [store EXCEPT ![id] = s]
            /\ changed' = IF s # store[id] THEN changed \cup {id} ELSE changed
       ELSE UNCHANGED <<store, changed>>

\* The charge point announces itself on a new connection: it had none, or it
\* has given up the one the gateway closes or has not yet seen go.
CanConnect(id) == \A c \in Conns : attached[id] = c => Closing(c)

\* The 'client' handler, up to the choice of the mode.
Accept(id, c, mode, phase) ==
    /\ conns' = [conns EXCEPT ![c] =
         [phase |-> phase, id |-> id, mode |-> mode, url |-> registry[id],
          feeds |-> TRUE, call |-> NoRequest]]
    /\ liveClients' = [liveClients EXCEPT ![id] = c]
    /\ known' = known \cup {id}
    /\ changed' = IF id \in known THEN changed ELSE changed \cup {id}
    /\ Notify(id)
    /\ attached' = [attached EXCEPT ![id] = c]
    /\ UNCHANGED <<registry, store, usedLocal, usedCloud, session>>

ConnectLocal(id, c) ==
    /\ ~Used(c) /\ CanConnect(id)
    /\ registry[id] = NoUrl
    /\ localClients' = [localClients EXCEPT ![id] = c]
    /\ Accept(id, c, "local", "open")

ConnectRelay(id, c) ==
    /\ ~Used(c) /\ CanConnect(id)
    /\ registry[id] \in Urls \ BadUrls
    /\ UNCHANGED localClients
    /\ Accept(id, c, "relay", "open")

\* Mutant: the handler reports the malformed URL and leaves the client open.
ConnectRejectedLeftOpen(id, c) ==
    /\ ~Used(c) /\ CanConnect(id)
    /\ registry[id] \in BadUrls
    /\ UNCHANGED localClients
    /\ Accept(id, c, "rejected", "open")

\* buildPrimaryConnectionOptions() throws: the client is closed with 1011.
ConnectRejected(id, c) ==
    /\ ~Used(c) /\ CanConnect(id)
    /\ registry[id] \in BadUrls
    /\ UNCHANGED localClients
    /\ Accept(id, c, "rejected", "closing")

\* The charge point loses its connection; the gateway has not noticed yet.
Drop(id) ==
    /\ attached[id] # NoConn
    /\ attached' = [attached EXCEPT ![id] = NoConn]
    /\ UNCHANGED <<gatewayVars, usedCloud, session, changed>>

\* Mutant: the 'close' handlers remove whatever the maps hold.
ForgetUnguarded(map, c) == [map EXCEPT ![conns[c].id] = NoConn]

\* The guard of the 'close' handlers: a newer client is left in the map.
Forget(map, c) ==
    IF map[conns[c].id] = c THEN [map EXCEPT ![conns[c].id] = NoConn] ELSE map

\* The 'close' event.  A call in flight to the origin cloud is aborted, and
\* observed as one that got no answer.
Closed(c) ==
    /\ Used(c)
    /\ Closing(c) \/ attached[conns[c].id] # c
    /\ liveClients' = Forget(liveClients, c)
    /\ localClients' = IF conns[c].mode = "local" THEN Forget(localClients, c) ELSE localClients
    /\ attached' = [attached EXCEPT ![conns[c].id] = IF @ = c THEN NoConn ELSE @]
    /\ conns' = [conns EXCEPT ![c] = Unused]
    /\ IF conns[c].call = NoRequest
       THEN UNCHANGED <<store, changed, notified>>
       ELSE /\ Write(c, Observe(store[conns[c].id], conns[c].call, NoAnswer))
            /\ Notify(conns[c].id)
    /\ UNCHANGED <<registry, known, usedLocal, usedCloud, session>>

-----------------------------------------------------------------------------
\* What a charge point may send: news of a connector, the start of a session on
\* a free one, the end of the session it believes open.
Requests(id) ==
    {r \in Request :
        \/ r.method = "StatusNotification" /\ r.tx = NoTx
        \/ r.method = "StartTransaction" /\ r.tx = NoTx /\ session[id][r.connector] = NoTx
        \/ r.method = "StopTransaction" /\ r.tx = session[id][r.connector] /\ r.tx # NoTx}

\* The charge point learns the answer to its request, unless it has given up
\* the connection it was sent on.
Learn(c, r, tx) ==
    LET id == conns[c].id
    IN session' =
         CASE attached[id] # c -> session
           [] r.method = "StartTransaction" -> [session EXCEPT ![id][r.connector] = tx]
           [] r.method = "StopTransaction" -> [session EXCEPT ![id][r.connector] = NoTx]
           [] OTHER -> session

\* A call on a connection in local mode: answered, observed and announced at
\* once.  The id of a new transaction is the next one of this process.
LocalCall(c) ==
    /\ Open(c) /\ conns[c].mode = "local" /\ attached[conns[c].id] = c
    /\ \E r \in Requests(conns[c].id) :
         LET id == conns[c].id
             free == LocalIds \ usedLocal
             next == CHOOSE t \in free : \A u \in free : t <= u
             starts == r.method = "StartTransaction"
             answer == IF starts THEN [tx |-> next, by |-> "local"] ELSE [tx |-> NoTx, by |-> "local"]
         IN /\ starts => free # {}
            /\ usedLocal' = IF starts THEN usedLocal \cup {next} ELSE usedLocal
            /\ Write(c, Observe(store[id], r, answer))
            /\ Learn(c, r, answer.tx)
            /\ Notify(id)
    /\ UNCHANGED <<registry, known, conns, localClients, liveClients, usedCloud, attached>>

\* A call on a connection in relay mode goes to the origin cloud.
RelayCall(c) ==
    /\ Open(c) /\ conns[c].mode = "relay" /\ attached[conns[c].id] = c
    /\ conns[c].call = NoRequest
    /\ \E r \in Requests(conns[c].id) : conns' = [conns EXCEPT ![c].call = r]
    /\ UNCHANGED <<registry, store, known, localClients, liveClients, notified, usedLocal,
                   chargerVars, usedCloud, changed>>

\* The cloud answers: the real response is observed, then handed on.
CloudAnswers(c) ==
    /\ Open(c) /\ conns[c].call # NoRequest
    /\ \E tx \in CloudIds \cup {NoTx} :
         LET r == conns[c].call
         IN /\ IF r.method = "StartTransaction" THEN tx \in CloudIds \ usedCloud ELSE tx = NoTx
            /\ usedCloud' = usedCloud \cup ({tx} \ {NoTx})
            /\ Write(c, Observe(store[conns[c].id], r, [tx |-> tx, by |-> "cloud"]))
            /\ Learn(c, r, tx)
    /\ conns' = [conns EXCEPT ![c].call = NoRequest]
    /\ Notify(conns[c].id)
    /\ UNCHANGED <<registry, known, localClients, liveClients, usedLocal, attached>>

\* Mutant: a failed call is observed but not announced.
CloudFailsSilently(c) ==
    /\ Open(c) /\ conns[c].call # NoRequest
    /\ Write(c, Observe(store[conns[c].id], conns[c].call, NoAnswer))
    /\ conns' = [conns EXCEPT ![c].call = NoRequest]
    /\ UNCHANGED <<registry, known, localClients, liveClients, notified, usedLocal, usedCloud, chargerVars>>

\* The call to the cloud fails or times out: the charge point gets an error.
CloudFails(c) ==
    /\ Open(c) /\ conns[c].call # NoRequest
    /\ Write(c, Observe(store[conns[c].id], conns[c].call, NoAnswer))
    /\ conns' = [conns EXCEPT ![c].call = NoRequest]
    /\ Notify(conns[c].id)
    /\ UNCHANGED <<registry, known, localClients, liveClients, usedLocal, usedCloud, chargerVars>>

-----------------------------------------------------------------------------
\* Mutant: the new map is in place before the clients it concerns are looked up.
PostChargersTooEarly(m) ==
    /\ registry' = m
    /\ UNCHANGED <<store, known, conns, localClients, liveClients, notified, usedLocal,
                   chargerVars, usedCloud, changed>>

\* POST /api/chargers with the map m: a client in local mode that gains an
\* origin cloud has its state reset and is closed.
PostChargers(m) ==
    LET gained == {i \in Identities : m[i] # NoUrl /\ registry[i] = NoUrl /\ localClients[i] # NoConn}
    IN /\ registry' = m
       /\ store' = [i \in Identities |-> IF i \in gained THEN EmptyCharger ELSE store[i]]
       /\ known' = known \cup gained
       /\ changed' = changed \cup {i \in gained : store[i] # EmptyCharger}
       /\ conns' = [c \in Conns |->
            IF ~Used(c) \/ conns[c].id \notin gained THEN conns[c]
            ELSE [conns[c] EXCEPT !.feeds = FALSE,
                    !.phase = IF localClients[conns[c].id] = c THEN "closing" ELSE @]]
       /\ UNCHANGED <<localClients, liveClients, notified, usedLocal, chargerVars, usedCloud>>

\* A coalescing timer of the change feed fires and emits the current state.
Emit(id) ==
    /\ id \in notified
    /\ notified' = notified \ {id}
    /\ changed' = changed \ {id}
    /\ UNCHANGED <<registry, store, known, conns, localClients, liveClients, usedLocal,
                   chargerVars, usedCloud>>

\* The sub-container restarts: nothing is persisted.
Restart ==
    /\ Fresh
    /\ attached' = [i \in Identities |-> NoConn]
    /\ UNCHANGED <<usedCloud, session>>

Next ==
    \/ \E id \in Identities, c \in Conns : ConnectLocal(id, c)
    \/ \E id \in Identities, c \in Conns : ConnectRelay(id, c)
    \/ \E id \in Identities, c \in Conns : ConnectRejected(id, c)
    \/ \E id \in Identities : Drop(id)
    \/ \E id \in Identities : Emit(id)
    \/ \E c \in Conns : Closed(c)
    \/ \E c \in Conns : LocalCall(c)
    \/ \E c \in Conns : RelayCall(c)
    \/ \E c \in Conns : CloudAnswers(c)
    \/ \E c \in Conns : CloudFails(c)
    \/ \E m \in [Identities -> Urls \cup {NoUrl}] : PostChargers(m)
    \/ Restart

Spec == Init /\ [][Next]_vars

\* The gateway sees a dead or closed connection go, emits what it has timed, and
\* a call to a cloud ends.  A charge point without a connection comes back.
Fairness ==
    /\ \A id \in Identities :
         /\ WF_vars(\E c \in Conns : \/ ConnectLocal(id, c)
                                     \/ ConnectRelay(id, c)
                                     \/ ConnectRejected(id, c))
         /\ WF_vars(Emit(id))
    /\ \A c \in Conns : WF_vars(Closed(c))
    /\ \A c \in Conns : WF_vars(CloudAnswers(c) \/ CloudFails(c))

FairSpec == Spec /\ Fairness

-----------------------------------------------------------------------------
\* A charge point is in local mode only as long as it has no origin cloud: the
\* POST that gives it one closes its connection in the same step.
LocalOnlyIfUnconfigured ==
    \A id \in Identities : LET c == localClients[id] IN
        c # NoConn /\ Open(c) => registry[id] = NoUrl

\* The maps point to clients that exist, and to the one the charge point uses,
\* whatever the order of the 'close' of an old connection and the 'client' of
\* the next: commands and the forced close go to the right client.
MapsFollowReconnects ==
    \A id \in Identities :
        /\ \A map \in {localClients, liveClients} :
             map[id] # NoConn => Used(map[id]) /\ conns[map[id]].id = id
        /\ LET c == attached[id] IN c # NoConn =>
             /\ liveClients[id] = c
             /\ conns[c].mode = "local" => localClients[id] = c

\* A connector shows a session only if its record is in progress on that very
\* connector (what the widget matches), unless the ids of local mode and of a
\* cloud overlap.
SessionIsRecorded ==
    LocalIds \cap CloudIds = {} =>
        \A id \in Identities, k \in Connectors :
            LET tx == store[id].shown[k]
            IN tx # NoTx => store[id].transactions[tx].connector = k

\* A transaction the cloud issued is in the history at most once, however often
\* its end is relayed, fails and is sent again, in local mode or relayed.
ArchivedOnce ==
    \A id \in Identities :
        LET h == store[id].history
        IN \A i, j \in DOMAIN h :
             h[i].by = "cloud" /\ h[j].by = "cloud" /\ h[i].tx = h[j].tx => i = j

\* What changed since the last event will be emitted.  A reset alone is not
\* announced, and then no open connection writes to the new state yet: its
\* charge point has to reconnect, which is announced.
ChangesAreAnnounced ==
    \A id \in changed \ notified :
        \A c \in Conns : Used(c) /\ conns[c].id = id => ~conns[c].feeds

\* A charge point that keeps its origin cloud long enough is relayed, be it in
\* local mode, offline or on a stale connection when the URL arrives.
EventuallyRelayed ==
    \A id \in Identities :
        (registry[id] \in Urls \ BadUrls) ~>
            \/ registry[id] \notin Urls \ BadUrls
            \/ \E c \in Conns : Open(c) /\ conns[c].id = id /\ conns[c].mode = "relay"

\* gateway.ts, on relay mode: the transaction ids recorded are those the
\* primary assigned, never invented locally.
NeverInvented ==
    \A id \in Identities :
        LET c == attached[id]
        IN c # NoConn /\ Open(c) /\ conns[c].mode = "relay" =>
             \A tx \in TxIds : store[id].transactions[tx].by # "local"

\* state.ts: one ChargerState per connected charge point, the one its
\* connection writes to.
OneStatePerChargePoint ==
    \A id \in Identities :
        LET c == attached[id]
        IN c # NoConn /\ Open(c) => conns[c].feeds

\* index.js, the answer of add_charger: a charge point already connected
\* reconnects by itself and is relayed to the URL just configured.
RelayedToConfiguredUrl ==
    \A id \in Identities, u \in Urls \ BadUrls :
        (registry[id] = u) ~>
            \/ registry[id] # u
            \/ \E c \in Conns : /\ Open(c) /\ conns[c].id = id
                                /\ conns[c].mode = "relay" /\ conns[c].url = u
=============================================================================
