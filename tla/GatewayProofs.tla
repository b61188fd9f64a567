---------------------------- MODULE GatewayProofs ----------------------------
(***************************************************************************)
(* Proofs about the gateway, for any number of charge points, connections, *)
(* connectors and transactions, and any HISTORY_LIMIT.                     *)
(*                                                                         *)
(* What makes them hold: a map of clients points only to a client that     *)
(* exists, for the identity it is about (MapsAreTrue); and every           *)
(* transaction that a ChargerState shows or has archived was given its id  *)
(* by this process or by a cloud, so the id of the next one is new (Sane). *)
(***************************************************************************)
EXTENDS Gateway, ChargerStateProofs

\* A ChargerState whose transactions have ids among those used so far.
Sane(s, local, cloud) ==
    /\ s \in ChargerStates
    /\ LocalIds \cap CloudIds = {} =>
         \A k \in Connectors : s.shown[k] # NoTx =>
            s.shown[k] \in local \cup cloud /\ s.transactions[s.shown[k]].connector = k
    /\ \A t \in TxIds : s.transactions[t].by = "cloud" => t \in cloud
    /\ \A i \in DOMAIN s.history : s.history[i].by = "cloud" =>
         /\ s.history[i].tx \in cloud
         /\ s.transactions[s.history[i].tx].by # "cloud"
         /\ \A j \in DOMAIN s.history :
              s.history[j].tx = s.history[i].tx /\ s.history[j].by = "cloud" => j = i

\* The maps point to clients of their own identity, localClients to those in local
\* mode, and the connection a charge point uses is in them.
MapsAreTrue ==
    \A id \in Identities :
        /\ liveClients[id] # NoConn => Used(liveClients[id]) /\ conns[liveClients[id]].id = id
        /\ localClients[id] # NoConn => /\ Used(localClients[id]) /\ conns[localClients[id]].id = id
                                        /\ conns[localClients[id]].mode = "local"
        /\ attached[id] # NoConn => /\ liveClients[id] = attached[id]
                                    /\ conns[attached[id]].mode = "local" => localClients[id] = attached[id]

StatesAreSane == \A id \in Identities : Sane(store[id], usedLocal, usedCloud)

GInv == TypeOK /\ MapsAreTrue /\ LocalOnlyIfUnconfigured /\ ChangesAreAnnounced /\ StatesAreSane

-----------------------------------------------------------------------------
\* The state of a charge point.

\* new ChargerState() has no transaction.
LEMMA EmptyIsSane ==
    ASSUME NEW local, NEW cloud
    PROVE  Sane(EmptyCharger, local, cloud)
BY EmptyIsState DEF Sane, EmptyCharger, NoRecord

\* More ids do no harm.
LEMMA SaneGrows ==
    ASSUME NEW s, NEW local, NEW cloud, Sane(s, local, cloud),
           NEW local2, NEW cloud2, local \subseteq local2, cloud \subseteq cloud2
    PROVE  Sane(s, local2, cloud2)
BY DEF Sane

\* A connector that is seen.
LEMMA SeenIsSane ==
    ASSUME NEW s, NEW local, NEW cloud, Sane(s, local, cloud), NEW k \in Connectors
    PROVE  Sane([s EXCEPT !.connectors = @ \cup {k}], local, cloud)
<1> DEFINE x == [s EXCEPT !.connectors = @ \cup {k}]
<1>1. s \in ChargerStates
  BY DEF Sane
<1>2. /\ x.shown = s.shown /\ x.transactions = s.transactions /\ x.history = s.history
      /\ x \in ChargerStates
  BY <1>1, SeenChanges
<1> HIDE DEF x
<1>3. Sane(x, local, cloud)
  BY <1>2 DEF Sane
<1> QED
  BY <1>3 DEF x

\* A transaction that starts with an id that is new.
LEMMA StartIsSane ==
    ASSUME NEW s, NEW local, NEW cloud, Sane(s, local, cloud),
           NEW k \in Connectors, NEW tx \in TxIds, NEW by \in Issuers,
           NEW local2, NEW cloud2, local \subseteq local2, cloud \subseteq cloud2,
           tx \in local2 \cup cloud2,
           by = "cloud" => tx \in cloud2 /\ tx \notin cloud,
           LocalIds \cap CloudIds = {} => tx \notin local \cup cloud
    PROVE  Sane(StartTransaction(s, k, tx, by), local2, cloud2)
<1> DEFINE x == StartTransaction(s, k, tx, by)
           rec == [connector |-> k, by |-> by]
<1>1. s \in ChargerStates
  BY DEF Sane
<1>2. /\ x.shown = [s.shown EXCEPT ![k] = tx]
      /\ x.transactions = [s.transactions EXCEPT ![tx] = rec]
      /\ x.history = s.history
  BY <1>1, StartChanges
<1>3. rec.connector = k /\ rec.by = by
  OBVIOUS
<1>4. x \in ChargerStates
  BY <1>1, StartChanges
<1> HIDE DEF x, rec
<1>5. /\ x.shown[k] = tx /\ \A c \in Connectors \ {k} : x.shown[c] = s.shown[c]
      /\ x.transactions[tx] = rec /\ \A t \in TxIds \ {tx} : x.transactions[t] = s.transactions[t]
  BY <1>1, <1>2, StateFields
<1>6. ASSUME LocalIds \cap CloudIds = {}, NEW c \in Connectors, x.shown[c] # NoTx
      PROVE  x.shown[c] \in local2 \cup cloud2 /\ x.transactions[x.shown[c]].connector = c
  <2>1. CASE c = k
    BY <1>3, <1>5, <2>1
  <2>2. CASE c # k
    <3>1. s.shown[c] \in local \cup cloud /\ s.transactions[s.shown[c]].connector = c /\ s.shown[c] # tx
      BY <1>5, <1>6, <2>2 DEF Sane
    <3>2. s.shown[c] \in TxIds
      BY <1>1, <1>5, <1>6, <2>2, StateFields
    <3> QED
      BY <1>5, <2>2, <3>1, <3>2
  <2> QED
    BY <2>1, <2>2
<1>7. ASSUME NEW t \in TxIds, x.transactions[t].by = "cloud"
      PROVE  t \in cloud2
  <2>1. CASE t = tx
    BY <1>3, <1>5, <1>7, <2>1
  <2>2. CASE t # tx
    BY <1>5, <1>7, <2>2 DEF Sane
  <2> QED
    BY <2>1, <2>2
<1>8. ASSUME NEW i \in DOMAIN x.history, x.history[i].by = "cloud"
      PROVE  /\ x.history[i].tx \in cloud2
             /\ x.transactions[x.history[i].tx].by # "cloud"
             /\ \A j \in DOMAIN x.history :
                  x.history[j].tx = x.history[i].tx /\ x.history[j].by = "cloud" => j = i
  <2>1. /\ s.history[i].tx \in cloud /\ s.transactions[s.history[i].tx].by # "cloud"
        /\ \A j \in DOMAIN s.history :
             s.history[j].tx = s.history[i].tx /\ s.history[j].by = "cloud" => j = i
    BY <1>2, <1>8 DEF Sane
  <2>2. s.history[i].tx \in TxIds
    <3>1. s.history \in Seq(ClosedRecord) /\ i \in DOMAIN s.history
      BY <1>1, <1>2, StateFields
    <3>2. s.history[i] \in ClosedRecord
      BY <3>1
    <3> QED
      BY <3>2 DEF ClosedRecord
  <2>3. x.transactions[s.history[i].tx].by # "cloud"
    <3>1. CASE s.history[i].tx = tx
      BY <1>3, <1>5, <2>1, <3>1
    <3>2. CASE s.history[i].tx # tx
      BY <1>5, <2>1, <2>2, <3>2
    <3> QED
      BY <3>1, <3>2
  <2> QED
    BY <1>2, <2>1, <2>3
<1> QED
  BY <1>4, <1>6, <1>7, <1>8 DEF Sane, x

\* The end of a transaction, or of one that is not in progress.
LEMMA StopIsSane ==
    ASSUME NEW s, NEW local, NEW cloud, Sane(s, local, cloud), NEW tx
    PROVE  Sane(StopTransaction(s, tx), local, cloud)
<1>1. s \in ChargerStates
  BY DEF Sane
<1>2. CASE tx \notin TxIds \/ s.transactions[tx] = NoRecord
  BY <1>2 DEF StopTransaction
<1>3. CASE tx \in TxIds /\ s.transactions[tx] # NoRecord
  <2> DEFINE x == StopTransaction(s, tx)
             old == s.transactions[tx]
             closed == [tx |-> tx, connector |-> old.connector, by |-> old.by]
             k == old.connector
  <2>1. old \in Record /\ k \in Connectors /\ old.by \in Issuers /\ closed \in ClosedRecord
    <3>1. old \in Record /\ closed \in ClosedRecord
      BY <1>1, <1>3, StopChanges
    <3> QED
      BY <3>1 DEF Record
  <2>2. x \in ChargerStates
    BY <1>1, <1>3, StopChanges
  <2>3. /\ x.shown = [s.shown EXCEPT ![k] = NoTx]
        /\ x.transactions = [s.transactions EXCEPT ![tx] = NoRecord]
        /\ x.history = Archive(closed, s.history)
    BY <1>1, <1>3, StopChanges
  <2>4. closed.tx = tx /\ closed.by = old.by
    OBVIOUS
  <2>5. /\ x.history \in Seq(ClosedRecord) /\ Len(x.history) <= HistoryLimit
        /\ \A i \in DOMAIN x.history :
             IF i = 1 THEN x.history[i] = closed
             ELSE i - 1 \in DOMAIN s.history /\ x.history[i] = s.history[i - 1]
    <3>1. s.history \in Seq(ClosedRecord) /\ Len(s.history) <= HistoryLimit /\ closed \in ClosedRecord
      BY <1>1, <2>1, StateFields
    <3>2. x.history = Archive(closed, s.history)
      BY <2>3
    <3> HIDE DEF x, closed
    <3>3. /\ Archive(closed, s.history) \in Seq(ClosedRecord) /\ Len(Archive(closed, s.history)) <= HistoryLimit
          /\ \A i \in DOMAIN Archive(closed, s.history) :
                IF i = 1 THEN Archive(closed, s.history)[i] = closed
                ELSE i - 1 \in DOMAIN s.history /\ Archive(closed, s.history)[i] = s.history[i - 1]
      BY <3>1, ArchivedFirst
    <3> QED
      BY <3>2, <3>3
  <2> HIDE DEF x, closed
  <2>7. /\ x.shown[k] = NoTx /\ \A c \in Connectors \ {k} : x.shown[c] = s.shown[c]
        /\ x.transactions[tx] = NoRecord /\ \A t \in TxIds \ {tx} : x.transactions[t] = s.transactions[t]
    BY <1>1, <1>3, <2>1, <2>3, StateFields
  <2>8. ASSUME LocalIds \cap CloudIds = {}, NEW c \in Connectors, x.shown[c] # NoTx
        PROVE  x.shown[c] \in local \cup cloud /\ x.transactions[x.shown[c]].connector = c
    <3>1. c # k /\ x.shown[c] = s.shown[c]
      BY <2>7, <2>8
    <3>2. s.shown[c] \in local \cup cloud /\ s.transactions[s.shown[c]].connector = c
      BY <2>8, <3>1 DEF Sane
    <3>3. s.shown[c] # tx /\ s.shown[c] \in TxIds
      BY <1>1, <2>8, <3>1, <3>2, StateFields
    <3> QED
      BY <2>7, <3>1, <3>2, <3>3
  <2>9. \A t \in TxIds : x.transactions[t].by = "cloud" => s.transactions[t].by = "cloud" /\ t # tx
    BY <2>7 DEF NoRecord
  <2>10. ASSUME NEW t \in TxIds, x.transactions[t].by = "cloud" PROVE t \in cloud
    BY <2>9, <2>10 DEF Sane
  <2>11. ASSUME NEW i \in DOMAIN x.history, x.history[i].by = "cloud"
         PROVE  /\ x.history[i].tx \in cloud
                /\ x.transactions[x.history[i].tx].by # "cloud"
                /\ \A j \in DOMAIN x.history :
                     x.history[j].tx = x.history[i].tx /\ x.history[j].by = "cloud" => j = i
    <3>0. DOMAIN x.history \subseteq Nat /\ DOMAIN s.history \subseteq Nat
      BY <1>1, <2>5, StateFields
    <3>1. \A j \in DOMAIN x.history : x.history[j].tx \in TxIds
      <4>1. \A j \in DOMAIN x.history : x.history[j] \in ClosedRecord
        BY <2>5
      <4> QED
        BY <4>1 DEF ClosedRecord
    <3>2. \A j \in DOMAIN s.history : s.history[j].by = "cloud" =>
            /\ s.history[j].tx \in cloud /\ s.transactions[s.history[j].tx].by # "cloud"
            /\ \A l \in DOMAIN s.history :
                 s.history[l].tx = s.history[j].tx /\ s.history[l].by = "cloud" => l = j
      BY DEF Sane
    <3>3. CASE i = 1
      <4>1. x.history[i] = closed /\ x.history[i].tx = tx /\ old.by = "cloud"
        BY <2>4, <2>5, <2>11, <3>3
      <4>2. tx \in cloud
        BY <1>3, <4>1 DEF Sane
      <4>3. x.transactions[tx].by # "cloud"
        BY <2>7 DEF NoRecord
      <4>4. ASSUME NEW j \in DOMAIN x.history, x.history[j].tx = tx, x.history[j].by = "cloud", j # 1
            PROVE  FALSE
        <5>1. j - 1 \in DOMAIN s.history /\ s.history[j - 1].tx = tx /\ s.history[j - 1].by = "cloud"
          BY <2>5, <4>4
        <5>2. s.transactions[tx].by # "cloud"
          BY <3>2, <5>1
        <5> QED
          BY <4>1, <5>2
      <4> QED
        BY <3>3, <4>1, <4>2, <4>3, <4>4
    <3>4. CASE i # 1
      <4>1. i - 1 \in DOMAIN s.history /\ x.history[i] = s.history[i - 1] /\ s.history[i - 1].by = "cloud"
        BY <2>5, <2>11, <3>4
      <4>2. x.history[i].tx \in cloud /\ s.transactions[x.history[i].tx].by # "cloud"
        BY <3>2, <4>1
      <4>3. x.transactions[x.history[i].tx].by # "cloud"
        BY <2>9, <3>1, <4>2
      <4>4. ASSUME NEW j \in DOMAIN x.history, x.history[j].tx = x.history[i].tx, x.history[j].by = "cloud"
            PROVE  j = i
        <5>1. CASE j = 1
          <6>1. x.history[i].tx = tx /\ old.by = "cloud"
            BY <2>4, <2>5, <4>4, <5>1
          <6> QED
            BY <4>2, <6>1
        <5>2. CASE j # 1
          <6>1. j - 1 \in DOMAIN s.history /\ x.history[j] = s.history[j - 1]
            BY <2>5, <5>2
          <6>2. j - 1 = i - 1
            BY <3>2, <4>1, <4>4, <6>1
          <6> QED
            BY <3>0, <6>2
        <5> QED
          BY <5>1, <5>2
      <4> QED
        BY <4>2, <4>3, <4>4
    <3> QED
      BY <3>3, <3>4
  <2>12. Sane(x, local, cloud)
    BY <2>2, <2>8, <2>10, <2>11 DEF Sane
  <2> QED
    BY <2>12 DEF x
<1> QED
  BY <1>2, <1>3

\* Whatever request is observed with whatever answer, as long as the id of a new
\* transaction is one that was not used.
LEMMA ObserveIsSane ==
    ASSUME NEW s, NEW local, NEW cloud, Sane(s, local, cloud),
           NEW r \in Request, NEW answer \in Answer,
           NEW local2, NEW cloud2, local \subseteq local2, cloud \subseteq cloud2,
           r.method = "StartTransaction" =>
             \/ answer = NoAnswer
             \/ /\ answer.tx \in TxIds /\ answer.by \in Issuers
                /\ answer.tx \in local2 \cup cloud2
                /\ answer.by = "cloud" => answer.tx \in cloud2 /\ answer.tx \notin cloud
                /\ LocalIds \cap CloudIds = {} => answer.tx \notin local \cup cloud
    PROVE  Sane(Observe(s, r, answer), local2, cloud2)
<1>1. r.method \in {"StatusNotification", "StartTransaction", "StopTransaction"} /\ r.connector \in Connectors
  BY DEF Request
<1>2. CASE r.method = "StatusNotification"
  BY <1>1, <1>2, SeenIsSane, SaneGrows DEF Observe
<1>3. CASE r.method = "StartTransaction"
  BY <1>1, <1>3, StartIsSane, SaneGrows DEF Observe
<1>4. CASE r.method = "StopTransaction"
  BY <1>1, <1>4, StopIsSane, SaneGrows DEF Observe
<1> QED
  BY <1>1, <1>2, <1>3, <1>4

-----------------------------------------------------------------------------
\* The connections.

LEMMA UsedIsConnection ==
    ASSUME TypeOK, NEW c \in Conns, Used(c)
    PROVE  conns[c] \in Connection
BY DEF TypeOK, Used, Unused

LEMMA InitGInv == Init => GInv
<1> SUFFICES ASSUME Init PROVE GInv
  OBVIOUS
<1> USE DEF Init
<1>1. \A id \in Identities : Sane(store[id], usedLocal, usedCloud)
  BY EmptyIsSane
<1>2. TypeOK
  <2>1. store \in [Identities -> ChargerStates]
    BY <1>1 DEF Sane
  <2> QED
    BY <2>1 DEF TypeOK
<1>3. MapsAreTrue /\ LocalOnlyIfUnconfigured /\ ChangesAreAnnounced
  BY DEF MapsAreTrue, LocalOnlyIfUnconfigured, ChangesAreAnnounced
<1> QED
  BY <1>1, <1>2, <1>3 DEF GInv, StatesAreSane

\* Steps after which the same clients are there, or fewer of them are open.
LEMMA SameClients ==
    ASSUME GInv, UNCHANGED <<registry, localClients, liveClients>>,
           \A id \in Identities : attached'[id] = attached[id] \/ attached'[id] = NoConn,
           \A c \in Conns :
             /\ Used(c)' <=> Used(c)
             /\ Open(c)' => Open(c)
             /\ Used(c) => /\ conns'[c].id = conns[c].id /\ conns'[c].mode = conns[c].mode
                           /\ conns'[c].feeds = conns[c].feeds,
           changed' \ notified' \subseteq changed \ notified
    PROVE  MapsAreTrue' /\ LocalOnlyIfUnconfigured' /\ ChangesAreAnnounced'
<1>1. MapsAreTrue'
  <2> SUFFICES ASSUME NEW id \in Identities
               PROVE  /\ liveClients[id] # NoConn => Used(liveClients[id])' /\ conns'[liveClients[id]].id = id
                      /\ localClients[id] # NoConn => /\ Used(localClients[id])' /\ conns'[localClients[id]].id = id
                                                      /\ conns'[localClients[id]].mode = "local"
                      /\ attached'[id] # NoConn =>
                           /\ liveClients[id] = attached'[id]
                           /\ conns'[attached'[id]].mode = "local" => localClients[id] = attached'[id]
    BY DEF MapsAreTrue, Used
  <2>1. /\ liveClients[id] \in Conns \cup {NoConn} /\ localClients[id] \in Conns \cup {NoConn}
        /\ attached[id] \in Conns \cup {NoConn}
    BY DEF GInv, TypeOK
  <2>2. liveClients[id] # NoConn => Used(liveClients[id])' /\ conns'[liveClients[id]].id = id
    BY <2>1 DEF GInv, MapsAreTrue
  <2>3. localClients[id] # NoConn => /\ Used(localClients[id])' /\ conns'[localClients[id]].id = id
                                     /\ conns'[localClients[id]].mode = "local"
    BY <2>1 DEF GInv, MapsAreTrue
  <2>4. ASSUME attached'[id] # NoConn
        PROVE  /\ liveClients[id] = attached'[id]
               /\ conns'[attached'[id]].mode = "local" => localClients[id] = attached'[id]
    <3>1. attached'[id] = attached[id] /\ liveClients[id] = attached[id] /\ attached[id] \in Conns
      BY <2>1, <2>4 DEF GInv, MapsAreTrue
    <3>2. conns'[attached[id]].mode = conns[attached[id]].mode
      BY <2>1, <2>4, <3>1 DEF GInv, MapsAreTrue
    <3> QED
      BY <2>4, <3>1, <3>2 DEF GInv, MapsAreTrue
  <2> QED
    BY <2>2, <2>3, <2>4
<1>2. LocalOnlyIfUnconfigured'
  <2> SUFFICES ASSUME NEW id \in Identities, localClients[id] # NoConn, Open(localClients[id])'
               PROVE  registry[id] = NoUrl
    BY DEF LocalOnlyIfUnconfigured, Open
  <2>1. localClients[id] \in Conns
    BY DEF GInv, TypeOK
  <2> QED
    BY <2>1 DEF GInv, LocalOnlyIfUnconfigured
<1>3. ChangesAreAnnounced'
  <2> SUFFICES ASSUME NEW id \in changed' \ notified', NEW c \in Conns, Used(c)', conns'[c].id = id
               PROVE  ~conns'[c].feeds
    BY DEF ChangesAreAnnounced, Used
  <2>1. id \in changed \ notified /\ Used(c) /\ conns[c].id = id /\ conns'[c].feeds = conns[c].feeds
    OBVIOUS
  <2> QED
    BY <2>1 DEF GInv, ChangesAreAnnounced
<1> QED
  BY <1>1, <1>2, <1>3

\* Only the call under way on a connection changes.
LEMMA CallChanges ==
    ASSUME GInv, NEW c \in Conns, Used(c), NEW q \in Request \cup {NoRequest},
           conns' = [conns EXCEPT ![c].call = q]
    PROVE  /\ conns' \in [Conns -> Connection \cup {Unused}]
           /\ \A d \in Conns :
                /\ Used(d)' <=> Used(d)
                /\ Open(d)' => Open(d)
                /\ Used(d) => /\ conns'[d].id = conns[d].id /\ conns'[d].mode = conns[d].mode
                              /\ conns'[d].feeds = conns[d].feeds
<1> DEFINE x == [conns[c] EXCEPT !.call = q]
<1>1. conns[c] \in Connection
  BY UsedIsConnection DEF GInv
<1>2. /\ x \in Connection /\ x.phase = conns[c].phase /\ x.id = conns[c].id /\ x.mode = conns[c].mode
      /\ x.feeds = conns[c].feeds
  BY <1>1 DEF Connection
<1>3. conns' = [conns EXCEPT ![c] = x]
  OBVIOUS
<1> HIDE DEF x
<1>4. /\ conns' \in [Conns -> Connection \cup {Unused}]
      /\ conns'[c] = x /\ \A d \in Conns \ {c} : conns'[d] = conns[d]
  BY <1>2, <1>3 DEF GInv, TypeOK
<1>5. \A d \in Conns : conns'[d].phase = conns[d].phase
  BY <1>2, <1>4
<1> QED
  BY <1>2, <1>4, <1>5 DEF Used, Open

\* A message is observed, and announced.
LEMMA WriteAnnounced ==
    ASSUME GInv, NEW c \in Conns, Used(c), NEW s, Write(c, s), Notify(conns[c].id),
           Sane(s, usedLocal', usedCloud'), usedLocal \subseteq usedLocal', usedCloud \subseteq usedCloud'
    PROVE  /\ StatesAreSane' /\ store' \in [Identities -> ChargerStates]
           /\ notified' \subseteq Identities /\ changed' \subseteq Identities
           /\ changed' \ notified' \subseteq changed \ notified
<1>1. conns[c].id \in Identities
  BY UsedIsConnection DEF GInv, Connection
<1>2. s \in ChargerStates
  BY DEF Sane
<1>3. /\ store' \in [Identities -> ChargerStates]
      /\ \A id \in Identities : store'[id] = store[id] \/ store'[id] = s
      /\ changed' \subseteq changed \cup {conns[c].id}
  BY <1>1, <1>2 DEF Write, GInv, TypeOK
<1>4. \A id \in Identities : Sane(store[id], usedLocal', usedCloud')
  BY SaneGrows DEF GInv, StatesAreSane
<1>5. StatesAreSane'
  BY <1>3, <1>4 DEF StatesAreSane
<1> QED
  BY <1>1, <1>3, <1>5 DEF Notify, GInv, TypeOK

-----------------------------------------------------------------------------
\* A charge point connects: what the maps held is replaced by the new client.
LEMMA AcceptGInv ==
    ASSUME GInv, NEW id \in Identities, NEW c \in Conns, ~Used(c),
           NEW mode \in {"local", "relay", "rejected"}, NEW phase \in {"open", "closing"},
           mode = "rejected" => phase = "closing",
           Accept(id, c, mode, phase),
           \/ mode = "local" /\ registry[id] = NoUrl /\ localClients' = [localClients EXCEPT ![id] = c]
           \/ mode # "local" /\ UNCHANGED localClients
    PROVE  GInv'
<1> DEFINE x == [phase |-> phase, id |-> id, mode |-> mode, url |-> registry[id],
                 feeds |-> TRUE, call |-> NoRequest]
<1>1. /\ conns' = [conns EXCEPT ![c] = x]
      /\ liveClients' = [liveClients EXCEPT ![id] = c]
      /\ known' = known \cup {id}
      /\ changed' = IF id \in known THEN changed ELSE changed \cup {id}
      /\ notified' = notified \cup {id}
      /\ attached' = [attached EXCEPT ![id] = c]
      /\ UNCHANGED <<registry, store, usedLocal, usedCloud, session>>
  BY DEF Accept, Notify
<1>2. /\ x \in Connection /\ x.phase = phase /\ x.id = id /\ x.mode = mode /\ x.phase # "unused"
  <2>1. registry[id] \in Urls \cup {NoUrl} /\ id \in Identities
    BY DEF GInv, TypeOK
  <2> QED
    BY <2>1 DEF Connection
<1> HIDE DEF x
<1>3. /\ conns' \in [Conns -> Connection \cup {Unused}]
      /\ conns'[c] = x /\ \A d \in Conns \ {c} : conns'[d] = conns[d]
  BY <1>1, <1>2 DEF GInv, TypeOK
<1>4. conns'[c].phase # "unused"
  BY <1>2, <1>3
<1>5. c # NoConn
  BY GatewayAssumption DEF GatewayAssumption
<1>6. TypeOK'
  <2>1. /\ localClients' \in [Identities -> Conns \cup {NoConn}]
        /\ liveClients' \in [Identities -> Conns \cup {NoConn}]
        /\ attached' \in [Identities -> Conns \cup {NoConn}]
    BY <1>1 DEF GInv, TypeOK
  <2>2. known' \subseteq Identities /\ notified' \subseteq Identities /\ changed' \subseteq Identities
    BY <1>1 DEF GInv, TypeOK
  <2> QED
    BY <1>1, <1>3, <2>1, <2>2 DEF GInv, TypeOK
<1>7. \A i \in Identities :
        /\ liveClients[i] \in Conns \cup {NoConn} /\ localClients[i] \in Conns \cup {NoConn}
        /\ attached[i] \in Conns \cup {NoConn}
        /\ liveClients[i] # c /\ localClients[i] # c /\ attached[i] # c
  BY <1>5 DEF GInv, TypeOK, MapsAreTrue
<1>8. /\ liveClients'[id] = c /\ attached'[id] = c
      /\ \A i \in Identities \ {id} : liveClients'[i] = liveClients[i] /\ attached'[i] = attached[i]
      /\ \A i \in Identities \ {id} : localClients'[i] = localClients[i]
      /\ \/ mode = "local" /\ localClients'[id] = c
         \/ mode # "local" /\ localClients'[id] = localClients[id]
  BY <1>1 DEF GInv, TypeOK
<1>9. MapsAreTrue'
  <2>1. ASSUME NEW i \in Identities
        PROVE  liveClients'[i] # NoConn => conns'[liveClients'[i]].phase # "unused" /\ conns'[liveClients'[i]].id = i
    <3>1. CASE i = id
      BY <1>2, <1>3, <1>4, <1>8, <3>1
    <3>2. CASE i # id
      <4>1. liveClients'[i] = liveClients[i]
        BY <1>8, <3>2
      <4>2. liveClients[i] # NoConn => liveClients[i] \in Conns \ {c}
        BY <1>7
      <4> QED
        BY <1>3, <4>1, <4>2 DEF GInv, MapsAreTrue, Used
    <3> QED
      BY <3>1, <3>2
  <2>2. ASSUME NEW i \in Identities
        PROVE  localClients'[i] # NoConn => /\ conns'[localClients'[i]].phase # "unused" /\ conns'[localClients'[i]].id = i
                                            /\ conns'[localClients'[i]].mode = "local"
    <3>1. CASE i = id /\ mode = "local"
      BY <1>2, <1>3, <1>4, <1>8, <3>1
    <3>2. CASE i # id \/ mode # "local"
      <4>1. localClients'[i] = localClients[i]
        BY <1>8, <3>2
      <4>2. localClients[i] # NoConn => localClients[i] \in Conns \ {c}
        BY <1>7
      <4> QED
        BY <1>3, <4>1, <4>2 DEF GInv, MapsAreTrue, Used
    <3> QED
      BY <3>1, <3>2
  <2>3. ASSUME NEW i \in Identities, attached'[i] # NoConn
        PROVE  /\ liveClients'[i] = attached'[i]
               /\ conns'[attached'[i]].mode = "local" => localClients'[i] = attached'[i]
    <3>1. CASE i = id
      BY <1>2, <1>3, <1>8, <3>1
    <3>2. CASE i # id
      <4>1. /\ liveClients'[i] = liveClients[i] /\ attached'[i] = attached[i]
            /\ localClients'[i] = localClients[i] /\ attached[i] # NoConn
        BY <1>8, <2>3, <3>2
      <4>2. attached[i] \in Conns \ {c} /\ conns'[attached[i]] = conns[attached[i]]
        BY <1>3, <1>7, <4>1
      <4> QED
        BY <4>1, <4>2 DEF GInv, MapsAreTrue
    <3> QED
      BY <3>1, <3>2
  <2> QED
    BY <2>1, <2>2, <2>3 DEF MapsAreTrue, Used
<1>10. LocalOnlyIfUnconfigured'
  <2> SUFFICES ASSUME NEW i \in Identities, localClients'[i] # NoConn, conns'[localClients'[i]].phase = "open"
               PROVE  registry[i] = NoUrl
    BY <1>1 DEF LocalOnlyIfUnconfigured, Open
  <2>1. CASE i = id /\ mode = "local"
    BY <1>8, <2>1
  <2>2. CASE i # id \/ mode # "local"
    <3>1. localClients'[i] = localClients[i] /\ localClients[i] \in Conns \ {c}
      BY <1>7, <1>8, <2>2
    <3>2. Open(localClients[i])
      BY <1>3, <3>1 DEF Open
    <3> QED
      BY <3>1, <3>2 DEF GInv, LocalOnlyIfUnconfigured
  <2> QED
    BY <2>1, <2>2
<1>11. ChangesAreAnnounced'
  <2> SUFFICES ASSUME NEW i \in changed' \ notified', NEW d \in Conns, Used(d)', conns'[d].id = i
               PROVE  ~conns'[d].feeds
    BY DEF ChangesAreAnnounced, Used
  <2>1. i # id /\ i \in changed \ notified
    BY <1>1
  <2>2. d # c /\ conns'[d] = conns[d] /\ Used(d)
    BY <1>2, <1>3, <2>1 DEF Used
  <2> QED
    BY <2>1, <2>2 DEF GInv, ChangesAreAnnounced
<1>12. StatesAreSane'
  BY <1>1 DEF GInv, StatesAreSane
<1> QED
  BY <1>6, <1>9, <1>10, <1>11, <1>12 DEF GInv

LEMMA ConnectGInv ==
    ASSUME GInv, NEW id \in Identities, NEW c \in Conns,
           ConnectLocal(id, c) \/ ConnectRelay(id, c) \/ ConnectRejected(id, c)
    PROVE  GInv'
<1>1. CASE ConnectLocal(id, c)
  BY <1>1, AcceptGInv DEF ConnectLocal
<1>2. CASE ConnectRelay(id, c)
  BY <1>2, AcceptGInv DEF ConnectRelay
<1>3. CASE ConnectRejected(id, c)
  BY <1>3, AcceptGInv DEF ConnectRejected
<1> QED
  BY <1>1, <1>2, <1>3

\* What leaves the clients and the states alone: a connection lost unseen, an
\* event emitted, nothing.
LEMMA QuietGInv ==
    ASSUME GInv, (\E id \in Identities : Drop(id) \/ Emit(id)) \/ UNCHANGED vars
    PROVE  GInv'
<1>1. /\ UNCHANGED <<registry, store, known, conns, localClients, liveClients, usedLocal, usedCloud, session>>
      /\ notified' \subseteq Identities /\ changed' \subseteq Identities
      /\ changed' \ notified' \subseteq changed \ notified
      /\ attached' \in [Identities -> Conns \cup {NoConn}]
      /\ \A id \in Identities : attached'[id] = attached[id] \/ attached'[id] = NoConn
  <2>1. CASE \E id \in Identities : Drop(id)
    BY <2>1 DEF Drop, gatewayVars, GInv, TypeOK
  <2>2. CASE \E id \in Identities : Emit(id)
    BY <2>2 DEF Emit, chargerVars, GInv, TypeOK
  <2>3. CASE UNCHANGED vars
    BY <2>3 DEF vars, gatewayVars, chargerVars, GInv, TypeOK
  <2> QED
    BY <2>1, <2>2, <2>3
<1>2. TypeOK'
  BY <1>1 DEF GInv, TypeOK
<1>3. \A d \in Conns : /\ Used(d)' <=> Used(d)
                       /\ Open(d)' => Open(d)
  BY <1>1 DEF Used, Open
<1>4. MapsAreTrue' /\ LocalOnlyIfUnconfigured' /\ ChangesAreAnnounced'
  BY <1>1, <1>3, SameClients
<1>5. StatesAreSane'
  BY <1>1 DEF GInv, StatesAreSane
<1> QED
  BY <1>2, <1>4, <1>5 DEF GInv

\* What a charge point believes after an answer.
LEMMA LearnTypes ==
    ASSUME TypeOK, NEW c \in Conns, Used(c), NEW r \in Request, NEW tx \in TxIds \cup {NoTx}, Learn(c, r, tx)
    PROVE  session' \in [Identities -> [Connectors -> TxIds \cup {NoTx}]]
<1>1. conns[c].id \in Identities /\ r.connector \in Connectors /\ r.method \in {"StatusNotification", "StartTransaction", "StopTransaction"}
  BY UsedIsConnection DEF Connection, Request
<1> DEFINE id == conns[c].id
<1>2. \/ session' = session
      \/ session' = [session EXCEPT ![id][r.connector] = tx]
      \/ session' = [session EXCEPT ![id][r.connector] = NoTx]
  BY <1>1 DEF Learn
<1>3. ASSUME NEW v \in TxIds \cup {NoTx}, session' = [session EXCEPT ![id][r.connector] = v]
      PROVE  session' \in [Identities -> [Connectors -> TxIds \cup {NoTx}]]
  <2>1. session' = [session EXCEPT ![id] = [session[id] EXCEPT ![r.connector] = v]]
    BY <1>3
  <2>2. session[id] \in [Connectors -> TxIds \cup {NoTx}]
    BY <1>1 DEF TypeOK
  <2>3. [session[id] EXCEPT ![r.connector] = v] \in [Connectors -> TxIds \cup {NoTx}]
    BY <1>1, <2>2
  <2> QED
    BY <2>1, <2>3 DEF TypeOK
<1> QED
  BY <1>2, <1>3 DEF TypeOK

\* The next id of this process is one that it has not invented.
LEMMA LocalCallGInv ==
    ASSUME GInv, NEW c \in Conns, LocalCall(c)
    PROVE  GInv'
<1> DEFINE id == conns[c].id
           free == LocalIds \ usedLocal
           next == CHOOSE t \in free : \A u \in free : t <= u
<1>1. PICK r \in Requests(id) :
        LET starts == r.method = "StartTransaction"
            answer == IF starts THEN [tx |-> next, by |-> "local"] ELSE [tx |-> NoTx, by |-> "local"]
        IN /\ starts => free # {}
           /\ usedLocal' = IF starts THEN usedLocal \cup {next} ELSE usedLocal
           /\ Write(c, Observe(store[id], r, answer))
           /\ Learn(c, r, answer.tx)
           /\ Notify(id)
  BY DEF LocalCall
<1>2. /\ Used(c) /\ r \in Request /\ id \in Identities
      /\ UNCHANGED <<registry, known, conns, localClients, liveClients, usedCloud, attached>>
  BY UsedIsConnection DEF LocalCall, Open, Used, Requests, GInv, Connection
<1>3. free # {} => next \in LocalIds /\ next \notin usedLocal /\ next \in TxIds
  <2>1. free \subseteq Nat
    BY GatewayAssumption, ChargerStateAssumption DEF GatewayAssumption, ChargerStateAssumption
  <2>2. free # {} => next \in free
    BY <2>1, Smallest
  <2> QED
    BY <2>2, GatewayAssumption DEF GatewayAssumption
<1> DEFINE starts == r.method = "StartTransaction"
           answer == IF starts THEN [tx |-> next, by |-> "local"] ELSE [tx |-> NoTx, by |-> "local"]
           s == Observe(store[id], r, answer)
<1>4. /\ starts => free # {}
      /\ usedLocal' = IF starts THEN usedLocal \cup {next} ELSE usedLocal
      /\ Write(c, s) /\ Learn(c, r, answer.tx) /\ Notify(id)
  BY <1>1
<1> HIDE DEF next, free
<1>5. /\ answer.tx \in TxIds \cup {NoTx} /\ answer \in Answer /\ answer.by = "local"
      /\ starts => answer.tx = next
  BY <1>3, <1>4 DEF Answer, Issuers
<1> HIDE DEF answer
<1>6. usedLocal \subseteq usedLocal' /\ usedCloud \subseteq usedCloud' /\ usedLocal' \subseteq LocalIds
  BY <1>2, <1>3, <1>4 DEF GInv, TypeOK
<1>7. starts => /\ answer.tx \in TxIds /\ answer.by \in Issuers
                /\ answer.tx \in usedLocal' \cup usedCloud'
                /\ answer.by = "cloud" => answer.tx \in usedCloud' /\ answer.tx \notin usedCloud
                /\ LocalIds \cap CloudIds = {} => answer.tx \notin usedLocal \cup usedCloud
  BY <1>3, <1>4, <1>5 DEF Issuers, GInv, TypeOK
<1>8. Sane(s, usedLocal', usedCloud')
  <2>1. Sane(store[id], usedLocal, usedCloud)
    BY <1>2 DEF GInv, StatesAreSane
  <2> QED
    BY <1>2, <1>5, <1>6, <1>7, <2>1, ObserveIsSane
<1> HIDE DEF s
<1>9. /\ StatesAreSane' /\ store' \in [Identities -> ChargerStates]
      /\ notified' \subseteq Identities /\ changed' \subseteq Identities
      /\ changed' \ notified' \subseteq changed \ notified
  BY <1>2, <1>4, <1>6, <1>8, WriteAnnounced
<1>10. session' \in [Identities -> [Connectors -> TxIds \cup {NoTx}]]
  BY <1>2, <1>4, <1>5, LearnTypes DEF GInv
<1>11. TypeOK'
  BY <1>2, <1>6, <1>9, <1>10 DEF GInv, TypeOK
<1>12. MapsAreTrue' /\ LocalOnlyIfUnconfigured' /\ ChangesAreAnnounced'
  <2>1. \A d \in Conns : /\ Used(d)' <=> Used(d)
                         /\ Open(d)' => Open(d)
    BY <1>2 DEF Used, Open
  <2> QED
    BY <1>2, <1>9, <2>1, SameClients
<1> QED
  BY <1>9, <1>11, <1>12 DEF GInv

\* A call goes to the origin cloud.
LEMMA RelayCallGInv ==
    ASSUME GInv, NEW c \in Conns, RelayCall(c)
    PROVE  GInv'
<1>1. PICK r \in Requests(conns[c].id) : conns' = [conns EXCEPT ![c].call = r]
  BY DEF RelayCall
<1>2. /\ Used(c) /\ r \in Request
      /\ UNCHANGED <<registry, store, known, localClients, liveClients, notified, usedLocal,
                     attached, session, usedCloud, changed>>
  BY DEF RelayCall, Open, Used, Requests, chargerVars
<1>3. /\ conns' \in [Conns -> Connection \cup {Unused}]
      /\ \A d \in Conns :
           /\ Used(d)' <=> Used(d)
           /\ Open(d)' => Open(d)
           /\ Used(d) => /\ conns'[d].id = conns[d].id /\ conns'[d].mode = conns[d].mode
                         /\ conns'[d].feeds = conns[d].feeds
  BY <1>1, <1>2, CallChanges
<1>4. TypeOK'
  BY <1>2, <1>3 DEF GInv, TypeOK
<1>5. MapsAreTrue' /\ LocalOnlyIfUnconfigured' /\ ChangesAreAnnounced'
  BY <1>2, <1>3, SameClients
<1>6. StatesAreSane'
  BY <1>2 DEF GInv, StatesAreSane
<1> QED
  BY <1>4, <1>5, <1>6 DEF GInv

\* The call to the cloud ends: with an id that no cloud has given, or with none.
LEMMA CloudCallGInv ==
    ASSUME GInv, NEW c \in Conns, Used(c), NEW r \in Request, conns[c].call = r,
           NEW answer \in Answer,
           usedCloud' = usedCloud \cup ({answer.tx} \ {NoTx}), usedCloud' \subseteq CloudIds,
           answer = NoAnswer \/ answer.by = "cloud",
           IF r.method = "StartTransaction" THEN answer = NoAnswer \/ answer.tx \in CloudIds \ usedCloud
           ELSE answer.tx = NoTx,
           Write(c, Observe(store[conns[c].id], r, answer)), Notify(conns[c].id),
           conns' = [conns EXCEPT ![c].call = NoRequest],
           session' \in [Identities -> [Connectors -> TxIds \cup {NoTx}]],
           UNCHANGED <<registry, known, localClients, liveClients, usedLocal, attached>>
    PROVE  GInv'
<1> DEFINE s == Observe(store[conns[c].id], r, answer)
<1>1. conns[c].id \in Identities
  BY UsedIsConnection DEF GInv, Connection
<1>2. Sane(s, usedLocal', usedCloud')
  <2>1. Sane(store[conns[c].id], usedLocal, usedCloud)
    BY <1>1 DEF GInv, StatesAreSane
  <2>2. r.method = "StartTransaction" =>
             \/ answer = NoAnswer
             \/ /\ answer.tx \in TxIds /\ answer.by \in Issuers
                /\ answer.tx \in usedLocal' \cup usedCloud'
                /\ answer.by = "cloud" => answer.tx \in usedCloud' /\ answer.tx \notin usedCloud
                /\ LocalIds \cap CloudIds = {} => answer.tx \notin usedLocal \cup usedCloud
    BY GatewayAssumption, TxIdsAreIds DEF GatewayAssumption, Issuers, GInv, TypeOK
  <2>3. usedLocal \subseteq usedLocal' /\ usedCloud \subseteq usedCloud'
    OBVIOUS
  <2> QED
    BY <2>1, <2>2, <2>3, ObserveIsSane
<1> HIDE DEF s
<1>3. /\ StatesAreSane' /\ store' \in [Identities -> ChargerStates]
      /\ notified' \subseteq Identities /\ changed' \subseteq Identities
      /\ changed' \ notified' \subseteq changed \ notified
  <2>1. Write(c, s)
    BY DEF s
  <2> QED
    BY <1>2, <2>1, WriteAnnounced
<1>4. /\ conns' \in [Conns -> Connection \cup {Unused}]
      /\ \A d \in Conns :
           /\ Used(d)' <=> Used(d)
           /\ Open(d)' => Open(d)
           /\ Used(d) => /\ conns'[d].id = conns[d].id /\ conns'[d].mode = conns[d].mode
                         /\ conns'[d].feeds = conns[d].feeds
  BY CallChanges
<1>5. TypeOK'
  BY <1>3, <1>4 DEF GInv, TypeOK
<1>6. MapsAreTrue' /\ LocalOnlyIfUnconfigured' /\ ChangesAreAnnounced'
  BY <1>3, <1>4, SameClients
<1> QED
  BY <1>3, <1>5, <1>6 DEF GInv

LEMMA CloudGInv ==
    ASSUME GInv, NEW c \in Conns, CloudAnswers(c) \/ CloudFails(c)
    PROVE  GInv'
<1>1. Used(c) /\ conns[c].call \in Request
  BY UsedIsConnection DEF CloudAnswers, CloudFails, Open, Used, GInv, Connection
<1>2. CASE CloudAnswers(c)
  <2> DEFINE r == conns[c].call
  <2>1. PICK tx \in CloudIds \cup {NoTx} :
          /\ IF r.method = "StartTransaction" THEN tx \in CloudIds \ usedCloud ELSE tx = NoTx
          /\ usedCloud' = usedCloud \cup ({tx} \ {NoTx})
          /\ Write(c, Observe(store[conns[c].id], r, [tx |-> tx, by |-> "cloud"]))
          /\ Learn(c, r, tx)
    BY <1>2 DEF CloudAnswers
  <2>2. /\ conns' = [conns EXCEPT ![c].call = NoRequest] /\ Notify(conns[c].id)
        /\ UNCHANGED <<registry, known, localClients, liveClients, usedLocal, attached>>
    BY <1>2 DEF CloudAnswers
  <2> DEFINE answer == [tx |-> tx, by |-> "cloud"]
  <2>3. tx \in TxIds \cup {NoTx} /\ answer \in Answer /\ answer.tx = tx /\ answer.by = "cloud"
    BY GatewayAssumption DEF GatewayAssumption, Answer, Issuers
  <2>4. usedCloud' \subseteq CloudIds
    BY <2>1 DEF GInv, TypeOK
  <2>5. session' \in [Identities -> [Connectors -> TxIds \cup {NoTx}]]
    BY <1>1, <2>1, <2>3, LearnTypes DEF GInv
  <2>6. Write(c, Observe(store[conns[c].id], r, answer))
    BY <2>1
  <2> HIDE DEF answer, r
  <2>7. r \in Request /\ conns[c].call = r
    BY <1>1 DEF r
  <2> QED
    BY <1>1, <2>1, <2>2, <2>3, <2>4, <2>5, <2>6, <2>7, CloudCallGInv
<1>3. CASE CloudFails(c)
  <2>1. /\ Write(c, Observe(store[conns[c].id], conns[c].call, NoAnswer))
        /\ conns' = [conns EXCEPT ![c].call = NoRequest] /\ Notify(conns[c].id)
        /\ UNCHANGED <<registry, known, localClients, liveClients, usedLocal, usedCloud, attached, session>>
    BY <1>3 DEF CloudFails, chargerVars
  <2>2. NoAnswer \in Answer /\ NoAnswer.tx = NoTx
    BY DEF NoAnswer, Answer
  <2>3. /\ usedCloud' = usedCloud \cup ({NoAnswer.tx} \ {NoTx}) /\ usedCloud' \subseteq CloudIds
        /\ session' \in [Identities -> [Connectors -> TxIds \cup {NoTx}]]
    BY <2>1, <2>2 DEF GInv, TypeOK
  <2> QED
    BY <1>1, <2>1, <2>2, <2>3, CloudCallGInv
<1> QED
  BY <1>2, <1>3

\* The 'close' event: only what the maps hold of this very client is removed.
LEMMA ClosedGInv ==
    ASSUME GInv, NEW c \in Conns, Closed(c)
    PROVE  GInv'
<1> DEFINE id == conns[c].id
<1>1. /\ Used(c) /\ id \in Identities
      /\ liveClients' = Forget(liveClients, c)
      /\ localClients' = IF conns[c].mode = "local" THEN Forget(localClients, c) ELSE localClients
      /\ attached' = [attached EXCEPT ![id] = IF attached[id] = c THEN NoConn ELSE attached[id]]
      /\ conns' = [conns EXCEPT ![c] = Unused]
      /\ UNCHANGED <<registry, known, usedLocal, usedCloud, session>>
  BY UsedIsConnection DEF Closed, GInv, Connection
<1>2. /\ StatesAreSane' /\ store' \in [Identities -> ChargerStates]
      /\ notified' \subseteq Identities /\ changed' \subseteq Identities
      /\ changed' \ notified' \subseteq changed \ notified
  <2>1. CASE conns[c].call = NoRequest
    BY <1>1, <2>1 DEF Closed, GInv, TypeOK, StatesAreSane
  <2>2. CASE conns[c].call # NoRequest
    <3>1. Write(c, Observe(store[id], conns[c].call, NoAnswer)) /\ Notify(id)
      BY <2>2 DEF Closed
    <3>2. conns[c].call \in Request
      BY <1>1, <2>2, UsedIsConnection DEF GInv, Connection
    <3>3. NoAnswer \in Answer
      BY DEF NoAnswer, Answer
    <3>4. Sane(store[id], usedLocal, usedCloud)
      BY <1>1 DEF GInv, StatesAreSane
    <3> DEFINE s == Observe(store[id], conns[c].call, NoAnswer)
    <3>5. Sane(s, usedLocal', usedCloud')
      BY <1>1, <3>2, <3>3, <3>4, ObserveIsSane
    <3>6. Write(c, s) /\ usedLocal \subseteq usedLocal' /\ usedCloud \subseteq usedCloud'
      BY <1>1, <3>1
    <3> HIDE DEF s
    <3> QED
      BY <1>1, <3>1, <3>5, <3>6, WriteAnnounced
  <2> QED
    BY <2>1, <2>2
<1>3. /\ conns' \in [Conns -> Connection \cup {Unused}] /\ conns'[c] = Unused
      /\ \A d \in Conns \ {c} : conns'[d] = conns[d]
  BY <1>1 DEF GInv, TypeOK
<1>4. \A i \in Identities :
        /\ liveClients'[i] = IF liveClients[i] = c THEN NoConn ELSE liveClients[i]
        /\ localClients'[i] = IF localClients[i] = c THEN NoConn ELSE localClients[i]
        /\ attached'[i] = IF attached[i] = c THEN NoConn ELSE attached[i]
  <2>1. c # NoConn
    BY GatewayAssumption DEF GatewayAssumption
  <2>2. \A i \in Identities : liveClients[i] = c \/ localClients[i] = c \/ attached[i] = c => i = id
    BY <2>1 DEF GInv, MapsAreTrue
  <2>3. \A i \in Identities : localClients[i] = c => conns[c].mode = "local"
    BY <2>1 DEF GInv, MapsAreTrue
  <2>4. /\ liveClients \in [Identities -> Conns \cup {NoConn}] /\ localClients \in [Identities -> Conns \cup {NoConn}]
        /\ attached \in [Identities -> Conns \cup {NoConn}]
    BY DEF GInv, TypeOK
  <2>5. \A i \in Identities : liveClients'[i] = IF liveClients[i] = c THEN NoConn ELSE liveClients[i]
    BY <1>1, <2>2, <2>4 DEF Forget
  <2>6. \A i \in Identities : localClients'[i] = IF localClients[i] = c THEN NoConn ELSE localClients[i]
    BY <1>1, <2>2, <2>3, <2>4 DEF Forget
  <2>7. \A i \in Identities : attached'[i] = IF attached[i] = c THEN NoConn ELSE attached[i]
    BY <1>1, <2>2, <2>4
  <2> QED
    BY <2>5, <2>6, <2>7
<1>5. TypeOK'
  <2>1. /\ liveClients' \in [Identities -> Conns \cup {NoConn}] /\ localClients' \in [Identities -> Conns \cup {NoConn}]
        /\ attached' \in [Identities -> Conns \cup {NoConn}]
    BY <1>1 DEF Forget, GInv, TypeOK
  <2> QED
    BY <1>1, <1>2, <1>3, <2>1 DEF GInv, TypeOK
<1>6. \A i \in Identities :
        /\ liveClients[i] \in Conns \cup {NoConn} /\ localClients[i] \in Conns \cup {NoConn}
        /\ attached[i] \in Conns \cup {NoConn}
  BY DEF GInv, TypeOK
<1>7. MapsAreTrue'
  <2>1. ASSUME NEW i \in Identities, liveClients'[i] # NoConn
        PROVE  conns'[liveClients'[i]].phase # "unused" /\ conns'[liveClients'[i]].id = i
    <3>1. liveClients'[i] = liveClients[i] /\ liveClients[i] \in Conns \ {c}
      BY <1>4, <1>6, <2>1
    <3> QED
      BY <1>3, <2>1, <3>1 DEF GInv, MapsAreTrue, Used
  <2>2. ASSUME NEW i \in Identities, localClients'[i] # NoConn
        PROVE  /\ conns'[localClients'[i]].phase # "unused" /\ conns'[localClients'[i]].id = i
               /\ conns'[localClients'[i]].mode = "local"
    <3>1. localClients'[i] = localClients[i] /\ localClients[i] \in Conns \ {c}
      BY <1>4, <1>6, <2>2
    <3> QED
      BY <1>3, <2>2, <3>1 DEF GInv, MapsAreTrue, Used
  <2>3. ASSUME NEW i \in Identities, attached'[i] # NoConn
        PROVE  /\ liveClients'[i] = attached'[i]
               /\ conns'[attached'[i]].mode = "local" => localClients'[i] = attached'[i]
    <3>1. attached'[i] = attached[i] /\ attached[i] \in Conns \ {c} /\ attached[i] # NoConn
      BY <1>4, <1>6, <2>3
    <3>2. liveClients[i] = attached[i] /\ (conns[attached[i]].mode = "local" => localClients[i] = attached[i])
      BY <3>1 DEF GInv, MapsAreTrue
    <3> QED
      BY <1>3, <1>4, <3>1, <3>2
  <2> QED
    BY <2>1, <2>2, <2>3 DEF MapsAreTrue, Used
<1>8. LocalOnlyIfUnconfigured'
  <2> SUFFICES ASSUME NEW i \in Identities, localClients'[i] # NoConn, conns'[localClients'[i]].phase = "open"
               PROVE  registry[i] = NoUrl
    BY <1>1 DEF LocalOnlyIfUnconfigured, Open
  <2>1. localClients'[i] = localClients[i] /\ localClients[i] \in Conns \ {c}
    BY <1>4, <1>6
  <2> QED
    BY <1>3, <2>1 DEF GInv, LocalOnlyIfUnconfigured, Open
<1>9. ChangesAreAnnounced'
  <2> SUFFICES ASSUME NEW i \in changed' \ notified', NEW d \in Conns, Used(d)', conns'[d].id = i
               PROVE  ~conns'[d].feeds
    BY DEF ChangesAreAnnounced, Used
  <2>1. d # c /\ conns'[d] = conns[d] /\ i \in changed \ notified
    BY <1>2, <1>3 DEF Used, Unused
  <2> QED
    BY <2>1 DEF GInv, ChangesAreAnnounced, Used
<1> QED
  BY <1>2, <1>5, <1>7, <1>8, <1>9 DEF GInv

\* POST /api/chargers: the clients in local mode that gain an origin cloud are
\* closed in the same step.
LEMMA PostChargersGInv ==
    ASSUME GInv, NEW m \in [Identities -> Urls \cup {NoUrl}], PostChargers(m)
    PROVE  GInv'
<1> DEFINE gained == {i \in Identities : m[i] # NoUrl /\ registry[i] = NoUrl /\ localClients[i] # NoConn}
<1>1. /\ registry' = m
      /\ store' = [i \in Identities |-> IF i \in gained THEN EmptyCharger ELSE store[i]]
      /\ known' = known \cup gained
      /\ changed' = changed \cup {i \in gained : store[i] # EmptyCharger}
      /\ conns' = [c \in Conns |->
            IF ~Used(c) \/ conns[c].id \notin gained THEN conns[c]
            ELSE [conns[c] EXCEPT !.feeds = FALSE,
                    !.phase = IF localClients[conns[c].id] = c THEN "closing" ELSE @]]
      /\ UNCHANGED <<localClients, liveClients, notified, usedLocal, attached, session, usedCloud>>
  BY DEF PostChargers, chargerVars
<1>2. ASSUME NEW c \in Conns
      PROVE  /\ conns'[c] \in Connection \cup {Unused}
             /\ Used(c)' <=> Used(c)
             /\ Used(c) => conns'[c].id = conns[c].id /\ conns'[c].mode = conns[c].mode
             /\ conns'[c].phase = "open" => Open(c)
             /\ Used(c) /\ conns[c].id \in gained =>
                  ~conns'[c].feeds /\ (localClients[conns[c].id] = c => conns'[c].phase # "open")
             /\ ~Used(c) \/ conns[c].id \notin gained => conns'[c] = conns[c]
  <2>1. CASE ~Used(c) \/ conns[c].id \notin gained
    <3>1. conns'[c] = conns[c]
      BY <1>1, <2>1
    <3> QED
      BY <2>1, <3>1 DEF GInv, TypeOK, Used, Open
  <2>2. CASE Used(c) /\ conns[c].id \in gained
    <3> DEFINE p == IF localClients[conns[c].id] = c THEN "closing" ELSE conns[c].phase
    <3>1. conns[c] \in Connection
      BY <2>2, UsedIsConnection DEF GInv
    <3>2. conns'[c] = [conns[c] EXCEPT !.feeds = FALSE, !.phase = p]
      BY <1>1, <2>2, <3>1
    <3>3. p \in {"open", "closing"} /\ (p = "open" => conns[c].phase = "open")
          /\ (localClients[conns[c].id] = c => p = "closing")
      BY <3>1 DEF Connection
    <3> HIDE DEF p, gained
    <3>4. /\ conns'[c] \in Connection /\ conns'[c].phase = p /\ conns'[c].feeds = FALSE
          /\ conns'[c].id = conns[c].id /\ conns'[c].mode = conns[c].mode
      BY <3>1, <3>2, <3>3 DEF Connection
    <3> QED
      BY <2>2, <3>3, <3>4 DEF Used, Open
  <2> QED
    BY <2>1, <2>2
<1>3. conns' \in [Conns -> Connection \cup {Unused}]
  BY <1>1, <1>2
<1>4. StatesAreSane' /\ store' \in [Identities -> ChargerStates]
  <2>1. \A i \in Identities : store'[i] = EmptyCharger \/ store'[i] = store[i]
    BY <1>1
  <2>2. \A i \in Identities : Sane(store'[i], usedLocal, usedCloud)
    BY <2>1, EmptyIsSane DEF GInv, StatesAreSane
  <2>3. \A i \in Identities : store'[i] \in ChargerStates
    BY <2>2 DEF Sane
  <2>4. store' = [i \in Identities |-> IF i \in gained THEN EmptyCharger ELSE store[i]]
    BY <1>1
  <2> HIDE DEF gained
  <2>5. store' = [i \in Identities |-> store'[i]]
    BY <2>4
  <2>6. store' \in [Identities -> ChargerStates]
    BY <2>3, <2>5
  <2>7. usedLocal' = usedLocal /\ usedCloud' = usedCloud
    BY <1>1
  <2> QED
    BY <2>2, <2>6, <2>7 DEF StatesAreSane
<1>5. TypeOK'
  <2>1. registry' \in [Identities -> Urls \cup {NoUrl}] /\ known' \subseteq Identities /\ changed' \subseteq Identities
    BY <1>1 DEF GInv, TypeOK
  <2> QED
    BY <1>1, <1>3, <1>4, <2>1 DEF GInv, TypeOK
<1>6. \A i \in Identities :
        /\ liveClients[i] \in Conns \cup {NoConn} /\ localClients[i] \in Conns \cup {NoConn}
        /\ attached[i] \in Conns \cup {NoConn}
  BY DEF GInv, TypeOK
<1>7. MapsAreTrue'
  <2>0. localClients' = localClients /\ liveClients' = liveClients /\ attached' = attached
    BY <1>1
  <2> SUFFICES ASSUME NEW i \in Identities
               PROVE  /\ liveClients[i] # NoConn => conns'[liveClients[i]].phase # "unused" /\ conns'[liveClients[i]].id = i
                      /\ localClients[i] # NoConn => /\ conns'[localClients[i]].phase # "unused"
                                                     /\ conns'[localClients[i]].id = i
                                                     /\ conns'[localClients[i]].mode = "local"
                      /\ attached[i] # NoConn => /\ liveClients[i] = attached[i]
                                                 /\ conns'[attached[i]].mode = "local" => localClients[i] = attached[i]
    BY <2>0 DEF MapsAreTrue, Used
  <2>1. liveClients[i] # NoConn => conns'[liveClients[i]].phase # "unused" /\ conns'[liveClients[i]].id = i
    BY <1>2, <1>6 DEF GInv, MapsAreTrue, Used
  <2>2. localClients[i] # NoConn => /\ conns'[localClients[i]].phase # "unused"
                                    /\ conns'[localClients[i]].id = i
                                    /\ conns'[localClients[i]].mode = "local"
    BY <1>2, <1>6 DEF GInv, MapsAreTrue, Used
  <2>3. attached[i] # NoConn => /\ liveClients[i] = attached[i]
                                /\ conns'[attached[i]].mode = "local" => localClients[i] = attached[i]
    <3> SUFFICES ASSUME attached[i] # NoConn
                 PROVE  /\ liveClients[i] = attached[i]
                        /\ conns'[attached[i]].mode = "local" => localClients[i] = attached[i]
      OBVIOUS
    <3>1. liveClients[i] = attached[i] /\ attached[i] \in Conns /\ Used(attached[i])
      BY <1>6 DEF GInv, MapsAreTrue
    <3>2. conns'[attached[i]].mode = conns[attached[i]].mode
      BY <1>2, <3>1
    <3> QED
      BY <3>1, <3>2 DEF GInv, MapsAreTrue
  <2> QED
    BY <2>1, <2>2, <2>3
<1>8. LocalOnlyIfUnconfigured'
  <2> SUFFICES ASSUME NEW i \in Identities, localClients[i] # NoConn, conns'[localClients[i]].phase = "open"
               PROVE  m[i] = NoUrl
    BY <1>1 DEF LocalOnlyIfUnconfigured, Open
  <2>1. localClients[i] \in Conns /\ Used(localClients[i]) /\ conns[localClients[i]].id = i
    BY <1>6 DEF GInv, MapsAreTrue
  <2>2. Open(localClients[i]) /\ i \notin gained
    BY <1>2, <2>1
  <2>3. registry[i] = NoUrl
    BY <2>2 DEF GInv, LocalOnlyIfUnconfigured
  <2> QED
    BY <2>2, <2>3
<1>9. ChangesAreAnnounced'
  <2> SUFFICES ASSUME NEW i \in changed' \ notified', NEW c \in Conns, Used(c)', conns'[c].id = i
               PROVE  ~conns'[c].feeds
    BY DEF ChangesAreAnnounced, Used
  <2>1. Used(c) /\ conns[c].id = i
    BY <1>2
  <2>2. CASE i \in gained
    BY <1>2, <2>1, <2>2
  <2>3. CASE i \notin gained
    <3>1. i \in changed \ notified /\ conns'[c] = conns[c]
      BY <1>1, <1>2, <2>1, <2>3
    <3> QED
      BY <2>1, <3>1 DEF GInv, ChangesAreAnnounced
  <2> QED
    BY <2>2, <2>3
<1> QED
  BY <1>4, <1>5, <1>7, <1>8, <1>9 DEF GInv

\* The sub-container restarts: as at the start, but for what the clouds and the
\* charge points keep.
LEMMA RestartGInv ==
    ASSUME GInv, Restart
    PROVE  GInv'
<1> USE DEF Restart, Fresh
<1>1. \A id \in Identities : Sane(store'[id], usedLocal', usedCloud')
  BY EmptyIsSane
<1>2. TypeOK'
  <2>1. store' \in [Identities -> ChargerStates]
    BY <1>1 DEF Sane
  <2> QED
    BY <2>1 DEF GInv, TypeOK
<1>3. MapsAreTrue' /\ LocalOnlyIfUnconfigured' /\ ChangesAreAnnounced'
  BY DEF MapsAreTrue, LocalOnlyIfUnconfigured, ChangesAreAnnounced
<1> QED
  BY <1>1, <1>2, <1>3 DEF GInv, StatesAreSane

\* Every action preserves the invariant.
LEMMA NextGInv == GInv /\ [Next]_vars => GInv'
<1> SUFFICES ASSUME GInv, Next PROVE GInv'
  BY QuietGInv
<1>1. ASSUME NEW id \in Identities, NEW c \in Conns,
             ConnectLocal(id, c) \/ ConnectRelay(id, c) \/ ConnectRejected(id, c)
      PROVE  GInv'
  BY <1>1, ConnectGInv
<1>2. ASSUME NEW id \in Identities, Drop(id) \/ Emit(id) PROVE GInv'
  BY <1>2, QuietGInv
<1>3. ASSUME NEW c \in Conns, Closed(c) PROVE GInv'
  BY <1>3, ClosedGInv
<1>4. ASSUME NEW c \in Conns, LocalCall(c) PROVE GInv'
  BY <1>4, LocalCallGInv
<1>5. ASSUME NEW c \in Conns, RelayCall(c) PROVE GInv'
  BY <1>5, RelayCallGInv
<1>6. ASSUME NEW c \in Conns, CloudAnswers(c) \/ CloudFails(c) PROVE GInv'
  BY <1>6, CloudGInv
<1>7. ASSUME NEW m \in [Identities -> Urls \cup {NoUrl}], PostChargers(m) PROVE GInv'
  BY <1>7, PostChargersGInv
<1>8. CASE Restart
  BY <1>8, RestartGInv
<1> QED
  BY <1>1, <1>2, <1>3, <1>4, <1>5, <1>6, <1>7, <1>8 DEF Next

-----------------------------------------------------------------------------
\* The inductive invariant of the gateway.
THEOREM GatewayInvariant == Spec => []GInv
<1> QED
  BY InitGInv, NextGInv, PTL DEF Spec

\* Every variable keeps its type; the history of ChargerState stays within
\* HISTORY_LIMIT.
THEOREM TypesAreKept == Spec => []TypeOK
<1>1. GInv => TypeOK
  BY DEF GInv
<1> QED
  BY <1>1, GatewayInvariant, PTL

\* A connection in local mode is of a charge point without an origin cloud: the
\* POST that gives it one closes the client that localClients holds, and the
\* 'close' handlers keep that map true across reconnections.
THEOREM LocalModeIsForTheUnconfigured == Spec => []LocalOnlyIfUnconfigured
<1>1. GInv => LocalOnlyIfUnconfigured
  BY DEF GInv
<1> QED
  BY <1>1, GatewayInvariant, PTL

\* The maps of clients point to the client that the charge point uses, in whatever
\* order old connections close and new ones open.
THEOREM TheMapsAreTrue == Spec => []MapsFollowReconnects
<1>1. GInv => MapsFollowReconnects
  <2> SUFFICES ASSUME GInv, NEW id \in Identities
               PROVE  /\ \A map \in {localClients, liveClients} :
                           map[id] # NoConn => Used(map[id]) /\ conns[map[id]].id = id
                      /\ attached[id] # NoConn =>
                           /\ liveClients[id] = attached[id]
                           /\ conns[attached[id]].mode = "local" => localClients[id] = attached[id]
    BY DEF MapsFollowReconnects
  <2> QED
    BY DEF GInv, MapsAreTrue
<1> QED
  BY <1>1, GatewayInvariant, PTL

\* What patchConnector() has changed since the last event is emitted, or the state
\* is one that no connection writes to any more.
THEOREM ChangesGoOut == Spec => []ChangesAreAnnounced
<1>1. GInv => ChangesAreAnnounced
  BY DEF GInv
<1> QED
  BY <1>1, GatewayInvariant, PTL

\* A connector shows a transaction only while its record is in progress on that
\* connector: startTransaction() and stopTransaction() keep both together because
\* no id is used twice.
THEOREM ShownSessionsAreRecorded == Spec => []SessionIsRecorded
<1>1. GInv => SessionIsRecorded
  BY DEF GInv, StatesAreSane, Sane, SessionIsRecorded
<1> QED
  BY <1>1, GatewayInvariant, PTL

\* A transaction of a cloud is archived once, however often its end is sent again.
THEOREM TransactionsAreArchivedOnce == Spec => []ArchivedOnce
<1>1. GInv => ArchivedOnce
  BY DEF GInv, StatesAreSane, Sane, ArchivedOnce
<1> QED
  BY <1>1, GatewayInvariant, PTL
=============================================================================
