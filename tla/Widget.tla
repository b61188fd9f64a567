------------------------------- MODULE Widget -------------------------------
(***************************************************************************)
(* The dashboard widget: what it shows of one connector                    *)
(* (src/widgets/charger.js, widgetComponents of src/vendors/autel/), as a  *)
(* function of the gateway's state, of the user's settings and of what the *)
(* vendor module recorded.                                                 *)
(*                                                                         *)
(* A component is its type and what distinguishes it from another of the   *)
(* same type.  Times, wording, colours and currencies are left out: every  *)
(* timestamp is taken as valid.  A setting that is absent or malformed is  *)
(* the empty sequence, any other <<its value>>.                            *)
(***************************************************************************)
EXTENDS DeviceMapping

MAX_COMPONENTS == 8
MAX_WIDGET_COMPONENTS == 4

\* TILES, in the canonical order.
TileOrder == <<"power", "session_energy", "duration", "cost", "offered_power", "total_energy">>
Tiles == {TileOrder[i] : i \in 1..6}
Charts == {"auto", "power", "sessions", "none"}

\* Some of the tiles, in that order.
InOrder(some) ==
    LET places == {i \in 1..6 : TileOrder[i] \in some}
    IN [n \in 1..Cardinality(places) |->
           TileOrder[CHOOSE i \in places : Cardinality({j \in places : j <= i}) = n]]

\* SESSION_STATUSES
InSession == {"Charging", "SuspendedEV", "SuspendedEVSE"}

\* What the settings form may send.  priced: costFeatureHasValue().
Optional(S) == {<<>>} \cup {<<v>> : v \in S}
Settings == [connector : Optional(1..11), tiles : Optional(SUBSET Tiles), chart : Optional(Charts),
             price : BOOLEAN, priced : BOOLEAN, details : Optional(BOOLEAN), controls : Optional(BOOLEAN)]

\* normalizeWidgetSettings(), with DEFAULT_SETTINGS.
Or(setting, default) == IF setting = <<>> THEN default ELSE setting[1]
NormalizeWidgetSettings(s) ==
    [s EXCEPT !.connector = IF Or(s.connector, 1) \in 1..10 THEN Or(s.connector, 1) ELSE 1,
              !.tiles = Or(s.tiles, {"power", "session_energy", "duration", "cost"}),
              !.chart = Or(s.chart, "auto"),
              !.details = Or(s.details, TRUE), !.controls = Or(s.controls, TRUE)]

-----------------------------------------------------------------------------
\* g is what GET /api/state tells of the charge point: its ChargerState, the
\* measures of its connectors, the meter values of its transactions, and its
\* vendor and model.

\* activeTransaction: the one that the connector itself shows.
Active(g, k) ==
    LET tx == g.base.shown[k]
    IN IF tx # NoTx /\ g.base.transactions[tx].connector = k THEN tx ELSE NoTx

\* closedSessions(), as places of the history, which begins with the newest.
Sessions(g, k) == {i \in DOMAIN g.base.history : g.base.history[i].connector = k}

LastSession(g, k) ==
    IF Sessions(g, k) = {} THEN NoTx
    ELSE g.base.history[CHOOSE i \in Sessions(g, k) : \A j \in Sessions(g, k) : i <= j].tx

\* sessionEnergyKwh(), in hundredths.
EnergyKwh(start, end) == IF start = NoValue \/ end = NoValue \/ end < start THEN NoValue ELSE Rounded(end - start, 10)

ClosedEnergy(g, tx) == EnergyKwh(g.meters[tx].start, g.meters[tx].stop)

SessionEnergy(g, k) ==
    CASE Active(g, k) # NoTx -> EnergyKwh(g.meters[Active(g, k)].start, g.seen[k].values["energy"])
      [] Active(g, k) = NoTx /\ LastSession(g, k) # NoTx -> ClosedEnergy(g, LastSession(g, k))
      [] OTHER -> NoValue

\* tileBuilders: each tile only when it has something to show.
HasTile(g, k, o, tile) ==
    CASE tile \in {"power", "total_energy"} -> TRUE
      [] tile = "session_energy" -> SessionEnergy(g, k) # NoValue
      [] tile = "duration" -> Active(g, k) # NoTx \/ LastSession(g, k) # NoTx
      [] tile = "cost" -> o.priced \/ (o.price /\ SessionEnergy(g, k) # NoValue)
      [] tile = "offered_power" -> g.seen[k].values["powerOffered"] # NoValue

Chart(g, k, o) ==
    LET measured == {i \in Sessions(g, k) : ClosedEnergy(g, g.base.history[i].tx) # NoValue}
        sessions == IF measured = {} THEN <<>> ELSE <<[type |-> "chart", shows |-> "sessions"]>>
        power == <<[type |-> "chart", shows |-> "power"]>>
    IN CASE o.chart = "auto" -> IF g.seen[k].status \in InSession THEN power ELSE sessions
         [] o.chart = "power" -> power
         [] o.chart = "sessions" -> sessions
         [] o.chart = "none" -> <<>>

\* statusItems(); g.hardware is None as long as vendor and model are unknown.
StatusItems(g, k) ==
    {"connector", "last-message"}
    \cup (IF \E f \in {"powerOffered", "currentOffered"} : g.seen[k].values[f] # NoValue THEN {"limit"} ELSE {})
    \cup (IF g.seen[k].error \notin {None, "NoError"} THEN {"error"} ELSE {})
    \cup (IF Active(g, k) = NoTx /\ LastSession(g, k) # NoTx THEN {"last-session"} ELSE {})
    \cup (IF g.hardware # None THEN {g.hardware} ELSE {})

\* widgetComponents() of the vendor module: the opposite of the known lock, both
\* while it is unknown.
Buttons(x) ==
    LET button(value) == [type |-> "button", shows |-> value]
    IN CASE x.lock = "locked" -> <<button("unlock")>>
         [] x.lock = "unlocked" -> <<button("lock")>>
         [] x.lock = None -> <<button("lock"), button("unlock")>>

Controls(o, x) == IF o.controls /\ x.supported THEN SubSeq(Buttons(x), 1,
                      IF Len(Buttons(x)) < MAX_WIDGET_COMPONENTS THEN Len(Buttons(x)) ELSE MAX_WIDGET_COMPONENTS)
                  ELSE <<>>

Heading(g, k) == [type |-> "heading", shows |-> [status |-> g.seen[k].status,
                  timed |-> g.seen[k].status \in InSession /\ Active(g, k) # NoTx]]
Caption == [type |-> "caption", shows |-> "connector"]
MessageContent == <<[type |-> "heading", shows |-> "message"], Caption>>

\* Mutant: the heading is not counted.
RoomUncounted(fixed) == MAX_COMPONENTS - Len(fixed)

\* The components left for tiles.
Room(fixed) == IF MAX_COMPONENTS - 1 - Len(fixed) > 0 THEN MAX_COMPONENTS - 1 - Len(fixed) ELSE 0

\* What gives way when there is too much: the caption, then the last tiles.
Arranged(heading, tiles, fixed) ==
    LET shown == SubSeq(tiles, 1, IF Len(tiles) < Room(fixed) THEN Len(tiles) ELSE Room(fixed))
        caption == IF 1 + Len(shown) + Len(fixed) < MAX_COMPONENTS THEN <<Caption>> ELSE <<>>
    IN <<heading>> \o caption \o shown \o fixed

\* The components that never give way.
Fixed(g, k, o, x) ==
    Chart(g, k, o)
    \o (IF o.details THEN <<[type |-> "status", shows |-> StatusItems(g, k)]>> ELSE <<>>)
    \o Controls(o, x)

\* buildChargerWidget()
BuildChargerWidget(g, o, x) ==
    LET k == o.connector
        tiles == InOrder({tile \in o.tiles : HasTile(g, k, o, tile)})
        component(tile) == [type |-> "tile", shows |-> <<tile, Active(g, k) # NoTx>>]
    IN IF ~g.here \/ k \notin g.base.connectors THEN MessageContent
       ELSE Arranged(Heading(g, k), [i \in DOMAIN tiles |-> component(tiles[i])], Fixed(g, k, o, x))

\* Mutant: the transaction is left out.
WidgetSignatureOfStatus(g, x) ==
    <<[k \in g.base.connectors |->
         <<g.seen[k].status, g.seen[k].error,
           g.seen[k].values["powerOffered"], g.seen[k].values["currentOffered"]>>],
      IF g.base.history = <<>> THEN NoTx ELSE Head(g.base.history).tx, x>>

\* widgetSignature(): when it changes, Gladys is asked to pull the widgets again.
WidgetSignature(g, x) ==
    <<[k \in g.base.connectors |->
         <<g.seen[k].status, g.seen[k].error, g.base.shown[k],
           g.seen[k].values["powerOffered"], g.seen[k].values["currentOffered"]>>],
      IF g.base.history = <<>> THEN NoTx ELSE Head(g.base.history).tx, x>>
=============================================================================
