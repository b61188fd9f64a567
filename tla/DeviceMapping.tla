--------------------------- MODULE DeviceMapping ----------------------------
(***************************************************************************)
(* One connector as the gateway measures it (gateway/src/state.ts,         *)
(* observe.ts, meterValues.ts) and as Gladys sees it: the features of its  *)
(* device and their states (src/devices/charger.js, src/vendors/).         *)
(*                                                                         *)
(* Numbers are integers in the unit of the charge point, and in hundredths *)
(* of a kW or thousandths of a kWh once rounded for Gladys.  A feature is  *)
(* its key, its connector and its bounds; names, units and categories are  *)
(* wording.                                                                *)
(***************************************************************************)
EXTENDS ChargerState, Integers, FiniteSets

NoValue == -1   \* null, a field that is absent, a value that is not a number
None == "none"

Statuses == {"Available", "Preparing", "Charging", "SuspendedEVSE", "SuspendedEV",
             "Finishing", "Reserved", "Unavailable", "Faulted"}

\* MEASURAND_TO_FIELD
Fields == {"energy", "power", "powerOffered", "current", "currentOffered", "voltage"}

\* emptyConnector(); the transaction is in ChargerState.
EmptyConnector == [status |-> "Unknown", error |-> None, values |-> [f \in Fields |-> NoValue]]

\* meterValuesToPatch(): the last sample of each measurand that is a number, in the
\* order of the message; measurands it does not know are ignored.
Patch(values, samples) ==
    [f \in Fields |->
        LET of == {i \in DOMAIN samples : samples[i].field = f /\ samples[i].value # NoValue}
        IN IF of = {} THEN values[f] ELSE samples[CHOOSE i \in of : \A j \in of : j <= i].value]

-----------------------------------------------------------------------------
\* What the vendor module recorded: lock is "locked", "unlocked" or None.
Extensions == [supported : BOOLEAN, lock : {"locked", "unlocked", None}]

\* CONNECTOR_STATUS and CHARGING_STATE
ConnectorStatus == [AVAILABLE |-> 0, OCCUPIED |-> 1, RESERVED |-> 2, UNAVAILABLE |-> 3, FAULTED |-> 4]
ChargingState == [CHARGING |-> 0, EV_CONNECTED |-> 1, PAUSED_BY_VEHICLE |-> 2, PAUSED_BY_CHARGER |-> 3, IDLE |-> 4]

\* OCPP16_STATUS_MAP: a connector without a session is IDLE.
Mapped(status) ==
    LET pair(c, s) == [connectorStatus |-> ConnectorStatus[c], chargingState |-> ChargingState[s]]
    IN CASE status = "Available" -> pair("AVAILABLE", "IDLE")
         [] status \in {"Preparing", "Finishing"} -> pair("OCCUPIED", "EV_CONNECTED")
         [] status = "Charging" -> pair("OCCUPIED", "CHARGING")
         [] status = "SuspendedEVSE" -> pair("OCCUPIED", "PAUSED_BY_CHARGER")
         [] status = "SuspendedEV" -> pair("OCCUPIED", "PAUSED_BY_VEHICLE")
         [] status = "Reserved" -> pair("RESERVED", "IDLE")
         [] status = "Unavailable" -> pair("UNAVAILABLE", "IDLE")
         [] status = "Faulted" -> pair("FAULTED", "IDLE")

\* Math.round(x / n) of a natural number.
Rounded(x, n) == (x + n \div 2) \div n

\* connectorStates() of the vendor module: never a guessed value.
LockStates(k, x) ==
    IF x.supported /\ x.lock # None
    THEN {[key |-> "permanent-lock", connector |-> k, state |-> IF x.lock = "locked" THEN 1 ELSE 0]}
    ELSE {}

\* mapConnectorToStates() and the vendor modules: the states of one connector.
\* An unknown status and a missing measure publish nothing.
ConnectorStates(k, c, x) ==
    LET state(key, value) == [key |-> key, connector |-> k, state |-> value]
        measured(key, f, n) == IF c.values[f] = NoValue THEN {} ELSE {state(key, Rounded(c.values[f], n))}
    IN (IF c.status \notin Statuses THEN {}
        ELSE {state("connector-status", Mapped(c.status).connectorStatus),
              state("charging-state", Mapped(c.status).chargingState)})
       \cup measured("power", "power", 10) \cup measured("current", "current", 1)
       \cup measured("voltage", "voltage", 1) \cup measured("energy", "energy", 1)
       \cup LockStates(k, x)

\* Mutant: the lock goes without a feature of its own.
ConnectorFeaturesOnly(k, x) ==
    {[key |-> f, connector |-> k, min |-> 0, max |-> 1000000000] :
        f \in {"connector-status", "charging-state", "power", "current", "voltage", "energy"}}

\* buildConnectorFeatures() and connectorFeatures() of the vendor module: at
\* most 1000 kW, 1000 A, 1000 V and 1000000 kWh.
ConnectorFeatures(k, x) ==
    LET feature(key, max) == [key |-> key, connector |-> k, min |-> 0, max |-> max]
    IN {feature("connector-status", 4), feature("charging-state", 5), feature("power", 100000),
        feature("current", 1000), feature("voltage", 1000), feature("energy", 1000000000)}
       \cup (IF x.supported THEN {feature("permanent-lock", 1)} ELSE {})

\* buildChargerDevice(): a charge point that has shown no connector is given the
\* first.
DeviceFeatures(connectors, first, x) ==
    UNION {ConnectorFeatures(k, x) : k \in IF connectors = {} THEN {first} ELSE connectors}

\* chargerStates()
DeviceStates(connectors, seen, x) == UNION {ConnectorStates(k, seen[k], x) : k \in connectors}
=============================================================================
