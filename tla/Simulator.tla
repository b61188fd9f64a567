----------------------------- MODULE Simulator ------------------------------
(***************************************************************************)
(* A charge session from the charge point to the dashboard: the simulated  *)
(* charge point (simulator/src/chargePoint.js, scenarios.js, server.js),   *)
(* what the gateway observes of its calls (observe.ts, state.ts) and what  *)
(* Gladys shows of that (Widget, DeviceMapping).                           *)
(*                                                                         *)
(* Every action of a person, of the server and of a timer runs as a task:  *)
(* the instructions it still has to do, of which some wait for the answer  *)
(* to a call.  A task runs until it waits; meanwhile others begin.  The    *)
(* client sends one call at a time, in order, and a call carries what was  *)
(* true when it was made.  There is one connector, as by default.          *)
(***************************************************************************)
EXTENDS Widget

CONSTANTS
    Tasks,        \* tasks at a time (a bound)
    Persons,      \* what a person or the server may ask of the connector
    Played,       \* scenarios that may be started
    Shows,        \* widget settings
    Recorded,     \* what the vendor module may have recorded
    Hardware,     \* vendors and models that may be configured
    InitialWh, StepWh, MaxWh,   \* the meter: its start, one tick of a charge, a bound
    Powers,       \* target powers, in W
    MaxPower,     \* config.maxPowerW, the target of a connector that is made
    MaxActions, MaxFaults       \* bounds on requests, on losses and failed calls

ASSUME SimulatorAssumption ==
    /\ Connectors = {1}
    /\ Persons \subseteq Statuses \cup {"start", "stop", "unplug", "clear-fault"}
    /\ Shows \subseteq Settings /\ Recorded \subseteq Extensions /\ None \notin Hardware
    /\ {InitialWh, StepWh, MaxWh, MaxActions, MaxFaults} \subseteq Nat /\ InitialWh <= MaxWh
    /\ MaxPower \in Powers /\ Powers \subseteq Nat /\ \A p \in Powers : p <= MaxPower

VARIABLES
    connection,  \* disconnected, connecting, connected
    timers,      \* the timers of onOpen() run
    cp,          \* the connector, and config.vendor and model
    tasks,
    queue,       \* external: the tasks whose calls wait, in the order of the client
    aborted,     \* the running scenario was stopped outside of a wait
    gateway,     \* what GET /api/state tells (see Widget)
    nextTx,      \* the next transaction id of local mode or of the cloud
    actions, faults,  \* counters of the bounds
    apart,       \* ghost: a transaction began or ended for one side only, or the end
                 \* of one was told after the beginning of the next
    missed,      \* ghost: a status was not told, and none since
    doubled,     \* ghost: two charges were started at once
    zeroed       \* ghost: the meter was set back

counters == <<actions, faults>>
ghosts == <<apart, missed, doubled, zeroed>>
link == <<connection, timers>>
vars == <<link, cp, tasks, queue, aborted, gateway, nextTx, counters, ghosts>>

k == 1
Macros == {"start", "stop", "unplug", "clear-fault", "disconnect", "connect"}
Calls == {"BootNotification", "Aggregate", "Report", "Authorize", "StartTransaction", "StopTransaction"}
Instructions == Statuses \cup Macros \cup Calls \cup {"meter", "sleep"}

NoCall == [method |-> None]
Idle == [by |-> None, todo |-> <<>>, call |-> NoCall]
Waiting(t) == tasks[t].call # NoCall
Runs(t) == tasks[t].todo # <<>> /\ ~Waiting(t) /\ Head(tasks[t].todo) # "sleep"
Calm == \A t \in Tasks : ~Runs(t)
Free(t) == Calm /\ tasks[t] = Idle /\ t = CHOOSE x \in Tasks : tasks[x] = Idle

Meters == [start : Int, stop : Int]
Connector == [status : Statuses, error : {"NoError", "GroundFailure"}, tx : TxIds \cup {NoTx},
              wh : 0..MaxWh, target : Powers, power : Powers \cup {0}, hardware : Hardware]

TypeOK ==
    /\ connection \in {"disconnected", "connecting", "connected"}
    /\ timers \in BOOLEAN /\ (timers => connection = "connected")
    /\ cp \in Connector
    /\ \A t \in Tasks : tasks[t].by \in {None, "person", "scenario", "timer", "open"}
                        /\ \A i \in DOMAIN tasks[t].todo : tasks[t].todo[i] \in Instructions
    /\ \A t \in Tasks : Waiting(t) <=> \E i \in DOMAIN queue : queue[i] = t
    /\ \A t \in Tasks : Waiting(t) => connection = "connected"
    /\ gateway.base \in ChargerStates
    /\ \A tx \in TxIds : gateway.meters[tx] \in Meters
    /\ gateway.seen[k].status \in Statuses \cup {"Unknown"}
    /\ gateway.hardware \in Hardware \cup {None}
    /\ nextTx \in Nat
    /\ \A g \in {apart, missed, doubled, zeroed, aborted} : g \in BOOLEAN

FreshConnector(hardware) ==
    [status |-> "Available", error |-> "NoError", tx |-> NoTx, wh |-> InitialWh,
     target |-> MaxPower, power |-> 0, hardware |-> hardware]

Init ==
    /\ connection = "disconnected" /\ timers = FALSE
    /\ cp \in {FreshConnector(h) : h \in Hardware}
    /\ tasks = [t \in Tasks |-> Idle]
    /\ queue = <<>>
    /\ aborted = FALSE
    /\ gateway = [here |-> FALSE, base |-> EmptyCharger,
                  seen |-> [c \in Connectors |-> EmptyConnector],
                  meters |-> [tx \in TxIds |-> [start |-> NoValue, stop |-> NoValue]],
                  hardware |-> None]
    /\ nextTx = 1
    /\ actions = 0 /\ faults = 0
    /\ apart = FALSE /\ missed = TRUE /\ doubled = FALSE /\ zeroed = FALSE

-----------------------------------------------------------------------------
(* What the gateway observes.                                              *)

Samples(call) ==
    LET sample(f, v) == [field |-> f, value |-> v]
        amps(w) == w \div 230
    IN <<sample("energy", call.wh), sample("power", call.power), sample("current", amps(call.power)),
         sample("voltage", 230), sample("powerOffered", call.target), sample("currentOffered", amps(call.target))>>

\* patchConnector() with what was measured or told.
PatchConnector(g, connector) == [g.seen EXCEPT ![k] = connector]

\* Mutant: the connector keeps the energy it had.
StartedWithoutMeter(g, call) ==
    [g EXCEPT !.base = StartTransaction(@, k, nextTx, "local"), !.meters[nextTx].start = call.wh]

\* startTransaction() with the answer: the connector shows the meter value too.
Started(g, call) ==
    [g EXCEPT !.base = StartTransaction(@, k, nextTx, "local"),
              !.meters = [@ EXCEPT ![nextTx] = [start |-> call.wh, stop |-> NoValue]],
              !.seen = PatchConnector(g, [g.seen[k] EXCEPT !.values["energy"] = call.wh])]

\* observe(), measures included.  The status of connector 0 ("Aggregate") creates a
\* connector 0 in the code; nothing shows it (the widget's connectors are 1..10 and
\* the features those above 0), so it is left out.
Hears(g, call, answered) ==
    CASE call.method = "BootNotification" -> [g EXCEPT !.hardware = call.hardware]
      [] call.method = "StatusNotification" ->
           [g EXCEPT !.base = Observe(@, [method |-> "StatusNotification", connector |-> k, tx |-> NoTx], NoAnswer),
                     !.seen = PatchConnector(g, [g.seen[k] EXCEPT !.status = call.status, !.error = call.error])]
      [] call.method = "MeterValues" ->
           [g EXCEPT !.base = [g.base EXCEPT !.connectors = @ \cup {k}],
                     !.seen = PatchConnector(g, [g.seen[k] EXCEPT !.values = Patch(@, Samples(call))])]
      [] call.method = "StartTransaction" -> IF answered THEN Started(g, call) ELSE g
      [] call.method = "StopTransaction" ->
           [g EXCEPT !.base = StopTransaction(@, call.tx),
                     !.meters = IF call.tx \in TxIds /\ g.base.transactions[call.tx] # NoRecord
                                THEN [@ EXCEPT ![call.tx] = [g.meters[call.tx] EXCEPT !.stop = call.wh]] ELSE @]
      [] OTHER -> g

Begins(call) == call.method = "StartTransaction"
Ends(call) == call.method = "StopTransaction" /\ call.tx # NoTx
Tells(call) == call.method \in {"StatusNotification", "BootNotification", "Aggregate"}

-----------------------------------------------------------------------------
(* Tasks.                                                                  *)

\* A task that has nothing left is over; a scenario leaves the runner.
Goes(t, todo) ==
    tasks' = [tasks EXCEPT ![t] = IF todo = <<>> THEN Idle ELSE [@ EXCEPT !.todo = todo, !.call = NoCall]]
Throws(t) == tasks' = [tasks EXCEPT ![t] = Idle]

\* The call carries the connector of the moment.
Makes(t, method, now) ==
    /\ queue' = Append(queue, t)
    /\ tasks' = [tasks EXCEPT ![t].call = [method |-> method, status |-> now.status, error |-> now.error,
         tx |-> now.tx, wh |-> now.wh, power |-> now.power, target |-> now.target, hardware |-> now.hardware]]

Instruction(t) == Head(tasks[t].todo)
Rest(t) == Tail(tasks[t].todo)

\* What startCharge() and stopCharge() check at once; connect() fails when there
\* is a client.
Checks(i) ==
    CASE i = "start" -> cp.tx = NoTx
      [] i = "stop" -> cp.tx # NoTx
      [] i = "connect" -> connection = "disconnected"
      [] OTHER -> TRUE

PlugIn == <<"Preparing">>

StartCharge ==
    (IF cp.status = "Available" THEN PlugIn ELSE <<>>)
    \o <<"Authorize", "StartTransaction", "Charging", "meter">>

StopCharge == <<"meter", "StopTransaction", "Finishing">>
Unplug == (IF cp.tx # NoTx THEN <<"stop">> ELSE <<>>) \o <<"Available">>
ClearFault == IF cp.tx # NoTx THEN <<"SuspendedEVSE">> ELSE <<"Available">>

\* connectorActions; every other one is a status.
Body(i) ==
    CASE i = "start" -> StartCharge
      [] i = "stop" -> StopCharge
      [] i = "unplug" -> Unplug
      [] i = "clear-fault" -> ClearFault
      [] OTHER -> <<>>

\* What a connection that is gone does to the tasks: a call fails, and with it its
\* task, unless it was for the meter.  The head of the queue may have been heard.
Breaks(other, next) ==
    /\ connection' = other
    /\ timers' = FALSE
    /\ queue' = <<>>
    /\ tasks' = [t \in Tasks |->
         CASE Waiting(t) /\ tasks[t].call.method = "MeterValues" /\ Rest(t) # <<>> ->
                [tasks[t] EXCEPT !.todo = Rest(t), !.call = NoCall]
           [] Waiting(t) /\ ~(tasks[t].call.method = "MeterValues" /\ Rest(t) # <<>>) -> Idle
           [] OTHER -> next[t]]
    /\ missed' = TRUE
    /\ IF queue = <<>> THEN UNCHANGED <<gateway, apart, nextTx>>
       ELSE \E heard \in BOOLEAN :
              LET call == tasks[Head(queue)].call
              IN /\ heard /\ Begins(call) => nextTx \in TxIds
                 /\ gateway' = IF heard THEN Hears(gateway, call, TRUE) ELSE gateway
                 /\ nextTx' = IF heard /\ Begins(call) THEN nextTx + 1 ELSE nextTx
                 /\ apart' = (apart \/ (heard /\ Begins(call))
                             \/ \E i \in DOMAIN queue : /\ tasks[queue[i]].call.method = "StopTransaction"
                                                        /\ ~(heard /\ i = 1))

\* An instruction that consists of others.
Expands(t) ==
    /\ Runs(t) /\ Instruction(t) \in Macros \ {"disconnect", "connect"}
    /\ IF Checks(Instruction(t)) THEN Goes(t, Body(Instruction(t)) \o Rest(t)) ELSE Throws(t)
    /\ UNCHANGED <<link, cp, queue, aborted, gateway, nextTx, counters, ghosts>>

\* Mutant: the status is told before it is set.
SetsStatusAfterwards(t) ==
    /\ Runs(t) /\ Instruction(t) \in Statuses
    /\ cp' = [cp EXCEPT !.status = Instruction(t),
                        !.error = IF Instruction(t) = "Faulted" THEN "GroundFailure" ELSE "NoError",
                        !.power = IF Instruction(t) = "Charging" THEN @ ELSE 0]
    /\ IF connection = "connected"
       THEN Makes(t, "StatusNotification", cp)
       ELSE Goes(t, Rest(t)) /\ UNCHANGED queue
    /\ UNCHANGED <<link, aborted, gateway, nextTx, counters, ghosts>>

\* setStatus()
SetsStatus(t) ==
    /\ Runs(t) /\ Instruction(t) \in Statuses
    /\ cp' = [cp EXCEPT !.status = Instruction(t),
                        !.error = IF Instruction(t) = "Faulted" THEN "GroundFailure" ELSE "NoError",
                        !.power = IF Instruction(t) = "Charging" THEN @ ELSE 0]
    /\ IF connection = "connected"
       THEN Makes(t, "StatusNotification", cp')
       ELSE Goes(t, Rest(t)) /\ UNCHANGED queue
    /\ UNCHANGED <<link, aborted, gateway, nextTx, counters, ghosts>>

\* tick(), capped by the bound.
Ticks(t) ==
    /\ Runs(t) /\ Instruction(t) = "meter"
    /\ cp' = IF cp.status = "Charging"
             THEN [cp EXCEPT !.power = cp.target, !.wh = IF @ + StepWh <= MaxWh THEN @ + StepWh ELSE @]
             ELSE [cp EXCEPT !.power = 0]
    /\ IF connection = "connected"
       THEN Makes(t, "MeterValues", cp')
       ELSE Goes(t, Rest(t)) /\ UNCHANGED queue
    /\ UNCHANGED <<link, aborted, gateway, nextTx, counters, ghosts>>

\* #call().  The end of a charge is decided before it is told.
Called(i) == IF i = "Report" THEN "StatusNotification" ELSE i
MakesCall(t) ==
    /\ Runs(t) /\ Instruction(t) \in Calls
    /\ cp' = IF Instruction(t) = "StopTransaction" THEN [cp EXCEPT !.tx = NoTx, !.power = 0] ELSE cp
    /\ IF connection = "connected"
       THEN Makes(t, Called(Instruction(t)), cp) /\ UNCHANGED apart
       ELSE /\ Throws(t) /\ UNCHANGED queue
            /\ apart' = (apart \/ Instruction(t) = "StopTransaction")
    /\ UNCHANGED <<link, aborted, gateway, nextTx, counters, missed, doubled, zeroed>>

\* The answer to the oldest call.  After a StartTransaction the charge point is
\* charging; the end of onOpen() starts the timers.  A charge that begins while the
\* end of another waits to be told is shown as over when that end is heard.
Answered ==
    /\ Calm /\ queue # <<>>
    /\ LET t == Head(queue)
           call == tasks[t].call
       IN /\ Begins(call) => nextTx \in TxIds
          /\ gateway' = Hears(gateway, call, TRUE)
          /\ nextTx' = IF Begins(call) THEN nextTx + 1 ELSE nextTx
          /\ cp' = IF Begins(call) THEN [cp EXCEPT !.tx = nextTx] ELSE cp
          /\ doubled' = (doubled \/ (Begins(call) /\ cp.tx # NoTx))
          /\ apart' = (apart \/ (Begins(call) /\ \E i \in DOMAIN queue : Ends(tasks[queue[i]].call)))
          /\ missed' = (missed /\ call.method # "StatusNotification")
          /\ timers' = (timers \/ (tasks[t].by = "open" /\ Rest(t) = <<>>))
          /\ Goes(t, Rest(t))
    /\ queue' = Tail(queue)
    /\ UNCHANGED <<connection, aborted, counters, zeroed>>

Fault == faults < MaxFaults /\ faults' = faults + 1

\* The call fails, or the id tag is refused: Authorize and StartTransaction only.
\* The gateway observes a refused start as any other.
Refused ==
    /\ Calm /\ queue # <<>> /\ Fault
    /\ LET t == Head(queue)
           call == tasks[t].call
       IN /\ \E answered \in BOOLEAN :
                /\ answered => call.method \in {"Authorize", "StartTransaction"}
                /\ answered /\ Begins(call) => nextTx \in TxIds
                /\ gateway' = Hears(gateway, call, answered)
                /\ nextTx' = IF answered /\ Begins(call) THEN nextTx + 1 ELSE nextTx
                /\ apart' = (apart \/ (answered /\ Begins(call)))
          /\ missed' = (missed \/ Tells(call))
          /\ IF call.method = "MeterValues" THEN Goes(t, Rest(t)) ELSE Throws(t)
    /\ queue' = Tail(queue)
    /\ UNCHANGED <<link, cp, aborted, actions, doubled, zeroed>>

-----------------------------------------------------------------------------
(* Who begins a task.                                                      *)

Begin(t, by, todo) ==
    /\ Free(t)
    /\ tasks' = [tasks EXCEPT ![t] = [by |-> by, todo |-> todo, call |-> NoCall]]

Act == actions < MaxActions /\ actions' = actions + 1

\* connectorActions of the server, RemoteStartTransaction, RemoteStopTransaction.
Person(t, i) ==
    /\ Act /\ Begin(t, "person", <<i>>)
    /\ UNCHANGED <<link, cp, queue, aborted, gateway, nextTx, faults, ghosts>>

\* TriggerMessage
Trigger(t) ==
    /\ connection = "connected" /\ Act
    /\ \E i \in {"Report", "meter"} : Begin(t, "person", <<i>>)
    /\ UNCHANGED <<link, cp, queue, aborted, gateway, nextTx, faults, ghosts>>

\* setPower(), clamped; a charge may also begin with a power of its own.
SetPower(p) ==
    /\ Calm /\ Act /\ p # cp.target
    /\ cp' = [cp EXCEPT !.target = p]
    /\ UNCHANGED <<link, tasks, queue, aborted, gateway, nextTx, faults, ghosts>>

\* tick() by its interval, one at a time (a bound).
TimerTicks(t) ==
    /\ timers /\ Begin(t, "timer", <<"meter">>)
    /\ \A x \in Tasks : tasks[x].by # "timer"
    /\ UNCHANGED <<link, cp, queue, aborted, gateway, nextTx, counters, ghosts>>

\* SCENARIOS
Session == <<"start", "sleep", "stop", "sleep", "unplug">>
Scenario ==
    [complete |-> <<"Preparing", "sleep">> \o Session,
     vehicleFull |-> <<"start", "sleep", "SuspendedEV", "sleep", "Charging", "sleep", "stop", "sleep", "unplug">>,
     stationPause |-> <<"start", "sleep", "SuspendedEVSE", "sleep", "Charging", "sleep", "stop", "sleep", "unplug">>,
     several |-> Session \o <<"sleep">> \o Session \o <<"sleep">> \o Session \o <<"sleep">>,
     pluggedIdle |-> <<"Preparing">>,
     fault |-> <<"Faulted", "sleep", "clear-fault">>,
     unavailable |-> <<"Unavailable", "sleep", "Available">>,
     connectionDrop |-> <<"disconnect", "sleep", "connect">>]

ASSUME PlayedAssumption == Played \subseteq DOMAIN Scenario

\* ScenarioRunner.start(): one at a time.
StartScenario(t, name) ==
    /\ \A x \in Tasks : tasks[x].by # "scenario"
    /\ Act /\ Begin(t, "scenario", Scenario[name])
    /\ aborted' = FALSE
    /\ UNCHANGED <<link, cp, queue, gateway, nextTx, faults, ghosts>>

Sleeps(t) == tasks[t].todo # <<>> /\ Head(tasks[t].todo) = "sleep"

WakesUp(t) ==
    /\ Calm /\ Sleeps(t)
    /\ Goes(t, Rest(t))
    /\ UNCHANGED <<link, cp, queue, aborted, gateway, nextTx, counters, ghosts>>

\* ScenarioRunner.stop() ends a scenario that sleeps.  One that waits for a call
\* is not ended, then or later: a signal that is aborted tells nobody again.
StopScenario(t) ==
    /\ Calm /\ tasks[t].by = "scenario" /\ ~aborted
    /\ IF Sleeps(t) THEN Throws(t) /\ UNCHANGED aborted
       ELSE aborted' = TRUE /\ UNCHANGED tasks
    /\ UNCHANGED <<link, cp, queue, gateway, nextTx, counters, ghosts>>

-----------------------------------------------------------------------------
(* The connection.                                                         *)

\* connect(), by the server.
Connect ==
    /\ Calm /\ connection = "disconnected"
    /\ connection' = "connecting"
    /\ UNCHANGED <<timers, cp, tasks, queue, aborted, gateway, nextTx, counters, ghosts>>

\* 'open', at first and after every reconnection: onOpen() introduces itself.
Opens(t) ==
    /\ connection = "connecting"
    /\ connection' = "connected"
    /\ Begin(t, "open", <<"BootNotification", "Aggregate", "Report">>)
    /\ gateway' = [gateway EXCEPT !.here = TRUE]
    /\ UNCHANGED <<timers, cp, queue, aborted, nextTx, counters, ghosts>>

\* Mutant: the timers of a lost connection go on.
LostUnnoticed ==
    /\ Calm /\ connection = "connected" /\ queue = <<>> /\ Fault
    /\ connection' = "connecting" /\ missed' = TRUE
    /\ UNCHANGED <<timers, cp, tasks, queue, aborted, gateway, nextTx, actions, apart, doubled, zeroed>>

\* 'disconnect': the client reconnects by itself.
Lost ==
    /\ Calm /\ connection = "connected" /\ Fault
    /\ Breaks("connecting", tasks)
    /\ UNCHANGED <<cp, aborted, actions, doubled, zeroed>>

\* connect() fails: its first attempt, which the model does not tell from later ones.
Fails ==
    /\ Calm /\ connection = "connecting" /\ Fault
    /\ connection' = "disconnected"
    /\ UNCHANGED <<timers, cp, tasks, queue, aborted, gateway, nextTx, actions, ghosts>>

\* POST /api/disconnect stops the scenario first.
Disconnect ==
    /\ Calm /\ connection # "disconnected" /\ Act
    /\ aborted' = (aborted \/ \E t \in Tasks : tasks[t].by = "scenario" /\ ~Sleeps(t))
    /\ Breaks("disconnected",
              [t \in Tasks |-> IF tasks[t].by = "scenario" /\ Sleeps(t) THEN Idle ELSE tasks[t]])
    /\ UNCHANGED <<cp, faults, doubled, zeroed>>

\* The connection-drop scenario.
Disconnects(t) ==
    /\ Runs(t) /\ Instruction(t) = "disconnect"
    /\ Breaks("disconnected", [tasks EXCEPT ![t].todo = Rest(t)])
    /\ UNCHANGED <<cp, aborted, counters, doubled, zeroed>>

Reconnects(t) ==
    /\ Runs(t) /\ Instruction(t) = "connect"
    /\ IF Checks("connect") THEN connection' = "connecting" /\ Goes(t, Rest(t))
       ELSE Throws(t) /\ UNCHANGED connection
    /\ UNCHANGED <<timers, cp, queue, aborted, gateway, nextTx, counters, ghosts>>

\* configure() while disconnected: the connectors are made anew, the vendor and the
\* model may be others.
Configure(h) ==
    /\ Calm /\ connection = "disconnected"
    /\ cp' = FreshConnector(h)
    /\ apart' = (apart \/ cp.tx # NoTx)
    /\ zeroed' = (zeroed \/ cp.wh # InitialWh)
    /\ UNCHANGED <<link, tasks, queue, aborted, gateway, nextTx, counters, missed, doubled>>

Run(t) == Expands(t) \/ SetsStatus(t) \/ Ticks(t) \/ MakesCall(t) \/ Disconnects(t) \/ Reconnects(t)

Next ==
    \/ \E t \in Tasks : Run(t)
    \/ Answered \/ Refused
    \/ \E t \in Tasks, i \in Persons : Person(t, i)
    \/ \E t \in Tasks : Trigger(t)
    \/ \E p \in Powers : SetPower(p)
    \/ \E t \in Tasks : TimerTicks(t)
    \/ \E t \in Tasks, name \in Played : StartScenario(t, name)
    \/ \E t \in Tasks : WakesUp(t)
    \/ \E t \in Tasks : StopScenario(t)
    \/ Connect \/ Lost \/ Fails \/ Disconnect
    \/ \E h \in Hardware : Configure(h)
    \/ \E t \in Tasks : Opens(t)

Spec == Init /\ [][Next]_vars

-----------------------------------------------------------------------------
NoVendor == [supported |-> FALSE, lock |-> None]
AtRest == connection = "connected" /\ \A t \in Tasks : tasks[t] = Idle

\* Once nothing is under way the gateway shows the transaction that the charge
\* point believes in, unless one of the two never learnt of a start or an end.
SessionsAgree == AtRest /\ ~apart => gateway.base.shown[k] = cp.tx

\* Once nothing is under way Gladys publishes the status the charge point is in:
\* reconnections make up for what was not told.
StatusAgrees ==
    AtRest /\ ~missed =>
        \A s \in ConnectorStates(k, gateway.seen[k], NoVendor) :
            s.key = "connector-status" => s.state = Mapped(cp.status).connectorStatus

\* The comment of ChargerState.transactions: one in progress per connector, in
\* practice; not when two charges are started at once or an end gets lost.
OneOpenTransaction ==
    ~apart /\ ~doubled => Cardinality({tx \in TxIds : gateway.base.transactions[tx] # NoRecord}) <= 1

\* The energy of the session, in the widget, never runs backwards, whatever the
\* order in which ticks, starts and stops overlap: it is known as long as a
\* session is, unless the meter itself was set back.
SessionEnergyIsKnown ==
    ~zeroed /\ (Active(gateway, k) # NoTx \/ LastSession(gateway, k) # NoTx) => SessionEnergy(gateway, k) # NoValue

\* Gladys knows the feature of every state that is published, and its bounds.
StatesFitFeatures ==
    \A x \in Recorded : \A s \in DeviceStates(gateway.base.connectors, gateway.seen, x) :
        \E f \in DeviceFeatures(gateway.base.connectors, 1, x) :
            s.key = f.key /\ s.connector = f.connector /\ s.state \in f.min..f.max

\* A content fits the core, which would cut it, begins with its heading, and
\* loses neither the chart nor the details nor a button that the user asked for.
NothingAskedIsCut ==
    \A x \in Recorded, s \in Shows :
        LET o == NormalizeWidgetSettings(s)
            content == BuildChargerWidget(gateway, o, x)
            fixed == Fixed(gateway, o.connector, o, x)
        IN /\ Len(content) <= MAX_COMPONENTS
           /\ Head(content).type = "heading"
           /\ content # MessageContent => \A i \in DOMAIN fixed : \E j \in DOMAIN content : content[j] = fixed[i]

\* A widget that is open is pulled again when what it shows changes, beyond
\* numbers: a step that leaves its signature leaves its components, unless the
\* meter was set back, which takes a tile away, and except for the vendor and the
\* model that a BootNotification tells: they are shown, but not in the signature.
SignatureTells ==
    [][LET g == [gateway' EXCEPT !.hardware = gateway.hardware]
       IN g # gateway /\ ~zeroed' /\ WidgetSignature(g, NoVendor) = WidgetSignature(gateway, NoVendor)
          => \A s \in Shows :
               LET o == NormalizeWidgetSettings(s)
               IN BuildChargerWidget(g, o, NoVendor) = BuildChargerWidget(gateway, o, NoVendor)]_vars
=============================================================================
