# Verification of the Gladys OCPP integration

TLA+ modules, TLC model checks and TLAPS proofs for the integration that
supervises OCPP 1.6 charge points in Gladys Assistant. Paths below are relative
to the repository.

## The system

Two containers, each a single-threaded Node process, and their environment:

```
charge points <-OCPP-> gateway container <-OCPP-> origin clouds
                          ^   |
        POST /api/chargers|   | GET /api/state, SSE /api/events
        POST .../commands |   v
                       main container <-HTTP, websocket-> Gladys core
```

| Component | State it keeps | Operations | Talks to |
|---|---|---|---|
| Connections and routing (`gateway/src/gateway.ts`, `chargerRegistry.ts`, `localMode.ts`, `originConnection.ts`) | the registry identity -> origin cloud URL, `localClients`, `liveClients`, one closure per connection, the next local transaction id | client connects (local, relay, rejected), OCPP call from either side, close | state store, change feed, vendor probe |
| Charge point state (`state.ts`, `observe.ts`, `meterValues.ts`) | one `ChargerState` per identity: connectors, transactions in progress, history, vendor data | `observe`, `observeOutgoing`, `reset` | written by the closures, read by the HTTP API |
| Gateway HTTP API (`stateApi.ts`) | none | GET state, SSE stream, POST charger map, POST command | all of the above |
| Change feed (`changeFeed.ts`) | a coalescing timer per identity, listeners | `notify`, `emit`, `subscribe`, `close` | the SSE stream |
| Vendor commands (`chargerCommands.ts`, `vendors/`) | none of its own; captures a client and a state object per command | `run`, `probe` | `liveClients`, state store |
| Configuration (`index.js`, `src/config.js`, `src/chargers.js`, `src/gatewayClient.js`) | `config` | `connected`, `onConfigUpdated`, `add_charger`, each ending in a push with retries | Gladys config, gateway HTTP API |
| Discovery, events, polling (`index.js`, `src/devices/`) | published shapes, widget and discovery signatures, the event stream | `handleGatewayChange`, `publishDevices`, scan, poll, periodic refresh | state queue, Gladys |
| State queue (`src/stateSync.js`) | `pending` Map, rate window, pause, resume timer, `flushing`, `stopped` | `enqueue`, `flush`, `stop` | `publishChangedStates` |
| Widget (`src/widgets/charger.js`) | none | build, list devices | GET state |
| Simulator (`simulator/`) | connectors of a fake charge point | development only | the gateway |

What is hard here: neither process persists anything, and both cut every
operation at each `await`. A closure of a connection keeps the state object and
the URL it found when it was opened. Charge points drop and reconnect before the
gateway has seen the old connection close. Calls to clouds, to Gladys and to the
gateway fail with or without effect. Gladys limits the rate of states. Handlers
of the main container overlap while their retries wait. The full list, line by
line, is under `hazards` in `PROJECT.json`.

What makes each component correct:

- state queue: the last reading of each feature reaches Gladys, no reading is
  followed by an older one, the limits are kept, it never sleeps with work to do;
- routing: a charge point is in local mode only while it has no origin cloud,
  commands and forced closes reach the connection it really uses, one that gets
  an origin cloud is relayed;
- charge point state: a displayed session has a record, a session of the cloud is
  archived once, the store shows what the live connection observes;
- change feed: no observed change is left unannounced;
- configuration: the gateway ends with the map that Gladys has saved, no charge
  point is lost in a merge;
- discovery, events, polling: Gladys shows only states the charge point has been
  in and the last one in the end, the device list it has is the one the code
  remembers, a new connector is offered in the end;
- vendor commands: the recorded lock is the charge point's, with late answers and
  replaced connections; the switch in Gladys follows the record; the lock is
  offered exactly to those that have it;
- widget and device mapping: what is published fits its features, what is sent
  fits the core, an open widget is pulled again when its components change;
- simulator: it and the gateway agree on the session once nothing is under way.

## Modules

| Module | What it models | In the code |
|---|---|---|
| `LatestValue` | the promise of the state queue: a channel that coalesces by feature | header of `stateSync.js` |
| `StatePublisher` | the state queue | `stateSync.js`, all of it |
| `ChargerState` | the transactions of one charge point, as operators | `state.ts`, `observe.ts` |
| `Gateway` | connections, routing, local mode, registry, change feed; extends `ChargerState` | `gateway.ts`, `stateApi.ts` (POST), `changeFeed.ts`, `localMode.ts` |
| `ConfigSync` | the configuration's way from the user to the gateway | `index.js`, `gatewayClient.js`, `chargers.js` |
| `Mirror` | the promise about a charge point: Gladys shows no state it has not been in, and its last one in the end | what `index.js` is for |
| `Discovery` | event stream, polling and device discovery | `index.js`, `stateApi.ts` (stream), `changeFeed.ts`, `devices/charger.js` |
| `VendorCommand` | commands, probes and the permanent lock | `chargerCommands.ts`, `vendors/` on both sides, `gateway.ts` |
| `DeviceMapping` | measures of a connector, its features and states; extends `ChargerState` | `observe.ts`, `meterValues.ts`, `devices/charger.js`, `vendors/` |
| `Widget` | the dashboard widget; extends `DeviceMapping` | `widgets/charger.js`, `vendors/autel/` |
| `Simulator` | the simulated charge point and what is observed of it; extends `Widget` | `simulator/src/`, `observe.ts` |
| `MC...` | the small instances of each, for TLC | |
| `...Proofs` | theorems and proofs about each | |

How they go together: `Gateway` and `Simulator` both extend `ChargerState`, the
first with the connections and no measures, the second with one connection and
all measures. `Discovery` starts where `Gateway` ends, at the coalescing timer,
and uses the state queue as the channel that `StatePublisher` is shown to
implement. `VendorCommand` has the connections of `Gateway` again, seen from one
charge point (current, old, none).

**StatePublisher.** `queue` and `pending` are the Map (order of the keys, and
values). A run of `flush()` is cut at its only `await`: `Pump` is the part from
the head of the loop to the call of `publishStates` or to a return (`Drained`,
`Paused`, `OutOfBudget`, `Send`); `PublishedStates`, `RateLimited` and `Failed`
begin with the answer, and a failure may or may not have saved the states.
`Resume` is the timer, which may fire late; `Tick` is the clock. A reading is a
number per feature, so "older" and "newer" can be compared; the external
variable `published` is what Gladys holds. A batch that repeats the last reading
is allowed, since one OCPP message re-sends all states of a charge point. A
batch is inserted in any order, which covers the order of `chargerStates`.

**ChargerState and Gateway.** A connection is a record: its phase, mode, the URL
it was opened with, whether the state object it captured is still the one the
store holds (`feeds`), and the call it is relaying. `Accept` is the common part
of the `client` handler; `Closed` is the `close` event, with the guard of the two
maps; `PostChargers` is the whole POST handler, the reset and the forced close
included. The charge point is the environment: it sends what a charge point may
send on the connection it uses, and learns answers only on that connection.
Transaction ids come from local mode (the next number since the process
started) or from a cloud (any unused one). Of a state object the store has
dropped nothing is kept, because nothing reads it. Timers of the change feed are
the set `notified`.

**ConfigSync.** A running handler is a slot of `tasks`, a POST on its way an
entry of `wire`, a `config-updated` event an entry of `updates`. `Send` takes the
`config` of the moment, as the closure given to `withGatewayRetries` does. The
ghost `unread` says that what `getConfig` gave last was refused or already old
when it was used; `unpushed` that the gateway has restarted or that retries were
exhausted since it last got the saved map. Each POST is a `fetch()` of its own, so
`GatewayReplaces` handles any entry of `wire`; `passed` counts those that are older
than the newest one handled, and `overtaken` says that one of them came last and
changed the registry. Nothing in `index.js` keeps two `add_charger` apart: `behind`
holds those that have read a config which another one has replaced since.

**Discovery.** One charge point; a state is its number (`version`) and how many
connectors and vendor modules it has shown (`shape`). Each handler that awaits is
a slot of `tasks`: `NewShape` is the event that goes on to `publishDevices`
(`KnownShape` the one that does not), `Begin` the common start of refresh, scan
and reconnection, `Fetched` the answer of `GET /api/state`, `Unchanged` and
`Publishes` the test of the signature, `Published` and `PublishFails` the call
itself: Gladys takes the list in a step of its own (`Taken`) and the signature is
set when the answer is handled, so publications cross at Gladys and on the way back.
`Handle` is the rest of `handleGatewayChange`, with `AskWidgets`: the signature of
the widgets is remembered whether or not `requestWidgetRefresh` throws.
`EmitUnheard` is `emit()` without listeners, and also an event that a breaking
stream swallows. Three ghosts name what the code does not repair by itself: `gap`
(an event lost, overtaken, or undone by an older poll), `refused` (the last request
to pull the widgets threw) and `unsure` (the answer for the list that Gladys took
last was lost, or overtaken by the one for an older list); `taker` is the handler
whose list that is.
Assumed: a scan or a poll needs a first connection to Gladys; that
`publishChangedStates` of the SDK leaves out unchanged values is external and
changes nothing here.

**VendorCommand.** An exchange is a call to the charge point with what its
handler captured before the `await`: the state object (`feeds`) and the client
(`dead`). It is queued, sent, answered; then its handler runs. Commands come from
Gladys (`Command`), from the probe timers of a boot and from the origin cloud,
whose calls are relayed and observed by `observeOutgoing`. `late` holds the
commands that a charge point may still execute after nobody waits for them: what
makes a timed out command wrong. A boot that the origin cloud does not answer names
the vendor and is not probed (`BootFails`). The way to Gladys is short here: the
feed's event arrives (`Emit`) or is lost (`EmitUnheard`, ghost `missed`), and Gladys
polls (`Poll`); what may happen on that way in detail is `Discovery`. Assumed: one call at a time on a connection
(`ocpp-rpc`), in an order that is left open; what is in flight on a broken
connection is lost, or executed late; the lock moves only by these commands.
Whether `ocpp-rpc` reads the option `timeoutMs` that `chargerCommands.ts:46`
passes (its documentation names `callTimeoutMs`) cannot be told from the
repository; the model lets a call be given up at any time, which covers both.

**DeviceMapping and Widget.** Pure operators: what `meterValuesToPatch` keeps of
a sample, the status mapping, the features and states of a device, and the whole
of `buildChargerWidget` with its settings, sessions, tiles, chart, controls and
signature. A component is its type and what tells it from another one of the
same type. They are evaluated in every state of the `session` run, for several
settings and vendor records.

**Simulator.** Every request of a person, of the HTTP server or of a timer is a
task, a list of instructions of which some wait for the answer to a call. The
client sends one call at a time; a call carries what was true when it was made.
What the gateway observes (`Hears`) is the real `observe()` for each method:
`BootNotification` with the vendor and model of the configuration (one value of
`Hardware`, which `configure()` may change), `StatusNotification`, `MeterValues`,
start and stop of transactions. The connector 0 that a status of the whole charge
point creates is left out: nothing shows it. Not told
apart: the first attempt of `connect()` from later ones; jitter, speed and elapsed
time are one step of energy (`StepWh`); intervals tick one at a time; the powers
that scenarios set are `SetPower` at any moment, up to the `maxPowerW` of the
configuration (`MaxPower`, which `configure()` takes as it is).

## Runs

| Run | Question | Bounds | Result |
|---|---|---|---|
| `publisher_safety` | does the queue lose, reorder, oversend or sleep? | 3 features, 2 readings each, 2 per call, 3 per window, window 2 ticks, retry 1 | holds |
| `publisher_live` | is everything sent in the end, and is it the channel? | 2 features, 1 per call, 2 per window | holds |
| `gateway_safety` | are routing, maps, transactions and notifications right? | 1 charge point, 2 connectors, 2 connections, 1 good and 1 malformed URL, 1 local and 1 cloud transaction, history of 2 | holds, 0.9 million states with symmetry |
| `gateway_live` | is a configured charge point relayed? | 1 charge point, 2 connections, 3 URLs, no transactions | holds |
| `gateway_url_change` | also when the URL changes? (`index.js:389`) | as above | violated |
| `gateway_orphan` | does the store hold the state the connection writes to? (`state.ts:2`) | as above | violated |
| `gateway_invented` | are ids in relay mode never invented? (`gateway.ts:23`) | as `gateway_safety` | violated |
| `config_safety` | does the gateway end with the saved map? | 2 identities, 1 URL, 2 saves by `add_charger` at a time, 1 slot for each other handler, 2 failures (a lost websocket or a failed call), 2 attempts, 1 gateway restart, 3 of all these together | holds, 3.6 million states with symmetry |
| `config_restart` | does it heal after a restart of the gateway? (`docs/en.md:213`) | no save, no failure, 1 restart | violated |
| `discovery` | does Gladys end with the last state and the right list? is it the mirror? | 2 handlers at a time, 2 states, 2 shapes, 1 connection to Gladys, 1 fault | holds, 0.2 million states |
| `vendor_command` | is the recorded lock the charge point's? | 2 exchanges, 2 connections, 1 boot, 3 changes of the cloud or the lock, 1 fault | holds, 3.0 million states |
| `session` | do simulator, gateway, features and widget agree? | 1 connector, 2 transactions, history of 1, 2 tasks, 6 requests, 2 scenarios, 3 settings, 2 vendor records, 2 hardwares, 2 powers, 2 actions, 1 fault | holds, 0.2 million states with symmetry |

Why the bounds are enough to mean something. In `publisher_safety` three
features against two per call and three per window make every return of the loop
happen, leave a rest after a chunk, and let a second reading of a feature arrive
while the first is in flight; a window of two ticks is longer than the retry
delay, so a pause can end before and after the window. In `gateway_safety` two
connections are what a fast reconnect needs (the old one still known, the new
one open); one identity is enough because connections of different identities
share no variable but the pool of connections; a history of
two has room for a transaction that would be archived a second time (its cut happens
in `session`, where it is one). In `config_safety` two identities are needed for a merge to lose one,
two saves for an old map to differ from the empty one and from the new one, two
slots for `add_charger` for one to read what the other is about to replace. In
`discovery` two handlers are what an overlap needs and two states what
overtaking needs; the first shape is the first connector, the second a new one
on a known charge point. In `vendor_command` two exchanges are a command and a
probe, or a command and a call of the cloud, in either order; two connections
replace a client under a command. In `session` two actions are a start and what
may cut across it (a stop, an unplug, a fault, a scenario), two transactions let
the gateway keep one the charge point has left, and the values of the meter put
the energy of a session on both sides of a rounding.

Deadlock is checked where the system can always go on. `ConfigSync`, `Discovery`
and `Simulator` do not check it: once the bounded saves, states,
losses, requests and transaction ids are spent and every handler has ended,
nothing is left to do.

None of these runs assumes an order that the code does not give: handlers overlap,
POSTs, publications and their answers overtake each other. What then goes wrong is
named by a ghost where it happens, and the property says that nothing else has this
effect.

### Fairness

- `StatePublisher`: time passes, a due timer fires, and a call is answered (weak
  fairness: timers and promises of one process). A call carrying a given feature
  is accepted in the end if such calls are made for ever (strong fairness: Gladys
  is not unavailable for good). Nothing is assumed of `enqueue` and `stop`.
- `Gateway`: a closed or dead connection is noticed, a timer of the change feed
  fires, a call to a cloud ends (it is answered, fails or times out), a charge
  point without a connection comes back (OCPP clients retry for ever). Nothing is
  assumed of the user's POSTs, of drops or of restarts.
- `ConfigSync`: every handler goes on after its awaits, the gateway handles what
  it receives, Gladys' websocket comes back.
- `Discovery`: the refresh interval fires, Gladys polls, and connects once. This
  fairness is strong because the bound on slots, which the code does not have,
  may disable them for a while. A handler goes on after its await (weak). None is
  assumed of the event stream or of the queue: `ImplementsMirror` and
  `DiscoveryKeepsUp` hold by poll and refresh alone. Faults are bounded.

### Refinements

`ImplementsChannel`: `StatePublisher` implements `LatestValue` with
`latest`, `published` and `stopped` as they are; a call that saves is a delivery.
`ImplementsMirror`: `Discovery` implements `Mirror` with the number of the last
state, what Gladys shows, and "shut down or nothing to show"; a delivery of the
queue and the end of a poll are its `Show`. Both include liveness in TLC, and
their safety part is proved.

### What the violations show

1. `gateway_url_change`: only clients in local mode are closed by the POST, so a
   charge point already relayed stays on the old cloud until it reconnects by
   itself.
2. `gateway_orphan`: attach, detach, attach again while the local connection is
   still closing: the second reset replaces the state that the newer relay
   connection has captured; from then on the store shows an empty charge point.
3. `gateway_invented`: the URL arrives while the charge point is offline, so no
   reset happens and the transaction of local mode is still recorded in relay
   mode.
4. `config_restart`: the main container sees only its event stream end and
   reopens it; nothing pushes the map to the restarted gateway.

Met while modelling, and excepted by name in a property instead of in a run of
its own:

- `index.js:184-190`: an event that publishes a new shape hands its states over
  after the `await`, so a later event overtakes it and its older states are
  queued last; the widgets' signature goes back with them. A failed publication
  drops the event's states. Both are repaired by the next event or poll (`gap`).
- `index.js:194-199`: the signature of the widgets is remembered before Gladys is
  asked to pull them. When that request throws, it is logged, and nothing asks again
  until the signature changes once more (`refused`).
- `index.js:166-167`: the answer of `publishDiscoveredDevices` is lost, or two
  publications cross and the answer for the older list is handled last: what is
  remembered is not what Gladys has; if the charge point then returns to the
  remembered list, the refresh leaves the wrong one (`unsure`).
- `index.js:360-377`: two `add_charger` that overlap read the same config, and the
  later save drops the charge point of the earlier one (`behind`).
- `index.js:280-284`: two pushes overlap, or one is given up and retried, and the
  older map is handled last: the gateway keeps it although every push has succeeded
  and Gladys is told that all is well (`overtaken`).
- `charger.js:509-527`: the details of a widget show the vendor and model of the
  charge point (`charger.js:496-499`), which its signature leaves out, although it
  is documented as what the widget depends on (`charger.js:503-508`). A charge point
  replaced by another one under the same identity boots with a new vendor or model,
  and an open widget keeps the old one on screen until something else changes or its
  content expires. `SignatureTells` excepts exactly this field.
- a refused `StartTransaction` is recorded by the gateway as in progress and
  abandoned by the simulator; `StopTransaction` forgets the simulator's
  transaction before the call, so a lost call leaves it open at the gateway
  (`apart`); two starts at once leave two open (`doubled`).
- `state.ts:175`: the end of a transaction clears what its connector shows,
  without asking which transaction that is. Two starts pass the check together
  (`chargePoint.js:412`), the first is answered, a third request stops that charge,
  and its end waits behind the second start. The second start is then answered with
  no charge in progress; when the end is heard, the gateway shows no transaction and
  the charge goes on (`apart` again). It takes three requests under way: it was the
  attempt to prove `SessionsAgree` for any number of tasks that showed it.
- `scenarios.js:134`: the comment says that `stop()` aborts the running scenario
  at its next wait; a stop during a call comes to a signal that the next wait
  does not look at, and never takes effect (`aborted`).
- `widgetSignature` does not hold what only the energy changes: a meter that is
  set back takes a tile away without a new signature (`zeroed`).

## Proofs

Each proof is for every value of the constants, from the assumption that the
module names (`PublisherAssumption`, `GatewayAssumption`, ...: bounds are numbers,
limits and windows positive, malformed URLs are URLs) and nothing else, but
where a theorem says `ASSUME`. A theorem about an invariant rests on one
inductive invariant of its module, one lemma per action, and a lemma that collects
them.

**StatePublisherProofs.** `IInv` adds to the checked invariants:
`SingleFlight` (`flushing` is set exactly while a call is in flight, and there is
one at most; without it two chunks could hold different readings of a feature),
`Ordered` (for each feature, what Gladys holds is not newer than what is in
flight, that not newer than what waits, that not newer than the last reading) and
`StoppedIsQuiet`. `PumpTypes`, `PumpReadings`, `PumpTimer`, `PumpPause` say what a
run of the loop does when no other call is open; every action that enters it
cites them. `TimerNotTooLate` needs `PauseOrCall` (a call in flight excludes a
pause).

**GatewayProofs.** `GInv` is `TypeOK`, `LocalOnlyIfUnconfigured`,
`ChangesAreAnnounced`, `MapsAreTrue` (a map points to a used connection of its
identity, `localClients` to one in local mode, and the connection a charge point
uses is in them: the guard of `close` needs all three) and `StatesAreSane` (a
shown transaction is an issued one with a record of its connector; one of a cloud
is archived once, and then not in progress), which the operators of
`ChargerState` are shown to keep.

**ConfigSyncProofs.** `CInv`: `Linked` ties each POST to the one handler that
waits for it, `Origin` says that each map in an event, a handler, a POST, the
config or the registry was saved by Gladys, `ReadIsSaved` that what an action
read is still what Gladys has, unless another one saved since (`behind`); `Ordered`
that `passed` counts POSTs that are there. `PInv` adds that the config is what Gladys
has or a handler will read it (`ConfigIsRead`), that the newest map sent, on its way
or handled (`NewestIs`), is the config or one will be pushed (`ConfigIsPushed`), and
that the last event is about what is saved (`UpdatesEnd`). POSTs are handled in any
order, so what is kept is a fact about the newest of them: when it has been handled
and no older one has changed the registry since, the registry is the config.

**VendorCommandProofs.** `VInv`: `Sound` is what an exchange may hold, `OneOut`
that one call at a time has left the queue of a connection, `LockIsKnown` that the
lock is where the answer on its way says or where the record says, `ProbeToCome`
that an unknown lock has a probe to come. `SwitchFollowsRecord` is inductive beside
them.

**DiscoveryProofs.** `DInv`: `SeenOnly` (what the queue, Gladys, the widgets and
each handler hold was a state of the charge point; an event with the last state
knows its connectors), `InHand` (unless there is a gap, the last state waits for
its timer, is carried by an event or was handled) and `Handed` (once handled it is
in the queue or in Gladys). `Remembered` says of the handler whose list Gladys took
last that it awaits its answer with that list (`TakerAwaits`), and that Gladys was
asked to pull the widgets for the remembered signature unless that threw (`Asked`).
`StepsOfTheMirror` maps every step.

**WidgetProofs.** No state: what buildChargerWidget arranges, for any sequence of
tiles and any vendor record.

**ChargerStateProofs.** Lemmas about the operators of `ChargerState`, which both
`GatewayProofs` and `SimulatorProofs` cite: what a start, a stop and an observed
connector change in a charge point's state and what they leave alone, that the
transaction which ends is the first of the history, and that the limit of the
history drops only old ones.

**SimulatorProofs.** The module has twenty-one actions and a program of instructions
per task, and most properties look at none of them: only at the calls that wait, in
the order of the queue (`Line`), and at both ends of it. So `EveryStep` first shows
that each action has one of six shapes: it says nothing (`Quiet`), a call joins
the end of the line (`Sends`), one is made and answered with nothing else on its
way (`Alone`), the oldest is answered (`HeardAndAnswered`) or fails
(`HeardAndRefused`), or the connection is cut and the line with it (`Cut`). Every
invariant is then kept by six cases, not twenty-one. `WhatIsHeard` and `ViewCases` say
what hearing a call does to the gateway's view. `Invariant` is

- `Types`: `TypeOK` in a form that is inductive. It adds that the queue holds each
  waiting task once, that a task that waits has the instruction it waits in, that
  nothing waits without a connection, and what each call and each part of the
  gateway's view may hold.
- `TransactionsAreFine`: ids are given once; a transaction is in progress or over.
- `Agreement`, for `SessionsAgree` and `OneOpenTransaction`: until the end of a
  charge is heard the gateway shows that charge and the charge point has no other;
  there is one such end in the line at most. At rest the line is empty, and the two
  agree.
- `StatusIsTold`, for `StatusAgrees`: the last status in the line, or else the one
  that was heard, is the connector's.
- `MeterRuns`, for `SessionEnergyIsKnown`: along the line, from the gateway's reading
  to the meter, energies never fall, and a session begins at or below the reading.
- `MeasuresAreFine`, for `StatesFitFeatures`: each measure is one that a call may
  carry; without it nothing is known of its range.

TLC checked `Invariant` on an instance like that of the `session` run, with three
scenarios, and on one with three tasks before it was proved. `NothingAskedIsCut` holds in all states, of the
widget alone, from `ArrangedAround` (what gives way is the caption, then tiles).
`TheSignatureTells` compares the two states of a step: `HistoryGrows` says that
the history changes only by a transaction of its own, `NewestTells` that its
newest identifies it, and `AlikeWidgets` that views with the same signature and the
same known energies build the same widget, vendor and model being left as they were
(`SameButHardware` is all that hearing a boot changes). `StatesFit` assumes a power of at most
1000 A at 230 V and a meter of at most 1000 MWh: the features have these
bounds (`devices/charger.js`), and the simulator checks neither.

| Theorems | State |
|---|---|
| `Invariant`, `GatewayInvariant`, `ConfigInvariant`, `VendorInvariant`, `DiscoveryInvariant`, `InvariantIsInductive` | the inductive invariants |
| `TypeCorrect`, `TypesAreKept` (three), `HandlersWaitForTheirOwn`, `SimulatorTypes` | each module's `TypeOK` |
| `NothingIsLost`, `WakeupIsNotLost`, `BudgetIsKept`, `TimerIsNotTooLate` | `NothingLost`, `NoLostWakeup`, `WithinBudget`, `TimerNotTooLate` |
| `PublishedNeverGoesBack`, `QuietOnceStopped` | `NeverGoesBack`, `NoCallAfterStop` |
| `LocalModeIsForTheUnconfigured`, `TheMapsAreTrue`, `ChangesGoOut`, `ShownSessionsAreRecorded`, `TransactionsAreArchivedOnce` | `LocalOnlyIfUnconfigured`, `MapsFollowReconnects`, `ChangesAreAnnounced`, `SessionIsRecorded`, `ArchivedOnce` |
| `TheRegistryWasSaved` | `RegistryWasSaved` |
| `OtherChargePointsAreKept`, assuming some identity | `OthersAreKept` |
| `TheConfigIsPushed` | `AtRestPushed` |
| `TheRecordIsTheLock`, `TheSwitchFollows`, `TheLockIsThere`, `TheLockIsFound` | `RecordIsTheLock`, `SwitchFollowsRecord`, `OfferedIfCapable`, `LockIsFound` |
| `TheSignatureIsTheList`, `TheStreamIsEnough` | `RememberedIsListed`, `EventsAreEnough` |
| `ImplementsChannelSteps`, `ImplementsMirrorSteps` | the safety parts of `ImplementsChannel` and `ImplementsMirror` |
| `TheSessionsAgree`, `OneTransactionIsOpen`, `TheStatusAgrees`, `TheEnergyIsKnown` | `SessionsAgree`, `OneOpenTransaction`, `StatusAgrees`, `SessionEnergyIsKnown` |
| `StatesFit`, assuming `WithinBounds` | `StatesFitFeatures` |
| `FewAreFixed`, `TheWidgetFits`, `NothingIsCut` | the length in `NothingAskedIsCut`, and all of it |
| `TheSignatureTells` | `SignatureTells` |

Only model-checked: liveness (`NoStarvation`, the `Live` parts of
`ImplementsChannel` and `ImplementsMirror`, `EventuallyRelayed`,
`DiscoveryKeepsUp`), which needs fairness and `ENABLED` and is out of the prover's
reach, as are induction over data and `RECURSIVE` operators. Every invariant and
every action property of the passing runs is proved. The four violated
properties are, of course, counterexamples of TLC.

## Plan

Written, in this order: the state queue, the gateway, the configuration, discovery
with its mirror, the vendor commands, the mapping, the widget and the simulator;
then the proofs of each. Left, in the order of worth:

1. a simulator with several connectors, which share the queue of the client, and
   `Agreement` for each of them;
2. feature ids (`featureExternalId` and its parser), which are strings taken
   apart and worth a reference definition only at the level of characters.

## Not modelled

Wording, layout, logging and units; the exchange log; the widget's texts and its
30 s cache of the device list; HTTP error replies to malformed requests; TLS,
authentication and the OCPP framing of `ocpp-rpc`; calls of an origin cloud that
nothing observes; the firmware version and timestamps, which are only displayed; feature
ids as strings; the Gladys core beyond saving states and config; the simulator's
web page, its jitter and speed; `ensureGatewayRunning`, which nothing calls.
`PROJECT.json` gives the reason for each component.
