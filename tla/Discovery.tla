----------------------------- MODULE Discovery ------------------------------
(***************************************************************************)
(* How one charge point gets from the gateway's store to Gladys: by the    *)
(* change feed and its event stream (changeFeed.ts, stateApi.ts,           *)
(* runEventStream and handleGatewayChange of index.js), by the poll of     *)
(* Gladys and by discovery: scan, periodic refresh and every reconnection  *)
(* to Gladys (publishDevices of index.js, src/devices/charger.js).         *)
(*                                                                         *)
(* A state of the charge point is its number (`version`) and its `shape`:  *)
(* how many connectors and vendor modules it has shown; without any there  *)
(* is nothing to publish.  Each handler that awaits is a slot of `tasks`,  *)
(* cut at its awaits.  The state queue is the channel that LatestValue     *)
(* describes and StatePublisher implements: the value not yet delivered.   *)
(* The configuration (ConfigSync) does not change here.                    *)
(***************************************************************************)
EXTENDS Naturals, Sequences

CONSTANTS
    Configured,   \* the charge point is in config.chargers
    Slots,        \* running handlers at a time (a bound)
    NoSlot,
    MaxVersion, MaxShape, MaxConnects, \* bounds on the environment
    MaxFaults     \* bound on resets, restarts, lost streams and failed calls together

ASSUME DiscoveryAssumption ==
    /\ Configured \in BOOLEAN
    /\ NoSlot \notin Slots
    /\ {MaxVersion, MaxShape, MaxConnects, MaxFaults} \subseteq Nat
    /\ MaxShape >= 1

VARIABLES
    charger,     \* the gateway's ChargerState
    notified,    \* a coalescing timer of the change feed runs
    loop,        \* runEventStream: not running, without loop, with one
    shapes,      \* publishedShapes
    signature,   \* lastPublishedSignature
    widgetSig,   \* widgetSignatures
    timer,       \* discoveryTimer is set
    stopped,
    tasks,
    queue,       \* the state handed to the state queue and not acknowledged; 0 for none
    discovered, shown,   \* external: the device list and the states Gladys has
    asked,       \* external: the state Gladys was last asked to pull the widgets for
    connects, faults,    \* counters of the bounds
    gap,         \* ghost: an event was lost, overtaken or undone by a poll
    refused,     \* ghost: the last request to pull the widgets threw
    taker,       \* ghost: whose list Gladys took last, until its answer is handled
    unsure       \* ghost: the answer for that list was lost, or overtaken by an older one

gateway == <<charger, notified>>
memory == <<shapes, signature, widgetSig, timer, stopped>>
gladys == <<discovered, shown, asked>>
counters == <<connects, faults>>
lists == <<taker, unsure>>
ghosts == <<gap, refused, lists>>
vars == <<gateway, loop, memory, tasks, queue, gladys, counters, ghosts>>

Versions == 0..MaxVersion
Shapes == 0..MaxShape
Chargers == [known : BOOLEAN, shape : Shapes, version : Versions]
Unreachable == [known |-> FALSE, shape |-> 0, version |-> 0]
Lists == Shapes
NoShape == MaxShape + 1   \* none remembered yet
NoList == MaxShape + 1

\* charger: the event of handleGatewayChange, or the answer that a poll read.
Idle == [step |-> "idle"]
Task == [of : {"event", "list", "connected"},
         step : {"fetch", "got", "publish", "taken"}, list : Lists, charger : Chargers]
        \cup [of : {"poll"}, step : {"publish"}, charger : Chargers]

TypeOK ==
    /\ charger \in Chargers /\ notified \in BOOLEAN
    /\ loop \in {"off", "closed", "open"}
    /\ shapes \in Shapes \cup {NoShape}
    /\ signature \in Lists \cup {NoList}
    /\ widgetSig \in Versions /\ timer \in BOOLEAN /\ stopped \in BOOLEAN
    /\ tasks \in [Slots -> Task \cup {Idle}]
    /\ queue \in Versions
    /\ discovered \in Lists /\ shown \in Versions /\ asked \in Versions
    /\ connects \in 0..MaxConnects /\ faults \in 0..MaxFaults
    /\ gap \in BOOLEAN /\ refused \in BOOLEAN
    /\ taker \in Slots \cup {NoSlot} /\ unsure \in BOOLEAN

\* Gladys keeps devices, not the list of Discovery, between two runs.
Init ==
    /\ charger = [known |-> FALSE, shape |-> 0, version |-> 0]
    /\ notified = FALSE
    /\ loop = "off"
    /\ shapes = NoShape /\ signature = NoList /\ widgetSig = 0
    /\ timer = FALSE /\ stopped = FALSE
    /\ tasks = [t \in Slots |-> Idle]
    /\ queue = 0
    /\ discovered = 0 /\ shown = 0 /\ asked = 0
    /\ connects = 0 /\ faults = 0
    /\ gap = FALSE /\ refused = FALSE
    /\ taker = NoSlot /\ unsure = FALSE

-----------------------------------------------------------------------------
At(t, step) == tasks[t].step = step
Idles == {t \in Slots : At(t, "idle")}
Free(t) == Idles # {} /\ t = CHOOSE i \in Idles : TRUE
Of(t, handlers) == ~At(t, "idle") /\ tasks[t].of \in handlers
Publisher(t) == Of(t, {"event", "list", "connected"})

\* buildDevices(): 0 when the charge point is not offered at all; one that has
\* shown no connector is given the first.
ListOf(answer) ==
    CASE answer.shape > 0 -> answer.shape
      [] answer.shape = 0 /\ (answer.known \/ Configured) -> 1
      [] OTHER -> 0

\* A message of the charge point is observed: a new state, maybe with one more
\* connector or vendor module.
Observe(shape) ==
    /\ charger.version < MaxVersion /\ shape \in {charger.shape, charger.shape + 1} \cap Shapes
    /\ charger' = [known |-> TRUE, shape |-> shape, version |-> charger.version + 1]
    /\ notified' = TRUE
    /\ UNCHANGED <<loop, memory, tasks, queue, gladys, counters, ghosts>>

\* One of the bounded failures.
Fault == faults < MaxFaults /\ faults' = faults + 1

\* reset() of the store, announced by nothing.
Reset ==
    /\ charger.known /\ Fault
    /\ charger' = [charger EXCEPT !.shape = 0]
    /\ UNCHANGED <<notified, loop, memory, tasks, queue, gladys, connects, ghosts>>

\* runEventStream opens a stream; the feed has a listener from here on.
StreamOpens ==
    /\ loop = "closed"
    /\ loop' = "open"
    /\ UNCHANGED <<gateway, memory, tasks, queue, gladys, counters, ghosts>>

\* The stream breaks.
StreamLost ==
    /\ loop = "open" /\ Fault
    /\ loop' = "closed"
    /\ UNCHANGED <<gateway, memory, tasks, queue, gladys, connects, ghosts>>

\* The gateway restarts with an empty store.
GatewayRestarts ==
    /\ Fault
    /\ charger' = [charger EXCEPT !.known = FALSE, !.shape = 0]
    /\ notified' = FALSE
    /\ loop' = IF loop = "open" THEN "closed" ELSE loop
    /\ gap' = (gap \/ notified)
    /\ UNCHANGED <<memory, tasks, queue, gladys, connects, refused, lists>>

-----------------------------------------------------------------------------
\* The coalescing timer fires: the state of the moment is emitted.
Emit == notified /\ notified' = FALSE

\* To nobody.  An event that a breaking stream swallows is one emitted after it.
EmitUnheard ==
    /\ Emit /\ loop # "open"
    /\ gap' = TRUE
    /\ UNCHANGED <<charger, loop, memory, tasks, queue, gladys, counters, refused, lists>>

\* requestWidgetRefresh() for the state v.  A throw is logged and no more.
AskWidgets(v) ==
    \/ asked' = v /\ refused' = FALSE /\ UNCHANGED faults
    \/ Fault /\ refused' = TRUE /\ UNCHANGED asked

\* handleGatewayChange() from its enqueue on.  No connector, no state.  The
\* signature of the widgets is remembered before Gladys is asked to pull them.
Handle(e) ==
    /\ queue' = IF e.shape > 0 /\ ~stopped THEN e.version ELSE queue
    /\ widgetSig' = e.version
    /\ IF e.version # widgetSig THEN AskWidgets(e.version) ELSE UNCHANGED <<asked, refused, faults>>
    /\ gap' = ((gap /\ e.version # charger.version) \/ e.version < widgetSig)

\* An event whose shape is known costs no call.
KnownShape ==
    /\ Emit /\ loop = "open" /\ charger.shape = shapes
    /\ Handle(charger)
    /\ UNCHANGED <<charger, loop, shapes, signature, timer, stopped, tasks, discovered, shown, connects, lists>>

\* A new shape is remembered at once; the discovery goes first.
NewShape(t) ==
    /\ Emit /\ loop = "open" /\ charger.shape # shapes /\ Free(t)
    /\ shapes' = charger.shape
    /\ tasks' = [tasks EXCEPT ![t] = [of |-> "event", step |-> "fetch", list |-> 0, charger |-> charger]]
    /\ UNCHANGED <<charger, loop, signature, widgetSig, timer, stopped, queue, gladys, counters, ghosts>>

\* What GET /api/state makes of the list: when the gateway does not answer,
\* configured charge points only.
Answers(list) ==
    \/ list = ListOf(charger) /\ UNCHANGED faults
    \/ list = ListOf(Unreachable) /\ Fault

\* publishDevices() of an event: the charge point may have moved on.
Fetched(t) ==
    /\ Publisher(t) /\ At(t, "fetch")
    /\ \E list \in Lists :
        /\ Answers(list)
        /\ tasks' = [tasks EXCEPT ![t].step = "got", ![t].list = list]
    /\ UNCHANGED <<gateway, loop, memory, queue, gladys, connects, ghosts>>

\* The other handlers carry nothing before the answer: they begin with it, at
\* the comparison that a refresh makes with it or past it.
Begin(t, handler, step) ==
    /\ Free(t)
    /\ \E list \in Lists :
        /\ Answers(list)
        /\ tasks' = [tasks EXCEPT ![t] = [of |-> handler, step |-> step, list |-> list, charger |-> Unreachable]]
    /\ UNCHANGED <<gateway, loop, memory, queue, gladys, ghosts>>

\* onlyIfChanged
Refresh(t) == timer /\ Begin(t, "list", "got") /\ UNCHANGED connects

Scan(t) == ~stopped /\ connects > 0 /\ Begin(t, "list", "publish") /\ UNCHANGED connects

\* 'connected', once getConfig and reconcileGateway() are through.
Connected(t) ==
    /\ ~stopped /\ connects < MaxConnects
    /\ connects' = connects + 1
    /\ Begin(t, "connected", "publish")

\* Mutant: a timeout where the code has an interval.
FinallyOnce(t) ==
    /\ tasks' = [tasks EXCEPT ![t] = Idle]
    /\ timer' = ((timer /\ ~Of(t, {"list"})) \/ Of(t, {"connected"}))
    /\ loop' = IF Of(t, {"connected"}) /\ loop = "off" /\ ~stopped THEN "closed" ELSE loop

\* The end of the task's handler: the finally of 'connected' starts what runs
\* on its own, even after a shutdown as far as the timer goes.
Finally(t) ==
    /\ tasks' = [tasks EXCEPT ![t] = Idle]
    /\ IF Of(t, {"connected"})
       THEN /\ timer' = TRUE
            /\ loop' = IF loop = "off" /\ ~stopped THEN "closed" ELSE loop
       ELSE UNCHANGED <<timer, loop>>

\* Mutant: an event that published the discovery forgets its states.
ReturnsOnly(t) == Finally(t) /\ UNCHANGED <<queue, widgetSig, asked, refused, faults, gap>>

\* publishDevices() has returned: an event goes on with its states.
Returns(t) ==
    /\ Finally(t)
    /\ IF Of(t, {"event"}) THEN Handle(tasks[t].charger)
       ELSE UNCHANGED <<queue, widgetSig, asked, refused, faults, gap>>

\* publishDevices() throws: an event is dropped with its states.
Throws(t) ==
    /\ Finally(t)
    /\ gap' = (gap \/ Of(t, {"event"}))
    /\ UNCHANGED <<queue, widgetSig, asked, refused>>

Unchanged(t) ==
    /\ At(t, "got") /\ tasks[t].list = signature
    /\ Returns(t)
    /\ UNCHANGED <<gateway, shapes, signature, stopped, discovered, shown, connects, lists>>

\* Mutant: the signature is kept before the list is published.
PublishesTooSure(t) ==
    /\ At(t, "got") /\ tasks[t].list # signature
    /\ tasks' = [tasks EXCEPT ![t].step = "publish"]
    /\ signature' = tasks[t].list
    /\ UNCHANGED <<gateway, loop, shapes, widgetSig, timer, stopped, queue, gladys, counters, ghosts>>

Publishes(t) ==
    /\ At(t, "got") /\ tasks[t].list # signature
    /\ tasks' = [tasks EXCEPT ![t].step = "publish"]
    /\ UNCHANGED <<gateway, loop, memory, queue, gladys, counters, ghosts>>

\* Gladys takes the list; the await of publishDiscoveredDevices() goes on.
Taken(t) ==
    /\ Publisher(t) /\ At(t, "publish")
    /\ tasks' = [tasks EXCEPT ![t].step = "taken"]
    /\ discovered' = tasks[t].list
    /\ taker' = t
    /\ UNCHANGED <<gateway, loop, memory, queue, shown, asked, counters, gap, refused, unsure>>

\* The answer comes, maybe after that of a list which Gladys took later.
Published(t) ==
    /\ Publisher(t) /\ At(t, "taken")
    /\ signature' = tasks[t].list
    /\ taker' = IF taker = t THEN NoSlot ELSE taker
    /\ unsure' = CASE taker = t -> FALSE
                   [] taker = NoSlot -> tasks[t].list # discovered
                   [] OTHER -> unsure
    /\ Returns(t)
    /\ UNCHANGED <<gateway, shapes, stopped, discovered, shown, connects>>

\* The call fails before Gladys has taken the list, or only its answer is lost.
PublishFails(t) ==
    /\ Publisher(t) /\ (At(t, "publish") \/ At(t, "taken")) /\ Fault
    /\ IF taker = t THEN taker' = NoSlot /\ unsure' = TRUE ELSE UNCHANGED lists
    /\ Throws(t)
    /\ UNCHANGED <<gateway, shapes, signature, stopped, discovered, shown, connects>>

-----------------------------------------------------------------------------
\* Mutant: a poll takes its turn in the handlers that publish the list.
PollFetchedAgain(t) ==
    /\ ~stopped /\ Free(t) /\ connects > 0 /\ charger.shape > 0
    /\ tasks' = [tasks EXCEPT ![t] = [of |-> "poll", step |-> "fetch", charger |-> charger]]
    /\ UNCHANGED <<gateway, loop, memory, queue, gladys, counters, ghosts>>

\* Mutant: no poll while the stream is up.
PollFetchedOffStream(t) ==
    /\ ~stopped /\ Free(t) /\ connects > 0 /\ charger.shape > 0 /\ loop # "open"
    /\ tasks' = [tasks EXCEPT ![t] = [of |-> "poll", step |-> "publish", charger |-> charger]]
    /\ UNCHANGED <<gateway, loop, memory, queue, gladys, counters, ghosts>>

\* onPoll(), once GET /api/state is answered; nothing observed, nothing to do.
PollFetched(t) ==
    /\ ~stopped /\ Free(t) /\ connects > 0 /\ charger.shape > 0
    /\ tasks' = [tasks EXCEPT ![t] = [of |-> "poll", step |-> "publish", charger |-> charger]]
    /\ UNCHANGED <<gateway, loop, memory, queue, gladys, counters, ghosts>>

\* It publishes past the queue.
PollPublished(t) ==
    /\ Of(t, {"poll"}) /\ At(t, "publish")
    /\ shown' = tasks[t].charger.version
    /\ gap' = (gap \/ shown' < widgetSig)
    /\ tasks' = [tasks EXCEPT ![t] = Idle]
    /\ UNCHANGED <<gateway, loop, memory, queue, discovered, asked, counters, refused, lists>>

PollFails(t) ==
    /\ Of(t, {"poll"}) /\ At(t, "publish") /\ Fault
    /\ tasks' = [tasks EXCEPT ![t] = Idle]
    /\ UNCHANGED <<gateway, loop, memory, queue, gladys, connects, ghosts>>

\* The queue delivers; a call that fails without effect changes nothing.
Deliver ==
    /\ queue # 0
    /\ shown' = queue /\ queue' = 0
    /\ UNCHANGED <<gateway, loop, memory, tasks, discovered, asked, counters, ghosts>>

\* Gladys takes the states and the answer is lost: they will be sent again.
AnswerLost ==
    /\ queue # 0 /\ Fault
    /\ shown' = queue
    /\ UNCHANGED <<gateway, loop, memory, tasks, queue, discovered, asked, connects, ghosts>>

\* handleShutdown.
Shutdown ==
    /\ ~stopped
    /\ stopped' = TRUE /\ timer' = FALSE
    /\ loop' = "off"
    /\ queue' = 0
    /\ UNCHANGED <<gateway, shapes, signature, widgetSig, tasks, gladys, counters, ghosts>>

Work(t) ==
    \/ Fetched(t) \/ Unchanged(t) \/ Publishes(t) \/ Taken(t) \/ Published(t) \/ PublishFails(t)
    \/ PollPublished(t) \/ PollFails(t)

Next ==
    \/ \E shape \in Shapes : Observe(shape)
    \/ Reset
    \/ StreamOpens \/ StreamLost \/ GatewayRestarts
    \/ EmitUnheard \/ KnownShape
    \/ \E t \in Slots : NewShape(t)
    \/ \E t \in Slots : Refresh(t)
    \/ \E t \in Slots : Scan(t)
    \/ \E t \in Slots : Connected(t)
    \/ \E t \in Slots : Work(t)
    \/ \E t \in Slots : PollFetched(t)
    \/ Deliver \/ AnswerLost
    \/ Shutdown

Spec == Init /\ [][Next]_vars

\* The interval fires, calls end, Gladys polls and connects once; failures are
\* bounded, so a call succeeds in the end.  The fairness is strong where the slots
\* are shared: nothing in the code makes one handler wait for another.  None is
\* asked of the event stream and of the queue: poll and refresh make up for both.
Fairness ==
    /\ SF_vars(\E t \in Slots : Refresh(t))
    /\ SF_vars(\E t \in Slots : PollFetched(t))
    /\ SF_vars(\E t \in Slots : Connected(t))
    /\ \A t \in Slots : WF_vars(Work(t))

FairSpec == Spec /\ Fairness

-----------------------------------------------------------------------------
NothingToShow == stopped \/ ~charger.known \/ charger.shape = 0

Gladys == INSTANCE Mirror WITH source <- charger.version, copy <- shown, off <- NothingToShow

\* Gladys shows nothing that was never observed, and the last state of a charge
\* point that keeps quiet, whatever was lost, overtaken, retried or dropped on
\* the way: the poll makes up for the stream.
ImplementsMirror == Gladys!Spec

AtRest ==
    /\ loop = "open" /\ ~notified /\ queue = 0
    /\ Idles = Slots

\* Without the poll's help: once all is handled Gladys shows the last state and
\* its signature is remembered, unless an event was lost, overtaken or undone by
\* an older poll; and Gladys has been asked to pull the widgets for it, unless
\* that request threw, which nothing tries again.
EventsAreEnough ==
    AtRest /\ ~gap /\ ~NothingToShow =>
        /\ shown = charger.version /\ widgetSig = charger.version
        /\ ~refused => asked = charger.version

\* Once the answer for the list that Gladys took last is handled, the periodic
\* refresh compares with that very list, however publications overlap; except
\* after an answer that was lost, or overtaken by the one for an older list.
RememberedIsListed ==
    taker = NoSlot /\ ~unsure => signature \in {discovered, NoList}

\* A new connector or vendor module, and a charge point that is forgotten, show
\* in Discovery in the end, with the same exceptions.
DiscoveryKeepsUp == <>[](stopped \/ unsure \/ discovered = ListOf(charger))
=============================================================================
