--------------------------- MODULE SimulatorProofs ---------------------------
(***************************************************************************)
(* Proofs about a charge session, for any number of tasks, any requests,   *)
(* scenarios, transactions, meter values and powers.                       *)
(***************************************************************************)
EXTENDS Simulator, ChargerStateProofs, WidgetProofs, SequenceTheorems, FiniteSetTheorems

-----------------------------------------------------------------------------
(* The inductive invariant.                                                *)

Methods == {"BootNotification", "Aggregate", "Authorize", "StartTransaction", "StopTransaction",
            "StatusNotification", "MeterValues"}

Call == [method : Methods, status : Statuses, error : {"NoError", "GroundFailure"},
         tx : TxIds \cup {NoTx}, wh : 0..MaxWh, power : Powers \cup {0}, target : Powers, hardware : Hardware]

Task == [by : {None, "person", "scenario", "timer", "open"}, todo : Seq(Instructions), call : Call \cup {NoCall}]

SeenConnector == [status : Statuses \cup {"Unknown"}, error : {None, "NoError", "GroundFailure"},
                  values : [Fields -> Int]]

GatewayView == [here : BOOLEAN, base : ChargerStates, seen : [Connectors -> SeenConnector],
                meters : [TxIds -> Meters], hardware : Hardware \cup {None}]

\* The calls that wait, the oldest first.
Line == [i \in DOMAIN queue |-> tasks[queue[i]].call]

\* The waiting tasks are exactly those of the queue, each once.
TasksAreFine ==
    /\ tasks \in [Tasks -> Task]
    /\ queue \in Seq(Tasks)
    /\ \A i, j \in DOMAIN queue : queue[i] = queue[j] => i = j
    /\ \A t \in Tasks : Waiting(t) <=> \E i \in DOMAIN queue : queue[i] = t
    /\ \A t \in Tasks : Waiting(t) => tasks[t].todo # <<>> /\ Head(tasks[t].todo) # "sleep"
    /\ connection # "connected" => queue = <<>>

LinkIsFine ==
    /\ connection \in {"disconnected", "connecting", "connected"}
    /\ timers \in BOOLEAN /\ (timers => connection = "connected")
    /\ apart \in BOOLEAN /\ missed \in BOOLEAN /\ doubled \in BOOLEAN /\ zeroed \in BOOLEAN /\ aborted \in BOOLEAN

\* What the gateway knows; it has seen nothing before the first connection.
ViewIsFine ==
    /\ gateway \in GatewayView /\ nextTx \in Nat \ {0}
    /\ connection = "connected" => gateway.here
    /\ ~gateway.here => gateway.base.connectors = {}

Types == TasksAreFine /\ LinkIsFine /\ cp \in Connector /\ ViewIsFine

-----------------------------------------------------------------------------
(* The line of calls.                                                      *)

\* A task without a call is told from one that waits.
LEMMA NoCallIsNoCall == NoCall \notin Call
BY DEF NoCall, Call, Methods, None

LEMMA IdleIsTask == Idle \in Task /\ Idle.call = NoCall /\ Idle.todo = <<>>
BY DEF Idle, Task

\* The line holds calls, in the order of the queue.
LEMMA LineOfCalls ==
    ASSUME TasksAreFine
    PROVE  /\ Line \in Seq(Call) /\ Len(Line) = Len(queue) /\ DOMAIN Line = DOMAIN queue
           /\ DOMAIN queue = 1..Len(queue) /\ Len(queue) \in Nat
           /\ \A i \in DOMAIN queue : queue[i] \in Tasks /\ Line[i] = tasks[queue[i]].call /\ Line[i] \in Call
<1>1. DOMAIN queue = 1..Len(queue) /\ Len(queue) \in Nat /\ \A i \in DOMAIN queue : queue[i] \in Tasks
  BY DEF TasksAreFine
<1>2. \A i \in DOMAIN queue : tasks[queue[i]].call \in Call
  <2> TAKE i \in DOMAIN queue
  <2>1. queue[i] \in Tasks /\ Waiting(queue[i])
    BY <1>1 DEF TasksAreFine
  <2>2. tasks[queue[i]] \in Task
    BY <2>1 DEF TasksAreFine
  <2> QED
    BY <2>1, <2>2 DEF Waiting, Task
<1>3. Line \in [1..Len(queue) -> Call]
  BY <1>1, <1>2 DEF Line
<1> QED
  BY <1>1, <1>2, <1>3 DEF Line

\* A task that does not wait does something, and the calls stay.
LEMMA LineStays ==
    ASSUME TasksAreFine, NEW t \in Tasks, ~Waiting(t), NEW r \in Task, r.call = NoCall,
           tasks' = [tasks EXCEPT ![t] = r], queue' = queue,
           connection' # "connected" => queue = <<>>
    PROVE  TasksAreFine' /\ Line' = Line
<1>1. tasks' \in [Tasks -> Task] /\ tasks'[t] = r /\ \A x \in Tasks \ {t} : tasks'[x] = tasks[x]
  BY DEF TasksAreFine
<1>2. \A x \in Tasks : Waiting(x)' <=> Waiting(x)
  BY <1>1 DEF Waiting
<1>3. \A i \in DOMAIN queue : queue[i] \in Tasks /\ queue[i] # t
  BY LineOfCalls DEF TasksAreFine
<1>4. Line' = Line
  BY <1>1, <1>3 DEF Line
<1>5. \A x \in Tasks : Waiting(x)' => tasks'[x].todo # <<>> /\ Head(tasks'[x].todo) # "sleep"
  BY <1>1, <1>2 DEF TasksAreFine
<1> QED
  BY <1>1, <1>2, <1>4, <1>5 DEF TasksAreFine

\* A task makes a call, which goes to the end of the line.
LEMMA LineGrows ==
    ASSUME TasksAreFine, NEW t \in Tasks, Runs(t), Head(tasks[t].todo) # "sleep", NEW c \in Call,
           tasks' = [tasks EXCEPT ![t].call = c], queue' = Append(queue, t), connection' = "connected"
    PROVE  TasksAreFine' /\ Line' = Append(Line, c)
<1>1. /\ tasks' \in [Tasks -> Task] /\ tasks'[t].call = c /\ tasks'[t].todo = tasks[t].todo
      /\ \A x \in Tasks \ {t} : tasks'[x] = tasks[x]
  <2>1. tasks[t] \in Task
    BY DEF TasksAreFine
  <2>2. [tasks[t] EXCEPT !.call = c] \in Task
    BY <2>1 DEF Task
  <2> QED
    BY <2>1, <2>2 DEF TasksAreFine, Task
<1>2. c # NoCall
  BY NoCallIsNoCall
<1>3. \A x \in Tasks : Waiting(x)' <=> Waiting(x) \/ x = t
  BY <1>1, <1>2 DEF Waiting
<1>4. \A i \in DOMAIN queue : queue[i] \in Tasks /\ queue[i] # t
  BY LineOfCalls DEF TasksAreFine, Runs
<1>5. /\ queue' \in Seq(Tasks) /\ Len(queue') = Len(queue) + 1 /\ DOMAIN queue' = 1..(Len(queue) + 1)
      /\ queue'[Len(queue) + 1] = t /\ \A i \in DOMAIN queue : i \in DOMAIN queue' /\ queue'[i] = queue[i]
      /\ \A i \in DOMAIN queue' : i \in DOMAIN queue \/ i = Len(queue) + 1
  BY DEF TasksAreFine
<1>6. Line' = Append(Line, c)
  <2>2. ASSUME NEW i \in DOMAIN queue' PROVE Line'[i] = Append(Line, c)[i]
    <3>1. CASE i \in DOMAIN queue
      <4>1. Line'[i] = Line[i]
        BY <1>1, <1>4, <1>5, <3>1 DEF Line
      <4> QED
        BY <3>1, <4>1, LineOfCalls
    <3>2. CASE i = Len(queue) + 1
      BY <1>1, <1>5, <3>2, LineOfCalls DEF Line
    <3> QED
      BY <1>5, <3>1, <3>2
  <2>3. DOMAIN Line' = DOMAIN queue' /\ Line' = [i \in DOMAIN queue' |-> Line'[i]]
    BY DEF Line
  <2>4. Append(Line, c) = [i \in DOMAIN queue' |-> Append(Line, c)[i]]
    <3>1. Append(Line, c) \in Seq(Call) /\ Len(Append(Line, c)) = Len(queue) + 1
      BY LineOfCalls
    <3>2. Append(Line, c) \in [1..(Len(queue) + 1) -> Call]
      BY <3>1, LenProperties
    <3> QED
      BY <1>5, <3>2
  <2> QED
    BY <2>2, <2>3, <2>4
<1>7. \A i, j \in DOMAIN queue' : queue'[i] = queue'[j] => i = j
  BY <1>4, <1>5 DEF TasksAreFine
<1>8. \A x \in Tasks : Waiting(x)' <=> \E i \in DOMAIN queue' : queue'[i] = x
  <2> TAKE x \in Tasks
  <2>1. CASE x = t
    BY <1>3, <1>5, <2>1
  <2>2. CASE x # t
    BY <1>3, <1>5, <2>2 DEF TasksAreFine
  <2> QED
    BY <2>1, <2>2
<1>9. \A x \in Tasks : Waiting(x)' => tasks'[x].todo # <<>> /\ Head(tasks'[x].todo) # "sleep"
  BY <1>1, <1>3 DEF TasksAreFine, Runs
<1> QED
  BY <1>1, <1>5, <1>6, <1>7, <1>8, <1>9 DEF TasksAreFine

\* The oldest call is over.
LEMMA LineMoves ==
    ASSUME TasksAreFine, queue # <<>>, NEW r \in Task, r.call = NoCall,
           tasks' = [tasks EXCEPT ![Head(queue)] = r], queue' = Tail(queue), connection' = connection
    PROVE  TasksAreFine' /\ Line' = Tail(Line)
<1> DEFINE t == Head(queue)
<1>1. /\ t \in Tasks /\ t = queue[1] /\ Len(queue) \in Nat \ {0}
      /\ queue' \in Seq(Tasks) /\ Len(queue') = Len(queue) - 1 /\ DOMAIN queue' = 1..(Len(queue) - 1)
      /\ \A i \in DOMAIN queue' : i + 1 \in DOMAIN queue /\ queue'[i] = queue[i + 1] /\ i \in Nat
      /\ \A i \in DOMAIN queue : i = 1 \/ (i - 1 \in DOMAIN queue' /\ queue'[i - 1] = queue[i])
  BY DEF TasksAreFine
<1> HIDE DEF t
<1>2. /\ tasks' \in [Tasks -> Task] /\ tasks'[t] = r /\ \A x \in Tasks \ {t} : tasks'[x] = tasks[x]
  BY <1>1 DEF TasksAreFine, t
<1>3. \A x \in Tasks : Waiting(x)' <=> Waiting(x) /\ x # t
  BY <1>2 DEF Waiting
<1>4. \A i \in DOMAIN queue' : queue'[i] \in Tasks /\ queue'[i] # t
  BY <1>1 DEF TasksAreFine
<1>5. Line' = Tail(Line)
  <2>1. Tail(Line) \in Seq(Call) /\ DOMAIN Tail(Line) = DOMAIN queue'
    BY <1>1, LineOfCalls
  <2>2. ASSUME NEW i \in DOMAIN queue' PROVE Line'[i] = Tail(Line)[i]
    <3>1. Line'[i] = tasks[queue[i + 1]].call
      BY <1>1, <1>2, <1>4 DEF Line
    <3>2. Line[i + 1] = tasks[queue[i + 1]].call
      BY <1>1 DEF Line
    <3>3. Tail(Line)[i] = Line[i + 1]
      BY <1>1, <2>1, LineOfCalls
    <3> QED
      BY <3>1, <3>2, <3>3
  <2>3. DOMAIN Line' = DOMAIN queue' /\ Line' = [i \in DOMAIN queue' |-> Line'[i]]
    BY DEF Line
  <2> QED
    BY <2>1, <2>2, <2>3
<1>6. \A i, j \in DOMAIN queue' : queue'[i] = queue'[j] => i = j
  <2> TAKE i, j \in DOMAIN queue'
  <2>1. queue[i + 1] = queue[j + 1] => i + 1 = j + 1
    BY <1>1 DEF TasksAreFine
  <2> QED
    BY <1>1, <2>1
<1>7. \A x \in Tasks : Waiting(x)' <=> \E i \in DOMAIN queue' : queue'[i] = x
  <2> TAKE x \in Tasks
  <2>1. CASE x = t
    BY <1>3, <1>4, <2>1
  <2>2. CASE x # t
    <3>1. (\E i \in DOMAIN queue : queue[i] = x) <=> \E i \in DOMAIN queue' : queue'[i] = x
      <4>1. ASSUME NEW i \in DOMAIN queue, queue[i] = x PROVE \E j \in DOMAIN queue' : queue'[j] = x
        BY <1>1, <2>2, <4>1
      <4>2. ASSUME NEW i \in DOMAIN queue', queue'[i] = x PROVE \E j \in DOMAIN queue : queue[j] = x
        BY <1>1, <4>2
      <4> QED
        BY <4>1, <4>2
    <3> QED
      BY <1>3, <2>2, <3>1 DEF TasksAreFine
  <2> QED
    BY <2>1, <2>2
<1>8. \A x \in Tasks : Waiting(x)' => tasks'[x].todo # <<>> /\ Head(tasks'[x].todo) # "sleep"
  BY <1>2, <1>3 DEF TasksAreFine
<1> QED
  BY <1>1, <1>2, <1>5, <1>6, <1>7, <1>8 DEF TasksAreFine

\* Every call is over.
LEMMA LineBreaks ==
    ASSUME tasks' \in [Tasks -> Task], \A t \in Tasks : tasks'[t].call = NoCall, queue' = <<>>
    PROVE  TasksAreFine' /\ Line' = <<>>
BY DEF TasksAreFine, Line, Waiting

-----------------------------------------------------------------------------
(* What the gateway hears.                                                 *)

\* There is one connector, as by default.
LEMMA OneConnector == k \in Connectors /\ Connectors = {k} /\ k = 1
BY SimulatorAssumption DEF SimulatorAssumption, k

\* The numbers of the assumption are natural.
LEMMA Bounds ==
    /\ InitialWh \in Nat /\ StepWh \in Nat /\ MaxWh \in Nat /\ InitialWh <= MaxWh
    /\ MaxPower \in Powers /\ Powers \subseteq Nat
<1>1. {InitialWh, StepWh, MaxWh, MaxActions, MaxFaults} \subseteq Nat
  BY SimulatorAssumption DEF SimulatorAssumption
<1>2. InitialWh <= MaxWh /\ MaxPower \in Powers /\ Powers \subseteq Nat
  BY SimulatorAssumption DEF SimulatorAssumption
<1>3. InitialWh \in Nat /\ StepWh \in Nat /\ MaxWh \in Nat
  BY <1>1
<1> QED
  BY <1>2, <1>3

\* What a view of the gateway consists of.
LEMMA ViewFields ==
    ASSUME NEW g \in GatewayView
    PROVE  /\ g = [here |-> g.here, base |-> g.base, seen |-> g.seen, meters |-> g.meters,
                    hardware |-> g.hardware]
           /\ g.hardware \in Hardware \cup {None}
           /\ g.here \in BOOLEAN /\ g.base \in ChargerStates /\ g.seen \in [Connectors -> SeenConnector]
           /\ g.meters \in [TxIds -> Meters] /\ g.seen[k] \in SeenConnector
           /\ g.base.transactions \in [TxIds -> Record \cup {NoRecord}]
           /\ g.base.shown[k] \in TxIds \cup {NoTx} /\ g.base.shown \in [Connectors -> TxIds \cup {NoTx}]
           /\ g.base.history \in Seq(ClosedRecord)
           /\ \A i \in DOMAIN g.base.history : g.base.history[i] \in ClosedRecord /\ g.base.history[i].tx \in TxIds
<1>1. /\ g = [here |-> g.here, base |-> g.base, seen |-> g.seen, meters |-> g.meters, hardware |-> g.hardware]
      /\ g.hardware \in Hardware \cup {None}
      /\ g.here \in BOOLEAN /\ g.base \in ChargerStates /\ g.seen \in [Connectors -> SeenConnector]
      /\ g.meters \in [TxIds -> Meters]
  BY DEF GatewayView
<1>2. g.seen[k] \in SeenConnector
  BY <1>1, OneConnector
<1>3. /\ g.base.transactions \in [TxIds -> Record \cup {NoRecord}]
      /\ g.base.shown \in [Connectors -> TxIds \cup {NoTx}]
      /\ g.base.history \in Seq(ClosedRecord)
  BY <1>1, StateFields
<1>4. \A i \in DOMAIN g.base.history : g.base.history[i] \in ClosedRecord
  BY <1>3
<1>5. \A i \in DOMAIN g.base.history : g.base.history[i].tx \in TxIds
  BY <1>4 DEF ClosedRecord
<1> QED
  BY <1>1, <1>2, <1>3, <1>4, <1>5, OneConnector

\* What a call carries.
LEMMA CallFields ==
    ASSUME NEW c \in Call
    PROVE  /\ c.method \in Methods /\ c.status \in Statuses /\ c.error \in {"NoError", "GroundFailure"}
           /\ c.tx \in TxIds \cup {NoTx} /\ c.wh \in 0..MaxWh /\ c.wh \in Nat
           /\ c.hardware \in Hardware
           /\ c.power \in Powers \cup {0} /\ c.target \in Powers /\ c.power \in Nat /\ c.target \in Nat
<1>1. /\ c.method \in Methods /\ c.status \in Statuses /\ c.error \in {"NoError", "GroundFailure"}
      /\ c.tx \in TxIds \cup {NoTx} /\ c.wh \in 0..MaxWh /\ c.power \in Powers \cup {0} /\ c.target \in Powers
      /\ c.hardware \in Hardware
  BY DEF Call
<1>2. c.wh \in Nat
  BY <1>1, Bounds
<1>3. c.power \in Nat /\ c.target \in Nat
  <2>1. \A p \in Powers : p \in Nat
    BY Bounds
  <2> QED
    BY <1>1, <2>1
<1> QED
  BY <1>1, <1>2, <1>3

\* A status.
LEMMA HearsStatus ==
    ASSUME NEW g \in GatewayView, NEW c \in Call, NEW answered, c.method = "StatusNotification"
    PROVE  LET h == Hears(g, c, answered)
           IN /\ h \in GatewayView /\ h.here = g.here /\ h.meters = g.meters
              /\ h.base.connectors = g.base.connectors \cup {k} /\ h.base.shown = g.base.shown
              /\ h.base.transactions = g.base.transactions /\ h.base.history = g.base.history
              /\ h.seen[k].values = g.seen[k].values /\ h.seen[k].status = c.status
<1> DEFINE b == [g.base EXCEPT !.connectors = @ \cup {k}]
           v == [g.seen[k] EXCEPT !.status = c.status, !.error = c.error]
           h == [here |-> g.here, base |-> b, seen |-> [g.seen EXCEPT ![k] = v], meters |-> g.meters,
                 hardware |-> g.hardware]
<1>1. b \in ChargerStates /\ b.connectors = g.base.connectors \cup {k} /\ b.shown = g.base.shown
      /\ b.transactions = g.base.transactions /\ b.history = g.base.history
  BY ViewFields, OneConnector, SeenChanges
<1>2. v \in SeenConnector /\ v.values = g.seen[k].values /\ v.status = c.status
  BY ViewFields, CallFields DEF SeenConnector
<1>3. Hears(g, c, answered) = h
  <2>1. Observe(g.base, [method |-> "StatusNotification", connector |-> k, tx |-> NoTx], NoAnswer) = b
    BY DEF Observe
  <2>2. Hears(g, c, answered) = [g EXCEPT !.base = b, !.seen = PatchConnector(g, v)]
    <3> HIDE DEF b
    <3> QED
      BY <2>1 DEF Hears
  <2> HIDE DEF b, v
  <2> QED
    BY <2>2, ViewFields DEF PatchConnector
<1> HIDE DEF b, v
<1>4. /\ h.here = g.here /\ h.base = b /\ h.meters = g.meters /\ h.seen[k] = v /\ h.hardware = g.hardware
      /\ h.seen \in [Connectors -> SeenConnector]
  BY <1>2, ViewFields, OneConnector
<1>5. h \in GatewayView
  BY <1>1, <1>4, ViewFields DEF GatewayView
<1> QED
  BY <1>1, <1>2, <1>3, <1>4, <1>5

\* Measures: of the samples of a tick, the energy of the call and what it may be.
LEMMA Sampled ==
    ASSUME NEW c \in Call, NEW values \in [Fields -> Int]
    PROVE  LET v == Patch(values, Samples(c))
           IN /\ v \in [Fields -> Int]
              /\ v["energy"] = c.wh /\ v["power"] = c.power /\ v["current"] = c.power \div 230
              /\ v["voltage"] = 230 /\ v["powerOffered"] = c.target /\ v["currentOffered"] = c.target \div 230
<1> DEFINE s == Samples(c)
           fields == <<"energy", "power", "current", "voltage", "powerOffered", "currentOffered">>
           of(f) == {i \in DOMAIN s : s[i].field = f /\ s[i].value # NoValue}
           v == Patch(values, s)
<1>1. /\ DOMAIN s = 1..6
      /\ s[1] = [field |-> "energy", value |-> c.wh] /\ s[2] = [field |-> "power", value |-> c.power]
      /\ s[3] = [field |-> "current", value |-> c.power \div 230] /\ s[4] = [field |-> "voltage", value |-> 230]
      /\ s[5] = [field |-> "powerOffered", value |-> c.target]
      /\ s[6] = [field |-> "currentOffered", value |-> c.target \div 230]
  BY DEF Samples
<1> HIDE DEF s
<1>8. \A i \in 1..6 : s[i].value # NoValue
  <2>1. c.wh \in Nat /\ c.power \in Nat /\ c.target \in Nat
    BY CallFields
  <2>2. c.power \div 230 \in Nat /\ c.target \div 230 \in Nat
    BY <2>1
  <2>3. /\ s[1].value \in Nat /\ s[2].value \in Nat /\ s[3].value \in Nat
        /\ s[4].value \in Nat /\ s[5].value \in Nat /\ s[6].value \in Nat
    BY <1>1, <2>1, <2>2
  <2> QED
    BY <2>3 DEF NoValue
<1>2. /\ of("energy") = {1} /\ of("power") = {2} /\ of("current") = {3}
      /\ of("voltage") = {4} /\ of("powerOffered") = {5} /\ of("currentOffered") = {6}
  <2>1. \A f : of(f) = {i \in DOMAIN s : s[i].field = f}
    BY <1>1, <1>8
  <2> QED
    BY <1>1, <2>1
<1>3. \A n \in Nat : (CHOOSE i \in {n} : \A j \in {n} : j <= i) = n
  OBVIOUS
<1>4. \A f \in Fields, n \in 1..6 : of(f) = {n} => v[f] = s[n].value
  <2> TAKE f \in Fields, n \in 1..6
  <2> HAVE of(f) = {n}
  <2>1. v[f] = s[CHOOSE i \in {n} : \A j \in {n} : j <= i].value
    BY DEF Patch
  <2> QED
    BY <1>3, <2>1
<1>5. /\ v["energy"] = c.wh /\ v["power"] = c.power /\ v["current"] = c.power \div 230
      /\ v["voltage"] = 230 /\ v["powerOffered"] = c.target /\ v["currentOffered"] = c.target \div 230
  BY <1>1, <1>2, <1>4 DEF Fields
<1>6. v = [f \in Fields |-> v[f]]
  BY DEF Patch
<1>7. v \in [Fields -> Int]
  <2>1. c.power \div 230 \in Int /\ c.target \div 230 \in Int
    BY CallFields
  <2> QED
    BY <1>5, <1>6, <2>1, CallFields DEF Fields
<1> QED
  BY <1>5, <1>7 DEF s

\* A meter value.
LEMMA HearsMeter ==
    ASSUME NEW g \in GatewayView, NEW c \in Call, NEW answered, c.method = "MeterValues"
    PROVE  LET h == Hears(g, c, answered)
           IN /\ h \in GatewayView /\ h.here = g.here /\ h.meters = g.meters
              /\ h.base.connectors = g.base.connectors \cup {k} /\ h.base.shown = g.base.shown
              /\ h.base.transactions = g.base.transactions /\ h.base.history = g.base.history
              /\ h.seen[k].values = Patch(g.seen[k].values, Samples(c)) /\ h.seen[k].status = g.seen[k].status
<1> DEFINE b == [g.base EXCEPT !.connectors = @ \cup {k}]
           p == Patch(g.seen[k].values, Samples(c))
           v == [g.seen[k] EXCEPT !.values = p]
           h == [here |-> g.here, base |-> b, seen |-> [g.seen EXCEPT ![k] = v], meters |-> g.meters,
                 hardware |-> g.hardware]
<1>1. b \in ChargerStates /\ b.connectors = g.base.connectors \cup {k} /\ b.shown = g.base.shown
      /\ b.transactions = g.base.transactions /\ b.history = g.base.history
  BY ViewFields, OneConnector, SeenChanges
<1>2. p \in [Fields -> Int]
  <2>1. g.seen[k].values \in [Fields -> Int]
    BY ViewFields DEF SeenConnector
  <2> QED
    BY <2>1, Sampled
<1>3. Hears(g, c, answered) = h
  <2>1. Hears(g, c, answered) = [g EXCEPT !.base = b, !.seen = PatchConnector(g, v)]
    BY ViewFields DEF Hears, SeenConnector
  <2> HIDE DEF b, v
  <2> QED
    BY <2>1, ViewFields DEF PatchConnector
<1> HIDE DEF b, p
<1>4. v \in SeenConnector /\ v.values = p /\ v.status = g.seen[k].status
  BY <1>2, ViewFields DEF SeenConnector
<1> HIDE DEF v
<1>5. /\ h.here = g.here /\ h.base = b /\ h.meters = g.meters /\ h.seen[k] = v /\ h.hardware = g.hardware
      /\ h.seen \in [Connectors -> SeenConnector]
  BY <1>4, ViewFields, OneConnector
<1>6. h \in GatewayView
  BY <1>1, <1>5, ViewFields DEF GatewayView
<1> HIDE DEF h
<1>7. h.seen[k].values = Patch(g.seen[k].values, Samples(c))
  BY <1>4, <1>5 DEF p
<1> QED
  BY <1>1, <1>3, <1>4, <1>5, <1>6, <1>7

\* A charge that begins.
LEMMA HearsStart ==
    ASSUME NEW g \in GatewayView, NEW c \in Call, c.method = "StartTransaction", nextTx \in TxIds
    PROVE  LET h == Hears(g, c, TRUE)
           IN /\ h \in GatewayView /\ h.here = g.here
              /\ h.base.connectors = g.base.connectors \cup {k} /\ h.base.shown[k] = nextTx
              /\ h.base.transactions = [g.base.transactions EXCEPT ![nextTx] = [connector |-> k, by |-> "local"]]
              /\ h.base.history = g.base.history
              /\ h.meters = [g.meters EXCEPT ![nextTx] = [start |-> c.wh, stop |-> NoValue]]
              /\ h.seen[k].values = [g.seen[k].values EXCEPT !["energy"] = c.wh]
              /\ h.seen[k].status = g.seen[k].status
<1> DEFINE b == StartTransaction(g.base, k, nextTx, "local")
           p == [g.seen[k].values EXCEPT !["energy"] = c.wh]
           v == [g.seen[k] EXCEPT !.values["energy"] = c.wh]
           m == [g.meters EXCEPT ![nextTx] = [start |-> c.wh, stop |-> NoValue]]
           h == [here |-> g.here, base |-> b, seen |-> [g.seen EXCEPT ![k] = v], meters |-> m,
                 hardware |-> g.hardware]
<1>1. /\ b \in ChargerStates /\ b.connectors = g.base.connectors \cup {k}
      /\ b.shown = [g.base.shown EXCEPT ![k] = nextTx] /\ b.history = g.base.history
      /\ b.transactions = [g.base.transactions EXCEPT ![nextTx] = [connector |-> k, by |-> "local"]]
  <2>1. g.base \in ChargerStates /\ k \in Connectors /\ "local" \in Issuers
    BY ViewFields, OneConnector DEF Issuers
  <2>2. ASSUME NEW s \in ChargerStates, NEW tx \in TxIds, NEW by \in Issuers, NEW x,
               x = StartTransaction(s, k, tx, by)
        PROVE  /\ x \in ChargerStates
               /\ x.connectors = s.connectors \cup {k} /\ x.history = s.history
               /\ x.shown = [s.shown EXCEPT ![k] = tx]
               /\ x.transactions = [s.transactions EXCEPT ![tx] = [connector |-> k, by |-> by]]
    BY <2>1, <2>2, StartChanges
  <2> QED
    BY <2>1, <2>2
<1>2. p \in [Fields -> Int]
  BY ViewFields, CallFields DEF SeenConnector, Fields
<1>3. v \in SeenConnector /\ v.values = p /\ v.status = g.seen[k].status
  BY <1>2, ViewFields DEF SeenConnector
<1>4. m \in [TxIds -> Meters]
  BY ViewFields, CallFields DEF Meters, NoValue
<1>5. Hears(g, c, TRUE) = h
  <2>1. Hears(g, c, TRUE) = [g EXCEPT !.base = b, !.meters = m, !.seen = PatchConnector(g, v)]
    BY ViewFields DEF Hears, Started
  <2> HIDE DEF b, v, m
  <2> QED
    BY <2>1, ViewFields DEF PatchConnector
<1> HIDE DEF b, v, p, m
<1>6. /\ h.here = g.here /\ h.base = b /\ h.meters = m /\ h.seen[k] = v /\ h.hardware = g.hardware
      /\ h.seen \in [Connectors -> SeenConnector]
  BY <1>3, ViewFields, OneConnector
<1>7. h \in GatewayView
  BY <1>1, <1>4, <1>6, ViewFields DEF GatewayView
<1>8. b.shown[k] = nextTx
  BY <1>1, ViewFields, OneConnector
<1> HIDE DEF h
<1>9. /\ h.meters = [g.meters EXCEPT ![nextTx] = [start |-> c.wh, stop |-> NoValue]]
      /\ h.seen[k].values = [g.seen[k].values EXCEPT !["energy"] = c.wh]
  BY <1>3, <1>6 DEF p, m
<1> QED
  BY <1>1, <1>3, <1>5, <1>6, <1>7, <1>8, <1>9

\* The end of a charge that is in progress.
LEMMA HearsStop ==
    ASSUME NEW g \in GatewayView, NEW c \in Call, NEW answered, c.method = "StopTransaction",
           c.tx \in TxIds, g.base.transactions[c.tx] # NoRecord
    PROVE  LET h == Hears(g, c, answered)
           IN /\ h \in GatewayView /\ h.here = g.here
              /\ h.base.connectors = g.base.connectors \cup {k} /\ h.base.shown[k] = NoTx
              /\ h.base.transactions = [g.base.transactions EXCEPT ![c.tx] = NoRecord]
              /\ \E r \in ClosedRecord : r.tx = c.tx /\ r.connector = k /\ h.base.history = Archive(r, g.base.history)
              /\ h.meters = [g.meters EXCEPT ![c.tx] = [start |-> g.meters[c.tx].start, stop |-> c.wh]]
              /\ h.seen = g.seen
<1> DEFINE b == StopTransaction(g.base, c.tx)
           old == g.base.transactions[c.tx]
           r == [tx |-> c.tx, connector |-> old.connector, by |-> old.by]
           m == [g.meters EXCEPT ![c.tx] = [start |-> g.meters[c.tx].start, stop |-> c.wh]]
           h == [here |-> g.here, base |-> b, seen |-> g.seen, meters |-> m, hardware |-> g.hardware]
<1>1. /\ b \in ChargerStates /\ old \in Record /\ r \in ClosedRecord
      /\ b.connectors = g.base.connectors \cup {old.connector}
      /\ b.shown = [g.base.shown EXCEPT ![old.connector] = NoTx]
      /\ b.transactions = [g.base.transactions EXCEPT ![c.tx] = NoRecord]
      /\ b.history = Archive(r, g.base.history)
  <2>1. g.base \in ChargerStates
    BY ViewFields
  <2> QED
    BY <2>1, StopChanges
<1>2. old.connector = k
  BY <1>1, OneConnector DEF Record
<1>3. r.tx = c.tx /\ r.connector = k
  BY <1>2
<1>4. g.meters[c.tx] \in Meters
  BY ViewFields
<1>5. [g.meters[c.tx] EXCEPT !.stop = c.wh] = [start |-> g.meters[c.tx].start, stop |-> c.wh]
  BY <1>4 DEF Meters
<1>6. m \in [TxIds -> Meters]
  BY <1>4, ViewFields, CallFields DEF Meters
<1>7. Hears(g, c, answered) = h
  <2>1. Hears(g, c, answered) = [g EXCEPT !.base = b, !.meters = m]
    BY <1>5, ViewFields DEF Hears
  <2> HIDE DEF b, m
  <2> QED
    BY <2>1, ViewFields
<1> HIDE DEF b, m, r, old
<1>8. h.here = g.here /\ h.base = b /\ h.meters = m /\ h.seen = g.seen /\ h.hardware = g.hardware
  OBVIOUS
<1>9. h \in GatewayView
  BY <1>1, <1>6, <1>8, ViewFields DEF GatewayView
<1>10. b.shown[k] = NoTx
  BY <1>1, <1>2, ViewFields, OneConnector
<1> HIDE DEF h
<1>11. h.meters = [g.meters EXCEPT ![c.tx] = [start |-> g.meters[c.tx].start, stop |-> c.wh]]
  BY <1>8 DEF m
<1> QED
  BY <1>1, <1>2, <1>3, <1>7, <1>8, <1>9, <1>10, <1>11

\* Two views that differ in the vendor and the model only.
SameButHardware(g, h) == h.here = g.here /\ h.base = g.base /\ h.seen = g.seen /\ h.meters = g.meters

\* The vendor and the model.
LEMMA HearsBoot ==
    ASSUME NEW g \in GatewayView, NEW c \in Call, NEW answered, c.method = "BootNotification"
    PROVE  LET h == Hears(g, c, answered) IN h \in GatewayView /\ SameButHardware(g, h)
<1> DEFINE h == [here |-> g.here, base |-> g.base, seen |-> g.seen, meters |-> g.meters, hardware |-> c.hardware]
<1>1. Hears(g, c, answered) = h
  <2>1. Hears(g, c, answered) = [g EXCEPT !.hardware = c.hardware]
    BY DEF Hears
  <2> QED
    BY <2>1, ViewFields
<1>2. /\ h.here = g.here /\ h.base = g.base /\ h.seen = g.seen /\ h.meters = g.meters
      /\ h.hardware = c.hardware
  OBVIOUS
<1>3. h \in GatewayView
  BY ViewFields, CallFields DEF GatewayView
<1> HIDE DEF h
<1> QED
  BY <1>1, <1>2, <1>3 DEF SameButHardware

\* Any other call, a start that failed and the end of a transaction that is not in
\* progress.
LEMMA HearsNothing ==
    ASSUME NEW g \in GatewayView, NEW c \in Call, NEW answered \in BOOLEAN,
           \/ c.method \in {"Aggregate", "Authorize"}
           \/ c.method = "StartTransaction" /\ ~answered
           \/ c.method = "StopTransaction" /\ (c.tx \notin TxIds \/ g.base.transactions[c.tx] = NoRecord)
    PROVE  Hears(g, c, answered) = g
<1>1. CASE c.method \in {"Aggregate", "Authorize"}
  BY <1>1 DEF Hears
<1>2. CASE c.method = "StartTransaction" /\ ~answered
  BY <1>2 DEF Hears
<1>3. CASE c.method = "StopTransaction" /\ (c.tx \notin TxIds \/ g.base.transactions[c.tx] = NoRecord)
  <2>1. StopTransaction(g.base, c.tx) = g.base
    BY <1>3 DEF StopTransaction
  <2>2. Hears(g, c, answered) = [g EXCEPT !.base = g.base, !.meters = g.meters]
    BY <1>3, <2>1, ViewFields DEF Hears
  <2> QED
    BY <2>2, ViewFields
<1> QED
  BY <1>1, <1>2, <1>3

-----------------------------------------------------------------------------
(* What a step may do, as the line of calls, the connector and the gateway *)
(* see it.                                                                 *)

\* Nothing that a property is about.
Quiet ==
    /\ Line' = Line /\ nextTx' = nextTx /\ gateway' \in {gateway, [gateway EXCEPT !.here = TRUE]}
    /\ cp'.status = cp.status /\ cp'.tx = cp.tx /\ cp'.wh = cp.wh
    /\ UNCHANGED ghosts
    /\ connection' # "connected" => connection # "connected"
    /\ connection' = "connected" => connection = "connected" \/ gateway'.here

\* A call that carries the connector as it is now.
Sends(c) ==
    /\ connection = "connected" /\ connection' = "connected" /\ Line' = Append(Line, c)
    /\ UNCHANGED <<gateway, nextTx, ghosts>>
    /\ c.status = cp'.status /\ c.wh = cp'.wh /\ cp.wh <= cp'.wh /\ c.tx = cp.tx
    /\ c.method = "StatusNotification" \/ cp'.status = cp.status
    /\ cp'.tx = IF c.method = "StopTransaction" THEN NoTx ELSE cp.tx

\* Something that nobody is told, without a connection.
Alone ==
    /\ connection # "connected" /\ connection' # "connected" /\ Line' = Line
    /\ UNCHANGED <<gateway, nextTx, missed, doubled>>
    /\ apart => apart'
    /\ apart' \/ cp'.tx = cp.tx
    /\ zeroed => zeroed'
    /\ zeroed' \/ cp.wh <= cp'.wh

\* The oldest call is heard, and answered to the charge point.
HeardAndAnswered ==
    LET c == Head(Line)
    IN /\ Line # <<>> /\ Line' = Tail(Line) /\ connection' = connection
       /\ Begins(c) => nextTx \in TxIds
       /\ gateway' = Hears(gateway, c, TRUE)
       /\ nextTx' = IF Begins(c) THEN nextTx + 1 ELSE nextTx
       /\ cp' = IF Begins(c) THEN [cp EXCEPT !.tx = nextTx] ELSE cp
       /\ doubled' = (doubled \/ (Begins(c) /\ cp.tx # NoTx))
       /\ apart' = (apart \/ (Begins(c) /\ \E i \in DOMAIN Line : Ends(Line[i])))
       /\ missed' = (missed /\ c.method # "StatusNotification")
       /\ zeroed' = zeroed

\* The oldest call is heard, and not answered as the charge point would like.
HeardAndRefused ==
    LET c == Head(Line)
    IN /\ Line # <<>> /\ Line' = Tail(Line) /\ connection' = connection
       /\ \E answered \in BOOLEAN :
            /\ answered /\ Begins(c) => nextTx \in TxIds
            /\ gateway' = Hears(gateway, c, answered)
            /\ nextTx' = IF answered /\ Begins(c) THEN nextTx + 1 ELSE nextTx
            /\ apart' = (apart \/ (answered /\ Begins(c)))
       /\ missed' = (missed \/ Tells(c))
       /\ UNCHANGED <<cp, doubled, zeroed>>

\* The connection is gone, and the calls with it, of which one may have been heard.
Cut ==
    /\ connection' # "connected" /\ Line' = <<>> /\ missed'
    /\ UNCHANGED <<cp, doubled, zeroed>>
    /\ \/ Line = <<>> /\ UNCHANGED <<gateway, nextTx, apart>>
       \/ LET c == Head(Line)
          IN /\ Line # <<>>
             /\ \E heard \in BOOLEAN :
                  /\ heard /\ Begins(c) => nextTx \in TxIds
                  /\ gateway' = IF heard THEN Hears(gateway, c, TRUE) ELSE gateway
                  /\ nextTx' = IF heard /\ Begins(c) THEN nextTx + 1 ELSE nextTx
                  /\ apart' = (apart \/ (heard /\ Begins(c))
                              \/ \E i \in DOMAIN Line : Line[i].method = "StopTransaction" /\ ~(heard /\ i = 1))

Step == Quiet \/ (\E c \in Call : Sends(c)) \/ Alone \/ HeardAndAnswered \/ HeardAndRefused \/ Cut

\* Steps, and what does not depend on what is heard.
Stepped == TasksAreFine' /\ LinkIsFine' /\ cp' \in Connector /\ Step

-----------------------------------------------------------------------------
(* Every action is one of these.                                           *)

\* The steps of a scenario are instructions of a task.
LEMMA ScenariosAreInstructions ==
    ASSUME NEW name \in Played
    PROVE  Scenario[name] \in Seq(Instructions)
<1>1. /\ {"sleep", "start", "stop", "unplug", "disconnect", "connect", "clear-fault"} \subseteq Instructions
      /\ Statuses \subseteq Instructions
  BY DEF Instructions, Macros
<1>2. {"Preparing", "SuspendedEV", "SuspendedEVSE", "Charging", "Faulted", "Unavailable", "Available"} \subseteq Instructions
  BY <1>1 DEF Statuses
<1> HIDE DEF Instructions
<1>3. Session \in Seq(Instructions)
  BY <1>1 DEF Session
<1>4. <<"sleep">> \in Seq(Instructions)
  BY <1>1
<1>5. Scenario.complete \in Seq(Instructions)
  BY <1>1, <1>2, <1>3 DEF Scenario
<1>6. Scenario.several \in Seq(Instructions)
  <2>1. Session \o <<"sleep">> \in Seq(Instructions)
    BY <1>3, <1>4
  <2>2. Session \o <<"sleep">> \o Session \o <<"sleep">> \in Seq(Instructions)
    BY <1>3, <1>4, <2>1
  <2> QED
    BY <1>3, <1>4, <2>2 DEF Scenario
<1>7. Scenario.vehicleFull \in Seq(Instructions) /\ Scenario.stationPause \in Seq(Instructions)
  BY <1>1, <1>2 DEF Scenario
<1>8. Scenario.pluggedIdle \in Seq(Instructions) /\ Scenario.fault \in Seq(Instructions)
      /\ Scenario.unavailable \in Seq(Instructions) /\ Scenario.connectionDrop \in Seq(Instructions)
  BY <1>1, <1>2 DEF Scenario
<1>9. name \in {"complete", "vehicleFull", "stationPause", "several", "pluggedIdle", "fault",
                "unavailable", "connectionDrop"}
  BY PlayedAssumption DEF Scenario
<1> QED
  BY <1>5, <1>6, <1>7, <1>8, <1>9

\* And so are the steps of an instruction that consists of others.
LEMMA BodiesAreInstructions ==
    ASSUME NEW i
    PROVE  Body(i) \in Seq(Instructions)
<1>1. {"Preparing", "Authorize", "StartTransaction", "Charging", "meter", "StopTransaction", "Finishing",
        "stop", "Available", "SuspendedEVSE"} \subseteq Instructions
  BY DEF Instructions, Macros, Calls, Statuses
<1> HIDE DEF Instructions
<1>2. StartCharge \in Seq(Instructions)
  BY <1>1 DEF StartCharge, PlugIn
<1>3. StopCharge \in Seq(Instructions) /\ ClearFault \in Seq(Instructions)
  BY <1>1 DEF StopCharge, ClearFault
<1>4. Unplug \in Seq(Instructions)
  BY <1>1 DEF Unplug
<1> QED
  BY <1>2, <1>3, <1>4 DEF Body

\* A task that goes on has nothing to wait for.
LEMMA GoesOn ==
    ASSUME TasksAreFine, NEW t \in Tasks, NEW todo \in Seq(Instructions), Goes(t, todo)
    PROVE  \E r \in Task : r.call = NoCall /\ tasks' = [tasks EXCEPT ![t] = r]
<1> DEFINE r == IF todo = <<>> THEN Idle ELSE [tasks[t] EXCEPT !.todo = todo, !.call = NoCall]
<1>1. tasks[t] \in Task
  BY DEF TasksAreFine
<1>2. r \in Task /\ r.call = NoCall
  BY <1>1, IdleIsTask DEF Task
<1>3. tasks' = [tasks EXCEPT ![t] = r]
  BY <1>1 DEF Goes, TasksAreFine
<1> QED
  BY <1>2, <1>3

\* A task that has something left does an instruction.
LEMMA Runner ==
    ASSUME TasksAreFine, NEW t \in Tasks, tasks[t].todo # <<>>
    PROVE  tasks[t] \in Task /\ Instruction(t) \in Instructions /\ Rest(t) \in Seq(Instructions)
<1>1. tasks[t] \in Task
  BY DEF TasksAreFine
<1>2. tasks[t].todo \in Seq(Instructions)
  BY <1>1 DEF Task
<1> QED
  BY <1>1, <1>2 DEF Instruction, Rest

\* A task that neither calls nor hears: what it does is over at once.
LEMMA QuietTask ==
    ASSUME Types, NEW t \in Tasks, ~Waiting(t), NEW r \in Task, r.call = NoCall,
           tasks' = [tasks EXCEPT ![t] = r],
           UNCHANGED <<timers, cp, queue, nextTx, ghosts>>, aborted' \in BOOLEAN,
           gateway' \in {gateway, [gateway EXCEPT !.here = TRUE]},
           connection' \in {"disconnected", "connecting", "connected"},
           connection = "connected" => connection' = "connected",
           connection' = "connected" => connection = "connected" \/ gateway'.here
    PROVE  Stepped
<1>1. TasksAreFine' /\ Line' = Line
  <2>1. connection' # "connected" => queue = <<>>
    BY DEF Types, TasksAreFine
  <2> QED
    BY <2>1, LineStays DEF Types
<1>2. LinkIsFine' /\ cp' \in Connector
  BY DEF Types, LinkIsFine, ghosts
<1>3. Quiet
  BY <1>1 DEF Quiet
<1> QED
  BY <1>1, <1>2, <1>3 DEF Stepped, Step

LEMMA ExpandsStep == ASSUME Types, NEW t \in Tasks, Expands(t) PROVE Stepped
<1>1. TasksAreFine /\ tasks[t].todo # <<>> /\ ~Waiting(t)
  BY DEF Types, Expands, Runs
<1>2. Rest(t) \in Seq(Instructions) /\ Body(Instruction(t)) \in Seq(Instructions)
  BY <1>1, Runner, BodiesAreInstructions
<1>3. Body(Instruction(t)) \o Rest(t) \in Seq(Instructions)
  BY <1>2
<1>4. PICK r \in Task : r.call = NoCall /\ tasks' = [tasks EXCEPT ![t] = r]
  <2>1. CASE Checks(Instruction(t))
    BY <1>1, <1>3, <2>1, GoesOn DEF Expands
  <2>2. CASE ~Checks(Instruction(t))
    BY <2>2, IdleIsTask DEF Expands, Throws
  <2> QED
    BY <2>1, <2>2
<1>5. UNCHANGED <<connection, timers, cp, queue, aborted, gateway, nextTx, ghosts>>
  BY DEF Expands, link
<1> QED
  BY <1>1, <1>4, <1>5, QuietTask DEF Types, LinkIsFine

\* A call that a task makes.
LEMMA SendsStep ==
    ASSUME Types, NEW t \in Tasks, Runs(t), Head(tasks[t].todo) # "sleep", connection = "connected",
           NEW method \in Methods, NEW now \in Connector, Makes(t, method, now),
           UNCHANGED <<connection, timers, aborted, gateway, nextTx, ghosts>>, cp' \in Connector,
           now.status = cp'.status, now.wh = cp'.wh, now.tx = cp.tx, cp.wh <= cp'.wh,
           method = "StatusNotification" \/ cp'.status = cp.status,
           cp'.tx = IF method = "StopTransaction" THEN NoTx ELSE cp.tx
    PROVE  Stepped
<1> DEFINE c == [method |-> method, status |-> now.status, error |-> now.error, tx |-> now.tx,
                 wh |-> now.wh, power |-> now.power, target |-> now.target, hardware |-> now.hardware]
<1>1. c \in Call
  BY DEF Connector, Call
<1>2. tasks' = [tasks EXCEPT ![t].call = c] /\ queue' = Append(queue, t)
  BY DEF Makes
<1>3. /\ c.method = method /\ c.status = now.status /\ c.tx = now.tx /\ c.wh = now.wh
  OBVIOUS
<1> HIDE DEF c
<1>4. TasksAreFine' /\ Line' = Append(Line, c)
  BY <1>1, <1>2, LineGrows DEF Types
<1>5. LinkIsFine'
  BY DEF Types, LinkIsFine, ghosts
<1>6. Sends(c)
  BY <1>3, <1>4 DEF Sends
<1> QED
  BY <1>1, <1>4, <1>5, <1>6 DEF Stepped, Step

\* The same without a connection.
LEMMA AloneStep ==
    ASSUME Types, NEW t \in Tasks, Runs(t), connection # "connected",
           NEW r \in Task, r.call = NoCall, tasks' = [tasks EXCEPT ![t] = r],
           UNCHANGED <<connection, timers, aborted, queue, gateway, nextTx, missed, doubled, zeroed>>,
           cp' \in Connector, cp.wh <= cp'.wh, apart' \in BOOLEAN, apart => apart', apart' \/ cp'.tx = cp.tx
    PROVE  Stepped
<1>1. TasksAreFine' /\ Line' = Line
  BY LineStays DEF Types, Runs, TasksAreFine
<1>2. LinkIsFine'
  BY DEF Types, LinkIsFine
<1>3. Alone
  BY <1>1 DEF Alone
<1> QED
  BY <1>1, <1>2, <1>3 DEF Stepped, Step

LEMMA SetsStatusStep == ASSUME Types, NEW t \in Tasks, SetsStatus(t) PROVE Stepped
<1>1. /\ TasksAreFine /\ tasks[t].todo # <<>> /\ Runs(t) /\ Instruction(t) \in Statuses
      /\ UNCHANGED <<connection, timers, aborted, gateway, nextTx, ghosts>>
  BY DEF Types, SetsStatus, Runs, link
<1>2. cp \in Connector
  BY DEF Types
<1>3. /\ cp' \in Connector /\ cp'.tx = cp.tx /\ cp'.wh = cp.wh
  BY <1>1, <1>2 DEF SetsStatus, Connector
<1>4. cp.wh <= cp'.wh
  BY <1>2, <1>3, Bounds DEF Connector
<1>5. CASE connection = "connected"
  <2>1. Makes(t, "StatusNotification", cp')
    BY <1>5 DEF SetsStatus
  <2>2. Head(tasks[t].todo) # "sleep"
    BY <1>1 DEF Instruction, Statuses
  <2> QED
    BY <1>1, <1>3, <1>4, <1>5, <2>1, <2>2, SendsStep DEF Methods
<1>6. CASE connection # "connected"
  <2>1. PICK r \in Task : r.call = NoCall /\ tasks' = [tasks EXCEPT ![t] = r]
    BY <1>1, <1>6, Runner, GoesOn DEF SetsStatus
  <2>2. queue' = queue
    BY <1>6 DEF SetsStatus
  <2> QED
    BY <1>1, <1>3, <1>4, <1>6, <2>1, <2>2, AloneStep DEF ghosts, Types, LinkIsFine
<1> QED
  BY <1>5, <1>6

LEMMA TicksStep == ASSUME Types, NEW t \in Tasks, Ticks(t) PROVE Stepped
<1>1. /\ TasksAreFine /\ tasks[t].todo # <<>> /\ Runs(t) /\ Instruction(t) = "meter"
      /\ UNCHANGED <<connection, timers, aborted, gateway, nextTx, ghosts>>
  BY DEF Types, Ticks, Runs, link
<1>2. cp \in Connector
  BY DEF Types
<1>3. cp.wh \in Nat /\ cp.wh <= MaxWh /\ cp.target \in Powers
  BY <1>2, Bounds DEF Connector
<1>4. /\ cp' \in Connector /\ cp'.tx = cp.tx /\ cp'.status = cp.status /\ cp.wh <= cp'.wh
  <2>1. CASE cp.status = "Charging"
    <3> DEFINE w == IF cp.wh + StepWh <= MaxWh THEN cp.wh + StepWh ELSE cp.wh
    <3>1. w \in 0..MaxWh /\ cp.wh <= w
      BY <1>3, Bounds
    <3>2. cp' = [cp EXCEPT !.power = cp.target, !.wh = w]
      BY <1>2, <2>1 DEF Ticks, Connector
    <3> HIDE DEF w
    <3> QED
      BY <1>2, <1>3, <3>1, <3>2 DEF Connector
  <2>2. CASE cp.status # "Charging"
    <3>1. cp' = [cp EXCEPT !.power = 0]
      BY <2>2 DEF Ticks
    <3> QED
      BY <1>2, <1>3, <3>1 DEF Connector
  <2> QED
    BY <2>1, <2>2
<1>5. CASE connection = "connected"
  <2>1. Makes(t, "MeterValues", cp')
    BY <1>5 DEF Ticks
  <2>2. Head(tasks[t].todo) # "sleep"
    BY <1>1 DEF Instruction
  <2> QED
    BY <1>1, <1>4, <1>5, <2>1, <2>2, SendsStep DEF Methods
<1>6. CASE connection # "connected"
  <2>1. PICK r \in Task : r.call = NoCall /\ tasks' = [tasks EXCEPT ![t] = r]
    BY <1>1, <1>6, Runner, GoesOn DEF Ticks
  <2>2. queue' = queue
    BY <1>6 DEF Ticks
  <2> QED
    BY <1>1, <1>4, <1>6, <2>1, <2>2, AloneStep DEF ghosts, Types, LinkIsFine
<1> QED
  BY <1>5, <1>6

LEMMA MakesCallStep == ASSUME Types, NEW t \in Tasks, MakesCall(t) PROVE Stepped
<1>1. /\ TasksAreFine /\ tasks[t].todo # <<>> /\ Runs(t) /\ Instruction(t) \in Calls
      /\ UNCHANGED <<connection, timers, aborted, gateway, nextTx, missed, doubled, zeroed>>
  BY DEF Types, MakesCall, Runs, link
<1>2. cp \in Connector
  BY DEF Types
<1>3. cp.wh \in Nat
  BY <1>2, Bounds DEF Connector
<1>4. /\ cp' \in Connector /\ cp'.wh = cp.wh /\ cp'.status = cp.status
      /\ cp'.tx = IF Instruction(t) = "StopTransaction" THEN NoTx ELSE cp.tx
  BY <1>2 DEF MakesCall, Connector
<1>5. CASE connection = "connected"
  <2>1. Makes(t, Called(Instruction(t)), cp) /\ apart' = apart
    BY <1>5 DEF MakesCall
  <2>2. Head(tasks[t].todo) # "sleep"
    BY <1>1 DEF Instruction, Calls
  <2>3. Called(Instruction(t)) \in Methods /\ (Called(Instruction(t)) = "StopTransaction" <=> Instruction(t) = "StopTransaction")
    BY <1>1 DEF Called, Calls, Methods
  <2>4. UNCHANGED ghosts /\ cp.wh <= cp'.wh
    BY <1>1, <1>3, <1>4, <2>1 DEF ghosts
  <2> QED
    BY <1>1, <1>2, <1>4, <1>5, <2>1, <2>2, <2>3, <2>4, SendsStep
<1>6. CASE connection # "connected"
  <2>1. tasks' = [tasks EXCEPT ![t] = Idle] /\ queue' = queue /\ apart' = (apart \/ Instruction(t) = "StopTransaction")
    BY <1>6 DEF MakesCall, Throws
  <2>2. apart' \in BOOLEAN /\ (apart => apart') /\ (apart' \/ cp'.tx = cp.tx)
    BY <1>4, <2>1 DEF Types, LinkIsFine
  <2>3. cp.wh <= cp'.wh
    BY <1>3, <1>4
  <2> QED
    BY <1>1, <1>4, <1>6, <2>1, <2>2, <2>3, IdleIsTask, AloneStep
<1> QED
  BY <1>5, <1>6

\* The head of the queue waits with the head of the line.
LEMMA FirstOfLine ==
    ASSUME TasksAreFine, queue # <<>>
    PROVE  /\ Head(queue) \in Tasks /\ tasks[Head(queue)].todo # <<>> /\ Line # <<>>
           /\ Head(Line) = tasks[Head(queue)].call /\ Head(Line) \in Call /\ Head(Line) = Line[1]
           /\ 1 \in DOMAIN Line /\ Head(queue) = queue[1]
<1>1. Len(queue) \in Nat /\ Len(queue) # 0 /\ Head(queue) = queue[1] /\ 1 \in DOMAIN queue
  BY DEF TasksAreFine
<1>2. Len(Line) # 0 /\ Line \in Seq(Call) /\ Line[1] = tasks[queue[1]].call /\ queue[1] \in Tasks
  BY <1>1, LineOfCalls
<1>3. tasks[queue[1]].todo # <<>>
  BY <1>1, <1>2 DEF TasksAreFine
<1> QED
  BY <1>1, <1>2, <1>3, LineOfCalls

LEMMA AnsweredStep == ASSUME Types, Answered PROVE Stepped
<1> DEFINE t == Head(queue)
           call == tasks[t].call
<1>1. /\ TasksAreFine /\ queue # <<>> /\ cp \in Connector /\ ViewIsFine /\ LinkIsFine
  BY DEF Types, Answered
<1>2. /\ t \in Tasks /\ tasks[t].todo # <<>> /\ Line # <<>> /\ Head(Line) = call /\ call \in Call
  BY <1>1, FirstOfLine
<1>3. /\ Begins(call) => nextTx \in TxIds
      /\ gateway' = Hears(gateway, call, TRUE)
      /\ nextTx' = IF Begins(call) THEN nextTx + 1 ELSE nextTx
      /\ cp' = IF Begins(call) THEN [cp EXCEPT !.tx = nextTx] ELSE cp
      /\ doubled' = (doubled \/ (Begins(call) /\ cp.tx # NoTx))
      /\ apart' = (apart \/ (Begins(call) /\ \E i \in DOMAIN queue : Ends(tasks[queue[i]].call)))
      /\ missed' = (missed /\ call.method # "StatusNotification")
      /\ timers' = (timers \/ (tasks[t].by = "open" /\ Rest(t) = <<>>))
      /\ Goes(t, Rest(t)) /\ queue' = Tail(queue)
      /\ UNCHANGED <<connection, aborted, counters, zeroed>>
  BY DEF Answered
<1>4. PICK r \in Task : r.call = NoCall /\ tasks' = [tasks EXCEPT ![t] = r]
  BY <1>1, <1>2, <1>3, Runner, GoesOn
<1>5. TasksAreFine' /\ Line' = Tail(Line)
  BY <1>1, <1>3, <1>4, LineMoves
<1>6. (\E i \in DOMAIN queue : Ends(tasks[queue[i]].call)) <=> (\E i \in DOMAIN Line : Ends(Line[i]))
  BY <1>1, LineOfCalls
<1>7. HeardAndAnswered
  <2> HIDE DEF call
  <2> QED
    BY <1>2, <1>3, <1>5, <1>6 DEF HeardAndAnswered
<1>8. cp' \in Connector
  BY <1>1, <1>3 DEF Connector
<1>9. LinkIsFine'
  <2>1. connection = "connected"
    BY <1>1 DEF TasksAreFine
  <2> HIDE DEF t, call
  <2> QED
    BY <1>1, <1>3, <2>1 DEF LinkIsFine
<1> QED
  BY <1>5, <1>7, <1>8, <1>9 DEF Stepped, Step

LEMMA RefusedStep == ASSUME Types, Refused PROVE Stepped
<1> DEFINE t == Head(queue)
           call == tasks[t].call
<1>1. /\ TasksAreFine /\ queue # <<>> /\ cp \in Connector /\ ViewIsFine /\ LinkIsFine
  BY DEF Types, Refused
<1>2. /\ t \in Tasks /\ tasks[t].todo # <<>> /\ Line # <<>> /\ Head(Line) = call /\ call \in Call
  BY <1>1, FirstOfLine
<1>3. /\ \E answered \in BOOLEAN :
            /\ answered /\ Begins(call) => nextTx \in TxIds
            /\ gateway' = Hears(gateway, call, answered)
            /\ nextTx' = IF answered /\ Begins(call) THEN nextTx + 1 ELSE nextTx
            /\ apart' = (apart \/ (answered /\ Begins(call)))
      /\ missed' = (missed \/ Tells(call))
      /\ IF call.method = "MeterValues" THEN Goes(t, Rest(t)) ELSE Throws(t)
      /\ queue' = Tail(queue)
      /\ UNCHANGED <<connection, timers, cp, aborted, doubled, zeroed>>
  BY DEF Refused, link
<1>4. PICK r \in Task : r.call = NoCall /\ tasks' = [tasks EXCEPT ![t] = r]
  <2>1. CASE call.method = "MeterValues"
    BY <1>1, <1>2, <1>3, <2>1, Runner, GoesOn
  <2>2. CASE call.method # "MeterValues"
    BY <1>3, <2>2, IdleIsTask DEF Throws
  <2> QED
    BY <2>1, <2>2
<1>5. TasksAreFine' /\ Line' = Tail(Line)
  BY <1>1, <1>3, <1>4, LineMoves
<1> HIDE DEF t, call
<1>6. HeardAndRefused
  BY <1>2, <1>3, <1>5 DEF HeardAndRefused
<1>7. cp' \in Connector
  BY <1>1, <1>3
<1>8. LinkIsFine'
  BY <1>1, <1>3 DEF LinkIsFine
<1> QED
  BY <1>5, <1>6, <1>7, <1>8 DEF Stepped, Step

\* What a broken connection leaves.
LEMMA BreaksStep ==
    ASSUME Types, NEW other \in {"connecting", "disconnected"}, NEW next \in [Tasks -> Task],
           \A t \in Tasks : next[t].call = NoCall \/ Waiting(t), Breaks(other, next),
           UNCHANGED <<cp, doubled, zeroed>>, aborted' \in BOOLEAN
    PROVE  Stepped
<1>1. TasksAreFine /\ LinkIsFine /\ cp \in Connector
  BY DEF Types
<1>2. ASSUME NEW t \in Tasks PROVE tasks'[t] \in Task /\ tasks'[t].call = NoCall
  <2>1. CASE Waiting(t) /\ tasks[t].call.method = "MeterValues" /\ Rest(t) # <<>>
    <3>1. tasks'[t] = [tasks[t] EXCEPT !.todo = Rest(t), !.call = NoCall]
      BY <2>1 DEF Breaks
    <3>2. tasks[t] \in Task /\ Rest(t) \in Seq(Instructions)
      BY <1>1, <2>1, Runner DEF TasksAreFine
    <3> QED
      BY <3>1, <3>2 DEF Task
  <2>2. CASE Waiting(t) /\ ~(tasks[t].call.method = "MeterValues" /\ Rest(t) # <<>>)
    <3>1. tasks'[t] = Idle
      BY <2>2 DEF Breaks
    <3> QED
      BY <3>1, IdleIsTask
  <2>3. CASE ~Waiting(t)
    <3>1. tasks'[t] = next[t]
      BY <2>3 DEF Breaks
    <3> QED
      BY <2>3, <3>1
  <2> QED
    BY <2>1, <2>2, <2>3
<1>3. tasks' \in [Tasks -> Task]
  <2>1. tasks' = [t \in Tasks |-> tasks'[t]]
    BY DEF Breaks
  <2> QED
    BY <1>2, <2>1
<1>4. TasksAreFine' /\ Line' = <<>>
  BY <1>2, <1>3, LineBreaks DEF Breaks
<1>5. /\ connection' = other /\ timers' = FALSE /\ missed' = TRUE
  BY DEF Breaks
<1>6. CASE queue = <<>>
  <2>1. UNCHANGED <<gateway, apart, nextTx>> /\ Line = <<>>
    <3>1. Len(Line) = 0 /\ Line \in Seq(Call)
      BY <1>1, <1>6, LineOfCalls
    <3>2. Line = <<>>
      BY <3>1
    <3>3. UNCHANGED <<gateway, apart, nextTx>>
      BY <1>6 DEF Breaks
    <3> QED
      BY <3>2, <3>3
  <2>2. Cut
    BY <1>4, <1>5, <2>1 DEF Cut
  <2> QED
    BY <1>1, <1>4, <1>5, <2>1, <2>2 DEF Stepped, Step, LinkIsFine
<1>7. CASE queue # <<>>
  <2> DEFINE call == tasks[Head(queue)].call
  <2>1. /\ Line # <<>> /\ Head(Line) = call /\ DOMAIN Line = DOMAIN queue
        /\ \A i \in DOMAIN queue : Line[i] = tasks[queue[i]].call
    BY <1>1, <1>7, FirstOfLine, LineOfCalls
  <2>2. PICK heard \in BOOLEAN :
           /\ heard /\ Begins(call) => nextTx \in TxIds
           /\ gateway' = IF heard THEN Hears(gateway, call, TRUE) ELSE gateway
           /\ nextTx' = IF heard /\ Begins(call) THEN nextTx + 1 ELSE nextTx
           /\ apart' = (apart \/ (heard /\ Begins(call))
                       \/ \E i \in DOMAIN queue : /\ tasks[queue[i]].call.method = "StopTransaction"
                                                  /\ ~(heard /\ i = 1))
    BY <1>7 DEF Breaks
  <2> HIDE DEF call
  <2>3. (\E i \in DOMAIN queue : tasks[queue[i]].call.method = "StopTransaction" /\ ~(heard /\ i = 1))
          <=> (\E i \in DOMAIN Line : Line[i].method = "StopTransaction" /\ ~(heard /\ i = 1))
    BY <2>1
  <2>4. apart' = (apart \/ (heard /\ Begins(call))
                  \/ \E i \in DOMAIN Line : Line[i].method = "StopTransaction" /\ ~(heard /\ i = 1))
    BY <2>2, <2>3
  <2>5. Cut
    BY <1>4, <1>5, <2>1, <2>2, <2>4 DEF Cut
  <2>6. LinkIsFine'
    BY <1>1, <1>5, <2>4 DEF LinkIsFine
  <2> QED
    BY <1>1, <1>4, <2>5, <2>6 DEF Stepped, Step
<1> QED
  BY <1>6, <1>7

LEMMA LostStep == ASSUME Types, Lost PROVE Stepped
<1>1. tasks \in [Tasks -> Task] /\ \A t \in Tasks : tasks[t].call = NoCall \/ Waiting(t)
  BY DEF Types, TasksAreFine, Waiting
<1>2. Breaks("connecting", tasks) /\ UNCHANGED <<cp, aborted, doubled, zeroed>> /\ aborted' \in BOOLEAN
  BY DEF Types, LinkIsFine, Lost
<1> QED
  BY <1>1, <1>2, BreaksStep

LEMMA DisconnectStep == ASSUME Types, Disconnect PROVE Stepped
<1> DEFINE next == [t \in Tasks |-> IF tasks[t].by = "scenario" /\ Sleeps(t) THEN Idle ELSE tasks[t]]
<1>1. next \in [Tasks -> Task] /\ \A t \in Tasks : next[t].call = NoCall \/ Waiting(t)
  BY IdleIsTask DEF Types, TasksAreFine, Waiting
<1>2. Breaks("disconnected", next) /\ UNCHANGED <<cp, doubled, zeroed>> /\ aborted' \in BOOLEAN
  BY DEF Types, LinkIsFine, Disconnect
<1> HIDE DEF next
<1> QED
  BY <1>1, <1>2, BreaksStep

LEMMA DisconnectsStep == ASSUME Types, NEW t \in Tasks, Disconnects(t) PROVE Stepped
<1> DEFINE next == [tasks EXCEPT ![t].todo = Rest(t)]
<1>1. TasksAreFine /\ tasks[t].todo # <<>> /\ ~Waiting(t) /\ tasks \in [Tasks -> Task]
  BY DEF Types, TasksAreFine, Disconnects, Runs
<1>2. tasks[t] \in Task /\ Rest(t) \in Seq(Instructions)
  BY <1>1, Runner
<1>3. [tasks[t] EXCEPT !.todo = Rest(t)] \in Task /\ [tasks[t] EXCEPT !.todo = Rest(t)].call = NoCall
  BY <1>1, <1>2 DEF Task, Waiting
<1>4. next = [tasks EXCEPT ![t] = [tasks[t] EXCEPT !.todo = Rest(t)]]
  BY <1>1
<1>5. next \in [Tasks -> Task] /\ \A x \in Tasks : next[x].call = NoCall \/ Waiting(x)
  BY <1>1, <1>3, <1>4 DEF Waiting
<1>6. Breaks("disconnected", next) /\ UNCHANGED <<cp, doubled, zeroed>> /\ aborted' \in BOOLEAN
  BY DEF Types, LinkIsFine, Disconnects
<1> HIDE DEF next
<1> QED
  BY <1>5, <1>6, BreaksStep

LEMMA ReconnectsStep == ASSUME Types, NEW t \in Tasks, Reconnects(t) PROVE Stepped
<1>1. /\ TasksAreFine /\ tasks[t].todo # <<>> /\ ~Waiting(t)
      /\ UNCHANGED <<timers, cp, queue, aborted, gateway, nextTx, ghosts>>
  BY DEF Types, Reconnects, Runs
<1>2. CASE Checks("connect")
  <2>1. connection = "disconnected" /\ connection' = "connecting"
    BY <1>2 DEF Reconnects, Checks
  <2>2. PICK r \in Task : r.call = NoCall /\ tasks' = [tasks EXCEPT ![t] = r]
    BY <1>1, <1>2, Runner, GoesOn DEF Reconnects
  <2> QED
    BY <1>1, <2>1, <2>2, QuietTask DEF Types, LinkIsFine
<1>3. CASE ~Checks("connect")
  <2>1. connection' = connection /\ tasks' = [tasks EXCEPT ![t] = Idle]
    BY <1>3 DEF Reconnects, Throws
  <2> QED
    BY <1>1, <2>1, IdleIsTask, QuietTask DEF Types, LinkIsFine
<1> QED
  BY <1>2, <1>3

\* A task that begins was idle.
LEMMA BeginsTask ==
    ASSUME TasksAreFine, NEW t \in Tasks, NEW by \in {None, "person", "scenario", "timer", "open"},
           NEW todo \in Seq(Instructions), Begin(t, by, todo)
    PROVE  ~Waiting(t) /\ \E r \in Task : r.call = NoCall /\ tasks' = [tasks EXCEPT ![t] = r]
<1> DEFINE r == [by |-> by, todo |-> todo, call |-> NoCall]
<1>1. tasks[t] = Idle /\ tasks' = [tasks EXCEPT ![t] = r]
  BY DEF Begin, Free
<1>2. r \in Task /\ r.call = NoCall
  BY DEF Task
<1>3. ~Waiting(t)
  BY <1>1, IdleIsTask DEF Waiting
<1> QED
  BY <1>1, <1>2, <1>3

LEMMA PersonStep == ASSUME Types, NEW t \in Tasks, NEW i \in Persons, Person(t, i) PROVE Stepped
<1>1. i \in Instructions
  BY SimulatorAssumption DEF SimulatorAssumption, Instructions, Macros
<1>2. <<i>> \in Seq(Instructions)
  BY <1>1
<1>3. Begin(t, "person", <<i>>) /\ UNCHANGED <<connection, timers, cp, queue, aborted, gateway, nextTx, ghosts>>
  BY DEF Person, link
<1> QED
  BY <1>2, <1>3, BeginsTask, QuietTask DEF Types, LinkIsFine

LEMMA TriggerStep == ASSUME Types, NEW t \in Tasks, Trigger(t) PROVE Stepped
<1>1. PICK i \in {"Report", "meter"} : Begin(t, "person", <<i>>)
  BY DEF Trigger
<1>2. <<i>> \in Seq(Instructions)
  BY DEF Instructions, Calls
<1>3. UNCHANGED <<connection, timers, cp, queue, aborted, gateway, nextTx, ghosts>>
  BY DEF Trigger, link
<1> QED
  BY <1>1, <1>2, <1>3, BeginsTask, QuietTask DEF Types, LinkIsFine

LEMMA TimerTicksStep == ASSUME Types, NEW t \in Tasks, TimerTicks(t) PROVE Stepped
<1>1. <<"meter">> \in Seq(Instructions)
  BY DEF Instructions
<1>2. /\ Begin(t, "timer", <<"meter">>)
      /\ UNCHANGED <<connection, timers, cp, queue, aborted, gateway, nextTx, ghosts>>
  BY DEF TimerTicks, link
<1> QED
  BY <1>1, <1>2, BeginsTask, QuietTask DEF Types, LinkIsFine

LEMMA StartScenarioStep == ASSUME Types, NEW t \in Tasks, NEW name \in Played, StartScenario(t, name) PROVE Stepped
<1>1. /\ Begin(t, "scenario", Scenario[name]) /\ aborted' = FALSE
      /\ UNCHANGED <<connection, timers, cp, queue, gateway, nextTx, ghosts>>
  BY DEF StartScenario, link
<1> QED
  BY <1>1, ScenariosAreInstructions, BeginsTask, QuietTask DEF Types, LinkIsFine

LEMMA OpensStep == ASSUME Types, NEW t \in Tasks, Opens(t) PROVE Stepped
<1>1. <<"BootNotification", "Aggregate", "Report">> \in Seq(Instructions)
  BY DEF Instructions, Calls
<1>2. /\ Begin(t, "open", <<"BootNotification", "Aggregate", "Report">>)
      /\ connection' = "connected" /\ gateway' = [gateway EXCEPT !.here = TRUE]
      /\ UNCHANGED <<timers, cp, queue, aborted, nextTx, ghosts>>
  BY DEF Opens
<1>3. gateway'.here
  BY <1>2, ViewFields DEF Types, ViewIsFine
<1>4. PICK r \in Task : r.call = NoCall /\ tasks' = [tasks EXCEPT ![t] = r]
  BY <1>1, <1>2, BeginsTask DEF Types
<1>5. ~Waiting(t)
  BY <1>1, <1>2, BeginsTask DEF Types
<1> QED
  BY <1>2, <1>3, <1>4, <1>5, QuietTask DEF Types, LinkIsFine

\* A task that sleeps does not wait for a call.
LEMMA SleeperDoesNotWait ==
    ASSUME Types, NEW t \in Tasks, Sleeps(t)
    PROVE  ~Waiting(t) /\ tasks[t].todo # <<>>
BY DEF Types, TasksAreFine, Sleeps

LEMMA WakesUpStep == ASSUME Types, NEW t \in Tasks, WakesUp(t) PROVE Stepped
<1>1. /\ ~Waiting(t) /\ tasks[t].todo # <<>> /\ TasksAreFine
      /\ UNCHANGED <<connection, timers, cp, queue, aborted, gateway, nextTx, ghosts>>
  BY SleeperDoesNotWait DEF WakesUp, link, Types
<1>2. PICK r \in Task : r.call = NoCall /\ tasks' = [tasks EXCEPT ![t] = r]
  BY <1>1, Runner, GoesOn DEF WakesUp
<1> QED
  BY <1>1, <1>2, QuietTask DEF Types, LinkIsFine

\* Nothing happens to the tasks.
LEMMA QuietStep ==
    ASSUME Types, UNCHANGED <<timers, tasks, queue, nextTx, ghosts>>, aborted' \in BOOLEAN,
           gateway' = gateway, cp' \in Connector,
           cp'.status = cp.status, cp'.tx = cp.tx, cp'.wh = cp.wh,
           connection' \in {"disconnected", "connecting", "connected"},
           connection' = "connected" <=> connection = "connected"
    PROVE  Stepped
<1>1. TasksAreFine' /\ Line' = Line
  BY DEF Types, TasksAreFine, Line, Waiting
<1>2. LinkIsFine'
  BY DEF Types, LinkIsFine, ghosts
<1>3. Quiet
  BY <1>1 DEF Quiet
<1> QED
  BY <1>1, <1>2, <1>3 DEF Stepped, Step

LEMMA StopScenarioStep == ASSUME Types, NEW t \in Tasks, StopScenario(t) PROVE Stepped
<1>1. UNCHANGED <<connection, timers, cp, queue, gateway, nextTx, ghosts>>
  BY DEF StopScenario, link
<1>2. CASE Sleeps(t)
  <2>1. aborted' = aborted /\ tasks' = [tasks EXCEPT ![t] = Idle]
    BY <1>2 DEF StopScenario, Throws
  <2> QED
    BY <1>1, <1>2, <2>1, IdleIsTask, SleeperDoesNotWait, QuietTask DEF Types, LinkIsFine
<1>3. CASE ~Sleeps(t)
  <2>1. aborted' = TRUE /\ tasks' = tasks
    BY <1>3 DEF StopScenario
  <2> QED
    BY <1>1, <2>1, QuietStep DEF Types, LinkIsFine
<1> QED
  BY <1>2, <1>3

LEMMA SetPowerStep == ASSUME Types, NEW p \in Powers, SetPower(p) PROVE Stepped
<1>1. /\ cp' = [cp EXCEPT !.target = p]
      /\ UNCHANGED <<connection, timers, tasks, queue, aborted, gateway, nextTx, ghosts>>
  BY DEF SetPower, link
<1>2. cp' \in Connector /\ cp'.status = cp.status /\ cp'.tx = cp.tx /\ cp'.wh = cp.wh
  BY <1>1 DEF Types, Connector
<1> QED
  BY <1>1, <1>2, QuietStep DEF Types, LinkIsFine

LEMMA ConnectStep == ASSUME Types, Connect \/ Fails PROVE Stepped
<1>1. UNCHANGED <<timers, cp, tasks, queue, aborted, gateway, nextTx, ghosts>>
  BY DEF Connect, Fails
<1>2. connection # "connected" /\ connection' \in {"connecting", "disconnected"}
  BY DEF Connect, Fails
<1> QED
  BY <1>1, <1>2, QuietStep DEF Types, LinkIsFine

LEMMA FreshIsConnector ==
    ASSUME NEW h \in Hardware
    PROVE  FreshConnector(h) \in Connector /\ FreshConnector(h).tx = NoTx /\ FreshConnector(h).wh = InitialWh
<1>1. InitialWh \in 0..MaxWh /\ MaxPower \in Powers
  BY Bounds
<1> QED
  BY <1>1 DEF FreshConnector, Connector, Statuses

LEMMA ConfigureStep == ASSUME Types, NEW h \in Hardware, Configure(h) PROVE Stepped
<1>1. /\ connection # "connected" /\ cp' = FreshConnector(h)
      /\ apart' = (apart \/ cp.tx # NoTx) /\ zeroed' = (zeroed \/ cp.wh # InitialWh)
      /\ UNCHANGED <<connection, timers, tasks, queue, aborted, gateway, nextTx, missed, doubled>>
  BY DEF Configure, link
<1>2. TasksAreFine' /\ Line' = Line
  BY <1>1 DEF Types, TasksAreFine, Line, Waiting
<1>3. LinkIsFine' /\ (apart => apart') /\ (zeroed => zeroed') /\ (apart' \/ cp.tx = NoTx) /\ (zeroed' \/ cp.wh = InitialWh)
  BY <1>1 DEF Types, LinkIsFine
<1>4. InitialWh <= InitialWh
  BY Bounds
<1>5. Alone
  BY <1>1, <1>2, <1>3, <1>4, FreshIsConnector DEF Alone
<1> QED
  BY <1>1, <1>2, <1>3, <1>5, FreshIsConnector DEF Stepped, Step

LEMMA StutterStep == ASSUME Types, UNCHANGED vars PROVE Stepped
<1>1. UNCHANGED <<connection, timers, cp, tasks, queue, aborted, gateway, nextTx, ghosts>>
  BY DEF vars, link
<1> QED
  BY <1>1, QuietStep DEF Types, LinkIsFine

\* Every action of a person, of the server, of a timer or of the connection.
LEMMA EveryStep == Types /\ [Next]_vars => Stepped
<1> SUFFICES ASSUME Types, [Next]_vars PROVE Stepped
  OBVIOUS
<1>1. CASE \E t \in Tasks : Run(t)
  <2>1. PICK t \in Tasks : Run(t)
    BY <1>1
  <2> QED
    BY <2>1, ExpandsStep, SetsStatusStep, TicksStep, MakesCallStep, DisconnectsStep, ReconnectsStep DEF Run
<1>2. CASE Answered \/ Refused
  BY <1>2, AnsweredStep, RefusedStep
<1>3. CASE \E t \in Tasks, i \in Persons : Person(t, i)
  BY <1>3, PersonStep
<1>4. CASE \E t \in Tasks : Trigger(t) \/ TimerTicks(t) \/ WakesUp(t) \/ StopScenario(t) \/ Opens(t)
  BY <1>4, TriggerStep, TimerTicksStep, WakesUpStep, StopScenarioStep, OpensStep
<1>5. CASE \E p \in Powers : SetPower(p)
  BY <1>5, SetPowerStep
<1>6. CASE \E t \in Tasks, name \in Played : StartScenario(t, name)
  BY <1>6, StartScenarioStep
<1>7. CASE Connect \/ Lost \/ Fails \/ Disconnect \/ \E h \in Hardware : Configure(h)
  BY <1>7, ConnectStep, LostStep, DisconnectStep, ConfigureStep
<1>8. CASE UNCHANGED vars
  BY <1>8, StutterStep
<1> QED
  BY <1>1, <1>2, <1>3, <1>4, <1>5, <1>6, <1>7, <1>8 DEF Next

-----------------------------------------------------------------------------
(* The gateway's view of the sessions.                                     *)

InProgress(g) == {tx \in TxIds : g.base.transactions[tx] # NoRecord}
Closed(g) == {g.base.history[i].tx : i \in DOMAIN g.base.history}
Energy(g) == g.seen[k].values["energy"]
SameSessions(g, h) ==
    InProgress(h) = InProgress(g) /\ Closed(h) = Closed(g) /\ h.base.shown[k] = g.base.shown[k] /\ h.meters = g.meters

Listens(g, h, c, answered) ==
    /\ answered /\ Begins(c) => nextTx \in TxIds
    /\ h = Hears(g, c, answered)
    /\ nextTx' = IF answered /\ Begins(c) THEN nextTx + 1 ELSE nextTx

\* What hearing a call does to it.
HearsInStatus(g, h, c) ==
    c.method = "StatusNotification" /\ SameSessions(g, h) /\ h.seen[k].status = c.status /\ h.seen[k].values = g.seen[k].values

HearsInMeter(g, h, c) ==
    /\ c.method = "MeterValues" /\ SameSessions(g, h) /\ h.seen[k].status = g.seen[k].status
    /\ h.seen[k].values = Patch(g.seen[k].values, Samples(c)) /\ Energy(h) = c.wh

HearsInStart(g, h, c) ==
    /\ Begins(c) /\ nextTx \in TxIds /\ nextTx' = nextTx + 1
    /\ InProgress(h) = InProgress(g) \cup {nextTx} /\ Closed(h) = Closed(g) /\ h.base.shown[k] = nextTx
    /\ h.meters = [g.meters EXCEPT ![nextTx] = [start |-> c.wh, stop |-> NoValue]]
    /\ h.seen[k].status = g.seen[k].status
    /\ h.seen[k].values = [g.seen[k].values EXCEPT !["energy"] = c.wh] /\ Energy(h) = c.wh

HearsInStop(g, h, c) ==
    /\ c.method = "StopTransaction" /\ c.tx \in InProgress(g) /\ nextTx' = nextTx
    /\ InProgress(h) = InProgress(g) \ {c.tx} /\ Closed(h) \subseteq Closed(g) \cup {c.tx} /\ h.base.shown[k] = NoTx
    /\ h.meters = [g.meters EXCEPT ![c.tx] = [start |-> g.meters[c.tx].start, stop |-> c.wh]]
    /\ h.seen = g.seen

\* Or it does nothing to the sessions.
Heard(g, h, c, answered) ==
    \/ nextTx' = nextTx /\ HearsInStatus(g, h, c)
    \/ nextTx' = nextTx /\ HearsInMeter(g, h, c)
    \/ answered /\ HearsInStart(g, h, c)
    \/ HearsInStop(g, h, c)
    \/ /\ SameButHardware(g, h) /\ nextTx' = nextTx /\ ~(answered /\ Begins(c))
       /\ c.method \notin {"StatusNotification", "MeterValues"}
       /\ c.method = "StopTransaction" => c.tx \notin InProgress(g)

\* observe() hears in one of these ways.
LEMMA WhatIsHeard ==
    ASSUME NEW g \in GatewayView, NEW h, NEW c \in Call, NEW answered \in BOOLEAN, Listens(g, h, c, answered)
    PROVE  /\ h \in GatewayView /\ h.here = g.here
           /\ h.base.connectors = g.base.connectors \/ h.base.connectors = g.base.connectors \cup {k}
           /\ Heard(g, h, c, answered)
<1>1. c.method \in Methods /\ c.tx \in TxIds \cup {NoTx}
  BY CallFields
<1>2. CASE c.method = "StatusNotification"
  <2>1. h = Hears(g, c, answered) /\ nextTx' = nextTx
    BY <1>2 DEF Listens, Begins
  <2> QED
    BY <1>2, <2>1, HearsStatus DEF Heard, HearsInStatus, SameSessions, InProgress, Closed
<1>3. CASE c.method = "MeterValues"
  <2>1. h = Hears(g, c, answered) /\ nextTx' = nextTx
    BY <1>3 DEF Listens, Begins
  <2>2. Patch(g.seen[k].values, Samples(c))["energy"] = c.wh
    <3>1. g.seen[k].values \in [Fields -> Int]
      BY ViewFields DEF SeenConnector
    <3> QED
      BY <3>1, Sampled
  <2> QED
    BY <1>3, <2>1, <2>2, HearsMeter DEF Heard, HearsInMeter, SameSessions, InProgress, Closed, Energy
<1>4. CASE c.method = "StartTransaction" /\ answered
  <2>1. h = Hears(g, c, TRUE) /\ nextTx \in TxIds /\ nextTx' = nextTx + 1
    BY <1>4 DEF Listens, Begins
  <2> DEFINE rec == [connector |-> k, by |-> "local"]
  <2>2. rec # NoRecord
    BY OneConnector DEF NoRecord
  <2>3. /\ h \in GatewayView /\ h.here = g.here
        /\ h.base.connectors = g.base.connectors \cup {k} /\ h.base.shown[k] = nextTx
        /\ h.base.transactions = [g.base.transactions EXCEPT ![nextTx] = rec]
        /\ h.base.history = g.base.history
        /\ h.meters = [g.meters EXCEPT ![nextTx] = [start |-> c.wh, stop |-> NoValue]]
        /\ h.seen[k].values = [g.seen[k].values EXCEPT !["energy"] = c.wh]
        /\ h.seen[k].status = g.seen[k].status
    <3>1. LET x == Hears(g, c, TRUE)
          IN /\ x \in GatewayView /\ x.here = g.here
             /\ x.base.connectors = g.base.connectors \cup {k} /\ x.base.shown[k] = nextTx
             /\ x.base.transactions = [g.base.transactions EXCEPT ![nextTx] = rec]
             /\ x.base.history = g.base.history
             /\ x.meters = [g.meters EXCEPT ![nextTx] = [start |-> c.wh, stop |-> NoValue]]
             /\ x.seen[k].values = [g.seen[k].values EXCEPT !["energy"] = c.wh]
             /\ x.seen[k].status = g.seen[k].status
      BY <1>4, <2>1, HearsStart
    <3> QED
      BY <2>1, <3>1
  <2> HIDE DEF rec
  <2>4. InProgress(h) = InProgress(g) \cup {nextTx} /\ Closed(h) = Closed(g)
    <3>1. g.base.transactions \in [TxIds -> Record \cup {NoRecord}]
      BY ViewFields
    <3>2. \A tx \in TxIds : h.base.transactions[tx] # NoRecord <=> tx = nextTx \/ g.base.transactions[tx] # NoRecord
      BY <2>1, <2>2, <2>3, <3>1
    <3>3. InProgress(h) = InProgress(g) \cup {nextTx}
      BY <2>1, <3>2 DEF InProgress
    <3>4. Closed(h) = Closed(g)
      BY <2>3 DEF Closed
    <3> QED
      BY <3>3, <3>4
  <2>5. Energy(h) = c.wh
    <3>1. g.seen[k].values \in [Fields -> Int] /\ "energy" \in Fields
      BY ViewFields DEF SeenConnector, Fields
    <3> QED
      BY <2>3, <3>1 DEF Energy
  <2> QED
    BY <1>4, <2>1, <2>3, <2>4, <2>5 DEF Heard, HearsInStart, Begins
<1>5. CASE c.method = "StopTransaction" /\ c.tx \in InProgress(g)
  <2>1. h = Hears(g, c, answered) /\ nextTx' = nextTx /\ c.tx \in TxIds /\ g.base.transactions[c.tx] # NoRecord
    BY <1>5 DEF Listens, Begins, InProgress
  <2>2. /\ h \in GatewayView /\ h.here = g.here
        /\ h.base.connectors = g.base.connectors \cup {k} /\ h.base.shown[k] = NoTx
        /\ h.base.transactions = [g.base.transactions EXCEPT ![c.tx] = NoRecord]
        /\ h.meters = [g.meters EXCEPT ![c.tx] = [start |-> g.meters[c.tx].start, stop |-> c.wh]]
        /\ h.seen = g.seen
    BY <1>5, <2>1, HearsStop
  <2>3. PICK r \in ClosedRecord : r.tx = c.tx /\ r.connector = k /\ h.base.history = Archive(r, g.base.history)
    <3>1. LET x == Hears(g, c, answered)
          IN /\ x \in GatewayView /\ x.here = g.here
             /\ x.base.connectors = g.base.connectors \cup {k} /\ x.base.shown[k] = NoTx
             /\ x.base.transactions = [g.base.transactions EXCEPT ![c.tx] = NoRecord]
             /\ \E r \in ClosedRecord : r.tx = c.tx /\ r.connector = k /\ x.base.history = Archive(r, g.base.history)
             /\ x.meters = [g.meters EXCEPT ![c.tx] = [start |-> g.meters[c.tx].start, stop |-> c.wh]]
             /\ x.seen = g.seen
      BY <1>5, <2>1, HearsStop
    <3> QED
      BY <2>1, <3>1
  <2>4. \A i \in DOMAIN h.base.history :
          IF i = 1 THEN h.base.history[i] = r
          ELSE i - 1 \in DOMAIN g.base.history /\ h.base.history[i] = g.base.history[i - 1]
    <3>1. g.base.history \in Seq(ClosedRecord) /\ Len(g.base.history) <= HistoryLimit
      BY ViewFields, StateFields
    <3>2. \A i \in DOMAIN Archive(r, g.base.history) :
            IF i = 1 THEN Archive(r, g.base.history)[i] = r
            ELSE i - 1 \in DOMAIN g.base.history /\ Archive(r, g.base.history)[i] = g.base.history[i - 1]
      BY <3>1, ArchivedFirst
    <3> QED
      BY <2>3, <3>2
  <2>5. Closed(h) \subseteq Closed(g) \cup {c.tx}
    <3>1. ASSUME NEW i \in DOMAIN h.base.history
          PROVE  h.base.history[i].tx \in Closed(g) \cup {c.tx}
      <4>1. CASE i = 1
        BY <2>3, <2>4, <4>1
      <4>2. CASE i # 1
        BY <2>4, <4>2 DEF Closed
      <4> QED
        BY <4>1, <4>2
    <3> QED
      BY <3>1 DEF Closed
  <2>6. InProgress(h) = InProgress(g) \ {c.tx}
    BY <2>1, <2>2, ViewFields DEF InProgress
  <2> QED
    BY <1>5, <2>1, <2>2, <2>5, <2>6 DEF Heard, HearsInStop
<1>6. CASE \/ c.method \in {"Aggregate", "Authorize"}
           \/ c.method = "StartTransaction" /\ ~answered
           \/ c.method = "StopTransaction" /\ c.tx \notin InProgress(g)
  <2>1. Hears(g, c, answered) = g
    BY <1>1, <1>6, HearsNothing DEF InProgress
  <2> QED
    BY <1>6, <2>1 DEF Heard, Listens, Begins, SameButHardware
<1>7. CASE c.method = "BootNotification"
  <2>1. h = Hears(g, c, answered) /\ nextTx' = nextTx
    BY <1>7 DEF Listens, Begins
  <2>2. h \in GatewayView /\ SameButHardware(g, h)
    BY <1>7, <2>1, HearsBoot
  <2> QED
    BY <1>7, <2>1, <2>2 DEF Heard, SameButHardware, Begins
<1> QED
  BY <1>1, <1>2, <1>3, <1>4, <1>5, <1>6, <1>7 DEF Methods

\* The gateway changes by what it hears of the oldest call, or not at all.
LEMMA ViewChanges ==
    ASSUME Types, Step
    PROVE  \/ /\ gateway' \in {gateway, [gateway EXCEPT !.here = TRUE]} /\ nextTx' = nextTx
              /\ connection' = "connected" => gateway'.here
           \/ /\ connection = "connected" /\ Line # <<>> /\ Head(Line) \in Call
              /\ \E answered \in BOOLEAN : Listens(gateway, gateway', Head(Line), answered)
<1>1. ASSUME Line # <<>> PROVE Head(Line) \in Call /\ connection = "connected"
  <2>1. Line \in Seq(Call) /\ Len(Line) = Len(queue)
    BY LineOfCalls DEF Types
  <2>2. queue # <<>>
    BY <1>1, <2>1 DEF Types, TasksAreFine
  <2> QED
    BY <1>1, <2>1, <2>2 DEF Types, TasksAreFine
<1>2. CASE Quiet
  <2>1. gateway' = gateway \/ gateway'.here
    BY <1>2, ViewFields DEF Quiet, Types, ViewIsFine
  <2> QED
    BY <1>2, <2>1 DEF Quiet, Types, ViewIsFine
<1>3. CASE \E c \in Call : Sends(c)
  BY <1>3 DEF Sends, Types, ViewIsFine
<1>4. CASE Alone
  BY <1>4 DEF Alone, Types, ViewIsFine
<1>5. CASE HeardAndAnswered
  BY <1>1, <1>5 DEF HeardAndAnswered, Listens
<1>6. CASE HeardAndRefused
  BY <1>1, <1>6 DEF HeardAndRefused, Listens
<1>7. CASE Cut
  <2>1. CASE Line = <<>> /\ UNCHANGED <<gateway, nextTx, apart>>
    BY <1>7, <2>1 DEF Cut
  <2>2. CASE ~(Line = <<>> /\ UNCHANGED <<gateway, nextTx, apart>>)
    <3>1. PICK heard \in BOOLEAN :
            /\ heard /\ Begins(Head(Line)) => nextTx \in TxIds
            /\ gateway' = IF heard THEN Hears(gateway, Head(Line), TRUE) ELSE gateway
            /\ nextTx' = IF heard /\ Begins(Head(Line)) THEN nextTx + 1 ELSE nextTx
      BY <1>7, <2>2 DEF Cut
    <3>2. Line # <<>> /\ connection' # "connected"
      BY <1>7, <2>2 DEF Cut
    <3>3. CASE heard
      BY <1>1, <3>1, <3>2, <3>3 DEF Listens
    <3>4. CASE ~heard
      BY <3>1, <3>2, <3>4
    <3> QED
      BY <3>3, <3>4
  <2> QED
    BY <2>1, <2>2
<1> QED
  BY <1>2, <1>3, <1>4, <1>5, <1>6, <1>7 DEF Step

\* The gateway keeps what it knows well formed.
LEMMA ViewStep ==
    ASSUME Types, Step
    PROVE  ViewIsFine'
<1>1. gateway \in GatewayView /\ nextTx \in Nat \ {0}
  BY DEF Types, ViewIsFine
<1>2. CASE /\ gateway' \in {gateway, [gateway EXCEPT !.here = TRUE]} /\ nextTx' = nextTx
           /\ connection' = "connected" => gateway'.here
  <2>1. gateway' \in GatewayView /\ gateway'.base = gateway.base /\ (gateway.here => gateway'.here)
    BY <1>1, <1>2, ViewFields DEF GatewayView
  <2> QED
    BY <1>1, <1>2, <2>1 DEF Types, ViewIsFine
<1>3. CASE /\ connection = "connected" /\ Line # <<>> /\ Head(Line) \in Call
           /\ \E answered \in BOOLEAN : Listens(gateway, gateway', Head(Line), answered)
  <2>1. PICK answered \in BOOLEAN : Listens(gateway, gateway', Head(Line), answered)
    BY <1>3
  <2>2. gateway' \in GatewayView /\ gateway'.here = gateway.here
    BY <1>1, <1>3, <2>1, WhatIsHeard
  <2>3. nextTx' \in Nat \ {0}
    BY <1>1, <2>1 DEF Listens
  <2>4. gateway.here
    BY <1>3 DEF Types, ViewIsFine
  <2> QED
    BY <2>2, <2>3, <2>4 DEF ViewIsFine
<1> QED
  BY <1>2, <1>3, ViewChanges

\* Each step keeps the types and has one of the shapes.
LEMMA TypesStep == Types /\ [Next]_vars => Types' /\ Step
<1> SUFFICES ASSUME Types, [Next]_vars PROVE Types' /\ Step
  OBVIOUS
<1>1. Stepped
  BY EveryStep
<1> QED
  BY <1>1, ViewStep DEF Stepped, Types

-----------------------------------------------------------------------------
(* The parts of the inductive invariant.                                   *)

IsStatus(c) == c.method = "StatusNotification"
Start(g, tx) == g.meters[tx].start
Stop(g, tx) == g.meters[tx].stop

\* An id is given once, and a transaction is in progress or over.
TransactionsAreFine ==
    /\ \A tx \in InProgress(gateway) \cup Closed(gateway) : tx < nextTx
    /\ \A tx \in InProgress(gateway) : tx \notin Closed(gateway)
    /\ gateway.base.shown[k] \in InProgress(gateway) \cup {NoTx}

\* Until the end of a charge is heard the gateway shows it, and the charge point
\* has no other.
Agreement ==
    ~apart =>
        /\ (\A i \in DOMAIN Line : ~Ends(Line[i])) => gateway.base.shown[k] = cp.tx
        /\ \A i \in DOMAIN Line : Ends(Line[i]) => cp.tx = NoTx /\ Line[i].tx = gateway.base.shown[k]
        /\ \A i, j \in DOMAIN Line : Ends(Line[i]) /\ Ends(Line[j]) => i = j
        /\ ~doubled => InProgress(gateway) \subseteq {gateway.base.shown[k]}

\* The last status that is on its way, or else the one that was heard, is the one
\* that the charge point is in.
StatusIsTold ==
    /\ connection # "connected" => missed
    /\ \A i \in DOMAIN Line : /\ IsStatus(Line[i])
                              /\ \A j \in DOMAIN Line : j > i => ~IsStatus(Line[j])
                              => Line[i].status = cp.status
    /\ ~missed /\ (\A i \in DOMAIN Line : ~IsStatus(Line[i])) => gateway.seen[k].status = cp.status

\* The meter values follow each other from the starts of the transactions to what
\* the gateway knows, along the line, to the meter.
MeterRuns ==
    ~zeroed =>
        /\ \A i \in DOMAIN Line : Energy(gateway) <= Line[i].wh /\ Line[i].wh <= cp.wh
        /\ \A i, j \in DOMAIN Line : i < j => Line[i].wh <= Line[j].wh
        /\ Energy(gateway) <= cp.wh
        /\ \A tx \in InProgress(gateway) : 0 <= Start(gateway, tx) /\ Start(gateway, tx) <= Energy(gateway)
        /\ \A tx \in Closed(gateway) : 0 <= Start(gateway, tx) /\ Start(gateway, tx) <= Stop(gateway, tx)

\* What was measured is what a call carries.
MeasuresAreFine ==
    LET v == gateway.seen[k].values
    IN /\ v["energy"] \in {NoValue} \cup 0..MaxWh
       /\ v["power"] \in {NoValue, 0} \cup Powers
       /\ v["current"] \in {NoValue} \cup {p \div 230 : p \in Powers \cup {0}}
       /\ v["voltage"] \in {NoValue, 230}

Invariant == Types /\ TransactionsAreFine /\ Agreement /\ StatusIsTold /\ MeterRuns /\ MeasuresAreFine

-----------------------------------------------------------------------------
(* A line that loses its first call, or gains one.                         *)

\* A sequence of calls without its first.
LEMMA Shorter ==
    ASSUME NEW s \in Seq(Call), s # <<>>, NEW r, r = Tail(s)
    PROVE  /\ Head(s) = s[1] /\ 1 \in DOMAIN s /\ DOMAIN s \subseteq Nat \ {0} /\ DOMAIN r \subseteq Nat \ {0}
           /\ \A i \in DOMAIN r : i + 1 \in DOMAIN s /\ r[i] = s[i + 1]
           /\ \A i \in DOMAIN s : i = 1 \/ (i - 1 \in DOMAIN r /\ r[i - 1] = s[i])
OBVIOUS

\* A sequence of calls with one more.
LEMMA Longer ==
    ASSUME NEW s \in Seq(Call), NEW c \in Call, NEW r, r = Append(s, c)
    PROVE  /\ DOMAIN r \subseteq Nat /\ Len(s) + 1 \in DOMAIN r /\ r[Len(s) + 1] = c
           /\ \A i \in DOMAIN s : i \in DOMAIN r /\ r[i] = s[i] /\ i < Len(s) + 1
           /\ \A i \in DOMAIN r : i \in DOMAIN s \/ i = Len(s) + 1
OBVIOUS

\* The gateway knows what it knew.
Same == /\ SameSessions(gateway, gateway') /\ nextTx' = nextTx /\ gateway'.seen = gateway.seen

\* What becomes of what the gateway knows.
LEMMA ViewCases ==
    ASSUME Types, Step
    PROVE  /\ \A tx \in InProgress(gateway) : tx \in TxIds
           /\ \A tx \in Closed(gateway) : tx \in TxIds
           /\ Quiet \/ Alone \/ (\E c \in Call : Sends(c)) => Same
           /\ HeardAndAnswered => Heard(gateway, gateway', Head(Line), TRUE)
           /\ HeardAndRefused => \E answered \in BOOLEAN :
                /\ Heard(gateway, gateway', Head(Line), answered)
                /\ apart' = (apart \/ (answered /\ Begins(Head(Line))))
           /\ Cut => \/ Same
                     \/ Line # <<>> /\ Heard(gateway, gateway', Head(Line), TRUE)
<1>1. gateway \in GatewayView /\ Line \in Seq(Call)
  BY LineOfCalls DEF Types, ViewIsFine
<1>2. Line # <<>> => Head(Line) \in Call
  BY <1>1
<1>3. gateway' \in {gateway, [gateway EXCEPT !.here = TRUE]} /\ nextTx' = nextTx => Same
  BY <1>1, ViewFields DEF Same, SameSessions, InProgress, Closed
<1>4. ASSUME NEW answered \in BOOLEAN, Line # <<>>, Listens(gateway, gateway', Head(Line), answered)
      PROVE  Heard(gateway, gateway', Head(Line), answered)
  BY <1>1, <1>2, <1>4, WhatIsHeard
<1>5. HeardAndAnswered => Heard(gateway, gateway', Head(Line), TRUE)
  BY <1>4 DEF HeardAndAnswered, Listens
<1>6. HeardAndRefused => \E answered \in BOOLEAN :
                /\ Heard(gateway, gateway', Head(Line), answered)
                /\ apart' = (apart \/ (answered /\ Begins(Head(Line))))
  BY <1>4 DEF HeardAndRefused, Listens
<1>7. Cut => Same \/ (Line # <<>> /\ Heard(gateway, gateway', Head(Line), TRUE))
  <2> SUFFICES ASSUME Cut, ~Same PROVE Line # <<>> /\ Heard(gateway, gateway', Head(Line), TRUE)
    OBVIOUS
  <2>1. ~(Line = <<>> /\ UNCHANGED <<gateway, nextTx, apart>>)
    BY <1>3
  <2>2. PICK heard \in BOOLEAN :
            /\ heard /\ Begins(Head(Line)) => nextTx \in TxIds
            /\ gateway' = IF heard THEN Hears(gateway, Head(Line), TRUE) ELSE gateway
            /\ nextTx' = IF heard /\ Begins(Head(Line)) THEN nextTx + 1 ELSE nextTx
    BY <2>1 DEF Cut
  <2>3. Line # <<>>
    BY <2>1 DEF Cut
  <2>4. heard
    BY <1>3, <2>2
  <2>5. Listens(gateway, gateway', Head(Line), TRUE)
    BY <2>2, <2>4 DEF Listens
  <2> QED
    BY <1>4, <2>3, <2>5
<1>8. Quiet \/ Alone \/ (\E c \in Call : Sends(c)) => Same
  BY <1>3 DEF Quiet, Alone, Sends
<1>9. /\ \A tx \in InProgress(gateway) : tx \in TxIds
      /\ \A tx \in Closed(gateway) : tx \in TxIds
  BY <1>1, ViewFields DEF InProgress, Closed
<1> QED
  BY <1>5, <1>6, <1>7, <1>8, <1>9

\* Transaction ids are not NoTx.
LEMMA NextTxFits ==
    ASSUME Types
    PROVE  nextTx \in Nat /\ \A tx \in TxIds : tx \in Nat \ {0} /\ tx # NoTx
<1>1. \A tx \in TxIds : tx \in Nat \ {0} /\ tx # NoTx
  BY ChargerStateAssumption DEF ChargerStateAssumption, NoTx
<1>2. nextTx \in Nat
  BY DEF Types, ViewIsFine
<1> QED
  BY <1>1, <1>2

LEMMA SameAnyway ==
    ASSUME NEW g, NEW h, SameButHardware(g, h)
    PROVE  SameSessions(g, h) /\ h.seen = g.seen /\ Energy(h) = Energy(g)
BY DEF SameButHardware, SameSessions, InProgress, Closed, Energy

\* What is heard gives no id twice and closes nothing twice.
LEMMA TransactionsHeard ==
    ASSUME Types, TransactionsAreFine, NEW c, NEW answered, Heard(gateway, gateway', c, answered),
           \A tx \in InProgress(gateway) \cup Closed(gateway) : tx \in TxIds
    PROVE  TransactionsAreFine'
<1>1. CASE SameSessions(gateway, gateway') /\ nextTx' = nextTx
  BY <1>1 DEF SameSessions, TransactionsAreFine
<1>2. CASE HearsInStart(gateway, gateway', c)
  <2>1. /\ nextTx' = nextTx + 1 /\ InProgress(gateway)' = InProgress(gateway) \cup {nextTx}
        /\ Closed(gateway)' = Closed(gateway) /\ gateway'.base.shown[k] = nextTx
    BY <1>2 DEF HearsInStart, InProgress, Closed
  <2>2. \A tx \in InProgress(gateway) \cup Closed(gateway) : tx \in Nat /\ tx < nextTx
    BY NextTxFits DEF TransactionsAreFine
  <2>3. nextTx \notin Closed(gateway) /\ nextTx \in Nat
    BY <2>2, NextTxFits
  <2>4. \A tx \in InProgress(gateway)' \cup Closed(gateway)' : tx < nextTx'
    BY <2>1, <2>2, <2>3
  <2> QED
    BY <2>1, <2>3, <2>4 DEF TransactionsAreFine
<1>3. CASE HearsInStop(gateway, gateway', c)
  <2>1. /\ nextTx' = nextTx /\ InProgress(gateway)' = InProgress(gateway) \ {c.tx}
        /\ Closed(gateway)' \subseteq Closed(gateway) \cup {c.tx} /\ gateway'.base.shown[k] = NoTx
        /\ c.tx \in InProgress(gateway)
    BY <1>3 DEF HearsInStop, InProgress, Closed
  <2> QED
    BY <2>1 DEF TransactionsAreFine
<1>4. SameButHardware(gateway, gateway') => SameSessions(gateway, gateway')
  BY SameAnyway
<1> QED
  BY <1>1, <1>2, <1>3, <1>4 DEF Heard, HearsInStatus, HearsInMeter

\* So no step does.
LEMMA TransactionsStep ==
    ASSUME Types, Step, TransactionsAreFine
    PROVE  TransactionsAreFine'
<1>1. \A tx \in InProgress(gateway) \cup Closed(gateway) : tx \in TxIds
  BY ViewCases
<1>2. CASE Same
  BY <1>2 DEF Same, SameSessions, TransactionsAreFine
<1>3. ASSUME NEW answered \in BOOLEAN, Heard(gateway, gateway', Head(Line), answered)
      PROVE  TransactionsAreFine'
  BY <1>1, <1>3, TransactionsHeard
<1> QED
  BY <1>2, <1>3, ViewCases DEF Step

-----------------------------------------------------------------------------
(* The sessions of the two sides.                                          *)

\* The end of a charge that is told is the one that the gateway shows.
LEMMA AgreementSent ==
    ASSUME Types, TransactionsAreFine, Agreement, NEW c \in Call, Sends(c), Same
    PROVE  Agreement'
<1>1. /\ Line' = Append(Line, c) /\ apart' = apart /\ doubled' = doubled /\ c.tx = cp.tx
      /\ cp'.tx = IF c.method = "StopTransaction" THEN NoTx ELSE cp.tx
  BY DEF Sends, ghosts
<1>2. gateway'.base.shown[k] = gateway.base.shown[k] /\ InProgress(gateway)' = InProgress(gateway)
  BY DEF Same, SameSessions, InProgress
<1> DEFINE n == Len(Line) + 1
<1>3. /\ n \in DOMAIN Line' /\ Line'[n] = c
      /\ \A i \in DOMAIN Line : i \in DOMAIN Line' /\ Line'[i] = Line[i]
      /\ \A i \in DOMAIN Line' : i \in DOMAIN Line \/ i = n
  <2>1. Line \in Seq(Call)
    BY LineOfCalls DEF Types
  <2> QED
    BY <1>1, <2>1, Longer
<1> HIDE DEF n
<1> SUFFICES ASSUME ~apart
             PROVE  /\ (\A i \in DOMAIN Line' : ~Ends(Line'[i])) => gateway.base.shown[k] = cp'.tx
                    /\ \A i \in DOMAIN Line' : Ends(Line'[i]) => cp'.tx = NoTx /\ Line'[i].tx = gateway.base.shown[k]
                    /\ \A i, j \in DOMAIN Line' : Ends(Line'[i]) /\ Ends(Line'[j]) => i = j
                    /\ ~doubled => InProgress(gateway) \subseteq {gateway.base.shown[k]}
  BY <1>1, <1>2 DEF Agreement, Ends
<1>4. /\ (\A i \in DOMAIN Line : ~Ends(Line[i])) => gateway.base.shown[k] = cp.tx
      /\ \A i \in DOMAIN Line : Ends(Line[i]) => cp.tx = NoTx /\ Line[i].tx = gateway.base.shown[k]
      /\ \A i, j \in DOMAIN Line : Ends(Line[i]) /\ Ends(Line[j]) => i = j
      /\ ~doubled => InProgress(gateway) \subseteq {gateway.base.shown[k]}
  BY DEF Agreement
<1>5. CASE Ends(c)
  <2>1. cp.tx # NoTx /\ cp'.tx = NoTx
    BY <1>1, <1>5 DEF Ends
  <2>2. \A i \in DOMAIN Line : ~Ends(Line[i])
    BY <1>4, <2>1
  <2>3. \A i \in DOMAIN Line' : Ends(Line'[i]) => i = n
    BY <1>3, <2>2
  <2> QED
    BY <1>1, <1>3, <1>4, <1>5, <2>1, <2>2, <2>3
<1>6. CASE ~Ends(c)
  <2>1. cp'.tx = cp.tx
    BY <1>1, <1>6 DEF Ends
  <2>2. \A i \in DOMAIN Line' : Ends(Line'[i]) => i \in DOMAIN Line /\ Line'[i] = Line[i]
    BY <1>3, <1>6
  <2>3. (\A i \in DOMAIN Line' : ~Ends(Line'[i])) => \A i \in DOMAIN Line : ~Ends(Line[i])
    BY <1>3
  <2> QED
    BY <1>4, <2>1, <2>2, <2>3
<1> QED
  BY <1>5, <1>6

\* What hearing a call does to the sessions, as far as the agreement is concerned.
LEMMA AgreementHeard ==
    ASSUME Types, TransactionsAreFine, Agreement, Line # <<>>, NEW c, c = Line[1],
           NEW answered \in BOOLEAN, Heard(gateway, gateway', c, answered), ~(answered /\ Begins(c)), ~apart
    PROVE  LET shown == gateway'.base.shown[k]
           IN /\ Ends(c) => shown = NoTx
              /\ ~Ends(c) => shown = gateway.base.shown[k]
              /\ ~doubled => InProgress(gateway)' \subseteq {shown}
<1>1. 1 \in DOMAIN Line /\ \A tx \in InProgress(gateway) : tx \in TxIds
  <2>1. Line \in Seq(Call)
    BY LineOfCalls DEF Types
  <2> QED
    BY <2>1, ViewFields DEF InProgress
<1>2. Ends(c) => c.tx = gateway.base.shown[k]
  BY <1>1 DEF Agreement
<1>3. CASE SameSessions(gateway, gateway') /\ (Ends(c) => c.tx \notin InProgress(gateway))
  <2>1. ~Ends(c)
    BY <1>2, <1>3 DEF TransactionsAreFine, Ends
  <2> QED
    BY <1>3, <2>1 DEF SameSessions, Agreement, InProgress
<1>4. CASE HearsInStop(gateway, gateway', c)
  <2>1. /\ c.tx \in InProgress(gateway) /\ InProgress(gateway)' = InProgress(gateway) \ {c.tx}
        /\ gateway'.base.shown[k] = NoTx /\ c.method = "StopTransaction"
    BY <1>4 DEF HearsInStop, InProgress
  <2>2. Ends(c)
    BY <1>1, <2>1, NextTxFits DEF Ends
  <2>3. ~doubled => InProgress(gateway)' \subseteq {NoTx}
    BY <1>2, <2>1, <2>2 DEF Agreement
  <2> QED
    BY <2>1, <2>2, <2>3
<1>5. HearsInStatus(gateway, gateway', c) \/ HearsInMeter(gateway, gateway', c)
        => SameSessions(gateway, gateway') /\ ~Ends(c)
  BY DEF HearsInStatus, HearsInMeter, Ends
<1>6. ~(answered /\ HearsInStart(gateway, gateway', c))
  BY DEF HearsInStart
<1>7. SameButHardware(gateway, gateway') => SameSessions(gateway, gateway')
  BY SameAnyway
<1> QED
  BY <1>3, <1>4, <1>5, <1>6, <1>7 DEF Heard, Ends

\* The line without its first call, after which no more charges may end.
LEMMA AgreementMoves ==
    ASSUME Types, TransactionsAreFine, Agreement, Line # <<>>, Line' = Tail(Line), NEW c, c = Line[1],
           NEW answered \in BOOLEAN, Heard(gateway, gateway', c, answered), ~(answered /\ Begins(c)),
           cp' = cp, doubled' = doubled, apart' = apart
    PROVE  Agreement'
<1>1. /\ 1 \in DOMAIN Line /\ DOMAIN Line' \subseteq Nat \ {0}
      /\ \A i \in DOMAIN Line' : i + 1 \in DOMAIN Line /\ Line'[i] = Line[i + 1]
      /\ \A i \in DOMAIN Line : i = 1 \/ (i - 1 \in DOMAIN Line' /\ Line'[i - 1] = Line[i])
  <2>1. Line \in Seq(Call)
    BY LineOfCalls DEF Types
  <2> QED
    BY <2>1, Shorter
<1> SUFFICES ASSUME ~apart
             PROVE  /\ (\A i \in DOMAIN Line' : ~Ends(Line'[i])) => gateway'.base.shown[k] = cp.tx
                    /\ \A i \in DOMAIN Line' : Ends(Line'[i]) => cp.tx = NoTx /\ Line'[i].tx = gateway'.base.shown[k]
                    /\ \A i, j \in DOMAIN Line' : Ends(Line'[i]) /\ Ends(Line'[j]) => i = j
                    /\ ~doubled => InProgress(gateway)' \subseteq {gateway'.base.shown[k]}
  BY DEF Agreement, Ends
<1> DEFINE shown == gateway.base.shown[k]
           shownNext == gateway'.base.shown[k]
<1>2. /\ Ends(c) => shownNext = NoTx
      /\ ~Ends(c) => shownNext = shown
      /\ ~doubled => InProgress(gateway)' \subseteq {shownNext}
  BY AgreementHeard
<1>3. /\ (\A i \in DOMAIN Line : ~Ends(Line[i])) => shown = cp.tx
      /\ \A i \in DOMAIN Line : Ends(Line[i]) => cp.tx = NoTx /\ Line[i].tx = shown
      /\ \A i, j \in DOMAIN Line : Ends(Line[i]) /\ Ends(Line[j]) => i = j
  BY DEF Agreement
<1> HIDE DEF shown, shownNext
<1>4. \A i, j \in DOMAIN Line' : Ends(Line'[i]) /\ Ends(Line'[j]) => i = j
  <2> SUFFICES ASSUME NEW i \in DOMAIN Line', NEW j \in DOMAIN Line', Ends(Line'[i]), Ends(Line'[j])
               PROVE  i = j
    OBVIOUS
  <2>1. i + 1 = j + 1
    BY <1>1, <1>3
  <2> QED
    BY <1>1, <2>1
<1>5. CASE Ends(c)
  <2>1. cp.tx = NoTx /\ shownNext = NoTx
    BY <1>1, <1>2, <1>3, <1>5
  <2>2. \A i \in DOMAIN Line' : ~Ends(Line'[i])
    <3> SUFFICES ASSUME NEW i \in DOMAIN Line', Ends(Line'[i]) PROVE FALSE
      OBVIOUS
    <3>1. i + 1 = 1
      BY <1>1, <1>3, <1>5
    <3> QED
      BY <1>1, <3>1
  <2> QED
    BY <1>2, <1>4, <2>1, <2>2 DEF shownNext
<1>6. CASE ~Ends(c)
  <2>1. shownNext = shown
    BY <1>2, <1>6
  <2>2. (\A i \in DOMAIN Line' : ~Ends(Line'[i])) => \A i \in DOMAIN Line : ~Ends(Line[i])
    BY <1>1, <1>6
  <2>3. \A i \in DOMAIN Line' : Ends(Line'[i]) => cp.tx = NoTx /\ Line'[i].tx = shown
    BY <1>1, <1>3
  <2> QED
    BY <1>2, <1>3, <1>4, <2>1, <2>2, <2>3 DEF shownNext
<1> QED
  BY <1>5, <1>6

\* Every step keeps the agreement, or says that the two sides parted.
LEMMA AgreementStep ==
    ASSUME Types, Step, TransactionsAreFine, Agreement
    PROVE  Agreement'
<1>1. Line \in Seq(Call) /\ (Line # <<>> => Head(Line) = Line[1] /\ 1 \in DOMAIN Line)
  <2>1. Line \in Seq(Call)
    BY LineOfCalls DEF Types
  <2> QED
    BY <2>1, Shorter
<1>2. CASE Quiet
  <2>1. Same /\ Line' = Line /\ cp'.tx = cp.tx /\ UNCHANGED <<apart, doubled>>
    BY <1>2, ViewCases DEF Quiet, ghosts
  <2> QED
    BY <2>1 DEF Agreement, Same, SameSessions, InProgress, Ends
<1>3. CASE \E c \in Call : Sends(c)
  BY <1>3, AgreementSent, ViewCases
<1>4. CASE Alone
  <2>1. Line = <<>> /\ Line' = <<>>
    BY <1>1, <1>4, LineOfCalls DEF Alone, Types, TasksAreFine
  <2>2. Same /\ doubled' = doubled /\ (apart => apart') /\ (apart' \/ cp'.tx = cp.tx)
    BY <1>4, ViewCases DEF Alone
  <2> QED
    BY <2>1, <2>2 DEF Agreement, Same, SameSessions, InProgress
<1>5. CASE HeardAndAnswered
  <2> DEFINE c == Line[1]
  <2>1. /\ c = Head(Line) /\ Line # <<>> /\ Line' = Tail(Line) /\ Heard(gateway, gateway', c, TRUE)
        /\ cp' = IF Begins(c) THEN [cp EXCEPT !.tx = nextTx] ELSE cp
        /\ doubled' = (doubled \/ (Begins(c) /\ cp.tx # NoTx))
        /\ apart' = (apart \/ (Begins(c) /\ \E i \in DOMAIN Line : Ends(Line[i])))
    BY <1>1, <1>5, ViewCases DEF HeardAndAnswered
  <2> HIDE DEF c
  <2>2. CASE Begins(c)
    <3>1. HearsInStart(gateway, gateway', c)
      BY <2>1, <2>2 DEF Heard, HearsInStatus, HearsInMeter, HearsInStop, Begins
    <3>2. InProgress(gateway)' = InProgress(gateway) \cup {nextTx} /\ gateway'.base.shown[k] = nextTx
      BY <3>1 DEF HearsInStart, InProgress
    <3>3. cp'.tx = nextTx
      BY <2>1, <2>2 DEF Types, Connector
    <3> SUFFICES ASSUME ~apart'
                 PROVE  /\ \A i \in DOMAIN Line' : ~Ends(Line'[i])
                        /\ ~doubled' => InProgress(gateway)' \subseteq {nextTx}
      BY <3>2, <3>3 DEF Agreement, Ends
    <3>4. ~apart /\ \A i \in DOMAIN Line : ~Ends(Line[i])
      BY <2>1, <2>2 DEF Types, LinkIsFine
    <3>5. \A i \in DOMAIN Line' : ~Ends(Line'[i])
      BY <1>1, <2>1, <3>4, Shorter
    <3>6. ASSUME ~doubled' PROVE InProgress(gateway)' \subseteq {nextTx}
      <4>1. cp.tx = NoTx /\ ~doubled
        BY <2>1, <2>2, <3>6 DEF Types, LinkIsFine
      <4>2. InProgress(gateway) \subseteq {NoTx}
        BY <3>4, <4>1 DEF Agreement
      <4>3. InProgress(gateway) = {}
        BY <4>2, NextTxFits DEF InProgress
      <4> QED
        BY <3>2, <4>3
    <3> QED
      BY <3>5, <3>6
  <2>3. CASE ~Begins(c)
    <3>1. cp' = cp /\ doubled' = doubled /\ apart' = apart
      BY <2>1, <2>3 DEF Types, LinkIsFine
    <3> QED
      BY <2>1, <2>3, <3>1, AgreementMoves DEF c
  <2> QED
    BY <2>2, <2>3
<1>6. CASE HeardAndRefused
  <2>1. Line # <<>> /\ Line' = Tail(Line) /\ cp' = cp /\ doubled' = doubled
    BY <1>6 DEF HeardAndRefused
  <2>2. PICK answered \in BOOLEAN : /\ Heard(gateway, gateway', Line[1], answered)
                                    /\ apart' = (apart \/ (answered /\ Begins(Line[1])))
    BY <1>1, <1>6, <2>1, ViewCases
  <2>3. CASE answered /\ Begins(Line[1])
    BY <2>2, <2>3 DEF Agreement
  <2>4. CASE ~(answered /\ Begins(Line[1]))
    <3>1. apart' = apart
      BY <2>2, <2>4 DEF Types, LinkIsFine
    <3> QED
      BY <2>1, <2>2, <2>4, <3>1, AgreementMoves
  <2> QED
    BY <2>3, <2>4
<1>7. CASE Cut
  <2> SUFFICES ASSUME ~apart' PROVE Agreement'
    BY DEF Agreement
  <2>1. Line' = <<>> /\ cp' = cp /\ doubled' = doubled
    BY <1>7 DEF Cut
  <2> SUFFICES gateway'.base.shown[k] = cp.tx /\ (~doubled => InProgress(gateway)' \subseteq {gateway'.base.shown[k]})
    BY <2>1 DEF Agreement
  <2>2. CASE Line = <<>> /\ UNCHANGED <<gateway, nextTx, apart>>
    BY <2>2 DEF Agreement, InProgress
  <2>3. CASE ~(Line = <<>> /\ UNCHANGED <<gateway, nextTx, apart>>)
    <3>1. PICK heard \in BOOLEAN :
            /\ Line # <<>>
            /\ heard /\ Begins(Head(Line)) => nextTx \in TxIds
            /\ gateway' = IF heard THEN Hears(gateway, Head(Line), TRUE) ELSE gateway
            /\ nextTx' = IF heard /\ Begins(Head(Line)) THEN nextTx + 1 ELSE nextTx
            /\ apart' = (apart \/ (heard /\ Begins(Head(Line)))
                        \/ \E i \in DOMAIN Line : Line[i].method = "StopTransaction" /\ ~(heard /\ i = 1))
      BY <1>7, <2>3 DEF Cut
    <3>2. /\ ~apart /\ ~(heard /\ Begins(Head(Line)))
          /\ \A i \in DOMAIN Line : Line[i].method = "StopTransaction" => heard /\ i = 1
      BY <3>1
    <3>3. CASE ~heard
      <4>1. \A i \in DOMAIN Line : ~Ends(Line[i])
        BY <3>2, <3>3 DEF Ends
      <4> QED
        BY <3>1, <3>2, <3>3, <4>1 DEF Agreement, InProgress
    <3>4. CASE heard
      <4>1. Heard(gateway, gateway', Line[1], TRUE) /\ ~Begins(Line[1])
        <5>1. Listens(gateway, gateway', Head(Line), TRUE)
          BY <3>1, <3>4 DEF Listens
        <5>2. gateway \in GatewayView /\ Head(Line) \in Call
          BY <1>1, <3>1 DEF Types, ViewIsFine
        <5>3. Heard(gateway, gateway', Head(Line), TRUE)
          BY <5>1, <5>2, WhatIsHeard
        <5> QED
          BY <1>1, <3>1, <3>2, <3>4, <5>3
      <4>2. /\ Ends(Line[1]) => gateway'.base.shown[k] = NoTx
            /\ ~Ends(Line[1]) => gateway'.base.shown[k] = gateway.base.shown[k]
            /\ ~doubled => InProgress(gateway)' \subseteq {gateway'.base.shown[k]}
        BY <3>1, <3>2, <4>1, AgreementHeard
      <4>3. CASE Ends(Line[1])
        <5>1. cp.tx = NoTx
          BY <1>1, <3>1, <3>2, <4>3 DEF Agreement
        <5> QED
          BY <4>2, <4>3, <5>1
      <4>4. CASE ~Ends(Line[1])
        <5>1. \A i \in DOMAIN Line : ~Ends(Line[i])
          BY <3>2, <4>4 DEF Ends
        <5>2. gateway.base.shown[k] = cp.tx
          BY <3>2, <5>1 DEF Agreement
        <5> QED
          BY <4>2, <4>4, <5>2
      <4> QED
        BY <4>3, <4>4
    <3> QED
      BY <3>3, <3>4
  <2> QED
    BY <2>2, <2>3
<1> QED
  BY <1>2, <1>3, <1>4, <1>5, <1>6, <1>7 DEF Step

-----------------------------------------------------------------------------
(* The status.                                                             *)

\* Only a StatusNotification changes the status.
LEMMA StatusHeard ==
    ASSUME NEW c, NEW answered, Heard(gateway, gateway', c, answered)
    PROVE  gateway'.seen[k].status = IF IsStatus(c) THEN c.status ELSE gateway.seen[k].status
<1>1. CASE HearsInStatus(gateway, gateway', c)
  BY <1>1 DEF HearsInStatus, IsStatus
<1>2. CASE HearsInMeter(gateway, gateway', c) \/ HearsInStart(gateway, gateway', c) \/ HearsInStop(gateway, gateway', c)
  BY <1>2 DEF HearsInMeter, HearsInStart, HearsInStop, IsStatus, Begins
<1>3. CASE SameButHardware(gateway, gateway') /\ ~IsStatus(c)
  BY <1>3, SameAnyway
<1> QED
  BY <1>1, <1>2, <1>3 DEF Heard, IsStatus

\* The line without its first call: a status that was last is now the one heard.
LEMMA StatusMoves ==
    ASSUME Types, StatusIsTold, Line # <<>>, Line' = Tail(Line), NEW c, c = Line[1],
           NEW answered, Heard(gateway, gateway', c, answered),
           cp'.status = cp.status, connection' = connection,
           ~missed' => ~missed \/ IsStatus(c), connection # "connected" => missed'
    PROVE  StatusIsTold'
<1>1. /\ 1 \in DOMAIN Line /\ DOMAIN Line' \subseteq Nat \ {0} /\ DOMAIN Line \subseteq Nat \ {0}
      /\ \A i \in DOMAIN Line' : i + 1 \in DOMAIN Line /\ Line'[i] = Line[i + 1]
      /\ \A i \in DOMAIN Line : i = 1 \/ (i - 1 \in DOMAIN Line' /\ Line'[i - 1] = Line[i])
  <2>1. Line \in Seq(Call)
    BY LineOfCalls DEF Types
  <2> QED
    BY <2>1, Shorter
<1>2. ASSUME NEW i \in DOMAIN Line', IsStatus(Line'[i]), \A j \in DOMAIN Line' : j > i => ~IsStatus(Line'[j])
      PROVE  Line'[i].status = cp.status
  <2>1. i + 1 \in DOMAIN Line /\ Line[i + 1] = Line'[i] /\ i \in Nat
    BY <1>1
  <2>2. ASSUME NEW j \in DOMAIN Line, j > i + 1 PROVE ~IsStatus(Line[j])
    <3>1. j - 1 \in DOMAIN Line' /\ Line'[j - 1] = Line[j] /\ j - 1 > i
      BY <1>1, <2>1, <2>2
    <3> QED
      BY <1>2, <3>1
  <2>3. Line[i + 1].status = cp.status
    BY <1>2, <2>1, <2>2 DEF StatusIsTold
  <2> QED
    BY <2>1, <2>3
<1>3. ASSUME ~missed', \A i \in DOMAIN Line' : ~IsStatus(Line'[i])
      PROVE  gateway'.seen[k].status = cp.status
  <2>1. ASSUME NEW j \in DOMAIN Line, j > 1 PROVE ~IsStatus(Line[j])
    <3>1. j - 1 \in DOMAIN Line' /\ Line'[j - 1] = Line[j]
      BY <1>1, <2>1
    <3> QED
      BY <1>3, <3>1
  <2>2. CASE IsStatus(c)
    <3>1. Line[1].status = cp.status
      BY <1>1, <2>1, <2>2 DEF StatusIsTold
    <3> QED
      BY <2>2, <3>1, StatusHeard
  <2>3. CASE ~IsStatus(c)
    <3>1. \A j \in DOMAIN Line : ~IsStatus(Line[j])
      BY <1>1, <2>1, <2>3
    <3>2. gateway.seen[k].status = cp.status
      BY <1>3, <2>3, <3>1 DEF StatusIsTold
    <3> QED
      BY <2>3, <3>2, StatusHeard
  <2> QED
    BY <2>2, <2>3
<1> QED
  BY <1>2, <1>3 DEF StatusIsTold, IsStatus

\* Every step keeps the last status last.
LEMMA StatusStep ==
    ASSUME Types, Step, StatusIsTold
    PROVE  StatusIsTold'
<1>1. /\ Line \in Seq(Call) /\ (Line # <<>> => Head(Line) = Line[1] /\ 1 \in DOMAIN Line)
      /\ connection # "connected" => Line = <<>>
  <2>1. Line \in Seq(Call)
    BY LineOfCalls DEF Types
  <2>2. connection # "connected" => Line = <<>>
    BY DEF Types, TasksAreFine, Line
  <2> QED
    BY <2>1, <2>2, Shorter
<1>2. CASE Quiet
  <2>1. /\ Same /\ Line' = Line /\ cp'.status = cp.status /\ missed' = missed
        /\ connection' # "connected" => connection # "connected"
    BY <1>2, ViewCases DEF Quiet, ghosts
  <2> QED
    BY <2>1 DEF StatusIsTold, Same, IsStatus
<1>3. CASE \E c \in Call : Sends(c)
  <2>1. PICK c \in Call : Sends(c)
    BY <1>3
  <2>2. /\ Line' = Append(Line, c) /\ missed' = missed /\ c.status = cp'.status /\ connection' = "connected"
        /\ IsStatus(c) \/ cp'.status = cp.status
    BY <2>1 DEF Sends, ghosts, IsStatus
  <2>3. gateway' = gateway
    BY <2>1 DEF Sends
  <2> DEFINE n == Len(Line) + 1
  <2>4. /\ n \in DOMAIN Line' /\ Line'[n] = c /\ n \in Nat
        /\ \A i \in DOMAIN Line : i \in DOMAIN Line' /\ Line'[i] = Line[i] /\ i < n /\ i \in Nat
        /\ \A i \in DOMAIN Line' : i \in DOMAIN Line \/ i = n
    BY <1>1, <2>2, Longer
  <2> HIDE DEF n
  <2>5. CASE IsStatus(c)
    <3>1. \A i \in DOMAIN Line' : (\A j \in DOMAIN Line' : j > i => ~IsStatus(Line'[j])) => i = n
      BY <2>4, <2>5
    <3> QED
      BY <2>2, <2>4, <2>5, <3>1 DEF StatusIsTold, IsStatus
  <2>6. CASE ~IsStatus(c)
    <3>1. cp'.status = cp.status
      BY <2>2, <2>6
    <3>2. ASSUME NEW i \in DOMAIN Line', IsStatus(Line'[i]), \A j \in DOMAIN Line' : j > i => ~IsStatus(Line'[j])
          PROVE  Line'[i].status = cp.status
      <4>1. i \in DOMAIN Line /\ Line'[i] = Line[i]
        BY <2>4, <2>6, <3>2
      <4>2. \A j \in DOMAIN Line : j > i => ~IsStatus(Line[j])
        BY <2>4, <3>2
      <4> QED
        BY <3>2, <4>1, <4>2 DEF StatusIsTold
    <3>3. (\A i \in DOMAIN Line' : ~IsStatus(Line'[i])) => \A i \in DOMAIN Line : ~IsStatus(Line[i])
      BY <2>4
    <3> QED
      BY <2>2, <2>3, <3>1, <3>2, <3>3 DEF StatusIsTold, IsStatus
  <2> QED
    BY <2>5, <2>6
<1>4. CASE Alone
  <2>1. Line' = <<>> /\ missed'
    BY <1>1, <1>4 DEF Alone, StatusIsTold
  <2> QED
    BY <2>1 DEF StatusIsTold
<1>5. CASE HeardAndAnswered
  <2>1. /\ Line # <<>> /\ Line' = Tail(Line) /\ Heard(gateway, gateway', Line[1], TRUE)
        /\ cp'.status = cp.status /\ connection' = connection
    BY <1>1, <1>5, ViewCases DEF HeardAndAnswered, Types, Connector
  <2>2. missed' = (missed /\ ~IsStatus(Line[1])) /\ connection = "connected"
    BY <1>1, <1>5, <2>1 DEF HeardAndAnswered, IsStatus
  <2> QED
    BY <2>1, <2>2, StatusMoves
<1>6. CASE HeardAndRefused
  <2>1. /\ Line # <<>> /\ Line' = Tail(Line) /\ connection' = connection /\ cp'.status = cp.status
        /\ \E answered \in BOOLEAN : Heard(gateway, gateway', Line[1], answered)
    BY <1>1, <1>6, ViewCases DEF HeardAndRefused
  <2>2. (missed => missed') /\ connection = "connected"
    BY <1>1, <1>6, <2>1 DEF HeardAndRefused
  <2> QED
    BY <2>1, <2>2, StatusMoves
<1>7. CASE Cut
  <2>1. Line' = <<>> /\ missed'
    BY <1>7 DEF Cut
  <2> QED
    BY <2>1 DEF StatusIsTold
<1> QED
  BY <1>2, <1>3, <1>4, <1>5, <1>6, <1>7 DEF Step

-----------------------------------------------------------------------------
(* The meter.                                                              *)

\* The sessions and the energy after a call that carries more than the gateway
\* knows.
LEMMA MeterHeard ==
    ASSUME Types, TransactionsAreFine, MeterRuns, ~zeroed, NEW c \in Call, NEW answered \in BOOLEAN,
           Heard(gateway, gateway', c, answered), Energy(gateway) <= c.wh
    PROVE  /\ Energy(gateway') \in Int /\ Energy(gateway) <= Energy(gateway') /\ Energy(gateway') <= c.wh
           /\ \A tx \in InProgress(gateway') : 0 <= Start(gateway', tx) /\ Start(gateway', tx) <= Energy(gateway')
           /\ \A tx \in Closed(gateway') : 0 <= Start(gateway', tx) /\ Start(gateway', tx) <= Stop(gateway', tx)
<1>1. /\ Energy(gateway) \in Int /\ c.wh \in Nat
      /\ gateway.meters \in [TxIds -> Meters]
      /\ \A tx \in InProgress(gateway) \cup Closed(gateway) : tx \in TxIds
  <2>1. gateway \in GatewayView
    BY DEF Types, ViewIsFine
  <2>2. gateway.seen[k].values \in [Fields -> Int] /\ "energy" \in Fields
    BY <2>1, ViewFields DEF SeenConnector, Fields
  <2> QED
    BY <2>1, <2>2, ViewFields, CallFields DEF Energy, InProgress, Closed
<1>2. \A tx \in TxIds : Start(gateway, tx) \in Int /\ Stop(gateway, tx) \in Int
  BY <1>1 DEF Start, Stop, Meters
<1>3. /\ \A tx \in InProgress(gateway) : 0 <= Start(gateway, tx) /\ Start(gateway, tx) <= Energy(gateway)
      /\ \A tx \in Closed(gateway) : 0 <= Start(gateway, tx) /\ Start(gateway, tx) <= Stop(gateway, tx)
  BY DEF MeterRuns
<1>4. CASE /\ SameSessions(gateway, gateway') /\ (Energy(gateway') = Energy(gateway) \/ Energy(gateway') = c.wh)
  <2>1. \A tx \in TxIds : Start(gateway', tx) = Start(gateway, tx) /\ Stop(gateway', tx) = Stop(gateway, tx)
    BY <1>4 DEF SameSessions, Start, Stop
  <2>2. InProgress(gateway') = InProgress(gateway) /\ Closed(gateway') = Closed(gateway)
    BY <1>4 DEF SameSessions
  <2> QED
    BY <1>1, <1>2, <1>3, <1>4, <2>1, <2>2
<1>5. CASE HearsInStart(gateway, gateway', c)
  <2>1. /\ nextTx \in TxIds /\ InProgress(gateway') = InProgress(gateway) \cup {nextTx}
        /\ Closed(gateway') = Closed(gateway) /\ Energy(gateway') = c.wh
        /\ gateway'.meters = [gateway.meters EXCEPT ![nextTx] = [start |-> c.wh, stop |-> NoValue]]
    BY <1>5 DEF HearsInStart
  <2>2. nextTx \notin InProgress(gateway) /\ nextTx \notin Closed(gateway)
    BY <2>1, NextTxFits DEF TransactionsAreFine
  <2>3. /\ Start(gateway', nextTx) = c.wh
        /\ \A tx \in TxIds \ {nextTx} : Start(gateway', tx) = Start(gateway, tx) /\ Stop(gateway', tx) = Stop(gateway, tx)
    BY <1>1, <2>1 DEF Start, Stop
  <2> QED
    BY <1>1, <1>2, <1>3, <2>1, <2>2, <2>3
<1>6. CASE HearsInStop(gateway, gateway', c)
  <2>1. /\ c.tx \in InProgress(gateway) /\ InProgress(gateway') = InProgress(gateway) \ {c.tx}
        /\ Closed(gateway') \subseteq Closed(gateway) \cup {c.tx} /\ gateway'.seen = gateway.seen
        /\ gateway'.meters = [gateway.meters EXCEPT ![c.tx] = [start |-> gateway.meters[c.tx].start, stop |-> c.wh]]
    BY <1>6 DEF HearsInStop
  <2>2. c.tx \notin Closed(gateway) /\ c.tx \in TxIds
    BY <1>1, <2>1 DEF TransactionsAreFine
  <2>3. /\ Start(gateway', c.tx) = Start(gateway, c.tx) /\ Stop(gateway', c.tx) = c.wh
        /\ \A tx \in TxIds \ {c.tx} : Start(gateway', tx) = Start(gateway, tx) /\ Stop(gateway', tx) = Stop(gateway, tx)
    BY <1>1, <2>1, <2>2 DEF Start, Stop
  <2>4. Energy(gateway') = Energy(gateway)
    BY <2>1 DEF Energy
  <2>5. 0 <= Start(gateway', c.tx) /\ Start(gateway', c.tx) <= Stop(gateway', c.tx)
    BY <1>1, <1>2, <1>3, <2>1, <2>2, <2>3
  <2>6. ASSUME NEW tx \in Closed(gateway') PROVE 0 <= Start(gateway', tx) /\ Start(gateway', tx) <= Stop(gateway', tx)
    <3>1. CASE tx = c.tx
      BY <2>5, <3>1
    <3>2. CASE tx # c.tx
      BY <1>1, <1>3, <2>1, <2>3, <3>2
    <3> QED
      BY <3>1, <3>2
  <2> QED
    BY <1>1, <1>2, <1>3, <2>1, <2>3, <2>4, <2>6
<1>7. SameButHardware(gateway, gateway') => SameSessions(gateway, gateway') /\ Energy(gateway') = Energy(gateway)
  BY SameAnyway
<1>8. HearsInStatus(gateway, gateway', c) => SameSessions(gateway, gateway') /\ Energy(gateway') = Energy(gateway)
  BY DEF HearsInStatus, Energy
<1>9. HearsInMeter(gateway, gateway', c) => SameSessions(gateway, gateway') /\ Energy(gateway') = c.wh
  BY DEF HearsInMeter
<1> QED
  BY <1>4, <1>5, <1>6, <1>7, <1>8, <1>9 DEF Heard

\* The line without its first call.
LEMMA MeterMoves ==
    ASSUME Types, TransactionsAreFine, MeterRuns, Line # <<>>, Line' = Tail(Line),
           NEW answered \in BOOLEAN, Heard(gateway, gateway', Line[1], answered),
           cp'.wh = cp.wh, zeroed' = zeroed
    PROVE  MeterRuns'
<1>1. /\ 1 \in DOMAIN Line /\ DOMAIN Line' \subseteq Nat \ {0}
      /\ \A i \in DOMAIN Line' : i + 1 \in DOMAIN Line /\ Line'[i] = Line[i + 1]
      /\ \A i \in DOMAIN Line : Line[i] \in Call /\ Line[i].wh \in Nat
  <2>1. Line \in Seq(Call)
    BY LineOfCalls DEF Types
  <2>2. \A i \in DOMAIN Line : Line[i] \in Call
    BY <2>1
  <2> QED
    BY <2>1, <2>2, Shorter, CallFields
<1> SUFFICES ASSUME ~zeroed PROVE MeterRuns'
  BY DEF MeterRuns
<1>2. /\ \A i \in DOMAIN Line : Energy(gateway) <= Line[i].wh /\ Line[i].wh <= cp.wh
      /\ \A i, j \in DOMAIN Line : i < j => Line[i].wh <= Line[j].wh
  BY DEF MeterRuns
<1>3. /\ Energy(gateway') \in Int /\ Energy(gateway') <= Line[1].wh
      /\ \A tx \in InProgress(gateway') : 0 <= Start(gateway', tx) /\ Start(gateway', tx) <= Energy(gateway')
      /\ \A tx \in Closed(gateway') : 0 <= Start(gateway', tx) /\ Start(gateway', tx) <= Stop(gateway', tx)
  BY <1>1, <1>2, MeterHeard
<1>4. cp.wh \in Nat
  BY Bounds DEF Types, Connector
<1>5. Energy(gateway') <= cp.wh
  BY <1>1, <1>2, <1>3, <1>4
<1>6. ASSUME NEW i \in DOMAIN Line' PROVE Energy(gateway') <= Line'[i].wh /\ Line'[i].wh <= cp.wh
  <2>1. i + 1 \in DOMAIN Line /\ Line'[i] = Line[i + 1] /\ 1 < i + 1
    BY <1>1
  <2>2. Line[1].wh <= Line[i + 1].wh
    BY <1>1, <1>2, <2>1
  <2> QED
    BY <1>1, <1>2, <1>3, <2>1, <2>2
<1>7. ASSUME NEW i \in DOMAIN Line', NEW j \in DOMAIN Line', i < j PROVE Line'[i].wh <= Line'[j].wh
  <2>1. /\ i + 1 \in DOMAIN Line /\ Line'[i] = Line[i + 1]
        /\ j + 1 \in DOMAIN Line /\ Line'[j] = Line[j + 1] /\ i + 1 < j + 1
    BY <1>1, <1>7
  <2> QED
    BY <1>2, <2>1
<1> QED
  BY <1>3, <1>5, <1>6, <1>7 DEF MeterRuns, Energy, InProgress, Closed, Start, Stop

\* Every step keeps the meter values in order, or sets the meter back.
LEMMA MeterStep ==
    ASSUME Types, Step, cp' \in Connector, TransactionsAreFine, MeterRuns
    PROVE  MeterRuns'
<1>1. /\ Line \in Seq(Call) /\ (Line # <<>> => Head(Line) = Line[1] /\ 1 \in DOMAIN Line)
      /\ connection # "connected" => Line = <<>>
      /\ \A i \in DOMAIN Line : Line[i] \in Call /\ Line[i].wh \in Nat
  <2>1. Line \in Seq(Call)
    BY LineOfCalls DEF Types
  <2>2. connection # "connected" => Line = <<>>
    BY DEF Types, TasksAreFine, Line
  <2>3. \A i \in DOMAIN Line : Line[i] \in Call
    BY <2>1
  <2> QED
    BY <2>1, <2>2, <2>3, Shorter, CallFields
<1>2. cp.wh \in Nat /\ Energy(gateway) \in Int
  <2>1. gateway.seen[k].values \in [Fields -> Int] /\ "energy" \in Fields
    BY ViewFields DEF SeenConnector, Fields, Types, ViewIsFine
  <2> QED
    BY <2>1, Bounds DEF Types, Connector, Energy
<1>3. CASE Quiet
  <2>1. Same /\ Line' = Line /\ cp'.wh = cp.wh /\ zeroed' = zeroed
    BY <1>3, ViewCases DEF Quiet, ghosts
  <2> QED
    BY <2>1 DEF MeterRuns, Same, SameSessions, Energy, InProgress, Closed, Start, Stop
<1>4. CASE \E c \in Call : Sends(c)
  <2>1. PICK c \in Call : Sends(c)
    BY <1>4
  <2>2. Line' = Append(Line, c) /\ gateway' = gateway /\ zeroed' = zeroed /\ c.wh = cp'.wh /\ cp.wh <= cp'.wh
    BY <2>1 DEF Sends, ghosts
  <2>3. c.wh \in Nat
    BY CallFields
  <2> DEFINE n == Len(Line) + 1
  <2>4. /\ Line'[n] = c /\ n \in Nat
        /\ \A i \in DOMAIN Line : Line'[i] = Line[i] /\ i < n /\ i \in Nat
        /\ \A i \in DOMAIN Line' : i \in DOMAIN Line \/ i = n
    BY <1>1, <2>2, Longer
  <2> HIDE DEF n
  <2> SUFFICES ASSUME ~zeroed PROVE MeterRuns'
    BY <2>2 DEF MeterRuns
  <2>5. /\ \A i \in DOMAIN Line : Energy(gateway) <= Line[i].wh /\ Line[i].wh <= cp.wh
        /\ \A i, j \in DOMAIN Line : i < j => Line[i].wh <= Line[j].wh
        /\ Energy(gateway) <= cp.wh
    BY DEF MeterRuns
  <2>6. ASSUME NEW i \in DOMAIN Line' PROVE Energy(gateway) <= Line'[i].wh /\ Line'[i].wh <= cp'.wh
    <3>1. CASE i \in DOMAIN Line
      BY <1>1, <1>2, <2>2, <2>3, <2>4, <2>5, <3>1
    <3>2. CASE i = n
      BY <1>2, <2>2, <2>3, <2>4, <2>5, <3>2
    <3> QED
      BY <2>4, <3>1, <3>2
  <2>7. ASSUME NEW i \in DOMAIN Line', NEW j \in DOMAIN Line', i < j PROVE Line'[i].wh <= Line'[j].wh
    <3>1. i \in DOMAIN Line
      BY <2>4, <2>7
    <3>2. CASE j \in DOMAIN Line
      BY <2>4, <2>5, <2>7, <3>1, <3>2
    <3>3. CASE j = n
      <4>1. Line'[j] = c /\ Line'[i] = Line[i]
        BY <2>4, <3>1, <3>3
      <4> QED
        BY <1>1, <1>2, <2>2, <2>3, <2>5, <3>1, <4>1
    <3> QED
      BY <2>4, <3>2, <3>3
  <2>8. Energy(gateway) <= cp'.wh
    BY <1>2, <2>2, <2>3, <2>5
  <2> QED
    BY <2>2, <2>6, <2>7, <2>8 DEF MeterRuns, Energy, InProgress, Closed, Start, Stop
<1>5. CASE Alone
  <2>1. /\ Line = <<>> /\ Line' = <<>> /\ gateway' = gateway /\ (zeroed => zeroed')
        /\ zeroed' \/ cp.wh <= cp'.wh
    BY <1>1, <1>5 DEF Alone
  <2> SUFFICES ASSUME ~zeroed, ~zeroed', cp.wh <= cp'.wh PROVE Energy(gateway) <= cp'.wh
    BY <2>1 DEF MeterRuns, Energy, InProgress, Closed, Start, Stop
  <2>2. Energy(gateway) <= cp.wh
    BY DEF MeterRuns
  <2>3. cp'.wh \in Nat
    BY Bounds DEF Connector
  <2> QED
    BY <1>2, <2>2, <2>3
<1>6. CASE HeardAndAnswered
  <2>1. /\ Line # <<>> /\ Line' = Tail(Line) /\ Heard(gateway, gateway', Line[1], TRUE)
        /\ cp'.wh = cp.wh /\ zeroed' = zeroed
    BY <1>1, <1>6, ViewCases DEF HeardAndAnswered, Types, Connector
  <2> QED
    BY <2>1, MeterMoves
<1>7. CASE HeardAndRefused
  <2>1. /\ Line # <<>> /\ Line' = Tail(Line) /\ cp'.wh = cp.wh /\ zeroed' = zeroed
        /\ \E answered \in BOOLEAN : Heard(gateway, gateway', Line[1], answered)
    BY <1>1, <1>7, ViewCases DEF HeardAndRefused
  <2> QED
    BY <2>1, MeterMoves
<1>8. CASE Cut
  <2>1. Line' = <<>> /\ cp' = cp /\ zeroed' = zeroed
    BY <1>8 DEF Cut
  <2> SUFFICES ASSUME ~zeroed
               PROVE  /\ Energy(gateway') <= cp.wh
                      /\ \A tx \in InProgress(gateway') : 0 <= Start(gateway', tx) /\ Start(gateway', tx) <= Energy(gateway')
                      /\ \A tx \in Closed(gateway') : 0 <= Start(gateway', tx) /\ Start(gateway', tx) <= Stop(gateway', tx)
    BY <2>1 DEF MeterRuns, Energy, InProgress, Closed, Start, Stop
  <2>2. CASE Same
    BY <2>2 DEF MeterRuns, Same, SameSessions, Energy, Start, Stop
  <2>3. CASE Line # <<>> /\ Heard(gateway, gateway', Line[1], TRUE)
    <3>1. Energy(gateway) <= Line[1].wh /\ Line[1].wh <= cp.wh /\ Line[1] \in Call /\ Line[1].wh \in Nat
      BY <1>1, <2>3 DEF MeterRuns
    <3>2. /\ Energy(gateway') \in Int /\ Energy(gateway') <= Line[1].wh
          /\ \A tx \in InProgress(gateway') : 0 <= Start(gateway', tx) /\ Start(gateway', tx) <= Energy(gateway')
          /\ \A tx \in Closed(gateway') : 0 <= Start(gateway', tx) /\ Start(gateway', tx) <= Stop(gateway', tx)
      BY <2>3, <3>1, MeterHeard
    <3> QED
      BY <1>2, <3>1, <3>2
  <2> QED
    BY <1>1, <1>8, <2>2, <2>3, ViewCases
<1> QED
  BY <1>3, <1>4, <1>5, <1>6, <1>7, <1>8 DEF Step

-----------------------------------------------------------------------------
(* The measures.                                                           *)

\* A sample is a value of the connector, or one derived from it.
LEMMA MeasuresHeard ==
    ASSUME Types, MeasuresAreFine, NEW c \in Call, NEW answered \in BOOLEAN, Heard(gateway, gateway', c, answered)
    PROVE  MeasuresAreFine'
<1> DEFINE v == gateway.seen[k].values
           w == gateway'.seen[k].values
<1>1. v \in [Fields -> Int] /\ Fields = {"energy", "power", "powerOffered", "current", "currentOffered", "voltage"}
  BY ViewFields DEF SeenConnector, Fields, Types, ViewIsFine
<1>2. /\ v["energy"] \in {NoValue} \cup 0..MaxWh /\ v["power"] \in {NoValue, 0} \cup Powers
      /\ v["current"] \in {NoValue} \cup {p \div 230 : p \in Powers \cup {0}} /\ v["voltage"] \in {NoValue, 230}
  BY DEF MeasuresAreFine
<1> SUFFICES /\ w["energy"] \in {NoValue} \cup 0..MaxWh /\ w["power"] \in {NoValue, 0} \cup Powers
             /\ w["current"] \in {NoValue} \cup {p \div 230 : p \in Powers \cup {0}} /\ w["voltage"] \in {NoValue, 230}
  BY DEF MeasuresAreFine
<1>3. CASE w = v
  BY <1>2, <1>3
<1>4. CASE HearsInMeter(gateway, gateway', c)
  <2>1. w = Patch(v, Samples(c))
    BY <1>4 DEF HearsInMeter
  <2>2. c.wh \in 0..MaxWh /\ c.power \in Powers \cup {0}
    BY CallFields
  <2>3. LET x == Patch(v, Samples(c))
        IN x["energy"] = c.wh /\ x["power"] = c.power /\ x["current"] = c.power \div 230 /\ x["voltage"] = 230
    BY <1>1, Sampled
  <2>4. w["energy"] = c.wh /\ w["power"] = c.power /\ w["current"] = c.power \div 230 /\ w["voltage"] = 230
    BY <2>1, <2>3
  <2> HIDE DEF w
  <2> QED
    BY <2>2, <2>4
<1>5. CASE HearsInStart(gateway, gateway', c)
  <2>1. w = [v EXCEPT !["energy"] = c.wh] /\ c.wh \in 0..MaxWh
    BY <1>5, CallFields DEF HearsInStart
  <2>2. w["energy"] = c.wh /\ w["power"] = v["power"] /\ w["current"] = v["current"] /\ w["voltage"] = v["voltage"]
    BY <1>1, <2>1
  <2> HIDE DEF w, v
  <2> QED
    BY <1>2, <2>1, <2>2
<1>6. HearsInStatus(gateway, gateway', c) \/ HearsInStop(gateway, gateway', c) \/ SameButHardware(gateway, gateway')
        => w = v
  BY SameAnyway DEF HearsInStatus, HearsInStop
<1> QED
  BY <1>3, <1>4, <1>5, <1>6 DEF Heard

\* So every step keeps the measures.
LEMMA MeasuresStep ==
    ASSUME Types, Step, MeasuresAreFine
    PROVE  MeasuresAreFine'
<1>1. Line # <<>> => Head(Line) \in Call
  BY LineOfCalls DEF Types
<1>2. CASE Same
  BY <1>2 DEF Same, MeasuresAreFine
<1>3. ASSUME NEW answered \in BOOLEAN, Line # <<>>, Heard(gateway, gateway', Head(Line), answered)
      PROVE  MeasuresAreFine'
  BY <1>1, <1>3, MeasuresHeard
<1>4. HeardAndAnswered \/ HeardAndRefused => Line # <<>>
  BY DEF HeardAndAnswered, HeardAndRefused
<1> QED
  BY <1>2, <1>3, <1>4, ViewCases DEF Step

-----------------------------------------------------------------------------
(* The invariant.                                                          *)

\* At first nothing is known and nothing waits.
LEMMA InvariantHolds == Init => Invariant
<1> SUFFICES ASSUME Init PROVE Invariant
  OBVIOUS
<1>1. /\ connection = "disconnected" /\ timers = FALSE /\ \E h \in Hardware : cp = FreshConnector(h)
      /\ tasks = [t \in Tasks |-> Idle] /\ queue = <<>> /\ aborted = FALSE /\ nextTx = 1
      /\ apart = FALSE /\ missed = TRUE /\ doubled = FALSE /\ zeroed = FALSE
  BY DEF Init
<1>2. TasksAreFine
  BY <1>1, IdleIsTask DEF TasksAreFine, Waiting
<1>3. Line = <<>>
  BY <1>1 DEF Line
<1>4. LinkIsFine
  BY <1>1 DEF LinkIsFine
<1> DEFINE nothing == [start |-> NoValue, stop |-> NoValue]
<1>5. /\ gateway = [here |-> FALSE, base |-> EmptyCharger, seen |-> [c \in Connectors |-> EmptyConnector],
                    meters |-> [tx \in TxIds |-> nothing], hardware |-> None]
  BY DEF Init
<1>6. nothing \in Meters
  BY DEF Meters, NoValue
<1> HIDE DEF nothing
<1>7. EmptyConnector \in SeenConnector
  BY DEF EmptyConnector, SeenConnector, NoValue
<1>8. gateway \in GatewayView
  BY <1>5, <1>6, <1>7, EmptyIsState DEF GatewayView
<1>9. /\ gateway.base.connectors = {} /\ gateway.base.shown[k] = NoTx /\ gateway.seen[k] = EmptyConnector
      /\ gateway.base.history = <<>> /\ \A tx \in TxIds : gateway.base.transactions[tx] = NoRecord
  BY <1>5, OneConnector DEF EmptyCharger
<1>10. ViewIsFine
  BY <1>1, <1>8, <1>9 DEF ViewIsFine
<1>11. InProgress(gateway) = {} /\ Closed(gateway) = {}
  BY <1>9 DEF InProgress, Closed
<1>12. gateway.seen[k].values = [f \in Fields |-> NoValue]
  BY <1>9 DEF EmptyConnector
<1>13. Energy(gateway) = -1 /\ MeasuresAreFine
  BY <1>12 DEF Energy, MeasuresAreFine, Fields, NoValue
<1>19. cp \in Connector /\ cp.tx = NoTx /\ cp.wh = InitialWh
  BY <1>1, FreshIsConnector
<1>14. Types
  BY <1>1, <1>2, <1>4, <1>10, <1>19 DEF Types
<1>15. TransactionsAreFine
  BY <1>9, <1>11 DEF TransactionsAreFine
<1>16. Agreement
  BY <1>1, <1>3, <1>9, <1>11, <1>19 DEF Agreement
<1>17. StatusIsTold
  BY <1>1, <1>3 DEF StatusIsTold
<1>18. MeterRuns
  BY <1>1, <1>3, <1>11, <1>13, <1>19, Bounds DEF MeterRuns
<1> QED
  BY <1>13, <1>14, <1>15, <1>16, <1>17, <1>18 DEF Invariant

\* Each part is kept by every step.
LEMMA InvariantStep == Invariant /\ [Next]_vars => Invariant'
<1> SUFFICES ASSUME Invariant, [Next]_vars PROVE Invariant'
  OBVIOUS
<1>1. Types' /\ Step /\ cp' \in Connector
  BY TypesStep DEF Invariant, Types
<1> QED
  BY <1>1, TransactionsStep, AgreementStep, StatusStep, MeterStep, MeasuresStep DEF Invariant

\* The inductive invariant of a charge session: what waits in the line of calls
\* accounts for every difference between the charge point and the gateway.
THEOREM InvariantIsInductive == Spec => []Invariant
<1>1. Init => Invariant
  BY InvariantHolds
<1>2. Invariant /\ [Next]_vars => Invariant'
  BY InvariantStep
<1> QED
  BY <1>1, <1>2, PTL DEF Spec

-----------------------------------------------------------------------------
(* What the runs check.                                                    *)

\* Every variable keeps its type.
THEOREM SimulatorTypes == Spec => []TypeOK
<1>1. Invariant => TypeOK
  <2> SUFFICES ASSUME Invariant PROVE TypeOK
    OBVIOUS
  <2>1. TasksAreFine /\ LinkIsFine /\ cp \in Connector /\ gateway \in GatewayView /\ nextTx \in Nat
    BY DEF Invariant, Types, ViewIsFine
  <2>2. \A t \in Tasks : tasks[t].by \in {None, "person", "scenario", "timer", "open"}
                         /\ \A i \in DOMAIN tasks[t].todo : tasks[t].todo[i] \in Instructions
    <3> SUFFICES ASSUME NEW t \in Tasks
                 PROVE  tasks[t].by \in {None, "person", "scenario", "timer", "open"} /\ tasks[t].todo \in Seq(Instructions)
      OBVIOUS
    <3>1. tasks[t] \in Task
      BY <2>1 DEF TasksAreFine
    <3> QED
      BY <3>1 DEF Task
  <2>3. \A t \in Tasks : Waiting(t) <=> \E i \in DOMAIN queue : queue[i] = t
    BY <2>1 DEF TasksAreFine
  <2>4. \A t \in Tasks : Waiting(t) => connection = "connected"
    <3>1. connection # "connected" => DOMAIN queue = {}
      BY <2>1 DEF TasksAreFine
    <3> QED
      BY <2>3, <3>1
  <2>5. /\ gateway.base \in ChargerStates /\ gateway.seen[k].status \in Statuses \cup {"Unknown"}
        /\ gateway.hardware \in Hardware \cup {None}
    BY <2>1, ViewFields DEF SeenConnector
  <2>6. \A tx \in TxIds : gateway.meters[tx] \in Meters
    BY <2>1, ViewFields
  <2>7. /\ connection \in {"disconnected", "connecting", "connected"}
        /\ timers \in BOOLEAN /\ (timers => connection = "connected")
        /\ \A g \in {apart, missed, doubled, zeroed, aborted} : g \in BOOLEAN
    BY <2>1 DEF LinkIsFine
  <2> QED
    BY <2>1, <2>2, <2>3, <2>4, <2>5, <2>6, <2>7 DEF TypeOK
<1> QED
  BY <1>1, InvariantIsInductive, PTL

\* Nothing is on its way once nothing is under way.
LEMMA NothingOnItsWay ==
    ASSUME TasksAreFine, AtRest
    PROVE  Line = <<>>
<1>1. \A t \in Tasks : ~Waiting(t)
  BY DEF AtRest, Idle, Waiting
<1>2. DOMAIN queue = {} /\ queue \in Seq(Tasks)
  BY <1>1, LineOfCalls DEF TasksAreFine
<1> QED
  BY <1>2 DEF Line

\* Whatever overlaps, once nothing is under way the gateway shows the transaction
\* that the charge point believes in: startCharge() and stopCharge() decide of a
\* charge at another time than StartTransaction and StopTransaction are observed.
THEOREM TheSessionsAgree == Spec => []SessionsAgree
<1>1. Invariant => SessionsAgree
  <2> SUFFICES ASSUME Invariant, AtRest, ~apart PROVE gateway.base.shown[k] = cp.tx
    BY DEF SessionsAgree
  <2>1. DOMAIN Line = {}
    BY NothingOnItsWay DEF Invariant, Types
  <2> QED
    BY <2>1 DEF Invariant, Agreement
<1> QED
  BY <1>1, InvariantIsInductive, PTL

\* Once nothing is under way Gladys publishes the status the charge point is in:
\* setStatus() and onOpen() tell the last one last.
THEOREM TheStatusAgrees == Spec => []StatusAgrees
<1>1. Invariant => StatusAgrees
  <2> SUFFICES ASSUME Invariant, AtRest, ~missed,
                      NEW s \in ConnectorStates(k, gateway.seen[k], NoVendor), s.key = "connector-status"
               PROVE  s.state = Mapped(cp.status).connectorStatus
    BY DEF StatusAgrees
  <2>1. DOMAIN Line = {}
    BY NothingOnItsWay DEF Invariant, Types
  <2>2. gateway.seen[k].status = cp.status
    BY <2>1 DEF Invariant, StatusIsTold
  <2>3. LockStates(k, NoVendor) = {}
    BY DEF LockStates, NoVendor
  <2>4. s = [key |-> "connector-status", connector |-> k, state |-> Mapped(gateway.seen[k].status).connectorStatus]
    BY <2>3 DEF ConnectorStates
  <2> QED
    BY <2>2, <2>4
<1> QED
  BY <1>1, InvariantIsInductive, PTL

\* One transaction is in progress at a time, unless two charges were started at
\* once or an end got lost.
THEOREM OneTransactionIsOpen == Spec => []OneOpenTransaction
<1>1. Invariant => OneOpenTransaction
  <2> SUFFICES ASSUME Invariant, ~apart, ~doubled PROVE Cardinality(InProgress(gateway)) <= 1
    BY DEF OneOpenTransaction, InProgress
  <2> DEFINE one == {gateway.base.shown[k]}
  <2>1. InProgress(gateway) \subseteq one
    BY DEF Invariant, Agreement
  <2>2. IsFiniteSet(one) /\ Cardinality(one) = 1
    BY FS_Singleton
  <2> HIDE DEF one
  <2>3. Cardinality(InProgress(gateway)) <= Cardinality(one)
    BY <2>1, <2>2, FS_Subset
  <2> QED
    BY <2>2, <2>3
<1> QED
  BY <1>1, InvariantIsInductive, PTL

\* What the widget takes for the active and the last session.
LEMMA SessionsOfTheWidget ==
    ASSUME Types, TransactionsAreFine
    PROVE  /\ Active(gateway, k) = gateway.base.shown[k]
           /\ Active(gateway, k) # NoTx => Active(gateway, k) \in InProgress(gateway)
           /\ Sessions(gateway, k) = DOMAIN gateway.base.history
           /\ LastSession(gateway, k) # NoTx => LastSession(gateway, k) \in Closed(gateway)
<1> DEFINE shown == gateway.base.shown[k]
           h == gateway.base.history
           T == Sessions(gateway, k)
<1>1. gateway \in GatewayView /\ gateway.base.transactions \in [TxIds -> Record \cup {NoRecord}]
  BY ViewFields DEF Types, ViewIsFine
<1>2. shown # NoTx => shown \in InProgress(gateway)
  BY DEF TransactionsAreFine
<1>3. ASSUME shown # NoTx PROVE gateway.base.transactions[shown].connector = k
  <2>1. gateway.base.transactions[shown] \in Record
    BY <1>1, <1>2, <1>3 DEF InProgress
  <2> QED
    BY <2>1, OneConnector DEF Record
<1>4. Active(gateway, k) = shown
  BY <1>3 DEF Active
<1>5. \A i \in DOMAIN h : h[i].connector = k
  <2> TAKE i \in DOMAIN h
  <2>1. h[i] \in ClosedRecord
    BY <1>1, ViewFields
  <2> QED
    BY <2>1, OneConnector DEF ClosedRecord
<1>6. T = DOMAIN h /\ T \subseteq Nat
  <2>1. h \in Seq(ClosedRecord)
    BY <1>1, ViewFields
  <2> QED
    BY <1>5, <2>1 DEF Sessions
<1>7. ASSUME LastSession(gateway, k) # NoTx PROVE LastSession(gateway, k) \in Closed(gateway)
  <2>1. T # {} /\ LastSession(gateway, k) = h[CHOOSE i \in T : \A j \in T : i <= j].tx
    BY <1>7 DEF LastSession
  <2> HIDE DEF T
  <2>2. \E i \in T : \A j \in T : i <= j
    BY <1>6, <2>1, Smallest
  <2>3. (CHOOSE i \in T : \A j \in T : i <= j) \in T
    BY <2>2
  <2> QED
    BY <1>6, <2>1, <2>3 DEF Closed
<1> QED
  BY <1>2, <1>4, <1>6, <1>7

\* Energy between meter values in order is known.
LEMMA RoundedIsKnown ==
    ASSUME NEW start \in Int, NEW end \in Int, 0 <= start, start <= end
    PROVE  EnergyKwh(start, end) # NoValue
<1>1. start # NoValue /\ end # NoValue /\ ~(end < start)
  BY DEF NoValue
<1>2. EnergyKwh(start, end) = (end - start + 5) \div 10
  BY <1>1 DEF EnergyKwh, Rounded
<1>3. \A n \in Nat : (n + 5) \div 10 \in Nat
  OBVIOUS
<1>4. end - start \in Nat
  OBVIOUS
<1> QED
  BY <1>2, <1>3, <1>4 DEF NoValue

\* The energy of the sessions.
LEMMA EnergyIsKnown ==
    ASSUME Types, TransactionsAreFine, MeterRuns, ~zeroed
    PROVE  /\ \A tx \in InProgress(gateway) : EnergyKwh(Start(gateway, tx), Energy(gateway)) # NoValue
           /\ \A tx \in Closed(gateway) : ClosedEnergy(gateway, tx) # NoValue
           /\ SessionEnergy(gateway, k) # NoValue <=> Active(gateway, k) # NoTx \/ LastSession(gateway, k) # NoTx
<1>1. gateway \in GatewayView /\ gateway.meters \in [TxIds -> Meters]
      /\ gateway.seen[k].values \in [Fields -> Int] /\ "energy" \in Fields
  BY ViewFields DEF Types, ViewIsFine, SeenConnector, Fields
<1>2. Energy(gateway) \in Int /\ \A tx \in TxIds : Start(gateway, tx) \in Int /\ Stop(gateway, tx) \in Int
  BY <1>1 DEF Energy, Start, Stop, Meters
<1>3. \A tx \in InProgress(gateway) \cup Closed(gateway) : tx \in TxIds
  BY <1>1, ViewFields DEF InProgress, Closed
<1>4. /\ \A tx \in InProgress(gateway) : 0 <= Start(gateway, tx) /\ Start(gateway, tx) <= Energy(gateway)
      /\ \A tx \in Closed(gateway) : 0 <= Start(gateway, tx) /\ Start(gateway, tx) <= Stop(gateway, tx)
  BY DEF MeterRuns
<1>5. \A tx \in InProgress(gateway) : EnergyKwh(Start(gateway, tx), Energy(gateway)) # NoValue
  BY <1>2, <1>3, <1>4, RoundedIsKnown
<1>6. ASSUME NEW tx \in Closed(gateway) PROVE ClosedEnergy(gateway, tx) # NoValue
  <2>1. EnergyKwh(Start(gateway, tx), Stop(gateway, tx)) # NoValue
    BY <1>2, <1>3, <1>4, RoundedIsKnown
  <2> QED
    BY <2>1 DEF ClosedEnergy, Start, Stop
<1> SUFFICES SessionEnergy(gateway, k) # NoValue <=> Active(gateway, k) # NoTx \/ LastSession(gateway, k) # NoTx
  BY <1>5, <1>6
<1>7. CASE Active(gateway, k) # NoTx
  <2> DEFINE tx == Active(gateway, k)
  <2>1. tx \in InProgress(gateway)
    BY <1>7, SessionsOfTheWidget
  <2>2. SessionEnergy(gateway, k) = EnergyKwh(Start(gateway, tx), Energy(gateway))
    BY <1>7, Zenon DEF SessionEnergy, Start, Energy
  <2> HIDE DEF tx
  <2>3. EnergyKwh(Start(gateway, tx), Energy(gateway)) # NoValue
    BY <1>5, <2>1
  <2> QED
    BY <1>7, <2>2, <2>3, Zenon
<1>8. CASE Active(gateway, k) = NoTx /\ LastSession(gateway, k) # NoTx
  <2> DEFINE tx == LastSession(gateway, k)
  <2>1. tx \in Closed(gateway)
    BY <1>8, SessionsOfTheWidget
  <2>2. SessionEnergy(gateway, k) = ClosedEnergy(gateway, tx)
    BY <1>8, Zenon DEF SessionEnergy
  <2> HIDE DEF tx
  <2>3. ClosedEnergy(gateway, tx) # NoValue
    BY <1>6, <2>1
  <2> QED
    BY <1>8, <2>2, <2>3
<1>9. CASE Active(gateway, k) = NoTx /\ LastSession(gateway, k) = NoTx
  BY <1>9 DEF SessionEnergy
<1> QED
  BY <1>7, <1>8, <1>9

\* The energy of a session is known as long as there is one: sessionEnergyKwh()
\* never meets a meter that ran backwards, whatever the order in which ticks,
\* starts and stops were told, unless configure() set the meter back.
THEOREM TheEnergyIsKnown == Spec => []SessionEnergyIsKnown
<1>1. Invariant => SessionEnergyIsKnown
  BY EnergyIsKnown DEF Invariant, SessionEnergyIsKnown
<1> QED
  BY <1>1, InvariantIsInductive, PTL

-----------------------------------------------------------------------------
(* The features and their bounds.                                          *)

\* A mapped status is within the bounds of its features.
LEMMA MappedFits ==
    ASSUME NEW status \in Statuses
    PROVE  /\ Mapped(status).connectorStatus \in Nat /\ Mapped(status).connectorStatus <= 4
           /\ Mapped(status).chargingState \in Nat /\ Mapped(status).chargingState <= 5
<1> DEFINE pair(c, s) == [connectorStatus |-> ConnectorStatus[c], chargingState |-> ChargingState[s]]
           CS == {"AVAILABLE", "OCCUPIED", "RESERVED", "UNAVAILABLE", "FAULTED"}
           ChS == {"CHARGING", "EV_CONNECTED", "PAUSED_BY_VEHICLE", "PAUSED_BY_CHARGER", "IDLE"}
<1>1. \A c \in CS : ConnectorStatus[c] \in Nat /\ ConnectorStatus[c] <= 4
  BY DEF ConnectorStatus
<1>2. \A s \in ChS : ChargingState[s] \in Nat /\ ChargingState[s] <= 5
  BY DEF ChargingState
<1>3. \E c \in CS, s \in ChS : Mapped(status) = pair(c, s)
  BY DEF Mapped, Statuses
<1>4. PICK c \in CS, s \in ChS : Mapped(status) = pair(c, s)
  BY <1>3
<1> QED
  BY <1>1, <1>2, <1>4

Feature(key, max) == [key |-> key, connector |-> k, min |-> 0, max |-> max]

\* A feature takes the values up to its maximum.
LEMMA FeatureFits ==
    ASSUME NEW key, NEW max \in Nat, NEW v \in Nat, v <= max
    PROVE  /\ key = Feature(key, max).key /\ k = Feature(key, max).connector
           /\ v \in Feature(key, max).min..Feature(key, max).max
BY DEF Feature

\* Math.round() of a number of watts, of amperes, of volts, of Wh.
LEMMA RoundedFits ==
    ASSUME NEW w \in Nat
    PROVE  /\ Rounded(w, 1) = w
           /\ Rounded(w, 10) \in Nat /\ (w <= 230229 => Rounded(w, 10) <= 100000)
           /\ w \div 230 \in Nat /\ (w <= 230229 => w \div 230 <= 1000)
<1>1. Rounded(w, 1) = w
  BY SMT DEF Rounded
<1>2. Rounded(w, 10) \in Nat
  BY SMT DEF Rounded
<1>3. w <= 230229 => Rounded(w, 10) <= 100000
  BY SMT DEF Rounded
<1>4. w \div 230 \in Nat
  BY SMT
<1>5. w <= 230229 => w \div 230 <= 1000
  BY SMT
<1> QED
  BY <1>1, <1>2, <1>3, <1>4, <1>5

\* A charger of at most 1000 A at 230 V, and a meter of at most 1000 MWh.
WithinBounds == MaxPower <= 230229 /\ MaxWh <= 1000000000

\* The states of a connector and the features that take them.
LEMMA EachStateFits ==
    ASSUME NEW c \in SeenConnector, NEW x \in Extensions,
           c.values["energy"] \in {NoValue} \cup 0..MaxWh, c.values["power"] \in {NoValue, 0} \cup Powers,
           c.values["current"] \in {NoValue} \cup {p \div 230 : p \in Powers \cup {0}},
           c.values["voltage"] \in {NoValue, 230},
           WithinBounds,
           NEW s \in ConnectorStates(k, c, x)
    PROVE  \E f \in ConnectorFeatures(k, x) : s.key = f.key /\ s.connector = f.connector /\ s.state \in f.min..f.max
<1> DEFINE V == c.values
           state(key, value) == [key |-> key, connector |-> k, state |-> value]
<1>1. /\ Feature("connector-status", 4) \in ConnectorFeatures(k, x)
      /\ Feature("charging-state", 5) \in ConnectorFeatures(k, x)
      /\ Feature("power", 100000) \in ConnectorFeatures(k, x)
      /\ Feature("current", 1000) \in ConnectorFeatures(k, x)
      /\ Feature("voltage", 1000) \in ConnectorFeatures(k, x)
      /\ Feature("energy", 1000000000) \in ConnectorFeatures(k, x)
      /\ x.supported => Feature("permanent-lock", 1) \in ConnectorFeatures(k, x)
  BY SMT DEF ConnectorFeatures, Feature
<1>2. ASSUME NEW key, NEW max \in Nat, NEW v \in Nat, v <= max, s = state(key, v), Feature(key, max) \in ConnectorFeatures(k, x)
      PROVE  \E f \in ConnectorFeatures(k, x) : s.key = f.key /\ s.connector = f.connector /\ s.state \in f.min..f.max
  <2>1. s.key = key /\ s.connector = k /\ s.state = v
    BY <1>2
  <2> QED
    BY <1>2, <2>1, FeatureFits
<1>3. \A p \in Powers : p \in Nat /\ p <= 230229
  <2> TAKE p \in Powers
  <2>1. MaxPower \in Nat /\ p \in Nat
    BY Bounds
  <2>2. p <= MaxPower
    BY SimulatorAssumption DEF SimulatorAssumption
  <2> QED
    BY <2>1, <2>2, SMT DEF WithinBounds
<1>4. \/ c.status \in Statuses /\ s = state("connector-status", Mapped(c.status).connectorStatus)
      \/ c.status \in Statuses /\ s = state("charging-state", Mapped(c.status).chargingState)
      \/ V["power"] # NoValue /\ s = state("power", Rounded(V["power"], 10))
      \/ V["current"] # NoValue /\ s = state("current", Rounded(V["current"], 1))
      \/ V["voltage"] # NoValue /\ s = state("voltage", Rounded(V["voltage"], 1))
      \/ V["energy"] # NoValue /\ s = state("energy", Rounded(V["energy"], 1))
      \/ s \in LockStates(k, x)
  BY DEF ConnectorStates
<1>5. CASE c.status \in Statuses /\ s = state("connector-status", Mapped(c.status).connectorStatus)
  BY <1>1, <1>2, <1>5, MappedFits
<1>6. CASE c.status \in Statuses /\ s = state("charging-state", Mapped(c.status).chargingState)
  BY <1>1, <1>2, <1>6, MappedFits
<1>7. CASE V["power"] # NoValue /\ s = state("power", Rounded(V["power"], 10))
  <2>1. V["power"] \in Nat /\ V["power"] <= 230229
    BY <1>3, <1>7, SMT
  <2>2. Rounded(V["power"], 10) \in Nat /\ Rounded(V["power"], 10) <= 100000
    BY <2>1, RoundedFits
  <2> HIDE DEF V
  <2> QED
    BY <1>1, <1>2, <1>7, <2>2
<1>8. CASE V["current"] # NoValue /\ s = state("current", Rounded(V["current"], 1))
  <2>1. PICK p \in Powers \cup {0} : V["current"] = p \div 230
    BY <1>8
  <2>2. p \in Nat /\ p <= 230229
    BY <1>3, SMT
  <2>3. V["current"] \in Nat /\ V["current"] <= 1000
    BY <2>1, <2>2, RoundedFits
  <2>4. Rounded(V["current"], 1) = V["current"]
    BY <2>3, RoundedFits
  <2> HIDE DEF V
  <2> QED
    BY <1>1, <1>2, <1>8, <2>3, <2>4
<1>9. CASE V["voltage"] # NoValue /\ s = state("voltage", Rounded(V["voltage"], 1))
  <2>1. V["voltage"] = 230
    BY <1>9
  <2>2. Rounded(V["voltage"], 1) = 230
    BY <2>1, RoundedFits
  <2> HIDE DEF V
  <2> QED
    BY <1>1, <1>2, <1>9, <2>2
<1>10. CASE V["energy"] # NoValue /\ s = state("energy", Rounded(V["energy"], 1))
  <2>1. V["energy"] \in Nat /\ V["energy"] <= MaxWh
    BY <1>10, Bounds
  <2>2. Rounded(V["energy"], 1) = V["energy"]
    BY <2>1, RoundedFits
  <2> HIDE DEF V
  <2>3. MaxWh \in Nat
    BY Bounds
  <2>4. V["energy"] <= 1000000000 /\ 1000000000 \in Nat
    BY <2>1, <2>3, SMT DEF WithinBounds
  <2>5. \E max \in Nat : V["energy"] <= max /\ Feature("energy", max) \in ConnectorFeatures(k, x)
    BY <1>1, <2>4, SMT
  <2>6. PICK max \in Nat : V["energy"] <= max /\ Feature("energy", max) \in ConnectorFeatures(k, x)
    BY <2>5
  <2>7. s = state("energy", V["energy"])
    BY <1>10, <2>2
  <2> HIDE DEF state
  <2> QED
    BY <1>2, <2>1, <2>6, <2>7, SMT
<1>11. CASE s \in LockStates(k, x)
  <2>1. x.supported /\ s \in {state("permanent-lock", 0), state("permanent-lock", 1)}
    BY <1>11 DEF LockStates
  <2> QED
    BY <1>1, <1>2, <2>1
<1> QED
  BY <1>4, <1>5, <1>6, <1>7, <1>8, <1>9, <1>10, <1>11

\* Gladys knows the feature of every state that is published, and its bounds:
\* mapConnectorToStates() publishes no status that it does not know and no measure
\* that is missing, and rounds none out of the bounds of buildConnectorFeatures(),
\* for a charger and a meter within them.
THEOREM StatesFit ==
    ASSUME WithinBounds
    PROVE  Spec => []StatesFitFeatures
<1>1. Invariant => StatesFitFeatures
  <2> SUFFICES ASSUME Invariant, NEW x \in Recorded,
                      NEW s \in DeviceStates(gateway.base.connectors, gateway.seen, x)
               PROVE  \E f \in DeviceFeatures(gateway.base.connectors, 1, x) :
                        s.key = f.key /\ s.connector = f.connector /\ s.state \in f.min..f.max
    BY DEF StatesFitFeatures
  <2>1. gateway \in GatewayView /\ gateway.base \in ChargerStates /\ gateway.seen[k] \in SeenConnector
    BY ViewFields DEF Invariant, Types, ViewIsFine
  <2>2. x \in Extensions
    BY SimulatorAssumption DEF SimulatorAssumption
  <2>3. gateway.base.connectors \subseteq {k}
    BY <2>1, StateFields, OneConnector
  <2>4. k \in gateway.base.connectors /\ s \in ConnectorStates(k, gateway.seen[k], x)
    BY <2>3 DEF DeviceStates
  <2>5. DeviceFeatures(gateway.base.connectors, 1, x) = ConnectorFeatures(k, x)
    BY <2>3, <2>4 DEF DeviceFeatures
  <2> DEFINE c == gateway.seen[k]
  <2>6. /\ c.values["energy"] \in {NoValue} \cup 0..MaxWh /\ c.values["power"] \in {NoValue, 0} \cup Powers
        /\ c.values["current"] \in {NoValue} \cup {p \div 230 : p \in Powers \cup {0}}
        /\ c.values["voltage"] \in {NoValue, 230}
    BY DEF Invariant, MeasuresAreFine
  <2> HIDE DEF c
  <2>7. \E f \in ConnectorFeatures(k, x) : s.key = f.key /\ s.connector = f.connector /\ s.state \in f.min..f.max
    <3>1. c \in SeenConnector /\ s \in ConnectorStates(k, c, x)
      BY <2>1, <2>4 DEF c
    <3> QED
      BY <2>2, <2>6, <3>1, EachStateFits
  <2> QED
    BY <2>5, <2>7
<1> QED
  BY <1>1, InvariantIsInductive, PTL

-----------------------------------------------------------------------------
(* The contents of the widget.                                             *)

\* The settings that normalizeWidgetSettings() returns.
LEMMA NormalSettings ==
    ASSUME NEW s \in Settings
    PROVE  LET o == NormalizeWidgetSettings(s) IN o.chart \in Charts /\ o.connector \in 1..10 /\ o.tiles \subseteq Tiles
<1> DEFINE o == NormalizeWidgetSettings(s)
<1>1. s.chart \in Optional(Charts)
  BY DEF Settings
<1>2. Or(s.chart, "auto") \in Charts
  BY <1>1 DEF Optional, Or, Charts
<1>8. Or(s.tiles, {"power", "session_energy", "duration", "cost"}) \subseteq Tiles
  <2>1. s.tiles \in Optional(SUBSET Tiles)
    BY DEF Settings
  <2>2. {"power", "session_energy", "duration", "cost"} \subseteq Tiles
    BY DEF Tiles, TileOrder
  <2> QED
    BY <2>1, <2>2 DEF Optional, Or
<1>3. s = [connector |-> s.connector, tiles |-> s.tiles, chart |-> s.chart, price |-> s.price,
           priced |-> s.priced, details |-> s.details, controls |-> s.controls]
  BY DEF Settings
<1> DEFINE place == IF Or(s.connector, 1) \in 1..10 THEN Or(s.connector, 1) ELSE 1
           tiles == Or(s.tiles, {"power", "session_energy", "duration", "cost"})
           details == Or(s.details, TRUE)
           controls == Or(s.controls, TRUE)
           chart == Or(s.chart, "auto")
<1>4. o = [s EXCEPT !.connector = place, !.tiles = tiles, !.chart = chart, !.details = details, !.controls = controls]
  BY DEF NormalizeWidgetSettings
<1>5. place \in 1..10
  OBVIOUS
<1> HIDE DEF place, tiles, details, controls, chart, o
<1>6. o = [connector |-> place, tiles |-> tiles, chart |-> chart, price |-> s.price,
           priced |-> s.priced, details |-> details, controls |-> controls]
  BY <1>3, <1>4
<1>7. o.chart = chart /\ o.connector = place /\ o.tiles = tiles
  BY <1>6
<1> QED
  BY <1>2, <1>5, <1>7, <1>8 DEF chart, tiles, o

\* The tiles in their order are a sequence.
LEMMA OrderedTiles ==
    ASSUME NEW some
    PROVE  \E n \in Nat : DOMAIN InOrder(some) = 1..n
<1> DEFINE places == {i \in 1..6 : TileOrder[i] \in some}
<1>1. IsFiniteSet(1..6)
  <2>1. \A a, b \in Int : IsFiniteSet(a..b)
    BY FS_Interval
  <2>2. 1 \in Int /\ 6 \in Int
    OBVIOUS
  <2> QED
    BY <2>1, <2>2, Zenon
<1>2. IsFiniteSet(places)
  <2>1. places \subseteq 1..6
    OBVIOUS
  <2> HIDE DEF places
  <2> QED
    BY <1>1, <2>1, FS_Subset
<1>3. Cardinality(places) \in Nat
  BY <1>2, FS_CardinalityType
<1>4. DOMAIN InOrder(some) = 1..Cardinality(places)
  BY DEF InOrder
<1> QED
  BY <1>3, <1>4

\* A sequence over a set is one over any larger set.
LEMMA MoreIsStillSeq ==
    ASSUME NEW S, NEW T, S \subseteq T, NEW a \in Seq(S)
    PROVE  a \in Seq(T)
<1>1. a \in [1..Len(a) -> S] /\ Len(a) \in Nat
  BY LenProperties
<1>2. a \in [1..Len(a) -> T]
  BY <1>1
<1> QED
  BY <1>1, <1>2

\* A concatenation begins as its first part and holds its second.
LEMMA BeginsAndEnds ==
    ASSUME NEW S, NEW a \in Seq(S), a # <<>>, NEW b \in Seq(S)
    PROVE  /\ a \o b \in Seq(S) /\ a \o b # <<>> /\ Head(a \o b) = Head(a)
           /\ \A i \in DOMAIN b : \E j \in DOMAIN (a \o b) : (a \o b)[j] = b[i]
<1>1. Len(a) \in Nat \ {0} /\ Len(b) \in Nat /\ a \o b \in Seq(S) /\ Len(a \o b) = Len(a) + Len(b)
  OBVIOUS
<1>2. Head(a \o b) = Head(a) /\ a \o b # <<>>
  BY <1>1
<1>3. ASSUME NEW i \in DOMAIN b PROVE \E j \in DOMAIN (a \o b) : (a \o b)[j] = b[i]
  <2>1. i \in 1..Len(b)
    OBVIOUS
  <2>2. Len(a) + i \in 1..(Len(a) + Len(b)) /\ (a \o b)[Len(a) + i] = b[i]
    BY <1>1, <2>1
  <2>3. Len(a) + i \in DOMAIN (a \o b)
    BY <1>1, <2>2
  <2> QED
    BY <2>2, <2>3
<1> QED
  BY <1>1, <1>2, <1>3

\* The arrangement begins with its heading and ends with what never gives way.
LEMMA ArrangedAround ==
    ASSUME NEW S, NEW heading \in S, NEW tiles \in Seq(S), NEW fixed \in Seq(S), Caption \in S
    PROVE  /\ Head(Arranged(heading, tiles, fixed)) = heading
           /\ \A i \in DOMAIN fixed : \E j \in DOMAIN Arranged(heading, tiles, fixed) :
                Arranged(heading, tiles, fixed)[j] = fixed[i]
<1> DEFINE n == IF Len(tiles) < Room(fixed) THEN Len(tiles) ELSE Room(fixed)
           shown == SubSeq(tiles, 1, n)
           caption == IF 1 + Len(shown) + Len(fixed) < MAX_COMPONENTS THEN <<Caption>> ELSE <<>>
<1>1. Room(fixed) \in Nat
  <2>1. Len(fixed) \in Nat
    OBVIOUS
  <2> HIDE DEF MAX_COMPONENTS
  <2>2. MAX_COMPONENTS \in Nat
    BY DEF MAX_COMPONENTS
  <2> QED
    BY <2>1, <2>2 DEF Room
<1>2. n \in 0..Len(tiles)
  BY <1>1
<1>3. shown \in Seq(S)
  <2> HIDE DEF n
  <2> QED
    BY <1>2
<1>4. caption \in Seq(S)
  <2> HIDE DEF shown
  <2> QED
    OBVIOUS
<1>5. Arranged(heading, tiles, fixed) = <<heading>> \o caption \o shown \o fixed
  BY DEF Arranged
<1> HIDE DEF n, shown, caption
<1> DEFINE a == <<heading>>
           b == a \o caption
           c == b \o shown
<1>6. a \in Seq(S) /\ a # <<>> /\ Head(a) = heading
  OBVIOUS
<1> HIDE DEF a
<1>7. b \in Seq(S) /\ b # <<>> /\ Head(b) = heading
  BY <1>4, <1>6, BeginsAndEnds
<1> HIDE DEF b
<1>8. c \in Seq(S) /\ c # <<>> /\ Head(c) = heading
  BY <1>3, <1>7, BeginsAndEnds
<1> HIDE DEF c
<1>9. Head(c \o fixed) = heading /\ \A i \in DOMAIN fixed : \E j \in DOMAIN (c \o fixed) : (c \o fixed)[j] = fixed[i]
  BY <1>8, BeginsAndEnds
<1> QED
  BY <1>5, <1>9 DEF a, b, c

\* A content fits the core, begins with its heading, and loses nothing of what the
\* user asked for but tiles and the caption: what buildChargerWidget() counts is
\* what it shows, whatever the gateway told of the charge point.
THEOREM NothingIsCut == Spec => []NothingAskedIsCut
<1>1. NothingAskedIsCut
  <2> SUFFICES ASSUME NEW x \in Recorded, NEW s \in Shows, NEW o, o = NormalizeWidgetSettings(s),
                      NEW content, content = BuildChargerWidget(gateway, o, x),
                      NEW fixed, fixed = Fixed(gateway, o.connector, o, x)
               PROVE  /\ Len(content) <= MAX_COMPONENTS
                      /\ Head(content).type = "heading"
                      /\ content # MessageContent => \A i \in DOMAIN fixed : \E j \in DOMAIN content : content[j] = fixed[i]
    BY DEF NothingAskedIsCut
  <2>1. CASE content = MessageContent
    BY <2>1 DEF MessageContent, MAX_COMPONENTS
  <2>2. CASE content # MessageContent
    <3>1. o.chart \in Charts /\ x.lock \in {"locked", "unlocked", None}
      BY NormalSettings, SimulatorAssumption DEF SimulatorAssumption, Extensions
    <3>2. PICK S : fixed \in Seq(S) /\ Len(fixed) <= 4
      BY <3>1, FewAreFixed
    <3> DEFINE c == o.connector
               names == InOrder({tile \in o.tiles : HasTile(gateway, c, o, tile)})
               tiles == [i \in DOMAIN names |-> [type |-> "tile", shows |-> <<names[i], Active(gateway, c) # NoTx>>]]
               heading == Heading(gateway, c)
               T == S \cup {heading, Caption} \cup {tiles[i] : i \in DOMAIN names}
    <3>3. content = Arranged(heading, tiles, fixed)
      BY <2>2 DEF BuildChargerWidget
    <3>4. PICK n \in Nat : DOMAIN names = 1..n
      BY OrderedTiles
    <3> HIDE DEF names
    <3>5. tiles \in Seq(T)
      <4>1. DOMAIN tiles = 1..n /\ tiles \in [1..n -> T]
        BY <3>4
      <4> QED
        BY <4>1
    <3>6. heading.type = "heading"
      BY DEF Heading
    <3>7. heading \in T /\ Caption \in T /\ S \subseteq T
      OBVIOUS
    <3> HIDE DEF tiles, heading, T
    <3>8. fixed \in Seq(T) /\ Len(fixed) < MAX_COMPONENTS
      <4>1. Len(fixed) \in Nat
        BY <3>2
      <4> QED
        BY <3>2, <3>7, <4>1, MoreIsStillSeq DEF MAX_COMPONENTS
    <3>9. Len(content) <= MAX_COMPONENTS
      BY <3>3, <3>5, <3>7, <3>8, TheWidgetFits
    <3>10. /\ Head(content) = heading
           /\ \A i \in DOMAIN fixed : \E j \in DOMAIN content : content[j] = fixed[i]
      BY <3>3, <3>5, <3>7, <3>8, ArrangedAround
    <3> QED
      BY <3>6, <3>9, <3>10
  <2> QED
    BY <2>1, <2>2
<1> QED
  BY <1>1, PTL

-----------------------------------------------------------------------------
(* The signature of the widget.                                            *)

\* The history grows by a transaction that was in progress, or stays.
LEMMA HistoryGrows ==
    ASSUME Types, Step
    PROVE  \/ gateway'.base.history = gateway.base.history
           \/ \E r \in ClosedRecord : r.tx \in InProgress(gateway)
                                      /\ gateway'.base.history = Archive(r, gateway.base.history)
<1>1. gateway \in GatewayView
  BY DEF Types, ViewIsFine
<1>2. CASE gateway' \in {gateway, [gateway EXCEPT !.here = TRUE]}
  BY <1>1, <1>2, ViewFields
<1>3. CASE \E answered \in BOOLEAN : Listens(gateway, gateway', Head(Line), answered) /\ Head(Line) \in Call
  <2> DEFINE c == Head(Line)
  <2>1. PICK answered \in BOOLEAN : Listens(gateway, gateway', c, answered) /\ c \in Call
    BY <1>3
  <2> HIDE DEF c
  <2>2. gateway' = Hears(gateway, c, answered) /\ (answered /\ Begins(c) => nextTx \in TxIds)
    BY <2>1 DEF Listens
  <2>3. c.method \in Methods
    BY <2>1, CallFields
  <2>4. CASE c.method = "StatusNotification"
    BY <1>1, <2>1, <2>2, <2>4, HearsStatus
  <2>5. CASE c.method = "MeterValues"
    BY <1>1, <2>1, <2>2, <2>5, HearsMeter
  <2>6. CASE c.method = "StartTransaction" /\ answered
    <3>1. nextTx \in TxIds /\ gateway' = Hears(gateway, c, TRUE)
      BY <2>2, <2>6 DEF Begins
    <3> QED
      BY <1>1, <2>1, <2>6, <3>1, HearsStart
  <2>7. CASE c.method = "StopTransaction" /\ c.tx \in InProgress(gateway)
    <3>1. c.tx \in TxIds /\ gateway.base.transactions[c.tx] # NoRecord
      BY <2>7 DEF InProgress
    <3>2. LET h == Hears(gateway, c, answered)
          IN /\ h \in GatewayView /\ h.here = gateway.here
             /\ h.base.connectors = gateway.base.connectors \cup {k} /\ h.base.shown[k] = NoTx
             /\ h.base.transactions = [gateway.base.transactions EXCEPT ![c.tx] = NoRecord]
             /\ \E r \in ClosedRecord : r.tx = c.tx /\ r.connector = k /\ h.base.history = Archive(r, gateway.base.history)
             /\ h.meters = [gateway.meters EXCEPT ![c.tx] = [start |-> gateway.meters[c.tx].start, stop |-> c.wh]]
             /\ h.seen = gateway.seen
      BY <1>1, <2>1, <2>7, <3>1, HearsStop
    <3>3. \E r \in ClosedRecord : r.tx = c.tx /\ gateway'.base.history = Archive(r, gateway.base.history)
      BY <2>2, <3>2
    <3> QED
      BY <2>7, <3>3
  <2>9. CASE c.method = "BootNotification"
    BY <1>1, <2>1, <2>2, <2>9, HearsBoot DEF SameButHardware
  <2>8. CASE \/ c.method \in {"Aggregate", "Authorize"}
             \/ c.method = "StartTransaction" /\ ~answered
             \/ c.method = "StopTransaction" /\ c.tx \notin InProgress(gateway)
    <3>1. gateway' = gateway
      BY <1>1, <2>1, <2>2, <2>8, HearsNothing DEF InProgress
    <3> QED
      BY <3>1
  <2> QED
    BY <2>3, <2>4, <2>5, <2>6, <2>7, <2>8, <2>9 DEF Methods
<1> QED
  BY <1>2, <1>3, ViewChanges

HeadTx(history) == IF history = <<>> THEN NoTx ELSE Head(history).tx

\* So the newest transaction tells whether the history changed.
LEMMA NewestTells ==
    ASSUME Types, Step, TransactionsAreFine, HeadTx(gateway'.base.history) = HeadTx(gateway.base.history)
    PROVE  gateway'.base.history = gateway.base.history
<1> DEFINE h == gateway.base.history
<1>1. h \in Seq(ClosedRecord) /\ Len(h) <= HistoryLimit /\ \A i \in DOMAIN h : h[i].tx \in TxIds
  <2>1. gateway \in GatewayView /\ gateway.base \in ChargerStates
    BY ViewFields DEF Types, ViewIsFine
  <2> QED
    BY <2>1, ViewFields, StateFields
<1>2. CASE \E r \in ClosedRecord : r.tx \in InProgress(gateway) /\ gateway'.base.history = Archive(r, h)
  <2>1. PICK r \in ClosedRecord : r.tx \in InProgress(gateway) /\ gateway'.base.history = Archive(r, h)
    BY <1>2
  <2> DEFINE a == Archive(r, h)
  <2>2. a \in Seq(ClosedRecord) /\ \A i \in DOMAIN a : i = 1 => a[i] = r
    BY <1>1, ArchivedFirst
  <2>3. r.tx # NoTx /\ r.tx \notin Closed(gateway)
    BY <2>1, NextTxFits DEF TransactionsAreFine, InProgress
  <2>4. h # <<>> => HeadTx(h) \in Closed(gateway) /\ HeadTx(h) # NoTx
    <3>1. h # <<>> => Head(h) = h[1] /\ 1 \in DOMAIN h
      BY <1>1
    <3>2. h # <<>> => HeadTx(h) \in Closed(gateway) /\ HeadTx(h) \in TxIds
      BY <1>1, <3>1 DEF HeadTx, Closed
    <3> QED
      BY <3>2, NextTxFits
  <2>5. a # <<>> => HeadTx(a) = r.tx
    <3> HIDE DEF a
    <3>1. a # <<>> => Head(a) = a[1] /\ 1 \in DOMAIN a
      BY <2>2
    <3> QED
      BY <2>2, <3>1 DEF HeadTx
  <2>6. HeadTx(a) = HeadTx(h)
    BY <2>1
  <2> HIDE DEF a, h
  <2>7. a = <<>>
    <3> SUFFICES ASSUME a # <<>> PROVE FALSE
      OBVIOUS
    <3>1. HeadTx(h) = r.tx
      BY <2>5, <2>6
    <3>2. h # <<>>
      BY <2>3, <3>1 DEF HeadTx
    <3> QED
      BY <2>3, <2>4, <3>1, <3>2
  <2>8. h = <<>>
    BY <2>4, <2>6, <2>7 DEF HeadTx
  <2> QED
    BY <2>1, <2>7, <2>8 DEF a, h
<1> QED
  BY <1>2, HistoryGrows

\* What the widget may rely on as long as the meter was not set back.
Plain(g) ==
    /\ g.base.connectors \subseteq {k} /\ (g.base.connectors # {} => g.here)
    /\ Active(g, k) = g.base.shown[k] /\ Sessions(g, k) = DOMAIN g.base.history
    /\ SessionEnergy(g, k) # NoValue <=> Active(g, k) # NoTx \/ LastSession(g, k) # NoTx
    /\ \A i \in DOMAIN g.base.history : ClosedEnergy(g, g.base.history[i].tx) # NoValue

\* The invariant allows the widget to.
LEMMA TheViewIsPlain ==
    ASSUME Invariant, ~zeroed
    PROVE  Plain(gateway)
<1>1. gateway.base.connectors \subseteq {k}
  <2>1. gateway.base \in ChargerStates
    BY ViewFields DEF Invariant, Types, ViewIsFine
  <2> QED
    BY <2>1, StateFields, OneConnector
<1>2. gateway.base.connectors # {} => gateway.here
  BY DEF Invariant, Types, ViewIsFine
<1>3. Active(gateway, k) = gateway.base.shown[k] /\ Sessions(gateway, k) = DOMAIN gateway.base.history
  BY SessionsOfTheWidget DEF Invariant
<1>4. /\ SessionEnergy(gateway, k) # NoValue <=> Active(gateway, k) # NoTx \/ LastSession(gateway, k) # NoTx
      /\ \A tx \in Closed(gateway) : ClosedEnergy(gateway, tx) # NoValue
  BY EnergyIsKnown DEF Invariant
<1>5. \A i \in DOMAIN gateway.base.history : ClosedEnergy(gateway, gateway.base.history[i].tx) # NoValue
  BY <1>4 DEF Closed
<1> QED
  BY <1>1, <1>2, <1>3, <1>4, <1>5 DEF Plain

\* It is not about the vendor and the model.
LEMMA PlainAnyway ==
    ASSUME NEW g, NEW h, SameButHardware(g, h), Plain(h)
    PROVE  Plain(g)
<1>1. Active(g, k) = Active(h, k) /\ Sessions(g, k) = Sessions(h, k)
  BY DEF SameButHardware, Active, Sessions
<1>2. LastSession(g, k) = LastSession(h, k)
  BY <1>1 DEF SameButHardware, LastSession
<1>3. \A tx : ClosedEnergy(g, tx) = ClosedEnergy(h, tx)
  BY DEF SameButHardware, ClosedEnergy
<1>4. SessionEnergy(g, k) = SessionEnergy(h, k)
  BY <1>1, <1>2, <1>3 DEF SameButHardware, SessionEnergy
<1> QED
  BY <1>1, <1>2, <1>3, <1>4 DEF SameButHardware, Plain

\* Two views with the same signature, the same history and the same hardware.
Alike(g, h) ==
    /\ g.hardware = h.hardware
    /\ g.base.connectors = h.base.connectors /\ g.base.shown[k] = h.base.shown[k] /\ g.base.history = h.base.history
    /\ g.seen[k].status = h.seen[k].status /\ g.seen[k].error = h.seen[k].error
    /\ \A f \in {"powerOffered", "currentOffered"} : g.seen[k].values[f] = h.seen[k].values[f]

\* Equal signatures have equal parts.
LEMMA SignatureFields ==
    ASSUME NEW g, NEW h, WidgetSignature(h, NoVendor) = WidgetSignature(g, NoVendor)
    PROVE  /\ g.base.connectors = h.base.connectors
           /\ HeadTx(h.base.history) = HeadTx(g.base.history)
           /\ k \in g.base.connectors =>
                /\ g.base.shown[k] = h.base.shown[k]
                /\ g.seen[k].status = h.seen[k].status /\ g.seen[k].error = h.seen[k].error
                /\ \A f \in {"powerOffered", "currentOffered"} : g.seen[k].values[f] = h.seen[k].values[f]
<1> DEFINE told(v, c) == <<v.seen[c].status, v.seen[c].error, v.base.shown[c],
                           v.seen[c].values["powerOffered"], v.seen[c].values["currentOffered"]>>
           all(v) == [c \in v.base.connectors |-> told(v, c)]
<1>1. WidgetSignature(g, NoVendor) = <<all(g), HeadTx(g.base.history), NoVendor>>
  BY DEF WidgetSignature, HeadTx
<1>2. WidgetSignature(h, NoVendor) = <<all(h), HeadTx(h.base.history), NoVendor>>
  BY DEF WidgetSignature, HeadTx
<1> HIDE DEF all
<1>3. all(g) = all(h) /\ HeadTx(h.base.history) = HeadTx(g.base.history)
  BY <1>1, <1>2
<1>4. g.base.connectors = h.base.connectors
  <2>1. DOMAIN all(g) = g.base.connectors /\ DOMAIN all(h) = h.base.connectors
    BY DEF all
  <2> QED
    BY <1>3, <2>1
<1>5. ASSUME k \in g.base.connectors
      PROVE  /\ g.base.shown[k] = h.base.shown[k]
             /\ g.seen[k].status = h.seen[k].status /\ g.seen[k].error = h.seen[k].error
             /\ \A f \in {"powerOffered", "currentOffered"} : g.seen[k].values[f] = h.seen[k].values[f]
  <2>1. all(g)[k] = told(g, k) /\ all(h)[k] = told(h, k)
    BY <1>4, <1>5 DEF all
  <2>2. told(g, k) = told(h, k)
    BY <1>3, <2>1
  <2> QED
    BY <2>2
<1> QED
  BY <1>3, <1>4, <1>5

\* Alike views have the same sessions, and charts.
LEMMA AlikeSessions ==
    ASSUME NEW g, NEW h, Plain(g), Plain(h), Alike(g, h)
    PROVE  /\ Active(h, k) = Active(g, k) /\ LastSession(h, k) = LastSession(g, k)
           /\ Sessions(h, k) = Sessions(g, k)
           /\ (SessionEnergy(h, k) # NoValue) = (SessionEnergy(g, k) # NoValue)
           /\ \A o : o.chart \in Charts => Chart(h, k, o) = Chart(g, k, o)
<1>1. Active(h, k) = Active(g, k) /\ Sessions(h, k) = Sessions(g, k)
  BY DEF Plain, Alike
<1>2. LastSession(h, k) = LastSession(g, k)
  BY <1>1 DEF LastSession, Alike
<1>3. (SessionEnergy(h, k) # NoValue) = (SessionEnergy(g, k) # NoValue)
  BY <1>1, <1>2 DEF Plain
<1>4. ASSUME NEW o, o.chart \in Charts PROVE Chart(h, k, o) = Chart(g, k, o)
  <2> DEFINE measured(v) == {i \in Sessions(v, k) : ClosedEnergy(v, v.base.history[i].tx) # NoValue}
  <2>1. measured(g) = Sessions(g, k) /\ measured(h) = Sessions(g, k)
    BY <1>1 DEF Plain
  <2>2. h.seen[k].status = g.seen[k].status
    BY DEF Alike
  <2> QED
    BY <1>4, <2>1, <2>2 DEF Chart, Charts
<1> QED
  BY <1>1, <1>2, <1>3, <1>4

\* Alike views have the same widget.
LEMMA AlikeWidgets ==
    ASSUME NEW g, NEW h, Plain(g), Plain(h), Alike(g, h), k \in g.base.connectors,
           NEW o, o.connector = k, o.chart \in Charts, o.tiles \subseteq Tiles
    PROVE  BuildChargerWidget(h, o, NoVendor) = BuildChargerWidget(g, o, NoVendor)
<1>1. \A tile \in Tiles : HasTile(h, k, o, tile) = HasTile(g, k, o, tile)
  <2> TAKE tile \in Tiles
  <2>1. tile \in {"power", "session_energy", "duration", "cost", "offered_power", "total_energy"}
    BY DEF Tiles, TileOrder
  <2>2. h.seen[k].values["powerOffered"] = g.seen[k].values["powerOffered"]
    BY DEF Alike
  <2>3. CASE tile \in {"power", "total_energy"}
    BY <2>3 DEF HasTile
  <2>4. CASE tile = "session_energy"
    BY <2>4, AlikeSessions DEF HasTile
  <2>5. CASE tile = "duration"
    BY <2>5, AlikeSessions DEF HasTile
  <2>6. CASE tile = "cost"
    BY <2>6, AlikeSessions DEF HasTile
  <2>7. CASE tile = "offered_power"
    BY <2>2, <2>7 DEF HasTile
  <2> QED
    BY <2>1, <2>3, <2>4, <2>5, <2>6, <2>7
<1>2. {tile \in o.tiles : HasTile(h, k, o, tile)} = {tile \in o.tiles : HasTile(g, k, o, tile)}
  BY <1>1
<1>3. Heading(h, k) = Heading(g, k)
  BY AlikeSessions DEF Heading, Alike
<1>4. StatusItems(h, k) = StatusItems(g, k)
  <2>1. (\E f \in {"powerOffered", "currentOffered"} : h.seen[k].values[f] # NoValue)
          <=> \E f \in {"powerOffered", "currentOffered"} : g.seen[k].values[f] # NoValue
    BY DEF Alike
  <2>2. h.seen[k].error = g.seen[k].error
    BY DEF Alike
  <2>3. h.hardware = g.hardware
    BY DEF Alike
  <2> QED
    BY <2>1, <2>2, <2>3, AlikeSessions DEF StatusItems
<1>5. Fixed(h, k, o, NoVendor) = Fixed(g, k, o, NoVendor)
  <2>1. Chart(h, k, o) = Chart(g, k, o)
    BY AlikeSessions
  <2> QED
    BY <1>4, <2>1 DEF Fixed
<1>6. g.here /\ h.here /\ k \in h.base.connectors
  BY DEF Plain, Alike
<1>7. Active(h, k) = Active(g, k)
  BY AlikeSessions
<1> DEFINE names(v) == InOrder({tile \in o.tiles : HasTile(v, k, o, tile)})
           tiles(v) == [i \in DOMAIN names(v) |-> [type |-> "tile", shows |-> <<names(v)[i], Active(v, k) # NoTx>>]]
<1>8. /\ BuildChargerWidget(g, o, NoVendor) = Arranged(Heading(g, k), tiles(g), Fixed(g, k, o, NoVendor))
      /\ BuildChargerWidget(h, o, NoVendor) = Arranged(Heading(h, k), tiles(h), Fixed(h, k, o, NoVendor))
  BY <1>6 DEF BuildChargerWidget
<1>9. names(h) = names(g)
  BY <1>2
<1> HIDE DEF names
<1>10. tiles(h) = tiles(g)
  BY <1>7, <1>9
<1> QED
  BY <1>3, <1>5, <1>8, <1>10

Knowable == ~zeroed => Plain(gateway)

\* What the gateway has learnt in a step, but for the vendor and the model.
Known == [gateway' EXCEPT !.hardware = gateway.hardware]

\* widgetSignature() tells Gladys of everything that buildChargerWidget() shows
\* beyond numbers and apart from the vendor and the model: a step that leaves the
\* one leaves the other components, unless the meter was set back.
THEOREM TheSignatureTells == Spec => SignatureTells
<1> DEFINE Told == Known # gateway /\ ~zeroed' /\ WidgetSignature(Known, NoVendor) = WidgetSignature(gateway, NoVendor)
                   => \A s \in Shows :
                        LET o == NormalizeWidgetSettings(s)
                        IN BuildChargerWidget(Known, o, NoVendor) = BuildChargerWidget(gateway, o, NoVendor)
<1>1. Invariant => Knowable /\ gateway \in GatewayView
  BY TheViewIsPlain DEF Knowable, Invariant, Types, ViewIsFine
<1>2. /\ Invariant /\ Knowable /\ gateway \in GatewayView /\ Knowable' /\ (gateway \in GatewayView)'
      /\ [Next]_vars
      => [Told]_vars
  <2> SUFFICES ASSUME Invariant, Knowable, Knowable', gateway' \in GatewayView, [Next]_vars, ~zeroed',
                      WidgetSignature(Known, NoVendor) = WidgetSignature(gateway, NoVendor),
                      NEW s \in Shows, NEW o, o = NormalizeWidgetSettings(s)
               PROVE  BuildChargerWidget(Known, o, NoVendor) = BuildChargerWidget(gateway, o, NoVendor)
    OBVIOUS
  <2>1. Types /\ Step /\ TransactionsAreFine
    BY TypesStep DEF Invariant
  <2>2. ~zeroed
    BY <2>1 DEF Step, Quiet, Sends, Alone, HeardAndAnswered, HeardAndRefused, Cut, ghosts
  <2>3. SameButHardware(gateway', Known) /\ Known.hardware = gateway.hardware
    BY ViewFields DEF SameButHardware, Known
  <2>4. Plain(gateway) /\ Plain(Known)
    <3>1. Plain(gateway) /\ Plain(gateway)'
      BY <2>2 DEF Knowable
    <3>2. SameButHardware(Known, gateway')
      BY <2>3 DEF SameButHardware
    <3> QED
      BY <3>1, <3>2, PlainAnyway
  <2>5. o.chart \in Charts /\ o.tiles \subseteq Tiles
    BY NormalSettings, SimulatorAssumption DEF SimulatorAssumption
  <2>6. /\ gateway.base.connectors = Known.base.connectors
        /\ HeadTx(Known.base.history) = HeadTx(gateway.base.history)
        /\ k \in gateway.base.connectors =>
             /\ gateway.base.shown[k] = Known.base.shown[k]
             /\ gateway.seen[k].status = Known.seen[k].status /\ gateway.seen[k].error = Known.seen[k].error
             /\ \A f \in {"powerOffered", "currentOffered"} : gateway.seen[k].values[f] = Known.seen[k].values[f]
    BY SignatureFields
  <2>7. Known.base.history = gateway.base.history
    BY <2>1, <2>3, <2>6, NewestTells DEF SameButHardware
  <2>8. CASE o.connector \notin gateway.base.connectors
    BY <2>6, <2>8 DEF BuildChargerWidget
  <2>9. CASE o.connector \in gateway.base.connectors
    <3>1. o.connector = k /\ k \in gateway.base.connectors
      BY <2>4, <2>9 DEF Plain
    <3>2. Alike(gateway, Known)
      BY <2>3, <2>6, <2>7, <3>1 DEF Alike
    <3> QED
      BY <2>4, <2>5, <3>1, <3>2, AlikeWidgets
  <2> QED
    BY <2>8, <2>9
<1>3. [][Told]_vars => SignatureTells
  BY PTL DEF SignatureTells, Known
<1> QED
  BY <1>1, <1>2, <1>3, InvariantIsInductive, PTL DEF Spec
==============================================================================
