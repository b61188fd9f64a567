--------------------------- MODULE DiscoveryProofs ---------------------------
(***************************************************************************)
(* Proofs about discovery, events and polling, for any number of handlers  *)
(* at once, of states, of connectors, of connections and of failures.      *)
(*                                                                         *)
(* Two facts carry everything.  Whatever is on its way to Gladys was the   *)
(* state of the charge point before (SeenOnly), which makes every step one *)
(* of Mirror.  And as long as no event was lost or overtaken, the last     *)
(* state is on its way or has arrived (InHand, Handed).                    *)
(***************************************************************************)
EXTENDS Discovery, TLAPS

PublisherTask == [of : {"event", "list", "connected"},
                  step : {"fetch", "got", "publish", "taken"}, list : Lists, charger : Chargers]
PollTask == [of : {"poll"}, step : {"publish"}, charger : Chargers]

\* What a handler carries was seen; an event that carries the last state knows of
\* the connectors that the charge point shows.
Seen(task, c) ==
    task.step # "idle" =>
      /\ task.charger.version <= c.version
      /\ task.of = "poll" => task.charger.version > 0
      /\ task.of = "event" /\ task.charger.version = c.version /\ c.shape > 0 => task.charger.shape > 0

SeenOnly ==
    /\ queue <= charger.version /\ shown <= charger.version /\ widgetSig <= charger.version
    /\ charger.shape > 0 => charger.version > 0
    /\ \A t \in Slots : Seen(tasks[t], charger)

Carries(t) == Of(t, {"event"}) /\ tasks[t].charger.version = charger.version

\* The last state waits for its timer, is carried by an event, or was handled.
InHand == ~gap => \/ notified
                  \/ \E t \in Slots : Carries(t)
                  \/ widgetSig = charger.version

\* Once handled it is in the queue or in Gladys.
Handed == ~gap /\ widgetSig = charger.version /\ charger.shape > 0 /\ ~stopped =>
            queue = charger.version \/ (queue = 0 /\ shown = charger.version)

\* Whose list Gladys has still awaits its answer.
TakerAwaits == taker # NoSlot => tasks[taker].step = "taken" /\ tasks[taker].list = discovered

\* Gladys was asked to pull the widgets for the signature that is remembered.
Asked == ~refused => asked = widgetSig

Remembered == TakerAwaits /\ RememberedIsListed /\ Asked

DInv == TypeOK /\ SeenOnly /\ Remembered /\ InHand /\ Handed

-----------------------------------------------------------------------------
LEMMA Kinds == Task = PublisherTask \cup PollTask
BY DEF Task, PublisherTask, PollTask

LEMMA TaskOf ==
    ASSUME TypeOK, NEW t \in Slots
    PROVE  tasks[t] \in PublisherTask \/ tasks[t] \in PollTask \/ tasks[t] = Idle
BY Kinds DEF TypeOK

LEMMA PublisherIs ==
    ASSUME TypeOK, NEW t \in Slots, Publisher(t)
    PROVE  tasks[t] \in PublisherTask
BY TaskOf DEF Publisher, Of, At, Idle, PollTask

LEMMA FreeIsIdle ==
    ASSUME NEW t, Free(t)
    PROVE  t \in Slots /\ tasks[t].step = "idle"
<1>1. \E i \in Idles : TRUE
  BY DEF Free
<1>2. t \in Idles
  BY <1>1 DEF Free
<1> QED
  BY <1>2 DEF Idles, At

LEMMA ChargerFields ==
    ASSUME TypeOK
    PROVE  charger.known \in BOOLEAN /\ charger.shape \in Nat /\ charger.version \in Nat
BY DiscoveryAssumption DEF TypeOK, Chargers, Shapes, Versions, DiscoveryAssumption

\* A step of one handler that leaves the charge point alone.
LEMMA OneTask ==
    ASSUME DInv, NEW t \in Slots, NEW r \in Task \cup {Idle}, Seen(r, charger),
           tasks' = [tasks EXCEPT ![t] = r], charger' = charger
    PROVE  /\ tasks' \in [Slots -> Task \cup {Idle}]
           /\ \A s \in Slots : Seen(tasks'[s], charger')
           /\ \A s \in Slots \ {t} : tasks'[s] = tasks[s]
           /\ tasks'[t] = r
<1>1. tasks \in [Slots -> Task \cup {Idle}] /\ \A s \in Slots : Seen(tasks[s], charger)
  BY DEF DInv, TypeOK, SeenOnly
<1>2. tasks' \in [Slots -> Task \cup {Idle}]
  BY <1>1
<1>3. \A s \in Slots \ {t} : tasks'[s] = tasks[s]
  BY <1>1
<1>4. tasks'[t] = r
  BY <1>1
<1>5. \A s \in Slots : Seen(tasks'[s], charger)
  BY <1>1, <1>3, <1>4
<1> QED
  BY <1>2, <1>3, <1>4, <1>5

\* The handler whose answer is awaited is not the one that moves.
LEMMA TakerStays ==
    ASSUME DInv, NEW t \in Slots, tasks[t].step # "taken", NEW r \in Task \cup {Idle},
           tasks' = [tasks EXCEPT ![t] = r], UNCHANGED <<taker, discovered>>
    PROVE  TakerAwaits'
<1> SUFFICES ASSUME taker # NoSlot
             PROVE  tasks'[taker].step = "taken" /\ tasks'[taker].list = discovered
  BY DEF TakerAwaits
<1>1. taker \in Slots /\ tasks \in [Slots -> Task \cup {Idle}]
  BY DEF DInv, TypeOK
<1>2. tasks[taker].step = "taken" /\ tasks[taker].list = discovered
  BY DEF DInv, Remembered, TakerAwaits
<1> QED
  BY <1>1, <1>2

LEMMA IdleIsSeen == Seen(Idle, charger) /\ Idle.step = "idle"
BY DEF Seen, Idle

\* A handler that goes on keeps what it is and what it carries.
LEMMA GoesOn ==
    ASSUME DInv, NEW t \in Slots, Publisher(t), NEW step \in {"got", "publish", "taken"}, NEW list \in Lists,
           tasks' = [tasks EXCEPT ![t].step = step, ![t].list = list], charger' = charger
    PROVE  /\ tasks' \in [Slots -> Task \cup {Idle}]
           /\ \A s \in Slots : Seen(tasks'[s], charger')
           /\ \A s \in Slots : Carries(s) => Carries(s)'
           /\ tasks'[t].step = step /\ tasks'[t].list = list
           /\ \A s \in Slots \ {t} : tasks'[s] = tasks[s]
<1> DEFINE r == [tasks[t] EXCEPT !.step = step, !.list = list]
<1>1. tasks[t] \in PublisherTask
  BY PublisherIs DEF DInv
<1>2. /\ r \in PublisherTask
      /\ r.of = tasks[t].of /\ r.charger = tasks[t].charger /\ r.step # "idle" /\ tasks[t].step # "idle"
      /\ r.step = step /\ r.list = list
  BY <1>1 DEF PublisherTask
<1>3. tasks' = [tasks EXCEPT ![t] = r]
  BY DEF DInv, TypeOK
<1>4. Seen(tasks[t], charger)
  BY DEF DInv, SeenOnly
<1> HIDE DEF r
<1>5. Seen(r, charger)
  BY <1>2, <1>4 DEF Seen
<1>6. r \in Task \cup {Idle}
  BY <1>2, Kinds
<1>7. /\ tasks' \in [Slots -> Task \cup {Idle}]
      /\ \A s \in Slots : Seen(tasks'[s], charger')
      /\ \A s \in Slots \ {t} : tasks'[s] = tasks[s]
      /\ tasks'[t] = r
  BY <1>3, <1>5, <1>6, OneTask
<1>8. ASSUME NEW s \in Slots, Carries(s) PROVE Carries(s)'
  <2>1. tasks'[s].of = tasks[s].of /\ tasks'[s].charger = tasks[s].charger /\ tasks'[s].step # "idle"
    BY <1>2, <1>7, <1>8 DEF Carries, Of, At
  <2> QED
    BY <2>1, <1>8 DEF Carries, Of, At
<1> QED
  BY <1>2, <1>7, <1>8

\* A handler begins in a free slot.
LEMMA Begins ==
    ASSUME DInv, NEW t \in Slots, Free(t), NEW r \in Task, Seen(r, charger),
           tasks' = [tasks EXCEPT ![t] = r], charger' = charger
    PROVE  /\ tasks' \in [Slots -> Task \cup {Idle}]
           /\ \A s \in Slots : Seen(tasks'[s], charger')
           /\ \A s \in Slots : Carries(s) => Carries(s)'
           /\ tasks'[t] = r
<1>1. /\ tasks' \in [Slots -> Task \cup {Idle}]
      /\ \A s \in Slots : Seen(tasks'[s], charger')
      /\ \A s \in Slots \ {t} : tasks'[s] = tasks[s]
      /\ tasks'[t] = r
  BY OneTask
<1>2. ASSUME NEW s \in Slots, Carries(s) PROVE Carries(s)'
  <2>1. s # t
    BY <1>2, FreeIsIdle DEF Carries, Of, At
  <2>2. tasks'[s] = tasks[s]
    BY <1>1, <2>1
  <2> QED
    BY <1>2, <2>2 DEF Carries, Of, At
<1> QED
  BY <1>1, <1>2

\* Where the last state of the charge point is handled, all is in hand; an older
\* one changes nothing or is one too late.
LEMMA HandlesAll ==
    ASSUME DInv, NEW e \in Chargers, Handle(e), e.version <= charger.version,
           e.version = charger.version /\ charger.shape > 0 => e.shape > 0,
           charger' = charger, stopped' = stopped, shown' = shown
    PROVE  /\ queue' \in Versions /\ widgetSig' \in Versions /\ gap' \in BOOLEAN
           /\ queue' <= charger.version /\ widgetSig' <= charger.version
           /\ Handed'
           /\ asked' \in Versions /\ refused' \in BOOLEAN /\ faults' \in 0..MaxFaults /\ Asked'
           /\ ~gap' => widgetSig' = charger.version \/ (~gap /\ widgetSig # charger.version)
           /\ e.version = charger.version => widgetSig' = charger.version
<1>1. /\ e.version \in Versions /\ e.version \in Nat /\ e.shape \in Nat
      /\ charger.version \in Nat /\ charger.shape \in Nat
      /\ queue \in Versions /\ widgetSig \in Nat /\ gap \in BOOLEAN /\ stopped \in BOOLEAN
  BY ChargerFields, DiscoveryAssumption DEF DInv, TypeOK, Chargers, Versions, Shapes, DiscoveryAssumption
<1>2. queue <= charger.version /\ widgetSig <= charger.version
  BY DEF DInv, SeenOnly
<1>3. /\ queue' = IF e.shape > 0 /\ ~stopped THEN e.version ELSE queue
      /\ widgetSig' = e.version
      /\ gap' = ((gap /\ e.version # charger.version) \/ e.version < widgetSig)
  BY DEF Handle
<1>4. Handed'
  <2> SUFFICES ASSUME widgetSig' = charger.version, charger.shape > 0, ~stopped
               PROVE  queue' = charger.version
    BY DEF Handed
  <2>1. e.version = charger.version
    BY <1>3
  <2>2. e.shape > 0
    BY <2>1
  <2>3. queue' = e.version
    BY <1>1, <1>3, <2>2
  <2> QED
    BY <2>1, <2>3
<1>5. ~gap' => widgetSig' = charger.version \/ (~gap /\ widgetSig # charger.version)
  <2> SUFFICES ASSUME ~gap', widgetSig' # charger.version
               PROVE  ~gap /\ widgetSig # charger.version
    OBVIOUS
  <2>1. e.version # charger.version
    BY <1>3
  <2>2. ~gap /\ ~(e.version < widgetSig)
    BY <1>3, <2>1
  <2> QED
    BY <1>1, <1>2, <2>1, <2>2
<1>6. asked' \in Versions /\ refused' \in BOOLEAN /\ faults' \in 0..MaxFaults /\ Asked'
  <2>0. /\ asked \in Versions /\ refused \in BOOLEAN /\ faults \in 0..MaxFaults /\ Asked
        /\ MaxFaults \in Nat
    BY DiscoveryAssumption DEF DInv, TypeOK, Remembered, DiscoveryAssumption
  <2>1. CASE e.version = widgetSig
    <3>1. UNCHANGED <<asked, refused, faults>>
      BY <2>1 DEF Handle
    <3> QED
      BY <1>3, <2>0, <2>1, <3>1 DEF Asked
  <2>2. CASE e.version # widgetSig
    <3>1. AskWidgets(e.version)
      BY <2>2 DEF Handle
    <3>2. CASE asked' = e.version /\ refused' = FALSE /\ UNCHANGED faults
      BY <1>1, <1>3, <2>0, <3>2 DEF Asked
    <3>3. CASE Fault /\ refused' = TRUE /\ UNCHANGED asked
      <4>1. faults' \in 0..MaxFaults
        BY <2>0, <3>3 DEF Fault
      <4> QED
        BY <2>0, <3>3, <4>1 DEF Asked
    <3> QED
      BY <3>1, <3>2, <3>3 DEF AskWidgets
  <2> QED
    BY <2>1, <2>2
<1> QED
  BY <1>1, <1>2, <1>3, <1>4, <1>5, <1>6

-----------------------------------------------------------------------------
LEMMA InitDInv == Init => DInv
<1> SUFFICES ASSUME Init PROVE DInv
  OBVIOUS
<1>0. 0 \in Versions /\ 0 \in Shapes /\ 0 \in 0..MaxConnects /\ 0 \in 0..MaxFaults
  BY DiscoveryAssumption DEF Shapes, Versions, DiscoveryAssumption
<1>1. TypeOK
  <2>1. charger \in Chargers
    BY <1>0 DEF Init, Chargers
  <2>2. tasks \in [Slots -> Task \cup {Idle}]
    BY DEF Init
  <2> QED
    BY <1>0, <2>1, <2>2 DEF Init, TypeOK, Lists
<1>2. charger.version = 0 /\ charger.shape = 0 /\ queue = 0 /\ shown = 0 /\ widgetSig = 0 /\ signature = NoList
      /\ taker = NoSlot /\ asked = 0
  BY DEF Init
<1>3. \A t \in Slots : Seen(tasks[t], charger)
  BY IdleIsSeen DEF Init
<1>4. SeenOnly
  BY <1>2, <1>3 DEF SeenOnly
<1> QED
  BY <1>1, <1>2, <1>4 DEF DInv, Remembered, TakerAwaits, RememberedIsListed, Asked, InHand, Handed

LEMMA ObserveDInv ==
    ASSUME DInv, NEW shape \in Shapes, Observe(shape)
    PROVE  DInv'
<1>1. /\ charger' = [known |-> TRUE, shape |-> shape, version |-> charger.version + 1]
      /\ charger.version < MaxVersion /\ notified' = TRUE
      /\ UNCHANGED <<loop, memory, tasks, queue, gladys, counters, ghosts>>
  BY DEF Observe
<1>2. charger' \in Chargers /\ charger'.version = charger.version + 1
  BY <1>1, ChargerFields, DiscoveryAssumption DEF DInv, Chargers, Versions, DiscoveryAssumption
<1>3. TypeOK'
  BY <1>1, <1>2 DEF DInv, TypeOK, memory, gladys, counters, ghosts, lists
<1>4. charger.version \in Nat /\ queue \in Nat /\ shown \in Nat /\ widgetSig \in Nat
  BY ChargerFields, DiscoveryAssumption DEF DInv, TypeOK, Versions, DiscoveryAssumption
<1>5. widgetSig' = widgetSig /\ queue' = queue /\ shown' = shown /\ tasks' = tasks
  BY <1>1 DEF memory, gladys
<1>6. ASSUME NEW t \in Slots PROVE Seen(tasks[t], charger')
  <2> SUFFICES ASSUME tasks[t].step # "idle" PROVE Seen(tasks[t], charger')
    BY DEF Seen
  <2>1. tasks[t].charger \in Chargers
    BY TaskOf DEF DInv, PublisherTask, PollTask, Idle
  <2>2. tasks[t].charger.version \in Nat
    BY <2>1, DiscoveryAssumption DEF Chargers, Versions, DiscoveryAssumption
  <2>3. Seen(tasks[t], charger)
    BY DEF DInv, SeenOnly
  <2> QED
    BY <2>2, <2>3, <1>2, <1>4 DEF Seen
<1>7. SeenOnly'
  BY <1>2, <1>4, <1>5, <1>6 DEF SeenOnly, DInv
<1>8. Remembered'
  BY <1>1 DEF DInv, Remembered, TakerAwaits, RememberedIsListed, Asked, memory, gladys, ghosts, lists
<1>9. InHand' /\ Handed'
  BY <1>1, <1>2, <1>4, <1>5, <1>7 DEF InHand, Handed, DInv, SeenOnly
<1> QED
  BY <1>3, <1>7, <1>8, <1>9 DEF DInv

\* The charge point forgets its connectors, and maybe that it was known.
LEMMA Forgets ==
    ASSUME DInv, charger' \in Chargers, charger'.version = charger.version, charger'.shape = 0,
           UNCHANGED <<memory, tasks, queue, gladys, refused, lists>>, gap' \in BOOLEAN,
           ~gap' => ~gap /\ notified' = notified
    PROVE  SeenOnly' /\ Remembered' /\ InHand' /\ Handed'
<1>1. /\ widgetSig' = widgetSig /\ queue' = queue /\ shown' = shown /\ tasks' = tasks
      /\ signature' = signature /\ discovered' = discovered /\ stopped' = stopped
      /\ asked' = asked /\ refused' = refused /\ taker' = taker /\ unsure' = unsure
  BY DEF memory, gladys, lists
<1>2. \A t \in Slots : Seen(tasks[t], charger')
  BY DEF DInv, SeenOnly, Seen
<1>3. SeenOnly'
  BY <1>1, <1>2 DEF DInv, SeenOnly
<1>4. Remembered'
  BY <1>1 DEF DInv, Remembered, TakerAwaits, RememberedIsListed, Asked
<1>5. \A t \in Slots : Carries(t) => Carries(t)'
  BY <1>1 DEF Carries, Of, At
<1>6. InHand'
  BY <1>1, <1>5 DEF DInv, InHand
<1>7. Handed'
  BY DEF Handed
<1> QED
  BY <1>3, <1>4, <1>6, <1>7

LEMMA ForgettingDInv ==
    ASSUME DInv, Reset \/ GatewayRestarts
    PROVE  DInv'
<1>0. charger \in Chargers /\ 0 \in Shapes /\ FALSE \in BOOLEAN
  BY DiscoveryAssumption DEF DInv, TypeOK, Shapes, DiscoveryAssumption
<1>1. /\ charger' \in Chargers /\ charger'.version = charger.version /\ charger'.shape = 0
      /\ UNCHANGED <<memory, tasks, queue, gladys, connects, refused, lists>>
  <2>1. CASE Reset
    BY <2>1, <1>0 DEF Reset, Chargers, ghosts
  <2>2. CASE GatewayRestarts
    <3>1. charger' = [charger EXCEPT !.known = FALSE, !.shape = 0]
      BY <2>2 DEF GatewayRestarts
    <3>2. charger' \in Chargers /\ charger'.version = charger.version /\ charger'.shape = 0
      BY <3>1, <1>0 DEF Chargers
    <3> QED
      BY <2>2, <3>2 DEF GatewayRestarts
  <2> QED
    BY <2>1, <2>2
<1>2. gap' \in BOOLEAN /\ notified' \in BOOLEAN /\ (~gap' => ~gap /\ notified' = notified)
  BY DEF DInv, TypeOK, Reset, GatewayRestarts, ghosts
<1>3. SeenOnly' /\ Remembered' /\ InHand' /\ Handed'
  BY <1>1, <1>2, Forgets
<1>4. faults' \in 0..MaxFaults /\ loop' \in {"off", "closed", "open"}
  BY DiscoveryAssumption DEF DInv, TypeOK, Reset, GatewayRestarts, Fault, DiscoveryAssumption
<1>5. TypeOK'
  BY <1>1, <1>2, <1>4 DEF DInv, TypeOK, memory, gladys, lists
<1> QED
  BY <1>3, <1>5 DEF DInv

\* What happens to the stream, and to a notification that it does not carry.
LEMMA StreamDInv ==
    ASSUME DInv, StreamOpens \/ StreamLost \/ EmitUnheard
    PROVE  DInv'
<1>1. /\ UNCHANGED <<memory, tasks, queue, gladys, connects, charger, refused, lists>>
      /\ gap' \in BOOLEAN /\ notified' \in BOOLEAN
      /\ ~gap' => ~gap /\ notified' = notified
  BY DEF DInv, TypeOK, StreamOpens, StreamLost, EmitUnheard, Emit, gateway, ghosts, counters
<1>2. faults' \in 0..MaxFaults /\ loop' \in {"off", "closed", "open"}
  BY DiscoveryAssumption
     DEF DInv, TypeOK, StreamOpens, StreamLost, EmitUnheard, Fault, counters, DiscoveryAssumption
<1>3. TypeOK'
  BY <1>1, <1>2 DEF DInv, TypeOK, memory, gladys, lists
<1>4. \A t \in Slots : Carries(t) => Carries(t)'
  BY <1>1 DEF Carries, Of, At
<1>5. SeenOnly' /\ Remembered'
  BY <1>1 DEF DInv, SeenOnly, Remembered, TakerAwaits, RememberedIsListed, Asked, memory, gladys, lists
<1>6. InHand' /\ Handed'
  BY <1>1, <1>4 DEF DInv, InHand, Handed, memory, gladys
<1> QED
  BY <1>3, <1>5, <1>6 DEF DInv

LEMMA KnownShapeDInv ==
    ASSUME DInv, KnownShape
    PROVE  DInv'
<1>1. /\ Handle(charger) /\ notified' = FALSE
      /\ UNCHANGED <<charger, loop, shapes, signature, timer, stopped, tasks, discovered, shown, connects, lists>>
  BY DEF KnownShape, Emit
<1>2. charger \in Chargers /\ charger.version <= charger.version
  BY ChargerFields DEF DInv, TypeOK
<1>3. /\ queue' \in Versions /\ widgetSig' \in Versions /\ gap' \in BOOLEAN
      /\ queue' <= charger.version /\ widgetSig' <= charger.version
      /\ Handed' /\ widgetSig' = charger.version
      /\ asked' \in Versions /\ refused' \in BOOLEAN /\ faults' \in 0..MaxFaults /\ Asked'
  BY <1>1, <1>2, HandlesAll
<1>4. TypeOK'
  BY <1>1, <1>3 DEF DInv, TypeOK, lists
<1>5. SeenOnly' /\ Remembered' /\ InHand'
  BY <1>1, <1>3 DEF DInv, SeenOnly, Remembered, TakerAwaits, RememberedIsListed, InHand, lists
<1> QED
  BY <1>3, <1>4, <1>5 DEF DInv

LEMMA NewShapeDInv ==
    ASSUME DInv, NEW t \in Slots, NewShape(t)
    PROVE  DInv'
<1> DEFINE r == [of |-> "event", step |-> "fetch", list |-> 0, charger |-> charger]
<1>1. /\ tasks' = [tasks EXCEPT ![t] = r] /\ Free(t) /\ shapes' = charger.shape /\ notified' = FALSE
      /\ UNCHANGED <<charger, loop, signature, widgetSig, timer, stopped, queue, gladys, counters, ghosts>>
  BY DEF NewShape, Emit
<1>2. r \in Task /\ charger.shape \in Shapes
  BY DiscoveryAssumption DEF DInv, TypeOK, Task, Lists, Shapes, Chargers, DiscoveryAssumption
<1>3. Seen(r, charger) /\ r.of = "event" /\ r.step # "idle" /\ r.charger = charger
  BY ChargerFields DEF Seen, DInv
<1> HIDE DEF r
<1>4. /\ tasks' \in [Slots -> Task \cup {Idle}]
      /\ \A s \in Slots : Seen(tasks'[s], charger')
      /\ tasks'[t] = r
  BY <1>1, <1>2, <1>3, Begins
<1>5. TypeOK'
  BY <1>1, <1>2, <1>4 DEF DInv, TypeOK, gladys, counters, ghosts, lists
<1>6. TakerAwaits'
  BY <1>1, <1>2, FreeIsIdle, TakerStays DEF gladys, ghosts, lists
<1>7. Carries(t)'
  BY <1>1, <1>3, <1>4 DEF Carries, Of, At
<1>8. SeenOnly' /\ Remembered' /\ Handed'
  BY <1>1, <1>4, <1>6 DEF DInv, SeenOnly, Remembered, RememberedIsListed, Asked, Handed, gladys, ghosts, lists
<1> QED
  BY <1>5, <1>7, <1>8 DEF DInv, InHand

\* The handlers that publish the list, up to the call.
LEMMA OnTheWayDInv ==
    ASSUME DInv, NEW t \in Slots, Fetched(t) \/ Publishes(t)
    PROVE  DInv'
<1>0. Publisher(t) /\ tasks[t].step # "taken"
  BY TaskOf DEF DInv, Fetched, Publishes, Publisher, Of, At, PublisherTask, PollTask, Idle
<1>1. /\ Publisher(t) /\ charger' = charger
      /\ UNCHANGED <<gateway, loop, memory, queue, gladys, connects, ghosts>>
  BY <1>0 DEF Fetched, Publishes, gateway, counters
<1>2. faults' \in 0..MaxFaults
  BY DiscoveryAssumption DEF DInv, TypeOK, Fetched, Publishes, Answers, Fault, counters, DiscoveryAssumption
<1>3. /\ tasks' \in [Slots -> Task \cup {Idle}]
      /\ \A s \in Slots : Seen(tasks'[s], charger')
      /\ \A s \in Slots : Carries(s) => Carries(s)'
      /\ \A s \in Slots \ {t} : tasks'[s] = tasks[s]
  <2>1. CASE Fetched(t)
    <3>1. PICK list \in Lists : tasks' = [tasks EXCEPT ![t].step = "got", ![t].list = list]
      BY <2>1 DEF Fetched
    <3> QED
      BY <1>1, <3>1, GoesOn
  <2>2. CASE Publishes(t)
    <3>1. tasks[t] \in PublisherTask
      BY <1>1, PublisherIs DEF DInv
    <3>2. tasks[t].list \in Lists /\ tasks' = [tasks EXCEPT ![t].step = "publish"]
      BY <2>2, <3>1 DEF Publishes, PublisherTask
    <3>3. [tasks[t] EXCEPT !.step = "publish"] = [tasks[t] EXCEPT !.step = "publish", !.list = tasks[t].list]
      BY <3>1 DEF PublisherTask
    <3>4. tasks' = [tasks EXCEPT ![t].step = "publish", ![t].list = tasks[t].list]
      BY <3>2, <3>3 DEF DInv, TypeOK
    <3> QED
      BY <1>1, <3>2, <3>4, GoesOn
  <2> QED
    BY <2>1, <2>2
<1>4. TypeOK'
  BY <1>1, <1>2, <1>3 DEF DInv, TypeOK, gateway, memory, gladys, ghosts, lists
<1>5. TakerAwaits'
  <2>1. taker # NoSlot => taker \in Slots \ {t}
    BY <1>0 DEF DInv, TypeOK, Remembered, TakerAwaits
  <2> QED
    BY <1>1, <1>3, <2>1 DEF DInv, Remembered, TakerAwaits, gladys, ghosts, lists
<1>6. SeenOnly' /\ Remembered' /\ InHand' /\ Handed'
  BY <1>1, <1>3, <1>5
     DEF DInv, SeenOnly, Remembered, RememberedIsListed, Asked, InHand, Handed, gateway, memory, gladys, ghosts, lists
<1> QED
  BY <1>4, <1>6 DEF DInv

\* Gladys takes the list of a handler, whose answer is awaited from here on.
LEMMA TakenDInv ==
    ASSUME DInv, NEW t \in Slots, Taken(t)
    PROVE  DInv'
<1>1. /\ Publisher(t) /\ charger' = charger
      /\ tasks' = [tasks EXCEPT ![t].step = "taken"]
      /\ discovered' = tasks[t].list /\ taker' = t
      /\ UNCHANGED <<gateway, loop, memory, queue, shown, asked, counters, gap, refused, unsure>>
  BY DEF Taken, gateway
<1>2. tasks[t] \in PublisherTask
  BY <1>1, PublisherIs DEF DInv
<1>3. tasks[t].list \in Lists
  BY <1>2 DEF PublisherTask
<1>4. /\ tasks' \in [Slots -> Task \cup {Idle}]
      /\ \A s \in Slots : Seen(tasks'[s], charger')
      /\ \A s \in Slots : Carries(s) => Carries(s)'
      /\ tasks'[t].step = "taken" /\ tasks'[t].list = tasks[t].list
  <2>1. [tasks[t] EXCEPT !.step = "taken"] = [tasks[t] EXCEPT !.step = "taken", !.list = tasks[t].list]
    BY <1>2 DEF PublisherTask
  <2>2. tasks' = [tasks EXCEPT ![t].step = "taken", ![t].list = tasks[t].list]
    BY <1>1, <2>1 DEF DInv, TypeOK
  <2> QED
    BY <1>1, <1>3, <2>2, GoesOn
<1>5. TypeOK'
  BY <1>1, <1>3, <1>4 DEF DInv, TypeOK, gateway, memory, counters
<1>6. Remembered'
  <2>1. t # NoSlot
    BY DiscoveryAssumption DEF DiscoveryAssumption
  <2> QED
    BY <1>1, <1>4, <2>1 DEF DInv, Remembered, TakerAwaits, RememberedIsListed, Asked, memory
<1>7. SeenOnly' /\ InHand' /\ Handed'
  BY <1>1, <1>4 DEF DInv, SeenOnly, InHand, Handed, gateway, memory
<1> QED
  BY <1>5, <1>6, <1>7 DEF DInv

\* The handlers that begin: the refresh, the scan, the reconnection, the poll.
LEMMA BeginsDInv ==
    ASSUME DInv, NEW t \in Slots, Refresh(t) \/ Scan(t) \/ Connected(t) \/ PollFetched(t)
    PROVE  DInv'
<1>1. /\ Free(t) /\ charger' = charger
      /\ UNCHANGED <<gateway, loop, memory, queue, gladys, ghosts>>
  BY DEF Refresh, Scan, Connected, PollFetched, Begin, gateway
<1>2. connects' \in 0..MaxConnects /\ faults' \in 0..MaxFaults
  <2>1. /\ connects' = connects \/ (connects < MaxConnects /\ connects' = connects + 1)
        /\ faults' = faults \/ (faults < MaxFaults /\ faults' = faults + 1)
    BY DEF Refresh, Scan, Connected, PollFetched, Begin, Answers, Fault, counters
  <2> QED
    BY <2>1, DiscoveryAssumption DEF DInv, TypeOK, DiscoveryAssumption
<1>3. PICK r \in Task : tasks' = [tasks EXCEPT ![t] = r] /\ Seen(r, charger)
  <2>1. CASE PollFetched(t)
    <3> DEFINE r == [of |-> "poll", step |-> "publish", charger |-> charger]
    <3>1. r \in Task
      BY DEF DInv, TypeOK, Task
    <3>2. Seen(r, charger)
      BY <2>1, ChargerFields DEF Seen, PollFetched, DInv, SeenOnly
    <3> QED
      BY <2>1, <3>1, <3>2 DEF PollFetched
  <2>2. ASSUME NEW handler \in {"list", "connected"}, NEW step \in {"got", "publish"}, Begin(t, handler, step)
        PROVE  \E r \in Task : tasks' = [tasks EXCEPT ![t] = r] /\ Seen(r, charger)
    <3>1. PICK list \in Lists : tasks' = [tasks EXCEPT ![t] =
              [of |-> handler, step |-> step, list |-> list, charger |-> Unreachable]]
      BY <2>2 DEF Begin
    <3> DEFINE r == [of |-> handler, step |-> step, list |-> list, charger |-> Unreachable]
    <3>2. Unreachable \in Chargers /\ Unreachable.version = 0
      BY DiscoveryAssumption DEF Unreachable, Chargers, Shapes, Versions, DiscoveryAssumption
    <3>3. r \in Task
      BY <3>2 DEF Task
    <3>4. Seen(r, charger)
      BY <3>2, ChargerFields DEF Seen, DInv
    <3> QED
      BY <3>1, <3>3, <3>4
  <2> QED
    BY <2>1, <2>2 DEF Refresh, Scan, Connected
<1>4. /\ tasks' \in [Slots -> Task \cup {Idle}]
      /\ \A s \in Slots : Seen(tasks'[s], charger')
      /\ \A s \in Slots : Carries(s) => Carries(s)'
  BY <1>1, <1>3, Begins
<1>5. TypeOK'
  BY <1>1, <1>2, <1>4 DEF DInv, TypeOK, gateway, memory, gladys, ghosts, lists
<1>6. TakerAwaits'
  BY <1>1, <1>3, FreeIsIdle, TakerStays DEF gladys, ghosts, lists
<1>7. SeenOnly' /\ Remembered' /\ InHand' /\ Handed'
  BY <1>1, <1>4, <1>6
     DEF DInv, SeenOnly, Remembered, RememberedIsListed, Asked, InHand, Handed, gateway, memory, gladys, ghosts, lists
<1> QED
  BY <1>5, <1>7 DEF DInv

\* A handler ends: what other handlers carry stays.
LEMMA Ends ==
    ASSUME DInv, NEW t \in Slots, tasks' = [tasks EXCEPT ![t] = Idle], charger' = charger
    PROVE  /\ tasks' \in [Slots -> Task \cup {Idle}]
           /\ \A s \in Slots : Seen(tasks'[s], charger')
           /\ \A s \in Slots : Carries(s) /\ s # t => Carries(s)'
<1>1. /\ tasks' \in [Slots -> Task \cup {Idle}]
      /\ \A s \in Slots : Seen(tasks'[s], charger')
      /\ \A s \in Slots \ {t} : tasks'[s] = tasks[s]
  BY IdleIsSeen, OneTask
<1>2. ASSUME NEW s \in Slots, Carries(s), s # t PROVE Carries(s)'
  BY <1>1, <1>2 DEF Carries, Of, At
<1> QED
  BY <1>1, <1>2

\* The handler that ends is not the one whose answer is awaited afterwards.
LEMMA EndsTaker ==
    ASSUME DInv, NEW t \in Slots, tasks' = [tasks EXCEPT ![t] = Idle], discovered' = discovered,
           taker' \in {taker, NoSlot}, taker' # t
    PROVE  TakerAwaits'
<1> SUFFICES ASSUME taker' # NoSlot
             PROVE  tasks'[taker'].step = "taken" /\ tasks'[taker'].list = discovered
  BY DEF TakerAwaits
<1>1. taker' = taker /\ taker \in Slots \ {t} /\ tasks \in [Slots -> Task \cup {Idle}]
  BY DEF DInv, TypeOK
<1>2. tasks[taker].step = "taken" /\ tasks[taker].list = discovered
  BY <1>1 DEF DInv, Remembered, TakerAwaits
<1> QED
  BY <1>1, <1>2

LEMMA FinallyTypes ==
    ASSUME DInv, NEW t \in Slots, Finally(t)
    PROVE  /\ timer' \in BOOLEAN /\ loop' \in {"off", "closed", "open"}
           /\ tasks' = [tasks EXCEPT ![t] = Idle]
BY DEF DInv, TypeOK, Finally

\* publishDevices() has returned, with or without a publication.
LEMMA ReturnsDInv ==
    ASSUME DInv, NEW t \in Slots, Unchanged(t) \/ Published(t)
    PROVE  DInv'
<1>0. Publisher(t)
  <2>1. CASE Published(t)
    BY <2>1 DEF Published
  <2>2. CASE Unchanged(t)
    <3>1. tasks[t].step = "got"
      BY <2>2 DEF Unchanged, At
    <3>2. tasks[t] \in PublisherTask
      BY <3>1, TaskOf DEF DInv, PollTask, Idle
    <3> QED
      BY <3>1, <3>2 DEF PublisherTask, Publisher, Of, At
  <2> QED
    BY <2>1, <2>2
<1>1. /\ Returns(t) /\ Publisher(t) /\ charger' = charger /\ notified' = notified
      /\ UNCHANGED <<shapes, stopped, shown, connects, discovered>>
  BY <1>0 DEF Unchanged, Published, gateway
<1>2. tasks[t] \in PublisherTask
  BY <1>1, PublisherIs DEF DInv
<1>3. /\ signature' \in Lists \cup {NoList} /\ unsure' \in BOOLEAN /\ taker' \in Slots \cup {NoSlot}
      /\ taker' \in {taker, NoSlot} /\ taker' # t
      /\ RememberedIsListed'
  <2>0. t # NoSlot
    BY DiscoveryAssumption DEF DiscoveryAssumption
  <2>1. CASE Unchanged(t)
    <3>1. tasks[t].step = "got" /\ UNCHANGED <<signature, discovered, taker, unsure>>
      BY <2>1 DEF Unchanged, lists, At
    <3>2. taker # t
      BY <2>0, <3>1 DEF DInv, Remembered, TakerAwaits
    <3> QED
      BY <3>1, <3>2 DEF DInv, TypeOK, Remembered, RememberedIsListed
  <2>2. CASE Published(t)
    <3>1. tasks[t].list \in Lists /\ t # NoSlot
      BY <1>2, DiscoveryAssumption DEF PublisherTask, DiscoveryAssumption
    <3>2. /\ signature' = tasks[t].list /\ discovered' = discovered
          /\ taker' = IF taker = t THEN NoSlot ELSE taker
      BY <2>2 DEF Published
    <3>3. unsure' = CASE taker = t -> FALSE
                      [] taker = NoSlot -> tasks[t].list # discovered
                      [] OTHER -> unsure
      BY <2>2 DEF Published
    <3>4. CASE taker = t
      <4>1. tasks[t].list = discovered
        BY <3>1, <3>4 DEF DInv, Remembered, TakerAwaits
      <4> QED
        BY <3>1, <3>2, <3>3, <3>4, <4>1 DEF RememberedIsListed
    <3>5. CASE taker = NoSlot
      BY <3>1, <3>2, <3>3, <3>5 DEF RememberedIsListed
    <3>6. CASE taker # t /\ taker # NoSlot
      BY <3>1, <3>2, <3>3, <3>6 DEF DInv, TypeOK, RememberedIsListed
    <3> QED
      BY <3>4, <3>5, <3>6
  <2> QED
    BY <2>1, <2>2
<1>4. /\ timer' \in BOOLEAN /\ loop' \in {"off", "closed", "open"}
      /\ tasks' = [tasks EXCEPT ![t] = Idle]
  BY <1>1, FinallyTypes DEF Returns
<1>5. /\ tasks' \in [Slots -> Task \cup {Idle}]
      /\ \A s \in Slots : Seen(tasks'[s], charger')
      /\ \A s \in Slots : Carries(s) /\ s # t => Carries(s)'
  BY <1>1, <1>4, Ends
<1>6. /\ queue' \in Versions /\ widgetSig' \in Versions /\ gap' \in BOOLEAN
      /\ queue' <= charger.version /\ widgetSig' <= charger.version
      /\ asked' \in Versions /\ refused' \in BOOLEAN /\ faults' \in 0..MaxFaults
      /\ Handed' /\ InHand' /\ Asked'
  <2>1. CASE ~Of(t, {"event"})
    <3>1. UNCHANGED <<queue, widgetSig, asked, refused, faults, gap>>
      BY <1>1, <2>1 DEF Returns
    <3>2. \A s \in Slots : Carries(s) => Carries(s)'
      BY <1>5, <2>1 DEF Carries
    <3> QED
      BY <1>1, <3>1, <3>2 DEF DInv, TypeOK, SeenOnly, InHand, Handed, Remembered, Asked
  <2>2. CASE Of(t, {"event"})
    <3> DEFINE e == tasks[t].charger
    <3>1. Handle(e)
      BY <1>1, <2>2 DEF Returns
    <3>2. e \in Chargers /\ tasks[t].of = "event" /\ tasks[t].step # "idle"
      BY <1>2, <2>2 DEF PublisherTask, Of
    <3>3. /\ e.version <= charger.version
          /\ e.version = charger.version /\ charger.shape > 0 => e.shape > 0
      BY <3>2 DEF DInv, SeenOnly, Seen
    <3>4. Carries(t) <=> e.version = charger.version
      BY <2>2 DEF Carries
    <3> HIDE DEF e
    <3>5. /\ queue' \in Versions /\ widgetSig' \in Versions /\ gap' \in BOOLEAN
          /\ queue' <= charger.version /\ widgetSig' <= charger.version
          /\ Handed'
          /\ asked' \in Versions /\ refused' \in BOOLEAN /\ faults' \in 0..MaxFaults /\ Asked'
          /\ ~gap' => widgetSig' = charger.version \/ (~gap /\ widgetSig # charger.version)
          /\ e.version = charger.version => widgetSig' = charger.version
      BY <1>1, <3>1, <3>2, <3>3, HandlesAll
    <3>6. InHand'
      <4> SUFFICES ASSUME ~gap', widgetSig' # charger.version
                   PROVE  notified' \/ \E s \in Slots : Carries(s)'
        BY <1>1 DEF InHand
      <4>1. ~gap /\ widgetSig # charger.version /\ ~Carries(t)
        BY <3>4, <3>5
      <4>2. notified \/ \E s \in Slots : Carries(s)
        BY <4>1 DEF DInv, InHand
      <4> QED
        BY <1>1, <1>5, <4>1, <4>2
    <3> QED
      BY <3>5, <3>6
  <2> QED
    BY <2>1, <2>2
<1>7. TypeOK'
  BY <1>1, <1>3, <1>4, <1>5, <1>6 DEF DInv, TypeOK
<1>8. SeenOnly'
  BY <1>1, <1>5, <1>6 DEF DInv, SeenOnly
<1>9. TakerAwaits'
  BY <1>1, <1>3, <1>4, EndsTaker
<1> QED
  BY <1>3, <1>6, <1>7, <1>8, <1>9 DEF DInv, Remembered

\* The publication fails, or a poll ends, well or not: an event is dropped only
\* with the gap marked, and a poll carries none.
LEMMA PublishFailsDInv ==
    ASSUME DInv, NEW t \in Slots, PublishFails(t)
    PROVE  DInv'
<1>1. /\ Finally(t) /\ Publisher(t) /\ charger' = charger /\ notified' = notified
      /\ gap' = (gap \/ Of(t, {"event"}))
      /\ UNCHANGED <<queue, widgetSig, asked, refused, shapes, signature, stopped, discovered, shown, connects>>
      /\ \/ taker = t /\ taker' = NoSlot /\ unsure' = TRUE
         \/ taker # t /\ taker' = taker /\ unsure' = unsure
  BY DEF PublishFails, Throws, gateway, lists
<1>2. tasks[t] \in PublisherTask
  BY <1>1, PublisherIs DEF DInv
<1>3. faults' \in 0..MaxFaults
  BY DiscoveryAssumption DEF DInv, TypeOK, PublishFails, Fault, DiscoveryAssumption
<1>4. /\ unsure' \in BOOLEAN /\ gap' \in BOOLEAN /\ taker' \in Slots \cup {NoSlot}
      /\ RememberedIsListed' /\ Asked'
  <2>1. gap \in BOOLEAN /\ unsure \in BOOLEAN /\ taker \in Slots \cup {NoSlot}
    BY DEF DInv, TypeOK
  <2>2. gap' \in BOOLEAN
    BY <1>1, <2>1 DEF Of, At
  <2>3. RememberedIsListed' /\ unsure' \in BOOLEAN /\ taker' \in Slots \cup {NoSlot}
    <3>1. CASE taker = t /\ taker' = NoSlot /\ unsure' = TRUE
      BY <3>1 DEF RememberedIsListed
    <3>2. CASE taker # t /\ taker' = taker /\ unsure' = unsure
      BY <1>1, <2>1, <3>2 DEF DInv, Remembered, RememberedIsListed
    <3> QED
      BY <1>1, <3>1, <3>2
  <2> QED
    BY <1>1, <2>2, <2>3 DEF DInv, Remembered, Asked
<1>5. /\ timer' \in BOOLEAN /\ loop' \in {"off", "closed", "open"}
      /\ tasks' = [tasks EXCEPT ![t] = Idle]
  BY <1>1, FinallyTypes
<1>6. /\ tasks' \in [Slots -> Task \cup {Idle}]
      /\ \A s \in Slots : Seen(tasks'[s], charger')
      /\ \A s \in Slots : Carries(s) /\ s # t => Carries(s)'
  BY <1>1, <1>5, Ends
<1>7. TypeOK'
  BY <1>1, <1>3, <1>4, <1>5, <1>6 DEF DInv, TypeOK
<1>8. SeenOnly'
  BY <1>1, <1>6 DEF DInv, SeenOnly
<1>9. InHand' /\ Handed'
  <2>1. ~gap' => ~gap /\ ~Carries(t)
    BY <1>1 DEF Carries
  <2> QED
    BY <1>1, <1>6, <2>1 DEF DInv, InHand, Handed
<1>10. TakerAwaits'
  <2>1. t # NoSlot
    BY DiscoveryAssumption DEF DiscoveryAssumption
  <2> QED
    BY <1>1, <1>5, <2>1, EndsTaker
<1> QED
  BY <1>4, <1>7, <1>8, <1>9, <1>10 DEF DInv, Remembered

LEMMA PollEndsDInv ==
    ASSUME DInv, NEW t \in Slots, PollPublished(t) \/ PollFails(t)
    PROVE  DInv'
<1>1. /\ Of(t, {"poll"}) /\ tasks' = [tasks EXCEPT ![t] = Idle] /\ charger' = charger /\ notified' = notified
      /\ UNCHANGED <<loop, memory, queue, discovered, asked, connects, refused, taker, unsure>>
  BY DEF PollPublished, PollFails, gateway, gladys, counters, ghosts, lists
<1>2. tasks[t].of = "poll" /\ tasks[t].step # "idle"
  BY <1>1 DEF Of, At
<1>3. /\ tasks' \in [Slots -> Task \cup {Idle}]
      /\ \A s \in Slots : Seen(tasks'[s], charger')
      /\ \A s \in Slots : Carries(s) => Carries(s)'
  BY <1>1, <1>2, Ends DEF Carries, Of
<1>4. /\ shown' \in Versions /\ shown' <= charger.version /\ gap' \in BOOLEAN /\ faults' \in 0..MaxFaults
      /\ ~gap' => ~gap /\ (shown' = shown \/ ~(shown' < widgetSig))
  <2>1. CASE PollFails(t)
    <3>1. faults' \in 0..MaxFaults
      BY <2>1, DiscoveryAssumption DEF DInv, TypeOK, PollFails, Fault, DiscoveryAssumption
    <3> QED
      BY <2>1, <3>1 DEF DInv, TypeOK, SeenOnly, PollFails, gladys, ghosts
  <2>2. CASE PollPublished(t)
    <3>1. tasks[t].charger \in Chargers
      BY <1>2, TaskOf DEF DInv, PublisherTask, PollTask, Idle
    <3>2. shown' = tasks[t].charger.version /\ gap' = (gap \/ shown' < widgetSig) /\ faults' = faults
      BY <2>2 DEF PollPublished, counters
    <3>3. tasks[t].charger.version <= charger.version
      BY <1>2 DEF DInv, SeenOnly, Seen
    <3> QED
      BY <3>1, <3>2, <3>3 DEF DInv, TypeOK, Chargers
  <2> QED
    BY <2>1, <2>2
<1>5. TypeOK'
  BY <1>1, <1>3, <1>4 DEF DInv, TypeOK, memory
<1>6. SeenOnly' /\ Remembered'
  <2>1. tasks[t].step # "taken"
    BY <1>2, TaskOf DEF DInv, PublisherTask, PollTask, Idle
  <2>2. TakerAwaits'
    BY <1>1, <2>1, TakerStays
  <2> QED
    BY <1>1, <1>3, <1>4, <2>2 DEF DInv, SeenOnly, Remembered, RememberedIsListed, Asked, memory
<1>7. InHand'
  BY <1>1, <1>3, <1>4 DEF DInv, InHand, memory
<1>8. Handed'
  <2>1. /\ widgetSig' = widgetSig /\ queue' = queue /\ stopped' = stopped
        /\ charger.version \in Nat /\ widgetSig \in Nat /\ shown' \in Nat
    BY <1>1, <1>4, ChargerFields, DiscoveryAssumption DEF DInv, TypeOK, memory, Versions, DiscoveryAssumption
  <2> SUFFICES ASSUME ~gap', widgetSig = charger.version, charger.shape > 0, ~stopped
               PROVE  queue = charger.version \/ (queue = 0 /\ shown' = charger.version)
    BY <1>1, <2>1 DEF Handed
  <2>2. queue = charger.version \/ (queue = 0 /\ shown = charger.version)
    BY <1>4 DEF DInv, Handed
  <2>3. shown' = shown \/ shown' = charger.version
    BY <1>4, <2>1
  <2> QED
    BY <2>2, <2>3
<1> QED
  BY <1>5, <1>6, <1>7, <1>8 DEF DInv

\* The queue, and the shutdown that empties it.
LEMMA QueueDInv ==
    ASSUME DInv, Deliver \/ AnswerLost \/ Shutdown
    PROVE  DInv'
<1>1. /\ charger' = charger /\ notified' = notified
      /\ UNCHANGED <<shapes, signature, widgetSig, tasks, discovered, asked, connects, gap, refused, taker, unsure>>
  BY DEF Deliver, AnswerLost, Shutdown, gateway, memory, gladys, counters, ghosts, lists
<1>2. queue \in Versions /\ shown \in Versions /\ 0 \in Versions /\ charger.version \in Nat /\ charger.shape \in Nat
  BY DiscoveryAssumption, ChargerFields DEF DInv, TypeOK, Versions, DiscoveryAssumption
<1>3. /\ faults' \in 0..MaxFaults /\ timer' \in BOOLEAN /\ loop' \in {"off", "closed", "open"}
      /\ stopped' \in BOOLEAN
  <2>1. faults' = faults \/ (faults < MaxFaults /\ faults' = faults + 1)
    BY DEF Deliver, AnswerLost, Shutdown, Fault, counters
  <2>2. faults' \in 0..MaxFaults
    BY <2>1, DiscoveryAssumption DEF DInv, TypeOK, DiscoveryAssumption
  <2> QED
    BY <2>2 DEF DInv, TypeOK, Deliver, AnswerLost, Shutdown, memory
<1>4. /\ queue' \in {queue, 0} /\ shown' \in {queue, shown} /\ (stopped' = stopped \/ stopped')
  BY DEF Deliver, AnswerLost, Shutdown, memory, gladys
<1>5. TypeOK'
  BY <1>1, <1>2, <1>3, <1>4 DEF DInv, TypeOK
<1>6. \A t \in Slots : Carries(t) => Carries(t)'
  BY <1>1 DEF Carries, Of, At
<1>7. SeenOnly' /\ Remembered' /\ InHand'
  BY <1>1, <1>2, <1>4, <1>6 DEF DInv, SeenOnly, Remembered, TakerAwaits, RememberedIsListed, Asked, InHand
<1>8. Handed'
  <2>1. CASE Shutdown
    BY <2>1 DEF Shutdown, Handed
  <2>2. CASE Deliver
    BY <1>1, <2>2 DEF Deliver, DInv, Handed, memory
  <2>3. CASE AnswerLost
    BY <1>1, <2>3 DEF AnswerLost, DInv, Handed, memory
  <2> QED
    BY <2>1, <2>2, <2>3
<1> QED
  BY <1>5, <1>7, <1>8 DEF DInv

LEMMA NextDInv == DInv /\ [Next]_vars => DInv'
<1> SUFFICES ASSUME DInv, [Next]_vars PROVE DInv'
  OBVIOUS
<1>1. ASSUME NEW shape \in Shapes, Observe(shape) PROVE DInv'
  BY <1>1, ObserveDInv
<1>2. CASE Reset \/ GatewayRestarts
  BY <1>2, ForgettingDInv
<1>3. CASE StreamOpens \/ StreamLost \/ EmitUnheard
  BY <1>3, StreamDInv
<1>4. CASE KnownShape
  BY <1>4, KnownShapeDInv
<1>5. ASSUME NEW t \in Slots, NewShape(t) PROVE DInv'
  BY <1>5, NewShapeDInv
<1>6. ASSUME NEW t \in Slots, Refresh(t) \/ Scan(t) \/ Connected(t) \/ PollFetched(t) PROVE DInv'
  BY <1>6, BeginsDInv
<1>7. ASSUME NEW t \in Slots, Work(t) PROVE DInv'
  BY <1>7, OnTheWayDInv, TakenDInv, ReturnsDInv, PublishFailsDInv, PollEndsDInv DEF Work
<1>8. CASE Deliver \/ AnswerLost \/ Shutdown
  BY <1>8, QueueDInv
<1>9. CASE UNCHANGED vars
  <2>1. \A t \in Slots : Carries(t) => Carries(t)'
    BY <1>9 DEF vars, gateway, Carries, Of, At
  <2> QED
    BY <1>9, <2>1 DEF DInv, TypeOK, SeenOnly, Remembered, TakerAwaits, RememberedIsListed, Asked, InHand, Handed,
                      vars, gateway, memory, gladys, counters, ghosts, lists
<1> QED
  BY <1>1, <1>2, <1>3, <1>4, <1>5, <1>6, <1>7, <1>8, <1>9 DEF Next

-----------------------------------------------------------------------------
\* The invariant of discovery, events and polling (handleGatewayChange,
\* publishDevices and onPoll of index.js): what is on its way was seen, and what
\* is not lost is on its way.
THEOREM DiscoveryInvariant == Spec => []DInv
BY InitDInv, NextDInv, PTL DEF Spec

\* Every variable keeps its type.
THEOREM TypesAreKept == Spec => []TypeOK
<1>1. DInv => TypeOK
  BY DEF DInv
<1> QED
  BY <1>1, DiscoveryInvariant, PTL

\* Once the answer for the list that Gladys took last is handled,
\* lastPublishedSignature is that list, however the publications of
\* publishDevices() overlap, unless that answer was lost or an older one came late.
THEOREM TheSignatureIsTheList == Spec => []RememberedIsListed
<1>1. DInv => RememberedIsListed
  BY DEF DInv, Remembered
<1> QED
  BY <1>1, DiscoveryInvariant, PTL

\* The event stream alone shows the last state and has Gladys pull the widgets for
\* it, once all events are handled and none was lost, overtaken or undone by an
\* older poll, unless requestWidgetRefresh() threw.
THEOREM TheStreamIsEnough == Spec => []EventsAreEnough
<1>1. ASSUME DInv, AtRest, ~gap, ~NothingToShow
      PROVE  /\ shown = charger.version /\ widgetSig = charger.version
             /\ ~refused => asked = charger.version
  <2>1. charger.shape > 0 /\ ~stopped /\ charger.version > 0
    BY <1>1, ChargerFields DEF DInv, SeenOnly, NothingToShow
  <2>2. \A t \in Slots : ~Carries(t)
    BY <1>1 DEF AtRest, Idles, Carries, Of, At
  <2>3. widgetSig = charger.version
    BY <1>1, <2>2 DEF DInv, InHand, AtRest
  <2>4. queue = charger.version \/ (queue = 0 /\ shown = charger.version)
    BY <1>1, <2>1, <2>3 DEF DInv, Handed
  <2>5. ~refused => asked = widgetSig
    BY <1>1 DEF DInv, Remembered, Asked
  <2> QED
    BY <1>1, <2>1, <2>3, <2>4, <2>5 DEF AtRest
<1>2. DInv => EventsAreEnough
  BY <1>1 DEF EventsAreEnough
<1> QED
  BY <1>2, DiscoveryInvariant, PTL

-----------------------------------------------------------------------------
MirrorSteps == Gladys!Init /\ [][Gladys!Next]_(Gladys!mvars)

LEMMA StepsOfTheMirror == DInv /\ [Next]_vars => [Gladys!Next]_(Gladys!mvars)
<1> SUFFICES ASSUME DInv, [Next]_vars
             PROVE  Gladys!Next \/ UNCHANGED <<charger.version, shown, NothingToShow>>
  BY DEF Gladys!mvars
<1>1. \A t : NothingToShow' \in BOOLEAN
  BY DEF NothingToShow
<1>2. ASSUME charger'.version = charger.version, shown' = shown
      PROVE  Gladys!Next \/ UNCHANGED <<charger.version, shown, NothingToShow>>
  BY <1>2 DEF NothingToShow, Gladys!Next, Gladys!Switch
<1>3. ASSUME charger' = charger, stopped' = stopped, shown' \in Nat, shown' > 0, shown' <= charger.version
      PROVE  Gladys!Next
  <2>1. shown' \in 1..charger.version
    BY <1>3, ChargerFields DEF DInv
  <2> QED
    BY <1>3, <2>1 DEF NothingToShow, Gladys!Next, Gladys!Show
<1>4. ASSUME NEW shape \in Shapes, Observe(shape) PROVE Gladys!Next
  <2>1. charger'.version = charger.version + 1 /\ shown' = shown
    BY <1>4 DEF Observe, gladys
  <2> QED
    BY <2>1 DEF NothingToShow, Gladys!Next, Gladys!Change
<1>5. CASE Reset \/ GatewayRestarts
  <2>1. charger \in Chargers
    BY DEF DInv, TypeOK
  <2>2. charger'.version = charger.version /\ shown' = shown
    BY <1>5, <2>1 DEF Reset, GatewayRestarts, gladys, Chargers
  <2> QED
    BY <1>2, <2>2
<1>6. CASE Deliver \/ AnswerLost
  <2>1. queue \in Nat /\ queue > 0 /\ queue <= charger.version
    BY <1>6, DiscoveryAssumption DEF Deliver, AnswerLost, DInv, SeenOnly, TypeOK, Versions, DiscoveryAssumption
  <2> QED
    BY <1>3, <1>6, <2>1 DEF Deliver, AnswerLost, gateway, memory
<1>7. ASSUME NEW t \in Slots, PollPublished(t) PROVE Gladys!Next
  <2>1. tasks[t].of = "poll" /\ tasks[t].step # "idle"
    BY <1>7 DEF PollPublished, Of, At
  <2>2. tasks[t].charger \in Chargers
    BY <2>1, TaskOf DEF DInv, PublisherTask, PollTask, Idle
  <2>3. tasks[t].charger.version \in Nat
    BY <2>2, DiscoveryAssumption DEF Chargers, Versions, DiscoveryAssumption
  <2>4. tasks[t].charger.version > 0 /\ tasks[t].charger.version <= charger.version
    BY <2>1 DEF DInv, SeenOnly, Seen
  <2> QED
    BY <1>3, <1>7, <2>3, <2>4 DEF PollPublished, gateway, memory
<1>8. CASE StreamOpens \/ StreamLost \/ EmitUnheard \/ KnownShape \/ Shutdown \/ UNCHANGED vars
  BY <1>2, <1>8 DEF StreamOpens, StreamLost, EmitUnheard, KnownShape, Shutdown, vars, gateway, gladys
<1>9. ASSUME NEW t \in Slots,
             \/ NewShape(t) \/ Refresh(t) \/ Scan(t) \/ Connected(t) \/ PollFetched(t)
             \/ Fetched(t) \/ Unchanged(t) \/ Publishes(t) \/ Taken(t) \/ Published(t) \/ PublishFails(t) \/ PollFails(t)
      PROVE  charger' = charger /\ shown' = shown
  <2>1. CASE NewShape(t) \/ Refresh(t) \/ Scan(t) \/ Connected(t) \/ PollFetched(t)
    BY <2>1 DEF NewShape, Refresh, Scan, Connected, PollFetched, Begin, gateway, gladys
  <2>2. CASE Fetched(t) \/ Unchanged(t) \/ Publishes(t) \/ Taken(t) \/ Published(t) \/ PublishFails(t) \/ PollFails(t)
    BY <2>2 DEF Fetched, Unchanged, Publishes, Taken, Published, PublishFails, PollFails, gateway, gladys
  <2> QED
    BY <1>9, <2>1, <2>2
<1> QED
  BY <1>2, <1>4, <1>5, <1>6, <1>7, <1>8, <1>9 DEF Next, Work

\* Discovery implements the mirror, its liveness left to the model checker: Gladys
\* shows only what the charge point has been in, whichever way it takes.
THEOREM ImplementsMirrorSteps == Spec => MirrorSteps
<1>1. Init => Gladys!Init
  BY DEF Init, NothingToShow, Gladys!Init
<1> QED
  BY <1>1, StepsOfTheMirror, DiscoveryInvariant, PTL DEF Spec, MirrorSteps
==============================================================================
