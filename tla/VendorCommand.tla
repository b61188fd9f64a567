--------------------------- MODULE VendorCommand ----------------------------
(***************************************************************************)
(* The permanent cable lock of an Autel charge point: the commands and the *)
(* probes of the gateway (gateway/src/chargerCommands.ts, vendors/autel/), *)
(* the calls of the origin cloud that it relays and observes (gateway.ts,  *)
(* observe.ts), and the switch that Gladys shows (src/vendors/autel/).     *)
(*                                                                         *)
(* One charge point, one connector.  The charge point never tells its lock:*)
(* what is recorded is the outcome of the last accepted command that was   *)
(* seen.  An exchange is a call to the charge point with what its handler  *)
(* captured before the await: the ChargerState (`feeds`: the store still   *)
(* holds it) and the client ("dead": the charge point no longer uses it).  *)
(* What an orphaned ChargerState is told is never read, so it is forgotten.*)
(* A call that ends with an error before it is sent (400, 404, 409, 422)   *)
(* changes nothing and has no action.                                      *)
(***************************************************************************)
EXTENDS Naturals, FiniteSets

CONSTANTS
    Exchanges,             \* calls under way at a time (a bound)
    MaxConnects, MaxBoots, MaxChanges, \* bounds on the environment
    MaxFaults              \* bound on lost connections and calls given up

ASSUME VendorAssumption == {MaxConnects, MaxBoots, MaxChanges, MaxFaults} \subseteq Nat

VARIABLES
    device,      \* external: does the charge point have the lock, is it locked
    late,        \* external: commands it may execute though nobody waits any more
    link,        \* external: the mode of the connection it uses, or "down"
    liveClients, localClients,  \* the client they hold: "none", the "current" one, an "old" one
    configured,  \* the registry has an origin cloud for it
    store,       \* of the ChargerState in the store: is the vendor known, and extension('autel')
    feeds,       \* the connection's ChargerState is the one in the store
    probes,      \* timers of scheduleProbe()
    notified,    \* a coalescing timer of the change feed runs
    shown,       \* the switch in Gladys
    exchanges,
    connects, boots, changes, faults,  \* counters of the bounds
    lost,        \* ghost: the lock moved and the store was not told
    deaf,        \* ghost: no probe has been answered since the last boot that counts
    missed       \* ghost: an event did not get to Gladys, and nothing was published since

charger == <<device, late, link>>
routing == <<liveClients, localClients, configured, feeds>>
counters == <<connects, boots, changes, faults>>
vars == <<charger, routing, store, probes, notified, shown, missed, exchanges, counters, lost, deaf>>

Locks == BOOLEAN
Idle == [at |-> "idle"]
\* what: a value for the lock, or the question for SupportedFunctionLists.
Question == "supported?"
Exchange == [at : {"queued", "sent", "answered"}, by : {"command", "probe", "cloud"},
             what : {"lock", Question}, value : Locks,
             answer : {"none", "yes", "no"}, feeds : BOOLEAN]
            \cup [at : {"dead"}, by : {"command", "probe", "cloud"}]

Data == [autel : BOOLEAN, supported : BOOLEAN, known : BOOLEAN, lock : Locks]
NoData == [autel |-> FALSE, supported |-> FALSE, known |-> FALSE, lock |-> FALSE]

TypeOK ==
    /\ device \in [capable : BOOLEAN, lock : Locks]
    /\ late \subseteq Locks
    /\ link \in {"down", "local", "relay"}
    /\ {liveClients, localClients} \subseteq {"none", "current", "old"}
    /\ configured \in BOOLEAN /\ feeds \in BOOLEAN
    /\ store \in Data
    /\ probes \in 0..MaxBoots
    /\ notified \in BOOLEAN
    /\ shown \in [known : BOOLEAN, lock : Locks]
    /\ exchanges \in [Exchanges -> Exchange \cup {Idle}]
    /\ connects \in 0..MaxConnects /\ boots \in 0..MaxBoots
    /\ changes \in 0..MaxChanges /\ faults \in 0..MaxFaults
    /\ {lost, deaf, missed} \subseteq BOOLEAN

Init ==
    /\ device \in [capable : BOOLEAN, lock : {FALSE}]
    /\ late = {}
    /\ link = "down"
    /\ liveClients = "none" /\ localClients = "none" /\ configured = FALSE /\ feeds = FALSE
    /\ store = NoData
    /\ probes = 0
    /\ notified = FALSE
    /\ shown = [known |-> FALSE, lock |-> FALSE]
    /\ exchanges = [e \in Exchanges |-> Idle]
    /\ connects = 0 /\ boots = 0 /\ changes = 0 /\ faults = 0
    /\ lost = FALSE /\ deaf = TRUE /\ missed = FALSE

-----------------------------------------------------------------------------
At(e, step) == exchanges[e].at = step
Busy(e) == ~At(e, "idle")
Alive(e) == exchanges[e].at \in {"queued", "sent", "answered"}
Locking(e) == exchanges[e].what = "lock"
Fault == faults < MaxFaults /\ faults' = faults + 1

Connect ==
    /\ link = "down" /\ connects < MaxConnects
    /\ connects' = connects + 1
    /\ link' = IF configured THEN "relay" ELSE "local"
    /\ liveClients' = "current"
    /\ localClients' = IF configured THEN localClients ELSE "current"
    /\ feeds' = TRUE
    /\ notified' = TRUE
    /\ UNCHANGED <<device, late, configured, store, probes, shown, missed, exchanges, boots, changes, faults, lost, deaf>>

\* The connection is gone with what was under way on it: a command that was
\* sent may be executed yet, an answer is lost.  The maps do not know.
Cut ==
    /\ link' = "down"
    /\ liveClients' = IF liveClients = "current" THEN "old" ELSE liveClients
    /\ localClients' = IF localClients = "current" THEN "old" ELSE localClients
    /\ late' = late \cup {exchanges[e].value : e \in {x \in Exchanges : Alive(x) /\ At(x, "sent") /\ Locking(x)}}
    /\ lost' = (lost \/ \E e \in Exchanges : Alive(e) /\ At(e, "answered") /\ Locking(e)
                                             /\ exchanges[e].answer = "yes")

\* What is under way on a connection that is gone.
Die ==
    exchanges' = [e \in Exchanges |-> IF Busy(e) THEN [at |-> "dead", by |-> exchanges[e].by] ELSE Idle]

Drop ==
    /\ link # "down" /\ Fault
    /\ Cut /\ Die
    /\ UNCHANGED <<device, configured, feeds, store, probes, notified, shown, missed, connects, boots, changes, deaf>>

\* The 'close' event of an old client: a newer one is left in the maps.
Closed ==
    /\ "old" \in {liveClients, localClients}
    /\ liveClients' = IF liveClients = "old" THEN "none" ELSE liveClients
    /\ localClients' = IF localClients = "old" THEN "none" ELSE localClients
    /\ UNCHANGED <<charger, configured, feeds, store, probes, notified, shown, missed, exchanges, counters, lost, deaf>>

\* POST /api/chargers with an origin cloud for the charge point, or without.
\* What localClients holds is closed, and the state reset, even if it is the
\* state that a newer connection feeds.
Configure ==
    /\ changes < MaxChanges
    /\ changes' = changes + 1
    /\ configured' = ~configured
    /\ IF ~configured /\ localClients # "none"
       THEN /\ store' = NoData /\ feeds' = FALSE /\ deaf' = TRUE
            /\ IF localClients = "current" THEN Cut /\ Die
               ELSE /\ exchanges' = [e \in Exchanges |->
                         IF Alive(e) THEN [exchanges[e] EXCEPT !.feeds = FALSE] ELSE exchanges[e]]
                    /\ UNCHANGED <<link, liveClients, localClients, late, lost>>
       ELSE UNCHANGED <<link, liveClients, localClients, late, lost, store, feeds, deaf, exchanges>>
    /\ UNCHANGED <<device, probes, notified, shown, missed, connects, boots, faults>>

\* The vendor that a BootNotification tells, to the store or to an orphan.
Named == IF feeds THEN [store EXCEPT !.autel = TRUE] ELSE store

\* BootNotification: the vendor, and a probe in a moment.
Boot ==
    /\ link # "down" /\ boots < MaxBoots
    /\ boots' = boots + 1
    /\ store' = Named
    /\ deaf' = ~feeds
    /\ probes' = probes + 1
    /\ notified' = TRUE
    /\ UNCHANGED <<charger, routing, shown, missed, exchanges, connects, changes, faults, lost>>

\* A BootNotification that the origin cloud does not answer: observed all the
\* same, but nothing will be probed.
BootFails ==
    /\ link = "relay" /\ Fault
    /\ store' = Named
    /\ notified' = TRUE
    /\ UNCHANGED <<charger, routing, probes, shown, missed, exchanges, connects, boots, changes, lost, deaf>>

-----------------------------------------------------------------------------
Begin(e, by, what, value, captured) ==
    /\ ~Busy(e) /\ e = CHOOSE x \in Exchanges : ~Busy(x)
    /\ exchanges' = [exchanges EXCEPT ![e] =
         IF by # "cloud" /\ liveClients = "old" THEN [at |-> "dead", by |-> by]
         ELSE [at |-> "queued", by |-> by, what |-> what, value |-> value, answer |-> "none",
               feeds |-> captured]]

\* run(): a client, and a module that applies and has the command.
Offered == liveClients # "none" /\ store.autel

\* setPermanentLock() up to its call.
SetPermanentLock(e, lock) ==
    /\ Offered /\ store.supported
    /\ Begin(e, "command", "lock", lock, TRUE)
    /\ UNCHANGED <<charger, routing, store, probes, notified, shown, missed, counters, lost, deaf>>

\* The user sets the switch, or presses a button of the widget: any number but
\* 0 and 1 is refused.
Command(e, value) == value \in {0, 1} /\ SetPermanentLock(e, value = 1)

\* The timer of a probe fires: nobody to ask, not for this vendor, or a call.
Probe(e) ==
    /\ probes > 0
    /\ probes' = probes - 1
    /\ IF liveClients # "none" /\ store.autel
       THEN Begin(e, "probe", Question, FALSE, TRUE) /\ UNCHANGED <<notified, deaf>>
       ELSE notified' = (notified \/ liveClients # "none") /\ deaf' = TRUE /\ UNCHANGED exchanges
    /\ UNCHANGED <<charger, routing, store, shown, missed, counters, lost>>

\* The origin cloud asks, or sets the lock for the vendor's app.
CloudCalls(e, what, value) ==
    /\ link = "relay"
    /\ what = Question => value = FALSE
    /\ Begin(e, "cloud", what, value, feeds)
    /\ UNCHANGED <<charger, routing, store, probes, notified, shown, missed, counters, lost, deaf>>

\* external: one call at a time is out on a connection; which of those that wait
\* comes next is left open.
Send(e) ==
    /\ Alive(e) /\ At(e, "queued")
    /\ \A x \in Exchanges : Alive(x) => At(x, "queued")
    /\ exchanges' = [exchanges EXCEPT ![e].at = "sent"]
    /\ UNCHANGED <<charger, routing, store, probes, notified, shown, missed, counters, lost, deaf>>

\* The simulator's answers, and refusals, which a real charge point may give:
\* without the lock it accepts no command and does not announce it.
Answer(e, answer) ==
    /\ Alive(e) /\ At(e, "sent")
    /\ exchanges' = [exchanges EXCEPT ![e].at = "answered", ![e].answer = answer]
    /\ answer = "yes" => device.capable
    /\ IF Locking(e)
       THEN /\ answer # "none"
            /\ device' = IF answer = "yes" THEN [device EXCEPT !.lock = exchanges[e].value] ELSE device
       ELSE /\ answer = "no" => ~device.capable
            /\ UNCHANGED device
    /\ UNCHANGED <<late, link, routing, store, probes, notified, shown, missed, counters, lost, deaf>>

\* Mutant: the inner status is not read.
AcceptedAnyhow(e) == Locking(e)

\* parsePermanentLock(), parsePermanentLockSupport(): null stands for a list without the key.
Accepted(e) == Locking(e) /\ exchanges[e].answer = "yes"
Listed(e) == ~Locking(e) /\ exchanges[e].answer # "none"

\* Mutant: the module's data is replaced, not completed.
RecordedAlone(data, e) == [autel |-> data.autel, known |-> TRUE, lock |-> exchanges[e].value]

\* recordLock(), of an accepted command only.
Recorded(data, e) ==
    [data EXCEPT !.supported = TRUE, !.known = TRUE, !.lock = exchanges[e].value]

\* Mutant: an answer is enough, whatever it says.
LearnsAnyway(data, e) ==
    CASE Locking(e) -> Recorded(data, e)
      [] OTHER -> [data EXCEPT !.supported = TRUE]

\* Mutant: an accepted command does not confirm, a list is not read.
LearnsNothing(data, e) ==
    IF Accepted(e) THEN Recorded(data, e) ELSE data

\* What an answered exchange tells of the lock: probe(), setPermanentLock() after
\* its call, observeOutgoing().
Learns(data, e) ==
    CASE Accepted(e) -> Recorded(data, e)
      [] Listed(e) -> [data EXCEPT !.supported = exchanges[e].answer = "yes"]
      [] OTHER -> data

\* Mutant: only the probes are announced.
AnnouncedOnce(e, answered) == exchanges[e].by = "probe"

\* A probe's outcome is announced whatever it is, a command's and a relayed
\* call's when it succeeded.
Announced(e, answered) ==
    CASE exchanges[e].by = "probe" -> TRUE
      [] exchanges[e].by = "command" -> answered /\ exchanges[e].answer = "yes"
      [] exchanges[e].by = "cloud" -> answered

\* The answer arrives in time.
Returns(e) ==
    /\ Alive(e) /\ At(e, "answered")
    /\ exchanges' = [exchanges EXCEPT ![e] = Idle]
    /\ store' = IF exchanges[e].feeds /\ (exchanges[e].by = "cloud" => store.autel)
                THEN Learns(store, e) ELSE store
    /\ notified' = (notified \/ Announced(e, TRUE))
    /\ lost' = (lost \/ (Accepted(e) /\ store' # Recorded(store, e)))
    /\ deaf' = (deaf \/ (exchanges[e].by = "probe" /\ exchanges[e].answer = "none"))
    /\ UNCHANGED <<charger, routing, probes, shown, missed, counters>>

\* The call fails: timed out, or its connection is gone.
Fails(e) ==
    /\ Busy(e)
    /\ IF Alive(e) THEN Fault ELSE UNCHANGED faults
    /\ exchanges' = [exchanges EXCEPT ![e] = Idle]
    /\ late' = IF Alive(e) /\ At(e, "sent") /\ Locking(e) THEN late \cup {exchanges[e].value} ELSE late
    /\ lost' = (lost \/ (Alive(e) /\ Locking(e) /\ exchanges[e].answer = "yes"))
    /\ deaf' = (deaf \/ exchanges[e].by = "probe")
    /\ notified' = (notified \/ Announced(e, FALSE))
    /\ UNCHANGED <<device, link, routing, store, probes, shown, missed, connects, boots, changes>>

\* external: a command that timed out is executed all the same.
LateExecution(value) ==
    /\ value \in late
    /\ late' = late \ {value}
    /\ IF device.capable
       THEN device' = [device EXCEPT !.lock = value] /\ lost' = TRUE
       ELSE UNCHANGED <<device, lost>>
    /\ UNCHANGED <<link, routing, store, probes, notified, shown, missed, exchanges, counters, deaf>>

\* connectorStates(): a lock that is known, where the module applies.
ConnectorStates ==
    IF store.supported /\ store.known THEN [known |-> TRUE, lock |-> store.lock] ELSE shown

\* The feed emits, and Gladys is told (what may happen on that way is Discovery's).
Emit ==
    /\ notified
    /\ notified' = FALSE
    /\ shown' = ConnectorStates /\ missed' = FALSE
    /\ UNCHANGED <<charger, routing, store, probes, exchanges, counters, lost, deaf>>

\* The feed has no listener, the stream breaks with the event, or its handler throws.
EmitUnheard ==
    /\ notified
    /\ notified' = FALSE
    /\ missed' = TRUE
    /\ UNCHANGED <<charger, routing, store, probes, shown, exchanges, counters, lost, deaf>>

\* Gladys polls the charge point: the state is fetched and published.
Poll ==
    /\ shown' = ConnectorStates /\ missed' = FALSE
    /\ UNCHANGED <<charger, routing, store, probes, notified, exchanges, counters, lost, deaf>>

Next ==
    \/ Connect \/ Drop \/ Closed \/ Configure \/ Boot \/ BootFails
    \/ \E e \in Exchanges, value \in 0..2 : Command(e, value)
    \/ \E e \in Exchanges : Probe(e)
    \/ \E e \in Exchanges, what \in {"lock", Question}, value \in Locks : CloudCalls(e, what, value)
    \/ \E e \in Exchanges : Send(e)
    \/ \E e \in Exchanges, answer \in {"yes", "no", "none"} : Answer(e, answer)
    \/ \E e \in Exchanges : Returns(e)
    \/ \E e \in Exchanges : Fails(e)
    \/ \E value \in Locks : LateExecution(value)
    \/ Emit \/ EmitUnheard \/ Poll

Spec == Init /\ [][Next]_vars

-----------------------------------------------------------------------------
\* The lock that the gateway serves is the one the charge point is in, whoever
\* moved it last, on whichever connection, and with answers still under way; a
\* command executed after its timeout or without its answer is the exception.
RecordIsTheLock ==
    ~lost /\ store.known /\ (\A e \in Exchanges : Alive(e) => ~(At(e, "answered") /\ Locking(e)))
        => store.lock = device.lock

\* What Gladys shows of the lock is what the gateway has recorded, unless the
\* feed is about to emit or an event was lost and nothing was polled since: each
\* end of a command, a probe or a relayed call that moves the record is announced.
SwitchFollowsRecord ==
    ~notified /\ ~missed /\ store.supported /\ store.known => shown.known /\ shown.lock = store.lock

\* Gladys offers the lock for no charge point that lacks it, whatever it answers.
OfferedIfCapable == store.supported => device.capable

\* Once the probe of a boot is over, a charge point that has the lock is known to
\* have it, unless that one probe was not answered or the state was reset.
LockIsFound ==
    device.capable /\ ~deaf /\ probes = 0 /\ (\A e \in Exchanges : Busy(e) => exchanges[e].by # "probe")
        => store.supported
=============================================================================
