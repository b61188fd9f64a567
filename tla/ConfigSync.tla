----------------------------- MODULE ConfigSync -----------------------------
(***************************************************************************)
(* How the origin cloud of each charge point travels: the add_charger      *)
(* action saves it in Gladys, and every handler that learns the set of     *)
(* charge points (add_charger, onConfigUpdated, 'connected') pushes it     *)
(* whole to the gateway, with retries (index.js, src/config.js,            *)
(* src/chargers.js, syncChargerMap of src/gatewayClient.js).               *)
(*                                                                         *)
(* Each running handler is a slot of `tasks`; they interleave at their     *)
(* awaits.  A call and the moment its server handles it are two steps when *)
(* something can come in between: a POST travels in `wire`.  getConfig is  *)
(* one step up to the answer's way back, since the call itself changes     *)
(* nothing.  The discovery that ends each handler is not part of this.     *)
(***************************************************************************)
EXTENDS Naturals, Sequences, SequencesExt

CONSTANTS
    Identities,   \* OCPP identities
    Urls,         \* origin cloud URLs that add_charger accepts
    NoUrl,        \* no origin cloud: the identity is absent from the map
    Actions,      \* slots for add_charger (a bound)
    Updates,      \* slots for onConfigUpdated (a bound)
    Connects,     \* slots for 'connected' (a bound)
    Attempts,     \* gatewayRetryAttempts
    MaxAdds, MaxRestarts, \* bounds on the runs of add_charger and on restarts of the gateway
    MaxFaults,    \* bound on lost connections and failed calls
    MaxTogether   \* bound on all of these together

Tasks == Actions \cup Updates \cup Connects
NoTask == "given up"

ASSUME ConfigSyncAssumption ==
    /\ NoUrl \notin Urls
    /\ Actions \cap Updates = {} /\ Actions \cap Connects = {} /\ Updates \cap Connects = {}
    /\ NoTask \notin Tasks
    /\ Attempts \in Nat \ {0}
    /\ {MaxAdds, MaxRestarts, MaxFaults, MaxTogether} \subseteq Nat

VARIABLES
    saved,     \* external: the map in the config that Gladys stores
    online,    \* external: the websocket to Gladys is up
    updates,   \* the config-updated events on their way
    config,    \* config.chargers
    tasks,     \* the handlers
    wire,      \* the POSTs that the gateway has not handled yet, as they were sent
    registry,  \* the gateway's map
    status,    \* the last setConnectionStatus()
    adds, restarts, faults,  \* counters of the bounds
    everSaved, \* ghost: the maps `saved` has held
    unread,    \* ghost: what getConfig gave last was refused or already old
    behind,    \* ghost: the actions whose getConfig was answered before another's save
    unpushed,  \* ghost: the gateway has restarted, or retries were exhausted, since
               \* it last got what is saved
    passed,    \* ghost: of `wire`, how many are older than the newest one handled
    overtaken  \* ghost: one of those came last and changed the registry

counters == <<adds, restarts, faults>>
order == <<passed, overtaken>>
ghosts == <<unread, unpushed, order>>
vars == <<saved, online, updates, config, tasks, wire, registry, status,
          counters, everSaved, behind, ghosts>>

Maps == [Identities -> Urls \cup {NoUrl}]
Empty == [i \in Identities |-> NoUrl]

\* step: "got" after getConfig, "saved" after setConfig (the answer being on its
\* way), map being what was read or saved; "post" while a POST is open, then "ok"
\* or "failed".
Idle == [step |-> "idle"]
Task == [step : {"got", "saved", "post", "ok", "failed"},
         map : Maps, attempt : 0..Attempts]
Post == [task : Tasks \cup {NoTask}, body : Maps]

TypeOK ==
    /\ saved \in Maps /\ config \in Maps /\ registry \in Maps
    /\ online \in BOOLEAN /\ status \in BOOLEAN
    /\ {unread, unpushed, overtaken} \subseteq BOOLEAN
    /\ behind \subseteq Actions /\ passed \in 0..Len(wire)
    /\ updates \in Seq(Maps)
    /\ tasks \in [Tasks -> Task \cup {Idle}]
    /\ wire \in Seq(Post)
    /\ \A t \in Tasks :
         (tasks[t].step = "post") <=> \E i \in DOMAIN wire : wire[i].task = t
    /\ everSaved \subseteq Maps

\* Gladys keeps its config between two runs of the integration.
Init ==
    /\ saved \in Maps
    /\ online = FALSE
    /\ updates = <<>>
    /\ config = Empty
    /\ tasks = [t \in Tasks |-> Idle]
    /\ wire = <<>>
    /\ registry = Empty
    /\ status = FALSE
    /\ adds = 0 /\ restarts = 0 /\ faults = 0
    /\ everSaved = {saved}
    /\ unread = TRUE /\ unpushed = TRUE
    /\ behind = {} /\ passed = 0 /\ overtaken = FALSE

-----------------------------------------------------------------------------
At(t, step) == tasks[t].step = step

\* The bounds.
Calm == adds + restarts + faults < MaxTogether
Starts == Calm /\ adds < MaxAdds /\ adds' = adds + 1
Fault == Calm /\ faults < MaxFaults /\ faults' = faults + 1

Goes(t, step) == tasks' = [tasks EXCEPT ![t].step = step]

Ends(t) == tasks' = [tasks EXCEPT ![t] = Idle]

\* syncChargerMap(): the config of the moment is sent.
Send(t, attempt) ==
    /\ tasks' = [tasks EXCEPT ![t] = [step |-> "post", map |-> Empty, attempt |-> attempt]]
    /\ wire' = Append(wire, [task |-> t, body |-> config'])

\* Mutant: pushes the map without keeping it.
AdoptForThePush(t, m) ==
    /\ UNCHANGED config
    /\ tasks' = [tasks EXCEPT ![t] = [step |-> "post", map |-> Empty, attempt |-> 1]]
    /\ wire' = Append(wire, [task |-> t, body |-> m])

\* The handler of t takes m as the config, then reconcileGateway() starts.
Adopt(t, m) ==
    /\ config' = m
    /\ Send(t, 1)

\* 'connected', up to the answer of getConfig.
Connected(t) ==
    /\ ~online /\ At(t, "idle")
    /\ online' = TRUE
    /\ tasks' = [tasks EXCEPT ![t] = [step |-> "got", map |-> saved, attempt |-> 0]]
    /\ UNCHANGED <<saved, updates, config, wire, registry, status, counters, everSaved, behind, ghosts>>

\* The answer arrives.  If Gladys has saved something since, the handler does not
\* know it.
ConnectedGotConfig(t) ==
    /\ At(t, "got")
    /\ Adopt(t, tasks[t].map)
    /\ unread' = (tasks[t].map # saved)
    /\ UNCHANGED <<saved, online, updates, registry, status, counters, everSaved, behind, unpushed, order>>

\* getConfig rejects: nothing is pushed.
ConnectedFails(t) ==
    /\ At(t, "got") /\ Fault
    /\ Ends(t)
    /\ status' = FALSE
    /\ unread' = TRUE
    /\ UNCHANGED <<saved, online, updates, config, wire, registry, adds, restarts, everSaved, behind,
                   unpushed, order>>

\* The websocket goes down; the events on their way are lost.
Drop ==
    /\ online /\ Fault
    /\ online' = FALSE
    /\ updates' = <<>>
    /\ UNCHANGED <<saved, config, tasks, wire, registry, status, adds, restarts, everSaved, behind, ghosts>>

\* onConfigUpdated.
Updated(t) ==
    /\ updates # <<>> /\ At(t, "idle")
    /\ updates' = Tail(updates)
    /\ Adopt(t, Head(updates))
    /\ unread' = (unread /\ Head(updates) # saved)
    /\ UNCHANGED <<saved, online, registry, status, counters, everSaved, behind, unpushed, order>>

-----------------------------------------------------------------------------
\* Mutant: merges against the copy in memory.
AddFromMemory(t) ==
    /\ online /\ At(t, "idle") /\ Starts
    /\ tasks' = [tasks EXCEPT ![t] = [step |-> "got", map |-> config, attempt |-> 0]]
    /\ behind' = behind \ {t}
    /\ UNCHANGED <<saved, online, updates, config, wire, registry, status, restarts, faults, everSaved, ghosts>>

\* add_charger, up to the answer of getConfig.
Add(t) ==
    /\ online /\ At(t, "idle") /\ Starts
    /\ tasks' = [tasks EXCEPT ![t] = [step |-> "got", map |-> saved, attempt |-> 0]]
    /\ behind' = behind \ {t}
    /\ UNCHANGED <<saved, online, updates, config, wire, registry, status, restarts, faults, everSaved, ghosts>>

\* setConfig with the merged map m is handled: the event goes out, if the
\* websocket is up, and the answer too.
GladysSaves(m) ==
    /\ saved' = m
    /\ everSaved' = everSaved \cup {m}
    /\ updates' = IF online THEN Append(updates, m) ELSE updates

\* add_charger merges: url is NoUrl when the user left the field empty.
AddMerges(t, id, url) ==
    /\ At(t, "got")
    /\ GladysSaves([tasks[t].map EXCEPT ![id] = url])
    /\ tasks' = [tasks EXCEPT ![t] = [@ EXCEPT !.step = "saved", !.map[id] = url]]
    /\ behind' = behind \cup {u \in Actions \ {t} : At(u, "got")}
    /\ UNCHANGED <<online, config, wire, registry, status, counters, ghosts>>

\* setConfig has resolved.
AddSaved(t) ==
    /\ At(t, "saved")
    /\ Adopt(t, tasks[t].map)
    /\ unread' = (tasks[t].map # saved)
    /\ UNCHANGED <<saved, online, updates, registry, status, counters, everSaved, behind, unpushed, order>>

\* getConfig or setConfig rejects, the latter before or after Gladys has saved:
\* the action fails.
AddFails(t) ==
    /\ At(t, "got") \/ At(t, "saved")
    /\ Fault
    /\ Ends(t)
    /\ UNCHANGED <<saved, online, updates, config, wire, registry, status, adds, restarts,
                   everSaved, behind, ghosts>>

-----------------------------------------------------------------------------
\* The POST i is handled, whichever it is (each is a fetch() of its own); the
\* answer reaches the task, unless it has given this POST up.
Handled(i) ==
    /\ i \in DOMAIN wire
    /\ wire' = RemoveAt(wire, i)
    /\ IF wire[i].task = NoTask THEN UNCHANGED tasks ELSE Goes(wire[i].task, "ok")
    /\ passed' = IF i <= passed THEN passed - 1 ELSE i - 1
    /\ overtaken' = (i <= passed /\ (overtaken \/ wire[i].body # registry))
    /\ unpushed' = (unpushed /\ (i <= passed \/ \E j \in i..Len(wire) : wire[j].body # saved))
    /\ UNCHANGED <<saved, online, updates, config, status, counters, everSaved, behind, unread>>

\* Mutant: adds to the map instead of replacing it.
GatewayMerges(i) ==
    /\ Handled(i)
    /\ registry' = [id \in Identities |->
                     IF wire[i].body[id] = NoUrl THEN registry[id] ELSE wire[i].body[id]]

\* replaceMap() of the gateway.
GatewayReplaces(i) == Handled(i) /\ registry' = wire[i].body

\* The POST does not reach the gateway.
PostFails(i) ==
    /\ i \in DOMAIN wire /\ wire[i].task # NoTask /\ Fault
    /\ wire' = RemoveAt(wire, i)
    /\ passed' = IF i <= passed THEN passed - 1 ELSE passed
    /\ Goes(wire[i].task, "failed")
    /\ UNCHANGED <<saved, online, updates, config, registry, status, adds, restarts,
                   everSaved, behind, unread, unpushed, overtaken>>

\* Mutant: the late answer of a POST given up is taken for the current one's.
PostTimesOutUnmarked(i) ==
    /\ i \in DOMAIN wire /\ wire[i].task # NoTask /\ Fault
    /\ Goes(wire[i].task, "failed")
    /\ UNCHANGED <<saved, online, updates, config, wire, registry, status, adds, restarts,
                   everSaved, behind, ghosts>>

\* The POST times out, and may still be handled.
PostTimesOut(i) ==
    /\ i \in DOMAIN wire /\ wire[i].task # NoTask /\ Fault
    /\ wire' = [wire EXCEPT ![i].task = NoTask]
    /\ Goes(wire[i].task, "failed")
    /\ UNCHANGED <<saved, online, updates, config, registry, status, adds, restarts,
                   everSaved, behind, ghosts>>

\* withGatewayRetries() tries again, with what `config` is by now.
Retry(t) ==
    /\ At(t, "failed") /\ tasks[t].attempt < Attempts
    /\ UNCHANGED config
    /\ Send(t, tasks[t].attempt + 1)
    /\ UNCHANGED <<saved, online, updates, registry, status, counters, everSaved, behind, ghosts>>

\* The retries are exhausted: Gladys is told, and the handler goes on.
GiveUp(t) ==
    /\ At(t, "failed") /\ tasks[t].attempt = Attempts
    /\ Ends(t)
    /\ status' = FALSE
    /\ unpushed' = TRUE
    /\ UNCHANGED <<saved, online, updates, config, wire, registry, counters, everSaved, behind, unread, order>>

\* The push has succeeded.
Pushed(t) ==
    /\ At(t, "ok")
    /\ Ends(t)
    /\ status' = TRUE
    /\ UNCHANGED <<saved, online, updates, config, wire, registry, counters, everSaved, behind, ghosts>>

\* The gateway restarts.  The main container only sees its event stream end, and
\* reopens it: runEventStream() pushes nothing.
GatewayRestarts ==
    /\ Calm /\ restarts < MaxRestarts /\ restarts' = restarts + 1
    /\ registry' = Empty
    /\ unpushed' = TRUE
    /\ UNCHANGED <<saved, online, updates, config, tasks, wire, status, adds, faults,
                   everSaved, behind, unread, order>>

Reconcile(t) == Retry(t) \/ GiveUp(t) \/ Pushed(t)

Next ==
    \/ \E t \in Connects : Connected(t)
    \/ \E t \in Connects : ConnectedGotConfig(t)
    \/ \E t \in Connects : ConnectedFails(t)
    \/ \E t \in Updates : Updated(t)
    \/ \E t \in Actions : Add(t)
    \/ \E t \in Actions, id \in Identities, url \in Urls \cup {NoUrl} : AddMerges(t, id, url)
    \/ \E t \in Actions : AddSaved(t)
    \/ \E t \in Actions : AddFails(t)
    \/ \E t \in Tasks : Reconcile(t)
    \/ \E i \in DOMAIN wire : GatewayReplaces(i)
    \/ \E i \in DOMAIN wire : PostFails(i)
    \/ \E i \in DOMAIN wire : PostTimesOut(i)
    \/ Drop
    \/ GatewayRestarts

Spec == Init /\ [][Next]_vars

\* Every handler runs, the gateway handles what it receives, and the websocket
\* comes back.
Fairness ==
    /\ \A t \in Connects : WF_vars(Connected(t)) /\ WF_vars(ConnectedGotConfig(t))
    /\ \A t \in Updates : WF_vars(Updated(t))
    /\ \A t \in Actions : WF_vars(AddSaved(t))
    /\ \A t \in Tasks : WF_vars(Reconcile(t))
    /\ WF_vars(\E i \in DOMAIN wire : GatewayReplaces(i))

FairSpec == Spec /\ Fairness

-----------------------------------------------------------------------------
\* The gateway never works with a map the user has not had: neither half a merge
\* nor one whose setConfig failed, however handlers and retries interleave.
RegistryWasSaved == registry = Empty \/ registry \in everSaved

AtRest ==
    /\ online /\ updates = <<>> /\ wire = <<>>
    /\ \A t \in Tasks : At(t, "idle")

\* Once every handler has ended, the gateway has the map that Gladys has saved.
\* Failed calls, lost events, late requests and retries across other handlers do
\* not change that: only a config that was read late or not at all (`unread`),
\* exhausted retries or a restart (`unpushed`), and a POST of an older map that is
\* handled last (`overtaken`) do.
AtRestPushed == AtRest /\ ~unread /\ ~unpushed /\ ~overtaken => config = saved /\ registry = saved

\* An action changes the charge point it is about and no other one, even when it
\* runs before 'connected' has read the config ("rather than risking a stale
\* in-memory copy"), unless another action has saved since it read the config.
OthersAreKept ==
    [][saved' # saved =>
         \E t \in Actions :
           /\ At(t, "got") /\ At(t, "saved")'
           /\ t \in behind \/ \E id \in Identities : \A i \in Identities \ {id} : saved'[i] = saved[i]]_vars

\* chargerRegistry.ts, docs/en.md: after a restart of the gateway the map is
\* pushed again within seconds.
SelfHeals ==
    \A m \in Maps : (saved = m) ~> (registry = m \/ saved # m)
=============================================================================
