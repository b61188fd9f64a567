------------------------- MODULE VendorCommandProofs -------------------------
(***************************************************************************)
(* Proofs about the permanent lock, for any number of exchanges under way, *)
(* connections, boots, changes of the origin cloud and failures.           *)
(*                                                                         *)
(* They rest on what an exchange under way may hold (Sound) and on one     *)
(* fact of the transport, that one call at a time is out on a connection   *)
(* (OneOut): between the answer of an accepted command and its handling no *)
(* other answer can move the lock.                                         *)
(***************************************************************************)
EXTENDS VendorCommand, TLAPS

\* What an exchange that is under way may hold.
Sound ==
    \A e \in Exchanges : Alive(e) =>
        /\ ~At(e, "answered") => exchanges[e].answer = "none"
        /\ exchanges[e].answer = "yes" => device.capable
        /\ ~Locking(e) /\ exchanges[e].answer = "no" => ~device.capable
        /\ exchanges[e].by = "probe" => ~Locking(e)
        /\ exchanges[e].by = "command" => Locking(e)

\* Of the exchanges under way one at most has left the queue.
OneOut ==
    \A e, f \in Exchanges :
        Alive(e) /\ Alive(f) /\ ~At(e, "queued") /\ ~At(f, "queued") => e = f

\* The answer to a command that moved the lock is on its way.
Moving(e) == Alive(e) /\ At(e, "answered") /\ Accepted(e)

\* The lock is where the answer on its way says; without one, where the record says.
LockIsKnown ==
    ~lost => /\ \A e \in Exchanges : Moving(e) => device.lock = exchanges[e].value
             /\ store.known /\ (\A e \in Exchanges : ~Moving(e)) => store.lock = device.lock

\* A probe that will tell of the lock, or of its own failure.
Probing(e) == Busy(e) /\ exchanges[e].by = "probe" /\ (Alive(e) => exchanges[e].feeds)

\* A lock that is not known has a probe to come.
ProbeToCome ==
    device.capable /\ ~deaf => store.supported \/ probes > 0 \/ \E e \in Exchanges : Probing(e)

\* A probe's timer is one of a boot.
ProbesOfBoots == probes <= boots

VInv == TypeOK /\ ProbesOfBoots /\ Sound /\ OneOut /\ LockIsKnown /\ ProbeToCome /\ OfferedIfCapable /\ SwitchFollowsRecord

-----------------------------------------------------------------------------
\* The fields that an exchange has at each step of its way.
LEMMA ExchangeFields ==
    ASSUME TypeOK, NEW e \in Exchanges
    PROVE  /\ Busy(e) <=> Alive(e) \/ At(e, "dead")
           /\ Busy(e) => exchanges[e].by \in {"command", "probe", "cloud"}
           /\ Alive(e) => /\ exchanges[e].what \in {"lock", Question}
                          /\ exchanges[e].value \in BOOLEAN
                          /\ exchanges[e].answer \in {"none", "yes", "no"}
                          /\ exchanges[e].feeds \in BOOLEAN
BY DEF TypeOK, Exchange, Idle, Busy, Alive, At, Locks, Question

\* An exchange that is under way.
Living == [at : {"queued", "sent", "answered"}, by : {"command", "probe", "cloud"},
           what : {"lock", Question}, value : Locks,
           answer : {"none", "yes", "no"}, feeds : BOOLEAN]

LEMMA AliveIsLiving ==
    ASSUME TypeOK, NEW e \in Exchanges, Alive(e)
    PROVE  exchanges[e] \in Living
BY DEF TypeOK, Exchange, Idle, Alive, Living

LEMMA LivingIsExchange == Living \subseteq Exchange \cup {Idle}
BY DEF Living, Exchange

\* The invariant holds at the start.
LEMMA InitVInv == Init => VInv
<1> SUFFICES ASSUME Init PROVE VInv
  OBVIOUS
<1> USE VendorAssumption DEF Init, VendorAssumption
<1>1. TypeOK
  <2>1. device \in [capable : BOOLEAN, lock : Locks]
    BY DEF Locks
  <2>2. store \in Data /\ shown \in [known : BOOLEAN, lock : Locks]
    BY DEF Data, NoData, Locks
  <2>3. exchanges \in [Exchanges -> Exchange \cup {Idle}]
    OBVIOUS
  <2>4. /\ probes \in 0..MaxBoots /\ connects \in 0..MaxConnects /\ boots \in 0..MaxBoots
        /\ changes \in 0..MaxChanges /\ faults \in 0..MaxFaults
    OBVIOUS
  <2> QED
    BY <2>1, <2>2, <2>3, <2>4 DEF TypeOK
<1>2. \A e \in Exchanges : ~Alive(e)
  BY DEF Alive, Idle
<1>3. Sound /\ OneOut
  BY <1>2 DEF Sound, OneOut
<1>4. LockIsKnown
  BY <1>2 DEF LockIsKnown, Moving, NoData
<1>5. ProbeToCome /\ OfferedIfCapable /\ SwitchFollowsRecord
  BY DEF ProbeToCome, OfferedIfCapable, SwitchFollowsRecord, NoData
<1> QED
  BY <1>1, <1>3, <1>4, <1>5 DEF VInv, ProbesOfBoots

\* What the steps that leave every exchange where it is preserve.
LEMMA SameExchanges ==
    ASSUME VInv, UNCHANGED <<exchanges, device>>
    PROVE  /\ Sound' /\ OneOut'
           /\ \A e \in Exchanges : /\ Moving(e)' <=> Moving(e)
                                   /\ Probing(e)' <=> Probing(e)
BY DEF VInv, Sound, OneOut, Moving, Probing, Alive, At, Busy, Locking, Accepted

\* What the steps that end every exchange preserve.
LEMMA AllDie ==
    ASSUME VInv, Die, device' = device
    PROVE  /\ exchanges' \in [Exchanges -> Exchange \cup {Idle}]
           /\ Sound' /\ OneOut'
           /\ \A e \in Exchanges : /\ ~Moving(e)'
                                   /\ Probing(e) => Probing(e)'
<1>1. /\ exchanges' = [e \in Exchanges |-> IF Busy(e) THEN [at |-> "dead", by |-> exchanges[e].by] ELSE Idle]
      /\ \A e \in Exchanges : Busy(e) => exchanges[e].by \in {"command", "probe", "cloud"}
  BY ExchangeFields DEF Die, VInv
<1>2. exchanges' \in [Exchanges -> Exchange \cup {Idle}]
  BY <1>1 DEF Exchange
<1>3. \A e \in Exchanges : exchanges'[e].at = IF Busy(e) THEN "dead" ELSE "idle"
  BY <1>1 DEF Idle
<1>4. \A e \in Exchanges : ~Alive(e)' /\ (Busy(e)' <=> Busy(e))
  BY <1>3 DEF Alive, Busy, At
<1>5. \A e \in Exchanges : Busy(e) => exchanges'[e].by = exchanges[e].by
  BY <1>1
<1> QED
  BY <1>2, <1>4, <1>5 DEF Sound, OneOut, Moving, Probing

-----------------------------------------------------------------------------
\* The charge point and its connections.

LEMMA ConnectVInv == VInv /\ Connect => VInv'
<1> SUFFICES ASSUME VInv, Connect PROVE VInv'
  OBVIOUS
<1>1. /\ UNCHANGED <<device, late, configured, store, probes, shown, missed, exchanges, boots, changes, faults, lost, deaf>>
      /\ notified' = TRUE /\ feeds' = TRUE
  BY DEF Connect
<1>2. TypeOK'
  <2>1. connects' \in 0..MaxConnects
    BY VendorAssumption DEF Connect, VInv, TypeOK, VendorAssumption
  <2>2. link' \in {"down", "local", "relay"} /\ {liveClients', localClients'} \subseteq {"none", "current", "old"}
    BY DEF Connect, VInv, TypeOK
  <2> QED
    BY <1>1, <2>1, <2>2 DEF VInv, TypeOK
<1>3. Sound' /\ OneOut' /\ LockIsKnown' /\ ProbeToCome'
  BY <1>1, SameExchanges DEF VInv, LockIsKnown, ProbeToCome
<1>4. ProbesOfBoots' /\ OfferedIfCapable' /\ SwitchFollowsRecord'
  BY <1>1 DEF VInv, ProbesOfBoots, OfferedIfCapable, SwitchFollowsRecord
<1> QED
  BY <1>2, <1>3, <1>4 DEF VInv

\* The types of what a broken connection leaves.
LEMMA CutTypes ==
    ASSUME TypeOK, Cut
    PROVE  /\ late' \subseteq Locks /\ link' \in {"down", "local", "relay"}
           /\ {liveClients', localClients'} \subseteq {"none", "current", "old"}
           /\ lost' \in BOOLEAN
<1>1. \A e \in {x \in Exchanges : Alive(x) /\ At(x, "sent") /\ Locking(x)} : exchanges[e].value \in BOOLEAN
  BY ExchangeFields
<1>2. late' \subseteq Locks
  BY <1>1 DEF Cut, TypeOK, Locks
<1> QED
  BY <1>2 DEF Cut, TypeOK

LEMMA CutLoses ==
    ASSUME Cut, ~lost' PROVE ~lost /\ \A e \in Exchanges : ~Moving(e)
BY DEF Cut, Moving, Accepted

LEMMA DropVInv == VInv /\ Drop => VInv'
<1> SUFFICES ASSUME VInv, Drop PROVE VInv'
  OBVIOUS
<1>1. /\ UNCHANGED <<device, configured, feeds, store, probes, notified, shown, missed, connects, boots, changes, deaf>>
      /\ Cut /\ Die /\ Fault
  BY DEF Drop
<1>2. TypeOK'
  <2>1. faults' \in 0..MaxFaults
    BY <1>1, VendorAssumption DEF Fault, VInv, TypeOK, VendorAssumption
  <2>2. exchanges' \in [Exchanges -> Exchange \cup {Idle}]
    BY <1>1, AllDie
  <2> QED
    BY <1>1, <2>1, <2>2, CutTypes DEF VInv, TypeOK
<1>3. Sound' /\ OneOut'
  BY <1>1, AllDie
<1>4. LockIsKnown'
  BY <1>1, AllDie, CutLoses DEF VInv, LockIsKnown
<1>5. ProbeToCome'
  BY <1>1, AllDie DEF VInv, ProbeToCome
<1>6. ProbesOfBoots' /\ OfferedIfCapable' /\ SwitchFollowsRecord'
  BY <1>1 DEF VInv, ProbesOfBoots, OfferedIfCapable, SwitchFollowsRecord
<1> QED
  BY <1>2, <1>3, <1>4, <1>5, <1>6 DEF VInv

LEMMA ClosedVInv == VInv /\ Closed => VInv'
<1> SUFFICES ASSUME VInv, Closed PROVE VInv'
  OBVIOUS
<1>1. UNCHANGED <<charger, configured, feeds, store, probes, notified, shown, missed, exchanges, counters, lost, deaf>>
  BY DEF Closed
<1>2. {liveClients', localClients'} \subseteq {"none", "current", "old"}
  BY DEF Closed, VInv, TypeOK
<1>3. TypeOK'
  BY <1>1, <1>2 DEF VInv, TypeOK, charger, counters
<1>4. Sound' /\ OneOut' /\ LockIsKnown' /\ ProbeToCome'
  BY <1>1, SameExchanges DEF VInv, LockIsKnown, ProbeToCome, charger
<1>5. ProbesOfBoots' /\ OfferedIfCapable' /\ SwitchFollowsRecord'
  BY <1>1 DEF VInv, ProbesOfBoots, OfferedIfCapable, SwitchFollowsRecord, charger, counters
<1> QED
  BY <1>3, <1>4, <1>5 DEF VInv

\* A reset forgets the lock, and what is under way will not tell the new state.
LEMMA ConfigureVInv == VInv /\ Configure => VInv'
<1> SUFFICES ASSUME VInv, Configure PROVE VInv'
  OBVIOUS
<1>1. UNCHANGED <<device, probes, notified, shown, missed, connects, boots, faults>>
  BY DEF Configure
<1>2. changes' \in 0..MaxChanges /\ configured' \in BOOLEAN
  BY VendorAssumption DEF Configure, VInv, TypeOK, VendorAssumption
<1>3. CASE ~(~configured /\ localClients # "none")
  <2>1. UNCHANGED <<link, liveClients, localClients, late, lost, store, feeds, deaf, exchanges>>
    BY <1>3 DEF Configure
  <2>2. TypeOK'
    BY <1>1, <1>2, <2>1 DEF VInv, TypeOK
  <2>3. Sound' /\ OneOut' /\ LockIsKnown' /\ ProbeToCome'
    BY <1>1, <2>1, SameExchanges DEF VInv, LockIsKnown, ProbeToCome
  <2>4. ProbesOfBoots' /\ OfferedIfCapable' /\ SwitchFollowsRecord'
    BY <1>1, <2>1 DEF VInv, ProbesOfBoots, OfferedIfCapable, SwitchFollowsRecord
  <2> QED
    BY <2>2, <2>3, <2>4 DEF VInv
<1>4. CASE ~configured /\ localClients # "none"
  <2>1. store' = NoData /\ feeds' = FALSE /\ deaf' = TRUE
    BY <1>4 DEF Configure
  <2>2. store' \in Data /\ ~store'.supported /\ ~store'.known
    BY <2>1 DEF Data, NoData, Locks
  <2>3. ProbesOfBoots' /\ ProbeToCome' /\ OfferedIfCapable' /\ SwitchFollowsRecord'
    BY <1>1, <2>1, <2>2 DEF VInv, ProbesOfBoots, ProbeToCome, OfferedIfCapable, SwitchFollowsRecord
  <2>4. CASE localClients = "current"
    <3>1. Cut /\ Die
      BY <1>4, <2>4 DEF Configure
    <3>2. exchanges' \in [Exchanges -> Exchange \cup {Idle}] /\ Sound' /\ OneOut'
      BY <1>1, <3>1, AllDie
    <3>3. TypeOK'
      BY <1>1, <1>2, <2>1, <2>2, <3>1, <3>2, CutTypes DEF VInv, TypeOK
    <3>4. LockIsKnown'
      BY <1>1, <2>2, <3>1, AllDie DEF LockIsKnown
    <3> QED
      BY <2>3, <3>2, <3>3, <3>4 DEF VInv
  <2>5. CASE localClients # "current"
    <3>1. /\ exchanges' = [e \in Exchanges |->
               IF Alive(e) THEN [exchanges[e] EXCEPT !.feeds = FALSE] ELSE exchanges[e]]
          /\ UNCHANGED <<link, liveClients, localClients, late, lost>>
      BY <1>4, <2>5 DEF Configure
    <3>2. exchanges' \in [Exchanges -> Exchange \cup {Idle}]
      <4> SUFFICES ASSUME NEW e \in Exchanges PROVE exchanges'[e] \in Exchange \cup {Idle}
        BY <3>1
      <4>1. CASE Alive(e)
        <5>1. exchanges[e] \in Living
          BY <4>1, AliveIsLiving DEF VInv
        <5>2. exchanges'[e] = [exchanges[e] EXCEPT !.feeds = FALSE]
          BY <3>1, <4>1
        <5>3. exchanges'[e] \in Living
          BY <5>1, <5>2 DEF Living
        <5> QED
          BY <5>3, LivingIsExchange
      <4>2. CASE ~Alive(e)
        BY <3>1, <4>2 DEF VInv, TypeOK
      <4> QED
        BY <4>1, <4>2
    <3>3. \A e \in Exchanges :
            /\ Alive(e) => /\ exchanges'[e].at = exchanges[e].at /\ exchanges'[e].by = exchanges[e].by
                           /\ exchanges'[e].what = exchanges[e].what
                           /\ exchanges'[e].value = exchanges[e].value
                           /\ exchanges'[e].answer = exchanges[e].answer
            /\ ~Alive(e) => exchanges'[e] = exchanges[e]
      <4> SUFFICES ASSUME NEW e \in Exchanges, Alive(e)
                   PROVE  /\ exchanges'[e].at = exchanges[e].at /\ exchanges'[e].by = exchanges[e].by
                          /\ exchanges'[e].what = exchanges[e].what
                          /\ exchanges'[e].value = exchanges[e].value
                          /\ exchanges'[e].answer = exchanges[e].answer
        BY <3>1
      <4>1. exchanges'[e] = [exchanges[e] EXCEPT !.feeds = FALSE]
        BY <3>1
      <4> QED
        BY <4>1, AliveIsLiving DEF VInv, Living
    <3>4. \A e \in Exchanges : exchanges'[e].at = exchanges[e].at
      BY <3>3
    <3>5. Sound' /\ OneOut' /\ \A e \in Exchanges : Moving(e)' <=> Moving(e)
      BY <1>1, <3>3, <3>4 DEF VInv, Sound, OneOut, Moving, Accepted, Locking, Alive, At
    <3>6. \A e \in Exchanges : Moving(e) => exchanges'[e].value = exchanges[e].value
      BY <3>3 DEF Moving
    <3>7. LockIsKnown'
      BY <1>1, <2>2, <3>1, <3>5, <3>6 DEF VInv, LockIsKnown
    <3>8. TypeOK'
      BY <1>1, <1>2, <2>1, <2>2, <3>1, <3>2 DEF VInv, TypeOK
    <3> QED
      BY <2>3, <3>5, <3>7, <3>8 DEF VInv
  <2> QED
    BY <2>4, <2>5
<1> QED
  BY <1>3, <1>4

\* The vendor is all that a BootNotification tells.
LEMMA NamedIsData ==
    ASSUME TypeOK
    PROVE  /\ Named \in Data /\ Named.supported = store.supported
           /\ Named.known = store.known /\ Named.lock = store.lock
BY DEF Named, TypeOK, Data

LEMMA BootVInv == VInv /\ Boot => VInv'
<1> SUFFICES ASSUME VInv, Boot PROVE VInv'
  OBVIOUS
<1>1. /\ UNCHANGED <<charger, routing, shown, missed, exchanges, connects, changes, faults, lost>>
      /\ probes' = probes + 1 /\ notified' = TRUE /\ boots' = boots + 1 /\ boots < MaxBoots
      /\ deaf' = ~feeds
      /\ store' = Named
  BY DEF Boot
<1>2. /\ store' \in Data /\ store'.supported = store.supported
      /\ store'.known = store.known /\ store'.lock = store.lock
  BY <1>1, NamedIsData DEF VInv
<1>3. TypeOK'
  <2>1. probes' \in 0..MaxBoots /\ boots' \in 0..MaxBoots
    BY <1>1, VendorAssumption DEF VInv, TypeOK, ProbesOfBoots, VendorAssumption
  <2> QED
    BY <1>1, <1>2, <2>1 DEF VInv, TypeOK, charger, routing
<1>4. Sound' /\ OneOut' /\ LockIsKnown'
  BY <1>1, <1>2, SameExchanges DEF VInv, LockIsKnown, charger
<1>5. ProbesOfBoots' /\ ProbeToCome'
  BY <1>1 DEF VInv, TypeOK, ProbesOfBoots, ProbeToCome
<1>6. OfferedIfCapable' /\ SwitchFollowsRecord'
  BY <1>1, <1>2 DEF VInv, OfferedIfCapable, SwitchFollowsRecord, charger
<1> QED
  BY <1>3, <1>4, <1>5, <1>6 DEF VInv

LEMMA BootFailsVInv == VInv /\ BootFails => VInv'
<1> SUFFICES ASSUME VInv, BootFails PROVE VInv'
  OBVIOUS
<1>1. /\ UNCHANGED <<charger, routing, probes, shown, missed, exchanges, connects, boots, changes, lost, deaf>>
      /\ notified' = TRUE /\ store' = Named /\ Fault
  BY DEF BootFails
<1>2. /\ store' \in Data /\ store'.supported = store.supported
      /\ store'.known = store.known /\ store'.lock = store.lock
  BY <1>1, NamedIsData DEF VInv
<1>3. TypeOK'
  <2>1. faults' \in 0..MaxFaults
    BY <1>1, VendorAssumption DEF VInv, TypeOK, Fault, VendorAssumption
  <2> QED
    BY <1>1, <1>2, <2>1 DEF VInv, TypeOK, charger, routing
<1>4. Sound' /\ OneOut' /\ LockIsKnown' /\ ProbeToCome'
  BY <1>1, <1>2, SameExchanges DEF VInv, LockIsKnown, ProbeToCome, charger
<1>5. ProbesOfBoots' /\ OfferedIfCapable' /\ SwitchFollowsRecord'
  BY <1>1, <1>2 DEF VInv, ProbesOfBoots, OfferedIfCapable, SwitchFollowsRecord, charger
<1> QED
  BY <1>3, <1>4, <1>5 DEF VInv

-----------------------------------------------------------------------------
\* The exchanges.

\* A new exchange, or one that moves on, in the place of the one at e.
LEMMA Replaced ==
    ASSUME TypeOK, NEW e \in Exchanges, NEW x \in Exchange \cup {Idle},
           exchanges' = [exchanges EXCEPT ![e] = x]
    PROVE  /\ exchanges' \in [Exchanges -> Exchange \cup {Idle}]
           /\ exchanges'[e] = x
           /\ \A f \in Exchanges \ {e} :
                /\ exchanges'[f] = exchanges[f]
                /\ Alive(f)' <=> Alive(f)
                /\ Moving(f)' <=> Moving(f)
                /\ Probing(f)' <=> Probing(f)
<1>1. /\ exchanges' \in [Exchanges -> Exchange \cup {Idle}] /\ exchanges'[e] = x
      /\ \A f \in Exchanges \ {e} : exchanges'[f] = exchanges[f]
  BY DEF TypeOK
<1>2. ASSUME NEW f \in Exchanges \ {e}
      PROVE  /\ Alive(f)' <=> Alive(f)
             /\ Moving(f)' <=> Moving(f)
             /\ Probing(f)' <=> Probing(f)
  <2>1. exchanges'[f] = exchanges[f]
    BY <1>1
  <2>2. Alive(f)' <=> Alive(f)
    BY <2>1 DEF Alive
  <2>3. Moving(f)' <=> Moving(f)
    BY <2>1 DEF Alive, At, Moving, Accepted, Locking
  <2>4. Probing(f)' <=> Probing(f)
    BY <2>1 DEF Alive, At, Probing, Busy
  <2> QED
    BY <2>2, <2>3, <2>4
<1> QED
  BY <1>1, <1>2

\* A call begins: it waits for its turn, or its client is gone.
LEMMA BeginVInv ==
    ASSUME VInv, NEW e \in Exchanges, NEW by \in {"command", "probe", "cloud"},
           NEW what \in {"lock", Question}, NEW value \in BOOLEAN, NEW captured \in BOOLEAN,
           by = "probe" => what = Question /\ captured,
           by = "command" => what = "lock",
           Begin(e, by, what, value, captured), UNCHANGED device
    PROVE  /\ exchanges' \in [Exchanges -> Exchange \cup {Idle}]
           /\ Sound' /\ OneOut'
           /\ \A f \in Exchanges : /\ Moving(f)' <=> Moving(f)
                                   /\ Moving(f) => exchanges'[f] = exchanges[f]
                                   /\ Probing(f) => Probing(f)'
           /\ by = "probe" => Probing(e)'
<1> DEFINE new == [at |-> "queued", by |-> by, what |-> what, value |-> value, answer |-> "none",
                   feeds |-> captured]
           dead == [at |-> "dead", by |-> by]
<1>1. ~Busy(e) /\ (exchanges' = [exchanges EXCEPT ![e] = new] \/ exchanges' = [exchanges EXCEPT ![e] = dead])
  BY DEF Begin
<1>2. new \in Living /\ new \in Exchange \cup {Idle} /\ dead \in Exchange \cup {Idle}
  BY LivingIsExchange DEF Living, Exchange, Locks
<1>3. ~Moving(e) /\ ~Probing(e) /\ TypeOK
  BY <1>1, ExchangeFields DEF Moving, Probing, VInv
<1>4. CASE exchanges' = [exchanges EXCEPT ![e] = new]
  <2>1. /\ exchanges' \in [Exchanges -> Exchange \cup {Idle}]
        /\ exchanges'[e] = new
        /\ \A f \in Exchanges \ {e} :
                /\ exchanges'[f] = exchanges[f]
                /\ Alive(f)' <=> Alive(f)
                /\ Moving(f)' <=> Moving(f)
                /\ Probing(f)' <=> Probing(f)
    BY <1>2, <1>3, <1>4, Replaced
  <2>2. At(e, "queued")' /\ ~Moving(e)' /\ (by = "probe" => Probing(e)')
    BY <2>1 DEF At, Moving, Probing, Busy
  <2>3. Sound'
    BY <2>1, <2>2 DEF VInv, Sound, At, Locking, Question
  <2>4. OneOut'
    <3> SUFFICES ASSUME NEW f \in Exchanges, NEW g \in Exchanges, Alive(f)', Alive(g)',
                        ~At(f, "queued")', ~At(g, "queued")'
                 PROVE  f = g
      BY DEF OneOut
    <3>1. f # e /\ g # e
      BY <2>2
    <3>2. Alive(f) /\ Alive(g) /\ ~At(f, "queued") /\ ~At(g, "queued")
      BY <2>1, <3>1 DEF At
    <3> QED
      BY <3>2 DEF VInv, OneOut
  <2> QED
    BY <1>3, <2>1, <2>2, <2>3, <2>4
<1>5. CASE exchanges' = [exchanges EXCEPT ![e] = dead]
  <2>1. /\ exchanges' \in [Exchanges -> Exchange \cup {Idle}]
        /\ exchanges'[e] = dead
        /\ \A f \in Exchanges \ {e} :
                /\ exchanges'[f] = exchanges[f]
                /\ Alive(f)' <=> Alive(f)
                /\ Moving(f)' <=> Moving(f)
                /\ Probing(f)' <=> Probing(f)
    BY <1>2, <1>3, <1>5, Replaced
  <2>2. ~Alive(e)' /\ ~Moving(e)' /\ (by = "probe" => Probing(e)')
    BY <2>1 DEF Alive, At, Moving, Probing, Busy
  <2>3. Sound'
    BY <2>1, <2>2 DEF VInv, Sound, Locking, At
  <2>4. OneOut'
    <3> SUFFICES ASSUME NEW f \in Exchanges, NEW g \in Exchanges, Alive(f)', Alive(g)',
                        ~At(f, "queued")', ~At(g, "queued")'
                 PROVE  f = g
      BY DEF OneOut
    <3>1. f # e /\ g # e
      BY <2>2
    <3>2. Alive(f) /\ Alive(g) /\ ~At(f, "queued") /\ ~At(g, "queued")
      BY <2>1, <3>1 DEF At
    <3> QED
      BY <3>2 DEF VInv, OneOut
  <2> QED
    BY <1>3, <2>1, <2>2, <2>3, <2>4
<1> QED
  BY <1>1, <1>4, <1>5

LEMMA CommandVInv ==
    ASSUME VInv, NEW e \in Exchanges, NEW value \in 0..2, Command(e, value)
    PROVE  VInv'
<1>1. /\ Begin(e, "command", "lock", value = 1, TRUE)
      /\ UNCHANGED <<charger, routing, store, probes, notified, shown, missed, counters, lost, deaf>>
  BY DEF Command, SetPermanentLock
<1>2. (value = 1) \in BOOLEAN
  OBVIOUS
<1>3. /\ exchanges' \in [Exchanges -> Exchange \cup {Idle}]
      /\ Sound' /\ OneOut'
      /\ \A f \in Exchanges : /\ Moving(f)' <=> Moving(f)
                              /\ Moving(f) => exchanges'[f] = exchanges[f]
                              /\ Probing(f) => Probing(f)'
  BY <1>1, <1>2, BeginVInv DEF charger
<1>4. TypeOK'
  BY <1>1, <1>3 DEF VInv, TypeOK, charger, routing, counters
<1>5. ProbesOfBoots' /\ LockIsKnown' /\ ProbeToCome'
  BY <1>1, <1>3 DEF VInv, ProbesOfBoots, LockIsKnown, ProbeToCome, charger, counters
<1>6. OfferedIfCapable' /\ SwitchFollowsRecord'
  BY <1>1 DEF VInv, OfferedIfCapable, SwitchFollowsRecord, charger
<1> QED
  BY <1>3, <1>4, <1>5, <1>6 DEF VInv

LEMMA CloudCallsVInv ==
    ASSUME VInv, NEW e \in Exchanges, NEW what \in {"lock", Question}, NEW value \in Locks,
           CloudCalls(e, what, value)
    PROVE  VInv'
<1>1. /\ Begin(e, "cloud", what, value, feeds)
      /\ UNCHANGED <<charger, routing, store, probes, notified, shown, missed, counters, lost, deaf>>
  BY DEF CloudCalls
<1>2. value \in BOOLEAN /\ feeds \in BOOLEAN
  BY DEF Locks, VInv, TypeOK
<1>3. /\ exchanges' \in [Exchanges -> Exchange \cup {Idle}]
      /\ Sound' /\ OneOut'
      /\ \A f \in Exchanges : /\ Moving(f)' <=> Moving(f)
                              /\ Moving(f) => exchanges'[f] = exchanges[f]
                              /\ Probing(f) => Probing(f)'
  BY <1>1, <1>2, BeginVInv DEF charger
<1>4. TypeOK'
  BY <1>1, <1>3 DEF VInv, TypeOK, charger, routing, counters
<1>5. ProbesOfBoots' /\ LockIsKnown' /\ ProbeToCome'
  BY <1>1, <1>3 DEF VInv, ProbesOfBoots, LockIsKnown, ProbeToCome, charger, counters
<1>6. OfferedIfCapable' /\ SwitchFollowsRecord'
  BY <1>1 DEF VInv, OfferedIfCapable, SwitchFollowsRecord, charger
<1> QED
  BY <1>3, <1>4, <1>5, <1>6 DEF VInv

\* A probe whose timer fires is under way, or has failed.
LEMMA ProbeVInv ==
    ASSUME VInv, NEW e \in Exchanges, Probe(e)
    PROVE  VInv'
<1>1. /\ probes > 0 /\ probes' = probes - 1
      /\ UNCHANGED <<charger, routing, store, shown, missed, counters, lost>>
  BY DEF Probe
<1>2. probes' \in 0..MaxBoots /\ probes' <= probes
  BY <1>1, VendorAssumption DEF VInv, TypeOK, VendorAssumption
<1>3. ProbesOfBoots' /\ OfferedIfCapable'
  BY <1>1, VendorAssumption DEF VInv, TypeOK, ProbesOfBoots, OfferedIfCapable, charger, counters, VendorAssumption
<1>4. CASE liveClients # "none" /\ store.autel
  <2>1. Begin(e, "probe", Question, FALSE, TRUE) /\ UNCHANGED <<notified, deaf>>
    BY <1>4 DEF Probe
  <2>2. /\ exchanges' \in [Exchanges -> Exchange \cup {Idle}]
        /\ Sound' /\ OneOut'
        /\ \A f \in Exchanges : /\ Moving(f)' <=> Moving(f)
                                /\ Moving(f) => exchanges'[f] = exchanges[f]
                                /\ Probing(f) => Probing(f)'
        /\ Probing(e)'
    BY <1>1, <2>1, BeginVInv DEF charger
  <2>3. TypeOK'
    BY <1>1, <1>2, <2>1, <2>2 DEF VInv, TypeOK, charger, routing, counters
  <2>4. LockIsKnown' /\ ProbeToCome'
    BY <1>1, <2>1, <2>2 DEF VInv, LockIsKnown, ProbeToCome, charger
  <2>5. SwitchFollowsRecord'
    BY <1>1, <2>1 DEF VInv, SwitchFollowsRecord
  <2> QED
    BY <1>3, <2>2, <2>3, <2>4, <2>5 DEF VInv
<1>5. CASE ~(liveClients # "none" /\ store.autel)
  <2>1. notified' = (notified \/ liveClients # "none") /\ deaf' = TRUE /\ UNCHANGED exchanges
    BY <1>5 DEF Probe
  <2>2. notified' \in BOOLEAN
    BY <2>1 DEF VInv, TypeOK
  <2>3. TypeOK'
    BY <1>1, <1>2, <2>1, <2>2 DEF VInv, TypeOK, charger, routing, counters
  <2>4. Sound' /\ OneOut' /\ LockIsKnown'
    BY <1>1, <2>1, SameExchanges DEF VInv, LockIsKnown, charger
  <2>5. ProbeToCome' /\ SwitchFollowsRecord'
    BY <1>1, <2>1 DEF VInv, ProbeToCome, SwitchFollowsRecord
  <2> QED
    BY <1>3, <2>3, <2>4, <2>5 DEF VInv
<1> QED
  BY <1>4, <1>5

\* The next call goes out, none being out.
LEMMA SendVInv ==
    ASSUME VInv, NEW e \in Exchanges, Send(e)
    PROVE  VInv'
<1> DEFINE x == [exchanges[e] EXCEPT !.at = "sent"]
<1>1. /\ Alive(e) /\ At(e, "queued") /\ \A f \in Exchanges : Alive(f) => At(f, "queued")
      /\ exchanges' = [exchanges EXCEPT ![e] = x]
      /\ UNCHANGED <<charger, routing, store, probes, notified, shown, missed, counters, lost, deaf>>
  BY DEF Send
<1>2. /\ x \in Living /\ x.at = "sent" /\ x.answer = exchanges[e].answer
      /\ x.what = exchanges[e].what /\ x.by = exchanges[e].by /\ x.feeds = exchanges[e].feeds
  BY <1>1, AliveIsLiving DEF VInv, Living
<1> HIDE DEF x
<1>3. /\ exchanges' \in [Exchanges -> Exchange \cup {Idle}]
      /\ exchanges'[e] = x
      /\ \A f \in Exchanges \ {e} :
                /\ exchanges'[f] = exchanges[f]
                /\ Alive(f)' <=> Alive(f)
                /\ Moving(f)' <=> Moving(f)
                /\ Probing(f)' <=> Probing(f)
  BY <1>1, <1>2, Replaced, LivingIsExchange DEF VInv
<1>4. Alive(e)' /\ At(e, "sent")' /\ ~Moving(e)' /\ ~Moving(e) /\ (Probing(e)' <=> Probing(e))
  BY <1>1, <1>2, <1>3 DEF Alive, At, Moving, Probing, Busy
<1>5. TypeOK'
  BY <1>1, <1>3 DEF VInv, TypeOK, charger, routing, counters
<1>6. Sound'
  BY <1>1, <1>2, <1>3, <1>4 DEF VInv, Sound, At, Locking, charger
<1>7. OneOut'
  BY <1>1, <1>3, <1>4 DEF OneOut, At
<1>8. ProbesOfBoots' /\ LockIsKnown' /\ ProbeToCome'
  <2>1. \A f \in Exchanges : ~Moving(f) /\ ~Moving(f)' /\ (Probing(f)' <=> Probing(f))
    <3>1. \A f \in Exchanges : ~Moving(f)
      BY <1>1 DEF Moving, At
    <3> QED
      BY <1>3, <1>4, <3>1
  <2> QED
    BY <1>1, <2>1 DEF VInv, ProbesOfBoots, LockIsKnown, ProbeToCome, charger, counters
<1>9. OfferedIfCapable' /\ SwitchFollowsRecord'
  BY <1>1 DEF VInv, OfferedIfCapable, SwitchFollowsRecord, charger
<1> QED
  BY <1>5, <1>6, <1>7, <1>8, <1>9 DEF VInv

\* The charge point answers: a command that it accepts moves the lock.
LEMMA AnswerVInv ==
    ASSUME VInv, NEW e \in Exchanges, NEW answer \in {"yes", "no", "none"}, Answer(e, answer)
    PROVE  VInv'
<1> DEFINE x == [exchanges[e] EXCEPT !.at = "answered", !.answer = answer]
<1>1. /\ Alive(e) /\ At(e, "sent")
      /\ answer = "yes" => device.capable
      /\ Locking(e) => /\ answer # "none"
                       /\ device' = IF answer = "yes" THEN [device EXCEPT !.lock = exchanges[e].value] ELSE device
      /\ ~Locking(e) => (answer = "no" => ~device.capable) /\ UNCHANGED device
      /\ exchanges' = [exchanges EXCEPT ![e] = x]
      /\ UNCHANGED <<late, link, routing, store, probes, notified, shown, missed, counters, lost, deaf>>
  BY DEF Answer
<1>2. /\ x \in Living /\ x.at = "answered" /\ x.answer = answer /\ x.value = exchanges[e].value
      /\ x.what = exchanges[e].what /\ x.by = exchanges[e].by /\ x.feeds = exchanges[e].feeds
  BY <1>1, AliveIsLiving DEF VInv, Living
<1> HIDE DEF x
<1>3. /\ exchanges' \in [Exchanges -> Exchange \cup {Idle}]
      /\ exchanges'[e] = x
      /\ \A f \in Exchanges \ {e} :
                /\ exchanges'[f] = exchanges[f]
                /\ Alive(f)' <=> Alive(f)
                /\ Moving(f)' <=> Moving(f)
                /\ Probing(f)' <=> Probing(f)
  BY <1>1, <1>2, Replaced, LivingIsExchange DEF VInv
<1>4. /\ Alive(e)' /\ At(e, "answered")'
      /\ Moving(e)' <=> Locking(e) /\ answer = "yes"
      /\ ~Moving(e)
      /\ Probing(e)' <=> Probing(e)
  BY <1>1, <1>2, <1>3 DEF Alive, At, Moving, Accepted, Locking, Probing, Busy
<1>5. /\ device' \in [capable : BOOLEAN, lock : Locks] /\ device'.capable = device.capable
      /\ ~(Locking(e) /\ answer = "yes") => device' = device
      /\ Locking(e) /\ answer = "yes" => device'.lock = exchanges[e].value
  <2>1. device \in [capable : BOOLEAN, lock : Locks] /\ exchanges[e].value \in Locks
    BY <1>1, ExchangeFields DEF VInv, TypeOK, Locks
  <2> QED
    BY <1>1, <2>1
<1>6. TypeOK'
  BY <1>1, <1>3, <1>5 DEF VInv, TypeOK, routing, counters
<1>7. Sound'
  <2> SUFFICES ASSUME NEW f \in Exchanges, Alive(f)'
               PROVE  /\ ~At(f, "answered")' => exchanges'[f].answer = "none"
                      /\ exchanges'[f].answer = "yes" => device'.capable
                      /\ ~Locking(f)' /\ exchanges'[f].answer = "no" => ~device'.capable
                      /\ exchanges'[f].by = "probe" => ~Locking(f)'
                      /\ exchanges'[f].by = "command" => Locking(f)'
    BY DEF Sound
  <2>1. CASE f = e
    BY <1>1, <1>2, <1>3, <1>4, <1>5, <2>1 DEF VInv, Sound, Locking, At
  <2>2. CASE f # e
    BY <1>3, <1>5, <2>2 DEF VInv, Sound, Locking, At
  <2> QED
    BY <2>1, <2>2
<1>8. \A f \in Exchanges \ {e} : Alive(f) => At(f, "queued")
  BY <1>1 DEF VInv, OneOut, At
<1>9. OneOut'
  BY <1>3, <1>8 DEF OneOut, At
<1>10. LockIsKnown'
  <2>1. \A f \in Exchanges : ~Moving(f)
    BY <1>4, <1>8 DEF Moving, At
  <2>2. \A f \in Exchanges \ {e} : ~Moving(f)'
    BY <1>3, <2>1
  <2>3. CASE Locking(e) /\ answer = "yes"
    BY <1>1, <1>2, <1>3, <1>4, <1>5, <2>2, <2>3 DEF LockIsKnown
  <2>4. CASE ~(Locking(e) /\ answer = "yes")
    BY <1>1, <1>4, <1>5, <2>1, <2>2, <2>4 DEF VInv, LockIsKnown
  <2> QED
    BY <2>3, <2>4
<1>11. ProbeToCome'
  <2>1. \A f \in Exchanges : Probing(f) => Probing(f)'
    BY <1>3, <1>4
  <2> QED
    BY <1>1, <1>5, <2>1 DEF VInv, ProbeToCome
<1>12. ProbesOfBoots' /\ OfferedIfCapable' /\ SwitchFollowsRecord'
  BY <1>1, <1>5 DEF VInv, ProbesOfBoots, OfferedIfCapable, SwitchFollowsRecord, counters
<1> QED
  BY <1>6, <1>7, <1>9, <1>10, <1>11, <1>12 DEF VInv

\* The end of an exchange leaves the others as they are.
LEMMA Ended ==
    ASSUME VInv, NEW e \in Exchanges, exchanges' = [exchanges EXCEPT ![e] = Idle], UNCHANGED device
    PROVE  /\ exchanges' \in [Exchanges -> Exchange \cup {Idle}]
           /\ Sound' /\ OneOut'
           /\ ~Moving(e)'
           /\ \A f \in Exchanges \ {e} :
                /\ exchanges'[f] = exchanges[f]
                /\ Moving(f)' <=> Moving(f)
                /\ Probing(f)' <=> Probing(f)
<1>1. /\ exchanges' \in [Exchanges -> Exchange \cup {Idle}]
      /\ exchanges'[e] = Idle
      /\ \A f \in Exchanges \ {e} :
                /\ exchanges'[f] = exchanges[f]
                /\ Alive(f)' <=> Alive(f)
                /\ Moving(f)' <=> Moving(f)
                /\ Probing(f)' <=> Probing(f)
  BY Replaced DEF VInv
<1>2. ~Alive(e)' /\ ~Moving(e)'
  BY <1>1 DEF Alive, Moving, Idle
<1>3. Sound'
  <2> SUFFICES ASSUME NEW f \in Exchanges, Alive(f)'
               PROVE  /\ ~At(f, "answered")' => exchanges'[f].answer = "none"
                      /\ exchanges'[f].answer = "yes" => device'.capable
                      /\ ~Locking(f)' /\ exchanges'[f].answer = "no" => ~device'.capable
                      /\ exchanges'[f].by = "probe" => ~Locking(f)'
                      /\ exchanges'[f].by = "command" => Locking(f)'
    BY DEF Sound
  <2>1. exchanges'[f] = exchanges[f] /\ Alive(f)
    BY <1>1, <1>2
  <2> QED
    BY <2>1 DEF VInv, Sound, Locking, At
<1>4. OneOut'
  <2> SUFFICES ASSUME NEW f \in Exchanges, NEW g \in Exchanges, Alive(f)', Alive(g)',
                      ~At(f, "queued")', ~At(g, "queued")'
               PROVE  f = g
    BY DEF OneOut
  <2>1. /\ exchanges'[f] = exchanges[f] /\ Alive(f)
        /\ exchanges'[g] = exchanges[g] /\ Alive(g)
    BY <1>1, <1>2
  <2>2. ~At(f, "queued") /\ ~At(g, "queued")
    BY <2>1 DEF At
  <2> QED
    BY <2>1, <2>2 DEF VInv, OneOut
<1> QED
  BY <1>1, <1>2, <1>3, <1>4

\* An answer that is handled: what it tells of the lock is recorded, and announced.
LEMMA ReturnsVInv ==
    ASSUME VInv, NEW e \in Exchanges, Returns(e)
    PROVE  VInv'
<1>1. /\ Alive(e) /\ At(e, "answered")
      /\ exchanges' = [exchanges EXCEPT ![e] = Idle]
      /\ store' = IF exchanges[e].feeds /\ (exchanges[e].by = "cloud" => store.autel)
                  THEN Learns(store, e) ELSE store
      /\ notified' = (notified \/ Announced(e, TRUE))
      /\ lost' = (lost \/ (Accepted(e) /\ store' # Recorded(store, e)))
      /\ deaf' = (deaf \/ (exchanges[e].by = "probe" /\ exchanges[e].answer = "none"))
      /\ UNCHANGED <<charger, routing, probes, shown, missed, counters>>
  BY DEF Returns
<1>2. /\ exchanges' \in [Exchanges -> Exchange \cup {Idle}]
      /\ Sound' /\ OneOut'
      /\ ~Moving(e)'
      /\ \A f \in Exchanges \ {e} :
            /\ exchanges'[f] = exchanges[f]
            /\ Moving(f)' <=> Moving(f)
            /\ Probing(f)' <=> Probing(f)
  BY <1>1, Ended DEF charger
<1>3. /\ exchanges[e].what \in {"lock", Question} /\ exchanges[e].value \in Locks
      /\ exchanges[e].answer \in {"none", "yes", "no"}
      /\ exchanges[e].by \in {"command", "probe", "cloud"}
      /\ exchanges[e].answer = "yes" => device.capable
      /\ ~Locking(e) /\ exchanges[e].answer = "no" => ~device.capable
      /\ exchanges[e].by = "probe" => ~Locking(e)
      /\ exchanges[e].by = "command" => Locking(e)
  BY <1>1, ExchangeFields DEF VInv, Sound, Locks, Busy, At
<1>4. /\ Recorded(store, e) \in Data
      /\ Recorded(store, e).supported /\ Recorded(store, e).known
      /\ Recorded(store, e).lock = exchanges[e].value
  BY <1>3 DEF Recorded, VInv, TypeOK, Data
<1>5. \/ store' = store
      \/ Accepted(e) /\ store' = Recorded(store, e)
      \/ ~Accepted(e) /\ Listed(e) /\ store' = [store EXCEPT !.supported = exchanges[e].answer = "yes"]
  BY <1>1 DEF Learns, Accepted, Listed
<1>6. store' \in Data
  <2>1. store \in Data /\ (exchanges[e].answer = "yes") \in BOOLEAN
    BY DEF VInv, TypeOK
  <2>2. [store EXCEPT !.supported = exchanges[e].answer = "yes"] \in Data
    BY <2>1 DEF Data
  <2> QED
    BY <1>4, <1>5, <2>1, <2>2
<1>7. /\ Listed(e) /\ store' = [store EXCEPT !.supported = exchanges[e].answer = "yes"]
            => /\ store'.supported = (exchanges[e].answer = "yes")
               /\ store'.known = store.known /\ store'.lock = store.lock
  BY DEF VInv, TypeOK, Data
<1>8. TypeOK'
  <2>1. notified' \in BOOLEAN
    BY <1>1 DEF VInv, TypeOK
  <2>2. lost' \in BOOLEAN /\ deaf' \in BOOLEAN
    BY <1>1 DEF VInv, TypeOK
  <2> QED
    BY <1>1, <1>2, <1>6, <2>1, <2>2 DEF VInv, TypeOK, charger, routing, counters
<1>9. LockIsKnown'
  <2>1. SUFFICES ASSUME ~lost' PROVE LockIsKnown'
    BY DEF LockIsKnown
  <2>2. ~lost /\ (Accepted(e) => store' = Recorded(store, e)) /\ UNCHANGED device
    BY <1>1, <2>1 DEF charger
  <2>3. \A f \in Exchanges : Moving(f)' => device'.lock = exchanges'[f].value
    BY <1>2, <2>2 DEF VInv, LockIsKnown
  <2>4. CASE Accepted(e)
    <3>1. Moving(e)
      BY <1>1, <2>4 DEF Moving
    <3>2. store'.lock = device'.lock
      BY <1>4, <2>2, <2>4, <3>1 DEF VInv, LockIsKnown
    <3> QED
      BY <2>3, <3>2 DEF LockIsKnown
  <2>5. CASE ~Accepted(e)
    <3>1. store'.known = store.known /\ store'.lock = store.lock
      BY <1>5, <1>7, <2>5
    <3>2. ~Moving(e)
      BY <2>5 DEF Moving
    <3>3. (\A f \in Exchanges : ~Moving(f)') => \A f \in Exchanges : ~Moving(f)
      BY <1>2, <3>2
    <3> QED
      BY <2>2, <2>3, <3>1, <3>3 DEF VInv, LockIsKnown
  <2> QED
    BY <2>4, <2>5
<1>10. ProbeToCome'
  <2>1. SUFFICES ASSUME device.capable, ~deaf'
                 PROVE  store'.supported \/ probes > 0 \/ \E f \in Exchanges : Probing(f)'
    BY <1>1 DEF ProbeToCome, charger
  <2>2. /\ ~deaf /\ ~(exchanges[e].by = "probe" /\ exchanges[e].answer = "none")
    BY <1>1, <2>1
  <2>3. CASE Probing(e)
    <3>1. exchanges[e].by = "probe" /\ exchanges[e].feeds /\ ~Locking(e)
      BY <1>1, <1>3, <2>3 DEF Probing
    <3>2. Listed(e) /\ ~Accepted(e) /\ exchanges[e].answer = "yes"
      BY <1>3, <2>1, <2>2, <3>1 DEF Listed, Accepted
    <3>3. store' = [store EXCEPT !.supported = exchanges[e].answer = "yes"]
      BY <1>1, <3>1, <3>2 DEF Learns
    <3> QED
      BY <1>7, <3>2, <3>3
  <2>4. CASE ~Probing(e)
    <3>1. store.supported => store'.supported
      BY <1>3, <1>4, <1>5, <1>7, <2>1 DEF Listed
    <3>2. (\E f \in Exchanges : Probing(f)) => \E f \in Exchanges : Probing(f)'
      BY <1>2, <2>4
    <3> QED
      BY <2>1, <2>2, <3>1, <3>2 DEF VInv, ProbeToCome
  <2> QED
    BY <2>3, <2>4
<1>11. OfferedIfCapable'
  <2>1. SUFFICES ASSUME store'.supported PROVE device'.capable
    BY DEF OfferedIfCapable
  <2>2. CASE store' = store
    BY <1>1, <2>1, <2>2 DEF VInv, OfferedIfCapable, charger
  <2>3. CASE Accepted(e)
    BY <1>1, <1>3, <2>3 DEF Accepted, charger
  <2>4. CASE Listed(e) /\ store' = [store EXCEPT !.supported = exchanges[e].answer = "yes"]
    BY <1>1, <1>3, <1>7, <2>1, <2>4 DEF charger
  <2> QED
    BY <1>5, <2>2, <2>3, <2>4
<1>12. SwitchFollowsRecord'
  <2>1. CASE store' = store
    BY <1>1, <2>1 DEF VInv, SwitchFollowsRecord
  <2>2. CASE store' # store
    <3>1. Accepted(e) \/ Listed(e)
      BY <1>5, <2>2
    <3>2. Announced(e, TRUE)
      BY <1>3, <3>1 DEF Announced, Accepted, Listed
    <3> QED
      BY <1>1, <3>2 DEF SwitchFollowsRecord
  <2> QED
    BY <2>1, <2>2
<1>13. ProbesOfBoots'
  BY <1>1 DEF VInv, ProbesOfBoots, counters
<1> QED
  BY <1>2, <1>8, <1>9, <1>10, <1>11, <1>12, <1>13 DEF VInv

\* A call that fails tells nothing: a command that was accepted is lost, a probe
\* was the last.
LEMMA FailsVInv ==
    ASSUME VInv, NEW e \in Exchanges, Fails(e)
    PROVE  VInv'
<1>1. /\ Busy(e)
      /\ IF Alive(e) THEN Fault ELSE UNCHANGED faults
      /\ exchanges' = [exchanges EXCEPT ![e] = Idle]
      /\ late' = IF Alive(e) /\ At(e, "sent") /\ Locking(e) THEN late \cup {exchanges[e].value} ELSE late
      /\ lost' = (lost \/ (Alive(e) /\ Locking(e) /\ exchanges[e].answer = "yes"))
      /\ deaf' = (deaf \/ exchanges[e].by = "probe")
      /\ notified' = (notified \/ Announced(e, FALSE))
      /\ UNCHANGED <<device, link, routing, store, probes, shown, missed, connects, boots, changes>>
  BY DEF Fails
<1>2. /\ exchanges' \in [Exchanges -> Exchange \cup {Idle}]
      /\ Sound' /\ OneOut'
      /\ ~Moving(e)'
      /\ \A f \in Exchanges \ {e} :
            /\ exchanges'[f] = exchanges[f]
            /\ Moving(f)' <=> Moving(f)
            /\ Probing(f)' <=> Probing(f)
  BY <1>1, Ended
<1>3. TypeOK'
  <2>1. late' \subseteq Locks
    BY <1>1, ExchangeFields DEF VInv, TypeOK, Locks
  <2>2. faults' \in 0..MaxFaults
    BY <1>1, VendorAssumption DEF VInv, TypeOK, Fault, VendorAssumption
  <2>3. notified' \in BOOLEAN
    BY <1>1 DEF VInv, TypeOK
  <2>4. lost' \in BOOLEAN /\ deaf' \in BOOLEAN
    BY <1>1 DEF VInv, TypeOK
  <2> QED
    BY <1>1, <1>2, <2>1, <2>2, <2>3, <2>4 DEF VInv, TypeOK, routing
<1>4. LockIsKnown'
  <2>1. SUFFICES ASSUME ~lost' PROVE LockIsKnown'
    BY DEF LockIsKnown
  <2>2. ~lost /\ ~Moving(e)
    BY <1>1, <2>1 DEF Moving, Accepted
  <2>3. /\ \A f \in Exchanges : Moving(f)' => Moving(f) /\ exchanges'[f] = exchanges[f]
        /\ (\A f \in Exchanges : ~Moving(f)') => \A f \in Exchanges : ~Moving(f)
    BY <1>2, <2>2
  <2> QED
    BY <1>1, <2>2, <2>3 DEF VInv, LockIsKnown
<1>5. ProbeToCome'
  <2>1. SUFFICES ASSUME ~deaf' PROVE ProbeToCome'
    BY DEF ProbeToCome
  <2>2. ~deaf /\ ~Probing(e)
    BY <1>1, <2>1 DEF Probing
  <2>3. (\E f \in Exchanges : Probing(f)) => \E f \in Exchanges : Probing(f)'
    BY <1>2, <2>2
  <2> QED
    BY <1>1, <2>2, <2>3 DEF VInv, ProbeToCome
<1>6. ProbesOfBoots' /\ OfferedIfCapable' /\ SwitchFollowsRecord'
  BY <1>1 DEF VInv, ProbesOfBoots, OfferedIfCapable, SwitchFollowsRecord
<1> QED
  BY <1>2, <1>3, <1>4, <1>5, <1>6 DEF VInv

\* A command that is executed late moves the lock, and nobody is told.
LEMMA LateExecutionVInv ==
    ASSUME VInv, NEW value \in Locks, LateExecution(value)
    PROVE  VInv'
<1>1. /\ late' = late \ {value}
      /\ \/ device' = [device EXCEPT !.lock = value] /\ lost' = TRUE
         \/ UNCHANGED <<device, lost>>
      /\ UNCHANGED <<link, routing, store, probes, notified, shown, missed, exchanges, counters, deaf>>
  BY DEF LateExecution
<1>2. /\ device' \in [capable : BOOLEAN, lock : Locks] /\ device'.capable = device.capable
      /\ lost' \in BOOLEAN /\ late' \subseteq Locks
  BY <1>1 DEF VInv, TypeOK
<1>3. TypeOK'
  BY <1>1, <1>2 DEF VInv, TypeOK, routing, counters
<1>4. /\ \A e \in Exchanges : /\ Moving(e)' <=> Moving(e)
                              /\ Probing(e)' <=> Probing(e)
      /\ OneOut'
  BY <1>1 DEF VInv, OneOut, Moving, Probing, Alive, At, Busy, Locking, Accepted
<1>5. Sound'
  BY <1>1, <1>2 DEF VInv, Sound, Alive, At, Locking
<1>6. LockIsKnown'
  BY <1>1, <1>4 DEF VInv, LockIsKnown
<1>7. ProbeToCome'
  BY <1>1, <1>2, <1>4 DEF VInv, ProbeToCome
<1>8. ProbesOfBoots' /\ OfferedIfCapable' /\ SwitchFollowsRecord'
  BY <1>1, <1>2 DEF VInv, ProbesOfBoots, OfferedIfCapable, SwitchFollowsRecord, counters
<1> QED
  BY <1>3, <1>4, <1>5, <1>6, <1>7, <1>8 DEF VInv

\* What is published is the record, where there is one to publish.
LEMMA PublishedStates ==
    ASSUME TypeOK
    PROVE  /\ ConnectorStates \in [known : BOOLEAN, lock : Locks]
           /\ store.supported /\ store.known => /\ ConnectorStates.known
                                               /\ ConnectorStates.lock = store.lock
BY DEF ConnectorStates, TypeOK, Data

\* The steps between the gateway and Gladys: the charge point has no part in them.
LEMMA TellsVInv ==
    ASSUME VInv, Emit \/ EmitUnheard \/ Poll
    PROVE  VInv'
<1>1. UNCHANGED <<charger, routing, store, probes, exchanges, counters, lost, deaf>>
  BY DEF Emit, EmitUnheard, Poll
<1>2. /\ notified' \in BOOLEAN /\ missed' \in BOOLEAN
      /\ \/ shown' = ConnectorStates
         \/ shown' = shown /\ missed' = TRUE
  BY DEF VInv, TypeOK, Emit, EmitUnheard, Poll
<1>3. shown' \in [known : BOOLEAN, lock : Locks]
  BY <1>2, PublishedStates DEF VInv, TypeOK
<1>4. TypeOK'
  BY <1>1, <1>2, <1>3 DEF VInv, TypeOK, charger, routing, counters
<1>5. Sound' /\ OneOut' /\ LockIsKnown' /\ ProbeToCome'
  BY <1>1, SameExchanges DEF VInv, LockIsKnown, ProbeToCome, charger
<1>6. ProbesOfBoots' /\ OfferedIfCapable'
  BY <1>1 DEF VInv, ProbesOfBoots, OfferedIfCapable, charger, counters
<1>7. SwitchFollowsRecord'
  BY <1>1, <1>2, PublishedStates DEF VInv, SwitchFollowsRecord
<1> QED
  BY <1>4, <1>5, <1>6, <1>7 DEF VInv

-----------------------------------------------------------------------------
\* A step that changes no variable preserves every part of the invariant.
LEMMA StutterVInv == VInv /\ UNCHANGED vars => VInv'
<1> SUFFICES ASSUME VInv, UNCHANGED vars PROVE VInv'
  OBVIOUS
<1>1. TypeOK' /\ ProbesOfBoots' /\ OfferedIfCapable' /\ SwitchFollowsRecord'
  BY DEF VInv, TypeOK, ProbesOfBoots, OfferedIfCapable, SwitchFollowsRecord, vars, charger, routing, counters
<1>2. Sound' /\ OneOut' /\ LockIsKnown' /\ ProbeToCome'
  BY SameExchanges DEF VInv, LockIsKnown, ProbeToCome, vars, charger, routing, counters
<1> QED
  BY <1>1, <1>2 DEF VInv

\* Every action preserves the invariant.
LEMMA NextVInv == VInv /\ [Next]_vars => VInv'
<1> SUFFICES ASSUME VInv, Next PROVE VInv'
  BY StutterVInv
<1>1. CASE Connect \/ Drop \/ Closed \/ Configure \/ Boot \/ BootFails
  BY <1>1, ConnectVInv, DropVInv, ClosedVInv, ConfigureVInv, BootVInv, BootFailsVInv
<1>10. CASE Emit \/ EmitUnheard \/ Poll
  BY <1>10, TellsVInv
<1>2. ASSUME NEW e \in Exchanges, NEW value \in 0..2, Command(e, value) PROVE VInv'
  BY <1>2, CommandVInv
<1>3. ASSUME NEW e \in Exchanges, Probe(e) PROVE VInv'
  BY <1>3, ProbeVInv
<1>4. ASSUME NEW e \in Exchanges, NEW what \in {"lock", Question}, NEW value \in Locks,
             CloudCalls(e, what, value)
      PROVE VInv'
  BY <1>4, CloudCallsVInv
<1>5. ASSUME NEW e \in Exchanges, Send(e) PROVE VInv'
  BY <1>5, SendVInv
<1>6. ASSUME NEW e \in Exchanges, NEW answer \in {"yes", "no", "none"}, Answer(e, answer) PROVE VInv'
  BY <1>6, AnswerVInv
<1>7. ASSUME NEW e \in Exchanges, Returns(e) PROVE VInv'
  BY <1>7, ReturnsVInv
<1>8. ASSUME NEW e \in Exchanges, Fails(e) PROVE VInv'
  BY <1>8, FailsVInv
<1>9. ASSUME NEW value \in Locks, LateExecution(value) PROVE VInv'
  BY <1>9, LateExecutionVInv
<1> QED
  BY <1>1, <1>2, <1>3, <1>4, <1>5, <1>6, <1>7, <1>8, <1>9, <1>10 DEF Next

\* The inductive invariant of the lock's commands, probes and relayed calls.
THEOREM VendorInvariant == Spec => []VInv
<1> QED
  BY InitVInv, NextVInv, PTL DEF Spec

\* Every variable keeps its type.
THEOREM TypesAreKept == Spec => []TypeOK
<1>1. VInv => TypeOK
  BY DEF VInv
<1> QED
  BY <1>1, VendorInvariant, PTL

\* The lock that the gateway serves is the one the charge point is in, unless a
\* command was executed that nobody could see: recordLock() is told of each other
\* one, by setPermanentLock() or observeOutgoing(), before another can be sent.
THEOREM TheRecordIsTheLock == Spec => []RecordIsTheLock
<1>1. VInv => RecordIsTheLock
  <2> SUFFICES ASSUME VInv, ~lost, store.known,
                      \A e \in Exchanges : Alive(e) => ~(At(e, "answered") /\ Locking(e))
               PROVE  store.lock = device.lock
    BY DEF RecordIsTheLock
  <2>1. \A e \in Exchanges : ~Moving(e)
    BY DEF Moving, Accepted
  <2> QED
    BY <2>1 DEF VInv, LockIsKnown
<1> QED
  BY <1>1, VendorInvariant, PTL

\* The lock is offered for no charge point that lacks it: every answer that
\* parsePermanentLockSupport() and recordLock() learn from is one of its own.
THEOREM TheLockIsThere == Spec => []OfferedIfCapable
<1>1. VInv => OfferedIfCapable
  BY DEF VInv
<1> QED
  BY <1>1, VendorInvariant, PTL

\* Whatever moves the record of the lock is announced to the change feed: Gladys
\* shows another one only until the feed emits, or after an event that was lost
\* (no listener, a broken stream) until the next event or poll.
THEOREM TheSwitchFollows == Spec => []SwitchFollowsRecord
<1>1. VInv => SwitchFollowsRecord
  BY DEF VInv
<1> QED
  BY <1>1, VendorInvariant, PTL

\* The probe of scheduleProbe() finds the lock of a charge point that has one,
\* or its failure is the reason that it was not found.
THEOREM TheLockIsFound == Spec => []LockIsFound
<1>1. VInv => LockIsFound
  <2> SUFFICES ASSUME VInv, device.capable, ~deaf, probes = 0,
                      \A e \in Exchanges : Busy(e) => exchanges[e].by # "probe"
               PROVE  store.supported
    BY DEF LockIsFound
  <2>1. \A e \in Exchanges : ~Probing(e)
    BY DEF Probing
  <2> QED
    BY <2>1 DEF VInv, ProbeToCome
<1> QED
  BY <1>1, VendorInvariant, PTL
=============================================================================
