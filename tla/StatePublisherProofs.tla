------------------------ MODULE StatePublisherProofs ------------------------
(***************************************************************************)
(* Proofs about the state queue, for every set of features, every limit    *)
(* and every length of the window.                                         *)
(*                                                                         *)
(* The invariant rests on one fact that flush() ensures with `flushing`:   *)
(* there is at most one call in flight (SingleFlight).  Everything Pump    *)
(* does is therefore studied once, with no other call open, in the three   *)
(* lemmas PumpTypes, PumpReadings and PumpTimer.                           *)
(***************************************************************************)
EXTENDS StatePublisher, FiniteSetTheorems, SequenceTheorems, TLAPS

\* `flushing` is set exactly while a call is in flight, and there is only one.
SingleFlight ==
    /\ flushing <=> calls # {}
    /\ \A a, b \in calls : a = b

\* The readings of a feature are ordered: Gladys, then the call in flight, then
\* the Map, then the last one handed over.
Ordered ==
    \A f \in Features :
        /\ published[f] <= latest[f]
        /\ pending[f] # None => published[f] <= pending[f] /\ pending[f] <= latest[f]
        /\ \A call \in calls : call.reading[f] # None =>
             /\ published[f] <= call.reading[f]
             /\ call.reading[f] <= latest[f]
             /\ pending[f] # None => call.reading[f] <= pending[f]

\* Once stopped there is no timer, and a call in flight leaves nothing to send.
StoppedIsQuiet ==
    stopped => /\ timer = NoTimer
               /\ calls # {} => queue = <<>>

SafeInv == TypeOK /\ SingleFlight /\ WithinBudget

IInv == SafeInv /\ Ordered /\ NothingLost /\ NoLostWakeup /\ StoppedIsQuiet

-----------------------------------------------------------------------------
\* The lists of a finite set are sequences over any set that contains it.
LEMMA OrdersAreSequences ==
    ASSUME NEW S, S \subseteq Features
    PROVE  Orders(S) \subseteq Seq(Features)
<1>1. Cardinality(S) \in Nat
  BY PublisherAssumption, FS_Subset, FS_CardinalityType DEF PublisherAssumption
<1>2. SUFFICES ASSUME NEW s \in [1..Cardinality(S) -> S] PROVE s \in Seq(Features)
  BY DEF Orders
<1>3. s \in [1..Cardinality(S) -> Features]
  OBVIOUS
<1> QED
  BY <1>1, <1>3

\* The Map after enqueue() and after a failure has a sequence of features as keys.
LEMMA QueueStaysSequence ==
    ASSUME NEW S, S \subseteq Features, queue \in Seq(Features),
           NEW new \in Orders(S)
    PROVE  queue \o new \in Seq(Features)
BY OrdersAreSequences, ConcatProperties

\* A cut of the keys into the chunk and the rest.
LEMMA CutQueue ==
    ASSUME NEW q \in Seq(Features), NEW n \in Nat, n <= Len(q)
    PROVE  /\ SubSeq(q, 1, n) \in Seq(Features)
           /\ Len(SubSeq(q, 1, n)) = n
           /\ SubSeq(q, n + 1, Len(q)) \in Seq(Features)
<1>1. Len(q) \in Nat /\ \A i \in 1..Len(q) : q[i] \in Features
  BY LenProperties, ElementOfSeq
<1>2. \A i \in 1..n : q[i] \in Features
  BY <1>1
<1>3. \A i \in (n + 1)..Len(q) : q[i] \in Features
  BY <1>1
<1>4. SubSeq(q, 1, n) \in Seq(Features) /\ Len(SubSeq(q, 1, n)) = IF 1 <= n THEN n - 1 + 1 ELSE 0
  BY <1>2, SubSeqProperties
<1>5. SubSeq(q, n + 1, Len(q)) \in Seq(Features)
  BY <1>1, <1>3, SubSeqProperties
<1> QED
  BY <1>4, <1>5

\* Pump keeps the types, one call in flight at most, and the budget.
LEMMA PumpTypes ==
    ASSUME TypeOK,
           NEW q \in Seq(Features), NEW p \in [Features -> 0..MaxReading],
           NEW c \in 0..MaxPerMinute, NEW t \in NoTimer..Window,
           Pump(q, p, c, t, {})
    PROVE  /\ queue' \in Seq(Features)
           /\ pending' \in [Features -> 0..MaxReading]
           /\ calls' \in SUBSET Call
           /\ count' \in 0..MaxPerMinute
           /\ windowLeft' \in 0..Window
           /\ timer' \in NoTimer..Window
           /\ flushing' \in BOOLEAN
           /\ SingleFlight'
           /\ WithinBudget'
<1> USE PublisherAssumption DEF PublisherAssumption, NoTimer, None
<1>1. CASE Drained(q, p, c, t, {})
  BY <1>1 DEF Drained, Return, TypeOK, SingleFlight, WithinBudget
<1>2. CASE Paused(q, p, c, t, {})
  <2>1. timer' \in NoTimer..Window
    BY <1>2 DEF Paused, ScheduleResume, TypeOK
  <2> QED
    BY <1>2, <2>1 DEF Paused, Return, TypeOK, SingleFlight, WithinBudget
<1>3. CASE OutOfBudget(q, p, c, t, {})
  <2>1. timer' \in NoTimer..Window
    BY <1>3 DEF OutOfBudget, ScheduleResume, TypeOK
  <2> QED
    BY <1>3, <2>1 DEF OutOfBudget, Return, TypeOK, SingleFlight, WithinBudget
<1>4. CASE Send(q, p, c, t, {})
  <2> DEFINE n == Smaller(Len(q), Room(c))
             taken == Elements(SubSeq(q, 1, n))
             call == [order |-> SubSeq(q, 1, n),
                      reading |-> [f \in Features |-> IF f \in taken THEN p[f] ELSE None]]
             left == IF windowLeft = 0 THEN 0 ELSE c
  <2>1. Len(q) \in Nat \ {0}
    BY <1>4, EmptySeq DEF Send
  <2>2. Room(c) \in 1..MaxPerRequest /\ left + Room(c) <= MaxPerMinute
    BY <1>4 DEF Send, Room, Budget, Smaller, TypeOK
  <2>3. n \in 1..MaxPerRequest /\ n <= Len(q) /\ left + n <= MaxPerMinute
    BY <2>1, <2>2 DEF Smaller
  <2>4. /\ SubSeq(q, 1, n) \in Seq(Features)
        /\ Len(SubSeq(q, 1, n)) = n
        /\ SubSeq(q, n + 1, Len(q)) \in Seq(Features)
    BY <2>3, CutQueue
  <2>5. /\ calls' = {call}
        /\ queue' = SubSeq(q, n + 1, Len(q))
        /\ pending' = [f \in Features |-> IF f \in taken THEN None ELSE p[f]]
        /\ windowLeft' = IF windowLeft = 0 THEN Window ELSE windowLeft
        /\ count' = left /\ flushing' = TRUE /\ timer' = t
    BY <1>4 DEF Send
  <2>6. call \in Call
    BY <2>4 DEF Call
  <2>7. call.order = SubSeq(q, 1, n)
    OBVIOUS
  <2>8. SingleFlight'
    BY <2>5 DEF SingleFlight
  <2>9. WithinBudget'
    <3> HIDE DEF call
    <3> QED BY <2>3, <2>4, <2>5, <2>7 DEF WithinBudget
  <2>10. left \in 0..MaxPerMinute
    OBVIOUS
  <2>11. windowLeft' \in 0..Window
    BY <2>5 DEF TypeOK
  <2>12. pending' \in [Features -> 0..MaxReading]
    <3> HIDE DEF taken
    <3> QED BY <2>5
  <2> HIDE DEF call, left, n, taken
  <2> QED
    BY <2>4, <2>5, <2>6, <2>8, <2>9, <2>10, <2>11, <2>12
<1> QED
  BY <1>1, <1>2, <1>3, <1>4 DEF Pump

\* Pump leaves the reading of a feature where it is, or moves it from the Map to
\* the call it makes.
LEMMA PumpReadings ==
    ASSUME NEW q, NEW p \in [Features -> 0..MaxReading], NEW c, NEW t,
           Pump(q, p, c, t, {}), NEW f \in Features
    PROVE  \/ /\ pending'[f] = p[f]
              /\ \A call \in calls' : call.reading[f] = None
           \/ /\ pending'[f] = None
              /\ calls' # {}
              /\ \A call \in calls' : call.reading[f] = p[f]
<1>1. CASE Send(q, p, c, t, {})
  <2> DEFINE n == Smaller(Len(q), Room(c))
             taken == Elements(SubSeq(q, 1, n))
             call == [order |-> SubSeq(q, 1, n),
                      reading |-> [g \in Features |-> IF g \in taken THEN p[g] ELSE None]]
  <2>1. /\ calls' = {call}
        /\ pending' = [g \in Features |-> IF g \in taken THEN None ELSE p[g]]
    BY <1>1 DEF Send
  <2>2. call.reading = [g \in Features |-> IF g \in taken THEN p[g] ELSE None]
    OBVIOUS
  <2> HIDE DEF taken, call
  <2> QED
    BY <2>1, <2>2
<1>2. CASE Drained(q, p, c, t, {}) \/ Paused(q, p, c, t, {}) \/ OutOfBudget(q, p, c, t, {})
  BY <1>2 DEF Drained, Paused, OutOfBudget, Return
<1> QED
  BY <1>1, <1>2 DEF Pump

\* Pump ends with nothing to send, a call in flight, or a timer.
LEMMA PumpTimer ==
    ASSUME TypeOK, NEW q, NEW p, NEW c, NEW t, Pump(q, p, c, t, {})
    PROVE  /\ ~stopped => queue' = <<>> \/ flushing' \/ timer' # NoTimer
           /\ stopped => timer' = t
           /\ q = <<>> => queue' = <<>> /\ calls' = {}
<1> USE PublisherAssumption DEF PublisherAssumption, NoTimer, TypeOK
<1>1. CASE Drained(q, p, c, t, {})
  BY <1>1 DEF Drained, Return
<1>2. CASE Paused(q, p, c, t, {})
  BY <1>2 DEF Paused, Return, ScheduleResume
<1>3. CASE OutOfBudget(q, p, c, t, {})
  BY <1>3 DEF OutOfBudget, Return, ScheduleResume
<1>4. CASE Send(q, p, c, t, {})
  BY <1>4 DEF Send
<1> QED
  BY <1>1, <1>2, <1>3, <1>4 DEF Pump

-----------------------------------------------------------------------------
\* The invariant holds at the start.
LEMMA InitIInv == Init => IInv
<1> SUFFICES ASSUME Init PROVE IInv
  OBVIOUS
<1> USE PublisherAssumption DEF PublisherAssumption, Init, Nothing, None, NoTimer
<1>1. SafeInv
  <2>1. queue \in Seq(Features)
    BY EmptySeq
  <2>2. count \in 0..MaxPerMinute /\ timer \in NoTimer..Window
    OBVIOUS
  <2>3. SingleFlight /\ WithinBudget
    BY DEF SingleFlight, WithinBudget
  <2>4. /\ latest \in [Features -> 0..MaxReading]
        /\ published \in [Features -> 0..MaxReading]
        /\ pending \in [Features -> 0..MaxReading]
    OBVIOUS
  <2>5. calls \in SUBSET Call /\ windowLeft \in 0..Window /\ pauseLeft \in 0..Window
    OBVIOUS
  <2>6. flushing \in BOOLEAN /\ stopped \in BOOLEAN
    OBVIOUS
  <2> QED
    BY <2>1, <2>2, <2>3, <2>4, <2>5, <2>6 DEF SafeInv, TypeOK
<1>2. Ordered /\ NothingLost
  BY DEF Ordered, NothingLost
<1>3. NoLostWakeup /\ StoppedIsQuiet
  BY DEF NoLostWakeup, StoppedIsQuiet
<1> QED
  BY <1>1, <1>2, <1>3 DEF IInv

\* What the Map holds after enqueue() of S, newer of them with a new reading.
MapWith(S) == [f \in Features |-> IF f \in S THEN latest'[f] ELSE pending[f]]

\* Enqueue keeps the invariant: a new reading supersedes the one that waits, and
\* is more recent than the one in flight.
LEMMA EnqueueIInv == IInv /\ Enqueue => IInv'
<1> SUFFICES ASSUME IInv, Enqueue PROVE IInv'
  OBVIOUS
<1> USE PublisherAssumption DEF None
<1>0. PICK S \in Batches : \E newer \in SUBSET S :
        /\ \A f \in newer : latest[f] < MaxReading
        /\ \A f \in S \ newer : latest[f] # None
        /\ latest' = [f \in Features |-> IF f \in newer THEN latest[f] + 1 ELSE latest[f]]
        /\ \E q \in Requeued(S) :
             IF flushing \/ q = <<>>
             THEN /\ queue' = q /\ pending' = MapWith(S)
                  /\ UNCHANGED <<calls, count, windowLeft, timer, flushing>>
             ELSE Pump(q, MapWith(S), count, timer, calls)
  BY DEF Enqueue, MapWith
<1>1. PICK newer \in SUBSET S :
        /\ \A f \in newer : latest[f] < MaxReading
        /\ \A f \in S \ newer : latest[f] # None
        /\ latest' = [f \in Features |-> IF f \in newer THEN latest[f] + 1 ELSE latest[f]]
        /\ \E q \in Requeued(S) :
             IF flushing \/ q = <<>>
             THEN /\ queue' = q /\ pending' = MapWith(S)
                  /\ UNCHANGED <<calls, count, windowLeft, timer, flushing>>
             ELSE Pump(q, MapWith(S), count, timer, calls)
  BY <1>0
<1>2. PICK q \in Requeued(S) :
             IF flushing \/ q = <<>>
             THEN /\ queue' = q /\ pending' = MapWith(S)
                  /\ UNCHANGED <<calls, count, windowLeft, timer, flushing>>
             ELSE Pump(q, MapWith(S), count, timer, calls)
  BY <1>1
<1>3. /\ ~stopped /\ ~stopped'
      /\ UNCHANGED <<published, pauseLeft, stopped>>
  BY DEF Enqueue
<1>4. S \subseteq Features /\ newer \subseteq Features
  BY DEF PublisherAssumption
<1>5. TypeOK /\ SingleFlight /\ WithinBudget
  BY DEF IInv, SafeInv
<1>6. q \in Seq(Features)
  <2>1. {f \in S : pending[f] = None} \subseteq Features
    BY <1>4
  <2> QED
    BY <1>2, <1>5, <2>1, QueueStaysSequence DEF Requeued, TypeOK
<1>7. /\ latest' \in [Features -> 0..MaxReading]
      /\ \A f \in Features : latest[f] <= latest'[f] /\ latest[f] \in 0..MaxReading
      /\ \A f \in Features : f \notin S => latest'[f] = latest[f]
      /\ \A f \in S : latest'[f] # None
  BY <1>1, <1>4, <1>5 DEF TypeOK, PublisherAssumption
<1>8. /\ MapWith(S) \in [Features -> 0..MaxReading]
      /\ \A f \in Features : MapWith(S)[f] = IF f \in S THEN latest'[f] ELSE pending[f]
  BY <1>5, <1>7 DEF MapWith, TypeOK
<1>9. \A f \in Features :
        /\ MapWith(S)[f] # None => /\ MapWith(S)[f] = latest'[f]
                                   /\ published[f] <= MapWith(S)[f]
        /\ MapWith(S)[f] = None => /\ f \notin S /\ pending[f] = None
        /\ published[f] <= latest'[f]
  BY <1>3, <1>5, <1>7, <1>8 DEF IInv, Ordered, NothingLost, TypeOK
<1>10. CASE flushing \/ q = <<>>
  <2>1. /\ queue' = q /\ pending' = MapWith(S)
        /\ UNCHANGED <<calls, count, windowLeft, timer, flushing>>
    BY <1>2, <1>10
  <2>2. SafeInv'
    BY <1>3, <1>5, <1>6, <1>7, <1>8, <2>1 DEF SafeInv, TypeOK, SingleFlight, WithinBudget, Call
  <2>3. Ordered'
    <3> SUFFICES ASSUME NEW f \in Features,
                        NEW call \in calls, call.reading[f] # None
                 PROVE  /\ published[f] <= call.reading[f]
                        /\ call.reading[f] <= latest'[f]
                        /\ MapWith(S)[f] # None => call.reading[f] <= MapWith(S)[f]
      BY <1>3, <1>9, <1>7, <1>8, <2>1 DEF Ordered, TypeOK
    <3>1. call.reading[f] \in 0..MaxReading
      BY <1>5 DEF TypeOK, Call
    <3>2. published[f] <= call.reading[f] /\ call.reading[f] <= latest[f]
      BY DEF IInv, Ordered
    <3> QED
      BY <3>1, <3>2, <1>7, <1>9
  <2>4. NothingLost'
    BY <1>3, <1>7, <1>9, <2>1 DEF IInv, NothingLost
  <2>5. NoLostWakeup' /\ StoppedIsQuiet'
    BY <1>3, <1>10, <2>1 DEF NoLostWakeup, StoppedIsQuiet
  <2> QED
    BY <2>2, <2>3, <2>4, <2>5 DEF IInv
<1>11. CASE ~(flushing \/ q = <<>>)
  <2>1. Pump(q, MapWith(S), count, timer, {}) /\ calls = {}
    BY <1>2, <1>5, <1>11 DEF SingleFlight
  <2>2. SafeInv'
    BY <1>3, <1>5, <1>6, <1>7, <1>8, <2>1, PumpTypes DEF SafeInv, TypeOK
  <2>3. \A f \in Features :
           \/ /\ pending'[f] = MapWith(S)[f]
              /\ \A call \in calls' : call.reading[f] = None
           \/ /\ pending'[f] = None
              /\ calls' # {}
              /\ \A call \in calls' : call.reading[f] = MapWith(S)[f]
    BY <1>8, <2>1, PumpReadings
  <2>4. Ordered'
    BY <1>3, <1>7, <1>8, <1>9, <2>3 DEF Ordered
  <2>5. NothingLost'
    BY <1>3, <1>7, <1>8, <1>9, <2>1, <2>3 DEF IInv, NothingLost
  <2>6. NoLostWakeup' /\ StoppedIsQuiet'
    BY <1>3, <1>5, <2>1, PumpTimer DEF NoLostWakeup, StoppedIsQuiet
  <2> QED
    BY <2>2, <2>4, <2>5, <2>6 DEF IInv
<1> QED
  BY <1>10, <1>11

\* A call that ends is the only one.
LEMMA NoOtherCall ==
    ASSUME SingleFlight, NEW call \in calls
    PROVE  calls \ {call} = {} /\ flushing
BY DEF SingleFlight

\* PublishedStates keeps the invariant: what Gladys now holds is what the call
\* carried, and the loop goes on with no call open.
LEMMA PublishedIInv ==
    ASSUME IInv, NEW call \in calls, PublishedStates(call)
    PROVE  IInv'
<1> USE PublisherAssumption DEF None
<1>1. TypeOK /\ SingleFlight /\ WithinBudget /\ Ordered /\ NothingLost
  BY DEF IInv, SafeInv
<1>2. PICK sent \in 0..Len(call.order) :
        Pump(queue, pending, count + sent, timer, calls \ {call})
  BY DEF PublishedStates
<1>3. Pump(queue, pending, count + sent, timer, {})
  BY <1>1, <1>2, NoOtherCall
<1>4. UNCHANGED <<latest, pauseLeft, stopped>>
  BY DEF PublishedStates
<1>5. /\ queue \in Seq(Features) /\ pending \in [Features -> 0..MaxReading]
      /\ timer \in NoTimer..Window
      /\ call.reading \in [Features -> 0..MaxReading]
  BY <1>1 DEF TypeOK, Call
<1>6. count + sent \in 0..MaxPerMinute
  <2>1. Len(call.order) \in Nat /\ count + Len(call.order) <= MaxPerMinute
    BY <1>1 DEF WithinBudget
  <2> QED
    BY <1>1, <2>1 DEF TypeOK, PublisherAssumption
<1>7. /\ published' = [f \in Features |->
             IF call.reading[f] # None THEN call.reading[f] ELSE published[f]]
      /\ published' \in [Features -> 0..MaxReading]
  BY <1>1, <1>5 DEF PublishedStates, GladysSaves, Carried, TypeOK
<1>8. SafeInv'
  BY <1>1, <1>3, <1>4, <1>5, <1>6, <1>7, PumpTypes DEF SafeInv, TypeOK
<1>9. \A f \in Features :
        \/ /\ pending'[f] = pending[f]
           /\ \A next \in calls' : next.reading[f] = None
        \/ /\ pending'[f] = None
           /\ calls' # {}
           /\ \A next \in calls' : next.reading[f] = pending[f]
  BY <1>3, <1>5, PumpReadings
<1>10. \A f \in Features :
         /\ published'[f] <= latest[f]
         /\ pending[f] # None => published'[f] <= pending[f] /\ pending[f] <= latest[f]
  BY <1>1, <1>7 DEF Ordered
<1>11. Ordered'
  BY <1>4, <1>9, <1>10 DEF Ordered
<1>12. \A other \in calls : other = call
  BY <1>1 DEF SingleFlight
<1>13. ~stopped => \A f \in Features :
         /\ pending[f] # None => pending[f] = latest[f]
         /\ pending[f] = None => published'[f] = latest[f]
  BY <1>1, <1>7, <1>12 DEF NothingLost
<1>14. NothingLost'
  BY <1>4, <1>9, <1>13 DEF NothingLost
<1>15. NoLostWakeup' /\ StoppedIsQuiet'
  BY <1>1, <1>3, <1>4, PumpTimer DEF IInv, NoLostWakeup, StoppedIsQuiet
<1> QED
  BY <1>8, <1>11, <1>14, <1>15 DEF IInv

\* A failure keeps the invariant: what goes back to the Map has not been
\* superseded, so it is still the last reading; and a timer is set.
LEMMA PutBackIInv ==
    ASSUME IInv, NEW call \in calls, NEW delay \in 0..Window,
           PutBackAndPause(call, delay), UNCHANGED published \/ GladysSaves(call)
    PROVE  IInv'
<1> USE PublisherAssumption DEF None
<1> DEFINE back == {f \in Carried(call) : pending[f] = None}
<1>1. TypeOK /\ SingleFlight /\ WithinBudget /\ Ordered /\ NothingLost
  BY DEF IInv, SafeInv
<1>2. PICK again \in Orders(back) : queue' = queue \o again
  BY DEF PutBackAndPause
<1>3. queue' \in Seq(Features)
  <2>1. back \subseteq Features
    BY DEF Carried
  <2> QED
    BY <1>1, <1>2, <2>1, QueueStaysSequence DEF TypeOK
<1>4. calls' = {}
  BY <1>1, NoOtherCall DEF PutBackAndPause
<1>5. call.reading \in [Features -> 0..MaxReading]
  BY <1>1 DEF TypeOK, Call
<1>6. /\ pending' \in [Features -> 0..MaxReading]
      /\ \A f \in Features : pending'[f] =
           IF call.reading[f] # None /\ pending[f] = None THEN call.reading[f] ELSE pending[f]
  BY <1>1, <1>5 DEF PutBackAndPause, Carried, TypeOK
<1>7. /\ published' \in [Features -> 0..MaxReading]
      /\ \A f \in Features : published'[f] # published[f] =>
           call.reading[f] # None /\ published'[f] = call.reading[f]
  <2>1. CASE UNCHANGED published
    BY <1>1, <2>1 DEF TypeOK
  <2>2. CASE GladysSaves(call)
    BY <1>1, <1>5, <2>2 DEF GladysSaves, Carried, TypeOK
  <2> QED
    BY <2>1, <2>2
<1>8. /\ UNCHANGED <<latest, count, windowLeft, stopped>>
      /\ flushing' = FALSE /\ pauseLeft' = delay
      /\ timer' = IF stopped \/ timer # NoTimer THEN timer ELSE delay
  BY DEF PutBackAndPause, ScheduleResume
<1>9. timer' \in NoTimer..Window
  BY <1>1, <1>8 DEF TypeOK, NoTimer, PublisherAssumption
<1>10. SafeInv'
  BY <1>1, <1>3, <1>4, <1>6, <1>7, <1>8, <1>9 DEF SafeInv, TypeOK, SingleFlight, WithinBudget
<1>11. Ordered'
  <2> SUFFICES ASSUME NEW f \in Features
               PROVE  /\ published'[f] <= latest[f]
                      /\ pending'[f] # None => published'[f] <= pending'[f] /\ pending'[f] <= latest[f]
    BY <1>4, <1>8 DEF Ordered
  <2>1. /\ published[f] \in Nat /\ latest[f] \in Nat
        /\ pending[f] \in Nat /\ call.reading[f] \in Nat
    BY <1>1, <1>5 DEF TypeOK, PublisherAssumption
  <2> QED
    BY <1>1, <1>6, <1>7, <2>1 DEF Ordered
<1>12. NothingLost'
  <2>1. \A other \in calls : other = call
    BY <1>1 DEF SingleFlight
  <2> QED
    BY <1>1, <1>4, <1>6, <1>7, <1>8, <2>1 DEF NothingLost
<1>13. NoLostWakeup' /\ StoppedIsQuiet'
  BY <1>4, <1>8 DEF IInv, NoLostWakeup, StoppedIsQuiet, NoTimer
<1> QED
  BY <1>10, <1>11, <1>12, <1>13 DEF IInv

\* The timer keeps the invariant: it is consumed, and flush() sets another one
\* if it leaves readings behind.
LEMMA ResumeIInv == IInv /\ Resume => IInv'
<1> SUFFICES ASSUME IInv, Resume PROVE IInv'
  OBVIOUS
<1> USE PublisherAssumption DEF None
<1>1. TypeOK /\ SingleFlight /\ WithinBudget /\ Ordered /\ NothingLost
  BY DEF IInv, SafeInv
<1>2. UNCHANGED <<latest, published, pauseLeft, stopped>> /\ timer = 0
  BY DEF Resume
<1>3. ~stopped
  BY <1>2 DEF IInv, StoppedIsQuiet, NoTimer
<1>4. CASE flushing
  <2>1. /\ timer' = NoTimer
        /\ UNCHANGED <<queue, pending, calls, count, windowLeft, flushing>>
    BY <1>4 DEF Resume
  <2>2. timer' \in NoTimer..Window
    BY <2>1 DEF NoTimer, PublisherAssumption
  <2>3. SafeInv'
    BY <1>1, <1>2, <2>1, <2>2 DEF SafeInv, TypeOK, SingleFlight, WithinBudget, Call
  <2>4. Ordered' /\ NothingLost'
    BY <1>1, <1>2, <2>1 DEF Ordered, NothingLost
  <2>5. NoLostWakeup' /\ StoppedIsQuiet'
    BY <1>2, <1>3, <1>4, <2>1 DEF NoLostWakeup, StoppedIsQuiet
  <2> QED
    BY <2>3, <2>4, <2>5 DEF IInv
<1>5. CASE ~flushing
  <2>1. Pump(queue, pending, count, NoTimer, {}) /\ calls = {}
    BY <1>1, <1>5 DEF Resume, SingleFlight
  <2>2. /\ queue \in Seq(Features) /\ pending \in [Features -> 0..MaxReading]
        /\ count \in 0..MaxPerMinute
    BY <1>1 DEF TypeOK
  <2>3. NoTimer \in NoTimer..Window
    BY DEF NoTimer, PublisherAssumption
  <2>4. SafeInv'
    BY <1>1, <1>2, <2>1, <2>2, <2>3, PumpTypes DEF SafeInv, TypeOK
  <2>5. \A f \in Features :
           \/ /\ pending'[f] = pending[f]
              /\ \A call \in calls' : call.reading[f] = None
           \/ /\ pending'[f] = None
              /\ calls' # {}
              /\ \A call \in calls' : call.reading[f] = pending[f]
    BY <2>1, <2>2, PumpReadings
  <2>6. Ordered' /\ NothingLost'
    BY <1>1, <1>2, <2>1, <2>5 DEF Ordered, NothingLost
  <2>7. NoLostWakeup' /\ StoppedIsQuiet'
    BY <1>1, <1>2, <1>3, <2>1, PumpTimer DEF NoLostWakeup, StoppedIsQuiet
  <2> QED
    BY <2>4, <2>6, <2>7 DEF IInv
<1> QED
  BY <1>4, <1>5

\* stop() keeps the invariant: the call in flight may still be answered.
LEMMA StopIInv == IInv /\ Stop => IInv'
<1> SUFFICES ASSUME IInv, Stop PROVE IInv'
  OBVIOUS
<1> USE PublisherAssumption DEF None
<1>1. /\ stopped' = TRUE /\ timer' = NoTimer
      /\ queue' = <<>> /\ pending' = Nothing
      /\ UNCHANGED <<latest, published, calls, count, windowLeft, pauseLeft, flushing>>
  BY DEF Stop
<1>2. queue' \in Seq(Features) /\ timer' \in NoTimer..Window
  BY <1>1, EmptySeq DEF NoTimer, PublisherAssumption
<1>3. pending' \in [Features -> 0..MaxReading] /\ \A f \in Features : pending'[f] = None
  BY <1>1 DEF Nothing, PublisherAssumption
<1>4. SafeInv'
  BY <1>1, <1>2, <1>3 DEF IInv, SafeInv, TypeOK, SingleFlight, WithinBudget, Call
<1>5. Ordered'
  BY <1>1, <1>3 DEF IInv, Ordered
<1>6. NothingLost' /\ NoLostWakeup' /\ StoppedIsQuiet'
  BY <1>1 DEF NothingLost, NoLostWakeup, StoppedIsQuiet
<1> QED
  BY <1>4, <1>5, <1>6 DEF IInv

\* Time keeps the invariant: a timer that becomes due is still there.
LEMMA TickIInv == IInv /\ Tick => IInv'
<1> SUFFICES ASSUME IInv, Tick PROVE IInv'
  OBVIOUS
<1> USE PublisherAssumption DEF None
<1>1. /\ windowLeft' = IF windowLeft > 0 THEN windowLeft - 1 ELSE 0
      /\ pauseLeft' = IF pauseLeft > 0 THEN pauseLeft - 1 ELSE 0
      /\ timer' = IF timer > 0 THEN timer - 1 ELSE timer
      /\ UNCHANGED <<latest, published, queue, pending, calls, count, flushing, stopped>>
  BY DEF Tick
<1>2. windowLeft' \in 0..Window /\ pauseLeft' \in 0..Window
  BY <1>1 DEF IInv, SafeInv, TypeOK, PublisherAssumption
<1>3. timer' \in NoTimer..Window /\ (timer # NoTimer <=> timer' # NoTimer)
  BY <1>1 DEF IInv, SafeInv, TypeOK, PublisherAssumption, NoTimer
<1>4. SafeInv'
  BY <1>1, <1>2, <1>3 DEF IInv, SafeInv, TypeOK, SingleFlight, WithinBudget, Call
<1>5. Ordered' /\ NothingLost'
  BY <1>1 DEF IInv, Ordered, NothingLost
<1>6. NoLostWakeup' /\ StoppedIsQuiet'
  BY <1>1, <1>3 DEF IInv, NoLostWakeup, StoppedIsQuiet
<1> QED
  BY <1>4, <1>5, <1>6 DEF IInv

\* A step that leaves the variables alone keeps the invariant.
LEMMA StutterIInv == IInv /\ UNCHANGED vars => IInv'
<1> SUFFICES ASSUME IInv, UNCHANGED vars PROVE IInv'
  OBVIOUS
<1>1. UNCHANGED <<latest, published, queue, pending, calls, count, windowLeft,
                  pauseLeft, timer, flushing, stopped>>
  BY DEF vars
<1>2. TypeOK'
  BY <1>1 DEF IInv, SafeInv, TypeOK
<1>3. SafeInv'
  BY <1>1, <1>2 DEF IInv, SafeInv, SingleFlight, WithinBudget
<1>4. Ordered' /\ NothingLost'
  BY <1>1 DEF IInv, Ordered, NothingLost
<1>5. NoLostWakeup' /\ StoppedIsQuiet'
  BY <1>1 DEF IInv, NoLostWakeup, StoppedIsQuiet
<1> QED
  BY <1>3, <1>4, <1>5 DEF IInv

\* Every step keeps the invariant.
LEMMA NextIInv == IInv /\ [Next]_vars => IInv'
<1> SUFFICES ASSUME IInv, [Next]_vars PROVE IInv'
  OBVIOUS
<1>1. CASE Enqueue
  BY <1>1, EnqueueIInv
<1>2. CASE EnqueueStopped
  BY <1>2, StutterIInv DEF EnqueueStopped
<1>3. ASSUME NEW call \in calls, PublishedStates(call) PROVE IInv'
  BY <1>3, PublishedIInv
<1>4. ASSUME NEW call \in calls, RateLimited(call) PROVE IInv'
  <2>1. Window \in 0..Window
    BY PublisherAssumption DEF PublisherAssumption
  <2> QED
    BY <1>4, <2>1, PutBackIInv DEF RateLimited
<1>5. ASSUME NEW call \in calls, Failed(call) PROVE IInv'
  <2>1. RetryDelay \in 0..Window
    BY PublisherAssumption DEF PublisherAssumption
  <2> QED
    BY <1>5, <2>1, PutBackIInv DEF Failed
<1>6. CASE Resume
  BY <1>6, ResumeIInv
<1>7. CASE Stop
  BY <1>7, StopIInv
<1>8. CASE Tick
  BY <1>8, TickIInv
<1>9. CASE UNCHANGED vars
  BY <1>9, StutterIInv
<1> QED
  BY <1>1, <1>2, <1>3, <1>4, <1>5, <1>6, <1>7, <1>8, <1>9 DEF Next

\* The inductive invariant holds in every behaviour of the queue.
THEOREM Invariant == Spec => []IInv
<1>1. Init => IInv
  BY InitIInv
<1>2. IInv /\ [Next]_vars => IInv'
  BY NextIInv
<1> QED
  BY <1>1, <1>2, PTL DEF Spec

-----------------------------------------------------------------------------
\* The variables of stateSync.js keep their types; in particular the budget is
\* never overspent and the deadlines stay within the window.
THEOREM TypeCorrect == Spec => []TypeOK
<1>1. IInv => TypeOK
  BY DEF IInv, SafeInv
<1> QED
  BY <1>1, Invariant, PTL

\* "Nothing is lost when the budget runs out": for any number of features, any
\* limits and any run of failures, the last reading of a feature waits, is in
\* flight or is in Gladys.
THEOREM NothingIsLost == Spec => []NothingLost
<1>1. IInv => NothingLost
  BY DEF IInv
<1> QED
  BY <1>1, Invariant, PTL

\* "The queue holds and drains itself": readings never wait without a call in
\* flight or a timer.
THEOREM WakeupIsNotLost == Spec => []NoLostWakeup
<1>1. IInv => NoLostWakeup
  BY DEF IInv
<1> QED
  BY <1>1, Invariant, PTL

\* The limits of Gladys are respected when a call is made, and while it lasts.
THEOREM BudgetIsKept == Spec => []WithinBudget
<1>1. IInv => WithinBudget
  BY DEF IInv, SafeInv
<1> QED
  BY <1>1, Invariant, PTL

\* No step replaces what Gladys holds by an older reading.
THEOREM PublishedNeverGoesBack == Spec => NeverGoesBack
<1>1. IInv /\ [Next]_vars => [\A f \in Features : published'[f] >= published[f]]_vars
  <2> SUFFICES ASSUME IInv, Next, NEW f \in Features PROVE published'[f] >= published[f]
    OBVIOUS
  <2>1. published[f] \in Nat /\ \A call \in calls : call.reading[f] \in Nat
    BY PublisherAssumption DEF IInv, SafeInv, TypeOK, Call, PublisherAssumption
  <2>2. ASSUME NEW call \in calls, GladysSaves(call) PROVE published'[f] >= published[f]
    BY <2>1, <2>2 DEF GladysSaves, Carried, IInv, Ordered
  <2>3. CASE UNCHANGED published
    BY <2>1, <2>3
  <2>4. (\E call \in calls : GladysSaves(call)) \/ UNCHANGED published
    BY DEF Next, Enqueue, EnqueueStopped, PublishedStates, RateLimited, Failed, Resume,
           Stop, Tick, vars
  <2> QED
    BY <2>2, <2>3, <2>4
<1> QED
  BY <1>1, Invariant, PTL DEF Spec, NeverGoesBack

\* Once stop() has run no call starts: the loop of a flush() in flight finds the
\* Map empty, there is no timer, and enqueue() returns at once.
THEOREM QuietOnceStopped == Spec => NoCallAfterStop
<1>1. IInv /\ [Next]_vars => [stopped => calls' \subseteq calls]_vars
  <2> SUFFICES ASSUME IInv, Next, stopped PROVE calls' \subseteq calls
    OBVIOUS
  <2>1. TypeOK /\ SingleFlight /\ timer = NoTimer /\ (calls # {} => queue = <<>>)
    BY DEF IInv, SafeInv, StoppedIsQuiet
  <2>2. ~Enqueue /\ ~Resume
    BY <2>1 DEF Enqueue, Resume, NoTimer
  <2>3. ASSUME NEW call \in calls, PublishedStates(call) PROVE calls' \subseteq calls
    <3>1. PICK sent \in 0..Len(call.order) :
            Pump(queue, pending, count + sent, timer, calls \ {call})
      BY <2>3 DEF PublishedStates
    <3>2. Pump(queue, pending, count + sent, timer, {}) /\ queue = <<>>
      BY <2>1, <3>1, NoOtherCall
    <3> QED
      BY <2>1, <3>2, PumpTimer
  <2>4. ASSUME NEW call \in calls, RateLimited(call) \/ Failed(call) PROVE calls' \subseteq calls
    BY <2>4 DEF RateLimited, Failed, PutBackAndPause
  <2>5. CASE EnqueueStopped \/ Stop \/ Tick
    BY <2>5 DEF EnqueueStopped, Stop, Tick, vars
  <2> QED
    BY <2>2, <2>3, <2>4, <2>5 DEF Next
<1> QED
  BY <1>1, Invariant, PTL DEF Spec, NoCallAfterStop

-----------------------------------------------------------------------------
\* The safety part of the channel: where it starts and how it may step.
ChannelSteps == Channel!Init /\ [][Channel!Next]_(Channel!avars)

\* An enqueue() hands over a newer reading of some features, to the channel too.
LEMMA EnqueueProduces == TypeOK /\ Enqueue => Channel!Produce
<1> SUFFICES ASSUME TypeOK, Enqueue PROVE Channel!Produce
  OBVIOUS
<1>1. PICK S \in Batches : \E newer \in SUBSET S :
        /\ \A f \in newer : latest[f] < MaxReading
        /\ latest' = [f \in Features |-> IF f \in newer THEN latest[f] + 1 ELSE latest[f]]
  BY DEF Enqueue
<1>2. PICK newer \in SUBSET S :
        /\ \A f \in newer : latest[f] < MaxReading
        /\ latest' = [f \in Features |-> IF f \in newer THEN latest[f] + 1 ELSE latest[f]]
  BY <1>1
<1>3. newer \in SUBSET Features
  BY PublisherAssumption DEF PublisherAssumption
<1>4. latest' = [f \in Features |-> IF f \in newer /\ latest[f] < MaxReading
                                   THEN latest[f] + 1 ELSE latest[f]]
  BY <1>2
<1>5. ~stopped /\ UNCHANGED <<published, stopped>>
  BY DEF Enqueue
<1> QED
  BY <1>3, <1>4, <1>5 DEF Channel!Produce

\* What Gladys saves of a call is a delivery of the channel.
LEMMA SavedIsDelivered ==
    ASSUME IInv, NEW call \in calls, GladysSaves(call), UNCHANGED <<latest, stopped>>
    PROVE  Channel!Deliver
<1> USE PublisherAssumption DEF None
<1> DEFINE S == Carried(call)
           r == [f \in S |-> call.reading[f]]
<1>1. /\ call.reading \in [Features -> 0..MaxReading]
      /\ \A f \in Features : published[f] \in 0..MaxReading /\ latest[f] \in 0..MaxReading
  BY DEF IInv, SafeInv, TypeOK, Call
<1>2. S \in SUBSET Features /\ r \in [S -> 1..MaxReading]
  BY <1>1 DEF Carried, PublisherAssumption
<1>3. \A f \in S : r[f] \in published[f]..latest[f]
  BY <1>1, <1>2 DEF IInv, Ordered, Carried, PublisherAssumption
<1>4. published' = [f \in Features |-> IF f \in S THEN r[f] ELSE published[f]]
  BY DEF GladysSaves
<1> HIDE DEF S, r
<1> QED
  BY <1>2, <1>3, <1>4 DEF Channel!Deliver

\* The queue implements the channel, its liveness left to the model checker:
\* every step is a step of the channel or leaves it alone.
THEOREM ImplementsChannelSteps == Spec => ChannelSteps
<1>1. Init => Channel!Init
  BY DEF Init, Nothing, None, Channel!Init
<1>2. IInv /\ [Next]_vars => [Channel!Next]_(Channel!avars)
  <2> SUFFICES ASSUME IInv, [Next]_vars PROVE Channel!Next \/ UNCHANGED <<latest, published, stopped>>
    BY DEF Channel!avars
  <2>1. CASE Enqueue
    BY <2>1, EnqueueProduces DEF IInv, SafeInv, Channel!Next
  <2>2. ASSUME NEW call \in calls, PublishedStates(call) PROVE Channel!Next
    BY <2>2, SavedIsDelivered DEF PublishedStates, Channel!Next
  <2>3. ASSUME NEW call \in calls, RateLimited(call)
        PROVE  UNCHANGED <<latest, published, stopped>>
    BY <2>3 DEF RateLimited, PutBackAndPause
  <2>4. ASSUME NEW call \in calls, Failed(call)
        PROVE  Channel!Next \/ UNCHANGED <<latest, published, stopped>>
    BY <2>4, SavedIsDelivered DEF Failed, PutBackAndPause, Channel!Next
  <2>5. CASE Stop
    BY <2>5 DEF Stop, Channel!Close, Channel!Next
  <2>6. CASE EnqueueStopped \/ Resume \/ Tick \/ UNCHANGED vars
    BY <2>6 DEF EnqueueStopped, Resume, Tick, vars
  <2> QED
    BY <2>1, <2>2, <2>3, <2>4, <2>5, <2>6 DEF Next
<1> QED
  BY <1>1, <1>2, Invariant, PTL DEF Spec, ChannelSteps

-----------------------------------------------------------------------------
\* The timer is not too late because a pause and a call in flight exclude each
\* other: a failure then replaces no pause that the timer was waiting for.
PauseOrCall ==
    /\ TimerNotTooLate
    /\ calls # {} => pauseLeft = 0

\* Pump keeps it: what flush() waits for is what it sets the timer to.
LEMMA PumpPause ==
    ASSUME TypeOK, NEW q, NEW p, NEW c, NEW t \in NoTimer..Window,
           Pump(q, p, c, t, {}), UNCHANGED pauseLeft,
           t > 0 => t <= pauseLeft \/ t <= windowLeft
    PROVE  PauseOrCall'
<1> USE PublisherAssumption DEF PublisherAssumption, NoTimer, TypeOK, PauseOrCall, TimerNotTooLate
<1>1. CASE Drained(q, p, c, t, {})
  BY <1>1 DEF Drained, Return
<1>2. CASE Paused(q, p, c, t, {})
  BY <1>2 DEF Paused, Return, ScheduleResume
<1>3. CASE OutOfBudget(q, p, c, t, {})
  BY <1>3 DEF OutOfBudget, Return, ScheduleResume
<1>4. CASE Send(q, p, c, t, {})
  BY <1>4 DEF Send
<1> QED
  BY <1>1, <1>2, <1>3, <1>4 DEF Pump

\* Every step keeps it.
LEMMA NextPause == IInv /\ PauseOrCall /\ [Next]_vars => PauseOrCall'
<1> SUFFICES ASSUME IInv, PauseOrCall, [Next]_vars PROVE PauseOrCall'
  OBVIOUS
<1>1. TypeOK /\ SingleFlight
  BY DEF IInv, SafeInv
<1>2. /\ timer \in NoTimer..Window /\ pauseLeft \in 0..Window /\ windowLeft \in 0..Window
      /\ timer > 0 => timer <= pauseLeft \/ timer <= windowLeft
  BY <1>1 DEF TypeOK, PauseOrCall, TimerNotTooLate
<1>3. CASE Enqueue
  <2>1. UNCHANGED pauseLeft
    BY <1>3 DEF Enqueue
  <2>2. CASE UNCHANGED <<calls, windowLeft, timer>>
    BY <2>1, <2>2 DEF PauseOrCall, TimerNotTooLate
  <2>3. CASE \E q, p : calls = {} /\ Pump(q, p, count, timer, {})
    BY <1>1, <1>2, <2>1, <2>3, PumpPause
  <2>4. \E q, p : \/ UNCHANGED <<calls, windowLeft, timer>>
                  \/ ~flushing /\ Pump(q, p, count, timer, calls)
    BY <1>3 DEF Enqueue
  <2> QED
    BY <1>1, <2>2, <2>3, <2>4 DEF SingleFlight
<1>4. ASSUME NEW call \in calls, PublishedStates(call) PROVE PauseOrCall'
  <2>1. PICK sent \in 0..Len(call.order) :
          Pump(queue, pending, count + sent, timer, calls \ {call})
    BY <1>4 DEF PublishedStates
  <2>2. UNCHANGED pauseLeft /\ calls \ {call} = {}
    BY <1>1, <1>4, NoOtherCall DEF PublishedStates
  <2> QED
    BY <1>1, <1>2, <2>1, <2>2, PumpPause
<1>5. ASSUME NEW call \in calls, NEW delay \in 0..Window, PutBackAndPause(call, delay) PROVE PauseOrCall'
  <2>1. pauseLeft = 0 /\ calls \ {call} = {}
    BY <1>1, NoOtherCall DEF PauseOrCall
  <2>2. /\ calls' = {} /\ pauseLeft' = delay /\ UNCHANGED windowLeft
        /\ timer' = IF stopped \/ timer # NoTimer THEN timer ELSE delay
    BY <1>5, <2>1 DEF PutBackAndPause, ScheduleResume
  <2> QED
    BY <1>2, <2>1, <2>2, PublisherAssumption
    DEF PauseOrCall, TimerNotTooLate, NoTimer, PublisherAssumption
<1>6. ASSUME NEW call \in calls, RateLimited(call) \/ Failed(call) PROVE PauseOrCall'
  <2>1. Window \in 0..Window /\ RetryDelay \in 0..Window
    BY PublisherAssumption DEF PublisherAssumption
  <2> QED
    BY <1>5, <1>6, <2>1 DEF RateLimited, Failed
<1>7. CASE Resume
  <2>1. UNCHANGED pauseLeft /\ NoTimer \in NoTimer..Window /\ ~(NoTimer > 0)
    BY <1>7, PublisherAssumption DEF Resume, NoTimer, PublisherAssumption
  <2>2. CASE flushing
    BY <1>7, <2>1, <2>2 DEF Resume, PauseOrCall, TimerNotTooLate
  <2>3. CASE ~flushing
    <3>1. Pump(queue, pending, count, NoTimer, {})
      BY <1>1, <1>7, <2>3 DEF Resume, SingleFlight
    <3> QED
      BY <1>1, <2>1, <3>1, PumpPause
  <2> QED
    BY <2>2, <2>3
<1>8. CASE Stop
  BY <1>8 DEF Stop, PauseOrCall, TimerNotTooLate, NoTimer
<1>9. CASE Tick
  <2>1. /\ windowLeft' = IF windowLeft > 0 THEN windowLeft - 1 ELSE 0
        /\ pauseLeft' = IF pauseLeft > 0 THEN pauseLeft - 1 ELSE 0
        /\ timer' = IF timer > 0 THEN timer - 1 ELSE timer
        /\ UNCHANGED calls
    BY <1>9 DEF Tick
  <2> QED
    BY <1>2, <2>1, PublisherAssumption
    DEF PauseOrCall, TimerNotTooLate, NoTimer, PublisherAssumption
<1>10. CASE EnqueueStopped \/ UNCHANGED vars
  BY <1>10 DEF EnqueueStopped, vars, PauseOrCall, TimerNotTooLate
<1> QED
  BY <1>3, <1>4, <1>6, <1>7, <1>8, <1>9, <1>10 DEF Next

\* The timer is due at the latest when the pause and the window are over: no
\* reading waits longer than the limits ask for.
THEOREM TimerIsNotTooLate == Spec => []TimerNotTooLate
<1>1. Init => PauseOrCall
  BY DEF Init, PauseOrCall, TimerNotTooLate, NoTimer
<1>2. IInv /\ PauseOrCall /\ [Next]_vars => PauseOrCall'
  BY NextPause
<1>3. PauseOrCall => TimerNotTooLate
  BY DEF PauseOrCall
<1> QED
  BY <1>1, <1>2, <1>3, Invariant, PTL DEF Spec

=============================================================================
