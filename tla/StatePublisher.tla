--------------------------- MODULE StatePublisher ---------------------------
(***************************************************************************)
(* The outbound state queue of the main container: createStatePublisher in *)
(* src/stateSync.js.  Every value observed on a charge point is handed to  *)
(* enqueue(); flush() sends it to Gladys in chunks, within the rate limits *)
(* Gladys enforces.                                                        *)
(*                                                                         *)
(* The program is single-threaded: what runs between two awaits is one     *)
(* step.  flush() awaits in one place only, the call of publishStates, so  *)
(* a run of it is cut there: Pump is the part from the loop's head to that *)
(* call or to a return; Published, RateLimited and Failed start with the   *)
(* answer.  Time is counted in ticks, and each deadline is kept as the     *)
(* ticks left before it.                                                   *)
(***************************************************************************)
EXTENDS Integers, Sequences, FiniteSets

CONSTANTS
    Features,      \* feature external ids
    MaxReading,    \* bound: how many different readings one feature takes
    Batches,       \* the sets of features one enqueue() call may carry
    MaxPerRequest, \* MAX_STATES_PER_REQUEST
    MaxPerMinute,  \* MAX_STATES_PER_MINUTE
    Window,        \* RATE_LIMIT_WINDOW_MS, in ticks
    RetryDelay     \* RETRY_DELAY_MS, in ticks

ASSUME PublisherAssumption ==
    /\ IsFiniteSet(Features)
    /\ MaxReading \in Nat \ {0}
    /\ Batches \subseteq SUBSET Features
    /\ MaxPerRequest \in Nat \ {0}
    /\ MaxPerMinute \in Nat \ {0}
    /\ Window \in Nat \ {0}
    /\ RetryDelay \in 1..Window

VARIABLES
    latest,      \* ghost: the last reading of each feature handed to enqueue()
    published,   \* external: the reading of each feature that Gladys holds
    queue,       \* the keys of the `pending` Map, in insertion order
    pending,     \* its values: the reading waiting for each feature, or None
    calls,       \* the publishStates calls in flight, one per flush() that awaits
    count,       \* window.count
    windowLeft,  \* window.resetAt - now(), 0 once it is past
    pauseLeft,   \* pausedUntil - now(), 0 once it is past
    timer,       \* ticks before resumeTimer is due, or NoTimer
    flushing,
    stopped

vars == <<latest, published, queue, pending, calls, count, windowLeft,
          pauseLeft, timer, flushing, stopped>>

None == 0
NoTimer == -1
Nothing == [f \in Features |-> None]

\* A chunk: its features in order, and the reading of each feature or None.
Call == [order : Seq(Features), reading : [Features -> 0..MaxReading]]

TypeOK ==
    /\ latest \in [Features -> 0..MaxReading]
    /\ published \in [Features -> 0..MaxReading]
    /\ queue \in Seq(Features)
    /\ pending \in [Features -> 0..MaxReading]
    /\ calls \in SUBSET Call
    /\ count \in 0..MaxPerMinute
    /\ windowLeft \in 0..Window
    /\ pauseLeft \in 0..Window
    /\ timer \in NoTimer..Window
    /\ flushing \in BOOLEAN
    /\ stopped \in BOOLEAN

Init ==
    /\ latest = Nothing /\ published = Nothing
    /\ queue = <<>> /\ pending = Nothing
    /\ calls = {}
    /\ count = 0 /\ windowLeft = 0
    /\ pauseLeft = 0
    /\ timer = NoTimer
    /\ flushing = FALSE
    /\ stopped = FALSE

-----------------------------------------------------------------------------
Smaller(a, b) == IF a < b THEN a ELSE b

Elements(s) == {s[i] : i \in DOMAIN s}

\* The lists of the elements of S, each of them once.
Orders(S) == {s \in [1..Cardinality(S) -> S] : Elements(s) = S}

\* The elements of s come in the order they have in t.
InOrderOf(s, t) ==
    \A i, j \in DOMAIN s : i < j =>
        \E k, l \in DOMAIN t : k < l /\ t[k] = s[i] /\ t[l] = s[j]

\* scheduleResume(), resumeTimer being t: a timer already set is kept.
ScheduleResume(t, delay) == timer' = IF stopped \/ t # NoTimer THEN t ELSE delay

\* Mutant: the budget is never charged.
BudgetNeverCharged(c) == MaxPerMinute

\* budget(), window.count being c: a window that has expired is replaced first.
Budget(c) == IF windowLeft = 0 THEN MaxPerMinute ELSE MaxPerMinute - c

\* Mutant: a chunk is cut to the request's limit only.
RoomOfRequest(c) == MaxPerRequest

Room(c) == Smaller(MaxPerRequest, Budget(c))

\* Mutant: flush() without its `finally`.
ReturnStillFlushing(q, p, c, open) ==
    /\ queue' = q /\ pending' = p /\ count' = c
    /\ calls' = open
    /\ UNCHANGED <<windowLeft, flushing>>

\* flush() returns, leaving the Map as q and p.
Return(q, p, c, open) ==
    /\ queue' = q /\ pending' = p /\ count' = c
    /\ calls' = open
    /\ flushing' = FALSE
    /\ UNCHANGED windowLeft

\* flush() finds nothing to send: the loop ends.
Drained(q, p, c, t, open) ==
    /\ q = <<>>
    /\ timer' = t
    /\ Return(q, p, c, open)

\* flush() returns because a failure has paused the queue.
Paused(q, p, c, t, open) ==
    /\ q # <<>> /\ pauseLeft > 0
    /\ ScheduleResume(t, pauseLeft)
    /\ Return(q, p, c, open)

\* Mutant: waits for a whole window instead of what is left of it.
OutOfBudgetWholeWindow(q, p, c, t, open) ==
    /\ q # <<>> /\ pauseLeft = 0 /\ Room(c) <= 0
    /\ ScheduleResume(t, Window)
    /\ Return(q, p, c, open)

\* Mutant: counts on the next enqueue() to wake the queue up.
OutOfBudgetNoTimer(q, p, c, t, open) ==
    /\ q # <<>> /\ pauseLeft = 0 /\ Room(c) <= 0
    /\ timer' = t
    /\ Return(q, p, c, open)

\* flush() returns because the window's budget is spent.
OutOfBudget(q, p, c, t, open) ==
    /\ q # <<>> /\ pauseLeft = 0 /\ Room(c) <= 0
    /\ ScheduleResume(t, windowLeft)
    /\ Return(q, p, c, open)

\* flush() takes the oldest keys out of the Map and calls publishStates.
Send(q, p, c, t, open) ==
    /\ q # <<>> /\ pauseLeft = 0 /\ Room(c) > 0
    /\ LET n == Smaller(Len(q), Room(c))
           taken == Elements(SubSeq(q, 1, n))
           call == [order |-> SubSeq(q, 1, n),
                    reading |-> [f \in Features |-> IF f \in taken THEN p[f] ELSE None]]
       IN /\ calls' = open \cup {call}
          /\ queue' = SubSeq(q, n + 1, Len(q))
          /\ pending' = [f \in Features |-> IF f \in taken THEN None ELSE p[f]]
    /\ windowLeft' = IF windowLeft = 0 THEN Window ELSE windowLeft
    /\ count' = IF windowLeft = 0 THEN 0 ELSE c
    /\ flushing' = TRUE
    /\ timer' = t

\* flush() from the head of its loop, the Map being q and p, window.count c,
\* resumeTimer t, and open the calls of other flushes.
Pump(q, p, c, t, open) ==
    \/ Drained(q, p, c, t, open)
    \/ Paused(q, p, c, t, open)
    \/ OutOfBudget(q, p, c, t, open)
    \/ Send(q, p, c, t, open)

-----------------------------------------------------------------------------
\* Mutant: the last feature in is the first out.
RequeuedFirst(S) == {new \o queue : new \in Orders({f \in S : pending[f] = None})}

\* The Map after a call of enqueue() with the features S: a key already there
\* keeps its place, the others go to its end in the order of the call.
Requeued(S) == {queue \o new : new \in Orders({f \in S : pending[f] = None})}

\* enqueue(): each feature of the batch carries a new reading, or its last one
\* again (one message re-sends every state of the charge point).
Enqueue ==
    /\ ~stopped
    /\ \E S \in Batches : \E newer \in SUBSET S :
         /\ \A f \in newer : latest[f] < MaxReading
         /\ \A f \in S \ newer : latest[f] # None
         /\ latest' = [f \in Features |-> IF f \in newer THEN latest[f] + 1 ELSE latest[f]]
         /\ \E q \in Requeued(S) :
              LET p == [f \in Features |-> IF f \in S THEN latest'[f] ELSE pending[f]]
              IN IF flushing \/ q = <<>>
                 THEN /\ queue' = q /\ pending' = p
                      /\ UNCHANGED <<calls, count, windowLeft, timer, flushing>>
                 ELSE Pump(q, p, count, timer, calls)
    /\ UNCHANGED <<published, pauseLeft, stopped>>

\* enqueue() once stopped returns at once.
EnqueueStopped ==
    /\ stopped
    /\ UNCHANGED vars

Carried(call) == {f \in Features : call.reading[f] # None}

GladysSaves(call) ==
    published' = [f \in Features |->
                    IF f \in Carried(call) THEN call.reading[f] ELSE published[f]]

\* publishStates resolves with what it really sent (a value Gladys already has
\* is skipped), which the budget is charged with; the loop goes on.
PublishedStates(call) ==
    /\ GladysSaves(call)
    /\ \E sent \in 0..Len(call.order) :
         Pump(queue, pending, count + sent, timer, calls \ {call})
    /\ UNCHANGED <<latest, pauseLeft, stopped>>

\* Mutant: puts back what has been superseded meanwhile too.
PutBackOverNewer(call, delay) ==
    /\ \E again \in Orders({f \in Carried(call) : pending[f] = None}) :
         queue' = queue \o again
    /\ pending' = [f \in Features |-> IF f \in Carried(call) THEN call.reading[f] ELSE pending[f]]
    /\ calls' = calls \ {call}
    /\ flushing' = FALSE
    /\ pauseLeft' = delay
    /\ ScheduleResume(timer, delay)
    /\ UNCHANGED <<latest, count, windowLeft, stopped>>

\* publishStates rejects: what has not been superseded goes back, at the end.
PutBackAndPause(call, delay) ==
    /\ LET back == {f \in Carried(call) : pending[f] = None}
       IN /\ \E again \in Orders(back) :
               /\ InOrderOf(again, call.order)
               /\ queue' = queue \o again
          /\ pending' = [f \in Features |-> IF f \in back THEN call.reading[f] ELSE pending[f]]
    /\ calls' = calls \ {call}
    /\ flushing' = FALSE
    /\ pauseLeft' = delay
    /\ ScheduleResume(timer, delay)
    /\ UNCHANGED <<latest, count, windowLeft, stopped>>

\* Gladys refuses the call with a 429, having saved nothing.
RateLimited(call) ==
    /\ PutBackAndPause(call, Window)
    /\ UNCHANGED published

\* Any other failure; Gladys may have saved the states and only the answer
\* been lost.
Failed(call) ==
    /\ PutBackAndPause(call, RetryDelay)
    /\ UNCHANGED published \/ GladysSaves(call)

Answer(call) == PublishedStates(call) \/ RateLimited(call) \/ Failed(call)

\* Mutant: flush() without its `flushing` guard.
ResumeUnguarded ==
    /\ timer = 0
    /\ Pump(queue, pending, count, NoTimer, calls)
    /\ UNCHANGED <<latest, published, pauseLeft, stopped>>

\* resumeTimer fires: flush() again, which does nothing if one is under way.
Resume ==
    /\ timer = 0
    /\ IF flushing
       THEN /\ timer' = NoTimer
            /\ UNCHANGED <<queue, pending, calls, count, windowLeft, flushing>>
       ELSE Pump(queue, pending, count, NoTimer, calls)
    /\ UNCHANGED <<latest, published, pauseLeft, stopped>>

\* Mutant: stop() keeps what waits.
StopKeepsPending ==
    /\ ~stopped
    /\ stopped' = TRUE
    /\ timer' = NoTimer
    /\ UNCHANGED <<latest, published, queue, pending, calls, count, windowLeft, pauseLeft, flushing>>

\* stop(): a call in flight goes on.
Stop ==
    /\ ~stopped
    /\ stopped' = TRUE
    /\ timer' = NoTimer
    /\ queue' = <<>> /\ pending' = Nothing
    /\ UNCHANGED <<latest, published, calls, count, windowLeft, pauseLeft, flushing>>

\* A tick of the clock; a deadline stays past, and a due timer may fire late.
Tick ==
    /\ windowLeft > 0 \/ pauseLeft > 0 \/ timer > 0
    /\ windowLeft' = IF windowLeft > 0 THEN windowLeft - 1 ELSE 0
    /\ pauseLeft' = IF pauseLeft > 0 THEN pauseLeft - 1 ELSE 0
    /\ timer' = IF timer > 0 THEN timer - 1 ELSE timer
    /\ UNCHANGED <<latest, published, queue, pending, calls, count, flushing, stopped>>

Next ==
    \/ Enqueue \/ EnqueueStopped
    \/ \E call \in calls : PublishedStates(call)
    \/ \E call \in calls : RateLimited(call)
    \/ \E call \in calls : Failed(call)
    \/ Resume \/ Stop \/ Tick

Spec == Init /\ [][Next]_vars

\* Time passes, a due timer fires, every call is answered, and a reading that
\* is sent again and again is accepted in the end.
Fairness ==
    /\ WF_vars(Tick)
    /\ WF_vars(Resume)
    /\ WF_vars(\E call \in calls : Answer(call))
    /\ \A f \in Features :
         SF_vars(\E call \in calls : f \in Carried(call) /\ PublishedStates(call))

FairSpec == Spec /\ Fairness

-----------------------------------------------------------------------------
\* Nothing handed to enqueue() is lost, and nothing superseded hides it: the
\* last reading of a feature is the one that waits; else the one in flight; else
\* the one Gladys holds (the coalescing and the put-back of flush()).
NothingLost ==
    ~stopped => \A f \in Features :
        /\ pending[f] # None => pending[f] = latest[f]
        /\ pending[f] = None =>
             \/ \E call \in calls : call.reading[f] # None
             \/ published[f] = latest[f]
        /\ pending[f] = None =>
             \A call \in calls : call.reading[f] \in {None, latest[f]}

\* No lost wake-up: readings that wait without a call in flight have a timer
\* that will send them, whatever the order of failures, window resets, late
\* timers and enqueue() calls.
NoLostWakeup ==
    (queue # <<>> /\ ~flushing /\ ~stopped) => timer # NoTimer

\* The timer never waits for longer than what holds the queue: it is due at
\* the latest when the pause and the window are over.
TimerNotTooLate ==
    timer > 0 => \/ timer <= pauseLeft
                 \/ timer <= windowLeft

\* A call never carries more than a request may, nor more than the window has
\* left when it is made, however long its answer takes.
WithinBudget ==
    \A call \in calls : /\ Len(call.order) \in 1..MaxPerRequest
                        /\ count + Len(call.order) <= MaxPerMinute

\* The value of a feature in Gladys is never replaced by an older one, not
\* even by the retry of a call whose answer was lost.
NeverGoesBack ==
    [][\A f \in Features : published'[f] >= published[f]]_vars

\* Once stop() has run no call starts, although the loop of a flush() in
\* flight does not look at `stopped`.
NoCallAfterStop ==
    [][stopped => calls' \subseteq calls]_vars

\* No starvation: a waiting feature is part of a call in the end, even when
\* others are re-enqueued for ever and calls keep failing.
NoStarvation ==
    \A f \in Features : (pending[f] # None) ~> ((\E call \in calls : f \in Carried(call)) \/ stopped)

\* The channel this queue implements.
Channel == INSTANCE LatestValue WITH
    Features <- Features, MaxReading <- MaxReading,
    latest <- latest, published <- published, stopped <- stopped

ImplementsChannel == Channel!Spec

=============================================================================
