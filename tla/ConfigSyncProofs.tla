-------------------------- MODULE ConfigSyncProofs --------------------------
(***************************************************************************)
(* Proofs about the configuration of the charge points, for any number of  *)
(* handlers, retries, saves, failures and restarts.                        *)
(*                                                                         *)
(* Every map that is on its way (in a handler, in an event, in a POST) is  *)
(* one that Gladys has had (Origin), and a POST that is under way has one  *)
(* handler that waits for it (Linked).  The newest map sent, still on its  *)
(* way or handled, is the config of the moment (NewestIs): `passed` counts *)
(* the POSTs on their way that are older than the newest one handled.      *)
(***************************************************************************)
EXTENDS ConfigSync, SequenceTheorems, TLAPS

\* The types, apart from what ties the handlers to the POSTs.
Typed ==
    /\ saved \in Maps /\ config \in Maps /\ registry \in Maps
    /\ online \in BOOLEAN /\ status \in BOOLEAN /\ unread \in BOOLEAN /\ unpushed \in BOOLEAN
    /\ overtaken \in BOOLEAN /\ behind \subseteq Actions
    /\ updates \in Seq(Maps)
    /\ tasks \in [Tasks -> Task \cup {Idle}]
    /\ wire \in Seq(Post)
    /\ everSaved \subseteq Maps

\* Each POST that has not been given up has one handler, that waits for it.
Linked ==
    /\ \A t \in Tasks : At(t, "post") <=> \E i \in DOMAIN wire : wire[i].task = t
    /\ \A i, j \in DOMAIN wire : wire[i].task = wire[j].task /\ wire[i].task # NoTask => i = j

Had == everSaved \cup {Empty}

\* Where the maps come from.
Origin ==
    /\ saved \in everSaved /\ config \in Had /\ registry \in Had
    /\ \A i \in DOMAIN updates : updates[i] \in everSaved
    /\ \A t \in Tasks : At(t, "got") \/ At(t, "saved") => tasks[t].map \in everSaved
    /\ \A i \in DOMAIN wire : wire[i].body \in Had

\* What an action has read is what Gladys has, if no other one has saved since.
ReadIsSaved == \A t \in Actions \ behind : At(t, "got") => tasks[t].map = saved

\* The POSTs that are older than the newest one handled come first.
Ordered == passed \in 0..Len(wire)

CInv == Typed /\ Linked /\ Origin /\ ReadIsSaved /\ Ordered

-----------------------------------------------------------------------------
\* What is left of a sequence without one of its elements.
LEMMA RemoveAtElements ==
    ASSUME NEW S, NEW s \in Seq(S), NEW i \in DOMAIN s
    PROVE  /\ RemoveAt(s, i) \in Seq(S) /\ Len(RemoveAt(s, i)) = Len(s) - 1
           /\ DOMAIN RemoveAt(s, i) = 1..(Len(s) - 1)
           /\ \A j \in 1..(Len(s) - 1) : RemoveAt(s, i)[j] = IF j < i THEN s[j] ELSE s[j + 1]
<1>1. i \in 1..Len(s) /\ Len(s) \in Nat
  OBVIOUS
<1> DEFINE a == SubSeq(s, 1, i - 1)  b == SubSeq(s, i + 1, Len(s))
<1>2. a \in Seq(S) /\ Len(a) = i - 1 /\ \A j \in 1..(i - 1) : a[j] = s[j]
  BY <1>1
<1>3. b \in Seq(S) /\ Len(b) = Len(s) - i /\ \A j \in 1..(Len(s) - i) : b[j] = s[i + j]
  BY <1>1
<1>4. RemoveAt(s, i) = a \o b
  BY DEF RemoveAt
<1> HIDE DEF a, b
<1>5. /\ a \o b \in Seq(S) /\ Len(a \o b) = Len(s) - 1
      /\ DOMAIN (a \o b) = 1..(Len(s) - 1)
  BY <1>1, <1>2, <1>3
<1>6. ASSUME NEW j \in 1..(Len(s) - 1)
      PROVE  (a \o b)[j] = IF j < i THEN s[j] ELSE s[j + 1]
  BY <1>1, <1>2, <1>3
<1> QED
  BY <1>4, <1>5, <1>6

\* Steps that change no POST and no handler that waits for one.
LEMMA OtherLinked ==
    ASSUME Linked, wire' = wire, \A t \in Tasks : At(t, "post")' <=> At(t, "post")
    PROVE  Linked'
BY DEF Linked

\* The handler t goes on to another step than "post".
LEMMA MovedLinked ==
    ASSUME Typed, Linked, wire' = wire, NEW t \in Tasks, ~At(t, "post"),
           NEW x \in Task \cup {Idle}, x.step # "post", tasks' = [tasks EXCEPT ![t] = x]
    PROVE  /\ Linked' /\ tasks' \in [Tasks -> Task \cup {Idle}]
           /\ tasks'[t] = x /\ \A u \in Tasks \ {t} : tasks'[u] = tasks[u]
<1>1. /\ tasks' \in [Tasks -> Task \cup {Idle}]
      /\ tasks'[t] = x /\ \A u \in Tasks \ {t} : tasks'[u] = tasks[u]
  BY DEF Typed
<1>2. \A u \in Tasks : At(u, "post")' <=> At(u, "post")
  BY <1>1 DEF At
<1> QED
  BY <1>1, <1>2, OtherLinked

\* The handler t sends a map.
LEMMA SendLinked ==
    ASSUME Typed, Linked, NEW t \in Tasks, ~At(t, "post"), config' \in Maps,
           NEW n \in 0..Attempts, Send(t, n)
    PROVE  /\ Linked' /\ tasks' \in [Tasks -> Task \cup {Idle}] /\ wire' \in Seq(Post)
           /\ tasks'[t].step = "post" /\ \A u \in Tasks \ {t} : tasks'[u] = tasks[u]
           /\ \A i \in DOMAIN wire' : wire'[i].body = config' \/ (i \in DOMAIN wire /\ wire'[i] = wire[i])
           /\ passed' = passed /\ Ordered => Ordered'
<1> DEFINE p == [task |-> t, body |-> config']
           x == [step |-> "post", map |-> Empty, attempt |-> n]
<1>1. p \in Post /\ p.task = t /\ p.body = config' /\ x \in Task \cup {Idle} /\ x.step = "post"
  BY DEF Post, Task, Maps, Empty
<1>2. tasks' = [tasks EXCEPT ![t] = x] /\ wire' = Append(wire, p)
  BY DEF Send
<1> HIDE DEF p, x
<1>3. /\ tasks' \in [Tasks -> Task \cup {Idle}]
      /\ tasks'[t] = x /\ \A u \in Tasks \ {t} : tasks'[u] = tasks[u]
  BY <1>1, <1>2 DEF Typed
<1>4. /\ wire' \in Seq(Post) /\ DOMAIN wire' = 1..(Len(wire) + 1) /\ DOMAIN wire = 1..Len(wire)
      /\ Len(wire) \in Nat
      /\ wire'[Len(wire) + 1] = p /\ \A i \in DOMAIN wire : wire'[i] = wire[i]
  BY <1>1, <1>2 DEF Typed
<1>5. \A i \in DOMAIN wire : wire[i].task # t
  BY DEF Linked
<1>6. t # NoTask
  BY ConfigSyncAssumption DEF ConfigSyncAssumption
<1>7. Linked'
  <2>1. ASSUME NEW u \in Tasks
        PROVE  At(u, "post")' <=> \E i \in DOMAIN wire' : wire'[i].task = u
    <3>1. CASE u = t
      BY <1>1, <1>3, <1>4, <3>1 DEF At
    <3>2. CASE u # t
      <4>1. At(u, "post")' <=> At(u, "post")
        BY <1>3, <3>2 DEF At
      <4>2. (\E i \in DOMAIN wire' : wire'[i].task = u) <=> \E i \in DOMAIN wire : wire[i].task = u
        BY <1>1, <1>4, <3>2
      <4> QED
        BY <4>1, <4>2 DEF Linked
    <3> QED
      BY <3>1, <3>2
  <2>2. ASSUME NEW i \in DOMAIN wire', NEW j \in DOMAIN wire',
               wire'[i].task = wire'[j].task, wire'[i].task # NoTask
        PROVE  i = j
    BY <1>1, <1>4, <1>5, <2>2 DEF Linked
  <2> QED
    BY <2>1, <2>2 DEF Linked
<1>8. ASSUME NEW i \in DOMAIN wire'
      PROVE  wire'[i].body = config' \/ (i \in DOMAIN wire /\ wire'[i] = wire[i])
  <2>1. i \in DOMAIN wire \/ i = Len(wire) + 1
    BY <1>4
  <2>2. CASE i \in DOMAIN wire
    BY <1>4, <2>2
  <2>3. CASE i = Len(wire) + 1
    BY <1>1, <1>4, <2>3
  <2> QED
    BY <2>1, <2>2, <2>3
<1>9. tasks'[t].step = "post"
  BY <1>1, <1>3
<1>10. passed' = passed /\ Ordered => Ordered'
  <2>1. Len(wire') = Len(wire) + 1
    BY <1>1, <1>2, <1>4 DEF Typed
  <2> QED
    BY <1>4, <2>1 DEF Ordered
<1> QED
  BY <1>3, <1>4, <1>7, <1>8, <1>9, <1>10

\* A POST ends, and its handler, if it still waits, goes on.
LEMMA EndedLinked ==
    ASSUME Typed, Linked, NEW i \in DOMAIN wire, NEW step \in {"ok", "failed"},
           wire' = RemoveAt(wire, i),
           IF wire[i].task = NoTask THEN UNCHANGED tasks ELSE Goes(wire[i].task, step)
    PROVE  /\ Linked' /\ tasks' \in [Tasks -> Task \cup {Idle}] /\ wire' \in Seq(Post)
           /\ \A u \in Tasks : tasks'[u] = tasks[u] \/ tasks'[u].step = step
           /\ \A j \in DOMAIN wire' : \E k \in DOMAIN wire : wire'[j] = wire[k]
           /\ Ordered /\ (IF i <= passed THEN passed' = passed - 1 ELSE passed' \in {passed, i - 1})
                => Ordered'
<1>1. /\ wire' \in Seq(Post) /\ DOMAIN wire' = 1..(Len(wire) - 1)
      /\ \A j \in 1..(Len(wire) - 1) : wire'[j] = IF j < i THEN wire[j] ELSE wire[j + 1]
      /\ DOMAIN wire = 1..Len(wire) /\ Len(wire) \in Nat
  <2>1. wire \in Seq(Post)
    BY DEF Typed
  <2>2. /\ RemoveAt(wire, i) \in Seq(Post)
        /\ DOMAIN RemoveAt(wire, i) = 1..(Len(wire) - 1)
        /\ \A j \in 1..(Len(wire) - 1) : RemoveAt(wire, i)[j] = IF j < i THEN wire[j] ELSE wire[j + 1]
    BY <2>1, RemoveAtElements
  <2> QED
    BY <2>1, <2>2
<1>2. \A j \in DOMAIN wire' : \E k \in DOMAIN wire \ {i} : wire'[j] = wire[k]
  BY <1>1
<1>3. \A k \in DOMAIN wire \ {i} : \E j \in DOMAIN wire' : wire'[j] = wire[k]
  <2> SUFFICES ASSUME NEW k \in DOMAIN wire \ {i} PROVE \E j \in DOMAIN wire' : wire'[j] = wire[k]
    OBVIOUS
  <2>1. CASE k < i
    BY <1>1, <2>1
  <2>2. CASE k > i
    <3>1. k - 1 \in DOMAIN wire' /\ ~(k - 1 < i) /\ (k - 1) + 1 = k
      BY <1>1, <2>2
    <3>2. wire'[k - 1] = wire[k]
      BY <1>1, <3>1
    <3> QED
      BY <3>1, <3>2
  <2> QED
    BY <1>1, <2>1, <2>2
<1>4. \A j, k \in DOMAIN wire' : wire'[j].task = wire'[k].task /\ wire'[j].task # NoTask => j = k
  <2> SUFFICES ASSUME NEW j \in DOMAIN wire', NEW k \in DOMAIN wire',
                      wire'[j].task = wire'[k].task, wire'[j].task # NoTask
               PROVE  j = k
    OBVIOUS
  <2> DEFINE old(x) == IF x < i THEN x ELSE x + 1
  <2>1. old(j) \in DOMAIN wire /\ old(k) \in DOMAIN wire /\ (old(j) = old(k) => j = k)
    BY <1>1
  <2>2. wire'[j] = wire[old(j)] /\ wire'[k] = wire[old(k)]
    BY <1>1
  <2> HIDE DEF old
  <2> QED
    BY <2>1, <2>2 DEF Linked
<1>7. Ordered /\ (IF i <= passed THEN passed' = passed - 1 ELSE passed' \in {passed, i - 1}) => Ordered'
  <2>1. i \in 1..Len(wire) /\ Len(wire) \in Nat
    BY <1>1
  <2>2. Len(wire') = Len(wire) - 1
    BY RemoveAtElements DEF Typed
  <2>3. CASE i <= passed
    BY <2>1, <2>2, <2>3 DEF Ordered
  <2>4. CASE ~(i <= passed)
    BY <2>1, <2>2, <2>4 DEF Ordered
  <2> QED
    BY <2>3, <2>4
<1>5. CASE wire[i].task = NoTask
  <2>1. tasks' = tasks
    BY <1>5
  <2>2. ASSUME NEW u \in Tasks
        PROVE  At(u, "post")' <=> \E j \in DOMAIN wire' : wire'[j].task = u
    <3>1. u # NoTask
      BY ConfigSyncAssumption DEF ConfigSyncAssumption
    <3>2. (\E j \in DOMAIN wire' : wire'[j].task = u) <=> \E k \in DOMAIN wire : wire[k].task = u
      BY <1>2, <1>3, <1>5, <3>1
    <3> QED
      BY <2>1, <3>2 DEF Linked, At
  <2> QED
    BY <1>1, <1>2, <1>4, <1>7, <2>1, <2>2 DEF Linked, Typed
<1>6. CASE wire[i].task # NoTask
  <2>0. wire[i] \in Post
    BY DEF Typed
  <2>1. PICK t \in Tasks : t = wire[i].task
    BY <1>6, <2>0 DEF Post
  <2> DEFINE x == [tasks[t] EXCEPT !.step = step]
  <2>2. At(t, "post")
    BY <2>1 DEF Linked
  <2>3. tasks' = [tasks EXCEPT ![t] = x]
    BY <1>6, <2>1 DEF Goes
  <2>4. x \in Task \cup {Idle} /\ x.step = step
    <3>1. tasks[t] \in Task
      BY <2>2 DEF Typed, Idle, At
    <3> QED
      BY <3>1 DEF Task
  <2> HIDE DEF x
  <2>5. /\ tasks' \in [Tasks -> Task \cup {Idle}]
        /\ tasks'[t] = x /\ \A u \in Tasks \ {t} : tasks'[u] = tasks[u]
    BY <2>1, <2>3, <2>4 DEF Typed
  <2>6. \A k \in DOMAIN wire \ {i} : wire[k].task # t
    BY <1>6, <2>1 DEF Linked
  <2>7. ASSUME NEW u \in Tasks
        PROVE  At(u, "post")' <=> \E j \in DOMAIN wire' : wire'[j].task = u
    <3>1. CASE u = t
      BY <1>2, <2>4, <2>5, <2>6, <3>1 DEF At
    <3>2. CASE u # t
      <4>1. (\E j \in DOMAIN wire' : wire'[j].task = u) <=> \E k \in DOMAIN wire : wire[k].task = u
        BY <1>2, <1>3, <2>1, <3>2
      <4>2. At(u, "post")' <=> At(u, "post")
        BY <2>5, <3>2 DEF At
      <4> QED
        BY <4>1, <4>2 DEF Linked
    <3> QED
      BY <3>1, <3>2
  <2> QED
    BY <1>1, <1>2, <1>4, <1>7, <2>4, <2>5, <2>7 DEF Linked
<1> QED
  BY <1>5, <1>6

\* A POST is given up by its handler, and stays on its way.
LEMMA GivenUpLinked ==
    ASSUME Typed, Linked, NEW i \in DOMAIN wire, wire[i].task # NoTask,
           wire' = [wire EXCEPT ![i].task = NoTask], Goes(wire[i].task, "failed")
    PROVE  /\ Linked' /\ tasks' \in [Tasks -> Task \cup {Idle}] /\ wire' \in Seq(Post)
           /\ \A u \in Tasks : tasks'[u] = tasks[u] \/ tasks'[u].step = "failed"
           /\ \A j \in DOMAIN wire' : j \in DOMAIN wire /\ wire'[j].body = wire[j].body
           /\ Len(wire') = Len(wire)
<1>1. wire[i] \in Post /\ wire \in Seq(Post)
  BY DEF Typed
<1>2. PICK t \in Tasks : t = wire[i].task
  BY <1>1 DEF Post
<1> DEFINE x == [tasks[t] EXCEPT !.step = "failed"]
           p == [wire[i] EXCEPT !.task = NoTask]
<1>3. t # NoTask /\ At(t, "post")
  BY <1>2, ConfigSyncAssumption DEF Linked, ConfigSyncAssumption
<1>4. x \in Task \cup {Idle} /\ x.step = "failed"
  <2>1. tasks[t] \in Task
    BY <1>3 DEF Typed, Idle, At
  <2> QED
    BY <2>1 DEF Task
<1>5. p \in Post /\ p.task = NoTask /\ p.body = wire[i].body
  BY <1>1 DEF Post
<1>6. tasks' = [tasks EXCEPT ![t] = x] /\ wire' = [wire EXCEPT ![i] = p]
  BY <1>2 DEF Goes
<1> HIDE DEF x, p
<1>7. /\ tasks' \in [Tasks -> Task \cup {Idle}]
      /\ tasks'[t] = x /\ \A u \in Tasks \ {t} : tasks'[u] = tasks[u]
  BY <1>4, <1>6 DEF Typed
<1>8. /\ wire' \in Seq(Post) /\ DOMAIN wire' = DOMAIN wire
      /\ wire'[i] = p /\ \A j \in DOMAIN wire \ {i} : wire'[j] = wire[j]
      /\ Len(wire') = Len(wire)
  BY <1>1, <1>5, <1>6
<1>9. \A j \in DOMAIN wire \ {i} : wire[j].task # t
  BY <1>2, <1>3 DEF Linked
<1>10. ASSUME NEW u \in Tasks
       PROVE  At(u, "post")' <=> \E j \in DOMAIN wire' : wire'[j].task = u
  <2>1. CASE u = t
    BY <1>3, <1>4, <1>5, <1>7, <1>8, <1>9, <2>1 DEF At
  <2>2. CASE u # t
    <3>1. u # NoTask
      BY ConfigSyncAssumption DEF ConfigSyncAssumption
    <3>2. (\E j \in DOMAIN wire' : wire'[j].task = u) <=> \E j \in DOMAIN wire : wire[j].task = u
      BY <1>2, <1>5, <1>8, <2>2, <3>1
    <3>3. At(u, "post")' <=> At(u, "post")
      BY <1>7, <2>2 DEF At
    <3> QED
      BY <3>2, <3>3 DEF Linked
  <2> QED
    BY <2>1, <2>2
<1>11. \A j, k \in DOMAIN wire' : wire'[j].task = wire'[k].task /\ wire'[j].task # NoTask => j = k
  BY <1>5, <1>8 DEF Linked
<1>12. Linked'
  BY <1>10, <1>11 DEF Linked
<1> QED
  BY <1>4, <1>5, <1>7, <1>8, <1>12

\* What the steps that change no map preserve: the handlers move on, and the POSTs
\* keep their bodies.
LEMMA SameMaps ==
    ASSUME Origin, ReadIsSaved, UNCHANGED <<saved, config, updates, everSaved, behind>>,
           registry' \in Had,
           \A t \in Tasks : tasks'[t] = tasks[t] \/ tasks'[t].step \in {"idle", "post", "ok", "failed"},
           \A j \in DOMAIN wire' : \E k \in DOMAIN wire : wire'[j].body = wire[k].body
    PROVE  Origin' /\ ReadIsSaved'
<1>1. \A t \in Tasks : At(t, "got")' \/ At(t, "saved")' => tasks'[t] = tasks[t]
  BY DEF At
<1>2. \A t \in Tasks : At(t, "got")' \/ At(t, "saved")' => tasks'[t].map \in everSaved
  <2> SUFFICES ASSUME NEW t \in Tasks, At(t, "got")' \/ At(t, "saved")' PROVE tasks'[t].map \in everSaved
    OBVIOUS
  <2>1. tasks'[t] = tasks[t] /\ (At(t, "got") \/ At(t, "saved"))
    BY <1>1 DEF At
  <2> QED
    BY <2>1 DEF Origin
<1>3. \A j \in DOMAIN wire' : wire'[j].body \in Had
  BY DEF Origin
<1>4. Origin'
  BY <1>2, <1>3 DEF Origin, Had
<1>5. ReadIsSaved'
  <2> SUFFICES ASSUME NEW t \in Actions \ behind, At(t, "got")' PROVE tasks'[t].map = saved
    BY DEF ReadIsSaved
  <2>1. tasks'[t] = tasks[t] /\ At(t, "got")
    BY <1>1 DEF At, Tasks
  <2> QED
    BY <2>1 DEF ReadIsSaved
<1> QED
  BY <1>4, <1>5

-----------------------------------------------------------------------------
\* The invariant holds at the start.
LEMMA InitCInv == Init => CInv
<1> SUFFICES ASSUME Init PROVE CInv
  OBVIOUS
<1> USE DEF Init
<1>1. Typed
  <2>1. config \in Maps /\ saved \in Maps /\ registry \in Maps /\ everSaved \subseteq Maps
    BY DEF Maps, Empty
  <2>2. updates \in Seq(Maps) /\ wire \in Seq(Post)
    OBVIOUS
  <2> QED
    BY <2>1, <2>2 DEF Typed
<1>2. \A t \in Tasks : tasks[t].step = "idle"
  BY DEF Idle
<1>3. Linked
  BY <1>2 DEF Linked, At
<1>4. Origin
  BY <1>2 DEF Origin, Had, At
<1>5. ReadIsSaved
  BY <1>2 DEF ReadIsSaved, At, Tasks
<1>6. Ordered
  BY DEF Ordered
<1> QED
  BY <1>1, <1>3, <1>4, <1>5, <1>6 DEF CInv

\* A handler takes a map that Gladys has had, and pushes it.
LEMMA AdoptCInv ==
    ASSUME CInv, NEW t \in Tasks, ~At(t, "post"), NEW m \in everSaved, Adopt(t, m),
           UNCHANGED <<saved, registry, online, status, everSaved, behind, order>>,
           unread' \in BOOLEAN, unpushed' \in BOOLEAN,
           updates' \in Seq(everSaved)
    PROVE  CInv'
<1>1. config' = m /\ m \in Maps /\ Send(t, 1) /\ 1 \in 0..Attempts
  BY ConfigSyncAssumption DEF Adopt, CInv, Typed, ConfigSyncAssumption
<1>2. /\ Linked' /\ tasks' \in [Tasks -> Task \cup {Idle}] /\ wire' \in Seq(Post)
      /\ tasks'[t].step = "post" /\ \A u \in Tasks \ {t} : tasks'[u] = tasks[u]
      /\ \A i \in DOMAIN wire' : wire'[i].body = config' \/ (i \in DOMAIN wire /\ wire'[i] = wire[i])
      /\ Ordered'
  BY <1>1, SendLinked DEF CInv, order
<1>3. Typed'
  <2>1. updates' \in Seq(Maps)
    BY DEF CInv, Typed
  <2> QED
    BY <1>1, <1>2, <2>1 DEF CInv, Typed, order
<1>4. \A u \in Tasks : At(u, "got")' \/ At(u, "saved")' => u # t /\ tasks'[u] = tasks[u]
  BY <1>2 DEF At
<1>5. Origin'
  <2>1. \A u \in Tasks : At(u, "got")' \/ At(u, "saved")' => tasks'[u].map \in everSaved
    <3> SUFFICES ASSUME NEW u \in Tasks, At(u, "got")' \/ At(u, "saved")' PROVE tasks'[u].map \in everSaved
      OBVIOUS
    <3>1. tasks'[u] = tasks[u] /\ (At(u, "got") \/ At(u, "saved"))
      BY <1>4 DEF At
    <3> QED
      BY <3>1 DEF CInv, Origin
  <2>2. \A i \in DOMAIN wire' : wire'[i].body \in Had
    BY <1>1, <1>2 DEF CInv, Origin, Had
  <2>3. \A i \in DOMAIN updates' : updates'[i] \in everSaved
    OBVIOUS
  <2> QED
    BY <1>1, <2>1, <2>2, <2>3 DEF CInv, Origin, Had
<1>6. ReadIsSaved'
  <2> SUFFICES ASSUME NEW u \in Actions \ behind, At(u, "got")' PROVE tasks'[u].map = saved
    BY DEF ReadIsSaved
  <2>1. tasks'[u] = tasks[u] /\ At(u, "got")
    BY <1>4 DEF At, Tasks
  <2> QED
    BY <2>1 DEF CInv, ReadIsSaved
<1> QED
  BY <1>2, <1>3, <1>5, <1>6 DEF CInv

\* A handler has read what Gladys has.
LEMMA ReadCInv ==
    ASSUME CInv, NEW t \in Tasks, At(t, "idle"),
           tasks' = [tasks EXCEPT ![t] = [step |-> "got", map |-> saved, attempt |-> 0]],
           UNCHANGED <<saved, updates, config, wire, registry, status, everSaved, ghosts>>,
           online' \in BOOLEAN, behind' = behind \/ (behind' = behind \ {t})
    PROVE  CInv'
<1> DEFINE x == [step |-> "got", map |-> saved, attempt |-> 0]
<1>1. x \in Task \cup {Idle} /\ x.step = "got" /\ x.map = saved /\ ~At(t, "post")
  BY ConfigSyncAssumption DEF CInv, Typed, Task, At, ConfigSyncAssumption
<1>2. tasks' = [tasks EXCEPT ![t] = x]
  OBVIOUS
<1> HIDE DEF x
<1>3. /\ Linked' /\ tasks' \in [Tasks -> Task \cup {Idle}]
      /\ tasks'[t] = x /\ \A u \in Tasks \ {t} : tasks'[u] = tasks[u]
  BY <1>1, <1>2, MovedLinked DEF CInv
<1>4. Typed'
  BY <1>3 DEF CInv, Typed, ghosts, order
<1>5. ASSUME NEW u \in Tasks, At(u, "got")' \/ At(u, "saved")' PROVE tasks'[u].map \in everSaved
  BY <1>1, <1>3, <1>5 DEF CInv, Origin, At
<1>6. Origin'
  BY <1>5 DEF CInv, Origin, Had
<1>7. ReadIsSaved'
  BY <1>1, <1>3 DEF CInv, ReadIsSaved, At, Tasks
<1>8. Ordered'
  BY DEF CInv, Ordered, ghosts, order
<1> QED
  BY <1>3, <1>4, <1>6, <1>7, <1>8 DEF CInv

\* A handler ends.
LEMMA EndsCInv ==
    ASSUME CInv, NEW t \in Tasks, ~At(t, "post"), Ends(t),
           UNCHANGED <<saved, online, updates, config, wire, registry, everSaved, behind, order>>,
           status' \in BOOLEAN, unread' \in BOOLEAN, unpushed' \in BOOLEAN
    PROVE  CInv'
<1>1. Idle \in Task \cup {Idle} /\ Idle.step = "idle"
  BY DEF Idle
<1>2. /\ Linked' /\ tasks' \in [Tasks -> Task \cup {Idle}]
      /\ tasks'[t] = Idle /\ \A u \in Tasks \ {t} : tasks'[u] = tasks[u]
  BY <1>1, MovedLinked DEF CInv, Ends
<1>3. Typed'
  BY <1>2 DEF CInv, Typed, order
<1>4. Origin' /\ ReadIsSaved' /\ Ordered'
  BY <1>1, <1>2, SameMaps DEF CInv, Origin, Ordered, order
<1> QED
  BY <1>2, <1>3, <1>4 DEF CInv

LEMMA ConnectedCInv ==
    ASSUME CInv, NEW t \in Connects, Connected(t) \/ ConnectedGotConfig(t) \/ ConnectedFails(t)
    PROVE  CInv'
<1>1. t \in Tasks
  BY DEF Tasks
<1>2. CASE Connected(t)
  BY <1>1, <1>2, ReadCInv DEF Connected
<1>3. CASE ConnectedGotConfig(t)
  <2>1. /\ At(t, "got") /\ ~At(t, "post") /\ Adopt(t, tasks[t].map)
        /\ UNCHANGED <<saved, online, updates, registry, status, counters, everSaved, behind, unpushed, order>>
        /\ unread' \in BOOLEAN
    BY <1>3 DEF ConnectedGotConfig, At
  <2>2. tasks[t].map \in everSaved
    BY <1>1, <2>1 DEF CInv, Origin
  <2>3. updates \in Seq(everSaved)
    BY DEF CInv, Typed, Origin
  <2> QED
    BY <1>1, <2>1, <2>2, <2>3, AdoptCInv DEF counters, CInv, Typed
<1>4. CASE ConnectedFails(t)
  BY <1>1, <1>4, EndsCInv DEF ConnectedFails, CInv, Typed, At
<1> QED
  BY <1>2, <1>3, <1>4

\* A config-updated event arrives.
LEMMA UpdatedCInv ==
    ASSUME CInv, NEW t \in Updates, Updated(t)
    PROVE  CInv'
<1>1. /\ updates # <<>> /\ At(t, "idle") /\ ~At(t, "post")
      /\ updates' = Tail(updates) /\ Adopt(t, Head(updates))
      /\ UNCHANGED <<saved, online, registry, status, counters, everSaved, behind, unpushed, order>>
      /\ t \in Tasks
  BY DEF Updated, At, Tasks
<1>2. unread' \in BOOLEAN
  BY DEF Updated, CInv, Typed
<1>3. updates \in Seq(everSaved)
  BY DEF CInv, Typed, Origin
<1>4. Head(updates) \in everSaved /\ Tail(updates) \in Seq(everSaved)
  BY <1>1, <1>3
<1> QED
  BY <1>1, <1>2, <1>4, AdoptCInv DEF counters, CInv, Typed

\* add_charger saves the map that it has merged.
LEMMA AddMergesCInv ==
    ASSUME CInv, NEW t \in Actions, NEW id \in Identities, NEW url \in Urls \cup {NoUrl},
           AddMerges(t, id, url)
    PROVE  CInv'
<1> DEFINE m == [tasks[t].map EXCEPT ![id] = url]
           x == [tasks[t] EXCEPT !.step = "saved", !.map[id] = url]
<1>1. /\ At(t, "got")
      /\ saved' = m /\ everSaved' = everSaved \cup {m}
      /\ updates' = IF online THEN Append(updates, m) ELSE updates
      /\ tasks' = [tasks EXCEPT ![t] = x]
      /\ behind' = behind \cup {u \in Actions \ {t} : At(u, "got")}
      /\ UNCHANGED <<online, config, wire, registry, status, counters, ghosts>>
  BY DEF AddMerges, GladysSaves
<1>2. t \in Tasks /\ tasks[t] \in Task
  BY <1>1 DEF CInv, Typed, Tasks, At, Idle
<1>3. m \in Maps
  BY <1>2 DEF Task, Maps
<1>4. x \in Task \cup {Idle} /\ x.step = "saved" /\ x.map = m
  BY <1>2, <1>3 DEF Task
<1> HIDE DEF m, x
<1>5. /\ Linked' /\ tasks' \in [Tasks -> Task \cup {Idle}]
      /\ tasks'[t] = x /\ \A u \in Tasks \ {t} : tasks'[u] = tasks[u]
  BY <1>1, <1>2, <1>4, MovedLinked DEF CInv, At
<1>6. updates' \in Seq(Maps) /\ \A i \in DOMAIN updates' : updates'[i] \in everSaved'
  <2>1. updates \in Seq(everSaved) /\ updates \in Seq(Maps)
    BY DEF CInv, Typed, Origin
  <2>2. CASE online
    BY <1>1, <1>3, <2>1, <2>2
  <2>3. CASE ~online
    BY <1>1, <2>1, <2>3
  <2> QED
    BY <2>2, <2>3
<1>7. Typed'
  BY <1>1, <1>3, <1>5, <1>6 DEF CInv, Typed, ghosts, order
<1>8. ASSUME NEW u \in Tasks, At(u, "got")' \/ At(u, "saved")' PROVE tasks'[u].map \in everSaved'
  BY <1>1, <1>4, <1>5, <1>8 DEF CInv, Origin, At
<1>9. Origin'
  BY <1>1, <1>6, <1>8 DEF CInv, Origin, Had
<1>10. ReadIsSaved'
  <2> SUFFICES ASSUME NEW u \in Actions, u \notin behind', At(u, "got")' PROVE FALSE
    BY DEF ReadIsSaved
  <2>1. u # t /\ u \in Tasks
    BY <1>2, <1>4, <1>5 DEF At, Tasks
  <2>2. At(u, "got")
    BY <1>5, <2>1 DEF At
  <2> QED
    BY <1>1, <2>1, <2>2
<1>11. Ordered'
  BY <1>1 DEF CInv, Ordered, ghosts, order
<1> QED
  BY <1>5, <1>7, <1>9, <1>10, <1>11 DEF CInv

LEMMA AddCInv ==
    ASSUME CInv, NEW t \in Actions, Add(t) \/ AddSaved(t) \/ AddFails(t)
    PROVE  CInv'
<1>1. t \in Tasks
  BY DEF Tasks
<1>2. CASE Add(t)
  BY <1>1, <1>2, ReadCInv DEF Add, CInv, Typed
<1>3. CASE AddSaved(t)
  <2>1. /\ At(t, "saved") /\ ~At(t, "post") /\ Adopt(t, tasks[t].map)
        /\ UNCHANGED <<saved, online, updates, registry, status, counters, everSaved, behind, unpushed, order>>
        /\ unread' \in BOOLEAN
    BY <1>3 DEF AddSaved, At
  <2>2. tasks[t].map \in everSaved
    BY <1>1, <2>1 DEF CInv, Origin
  <2>3. updates \in Seq(everSaved)
    BY DEF CInv, Typed, Origin
  <2> QED
    BY <1>1, <2>1, <2>2, <2>3, AdoptCInv DEF counters, CInv, Typed
<1>4. CASE AddFails(t)
  BY <1>1, <1>4, EndsCInv DEF AddFails, CInv, Typed, At, ghosts
<1> QED
  BY <1>2, <1>3, <1>4

\* A push is tried again, given up or done.
LEMMA ReconcileCInv ==
    ASSUME CInv, NEW t \in Tasks, Reconcile(t)
    PROVE  CInv'
<1>1. CASE Retry(t)
  <2>1. /\ At(t, "failed") /\ ~At(t, "post") /\ config' = config /\ config' \in Maps
        /\ Send(t, tasks[t].attempt + 1) /\ tasks[t].attempt < Attempts
        /\ UNCHANGED <<saved, online, updates, registry, status, counters, everSaved, behind, ghosts>>
    BY <1>1 DEF Retry, At, CInv, Typed
  <2>2. tasks[t].attempt + 1 \in 0..Attempts
    <3>1. tasks[t] \in Task
      BY <2>1 DEF CInv, Typed, At, Idle
    <3> QED
      BY <2>1, <3>1, ConfigSyncAssumption DEF Task, ConfigSyncAssumption
  <2>3. /\ Linked' /\ tasks' \in [Tasks -> Task \cup {Idle}] /\ wire' \in Seq(Post)
        /\ tasks'[t].step = "post" /\ \A u \in Tasks \ {t} : tasks'[u] = tasks[u]
        /\ \A i \in DOMAIN wire' : wire'[i].body = config' \/ (i \in DOMAIN wire /\ wire'[i] = wire[i])
        /\ Ordered'
    BY <2>1, <2>2, SendLinked DEF CInv, ghosts, order
  <2>4. Typed'
    BY <2>1, <2>3 DEF CInv, Typed, ghosts, order
  <2>5. ASSUME NEW u \in Tasks, At(u, "got")' \/ At(u, "saved")'
        PROVE  tasks'[u] = tasks[u] /\ (At(u, "got") \/ At(u, "saved")) /\ (At(u, "got")' => At(u, "got"))
    BY <2>3, <2>5 DEF At
  <2>6. Origin'
    <3>1. \A u \in Tasks : At(u, "got")' \/ At(u, "saved")' => tasks'[u].map \in everSaved
      BY <2>5 DEF CInv, Origin
    <3>2. \A i \in DOMAIN wire' : wire'[i].body \in Had
      BY <2>1, <2>3 DEF CInv, Origin
    <3> QED
      BY <2>1, <3>1, <3>2 DEF CInv, Origin, Had
  <2>7. ReadIsSaved'
    BY <2>1, <2>5 DEF CInv, ReadIsSaved, Tasks
  <2> QED
    BY <2>3, <2>4, <2>6, <2>7 DEF CInv
<1>2. CASE GiveUp(t)
  BY <1>2, EndsCInv DEF GiveUp, CInv, Typed, At
<1>3. CASE Pushed(t)
  BY <1>3, EndsCInv DEF Pushed, CInv, Typed, At, ghosts
<1> QED
  BY <1>1, <1>2, <1>3 DEF Reconcile

\* The gateway handles a POST, or the POST fails.
LEMMA PostCInv ==
    ASSUME CInv, NEW i \in DOMAIN wire, GatewayReplaces(i) \/ PostFails(i) \/ PostTimesOut(i)
    PROVE  CInv'
<1>1. wire[i] \in Post /\ wire[i].body \in Maps /\ wire[i].body \in Had /\ registry \in Had
  <2>1. wire[i] \in Post
    BY DEF CInv, Typed
  <2> QED
    BY <2>1 DEF CInv, Origin, Post
<1>2. CASE GatewayReplaces(i)
  <2>1. /\ registry' = wire[i].body /\ wire' = RemoveAt(wire, i)
        /\ IF wire[i].task = NoTask THEN UNCHANGED tasks ELSE Goes(wire[i].task, "ok")
        /\ IF i <= passed THEN passed' = passed - 1 ELSE passed' \in {passed, i - 1}
        /\ UNCHANGED <<saved, online, updates, config, status, counters, everSaved, behind, unread>>
    BY <1>2 DEF GatewayReplaces, Handled
  <2>2. unpushed' \in BOOLEAN /\ overtaken' \in BOOLEAN
    BY <1>2 DEF GatewayReplaces, Handled, CInv, Typed
  <2>3. /\ Linked' /\ tasks' \in [Tasks -> Task \cup {Idle}] /\ wire' \in Seq(Post)
        /\ \A u \in Tasks : tasks'[u] = tasks[u] \/ tasks'[u].step = "ok"
        /\ \A j \in DOMAIN wire' : \E k \in DOMAIN wire : wire'[j] = wire[k]
        /\ Ordered'
    BY <2>1, EndedLinked DEF CInv
  <2>4. Typed'
    BY <1>1, <2>1, <2>2, <2>3 DEF CInv, Typed
  <2>5. Origin' /\ ReadIsSaved'
    BY <1>1, <2>1, <2>3, SameMaps DEF CInv
  <2> QED
    BY <2>3, <2>4, <2>5 DEF CInv
<1>3. CASE PostFails(i)
  <2>1. /\ wire' = RemoveAt(wire, i)
        /\ IF wire[i].task = NoTask THEN UNCHANGED tasks ELSE Goes(wire[i].task, "failed")
        /\ IF i <= passed THEN passed' = passed - 1 ELSE passed' \in {passed, i - 1}
        /\ UNCHANGED <<saved, online, updates, config, registry, status, everSaved, behind, unread, unpushed, overtaken>>
    BY <1>3 DEF PostFails
  <2>2. /\ Linked' /\ tasks' \in [Tasks -> Task \cup {Idle}] /\ wire' \in Seq(Post)
        /\ \A u \in Tasks : tasks'[u] = tasks[u] \/ tasks'[u].step = "failed"
        /\ \A j \in DOMAIN wire' : \E k \in DOMAIN wire : wire'[j] = wire[k]
        /\ Ordered'
    BY <2>1, EndedLinked DEF CInv
  <2>3. Typed'
    BY <2>1, <2>2 DEF CInv, Typed
  <2>4. Origin' /\ ReadIsSaved'
    BY <1>1, <2>1, <2>2, SameMaps DEF CInv
  <2> QED
    BY <2>2, <2>3, <2>4 DEF CInv
<1>4. CASE PostTimesOut(i)
  <2>1. /\ wire[i].task # NoTask
        /\ wire' = [wire EXCEPT ![i].task = NoTask] /\ Goes(wire[i].task, "failed")
        /\ UNCHANGED <<saved, online, updates, config, registry, status, everSaved, behind, ghosts>>
    BY <1>4 DEF PostTimesOut
  <2>2. /\ Linked' /\ tasks' \in [Tasks -> Task \cup {Idle}] /\ wire' \in Seq(Post)
        /\ \A u \in Tasks : tasks'[u] = tasks[u] \/ tasks'[u].step = "failed"
        /\ \A j \in DOMAIN wire' : j \in DOMAIN wire /\ wire'[j].body = wire[j].body
        /\ Len(wire') = Len(wire)
    BY <2>1, GivenUpLinked DEF CInv
  <2>3. Typed'
    BY <2>1, <2>2 DEF CInv, Typed, ghosts, order
  <2>4. Origin' /\ ReadIsSaved' /\ Ordered'
    BY <1>1, <2>1, <2>2, SameMaps DEF CInv, Ordered, ghosts, order
  <2> QED
    BY <2>2, <2>3, <2>4 DEF CInv
<1> QED
  BY <1>2, <1>3, <1>4

\* The steps that leave the handlers and the POSTs alone: the websocket goes, the
\* gateway restarts, nothing happens.
LEMMA EnvironmentCInv ==
    ASSUME CInv, Drop \/ GatewayRestarts \/ UNCHANGED vars
    PROVE  CInv'
<1>1. /\ UNCHANGED <<saved, config, tasks, wire, status, everSaved, behind, unread, order>>
      /\ updates' \in {updates, <<>>} /\ registry' \in {registry, Empty}
      /\ online' \in BOOLEAN /\ unpushed' \in BOOLEAN
  BY DEF Drop, GatewayRestarts, vars, counters, ghosts, CInv, Typed
<1>2. Linked'
  BY <1>1, OtherLinked DEF CInv, At
<1>3. Typed'
  <2>1. updates' \in Seq(Maps)
    <3>1. updates \in Seq(Maps) /\ <<>> \in Seq(Maps)
      BY DEF CInv, Typed
    <3> QED
      BY <1>1, <3>1
  <2>2. registry' \in Maps
    BY <1>1 DEF CInv, Typed, Maps, Empty
  <2> QED
    BY <1>1, <2>1, <2>2 DEF CInv, Typed, order
<1>4. Origin' /\ ReadIsSaved' /\ Ordered'
  BY <1>1 DEF CInv, Origin, ReadIsSaved, Ordered, Had, At, order
<1> QED
  BY <1>2, <1>3, <1>4 DEF CInv

\* Every action preserves the invariant.
LEMMA NextCInv == CInv /\ [Next]_vars => CInv'
<1> SUFFICES ASSUME CInv, Next PROVE CInv'
  BY EnvironmentCInv
<1>1. CASE Drop \/ GatewayRestarts
  BY <1>1, EnvironmentCInv
<1>2. ASSUME NEW t \in Connects, Connected(t) \/ ConnectedGotConfig(t) \/ ConnectedFails(t) PROVE CInv'
  BY <1>2, ConnectedCInv
<1>3. ASSUME NEW t \in Updates, Updated(t) PROVE CInv'
  BY <1>3, UpdatedCInv
<1>4. ASSUME NEW t \in Actions, Add(t) \/ AddSaved(t) \/ AddFails(t) PROVE CInv'
  BY <1>4, AddCInv
<1>5. ASSUME NEW t \in Actions, NEW id \in Identities, NEW url \in Urls \cup {NoUrl}, AddMerges(t, id, url)
      PROVE CInv'
  BY <1>5, AddMergesCInv
<1>6. ASSUME NEW t \in Tasks, Reconcile(t) PROVE CInv'
  BY <1>6, ReconcileCInv
<1>7. ASSUME NEW i \in DOMAIN wire, GatewayReplaces(i) \/ PostFails(i) \/ PostTimesOut(i) PROVE CInv'
  BY <1>7, PostCInv
<1> QED
  BY <1>1, <1>2, <1>3, <1>4, <1>5, <1>6, <1>7 DEF Next

-----------------------------------------------------------------------------
\* The inductive invariant of the handlers that carry the configuration.
THEOREM ConfigInvariant == Spec => []CInv
<1> QED
  BY InitCInv, NextCInv, PTL DEF Spec

\* Every variable keeps its type, and a handler waits for a POST if and only if
\* one of its own is on its way: the late answer of a POST that timed out is not
\* taken for that of the next attempt.
THEOREM HandlersWaitForTheirOwn == Spec => []TypeOK
<1>1. CInv => TypeOK
  BY DEF CInv, Typed, Linked, Ordered, TypeOK, At
<1> QED
  BY <1>1, ConfigInvariant, PTL

\* The map that replaceMap() of the gateway puts in place is one that Gladys has
\* saved, however add_charger, onConfigUpdated, 'connected' and the retries of
\* withGatewayRetries() interleave.
THEOREM TheRegistryWasSaved == Spec => []RegistryWasSaved
<1>1. CInv => RegistryWasSaved
  BY DEF CInv, Origin, Had, RegistryWasSaved
<1> QED
  BY <1>1, ConfigInvariant, PTL

\* add_charger changes the charge point it is about and no other one, unless
\* another add_charger has saved between its getConfig and its setConfig: until
\* then, what it has read is what Gladys has.
THEOREM OtherChargePointsAreKept ==
    ASSUME Identities # {}
    PROVE  Spec => OthersAreKept
<1> DEFINE Kept ==
      saved' # saved =>
         \E t \in Actions :
           /\ At(t, "got") /\ At(t, "saved")'
           /\ t \in behind \/ \E id \in Identities : \A i \in Identities \ {id} : saved'[i] = saved[i]
<1>1. CInv /\ [Next]_vars => [Kept]_vars
  <2> SUFFICES ASSUME CInv, Next PROVE Kept
    OBVIOUS
  <2>1. CASE \E t \in Actions, id \in Identities, url \in Urls \cup {NoUrl} : AddMerges(t, id, url)
    <3>1. PICK t \in Actions, id \in Identities, url \in Urls \cup {NoUrl} : AddMerges(t, id, url)
      BY <2>1
    <3>2. At(t, "got") /\ saved' = [tasks[t].map EXCEPT ![id] = url]
      BY <3>1 DEF AddMerges, GladysSaves
    <3>3. At(t, "saved")'
      <4>1. t \in Tasks /\ tasks[t] \in Task
        BY <3>2 DEF CInv, Typed, Tasks, At, Idle
      <4>2. tasks'[t] = [tasks[t] EXCEPT !.step = "saved", !.map[id] = url]
        BY <3>1, <4>1 DEF AddMerges, CInv, Typed
      <4> QED
        BY <4>1, <4>2 DEF At, Task
    <3>4. t \notin behind => \A i \in Identities \ {id} : saved'[i] = saved[i]
      BY <3>2 DEF CInv, Typed, ReadIsSaved, Maps
    <3> QED
      BY <3>2, <3>3, <3>4
  <2>2. CASE ~\E t \in Actions, id \in Identities, url \in Urls \cup {NoUrl} : AddMerges(t, id, url)
    <3>1. saved' = saved
      BY <2>2 DEF Next, Connected, ConnectedGotConfig, ConnectedFails, Updated, Add, AddSaved, AddFails,
                  Reconcile, Retry, GiveUp, Pushed, GatewayReplaces, Handled, PostFails, PostTimesOut,
                  Drop, GatewayRestarts
    <3> QED
      BY <3>1
  <2> QED
    BY <2>1, <2>2
<1> QED
  BY <1>1, ConfigInvariant, PTL DEF Spec, OthersAreKept

-----------------------------------------------------------------------------
(***************************************************************************)
(* What is pushed.  The argument follows the newest map on its way to the  *)
(* gateway: it is the config of the moment, or a handler will push that    *)
(* (ConfigIsPushed); and the config is what Gladys has, or a handler will  *)
(* read it (ConfigIsRead).  Once the newest one is handled, only an older  *)
(* one that was passed on the wire can change the registry.                *)
(***************************************************************************)

\* A handler will take what Gladys has as the config.
Coming == updates # <<>> \/ ~online \/ \E t \in Connects : At(t, "got")

\* The newest map sent that may count: the last POST, unless it was handled
\* before those that are still on their way; then it is in the registry, as long
\* as none of those has changed it.
NewestIs(m) ==
    IF passed < Len(wire) THEN wire[Len(wire)].body = m ELSE overtaken \/ registry = m

\* The last event on its way is about what Gladys has.
UpdatesEnd == updates # <<>> => online /\ updates[Len(updates)] = saved

ConfigIsRead == ~unread => config = saved \/ Coming

ConfigIsPushed ==
    ~unpushed /\ ~unread => (\E t \in Tasks : At(t, "failed")) \/ NewestIs(config) \/ Coming

PInv == CInv /\ UpdatesEnd /\ ConfigIsRead /\ ConfigIsPushed

LEMMA InitPInv == Init => PInv
BY InitCInv DEF PInv, Init, UpdatesEnd, ConfigIsRead, ConfigIsPushed

LEMMA SameNewest ==
    ASSUME UNCHANGED <<config, wire, registry, order>>
    PROVE  NewestIs(config)' <=> NewestIs(config)
BY DEF NewestIs, order

\* What a handler sends is the newest.
LEMMA SentIsNewest ==
    ASSUME CInv, NEW t, NEW n, Send(t, n), UNCHANGED order
    PROVE  NewestIs(config)'
<1>1. wire \in Seq(Post) /\ wire' = Append(wire, [task |-> t, body |-> config'])
  BY DEF Send, CInv, Typed
<1>2. Len(wire') = Len(wire) + 1 /\ wire'[Len(wire) + 1] = [task |-> t, body |-> config']
  BY <1>1
<1>3. Len(wire) \in Nat /\ passed' <= Len(wire) /\ passed' \in Nat
  BY <1>1 DEF CInv, Ordered, order
<1> QED
  BY <1>2, <1>3 DEF NewestIs

\* A handler that takes what it has read as the config pushes it.
LEMMA AdoptPInv ==
    ASSUME PInv, NEW t, NEW m, Adopt(t, m), UNCHANGED order, config' = saved \/ unread' \/ Coming'
    PROVE  (~unread' => config' = saved \/ Coming') /\ ConfigIsPushed'
<1>1. NewestIs(config)'
  BY SentIsNewest DEF Adopt, PInv
<1> QED
  BY <1>1 DEF ConfigIsPushed

LEMMA ConnectedPInv ==
    ASSUME PInv, NEW t \in Connects, Connected(t) \/ ConnectedGotConfig(t) \/ ConnectedFails(t)
    PROVE  UpdatesEnd' /\ ConfigIsRead' /\ ConfigIsPushed'
<1>1. CASE Connected(t)
  <2>1. online' = TRUE /\ UNCHANGED <<updates, saved>>
    BY <1>1 DEF Connected
  <2>2. tasks'[t].step = "got"
    BY <1>1 DEF Connected, PInv, CInv, Typed, Tasks
  <2>3. Coming'
    BY <2>2 DEF Coming, At
  <2> QED
    BY <2>1, <2>3 DEF PInv, UpdatesEnd, ConfigIsRead, ConfigIsPushed
<1>2. CASE ConnectedGotConfig(t)
  <2>1. /\ Adopt(t, tasks[t].map) /\ config' = tasks[t].map
        /\ UNCHANGED <<updates, saved, online, order>> /\ unread' = (tasks[t].map # saved)
    BY <1>2 DEF ConnectedGotConfig, Adopt
  <2>2. config' = saved \/ unread'
    BY <2>1
  <2> QED
    BY <2>1, <2>2, AdoptPInv DEF PInv, UpdatesEnd, ConfigIsRead
<1>3. CASE ConnectedFails(t)
  BY <1>3 DEF ConnectedFails, PInv, UpdatesEnd, ConfigIsRead, ConfigIsPushed
<1> QED
  BY <1>1, <1>2, <1>3

LEMMA UpdatedPInv ==
    ASSUME PInv, NEW t \in Updates, Updated(t)
    PROVE  UpdatesEnd' /\ ConfigIsRead' /\ ConfigIsPushed'
<1>1. /\ updates # <<>> /\ updates' = Tail(updates) /\ Adopt(t, Head(updates)) /\ config' = Head(updates)
      /\ UNCHANGED <<saved, online, order>>
  BY DEF Updated, Adopt
<1>2. updates \in Seq(Maps) /\ online /\ updates[Len(updates)] = saved
  BY <1>1 DEF PInv, CInv, Typed, UpdatesEnd
<1>3. CASE Len(updates) = 1
  <2>1. config' = saved /\ updates' = <<>>
    BY <1>1, <1>2, <1>3
  <2> QED
    BY <1>1, <2>1, AdoptPInv DEF UpdatesEnd, ConfigIsRead
<1>4. CASE Len(updates) # 1
  <2>1. Len(updates) \in Nat /\ Len(updates) > 1
    <3>1. updates # <<>> /\ updates \in Seq(Maps)
      BY <1>1, <1>2
    <3>2. Len(updates) \in Nat /\ Len(updates) # 0
      <4>1. \A seq \in Seq(Maps) : seq # <<>> => Len(seq) \in Nat \ {0}
        BY EmptySeq
      <4> QED
        BY <3>1, <4>1
    <3>3. \A n \in Nat : n # 0 /\ n # 1 => n > 1
      OBVIOUS
    <3> QED
      BY <1>4, <3>2, <3>3, Zenon
  <2>2. Len(Tail(updates)) = Len(updates) - 1
    BY <1>2, <2>1
  <2>3. Tail(updates)[Len(updates) - 1] = updates[Len(updates)]
    BY <1>2, <2>1
  <2>4. Tail(updates) # <<>>
    BY <2>1, <2>2
  <2>5. Coming'
    BY <1>1, <2>4 DEF Coming
  <2> QED
    BY <1>1, <1>2, <2>2, <2>3, <2>5, AdoptPInv DEF UpdatesEnd, ConfigIsRead
<1> QED
  BY <1>3, <1>4

LEMMA AddPInv ==
    ASSUME PInv, NEW t \in Actions, Add(t) \/ AddSaved(t) \/ AddFails(t)
    PROVE  UpdatesEnd' /\ ConfigIsRead' /\ ConfigIsPushed'
<1>1. \A u \in Connects : u # t /\ u \in Tasks
  BY ConfigSyncAssumption DEF ConfigSyncAssumption, Tasks
<1>2. CASE AddSaved(t)
  <2>1. /\ Adopt(t, tasks[t].map) /\ config' = tasks[t].map
        /\ UNCHANGED <<updates, saved, online, order>> /\ unread' = (tasks[t].map # saved)
    BY <1>2 DEF AddSaved, Adopt
  <2>2. config' = saved \/ unread'
    BY <2>1
  <2> QED
    BY <2>1, <2>2, AdoptPInv DEF PInv, UpdatesEnd, ConfigIsRead
<1>3. CASE Add(t) \/ AddFails(t)
  <2>1. /\ UNCHANGED <<saved, online, updates, config, wire, registry, unread, unpushed, order>>
        /\ At(t, "idle") \/ At(t, "got") \/ At(t, "saved")
        /\ \A u \in Tasks \ {t} : tasks'[u] = tasks[u]
    BY <1>3 DEF Add, AddFails, Ends, PInv, CInv, Typed, ghosts
  <2>2. Coming' <=> Coming
    BY <1>1, <2>1 DEF Coming, At
  <2>3. (\E u \in Tasks : At(u, "failed")) => \E u \in Tasks : At(u, "failed")'
    BY <2>1 DEF At
  <2>4. NewestIs(config)' <=> NewestIs(config)
    BY <2>1, SameNewest
  <2> QED
    BY <2>1, <2>2, <2>3, <2>4 DEF PInv, UpdatesEnd, ConfigIsRead, ConfigIsPushed
<1> QED
  BY <1>2, <1>3

\* What is saved is on its way to a handler, or will be read on the next connection.
LEMMA AddMergesPInv ==
    ASSUME PInv, NEW t \in Actions, NEW id \in Identities, NEW url \in Urls \cup {NoUrl},
           AddMerges(t, id, url)
    PROVE  UpdatesEnd' /\ ConfigIsRead' /\ ConfigIsPushed'
<1>1. /\ updates' = IF online THEN Append(updates, saved') ELSE updates
      /\ UNCHANGED <<online, config, wire, registry, unread, unpushed, order>>
  BY DEF AddMerges, GladysSaves, ghosts
<1>2. updates \in Seq(Maps) /\ (~online => updates = <<>>)
  BY DEF PInv, CInv, Typed, UpdatesEnd
<1>3. CASE online
  <2>1. updates' = Append(updates, saved') /\ updates' # <<>> /\ updates'[Len(updates')] = saved'
    BY <1>1, <1>2, <1>3
  <2> QED
    BY <1>1, <1>3, <2>1 DEF UpdatesEnd, ConfigIsRead, ConfigIsPushed, Coming
<1>4. CASE ~online
  BY <1>1, <1>2, <1>4 DEF UpdatesEnd, ConfigIsRead, ConfigIsPushed, Coming
<1> QED
  BY <1>3, <1>4

LEMMA ReconcilePInv ==
    ASSUME PInv, NEW t \in Tasks, Reconcile(t)
    PROVE  UpdatesEnd' /\ ConfigIsRead' /\ ConfigIsPushed'
<1>1. UNCHANGED <<saved, online, updates, config, registry, unread>>
  BY DEF Reconcile, Retry, GiveUp, Pushed, ghosts
<1>2. ~At(t, "got") /\ ~At(t, "got")' /\ \A u \in Tasks \ {t} : tasks'[u] = tasks[u]
  BY DEF Reconcile, Retry, GiveUp, Pushed, Send, Ends, At, PInv, CInv, Typed, Idle
<1>3. Coming' <=> Coming
  BY <1>1, <1>2 DEF Coming, At, Tasks
<1>4. UpdatesEnd' /\ ConfigIsRead'
  BY <1>1, <1>3 DEF PInv, UpdatesEnd, ConfigIsRead
<1>5. ConfigIsPushed'
  <2>1. CASE Retry(t)
    BY <2>1, SentIsNewest DEF Retry, PInv, ConfigIsPushed, ghosts
  <2>2. CASE GiveUp(t)
    BY <2>2 DEF GiveUp, ConfigIsPushed
  <2>3. CASE Pushed(t)
    <3>1. ~At(t, "failed") /\ UNCHANGED <<wire, unpushed, order>>
      BY <2>3 DEF Pushed, At, ghosts
    <3>2. (\E u \in Tasks : At(u, "failed")) => \E u \in Tasks : At(u, "failed")'
      BY <1>2, <3>1 DEF At
    <3>3. NewestIs(config)' <=> NewestIs(config)
      BY <1>1, <3>1, SameNewest
    <3> QED
      BY <1>1, <1>3, <3>1, <3>2, <3>3 DEF PInv, ConfigIsPushed
  <2> QED
    BY <2>1, <2>2, <2>3 DEF Reconcile
<1> QED
  BY <1>4, <1>5

\* A POST that is handled: the newest stays the last one, or is in the registry.
LEMMA HandledNewest ==
    ASSUME PInv, NEW i \in DOMAIN wire, GatewayReplaces(i)
    PROVE  /\ NewestIs(config) => NewestIs(config)'
           /\ ~unpushed' /\ unpushed => NewestIs(saved)'
<1> DEFINE n == Len(wire)
<1>1. /\ config' = config /\ saved' = saved /\ registry' = wire[i].body /\ wire' = RemoveAt(wire, i)
      /\ passed' = IF i <= passed THEN passed - 1 ELSE i - 1
      /\ overtaken' = (i <= passed /\ (overtaken \/ wire[i].body # registry))
      /\ unpushed' = (unpushed /\ (i <= passed \/ \E j \in i..Len(wire) : wire[j].body # saved))
  BY DEF GatewayReplaces, Handled
<1>2. /\ wire \in Seq(Post) /\ n \in Nat /\ i \in 1..n /\ passed \in 0..n
  BY DEF PInv, CInv, Typed, Ordered
<1>3. /\ DOMAIN wire' = 1..(n - 1) /\ wire' \in Seq(Post)
      /\ \A j \in 1..(n - 1) : wire'[j] = IF j < i THEN wire[j] ELSE wire[j + 1]
  BY <1>1, <1>2, RemoveAtElements
<1>4. Len(wire') = n - 1
  BY <1>2, <1>3
<1>5. i < n => wire'[n - 1] = wire[n]
  <2> SUFFICES ASSUME i < n PROVE wire'[n - 1] = wire[n]
    OBVIOUS
  <2>1. n - 1 \in 1..(n - 1) /\ ~(n - 1 < i) /\ (n - 1) + 1 = n
    BY <1>2
  <2> QED
    BY <1>3, <2>1
<1> HIDE DEF n
<1>6. CASE i <= passed
  <2>1. passed' = passed - 1 /\ (unpushed => unpushed')
    BY <1>1, <1>6
  <2>2. CASE passed < n
    <3>1. i < n /\ passed' < Len(wire')
      BY <1>2, <1>4, <1>6, <2>1, <2>2
    <3> QED
      BY <1>1, <1>4, <1>5, <2>1, <2>2, <3>1 DEF NewestIs, n
  <2>3. CASE ~(passed < n)
    <3>1. ~(passed' < Len(wire'))
      BY <1>2, <1>4, <2>1, <2>3
    <3>2. registry = config \/ overtaken => overtaken' \/ registry' = config'
      BY <1>1, <1>6
    <3> QED
      BY <2>1, <2>3, <3>1, <3>2 DEF NewestIs, n
  <2> QED
    BY <2>2, <2>3
<1>7. CASE ~(i <= passed)
  <2>1. passed' = i - 1 /\ passed < n
    BY <1>1, <1>2, <1>7
  <2>2. ~unpushed' /\ unpushed => wire[n].body = saved
    <3>1. n \in i..Len(wire)
      BY <1>2 DEF n
    <3> QED
      BY <1>1, <1>7, <3>1
  <2>3. CASE i < n
    <3>1. passed' < Len(wire')
      BY <1>2, <1>4, <2>1, <2>3
    <3> QED
      BY <1>1, <1>4, <1>5, <2>1, <2>2, <2>3, <3>1 DEF NewestIs, n
  <2>4. CASE i = n
    <3>1. ~(passed' < Len(wire'))
      BY <1>2, <1>4, <2>1, <2>4
    <3>2. registry' = wire[n].body
      BY <1>1, <2>4
    <3> QED
      BY <1>1, <2>1, <2>2, <3>1, <3>2 DEF NewestIs, n
  <2> QED
    BY <1>2, <2>3, <2>4
<1> QED
  BY <1>6, <1>7

\* A POST is handled, or its handler goes on to try again.
LEMMA PostPInv ==
    ASSUME PInv, NEW i \in DOMAIN wire, GatewayReplaces(i) \/ PostFails(i) \/ PostTimesOut(i)
    PROVE  UpdatesEnd' /\ ConfigIsRead' /\ ConfigIsPushed'
<1>1. UNCHANGED <<saved, online, updates, config, unread>>
  BY DEF GatewayReplaces, Handled, PostFails, PostTimesOut, ghosts
<1>2. wire \in Seq(Post) /\ wire[i] \in Post /\ \A u \in Tasks : ~At(u, "post") => wire[i].task # u
  BY DEF PInv, CInv, Typed, Linked
<1>3. \A u \in Tasks : ~At(u, "post") => tasks'[u] = tasks[u]
  <2>1. \A u \in Tasks, s \in {"ok", "failed"} :
          ~At(u, "post") /\ Goes(wire[i].task, s) => tasks'[u] = tasks[u]
    BY <1>2 DEF Goes, PInv, CInv, Typed
  <2> QED
    BY <2>1 DEF GatewayReplaces, Handled, PostFails, PostTimesOut
<1>4. Coming => Coming'
  BY <1>1, <1>3 DEF Coming, At, Tasks
<1>5. UpdatesEnd' /\ ConfigIsRead'
  BY <1>1, <1>4 DEF PInv, UpdatesEnd, ConfigIsRead
<1>6. (\E u \in Tasks : At(u, "failed")) => \E u \in Tasks : At(u, "failed")'
  BY <1>3 DEF At
<1>7. ConfigIsPushed'
  <2>1. CASE GatewayReplaces(i)
    <3>1. CASE unpushed /\ ~unpushed'
      <4>1. NewestIs(saved)'
        BY <2>1, <3>1, HandledNewest
      <4>2. ~unread' => config' = saved' \/ Coming'
        BY <1>5 DEF ConfigIsRead
      <4>3. config' = saved' => NewestIs(config)'
        BY <4>1 DEF NewestIs
      <4> QED
        BY <4>2, <4>3 DEF ConfigIsPushed
    <3>2. CASE ~unpushed \/ unpushed'
      <4>1. NewestIs(config) => NewestIs(config)'
        BY <2>1, HandledNewest
      <4> QED
        BY <1>1, <1>4, <1>6, <3>2, <4>1 DEF PInv, ConfigIsPushed
    <3> QED
      BY <3>1, <3>2
  <2>2. CASE PostFails(i) \/ PostTimesOut(i)
    <3>1. wire[i].task # NoTask /\ Goes(wire[i].task, "failed")
      BY <2>2 DEF PostFails, PostTimesOut
    <3>2. wire[i].task \in Tasks
      BY <1>2, <3>1 DEF Post
    <3>3. At(wire[i].task, "post")
      BY <1>2, <3>2
    <3>4. tasks[wire[i].task] \in Task
      BY <3>2, <3>3 DEF PInv, CInv, Typed, At, Idle
    <3>5. tasks'[wire[i].task].step = "failed"
      BY <3>1, <3>2, <3>4 DEF Goes, Task, PInv, CInv, Typed
    <3> QED
      BY <3>2, <3>5 DEF ConfigIsPushed, At
  <2> QED
    BY <2>1, <2>2
<1> QED
  BY <1>5, <1>7

LEMMA EnvironmentPInv ==
    ASSUME PInv, Drop \/ GatewayRestarts \/ UNCHANGED vars
    PROVE  UpdatesEnd' /\ ConfigIsRead' /\ ConfigIsPushed'
<1>1. CASE Drop
  BY <1>1 DEF Drop, UpdatesEnd, ConfigIsRead, ConfigIsPushed, Coming
<1>2. CASE GatewayRestarts
  BY <1>2 DEF GatewayRestarts, PInv, UpdatesEnd, ConfigIsRead, ConfigIsPushed, Coming, At
<1>3. CASE UNCHANGED vars
  BY <1>3, SameNewest DEF vars, ghosts, PInv, UpdatesEnd, ConfigIsRead, ConfigIsPushed, Coming, At
<1> QED
  BY <1>1, <1>2, <1>3

LEMMA NextPInv ==
    ASSUME PInv, [Next]_vars
    PROVE  PInv'
<1> SUFFICES ASSUME Next PROVE UpdatesEnd' /\ ConfigIsRead' /\ ConfigIsPushed'
  BY NextCInv, EnvironmentPInv DEF PInv
<1>1. CASE Drop \/ GatewayRestarts
  BY <1>1, EnvironmentPInv
<1>2. ASSUME NEW t \in Connects, Connected(t) \/ ConnectedGotConfig(t) \/ ConnectedFails(t)
      PROVE  UpdatesEnd' /\ ConfigIsRead' /\ ConfigIsPushed'
  BY <1>2, ConnectedPInv
<1>3. ASSUME NEW t \in Updates, Updated(t)
      PROVE  UpdatesEnd' /\ ConfigIsRead' /\ ConfigIsPushed'
  BY <1>3, UpdatedPInv
<1>4. ASSUME NEW t \in Actions, Add(t) \/ AddSaved(t) \/ AddFails(t)
      PROVE  UpdatesEnd' /\ ConfigIsRead' /\ ConfigIsPushed'
  BY <1>4, AddPInv
<1>5. ASSUME NEW t \in Actions, NEW id \in Identities, NEW url \in Urls \cup {NoUrl}, AddMerges(t, id, url)
      PROVE  UpdatesEnd' /\ ConfigIsRead' /\ ConfigIsPushed'
  BY <1>5, AddMergesPInv
<1>6. ASSUME NEW t \in Tasks, Reconcile(t)
      PROVE  UpdatesEnd' /\ ConfigIsRead' /\ ConfigIsPushed'
  BY <1>6, ReconcilePInv
<1>7. ASSUME NEW i \in DOMAIN wire, GatewayReplaces(i) \/ PostFails(i) \/ PostTimesOut(i)
      PROVE  UpdatesEnd' /\ ConfigIsRead' /\ ConfigIsPushed'
  BY <1>7, PostPInv
<1> QED
  BY <1>1, <1>2, <1>3, <1>4, <1>5, <1>6, <1>7 DEF Next

\* Once every handler has ended, the gateway has the map that Gladys has saved, in
\* whatever order it handles the POSTs, but in the three cases that AtRestPushed
\* names: reconcileGateway() sends the config of the moment at each attempt, so the
\* last map sent is always the newest, and if it is not the last one handled the
\* registry has been overtaken.
THEOREM TheConfigIsPushed == Spec => []AtRestPushed
<1>1. Init => PInv
  BY InitPInv
<1>2. PInv /\ [Next]_vars => PInv'
  BY NextPInv
<1>3. PInv => AtRestPushed
  <2> SUFFICES ASSUME PInv, AtRest, ~unread, ~unpushed, ~overtaken
               PROVE  config = saved /\ registry = saved
    BY DEF AtRestPushed
  <2>1. ~Coming /\ \A t \in Tasks : ~At(t, "failed")
    BY DEF AtRest, Coming, At, Tasks
  <2>2. NewestIs(config) => registry = config
    <3>1. Len(wire) = 0 /\ ~(passed < Len(wire))
      BY DEF AtRest, PInv, CInv, Ordered
    <3> QED
      BY <3>1 DEF NewestIs
  <2> QED
    BY <2>1, <2>2 DEF PInv, ConfigIsRead, ConfigIsPushed
<1> QED
  BY <1>1, <1>2, <1>3, PTL DEF Spec
=============================================================================
