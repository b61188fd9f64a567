---------------------------- MODULE LatestValue ----------------------------
(***************************************************************************)
(* What src/stateSync.js promises its callers, without its queue, budget,  *)
(* timers or retries: a channel that coalesces by feature.  A reading that *)
(* is superseded may be dropped, a reading that reaches Gladys is never    *)
(* followed by an older one, and the last reading of each feature gets     *)
(* there unless the channel is closed first.                               *)
(*                                                                         *)
(* Readings are numbered per feature in the order they are handed over;    *)
(* number 0 stands for "no reading yet".                                   *)
(***************************************************************************)
EXTENDS Naturals

CONSTANTS
    Features,    \* the feature external ids
    MaxReading   \* bound on the readings of one feature

VARIABLES
    latest,      \* [Features -> reading last handed to the channel]
    published,   \* [Features -> reading Gladys holds]
    stopped      \* the channel is closed

avars == <<latest, published, stopped>>

Init ==
    /\ latest = [f \in Features |-> 0]
    /\ published = [f \in Features |-> 0]
    /\ stopped = FALSE

\* Some features get a newer reading.
Produce ==
    /\ ~stopped
    /\ \E S \in SUBSET Features :
         latest' = [f \in Features |-> IF f \in S /\ latest[f] < MaxReading
                                       THEN latest[f] + 1 ELSE latest[f]]
    /\ UNCHANGED <<published, stopped>>

\* Some features reach Gladys, each with a reading at least as recent as the
\* one Gladys holds; readings in between are skipped.
Deliver ==
    /\ \E S \in SUBSET Features :
         \E r \in [S -> 1..MaxReading] :
           /\ \A f \in S : r[f] \in published[f]..latest[f]
           /\ published' = [f \in Features |-> IF f \in S THEN r[f] ELSE published[f]]
    /\ UNCHANGED <<latest, stopped>>

Close ==
    /\ ~stopped
    /\ stopped' = TRUE
    /\ UNCHANGED <<latest, published>>

Next == Produce \/ Deliver \/ Close

\* The last reading of a feature arrives, or the channel is closed.
Live == \A f \in Features :
          \A r \in 1..MaxReading :
            (latest[f] = r) ~> (published[f] >= r \/ stopped)

Spec == Init /\ [][Next]_avars /\ Live
=============================================================================
