------------------------------- MODULE Mirror -------------------------------
(***************************************************************************)
(* What index.js promises about one charge point, whatever way its states  *)
(* take (event, poll, retried call): Gladys shows nothing the charge point *)
(* has not been in, and shows its last state once it keeps quiet.  Between *)
(* the two it may show older states, in any order.                         *)
(***************************************************************************)
EXTENDS Naturals

VARIABLES
    source,   \* the number of the charge point's last state
    copy,     \* the number of the state that Gladys shows; 0 for none
    off       \* nobody has to follow: shut down, or nothing to show

mvars == <<source, copy, off>>

Init == source = 0 /\ copy = 0 /\ off \in BOOLEAN

Change == /\ source' = source + 1
          /\ off' \in BOOLEAN
          /\ UNCHANGED copy

Show == /\ copy' \in 1..source
        /\ UNCHANGED <<source, off>>

Switch == /\ off' \in BOOLEAN
          /\ UNCHANGED <<source, copy>>

Next == Change \/ Show \/ Switch

Live == <>[](off \/ copy = source)

Spec == Init /\ [][Next]_mvars /\ Live
=============================================================================
