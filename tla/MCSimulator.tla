---------------------------- MODULE MCSimulator -----------------------------
(* Small instances of Simulator for TLC. *)
EXTENDS Simulator, TLC

Ids == 1..2
One == {1}
Requests == {"start", "stop", "unplug", "clear-fault", "SuspendedEV", "Faulted"}
Powers2 == {3700, 7396}
Scenarios == {"several", "connectionDrop"}
Symmetry == Permutations(Hardware)

\* A connector that is not there, all that can be asked for, and the defaults with
\* a session cost that has a price only.
Default == [connector |-> <<>>, tiles |-> <<>>, chart |-> <<>>, price |-> FALSE, priced |-> FALSE,
            details |-> <<>>, controls |-> <<>>]
Full == [Default EXCEPT !.connector = <<1>>, !.tiles = <<Tiles>>, !.price = TRUE, !.priced = TRUE,
                        !.details = <<TRUE>>, !.controls = <<TRUE>>]
Vendors == {[supported |-> TRUE, lock |-> None], [supported |-> TRUE, lock |-> "locked"]}
Asked == {[Default EXCEPT !.connector = <<2>>], [Full EXCEPT !.chart = <<"power">>],
          [Default EXCEPT !.price = TRUE]}
=============================================================================
