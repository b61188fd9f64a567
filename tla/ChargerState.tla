---------------------------- MODULE ChargerState ----------------------------
(***************************************************************************)
(* What the gateway keeps of one charge point (gateway/src/state.ts) and   *)
(* how a message changes it (gateway/src/observe.ts).  A message is        *)
(* observed once its answer is known: NoAnswer stands for a call to the    *)
(* origin cloud that failed or timed out.                                  *)
(*                                                                         *)
(* Of a connector the model keeps whether it was ever seen and the         *)
(* transaction it shows; its status and measurements, which every message  *)
(* overwrites, are left out, and so is what BootNotification tells of the  *)
(* model and firmware.  Of a transaction record it keeps the connector     *)
(* and, as a ghost, who issued its id.                                     *)
(***************************************************************************)
EXTENDS Naturals, Sequences

CONSTANTS
    Connectors,    \* connector ids
    TxIds,         \* transaction ids
    HistoryLimit   \* HISTORY_LIMIT

ASSUME ChargerStateAssumption ==
    /\ TxIds \subseteq Nat \ {0}
    /\ HistoryLimit \in Nat

NoTx == 0
NoRecord == [connector |-> 0, by |-> "nobody"]
NoAnswer == [tx |-> NoTx, by |-> "nobody"]

Issuers == {"cloud", "local"}
Record == [connector : Connectors, by : Issuers]
ClosedRecord == [tx : TxIds, connector : Connectors, by : Issuers]

Request == [method : {"StatusNotification", "StartTransaction", "StopTransaction"},
            connector : Connectors,
            tx : TxIds \cup {NoTx}]

Answer == [tx : TxIds \cup {NoTx}, by : Issuers \cup {"nobody"}]

ChargerStates ==
    [connectors : SUBSET Connectors,
     shown : [Connectors -> TxIds \cup {NoTx}],
     transactions : [TxIds -> Record \cup {NoRecord}],
     history : {h \in Seq(ClosedRecord) : Len(h) <= HistoryLimit}]

\* new ChargerState(identity)
EmptyCharger ==
    [connectors |-> {},
     shown |-> [k \in Connectors |-> NoTx],
     transactions |-> [t \in TxIds |-> NoRecord],
     history |-> <<>>]

\* patchConnector() with a transactionId.
ShowTransaction(s, k, tx) ==
    [s EXCEPT !.connectors = @ \cup {k}, !.shown[k] = tx]

StartTransaction(s, k, tx, by) ==
    ShowTransaction([s EXCEPT !.transactions[tx] = [connector |-> k, by |-> by]], k, tx)

\* The newest first, at most HistoryLimit of them.
Archive(closed, history) ==
    LET all == <<closed>> \o history
    IN SubSeq(all, 1, IF Len(all) < HistoryLimit THEN Len(all) ELSE HistoryLimit)

\* Mutant: forgets to clear the connector.
StopTransactionKeepsShown(s, tx) ==
    IF tx \notin TxIds \/ s.transactions[tx] = NoRecord THEN s
    ELSE [s EXCEPT !.transactions[tx] = NoRecord]

\* Mutant: archives the record and leaves it in progress.
StopTransactionKeepsRecord(s, tx) ==
    IF tx \notin TxIds \/ s.transactions[tx] = NoRecord THEN s
    ELSE LET record == s.transactions[tx]
         IN ShowTransaction([s EXCEPT
                !.history = Archive([tx |-> tx, connector |-> record.connector, by |-> record.by], @)],
                record.connector, NoTx)

\* A transaction that is not in progress leaves everything as it is.
StopTransaction(s, tx) ==
    IF tx \notin TxIds \/ s.transactions[tx] = NoRecord THEN s
    ELSE LET record == s.transactions[tx]
         IN ShowTransaction([s EXCEPT
                !.transactions[tx] = NoRecord,
                !.history = Archive([tx |-> tx, connector |-> record.connector, by |-> record.by], @)], record.connector, NoTx)

\* observe()
Observe(s, request, answer) ==
    CASE request.method = "StatusNotification" ->
           [s EXCEPT !.connectors = @ \cup {request.connector}]
      [] request.method = "StartTransaction" ->
           IF answer = NoAnswer THEN s
           ELSE StartTransaction(s, request.connector, answer.tx, answer.by)
      [] request.method = "StopTransaction" -> StopTransaction(s, request.tx)

=============================================================================
