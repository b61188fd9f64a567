------------------------- MODULE ChargerStateProofs --------------------------
(***************************************************************************)
(* What the operations of a charge point's state change, for every set of  *)
(* connectors and transactions and any HISTORY_LIMIT: the lemmas that the  *)
(* proofs about the gateway and about a charge session share.              *)
(***************************************************************************)
EXTENDS ChargerState, WellFoundedInduction, TLAPS

LEMMA StateFields ==
    ASSUME NEW s \in ChargerStates
    PROVE  /\ s.connectors \subseteq Connectors
           /\ s.shown \in [Connectors -> TxIds \cup {NoTx}]
           /\ s.transactions \in [TxIds -> Record \cup {NoRecord}]
           /\ s.history \in Seq(ClosedRecord) /\ Len(s.history) <= HistoryLimit
           /\ s.history \in {h \in Seq(ClosedRecord) : Len(h) <= HistoryLimit}
BY DEF ChargerStates

LEMMA TxIdsAreIds == NoTx \notin TxIds
BY ChargerStateAssumption DEF ChargerStateAssumption, NoTx

\* new ChargerState() has no transaction.
LEMMA EmptyIsState == EmptyCharger \in ChargerStates
<1>1. <<>> \in {h \in Seq(ClosedRecord) : Len(h) <= HistoryLimit}
  BY ChargerStateAssumption DEF ChargerStateAssumption
<1> QED
  BY <1>1 DEF EmptyCharger, ChargerStates

\* A connector that is seen.
LEMMA SeenChanges ==
    ASSUME NEW s \in ChargerStates, NEW c \in Connectors
    PROVE  LET x == [s EXCEPT !.connectors = @ \cup {c}]
           IN /\ x \in ChargerStates
              /\ x.connectors = s.connectors \cup {c}
              /\ x.shown = s.shown /\ x.transactions = s.transactions /\ x.history = s.history
BY DEF ChargerStates

\* A transaction that starts.
LEMMA StartChanges ==
    ASSUME NEW s \in ChargerStates, NEW c \in Connectors, NEW tx \in TxIds, NEW by \in Issuers
    PROVE  LET x == StartTransaction(s, c, tx, by)
           IN /\ x \in ChargerStates
              /\ x.connectors = s.connectors \cup {c} /\ x.history = s.history
              /\ x.shown = [s.shown EXCEPT ![c] = tx]
              /\ x.transactions = [s.transactions EXCEPT ![tx] = [connector |-> c, by |-> by]]
<1> DEFINE x == StartTransaction(s, c, tx, by)
           rec == [connector |-> c, by |-> by]
           y == [s EXCEPT !.transactions[tx] = rec]
<1>1. y = [connectors |-> s.connectors, shown |-> s.shown,
           transactions |-> [s.transactions EXCEPT ![tx] = rec], history |-> s.history]
  BY DEF ChargerStates
<1>2. x = ShowTransaction(y, c, tx)
  BY DEF StartTransaction
<1>3. rec \in Record
  BY DEF Record
<1> HIDE DEF x, y, rec
<1>4. x = [connectors |-> s.connectors \cup {c}, shown |-> [s.shown EXCEPT ![c] = tx],
           transactions |-> [s.transactions EXCEPT ![tx] = rec], history |-> s.history]
  BY <1>1, <1>2 DEF ShowTransaction
<1>5. [s.shown EXCEPT ![c] = tx] \in [Connectors -> TxIds \cup {NoTx}]
  BY StateFields
<1>6. [s.transactions EXCEPT ![tx] = rec] \in [TxIds -> Record \cup {NoRecord}]
  BY <1>3, StateFields
<1>7. /\ s.connectors \cup {c} \subseteq Connectors
      /\ s.history \in {h \in Seq(ClosedRecord) : Len(h) <= HistoryLimit}
  BY StateFields
<1>8. x \in ChargerStates
  BY <1>4, <1>5, <1>6, <1>7 DEF ChargerStates
<1>9. /\ x.connectors = s.connectors \cup {c} /\ x.history = s.history
      /\ x.shown = [s.shown EXCEPT ![c] = tx]
      /\ x.transactions = [s.transactions EXCEPT ![tx] = rec]
  BY <1>4
<1> QED
  BY <1>8, <1>9 DEF x, rec

\* The history keeps the newest record first, and no more than it may.
LEMMA ArchivedFirst ==
    ASSUME NEW h \in Seq(ClosedRecord), Len(h) <= HistoryLimit, NEW r \in ClosedRecord
    PROVE  /\ Archive(r, h) \in Seq(ClosedRecord) /\ Len(Archive(r, h)) <= HistoryLimit
           /\ \A i \in DOMAIN Archive(r, h) :
                IF i = 1 THEN Archive(r, h)[i] = r ELSE i - 1 \in DOMAIN h /\ Archive(r, h)[i] = h[i - 1]
<1> DEFINE all == <<r>> \o h
           n == IF Len(all) < HistoryLimit THEN Len(all) ELSE HistoryLimit
<1>1. HistoryLimit \in Nat
  BY ChargerStateAssumption DEF ChargerStateAssumption
<1>2. /\ all \in Seq(ClosedRecord) /\ Len(all) = Len(h) + 1 /\ Len(h) \in Nat
      /\ all[1] = r /\ \A i \in 2..(Len(h) + 1) : all[i] = h[i - 1]
  OBVIOUS
<1>3. Archive(r, h) = SubSeq(all, 1, n)
  BY DEF Archive
<1>4. n \in Nat /\ n <= Len(all) /\ n <= HistoryLimit
  BY <1>1, <1>2
<1> HIDE DEF all, n
<1>5. /\ SubSeq(all, 1, n) \in Seq(ClosedRecord) /\ Len(SubSeq(all, 1, n)) = n
      /\ \A i \in 1..n : SubSeq(all, 1, n)[i] = all[i]
  BY <1>2, <1>4
<1>6. ASSUME NEW i \in DOMAIN Archive(r, h)
      PROVE  IF i = 1 THEN Archive(r, h)[i] = r ELSE i - 1 \in DOMAIN h /\ Archive(r, h)[i] = h[i - 1]
  <2>1. i \in 1..n /\ Archive(r, h)[i] = all[i]
    BY <1>3, <1>5
  <2>2. CASE i = 1
    BY <1>2, <2>1, <2>2
  <2>3. CASE i # 1
    <3>1. i \in 2..(Len(h) + 1) /\ i - 1 \in 1..Len(h)
      BY <1>2, <1>4, <2>1, <2>3
    <3> QED
      BY <1>2, <2>1, <2>3, <3>1
  <2> QED
    BY <2>2, <2>3
<1> QED
  BY <1>3, <1>4, <1>5, <1>6

\* The end of a transaction that is in progress.
LEMMA StopChanges ==
    ASSUME NEW s \in ChargerStates, NEW tx \in TxIds, s.transactions[tx] # NoRecord
    PROVE  LET x == StopTransaction(s, tx)
               old == s.transactions[tx]
               closed == [tx |-> tx, connector |-> old.connector, by |-> old.by]
           IN /\ x \in ChargerStates
              /\ old \in Record /\ closed \in ClosedRecord
              /\ x.connectors = s.connectors \cup {old.connector}
              /\ x.shown = [s.shown EXCEPT ![old.connector] = NoTx]
              /\ x.transactions = [s.transactions EXCEPT ![tx] = NoRecord]
              /\ x.history = Archive(closed, s.history)
<1> DEFINE x == StopTransaction(s, tx)
           old == s.transactions[tx]
           closed == [tx |-> tx, connector |-> old.connector, by |-> old.by]
           h == Archive(closed, s.history)
           y == [s EXCEPT !.transactions[tx] = NoRecord, !.history = Archive(closed, @)]
<1>1. old \in Record
  BY StateFields
<1>2. old.connector \in Connectors /\ closed \in ClosedRecord
  BY <1>1 DEF Record, ClosedRecord
<1>3. s = [connectors |-> s.connectors, shown |-> s.shown,
           transactions |-> s.transactions, history |-> s.history]
  BY DEF ChargerStates
<1>4. y = [s EXCEPT !.transactions[tx] = NoRecord, !.history = h]
  BY <1>3
<1>5. x = ShowTransaction(y, old.connector, NoTx)
  BY DEF StopTransaction
<1> HIDE DEF h, y
<1>6. y = [connectors |-> s.connectors, shown |-> s.shown,
           transactions |-> [s.transactions EXCEPT ![tx] = NoRecord], history |-> h]
  BY <1>3, <1>4
<1> HIDE DEF x, old, closed
<1>7. x = [connectors |-> s.connectors \cup {old.connector}, shown |-> [s.shown EXCEPT ![old.connector] = NoTx],
           transactions |-> [s.transactions EXCEPT ![tx] = NoRecord], history |-> h]
  BY <1>5, <1>6 DEF ShowTransaction
<1>8. h \in Seq(ClosedRecord) /\ Len(h) <= HistoryLimit
  BY <1>2, StateFields, ArchivedFirst DEF h
<1>9. [s.shown EXCEPT ![old.connector] = NoTx] \in [Connectors -> TxIds \cup {NoTx}]
  BY StateFields
<1>10. [s.transactions EXCEPT ![tx] = NoRecord] \in [TxIds -> Record \cup {NoRecord}]
  BY StateFields
<1>11. s.connectors \cup {old.connector} \subseteq Connectors /\ h \in {a \in Seq(ClosedRecord) : Len(a) <= HistoryLimit}
  BY <1>2, <1>8, StateFields
<1>12. x \in ChargerStates
  BY <1>7, <1>9, <1>10, <1>11 DEF ChargerStates
<1>13. /\ x.connectors = s.connectors \cup {old.connector}
       /\ x.shown = [s.shown EXCEPT ![old.connector] = NoTx]
       /\ x.transactions = [s.transactions EXCEPT ![tx] = NoRecord]
       /\ x.history = h
  BY <1>7
<1> QED
  BY <1>1, <1>2, <1>12, <1>13 DEF x, old, closed, h

\* A set of natural numbers has a smallest one.
LEMMA Smallest ==
    ASSUME NEW T, T \subseteq Nat, T # {}
    PROVE  \E x \in T : \A y \in T : x <= y
<1> DEFINE R == OpToRel(<, Nat)
<1>1. IsWellFoundedOn(R, Nat)
  BY NatLessThanWellFounded
<1>2. \A y, z \in Nat : y < z => <<y, z>> \in R
  BY DEF OpToRel
<1> HIDE DEF R
<1>3. PICK x \in T : \A y \in T : ~(<<y, x>> \in R)
  BY <1>1, WFMin
<1>4. \A y \in T : ~(y < x)
  BY <1>2, <1>3
<1>5. \A y \in T : x <= y
  BY <1>4
<1> QED
  BY <1>5
=============================================================================
