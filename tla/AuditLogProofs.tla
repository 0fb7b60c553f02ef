---------------------------- MODULE AuditLogProofs --------------------------
(***************************************************************************)
(* What the table of the log gets, for any size of a batch and any number  *)
(* of entries: rows in the order of the calls and none twice, whatever the *)
(* database refuses; and, while it takes everything, all entries but one   *)
(* of each insert at most.                                                 *)
(***************************************************************************)
EXTENDS AuditLog, FiniteSetTheorems, SequenceTheorems, TLAPS

Typed ==
  /\ logged \in Nat
  /\ doing \in {"select", "prepare", "exec"}
  /\ loggerList \in Seq(Nat)
  /\ table \in Seq(Nat)
  /\ refusals \in Nat /\ failures \in Nat /\ inserts \in Nat

(* The list holds the calls that returned last, the table older ones. *)
Before == logged - Len(loggerList)

ListIsLast ==
  /\ Before >= 0
  /\ \A k \in 1 .. Len(loggerList) : loggerList[k] = Before + k

TableIsOlder ==
  /\ \A i \in 1 .. Len(table) : 1 <= table[i] /\ table[i] <= Before
  /\ \A i, j \in 1 .. Len(table) : i < j => table[i] < table[j]

(* A list that outgrows a batch is inserted at once. *)
OneTooManyAtMost ==
  refusals = 0 =>
    Len(loggerList) <= (IF doing = "select" THEN Batch ELSE Batch + 1)

LogInv ==
  Typed /\ ListIsLast /\ TableIsOlder /\ OneTooManyAtMost /\ OneLossPerInsert

-----------------------------------------------------------------------------
LEMMA LogInvInit == Init => LogInv
<1> SUFFICES ASSUME Init PROVE LogInv
  OBVIOUS
<1>1. Typed /\ ListIsLast /\ TableIsOlder /\ OneTooManyAtMost
  BY AuditLogAssumption
  DEF Init, Typed, Before, ListIsLast, TableIsOlder, OneTooManyAtMost
<1>2. Lost = {}
  BY DEF Init, Lost
<1>3. OneLossPerInsert
  BY <1>2, FS_EmptySet DEF Init, OneLossPerInsert
<1> QED
  BY <1>1, <1>3 DEF LogInv

(* What is lost stays lost, and no more, while list and table keep what    *)
(* they have.                                                              *)
LEMMA SameLost ==
  ASSUME OneLossPerInsert, Lost' = Lost,
         refusals \in Nat /\ refusals' \in Nat, refusals <= refusals',
         UNCHANGED <<failures, inserts>>
  PROVE  OneLossPerInsert'
BY DEF OneLossPerInsert

LEMMA TakeStep ==
  ASSUME LogInv, Take
  PROVE  LogInv'
<1>t. /\ Typed /\ ListIsLast /\ TableIsOlder
      /\ Batch \in Nat \ {0}
      /\ doing = "select"
      /\ loggerList' = Append(loggerList, logged + 1)
      /\ logged' = logged + 1
      /\ UNCHANGED <<due, table, refusals, failures, inserts>>
      /\ doing' = IF Sends(loggerList') /\ loggerList' # <<>> THEN "prepare"
                  ELSE "select"
  BY AuditLogAssumption DEF LogInv, Take, GoOn, database
<1>1. /\ loggerList' \in Seq(Nat) /\ Len(loggerList') = Len(loggerList) + 1
      /\ loggerList'[Len(loggerList) + 1] = logged + 1
      /\ \A k \in 1 .. Len(loggerList) : loggerList'[k] = loggerList[k]
      /\ Len(loggerList) \in Nat
  BY <1>t DEF Typed
<1>2. Typed'
  BY <1>t, <1>1 DEF Typed
<1>3. Before' = Before /\ Before \in Nat
  BY <1>t, <1>1 DEF Before, Typed, ListIsLast
<1>4. ListIsLast'
  <2> SUFFICES ASSUME NEW k \in 1 .. Len(loggerList')
               PROVE  loggerList'[k] = Before' + k
    BY <1>3 DEF ListIsLast
  <2>1. CASE k \in 1 .. Len(loggerList)
    BY <1>t, <1>1, <1>3, <2>1 DEF ListIsLast
  <2>2. CASE k = Len(loggerList) + 1
    BY <1>t, <1>1, <1>3, <2>2 DEF Before, Typed
  <2> QED
    BY <1>1, <2>1, <2>2
<1>5. TableIsOlder'
  BY <1>t, <1>3 DEF TableIsOlder
<1>6. OneTooManyAtMost'
  <2>1. refusals = 0 => Len(loggerList) <= Batch
    BY <1>t DEF LogInv, OneTooManyAtMost
  <2>2. refusals = 0 => Len(loggerList') <= Batch + 1
    BY <1>t, <1>1, <2>1
  <2>3. loggerList' # <<>>
    BY <1>1
  <2>4. Len(loggerList') > Batch => doing' = "prepare"
    BY <1>t, <2>3 DEF Sends
  <2> QED
    BY <1>t, <1>1, <2>2, <2>4 DEF OneTooManyAtMost
<1>7. Lost' = Lost
  <2>1. ToSet(loggerList') = ToSet(loggerList) \cup {logged + 1}
    <3>1. DOMAIN loggerList = 1 .. Len(loggerList)
          /\ DOMAIN loggerList' = 1 .. Len(loggerList')
      BY <1>t, <1>1 DEF Typed
    <3> QED
      BY <1>1, <3>1 DEF ToSet
  <2>2. logged + 1 \notin 1 .. logged /\ 1 .. logged + 1 = (1 .. logged) \cup {logged + 1}
    BY <1>t DEF Typed
  <2> QED
    BY <1>t, <2>1, <2>2 DEF Lost
<1> QED
  BY <1>t, <1>2, <1>4, <1>5, <1>6, <1>7, SameLost DEF LogInv, Typed

(* Steps of StartLogger that leave list and table alone. *)
LEMMA ListKeptStep ==
  ASSUME LogInv,
         UNCHANGED <<logged, loggerList, table, failures, inserts>>,
         \/ UNCHANGED <<doing, refusals>>
         \/ Timeout \/ PrepareFails \/ Prepare
  PROVE  LogInv'
<1>t. /\ Typed /\ Len(loggerList) \in Nat /\ Batch \in Nat
  BY AuditLogAssumption DEF LogInv, Typed
<1>1. doing' \in {"select", "prepare", "exec"} /\ refusals' \in Nat
      /\ refusals <= refusals'
  BY <1>t DEF Typed, Timeout, GoOn, PrepareFails, Prepare, database
<1>2. Typed'
  BY <1>t, <1>1 DEF Typed
<1>3. ListIsLast' /\ TableIsOlder'
  BY DEF LogInv, ListIsLast, TableIsOlder, Before
<1>4. OneTooManyAtMost'
  <2>1. CASE UNCHANGED <<doing, refusals>>
    BY <2>1 DEF LogInv, OneTooManyAtMost
  <2>2. CASE Timeout
    BY <1>t, <2>2 DEF LogInv, OneTooManyAtMost, Timeout, GoOn, database
  <2>3. CASE PrepareFails
    BY <1>t, <2>3 DEF OneTooManyAtMost, PrepareFails, Typed
  <2>4. CASE Prepare
    BY <1>t, <2>4 DEF LogInv, OneTooManyAtMost, Prepare, database
  <2> QED
    BY <2>1, <2>2, <2>3, <2>4
<1>5. Lost' = Lost
  BY DEF Lost
<1> QED
  BY <1>t, <1>1, <1>2, <1>3, <1>4, <1>5, SameLost DEF LogInv, Typed

(* An insert that the database executes. *)
LEMMA InsertedRows ==
  ASSUME LogInv, table' = table \o BatchOf(loggerList)
  PROVE  /\ table' \in Seq(Nat)
         /\ \A i \in 1 .. Len(table') : 1 <= table'[i] /\ table'[i] <= logged
         /\ \A i, j \in 1 .. Len(table') : i < j => table'[i] < table'[j]
         /\ \A k \in 1 .. Len(loggerList) :
              k <= Batch => loggerList[k] \in ToSet(table')
         /\ ToSet(table) \subseteq ToSet(table')
<1> DEFINE n    == Len(loggerList)
           m    == IF n < Batch THEN n ELSE Batch
           rows == BatchOf(loggerList)
<1>t. /\ Batch \in Nat \ {0}
      /\ loggerList \in Seq(Nat) /\ table \in Seq(Nat)
      /\ logged \in Nat /\ n \in Nat /\ Len(table) \in Nat /\ m \in 0 .. n
      /\ Before = logged - n /\ Before >= 0
      /\ \A k \in 1 .. n : loggerList[k] = Before + k
      /\ \A i \in 1 .. Len(table) : 1 <= table[i] /\ table[i] <= Before
      /\ \A i, j \in 1 .. Len(table) : i < j => table[i] < table[j]
  BY AuditLogAssumption
  DEF LogInv, Typed, ListIsLast, TableIsOlder, Before
<1>1. rows \in Seq(Nat) /\ Len(rows) = m /\ \A k \in 1 .. m : rows[k] = Before + k
  <2>1. rows = SubSeq(loggerList, 1, m)
    BY DEF BatchOf
  <2> HIDE DEF m, n, rows
  <2>2. rows \in Seq(Nat) /\ Len(rows) = m /\ \A k \in 1 .. m : rows[k] = loggerList[k]
    BY <1>t, <2>1 DEF n
  <2> QED
    BY <1>t, <2>2
<1> HIDE DEF rows, m, n
<1>2. /\ table' \in Seq(Nat)
      /\ Len(table') = Len(table) + m
      /\ \A i \in 1 .. Len(table) : table'[i] = table[i]
      /\ \A k \in 1 .. m : table'[Len(table) + k] = Before + k
  <2>1. table' = table \o rows
    BY DEF rows
  <2>2. table' \in Seq(Nat) /\ Len(table') = Len(table) + m
    <3>1. table \in Seq(Nat) /\ rows \in Seq(Nat) /\ Len(rows) = m
      BY <1>t, <1>1
    <3>2. /\ table \o rows \in Seq(Nat)
          /\ Len(table \o rows) = Len(table) + Len(rows)
      BY <3>1, ConcatProperties
    <3> QED
      BY <2>1, <3>1, <3>2
  <2>3. \A i \in 1 .. Len(table) : table'[i] = table[i]
    BY <1>t, <1>1, <2>1
  <2>4. ASSUME NEW k \in 1 .. m PROVE table'[Len(table) + k] = rows[k]
    BY <1>t, <1>1, <2>1
  <2> QED
    BY <1>1, <2>2, <2>3, <2>4
<1>3. \A i \in 1 .. Len(table') : i > Len(table) =>
        /\ i - Len(table) \in 1 .. m
        /\ table'[i] = Before + (i - Len(table))
  BY <1>t, <1>2
<1>4. \A i \in 1 .. Len(table') : 1 <= table'[i] /\ table'[i] <= logged
  BY <1>t, <1>2, <1>3
<1>5. \A i, j \in 1 .. Len(table') : i < j => table'[i] < table'[j]
  <2> SUFFICES ASSUME NEW i \in 1 .. Len(table'), NEW j \in 1 .. Len(table'), i < j
               PROVE  table'[i] < table'[j]
    OBVIOUS
  <2>1. CASE j <= Len(table)
    BY <1>t, <1>2, <2>1
  <2>2. CASE i <= Len(table) /\ j > Len(table)
    BY <1>t, <1>2, <1>3, <2>2
  <2>3. CASE i > Len(table)
    BY <1>t, <1>2, <1>3, <2>3
  <2> QED
    BY <1>t, <1>2, <2>1, <2>2, <2>3
<1>6. DOMAIN table = 1 .. Len(table) /\ DOMAIN table' = 1 .. Len(table')
  BY <1>t, <1>2
<1>7. ASSUME NEW k \in 1 .. n, k <= Batch PROVE loggerList[k] \in ToSet(table')
  <2>1. k \in 1 .. m
    BY <1>t, <1>7 DEF m
  <2>2. Len(table) + k \in DOMAIN table' /\ table'[Len(table) + k] = loggerList[k]
    BY <1>t, <1>2, <1>6, <2>1
  <2> QED
    BY <2>2 DEF ToSet
<1>8. ToSet(table) \subseteq ToSet(table')
  BY <1>t, <1>2, <1>6 DEF ToSet
<1> QED
  BY <1>2, <1>4, <1>5, <1>7, <1>8 DEF n

LEMMA ExecStep ==
  ASSUME LogInv, Exec
  PROVE  LogInv'
<1>t. /\ Typed /\ ListIsLast /\ TableIsOlder
      /\ Batch \in Nat \ {0}
      /\ Len(loggerList) \in Nat
      /\ doing = "exec" /\ doing' = "select"
      /\ loggerList' = <<>>
      /\ UNCHANGED <<logged, refusals>>
      /\ \/ /\ table' = table \o BatchOf(loggerList)
            /\ inserts' = inserts + 1
            /\ UNCHANGED failures
         \/ /\ failures' = failures + 1
            /\ UNCHANGED <<table, inserts>>
  BY AuditLogAssumption DEF LogInv, Typed, Exec, RestOf
<1>1. Typed'
  BY <1>t, InsertedRows DEF Typed
<1>2. Before' = logged /\ Before <= logged /\ Len(loggerList') = 0
  BY <1>t DEF Typed, Before
<1>3. ListIsLast'
  BY <1>t, <1>2 DEF Typed, ListIsLast
<1>4. TableIsOlder'
  <2>1. CASE table' = table \o BatchOf(loggerList)
    BY <1>2, <2>1, InsertedRows DEF TableIsOlder
  <2>2. CASE UNCHANGED table
    <3>1. \A i \in 1 .. Len(table) : table[i] \in Nat
      BY <1>t DEF Typed
    <3> QED
      BY <1>t, <1>2, <2>2, <3>1 DEF TableIsOlder, Typed, Before
  <2> QED
    BY <1>t, <2>1, <2>2
<1>5. OneTooManyAtMost'
  BY <1>t, <1>2 DEF OneTooManyAtMost
<1>6. OneLossPerInsert'
  <2>1. CASE failures' = failures + 1
    BY <1>t, <2>1 DEF OneLossPerInsert, Typed
  <2>2. CASE /\ table' = table \o BatchOf(loggerList)
             /\ inserts' = inserts + 1
             /\ UNCHANGED failures
    <3> SUFFICES ASSUME refusals = 0, failures = 0
                 PROVE  Cardinality(Lost') <= inserts + 1
      BY <1>t, <2>2 DEF OneLossPerInsert
    <3>1. Cardinality(Lost) <= inserts
      BY DEF LogInv, OneLossPerInsert
    <3>2. Len(loggerList) <= Batch + 1
      BY <1>t DEF LogInv, OneTooManyAtMost
    <3>3. \A k \in 1 .. Len(loggerList) :
            loggerList[k] \in ToSet(table') \/ loggerList[k] = logged
      <4> SUFFICES ASSUME NEW k \in 1 .. Len(loggerList), ~ (k <= Batch)
                   PROVE  loggerList[k] = logged
        BY <2>2, InsertedRows
      <4>1. k = Len(loggerList)
        BY <1>t, <3>2
      <4> QED
        BY <1>t, <4>1 DEF ListIsLast, Before, Typed
    <3>4. ToSet(loggerList) \subseteq ToSet(table') \cup {logged}
      <4>1. DOMAIN loggerList = 1 .. Len(loggerList)
        BY <1>t DEF Typed
      <4> QED
        BY <3>3, <4>1 DEF ToSet
    <3>5. Lost' \subseteq Lost \cup {logged}
      BY <1>t, <2>2, <3>4, InsertedRows DEF Lost
    <3>6. IsFiniteSet(Lost)
      <4>1. IsFiniteSet(1 .. logged)
        BY <1>t, FS_Interval DEF Typed
      <4> QED
        BY <4>1, FS_Subset DEF Lost
    <3>7. /\ IsFiniteSet(Lost \cup {logged})
          /\ Cardinality(Lost \cup {logged}) <= Cardinality(Lost) + 1
          /\ Cardinality(Lost) \in Nat
      BY <3>6, FS_AddElement, FS_CardinalityType
    <3>8. /\ Cardinality(Lost') <= Cardinality(Lost \cup {logged})
          /\ Cardinality(Lost') \in Nat /\ Cardinality(Lost \cup {logged}) \in Nat
      BY <3>5, <3>7, FS_Subset, FS_CardinalityType
    <3> QED
      BY <1>t, <3>1, <3>7, <3>8 DEF Typed
  <2> QED
    BY <1>t, <2>1, <2>2
<1> QED
  BY <1>1, <1>3, <1>4, <1>5, <1>6 DEF LogInv

LEMMA LogInvNext == LogInv /\ [Next]_vars => LogInv'
<1> SUFFICES ASSUME LogInv, [Next]_vars PROVE LogInv'
  OBVIOUS
<1>1. CASE LOG \/ TenSecondsPass \/ UNCHANGED vars
  BY <1>1, ListKeptStep DEF LOG, TenSecondsPass, vars, database
<1>2. CASE Take
  BY <1>2, TakeStep
<1>3. CASE Timeout \/ PrepareFails \/ Prepare
  BY <1>3, ListKeptStep DEF Timeout, PrepareFails, Prepare, GoOn, database
<1>4. CASE Exec
  BY <1>4, ExecStep
<1> QED
  BY <1>1, <1>2, <1>3, <1>4 DEF Next, Round

LEMMA LogInvAlways == Spec => []LogInv
BY LogInvInit, LogInvNext, PTL DEF Spec

(* No entry has two rows, and rows are in the order of the calls. *)
THEOREM NoRowTwice == Spec => []RowsInOrder
<1>1. LogInv => RowsInOrder
  <2> SUFFICES ASSUME LogInv PROVE RowsInOrder
    OBVIOUS
  <2>1. DOMAIN table = 1 .. Len(table)
    BY DEF LogInv, Typed
  <2> QED
    BY <2>1 DEF LogInv, TableIsOlder, RowsInOrder
<1> QED
  BY <1>1, LogInvAlways, PTL

(* While the database takes every statement, each insert loses one entry   *)
(* at most.                                                                *)
THEOREM FewEntriesLost == Spec => []OneLossPerInsert
<1>1. LogInv => OneLossPerInsert
  BY DEF LogInv
<1> QED
  BY <1>1, LogInvAlways, PTL
=============================================================================
