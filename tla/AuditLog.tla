------------------------------ MODULE AuditLog ------------------------------
(***************************************************************************)
(* The log every server and client keeps in a MySQL table:                 *)
(* server/src/Logger.go.                                                   *)
(*                                                                         *)
(* LOG waits until the goroutine StartLogger takes the entry from an       *)
(* unbuffered channel.  In every round StartLogger takes one entry, or     *)
(* none for a second, and when the last insert is more than ten seconds    *)
(* ago or its list is longer than a batch, it inserts a batch; while the   *)
(* database is at that, nobody takes entries, and callers wait.  The       *)
(* database may refuse to prepare the statement, which leaves the list as  *)
(* it is, or to execute it, which nobody looks at.                         *)
(***************************************************************************)
EXTENDS Naturals, Sequences, SequencesExt, FiniteSets

CONSTANTS
  Batch,       \* rows of one insert, 5000 in the code
  MaxEntries   \* bound: calls of LOG

ASSUME AuditLogAssumption == Batch \in Nat \ {0} /\ MaxEntries \in Nat

VARIABLES
  called,      \* calls of LOG; entries are numbered in their order
  logged,      \* calls that returned, the oldest first
  doing,       \* StartLogger: "select", "prepare", "exec"
  loggerList,
  due,         \* more than ten seconds since lastSent
  table,       \* the rows of the database
  refusals,    \* prepares that failed, up to MaxRefusals
  failures,    \* inserts that failed
  inserts      \* inserts that did not

database == <<table, refusals, failures, inserts>>
vars == <<called, logged, doing, loggerList, due, database>>

MaxRefusals == 2

Entry == 1 .. MaxEntries

Init ==
  /\ called = 0
  /\ logged = 0
  /\ doing = "select"
  /\ loggerList = <<>>
  /\ due = FALSE
  /\ table = <<>>
  /\ refusals = 0
  /\ failures = 0
  /\ inserts = 0

-----------------------------------------------------------------------------
(* What of a list goes into an insert, and what stays.  `cpyAmount' is at  *)
(* most the batch, so that the test for a rest never succeeds.             *)
BatchOfOneLess(list) ==
  SubSeq(list, 1, IF Len(list) < Batch THEN Len(list) - 1 ELSE Batch - 1)

BatchOf(list) == SubSeq(list, 1, IF Len(list) < Batch THEN Len(list) ELSE Batch)

RestIsAll(list) == list
RestOf(list) == <<>>

SendsWhenFull(list) == Len(list) > Batch
Sends(list) == due \/ Len(list) > Batch

(* The caller waits at the channel, others behind it. *)
LOG ==
  /\ called < MaxEntries
  /\ called' = called + 1
  /\ UNCHANGED <<logged, doing, loggerList, due, database>>

(* What StartLogger does once `select' has returned; there is nothing to   *)
(* insert of an empty list.                                                *)
GoOn(list) ==
  /\ loggerList' = list
  /\ doing' = IF Sends(list) /\ list # <<>> THEN "prepare" ELSE "select"
  /\ UNCHANGED <<called, due, database>>

Take ==
  /\ doing = "select"
  /\ logged < called
  /\ logged' = logged + 1
  /\ GoOn(Append(loggerList, logged'))

(* A caller that waits already comes first. *)
Timeout ==
  /\ doing = "select"
  /\ logged = called
  /\ GoOn(loggerList)
  /\ UNCHANGED logged

PrepareFailsForGood ==
  /\ doing = "prepare"
  /\ refusals < MaxRefusals
  /\ refusals' = refusals + 1
  /\ doing' = "ended"
  /\ UNCHANGED <<called, logged, loggerList, due, table, failures, inserts>>

PrepareFails ==
  /\ doing = "prepare"
  /\ refusals < MaxRefusals
  /\ refusals' = refusals + 1
  /\ doing' = "select"
  /\ UNCHANGED <<called, logged, loggerList, due, table, failures, inserts>>

Prepare ==
  /\ doing = "prepare"
  /\ doing' = "exec"
  /\ UNCHANGED <<called, logged, loggerList, due, database>>

Exec ==
  /\ doing = "exec"
  /\ \/ /\ table' = table \o BatchOf(loggerList)
        /\ inserts' = inserts + 1
        /\ UNCHANGED failures
     \/ /\ failures' = failures + 1
        /\ UNCHANGED <<table, inserts>>
  /\ loggerList' = RestOf(loggerList)
  /\ due' = FALSE
  /\ doing' = "select"
  /\ UNCHANGED <<called, logged, refusals>>

TenSecondsPass ==
  /\ ~ due
  /\ due' = TRUE
  /\ UNCHANGED <<called, logged, doing, loggerList, database>>

Round == Take \/ Timeout \/ PrepareFails \/ Prepare \/ Exec

Next == LOG \/ Round \/ TenSecondsPass

Spec == Init /\ [][Next]_vars

(* StartLogger runs, time passes, and the database answers in the end,     *)
(* with an error if need be.                                               *)
LiveSpec == Spec /\ WF_vars(Round) /\ WF_vars(TenSecondsPass)

-----------------------------------------------------------------------------
(* No entry has two rows, and rows are in the order of the calls, also     *)
(* after refused statements.                                               *)
RowsInOrder ==
  \A i, j \in DOMAIN table : i < j => table[i] < table[j]

Lost == (1 .. logged) \ (ToSet(table) \cup ToSet(loggerList))

(* While the database takes every statement, an insert loses one entry at  *)
(* most: the one that made the list longer than a batch.                   *)
OneLossPerInsert ==
  refusals = 0 /\ failures = 0 => Cardinality(Lost) <= inserts

(* A caller, the client before it posts a vote among them, waits for the   *)
(* database, but not for ever.                                             *)
CallersReturn == \A e \in Entry : called >= e ~> logged >= e

(* Also the last entries, for which no batch fills up, leave the list.     *)
NothingStays ==
  \A e \in Entry : e \in ToSet(loggerList) ~> e \notin ToSet(loggerList)
=============================================================================
