--------------------------- MODULE ScatterGather ---------------------------
(***************************************************************************)
(* FindAll and CountAll of shardedTableStore: one goroutine per physical   *)
(* table, started by an errgroup with an optional limit, each reading its  *)
(* table page by page behind an id cursor while other callers write.       *)
(*                                                                         *)
(* A table is the set of ids of the rows the query matches.  CountAll      *)
(* reads each table with one statement, as FindAll does without a batch    *)
(* size, and adds up the numbers of rows: it is the call with batch = 0.   *)
(***************************************************************************)
EXTENDS Integers, FiniteSets

CONSTANTS
  Table,          \* the physical tables: allShardTargets
  Id,             \* ids of rows
  BatchSizes,     \* batchSize arguments; 0 stands for every batchSize <= 0
  Limits,         \* values of maxConcurrency, the limit of the errgroup; 0 for none
  IdExtractable,  \* extractFieldValue finds the id field in the entity
  IdSelections,   \* whether a query selects the id: all columns, or a Select with it
  MaxWrites       \* bound: writes by other callers during the behaviour

ASSUME ScanAssumption ==
  /\ Id \subseteq Nat \ {0} /\ IsFiniteSet(Id)
  /\ BatchSizes \subseteq Nat
  /\ Limits \subseteq Nat /\ MaxWrites \in Nat
  /\ IdExtractable \in BOOLEAN /\ IdSelections \subseteq BOOLEAN

Nil == -1   \* a cursor that is nil; 0 is the zero of a field no column was scanned into

VARIABLES
  maxConcurrency, \* of the store
  table,     \* rows of each table
  writes,    \* writes so far
  call,      \* the caller: "idle", "running", "ok", "error"
  batch,     \* batchSize of the call
  idSelected, \* the query of the call selects the id column
  worker,    \* goroutine of each table: "none", "reading", "done", "failed"
  cursor,    \* lastCursor of each goroutine that reads on
  rows,      \* copies of each id collected from each table, 3 for three or more
  cancelled, \* gCtx is cancelled
  stable,    \* history: rows that were there since the call began
  ever       \* history: rows that were there at some time since

engine == <<call, batch, idSelected, worker, cursor, rows, cancelled>>
scanVars   == <<maxConcurrency, table, writes, engine, stable, ever>>

NoRows == [i \in Id |-> 0]

ScanInit ==
  /\ maxConcurrency \in Limits
  /\ table \in [Table -> SUBSET Id]
  /\ writes = 0
  /\ call = "idle" /\ batch = 0 /\ idSelected = TRUE /\ cancelled = FALSE
  /\ worker = [s \in Table |-> "none"]
  /\ cursor = [s \in Table |-> Nil]
  /\ rows = [s \in Table |-> NoRows]
  /\ stable = table /\ ever = table

-----------------------------------------------------------------------------
(* The caller.                                                             *)

Begin(n, selected) ==
  /\ call # "running"
  /\ call' = "running" /\ batch' = n /\ idSelected' = selected /\ cancelled' = FALSE
  /\ worker' = [s \in Table |-> "none"]
  /\ cursor' = [s \in Table |-> Nil]
  /\ rows' = [s \in Table |-> NoRows]
  /\ stable' = table /\ ever' = table
  /\ UNCHANGED <<maxConcurrency, table, writes>>

(* The context of the caller is cancelled or runs out of time.             *)
CancelCaller ==
  /\ call = "running" /\ ~cancelled
  /\ cancelled' = TRUE
  /\ UNCHANGED <<maxConcurrency, table, writes, call, batch, idSelected, worker, cursor, rows, stable, ever>>

Reading == {s \in Table : worker[s] = "reading"}

(* Mutant: the limit counts the goroutine about to start.                  *)
GoBelowLimit(s) ==
  /\ call = "running" /\ worker[s] = "none"
  /\ maxConcurrency > 0 => Cardinality(Reading) + 1 < maxConcurrency
  /\ worker' = [worker EXCEPT ![s] = "reading"]
  /\ UNCHANGED <<maxConcurrency, table, writes, call, batch, idSelected, cursor, rows, cancelled, stable, ever>>

(* g.Go blocks while the group is full; it does not look at the context.   *)
Go(s) ==
  /\ call = "running" /\ worker[s] = "none"
  /\ maxConcurrency > 0 => Cardinality(Reading) < maxConcurrency
  /\ worker' = [worker EXCEPT ![s] = "reading"]
  /\ UNCHANGED <<maxConcurrency, table, writes, call, batch, idSelected, cursor, rows, cancelled, stable, ever>>

(* Mutant: the caller returns with the first error.                        *)
ReturnFirstError ==
  /\ call = "running"
  /\ call' = "error" /\ cancelled' = TRUE
  /\ \E s \in Table : worker[s] = "failed"
  /\ UNCHANGED <<maxConcurrency, table, writes, batch, idSelected, worker, cursor, rows, stable, ever>>

(* g.Wait: the results, or the first error in their place.                 *)
Wait ==
  /\ call = "running"
  /\ \A s \in Table : worker[s] \in {"done", "failed"}
  /\ \/ /\ \A s \in Table : worker[s] = "done"
        /\ call' = "ok" /\ rows' = rows
     \/ /\ \E s \in Table : worker[s] = "failed"
        /\ call' = "error" /\ rows' = [s \in Table |-> NoRows]
  /\ cancelled' = TRUE
  /\ UNCHANGED <<maxConcurrency, table, writes, batch, idSelected, worker, cursor, stable, ever>>

-----------------------------------------------------------------------------
(* fetchAllFromShard.                                                      *)

(* Mutant: the cursor condition is Gte.                                    *)
fromCursorOn(s) == {i \in table[s] : i >= cursor[s]}

Remaining(s) == {i \in table[s] : i > cursor[s]}

(* ORDER BY id LIMIT batch over the rows behind the cursor.                *)
IsPage(P, rest) ==
  /\ \A i \in P, j \in rest \ P : i < j
  /\ IF batch = 0 \/ Cardinality(rest) < batch THEN P = rest ELSE Cardinality(P) = batch

(* Mutant: a full page ends the loop.                                      *)
fullPageToo(P) == batch = 0 \/ Cardinality(P) <= batch

LastPage(P) == batch = 0 \/ Cardinality(P) < batch

Collect(f, P) == [i \in Id |-> IF i \in P /\ f[i] < 3 THEN f[i] + 1 ELSE f[i]]

(* extractFieldValue of the last row of the page: nil when the entity has  *)
(* no such field, and zero when the statement did not select the column.   *)
(* Only the first can leave it out: And wraps the query of the others and  *)
(* drops its Columns.                                                      *)
NextCursor(s, P) ==
  IF ~IdExtractable THEN {Nil}
  ELSE IF cursor[s] = Nil /\ ~idSelected THEN {0}
  ELSE {m \in P : \A i \in P : i <= m}

(* One round of the loop: a page is read, collected, and either it was the *)
(* last one or the cursor moves to its last row.                           *)
Fetch(s) ==
  /\ worker[s] = "reading" /\ ~cancelled
  /\ \E P \in SUBSET Remaining(s) :
       /\ IsPage(P, Remaining(s))
       /\ rows' = [rows EXCEPT ![s] = Collect(@, P)]
       /\ worker' = [worker EXCEPT ![s] = IF LastPage(P) THEN "done" ELSE "reading"]
       /\ \E c \in IF LastPage(P) THEN {Nil} ELSE NextCursor(s, P) :
            cursor' = [cursor EXCEPT ![s] = c]
  /\ UNCHANGED <<maxConcurrency, table, writes, call, batch, idSelected, cancelled, stable, ever>>

(* The pages read before are lost with the goroutine.                      *)
Fail(s) ==
  /\ worker[s] = "reading"
  /\ worker' = [worker EXCEPT ![s] = "failed"]
  /\ cursor' = [cursor EXCEPT ![s] = Nil] /\ rows' = [rows EXCEPT ![s] = NoRows]
  /\ cancelled' = TRUE
  /\ UNCHANGED <<maxConcurrency, table, writes, call, batch, idSelected, stable, ever>>

(* A statement under a cancelled context fails; any statement may.         *)
FetchCancelled(s) == cancelled /\ Fail(s)
FetchError(s)     == ~cancelled /\ Fail(s)

-----------------------------------------------------------------------------
(* Other callers of the store.                                             *)

Write(s, T) ==
  /\ writes < MaxWrites
  /\ writes' = writes + 1
  /\ table' = [table EXCEPT ![s] = T]
  /\ stable' = [stable EXCEPT ![s] = @ \cap T]
  /\ ever' = [ever EXCEPT ![s] = @ \cup T]
  /\ UNCHANGED <<maxConcurrency, engine>>

InsertRow(s, i) == i \notin table[s] /\ Write(s, table[s] \cup {i})
RemoveRow(s, i) == i \in table[s] /\ Write(s, table[s] \ {i})

-----------------------------------------------------------------------------
ScanNext ==
  \/ \E n \in BatchSizes, selected \in IdSelections : Begin(n, selected)
  \/ CancelCaller
  \/ Wait
  \/ \E s \in Table : Go(s) \/ Fetch(s) \/ FetchCancelled(s) \/ FetchError(s)
  \/ \E s \in Table, i \in Id : InsertRow(s, i) \/ RemoveRow(s, i)

ScanSpec == ScanInit /\ [][ScanNext]_scanVars

(* Some goroutine of the call is scheduled and statements return; nobody   *)
(* has to call, cancel, write or fail.                                     *)
ScanFairness ==
  WF_scanVars(Wait \/ \E s \in Table : Go(s) \/ Fetch(s) \/ FetchCancelled(s))

FairScan == ScanSpec /\ ScanFairness

-----------------------------------------------------------------------------
(* Properties.                                                             *)

(* Type invariant.                                                         *)
ScanTypeOK ==
  /\ maxConcurrency \in Limits
  /\ table \in [Table -> SUBSET Id] /\ stable \in [Table -> SUBSET Id]
  /\ ever \in [Table -> SUBSET Id]
  /\ writes \in Nat /\ batch \in Nat /\ idSelected \in BOOLEAN /\ cancelled \in BOOLEAN
  /\ call \in {"idle", "running", "ok", "error"}
  /\ worker \in [Table -> {"none", "reading", "done", "failed"}]
  /\ cursor \in [Table -> Id \cup {0, Nil}]
  /\ rows \in [Table -> [Id -> 0..3]]

(* A call that succeeds returns every row that was in any table throughout *)
(* the call, although pages are separate statements and writers come in    *)
(* between; an error of one table is never a shorter result.               *)
NoRowLost ==
  call = "ok" => \A s \in Table : \A i \in stable[s] : rows[s][i] # 0

(* It returns no row twice, and none that was not in its table at some     *)
(* time during the call: what CountAll adds up is never more than that.    *)
(* A Select without the id column makes FindAll read its first page again, *)
(* and those rows come twice, but none three times.                        *)
NoRowInvented ==
  call = "ok" => \A s \in Table : \A i \in Id : /\ rows[s][i] <= IF idSelected THEN 1 ELSE 2
                                                /\ rows[s][i] > 0 => i \in ever[s]

(* Every call comes to an end: pages cannot repeat, and a full errgroup    *)
(* or a failed table never leaves the caller waiting.                      *)
CallEnds == call = "running" ~> call # "running"

(* No goroutine reads on after the call has returned: the session it uses  *)
(* may be a transaction that its caller ends next.                         *)
NoGoroutineLeft == call # "running" => Reading = {}
=============================================================================
