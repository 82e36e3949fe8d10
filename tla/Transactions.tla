---------------------------- MODULE Transactions ----------------------------
(***************************************************************************)
(* Transactions over database groups (dbhelper/transaction.go and Manager  *)
(* in db/internal/dbsp/sharding_factory.go).  A transaction holds one      *)
(* connection to one database of one group; stores made WithTx come from a *)
(* copy of the group's entry that is bound to it, other stores from the    *)
(* entries of the manager.  Databases, their connection pools and what     *)
(* COMMIT does are those of database/sql and GORM.                         *)
(***************************************************************************)
EXTENDS Naturals, Sequences, FiniteSets

CONSTANTS
  Client,        \* goroutines that run statements and transactions
  Group,         \* configured database groups
  Default,       \* dbspi.DefaultDatabaseGroupKey
  Entity, GroupOf, \* entity types and their DatabaseGroupKey()
  Key, NoKey,    \* sharding keys, and none
  Targets,       \* target keys of each group, in order
  DbRule,        \* database rule of each group: key -> target key, or NoRule
  NoRule,
  RuleError,     \* a rule failed to evaluate, or a bound rule refused
  TableOf,       \* physical table by entity type and key
  PoolSize,      \* max_open_conns of each database
  PlainInside,   \* functions of transactions also use stores made without WithTx
  MaxTx,         \* bound: transactions
  MaxStatements, \* bound: statements
  NoTx, NoStatement

ASSUME TransactionAssumption ==
  /\ GroupOf \in [Entity -> STRING] /\ Default \in STRING
  /\ Targets \in [Group -> Seq(STRING)] /\ \A g \in Group : Targets[g] # <<>>
  /\ \A g \in Group : DbRule[g] \in [Key -> STRING \cup {RuleError}] \cup {NoRule}
  /\ NoRule \notin [Key -> STRING \cup {RuleError}]
  /\ TableOf \in [Entity -> [Key -> STRING]]
  /\ NoKey \notin Key /\ RuleError \notin STRING
  /\ PoolSize \in Nat \ {0} /\ PlainInside \in BOOLEAN
  /\ MaxTx \in Nat /\ MaxStatements \in Nat

VARIABLES
  rows,       \* what the databases hold
  tx,         \* the open transaction of each client
  statement,  \* the statement each client waits for
  begun,      \* transactions begun
  statements, \* statements issued
  ended       \* history: what each transaction wrote and how it ended

vars == <<rows, tx, statement, begun, statements, ended>>

Init ==
  /\ rows = {}
  /\ tx = [c \in Client |-> NoTx]
  /\ statement = [c \in Client |-> NoStatement]
  /\ begun = 0 /\ statements = 0
  /\ ended = {}

-----------------------------------------------------------------------------
(* Entries of the manager.                                                 *)

resolvedDbEntry(g) == [dbs |-> Targets[g], rule |-> DbRule[g], session |-> "pool"]

entries == [g \in Group |-> resolvedDbEntry(g)]

(* The rule of a transaction refuses keys that lead elsewhere.             *)
txBoundDbRule(rule, t) == [k \in Key |-> IF rule[k] = t THEN t ELSE RuleError]

(* Mutant: the copy keeps the targets of the entry.                        *)
cloneWithTargets(entry, t) == entry

(* Mutant: the copy runs in the transaction and keeps targets and rule.    *)
cloneUnbound(entry, t) == [entry EXCEPT !.session = "tx"]

(* The copy knows one target, and its session is the transaction.          *)
cloneEntryForTransaction(entry, t) ==
  [dbs     |-> <<t>>,
   rule    |-> IF entry.rule = NoRule THEN NoRule
               ELSE txBoundDbRule(entry.rule, t),
   session |-> "tx"]

TargetSet(entry) == {entry.dbs[i] : i \in DOMAIN entry.dbs}

(* The target a key leads to, if there is one.                             *)
Destination(entry, k) ==
  IF entry.rule = NoRule THEN {entry.dbs[1]}
  ELSE {t \in TargetSet(entry) : k # NoKey /\ t = entry.rule[k]}

Target == UNION {TargetSet(entries[g]) : g \in Group}

Table == UNION {{TableOf[e][k] : k \in Key} : e \in Entity}

Row == [group : Group, target : Target, table : Table, entity : Entity, key : Key,
        by : 0..MaxTx]

Transaction == [id : 1..MaxTx, group : Group, target : Target, live : BOOLEAN,
                work : SUBSET Row, wrote : SUBSET Row]

Statement == [bound : BOOLEAN, session : {"tx", "pool"}, row : Row]

ASSUME NothingAssumption == NoTx \notin Transaction /\ NoStatement \notin Statement

(* The group whose entry serves an entity: its own, or the default one.    *)
EntryKey(es, e) == IF GroupOf[e] \in DOMAIN es THEN GroupOf[e] ELSE Default

-----------------------------------------------------------------------------
(* Connections.                                                            *)

Holding(g, t) == {c \in Client : tx[c] # NoTx /\ tx[c].live /\ tx[c].group = g /\ tx[c].target = t}

Connection(g, t) == Cardinality(Holding(g, t)) < PoolSize

-----------------------------------------------------------------------------
(* Transactions.                                                           *)

Begin(c, g, k) ==
  /\ tx[c] = NoTx /\ statement[c] = NoStatement
  /\ begun < MaxTx /\ begun' = begun + 1
  /\ g \in DOMAIN entries
  /\ \E t \in Destination(entries[g], k) :
       /\ Connection(g, t)
       /\ tx' = [tx EXCEPT ![c] = [id |-> begun + 1, group |-> g, target |-> t,
                                   live |-> TRUE, work |-> {}, wrote |-> {}]]
  /\ UNCHANGED <<rows, statement, statements, ended>>

End(c, outcome, R) ==
  /\ tx[c] # NoTx /\ statement[c] = NoStatement
  /\ rows' = R
  /\ ended' = ended \cup {[id |-> tx[c].id, outcome |-> outcome, wrote |-> tx[c].wrote]}
  /\ tx' = [tx EXCEPT ![c] = NoTx]
  /\ UNCHANGED <<statement, begun, statements>>

(* The function returned nil.  A COMMIT that fails may have taken effect.  *)
Commit(c)      == tx[c] # NoTx /\ tx[c].live /\ End(c, "committed", rows \cup tx[c].work)
CommitFails(c) == tx[c] # NoTx /\ tx[c].live /\ (\/ End(c, "unknown", rows \cup tx[c].work)
                                                 \/ End(c, "unknown", rows))

(* It returned an error or panicked, or the transaction was over before.   *)
Rollback(c) == End(c, "rolled back", rows)

(* The context ends: database/sql rolls back while the function runs on.   *)
Cancel(c) ==
  /\ tx[c] # NoTx /\ tx[c].live
  /\ tx' = [tx EXCEPT ![c].live = FALSE, ![c].work = {}]
  /\ UNCHANGED <<rows, statement, begun, statements, ended>>

-----------------------------------------------------------------------------
(* Statements.                                                             *)

(* Mutant: the group of the entity is not compared.                        *)
validateNothing(c, e) == TRUE

validateTxEntityDatabaseGroupKey(c, e) == GroupOf[e] = tx[c].group

(* An entity of type e with key k is written through the store of es: For  *)
(* finds the entry, resolve the target and the table.                      *)
Write(c, es, e, k, bound) ==
  /\ statement[c] = NoStatement
  /\ statements < MaxStatements /\ statements' = statements + 1
  /\ EntryKey(es, e) \in DOMAIN es
  /\ \E t \in Destination(es[EntryKey(es, e)], k) :
       statement' = [statement EXCEPT ![c] =
         [bound |-> bound, session |-> es[EntryKey(es, e)].session,
          row |-> [group |-> EntryKey(es, e), target |-> t, table |-> TableOf[e][k],
                   entity |-> e, key |-> k, by |-> IF bound THEN tx[c].id ELSE 0]]]
  /\ UNCHANGED <<rows, tx, begun, ended>>

WriteInTx(c, e, k) ==
  /\ tx[c] # NoTx
  /\ validateTxEntityDatabaseGroupKey(c, e)
  /\ Write(c, [g \in {tx[c].group} |-> cloneEntryForTransaction(entries[g], tx[c].target)],
           e, k, TRUE)

WritePlain(c, e, k) ==
  /\ tx[c] = NoTx \/ PlainInside
  /\ Write(c, entries, e, k, FALSE)

(* The statement is done: in the transaction, or on its own on any free    *)
(* connection.                                                             *)
Run(c) ==
  /\ statement[c] # NoStatement
  /\ LET s == statement[c]
     IN  /\ IF s.session = "tx"
              THEN tx[c].live /\ UNCHANGED rows
              ELSE Connection(s.row.group, s.row.target) /\ rows' = rows \cup {s.row}
         /\ tx' = IF ~s.bound THEN tx
                  ELSE [tx EXCEPT ![c].wrote = @ \cup {s.row},
                                  ![c].work = IF s.session = "tx" THEN @ \cup {s.row} ELSE @]
  /\ statement' = [statement EXCEPT ![c] = NoStatement]
  /\ UNCHANGED <<begun, statements, ended>>

GiveUp(c) ==
  /\ statement' = [statement EXCEPT ![c] = NoStatement]
  /\ UNCHANGED <<rows, tx, begun, statements, ended>>

(* A statement fails, or finds its transaction over.                       *)
StatementError(c) == statement[c] # NoStatement /\ GiveUp(c)
TxDone(c) == /\ statement[c] # NoStatement /\ statement[c].session = "tx" /\ ~tx[c].live
             /\ GiveUp(c)

-----------------------------------------------------------------------------
Next ==
  \E c \in Client :
    \/ \E g \in Group, k \in Key \cup {NoKey} : Begin(c, g, k)
    \/ Commit(c) \/ CommitFails(c) \/ Rollback(c) \/ Cancel(c)
    \/ \E e \in Entity, k \in Key : WriteInTx(c, e, k) \/ WritePlain(c, e, k)
    \/ Run(c) \/ StatementError(c) \/ TxDone(c)

Spec == Init /\ [][Next]_vars

(* Functions of transactions return, and so do statements that have a      *)
(* connection.                                                             *)
Fairness == \A c \in Client : WF_vars(Commit(c) \/ Rollback(c)) /\ WF_vars(Run(c) \/ TxDone(c))

FairSpec == Spec /\ Fairness

-----------------------------------------------------------------------------
(* Properties.                                                             *)

(* Type invariant.                                                         *)
TypeOK ==
  /\ rows \subseteq Row
  /\ tx \in [Client -> Transaction \cup {NoTx}]
  /\ statement \in [Client -> Statement \cup {NoStatement}]
  /\ begun \in 0..MaxTx /\ statements \in 0..MaxStatements
  /\ ended \subseteq [id : 1..MaxTx, outcome : {"committed", "unknown", "rolled back"},
                      wrote : SUBSET Row]

(* What a transaction wrote through its stores, over however many tables,  *)
(* is there in full or not at all: in full once Transaction returned nil,  *)
(* not at all while it runs and when the function failed or its context    *)
(* ended.                                                                  *)
AllOrNothing ==
  /\ \A d \in ended : /\ d.wrote \subseteq rows \/ d.wrote \cap rows = {}
                      /\ d.outcome = "committed" => d.wrote \subseteq rows
                      /\ d.outcome = "rolled back" => d.wrote \cap rows = {}
  /\ \A c \in Client : tx[c] # NoTx => tx[c].wrote \cap rows = {}

(* Where the manager's own stores look for a row.                          *)
Routed(r) == /\ r.group = EntryKey(entries, r.entity)
             /\ r.target \in Destination(entries[r.group], r.key)
             /\ r.table = TableOf[r.entity][r.key]

RoutedRow == {r \in Row : Routed(r)}

(* A row lies in the database and table that the manager's own stores look *)
(* for it in, whether a transaction wrote it or not: no transaction writes *)
(* rows of another group or shard to its database.                         *)
WrittenWhereRouted == \A r \in rows : Routed(r)

(* A transaction whose function keeps to its own stores ends: none of its  *)
(* statements waits for a second connection, however small the pool.       *)
TransactionEnds == \A c \in Client : tx[c] # NoTx ~> tx[c] = NoTx

(* Connections, statements on their way, contexts that end and entries     *)
(* bound to a target amount to atomic writes of rows in one database.      *)
Working  == {c \in Client : tx[c] # NoTx}
Written  == [c \in Client |-> IF tx[c] = NoTx THEN {} ELSE tx[c].wrote]
Outcomes == {[outcome |-> d.outcome, wrote |-> d.wrote] : d \in ended}

Atomic == INSTANCE AtomicWrites WITH
  Row <- RoutedRow, open <- Working, wrote <- Written, ended <- Outcomes

ImplementsAtomicWrites == Atomic!Spec
=============================================================================
