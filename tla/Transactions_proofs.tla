------------------------ MODULE Transactions_proofs ------------------------
(***************************************************************************)
(* Transactions are all or nothing and write rows where routing looks for  *)
(* them, for any groups, rules, entities, clients and pool sizes.          *)
(***************************************************************************)
EXTENDS Transactions, TLAPS

-----------------------------------------------------------------------------
(* Targets.                                                                *)

(* The targets a transaction on group g may have.                          *)
Reach(g) == {t \in TargetSet(entries[g]) : DbRule[g] = NoRule => t = Targets[g][1]}

(* The first target of a group is one of its targets.                      *)
LEMMA FirstTarget ==
  ASSUME NEW g \in Group
  PROVE  Targets[g][1] \in TargetSet(entries[g])
BY TransactionAssumption DEF TargetSet, entries, resolvedDbEntry

(* A destination is a target that the rule of the group can lead to.       *)
LEMMA DestinationReach ==
  ASSUME NEW g \in Group, NEW k, NEW t \in Destination(entries[g], k)
  PROVE  t \in Reach(g) /\ t \in Target
<1>1. t \in TargetSet(entries[g])
  BY FirstTarget DEF Destination, entries, resolvedDbEntry
<1>2. DbRule[g] = NoRule => t = Targets[g][1]
  BY DEF Destination, entries, resolvedDbEntry
<1> QED BY <1>1, <1>2 DEF Reach, Target

(* What the bound entry of a transaction accepts goes where the manager's  *)
(* entry would send it.                                                    *)
LEMMA BoundDestination ==
  ASSUME NEW g \in Group, NEW u \in Reach(g), NEW k \in Key,
         NEW t \in Destination(cloneEntryForTransaction(entries[g], u), k)
  PROVE  t = u /\ t \in Destination(entries[g], k)
<1>1. u \in TargetSet(entries[g]) /\ u \in STRING /\ u # RuleError
  BY TransactionAssumption DEF Reach, TargetSet, entries, resolvedDbEntry
<1>2. t = u
  BY DEF Destination, cloneEntryForTransaction, TargetSet
<1>3. CASE DbRule[g] = NoRule
  BY <1>1, <1>2, <1>3 DEF Destination, Reach, entries, resolvedDbEntry
<1>4. CASE DbRule[g] # NoRule
  <2> DEFINE f == [j \in Key |-> IF DbRule[g][j] = u THEN u ELSE RuleError]
  <2>1. f \in [Key -> STRING \cup {RuleError}] /\ f # NoRule
    BY <1>1, TransactionAssumption
  <2>2. cloneEntryForTransaction(entries[g], u) = [dbs |-> <<u>>, rule |-> f, session |-> "tx"]
    BY <1>4 DEF cloneEntryForTransaction, txBoundDbRule, entries, resolvedDbEntry
  <2>3. t = f[k]
    BY <2>1, <2>2 DEF Destination
  <2>4. DbRule[g][k] = u /\ k # NoKey
    BY <1>1, <1>2, <2>3, TransactionAssumption
  <2> QED BY <1>1, <1>2, <1>4, <2>4 DEF Destination, entries, resolvedDbEntry, TargetSet
<1> QED BY <1>2, <1>3, <1>4

-----------------------------------------------------------------------------
(* The invariant, in parts.                                                *)

(* A transaction writes under its own number, to its database, on its      *)
(* connection only, and only while that is open.                           *)
GoodTx(t) ==
  /\ t \in Transaction
  /\ t.target \in Reach(t.group)
  /\ \A r \in t.wrote : /\ r.by = t.id /\ Routed(r)
                        /\ r.group = t.group /\ r.target = t.target
  /\ t.work \subseteq t.wrote
  /\ t.live => t.work = t.wrote

(* A statement made WithTx is for the connection of its transaction.       *)
GoodStatement(s, t) ==
  /\ s \in Statement /\ Routed(s.row)
  /\ IF s.bound THEN /\ t # NoTx /\ s.session = "tx" /\ s.row.by = t.id
                     /\ s.row.group = t.group /\ s.row.target = t.target
                ELSE s.session = "pool" /\ s.row.by = 0

(* How a transaction ended shows in the rows, for good.                    *)
GoodEnd(d) ==
  /\ d.id \in 1..begun
  /\ \A c \in Client : tx[c] # NoTx => tx[c].id # d.id
  /\ \A r \in d.wrote : r.by = d.id
  /\ d.wrote \subseteq rows \/ d.wrote \cap rows = {}
  /\ d.outcome = "committed" => d.wrote \subseteq rows
  /\ d.outcome = "rolled back" => d.wrote \cap rows = {}

TxGood == \A c \in Client : tx[c] # NoTx => GoodTx(tx[c])

(* Open transactions have numbers of their own and no row in a database.   *)
TxOpen ==
  \A c \in Client : tx[c] # NoTx =>
    /\ tx[c].id <= begun
    /\ \A r \in rows : r.by # tx[c].id
    /\ \A d \in Client : d # c /\ tx[d] # NoTx => tx[d].id # tx[c].id

StatementsGood ==
  \A c \in Client : statement[c] # NoStatement => GoodStatement(statement[c], tx[c])

RowsGood == \A r \in rows : Routed(r) /\ r.by <= begun

EndedGood == \A d \in ended : GoodEnd(d)

TxInv == TypeOK /\ TxGood /\ TxOpen /\ StatementsGood /\ RowsGood /\ EndedGood

(* A row written where its group's entry leads is routed.                  *)
LEMMA NewRow ==
  ASSUME NEW g \in Group, NEW e \in Entity, NEW k \in Key, NEW i \in 0..MaxTx,
         NEW t \in Destination(entries[g], k), g = EntryKey(entries, e)
  PROVE  LET r == [group |-> g, target |-> t, table |-> TableOf[e][k],
                   entity |-> e, key |-> k, by |-> i]
         IN  r \in Row /\ Routed(r)
<1>1. t \in Target
  BY DestinationReach
<1>2. TableOf[e][k] \in Table
  BY DEF Table
<1> QED BY <1>1, <1>2 DEF Row, Routed

-----------------------------------------------------------------------------
(* Steps.                                                                  *)

LEMMA InitInv == Init => TxInv
BY TransactionAssumption DEF Init, TxInv, TypeOK, TxGood, TxOpen, StatementsGood, RowsGood, EndedGood

(* Begin numbers a transaction that has written nothing.                   *)
LEMMA BeginInv ==
  ASSUME TxInv, NEW c \in Client, NEW g \in Group, NEW k \in Key \cup {NoKey}, Begin(c, g, k)
  PROVE  TxInv'
<1>1. PICK t \in Destination(entries[g], k) :
        tx' = [tx EXCEPT ![c] = [id |-> begun + 1, group |-> g, target |-> t,
                                 live |-> TRUE, work |-> {}, wrote |-> {}]]
  BY DEF Begin
<1> DEFINE n == [id |-> begun + 1, group |-> g, target |-> t, live |-> TRUE,
                 work |-> {}, wrote |-> {}]
<1>2. /\ tx[c] = NoTx /\ statement[c] = NoStatement
      /\ begun < MaxTx /\ begun' = begun + 1
      /\ UNCHANGED <<rows, statement, statements, ended>>
  BY DEF Begin
<1>3. begun \in 0..MaxTx /\ MaxTx \in Nat /\ tx \in [Client -> Transaction \cup {NoTx}]
  BY TransactionAssumption DEF TxInv, TypeOK
<1>4. n \in Transaction /\ GoodTx(n) /\ n # NoTx
  <2>1. t \in Reach(g) /\ t \in Target
    BY DestinationReach
  <2>2. n \in Transaction
    BY <1>2, <1>3, <2>1 DEF Transaction
  <2> QED BY <2>1, <2>2, NothingAssumption DEF GoodTx
<1>5. tx'[c] = n /\ \A d \in Client \ {c} : tx'[d] = tx[d]
  BY <1>1, <1>3
<1>6. TypeOK'
  <2>1. tx' \in [Client -> Transaction \cup {NoTx}]
    BY <1>1, <1>3, <1>4
  <2>2. begun' \in 0..MaxTx
    BY <1>2, <1>3
  <2> QED BY <1>2, <2>1, <2>2 DEF TxInv, TypeOK
<1>7. TxGood'
  BY <1>4, <1>5 DEF TxInv, TxGood
<1>8. TxOpen'
  <2>1. \A r \in rows : r.by <= begun /\ r.by \in 0..MaxTx
    BY DEF TxInv, TypeOK, RowsGood, Row
  <2>2. \A d \in Client : tx[d] # NoTx => tx[d].id <= begun /\ tx[d].id \in 1..MaxTx
    BY <1>3 DEF TxInv, TxOpen, Transaction
  <2> QED BY <1>2, <1>3, <1>5, <2>1, <2>2 DEF TxInv, TxOpen
<1>9. StatementsGood'
  BY <1>2, <1>5 DEF TxInv, StatementsGood
<1>10. RowsGood'
  <2>1. \A r \in rows : r.by \in 0..MaxTx
    BY DEF TxInv, TypeOK, Row
  <2> QED BY <1>2, <1>3, <2>1 DEF TxInv, RowsGood, Routed
<1>11. EndedGood'
  <2> SUFFICES ASSUME NEW d \in ended PROVE GoodEnd(d)'
    BY <1>2 DEF EndedGood
  <2>1. GoodEnd(d)
    BY DEF TxInv, EndedGood
  <2>2. d.id \in 1..begun' /\ n.id # d.id
    <3>1. d.id \in 1..begun
      BY <2>1 DEF GoodEnd
    <3>2. n.id = begun + 1
      OBVIOUS
    <3> HIDE DEF n
    <3> QED BY <1>2, <1>3, <3>1, <3>2
  <2>3. \A e \in Client : tx'[e] # NoTx => tx'[e].id # d.id
    BY <1>5, <2>1, <2>2 DEF GoodEnd
  <2> QED BY <1>2, <2>1, <2>2, <2>3 DEF GoodEnd
<1> QED BY <1>6, <1>7, <1>8, <1>9, <1>10, <1>11 DEF TxInv

(* The connection's work becomes visible with COMMIT, or never.            *)
Outcome(c, outcome, R) ==
  \/ R = rows /\ outcome \in {"unknown", "rolled back"}
  \/ R = rows \cup tx[c].work /\ tx[c].live /\ outcome \in {"committed", "unknown"}

(* Commit, CommitFails and Rollback end a transaction with all or none of  *)
(* its rows.                                                               *)
LEMMA EndInv ==
  ASSUME TxInv, NEW c \in Client, NEW outcome, NEW R, End(c, outcome, R), Outcome(c, outcome, R)
  PROVE  TxInv'
<1>a. PICK t : t = tx[c]
  OBVIOUS
<1>b. PICK d : d = [id |-> t.id, outcome |-> outcome, wrote |-> t.wrote]
  OBVIOUS
<1>1. /\ t # NoTx /\ statement[c] = NoStatement
      /\ rows' = R /\ ended' = ended \cup {d} /\ tx' = [tx EXCEPT ![c] = NoTx]
      /\ UNCHANGED <<statement, begun, statements>>
  BY <1>a, <1>b DEF End
<1>2. /\ begun \in 0..MaxTx /\ tx \in [Client -> Transaction \cup {NoTx}]
      /\ rows \subseteq Row /\ MaxTx \in Nat
  BY TransactionAssumption DEF TxInv, TypeOK
<1>3. t \in Transaction /\ GoodTx(t) /\ t.id \in 1..begun
  <2>1. t \in Transaction /\ t.id <= begun
    BY <1>a, <1>1, <1>2 DEF TxInv, TxOpen
  <2>2. GoodTx(t)
    BY <1>a, <1>1 DEF TxInv, TxGood
  <2>3. t.id \in 1..MaxTx /\ t.id <= begun /\ begun \in 0..MaxTx /\ MaxTx \in Nat
    BY <1>2, <2>1 DEF Transaction
  <2> QED BY <2>1, <2>2, <2>3
<1>4. tx'[c] = NoTx /\ \A e \in Client \ {c} : tx'[e] = tx[e]
  BY <1>1, <1>2
<1>5. \A r \in t.wrote : r.by = t.id /\ Routed(r) /\ r \in Row
  BY <1>3 DEF GoodTx, Transaction
<1>6. rows' = rows \/ (rows' = rows \cup t.wrote /\ outcome # "rolled back")
  BY <1>a, <1>1, <1>3 DEF GoodTx, Outcome
<1>7. t.wrote \cap rows = {}
  BY <1>a, <1>1, <1>5 DEF TxInv, TxOpen
<1>8. TypeOK'
  <2>1. rows' \subseteq Row
    BY <1>2, <1>5, <1>6
  <2>2. tx' \in [Client -> Transaction \cup {NoTx}]
    BY <1>1, <1>2
  <2>3. d \in [id : 1..MaxTx, outcome : {"committed", "unknown", "rolled back"},
               wrote : SUBSET Row]
    BY <1>b, <1>3 DEF Transaction, Outcome
  <2> QED BY <1>1, <2>1, <2>2, <2>3 DEF TxInv, TypeOK
<1>9. TxGood'
  BY <1>4 DEF TxInv, TxGood
<1>10. TxOpen'
  <2>1. \A e \in Client : tx'[e] # NoTx =>
          e # c /\ tx'[e] = tx[e] /\ tx[e].id # t.id
    BY <1>a, <1>1, <1>4 DEF TxInv, TxOpen
  <2>2. \A e \in Client : tx'[e] # NoTx => \A r \in rows' : r.by # tx'[e].id
    BY <1>5, <1>6, <2>1 DEF TxInv, TxOpen
  <2>3. ASSUME NEW e \in Client, tx'[e] # NoTx
        PROVE  /\ tx'[e].id <= begun'
               /\ \A f \in Client : f # e /\ tx'[f] # NoTx => tx'[f].id # tx'[e].id
    BY <1>1, <2>1, <2>3 DEF TxInv, TxOpen
  <2> QED BY <2>2, <2>3 DEF TxOpen
<1>11. StatementsGood'
  BY <1>1, <1>4 DEF TxInv, StatementsGood
<1>12. RowsGood'
  <2>1. \A r \in rows : Routed(r) /\ r.by <= begun
    BY DEF TxInv, RowsGood
  <2>2. \A r \in t.wrote : Routed(r) /\ r.by <= begun
    <3>1. t.id <= begun
      BY <1>2, <1>3
    <3> QED BY <1>5, <3>1
  <2> QED BY <1>1, <1>6, <2>1, <2>2 DEF RowsGood, Routed
<1>13. EndedGood'
  <2>1. GoodEnd(d)'
    <3>1. \A e \in Client : tx'[e] # NoTx => tx'[e].id # t.id
      BY <1>a, <1>1, <1>4 DEF TxInv, TxOpen
    <3>2. outcome = "committed" => t.wrote \subseteq rows'
      BY <1>a, <1>1, <1>3 DEF GoodTx, Outcome
    <3>3. outcome = "rolled back" => t.wrote \cap rows' = {}
      BY <1>6, <1>7
    <3>4. t.wrote \subseteq rows' \/ t.wrote \cap rows' = {}
      BY <1>6, <1>7
    <3>5. d.id = t.id /\ d.outcome = outcome /\ d.wrote = t.wrote
      BY <1>b
    <3>6. d.id \in 1..begun' /\ \A r \in d.wrote : r.by = d.id
      BY <1>1, <1>3, <1>5, <3>5
    <3> QED BY <3>1, <3>2, <3>3, <3>4, <3>5, <3>6 DEF GoodEnd
  <2>2. ASSUME NEW f \in ended PROVE GoodEnd(f)'
    <3>1. GoodEnd(f) /\ f.id # t.id
      BY <1>a, <1>1 DEF TxInv, EndedGood, GoodEnd
    <3>2. f.wrote \cap t.wrote = {}
      BY <1>5, <3>1 DEF GoodEnd
    <3> QED BY <1>1, <1>4, <1>6, <3>1, <3>2 DEF GoodEnd
  <2> QED BY <1>1, <2>1, <2>2 DEF EndedGood
<1> QED BY <1>8, <1>9, <1>10, <1>11, <1>12, <1>13 DEF TxInv

(* A context that ends takes the work of its transaction along.            *)
LEMMA CancelInv ==
  ASSUME TxInv, NEW c \in Client, Cancel(c)
  PROVE  TxInv'
<1>a. PICK t : t = tx[c]
  OBVIOUS
<1>b. PICK n : n = [t EXCEPT !.live = FALSE, !.work = {}]
  OBVIOUS
<1>1. /\ t # NoTx /\ tx' = [tx EXCEPT ![c] = n]
      /\ UNCHANGED <<rows, statement, begun, statements, ended>>
  BY <1>a, <1>b DEF Cancel
<1>2. tx \in [Client -> Transaction \cup {NoTx}]
  BY DEF TxInv, TypeOK
<1>3. t \in Transaction /\ GoodTx(t)
  BY <1>a, <1>1, <1>2 DEF TxInv, TxGood
<1>4. /\ n \in Transaction /\ n # NoTx /\ GoodTx(n)
      /\ n.id = t.id /\ n.group = t.group /\ n.target = t.target
  <2>1. /\ n \in Transaction /\ n.id = t.id /\ n.group = t.group /\ n.target = t.target
        /\ n.wrote = t.wrote /\ n.work = {} /\ n.live = FALSE
    BY <1>b, <1>3 DEF Transaction
  <2> QED BY <1>3, <2>1, NothingAssumption DEF GoodTx
<1>5. tx'[c] = n /\ \A e \in Client \ {c} : tx'[e] = tx[e]
  BY <1>1, <1>2
<1>6. \A e \in Client : /\ tx'[e] # NoTx <=> tx[e] # NoTx
                        /\ tx'[e].id = tx[e].id /\ tx'[e].group = tx[e].group
                        /\ tx'[e].target = tx[e].target
  BY <1>a, <1>1, <1>4, <1>5
<1>7. TypeOK'
  <2>1. tx' \in [Client -> Transaction \cup {NoTx}]
    BY <1>1, <1>2, <1>4
  <2> QED BY <1>1, <2>1 DEF TxInv, TypeOK
<1>8. TxGood'
  BY <1>4, <1>5 DEF TxInv, TxGood
<1>9. TxOpen'
  BY <1>1, <1>6 DEF TxInv, TxOpen
<1>10. StatementsGood'
  BY <1>1, <1>6 DEF TxInv, StatementsGood, GoodStatement
<1>11. RowsGood'
  BY <1>1 DEF TxInv, RowsGood
<1>12. EndedGood'
  <2> SUFFICES ASSUME NEW f \in ended PROVE GoodEnd(f)'
    BY <1>1 DEF EndedGood
  <2>1. GoodEnd(f)
    BY DEF TxInv, EndedGood
  <2> QED BY <1>1, <1>6, <2>1 DEF GoodEnd
<1> QED BY <1>7, <1>8, <1>9, <1>10, <1>11, <1>12 DEF TxInv

(* A step that changes no database and no transaction, and leaves good     *)
(* statements.                                                             *)
LEMMA StatementInv ==
  ASSUME TxInv, UNCHANGED <<rows, tx, begun, ended>>, statements' \in 0..MaxStatements,
         statement' \in [Client -> Statement \cup {NoStatement}], StatementsGood'
  PROVE  TxInv'
<1>1. TypeOK' /\ TxGood' /\ TxOpen' /\ RowsGood'
  BY DEF TxInv, TypeOK, TxGood, TxOpen, RowsGood
<1>2. EndedGood'
  BY DEF TxInv, EndedGood, GoodEnd
<1> QED BY <1>1, <1>2 DEF TxInv

(* A statement that returns an error wrote nothing.                        *)
LEMMA GiveUpInv ==
  ASSUME TxInv, NEW c \in Client, GiveUp(c)
  PROVE  TxInv'
<1>1. /\ statement' = [statement EXCEPT ![c] = NoStatement]
      /\ UNCHANGED <<rows, tx, begun, statements, ended>>
  BY DEF GiveUp
<1>2. /\ statement \in [Client -> Statement \cup {NoStatement}]
      /\ statements \in 0..MaxStatements
  BY DEF TxInv, TypeOK
<1>3. /\ statement' \in [Client -> Statement \cup {NoStatement}]
      /\ \A e \in Client : statement'[e] # NoStatement => statement'[e] = statement[e]
  BY <1>1, <1>2
<1>4. StatementsGood'
  BY <1>1, <1>3 DEF TxInv, StatementsGood
<1> QED BY <1>1, <1>2, <1>3, <1>4, StatementInv

(* The store of a transaction or of the manager accepted an entity.        *)
LEMMA WriteInv ==
  ASSUME TxInv, NEW c \in Client, NEW es, NEW e, NEW k, NEW bound, Write(c, es, e, k, bound),
         \A t \in Destination(es[EntryKey(es, e)], k) :
           GoodStatement([bound |-> bound, session |-> es[EntryKey(es, e)].session,
                          row |-> [group |-> EntryKey(es, e), target |-> t,
                                   table |-> TableOf[e][k], entity |-> e, key |-> k,
                                   by |-> IF bound THEN tx[c].id ELSE 0]], tx[c])
  PROVE  TxInv'
<1>1. PICK t \in Destination(es[EntryKey(es, e)], k) :
        statement' = [statement EXCEPT ![c] =
          [bound |-> bound, session |-> es[EntryKey(es, e)].session,
           row |-> [group |-> EntryKey(es, e), target |-> t, table |-> TableOf[e][k],
                    entity |-> e, key |-> k, by |-> IF bound THEN tx[c].id ELSE 0]]]
  BY DEF Write
<1>2. PICK s : s = [bound |-> bound, session |-> es[EntryKey(es, e)].session,
                    row |-> [group |-> EntryKey(es, e), target |-> t, table |-> TableOf[e][k],
                             entity |-> e, key |-> k, by |-> IF bound THEN tx[c].id ELSE 0]]
  OBVIOUS
<1>3. statement' = [statement EXCEPT ![c] = s] /\ GoodStatement(s, tx[c])
  BY <1>1, <1>2
<1>4. /\ UNCHANGED <<rows, tx, begun, ended>>
      /\ statements < MaxStatements /\ statements' = statements + 1
  BY DEF Write
<1>5. /\ statement \in [Client -> Statement \cup {NoStatement}]
      /\ statements \in 0..MaxStatements /\ MaxStatements \in Nat
  BY TransactionAssumption DEF TxInv, TypeOK
<1>6. s \in Statement
  BY <1>3 DEF GoodStatement
<1>7. /\ statement' \in [Client -> Statement \cup {NoStatement}]
      /\ statement'[c] = s /\ \A f \in Client \ {c} : statement'[f] = statement[f]
  BY <1>3, <1>5, <1>6
<1>8. statements' \in 0..MaxStatements
  BY <1>4, <1>5
<1>9. StatementsGood'
  <2>1. \A f \in Client : statement'[f] # NoStatement => GoodStatement(statement'[f], tx[f])
    BY <1>3, <1>7 DEF TxInv, StatementsGood
  <2> QED BY <1>4, <2>1 DEF StatementsGood
<1> QED BY <1>4, <1>7, <1>8, <1>9, StatementInv

(* A statement inside a transaction is routed by the bound copy of the     *)
(* entry.                                                                  *)
LEMMA WriteInTxInv ==
  ASSUME TxInv, NEW c \in Client, NEW e \in Entity, NEW k \in Key, WriteInTx(c, e, k)
  PROVE  TxInv'
<1>a. PICK u : u = tx[c]
  OBVIOUS
<1>b. PICK es : es = [g \in {u.group} |-> cloneEntryForTransaction(entries[g], u.target)]
  OBVIOUS
<1>1. u # NoTx /\ GroupOf[e] = u.group /\ Write(c, es, e, k, TRUE)
  BY <1>a, <1>b DEF WriteInTx, validateTxEntityDatabaseGroupKey
<1>2. u \in Transaction /\ GoodTx(u)
  BY <1>a, <1>1 DEF TxInv, TypeOK, TxGood
<1>3. /\ u.group \in Group /\ u.id \in 1..MaxTx /\ u.id \in 0..MaxTx
      /\ u.target \in Reach(u.group)
  <2>1. u.id \in 1..MaxTx /\ MaxTx \in Nat
    BY <1>2, TransactionAssumption DEF Transaction
  <2>2. u.group \in Group /\ u.target \in Reach(u.group)
    BY <1>2 DEF Transaction, GoodTx
  <2> QED BY <2>1, <2>2
<1>4. EntryKey(es, e) = u.group /\ es[u.group] = cloneEntryForTransaction(entries[u.group], u.target)
  BY <1>b, <1>1 DEF EntryKey
<1>5. EntryKey(entries, e) = u.group
  BY <1>1, <1>3 DEF EntryKey, entries
<1>6. es[u.group].session = "tx"
  BY <1>4 DEF cloneEntryForTransaction
<1>7. ASSUME NEW t \in Destination(es[u.group], k)
      PROVE  GoodStatement([bound |-> TRUE, session |-> "tx",
                            row |-> [group |-> u.group, target |-> t, table |-> TableOf[e][k],
                                     entity |-> e, key |-> k, by |-> u.id]], u)
  <2>1. t = u.target /\ t \in Destination(entries[u.group], k)
    BY <1>3, <1>4, BoundDestination
  <2>2. PICK r : r = [group |-> u.group, target |-> t, table |-> TableOf[e][k],
                      entity |-> e, key |-> k, by |-> u.id]
    OBVIOUS
  <2>3. /\ r \in Row /\ Routed(r) /\ r.by = u.id
        /\ r.group = u.group /\ r.target = u.target
    BY <1>3, <1>5, <2>1, <2>2, NewRow
  <2> QED BY <1>1, <2>2, <2>3 DEF GoodStatement, Statement
<1> QED BY <1>a, <1>1, <1>4, <1>6, <1>7, WriteInv

(* A statement outside is routed by the manager's entry.                   *)
LEMMA WritePlainInv ==
  ASSUME TxInv, NEW c \in Client, NEW e \in Entity, NEW k \in Key, WritePlain(c, e, k)
  PROVE  TxInv'
<1>1. PICK g : g = EntryKey(entries, e)
  OBVIOUS
<1>2. Write(c, entries, e, k, FALSE)
  BY DEF WritePlain
<1>3. g \in Group /\ entries[g].session = "pool"
  BY <1>1, <1>2 DEF Write, entries, resolvedDbEntry
<1>4. ASSUME NEW t \in Destination(entries[g], k)
      PROVE  GoodStatement([bound |-> FALSE, session |-> "pool",
                            row |-> [group |-> g, target |-> t, table |-> TableOf[e][k],
                                     entity |-> e, key |-> k, by |-> 0]], tx[c])
  <2>1. PICK r : r = [group |-> g, target |-> t, table |-> TableOf[e][k],
                      entity |-> e, key |-> k, by |-> 0]
    OBVIOUS
  <2>2. 0 \in 0..MaxTx
    BY TransactionAssumption
  <2>3. r \in Row /\ Routed(r) /\ r.by = 0
    BY <1>1, <1>3, <2>1, <2>2, NewRow
  <2> QED BY <2>1, <2>3 DEF GoodStatement, Statement
<1> QED BY <1>1, <1>2, <1>3, <1>4, WriteInv

(* A statement writes its row into its transaction or into the database.   *)
LEMMA RunInv ==
  ASSUME TxInv, NEW c \in Client, Run(c)
  PROVE  TxInv'
<1>a. PICK s : s = statement[c]
  OBVIOUS
<1>b. PICK t : t = tx[c]
  OBVIOUS
<1>1. /\ s # NoStatement /\ statement' = [statement EXCEPT ![c] = NoStatement]
      /\ UNCHANGED <<begun, statements, ended>>
      /\ s.session = "tx" => t.live /\ rows' = rows
      /\ s.session # "tx" => rows' = rows \cup {s.row}
      /\ ~s.bound => tx' = tx
      /\ s.bound => tx' = [tx EXCEPT ![c].wrote = @ \cup {s.row},
                                     ![c].work = IF s.session = "tx" THEN @ \cup {s.row} ELSE @]
  BY <1>a, <1>b DEF Run
<1>2. /\ tx \in [Client -> Transaction \cup {NoTx}]
      /\ statement \in [Client -> Statement \cup {NoStatement}]
      /\ rows \subseteq Row /\ begun \in 0..MaxTx /\ statements \in 0..MaxStatements
  BY DEF TxInv, TypeOK
<1>3. s \in Statement /\ GoodStatement(s, t)
  BY <1>a, <1>b, <1>1, <1>2 DEF TxInv, StatementsGood
<1>4. s.row \in Row /\ s.bound \in BOOLEAN /\ Routed(s.row)
  BY <1>3 DEF GoodStatement, Statement
<1>5. /\ statement' \in [Client -> Statement \cup {NoStatement}]
      /\ \A e \in Client : statement'[e] # NoStatement => statement'[e] = statement[e]
  BY <1>1, <1>2
<1>6. CASE s.bound
  <2>1. /\ t # NoTx /\ s.session = "tx" /\ s.row.by = t.id /\ rows' = rows /\ t.live
        /\ s.row.group = t.group /\ s.row.target = t.target
    BY <1>1, <1>3, <1>6 DEF GoodStatement
  <2>2. PICK n : n = [t EXCEPT !.wrote = t.wrote \cup {s.row}, !.work = t.work \cup {s.row}]
    OBVIOUS
  <2>3. t \in Transaction /\ GoodTx(t)
    BY <1>b, <1>2, <2>1 DEF TxInv, TxGood
  <2>4. tx' = [tx EXCEPT ![c] = n]
    BY <1>b, <1>1, <1>2, <1>6, <2>1, <2>2, <2>3 DEF Transaction
  <2>5. tx'[c] = n /\ \A e \in Client \ {c} : tx'[e] = tx[e]
    BY <1>2, <2>4
  <2>6. /\ n \in Transaction /\ n # NoTx /\ GoodTx(n)
        /\ n.id = t.id /\ n.group = t.group /\ n.target = t.target
    <3>1. /\ n \in Transaction /\ n.id = t.id /\ n.group = t.group /\ n.target = t.target
          /\ n.wrote = t.wrote \cup {s.row} /\ n.work = t.work \cup {s.row} /\ n.live = t.live
      BY <1>4, <2>2, <2>3 DEF Transaction
    <3> QED BY <1>4, <2>1, <2>3, <3>1, NothingAssumption DEF GoodTx
  <2>7. \A e \in Client : /\ tx'[e] # NoTx <=> tx[e] # NoTx
                          /\ tx'[e].id = tx[e].id /\ tx'[e].group = tx[e].group
                          /\ tx'[e].target = tx[e].target
    BY <1>b, <2>1, <2>5, <2>6
  <2>8. TypeOK'
    <3>1. tx' \in [Client -> Transaction \cup {NoTx}]
      BY <1>2, <2>4, <2>6
    <3> QED BY <1>1, <1>5, <2>1, <3>1 DEF TxInv, TypeOK
  <2>9. TxGood'
    BY <2>5, <2>6 DEF TxInv, TxGood
  <2>10. TxOpen'
    BY <1>1, <2>1, <2>7 DEF TxInv, TxOpen
  <2>11. StatementsGood'
    BY <1>5, <2>7 DEF TxInv, StatementsGood, GoodStatement
  <2>12. RowsGood'
    BY <1>1, <2>1 DEF TxInv, RowsGood
  <2>13. EndedGood'
    <3> SUFFICES ASSUME NEW f \in ended PROVE GoodEnd(f)'
      BY <1>1 DEF EndedGood
    <3>1. GoodEnd(f)
      BY DEF TxInv, EndedGood
    <3> QED BY <1>1, <2>1, <2>7, <3>1 DEF GoodEnd
  <2> QED BY <2>8, <2>9, <2>10, <2>11, <2>12, <2>13 DEF TxInv
<1>7. CASE ~s.bound
  <2>1. tx' = tx /\ s.session = "pool" /\ s.row.by = 0 /\ rows' = rows \cup {s.row}
    BY <1>1, <1>3, <1>7 DEF GoodStatement
  <2>2. \A e \in Client : tx[e] # NoTx => tx[e].id # 0
    BY <1>2, TransactionAssumption DEF Transaction
  <2>3. TypeOK'
    BY <1>1, <1>2, <1>4, <1>5, <2>1 DEF TxInv, TypeOK
  <2>4. TxGood'
    BY <2>1 DEF TxInv, TxGood
  <2>5. TxOpen'
    BY <1>1, <2>1, <2>2 DEF TxInv, TxOpen
  <2>6. StatementsGood'
    BY <1>5, <2>1 DEF TxInv, StatementsGood
  <2>7. RowsGood'
    <3>1. s.row.by <= begun
      BY <1>2, <2>1, TransactionAssumption
    <3> QED BY <1>1, <1>4, <2>1, <3>1 DEF TxInv, RowsGood, Routed
  <2>8. EndedGood'
    <3> SUFFICES ASSUME NEW f \in ended PROVE GoodEnd(f)'
      BY <1>1 DEF EndedGood
    <3>1. GoodEnd(f)
      BY DEF TxInv, EndedGood
    <3>2. f.id # 0
      <4>1. f.id \in 1..begun
        BY <3>1 DEF GoodEnd
      <4>2. begun \in Nat
        BY <1>2, TransactionAssumption
      <4> QED BY <4>1, <4>2
    <3>3. s.row \notin f.wrote
      BY <2>1, <3>1, <3>2 DEF GoodEnd
    <3> QED BY <1>1, <2>1, <3>1, <3>3 DEF GoodEnd
  <2> QED BY <2>3, <2>4, <2>5, <2>6, <2>7, <2>8 DEF TxInv
<1> QED BY <1>4, <1>6, <1>7

(* Every action keeps the invariant.                                       *)
LEMMA StepInv ==
  ASSUME TxInv, [Next]_vars
  PROVE  TxInv'
<1>1. CASE UNCHANGED vars
  BY <1>1 DEF vars, TxInv, TypeOK, TxGood, TxOpen, StatementsGood, RowsGood, EndedGood, GoodEnd
<1>2. ASSUME NEW c \in Client, NEW g \in Group, NEW k \in Key \cup {NoKey}, Begin(c, g, k)
      PROVE  TxInv'
  BY <1>2, BeginInv
<1>3. ASSUME NEW c \in Client, Commit(c) PROVE TxInv'
  <2>1. /\ End(c, "committed", rows \cup tx[c].work)
        /\ Outcome(c, "committed", rows \cup tx[c].work)
    BY <1>3 DEF Commit, Outcome
  <2> QED BY <2>1, EndInv
<1>4. ASSUME NEW c \in Client, CommitFails(c) PROVE TxInv'
  <2>1. CASE End(c, "unknown", rows \cup tx[c].work)
    <3>1. Outcome(c, "unknown", rows \cup tx[c].work)
      BY <1>4 DEF CommitFails, Outcome
    <3> QED BY <2>1, <3>1, EndInv
  <2>2. CASE End(c, "unknown", rows)
    <3>1. Outcome(c, "unknown", rows)
      BY DEF Outcome
    <3> QED BY <2>2, <3>1, EndInv
  <2> QED BY <1>4, <2>1, <2>2 DEF CommitFails
<1>5. ASSUME NEW c \in Client, Rollback(c) PROVE TxInv'
  <2>1. End(c, "rolled back", rows) /\ Outcome(c, "rolled back", rows)
    BY <1>5 DEF Rollback, Outcome
  <2> QED BY <2>1, EndInv
<1>6. ASSUME NEW c \in Client, Cancel(c) PROVE TxInv'
  BY <1>6, CancelInv
<1>7. ASSUME NEW c \in Client, NEW e \in Entity, NEW k \in Key,
             WriteInTx(c, e, k) \/ WritePlain(c, e, k)
      PROVE  TxInv'
  BY <1>7, WriteInTxInv, WritePlainInv
<1>8. ASSUME NEW c \in Client, Run(c) PROVE TxInv'
  BY <1>8, RunInv
<1>9. ASSUME NEW c \in Client, StatementError(c) \/ TxDone(c) PROVE TxInv'
  BY <1>9, GiveUpInv DEF StatementError, TxDone
<1> QED BY <1>1, <1>2, <1>3, <1>4, <1>5, <1>6, <1>7, <1>8, <1>9 DEF Next

(* The invariant holds in every reachable state.                           *)
LEMMA Invariance == Spec => []TxInv
<1>1. Init => TxInv
  BY InitInv
<1>2. TxInv /\ [Next]_vars => TxInv'
  BY StepInv
<1> QED BY <1>1, <1>2, PTL DEF Spec

-----------------------------------------------------------------------------
(* Theorems.                                                               *)

(* Type correctness of the transactions of Manager.                        *)
THEOREM TypeCorrect == Spec => []TypeOK
<1>1. TxInv => TypeOK
  BY DEF TxInv
<1> QED BY <1>1, Invariance, PTL

(* What a function wrote through its transaction's stores shows as a whole *)
(* or not at all, in any interleaving with other transactions, plain       *)
(* writes, failing statements and ending contexts.                         *)
THEOREM AllOrNothingCorrect == Spec => []AllOrNothing
<1>1. TxInv => AllOrNothing
  <2> SUFFICES ASSUME TxInv PROVE AllOrNothing
    OBVIOUS
  <2>1. \A d \in ended : GoodEnd(d)
    BY DEF TxInv, EndedGood
  <2>2. ASSUME NEW c \in Client, tx[c] # NoTx PROVE tx[c].wrote \cap rows = {}
    BY <2>2 DEF TxInv, TxGood, TxOpen, GoodTx
  <2> QED BY <2>1, <2>2 DEF AllOrNothing, GoodEnd
<1> QED BY <1>1, Invariance, PTL

(* Every row is where the stores of the manager look for it, though the    *)
(* transaction that wrote it saw a single target of a single group.        *)
THEOREM WrittenWhereRoutedCorrect == Spec => []WrittenWhereRouted
<1>1. TxInv => WrittenWhereRouted
  BY DEF TxInv, RowsGood, Routed, WrittenWhereRouted
<1> QED BY <1>1, Invariance, PTL

-----------------------------------------------------------------------------
(* Refinement: transactions implement atomic writes.                       *)

(* What a client's open transaction wrote are routed rows of one database. *)
LEMMA WrittenRouted ==
  ASSUME TxInv, NEW c \in Working
  PROVE  /\ Written[c] = tx[c].wrote /\ Written[c] \subseteq RoutedRow
         /\ Atomic!OneDatabase(Written[c])
<1>1. tx[c] \in Transaction /\ GoodTx(tx[c]) /\ Written[c] = tx[c].wrote
  BY DEF TxInv, TypeOK, TxGood, Working, Written
<1>2. tx[c].wrote \subseteq Row
  BY <1>1 DEF Transaction
<1> QED BY <1>1, <1>2 DEF GoodTx, RoutedRow, Atomic!OneDatabase

(* A row with the number of an open transaction, or with none, belongs to  *)
(* no other one.                                                           *)
LEMMA RowUnclaimed ==
  ASSUME TxInv, NEW r, NEW D \in SUBSET Working,
         \A d \in D : tx[d].id # r.by, \A d \in ended : d.id # r.by
  PROVE  Atomic!Unclaimed(r, D)
<1>1. \A d \in D : r \notin Written[d]
  BY WrittenRouted DEF TxInv, TxGood, GoodTx, Working
<1>2. \A d \in Outcomes : r \notin d.wrote
  <2> SUFFICES ASSUME NEW d \in ended PROVE r \notin [outcome |-> d.outcome, wrote |-> d.wrote].wrote
    BY DEF Outcomes
  <2>1. r \notin d.wrote
    BY DEF TxInv, EndedGood, GoodEnd
  <2> QED BY <2>1
<1> QED BY <1>1, <1>2 DEF Atomic!Unclaimed

(* Begin opens a transaction that wrote nothing.                           *)
LEMMA BeginOpens ==
  ASSUME TxInv, NEW c \in Client, NEW g \in Group, NEW k \in Key \cup {NoKey}, Begin(c, g, k)
  PROVE  Atomic!Open(c)
<1>1. PICK t \in Destination(entries[g], k) :
        tx' = [tx EXCEPT ![c] = [id |-> begun + 1, group |-> g, target |-> t,
                                 live |-> TRUE, work |-> {}, wrote |-> {}]]
  BY DEF Begin
<1>2. PICK n : n = [id |-> begun + 1, group |-> g, target |-> t, live |-> TRUE,
                    work |-> {}, wrote |-> {}]
  OBVIOUS
<1>3. /\ tx[c] = NoTx /\ tx \in [Client -> Transaction \cup {NoTx}]
      /\ rows' = rows /\ ended' = ended
  BY DEF Begin, TxInv, TypeOK
<1>4. n \in Transaction /\ n # NoTx /\ n.wrote = {}
  <2>1. t \in Target
    BY DestinationReach
  <2>2. MaxTx \in Nat /\ begun \in 0..MaxTx /\ begun < MaxTx
    BY TransactionAssumption DEF Begin, TxInv, TypeOK
  <2>3. begun + 1 \in 1..MaxTx
    BY <2>2
  <2>4. n \in Transaction /\ n.wrote = {}
    BY <1>2, <2>1, <2>3 DEF Transaction
  <2> QED BY <2>4, NothingAssumption
<1>5. tx'[c] = n /\ \A e \in Client \ {c} : tx'[e] = tx[e]
  BY <1>1, <1>2, <1>3
<1>6. c \notin Working /\ Working' = Working \cup {c}
  BY <1>3, <1>4, <1>5 DEF Working
<1>7. Written' = Written
  BY <1>3, <1>4, <1>5 DEF Written
<1>8. Outcomes' = Outcomes
  BY <1>3 DEF Outcomes
<1> QED BY <1>3, <1>6, <1>7, <1>8 DEF Atomic!Open

(* The end of a transaction files what it wrote.                           *)
LEMMA EndCloses ==
  ASSUME TxInv, NEW c \in Client, NEW outcome, NEW R, End(c, outcome, R)
  PROVE  Atomic!Close(c, outcome)
<1>1. /\ tx[c] # NoTx /\ tx' = [tx EXCEPT ![c] = NoTx]
      /\ tx \in [Client -> Transaction \cup {NoTx}]
      /\ ended' = ended \cup {[id |-> tx[c].id, outcome |-> outcome, wrote |-> tx[c].wrote]}
  BY DEF End, TxInv, TypeOK
<1>2. tx'[c] = NoTx /\ \A e \in Client \ {c} : tx'[e] = tx[e]
  BY <1>1
<1>3. c \in Working /\ Working' = Working \ {c}
  BY <1>1, <1>2 DEF Working
<1>4. Written' = [Written EXCEPT ![c] = {}]
  BY <1>2 DEF Written
<1>5. Outcomes' = Outcomes \cup {[outcome |-> outcome, wrote |-> Written[c]]}
  <2>1. PICK e : e = [id |-> tx[c].id, outcome |-> outcome, wrote |-> tx[c].wrote]
    OBVIOUS
  <2>2. ended' = ended \cup {e} /\ e.outcome = outcome /\ e.wrote = Written[c]
    BY <1>1, <2>1 DEF Written
  <2>3. Outcomes' = {[outcome |-> d.outcome, wrote |-> d.wrote] : d \in ended \cup {e}}
    BY <2>2 DEF Outcomes
  <2> QED BY <2>2, <2>3, Zenon DEF Outcomes
<1> QED BY <1>3, <1>4, <1>5 DEF Atomic!Close

(* A statement made WithTx adds a row of the transaction's database, which *)
(* nobody sees; any other statement writes a row on its own.               *)
LEMMA RunWrites ==
  ASSUME TxInv, NEW c \in Client, Run(c)
  PROVE  Atomic!Write(c) \/ Atomic!WriteAlone
<1>a. PICK s : s = statement[c]
  OBVIOUS
<1>b. PICK t : t = tx[c]
  OBVIOUS
<1>1. /\ s # NoStatement /\ ended' = ended
      /\ s.session = "tx" => t.live /\ rows' = rows
      /\ s.session # "tx" => rows' = rows \cup {s.row}
      /\ ~s.bound => tx' = tx
      /\ s.bound => tx' = [tx EXCEPT ![c].wrote = @ \cup {s.row},
                                     ![c].work = IF s.session = "tx" THEN @ \cup {s.row} ELSE @]
  BY <1>a, <1>b DEF Run
<1>2. /\ tx \in [Client -> Transaction \cup {NoTx}] /\ s \in Statement
      /\ GoodStatement(s, t) /\ s.row \in RoutedRow
  BY <1>a, <1>b, <1>1 DEF TxInv, TypeOK, StatementsGood, GoodStatement, Statement, RoutedRow
<1>3. Outcomes' = Outcomes
  BY <1>1 DEF Outcomes
<1>4. CASE s.bound
  <2>1. /\ t # NoTx /\ s.session = "tx" /\ s.row.by = t.id /\ rows' = rows /\ t \in Transaction
        /\ s.row.group = t.group /\ s.row.target = t.target
    BY <1>b, <1>1, <1>2, <1>4 DEF GoodStatement
  <2>2. PICK n : n = [t EXCEPT !.wrote = t.wrote \cup {s.row}, !.work = t.work \cup {s.row}]
    OBVIOUS
  <2>3. tx' = [tx EXCEPT ![c] = n]
    BY <1>b, <1>1, <1>2, <1>4, <2>1, <2>2 DEF Transaction
  <2>4. n # NoTx /\ n.wrote = t.wrote \cup {s.row}
    <3>1. s.row \in Row
      BY <1>2 DEF RoutedRow
    <3>2. n \in Transaction /\ n.wrote = t.wrote \cup {s.row}
      BY <2>1, <2>2, <3>1 DEF Transaction
    <3> QED BY <3>2, NothingAssumption
  <2>5. tx'[c] = n /\ \A e \in Client \ {c} : tx'[e] = tx[e]
    BY <1>2, <2>3
  <2>6. c \in Working /\ Working' = Working
    BY <1>b, <2>1, <2>4, <2>5 DEF Working
  <2>7. /\ Written' = [Written EXCEPT ![c] = @ \cup {s.row}]
        /\ Written'[c] = Written[c] \cup {s.row}
    BY <1>b, <2>1, <2>4, <2>5 DEF Written
  <2>8. s.row \notin rows /\ Atomic!Unclaimed(s.row, Working \ {c})
    <3>1. \A d \in Working \ {c} : tx[d].id # s.row.by
      BY <1>b, <2>1 DEF TxInv, TxOpen, Working
    <3>2. \A d \in ended : d.id # s.row.by
      BY <1>b, <2>1 DEF TxInv, EndedGood, GoodEnd
    <3>3. s.row \notin rows
      BY <1>b, <2>1 DEF TxInv, TxOpen
    <3> QED BY <3>1, <3>2, <3>3, RowUnclaimed
  <2>9. Atomic!OneDatabase(Written'[c])
    <3>1. \A r \in t.wrote : r.group = t.group /\ r.target = t.target
      BY <1>b, <2>1 DEF TxInv, TxGood, GoodTx
    <3>2. Written[c] = t.wrote
      BY <1>b, <2>6, WrittenRouted
    <3> QED BY <2>1, <2>7, <3>1, <3>2 DEF Atomic!OneDatabase
  <2>10. s.row \in Written'[c] \cap RoutedRow
    BY <1>2, <2>7
  <2> QED BY <1>3, <2>1, <2>6, <2>7, <2>8, <2>9, <2>10 DEF Atomic!Write
<1>5. CASE ~s.bound
  <2>1. tx' = tx /\ s.row.by = 0 /\ rows' = rows \cup {s.row}
    BY <1>1, <1>2, <1>5 DEF GoodStatement
  <2>2. \A d \in Working : tx[d].id # s.row.by
    BY <1>2, <2>1, TransactionAssumption DEF Transaction, Working
  <2>3. ASSUME NEW d \in ended PROVE d.id # s.row.by
    <3>1. d.id \in 1..begun
      BY DEF TxInv, EndedGood, GoodEnd
    <3>2. begun \in 0..MaxTx
      BY DEF TxInv, TypeOK
    <3>3. begun \in Nat
      BY <3>2, TransactionAssumption
    <3> QED BY <2>1, <3>1, <3>3
  <2>4. Atomic!Unclaimed(s.row, Working)
    BY <2>2, <2>3, RowUnclaimed
  <2>5. Working' = Working /\ Written' = Written
    BY <2>1 DEF Working, Written
  <2> QED BY <1>2, <1>3, <2>1, <2>4, <2>5 DEF Atomic!WriteAlone
<1> QED BY <1>2, <1>4, <1>5 DEF Statement

(* Every step writes atomically or cannot be seen.                         *)
LEMMA StepAtomic ==
  ASSUME TxInv, [Next]_vars
  PROVE  [Atomic!Next]_(Atomic!vars)
<1>1. ASSUME UNCHANGED <<rows, Working, Written, Outcomes>>
      PROVE  UNCHANGED Atomic!vars
  BY <1>1 DEF Atomic!vars
<1>2. ASSUME UNCHANGED <<rows, tx, ended>> PROVE UNCHANGED Atomic!vars
  BY <1>1, <1>2 DEF Working, Written, Outcomes
<1>3. CASE UNCHANGED vars
  BY <1>2, <1>3 DEF vars
<1>4. ASSUME NEW c \in Client, NEW g \in Group, NEW k \in Key \cup {NoKey}, Begin(c, g, k)
      PROVE  Atomic!Next
  BY <1>4, BeginOpens DEF Atomic!Next
<1>5. ASSUME NEW c \in Client, tx[c] # NoTx
      PROVE  /\ Written[c] = tx[c].wrote
             /\ tx[c].live => tx[c].work = Written[c]
  BY <1>5 DEF TxInv, TxGood, GoodTx, Written
<1>6. ASSUME NEW c \in Client, Commit(c) PROVE Atomic!Next
  <2>1. Atomic!Close(c, "committed") /\ rows' = rows \cup Written[c]
    BY <1>5, <1>6, EndCloses DEF Commit, End
  <2> QED BY <2>1 DEF Atomic!Next, Atomic!Apply
<1>7. ASSUME NEW c \in Client, CommitFails(c) PROVE Atomic!Next
  <2>1. Atomic!Close(c, "unknown") /\ rows' \in {rows, rows \cup Written[c]}
    BY <1>5, <1>7, EndCloses DEF CommitFails, End
  <2> QED BY <2>1 DEF Atomic!Next, Atomic!Lose
<1>8. ASSUME NEW c \in Client, Rollback(c) PROVE Atomic!Next
  <2>1. Atomic!Close(c, "rolled back") /\ rows' = rows
    BY <1>8, EndCloses DEF Rollback, End
  <2> QED BY <2>1 DEF Atomic!Next, Atomic!Undo
<1>9. ASSUME NEW c \in Client, Cancel(c) PROVE UNCHANGED Atomic!vars
  <2>1. PICK t : t = tx[c]
    OBVIOUS
  <2>2. PICK n : n = [t EXCEPT !.live = FALSE, !.work = {}]
    OBVIOUS
  <2>3. /\ t \in Transaction /\ t # NoTx /\ tx' = [tx EXCEPT ![c] = n]
        /\ tx \in [Client -> Transaction \cup {NoTx}] /\ UNCHANGED <<rows, ended>>
    BY <1>9, <2>1, <2>2 DEF Cancel, TxInv, TypeOK
  <2>4. n # NoTx /\ n.wrote = t.wrote
    <3>1. n \in Transaction /\ n.wrote = t.wrote
      BY <2>2, <2>3 DEF Transaction
    <3> QED BY <3>1, NothingAssumption
  <2>5. tx'[c] = n /\ \A e \in Client \ {c} : tx'[e] = tx[e]
    BY <2>3
  <2>6. Working' = Working /\ Written' = Written
    BY <2>1, <2>3, <2>4, <2>5 DEF Working, Written
  <2>7. Outcomes' = Outcomes
    BY <2>3 DEF Outcomes
  <2> QED BY <1>1, <2>3, <2>6, <2>7
<1>10. ASSUME NEW c \in Client, NEW e \in Entity, NEW k \in Key,
              WriteInTx(c, e, k) \/ WritePlain(c, e, k)
       PROVE  UNCHANGED Atomic!vars
  BY <1>2, <1>10 DEF WriteInTx, WritePlain, Write
<1>11. ASSUME NEW c \in Client, Run(c) PROVE Atomic!Next
  BY <1>11, RunWrites DEF Atomic!Next
<1>12. ASSUME NEW c \in Client, StatementError(c) \/ TxDone(c) PROVE UNCHANGED Atomic!vars
  BY <1>2, <1>12 DEF StatementError, TxDone, GiveUp
<1> QED BY <1>3, <1>4, <1>6, <1>7, <1>8, <1>9, <1>10, <1>11, <1>12 DEF Next

(* The transactions of Manager are atomic writes to one database each: two *)
(* transactions never share a row, nothing of an open one can be seen, and *)
(* its rows appear with its COMMIT or not at all, for any groups, rules,   *)
(* entities, clients and pool sizes.                                       *)
THEOREM TransactionsImplementAtomicWrites == Spec => ImplementsAtomicWrites
<1>1. Init => Atomic!Init
  BY DEF Init, Atomic!Init, Working, Written, Outcomes
<1>2. TxInv /\ [Next]_vars => [Atomic!Next]_(Atomic!vars)
  BY StepAtomic
<1> QED BY <1>1, <1>2, Invariance, PTL DEF Spec, Atomic!Spec, ImplementsAtomicWrites
=============================================================================
