---------------------------- MODULE ShardedStore ----------------------------
(***************************************************************************)
(* The CRUD methods of shardedTableStore over the physical tables of all   *)
(* shards: each call resolves one table (ShardRouting) and runs one        *)
(* statement of GormTableStore there.  A call that is refused, and a       *)
(* statement the database rejects, change nothing and are not steps.       *)
(***************************************************************************)
EXTENDS ShardRouting, Sequences

CONSTANTS
  Client,    \* goroutines inside FirstOrCreate
  Entities,  \* entities callers pass
  Queries,   \* queries callers pass
  Contexts,  \* ShardingKeys found in contexts: partial functions on Column, or NoKey
  Updates,   \* Updater parameters: partial functions on Column
  Batches,   \* slices of entities
  NoCall     \* the client is not between the two statements of FirstOrCreate

ASSUME InputAssumption ==
  /\ Entities \subseteq Row
  /\ Queries \subseteq Query
  /\ \A u \in Updates : /\ DOMAIN u \subseteq Column \ {IdColumn}
                        /\ \A c \in DOMAIN u : u[c] \in Value
  /\ Batches \subseteq Seq(Row)
  /\ \A b \in Batches : \A i, j \in DOMAIN b :
        b[i][IdColumn] # Zero /\ (b[i][IdColumn] = b[j][IdColumn] => i = j)
  /\ NoCall \notin [shard : Shard, row : Row]

VARIABLES
  store,     \* rows of each physical table
  pending    \* per client, the insert FirstOrCreate still has to run

vars == <<store, pending>>

Init == /\ store = [s \in Shard |-> {}]
        /\ pending = [cl \in Client |-> NoCall]

-----------------------------------------------------------------------------
(* One statement on one table: GORM and the database.                      *)

SameId(r, e) == r[IdColumn] = e[IdColumn]

(* The entity as stored: an unset id is filled in by the database.         *)
Stored(e, s) ==
  LET fresh == {v \in Value \ {Zero} : \A r \in store[s] : r[IdColumn] # v}
      ids   == IF e[IdColumn] = Zero THEN fresh ELSE fresh \cap {e[IdColumn]}
  IN  {[e EXCEPT ![IdColumn] = v] : v \in ids}

Put(s, rows) == store' = [store EXCEPT ![s] = rows]

Insert(s, e) == \E r \in Stored(e, s) : Put(s, store[s] \cup {r})

(* Mutant: Save inserts next to the row it should replace.                 *)
appendAll(s, E) == Put(s, store[s] \cup E)

Upsert(s, E) == Put(s, {r \in store[s] : \A e \in E : ~SameId(r, e)} \cup E)

(* Updates(entity) writes the non-zero fields of the row with its id.      *)
Overlay(r, e) == [c \in Column |-> IF e[c] = Zero THEN r[c] ELSE e[c]]

(* Updates(params) on the rows a query selects.                            *)
Apply(r, u) == [c \in Column |-> IF c \in DOMAIN u THEN u[c] ELSE r[c]]

(* UPDATE: the rows of DOMAIN f are replaced by their images.              *)
UpdateRows(s, f) == Put(s, (store[s] \ DOMAIN f) \cup {f[r] : r \in DOMAIN f})

DeleteRows(s, R) == Put(s, store[s] \ R)

SelectId(s, id)  == {r \in store[s] : r[IdColumn] = id}
SelectWhere(s, q) == {r \in store[s] : Matches(r, q)}

(* FirstOrCreate copies the values of the query's Eq conditions into the   *)
(* entity it is about to insert.                                           *)
EqValues(q, c) ==
  {v \in Value : /\ q.kw = "and"
                 /\ \E p \in q.parts : \E d \in p.conds :
                      p.kw = "and" /\ d.col = c /\ d.op = "eq" /\ v \in d.vals}

Assigned(e, q) ==
  {r \in Row : \A c \in Column :
     r[c] \in IF EqValues(q, c) = {} THEN {e[c]} ELSE EqValues(q, c)}

-----------------------------------------------------------------------------
(* Entity methods.                                                         *)

Create(ctx, e) ==
  \E s \in resolveForEntity(ctx, e) : Insert(s, e) /\ UNCHANGED pending

(* Save on an entity without an id inserts it.                             *)
Save(ctx, e) ==
  \E s \in resolveForEntity(ctx, e) :
    /\ IF e[IdColumn] = Zero THEN Insert(s, e) ELSE Upsert(s, {e})
    /\ UNCHANGED pending

Update(ctx, e) ==
  /\ e[IdColumn] # Zero
  /\ \E s \in resolveForEntity(ctx, e) :
       UpdateRows(s, [r \in SelectId(s, e[IdColumn]) |-> Overlay(r, e)])
  /\ UNCHANGED pending

Delete(ctx, e) ==
  /\ e[IdColumn] # Zero
  /\ \E s \in resolveForEntity(ctx, e) : DeleteRows(s, SelectId(s, e[IdColumn]))
  /\ UNCHANGED pending

Elems(b) == {b[i] : i \in DOMAIN b}

(* Both batch methods resolve the first entity and write all of them there. *)
BatchCreate(ctx, b) ==
  /\ b # <<>>
  /\ \E s \in resolveForEntity(ctx, b[1]) :
       /\ \A r \in store[s], e \in Elems(b) : ~SameId(r, e)
       /\ Put(s, store[s] \cup Elems(b))
  /\ UNCHANGED pending

BatchSave(ctx, b) ==
  /\ b # <<>>
  /\ \E s \in resolveForEntity(ctx, b[1]) : Upsert(s, Elems(b))
  /\ UNCHANGED pending

(* Id and query methods; GORM refuses an UPDATE or DELETE without a        *)
(* condition.  Soft deletion and restoring update the deleted column.      *)

UpdateById(ctx, id, u) ==
  /\ \E s \in resolveForId(ctx, id) :
       UpdateRows(s, [r \in SelectId(s, id) |-> Apply(r, u)])
  /\ UNCHANGED pending

DeleteById(ctx, id) ==
  /\ \E s \in resolveForId(ctx, id) : DeleteRows(s, SelectId(s, id))
  /\ UNCHANGED pending

UpdateByQuery(ctx, q, u) ==
  /\ q.parts # {}
  /\ \E s \in resolveForQuery(ctx, q) :
       UpdateRows(s, [r \in SelectWhere(s, q) |-> Apply(r, u)])
  /\ UNCHANGED pending

DeleteByQuery(ctx, q) ==
  /\ q.parts # {}
  /\ \E s \in resolveForQuery(ctx, q) : DeleteRows(s, SelectWhere(s, q))
  /\ UNCHANGED pending

(* FirstOrCreate is a SELECT followed, when it found nothing, by an INSERT; *)
(* other calls may come between the two.                                   *)
FirstOrCreateSelect(cl, ctx, e, q) ==
  /\ pending[cl] = NoCall
  /\ \E s \in resolveForEntityAndQuery(ctx, e, q) :
       /\ \A r \in store[s] : ~(Matches(r, q) /\ (e[IdColumn] # Zero => SameId(r, e)))
       /\ \E n \in Assigned(e, q) :
            pending' = [pending EXCEPT ![cl] = [shard |-> s, row |-> n]]
  /\ UNCHANGED store

FirstOrCreateInsert(cl) ==
  /\ pending[cl] # NoCall
  /\ \/ Insert(pending[cl].shard, pending[cl].row)
     \/ Stored(pending[cl].row, pending[cl].shard) = {} /\ UNCHANGED store
  /\ pending' = [pending EXCEPT ![cl] = NoCall]

Next ==
  \E ctx \in Contexts :
    \/ \E e \in Entities : \/ Create(ctx, e)
                           \/ Save(ctx, e)
                           \/ Update(ctx, e)
                           \/ Delete(ctx, e)
    \/ \E b \in Batches : BatchCreate(ctx, b) \/ BatchSave(ctx, b)
    \/ \E id \in Value : \/ DeleteById(ctx, id)
                         \/ \E u \in Updates : UpdateById(ctx, id, u)
    \/ \E q \in Queries : \/ DeleteByQuery(ctx, q)
                          \/ \E u \in Updates : UpdateByQuery(ctx, q, u)
    \/ \E cl \in Client : \/ FirstOrCreateInsert(cl)
                          \/ \E e \in Entities, q \in Queries :
                               FirstOrCreateSelect(cl, ctx, e, q)

Spec == Init /\ [][Next]_vars

-----------------------------------------------------------------------------
(* Reads.                                                                  *)

Find(ctx, q) == {SelectWhere(s, q) : s \in resolveForQuery(ctx, q)}

AllRows == UNION {store[s] : s \in Shard}

-----------------------------------------------------------------------------
(* The store as one table: a row is at home in the shard its columns route *)
(* to, and a statement names rows by an id or by a query.                  *)

HomeOf == [r \in Row |-> Home(r)]
IdOf   == [r \in Row |-> r[IdColumn]]

Written == {{r} : r \in Row} \cup {Elems(b) : b \in Batches}

Named == {{r \in Row : r[IdColumn] = id} : id \in Value}
           \cup {{r \in Row : Matches(r, q)} : q \in Queries}

Changed == {[r \in Row |-> Overlay(r, e)] : e \in Entities}
             \cup {[r \in Row |-> Apply(r, u)] : u \in Updates}

Logical == INSTANCE LogicalTable
             WITH table <- AllRows, Place <- Shard, PlaceOf <- HomeOf,
                  Writes <- Written, Described <- Named, Changes <- Changed

(* Behind the store lies one logical table: whatever calls are mixed, in   *)
(* each physical table a statement writes, changes or removes exactly the  *)
(* rows the call named, and no row of another table, of another id or of   *)
(* another query is lost, doubled or altered by it.                        *)
ImplementsLogicalTable == Logical!Spec

-----------------------------------------------------------------------------
(* What the callers owe for rows to stay where routing looks for them: no  *)
(* updater writes a sharding column, the entities of a batch share a       *)
(* table, and where the id is a sharding column it is set by the caller    *)
(* and not by the database.                                                *)
Disciplined ==
  /\ \A u \in Updates : DOMAIN u \cap Required = {}
  /\ \A b \in Batches : \A i \in DOMAIN b : Home(b[i]) = Home(b[1])
  /\ IdColumn \in Required =>
       /\ \A e \in Entities : e[IdColumn] # Zero
       /\ \A q \in Queries : \A p \in q.parts : \A c \in p.conds :
            c.col = IdColumn /\ c.op = "eq" => Zero \notin c.vals

-----------------------------------------------------------------------------
(* Properties.                                                             *)

(* Tables hold rows, the id is a primary key of each table, and a client   *)
(* inside FirstOrCreate knows its table (type invariant).                  *)
TypeOK ==
  /\ store \in [Shard -> SUBSET Row]
  /\ \A s \in Shard : \A r, t \in store[s] : SameId(r, t) => r = t
  /\ pending \in [Client -> [shard : Shard, row : Row] \cup {NoCall}]

(* Every row lies in the table its own columns route to, whatever sequence *)
(* of calls, with or without a ShardingKey in the context, put it there.   *)
Placement == \A s \in Shard : \A r \in store[s] : Home(r) = s

(* A Find (and so a Count, Exists, UpdateByQuery or DeleteByQuery) that    *)
(* routing accepts without a ShardingKey in the context sees every row of  *)
(* the whole store that the query describes.                               *)
RoutedReadsComplete ==
  \A q \in Queries : Restrictive(q) =>
    \A rows \in Find(NoKey, q) : rows = {r \in AllRows : Matches(r, q)}
=============================================================================
