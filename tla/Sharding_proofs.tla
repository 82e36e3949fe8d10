-------------------------- MODULE Sharding_proofs ---------------------------
(***************************************************************************)
(* Theorems about the sharded table store: ShardedStore, its routed reads  *)
(* and writes, for every entity type, rule, set of tables and set of       *)
(* callers' arguments; ScatterGather, in which FindAll loses no row,       *)
(* returns none twice (but for the first page of a Select without the id,  *)
(* which is read twice) and invents none, for every number of tables,      *)
(* every batch size and limit and any writes, provided the entity has the  *)
(* id as a field; TopoSort, the order of a rule's computations, for every  *)
(* number of them. The three share no variable.                            *)
(***************************************************************************)
EXTENDS ShardedStore, ScatterGather, TopoSort, FiniteSetTheorems, SequenceTheorems, TLAPS

(* The routed calls.                                                       *)

(* A call can only be sent to a table that exists.                         *)
LEMMA RouteInShard ==
  ASSUME NEW m, NEW ctx, NEW s \in resolve(m, ctx)
  PROVE  s \in Shard
BY DEF resolve

(* The id of an entity is the only column the database fills in.           *)
LEMMA StoredRow ==
  ASSUME NEW e \in Row, NEW s \in Shard, NEW r \in Stored(e, s)
  PROVE  /\ r \in Row
         /\ \A t \in store[s] : ~SameId(t, r)
         /\ \A c \in Column \ {IdColumn} : r[c] = e[c]
         /\ e[IdColumn] # Zero => r = e
<1>1. PICK v \in Value : /\ r = [e EXCEPT ![IdColumn] = v]
                         /\ \A t \in store[s] : t[IdColumn] # v
                         /\ e[IdColumn] # Zero => v = e[IdColumn]
  BY DEF Stored
<1>2. r \in Row /\ r[IdColumn] = v
  BY <1>1, RoutingAssumption DEF Row
<1>3. \A c \in Column \ {IdColumn} : r[c] = e[c]
  BY <1>1 DEF Row
<1>4. e[IdColumn] # Zero => r = e
  BY <1>1 DEF Row
<1> QED BY <1>1, <1>2, <1>3, <1>4 DEF SameId

-----------------------------------------------------------------------------
(* Type correctness.                                                       *)

LEMMA PutType ==
  ASSUME TypeOK, NEW s \in Shard, NEW kept \in SUBSET Row, Put(s, kept),
         \A r, t \in kept : SameId(r, t) => r = t
  PROVE  /\ store' \in [Shard -> SUBSET Row]
         /\ \A sh \in Shard : \A r, t \in store'[sh] : SameId(r, t) => r = t
BY DEF TypeOK, Put

(* The database gives a row without an id one that is free.                *)
LEMMA InsertType ==
  ASSUME TypeOK, NEW s \in Shard, NEW e \in Row, Insert(s, e)
  PROVE  /\ store' \in [Shard -> SUBSET Row]
         /\ \A sh \in Shard : \A r, t \in store'[sh] : SameId(r, t) => r = t
<1>1. PICK n \in Stored(e, s) : Put(s, store[s] \cup {n})
  BY DEF Insert
<1>2. n \in Row /\ \A t \in store[s] : ~SameId(t, n)
  BY <1>1, StoredRow
<1>3. store[s] \cup {n} \in SUBSET Row
  BY <1>2 DEF TypeOK
<1>4. \A r, t \in store[s] \cup {n} : SameId(r, t) => r = t
  BY <1>2 DEF TypeOK, SameId
<1> QED BY <1>1, <1>3, <1>4, PutType

(* An upsert replaces the rows that have its ids.                          *)
LEMMA UpsertType ==
  ASSUME TypeOK, NEW s \in Shard, NEW E \in SUBSET Row, Upsert(s, E),
         \A r, t \in E : SameId(r, t) => r = t
  PROVE  /\ store' \in [Shard -> SUBSET Row]
         /\ \A sh \in Shard : \A r, t \in store'[sh] : SameId(r, t) => r = t
<1> DEFINE kept == {r \in store[s] : \A e \in E : ~SameId(r, e)} \cup E
<1>1. kept \in SUBSET Row
  BY DEF TypeOK
<1>2. \A r, t \in kept : SameId(r, t) => r = t
  BY DEF TypeOK, SameId
<1>3. Put(s, kept)
  BY DEF Upsert
<1> QED BY <1>1, <1>2, <1>3, PutType

(* An update keeps the ids of the rows it changes.                         *)
LEMMA UpdateType ==
  ASSUME TypeOK, NEW s \in Shard, NEW f, UpdateRows(s, f),
         DOMAIN f \subseteq store[s],
         \A r \in DOMAIN f : f[r] \in Row /\ SameId(f[r], r)
  PROVE  /\ store' \in [Shard -> SUBSET Row]
         /\ \A sh \in Shard : \A r, t \in store'[sh] : SameId(r, t) => r = t
<1> DEFINE kept == (store[s] \ DOMAIN f) \cup {f[r] : r \in DOMAIN f}
<1>1. kept \in SUBSET Row
  BY DEF TypeOK
<1>2. ASSUME NEW r \in kept, NEW t \in kept, SameId(r, t)
      PROVE  r = t
  <2>1. PICK a \in store[s] : SameId(a, r) /\ r = IF a \in DOMAIN f THEN f[a] ELSE a
    BY DEF SameId
  <2>2. PICK b \in store[s] : SameId(b, t) /\ t = IF b \in DOMAIN f THEN f[b] ELSE b
    BY DEF SameId
  <2>3. a = b
    BY <1>2, <2>1, <2>2 DEF TypeOK, SameId
  <2> QED BY <2>1, <2>2, <2>3
<1>3. Put(s, kept)
  BY DEF UpdateRows
<1> HIDE DEF kept
<1> QED BY <1>1, <1>2, <1>3, PutType

(* A deletion takes rows away only.                                        *)
LEMMA DeleteType ==
  ASSUME TypeOK, NEW s \in Shard, NEW R, DeleteRows(s, R)
  PROVE  /\ store' \in [Shard -> SUBSET Row]
         /\ \A sh \in Shard : \A r, t \in store'[sh] : SameId(r, t) => r = t
<1>1. store[s] \ R \in SUBSET Row /\ \A r, t \in store[s] \ R : SameId(r, t) => r = t
  BY DEF TypeOK
<1> QED BY <1>1, PutType DEF DeleteRows

(* A row overlaid by an entity that was selected by its id keeps it.       *)
LEMMA OverlayType ==
  ASSUME TypeOK, NEW s \in Shard, NEW e \in Row, e[IdColumn] # Zero,
         NEW r \in SelectId(s, e[IdColumn])
  PROVE  Overlay(r, e) \in Row /\ SameId(Overlay(r, e), r)
BY RoutingAssumption DEF TypeOK, Overlay, SelectId, SameId, Row

(* An updater leaves the id alone.                                         *)
LEMMA ApplyType ==
  ASSUME NEW r \in Row, NEW u \in Updates
  PROVE  Apply(r, u) \in Row /\ SameId(Apply(r, u), r)
BY RoutingAssumption, InputAssumption DEF Apply, SameId, Row

(* The entities of a batch have different ids.                             *)
LEMMA BatchType ==
  ASSUME NEW b \in Batches
  PROVE  /\ Elems(b) \in SUBSET Row
         /\ \A r, t \in Elems(b) : SameId(r, t) => r = t
<1>1. b \in Seq(Row)
  BY InputAssumption
<1>2. Elems(b) \in SUBSET Row
  BY <1>1 DEF Elems
<1>3. \A r, t \in Elems(b) : SameId(r, t) => r = t
  BY InputAssumption DEF Elems, SameId
<1> QED BY <1>2, <1>3

(* Every state is well typed and the id is a primary key of every physical *)
(* table, whatever the callers do.                                         *)
THEOREM TypeCorrect == Spec => []TypeOK
<1>1. Init => TypeOK
  BY DEF Init, TypeOK
<1>2. TypeOK /\ [Next]_vars => TypeOK'
  <2> SUFFICES ASSUME TypeOK, [Next]_vars PROVE TypeOK'
    OBVIOUS
  <2> DEFINE StoreOK == /\ store' \in [Shard -> SUBSET Row]
                        /\ \A sh \in Shard : \A r, t \in store'[sh] : SameId(r, t) => r = t
  <2>0. StoreOK /\ pending' = pending => TypeOK'
    BY DEF TypeOK, SameId
  <2> HIDE DEF StoreOK
  <2>1. ASSUME NEW ctx \in Contexts, NEW e \in Entities, Create(ctx, e)
        PROVE  TypeOK'
    <3>1. PICK s \in resolveForEntity(ctx, e) : Insert(s, e) /\ UNCHANGED pending
      BY <2>1 DEF Create
    <3>2. s \in Shard /\ e \in Row
      BY RouteInShard, InputAssumption DEF resolveForEntity
    <3> QED BY <3>1, <3>2, <2>0, InsertType DEF StoreOK
  <2>2. ASSUME NEW ctx \in Contexts, NEW e \in Entities, Save(ctx, e)
        PROVE  TypeOK'
    <3>1. PICK s \in resolveForEntity(ctx, e) :
            /\ Insert(s, e) \/ Upsert(s, {e})
            /\ UNCHANGED pending
      BY <2>2 DEF Save
    <3>2. s \in Shard /\ e \in Row
      BY RouteInShard, InputAssumption DEF resolveForEntity
    <3>3. {e} \in SUBSET Row /\ \A r, t \in {e} : SameId(r, t) => r = t
      BY <3>2
    <3> QED BY <3>1, <3>2, <3>3, <2>0, InsertType, UpsertType DEF StoreOK
  <2>3. ASSUME NEW ctx \in Contexts, NEW e \in Entities, Update(ctx, e)
        PROVE  TypeOK'
    <3>1. PICK s \in resolveForEntity(ctx, e) :
            UpdateRows(s, [r \in SelectId(s, e[IdColumn]) |-> Overlay(r, e)])
      BY <2>3 DEF Update
    <3>2. s \in Shard /\ e \in Row
      BY RouteInShard, InputAssumption DEF resolveForEntity
    <3> DEFINE f == [r \in SelectId(s, e[IdColumn]) |-> Overlay(r, e)]
    <3>3. DOMAIN f \subseteq store[s]
      BY DEF SelectId
    <3>4. \A r \in DOMAIN f : f[r] \in Row /\ SameId(f[r], r)
      BY <2>3, <3>2, OverlayType DEF Update
    <3>5. StoreOK
      <4> HIDE DEF f
      <4> QED BY <3>1, <3>2, <3>3, <3>4, UpdateType DEF StoreOK, f
    <3> QED BY <2>0, <2>3, <3>5 DEF Update
  <2>4. ASSUME NEW ctx \in Contexts, NEW e \in Entities, Delete(ctx, e)
        PROVE  TypeOK'
    <3>1. PICK s \in resolveForEntity(ctx, e) : DeleteRows(s, SelectId(s, e[IdColumn]))
      BY <2>4 DEF Delete
    <3>2. s \in Shard
      BY RouteInShard DEF resolveForEntity
    <3> QED BY <2>4, <3>1, <3>2, <2>0, DeleteType DEF StoreOK, Delete
  <2>5. ASSUME NEW ctx \in Contexts, NEW b \in Batches, BatchCreate(ctx, b)
        PROVE  TypeOK'
    <3>1. PICK s \in resolveForEntity(ctx, b[1]) :
            /\ \A r \in store[s], e \in Elems(b) : ~SameId(r, e)
            /\ Put(s, store[s] \cup Elems(b))
      BY <2>5 DEF BatchCreate
    <3>2. s \in Shard
      BY RouteInShard DEF resolveForEntity
    <3>3. store[s] \cup Elems(b) \in SUBSET Row
      BY <3>2, BatchType DEF TypeOK
    <3>4. \A r, t \in store[s] \cup Elems(b) : SameId(r, t) => r = t
      BY <3>1, <3>2, BatchType DEF TypeOK, SameId
    <3> QED BY <2>5, <3>1, <3>2, <3>3, <3>4, <2>0, PutType DEF StoreOK, BatchCreate
  <2>6. ASSUME NEW ctx \in Contexts, NEW b \in Batches, BatchSave(ctx, b)
        PROVE  TypeOK'
    <3>1. PICK s \in resolveForEntity(ctx, b[1]) : Upsert(s, Elems(b))
      BY <2>6 DEF BatchSave
    <3>2. s \in Shard
      BY RouteInShard DEF resolveForEntity
    <3> QED BY <2>6, <3>1, <3>2, <2>0, BatchType, UpsertType DEF StoreOK, BatchSave
  <2>7. ASSUME NEW ctx \in Contexts, NEW id \in Value, DeleteById(ctx, id)
        PROVE  TypeOK'
    <3>1. PICK s \in resolveForId(ctx, id) : DeleteRows(s, SelectId(s, id))
      BY <2>7 DEF DeleteById
    <3>2. s \in Shard
      BY RouteInShard DEF resolveForId
    <3> QED BY <2>7, <3>1, <3>2, <2>0, DeleteType DEF StoreOK, DeleteById
  <2>8. ASSUME NEW ctx \in Contexts, NEW id \in Value, NEW u \in Updates,
               UpdateById(ctx, id, u)
        PROVE  TypeOK'
    <3>1. PICK s \in resolveForId(ctx, id) :
            UpdateRows(s, [r \in SelectId(s, id) |-> Apply(r, u)])
      BY <2>8 DEF UpdateById
    <3>2. s \in Shard
      BY RouteInShard DEF resolveForId
    <3> DEFINE f == [r \in SelectId(s, id) |-> Apply(r, u)]
    <3>3. DOMAIN f \subseteq store[s]
      BY DEF SelectId
    <3>4. \A r \in DOMAIN f : f[r] \in Row /\ SameId(f[r], r)
      BY <3>2, <3>3, ApplyType DEF TypeOK
    <3>5. StoreOK
      <4> HIDE DEF f
      <4> QED BY <3>1, <3>2, <3>3, <3>4, UpdateType DEF StoreOK, f
    <3> QED BY <2>0, <2>8, <3>5 DEF UpdateById
  <2>9. ASSUME NEW ctx \in Contexts, NEW q \in Queries, DeleteByQuery(ctx, q)
        PROVE  TypeOK'
    <3>1. PICK s \in resolveForQuery(ctx, q) : DeleteRows(s, SelectWhere(s, q))
      BY <2>9 DEF DeleteByQuery
    <3>2. s \in Shard
      BY RouteInShard DEF resolveForQuery
    <3> QED BY <2>9, <3>1, <3>2, <2>0, DeleteType DEF StoreOK, DeleteByQuery
  <2>10. ASSUME NEW ctx \in Contexts, NEW q \in Queries, NEW u \in Updates,
                UpdateByQuery(ctx, q, u)
         PROVE  TypeOK'
    <3>1. PICK s \in resolveForQuery(ctx, q) :
            UpdateRows(s, [r \in SelectWhere(s, q) |-> Apply(r, u)])
      BY <2>10 DEF UpdateByQuery
    <3>2. s \in Shard
      BY RouteInShard DEF resolveForQuery
    <3> DEFINE f == [r \in SelectWhere(s, q) |-> Apply(r, u)]
    <3>3. DOMAIN f \subseteq store[s]
      BY DEF SelectWhere
    <3>4. \A r \in DOMAIN f : f[r] \in Row /\ SameId(f[r], r)
      BY <3>2, <3>3, ApplyType DEF TypeOK
    <3>5. StoreOK
      <4> HIDE DEF f
      <4> QED BY <3>1, <3>2, <3>3, <3>4, UpdateType DEF StoreOK, f
    <3> QED BY <2>0, <2>10, <3>5 DEF UpdateByQuery
  <2>11. ASSUME NEW cl \in Client, FirstOrCreateInsert(cl)
         PROVE  TypeOK'
    <3>1. pending[cl].shard \in Shard /\ pending[cl].row \in Row
      BY <2>11 DEF FirstOrCreateInsert, TypeOK
    <3>2. StoreOK
      BY <2>11, <3>1, InsertType DEF FirstOrCreateInsert, StoreOK, TypeOK
    <3>3. pending' \in [Client -> [shard : Shard, row : Row] \cup {NoCall}]
      BY <2>11 DEF FirstOrCreateInsert, TypeOK
    <3> QED BY <3>2, <3>3 DEF StoreOK, TypeOK, SameId
  <2>12. ASSUME NEW cl \in Client, NEW ctx \in Contexts, NEW e \in Entities, NEW q \in Queries,
                FirstOrCreateSelect(cl, ctx, e, q)
         PROVE  TypeOK'
    <3>1. PICK s \in resolveForEntityAndQuery(ctx, e, q), n \in Assigned(e, q) :
            pending' = [pending EXCEPT ![cl] = [shard |-> s, row |-> n]]
      BY <2>12 DEF FirstOrCreateSelect
    <3>2. s \in Shard /\ n \in Row
      BY <3>1, RouteInShard DEF resolveForEntityAndQuery, Assigned
    <3> QED BY <2>12, <3>1, <3>2 DEF FirstOrCreateSelect, TypeOK, SameId
  <2>13. CASE UNCHANGED vars
    BY <2>13 DEF vars, TypeOK, SameId
  <2> QED BY <2>1, <2>2, <2>3, <2>4, <2>5, <2>6, <2>7, <2>8, <2>9, <2>10, <2>11, <2>12, <2>13
          DEF Next
<1> QED BY <1>1, <1>2, PTL DEF Spec

-----------------------------------------------------------------------------
(* Placement.                                                              *)

(* A client inside FirstOrCreate is about to insert a row at its home.     *)
PendingPlaced ==
  \A cl \in Client : pending[cl] # NoCall =>
    /\ Home(pending[cl].row) = pending[cl].shard
    /\ IdColumn \in Required => pending[cl].row[IdColumn] # Zero

PlacementInv == TypeOK /\ Placement /\ PendingPlaced

(* The sharding columns of a row are a key.                                *)
LEMMA KeyOfRowType ==
  ASSUME NEW r \in Row
  PROVE  KeyOfRow(r) \in Key
BY RoutingAssumption DEF KeyOfRow, Key, Row

(* The entity comes first among the sources of a call, so its own values   *)
(* are the reference: a call about an entity goes to the entity's home.    *)
LEMMA EntityFirst ==
  ASSUME NEW e \in Row, NEW m, NEW ctx, NEW s \in resolve(merge(fromEntity(e), m), ctx)
  PROVE  /\ s = Home(e)
         /\ SameTarget(KeyOfRow(e), merge(fromEntity(e), m).all)
<1>1. PICK k \in Key : /\ s = resolveTarget(k)
                       /\ \A c \in Required : k[c] \in merge(fromEntity(e), m).first[c]
                       /\ SameTarget(k, merge(fromEntity(e), m).all)
  BY DEF resolve, reduceColumns
<1>2. \A c \in Required : merge(fromEntity(e), m).first[c] = {e[c]}
  BY RoutingAssumption DEF merge, fromEntity, Columns
<1>3. k = KeyOfRow(e)
  BY <1>1, <1>2 DEF Key, KeyOfRow
<1> QED BY <1>1, <1>3 DEF Home

(* A call with an entity goes to the entity's home.                        *)
LEMMA EntityHome ==
  ASSUME NEW e \in Row, NEW ctx, NEW s \in resolveForEntity(ctx, e)
  PROVE  s = Home(e)
BY EntityFirst DEF resolveForEntity

(* Rows that agree on the sharding columns have the same home.             *)
LEMMA SameKeyHome ==
  ASSUME NEW r \in Row, NEW t \in Row, \A c \in Required : r[c] = t[c]
  PROVE  Home(r) = Home(t)
<1>1. KeyOfRow(r) = KeyOfRow(t)
  BY DEF KeyOfRow
<1> QED BY <1>1 DEF Home

(* The id the database gives does not move a row.                          *)
LEMMA StoredHome ==
  ASSUME NEW e \in Row, NEW s \in Shard, NEW n \in Stored(e, s),
         IdColumn \in Required => e[IdColumn] # Zero
  PROVE  n \in Row /\ Home(n) = Home(e)
<1>1. n \in Row /\ \A c \in Required : n[c] = e[c]
  BY StoredRow, RoutingAssumption
<1> QED BY <1>1, SameKeyHome

(* Writing the non-zero fields of e over a row of e's home keeps the row   *)
(* there: each of its values is one of e's or one the row had.             *)
LEMMA OverlayHome ==
  ASSUME Rectangular, NEW r \in Row, NEW e \in Row, Home(r) = Home(e)
  PROVE  Home(Overlay(r, e)) = Home(e)
<1>1. Overlay(r, e) \in Row
  BY DEF Overlay, Row
<1> DEFINE k == KeyOfRow(e)
           l == KeyOfRow(Overlay(r, e))
<1>2. k \in Key /\ l \in Key /\ KeyOfRow(r) \in Key
  BY <1>1, KeyOfRowType
<1>3. resolveTarget(KeyOfRow(r)) = resolveTarget(k)
  BY DEF Home
<1>4. ASSUME NEW c \in Required
      PROVE  \E m \in Key : m[c] = l[c] /\ resolveTarget(m) = resolveTarget(k)
  <2>1. l[c] = IF e[c] = Zero THEN r[c] ELSE e[c]
    BY RoutingAssumption DEF KeyOfRow, Overlay
  <2>2. k[c] = e[c] /\ KeyOfRow(r)[c] = r[c]
    BY DEF KeyOfRow
  <2> QED BY <1>2, <1>3, <2>1, <2>2
<1>5. resolveTarget(l) = resolveTarget(k)
  <2> HIDE DEF k, l
  <2> QED BY <1>2, <1>4 DEF Rectangular
<1> QED BY <1>5 DEF Home

(* What FirstOrCreate inserts is at home where the entity is: every value  *)
(* it took from the query has passed the check of reduceColumns.           *)
LEMMA AssignedHome ==
  ASSUME Rectangular, NEW e \in Row, NEW q \in Query, NEW ctx,
         NEW s \in resolveForEntityAndQuery(ctx, e, q), NEW n \in Assigned(e, q)
  PROVE  n \in Row /\ Home(n) = s
<1> DEFINE m == merge(merge(fromEntity(e), ExtractColumnsFromQuery(q)), fromCtx(ctx))
           k == KeyOfRow(e)
           l == KeyOfRow(n)
<1>1. n \in Row /\ l \in Key /\ k \in Key
  BY KeyOfRowType DEF Assigned
<1>2. PICK j \in Key : /\ s = resolveTarget(j)
                       /\ \A c \in Required : j[c] \in m.first[c]
                       /\ SameTarget(j, m.all)
  BY DEF resolveForEntityAndQuery, resolve, reduceColumns
<1>3. \A c \in Required : m.first[c] = {e[c]}
  BY RoutingAssumption DEF merge, fromEntity, Columns
<1>4. j = k
  BY <1>2, <1>3 DEF Key, KeyOfRow
<1>5. ASSUME NEW c \in Required
      PROVE  n[c] \in m.all[c]
  <2>1. n[c] = e[c] \/ \E p \in q.parts : \E d \in p.conds :
                         /\ q.kw = "and" /\ p.kw = "and"
                         /\ d.col = c /\ d.op = "eq" /\ n[c] \in d.vals
    BY RoutingAssumption DEF Assigned, EqValues
  <2>2. CASE n[c] = e[c]
    BY <2>2, RoutingAssumption DEF merge, fromEntity, Columns
  <2>3. CASE n[c] # e[c]
    <3>1. n[c] \in ExtractColumnsFromQuery(q).all[c]
      BY <1>1, <2>1, <2>3, RoutingAssumption DEF ExtractColumnsFromQuery, Columns, Row
    <3> QED BY <3>1, RoutingAssumption DEF merge
  <2> QED BY <2>2, <2>3
<1>6. \A c \in Required : l[c] = n[c] /\ n[c] \in Value
  BY <1>1, RoutingAssumption DEF KeyOfRow, Row
<1>7. \A c \in Required : resolveTarget([k EXCEPT ![c] = l[c]]) = resolveTarget(k)
  BY <1>2, <1>4, <1>5, <1>6 DEF SameTarget
<1>8. ASSUME NEW c \in Required
      PROVE  \E i \in Key : i[c] = l[c] /\ resolveTarget(i) = resolveTarget(k)
  <2>1. [k EXCEPT ![c] = l[c]] \in Key /\ [k EXCEPT ![c] = l[c]][c] = l[c]
    BY <1>1, <1>6 DEF Key
  <2> QED BY <1>7, <2>1
<1>9. resolveTarget(l) = resolveTarget(k)
  <2> HIDE DEF k, l
  <2> QED BY <1>1, <1>8 DEF Rectangular
<1> QED BY <1>1, <1>2, <1>4, <1>9 DEF Home

(* A table whose rows are all at home keeps Placement.                     *)
LEMMA PutPlaced ==
  ASSUME TypeOK, Placement, NEW s \in Shard, NEW kept, Put(s, kept),
         \A r \in kept : Home(r) = s
  PROVE  Placement'
BY DEF TypeOK, Placement, Put, Home, resolveTarget, KeyOfRow

(* So does an insertion at home,                                           *)
LEMMA InsertPlaced ==
  ASSUME TypeOK, Placement, NEW e \in Row, NEW s \in Shard, s = Home(e), Insert(s, e),
         IdColumn \in Required => e[IdColumn] # Zero
  PROVE  Placement'
<1>1. PICK n \in Stored(e, s) : Put(s, store[s] \cup {n})
  BY DEF Insert
<1>2. \A r \in store[s] \cup {n} : Home(r) = s
  BY StoredHome DEF Placement
<1> QED BY <1>1, <1>2, PutPlaced

(* an upsert of rows at home,                                              *)
LEMMA UpsertPlaced ==
  ASSUME TypeOK, Placement, NEW s \in Shard, NEW E, \A e \in E : Home(e) = s, Upsert(s, E)
  PROVE  Placement'
<1>1. \A r \in ({r \in store[s] : \A e \in E : ~SameId(r, e)} \cup E) : Home(r) = s
  BY DEF Placement
<1> QED BY <1>1, PutPlaced DEF Upsert

(* an update that moves no row,                                            *)
LEMMA UpdatePlaced ==
  ASSUME TypeOK, Placement, NEW s \in Shard, NEW f, UpdateRows(s, f),
         \A r \in DOMAIN f : Home(f[r]) = s
  PROVE  Placement'
<1>1. \A r \in (store[s] \ DOMAIN f) \cup {f[r] : r \in DOMAIN f} : Home(r) = s
  BY DEF Placement
<1> QED BY <1>1, PutPlaced DEF UpdateRows

(* and a deletion.                                                         *)
LEMMA DeletePlaced ==
  ASSUME TypeOK, Placement, NEW s \in Shard, NEW R, DeleteRows(s, R)
  PROVE  Placement'
<1>1. \A r \in store[s] \ R : Home(r) = s
  BY DEF Placement
<1> QED BY <1>1, PutPlaced DEF DeleteRows

(* Updaters leave the sharding columns alone.                              *)
LEMMA ApplyHome ==
  ASSUME Disciplined, NEW r \in Row, NEW u \in Updates
  PROVE  Home(Apply(r, u)) = Home(r)
<1>1. Apply(r, u) \in Row
  BY ApplyType
<1>2. \A c \in Required : Apply(r, u)[c] = r[c]
  BY RoutingAssumption DEF Apply, Disciplined
<1> QED BY <1>1, <1>2, SameKeyHome

(* A disciplined batch goes to the home of all its entities.               *)
LEMMA BatchHome ==
  ASSUME Disciplined, NEW b \in Batches, b # <<>>, NEW ctx,
         NEW s \in resolveForEntity(ctx, b[1])
  PROVE  \A e \in Elems(b) : Home(e) = s
<1>1. b \in Seq(Row)
  BY InputAssumption
<1>2. b[1] \in Row
  BY <1>1
<1>3. s = Home(b[1])
  BY <1>2, EntityHome
<1> QED BY <1>3 DEF Disciplined, Elems

(* Every method of the store keeps rows and pending inserts at home.       *)
LEMMA PlacementStep ==
  ASSUME Disciplined, Rectangular, PlacementInv, TypeOK', [Next]_vars
  PROVE  PlacementInv'
<1> USE DEF PlacementInv
<1> SUFFICES Placement' /\ PendingPlaced'
  OBVIOUS
<1>0. pending' = pending => PendingPlaced'
  BY DEF PendingPlaced, Home, resolveTarget, KeyOfRow
<1>1. ASSUME NEW ctx \in Contexts, NEW e \in Entities, Create(ctx, e)
      PROVE  Placement' /\ PendingPlaced'
  <2>1. PICK s \in resolveForEntity(ctx, e) : Insert(s, e) /\ UNCHANGED pending
    BY <1>1 DEF Create
  <2>2. s \in Shard /\ e \in Row /\ s = Home(e)
    BY RouteInShard, InputAssumption, EntityHome DEF resolveForEntity
  <2> QED BY <1>0, <2>1, <2>2, InsertPlaced DEF Disciplined
<1>2. ASSUME NEW ctx \in Contexts, NEW e \in Entities, Save(ctx, e)
      PROVE  Placement' /\ PendingPlaced'
  <2>1. PICK s \in resolveForEntity(ctx, e) :
          /\ Insert(s, e) \/ Upsert(s, {e})
          /\ UNCHANGED pending
    BY <1>2 DEF Save
  <2>2. s \in Shard /\ e \in Row /\ s = Home(e)
    BY RouteInShard, InputAssumption, EntityHome DEF resolveForEntity
  <2> QED BY <1>0, <2>1, <2>2, InsertPlaced, UpsertPlaced DEF Disciplined
<1>3. ASSUME NEW ctx \in Contexts, NEW e \in Entities, Update(ctx, e)
      PROVE  Placement' /\ PendingPlaced'
  <2>1. PICK s \in resolveForEntity(ctx, e) :
          UpdateRows(s, [r \in SelectId(s, e[IdColumn]) |-> Overlay(r, e)])
    BY <1>3 DEF Update
  <2>2. s \in Shard /\ e \in Row /\ s = Home(e)
    BY RouteInShard, InputAssumption, EntityHome DEF resolveForEntity
  <2>3. \A r \in SelectId(s, e[IdColumn]) : r \in Row /\ Home(r) = s
    BY <2>2 DEF SelectId, Placement, TypeOK
  <2>4. \A r \in SelectId(s, e[IdColumn]) : Home(Overlay(r, e)) = s
    BY <2>2, <2>3, OverlayHome
  <2>5. Placement'
    BY <2>1, <2>2, <2>4, UpdatePlaced
  <2> QED BY <1>0, <1>3, <2>5 DEF Update
<1>4. ASSUME NEW ctx \in Contexts, NEW e \in Entities, Delete(ctx, e)
      PROVE  Placement' /\ PendingPlaced'
  <2>1. PICK s \in resolveForEntity(ctx, e) : DeleteRows(s, SelectId(s, e[IdColumn]))
    BY <1>4 DEF Delete
  <2>2. s \in Shard
    BY RouteInShard DEF resolveForEntity
  <2> QED BY <1>0, <1>4, <2>1, <2>2, DeletePlaced DEF Delete
<1>5. ASSUME NEW ctx \in Contexts, NEW b \in Batches, BatchCreate(ctx, b)
      PROVE  Placement' /\ PendingPlaced'
  <2>1. PICK s \in resolveForEntity(ctx, b[1]) : Put(s, store[s] \cup Elems(b))
    BY <1>5 DEF BatchCreate
  <2>2. s \in Shard
    BY RouteInShard DEF resolveForEntity
  <2>3. \A r \in store[s] \cup Elems(b) : Home(r) = s
    BY <1>5, <2>2, BatchHome DEF BatchCreate, Placement
  <2> QED BY <1>0, <1>5, <2>1, <2>2, <2>3, PutPlaced DEF BatchCreate
<1>6. ASSUME NEW ctx \in Contexts, NEW b \in Batches, BatchSave(ctx, b)
      PROVE  Placement' /\ PendingPlaced'
  <2>1. PICK s \in resolveForEntity(ctx, b[1]) : Upsert(s, Elems(b))
    BY <1>6 DEF BatchSave
  <2>2. s \in Shard
    BY RouteInShard DEF resolveForEntity
  <2>3. \A e \in Elems(b) : Home(e) = s
    BY <1>6, BatchHome DEF BatchSave
  <2> QED BY <1>0, <1>6, <2>1, <2>2, <2>3, UpsertPlaced DEF BatchSave
<1>7. ASSUME NEW ctx \in Contexts, NEW id \in Value, DeleteById(ctx, id)
      PROVE  Placement' /\ PendingPlaced'
  <2>1. PICK s \in resolveForId(ctx, id) : DeleteRows(s, SelectId(s, id))
    BY <1>7 DEF DeleteById
  <2>2. s \in Shard
    BY RouteInShard DEF resolveForId
  <2> QED BY <1>0, <1>7, <2>1, <2>2, DeletePlaced DEF DeleteById
<1>8. ASSUME NEW ctx \in Contexts, NEW id \in Value, NEW u \in Updates, UpdateById(ctx, id, u)
      PROVE  Placement' /\ PendingPlaced'
  <2>1. PICK s \in resolveForId(ctx, id) :
          UpdateRows(s, [r \in SelectId(s, id) |-> Apply(r, u)])
    BY <1>8 DEF UpdateById
  <2>2. s \in Shard
    BY RouteInShard DEF resolveForId
  <2>3. \A r \in SelectId(s, id) : Home(Apply(r, u)) = s
    BY <2>2, ApplyHome DEF SelectId, Placement, TypeOK
  <2>4. Placement'
    BY <2>1, <2>2, <2>3, UpdatePlaced
  <2> QED BY <1>0, <1>8, <2>4 DEF UpdateById
<1>9. ASSUME NEW ctx \in Contexts, NEW q \in Queries, DeleteByQuery(ctx, q)
      PROVE  Placement' /\ PendingPlaced'
  <2>1. PICK s \in resolveForQuery(ctx, q) : DeleteRows(s, SelectWhere(s, q))
    BY <1>9 DEF DeleteByQuery
  <2>2. s \in Shard
    BY RouteInShard DEF resolveForQuery
  <2> QED BY <1>0, <1>9, <2>1, <2>2, DeletePlaced DEF DeleteByQuery
<1>10. ASSUME NEW ctx \in Contexts, NEW q \in Queries, NEW u \in Updates,
              UpdateByQuery(ctx, q, u)
       PROVE  Placement' /\ PendingPlaced'
  <2>1. PICK s \in resolveForQuery(ctx, q) :
          UpdateRows(s, [r \in SelectWhere(s, q) |-> Apply(r, u)])
    BY <1>10 DEF UpdateByQuery
  <2>2. s \in Shard
    BY RouteInShard DEF resolveForQuery
  <2>3. \A r \in SelectWhere(s, q) : Home(Apply(r, u)) = s
    BY <2>2, ApplyHome DEF SelectWhere, Placement, TypeOK
  <2>4. Placement'
    BY <2>1, <2>2, <2>3, UpdatePlaced
  <2> QED BY <1>0, <1>10, <2>4 DEF UpdateByQuery
<1>11. ASSUME NEW cl \in Client, FirstOrCreateInsert(cl)
       PROVE  Placement' /\ PendingPlaced'
  <2>1. /\ pending[cl].shard \in Shard /\ pending[cl].row \in Row
        /\ Home(pending[cl].row) = pending[cl].shard
        /\ IdColumn \in Required => pending[cl].row[IdColumn] # Zero
    BY <1>11 DEF FirstOrCreateInsert, TypeOK, PendingPlaced
  <2>2. Placement'
    <3>1. CASE Insert(pending[cl].shard, pending[cl].row)
      BY <2>1, <3>1, InsertPlaced
    <3>2. CASE UNCHANGED store
      BY <3>2 DEF Placement, Home, resolveTarget, KeyOfRow
    <3> QED BY <1>11, <3>1, <3>2 DEF FirstOrCreateInsert
  <2>3. PendingPlaced'
    BY <1>11 DEF FirstOrCreateInsert, PendingPlaced, TypeOK, Home, resolveTarget, KeyOfRow
  <2> QED BY <2>2, <2>3
<1>12. ASSUME NEW cl \in Client, NEW ctx \in Contexts, NEW e \in Entities, NEW q \in Queries,
              FirstOrCreateSelect(cl, ctx, e, q)
       PROVE  Placement' /\ PendingPlaced'
  <2>1. PICK s \in resolveForEntityAndQuery(ctx, e, q), n \in Assigned(e, q) :
          pending' = [pending EXCEPT ![cl] = [shard |-> s, row |-> n]]
    BY <1>12 DEF FirstOrCreateSelect
  <2>2. e \in Row /\ q \in Query
    BY InputAssumption
  <2>3. n \in Row /\ Home(n) = s
    BY <2>2, AssignedHome
  <2>4. IdColumn \in Required => n[IdColumn] # Zero
    <3>1. n[IdColumn] = e[IdColumn] \/ n[IdColumn] \in EqValues(q, IdColumn)
      BY RoutingAssumption DEF Assigned
    <3>2. IdColumn \in Required => Zero \notin EqValues(q, IdColumn)
      BY DEF EqValues, Disciplined
    <3> QED BY <3>1, <3>2 DEF Disciplined
  <2>5. PendingPlaced'
    BY <2>1, <2>3, <2>4 DEF PendingPlaced, TypeOK, Home, resolveTarget, KeyOfRow
  <2>6. Placement'
    BY <1>12 DEF FirstOrCreateSelect, Placement, Home, resolveTarget, KeyOfRow
  <2> QED BY <2>5, <2>6
<1>13. CASE UNCHANGED vars
  BY <1>13, <1>0 DEF vars, Placement, Home, resolveTarget, KeyOfRow
<1> QED BY <1>1, <1>2, <1>3, <1>4, <1>5, <1>6, <1>7, <1>8, <1>9, <1>10, <1>11, <1>12, <1>13
        DEF Next

(* Under disciplined callers and rules of the usual shape, every row of    *)
(* every reachable store lies in the table its own columns route to.       *)
THEOREM PlacementCorrect ==
  ASSUME Disciplined, Rectangular
  PROVE  Spec => []Placement
<1>1. Init => PlacementInv
  <2>1. Init => TypeOK
    BY DEF Init, TypeOK
  <2>2. Init => Placement /\ PendingPlaced
    BY DEF Init, Placement, PendingPlaced
  <2> QED BY <2>1, <2>2 DEF PlacementInv
<1>2. PlacementInv /\ TypeOK' /\ [Next]_vars => PlacementInv'
  BY PlacementStep
<1>3. PlacementInv => Placement
  BY DEF PlacementInv
<1> QED BY <1>1, <1>2, <1>3, TypeCorrect, PTL DEF Spec

-----------------------------------------------------------------------------
(* Routed reads.                                                           *)

(* A row a restrictive query selects has, in every column the query gives  *)
(* values for, one of those values.                                        *)
LEMMA ValueMentioned ==
  ASSUME NEW q \in Query, Restrictive(q), NEW r \in Row, Matches(r, q),
         NEW c \in Required, ExtractColumnsFromQuery(q).all[c] # {}
  PROVE  r[c] \in ExtractColumnsFromQuery(q).all[c]
<1>1. c \in Column /\ r[c] \in Value /\ q.kw = "and"
  BY RoutingAssumption DEF Row, Restrictive
<1>2. PICK p \in q.parts : \E d \in p.conds :
        p.kw # "not" /\ d.col = c /\ d.op \in {"eq", "in"}
  BY <1>1 DEF ExtractColumnsFromQuery, Columns
<1>3. PICK d \in p.conds : d.col = c /\ d.op \in {"eq", "in"}
  BY <1>2
<1>4. HoldsPart(r, p) /\ p.kw \in {"and", "or"}
  BY <1>1, <1>2 DEF Matches, Query, Part, Keyword
<1>5. \E x \in p.conds : x.col = c /\ x.op \in {"eq", "in"} /\ Holds(r, x)
  <2>1. CASE p.kw = "and"
    BY <1>3, <1>4, <2>1 DEF HoldsPart
  <2>2. CASE p.kw = "or"
    <3>1. PICK x \in p.conds : Holds(r, x)
      BY <1>4, <2>2 DEF HoldsPart
    <3>2. x.col = d.col /\ x.op \in {"eq", "in"}
      BY <1>3, <2>2 DEF Restrictive
    <3> QED BY <1>3, <3>1, <3>2
  <2> QED BY <1>4, <2>1, <2>2
<1>6. \E x \in p.conds : x.col = c /\ x.op \in {"eq", "in"} /\ r[c] \in x.vals
  BY <1>5 DEF Holds
<1> QED BY <1>1, <1>2, <1>6 DEF ExtractColumnsFromQuery, Columns

(* A row that matches a restrictive query is at home where the query goes. *)
LEMMA MatchesHome ==
  ASSUME Rectangular, NEW q \in Query, Restrictive(q), NEW r \in Row, Matches(r, q),
         NEW s \in resolveForQuery(NoKey, q)
  PROVE  Home(r) = s
<1> DEFINE x == ExtractColumnsFromQuery(q)
           m == merge(x, fromCtx(NoKey))
           l == KeyOfRow(r)
<1>1. PICK k \in Key : /\ s = resolveTarget(k)
                       /\ \A c \in Required : k[c] \in m.first[c]
                       /\ SameTarget(k, m.all)
  BY DEF resolveForQuery, resolve, reduceColumns
<1>2. \A c \in Required : m.first[c] = x.all[c] /\ m.all[c] = x.all[c]
  BY RoutingAssumption DEF merge, fromCtx, Columns, ExtractColumnsFromQuery
<1>3. \A c \in Required : r[c] \in x.all[c]
  BY <1>1, <1>2, ValueMentioned
<1>4. l \in Key /\ \A c \in Required : l[c] = r[c] /\ l[c] \in Value
  BY RoutingAssumption, KeyOfRowType DEF KeyOfRow, Row
<1>5. ASSUME NEW c \in Required
      PROVE  \E i \in Key : i[c] = l[c] /\ resolveTarget(i) = resolveTarget(k)
  <2>1. [k EXCEPT ![c] = l[c]] \in Key /\ [k EXCEPT ![c] = l[c]][c] = l[c]
    BY <1>4 DEF Key
  <2>2. resolveTarget([k EXCEPT ![c] = l[c]]) = resolveTarget(k)
    BY <1>1, <1>2, <1>3, <1>4 DEF SameTarget
  <2> QED BY <2>1, <2>2
<1>6. resolveTarget(l) = resolveTarget(k)
  <2> HIDE DEF l
  <2> QED BY <1>4, <1>5 DEF Rectangular
<1> QED BY <1>1, <1>6 DEF Home

(* A Find, Count or Exists that routing accepts without a ShardingKey sees *)
(* every row of the store its restrictive query selects; a DeleteByQuery   *)
(* or UpdateByQuery, which routes alike, misses none.                      *)
THEOREM RoutedReadsCorrect ==
  ASSUME Disciplined, Rectangular
  PROVE  Spec => []RoutedReadsComplete
<1>1. TypeOK /\ Placement => RoutedReadsComplete
  <2> SUFFICES ASSUME TypeOK, Placement, NEW q \in Queries, Restrictive(q),
                      NEW s \in resolveForQuery(NoKey, q)
               PROVE  SelectWhere(s, q) = {r \in AllRows : Matches(r, q)}
    BY DEF RoutedReadsComplete, Find
  <2>1. s \in Shard /\ q \in Query
    BY RouteInShard, InputAssumption DEF resolveForQuery
  <2>2. ASSUME NEW t \in Shard, NEW r \in store[t], Matches(r, q)
        PROVE  r \in store[s]
    <3>1. r \in Row /\ Home(r) = t
      BY DEF TypeOK, Placement
    <3>2. Home(r) = s
      BY <2>1, <2>2, <3>1, MatchesHome
    <3> QED BY <3>1, <3>2
  <2> QED BY <2>1, <2>2 DEF SelectWhere, AllRows
<1> QED BY <1>1, TypeCorrect, PlacementCorrect, PTL

-----------------------------------------------------------------------------
(* The store as one table.                                                 *)

(* The rows of a physical table are those of the store at home there, so   *)
(* writing one table leaves the rows of every other place alone.           *)
LEMMA RowsAt ==
  ASSUME TypeOK, Placement, NEW s \in Shard
  PROVE  /\ AllRows \subseteq Row
         /\ store[s] = {r \in AllRows : HomeOf[r] = s}
         /\ \A r \in AllRows : HomeOf[r] = Home(r)
<1>1. AllRows \subseteq Row
  BY DEF TypeOK, AllRows
<1>2. \A r \in AllRows : HomeOf[r] = Home(r)
  BY <1>1 DEF HomeOf
<1>3. \A t \in Shard : \A r \in store[t] : Home(r) = t
  BY DEF Placement
<1>4. store[s] = {r \in AllRows : HomeOf[r] = s}
  BY <1>2, <1>3 DEF AllRows
<1> QED BY <1>1, <1>2, <1>4

LEMMA PutRows ==
  ASSUME TypeOK, Placement, NEW s \in Shard, NEW kept, Put(s, kept)
  PROVE  AllRows' = {r \in AllRows : HomeOf[r] # s} \cup kept
<1>1. \A t \in Shard : store'[t] = IF t = s THEN kept ELSE store[t]
  BY DEF Put, TypeOK
<1>2. AllRows' = UNION {store'[t] : t \in Shard}
  BY DEF AllRows
<1>3. ASSUME NEW r
      PROVE  r \in AllRows' <=> r \in {x \in AllRows : HomeOf[x] # s} \cup kept
  <2>1. r \in AllRows' <=> \E t \in Shard : r \in store'[t]
    BY <1>2
  <2>2. r \in AllRows' <=> r \in kept \/ \E t \in Shard \ {s} : r \in store[t]
    BY <1>1, <2>1
  <2>3. \A t \in Shard : r \in store[t] <=> r \in AllRows /\ HomeOf[r] = t
    BY RowsAt
  <2>4. r \in AllRows => \E t \in Shard : r \in store[t]
    BY DEF AllRows
  <2> QED BY <2>2, <2>3, <2>4
<1> QED BY <1>3

(* Two rows are the same row of the logical table when they have one home  *)
(* and one id.                                                             *)
LEMMA SameRow ==
  ASSUME NEW r \in Row, NEW t \in Row
  PROVE  Logical!Same(r, t) <=> Home(r) = Home(t) /\ SameId(r, t)
BY DEF Logical!Same, HomeOf, IdOf, SameId

LEMMA WritesTogether ==
  ASSUME NEW s \in Shard, NEW E \in SUBSET Row, \A e \in E : Home(e) = s,
         \A r, t \in E : SameId(r, t) => r = t
  PROVE  Logical!Together(E)
<1>1. ASSUME NEW d \in E, NEW e \in E
      PROVE  HomeOf[d] = HomeOf[e] /\ (Logical!Same(d, e) => d = e)
  BY SameRow DEF HomeOf
<1> QED BY <1>1 DEF Logical!Together

(* An INSERT of rows at home adds them to the logical table,               *)
LEMMA InsertLogical ==
  ASSUME TypeOK, Placement, NEW s \in Shard, NEW E \in Written, E \subseteq Row,
         \A e \in E : Home(e) = s, \A r, t \in E : SameId(r, t) => r = t,
         \A r \in store[s], e \in E : ~SameId(r, e), Put(s, store[s] \cup E)
  PROVE  Logical!Next
<1>1. AllRows' = AllRows \cup E
  BY RowsAt, PutRows
<1>2. ASSUME NEW e \in E, NEW r \in AllRows
      PROVE  ~Logical!Same(e, r)
  <2>1. r \in Row /\ (Home(r) = s => r \in store[s])
    BY RowsAt
  <2> QED BY <2>1, SameRow DEF SameId
<1>3. Logical!Insert(E)
  BY <1>1, <1>2 DEF Logical!Insert
<1>4. Logical!Together(E) /\ E \in Written \cap SUBSET AllRows'
  BY <1>1, WritesTogether
<1> QED BY <1>3, <1>4 DEF Logical!Next

(* an upsert replaces the rows of its ids there,                           *)
LEMMA UpsertLogical ==
  ASSUME TypeOK, Placement, NEW s \in Shard, NEW E \in Written, E \subseteq Row,
         \A e \in E : Home(e) = s, \A r, t \in E : SameId(r, t) => r = t,
         Upsert(s, E)
  PROVE  Logical!Next
<1> DEFINE kept == {r \in store[s] : \A e \in E : ~SameId(r, e)} \cup E
<1>1. AllRows' = {r \in AllRows : HomeOf[r] # s} \cup kept
  BY PutRows DEF Upsert
<1>2. ASSUME NEW r \in AllRows
      PROVE  (HomeOf[r] # s \/ r \in {x \in store[s] : \A e \in E : ~SameId(x, e)})
                <=> \A e \in E : ~Logical!Same(e, r)
  <2>1. r \in Row /\ HomeOf[r] = Home(r) /\ (r \in store[s] <=> Home(r) = s)
    BY RowsAt
  <2>2. \A e \in E : Logical!Same(e, r) <=> Home(r) = s /\ SameId(r, e)
    BY <2>1, SameRow DEF SameId
  <2> QED BY <2>1, <2>2
<1>3. {x \in store[s] : \A e \in E : ~SameId(x, e)} \subseteq AllRows
  BY DEF AllRows
<1>4. AllRows' = {r \in AllRows : \A e \in E : ~Logical!Same(e, r)} \cup E
  BY <1>1, <1>2, <1>3
<1>5. Logical!Replace(E)
  BY <1>4 DEF Logical!Replace
<1>6. Logical!Together(E) /\ E \in Written \cap SUBSET AllRows'
  BY <1>4, WritesTogether
<1> QED BY <1>5, <1>6 DEF Logical!Next

(* What a statement selects in its table is what its condition describes   *)
(* at that place of the logical table.                                     *)
LEMMA SelectsAt ==
  ASSUME TypeOK, Placement, NEW s \in Shard, NEW D
  PROVE  Logical!At(s, D) = store[s] \cap D
BY RowsAt DEF Logical!At

(* an UPDATE that moves no row and keeps the ids changes them,             *)
LEMMA UpdateLogical ==
  ASSUME TypeOK, Placement, NEW s \in Shard, NEW D \in Named, NEW f \in Changed, NEW g,
         UpdateRows(s, g), DOMAIN g = store[s] \cap D,
         \A r \in DOMAIN g :
            g[r] = f[r] /\ g[r] \in Row /\ SameId(g[r], r) /\ Home(g[r]) = s
  PROVE  Logical!Next
<1> DEFINE old == Logical!At(s, D)
<1>1. old = DOMAIN g /\ old \subseteq store[s]
  BY SelectsAt
<1>2. AllRows' = {r \in AllRows : HomeOf[r] # s}
                   \cup ((store[s] \ DOMAIN g) \cup {g[r] : r \in DOMAIN g})
  BY PutRows DEF UpdateRows
<1>3. {g[r] : r \in DOMAIN g} = {f[r] : r \in old}
  BY <1>1
<1>4. AllRows' = (AllRows \ old) \cup {f[r] : r \in old}
  <2> HIDE DEF old
  <2>1. AllRows \ old = {r \in AllRows : HomeOf[r] # s} \cup (store[s] \ old)
    BY <1>1, RowsAt
  <2> QED BY <1>1, <1>2, <1>3, <2>1
<1>5. ASSUME NEW r \in old
      PROVE  Logical!Same(f[r], r)
  <2>1. r \in Row /\ Home(r) = s /\ f[r] \in Row /\ SameId(f[r], r) /\ Home(f[r]) = s
    BY <1>1, RowsAt DEF Placement
  <2> QED BY <2>1, SameRow
<1>6. Logical!Change(s, D, f)
  BY <1>4, <1>5 DEF Logical!Change
<1>7. \A r \in AllRows \ AllRows' : HomeOf[r] = s
  BY <1>2
<1> QED BY <1>6, <1>7 DEF Logical!Next

(* and a DELETE removes them.                                              *)
LEMMA DeleteLogical ==
  ASSUME TypeOK, Placement, NEW s \in Shard, NEW D \in Named,
         DeleteRows(s, store[s] \cap D)
  PROVE  Logical!Next
<1>1. AllRows' = {r \in AllRows : HomeOf[r] # s} \cup (store[s] \ (store[s] \cap D))
  BY PutRows DEF DeleteRows
<1>2. AllRows' = AllRows \ Logical!At(s, D)
  BY <1>1, RowsAt, SelectsAt
<1>3. Logical!Remove(s, D)
  BY <1>2 DEF Logical!Remove
<1>4. \A r \in AllRows \ AllRows' : HomeOf[r] = s
  BY <1>1
<1> QED BY <1>3, <1>4 DEF Logical!Next

(* What the database stores for an entity at home is one new row there.    *)
LEMMA InsertOne ==
  ASSUME TypeOK, Placement, NEW e \in Row, NEW s \in Shard, s = Home(e), Insert(s, e),
         IdColumn \in Required => e[IdColumn] # Zero
  PROVE  Logical!Next
<1>1. PICK n \in Stored(e, s) : Put(s, store[s] \cup {n})
  BY DEF Insert
<1>2. n \in Row /\ Home(n) = s /\ \A r \in store[s] : ~SameId(r, n)
  BY StoredRow, StoredHome
<1>3. {n} \in Written
  BY <1>2 DEF Written
<1> QED BY <1>1, <1>2, <1>3, InsertLogical

(* A selection by id or by query is described to the logical table.        *)
LEMMA SelectNamed ==
  ASSUME TypeOK, NEW s \in Shard
  PROVE  /\ \A id \in Value : \E D \in Named : SelectId(s, id) = store[s] \cap D
         /\ \A q \in Queries : \E D \in Named : SelectWhere(s, q) = store[s] \cap D
<1>1. store[s] \subseteq Row
  BY DEF TypeOK
<1>2. ASSUME NEW id \in Value
      PROVE  \E D \in Named : SelectId(s, id) = store[s] \cap D
  <2>1. {r \in Row : r[IdColumn] = id} \in Named
    BY DEF Named
  <2>2. SelectId(s, id) = store[s] \cap {r \in Row : r[IdColumn] = id}
    BY <1>1 DEF SelectId
  <2> QED BY <2>1, <2>2
<1>3. ASSUME NEW q \in Queries
      PROVE  \E D \in Named : SelectWhere(s, q) = store[s] \cap D
  <2>1. {r \in Row : Matches(r, q)} \in Named
    BY DEF Named
  <2>2. SelectWhere(s, q) = store[s] \cap {r \in Row : Matches(r, q)}
    BY <1>1 DEF SelectWhere
  <2> QED BY <2>1, <2>2
<1> QED BY <1>2, <1>3

(* An updater applied to what was selected changes the rows it named.      *)
LEMMA ApplyLogical ==
  ASSUME Disciplined, TypeOK, Placement, NEW s \in Shard, NEW D \in Named, NEW u \in Updates,
         UpdateRows(s, [r \in store[s] \cap D |-> Apply(r, u)])
  PROVE  Logical!Next
<1> DEFINE f == [r \in Row |-> Apply(r, u)]
           g == [r \in store[s] \cap D |-> Apply(r, u)]
<1>1. f \in Changed
  BY DEF Changed
<1>2. \A r \in store[s] \cap D : /\ r \in Row /\ g[r] = f[r]
                                 /\ g[r] \in Row /\ SameId(g[r], r) /\ Home(g[r]) = s
  BY ApplyType, ApplyHome DEF TypeOK, Placement
<1>3. DOMAIN g = store[s] \cap D /\ UpdateRows(s, g)
  OBVIOUS
<1> HIDE DEF f, g
<1> QED BY <1>1, <1>2, <1>3, UpdateLogical

(* Every call is one statement on the logical table, or changes nothing.   *)
LEMMA StepLogical ==
  ASSUME Disciplined, Rectangular, PlacementInv, [Next]_vars
  PROVE  [Logical!Next]_AllRows
<1> USE DEF PlacementInv
<1>0. UNCHANGED store => UNCHANGED AllRows
  BY DEF AllRows
<1>1. ASSUME NEW ctx \in Contexts, NEW e \in Entities, Create(ctx, e)
      PROVE  Logical!Next
  <2>1. PICK s \in resolveForEntity(ctx, e) : Insert(s, e)
    BY <1>1 DEF Create
  <2>2. s \in Shard /\ e \in Row /\ s = Home(e)
    BY RouteInShard, InputAssumption, EntityHome DEF resolveForEntity
  <2> QED BY <2>1, <2>2, InsertOne DEF Disciplined
<1>2. ASSUME NEW ctx \in Contexts, NEW e \in Entities, Save(ctx, e)
      PROVE  Logical!Next
  <2>1. PICK s \in resolveForEntity(ctx, e) : Insert(s, e) \/ Upsert(s, {e})
    BY <1>2 DEF Save
  <2>2. s \in Shard /\ e \in Row /\ s = Home(e) /\ {e} \in Written
    BY RouteInShard, InputAssumption, EntityHome DEF resolveForEntity, Written
  <2>3. CASE Insert(s, e)
    BY <2>2, <2>3, InsertOne DEF Disciplined
  <2>4. CASE Upsert(s, {e})
    BY <2>2, <2>4, UpsertLogical
  <2> QED BY <2>1, <2>3, <2>4
<1>3. ASSUME NEW ctx \in Contexts, NEW e \in Entities, Update(ctx, e)
      PROVE  Logical!Next
  <2> DEFINE id == e[IdColumn]
             f  == [r \in Row |-> Overlay(r, e)]
  <2>1. PICK s \in resolveForEntity(ctx, e) :
          UpdateRows(s, [r \in SelectId(s, id) |-> Overlay(r, e)])
    BY <1>3 DEF Update
  <2>2. s \in Shard /\ e \in Row /\ s = Home(e) /\ id \in Value /\ f \in Changed
    BY RouteInShard, InputAssumption, EntityHome, RoutingAssumption
       DEF resolveForEntity, Changed, Row
  <2>3. PICK D \in Named : SelectId(s, id) = store[s] \cap D
    BY <2>2, SelectNamed
  <2>4. \A r \in SelectId(s, id) : /\ r \in Row /\ Home(r) = s
                                   /\ Overlay(r, e) \in Row /\ SameId(Overlay(r, e), r)
    BY <1>3, <2>2, OverlayType DEF SelectId, Placement, TypeOK, Update
  <2>5. \A r \in SelectId(s, id) : f[r] = Overlay(r, e) /\ Home(Overlay(r, e)) = s
    BY <2>2, <2>4, OverlayHome
  <2> DEFINE g == [r \in SelectId(s, id) |-> Overlay(r, e)]
  <2>6. UpdateRows(s, g) /\ DOMAIN g = store[s] \cap D
    BY <2>1, <2>3
  <2>7. \A r \in DOMAIN g : /\ g[r] = f[r] /\ g[r] \in Row
                            /\ SameId(g[r], r) /\ Home(g[r]) = s
    BY <2>4, <2>5
  <2> HIDE DEF f, g, id
  <2> QED BY <2>2, <2>6, <2>7, UpdateLogical
<1>4. ASSUME NEW ctx \in Contexts, NEW e \in Entities, Delete(ctx, e)
      PROVE  Logical!Next
  <2>1. PICK s \in resolveForEntity(ctx, e) : DeleteRows(s, SelectId(s, e[IdColumn]))
    BY <1>4 DEF Delete
  <2>2. s \in Shard /\ e[IdColumn] \in Value
    BY RouteInShard, InputAssumption, RoutingAssumption DEF resolveForEntity, Row
  <2> QED BY <2>1, <2>2, SelectNamed, DeleteLogical
<1>5. ASSUME NEW ctx \in Contexts, NEW b \in Batches, BatchCreate(ctx, b)
      PROVE  Logical!Next
  <2>1. PICK s \in resolveForEntity(ctx, b[1]) :
          /\ \A r \in store[s], e \in Elems(b) : ~SameId(r, e)
          /\ Put(s, store[s] \cup Elems(b))
    BY <1>5 DEF BatchCreate
  <2>2. s \in Shard /\ Elems(b) \in Written
    BY RouteInShard DEF resolveForEntity, Written
  <2>3. \A e \in Elems(b) : Home(e) = s
    BY <1>5, BatchHome DEF BatchCreate
  <2> QED BY <2>1, <2>2, <2>3, BatchType, InsertLogical
<1>6. ASSUME NEW ctx \in Contexts, NEW b \in Batches, BatchSave(ctx, b)
      PROVE  Logical!Next
  <2>1. PICK s \in resolveForEntity(ctx, b[1]) : Upsert(s, Elems(b))
    BY <1>6 DEF BatchSave
  <2>2. s \in Shard /\ Elems(b) \in Written
    BY RouteInShard DEF resolveForEntity, Written
  <2>3. \A e \in Elems(b) : Home(e) = s
    BY <1>6, BatchHome DEF BatchSave
  <2> QED BY <2>1, <2>2, <2>3, BatchType, UpsertLogical
<1>7. ASSUME NEW ctx \in Contexts, NEW id \in Value, DeleteById(ctx, id)
      PROVE  Logical!Next
  <2>1. PICK s \in resolveForId(ctx, id) : DeleteRows(s, SelectId(s, id))
    BY <1>7 DEF DeleteById
  <2>2. s \in Shard
    BY RouteInShard DEF resolveForId
  <2> QED BY <2>1, <2>2, SelectNamed, DeleteLogical
<1>8. ASSUME NEW ctx \in Contexts, NEW id \in Value, NEW u \in Updates, UpdateById(ctx, id, u)
      PROVE  Logical!Next
  <2>1. PICK s \in resolveForId(ctx, id) :
          UpdateRows(s, [r \in SelectId(s, id) |-> Apply(r, u)])
    BY <1>8 DEF UpdateById
  <2>2. s \in Shard
    BY RouteInShard DEF resolveForId
  <2>3. PICK D \in Named : SelectId(s, id) = store[s] \cap D
    BY <2>2, SelectNamed
  <2> QED BY <2>1, <2>2, <2>3, ApplyLogical
<1>9. ASSUME NEW ctx \in Contexts, NEW q \in Queries, DeleteByQuery(ctx, q)
      PROVE  Logical!Next
  <2>1. PICK s \in resolveForQuery(ctx, q) : DeleteRows(s, SelectWhere(s, q))
    BY <1>9 DEF DeleteByQuery
  <2>2. s \in Shard
    BY RouteInShard DEF resolveForQuery
  <2> QED BY <2>1, <2>2, SelectNamed, DeleteLogical
<1>10. ASSUME NEW ctx \in Contexts, NEW q \in Queries, NEW u \in Updates,
              UpdateByQuery(ctx, q, u)
       PROVE  Logical!Next
  <2>1. PICK s \in resolveForQuery(ctx, q) :
          UpdateRows(s, [r \in SelectWhere(s, q) |-> Apply(r, u)])
    BY <1>10 DEF UpdateByQuery
  <2>2. s \in Shard
    BY RouteInShard DEF resolveForQuery
  <2>3. PICK D \in Named : SelectWhere(s, q) = store[s] \cap D
    BY <2>2, SelectNamed
  <2> QED BY <2>1, <2>2, <2>3, ApplyLogical
<1>11. ASSUME NEW cl \in Client, FirstOrCreateInsert(cl)
       PROVE  [Logical!Next]_AllRows
  <2>1. /\ pending[cl].shard \in Shard /\ pending[cl].row \in Row
        /\ Home(pending[cl].row) = pending[cl].shard
        /\ IdColumn \in Required => pending[cl].row[IdColumn] # Zero
    BY <1>11 DEF FirstOrCreateInsert, TypeOK, PendingPlaced
  <2>2. CASE Insert(pending[cl].shard, pending[cl].row)
    BY <2>1, <2>2, InsertOne
  <2>3. CASE UNCHANGED store
    BY <1>0, <2>3
  <2> QED BY <1>11, <2>2, <2>3 DEF FirstOrCreateInsert
<1>12. ASSUME NEW cl \in Client, NEW ctx \in Contexts, NEW e \in Entities, NEW q \in Queries,
              FirstOrCreateSelect(cl, ctx, e, q)
       PROVE  UNCHANGED AllRows
  BY <1>0, <1>12 DEF FirstOrCreateSelect
<1>13. CASE UNCHANGED vars
  BY <1>0, <1>13 DEF vars
<1> QED BY <1>1, <1>2, <1>3, <1>4, <1>5, <1>6, <1>7, <1>8, <1>9, <1>10, <1>11, <1>12, <1>13
        DEF Next

(* Under disciplined callers and rules of the usual shape the sharded      *)
(* store is one table to its callers: rows are told apart by home and id,  *)
(* and each call writes, changes or removes there what it named and        *)
(* nothing else, whatever shards and calls there are.                      *)
THEOREM ShardingIsTransparent ==
  ASSUME Disciplined, Rectangular
  PROVE  Spec => ImplementsLogicalTable
<1>1. Init => PlacementInv /\ Logical!Init
  <2>1. Init => TypeOK /\ Logical!Init
    BY DEF Init, TypeOK, Logical!Init, AllRows
  <2>2. Init => Placement /\ PendingPlaced
    BY DEF Init, Placement, PendingPlaced
  <2> QED BY <2>1, <2>2 DEF PlacementInv
<1>2. PlacementInv /\ TypeOK' /\ [Next]_vars => PlacementInv'
  BY PlacementStep
<1>3. PlacementInv /\ [Next]_vars => [Logical!Next]_AllRows
  BY StepLogical
<1> QED BY <1>1, <1>2, <1>3, TypeCorrect, PTL DEF Spec, Logical!Spec, ImplementsLogicalTable

-----------------------------------------------------------------------------
(* FindAll and CountAll.                                                   *)

Copies == IF idSelected THEN 1 ELSE 2

Sound(s) == \A i \in Id : rows[s][i] <= Copies /\ (rows[s][i] > 0 => i \in ever[s])

(* What a goroutine has collected so far: the rows up to its cursor, and   *)
(* perhaps the first page behind a cursor that was zero.                   *)
Ahead(s) == IF cursor[s] = Nil \/ idSelected THEN 0 ELSE 1

Swept(s) == \A i \in Id : /\ i <= cursor[s] /\ i \in stable[s] => rows[s][i] # 0
                          /\ i > cursor[s] => rows[s][i] <= Ahead(s)

Whole(s) == \A i \in stable[s] : rows[s][i] # 0

History == \A s \in Table : stable[s] \subseteq table[s] /\ table[s] \subseteq ever[s]

InProgress ==
  call = "running" => \A s \in Table : worker[s] \in {"none", "reading"} => Sound(s) /\ Swept(s)

Finished ==
  call \in {"running", "ok"} => \A s \in Table : worker[s] = "done" => Sound(s) /\ Whole(s)

Outcome == /\ call = "ok" => \A s \in Table : worker[s] = "done"
           /\ call # "running" => \A s \in Table : worker[s] # "reading"

(* The inductive invariant.                                                *)
ScanInv == ScanTypeOK /\ History /\ InProgress /\ Finished /\ Outcome

-----------------------------------------------------------------------------
(* A page that is not the last one holds every remaining row up to its     *)
(* last; the last page holds all that remain.                              *)
LEMMA PageIsPrefix ==
  ASSUME NEW P, NEW R, P \subseteq R, R \subseteq Id, batch \in Nat, IsPage(P, R)
  PROVE  /\ LastPage(P) => P = R
         /\ \A m \in P : (\A i \in P : i <= m) => \A i \in R : i <= m => i \in P
<1>1. Id \subseteq Nat  BY ScanAssumption
<1>2. LastPage(P) => P = R  BY SMT DEF IsPage, LastPage
<1>3. \A m \in P : (\A i \in P : i <= m) => \A i \in R : i <= m => i \in P
  <2> SUFFICES ASSUME NEW m \in P, NEW i \in R, i <= m, i \notin P PROVE FALSE
    OBVIOUS
  <2>1. m < i  BY DEF IsPage
  <2> QED  BY <1>1, <2>1
<1> QED  BY <1>2, <1>3

(* Writers leave what a goroutine has to collect no larger than it was.    *)
LEMMA WriteKeeps ==
  ASSUME ScanInv, NEW s \in Table, NEW T \in SUBSET Id, Write(s, T)
  PROVE  ScanInv'
<1> USE DEF Write, engine
<1>1. ScanTypeOK'  BY DEF ScanInv, ScanTypeOK
<1>2. /\ stable' = [stable EXCEPT ![s] = stable[s] \cap T]
      /\ ever' = [ever EXCEPT ![s] = ever[s] \cup T]
      /\ stable \in [Table -> SUBSET Id] /\ ever \in [Table -> SUBSET Id]
  BY DEF ScanInv, ScanTypeOK
<1>3. \A t \in Table : stable'[t] \subseteq stable[t] /\ ever[t] \subseteq ever'[t]
  BY <1>2
<1>4. History'
  <2>1. /\ table' = [table EXCEPT ![s] = T] /\ table \in [Table -> SUBSET Id]
    BY DEF ScanInv, ScanTypeOK
  <2> QED  BY <1>2, <2>1 DEF ScanInv, History
<1>5. \A t \in Table : /\ Sound(t) => Sound(t)'
                       /\ Swept(t) => Swept(t)'
                       /\ Whole(t) => Whole(t)'
  BY <1>3 DEF Sound, Swept, Whole, Copies, Ahead
<1> QED  BY <1>1, <1>4, <1>5 DEF ScanInv, InProgress, Finished, Outcome

(* One page, read under the cursor, keeps what has been swept complete.    *)
LEMMA FetchKeeps ==
  ASSUME ScanInv, IdExtractable, NEW s \in Table, Fetch(s)
  PROVE  ScanInv'
<1> USE DEF ScanInv
<1>0. /\ Id \subseteq Nat \ {0} /\ batch \in Nat /\ Nil = -1
      /\ \A i \in Id : i \in Int /\ i > 0
  BY ScanAssumption DEF ScanTypeOK, Nil
<1>1. PICK P \in SUBSET Remaining(s) :
        /\ IsPage(P, Remaining(s))
        /\ rows' = [rows EXCEPT ![s] = Collect(rows[s], P)]
        /\ worker' = [worker EXCEPT ![s] = IF LastPage(P) THEN "done" ELSE "reading"]
        /\ \E c \in IF LastPage(P) THEN {Nil} ELSE NextCursor(s, P) :
             cursor' = [cursor EXCEPT ![s] = c]
  BY DEF Fetch
<1>2. PICK c \in IF LastPage(P) THEN {Nil} ELSE NextCursor(s, P) :
        cursor' = [cursor EXCEPT ![s] = c]
  BY <1>1
<1>3. /\ UNCHANGED <<maxConcurrency, table, writes, call, batch, idSelected, cancelled, stable, ever>>
      /\ worker[s] = "reading"
      /\ call = "running"
  BY DEF Fetch, Outcome
<1>4. Sound(s) /\ Swept(s)  BY <1>3 DEF InProgress
<1>5. P \subseteq Id /\ \A i \in P : i \in table[s] /\ i > cursor[s]
  BY DEF Remaining, ScanTypeOK
<1>6. /\ cursor[s] \in Id \cup {0, Nil} /\ c \in Id \cup {0, Nil}
      /\ cursor[s] \in Int /\ c \in Int
  <2>1. cursor[s] \in Id \cup {0, Nil}  BY DEF ScanTypeOK
  <2>2. c \in Id \cup {0, Nil}
    <3>1. c \in P \cup {0, Nil}  BY <1>2 DEF NextCursor
    <3> QED  BY <3>1, <1>5
  <2>3. \A i \in Id \cup {0, Nil} : i \in Int  BY <1>0
  <2> QED  BY <2>1, <2>2, <2>3
<1>7. rows[s] \in [Id -> 0..3] /\ idSelected \in BOOLEAN /\ Copies \in {1, 2} /\ Ahead(s) \in {0, 1}
      /\ Copies = IF idSelected THEN 1 ELSE 2
  BY DEF ScanTypeOK, Copies, Ahead
<1>8. \A i \in Id : Collect(rows[s], P)[i] = IF i \in P THEN rows[s][i] + 1 ELSE rows[s][i]
  <2> SUFFICES ASSUME NEW i \in Id
               PROVE  Collect(rows[s], P)[i] = IF i \in P THEN rows[s][i] + 1 ELSE rows[s][i]
    OBVIOUS
  <2>1. i \in P => rows[s][i] <= Ahead(s)  BY <1>4, <1>5 DEF Swept
  <2>2. Collect(rows[s], P)[i] = IF i \in P /\ rows[s][i] < 3 THEN rows[s][i] + 1 ELSE rows[s][i]
    BY DEF Collect
  <2>3. rows[s][i] \in 0..3  BY <1>7
  <2> QED  BY <1>7, <2>1, <2>2, <2>3
<1>9. Collect(rows[s], P) \in [Id -> 0..3]
  <2> SUFFICES ASSUME NEW i \in Id
               PROVE  (IF i \in P /\ rows[s][i] < 3 THEN rows[s][i] + 1 ELSE rows[s][i]) \in 0..3
    BY DEF Collect
  <2>1. rows[s][i] \in 0..3  BY <1>7
  <2> QED  BY <2>1
<1>10. ScanTypeOK'
  BY <1>1, <1>2, <1>3, <1>6, <1>9 DEF ScanTypeOK
<1>11. /\ rows'[s] = Collect(rows[s], P) /\ cursor'[s] = c
       /\ \A t \in Table \ {s} : /\ rows'[t] = rows[t] /\ cursor'[t] = cursor[t]
                                 /\ worker'[t] = worker[t]
       /\ worker'[s] = IF LastPage(P) THEN "done" ELSE "reading"
  BY <1>1, <1>2 DEF ScanTypeOK
<1>12. Sound(s)'
  <2> SUFFICES ASSUME NEW i \in Id
               PROVE  rows'[s][i] <= Copies /\ (rows'[s][i] > 0 => i \in ever[s])
    BY <1>3 DEF Sound, Copies
  <2>1. rows[s][i] \in 0..3 /\ rows[s][i] <= Copies /\ (rows[s][i] > 0 => i \in ever[s])
    BY <1>4, <1>7 DEF Sound
  <2>2. CASE i \in P
    <3>1. rows[s][i] <= Ahead(s) /\ rows'[s][i] = rows[s][i] + 1
      BY <1>4, <1>5, <1>8, <1>11, <2>2 DEF Swept
    <3>2. Ahead(s) + 1 <= Copies  BY DEF Ahead, Copies
    <3>3. i \in ever[s]  BY <1>5, <2>2 DEF History
    <3> QED  BY <1>7, <2>1, <3>1, <3>2, <3>3
  <2>3. CASE i \notin P
    BY <1>8, <1>11, <2>1, <2>3
  <2> QED  BY <2>2, <2>3
<1>13. LastPage(P) => Whole(s)'
  <2> SUFFICES ASSUME LastPage(P), NEW i \in stable[s] PROVE rows'[s][i] # 0
    BY <1>3 DEF Whole
  <2>1. i \in Id /\ i \in table[s] /\ rows[s][i] \in 0..3  BY <1>7 DEF History, ScanTypeOK
  <2>2. P = Remaining(s)  BY <1>0, <1>1, PageIsPrefix DEF Remaining, ScanTypeOK
  <2>3. CASE i > cursor[s]
    <3>1. i \in P  BY <2>1, <2>2, <2>3 DEF Remaining
    <3> QED  BY <3>1, <2>1, <1>8, <1>11
  <2>4. CASE i <= cursor[s]
    <3>1. rows[s][i] # 0  BY <1>4, <2>1, <2>4 DEF Swept
    <3> QED  BY <3>1, <2>1, <1>8, <1>11
  <2> QED  BY <2>1, <2>3, <2>4, <1>0, <1>6
<1>14. ~LastPage(P) => Swept(s)'
  <2> SUFFICES ASSUME ~LastPage(P), NEW i \in Id
               PROVE  /\ i <= c /\ i \in stable[s] => rows'[s][i] # 0
                      /\ i > c => rows'[s][i] <= Ahead(s)'
    BY <1>3, <1>11 DEF Swept
  <2>0. rows[s][i] \in 0..3 /\ i \in Int /\ i > 0  BY <1>0, <1>7
  <2>1. CASE cursor[s] = Nil /\ ~idSelected
    <3>1. c = 0  BY <1>2, <2>1 DEF NextCursor
    <3>2. Ahead(s) = 0 /\ Ahead(s)' = 1
      BY <1>0, <1>3, <1>11, <2>1, <3>1 DEF Ahead
    <3>3. rows[s][i] <= 0  BY <1>0, <1>4, <2>0, <2>1, <3>2 DEF Swept
    <3>4. rows'[s][i] \in {rows[s][i], rows[s][i] + 1}  BY <1>8, <1>11
    <3> QED  BY <2>0, <3>1, <3>2, <3>3, <3>4
  <2>2. CASE ~(cursor[s] = Nil /\ ~idSelected)
    <3>1. c \in P /\ \A j \in P : j <= c  BY <1>2, <2>2 DEF NextCursor
    <3>2. c > cursor[s] /\ c \in Id  BY <3>1, <1>5
    <3>3. \A j \in Remaining(s) : j <= c => j \in P
      BY <3>1, <1>0, <1>1, PageIsPrefix DEF Remaining, ScanTypeOK
    <3>4. ASSUME i <= c, i \in stable[s] PROVE rows'[s][i] # 0
      <4>1. i \in table[s]  BY <3>4 DEF History
      <4>2. CASE i > cursor[s]
        <5>1. i \in P  BY <4>1, <4>2, <3>3, <3>4 DEF Remaining
        <5> QED  BY <5>1, <2>0, <1>8, <1>11
      <4>3. CASE i <= cursor[s]
        <5>1. rows[s][i] # 0  BY <1>4, <3>4, <4>3 DEF Swept
        <5> QED  BY <5>1, <2>0, <1>8, <1>11
      <4> QED  BY <4>2, <4>3, <1>0, <1>6
    <3>5. ASSUME i > c PROVE rows'[s][i] <= Ahead(s)'
      <4>1. i \notin P /\ i > cursor[s]  BY <3>1, <3>2, <3>5, <2>0, <1>6
      <4>2. rows[s][i] <= Ahead(s)  BY <4>1, <1>4 DEF Swept
      <4>3. Ahead(s)' = Ahead(s)
        BY <1>0, <1>3, <1>11, <2>2, <3>2 DEF Ahead
      <4> QED  BY <4>1, <4>2, <4>3, <1>8, <1>11
    <3> QED  BY <3>4, <3>5
  <2> QED  BY <2>1, <2>2
<1>15. \A t \in Table \ {s} : /\ Sound(t) => Sound(t)'
                              /\ Swept(t) => Swept(t)'
                              /\ Whole(t) => Whole(t)'
  BY <1>3, <1>11 DEF Sound, Swept, Whole, Copies, Ahead
<1>16. History'  BY <1>3 DEF History
<1>17. InProgress'
  <2> SUFFICES ASSUME NEW t \in Table, worker'[t] \in {"none", "reading"}
               PROVE  Sound(t)' /\ Swept(t)'
    BY DEF InProgress
  <2>1. CASE t = s  BY <2>1, <1>11, <1>12, <1>14
  <2>2. CASE t # s  BY <2>2, <1>3, <1>11, <1>15 DEF InProgress
  <2> QED  BY <2>1, <2>2
<1>18. Finished'
  <2> SUFFICES ASSUME NEW t \in Table, worker'[t] = "done"
               PROVE  Sound(t)' /\ Whole(t)'
    BY DEF Finished
  <2>1. CASE t = s  BY <2>1, <1>11, <1>12, <1>13
  <2>2. CASE t # s  BY <2>2, <1>3, <1>11, <1>15 DEF Finished
  <2> QED  BY <2>1, <2>2
<1>19. Outcome'  BY <1>3, <1>11 DEF Outcome
<1> QED  BY <1>10, <1>16, <1>17, <1>18, <1>19

(* A goroutine that fails sets the error and is done.                      *)
LEMMA FailKeeps ==
  ASSUME ScanInv, NEW s \in Table, Fail(s)
  PROVE  ScanInv'
<1> USE DEF ScanInv
<1>1. ScanTypeOK'
  <2>1. NoRows \in [Id -> 0..3]  BY DEF NoRows
  <2> QED  BY <2>1 DEF Fail, ScanTypeOK
<1>2. /\ worker'[s] = "failed"
      /\ \A t \in Table \ {s} : /\ worker'[t] = worker[t] /\ rows'[t] = rows[t]
                                /\ cursor'[t] = cursor[t]
  BY DEF Fail, ScanTypeOK
<1>3. \A t \in Table \ {s} : /\ Sound(t) => Sound(t)'
                             /\ Swept(t) => Swept(t)'
                             /\ Whole(t) => Whole(t)'
  BY <1>2 DEF Fail, Sound, Swept, Whole, Copies, Ahead
<1>4. call = "running" /\ call' = call /\ History'
  BY DEF Fail, Outcome, History
<1>5. InProgress'
  <2> SUFFICES ASSUME NEW t \in Table, worker'[t] \in {"none", "reading"}
               PROVE  Sound(t)' /\ Swept(t)'
    BY DEF InProgress
  <2> QED  BY <1>2, <1>3, <1>4 DEF InProgress
<1>6. Finished'
  <2> SUFFICES ASSUME NEW t \in Table, worker'[t] = "done"
               PROVE  Sound(t)' /\ Whole(t)'
    BY DEF Finished
  <2> QED  BY <1>2, <1>3, <1>4 DEF Finished
<1> QED  BY <1>1, <1>4, <1>5, <1>6 DEF Outcome

(* The steps of the caller.                                                *)
LEMMA CallerKeeps ==
  ASSUME ScanInv,
         \/ \E n \in BatchSizes, selected \in IdSelections : Begin(n, selected)
         \/ CancelCaller \/ Wait \/ (\E s \in Table : Go(s))
  PROVE  ScanInv'
<1> USE DEF ScanInv
<1>0. Id \subseteq Nat \ {0} /\ BatchSizes \subseteq Nat /\ IdSelections \subseteq BOOLEAN
  BY ScanAssumption
<1>1. CASE \E n \in BatchSizes, selected \in IdSelections : Begin(n, selected)
  <2>1. PICK n \in BatchSizes, selected \in IdSelections : Begin(n, selected)  BY <1>1
  <2>2. ScanTypeOK'
    <3>1. NoRows \in [Id -> 0..3]  BY DEF NoRows
    <3>2. n \in Nat /\ selected \in BOOLEAN  BY <1>0
    <3>3. /\ worker' \in [Table -> {"none", "reading", "done", "failed"}]
          /\ cursor' \in [Table -> Id \cup {0, Nil}]
          /\ rows' \in [Table -> [Id -> 0..3]]
      BY <2>1, <3>1 DEF Begin
    <3>4. /\ table' \in [Table -> SUBSET Id] /\ stable' \in [Table -> SUBSET Id]
          /\ ever' \in [Table -> SUBSET Id]
      BY <2>1 DEF Begin, ScanTypeOK
    <3>5. /\ maxConcurrency' \in Limits /\ writes' \in Nat /\ batch' \in Nat
          /\ idSelected' \in BOOLEAN /\ cancelled' \in BOOLEAN /\ call' = "running"
      BY <2>1, <3>2 DEF Begin, ScanTypeOK
    <3> QED  BY <3>3, <3>4, <3>5 DEF ScanTypeOK
  <2>3. History'  BY <2>1 DEF Begin, History
  <2>4. \A s \in Table : Sound(s)' /\ Swept(s)'
    <3>1. \A s \in Table : cursor'[s] = Nil /\ rows'[s] = NoRows /\ worker'[s] = "none"
      BY <2>1 DEF Begin
    <3>2. \A i \in Id : i \in Nat /\ ~(i <= Nil) /\ NoRows[i] = 0  BY <1>0 DEF NoRows, Nil
    <3>3. Copies' \in {1, 2} /\ \A s \in Table : Ahead(s)' \in {0, 1}
      BY DEF Copies, Ahead
    <3>4. \A s \in Table : Sound(s)'  BY <3>1, <3>2, <3>3 DEF Sound
    <3>5. \A s \in Table : Swept(s)'  BY <3>1, <3>2, <3>3 DEF Swept
    <3> QED  BY <3>4, <3>5
  <2>5. call' = "running" /\ \A s \in Table : worker'[s] = "none"
    BY <2>1 DEF Begin
  <2> QED  BY <2>2, <2>3, <2>4, <2>5 DEF InProgress, Finished, Outcome
<1>2. ASSUME CancelCaller \/ (\E s \in Table : Go(s))
      PROVE  /\ History'
             /\ \A t \in Table : Sound(t)' = Sound(t) /\ Swept(t)' = Swept(t) /\ Whole(t)' = Whole(t)
  BY <1>2 DEF CancelCaller, Go, History, Sound, Swept, Whole, Copies, Ahead
<1>3. CASE CancelCaller
  <2>1. ScanTypeOK'  BY <1>3 DEF CancelCaller, ScanTypeOK
  <2>2. call' = call /\ worker' = worker  BY <1>3 DEF CancelCaller
  <2> QED  BY <1>2, <1>3, <2>1, <2>2 DEF InProgress, Finished, Outcome
<1>4. CASE Wait
  <2>1. ScanTypeOK'
    <3>1. NoRows \in [Id -> 0..3]  BY DEF NoRows
    <3> QED  BY <1>4, <3>1 DEF Wait, ScanTypeOK
  <2>2. /\ call = "running" /\ call' \in {"ok", "error"} /\ worker' = worker /\ History'
        /\ \A s \in Table : worker[s] \in {"done", "failed"}
    BY <1>4 DEF Wait, History
  <2>3. CASE call' = "ok"
    <3>1. (\A s \in Table : worker[s] = "done") /\ rows' = rows
      BY <1>4, <2>3 DEF Wait
    <3>2. \A t \in Table : Sound(t)' = Sound(t) /\ Whole(t)' = Whole(t)
      BY <1>4, <3>1 DEF Wait, Sound, Whole, Copies
    <3> QED  BY <2>1, <2>2, <2>3, <3>1, <3>2 DEF InProgress, Finished, Outcome
  <2>4. CASE call' = "error"
    BY <2>1, <2>2, <2>4 DEF InProgress, Finished, Outcome
  <2> QED  BY <2>2, <2>3, <2>4
<1>5. CASE \E s \in Table : Go(s)
  <2>1. PICK s \in Table : Go(s)  BY <1>5
  <2>2. ScanTypeOK'  BY <2>1 DEF Go, ScanTypeOK
  <2>3. /\ call = "running" /\ call' = call /\ worker[s] = "none" /\ worker'[s] = "reading"
        /\ \A t \in Table \ {s} : worker'[t] = worker[t]
    BY <2>1 DEF Go, ScanTypeOK
  <2> QED  BY <1>2, <1>5, <2>2, <2>3 DEF InProgress, Finished, Outcome
<1> QED  BY <1>1, <1>3, <1>4, <1>5

-----------------------------------------------------------------------------
(* Every action of a scan and of the writers keeps the invariant.          *)
LEMMA ScanInvInductive ==
  ASSUME IdExtractable
  PROVE  ScanSpec => []ScanInv
<1>1. ScanInit => ScanInv
  <2> SUFFICES ASSUME ScanInit PROVE ScanInv  OBVIOUS
  <2>1. ScanTypeOK
    <3>1. NoRows \in [Id -> 0..3]  BY DEF NoRows
    <3>2. 0 \in Nat  OBVIOUS
    <3> QED  BY <3>1, <3>2 DEF ScanInit, ScanTypeOK
  <2>2. History  BY DEF ScanInit, History
  <2> QED  BY <2>1, <2>2 DEF ScanInit, ScanInv, InProgress, Finished, Outcome
<1>2. ScanInv /\ [ScanNext]_scanVars => ScanInv'
  <2> SUFFICES ASSUME ScanInv, [ScanNext]_scanVars PROVE ScanInv'  OBVIOUS
  <2>1. CASE (\E n \in BatchSizes, selected \in IdSelections : Begin(n, selected)) \/ CancelCaller \/ Wait \/ (\E s \in Table : Go(s))
    BY <2>1, CallerKeeps
  <2>2. CASE \E s \in Table : Fetch(s)  BY <2>2, FetchKeeps
  <2>3. CASE \E s \in Table : FetchCancelled(s) \/ FetchError(s)
    BY <2>3, FailKeeps DEF FetchCancelled, FetchError
  <2>4. CASE \E s \in Table, i \in Id : InsertRow(s, i) \/ RemoveRow(s, i)
    <3>1. PICK s \in Table, i \in Id : InsertRow(s, i) \/ RemoveRow(s, i)  BY <2>4
    <3>2. table[s] \in SUBSET Id  BY DEF ScanInv, ScanTypeOK
    <3>3. \E T \in SUBSET Id : Write(s, T)  BY <3>1, <3>2 DEF InsertRow, RemoveRow
    <3> QED  BY <3>3, WriteKeeps
  <2>5. CASE UNCHANGED scanVars
    <3>1. UNCHANGED <<maxConcurrency, table, writes, call, batch, idSelected, worker, cursor, rows, cancelled, stable, ever>>
      BY <2>5 DEF scanVars, engine
    <3> QED  BY <3>1 DEF ScanInv, ScanTypeOK, History, InProgress, Finished, Outcome, Sound, Swept, Whole,
                     Copies, Ahead
  <2> QED  BY <2>1, <2>2, <2>3, <2>4, <2>5 DEF ScanNext
<1> QED  BY <1>1, <1>2, PTL DEF ScanSpec

(* Type correctness.                                                       *)
THEOREM ScanTypeCorrect ==
  ASSUME IdExtractable
  PROVE  ScanSpec => []ScanTypeOK
<1>1. ScanInv => ScanTypeOK  BY DEF ScanInv
<1> QED  BY <1>1, ScanInvInductive, PTL

(* FindAll that succeeds has every row that was in any table throughout.   *)
THEOREM NoRowIsLost ==
  ASSUME IdExtractable
  PROVE  ScanSpec => []NoRowLost
<1>1. ScanInv => NoRowLost  BY DEF ScanInv, Finished, Outcome, Whole, NoRowLost
<1> QED  BY <1>1, ScanInvInductive, PTL

(* FindAll that succeeds has no row twice and none that was never there; a *)
(* Select without the id column may have a row twice and never three times.*)
THEOREM NoRowIsInvented ==
  ASSUME IdExtractable
  PROVE  ScanSpec => []NoRowInvented
<1>1. ScanInv => NoRowInvented  BY DEF ScanInv, Finished, Outcome, Sound, Copies, NoRowInvented
<1> QED  BY <1>1, ScanInvInductive, PTL

(* No goroutine of FindAll or CountAll is left when the call has returned. *)
THEOREM NoGoroutineIsLeft ==
  ASSUME IdExtractable
  PROVE  ScanSpec => []NoGoroutineLeft
<1>1. ScanInv => NoGoroutineLeft  BY DEF ScanInv, Outcome, NoGoroutineLeft, Reading
<1> QED  BY <1>1, ScanInvInductive, PTL
-----------------------------------------------------------------------------
(* The order of the computations.                                          *)

(* How many elements of a set come up to one of them.                      *)
UpTo(S, x)  == {y \in S : y <= x}
RankIn(S)   == [x \in S |-> Cardinality(UpTo(S, x))]

(* Ascending lists a set of indices: each once, and no other.              *)
LEMMA AscendingLists ==
  ASSUME NEW n \in Nat, NEW S \in SUBSET (1..n)
  PROVE  /\ IsFiniteSet(S) /\ Cardinality(S) \in Nat
         /\ Ascending(S) \in [1..Cardinality(S) -> S]
         /\ \A i, j \in 1..Cardinality(S) : Ascending(S)[i] = Ascending(S)[j] => i = j
         /\ \A x \in S : \E i \in 1..Cardinality(S) : Ascending(S)[i] = x
         /\ \A i \in 1..Cardinality(S) : Cardinality(UpTo(S, Ascending(S)[i])) = i
<1>1. IsFiniteSet(S) /\ Cardinality(S) \in Nat
  <2>1. IsFiniteSet(1..n)
    BY FS_Interval
  <2>2. IsFiniteSet(S)
    BY <2>1, FS_Subset
  <2> QED
    BY <2>2, FS_CardinalityType
<1>2. \A x \in S : IsFiniteSet(UpTo(S, x)) /\ Cardinality(UpTo(S, x)) \in 1..Cardinality(S)
  <2> SUFFICES ASSUME NEW x \in S
               PROVE  IsFiniteSet(UpTo(S, x)) /\ Cardinality(UpTo(S, x)) \in 1..Cardinality(S)
    OBVIOUS
  <2>1. UpTo(S, x) \in SUBSET S /\ x \in UpTo(S, x)
    BY DEF UpTo
  <2>2. IsFiniteSet(UpTo(S, x)) /\ Cardinality(UpTo(S, x)) <= Cardinality(S)
    BY <1>1, <2>1, FS_Subset
  <2>3. Cardinality(UpTo(S, x)) \in Nat /\ Cardinality(UpTo(S, x)) # 0
    BY <2>1, <2>2, FS_CardinalityType, FS_EmptySet
  <2> QED
    BY <1>1, <2>2, <2>3
<1>3. \A x, z \in S : Cardinality(UpTo(S, x)) = Cardinality(UpTo(S, z)) => x = z
  <2>1. ASSUME NEW x \in S, NEW z \in S, x < z PROVE Cardinality(UpTo(S, x)) # Cardinality(UpTo(S, z))
    <3>0. S \in SUBSET Int /\ x \in Int /\ z \in Int
      OBVIOUS
    <3>1. UpTo(S, x) \in SUBSET UpTo(S, z) /\ z \in UpTo(S, z) /\ z \notin UpTo(S, x)
      <4>1. \A y \in S : y <= x => y <= z
        BY <2>1, <3>0
      <4>2. ~(z <= x) /\ z <= z
        BY <2>1, <3>0
      <4> QED
        BY <4>1, <4>2 DEF UpTo
    <3>2. PICK T, U : T = UpTo(S, x) /\ U = UpTo(S, z)
      OBVIOUS
    <3>3. IsFiniteSet(U) /\ T \in SUBSET U /\ T # U
      BY <1>2, <3>1, <3>2
    <3>4. Cardinality(T) # Cardinality(U)
      BY <3>3, FS_Subset
    <3> QED
      BY <3>2, <3>4
  <2> QED
    BY <2>1
<1>4. RankIn(S) \in Surjection(S, 1..Cardinality(S))
  <2>1. RankIn(S) \in Injection(S, 1..Cardinality(S))
    BY <1>2, <1>3 DEF RankIn, Injection, IsInjective
  <2>2. IsFiniteSet(1..Cardinality(S)) /\ Cardinality(1..Cardinality(S)) = Cardinality(S)
    BY <1>1, FS_Interval
  <2> QED
    BY <2>1, <2>2, FS_Injection
<1>5. \A k \in 1..Cardinality(S) : \E x \in S : Cardinality(UpTo(S, x)) = k
  BY <1>4 DEF Surjection, RankIn
<1>6. \A k \in 1..Cardinality(S) : Ascending(S)[k] = CHOOSE x \in S : Cardinality(UpTo(S, x)) = k
  BY DEF Ascending, UpTo
<1>7. \A k \in 1..Cardinality(S) : Ascending(S)[k] \in S /\ Cardinality(UpTo(S, Ascending(S)[k])) = k
  <2> TAKE k \in 1..Cardinality(S)
  <2>1. \E x \in S : Cardinality(UpTo(S, x)) = k
    BY <1>5
  <2> QED
    BY <1>6, <2>1
<1>8. Ascending(S) \in [1..Cardinality(S) -> S]
  <2>1. Ascending(S) = [k \in 1..Cardinality(S) |-> Ascending(S)[k]]
    BY DEF Ascending
  <2> QED
    BY <1>7, <2>1
<1>9. \A x \in S : Cardinality(UpTo(S, x)) \in 1..Cardinality(S) /\ Ascending(S)[Cardinality(UpTo(S, x))] = x
  BY <1>2, <1>3, <1>7
<1> QED
  BY <1>1, <1>7, <1>8, <1>9

(* A nonempty set of indices has a least one.                              *)
LEMMA LeastIndex ==
  ASSUME NEW n \in Nat, NEW S \in SUBSET (1..n), S # {}
  PROVE  \E x \in S : \A y \in S : x <= y
<1>1. IsFiniteSet(S) /\ Cardinality(S) \in Nat /\ Cardinality(S) # 0
  BY AscendingLists, FS_EmptySet
<1>2. 1 \in 1..Cardinality(S)
  BY <1>1
<1>3. PICK x \in S : Cardinality(UpTo(S, x)) = 1
  <2>1. Ascending(S) \in [1..Cardinality(S) -> S] /\ Cardinality(UpTo(S, Ascending(S)[1])) = 1
    BY <1>2, AscendingLists
  <2> QED
    BY <1>2, <2>1
<1>4. IsFiniteSet(UpTo(S, x)) /\ x \in UpTo(S, x)
  BY <1>1, FS_Subset DEF UpTo
<1>5. \E z : UpTo(S, x) = {z}
  BY <1>3, <1>4, FS_Singleton
<1>6. UpTo(S, x) = {x}
  BY <1>4, <1>5
<1>7. \A y \in S : x <= y
  <2> SUFFICES ASSUME NEW y \in S, y < x PROVE FALSE
    BY <1>2
  <2>1. y \in Nat /\ x \in Nat
    OBVIOUS
  <2>2. y \in UpTo(S, x)
    BY <2>1 DEF UpTo
  <2> QED
    BY <1>6, <2>1, <2>2
<1> QED
  BY <1>7

-----------------------------------------------------------------------------
Indices    == DOMAIN deps
Done       == {sorted[i] : i \in 1..Len(sorted)}
Queued     == {queue[i] : i \in 1..Len(queue)}

SortTypes ==
  /\ \E n \in Nat : deps \in [1..n -> SUBSET (1..n)]
  /\ inDegree \in [Indices -> Nat]
  /\ queue \in Seq(Indices) /\ sorted \in Seq(Indices)
  /\ phase \in {"sorting", "sorted", "circular"}

(* No index is taken or queued twice, and those that are wait for none.    *)
Once ==
  /\ \A i, j \in 1..Len(sorted) : sorted[i] = sorted[j] => i = j
  /\ \A i, j \in 1..Len(queue) : queue[i] = queue[j] => i = j
  /\ \A i \in 1..Len(queue) : queue[i] \notin Done
  /\ \A i \in Indices : inDegree[i] = 0 <=> i \in Done \/ i \in Queued

(* inDegree counts what has not been taken.                                *)
Counted == \A i \in Indices : inDegree[i] = Cardinality(deps[i] \ Done)

Behind == \A i \in 1..Len(sorted) : \A d \in deps[sorted[i]] : \E j \in 1..i - 1 : sorted[j] = d

SortInv ==
  /\ SortTypes /\ Once /\ Counted /\ Behind
  /\ phase # "sorting" => queue = <<>> /\ (phase = "sorted" <=> Len(sorted) = Len(deps))

(* Pop takes the head of the queue.                                        *)
LEMMA PopKeeps ==
  ASSUME SortInv, Pop PROVE SortInv'
<1>1. PICK n \in Nat : deps \in [1..n -> SUBSET (1..n)]
  BY DEF SortInv, SortTypes
<1>2. Indices = 1..n /\ Indices' = Indices /\ deps' = deps /\ phase' = phase /\ phase = "sorting"
  BY <1>1 DEF Indices, Pop
<1>3. PICK h \in Indices : h = Head(queue)
  BY DEF SortInv, SortTypes, Pop
<1>4. PICK waiting : waiting = {i \in Indices : h \in deps[i]}
  OBVIOUS
<1>5. PICK ready \in SUBSET (1..n) : ready = {i \in waiting : inDegree'[i] = 0}
  BY <1>2, <1>4
<1>6. PICK new : new = Ascending(ready)
  OBVIOUS
<1>7. /\ inDegree' = [i \in DOMAIN inDegree |-> IF i \in waiting THEN inDegree[i] - 1 ELSE inDegree[i]]
      /\ queue' = Tail(queue) \o new /\ sorted' = Append(sorted, h)
  BY <1>3, <1>4, <1>5, <1>6 DEF Pop, Indices
<1>8. /\ new \in Seq(Indices) /\ Cardinality(ready) \in Nat /\ Len(new) = Cardinality(ready)
      /\ \A i, j \in 1..Len(new) : new[i] = new[j] => i = j
      /\ {new[i] : i \in 1..Len(new)} = ready
  <2>1. /\ Cardinality(ready) \in Nat /\ new \in [1..Cardinality(ready) -> ready]
        /\ \A i, j \in 1..Cardinality(ready) : new[i] = new[j] => i = j
        /\ \A x \in ready : \E i \in 1..Cardinality(ready) : new[i] = x
    BY <1>6, AscendingLists
  <2>2. \A i \in 1..Cardinality(ready) : new[i] \in Indices
    BY <1>2, <2>1
  <2>3. new = [i \in 1..Cardinality(ready) |-> new[i]]
    BY <2>1
  <2>4. new \in Seq(Indices) /\ Len(new) = Cardinality(ready)
    BY <2>1, <2>2, <2>3
  <2>5. {new[i] : i \in 1..Len(new)} = ready
    <3>1. \A i \in 1..Len(new) : new[i] \in ready
      BY <2>1, <2>4
    <3>2. \A x \in ready : \E i \in 1..Len(new) : new[i] = x
      BY <2>1, <2>4
    <3> QED
      BY <3>1, <3>2
  <2> QED
    BY <2>1, <2>4, <2>5
<1>9. /\ queue \in Seq(Indices) /\ sorted \in Seq(Indices) /\ queue # <<>> /\ inDegree \in [Indices -> Nat]
  BY DEF SortInv, SortTypes, Pop
<1>10. /\ Len(queue) \in Nat \ {0} /\ h = queue[1] /\ Tail(queue) \in Seq(Indices)
       /\ Len(Tail(queue)) = Len(queue) - 1
       /\ \A i \in 1..Len(queue) - 1 : Tail(queue)[i] = queue[i + 1]
  BY <1>3, <1>9
<1>11. h \notin Done /\ inDegree[h] = 0 /\ \A i \in 1..Len(queue) - 1 : Tail(queue)[i] # h
  <2>1. 1 \in 1..Len(queue) /\ h \in Queued
    BY <1>10 DEF Queued
  <2>2. h \notin Done /\ inDegree[h] = 0
    BY <1>10, <2>1 DEF SortInv, Once
  <2>3. ASSUME NEW i \in 1..Len(queue) - 1 PROVE Tail(queue)[i] # h
    <3>1. i + 1 \in 1..Len(queue) /\ i + 1 # 1
      BY <1>10
    <3> QED
      BY <1>10, <2>1, <3>1 DEF SortInv, Once
  <2> QED
    BY <2>2, <2>3
<1>12. Done' = Done \cup {h}
  <2>1. /\ Len(sorted) \in Nat /\ Len(sorted') = Len(sorted) + 1 /\ sorted'[Len(sorted) + 1] = h
        /\ \A i \in 1..Len(sorted) : sorted'[i] = sorted[i]
    BY <1>7, <1>9
  <2> QED
    BY <2>1 DEF Done
<1>13. \A i \in Indices : IsFiniteSet(deps[i] \ Done) /\ Cardinality(deps[i] \ Done) \in Nat
  <2> SUFFICES ASSUME NEW i \in Indices PROVE IsFiniteSet(deps[i] \ Done) /\ Cardinality(deps[i] \ Done) \in Nat
    OBVIOUS
  <2>1. deps[i] \ Done \in SUBSET (1..n)
    BY <1>1, <1>2
  <2> QED
    BY <2>1, AscendingLists
<1>14. \A i \in Indices : inDegree'[i] = Cardinality(deps[i] \ Done')
  <2> SUFFICES ASSUME NEW i \in Indices PROVE inDegree'[i] = Cardinality(deps[i] \ Done')
    OBVIOUS
  <2>1. PICK S : S = deps[i] \ Done
    OBVIOUS
  <2>2. IsFiniteSet(S) /\ inDegree[i] = Cardinality(S) /\ deps[i] \ Done' = S \ {h}
    BY <1>12, <1>13, <2>1 DEF SortInv, Counted
  <2>3. Cardinality(S \ {h}) = IF h \in S THEN Cardinality(S) - 1 ELSE Cardinality(S)
    BY <2>2, FS_RemoveElement
  <2>4. h \in S <=> i \in waiting
    BY <1>4, <1>11, <2>1
  <2> QED
    BY <1>7, <1>9, <2>2, <2>3, <2>4
<1>15. inDegree' \in [Indices -> Nat]
  <2>1. \A i \in Indices : IsFiniteSet(deps[i] \ Done') /\ Cardinality(deps[i] \ Done') \in Nat
    <3> SUFFICES ASSUME NEW i \in Indices PROVE IsFiniteSet(deps[i] \ Done') /\ Cardinality(deps[i] \ Done') \in Nat
      OBVIOUS
    <3>1. deps[i] \ Done' \in SUBSET (1..n)
      BY <1>1, <1>2
    <3> QED
      BY <3>1, AscendingLists
  <2>2. DOMAIN inDegree' = Indices
    BY <1>7, <1>9
  <2>3. inDegree' = [i \in Indices |-> inDegree'[i]]
    BY <1>7, <1>9
  <2> QED
    BY <1>14, <2>1, <2>3
<1>16. /\ queue' \in Seq(Indices) /\ Len(queue') = (Len(queue) - 1) + Len(new)
       /\ \A i \in 1..Len(queue') : queue'[i] = IF i <= Len(queue) - 1 THEN queue[i + 1] ELSE new[i - (Len(queue) - 1)]
  <2>1. PICK rest \in Seq(Indices) : rest = Tail(queue)
    BY <1>10
  <2>2. queue' \in Seq(Indices) /\ Len(queue') = Len(rest) + Len(new)
    <3>1. queue' = rest \o new /\ new \in Seq(Indices)
      BY <1>7, <1>8, <2>1
    <3> QED
      BY <2>1, <3>1, ConcatProperties
  <2>3. \A i \in 1..Len(queue') : queue'[i] = IF i <= Len(rest) THEN rest[i] ELSE new[i - Len(rest)]
    <3>1. queue' = rest \o new /\ new \in Seq(Indices)
      BY <1>7, <1>8, <2>1
    <3> QED
      BY <2>1, <2>2, <3>1, ConcatProperties
  <2>4. ASSUME NEW i \in 1..Len(queue'), i <= Len(rest) PROVE i \in 1..Len(queue) - 1
    BY <1>10, <2>1, <2>2, <2>4
  <2> QED
    BY <1>8, <1>10, <2>1, <2>2, <2>3, <2>4
(* Those that come to the queue waited for h alone.                        *)
<1>17. /\ ready \subseteq waiting /\ \A i \in ready : inDegree'[i] = 0 /\ inDegree[i] = 1
       /\ \A i \in ready : i \in Indices /\ i \notin Queued /\ i \notin Done /\ i # h
  <2> SUFFICES ASSUME NEW i \in ready
               PROVE  /\ i \in waiting /\ inDegree'[i] = 0 /\ inDegree[i] = 1
                      /\ i \in Indices /\ i \notin Queued /\ i \notin Done /\ i # h
    OBVIOUS
  <2>1. i \in waiting /\ inDegree'[i] = 0 /\ i \in Indices
    BY <1>4, <1>5
  <2>2. inDegree[i] = Cardinality(deps[i] \ Done) /\ h \in deps[i] \ Done /\ IsFiniteSet(deps[i] \ Done)
    BY <1>4, <1>11, <1>13, <2>1 DEF SortInv, Counted
  <2>3. inDegree[i] # 0
    BY <2>2, FS_EmptySet
  <2>4. inDegree[i] = 1
    BY <1>7, <1>9, <2>1, <2>3
  <2>5. i \notin Queued /\ i \notin Done
    BY <2>1, <2>3 DEF SortInv, Once
  <2> QED
    BY <1>11, <2>1, <2>3, <2>4, <2>5
<1>18. Queued' = (Queued \ {h}) \cup ready
  <2>1. ASSUME NEW x \in Queued' PROVE x \in (Queued \ {h}) \cup ready
    <3>1. PICK i \in 1..Len(queue') : queue'[i] = x
      BY <2>1 DEF Queued
    <3>2. CASE i <= Len(queue) - 1
      <4>1. i \in 1..Len(queue) - 1 /\ i + 1 \in 1..Len(queue) /\ x = queue[i + 1] /\ x = Tail(queue)[i]
        BY <1>10, <1>16, <3>1, <3>2
      <4> QED
        BY <1>11, <4>1 DEF Queued
    <3>3. CASE ~(i <= Len(queue) - 1)
      <4>1. i - (Len(queue) - 1) \in 1..Len(new) /\ x = new[i - (Len(queue) - 1)]
        BY <1>8, <1>10, <1>16, <3>1, <3>3
      <4> QED
        BY <1>8, <4>1
    <3> QED
      BY <3>2, <3>3
  <2>2. ASSUME NEW x \in Queued, x # h PROVE x \in Queued'
    <3>1. PICK i \in 1..Len(queue) : queue[i] = x
      BY <2>2 DEF Queued
    <3>2. i # 1
      BY <1>10, <2>2, <3>1
    <3>3. i - 1 \in 1..Len(queue') /\ i - 1 <= Len(queue) - 1 /\ (i - 1) + 1 = i
      BY <1>8, <1>10, <1>16, <3>2
    <3>4. queue'[i - 1] = x
      BY <1>16, <3>1, <3>3
    <3> QED
      BY <3>3, <3>4 DEF Queued
  <2>3. ASSUME NEW x \in ready PROVE x \in Queued'
    <3>1. PICK i \in 1..Len(new) : new[i] = x
      BY <1>8
    <3>2. PICK k : k = i + (Len(queue) - 1)
      OBVIOUS
    <3>3. k \in 1..Len(queue') /\ ~(k <= Len(queue) - 1) /\ k - (Len(queue) - 1) = i
      BY <1>8, <1>10, <1>16, <3>2
    <3>4. queue'[k] = x
      BY <1>16, <3>1, <3>3
    <3> QED
      BY <3>3, <3>4 DEF Queued
  <2> QED
    BY <2>1, <2>2, <2>3
<1>19. \A i, j \in 1..Len(queue') : queue'[i] = queue'[j] => i = j
  <2>1. ASSUME NEW i \in 1..Len(queue'), NEW j \in 1..Len(queue'), queue'[i] = queue'[j], i < j PROVE FALSE
    <3>0. Len(queue) \in Nat \ {0} /\ Len(new) \in Nat /\ i \in Int /\ j \in Int
      BY <1>8, <1>10
    <3>1. CASE j <= Len(queue) - 1
      <4>1. i + 1 \in 1..Len(queue) /\ j + 1 \in 1..Len(queue) /\ i + 1 # j + 1
        BY <2>1, <3>0, <3>1
      <4>2. i <= Len(queue) - 1
        BY <2>1, <3>0, <3>1
      <4>3. queue'[i] = queue[i + 1] /\ queue'[j] = queue[j + 1]
        BY <1>16, <3>1, <4>2
      <4> QED
        BY <2>1, <4>1, <4>3 DEF SortInv, Once
    <3>2. CASE i <= Len(queue) - 1 /\ ~(j <= Len(queue) - 1)
      <4>1. i + 1 \in 1..Len(queue) /\ j - (Len(queue) - 1) \in 1..Len(new)
        BY <1>16, <3>0, <3>2
      <4>2. queue'[i] = queue[i + 1] /\ queue'[j] = new[j - (Len(queue) - 1)]
        BY <1>16, <3>0, <3>2
      <4>3. queue'[i] \in Queued /\ queue'[j] \in ready
        BY <1>8, <4>1, <4>2 DEF Queued
      <4> QED
        BY <1>17, <2>1, <4>3
    <3>3. CASE ~(i <= Len(queue) - 1)
      <4>1. PICK a, b : a = i - (Len(queue) - 1) /\ b = j - (Len(queue) - 1)
        OBVIOUS
      <4>2. a \in 1..Len(new) /\ b \in 1..Len(new) /\ a # b
        BY <1>16, <2>1, <3>0, <3>3, <4>1
      <4>3. queue'[i] = new[a] /\ queue'[j] = new[b]
        BY <1>16, <2>1, <3>0, <3>3, <4>1
      <4> QED
        BY <1>8, <2>1, <4>2, <4>3
    <3> QED
      BY <3>0, <3>1, <3>2, <3>3
  <2> TAKE i, j \in 1..Len(queue')
  <2> HAVE queue'[i] = queue'[j]
  <2>2. ~(i < j) /\ ~(j < i)
    BY <2>1
  <2> QED
    BY <1>16, <2>2
<1>20. \A i \in 1..Len(queue') : queue'[i] \notin Done'
  <2>1. \A x \in Queued : x \notin Done
    BY DEF SortInv, Once, Queued
  <2>2. \A x \in Queued' : x \notin Done'
    BY <1>12, <1>17, <1>18, <2>1
  <2>3. \A i \in 1..Len(queue') : queue'[i] \in Queued'
    BY DEF Queued
  <2> QED
    BY <2>2, <2>3
<1>21. \A i \in Indices : inDegree'[i] = 0 <=> i \in Done' \/ i \in Queued'
  <2> TAKE i \in Indices
  <2>0. (inDegree[i] = 0 <=> i \in Done \/ i \in Queued) /\ inDegree[i] \in Nat /\ inDegree'[i] \in Nat
    BY <1>9, <1>15 DEF SortInv, Once
  <2>1. CASE i \in waiting
    <3>1. inDegree'[i] = inDegree[i] - 1 /\ inDegree[i] # 0
      <4>1. inDegree'[i] = inDegree[i] - 1
        BY <1>7, <1>9, <2>1
      <4> QED
        BY <2>0, <4>1
    <3>2. inDegree'[i] = 0 <=> i \in ready
      BY <1>5, <2>1
    <3> QED
      BY <1>11, <1>12, <1>18, <2>0, <3>1, <3>2
  <2>2. CASE i \notin waiting
    <3>1. inDegree'[i] = inDegree[i] /\ i \notin ready
      BY <1>5, <1>7, <1>9, <2>2
    <3>2. h \in Queued
      BY <1>10 DEF Queued
    <3> QED
      BY <1>12, <1>18, <2>0, <3>1, <3>2
  <2> QED
    BY <2>1, <2>2
<1>22. /\ sorted' \in Seq(Indices) /\ Len(sorted') = Len(sorted) + 1 /\ sorted'[Len(sorted) + 1] = h
       /\ Len(sorted) \in Nat /\ \A i \in 1..Len(sorted) : sorted'[i] = sorted[i] /\ sorted[i] \in Done
  BY <1>7, <1>9 DEF Done
<1>23. \A i, j \in 1..Len(sorted') : sorted'[i] = sorted'[j] => i = j
  <2> TAKE i, j \in 1..Len(sorted')
  <2> HAVE sorted'[i] = sorted'[j]
  <2>1. CASE i \in 1..Len(sorted) /\ j \in 1..Len(sorted)
    BY <1>22, <2>1 DEF SortInv, Once
  <2>2. CASE i = Len(sorted) + 1 \/ j = Len(sorted) + 1
    <3>1. \A k \in 1..Len(sorted) : sorted'[k] # h
      BY <1>11, <1>22
    <3> QED
      BY <1>22, <2>2, <3>1
  <2> QED
    BY <1>22, <2>1, <2>2
<1>24. Behind'
  <2> SUFFICES ASSUME NEW i \in 1..Len(sorted'), NEW d \in deps[sorted'[i]]
               PROVE  \E j \in 1..i - 1 : sorted'[j] = d
    BY <1>2 DEF Behind
  <2>1. CASE i \in 1..Len(sorted)
    <3>1. PICK j \in 1..i - 1 : sorted[j] = d
      BY <1>22, <2>1 DEF SortInv, Behind
    <3>2. j \in 1..Len(sorted)
      BY <1>22, <2>1
    <3> QED
      BY <1>22, <3>1, <3>2
  <2>2. CASE i = Len(sorted) + 1
    <3>1. Cardinality(deps[h] \ Done) = 0 /\ IsFiniteSet(deps[h] \ Done)
      BY <1>11, <1>13 DEF SortInv, Counted
    <3>2. deps[h] \ Done = {}
      BY <3>1, FS_EmptySet
    <3>3. d \in Done
      BY <1>22, <2>2, <3>2
    <3>4. PICK j \in 1..Len(sorted) : sorted[j] = d
      BY <3>3 DEF Done
    <3>5. j \in 1..i - 1
      BY <1>22, <2>2, <3>4
    <3> QED
      BY <1>22, <3>4, <3>5
  <2> QED
    BY <1>22, <2>1, <2>2
<1>25. SortTypes'
  BY <1>1, <1>2, <1>15, <1>16, <1>22 DEF SortTypes
<1>26. Once'
  BY <1>2, <1>19, <1>20, <1>21, <1>23 DEF Once
<1>27. Counted'
  BY <1>2, <1>14 DEF Counted
<1> QED
  BY <1>2, <1>24, <1>25, <1>26, <1>27 DEF SortInv

(* A rule's sort begins with nothing taken.                                *)
LEMMA SortBegun ==
  ASSUME SortInit PROVE SortInv
<1>0. PICK n \in Nat : \E d \in Waits(n) : SortBegins(d)
  BY DEF SortInit
<1>1. PICK d \in Waits(n) : SortBegins(d)
  BY <1>0
<1>2. /\ deps \in [1..n -> SUBSET (1..n)] /\ Indices = 1..n /\ sorted = <<>> /\ phase = "sorting"
      /\ inDegree = [i \in Indices |-> Cardinality(deps[i])]
  BY <1>1 DEF SortInit, SortBegins, Waits, Indices
<1>3. PICK ready \in SUBSET (1..n) : ready = {i \in Indices : inDegree[i] = 0}
  BY <1>2
<1>4. queue = Ascending(ready)
  BY <1>1, <1>2, <1>3 DEF SortBegins, Indices
<1>5. /\ Cardinality(ready) \in Nat /\ queue \in [1..Cardinality(ready) -> ready]
      /\ \A i, j \in 1..Cardinality(ready) : queue[i] = queue[j] => i = j
      /\ \A x \in ready : \E i \in 1..Cardinality(ready) : queue[i] = x
  BY <1>4, AscendingLists
<1>6. queue \in Seq(Indices) /\ Len(queue) = Cardinality(ready)
  <2>1. \A i \in 1..Cardinality(ready) : queue[i] \in Indices
    BY <1>2, <1>5
  <2>2. queue = [i \in 1..Cardinality(ready) |-> queue[i]]
    BY <1>5
  <2> QED
    BY <1>5, <2>1, <2>2
<1>7. Queued = ready /\ Done = {} /\ Len(sorted) = 0 /\ sorted \in Seq(Indices)
  <2>1. \A i \in 1..Len(queue) : queue[i] \in ready
    BY <1>5, <1>6
  <2>2. \A x \in ready : \E i \in 1..Len(queue) : queue[i] = x
    BY <1>5, <1>6
  <2>3. Len(sorted) = 0 /\ sorted \in Seq(Indices)
    BY <1>2
  <2>4. Queued = ready
    BY <2>1, <2>2 DEF Queued
  <2>5. Done = {}
    <3>1. 1..Len(sorted) = {}
      BY <2>3
    <3> QED
      BY <3>1, Zenon DEF Done
  <2> QED
    BY <2>3, <2>4, <2>5
<1>8. \A i \in Indices : Cardinality(deps[i]) \in Nat /\ deps[i] \ Done = deps[i]
  <2> SUFFICES ASSUME NEW i \in Indices PROVE Cardinality(deps[i]) \in Nat
    BY <1>7
  <2>1. deps[i] \in SUBSET (1..n)
    BY <1>2
  <2> QED
    BY <2>1, AscendingLists
<1>9. SortTypes
  BY <1>2, <1>6, <1>7, <1>8 DEF SortTypes
<1>10. Once
  <2>1. \A i, j \in 1..Len(sorted) : sorted[i] = sorted[j] => i = j
    BY <1>7
  <2>2. \A i \in 1..Len(queue) : queue[i] \notin Done
    BY <1>7
  <2>3. \A i \in Indices : inDegree[i] = 0 <=> i \in Done \/ i \in Queued
    BY <1>3, <1>7
  <2> QED
    BY <1>5, <1>6, <2>1, <2>2, <2>3 DEF Once
<1>11. Counted /\ Behind
  BY <1>2, <1>7, <1>8 DEF Counted, Behind
<1> QED
  BY <1>2, <1>9, <1>10, <1>11 DEF SortInv

(* The loop ends when nothing is queued.                                   *)
LEMMA EndKeeps ==
  ASSUME SortInv, SortEnds PROVE SortInv'
<1>1. UNCHANGED <<deps, inDegree, queue, sorted>> /\ queue = <<>>
  BY DEF SortEnds
<1>2. Indices' = Indices /\ Done' = Done /\ Queued' = Queued
  BY <1>1 DEF Indices, Done, Queued
<1>3. phase' \in {"sorted", "circular"} /\ (phase' = "sorted" <=> Len(sorted) = Len(deps))
  BY DEF SortEnds
<1>4. SortTypes'
  BY <1>1, <1>2, <1>3 DEF SortInv, SortTypes
<1>5. Once' /\ Counted' /\ Behind'
  BY <1>1, <1>2 DEF SortInv, Once, Counted, Behind
<1> QED
  BY <1>1, <1>3, <1>4, <1>5 DEF SortInv

(* What was taken, all of it, is an order.                                 *)
LEMMA AllTaken ==
  ASSUME SortInv, phase = "sorted"
  PROVE  sorted \in [DOMAIN deps -> DOMAIN deps] /\ IsOrder(sorted)
<1>1. PICK n \in Nat : deps \in [1..n -> SUBSET (1..n)]
  BY DEF SortInv, SortTypes
<1>2. Indices = 1..n /\ Len(deps) = n /\ Len(sorted) = n /\ sorted \in Seq(1..n) /\ DOMAIN deps = 1..n
  <2>1. DOMAIN deps = 1..n
    BY <1>1
  <2>2. Len(deps) = n
    BY <1>1
  <2> QED
    BY <2>1, <2>2 DEF SortInv, SortTypes, Indices
<1>3. sorted \in [1..n -> 1..n]
  BY <1>2
<1>4. \A i, j \in 1..n : sorted[i] = sorted[j] => i = j
  BY <1>2 DEF SortInv, Once
<1>5. ASSUME NEW i \in 1..n, NEW j \in 1..n, sorted[j] \in deps[sorted[i]] PROVE j < i
  <2>1. PICK k \in 1..i - 1 : sorted[k] = sorted[j]
    BY <1>2, <1>5 DEF SortInv, Behind
  <2>2. k \in 1..n /\ k < i
    BY <1>2
  <2> QED
    BY <1>4, <2>1, <2>2
<1> QED
  BY <1>2, <1>3, <1>4, <1>5 DEF IsOrder

(* What was not taken waits for something not taken: no order exists.      *)
LEMMA NoneExists ==
  ASSUME SortInv, phase = "circular", NEW o \in [DOMAIN deps -> DOMAIN deps], IsOrder(o)
  PROVE  FALSE
<1>1. PICK n \in Nat : deps \in [1..n -> SUBSET (1..n)]
  BY DEF SortInv, SortTypes
<1>2. DOMAIN deps = 1..n /\ Indices = 1..n /\ Len(deps) = n
  BY <1>1 DEF Indices
<1>3. queue = <<>> /\ Len(sorted) # n /\ sorted \in Seq(1..n)
  BY <1>2 DEF SortInv, SortTypes
<1>4. IsFiniteSet(1..n) /\ Cardinality(1..n) = n /\ \A m \in Nat : IsFiniteSet(1..m) /\ Cardinality(1..m) = m
  BY FS_Interval
(* A computation was not taken.                                            *)
<1>5. PICK left \in 1..n : left \notin Done
  <2> SUFFICES ASSUME \A i \in 1..n : i \in Done PROVE FALSE
    OBVIOUS
  <2>1. PICK m \in Nat : m = Len(sorted)
    BY <1>3
  <2>2. sorted \in [1..m -> 1..n]
    BY <1>3, <2>1
  <2>3. sorted \in Injection(1..m, 1..n)
    BY <2>1, <2>2 DEF SortInv, Once, Injection, IsInjective
  <2>4. sorted \in Surjection(1..m, 1..n)
    BY <2>1, <2>2 DEF Done, Surjection
  <2>5. Cardinality(1..m) = Cardinality(1..n)
    BY <1>4, <2>3, <2>4, FS_Injection
  <2> QED
    BY <1>3, <1>4, <2>1, <2>5
(* The first such one of the order waits only for taken ones.              *)
<1>6. \A x \in 1..n : \E p \in 1..n : o[p] = x
  <2>1. o \in [1..n -> 1..n] /\ o \in Injection(1..n, 1..n)
    BY <1>2 DEF IsOrder, Injection, IsInjective
  <2>2. o \in Surjection(1..n, 1..n)
    BY <1>4, <2>1, FS_Injection
  <2> QED
    BY <2>2 DEF Surjection
<1>7. PICK open \in SUBSET (1..n) : open = {p \in 1..n : o[p] \notin Done}
  OBVIOUS
<1>8. open # {}
  BY <1>5, <1>6, <1>7
<1>9. PICK p \in open : \A q \in open : p <= q
  BY <1>8, LeastIndex
<1>10. \A d \in deps[o[p]] : d \in Done
  <2> TAKE d \in deps[o[p]]
  <2>1. d \in 1..n /\ o[p] \in 1..n
    BY <1>1, <1>2
  <2>2. PICK q \in 1..n : o[q] = d
    BY <1>6, <2>1
  <2>3. q < p
    BY <1>2, <2>2 DEF IsOrder
  <2> QED
    BY <1>7, <1>9, <2>2, <2>3
<1>11. o[p] \in Indices /\ o[p] \notin Done /\ inDegree[o[p]] = 0
  <2>1. o[p] \in Indices /\ o[p] \notin Done
    BY <1>2, <1>7
  <2>2. deps[o[p]] \ Done = {}
    BY <1>10
  <2> QED
    BY <2>1, <2>2, FS_EmptySet DEF SortInv, Counted
<1>12. Queued = {}
  BY <1>3 DEF Queued
<1> QED
  BY <1>11, <1>12 DEF SortInv, Once

(* Kahn's invariant: what is taken, what is queued and what is counted.    *)
THEOREM SortInvariant == SortSpec => []SortInv
<1>1. SortInit => SortInv
  BY SortBegun
<1>2. SortInv /\ [Pop \/ SortEnds]_sort => SortInv'
  <2>1. SortInv /\ UNCHANGED sort => SortInv'
    <3> SUFFICES ASSUME SortInv, UNCHANGED sort PROVE SortInv'
      OBVIOUS
    <3>1. UNCHANGED <<deps, inDegree, queue, sorted, phase>>
      BY DEF sort
    <3>2. Indices' = Indices /\ Done' = Done /\ Queued' = Queued
      BY <3>1 DEF Indices, Done, Queued
    <3>3. SortTypes' /\ Once'
      BY <3>1, <3>2 DEF SortInv, SortTypes, Once
    <3>4. Counted'
      BY <3>1, <3>2 DEF SortInv, Counted
    <3>5. Behind'
      BY <3>1 DEF SortInv, Behind
    <3> QED
      BY <3>1, <3>3, <3>4, <3>5 DEF SortInv
  <2> QED
    BY <2>1, PopKeeps, EndKeeps
<1> QED
  BY <1>1, <1>2, PTL DEF SortSpec

(* topoSortComputes answers with an order of the computations if there is  *)
(* one, and refuses the rule only if there is none.                        *)
THEOREM SortIsRight == SortSpec => []SortedOrRefused
<1>1. SortInv => SortedOrRefused
  BY AllTaken, NoneExists DEF SortedOrRefused
<1> QED
  BY <1>1, SortInvariant, PTL
=============================================================================
