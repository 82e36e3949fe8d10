---------------------------- MODULE ShardRouting ----------------------------
(***************************************************************************)
(* How a sharded table store (db/internal/dbsp/sharding_table_store.go)    *)
(* turns the arguments of a call into one physical table: column values    *)
(* are collected from the entity, the id, the query and the ShardingKey of *)
(* the context, checked to agree on one target, and given to the database  *)
(* and table rules.                                                        *)
(*                                                                         *)
(* A rule is a function from sharding keys: what its expressions compute   *)
(* is data.  A query is taken up to the order of its conditions and of the *)
(* values of an IN: the order is the caller's, so any of the values the    *)
(* query gives a column may be the one found first.                        *)
(***************************************************************************)
EXTENDS Naturals

CONSTANTS
  Column,      \* columns of the entity
  IdColumn,    \* the column named by IdFieldName
  Value,       \* values a column may hold
  Zero,        \* the zero value of a field, which Updates(entity) skips
  Required,    \* columns the database rule and the table rule read
  DbKeyOf,     \* database rule: sharding key -> target key, or RuleError
  TableOf,     \* table rule: sharding key -> physical table, or RuleError
  Dbs,         \* keys of the configured DatabaseTargets
  Tables,      \* names of the physical tables of each database
  RuleError,   \* a rule failed to evaluate
  NoKey        \* a context without a ShardingKey

Key   == [Required -> Value]
Row   == [Column -> Value]
Shard == [db : Dbs, table : Tables]

ASSUME RoutingAssumption ==
  /\ IdColumn \in Column
  /\ Required \subseteq Column
  /\ Zero \in Value
  /\ DOMAIN DbKeyOf = Key /\ DOMAIN TableOf = Key
  /\ RuleError \notin Dbs /\ RuleError \notin Tables

-----------------------------------------------------------------------------
(* Queries: a keyword over parts, a part a keyword over conditions.  A     *)
(* group without conditions is no part: ToGormExpression leaves it out.    *)
(* IsNull is "eq" with the null among the values, and is extracted as one; *)
(* IsNotNull is "noteq".                                                   *)

Keyword   == {"and", "or", "not"}
Operator  == {"eq", "in", "range", "noteq"}
Condition == [op : Operator, col : Column, vals : SUBSET Value]
Part      == [kw : Keyword, conds : SUBSET Condition \ {{}}]
Query     == [kw : Keyword, parts : SUBSET Part]

NilQuery  == [kw |-> "and", parts |-> {}]

(* GormQuery.ToGormExpression evaluated by the database on one row.  A     *)
(* range holds of any row here: which rows it selects is the data's.       *)
Holds(r, c) == CASE c.op \in {"eq", "in"} -> r[c.col] \in c.vals
                 [] c.op = "noteq"        -> r[c.col] \notin c.vals
                 [] OTHER                 -> TRUE

HoldsPart(r, p) == CASE p.kw = "and" -> \A c \in p.conds : Holds(r, c)
                     [] p.kw = "or"  -> \E c \in p.conds : Holds(r, c)
                     [] OTHER        -> \A c \in p.conds : ~Holds(r, c)

Matches(r, q) == CASE q.kw = "and" -> \A p \in q.parts : HoldsPart(r, p)
                   [] q.kw = "or"  -> q.parts = {} \/ \E p \in q.parts : HoldsPart(r, p)
                   [] OTHER        -> \A p \in q.parts : ~HoldsPart(r, p)

-----------------------------------------------------------------------------
(* Where column values come from.  first[c] holds the values of which one  *)
(* is met first for column c, all[c] every value met; both are empty when  *)
(* the column is absent.                                                   *)

Columns(f) == [first |-> f, all |-> f]

(* The values of AND and OR branches alike; NOT branches are skipped, and  *)
(* so is every condition other than Eq and IN.                             *)
ExtractColumnsFromQuery(q) ==
  Columns([col \in Column |->
    {v \in Value : /\ q.kw # "not"
                   /\ \E p \in q.parts : \E c \in p.conds :
                        p.kw # "not" /\ c.col = col /\ c.op \in {"eq", "in"} /\ v \in c.vals}])

fromEntity(e) == Columns([c \in Column |-> IF c \in Required THEN {e[c]} ELSE {}])

fromId(id) == Columns([c \in Column |-> IF c = IdColumn THEN {id} ELSE {}])

fromCtx(ctx) == Columns([c \in Column |->
                  IF ctx = NoKey THEN {} ELSE IF c \in DOMAIN ctx THEN {ctx[c]} ELSE {}])

(* Values of m come before those of n.                                     *)
merge(m, n) == [first |-> [c \in Column |-> IF m.first[c] # {} THEN m.first[c] ELSE n.first[c]],
                all   |-> [c \in Column |-> m.all[c] \cup n.all[c]]]

-----------------------------------------------------------------------------
(* Resolution.                                                             *)

resolveTarget(k) == [db |-> DbKeyOf[k], table |-> TableOf[k]]

(* Mutant: only the first value of a column is looked at.                  *)
firstValueOnly(k, all) == TRUE

(* reduceColumns: every alternative value of a column, put alone in the    *)
(* reference key k, must lead to the target of k.                          *)
SameTarget(k, all) ==
  \A c \in Required : \A v \in all[c] : resolveTarget([k EXCEPT ![c] = v]) = resolveTarget(k)

(* The sharding keys a call may be given: a column without a value leaves  *)
(* none, which is the error of buildShardingKey.                           *)
reduceColumns(m) == {k \in Key : /\ \A c \in Required : k[c] \in m.first[c]
                                 /\ SameTarget(k, m.all)}

(* The physical tables the call may be sent to; none when it is refused.   *)
(* findDb fails for a key without a DatabaseTarget, a table the database   *)
(* does not have fails the statement.  A store whose rules read no column  *)
(* has no key resolver and needs a ShardingKey in the context.             *)
resolve(m, ctx) ==
  {s \in {resolveTarget(k) : k \in reduceColumns(m)} :
     /\ s \in Shard
     /\ Required = {} => ctx # NoKey}

(* Mutant: a ShardingKey with every column decides without the entity.     *)
ctxOverEntity(ctx, e) ==
  resolve(IF ctx # NoKey /\ Required \subseteq DOMAIN ctx
            THEN fromCtx(ctx)
            ELSE merge(fromEntity(e), fromCtx(ctx)),
          ctx)

resolveForEntity(ctx, e) == resolve(merge(fromEntity(e), fromCtx(ctx)), ctx)

resolveForId(ctx, id) == resolve(merge(fromId(id), fromCtx(ctx)), ctx)

resolveForQuery(ctx, q) == resolve(merge(ExtractColumnsFromQuery(q), fromCtx(ctx)), ctx)

resolveForEntityAndQuery(ctx, e, q) ==
  resolve(merge(merge(fromEntity(e), ExtractColumnsFromQuery(q)), fromCtx(ctx)), ctx)

-----------------------------------------------------------------------------
(* What routing is measured against.                                       *)

KeyOfRow(r) == [c \in Required |-> r[c]]
Home(r)     == resolveTarget(KeyOfRow(r))

(* The keys of one target form a box: a key each of whose values occurs,   *)
(* in its column, in some key of the target leads there too.  Rules that   *)
(* read one column each (region picks the database, shop_id the table) or  *)
(* one column altogether have this shape; (a * b) % 2 has not.             *)
Rectangular ==
  \A k, l \in Key :
    (\A c \in Required : \E m \in Key : m[c] = l[c] /\ resolveTarget(m) = resolveTarget(k))
      => resolveTarget(l) = resolveTarget(k)

(* A query that restricts rows by each sharding column it mentions: an OR  *)
(* only ever chooses between values of one column.                         *)
Restrictive(q) ==
  /\ q.kw = "and"
  /\ \A p \in q.parts :
       p.kw = "or" =>
         \A c, d \in p.conds :
            c.col \in Required /\ c.op \in {"eq", "in"} => d.col = c.col /\ d.op \in {"eq", "in"}
=============================================================================
