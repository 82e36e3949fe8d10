--------------------------- MODULE MCShardedStore ---------------------------
(***************************************************************************)
(* Instances of ShardedStore.  Two levels: a database per region, regions  *)
(* 0 and 1 having one; a table per shop_id % 2, so that shops 0 and 2      *)
(* share a table.                                                          *)
(***************************************************************************)
EXTENDS ShardedStore

MCValue  == 0..2
MCTables == {"t0", "t1"}

tableNo(n) == IF n % 2 = 0 THEN "t0" ELSE "t1"

Cond(op, c, vs) == [op |-> op, col |-> c, vals |-> vs]
All(S)          == [kw |-> "and", conds |-> S]
Any(S)          == [kw |-> "or", conds |-> S]
None(S)         == [kw |-> "not", conds |-> S]
And(S)          == [kw |-> "and", parts |-> S]
Eq(c, v)        == Cond("eq", c, {v})
In(c, vs)       == Cond("in", c, vs)

-----------------------------------------------------------------------------
(* Two levels.                                                             *)

TwoColumn   == {"id", "region", "shop", "deleted"}
TwoRequired == {"region", "shop"}
TwoKey      == [TwoRequired -> MCValue]
TwoDbKeyOf  == [k \in TwoKey |-> <<"d0", "d1", "d2">>[k["region"] + 1]]
TwoTableOf  == [k \in TwoKey |-> tableNo(k["shop"])]
TwoDbs      == {"d0", "d1"}

row(i, g, s, d) == [id |-> i, region |-> g, shop |-> s, deleted |-> d]

TwoEntities == {row(1, 0, 0, 0), row(1, 0, 2, 0), row(1, 1, 1, 0), row(2, 0, 1, 0),
                row(0, 1, 2, 0), row(1, 2, 0, 0)}

TwoContexts == {NoKey, [region |-> 0, shop |-> 0], [region |-> 1]}

TwoUpdates  == {[deleted |-> 1]}

TwoBatches  == {<<row(1, 0, 0, 0), row(2, 0, 2, 0)>>, <<row(2, 1, 1, 0)>>, <<>>}

TwoQueries ==
  { And({All({Eq("region", 0), In("shop", {0, 2})}), All({Eq("deleted", 0)})}),
    And({All({Eq("region", 1)}), Any({Eq("shop", 0), Eq("shop", 2)})}),
    And({All({Eq("shop", 1)}), Any({Eq("deleted", 0), Eq("deleted", 1)})}),
    And({All({Eq("region", 0), In("shop", {0, 1})})}),
    And({All({Eq("region", 0), Cond("range", "shop", {})})}),
    And({All({Eq("region", 0), Eq("shop", 1)}), None({Eq("deleted", 1)})}),
    NilQuery }
=============================================================================
