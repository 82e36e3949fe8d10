--------------------------- MODULE MCTransactions ---------------------------
(***************************************************************************)
(* Two groups: "default" is one database, "order_dbs" two of them by key,  *)
(* and its rule leads a third key to no target.  User has the default      *)
(* group, Audit one that is not configured, Order the sharded one, with    *)
(* two tables.                                                             *)
(***************************************************************************)
EXTENDS Transactions

MCKey     == {1, 2, 3}
MCGroup   == {"default", "order_dbs"}
MCEntity  == {"User", "Audit", "Order"}
MCGroupOf == [e \in MCEntity |-> CASE e = "User"  -> "default"
                                   [] e = "Audit" -> "audit_dbs"
                                   [] OTHER       -> "order_dbs"]
MCTargets == [default |-> <<"0">>, order_dbs |-> <<"db_1", "db_2">>]
MCDbRule  == [default |-> NoRule, order_dbs |-> <<"db_1", "db_2", "db_3">>]
MCTableOf == [e \in MCEntity |-> [k \in MCKey |-> IF e = "Order" THEN <<"t1", "t0", "t1">>[k] ELSE e]]
=============================================================================
