---------------------------- MODULE LogicalTable ----------------------------
(***************************************************************************)
(* What a sharded table store (db/internal/dbsp/sharding_table_store.go)   *)
(* promises its callers: to behave as one table.  A row is known by the    *)
(* place its sharding columns give it and by its id; a call writes the     *)
(* rows it was given, or changes or removes those it describes at one      *)
(* place, and touches no other row wherever it lives.                      *)
(***************************************************************************)
CONSTANTS
  Row,        \* rows of the table
  Place,      \* where rows may be at home
  PlaceOf,    \* row -> its place
  IdOf,       \* row -> its id
  Writes,     \* sets of rows one call may write
  Described,  \* sets of rows an id or a query describes
  Changes     \* what an update makes of a row: functions on Row

VARIABLE table

Init == table = {}

Same(r, t) == PlaceOf[r] = PlaceOf[t] /\ IdOf[r] = IdOf[t]

(* Rows that one statement can write: of one place, no two the same.       *)
Together(E) == \A d, e \in E : PlaceOf[d] = PlaceOf[e] /\ (Same(d, e) => d = e)

At(p, D) == {r \in table \cap D : PlaceOf[r] = p}

Insert(E) ==
  /\ \A e \in E, r \in table : ~Same(e, r)
  /\ table' = table \cup E

Replace(E) == table' = {r \in table : \A e \in E : ~Same(e, r)} \cup E

Change(p, D, f) ==
  /\ \A r \in At(p, D) : Same(f[r], r)
  /\ table' = (table \ At(p, D)) \cup {f[r] : r \in At(p, D)}

Remove(p, D) == table' = table \ At(p, D)

Next ==
  \/ \E E \in Writes \cap SUBSET table' : Together(E) /\ (Insert(E) \/ Replace(E))
  \/ \E p \in Place :
       /\ \A r \in table \ table' : PlaceOf[r] = p
       /\ \E D \in Described : Remove(p, D) \/ \E f \in Changes : Change(p, D, f)

Spec == Init /\ [][Next]_table
=============================================================================
