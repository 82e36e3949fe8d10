------------------------------ MODULE TopoSort ------------------------------
(***************************************************************************)
(* topoSortComputes of db/internal/dbsp/expr/expand.go: the computations   *)
(* of a rule may be written in any order and read each other's variables;  *)
(* Kahn's algorithm puts each behind those it waits for, or finds that     *)
(* they wait for each other.  A computation is its index in the rule.      *)
(***************************************************************************)
EXTENDS Naturals, FiniteSets, Sequences

VARIABLES
  deps,     \* the computations each computation waits for
  inDegree, \* of them still to come
  queue,    \* computations that wait for none any more
  sorted,   \* the order found so far
  phase     \* "sorting", "sorted" or "circular"; "invalid" when no sort was begun

sort == <<deps, inDegree, queue, sorted, phase>>

(* What n computations may wait for: j # i in the code.                    *)
Waits(n) == {d \in [1..n -> SUBSET (1..n)] : \A i \in 1..n : i \notin d[i]}

(* The indices are met in ascending order, as inDegree and adj list them:  *)
(* the k-th has k of them up to itself.                                    *)
Ascending(S) == [k \in 1..Cardinality(S) |-> CHOOSE x \in S : Cardinality({y \in S : y <= x}) = k]

SortBegins(d) ==
  /\ deps = d
  /\ inDegree = [i \in DOMAIN d |-> Cardinality(d[i])]
  /\ queue = Ascending({i \in DOMAIN d : inDegree[i] = 0})
  /\ sorted = <<>>

(* Mutant: an expression is taken before the last it waits for.            *)
PopEarly ==
  /\ phase = "sorting" /\ queue # <<>>
  /\ LET waiting == {n \in DOMAIN deps : Head(queue) \in deps[n]}
     IN  /\ inDegree' = [n \in DOMAIN inDegree |-> IF n \in waiting THEN 0 ELSE inDegree[n]]
         /\ queue' = Tail(queue) \o Ascending({n \in waiting : inDegree[n] > 0})
  /\ sorted' = Append(sorted, Head(queue))
  /\ UNCHANGED <<deps, phase>>

(* One round of the loop.                                                  *)
Pop ==
  /\ phase = "sorting" /\ queue # <<>>
  /\ LET waiting == {n \in DOMAIN deps : Head(queue) \in deps[n]}
     IN  /\ inDegree' = [n \in DOMAIN inDegree |-> IF n \in waiting THEN inDegree[n] - 1 ELSE inDegree[n]]
         /\ queue' = Tail(queue) \o Ascending({n \in waiting : inDegree'[n] = 0})
  /\ sorted' = Append(sorted, Head(queue))
  /\ UNCHANGED <<deps, phase>>

SortEnds ==
  /\ phase = "sorting" /\ queue = <<>>
  /\ phase' = IF Len(sorted) = Len(deps) THEN "sorted" ELSE "circular"
  /\ UNCHANGED <<deps, inDegree, queue, sorted>>

SortInit == (\E n \in Nat : \E d \in Waits(n) : SortBegins(d)) /\ phase = "sorting"
SortSpec == SortInit /\ [][Pop \/ SortEnds]_sort

-----------------------------------------------------------------------------
(* Properties.                                                             *)

(* Every computation once, behind those it waits for.                      *)
IsOrder(o) ==
  /\ \A i, j \in DOMAIN deps : o[i] = o[j] => i = j
  /\ \A i, j \in DOMAIN deps : o[j] \in deps[o[i]] => j < i

(* The sort ends with such an order, and a rule is refused as circular     *)
(* only when there is none.                                                *)
SortedOrRefused ==
  /\ phase = "sorted" => sorted \in [DOMAIN deps -> DOMAIN deps] /\ IsOrder(sorted)
  /\ phase = "circular" => \A o \in [DOMAIN deps -> DOMAIN deps] : ~IsOrder(o)
=============================================================================
