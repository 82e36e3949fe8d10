----------------------------- MODULE GroupOffset -----------------------------
(***************************************************************************)
(* What both consumers of mq/internal/mqsp promise about the offset of     *)
(* their group on a partition, whoever owns it.  A group that has never    *)
(* committed starts at the end of the partition, anew with each owner: the *)
(* constructors leave sarama's Offsets.Initial at OffsetNewest.  From the  *)
(* start on that a commit makes the last one, the offset passes a record   *)
(* once that and every record since the start are settled, settled records *)
(* stay so, and the offset never goes back.                                *)
(***************************************************************************)
EXTENDS Naturals

VARIABLES
  end,     \* records of the partition: 1 .. end
  settled, \* records somebody has dealt with
  first,   \* records up to it came before the group's start
  offset   \* records up to it are never read again

vars == <<end, settled, first, offset>>

Init == end \in Nat /\ settled = {} /\ first = 0 /\ offset = 0

Settle ==
  /\ end' \in {end, end + 1}
  /\ settled \subseteq settled' /\ settled' \subseteq 1..end'
  /\ UNCHANGED <<first, offset>>

Committed == offset > first

Start ==
  /\ ~Committed
  /\ first' = end /\ offset' = end
  /\ UNCHANGED <<end, settled>>

Pass ==
  /\ offset' > offset /\ (first + 1)..offset' \subseteq settled
  /\ UNCHANGED <<end, settled, first>>

Next == Settle \/ Start \/ Pass

Spec == Init /\ [][Next]_vars
=============================================================================
