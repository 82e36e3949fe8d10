----------------------------- MODULE Snowflake -----------------------------
(***************************************************************************)
(* snowflakeGenerator.Next (util/idutil/id.go): goroutines draw ids from   *)
(* two atomics, one step per atomic operation.  An id is the pair of its   *)
(* timestamp and its sequence number; the machine id is one for all, and   *)
(* the shifts that pack the three keep different pairs different.  The     *)
(* clock is a wall clock: it may stand still, jump or go back.             *)
(***************************************************************************)
EXTENDS Naturals, Sequences

CONSTANTS
  Goroutine,
  SeqLimit,  \* 4096
  MaxTime,   \* bound: milliseconds since the epoch of the generator
  MaxIssued  \* bound: ids drawn

ASSUME GeneratorAssumption ==
  SeqLimit \in Nat \ {0} /\ MaxTime \in Nat \ {0} /\ MaxIssued \in Nat

VARIABLES
  clock,
  lastTime, \* g.lastTime
  sequence, \* g.sequence, kept at SeqLimit once it gets there
  pc,       \* next operation of each goroutine
  now,      \* its local now
  last,     \* its local last
  issued,   \* history: the ids in the order Next returned them
  callers   \* history: goroutines that have called Next

vars == <<clock, lastTime, sequence, pc, now, last, issued, callers>>

Init ==
  /\ clock \in 1..MaxTime
  /\ lastTime = 0 /\ sequence = 0
  /\ pc = [g \in Goroutine |-> "clock"]
  /\ now = [g \in Goroutine |-> 0]
  /\ last = [g \in Goroutine |-> 0]
  /\ issued = <<>> /\ callers = {}

(* Also the first step of a new call.                                      *)
ReadClock(g) ==
  /\ pc[g] = "clock" /\ Len(issued) < MaxIssued
  /\ now' = [now EXCEPT ![g] = clock]
  /\ pc' = [pc EXCEPT ![g] = "load"]
  /\ callers' = callers \cup {g}
  /\ UNCHANGED <<clock, lastTime, sequence, last, issued>>

(* Mutant: a millisecond is opened again.                                  *)
LoadLastOrEqual(g) ==
  /\ pc[g] = "load"
  /\ last' = [last EXCEPT ![g] = lastTime]
  /\ pc' = [pc EXCEPT ![g] = IF now[g] >= lastTime THEN "cas" ELSE "add"]
  /\ UNCHANGED <<clock, lastTime, sequence, now, issued, callers>>

LoadLast(g) ==
  /\ pc[g] = "load"
  /\ last' = [last EXCEPT ![g] = lastTime]
  /\ pc' = [pc EXCEPT ![g] = IF now[g] > lastTime THEN "cas" ELSE "add"]
  /\ UNCHANGED <<clock, lastTime, sequence, now, issued, callers>>

(* Mutant: a store in place of the CAS.                                    *)
StoreLast(g) ==
  /\ pc[g] = "cas"
  /\ lastTime' = now[g]
  /\ pc' = [pc EXCEPT ![g] = "reset"]
  /\ UNCHANGED <<clock, sequence, now, last, issued, callers>>

CompareAndSwap(g) ==
  /\ pc[g] = "cas"
  /\ IF lastTime = last[g]
       THEN lastTime' = now[g] /\ pc' = [pc EXCEPT ![g] = "reset"]
       ELSE UNCHANGED lastTime /\ pc' = [pc EXCEPT ![g] = "clock"]
  /\ UNCHANGED <<clock, sequence, now, last, issued, callers>>

Issue(g, t, seq) ==
  /\ issued' = Append(issued, <<t, seq>>)
  /\ pc' = [pc EXCEPT ![g] = "clock"]

StoreZero(g) ==
  /\ pc[g] = "reset"
  /\ sequence' = 0
  /\ Issue(g, now[g], 0)
  /\ UNCHANGED <<clock, lastTime, now, last, callers>>

(* Mutant: the sequence runs into the bits of the machine id.              *)
AddOneToLimit(g) ==
  /\ pc[g] = "add" /\ sequence < SeqLimit
  /\ sequence' = sequence + 1
  /\ Issue(g, last[g], sequence + 1)
  /\ UNCHANGED <<clock, lastTime, now, last, callers>>

(* The sequence is used up for this millisecond: sleep and try again.      *)
AddOne(g) ==
  /\ pc[g] = "add"
  /\ sequence' = IF sequence < SeqLimit THEN sequence + 1 ELSE sequence
  /\ IF sequence + 1 < SeqLimit
       THEN Issue(g, last[g], sequence + 1)
       ELSE pc' = [pc EXCEPT ![g] = "clock"] /\ UNCHANGED issued
  /\ UNCHANGED <<clock, lastTime, now, last, callers>>

ClockMoves ==
  /\ clock' \in 1..MaxTime
  /\ UNCHANGED <<lastTime, sequence, pc, now, last, issued, callers>>

Next == \/ ClockMoves
        \/ \E g \in Goroutine : \/ ReadClock(g) \/ LoadLast(g) \/ CompareAndSwap(g)
                                \/ StoreZero(g) \/ AddOne(g)

Spec == Init /\ [][Next]_vars

-----------------------------------------------------------------------------
(* Properties.                                                             *)

(* Type invariant.                                                         *)
TypeOK ==
  /\ clock \in 1..MaxTime
  /\ lastTime \in Nat /\ sequence \in 0..SeqLimit
  /\ pc \in [Goroutine -> {"clock", "load", "cas", "reset", "add"}]
  /\ now \in [Goroutine -> Nat] /\ last \in [Goroutine -> Nat]
  /\ issued \in Seq(Nat \X (0..SeqLimit - 1))
  /\ callers \subseteq Goroutine

(* The package comment: unique identifiers.                                *)
Unique == \A i, j \in DOMAIN issued : issued[i] = issued[j] => i = j

Before(a, b) == a[1] < b[1] \/ (a[1] = b[1] /\ a[2] < b[2])

Ordered == \A i, j \in DOMAIN issued : i < j => Before(issued[i], issued[j])

(* As long as one goroutine has drawn all ids, each is above those before  *)
(* it, even when the clock goes back or the sequence runs out in a         *)
(* millisecond.                                                            *)
Increasing == \A g \in Goroutine : callers \subseteq {g} => Ordered

(* However many goroutines race, only one of them opens a millisecond: no  *)
(* two ids with sequence 0 share a timestamp.                              *)
OneOpener ==
  \A i, j \in DOMAIN issued : issued[i] = issued[j] /\ issued[i][2] = 0 => i = j
=============================================================================
