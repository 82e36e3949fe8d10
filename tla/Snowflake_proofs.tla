-------------------------- MODULE Snowflake_proofs --------------------------
(***************************************************************************)
(* Ids drawn by one goroutine are increasing, hence unique, whatever the   *)
(* clock does and however many are drawn in a millisecond; and however     *)
(* many goroutines race, at most one opens a millisecond.                  *)
(***************************************************************************)
EXTENDS Snowflake, TLAPS

(* What the goroutine knows is what the generator holds.                   *)
Local(g) == /\ pc[g] \in {"cas", "add"} => last[g] = lastTime
            /\ pc[g] = "cas" => now[g] > lastTime
            /\ pc[g] = "reset" => now[g] = lastTime

(* No id reaches the next one to be issued: none of this millisecond has   *)
(* been issued when the sequence is about to be reset.                     *)
Behind(g) == \A i \in DOMAIN issued :
               \/ issued[i][1] < lastTime
               \/ /\ issued[i][1] = lastTime /\ issued[i][2] <= sequence
                  /\ pc[g] # "reset"

Alone(g) == callers \subseteq {g}

(* A goroutine that never called is not inside Next.                       *)
OthersIdle == \A h \in Goroutine : h \notin callers => pc[h] = "clock"

Sorted(g) == Local(g) /\ Behind(g) /\ Ordered

(* The inductive invariant.                                                *)
IdInv(g) == TypeOK /\ OthersIdle /\ (Alone(g) => Sorted(g))

-----------------------------------------------------------------------------
(* Issuing an id above every earlier one keeps the order.                  *)
LEMMA IssueKeepsOrder ==
  ASSUME NEW g, TypeOK, Ordered, NEW t \in Nat, NEW q \in 0..SeqLimit - 1, Issue(g, t, q),
         \A i \in DOMAIN issued : Before(issued[i], <<t, q>>)
  PROVE  /\ Ordered' /\ issued' \in Seq(Nat \X (0..SeqLimit - 1))
         /\ \A i \in DOMAIN issued' : issued'[i] = <<t, q>> \/ (i \in DOMAIN issued /\ issued'[i] = issued[i])
<1> DEFINE n == Len(issued)
<1>1. /\ issued \in Seq(Nat \X (0..SeqLimit - 1)) /\ issued' = Append(issued, <<t, q>>)
      /\ <<t, q>> \in Nat \X (0..SeqLimit - 1)
  BY DEF TypeOK, Issue
<1>2. /\ n \in Nat /\ DOMAIN issued = 1..n /\ DOMAIN issued' = 1..(n + 1)
      /\ issued'[n + 1] = <<t, q>>
      /\ \A i \in 1..n : issued'[i] = issued[i]
      /\ issued' \in Seq(Nat \X (0..SeqLimit - 1))
  BY <1>1
<1>3. ASSUME NEW i \in 1..(n + 1), NEW j \in 1..(n + 1), i < j
      PROVE  Before(issued'[i], issued'[j])
  <2>1. i \in 1..n  BY <1>2, <1>3
  <2>2. CASE j = n + 1  BY <2>1, <2>2, <1>2
  <2>3. CASE j # n + 1
    <3>1. j \in 1..n  BY <2>3, <1>2
    <3> QED  BY <2>1, <3>1, <1>2, <1>3 DEF Ordered
  <2> QED  BY <2>2, <2>3
<1>4. Ordered'  BY <1>2, <1>3 DEF Ordered, Before
<1>5. \A i \in 1..(n + 1) : i = n + 1 \/ i \in 1..n  BY <1>2
<1> QED  BY <1>2, <1>4, <1>5

(* Type correctness.                                                       *)
THEOREM TypesAreCorrect == Spec => []TypeOK
<1> USE GeneratorAssumption
<1>1. Init => TypeOK  BY DEF Init, TypeOK
<1>2. TypeOK /\ [Next]_vars => TypeOK'
  <2> SUFFICES ASSUME TypeOK, [Next]_vars PROVE TypeOK'  OBVIOUS
  <2>1. ASSUME NEW h \in Goroutine, ReadClock(h) \/ LoadLast(h) \/ CompareAndSwap(h)
        PROVE  TypeOK'
    <3>1. CASE ReadClock(h)
      <4>1. callers' \subseteq Goroutine  BY <3>1 DEF ReadClock, TypeOK
      <4>2. clock \in Nat  BY DEF TypeOK
      <4> QED  BY <3>1, <4>1, <4>2 DEF TypeOK, ReadClock
    <3>2. CASE LoadLast(h)  BY <3>2 DEF TypeOK, LoadLast
    <3>3. CASE CompareAndSwap(h)
      <4>1. lastTime' \in Nat  BY <3>3 DEF CompareAndSwap, TypeOK
      <4>2. pc' \in [Goroutine -> {"clock", "load", "cas", "reset", "add"}]
        BY <3>3 DEF CompareAndSwap, TypeOK
      <4> QED  BY <3>3, <4>1, <4>2 DEF CompareAndSwap, TypeOK
    <3> QED  BY <2>1, <3>1, <3>2, <3>3
  <2>2. ASSUME NEW h \in Goroutine, StoreZero(h)  PROVE TypeOK'
    <3>1. <<now[h], 0>> \in Nat \X (0..SeqLimit - 1)  BY DEF TypeOK
    <3>2. issued' \in Seq(Nat \X (0..SeqLimit - 1))
      BY <2>2, <3>1 DEF TypeOK, StoreZero, Issue
    <3> QED  BY <2>2, <3>2 DEF TypeOK, StoreZero, Issue
  <2>3. ASSUME NEW h \in Goroutine, AddOne(h)  PROVE TypeOK'
    <3>1. sequence' \in 0..SeqLimit  BY <2>3 DEF TypeOK, AddOne
    <3>2. CASE sequence + 1 < SeqLimit
      <4>1. PICK t \in Nat, q \in 0..SeqLimit - 1 : t = last[h] /\ q = sequence + 1
        BY <3>2 DEF TypeOK
      <4>2. issued' = Append(issued, <<t, q>>)  BY <2>3, <3>2, <4>1 DEF AddOne, Issue
      <4>3. issued' \in Seq(Nat \X (0..SeqLimit - 1))  BY <4>2 DEF TypeOK
      <4> QED  BY <2>3, <3>1, <3>2, <4>3 DEF TypeOK, AddOne, Issue
    <3>3. CASE ~(sequence + 1 < SeqLimit)
      BY <2>3, <3>1, <3>3 DEF TypeOK, AddOne
    <3> QED  BY <3>2, <3>3
  <2>4. CASE ClockMoves \/ UNCHANGED vars
    BY <2>4 DEF TypeOK, ClockMoves, vars
  <2> QED  BY <2>1, <2>2, <2>3, <2>4 DEF Next
<1> QED  BY <1>1, <1>2, PTL DEF Spec

(* Each operation of the only goroutine keeps its ids sorted.              *)
LEMMA SortedStep ==
  ASSUME NEW g \in Goroutine, TypeOK, TypeOK', Sorted(g),
         \/ ReadClock(g) \/ LoadLast(g) \/ CompareAndSwap(g) \/ StoreZero(g) \/ AddOne(g)
         \/ ClockMoves \/ UNCHANGED vars
  PROVE  Sorted(g)'
<1> USE GeneratorAssumption DEF Sorted
<1>0. /\ lastTime \in Nat /\ sequence \in 0..SeqLimit /\ now[g] \in Nat /\ last[g] \in Nat
      /\ \A i \in DOMAIN issued : issued[i][1] \in Nat /\ issued[i][2] \in Nat
  <2>1. \A i \in DOMAIN issued : issued[i] \in Nat \X (0..SeqLimit - 1)  BY DEF TypeOK
  <2>2. \A i \in DOMAIN issued : issued[i][1] \in Nat /\ issued[i][2] \in Nat  BY <2>1
  <2> QED  BY <2>2 DEF TypeOK
<1>1. CASE ClockMoves
  BY <1>1 DEF ClockMoves, TypeOK, Local, Behind, Ordered, Before
<1>2. CASE ReadClock(g)
  <2>1. pc'[g] = "load"  BY <1>2 DEF ReadClock, TypeOK
  <2>2. UNCHANGED <<lastTime, sequence, last, issued>> /\ pc[g] # "reset"
    BY <1>2 DEF ReadClock
  <2>3. Local(g)'  BY <2>1 DEF Local
  <2>4. Behind(g)' /\ Ordered'  BY <2>1, <2>2 DEF Behind, Ordered, Before
  <2> QED  BY <2>3, <2>4
<1>3. CASE LoadLast(g)
  BY <1>3 DEF LoadLast, TypeOK, Local, Behind, Ordered, Before
<1>4. CASE CompareAndSwap(g)
  <2>1. TypeOK /\ pc[g] = "cas" /\ last[g] = lastTime /\ now[g] > lastTime
    BY <1>4 DEF CompareAndSwap, Local
  <2>2. /\ lastTime' = now[g] /\ pc' = [pc EXCEPT ![g] = "reset"]
        /\ UNCHANGED <<clock, sequence, now, last, issued>>
    BY <1>4, <2>1 DEF CompareAndSwap
  <2>3. Local(g)' /\ Ordered'
    BY <2>1, <2>2 DEF TypeOK, Local, Ordered, Before
  <2>4. Behind(g)'  BY <1>0, <2>1, <2>2 DEF Behind
  <2> QED  BY <2>3, <2>4
<1>5. CASE StoreZero(g)
  <2>1. /\ Issue(g, now[g], 0) /\ sequence' = 0 /\ pc[g] = "reset" /\ now[g] = lastTime
        /\ UNCHANGED <<clock, lastTime, now, last>>
    BY <1>5 DEF StoreZero, Local
  <2>2. PICK t \in Nat : t = now[g]  BY <1>0
  <2>3. \A i \in DOMAIN issued : issued[i][1] < t  BY <2>1, <2>2 DEF Behind
  <2>4. /\ Ordered'
        /\ \A i \in DOMAIN issued' : issued'[i] = <<t, 0>>
                                    \/ (i \in DOMAIN issued /\ issued'[i] = issued[i])
    <3>1. \A i \in DOMAIN issued : Before(issued[i], <<t, 0>>)  BY <2>3 DEF Before
    <3>2. Issue(g, t, 0) /\ 0 \in 0..SeqLimit - 1  BY <2>1, <2>2
    <3> QED  BY <3>1, <3>2, IssueKeepsOrder
  <2>5. pc'[g] = "clock"  BY <2>1 DEF Issue, TypeOK
  <2>6. Local(g)'  BY <2>5 DEF Local
  <2>7. Behind(g)'  BY <2>1, <2>2, <2>3, <2>4, <2>5 DEF Behind
  <2> QED  BY <2>4, <2>6, <2>7
<1>6. CASE AddOne(g)
  <2>1. /\ pc[g] = "add" /\ last[g] = lastTime /\ pc' = [pc EXCEPT ![g] = "clock"]
        /\ UNCHANGED <<clock, lastTime, now, last>>
    BY <1>6 DEF AddOne, Local, Issue
  <2>2. pc'[g] = "clock"  BY <2>1 DEF TypeOK
  <2>3. Local(g)'  BY <2>2 DEF Local
  <2>4. CASE sequence + 1 < SeqLimit
    <3>1. PICK t \in Nat, q \in 0..SeqLimit - 1 : t = last[g] /\ q = sequence + 1
      BY <1>0, <2>4
    <3>2. sequence' = q /\ Issue(g, t, q)  BY <1>0, <1>6, <2>4, <3>1 DEF AddOne
    <3>3. \A i \in DOMAIN issued : Before(issued[i], <<t, q>>)
      BY <1>0, <2>1, <3>1 DEF Before, Behind
    <3>4. /\ Ordered'
          /\ \A i \in DOMAIN issued' : issued'[i] = <<t, q>>
                                      \/ (i \in DOMAIN issued /\ issued'[i] = issued[i])
      BY <3>2, <3>3, IssueKeepsOrder
    <3>5. Behind(g)'
      <4> SUFFICES ASSUME NEW i \in DOMAIN issued'
                   PROVE  \/ issued'[i][1] < lastTime
                          \/ issued'[i][1] = lastTime /\ issued'[i][2] <= q
        BY <2>1, <2>2, <3>2 DEF Behind
      <4>1. CASE issued'[i] = <<t, q>>  BY <4>1, <2>1, <3>1
      <4>2. CASE i \in DOMAIN issued /\ issued'[i] = issued[i]
        BY <4>2, <1>0, <3>1 DEF Behind
      <4> QED  BY <4>1, <4>2, <3>4
    <3> QED  BY <2>3, <3>4, <3>5
  <2>5. CASE ~(sequence + 1 < SeqLimit)
    <3>1. issued' = issued /\ sequence' \in 0..SeqLimit /\ sequence' >= sequence
      BY <1>0, <1>6, <2>5 DEF AddOne
    <3>2. Ordered'  BY <3>1 DEF Ordered, Before
    <3>3. Behind(g)'  BY <1>0, <2>1, <2>2, <3>1 DEF Behind
    <3> QED  BY <2>3, <3>2, <3>3
  <2> QED  BY <2>4, <2>5
<1>7. CASE UNCHANGED vars
  BY <1>7 DEF vars, TypeOK, Local, Behind, Ordered, Before
<1> QED  BY <1>1, <1>2, <1>3, <1>4, <1>5, <1>6, <1>7

(* The others change nothing before they call, and then g is not alone.    *)
LEMMA IdInvInductive ==
  ASSUME NEW g \in Goroutine
  PROVE  Spec => []IdInv(g)
<1> USE DEF IdInv
<1>1. Init => OthersIdle /\ (Alone(g) => Sorted(g))
  BY DEF Init, OthersIdle, Alone, Sorted, Local, Behind, Ordered
<1>2. TypeOK /\ TypeOK' /\ IdInv(g) /\ [Next]_vars => OthersIdle' /\ (Alone(g)' => Sorted(g)')
  <2> SUFFICES ASSUME TypeOK, TypeOK', IdInv(g), [Next]_vars
               PROVE  OthersIdle' /\ (Alone(g)' => Sorted(g)')
    OBVIOUS
  <2>1. callers \subseteq callers'
    BY DEF Next, vars, ClockMoves, ReadClock, LoadLast, CompareAndSwap, StoreZero, AddOne
  <2>2. ASSUME NEW h \in Goroutine,
               ReadClock(h) \/ LoadLast(h) \/ CompareAndSwap(h) \/ StoreZero(h) \/ AddOne(h)
        PROVE  h \in callers' /\ \A k \in Goroutine \ {h} : pc'[k] = pc[k]
    <3>1. CASE ReadClock(h)  BY <3>1 DEF ReadClock, TypeOK
    <3>2. CASE ~ReadClock(h)
      <4>1. pc[h] # "clock"
        BY <2>2, <3>2 DEF LoadLast, CompareAndSwap, StoreZero, AddOne
      <4>2. h \in callers'  BY <2>1, <4>1 DEF OthersIdle
      <4> QED  BY <2>2, <3>2, <4>2
               DEF LoadLast, CompareAndSwap, StoreZero, AddOne, Issue, TypeOK
    <3> QED  BY <3>1, <3>2
  <2>3. OthersIdle'
    <3>1. CASE ClockMoves \/ UNCHANGED vars
      BY <3>1 DEF OthersIdle, ClockMoves, vars
    <3>2. CASE ~(ClockMoves \/ UNCHANGED vars)
      BY <2>1, <2>2, <3>2 DEF OthersIdle, Next
    <3> QED  BY <3>1, <3>2
  <2>4. ASSUME Alone(g)'  PROVE Sorted(g)'
    <3>1. Sorted(g)  BY <2>1, <2>4 DEF Alone
    <3>2. \/ ReadClock(g) \/ LoadLast(g) \/ CompareAndSwap(g) \/ StoreZero(g) \/ AddOne(g)
          \/ ClockMoves \/ UNCHANGED vars
      BY <2>2, <2>4 DEF Next, Alone
    <3> QED  BY <3>1, <3>2, SortedStep
  <2> QED  BY <2>3, <2>4
<1> QED  BY <1>1, <1>2, TypesAreCorrect, PTL DEF Spec

(* Whichever goroutine draws alone gets increasing ids from Next.          *)
THEOREM SingleGoroutineIncreasing == Spec => []Increasing
<1>1. ASSUME NEW g \in Goroutine  PROVE Spec => [](Alone(g) => Ordered)
  <2>1. IdInv(g) => (Alone(g) => Ordered)  BY DEF IdInv, Sorted
  <2> QED  BY <2>1, IdInvInductive, PTL
<1>2. Spec => \A g \in Goroutine : [](Alone(g) => Ordered)  BY <1>1
<1>3. (\A g \in Goroutine : [](Alone(g) => Ordered)) <=> [](\A g \in Goroutine : Alone(g) => Ordered)
  OBVIOUS
<1> QED  BY <1>2, <1>3, PTL DEF Increasing, Alone

-----------------------------------------------------------------------------
(* Any number of goroutines.                                               *)

(* Who has won the CAS on a millisecond, and who has already issued its    *)
(* first id, are the only ones, and the time does not come back.           *)
OpenInv ==
  /\ \A g \in Goroutine : /\ pc[g] = "cas" => now[g] > last[g]
                          /\ pc[g] = "reset" => now[g] <= lastTime
  /\ \A g, h \in Goroutine : (pc[g] = "reset" /\ pc[h] = "reset" /\ now[g] = now[h]) => g = h
  /\ \A i \in DOMAIN issued : issued[i][2] = 0 =>
       /\ issued[i][1] <= lastTime
       /\ \A g \in Goroutine : pc[g] = "reset" => now[g] # issued[i][1]
  /\ \A i, j \in DOMAIN issued :
       (issued[i][2] = 0 /\ issued[j][2] = 0 /\ issued[i][1] = issued[j][1]) => i = j

(* What Append does to the ids issued.                                     *)
LEMMA IssueAppends ==
  ASSUME NEW g, TypeOK, NEW t \in Nat, NEW q \in 0..SeqLimit - 1, Issue(g, t, q)
  PROVE  /\ Len(issued) \in Nat
         /\ DOMAIN issued = 1..Len(issued) /\ DOMAIN issued' = 1..(Len(issued) + 1)
         /\ issued'[Len(issued) + 1][1] = t /\ issued'[Len(issued) + 1][2] = q
         /\ \A i \in 1..Len(issued) : /\ issued'[i] = issued[i]
                                       /\ issued[i][1] \in Nat /\ issued[i][2] \in Nat
<1> USE GeneratorAssumption
<1>1. /\ issued \in Seq(Nat \X (0..SeqLimit - 1)) /\ issued' = Append(issued, <<t, q>>)
      /\ <<t, q>> \in Nat \X (0..SeqLimit - 1)
  BY DEF TypeOK, Issue
<1>2. /\ Len(issued) \in Nat /\ DOMAIN issued = 1..Len(issued) /\ DOMAIN issued' = 1..(Len(issued) + 1)
      /\ issued'[Len(issued) + 1] = <<t, q>>
      /\ \A i \in 1..Len(issued) : issued'[i] = issued[i] /\ issued[i] \in Nat \X (0..SeqLimit - 1)
  BY <1>1
<1>3. \A i \in 1..Len(issued) : issued[i][1] \in Nat /\ issued[i][2] \in Nat  BY <1>2
<1>4. issued'[Len(issued) + 1][1] = t /\ issued'[Len(issued) + 1][2] = q  BY <1>2
<1> QED  BY <1>2, <1>3, <1>4

(* Each step of each goroutine keeps it.                                   *)
LEMMA OpenStep ==
  ASSUME TypeOK, OpenInv, NEW g \in Goroutine,
         ReadClock(g) \/ LoadLast(g) \/ CompareAndSwap(g) \/ StoreZero(g) \/ AddOne(g)
  PROVE  OpenInv'
<1> USE GeneratorAssumption
<1>1. /\ lastTime \in Nat /\ sequence \in 0..SeqLimit /\ now \in [Goroutine -> Nat] /\ last \in [Goroutine -> Nat]
      /\ pc \in [Goroutine -> {"clock", "load", "cas", "reset", "add"}]
      /\ \A h \in Goroutine : now[h] \in Nat /\ last[h] \in Nat
      /\ \A i \in DOMAIN issued : issued[i][1] \in Nat
  <2>1. \A i \in DOMAIN issued : issued[i] \in Nat \X (0..SeqLimit - 1)  BY DEF TypeOK
  <2>2. \A i \in DOMAIN issued : issued[i][1] \in Nat  BY <2>1
  <2> QED  BY <2>2 DEF TypeOK
<1>2. CASE ReadClock(g)  BY <1>1, <1>2 DEF ReadClock, OpenInv
<1>3. CASE LoadLast(g)  BY <1>1, <1>3 DEF LoadLast, OpenInv
<1>4. CASE CompareAndSwap(g)
  <2>1. CASE lastTime = last[g]
    <3>1. /\ lastTime' = now[g] /\ pc' = [pc EXCEPT ![g] = "reset"] /\ now[g] > lastTime
          /\ UNCHANGED <<sequence, now, last, issued>>
      BY <2>1, <1>4 DEF CompareAndSwap, OpenInv
    <3> QED  BY <3>1, <1>1 DEF OpenInv
  <2>2. CASE lastTime # last[g]  BY <2>2, <1>1, <1>4 DEF CompareAndSwap, OpenInv
  <2> QED  BY <2>1, <2>2
<1>5. CASE StoreZero(g)
  <2>1. PICK t \in Nat : t = now[g]  BY <1>1
  <2>2. /\ Issue(g, t, 0) /\ 0 \in 0..SeqLimit - 1 /\ pc[g] = "reset"
        /\ UNCHANGED <<lastTime, now, last>>
    BY <1>5, <2>1 DEF StoreZero
  <2>0. PICK n \in Nat : n = Len(issued)  BY IssueAppends, <2>2
  <2>3. /\ DOMAIN issued = 1..n /\ DOMAIN issued' = 1..(n + 1)
        /\ issued'[n + 1][1] = t /\ issued'[n + 1][2] = 0
        /\ \A i \in 1..n : issued'[i] = issued[i] /\ issued[i][1] \in Nat /\ issued[i][2] \in Nat
    BY <2>0, <2>2, IssueAppends
  <2>4. \A i \in 1..(n + 1) : i \in 1..n \/ i = n + 1  OBVIOUS
  <2>5. /\ pc' = [pc EXCEPT ![g] = "clock"]
        /\ \A h \in Goroutine : pc'[h] = "reset" => h # g /\ pc[h] = "reset"
        /\ \A h \in Goroutine : pc'[h] = "cas" => pc[h] = "cas"
    BY <2>2, <1>1 DEF Issue
  <2>6. /\ t <= lastTime
        /\ \A h \in Goroutine : (pc[h] = "reset" /\ h # g) => now[h] # t
        /\ \A i \in 1..n : issued[i][2] = 0 => issued[i][1] # t /\ issued[i][1] <= lastTime
        /\ \A i \in 1..n : \A h \in Goroutine :
             (issued[i][2] = 0 /\ pc[h] = "reset") => now[h] # issued[i][1]
    <3>1. t <= lastTime  BY <2>1, <2>2 DEF OpenInv
    <3>2. \A h \in Goroutine : (pc[h] = "reset" /\ h # g) => now[h] # t
      BY <2>1, <2>2 DEF OpenInv
    <3>3. \A i \in 1..n : issued[i][2] = 0 =>
            /\ issued[i][1] <= lastTime
            /\ \A h \in Goroutine : pc[h] = "reset" => now[h] # issued[i][1]
      <4>1. \A i \in DOMAIN issued : issued[i][2] = 0 =>
              /\ issued[i][1] <= lastTime
              /\ \A h \in Goroutine : pc[h] = "reset" => now[h] # issued[i][1]
        BY Zenon DEF OpenInv
      <4>2. DOMAIN issued = 1..n  BY <2>3
      <4> QED  BY <4>1, <4>2, Zenon
    <3>4. \A i \in 1..n : issued[i][2] = 0 => issued[i][1] # t  BY <2>1, <2>2, <3>3, Zenon
    <3> QED  BY <3>1, <3>2, <3>3, <3>4, Zenon
  <2>7. \A i \in 1..(n + 1) : issued'[i][2] = 0 =>
          /\ issued'[i][1] <= lastTime
          /\ \A h \in Goroutine : pc'[h] = "reset" => now[h] # issued'[i][1]
    <3> SUFFICES ASSUME NEW i \in 1..(n + 1), issued'[i][2] = 0
                 PROVE  /\ issued'[i][1] <= lastTime
                        /\ \A h \in Goroutine : pc'[h] = "reset" => now[h] # issued'[i][1]
      OBVIOUS
    <3>1. CASE i \in 1..n  BY <3>1, <2>3, <2>5, <2>6
    <3>2. CASE i = n + 1  BY <3>2, <2>3, <2>5, <2>6
    <3> QED  BY <3>1, <3>2, <2>4
  <2>8. ASSUME NEW i \in 1..(n + 1), NEW j \in 1..(n + 1),
               issued'[i][2] = 0, issued'[j][2] = 0, issued'[i][1] = issued'[j][1]
        PROVE  i = j
    <3>1. CASE i \in 1..n /\ j \in 1..n  BY <3>1, <2>3, <2>8 DEF OpenInv
    <3>2. CASE i = n + 1 /\ j \in 1..n  BY <3>2, <2>3, <2>6, <2>8
    <3>3. CASE i \in 1..n /\ j = n + 1  BY <3>3, <2>3, <2>6, <2>8
    <3> QED  BY <3>1, <3>2, <3>3, <2>4
  <2>9. \A h \in Goroutine :
          /\ pc'[h] = "cas" => now[h] > last[h]
          /\ pc'[h] = "reset" => now[h] <= lastTime
    BY <2>5 DEF OpenInv
  <2>10. \A h, k \in Goroutine : (pc'[h] = "reset" /\ pc'[k] = "reset" /\ now[h] = now[k]) => h = k
    BY <2>5 DEF OpenInv
  <2>11. /\ lastTime' = lastTime /\ now' = now /\ last' = last /\ DOMAIN issued' = 1..(n + 1)
    BY <2>2, <2>3
  <2>12. \A i, j \in DOMAIN issued' :
           (issued'[i][2] = 0 /\ issued'[j][2] = 0 /\ issued'[i][1] = issued'[j][1]) => i = j
    BY <2>8, <2>11
  <2> QED  BY <2>7, <2>9, <2>10, <2>11, <2>12 DEF OpenInv
<1>6. CASE AddOne(g)
  <2>1. CASE sequence + 1 < SeqLimit
    <3>1. PICK t \in Nat, q \in 0..SeqLimit - 1 : t = last[g] /\ q = sequence + 1  BY <2>1, <1>1
    <3>2. Issue(g, t, q) /\ q # 0 /\ pc[g] = "add" /\ UNCHANGED <<lastTime, now, last>>
      BY <1>6, <2>1, <3>1, <1>1 DEF AddOne
    <3>0. PICK n \in Nat : n = Len(issued)  BY IssueAppends, <3>2
    <3>3. /\ DOMAIN issued = 1..n /\ DOMAIN issued' = 1..(n + 1)
          /\ issued'[n + 1][1] = t /\ issued'[n + 1][2] = q
          /\ \A i \in 1..n : issued'[i] = issued[i] /\ issued[i][1] \in Nat /\ issued[i][2] \in Nat
      BY <3>0, <3>2, IssueAppends
    <3>4. \A i \in DOMAIN issued' : issued'[i][2] = 0 => i \in DOMAIN issued /\ issued'[i] = issued[i]
      BY <3>2, <3>3
    <3>5. \A h \in Goroutine : pc'[h] \in {"cas", "reset"} => pc'[h] = pc[h]
      BY <3>2, <1>1 DEF Issue
    <3> QED  BY <3>2, <3>4, <3>5, <1>1 DEF OpenInv
  <2>2. CASE ~ (sequence + 1 < SeqLimit)  BY <2>2, <1>1, <1>6 DEF AddOne, OpenInv
  <2> QED  BY <2>1, <2>2
<1> QED  BY <1>2, <1>3, <1>4, <1>5, <1>6

(* However many goroutines call Next, one of them opens each millisecond:  *)
(* the CAS raises lastTime, so no two of its winners carry the same time.  *)
THEOREM OneOpenerPerMillisecond == Spec => []OneOpener
<1>1. Init => OpenInv  BY DEF Init, OpenInv
<1>2. TypeOK /\ OpenInv /\ [Next]_vars => OpenInv'
  <2> SUFFICES ASSUME TypeOK, OpenInv, [Next]_vars PROVE OpenInv'  OBVIOUS
  <2>1. CASE ClockMoves \/ UNCHANGED vars
    <3>1. UNCHANGED <<lastTime, pc, now, last, issued>>  BY <2>1 DEF ClockMoves, vars
    <3> QED  BY <3>1 DEF OpenInv
  <2> QED  BY <2>1, OpenStep DEF Next
<1>3. OpenInv => OneOpener  BY DEF OpenInv, OneOpener
<1> QED  BY <1>1, <1>2, <1>3, TypesAreCorrect, PTL DEF Spec
=============================================================================
