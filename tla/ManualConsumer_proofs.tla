----------------------- MODULE ManualConsumer_proofs -----------------------
(***************************************************************************)
(* The manual consumer for any number of members, messages, rebalances,    *)
(* crashes and failures: Confirm never commits past a message nobody has   *)
(* handled.                                                                *)
(***************************************************************************)
EXTENDS ManualConsumer, SequenceTheorems, TLAPS

(* Entries of msgChan that came with the current session.                  *)
Own(c, i) == msgChan[c][i].generation = generation[c]
Busy(c)   == worker[c].generation = generation[c]

(* What an earlier session left behind carries a smaller number.           *)
Generations(c) ==
  /\ session[c] # "none" => generation[c] > 0
  /\ session[c] = "none" => hand[c] = 0
  /\ worker[c].generation <= generation[c]
  /\ \A i \in 1..Len(msgChan[c]) : msgChan[c][i].generation <= generation[c]
  /\ worker[c].at \in {"idle", "waiting"} => worker[c].generation = 0

(* What the group need not handle any more.                                *)
Settled == handled \cup 1..first

(* A message the claim has delivered was handled or is still on its way.   *)
Covered(c, x) ==
  \/ x \in Settled
  \/ hand[c] = x
  \/ \E i \in 1..Len(msgChan[c]) : Own(c, i) /\ msgChan[c][i].offset = x
  \/ Busy(c) /\ worker[c].offset = x

(* Worker, channel and hand hold ever later messages.                      *)
InOrder(c) ==
  /\ \A i, j \in 1..Len(msgChan[c]) :
       (i < j /\ Own(c, i) /\ Own(c, j)) => msgChan[c][i].offset < msgChan[c][j].offset
  /\ \A i \in 1..Len(msgChan[c]) : Own(c, i) =>
       /\ msgChan[c][i].offset <= position[c]
       /\ hand[c] # 0 => msgChan[c][i].offset < hand[c]
       /\ Busy(c) => worker[c].offset < msgChan[c][i].offset
  /\ hand[c] # 0 => hand[c] = position[c]
  /\ Busy(c) => /\ worker[c].offset <= position[c]
                /\ hand[c] # 0 => worker[c].offset < hand[c]

ClaimInv(c) ==
  session[c] # "none" =>
    /\ InOrder(c)
    /\ \A x \in 1..position[c] : Covered(c, x)
    /\ 1..marked[c] \subseteq Settled

Holding == {"processing", "failing", "confirming"}

LocalInv(c) ==
  /\ Generations(c)
  /\ ClaimInv(c)
  /\ worker[c].at \in Holding => worker[c].offset # 0
  /\ worker[c].at = "confirming" => worker[c].offset \in handled

(* The group's offset has passed nothing else.                             *)
Passed == first <= end /\ 1..committed \subseteq Settled

Inv == TypeOK /\ Passed /\ \A c \in Consumer : LocalInv(c)

At == {"idle", "waiting", "processing", "failing", "confirming", "stopped"}
Worker == [at : At, offset : 0..LastOffset, generation : Nat]

-----------------------------------------------------------------------------
(* The types of one consumer's part.                                       *)
LEMMA LocalTypes ==
  ASSUME TypeOK, NEW c \in Consumer
  PROVE  /\ session[c] \in {"none", "live", "ending"} /\ generation[c] \in Nat
         /\ position[c] \in 0..LastOffset /\ marked[c] \in 0..LastOffset /\ hand[c] \in 0..LastOffset
         /\ msgChan[c] \in Seq(Wrapped) /\ Len(msgChan[c]) \in Nat
         /\ \A i \in 1..Len(msgChan[c]) :
              /\ msgChan[c][i] \in Wrapped
              /\ msgChan[c][i].offset \in Offset /\ msgChan[c][i].generation \in Nat
         /\ worker[c] \in Worker /\ worker[c].at \in At
         /\ worker[c].offset \in 0..LastOffset /\ worker[c].generation \in Nat
<1>1. msgChan[c] \in Seq(Wrapped)  BY DEF TypeOK
<1>2. Len(msgChan[c]) \in Nat  BY <1>1, LenProperties
<1>3. \A i \in 1..Len(msgChan[c]) : msgChan[c][i] \in Wrapped  BY <1>1, ElementOfSeq
<1>4. worker[c] \in Worker  BY DEF TypeOK, Worker, At
<1> QED  BY <1>1, <1>2, <1>3, <1>4 DEF TypeOK, Wrapped, Worker

(* Nothing was delivered yet.                                              *)
LEMMA InitInv == Init => Inv
<1> SUFFICES ASSUME Init PROVE Inv  OBVIOUS
<1> USE ManualAssumption DEF Init
<1>1. TypeOK
  <2>1. msgChan \in [Consumer -> Seq(Wrapped)]  BY EmptySeq
  <2>2. /\ 0 \in 0..LastOffset /\ 0 \in Nat  OBVIOUS
  <2>3. NoWork \in Worker  BY <2>2 DEF NoWork, Worker, At
  <2> QED  BY <2>1, <2>2, <2>3 DEF TypeOK, Worker, At
<1>2. Passed  BY DEF Passed
<1>3. ASSUME NEW c \in Consumer PROVE LocalInv(c)
  <2>1. Len(msgChan[c]) = 0 /\ session[c] = "none" /\ hand[c] = 0 /\ worker[c] = NoWork  BY EmptySeq
  <2> QED  BY <2>1 DEF LocalInv, Generations, ClaimInv, NoWork, Holding
<1> QED  BY <1>1, <1>2, <1>3 DEF Inv

(* A consumer whose part does not change keeps its invariant.              *)
LEMMA Frame ==
  ASSUME NEW c \in Consumer, LocalInv(c), handled \subseteq handled', Settled \subseteq Settled',
         session'[c] = session[c], generation'[c] = generation[c], position'[c] = position[c],
         marked'[c] = marked[c], hand'[c] = hand[c], msgChan'[c] = msgChan[c], worker'[c] = worker[c]
  PROVE  LocalInv(c)'
<1>1. Generations(c)'  BY DEF LocalInv, Generations
<1>2. \A x : Covered(c, x) => Covered(c, x)'  BY DEF Covered, Own, Busy
<1>3. InOrder(c) => InOrder(c)'  BY DEF InOrder, Own, Busy
<1>4. ClaimInv(c)'  BY <1>2, <1>3 DEF LocalInv, ClaimInv
<1> QED  BY <1>1, <1>4 DEF LocalInv

(* A claim whose messages stay where they are while its worker moves on.   *)
LEMMA WorkerMoves ==
  ASSUME TypeOK, NEW c \in Consumer, LocalInv(c), handled \subseteq handled', Settled \subseteq Settled',
         UNCHANGED <<generation, position, marked, hand, msgChan>>,
         session'[c] = session[c], worker'[c].offset = worker[c].offset,
         worker'[c].generation = worker[c].generation,
         worker'[c].at \in {"idle", "waiting"} => worker[c].at \in {"idle", "waiting"},
         worker'[c].at \in Holding => worker[c].at \in Holding,
         worker'[c].at = "confirming" => worker[c].offset \in handled'
  PROVE  LocalInv(c)'
<1>1. Generations(c)'  BY DEF LocalInv, Generations
<1>2. \A x : Covered(c, x) => Covered(c, x)'  BY DEF Covered, Own, Busy
<1>3. InOrder(c) => InOrder(c)'  BY DEF InOrder, Own, Busy
<1>4. ClaimInv(c)'  BY <1>2, <1>3 DEF LocalInv, ClaimInv
<1> QED  BY <1>1, <1>4 DEF LocalInv

(* A consumer without a session has nothing to keep in order.              *)
LEMMA NoSession ==
  ASSUME NEW c \in Consumer, LocalInv(c), handled \subseteq handled', Settled \subseteq Settled',
         session'[c] = "none", hand'[c] = 0, generation'[c] = generation[c],
         \/ msgChan'[c] = msgChan[c]
         \/ msgChan'[c] = <<>>,
         \/ worker'[c] = worker[c]
         \/ worker'[c] = NoWork /\ generation[c] \in Nat
  PROVE  LocalInv(c)'
<1>1. \A i \in 1..Len(msgChan'[c]) : msgChan'[c][i].generation <= generation'[c]
  <2>1. CASE msgChan'[c] = msgChan[c]  BY <2>1 DEF LocalInv, Generations
  <2>2. CASE msgChan'[c] = <<>>  BY <2>2, EmptySeq
  <2> QED  BY <2>1, <2>2
<1>2. /\ worker'[c].generation <= generation'[c]
      /\ worker'[c].at \in {"idle", "waiting"} => worker'[c].generation = 0
      /\ worker'[c].at = "confirming" => worker'[c].offset \in handled'
      /\ worker'[c].at \in Holding => worker'[c].offset # 0
  BY DEF LocalInv, Generations, NoWork, Holding
<1> QED  BY <1>1, <1>2 DEF LocalInv, Generations, ClaimInv

-----------------------------------------------------------------------------
(* A new session starts behind what is committed, with a new number.       *)
LEMMA JoinStep ==
  ASSUME Inv, NEW c \in Consumer, consumeLoop(c)
  PROVE  TypeOK' /\ Passed' /\ LocalInv(c)' /\ Settled \subseteq Settled'
<1> USE ManualAssumption
<1>1. Joins(c) /\ TypeOK /\ LocalInv(c) /\ Passed
  BY DEF consumeLoop, Inv
<1>2. /\ session'[c] = "live" /\ generation'[c] = generation[c] + 1 /\ generation[c] \in Nat
      /\ position'[c] = committed' /\ marked'[c] = committed'
      /\ hand'[c] = 0
      /\ UNCHANGED <<end, msgChan, worker, handled, hand, status, rebalances, failures>>
      /\ UNCHANGED <<committed, first>> \/ (committed' = end /\ first' = end)
  BY <1>1 DEF Joins, Resume, TypeOK, LocalInv, Generations, bounds
<1>8. committed' \in 0..LastOffset /\ first' \in 0..LastOffset
  BY <1>1, <1>2 DEF TypeOK
<1>9. Passed' /\ Settled \subseteq Settled'
  <2>1. CASE UNCHANGED <<committed, first>>
    BY <1>1, <1>2, <2>1 DEF Passed, Settled
  <2>2. CASE committed' = end /\ first' = end
    <3>1. first \in Nat /\ end \in Nat /\ first <= end
      BY <1>1 DEF TypeOK, Passed
    <3>2. Settled' = handled \cup 1..end
      BY <1>2, <2>2 DEF Settled
    <3> QED BY <1>2, <2>2, <3>1, <3>2 DEF Passed, Settled
  <2> QED BY <1>2, <2>1, <2>2
<1>3. TypeOK'
  <2>1. owner' \in Consumer \cup {NoOne}  BY <1>1 DEF Joins
  <2>2. /\ session' \in [Consumer -> {"none", "live", "ending"}] /\ generation' \in [Consumer -> Nat]
        /\ position' \in [Consumer -> 0..LastOffset] /\ marked' \in [Consumer -> 0..LastOffset]
    BY <1>1, <1>2, <1>8 DEF Joins, TypeOK
  <2> QED  BY <2>1, <2>2, <1>1, <1>2, <1>8 DEF TypeOK
<1>4. /\ worker[c].generation \in Nat /\ worker[c].generation <= generation[c]
      /\ \A i \in 1..Len(msgChan[c]) : /\ msgChan[c][i].generation \in Nat
                                       /\ msgChan[c][i].generation <= generation[c]
  BY <1>1, LocalTypes DEF LocalInv, Generations
<1>5. Generations(c)'  BY <1>1, <1>2, <1>4 DEF LocalInv, Generations
<1>6. ~ Busy(c)' /\ \A i \in 1..Len(msgChan'[c]) : ~ Own(c, i)'
  BY <1>2, <1>4 DEF Busy, Own
<1>7. ClaimInv(c)'  BY <1>1, <1>2, <1>6, <1>9 DEF ClaimInv, InOrder, Covered, Passed
<1> QED  BY <1>1, <1>2, <1>3, <1>5, <1>7, <1>9 DEF LocalInv

(* The claim delivers the next message.                                    *)
LEMMA TakeStep ==
  ASSUME Inv, NEW c \in Consumer, Take(c)
  PROVE  TypeOK' /\ LocalInv(c)'
<1> USE ManualAssumption
<1>1. TypeOK /\ LocalInv(c)  BY DEF Inv
<1>2. /\ session[c] # "none" /\ hand[c] = 0 /\ position[c] \in 0..LastOffset /\ position[c] < LastOffset
      /\ position' = [position EXCEPT ![c] = position[c] + 1] /\ position'[c] = position[c] + 1
      /\ hand' = [hand EXCEPT ![c] = position'[c]] /\ hand'[c] = position[c] + 1
      /\ UNCHANGED <<end, committed, first, owner, session, generation, marked, msgChan, worker, status, rebalances, failures, handled>>
      /\ Settled' = Settled
  BY <1>1 DEF Take, TypeOK, group, bounds, Settled
<1>3. TypeOK'
  <2>1. position[c] + 1 \in 0..LastOffset  BY <1>2
  <2>2. position' \in [Consumer -> 0..LastOffset] /\ hand' \in [Consumer -> 0..LastOffset]
    BY <2>1, <1>1, <1>2 DEF TypeOK
  <2> QED  BY <2>2, <1>1, <1>2 DEF TypeOK
<1>4. Generations(c)'  BY <1>1, <1>2 DEF LocalInv, Generations
<1>5. /\ InOrder(c) /\ 1..marked[c] \subseteq Settled
      /\ \A x \in 1..position[c] : Covered(c, x)
      /\ \A i \in 1..Len(msgChan[c]) : msgChan[c][i].offset \in Offset
      /\ worker[c].offset \in 0..LastOffset
  BY <1>1, <1>2, LocalTypes DEF LocalInv, ClaimInv
<1>6. InOrder(c)'  BY <1>2, <1>5 DEF InOrder, Own, Busy, Offset
<1>7. \A x \in 1..position'[c] : Covered(c, x)'
  <2> SUFFICES ASSUME NEW x \in 1..(position[c] + 1) PROVE Covered(c, x)'  BY <1>2
  <2>1. CASE x = position[c] + 1  BY <2>1, <1>2 DEF Covered
  <2>2. CASE x # position[c] + 1
    <3>1. x \in 1..position[c] /\ x # 0  BY <2>2, <1>2
    <3>2. Covered(c, x)  BY <3>1, <1>5
    <3> QED  BY <3>1, <3>2, <1>2 DEF Covered, Own, Busy
  <2> QED  BY <2>1, <2>2
<1>8. ClaimInv(c)'  BY <1>2, <1>5, <1>6, <1>7 DEF ClaimInv
<1> QED  BY <1>1, <1>2, <1>3, <1>4, <1>8 DEF LocalInv

(* It goes to the end of the channel.                                      *)
LEMMA PushStep ==
  ASSUME Inv, NEW c \in Consumer, Push(c)
  PROVE  TypeOK' /\ LocalInv(c)'
<1> USE ManualAssumption
<1> DEFINE e == [offset |-> hand[c], generation |-> generation[c]]
           q == msgChan[c]
           n == Len(msgChan[c])
<1>1. TypeOK /\ LocalInv(c)  BY DEF Inv
<1>2. /\ session[c] # "none" /\ hand[c] # 0 /\ hand[c] \in 0..LastOffset /\ generation[c] \in Nat
      /\ q \in Seq(Wrapped) /\ n \in Nat /\ e \in Wrapped
      /\ msgChan' = [msgChan EXCEPT ![c] = Append(q, e)] /\ msgChan'[c] = Append(q, e)
      /\ hand' = [hand EXCEPT ![c] = 0] /\ hand'[c] = 0
      /\ UNCHANGED <<end, committed, first, owner, session, generation, position, marked, worker, status, rebalances, failures, handled>>
      /\ Settled' = Settled
  <2>1. hand[c] # 0 /\ hand[c] \in 0..LastOffset /\ generation[c] \in Nat /\ session[c] # "none"
    BY <1>1, LocalTypes DEF Push
  <2>2. e \in Wrapped  BY <2>1 DEF Wrapped, Offset
  <2>3. q \in Seq(Wrapped) /\ n \in Nat  BY <1>1, LocalTypes
  <2> QED  BY <2>1, <2>2, <2>3, <1>1 DEF Push, TypeOK, group, bounds, Settled
<1>3. /\ Append(q, e) \in Seq(Wrapped) /\ Len(Append(q, e)) = n + 1
      /\ \A i \in 1..n : Append(q, e)[i] = q[i]
      /\ Append(q, e)[n + 1] = e
  BY <1>2, AppendProperties
<1>4. /\ e.offset = hand[c] /\ e.generation = generation[c]  OBVIOUS
<1> HIDE DEF e, q, n
<1>5. TypeOK'
  <2>1. msgChan' \in [Consumer -> Seq(Wrapped)] /\ hand' \in [Consumer -> 0..LastOffset]
    BY <1>1, <1>2, <1>3 DEF TypeOK
  <2> QED  BY <2>1, <1>1, <1>2 DEF TypeOK
<1>6. /\ InOrder(c) /\ 1..marked[c] \subseteq Settled
      /\ \A x \in 1..position[c] : Covered(c, x)
      /\ \A i \in 1..n : q[i].offset \in Offset
      /\ worker[c].offset \in 0..LastOffset /\ position[c] \in 0..LastOffset
  BY <1>1, <1>2, LocalTypes DEF LocalInv, ClaimInv, q, n
<1>7. Len(msgChan'[c]) = n + 1 /\ \A i \in 1..(n + 1) : i \in 1..n \/ i = n + 1
  BY <1>2, <1>3
<1>8. Generations(c)'
  <2>1. \A i \in 1..n : q[i].generation <= generation[c]  BY <1>1 DEF LocalInv, Generations, q, n
  <2>2. \A i \in 1..(n + 1) : Append(q, e)[i].generation <= generation[c]
    BY <2>1, <1>2, <1>3, <1>4, <1>7
  <2> QED  BY <2>2, <1>1, <1>2, <1>7 DEF LocalInv, Generations
<1>9. InOrder(c)'
  <2>1. /\ \A i, j \in 1..n : (i < j /\ q[i].generation = generation[c] /\ q[j].generation = generation[c])
                                 => q[i].offset < q[j].offset
        /\ \A i \in 1..n : q[i].generation = generation[c] =>
             /\ q[i].offset <= position[c] /\ q[i].offset < hand[c]
             /\ Busy(c) => worker[c].offset < q[i].offset
        /\ hand[c] = position[c]
        /\ Busy(c) => worker[c].offset <= position[c] /\ worker[c].offset < hand[c]
    BY <1>2, <1>6 DEF InOrder, Own, q, n
  <2> DEFINE r == Append(q, e)
  <2>2. ASSUME NEW i \in 1..(n + 1), NEW j \in 1..(n + 1), i < j,
               r[i].generation = generation[c], r[j].generation = generation[c]
        PROVE  r[i].offset < r[j].offset
    <3>1. i \in 1..n  BY <2>2, <1>2
    <3>2. CASE j \in 1..n  BY <3>1, <3>2, <2>1, <2>2, <1>3
    <3>3. CASE j = n + 1  BY <3>1, <3>3, <2>1, <2>2, <1>3, <1>4
    <3> QED  BY <3>2, <3>3, <1>7
  <2>3. ASSUME NEW i \in 1..(n + 1), r[i].generation = generation[c]
        PROVE  r[i].offset <= position[c] /\ (Busy(c) => worker[c].offset < r[i].offset)
    <3>1. CASE i \in 1..n  BY <3>1, <2>1, <2>3, <1>3
    <3>2. CASE i = n + 1  BY <3>2, <2>1, <1>3, <1>4, <1>6
    <3> QED  BY <3>1, <3>2, <1>7
  <2>4. Busy(c)' <=> Busy(c)  BY <1>2 DEF Busy
  <2>5. msgChan'[c] = r  BY <1>2
  <2> HIDE DEF r
  <2> QED  BY <2>1, <2>2, <2>3, <2>4, <2>5, <1>2, <1>7 DEF InOrder, Own
<1>10. \A x \in 1..position'[c] : Covered(c, x)'
  <2> SUFFICES ASSUME NEW x \in 1..position[c] PROVE Covered(c, x)'  BY <1>2
  <2>1. Covered(c, x)  BY <1>6
  <2>2. CASE hand[c] = x
    <3>1. n + 1 \in 1..Len(msgChan'[c])  BY <1>2, <1>7
    <3>2. msgChan'[c][n + 1].offset = x /\ msgChan'[c][n + 1].generation = generation'[c]
      BY <2>2, <1>2, <1>3, <1>4
    <3> QED  BY <3>1, <3>2 DEF Covered, Own
  <2>3. CASE \E i \in 1..Len(msgChan[c]) : Own(c, i) /\ msgChan[c][i].offset = x
    <3>1. PICK i \in 1..n : q[i].generation = generation[c] /\ q[i].offset = x  BY <2>3 DEF Own, q, n
    <3>2. i \in 1..Len(msgChan'[c])  BY <1>2, <1>7
    <3>3. msgChan'[c][i] = q[i]  BY <1>2, <1>3
    <3> QED  BY <3>1, <3>2, <3>3, <1>2 DEF Covered, Own
  <2>4. CASE x \in Settled \/ (Busy(c) /\ worker[c].offset = x)  BY <2>4, <1>2 DEF Covered, Busy
  <2> QED  BY <2>1, <2>2, <2>3, <2>4 DEF Covered
<1>11. ClaimInv(c)'  BY <1>2, <1>6, <1>9, <1>10 DEF ClaimInv
<1> QED  BY <1>1, <1>2, <1>5, <1>8, <1>11 DEF LocalInv

(* The worker takes the first message of the channel.                      *)
LEMMA ReceiveStep ==
  ASSUME Inv, NEW c \in Consumer, Receive(c)
  PROVE  TypeOK' /\ LocalInv(c)'
<1> USE ManualAssumption
<1> DEFINE q == msgChan[c]
           n == Len(msgChan[c])
           r == Tail(msgChan[c])
<1>1. TypeOK /\ LocalInv(c)  BY DEF Inv
<1>2. /\ q \in Seq(Wrapped) /\ n \in Nat \ {0} /\ q # <<>>
      /\ r \in Seq(Wrapped) /\ Len(r) = n - 1 /\ \A i \in 1..(n - 1) : r[i] = q[i + 1]
      /\ Head(q) = q[1] /\ q[1] \in Wrapped
  <2>1. q \in Seq(Wrapped) /\ q # <<>>  BY <1>1, LocalTypes DEF Receive
  <2>2. n \in Nat \ {0}  BY <2>1, EmptySeq
  <2>3. r \in Seq(Wrapped) /\ Len(r) = n - 1 /\ \A i \in 1..Len(r) : r[i] = q[i + 1]
    BY <2>1, HeadTailProperties
  <2>4. Head(q) = q[1] /\ q[1] \in Wrapped  BY <2>1, <2>2, ElementOfSeq
  <2> QED  BY <2>1, <2>2, <2>3, <2>4
<1>3. /\ worker[c].at = "waiting" /\ worker[c].generation = 0
      /\ msgChan' = [msgChan EXCEPT ![c] = r] /\ msgChan'[c] = r
      /\ worker'[c].at = "processing" /\ worker'[c].offset = q[1].offset
      /\ worker'[c].generation = q[1].generation
      /\ worker' \in [Consumer -> Worker]
      /\ UNCHANGED <<end, committed, first, owner, session, generation, position, marked, hand, status, rebalances, failures, handled>>
      /\ Settled' = Settled
  <2> DEFINE w == [at |-> "processing", offset |-> Head(q).offset, generation |-> Head(q).generation]
  <2>1. w \in Worker  BY <1>2 DEF Wrapped, Worker, At, Offset
  <2>2. worker' = [worker EXCEPT ![c] = w]  BY DEF Receive
  <2>3. worker \in [Consumer -> Worker] /\ msgChan \in [Consumer -> Seq(Wrapped)]
    BY <1>1 DEF TypeOK, Worker, At
  <2>4. worker'[c] = w  BY <2>2, <2>3
  <2>5. worker' \in [Consumer -> Worker]  BY <2>1, <2>2, <2>3
  <2>6. worker[c].at = "waiting"  BY DEF Receive
  <2>7. worker[c].generation = 0  BY <2>6, <1>1 DEF LocalInv, Generations
  <2> QED  BY <2>3, <2>4, <2>5, <2>6, <2>7, <1>2 DEF Receive, group, claim, bounds, Settled
<1> HIDE DEF q, n, r
<1>4. TypeOK'
  <2>1. msgChan' \in [Consumer -> Seq(Wrapped)]  BY <1>1, <1>2, <1>3 DEF TypeOK
  <2> QED  BY <2>1, <1>1, <1>3 DEF TypeOK, Worker, At
<1>5. /\ position[c] \in 0..LastOffset /\ hand[c] \in 0..LastOffset /\ generation[c] \in Nat
      /\ \A i \in 1..n : q[i].offset \in Offset /\ q[i].generation \in Nat /\ q[i].generation <= generation[c]
      /\ \A i \in 1..(n - 1) : i + 1 \in 1..n /\ r[i] = q[i + 1]
      /\ 1 \in 1..n
  <2>1. \A i \in 1..n : q[i].offset \in Offset /\ q[i].generation \in Nat /\ q[i].generation <= generation[c]
    BY <1>1, LocalTypes DEF LocalInv, Generations, q, n
  <2>2. position[c] \in 0..LastOffset /\ hand[c] \in 0..LastOffset /\ generation[c] \in Nat
    BY <1>1, LocalTypes
  <2> QED  BY <2>1, <2>2, <1>2
<1>6. Generations(c)'
  <2>1. \A i \in 1..(n - 1) : r[i].generation <= generation[c]  BY <1>5
  <2> QED  BY <2>1, <1>1, <1>2, <1>3, <1>5 DEF LocalInv, Generations
<1>7. ASSUME session[c] # "none"
      PROVE  InOrder(c)' /\ \A x \in 1..position'[c] : Covered(c, x)'
  <2>1. /\ InOrder(c) /\ ~ Busy(c) /\ \A x \in 1..position[c] : Covered(c, x)
    BY <1>1, <1>3, <1>5, <1>7 DEF LocalInv, ClaimInv, Generations, Busy
  <2>2. /\ \A i, j \in 1..n : (i < j /\ q[i].generation = generation[c] /\ q[j].generation = generation[c])
                               => q[i].offset < q[j].offset
        /\ \A i \in 1..n : q[i].generation = generation[c] =>
             /\ q[i].offset <= position[c]
             /\ hand[c] # 0 => q[i].offset < hand[c]
        /\ hand[c] # 0 => hand[c] = position[c]
    BY <2>1 DEF InOrder, Own, q, n
  <2>3. /\ Len(msgChan'[c]) = n - 1 /\ msgChan'[c] = r
        /\ Busy(c)' <=> q[1].generation = generation[c]
    BY <1>2, <1>3 DEF Busy
  <2>4. \A i \in 1..(n - 1), j \in 1..(n - 1) :
          (i < j /\ r[i].generation = generation[c] /\ r[j].generation = generation[c])
          => r[i].offset < r[j].offset
    <3> SUFFICES ASSUME NEW i \in 1..(n - 1), NEW j \in 1..(n - 1), i < j,
                        r[i].generation = generation[c], r[j].generation = generation[c]
                 PROVE  r[i].offset < r[j].offset
      OBVIOUS
    <3>1. i + 1 < j + 1  OBVIOUS
    <3> QED  BY <3>1, <2>2, <1>5
  <2>5. ASSUME NEW i \in 1..(n - 1), r[i].generation = generation[c]
        PROVE  /\ r[i].offset <= position[c]
               /\ hand[c] # 0 => r[i].offset < hand[c]
               /\ q[1].generation = generation[c] => q[1].offset < r[i].offset
    <3>1. 1 < i + 1  OBVIOUS
    <3> QED  BY <3>1, <2>2, <2>5, <1>5
  <2>6. InOrder(c)'  BY <2>2, <2>3, <2>4, <2>5, <1>3, <1>5 DEF InOrder, Own
  <2>7. ASSUME NEW x \in 1..position[c] PROVE Covered(c, x)'
    <3>1. Covered(c, x)  BY <2>1
    <3>2. CASE \E i \in 1..Len(msgChan[c]) : Own(c, i) /\ msgChan[c][i].offset = x
      <4>1. PICK i \in 1..n : q[i].generation = generation[c] /\ q[i].offset = x  BY <3>2 DEF Own, q, n
      <4>2. CASE i = 1  BY <4>1, <4>2, <2>3, <1>3 DEF Covered
      <4>3. CASE i # 1
        <5>1. i - 1 \in 1..(n - 1) /\ (i - 1) + 1 = i  BY <4>3, <1>2
        <5>2. r[i - 1] = q[i]  BY <5>1, <1>5
        <5> QED  BY <5>1, <5>2, <4>1, <2>3, <1>3 DEF Covered, Own
      <4> QED  BY <4>2, <4>3
    <3>3. CASE x \in Settled \/ hand[c] = x  BY <3>3, <1>3 DEF Covered
    <3> QED  BY <3>1, <3>2, <3>3, <2>1 DEF Covered
  <2> QED  BY <2>6, <2>7, <1>3
<1>8. ClaimInv(c)'  BY <1>1, <1>3, <1>7 DEF LocalInv, ClaimInv
<1>9. worker'[c].offset # 0  BY <1>3, <1>5 DEF Offset
<1> QED  BY <1>3, <1>4, <1>6, <1>8, <1>9 DEF LocalInv

(* What Confirm marks and commits ends below every message on its way.     *)
LEMMA ConfirmStep ==
  ASSUME Inv, NEW c \in Consumer, Confirm(c)
  PROVE  TypeOK' /\ Passed' /\ LocalInv(c)'
<1> USE ManualAssumption
<1>1. TypeOK /\ LocalInv(c) /\ Passed  BY DEF Inv
<1>2. /\ worker' = [worker EXCEPT ![c] = NoWork] /\ worker'[c] = NoWork /\ worker[c].offset \in handled
      /\ UNCHANGED <<end, first, owner, session, generation, position, hand, msgChan, status, rebalances, handled>>
  BY <1>1 DEF Confirm, TypeOK, LocalInv
<1>3. /\ position[c] \in 0..LastOffset /\ hand[c] \in 0..LastOffset /\ generation[c] \in Nat
      /\ marked[c] \in 0..LastOffset /\ worker[c].offset \in 0..LastOffset
      /\ \A i \in 1..Len(msgChan[c]) : msgChan[c][i].offset \in Offset
  BY <1>1, LocalTypes
<1>4. /\ marked'[c] \in 0..LastOffset
      /\ \/ marked' = marked
         \/ /\ marked' = [marked EXCEPT ![c] = NewMark(c)] /\ marked'[c] = NewMark(c)
            /\ OwnSession(c)
  <2>1. marked \in [Consumer -> 0..LastOffset]  BY <1>1 DEF TypeOK
  <2>2. NewMark(c) \in 0..LastOffset  BY <1>3 DEF NewMark
  <2>3. CASE OwnSession(c)  BY <2>1, <2>2, <2>3 DEF Confirm
  <2>4. CASE ~ OwnSession(c)  BY <2>1, <2>4 DEF Confirm
  <2> QED  BY <2>3, <2>4
<1>5. ASSUME OwnSession(c) PROVE 1..NewMark(c) \subseteq Settled
  <2>1. /\ InOrder(c) /\ Busy(c) /\ 1..marked[c] \subseteq Settled
        /\ \A x \in 1..position[c] : Covered(c, x)
    BY <1>1, <1>5 DEF OwnSession, LocalInv, ClaimInv, Busy
  <2>2. ASSUME NEW x \in 1..worker[c].offset PROVE x \in Settled
    <3>1. x \in 1..position[c] /\ x <= worker[c].offset  BY <2>1, <1>3 DEF InOrder
    <3>2. Covered(c, x)  BY <3>1, <2>1
    <3>3. hand[c] # x  BY <3>1, <2>1, <1>3 DEF InOrder
    <3>4. ASSUME NEW i \in 1..Len(msgChan[c]), Own(c, i) PROVE msgChan[c][i].offset # x
      BY <3>1, <3>4, <2>1, <1>3 DEF InOrder, Offset
    <3> QED  BY <3>2, <3>3, <3>4, <1>2 DEF Covered, Settled
  <2> QED  BY <2>1, <2>2 DEF NewMark
<1>6. /\ committed' \in 0..LastOffset /\ failures' \in Nat
      /\ committed' = committed \/ (committed' = marked'[c] /\ OwnSession(c))
  <2>1. committed \in 0..LastOffset /\ failures \in Nat  BY <1>1 DEF TypeOK
  <2> QED  BY <2>1, <1>4 DEF Confirm, Fails, Works
<1>7. TypeOK'
  <2>1. marked' \in [Consumer -> 0..LastOffset]  BY <1>1, <1>3, <1>4 DEF TypeOK
  <2>2. NoWork \in Worker  BY DEF NoWork, Worker, At
  <2>3. worker' \in [Consumer -> Worker]  BY <2>2, <1>1, <1>2 DEF TypeOK, Worker, At
  <2> QED  BY <2>1, <2>3, <1>1, <1>2, <1>6 DEF TypeOK, Worker, At
<1>8. Passed' /\ Settled' = Settled
  <2>1. Settled' = Settled  BY <1>2 DEF Settled
  <2>2. committed' = marked'[c] /\ OwnSession(c) => 1..committed' \subseteq Settled'
    <3> SUFFICES ASSUME committed' = marked'[c], OwnSession(c) PROVE 1..committed' \subseteq Settled'  OBVIOUS
    <3>1. marked'[c] = NewMark(c)  BY <1>1 DEF Confirm, TypeOK
    <3> QED  BY <3>1, <1>5, <2>1
  <2> QED  BY <2>1, <2>2, <1>1, <1>2, <1>6 DEF Passed
<1>9. LocalInv(c)'
  <2>1. Generations(c)'  BY <1>1, <1>2, <1>3 DEF LocalInv, Generations, NoWork
  <2>2. ASSUME session[c] # "none" PROVE InOrder(c)' /\ \A x \in 1..position'[c] : Covered(c, x)'
    <3>1. /\ InOrder(c) /\ \A x \in 1..position[c] : Covered(c, x)
          /\ generation[c] > 0
      BY <1>1, <2>2 DEF LocalInv, ClaimInv, Generations
    <3>2. ~ Busy(c)'  BY <3>1, <1>2, <1>3 DEF Busy, NoWork
    <3>3. InOrder(c)'  BY <3>1, <3>2, <1>2 DEF InOrder, Own
    <3>4. \A x \in 1..position'[c] : Covered(c, x)'  BY <3>1, <1>2, <1>8 DEF Covered, Own, Settled
    <3> QED  BY <3>3, <3>4
  <2>3. session[c] # "none" => 1..marked'[c] \subseteq Settled'
    BY <1>1, <1>2, <1>4, <1>5, <1>8 DEF LocalInv, ClaimInv
  <2>4. ClaimInv(c)'  BY <2>2, <2>3, <1>2 DEF ClaimInv
  <2> QED  BY <2>1, <2>4, <1>2 DEF LocalInv, NoWork, Holding
<1> QED  BY <1>7, <1>8, <1>9

(* The worker's remaining steps.                                           *)
LEMMA WorkStep ==
  ASSUME Inv, NEW c \in Consumer,
         \/ Consume(c) \/ ConsumerClosed(c) \/ ProcessOk(c) \/ ProcessError(c)
         \/ Sends(c) \/ SendAfterClose(c)
  PROVE  TypeOK' /\ LocalInv(c)'
<1> USE ManualAssumption
<1>1. TypeOK /\ LocalInv(c) /\ worker[c].at \in At /\ worker[c].offset \in 0..LastOffset
  BY LocalTypes DEF Inv
<1>2. /\ UNCHANGED <<end, committed, first, owner, session, generation, position, marked, hand, msgChan, status, rebalances>>
      /\ handled \subseteq handled'
      /\ worker' = worker \/ \E step \in At : WorkerStep(c, step)
  <2>1. CASE Consume(c)
    <3>1. WorkerStep(c, IF status[c] = "open" THEN "waiting" ELSE "stopped")  BY <2>1 DEF Consume
    <3>2. (IF status[c] = "open" THEN "waiting" ELSE "stopped") \in At  BY DEF At
    <3> QED  BY <2>1, <3>1, <3>2 DEF Consume, group, claim, bounds
  <2>2. CASE ConsumerClosed(c)
    <3>1. WorkerStep(c, "stopped") /\ "stopped" \in At  BY <2>2 DEF ConsumerClosed, At
    <3> QED  BY <2>2, <3>1 DEF ConsumerClosed, group, claim, bounds
  <2>3. CASE ProcessOk(c)
    <3>1. WorkerStep(c, "confirming") /\ "confirming" \in At  BY <2>3 DEF ProcessOk, At
    <3> QED  BY <2>3, <3>1 DEF ProcessOk, group, claim, bounds
  <2>4. CASE ProcessError(c)
    <3>1. WorkerStep(c, "failing") /\ "failing" \in At  BY <2>4 DEF ProcessError, At
    <3> QED  BY <2>4, <3>1 DEF ProcessError, group, claim, bounds
  <2>5. CASE Sends(c)
    <3>1. worker' = worker \/ (WorkerStep(c, "confirming") /\ "confirming" \in At)  BY <2>5 DEF Sends, At
    <3> QED  BY <2>5, <3>1 DEF Sends, group, claim
  <2>6. CASE SendAfterClose(c)
    <3>1. WorkerStep(c, "stopped") /\ "stopped" \in At  BY <2>6 DEF SendAfterClose, At
    <3> QED  BY <2>6, <3>1 DEF SendAfterClose, group, claim, bounds
  <2> QED  BY <2>1, <2>2, <2>3, <2>4, <2>5, <2>6
<1>3. worker' \in [Consumer -> Worker]
  <2>1. worker \in [Consumer -> Worker]  BY <1>1 DEF TypeOK, Worker, At
  <2>2. ASSUME NEW step \in At, WorkerStep(c, step) PROVE worker' \in [Consumer -> Worker]
    <3>1. [worker[c] EXCEPT !.at = step] \in Worker  BY <2>1 DEF Worker
    <3>2. worker' = [worker EXCEPT ![c] = [worker[c] EXCEPT !.at = step]]  BY <2>2 DEF WorkerStep
    <3> QED  BY <3>1, <3>2, <2>1
  <2> QED  BY <2>1, <2>2, <1>2
<1>4. failures' \in Nat /\ handled' \subseteq Offset
  <2>1. failures \in Nat /\ handled \subseteq Offset  BY <1>1 DEF TypeOK
  <2>2. worker[c].at \in {"processing", "failing"} => worker[c].offset \in Offset
    BY <1>1 DEF LocalInv, Holding, Offset
  <2> QED
    BY <2>1, <2>2 DEF Consume, ConsumerClosed, ProcessOk, ProcessError, Sends, SendAfterClose, Fails, Works, bounds
<1>5. TypeOK'
  <2>1. status' = status  BY <1>2
  <2> QED  BY <2>1, <1>1, <1>2, <1>3, <1>4 DEF TypeOK, Worker, At
<1>6. \A step : WorkerStep(c, step) => /\ worker'[c].at = step /\ worker'[c].offset = worker[c].offset
                                       /\ worker'[c].generation = worker[c].generation
  BY <1>1 DEF TypeOK, WorkerStep
<1>7. /\ worker'[c].offset = worker[c].offset
      /\ worker'[c].generation = worker[c].generation
      /\ worker'[c].at \in {"idle", "waiting"} => worker[c].at \in {"idle", "waiting"}
      /\ worker'[c].at \in Holding => worker[c].at \in Holding
      /\ worker'[c].at = "confirming" => worker[c].offset \in handled'
  <2>1. CASE Consume(c)  BY <2>1, <1>6 DEF Consume, Holding
  <2>2. CASE ConsumerClosed(c)  BY <2>2, <1>6 DEF ConsumerClosed, Holding
  <2>3. CASE ProcessOk(c)  BY <2>3, <1>6 DEF ProcessOk, Holding
  <2>4. CASE ProcessError(c)  BY <2>4, <1>6 DEF ProcessError, Holding
  <2>5. CASE Sends(c)  BY <2>5, <1>6 DEF Sends, Holding
  <2>6. CASE SendAfterClose(c)  BY <2>6, <1>6 DEF SendAfterClose, Holding
  <2> QED  BY <2>1, <2>2, <2>3, <2>4, <2>5, <2>6
<1>8. LocalInv(c)'
  <2>1. Settled \subseteq Settled'  BY <1>2 DEF Settled
  <2> QED  BY <2>1, <1>1, <1>2, <1>7, WorkerMoves
<1> QED  BY <1>5, <1>8

(* Steps of the group, and those of Close.                                 *)
LEMMA GroupStep ==
  ASSUME Inv, NEW c \in Consumer,
         \/ Rebalance(c) \/ Cancelled(c) \/ Expel(c) \/ Crash(c) \/ Returns(c)
         \/ Close(c) \/ Closed(c)
  PROVE  TypeOK' /\ LocalInv(c)'
<1> USE ManualAssumption
<1>1. TypeOK /\ LocalInv(c)  BY DEF Inv
<1>2. /\ session \in [Consumer -> {"none", "live", "ending"}] /\ hand \in [Consumer -> 0..LastOffset]
      /\ status \in [Consumer -> {"open", "closing", "closed"}] /\ worker \in [Consumer -> Worker]
      /\ msgChan \in [Consumer -> Seq(Wrapped)] /\ rebalances \in Nat
      /\ owner \in Consumer \cup {NoOne} /\ generation[c] \in Nat
  BY <1>1 DEF TypeOK, Worker, At
<1>3. CASE Crash(c)
  <2>1. /\ session'[c] = "none" /\ hand'[c] = 0 /\ msgChan'[c] = <<>> /\ worker'[c] = NoWork
        /\ UNCHANGED <<end, committed, first, generation, position, marked, status, failures, handled>>
    BY <1>2, <1>3 DEF Crash
  <2>2. NoWork \in Worker /\ <<>> \in Seq(Wrapped) /\ 0 \in 0..LastOffset
    BY EmptySeq DEF NoWork, Worker, At
  <2>3. /\ session' \in [Consumer -> {"none", "live", "ending"}] /\ hand' \in [Consumer -> 0..LastOffset]
        /\ worker' \in [Consumer -> Worker] /\ msgChan' \in [Consumer -> Seq(Wrapped)]
    BY <2>2, <1>2, <1>3 DEF Crash
  <2>4. rebalances' \in Nat /\ owner' \in Consumer \cup {NoOne}  BY <1>2, <1>3 DEF Crash
  <2>5. TypeOK'  BY <2>1, <2>3, <2>4, <1>1 DEF TypeOK, Worker, At
  <2>6. Settled' = Settled  BY <2>1 DEF Settled
  <2> QED  BY <2>1, <2>5, <2>6, <1>1, <1>2, NoSession
<1>4. CASE Returns(c)
  <2>1. /\ session'[c] = "none" /\ hand'[c] = 0
        /\ UNCHANGED <<end, committed, first, generation, position, marked, msgChan, worker, status, rebalances, failures, handled>>
    BY <1>2, <1>4 DEF Returns, bounds
  <2>2. /\ session' \in [Consumer -> {"none", "live", "ending"}] /\ hand' \in [Consumer -> 0..LastOffset]
        /\ owner' \in Consumer \cup {NoOne}
    BY <1>2, <1>4 DEF Returns
  <2>3. TypeOK'  BY <2>1, <2>2, <1>1 DEF TypeOK
  <2>4. Settled' = Settled  BY <2>1 DEF Settled
  <2> QED  BY <2>1, <2>3, <2>4, <1>1, NoSession
<1>5. CASE Rebalance(c) \/ Cancelled(c)
  <2>1. /\ session[c] = "live" /\ session'[c] = "ending"
        /\ session' \in [Consumer -> {"none", "live", "ending"}] /\ rebalances' \in Nat
        /\ UNCHANGED <<end, committed, first, owner, generation, position, marked, hand, msgChan, worker, status, failures, handled>>
    <3>1. CASE Rebalance(c)  BY <1>2, <3>1 DEF Rebalance, group
    <3>2. CASE Cancelled(c)  BY <1>2, <3>2 DEF Cancelled, group, bounds
    <3> QED  BY <1>5, <3>1, <3>2
  <2>2. TypeOK'  BY <2>1, <1>1 DEF TypeOK
  <2>3. Generations(c)'  BY <2>1, <1>1 DEF LocalInv, Generations
  <2>4. InOrder(c)' <=> InOrder(c)  BY <2>1 DEF InOrder, Own, Busy
  <2>7. Settled' = Settled  BY <2>1 DEF Settled
  <2>5. \A x : Covered(c, x)' <=> Covered(c, x)  BY <2>1, <2>7 DEF Covered, Own, Busy
  <2>6. ClaimInv(c)'  BY <2>1, <2>4, <2>5, <2>7, <1>1 DEF LocalInv, ClaimInv
  <2> QED  BY <2>1, <2>2, <2>3, <2>6, <1>1 DEF LocalInv
<1>6. CASE Expel(c) \/ Close(c) \/ Closed(c)
  <2>1. /\ UNCHANGED <<end, committed, first, session, generation, position, marked, hand, msgChan, worker, rebalances, failures, handled>>
        /\ owner' \in Consumer \cup {NoOne} /\ status' \in [Consumer -> {"open", "closing", "closed"}]
    BY <1>2, <1>6 DEF Expel, Close, Closed, group, claim, bounds
  <2>2. TypeOK'  BY <2>1, <1>1 DEF TypeOK
  <2>3. Settled' = Settled  BY <2>1 DEF Settled
  <2> QED  BY <2>1, <2>2, <2>3, <1>1, Frame
<1> QED  BY <1>3, <1>4, <1>5, <1>6

-----------------------------------------------------------------------------
(* The invariant of the manual consumer.                                   *)
THEOREM ManualInvariant == Spec => []Inv
<1>1. Inv /\ [Next]_vars => Inv'
  <2> SUFFICES ASSUME Inv, [Next]_vars PROVE Inv'  OBVIOUS
  <2>1. ASSUME NEW c \in Consumer, Group(c) \/ Handler(c) \/ Work(c) \/ Close(c) \/ Closed(c)
        PROVE  Inv'
    <3>1. TypeOK' /\ LocalInv(c)'
      BY <2>1, JoinStep, TakeStep, PushStep, ReceiveStep, ConfirmStep, WorkStep, GroupStep
      DEF Group, Handler, Work, ColdRetry, DLQ
    <3>2. TypeOK  BY DEF Inv
    <3>3. /\ \A d \in Consumer \ {c} :
              /\ session'[d] = session[d] /\ generation'[d] = generation[d]
              /\ position'[d] = position[d] /\ marked'[d] = marked[d]
              /\ hand'[d] = hand[d] /\ msgChan'[d] = msgChan[d] /\ worker'[d] = worker[d]
          /\ handled \subseteq handled'
          /\ Confirm(c) \/ consumeLoop(c) \/ UNCHANGED <<end, committed, first>>
          /\ consumeLoop(c) \/ first' = first
      <4>1. CASE Group(c)
        BY <4>1, <3>2 DEF TypeOK, Group, consumeLoop, Joins, Rebalance, Cancelled, Expel, Crash, group, claim, bounds
      <4>2. CASE Handler(c)
        BY <4>2, <3>2 DEF TypeOK, Handler, Take, Push, Returns, group, claim, bounds
      <4>3. CASE Consume(c) \/ Receive(c) \/ ConsumerClosed(c) \/ ProcessOk(c) \/ ProcessError(c)
        BY <4>3, <3>2 DEF TypeOK, Consume, Receive, ConsumerClosed, ProcessOk, ProcessError, WorkerStep, group, claim, bounds
      <4>4. CASE Sends(c) \/ SendAfterClose(c)
        BY <4>4, <3>2 DEF TypeOK, Sends, SendAfterClose, WorkerStep, group, claim, bounds
      <4>5. CASE Confirm(c)
        BY <4>5, <3>2 DEF TypeOK, Confirm
      <4>6. CASE Close(c) \/ Closed(c)
        BY <4>6, <3>2 DEF TypeOK, Close, Closed, group, claim, bounds
      <4> QED  BY <2>1, <4>1, <4>2, <4>3, <4>4, <4>5, <4>6 DEF Work, ColdRetry, DLQ
    <3>4. Settled \subseteq Settled'
      <4>1. CASE consumeLoop(c)  BY <2>1, <4>1, JoinStep
      <4>2. CASE first' = first  BY <3>3, <4>2 DEF Settled
      <4> QED  BY <3>3, <4>1, <4>2
    <3>5. \A d \in Consumer \ {c} : LocalInv(d)'  BY <3>3, <3>4, Frame DEF Inv
    <3>6. Passed'
      <4>1. CASE Confirm(c)  BY <2>1, <4>1, ConfirmStep
      <4>2. CASE consumeLoop(c)  BY <2>1, <4>2, JoinStep
      <4>3. CASE UNCHANGED <<end, committed, first>>  BY <3>4, <4>3 DEF Inv, Passed
      <4> QED  BY <4>1, <4>2, <4>3, <3>3
    <3> QED  BY <3>1, <3>5, <3>6 DEF Inv
  <2>2. CASE UNCHANGED vars
    <3>1. /\ UNCHANGED <<end, committed, first, owner, session, generation, position, marked, hand, msgChan, worker>>
          /\ UNCHANGED <<status, rebalances, failures, handled>>
      BY <2>2 DEF vars, group, claim, bounds
    <3>2. Settled' = Settled  BY <3>1 DEF Settled
    <3>3. TypeOK' /\ Passed'  BY <3>1, <3>2 DEF Inv, TypeOK, Passed
    <3>4. \A c \in Consumer : LocalInv(c)'  BY <3>1, <3>2, Frame DEF Inv
    <3> QED  BY <3>3, <3>4 DEF Inv
  <2>3. CASE Publish
    <3>1. /\ end \in 0..LastOffset /\ first \in 0..LastOffset /\ end < LastOffset /\ end' = end + 1
          /\ UNCHANGED <<committed, first, owner, session, generation, position, marked, hand, msgChan, worker>>
          /\ UNCHANGED <<status, rebalances, failures, handled>>
      BY <2>3 DEF Publish, claim, bounds, Inv, TypeOK
    <3>2. Settled' = Settled  BY <3>1 DEF Settled
    <3>3. end' \in 0..LastOffset /\ end <= end'  BY <3>1, ManualAssumption
    <3>4. TypeOK'  BY <3>1, <3>3 DEF Inv, TypeOK
    <3>5. first <= end'  BY <3>1, <3>3 DEF Inv, Passed
    <3>6. Passed'  BY <3>1, <3>2, <3>5 DEF Inv, Passed
    <3>7. \A c \in Consumer : LocalInv(c)'  BY <3>1, <3>2, Frame DEF Inv
    <3> QED  BY <3>4, <3>6, <3>7 DEF Inv
  <2> QED  BY <2>1, <2>2, <2>3 DEF Next
<1> QED  BY <1>1, InitInv, PTL DEF Spec

-----------------------------------------------------------------------------
(* Type correctness.                                                       *)
THEOREM TypeCorrect == Spec => []TypeOK
<1>1. Inv => TypeOK  BY DEF Inv
<1> QED  BY <1>1, ManualInvariant, PTL

(* Confirm commits a high-water mark that no message after the group's     *)
(* start that nobody handled is below,                                     *)
(* whatever sessions, rebalances and crashes came in between.              *)
THEOREM NothingIsSkipped == Spec => []NothingSkipped
<1>1. Inv => NothingSkipped
  <2> SUFFICES ASSUME Inv, NEW x \in (first + 1)..committed PROVE x \in handled
    BY DEF NothingSkipped
  <2>1. first \in Nat /\ committed \in Nat /\ TypeOK /\ 1..committed \subseteq Settled
    BY DEF Inv, TypeOK, Passed
  <2>2. x \in 1..committed /\ x \notin 1..first
    BY <2>1
  <2> QED  BY <2>1, <2>2 DEF Settled
<1> QED  BY <1>1, ManualInvariant, PTL

-----------------------------------------------------------------------------
(* Refinement: the members of the group keep its offset.                   *)

(* The owner's session has marked at least what the group has committed.   *)
OwnerInv == \A c \in Consumer : owner = c => committed <= marked[c]

(* A member becomes owner with the offset it is given, and only its own    *)
(* Confirm moves the offset or its marks from then on.                     *)
LEMMA OwnerStep ==
  ASSUME Inv, OwnerInv, [Next]_vars
  PROVE  OwnerInv'
<1> USE DEF group, claim, bounds
<1>0. /\ committed \in Nat /\ marked \in [Consumer -> 0..LastOffset] /\ end \in Nat
      /\ \A d \in Consumer : marked[d] \in Nat /\ worker[d].offset \in Nat
  BY ManualAssumption, LocalTypes DEF Inv, TypeOK
<1>1. ASSUME UNCHANGED <<committed, marked>>, owner' \in {owner, NoOne}
      PROVE  OwnerInv'
  BY <1>1, ManualAssumption DEF OwnerInv
<1>2. CASE UNCHANGED vars \/ Publish
  BY <1>1, <1>2 DEF vars, Publish
<1>3. ASSUME NEW c \in Consumer, Group(c) PROVE OwnerInv'
  <2>1. CASE consumeLoop(c)
    <3>1. owner' = c /\ marked'[c] = committed' /\ committed' \in {committed, end}
      BY <1>0, <2>1 DEF consumeLoop, Joins, Resume
    <3>2. committed' <= committed'
      BY <1>0, <3>1
    <3> QED BY <3>1, <3>2 DEF OwnerInv
  <2>2. CASE Rebalance(c) \/ Cancelled(c) \/ Expel(c) \/ Crash(c)
    BY <1>1, <2>2 DEF Rebalance, Cancelled, Expel, Crash
  <2> QED BY <1>3, <2>1, <2>2 DEF Group
<1>4. ASSUME NEW c \in Consumer, Handler(c) PROVE OwnerInv'
  BY <1>1, <1>4 DEF Handler, Take, Push, Returns
<1>5. ASSUME NEW c \in Consumer, Close(c) \/ Closed(c) PROVE OwnerInv'
  BY <1>1, <1>5 DEF Close, Closed
<1>6. ASSUME NEW c \in Consumer, Confirm(c) PROVE OwnerInv'
  <2>1. CASE OwnSession(c)
    <3>1. /\ marked'[c] = NewMark(c) /\ owner' = owner
          /\ \A d \in Consumer \ {c} : marked'[d] = marked[d]
          /\ committed' = committed \/ (owner = c /\ committed' = marked'[c])
      BY <1>0, <1>6, <2>1 DEF Confirm
    <3>2. NewMark(c) >= marked[c] /\ NewMark(c) \in Nat
      BY <1>0 DEF NewMark
    <3>3. ASSUME NEW d \in Consumer, owner = d PROVE committed' <= marked'[d]
      <4>1. committed <= marked[d]
        BY <3>3 DEF OwnerInv
      <4>2. CASE d = c
        BY <1>0, <3>1, <3>2, <4>1, <4>2
      <4>3. CASE d # c
        BY <3>1, <3>3, <4>1, <4>3
      <4> QED BY <4>2, <4>3
    <3> QED BY <3>1, <3>3 DEF OwnerInv
  <2>2. CASE ~OwnSession(c)
    BY <1>1, <1>6, <2>2 DEF Confirm
  <2> QED BY <2>1, <2>2
<1>7. ASSUME NEW c \in Consumer, Work(c), ~Confirm(c) PROVE OwnerInv'
  BY <1>1, <1>7 DEF Work, Consume, Receive, ConsumerClosed, ProcessOk, ProcessError, ColdRetry,
                    DLQ, Sends, SendAfterClose
<1> QED BY <1>2, <1>3, <1>4, <1>5, <1>6, <1>7 DEF Next

(* Nobody has a message that was not published.                            *)
Within(c) == /\ hand[c] <= end /\ worker[c].offset <= end
             /\ \A i \in 1..Len(msgChan[c]) : msgChan[c][i].offset <= end

EndInv == handled \subseteq 1..end /\ \A c \in Consumer : Within(c)

(* What a consumer has after a step it had before, or the claim delivered. *)
LEMMA WithinStep ==
  ASSUME Inv, NEW c \in Consumer, Within(c), end' = end,
         Group(c) \/ Handler(c) \/ Work(c) \/ Close(c) \/ Closed(c)
  PROVE  Within(c)'
<1> USE DEF group, claim, bounds
<1>0. /\ end \in Nat /\ hand \in [Consumer -> 0..LastOffset] /\ msgChan \in [Consumer -> Seq(Wrapped)]
      /\ worker \in [Consumer -> Worker] /\ position \in [Consumer -> 0..LastOffset]
      /\ position[c] \in Nat /\ 0 <= end
  BY ManualAssumption DEF Inv, TypeOK, Worker, At
<1>1. hand'[c] <= end
  <2>1. hand'[c] \in {hand[c], 0} \/ (hand'[c] = position[c] + 1 /\ position[c] < end)
    BY <1>0 DEF Group, consumeLoop, Joins, Rebalance, Cancelled, Expel, Crash, Handler, Take, Push,
                Returns, Work, Consume, Receive, ConsumerClosed, ProcessOk, ProcessError, ColdRetry,
                DLQ, Sends, SendAfterClose, Confirm, Close, Closed
  <2> QED BY <1>0, <2>1 DEF Within
<1>2. CASE Receive(c)
  <2>1. /\ msgChan[c] \in Seq(Wrapped) /\ msgChan[c] # <<>>
        /\ msgChan'[c] = Tail(msgChan[c]) /\ worker'[c].offset = Head(msgChan[c]).offset
    BY <1>0, <1>2 DEF Receive
  <2>2. /\ Head(msgChan[c]) = msgChan[c][1] /\ Len(msgChan[c]) \in Nat \ {0}
        /\ Len(Tail(msgChan[c])) = Len(msgChan[c]) - 1
        /\ \A i \in 1..Len(Tail(msgChan[c])) : Tail(msgChan[c])[i] = msgChan[c][i + 1]
    <3>1. Len(msgChan[c]) \in Nat \ {0}  BY <2>1, EmptySeq, LenProperties
    <3> QED BY <2>1, <3>1, HeadTailProperties
  <2>3. worker'[c].offset <= end
    BY <2>1, <2>2 DEF Within
  <2>4. ASSUME NEW i \in 1..Len(msgChan'[c]) PROVE msgChan'[c][i].offset <= end
    <3>1. i + 1 \in 1..Len(msgChan[c]) /\ msgChan'[c][i] = msgChan[c][i + 1]
      BY <2>1, <2>2
    <3> QED BY <3>1 DEF Within
  <2> QED BY <1>1, <2>3, <2>4 DEF Within
<1>3. CASE Push(c)
  <2> DEFINE e == [offset |-> hand[c], generation |-> generation[c]]
  <2>0. e \in Wrapped /\ e.offset = hand[c]
    <3>1. generation[c] \in Nat
      BY DEF Inv, TypeOK
    <3>2. hand[c] \in Offset
      <4>1. hand[c] \in 0..LastOffset /\ hand[c] # 0
        BY <1>0, <1>3 DEF Push
      <4> QED BY <4>1, ManualAssumption DEF Offset
    <3> QED BY <3>1, <3>2 DEF Wrapped
  <2>1. /\ msgChan[c] \in Seq(Wrapped) /\ msgChan'[c] = Append(msgChan[c], e)
        /\ worker' = worker /\ e \in Wrapped /\ e.offset = hand[c]
    <3>1. msgChan'[c] = Append(msgChan[c], e) /\ worker' = worker
      BY <1>0, <1>3 DEF Push
    <3> QED BY <1>0, <2>0, <3>1
  <2> HIDE DEF e
  <2>2. /\ Len(msgChan[c]) \in Nat /\ Len(msgChan'[c]) = Len(msgChan[c]) + 1
        /\ \A i \in 1..Len(msgChan[c]) : msgChan'[c][i] = msgChan[c][i]
        /\ msgChan'[c][Len(msgChan[c]) + 1] = e
    BY <2>1, AppendProperties, LenProperties
  <2>3. ASSUME NEW i \in 1..Len(msgChan'[c]) PROVE msgChan'[c][i].offset <= end
    <3>1. i \in 1..Len(msgChan[c]) \/ i = Len(msgChan[c]) + 1
      BY <2>2
    <3> QED BY <2>1, <2>2, <3>1 DEF Within
  <2> QED BY <1>1, <2>1, <2>3 DEF Within
<1>4. CASE ~Receive(c) /\ ~Push(c)
  <2>1. /\ msgChan'[c] = msgChan[c] \/ Len(msgChan'[c]) = 0
        /\ worker'[c].offset \in {worker[c].offset, 0}
    <3>1. CASE Crash(c)
      BY <1>0, <3>1, EmptySeq DEF Crash, NoWork
    <3>2. CASE Confirm(c)
      BY <1>0, <3>2 DEF Confirm, NoWork
    <3>3. CASE Group(c) /\ ~Crash(c)
      BY <3>3 DEF Group, consumeLoop, Joins, Rebalance, Cancelled, Expel
    <3>4. CASE Handler(c) \/ Close(c) \/ Closed(c)
      BY <1>4, <3>4 DEF Handler, Take, Returns, Close, Closed
    <3>5. CASE Work(c) /\ ~Confirm(c)
      <4>1. /\ msgChan' = msgChan
            /\ worker' = worker \/ \E step : WorkerStep(c, step)
        BY <1>4, <3>5 DEF Work, Consume, ConsumerClosed, ProcessOk, ProcessError, ColdRetry, DLQ,
                          Sends, SendAfterClose
      <4>2. ASSUME NEW step, WorkerStep(c, step) PROVE worker'[c].offset = worker[c].offset
        BY <1>0, <4>2 DEF WorkerStep, Worker
      <4> QED BY <4>1, <4>2
    <3> QED BY <3>1, <3>2, <3>3, <3>4, <3>5
  <2>2. worker'[c].offset <= end
    BY <1>0, <2>1 DEF Within
  <2>3. ASSUME NEW i \in 1..Len(msgChan'[c]) PROVE msgChan'[c][i].offset <= end
    BY <2>1, <2>3 DEF Within
  <2> QED BY <1>1, <2>2, <2>3 DEF Within
<1> QED BY <1>2, <1>3, <1>4

(* Only published messages are handled.                                    *)
LEMMA EndStep ==
  ASSUME Inv, EndInv, [Next]_vars
  PROVE  EndInv'
<1> USE DEF group, claim, bounds
<1>0. end \in Nat /\ TypeOK
  BY ManualAssumption DEF Inv, TypeOK
<1>1. CASE UNCHANGED vars
  BY <1>1 DEF vars, EndInv, Within
<1>2. CASE Publish
  <2>1. /\ UNCHANGED <<hand, worker, msgChan, handled>> /\ end' = end + 1
    BY <1>2 DEF Publish
  <2>2. ASSUME NEW c \in Consumer PROVE Within(c)'
    <3>1. /\ hand[c] \in Nat /\ worker[c].offset \in Nat
          /\ \A i \in 1..Len(msgChan[c]) : msgChan[c][i].offset \in Nat
      BY <1>0, LocalTypes, ManualAssumption DEF Offset
    <3> QED BY <1>0, <2>1, <3>1 DEF EndInv, Within
  <2>3. handled' \subseteq 1..(end + 1)
    BY <1>0, <2>1 DEF EndInv
  <2> QED BY <2>1, <2>2, <2>3 DEF EndInv
<1>3. ASSUME NEW c \in Consumer, Group(c) \/ Handler(c) \/ Work(c) \/ Close(c) \/ Closed(c)
      PROVE  EndInv'
  <2>1. end' = end
    BY <1>3 DEF Group, consumeLoop, Joins, Rebalance, Cancelled, Expel, Crash, Handler, Take, Push,
                Returns, Work, Consume, Receive, ConsumerClosed, ProcessOk, ProcessError, ColdRetry,
                DLQ, Sends, SendAfterClose, Confirm, Close, Closed
  <2>2. \A d \in Consumer \ {c} : hand'[d] = hand[d] /\ msgChan'[d] = msgChan[d] /\ worker'[d] = worker[d]
    <3>1. CASE Group(c)
      BY <1>0, <3>1 DEF TypeOK, Group, consumeLoop, Joins, Rebalance, Cancelled, Expel, Crash
    <3>2. CASE Handler(c) \/ Close(c) \/ Closed(c)
      BY <1>0, <3>2 DEF TypeOK, Handler, Take, Push, Returns, Close, Closed
    <3>3. CASE Work(c)
      BY <1>0, <3>3 DEF TypeOK, Work, Consume, Receive, ConsumerClosed, ProcessOk, ProcessError,
                        ColdRetry, DLQ, Sends, SendAfterClose, Confirm, WorkerStep
    <3> QED BY <1>3, <3>1, <3>2, <3>3
  <2>3. \A d \in Consumer \ {c} : Within(d)'
    BY <2>1, <2>2 DEF EndInv, Within
  <2>4. Within(c)'
    BY <1>3, <2>1, WithinStep DEF EndInv
  <2>5. handled' \subseteq 1..end
    <3>1. \/ handled' \subseteq handled
          \/ /\ handled' \subseteq handled \cup {worker[c].offset}
             /\ worker[c].at \in {"processing", "failing"}
      BY <1>3 DEF Group, consumeLoop, Joins, Rebalance, Cancelled, Expel, Crash, Handler, Take,
                  Push, Returns, Work, Consume, Receive, ConsumerClosed, ProcessOk, ProcessError,
                  ColdRetry, DLQ, Sends, SendAfterClose, Confirm, Close, Closed
    <3>2. worker[c].at \in {"processing", "failing"} => worker[c].offset \in 1..end
      <4>1. worker[c].offset \in 0..LastOffset /\ worker[c].offset <= end
        BY <1>0, LocalTypes DEF EndInv, Within
      <4>2. worker[c].at \in {"processing", "failing"} => worker[c].offset # 0
        BY DEF Inv, LocalInv, Holding
      <4> QED BY <1>0, <4>1, <4>2, ManualAssumption
    <3> QED BY <3>1, <3>2 DEF EndInv
  <2> QED BY <2>1, <2>3, <2>4, <2>5 DEF EndInv
<1> QED BY <1>1, <1>2, <1>3 DEF Next

(* Confirm passes what is handled, a session before the first commit       *)
(* starts at the end, and every other step settles or does not touch the   *)
(* offset.                                                                 *)
LEMMA StepOffsets ==
  ASSUME Inv, NothingSkipped', EndInv', OwnerInv, [Next]_vars
  PROVE  [Offsets!Next]_(Offsets!vars)
<1> USE DEF group, claim, bounds
<1>0. /\ committed \in Nat /\ end \in Nat
  BY ManualAssumption DEF Inv, TypeOK
<1>1. ASSUME UNCHANGED <<committed, first>>, end' \in {end, end + 1}, handled \subseteq handled'
      PROVE  Offsets!Next
  <2>1. handled' \subseteq 1..end'
    BY DEF EndInv
  <2> QED BY <1>1, <2>1 DEF Offsets!Next, Offsets!Settle
<1>2. CASE UNCHANGED vars \/ Publish
  BY <1>1, <1>2 DEF vars, Publish
<1>3. ASSUME NEW c \in Consumer, Group(c) \/ Handler(c) \/ Close(c) \/ Closed(c)
      PROVE  Offsets!Next
  <2>1. CASE consumeLoop(c) /\ ~Begun
    BY <2>1 DEF consumeLoop, Joins, Resume, Begun, Offsets!Next, Offsets!Start, Offsets!Committed
  <2>2. CASE consumeLoop(c) /\ Begun
    BY <1>1, <2>2 DEF consumeLoop, Joins, Resume
  <2>3. CASE ~consumeLoop(c)
    BY <1>1, <1>3, <2>3 DEF Group, Rebalance, Cancelled, Expel, Crash, Handler, Take, Push, Returns,
                            Close, Closed
  <2> QED BY <2>1, <2>2, <2>3
<1>4. ASSUME NEW c \in Consumer, Work(c), ~Confirm(c) PROVE Offsets!Next
  BY <1>1, <1>4 DEF Work, Consume, Receive, ConsumerClosed, ProcessOk, ProcessError, ColdRetry,
                    DLQ, Sends, SendAfterClose
<1>5. ASSUME NEW c \in Consumer, Confirm(c) PROVE Offsets!Next
  <2>1. handled' = handled /\ owner' = owner /\ end' = end /\ first' = first
    BY <1>5 DEF Confirm
  <2>2. committed' = committed \/ (owner = c /\ committed' = marked'[c] /\ OwnSession(c))
    BY <1>5 DEF Confirm
  <2>3. CASE committed' = committed
    BY <1>1, <2>1, <2>3
  <2>4. CASE committed' # committed
    <3>1. /\ committed' \in Nat /\ owner = c
          /\ committed' = NewMark(c) /\ committed <= marked[c] /\ NewMark(c) >= marked[c]
          /\ marked[c] \in Nat
      <4>1. marked \in [Consumer -> 0..LastOffset] /\ marked[c] \in Nat /\ worker[c].offset \in Nat
        <5>1. marked \in [Consumer -> 0..LastOffset] /\ TypeOK
          BY DEF Inv, TypeOK
        <5>2. worker[c].offset \in 0..LastOffset
          BY <5>1, LocalTypes
        <5> QED BY <5>1, <5>2, ManualAssumption
      <4>2. committed' = NewMark(c) /\ owner = c
        BY <1>5, <2>2, <2>4, <4>1 DEF Confirm
      <4> QED BY <4>1, <4>2 DEF NewMark, OwnerInv
    <3>2. committed' > committed
      BY <1>0, <2>4, <3>1
    <3>3. (first + 1)..committed' \subseteq handled
      BY <2>1 DEF NothingSkipped
    <3> QED BY <2>1, <3>2, <3>3 DEF Offsets!Next, Offsets!Pass
  <2> QED BY <2>3, <2>4
<1> QED BY <1>2, <1>3, <1>4, <1>5 DEF Next

(* What Confirm commits never goes back and never passes a message since   *)
(* the group's start that nobody has handled: the manual consumer keeps    *)
(* the same promise about the group's offset as the advanced one.          *)
THEOREM ManualImplementsGroupOffset == Spec => ImplementsGroupOffset
<1>1. Init => OwnerInv /\ EndInv /\ Offsets!Init
  <2> SUFFICES ASSUME Init PROVE OwnerInv /\ EndInv /\ Offsets!Init
    OBVIOUS
  <2>1. OwnerInv /\ Offsets!Init
    BY ManualAssumption DEF Init, OwnerInv, Offsets!Init
  <2>2. \A c \in Consumer : Len(msgChan[c]) = 0 /\ hand[c] = 0 /\ worker[c].offset = 0
    BY EmptySeq DEF Init, NoWork
  <2> QED BY <2>1, <2>2 DEF Init, EndInv, Within
<1>2. Inv /\ OwnerInv /\ [Next]_vars => OwnerInv'
  BY OwnerStep
<1>3. Inv /\ EndInv /\ [Next]_vars => EndInv'
  BY EndStep
<1>4. Inv /\ NothingSkipped' /\ EndInv' /\ OwnerInv /\ [Next]_vars => [Offsets!Next]_(Offsets!vars)
  BY StepOffsets
<1> QED BY <1>1, <1>2, <1>3, <1>4, ManualInvariant, NothingIsSkipped, PTL
        DEF Spec, Offsets!Spec, ImplementsGroupOffset
=============================================================================
