-------------------------- MODULE Producer_proofs --------------------------
(***************************************************************************)
(* The producer for any number of callers, Close calls and messages:       *)
(* nobody sends to a closed channel, and what the producer tells its       *)
(* callers is what has happened.                                           *)
(***************************************************************************)
EXTENDS Producer, SequenceTheorems, TLAPS

(* The lock of AsyncProduce, Close and sarama's producer.                  *)
LockInv ==
  /\ \A c \in Caller : pc[c] \in {"async", "input"} => c \in readers
  /\ \A k \in Closer : closer[k] \in {"lock", "drain", "done"} => closed
  /\ (\E k \in Closer : closer[k] \in {"drain", "done"}) => \A c \in Caller : pc[c] # "input"
  /\ "async" \in open \/ \E k \in Closer : closer[k] \in {"drain", "done"}

Sync  == {"produce", "send"}
Async == {"rlock", "async", "input"}

(* A call has few messages and does not pass their end; messages belong to *)
(* one call.                                                               *)
CallInv ==
  /\ \A c \in Caller :
       /\ Len(msgs[c]) <= BatchSize
       /\ sent[c] <= Len(msgs[c])
       /\ pc[c] \in Sync => sent[c] < Len(msgs[c])
       /\ pc[c] \in Async => Len(msgs[c]) = 1 /\ sent[c] = 0
       /\ (pc[c] = "returned" /\ sent[c] > 0) => sent[c] = Len(msgs[c])
       /\ \A i \in 1..Len(msgs[c]) : msgs[c][i] <= produced
  /\ \A c, d \in Caller : \A i \in 1..Len(msgs[c]), j \in 1..Len(msgs[d]) :
       msgs[c][i] = msgs[d][j] => c = d /\ i = j

Fresh(m) == fate[m] = "none" /\ callbacks[m] = <<>> /\ m \notin log

(* Messages not produced yet, and those a call has not come to, have left  *)
(* no trace; those it has sent are in the topic.                           *)
FreshInv ==
  /\ \A m \in Message : m > produced => Fresh(m)
  /\ \A c \in Caller : \A i \in 1..Len(msgs[c]) :
       /\ (i > sent[c] /\ pc[c] \in Sync \cup Async) => Fresh(msgs[c][i])
       /\ i > sent[c] + 1 => Fresh(msgs[c][i])
       /\ i <= sent[c] => msgs[c][i] \in log

(* What a message's fate says of its callback and of the topic.            *)
ResultInv ==
  \A m \in Message :
    /\ fate[m] \in {"inflight", "success", "error", "swallowed"} => callbacks[m] = <<>>
    /\ fate[m] = "success" => m \in log
    /\ fate[m] = "answered" => callbacks[m] \in {<<"nil">>, <<"error">>}
    /\ fate[m] = "none" => callbacks[m] \in {<<>>, <<"closed">>}
    /\ callbacks[m] = <<"nil">> => m \in log
    /\ callbacks[m] = <<"closed">> => m \notin log

Inv == TypeOK /\ LockInv /\ CallInv /\ FreshInv /\ ResultInv

-----------------------------------------------------------------------------
(* The initial state: nothing was produced.                                *)
LEMMA InitInv == Init => Inv
<1> SUFFICES ASSUME Init PROVE Inv  OBVIOUS
<1> USE ProducerAssumption DEF Init
<1>1. TypeOK
  <2>1. msgs \in [Caller -> Seq(Message)] /\ callbacks \in [Message -> Seq({"nil", "error", "closed"})]
    BY EmptySeq
  <2>2. /\ produced \in 0..MaxMessages /\ sent \in [Caller -> 0..BatchSize]
        /\ pc \in [Caller -> Step] /\ readers \subseteq Caller /\ closed \in BOOLEAN
    <3>1. produced \in 0..MaxMessages /\ 0 \in 0..BatchSize /\ "idle" \in Step  BY DEF Step
    <3> QED  BY <3>1
  <2>3. /\ closer \in [Closer -> {"idle", "nothing", "lock", "drain", "done"}]
        /\ fate \in [Message -> {"none", "inflight", "success", "error", "answered", "swallowed"}]
        /\ open \subseteq {"sync", "async"} /\ log \subseteq Message
    OBVIOUS
  <2> QED  BY <2>1, <2>2, <2>3 DEF TypeOK
<1>2. LockInv  BY DEF LockInv
<1>3. CallInv  BY EmptySeq DEF CallInv, Sync, Async
<1>4. FreshInv  BY EmptySeq DEF FreshInv, Fresh
<1>5. ResultInv  BY DEF ResultInv
<1> QED  BY <1>1, <1>2, <1>3, <1>4, <1>5 DEF Inv

-----------------------------------------------------------------------------
(* Steps that only move callers and closers on: no message is touched.     *)
LEMMA QuietStep ==
  ASSUME Inv, UNCHANGED <<produced, msgs, sent, fate, callbacks, log>>,
         \A c \in Caller : /\ pc'[c] \in Sync => pc[c] \in Sync
                           /\ pc'[c] \in Async => pc[c] \in Async
                           /\ pc'[c] = "returned" => pc[c] = "returned"
  PROVE  (CallInv /\ FreshInv /\ ResultInv)'
<1>1. CallInv'  BY DEF Inv, CallInv
<1>2. FreshInv'  BY DEF Inv, FreshInv, Fresh
<1>3. ResultInv'  BY DEF Inv, ResultInv
<1> QED  BY <1>1, <1>2, <1>3

(* A new call takes the next n messages.                                   *)
LEMMA BeginStep ==
  ASSUME Inv, NEW c \in Caller, NEW n \in 1..BatchSize, NEW step \in {"produce", "refused", "rlock"},
         Begins(c, n, step), step = "rlock" => n = 1,
         UNCHANGED <<readers, closed, closer, sarama, callbacks>>
  PROVE  Inv'
<1> USE ProducerAssumption
<1> DEFINE s == [i \in 1..n |-> produced + i]
<1>1. /\ produced \in 0..MaxMessages /\ n \in Nat /\ produced + n <= MaxMessages
      /\ produced' = produced + n
      /\ pc' = [pc EXCEPT ![c] = step] /\ msgs' = [msgs EXCEPT ![c] = s] /\ sent' = [sent EXCEPT ![c] = 0]
      /\ pc \in [Caller -> Step] /\ msgs \in [Caller -> Seq(Message)] /\ sent \in [Caller -> 0..BatchSize]
      /\ UNCHANGED <<readers, closed, closer, open, fate, log, callbacks>>
      /\ pc[c] \notin Sync \cup Async
  BY DEF Inv, TypeOK, Begins, Goto, sarama, Sync, Async
<1>2. s \in Seq(Message) /\ Len(s) = n /\ \A i \in 1..n : s[i] = produced + i
  <2>1. \A i \in 1..n : produced + i \in Message  BY <1>1 DEF Message
  <2>2. s \in [1..n -> Message]  BY <2>1
  <2>3. s \in Seq(Message)
    <3> HIDE DEF s
    <3>1. \E k \in Nat : s \in [1..k -> Message]  BY <2>2, <1>1
    <3>2. s \in UNION {[1..k -> Message] : k \in Nat}  BY <3>1, Zenon
    <3> QED  BY <3>2, SeqDef, Zenon
  <2>4. Len(s) \in Nat /\ DOMAIN s = 1..Len(s) /\ DOMAIN s = 1..n  BY <2>3, LenProperties
  <2>5. Len(s) = n  BY <2>4, <1>1
  <2> QED  BY <2>3, <2>5
<1> HIDE DEF s
<1>3. TypeOK'
  <2>1. produced' \in 0..MaxMessages  BY <1>1
  <2>2. pc' \in [Caller -> Step] /\ sent' \in [Caller -> 0..BatchSize]  BY <1>1 DEF Step
  <2>3. msgs' \in [Caller -> Seq(Message)]  BY <1>1, <1>2
  <2> QED  BY <1>1, <2>1, <2>2, <2>3 DEF Inv, TypeOK
<1>4. LockInv'  BY <1>1 DEF Inv, LockInv
<1>5. /\ msgs'[c] = s /\ sent'[c] = 0 /\ pc'[c] = step
      /\ \A d \in Caller \ {c} : msgs'[d] = msgs[d] /\ sent'[d] = sent[d] /\ pc'[d] = pc[d]
  BY <1>1
<1>6. CallInv'
  <2>1. ASSUME NEW d \in Caller PROVE
         /\ Len(msgs'[d]) <= BatchSize
         /\ sent'[d] <= Len(msgs'[d])
         /\ pc'[d] \in Sync => sent'[d] < Len(msgs'[d])
         /\ pc'[d] \in Async => Len(msgs'[d]) = 1 /\ sent'[d] = 0
         /\ (pc'[d] = "returned" /\ sent'[d] > 0) => sent'[d] = Len(msgs'[d])
         /\ \A i \in 1..Len(msgs'[d]) : msgs'[d][i] <= produced'
    <3>1. CASE d = c  BY <3>1, <1>1, <1>2, <1>5 DEF Sync, Async
    <3>2. CASE d # c
      <4>1. \A i \in 1..Len(msgs[d]) : msgs[d][i] \in Message  BY <1>1
      <4> QED  BY <4>1, <3>2, <1>1, <1>5 DEF Inv, CallInv, Message
    <3> QED  BY <3>1, <3>2
  <2>2. ASSUME NEW d \in Caller, NEW e \in Caller, NEW i \in 1..Len(msgs'[d]), NEW j \in 1..Len(msgs'[e]),
               msgs'[d][i] = msgs'[e][j]
        PROVE  d = e /\ i = j
    <3>1. \A f \in Caller : \A k \in 1..Len(msgs[f]) : msgs[f][k] <= produced /\ msgs[f][k] \in Nat
      <4>1. \A f \in Caller : \A k \in 1..Len(msgs[f]) : msgs[f][k] \in Message  BY <1>1
      <4> QED  BY <4>1 DEF Inv, CallInv, Message
    <3>2. \A k \in 1..n : s[k] > produced  BY <1>1, <1>2
    <3>3. CASE d = c /\ e = c  BY <3>3, <2>2, <1>5, <1>2, <1>1
    <3>4. CASE d = c /\ e # c  BY <3>4, <2>2, <3>1, <3>2, <1>5, <1>2, <1>1
    <3>5. CASE d # c /\ e = c  BY <3>5, <2>2, <3>1, <3>2, <1>5, <1>2, <1>1
    <3>6. CASE d # c /\ e # c  BY <3>6, <2>2, <1>5 DEF Inv, CallInv
    <3> QED  BY <3>3, <3>4, <3>5, <3>6
  <2> QED  BY <2>1, <2>2 DEF CallInv
<1>7. FreshInv'
  <2>1. \A m \in Message : Fresh(m)' <=> Fresh(m)  BY <1>1 DEF Fresh
  <2>2. \A m \in Message : m > produced' => Fresh(m)'  BY <2>1, <1>1 DEF Inv, FreshInv, Message
  <2>3. ASSUME NEW d \in Caller, NEW i \in 1..Len(msgs'[d]) PROVE
         /\ (i > sent'[d] /\ pc'[d] \in Sync \cup Async) => Fresh(msgs[d][i])'
         /\ i > sent'[d] + 1 => Fresh(msgs[d][i])'
         /\ i <= sent'[d] => msgs'[d][i] \in log'
    <3>1. CASE d = c
      <4>1. i \in 1..n /\ s[i] \in Message /\ s[i] > produced  BY <3>1, <1>1, <1>2, <1>5 DEF Message
      <4>2. Fresh(s[i])  BY <4>1 DEF Inv, FreshInv
      <4>3. Fresh(msgs[d][i])'  BY <4>2, <4>1, <3>1, <1>1, <1>5 DEF Fresh
      <4> QED  BY <4>1, <4>3, <3>1, <1>1, <1>5
    <3>2. CASE d # c
      <4>1. msgs'[d] = msgs[d] /\ sent'[d] = sent[d] /\ pc'[d] = pc[d] /\ log' = log  BY <3>2, <1>1, <1>5
      <4>2. i \in 1..Len(msgs[d]) /\ msgs[d][i] \in Message  BY <4>1, <1>1
      <4>3. Fresh(msgs[d][i])' <=> Fresh(msgs[d][i])  BY <4>1, <1>1 DEF Fresh
      <4> QED  BY <4>1, <4>2, <4>3 DEF Inv, FreshInv
    <3> QED  BY <3>1, <3>2
  <2> QED  BY <2>2, <2>3 DEF FreshInv
<1>8. ResultInv'  BY <1>1 DEF Inv, ResultInv
<1> QED  BY <1>3, <1>4, <1>6, <1>7, <1>8 DEF Inv

-----------------------------------------------------------------------------
(* Types of the steps that move one caller on.                             *)
LEMMA TypesOfCall ==
  ASSUME Inv, NEW c \in Caller, NEW step \in Step, pc' = [pc EXCEPT ![c] = step],
         readers' \subseteq Caller, UNCHANGED <<produced, msgs, closed, closer, open>>,
         sent' \in [Caller -> 0..BatchSize], log' \subseteq Message,
         fate' \in [Message -> {"none", "inflight", "success", "error", "answered", "swallowed"}],
         callbacks' \in [Message -> Seq({"nil", "error", "closed"})]
  PROVE  TypeOK'
<1>1. pc' \in [Caller -> Step]  BY DEF Inv, TypeOK
<1> QED  BY <1>1 DEF Inv, TypeOK

(* The message a call has come to is its own and has left no trace.        *)
LEMMA CurrentIsFresh ==
  ASSUME Inv, NEW c \in Caller, pc[c] \in Sync \cup Async
  PROVE  /\ sent[c] \in Nat /\ sent[c] + 1 \in 1..Len(msgs[c]) /\ Len(msgs[c]) \in Nat
         /\ Len(msgs[c]) <= BatchSize
         /\ Current(c) \in Message /\ Fresh(Current(c))
         /\ pc[c] \in Async => Current(c) = msgs[c][1] /\ Len(msgs[c]) = 1 /\ sent[c] = 0
         /\ \A d \in Caller : \A i \in 1..Len(msgs[d]) :
              msgs[d][i] = Current(c) => d = c /\ i = sent[c] + 1
         /\ Current(c) <= produced
<1> USE ProducerAssumption
<1>1. msgs[c] \in Seq(Message) /\ sent[c] \in 0..BatchSize  BY DEF Inv, TypeOK
<1>2. Len(msgs[c]) \in Nat  BY <1>1, LenProperties
<1>3. /\ sent[c] < Len(msgs[c]) /\ Len(msgs[c]) <= BatchSize
      /\ pc[c] \in Async => Len(msgs[c]) = 1 /\ sent[c] = 0
  BY DEF Inv, CallInv, Sync, Async
<1>4. sent[c] \in Nat /\ sent[c] + 1 \in 1..Len(msgs[c]) /\ sent[c] + 1 > sent[c]  BY <1>1, <1>2, <1>3
<1>5. Current(c) \in Message  BY <1>1, <1>4, ElementOfSeq DEF Current
<1>6. Fresh(Current(c))  BY <1>4 DEF Inv, FreshInv, Current
<1>7. \A d \in Caller : \A i \in 1..Len(msgs[d]) : msgs[d][i] = Current(c) => d = c /\ i = sent[c] + 1
  BY <1>4 DEF Inv, CallInv, Current
<1>8. Current(c) <= produced  BY <1>4 DEF Inv, CallInv, Current
<1> QED  BY <1>2, <1>3, <1>4, <1>5, <1>6, <1>7, <1>8 DEF Current

-----------------------------------------------------------------------------
(* A send that adds the current message to the topic, or does not.         *)
LEMMA SendStep ==
  ASSUME Inv, NEW c \in Caller, pc[c] = "send",
         NEW step \in {"produce", "returned", "failed"}, pc' = [pc EXCEPT ![c] = step],
         NEW n \in 0..1, sent' = [sent EXCEPT ![c] = sent[c] + n],
         step = "produce" => n = 1 /\ sent[c] + 1 < Len(msgs[c]),
         step = "returned" => n = 1 /\ sent[c] + 1 = Len(msgs[c]),
         log' \in {log, log \cup {Current(c)}}, n = 1 => Current(c) \in log',
         UNCHANGED <<produced, msgs, readers, closed, closer, open, fate, callbacks>>
  PROVE  Inv'
<1> USE ProducerAssumption
<1>1. /\ sent[c] \in Nat /\ sent[c] + 1 \in 1..Len(msgs[c]) /\ Len(msgs[c]) \in Nat
      /\ Len(msgs[c]) <= BatchSize /\ Current(c) \in Message /\ Fresh(Current(c)) /\ Current(c) <= produced
      /\ \A d \in Caller : \A i \in 1..Len(msgs[d]) : msgs[d][i] = Current(c) => d = c /\ i = sent[c] + 1
  BY CurrentIsFresh DEF Sync
<1>2. pc \in [Caller -> Step] /\ sent \in [Caller -> 0..BatchSize] /\ log \subseteq Message /\ step \in Step
  BY DEF Inv, TypeOK, Step
<1>3. sent[c] + n \in 0..BatchSize /\ sent[c] + n <= Len(msgs[c])  BY <1>1
<1>4. /\ pc'[c] = step /\ sent'[c] = sent[c] + n
      /\ \A d \in Caller \ {c} : pc'[d] = pc[d] /\ sent'[d] = sent[d]
  BY <1>2
<1>5. TypeOK'
  <2>1. sent' \in [Caller -> 0..BatchSize]  BY <1>2, <1>3
  <2>2. log' \subseteq Message  BY <1>1, <1>2
  <2>3. /\ fate' \in [Message -> {"none", "inflight", "success", "error", "answered", "swallowed"}]
        /\ callbacks' \in [Message -> Seq({"nil", "error", "closed"})] /\ readers' \subseteq Caller
    BY DEF Inv, TypeOK
  <2> QED  BY <2>1, <2>2, <2>3, <1>2, TypesOfCall
<1>6. LockInv'  BY <1>2, <1>4 DEF Inv, LockInv
<1>7. CallInv'
  <2>1. ASSUME NEW d \in Caller PROVE
         /\ Len(msgs[d]) <= BatchSize
         /\ sent'[d] <= Len(msgs[d])
         /\ pc'[d] \in Sync => sent'[d] < Len(msgs[d])
         /\ pc'[d] \in Async => Len(msgs[d]) = 1 /\ sent'[d] = 0
         /\ (pc'[d] = "returned" /\ sent'[d] > 0) => sent'[d] = Len(msgs[d])
    <3>1. CASE d = c  BY <3>1, <1>1, <1>3, <1>4 DEF Sync, Async
    <3>2. CASE d # c  BY <3>2, <1>4 DEF Inv, CallInv
    <3> QED  BY <3>1, <3>2
  <2> QED  BY <2>1 DEF Inv, CallInv
<1>8. FreshInv'
  <2>1. \A m \in Message : m # Current(c) => (Fresh(m)' <=> Fresh(m))  BY DEF Fresh
  <2>2. \A m \in Message : m > produced' => Fresh(m)'
    <3>1. produced \in Nat  BY DEF Inv, TypeOK
    <3> QED  BY <3>1, <2>1, <1>1 DEF Inv, FreshInv, Message
  <2>3. ASSUME NEW d \in Caller, NEW i \in 1..Len(msgs[d]) PROVE
         /\ (i > sent'[d] /\ pc'[d] \in Sync \cup Async) => Fresh(msgs[d][i])'
         /\ i > sent'[d] + 1 => Fresh(msgs[d][i])'
         /\ i <= sent'[d] => msgs[d][i] \in log'
    <3>1. msgs[d] \in Seq(Message) /\ Len(msgs[d]) \in Nat /\ msgs[d][i] \in Message /\ sent[d] \in Nat
      <4>1. msgs[d] \in Seq(Message) /\ sent[d] \in 0..BatchSize  BY DEF Inv, TypeOK
      <4> QED  BY <4>1, LenProperties, ElementOfSeq
    <3>2. msgs[d][i] \in log => msgs[d][i] \in log'  OBVIOUS
    <3>3. CASE d = c
      <4>1. i # sent[c] + 1 => (Fresh(msgs[d][i])' <=> Fresh(msgs[d][i]))  BY <3>3, <3>1, <2>1, <1>1
      <4>2. i > sent[c] + 1 => Fresh(msgs[d][i])  BY <3>3 DEF Inv, FreshInv
      <4>3. i <= sent[c] => msgs[d][i] \in log  BY <3>3 DEF Inv, FreshInv
      <4>4. i = sent[c] + 1 => msgs[d][i] = Current(c)  BY <3>3 DEF Current
      <4>5. i > sent'[d] + 1 => Fresh(msgs[d][i])'  BY <4>1, <4>2, <3>1, <3>3, <1>1, <1>4
      <4>6. i <= sent'[d] => msgs[d][i] \in log'  BY <4>3, <4>4, <3>1, <3>2, <3>3, <1>1, <1>4
      <4>7. (i > sent'[d] /\ pc'[d] \in Sync \cup Async) => Fresh(msgs[d][i])'
        <5>1. pc'[d] \in Sync \cup Async => n = 1  BY <3>3, <1>4 DEF Sync, Async
        <5> QED  BY <5>1, <4>1, <4>2, <3>1, <3>3, <1>1, <1>4
      <4> QED  BY <4>5, <4>6, <4>7
    <3>4. CASE d # c
      <4>1. Fresh(msgs[d][i])' <=> Fresh(msgs[d][i])  BY <3>4, <3>1, <2>1, <1>1
      <4>2. sent'[d] = sent[d] /\ pc'[d] = pc[d]  BY <3>4, <1>4
      <4> QED  BY <4>1, <4>2, <3>2 DEF Inv, FreshInv
    <3> QED  BY <3>3, <3>4
  <2> QED  BY <2>2, <2>3 DEF FreshInv
<1>9. ResultInv'
  <2>1. fate[Current(c)] = "none" /\ callbacks[Current(c)] = <<>>  BY <1>1 DEF Fresh
  <2>2. \A m \in Message : m # Current(c) => (m \in log' <=> m \in log)  OBVIOUS
  <2>3. ASSUME NEW m \in Message, m # Current(c) PROVE
         /\ fate[m] = "success" => m \in log'
         /\ callbacks[m] = <<"nil">> => m \in log'
         /\ callbacks[m] = <<"closed">> => m \notin log'
    BY <2>2, <2>3 DEF Inv, ResultInv
  <2>4. <<>> # <<"nil">> /\ <<>> # <<"closed">>  OBVIOUS
  <2> QED  BY <2>1, <2>3, <2>4 DEF Inv, ResultInv
<1> QED  BY <1>5, <1>6, <1>7, <1>8, <1>9 DEF Inv

-----------------------------------------------------------------------------
(* AsyncProduce calls back with ErrProducerClosed or hands its message to  *)
(* sarama.                                                                 *)
LEMMA AsyncStep ==
  ASSUME Inv, NEW c \in Caller, pc[c] \in {"async", "input"},
         NEW step \in {"returned", "refused"}, pc' = [pc EXCEPT ![c] = step],
         readers' = readers \ {c},
         \/ Calls(msgs[c][1], "closed") /\ UNCHANGED fate
         \/ fate' = [fate EXCEPT ![msgs[c][1]] = "inflight"] /\ UNCHANGED callbacks,
         UNCHANGED <<produced, msgs, sent, closed, closer, open, log>>
  PROVE  Inv'
<1> USE ProducerAssumption
<1> DEFINE m0 == msgs[c][1]
<1>1. /\ m0 \in Message /\ Fresh(m0) /\ m0 <= produced /\ Len(msgs[c]) = 1 /\ sent[c] = 0
      /\ \A d \in Caller : \A i \in 1..Len(msgs[d]) : msgs[d][i] = m0 => d = c /\ i = 1
  BY CurrentIsFresh DEF Async
<1>2. /\ pc \in [Caller -> Step] /\ step \in Step /\ readers' \subseteq Caller
      /\ callbacks \in [Message -> Seq({"nil", "error", "closed"})]
      /\ fate \in [Message -> {"none", "inflight", "success", "error", "answered", "swallowed"}]
  BY DEF Inv, TypeOK, Step
<1> HIDE DEF m0
<1>3. /\ pc'[c] = step
      /\ \A d \in Caller \ {c} : pc'[d] = pc[d]
      /\ \A m \in Message \ {m0} : fate'[m] = fate[m] /\ callbacks'[m] = callbacks[m]
  BY <1>2 DEF Calls, m0
<1>4. \/ callbacks'[m0] = <<"closed">> /\ fate'[m0] = "none"
      \/ callbacks'[m0] = <<>> /\ fate'[m0] = "inflight"
  <2>1. Append(<<>>, "closed") = <<"closed">>  OBVIOUS
  <2>2. callbacks[m0] = <<>> /\ fate[m0] = "none"  BY <1>1 DEF Fresh
  <2> QED  BY <2>1, <2>2, <1>1, <1>2 DEF Calls, m0
<1>5. TypeOK'
  <2>1. Append(callbacks[m0], "closed") \in Seq({"nil", "error", "closed"})
    <3>1. callbacks[m0] \in Seq({"nil", "error", "closed"})  BY <1>1, <1>2
    <3> QED  BY <3>1
  <2>2. callbacks' \in [Message -> Seq({"nil", "error", "closed"})]  BY <2>1, <1>2 DEF Calls, m0
  <2>3. fate' \in [Message -> {"none", "inflight", "success", "error", "answered", "swallowed"}]  BY <1>2
  <2>4. sent' \in [Caller -> 0..BatchSize] /\ log' \subseteq Message  BY DEF Inv, TypeOK
  <2> QED  BY <2>2, <2>3, <2>4, <1>2, TypesOfCall
<1>6. LockInv'
  <2>1. step \notin {"async", "input"}  OBVIOUS
  <2> QED  BY <2>1, <1>2, <1>3 DEF Inv, LockInv
<1>7. CallInv'
  <2>1. ASSUME NEW d \in Caller PROVE
         /\ pc'[d] \in Sync => sent[d] < Len(msgs[d])
         /\ pc'[d] \in Async => Len(msgs[d]) = 1 /\ sent[d] = 0
         /\ (pc'[d] = "returned" /\ sent[d] > 0) => sent[d] = Len(msgs[d])
    <3>1. CASE d = c  BY <3>1, <1>1, <1>3 DEF Sync, Async
    <3>2. CASE d # c  BY <3>2, <1>3 DEF Inv, CallInv
    <3> QED  BY <3>1, <3>2
  <2> QED  BY <2>1 DEF Inv, CallInv
<1>8. FreshInv'
  <2>1. \A m \in Message : m # m0 => (Fresh(m)' <=> Fresh(m))  BY <1>3 DEF Fresh
  <2>2. \A m \in Message : m > produced' => Fresh(m)'
    <3>1. produced \in Nat  BY DEF Inv, TypeOK
    <3> QED  BY <3>1, <2>1, <1>1 DEF Inv, FreshInv, Message
  <2>3. ASSUME NEW d \in Caller, NEW i \in 1..Len(msgs[d]) PROVE
         /\ (i > sent[d] /\ pc'[d] \in Sync \cup Async) => Fresh(msgs[d][i])'
         /\ i > sent[d] + 1 => Fresh(msgs[d][i])'
         /\ i <= sent[d] => msgs[d][i] \in log
    <3>1. msgs[d][i] \in Message
      <4>1. msgs[d] \in Seq(Message)  BY DEF Inv, TypeOK
      <4> QED  BY <4>1, ElementOfSeq
    <3>2. CASE d = c
      <4>1. i = 1 /\ sent[d] = 0 /\ pc'[d] = step  BY <3>2, <1>1, <1>3
      <4> QED  BY <4>1 DEF Sync, Async
    <3>3. CASE d # c
      <4>1. Fresh(msgs[d][i])' <=> Fresh(msgs[d][i])
        <5>1. msgs[d][i] # m0  BY <3>3, <1>1
        <5> QED  BY <5>1, <3>1, <2>1
      <4>2. pc'[d] = pc[d]  BY <3>3, <1>3
      <4> QED  BY <4>1, <4>2 DEF Inv, FreshInv
    <3> QED  BY <3>2, <3>3
  <2> QED  BY <2>2, <2>3 DEF FreshInv
<1>9. ResultInv'
  <2>1. m0 \notin log  BY <1>1 DEF Fresh
  <2>2. ASSUME NEW m \in Message PROVE
         /\ fate'[m] \in {"inflight", "success", "error", "swallowed"} => callbacks'[m] = <<>>
         /\ fate'[m] = "success" => m \in log
         /\ fate'[m] = "answered" => callbacks'[m] \in {<<"nil">>, <<"error">>}
         /\ fate'[m] = "none" => callbacks'[m] \in {<<>>, <<"closed">>}
         /\ callbacks'[m] = <<"nil">> => m \in log
         /\ callbacks'[m] = <<"closed">> => m \notin log
    <3>1. CASE m = m0
      <4>1. <<"closed">> # <<"nil">> /\ <<>> # <<"nil">>  OBVIOUS
      <4> QED  BY <3>1, <4>1, <2>1, <1>4
    <3>2. CASE m # m0  BY <3>2, <1>3 DEF Inv, ResultInv
    <3> QED  BY <3>1, <3>2
  <2> QED  BY <2>2 DEF ResultInv
<1> QED  BY <1>5, <1>6, <1>7, <1>8, <1>9 DEF Inv

-----------------------------------------------------------------------------
(* A message that sarama has: its fate changes, it may come to be in the   *)
(* topic, and its callback may be called.                                  *)
LEMMA SaramaStep ==
  ASSUME Inv, NEW m0 \in Message, fate[m0] \in {"inflight", "success", "error"},
         NEW f \in {"success", "error", "answered", "swallowed"}, fate' = [fate EXCEPT ![m0] = f],
         NEW s \in {<<>>, <<"nil">>, <<"error">>}, callbacks' = [callbacks EXCEPT ![m0] = s],
         log' \in {log, log \cup {m0}},
         f = "answered" <=> s # <<>>,
         f = "success" \/ s = <<"nil">> => m0 \in log',
         UNCHANGED <<calls, readers, closed, closer, open>>
  PROVE  Inv'
<1> USE DEF calls
<1>1. /\ fate \in [Message -> {"none", "inflight", "success", "error", "answered", "swallowed"}]
      /\ callbacks \in [Message -> Seq({"nil", "error", "closed"})] /\ log \subseteq Message
  BY DEF Inv, TypeOK
<1>2. /\ fate'[m0] = f /\ callbacks'[m0] = s
      /\ \A m \in Message \ {m0} : fate'[m] = fate[m] /\ callbacks'[m] = callbacks[m]
      /\ \A m : m # m0 => (m \in log' <=> m \in log)
      /\ log \subseteq log'
  BY <1>1
<1>3. \A m \in Message : Fresh(m) => Fresh(m)'
  <2>1. ~ Fresh(m0)  BY DEF Fresh
  <2> QED  BY <2>1, <1>2 DEF Fresh
<1>4. TypeOK'
  <2>1. s \in Seq({"nil", "error", "closed"})
    <3>1. <<>> \in Seq({"nil", "error", "closed"})  BY EmptySeq
    <3>2. <<"nil">> \in Seq({"nil", "error", "closed"}) /\ <<"error">> \in Seq({"nil", "error", "closed"})  OBVIOUS
    <3> QED  BY <3>1, <3>2
  <2>2. callbacks' \in [Message -> Seq({"nil", "error", "closed"})]  BY <1>1, <2>1
  <2>3. fate' \in [Message -> {"none", "inflight", "success", "error", "answered", "swallowed"}]  BY <1>1
  <2>4. log' \subseteq Message  BY <1>1
  <2> QED  BY <2>2, <2>3, <2>4 DEF Inv, TypeOK
<1>5. LockInv'  BY DEF Inv, LockInv
<1>6. CallInv'  BY DEF Inv, CallInv
<1>7. FreshInv'
  <2>1. \A m \in Message : m > produced' => Fresh(m)'  BY <1>3 DEF Inv, FreshInv
  <2>2. ASSUME NEW d \in Caller, NEW i \in 1..Len(msgs[d]) PROVE
         /\ (i > sent[d] /\ pc[d] \in Sync \cup Async) => Fresh(msgs[d][i])'
         /\ i > sent[d] + 1 => Fresh(msgs[d][i])'
         /\ i <= sent[d] => msgs[d][i] \in log'
    <3>1. msgs[d][i] \in Message
      <4>1. msgs[d] \in Seq(Message)  BY DEF Inv, TypeOK
      <4> QED  BY <4>1, ElementOfSeq
    <3>2. Fresh(msgs[d][i]) => Fresh(msgs[d][i])'  BY <3>1, <1>3
    <3> QED  BY <3>2, <1>2 DEF Inv, FreshInv
  <2> QED  BY <2>1, <2>2 DEF FreshInv
<1>8. ResultInv'
  <2>1. ASSUME NEW m \in Message PROVE
         /\ fate'[m] \in {"inflight", "success", "error", "swallowed"} => callbacks'[m] = <<>>
         /\ fate'[m] = "success" => m \in log'
         /\ fate'[m] = "answered" => callbacks'[m] \in {<<"nil">>, <<"error">>}
         /\ fate'[m] = "none" => callbacks'[m] \in {<<>>, <<"closed">>}
         /\ callbacks'[m] = <<"nil">> => m \in log'
         /\ callbacks'[m] = <<"closed">> => m \notin log'
    <3>1. CASE m = m0
      <4>1. <<"closed">> # <<"nil">> /\ <<"closed">> # <<"error">> /\ <<"closed">> # <<>>  OBVIOUS
      <4> QED  BY <3>1, <4>1, <1>2
    <3>2. CASE m # m0  BY <3>2, <1>2 DEF Inv, ResultInv
    <3> QED  BY <3>1, <3>2
  <2> QED  BY <2>1 DEF ResultInv
<1> QED  BY <1>4, <1>5, <1>6, <1>7, <1>8 DEF Inv

-----------------------------------------------------------------------------
(* Steps of a call that only move it on, and steps of Close.               *)
LEMMA QuietCallStep ==
  ASSUME Inv, NEW c \in Caller, Produce(c) \/ SendPanics(c) \/ RLock(c) \/ AsyncAccepted(c)
                                \/ (Input(c) /\ "async" \notin open)
  PROVE  Inv'
<1> DEFINE step == pc'[c]
<1>1. /\ pc \in [Caller -> Step] /\ readers \subseteq Caller
      /\ UNCHANGED <<produced, msgs, sent, closed, closer, sarama, callbacks>>
  BY DEF Inv, TypeOK, Produce, SendPanics, RLock, AsyncAccepted, Input, sarama
<1>2. UNCHANGED <<open, fate, log>>  BY <1>1 DEF sarama
<1>3. /\ pc' \in [Caller -> Step] /\ readers' \subseteq Caller
      /\ \A d \in Caller \ {c} : pc'[d] = pc[d]
      /\ pc'[c] \in Sync => pc[c] \in Sync
      /\ pc'[c] \in Async => pc[c] \in Async
      /\ pc'[c] # "returned"
  <2>1. CASE Produce(c)  BY <2>1, <1>1 DEF Produce, Goto, Step, Sync, Async
  <2>2. CASE SendPanics(c)  BY <2>2, <1>1 DEF SendPanics, Goto, Step, Sync, Async
  <2>3. CASE RLock(c)  BY <2>3, <1>1 DEF RLock, Goto, Step, Sync, Async
  <2>4. CASE AsyncAccepted(c)  BY <2>4, <1>1 DEF AsyncAccepted, Goto, Step, Sync, Async
  <2>5. CASE Input(c) /\ "async" \notin open  BY <2>5, <1>1 DEF Input, Goto, Step, Sync, Async
  <2> QED  BY <2>1, <2>2, <2>3, <2>4, <2>5
<1>4. TypeOK'  BY <1>1, <1>2, <1>3 DEF Inv, TypeOK
<1>5. LockInv'
  <2>1. CASE Produce(c)  BY <2>1, <1>1, <1>2 DEF Produce, Goto, Inv, LockInv
  <2>2. CASE SendPanics(c)  BY <2>2, <1>1, <1>2 DEF SendPanics, Goto, Inv, LockInv
  <2>3. CASE RLock(c)  BY <2>3, <1>1, <1>2 DEF RLock, Goto, Inv, LockInv
  <2>4. CASE AsyncAccepted(c)
    <3>1. \A k \in Closer : closer[k] \notin {"drain", "done"}
      BY <2>4 DEF AsyncAccepted, Inv, LockInv
    <3> QED  BY <3>1, <2>4, <1>1, <1>2 DEF AsyncAccepted, Goto, Inv, LockInv
  <2>5. CASE Input(c) /\ "async" \notin open  BY <2>5, <1>1, <1>2 DEF Input, Goto, Inv, LockInv
  <2> QED  BY <2>1, <2>2, <2>3, <2>4, <2>5
<1>6. (CallInv /\ FreshInv /\ ResultInv)'  BY <1>1, <1>2, <1>3, QuietStep
<1> QED  BY <1>4, <1>5, <1>6 DEF Inv

(* Close closes the producers only with the write lock in its hands.       *)
LEMMA CloseStep ==
  ASSUME Inv, NEW k \in Closer, Close(k) \/ InClose(k)
  PROVE  Inv'
<1>1. UNCHANGED <<produced, pc, msgs, sent, readers, fate, log, callbacks>>
  BY DEF Close, InClose, Lock, AsyncClosed, SyncClosed, calls, sarama
<1>2. (CallInv /\ FreshInv /\ ResultInv)'  BY <1>1, QuietStep
<1>3. /\ closer \in [Closer -> {"idle", "nothing", "lock", "drain", "done"}]
      /\ open \subseteq {"sync", "async"} /\ closed \in BOOLEAN
  BY DEF Inv, TypeOK
<1>4. /\ closer' \in [Closer -> {"idle", "nothing", "lock", "drain", "done"}]
      /\ open' \subseteq {"sync", "async"} /\ closed' \in BOOLEAN
  BY <1>3 DEF Close, InClose, Lock, AsyncClosed, SyncClosed, sarama
<1>5. TypeOK'  BY <1>1, <1>4 DEF Inv, TypeOK
<1>6. LockInv'
  <2>1. CASE Close(k)  BY <2>1, <1>1, <1>3 DEF Close, sarama, Inv, LockInv
  <2>2. CASE Lock(k)  BY <2>2, <1>1, <1>3 DEF Lock, sarama, Inv, LockInv
  <2>3. CASE AsyncClosed(k)  BY <2>3, <1>1, <1>3 DEF AsyncClosed, Inv, LockInv
  <2>4. CASE SyncClosed(k)  BY <2>4, <1>1, <1>3 DEF SyncClosed, Inv, LockInv
  <2> QED  BY <2>1, <2>2, <2>3, <2>4 DEF InClose
<1> QED  BY <1>2, <1>5, <1>6 DEF Inv

-----------------------------------------------------------------------------
(* The invariant of the producer.                                          *)
THEOREM ProducerInvariant == Spec => []Inv
<1>1. Inv /\ [Next]_vars => Inv'
  <2> SUFFICES ASSUME Inv, [Next]_vars PROVE Inv'  OBVIOUS
  <2> USE ProducerAssumption
  <2>1. ASSUME NEW c \in Caller, BeginProduce(c) \/ BatchProduce(c) \/ BeginAsync(c) PROVE Inv'
    <3>1. CASE BeginProduce(c)  BY <3>1, BeginStep DEF BeginProduce
    <3>2. CASE BatchProduce(c)
      <4>1. PICK n \in 1..BatchSize : Begins(c, n, IF closed THEN "refused" ELSE "produce")
        BY <3>2 DEF BatchProduce
      <4>2. CASE closed  BY <4>1, <4>2, <3>2, BeginStep DEF BatchProduce
      <4>3. CASE ~ closed  BY <4>1, <4>3, <3>2, BeginStep DEF BatchProduce
      <4> QED  BY <4>2, <4>3
    <3>3. CASE BeginAsync(c)  BY <3>3, BeginStep DEF BeginAsync
    <3> QED  BY <2>1, <3>1, <3>2, <3>3
  <2>2. ASSUME NEW c \in Caller, ProduceOk(c) \/ ProduceError(c) PROVE Inv'
    <3>1. /\ pc \in [Caller -> Step] /\ sent \in [Caller -> 0..BatchSize] /\ pc[c] = "send"
      BY <2>2 DEF Inv, TypeOK, ProduceOk, ProduceError, SendMessage
    <3>2. sent[c] \in Nat /\ Len(msgs[c]) \in Nat /\ sent[c] + 1 <= Len(msgs[c])
      <4>1. sent[c] + 1 \in 1..Len(msgs[c]) /\ sent[c] \in Nat /\ Len(msgs[c]) \in Nat
        BY <3>1, CurrentIsFresh DEF Sync
      <4> QED  BY <4>1
    <3>3. CASE ProduceOk(c)
      <4>1. /\ sent' = [sent EXCEPT ![c] = sent[c] + 1] /\ sent'[c] = sent[c] + 1
            /\ log' \in {log, log \cup {Current(c)}} /\ Current(c) \in log' /\ 1 \in 0..1
            /\ UNCHANGED <<produced, msgs, readers, closed, closer, open, fate, callbacks>>
        BY <3>3, <3>1 DEF ProduceOk, SendMessage
      <4>2. CASE sent[c] + 1 < Len(msgs[c])
        <5>1. pc' = [pc EXCEPT ![c] = "produce"]  BY <3>3, <4>1, <4>2 DEF ProduceOk, Goto
        <5>2. "produce" \in {"produce", "returned", "failed"} /\ "produce" # "returned"  OBVIOUS
        <5> QED  BY <5>1, <5>2, <4>1, <4>2, <3>1, SendStep, ZenonT(30)
      <4>3. CASE sent[c] + 1 = Len(msgs[c])
        <5>1. ~ (sent'[c] < Len(msgs[c]))  BY <4>1, <4>3, <3>2
        <5>2. pc' = [pc EXCEPT ![c] = "returned"]  BY <5>1, <3>3 DEF ProduceOk, Goto
        <5>3. "returned" \in {"produce", "returned", "failed"} /\ "produce" # "returned"  OBVIOUS
        <5> QED  BY <5>2, <5>3, <4>1, <4>3, <3>1, SendStep, ZenonT(30)
      <4> QED  BY <4>2, <4>3, <3>2
    <3>4. CASE ProduceError(c)
      <4>1. /\ pc' = [pc EXCEPT ![c] = "failed"] /\ log' \in {log, log \cup {Current(c)}}
            /\ UNCHANGED <<produced, msgs, sent, readers, closed, closer, open, fate, callbacks>>
        BY <3>4 DEF ProduceError, SendMessage, Goto
      <4>2. sent' = [sent EXCEPT ![c] = sent[c] + 0]  BY <4>1, <3>1, <3>2
      <4>3. /\ "failed" \in {"produce", "returned", "failed"} /\ 0 \in 0..1 /\ 0 # 1
            /\ "failed" # "produce" /\ "failed" # "returned"
        OBVIOUS
      <4> QED  BY <4>1, <4>2, <4>3, <3>1, SendStep, ZenonT(30)
    <3> QED  BY <2>2, <3>3, <3>4
  <2>3. ASSUME NEW c \in Caller, AsyncRefused(c) PROVE Inv'
    BY <2>3, AsyncStep DEF AsyncRefused, Goto, sarama
  <2>4. ASSUME NEW c \in Caller, Input(c) PROVE Inv'
    <3>1. CASE "async" \in open  BY <2>4, <3>1, AsyncStep DEF Input, Goto
    <3>2. CASE "async" \notin open  BY <2>4, <3>2, QuietCallStep
    <3> QED  BY <3>1, <3>2
  <2>5. ASSUME NEW m \in Message, InSarama(m) \/ InHandler(m) PROVE Inv'
    <3>1. /\ fate[m] \in {"inflight", "success", "error"} => callbacks[m] = <<>>
          /\ fate[m] = "success" => m \in log
          /\ callbacks \in [Message -> Seq({"nil", "error", "closed"})]
      BY DEF Inv, TypeOK, ResultInv
    <3>2. Append(<<>>, "nil") = <<"nil">> /\ Append(<<>>, "error") = <<"error">>
          /\ <<"nil">> # <<>> /\ <<"error">> # <<>> /\ <<"error">> # <<"nil">>
      OBVIOUS
    <3>3. CASE Acknowledged(m)
      <4>1. callbacks' = [callbacks EXCEPT ![m] = <<>>]  BY <3>3, <3>1 DEF Acknowledged
      <4> QED  BY <4>1, <3>3, <3>2, SaramaStep DEF Acknowledged
    <3>4. CASE Swallow(m)
      <4>1. callbacks' = [callbacks EXCEPT ![m] = <<>>]  BY <3>4, <3>1 DEF Swallow
      <4> QED  BY <4>1, <3>4, <3>2, SaramaStep DEF Swallow
    <3>5. CASE handleAsyncSuccesses(m)
      <4>1. callbacks' = [callbacks EXCEPT ![m] = <<"nil">>]
        BY <3>5, <3>1, <3>2 DEF handleAsyncSuccesses, Calls
      <4> QED  BY <4>1, <3>5, <3>1, <3>2, SaramaStep DEF handleAsyncSuccesses
    <3>6. CASE handleAsyncErrors(m)
      <4>1. callbacks' = [callbacks EXCEPT ![m] = <<"error">>]
        BY <3>6, <3>1, <3>2 DEF handleAsyncErrors, Calls
      <4> QED  BY <4>1, <3>6, <3>1, <3>2, SaramaStep DEF handleAsyncErrors
    <3> QED  BY <2>5, <3>3, <3>4, <3>5, <3>6 DEF InSarama, InHandler
  <2>6. CASE UNCHANGED vars
    <3>1. (CallInv /\ FreshInv /\ ResultInv)'
      BY <2>6, QuietStep DEF vars, calls, sarama
    <3>2. TypeOK'  BY <2>6 DEF vars, calls, sarama, Inv, TypeOK
    <3>3. LockInv'  BY <2>6 DEF vars, calls, sarama, Inv, LockInv
    <3> QED  BY <3>1, <3>2, <3>3 DEF Inv
  <2> QED  BY <2>1, <2>2, <2>3, <2>4, <2>5, <2>6, QuietCallStep, CloseStep DEF Next, InCall
<1> QED  BY <1>1, InitInv, PTL DEF Spec

-----------------------------------------------------------------------------
(* Type correctness.                                                       *)
THEOREM TypeCorrect == Spec => []TypeOK
<1>1. Inv => TypeOK  BY DEF Inv
<1> QED  BY <1>1, ProducerInvariant, PTL

(* Close waits for the callers that hold the lock, and those that take it  *)
(* later see the flag: a caller that sends to Input() finds it open.       *)
THEOREM NobodySendsOnClosedInput == Spec => []NoSendOnClosedInput
<1>1. Inv => NoSendOnClosedInput  BY DEF Inv, LockInv, NoSendOnClosedInput
<1> QED  BY <1>1, ProducerInvariant, PTL

(* Callbacks come once and are true, and a batch is cut at its first error, *)
(* however calls, answers and Close interleave.                            *)
THEOREM ResultsAreTrue == Spec => []TrueResults
<1>1. Inv => OneTrueResult
  <2> SUFFICES ASSUME Inv, NEW m \in Message PROVE
        /\ Len(callbacks[m]) <= 1
        /\ callbacks[m] = <<"nil">> => m \in log
        /\ callbacks[m] = <<"closed">> => m \notin log /\ fate[m] = "none"
    BY DEF OneTrueResult
  <2>1. fate[m] \in {"none", "inflight", "success", "error", "answered", "swallowed"}  BY DEF Inv, TypeOK
  <2>2. callbacks[m] \in {<<>>, <<"nil">>, <<"error">>, <<"closed">>}  BY <2>1 DEF Inv, ResultInv
  <2>3. Len(callbacks[m]) <= 1
    <3>1. Len(<<>>) = 0 /\ Len(<<"nil">>) = 1 /\ Len(<<"error">>) = 1 /\ Len(<<"closed">>) = 1  OBVIOUS
    <3>2. CASE callbacks[m] = <<>>  BY <3>1, <3>2
    <3>3. CASE callbacks[m] = <<"nil">>  BY <3>1, <3>3
    <3>4. CASE callbacks[m] = <<"error">>  BY <3>1, <3>4
    <3>5. CASE callbacks[m] = <<"closed">>  BY <3>1, <3>5
    <3> QED  BY <2>2, <3>2, <3>3, <3>4, <3>5
  <2>4. <<"closed">> # <<"nil">> /\ <<"closed">> # <<"error">> /\ <<"closed">> # <<>>  OBVIOUS
  <2>5. callbacks[m] = <<"closed">> => fate[m] = "none"  BY <2>1, <2>4 DEF Inv, ResultInv
  <2> QED  BY <2>3, <2>5 DEF Inv, ResultInv
<1>2. Inv => BatchIsPrefix
  <2> SUFFICES ASSUME Inv, NEW c \in Caller, NEW i \in 1..Len(msgs[c]), NEW j \in 1..Len(msgs[c]) PROVE
        /\ (i < j /\ msgs[c][j] \in log) => msgs[c][i] \in log
        /\ (pc[c] = "returned" /\ sent[c] > 0) => msgs[c][i] \in log
    BY DEF BatchIsPrefix
  <2>1. sent[c] \in Nat /\ Len(msgs[c]) \in Nat
    <3>1. sent[c] \in 0..BatchSize /\ msgs[c] \in Seq(Message)  BY DEF Inv, TypeOK
    <3> QED  BY <3>1, ProducerAssumption, LenProperties
  <2>2. i <= sent[c] => msgs[c][i] \in log  BY DEF Inv, FreshInv
  <2>3. msgs[c][j] \in log => j <= sent[c] + 1
    <3>1. j > sent[c] + 1 => msgs[c][j] \notin log  BY DEF Inv, FreshInv, Fresh
    <3> QED  BY <3>1, <2>1
  <2>4. (pc[c] = "returned" /\ sent[c] > 0) => sent[c] = Len(msgs[c])  BY DEF Inv, CallInv
  <2> QED  BY <2>1, <2>2, <2>3, <2>4
<1>3. Inv => TrueResults  BY <1>1, <1>2 DEF TrueResults
<1> QED  BY <1>3, ProducerInvariant, PTL
=============================================================================
