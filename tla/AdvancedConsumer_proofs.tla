----------------------- MODULE AdvancedConsumer_proofs -----------------------
(***************************************************************************)
(* No record is lost silently, for any number of messages, consumers,      *)
(* retries, failures, crashes and expelled handlers, and any batch size.   *)
(***************************************************************************)
EXTENDS AdvancedConsumer, TLAPS

Failing(c) == phase[c] \in {"failing", "resorting"}

(* The last record the session of c has dealt with.                        *)
Settled(c) == IF Failing(c) THEN next[c] - 1 ELSE marked[c]

Bounds(c) == /\ marked[c] <= taken[c] /\ taken[c] <= Len(log)
             /\ Failing(c) => marked[c] < next[c] /\ next[c] <= taken[c] + 1
             /\ phase[c] = "resorting" => next[c] <= taken[c] /\ failures > 0

(* The inductive invariant: what is committed, and what any session has    *)
(* settled, is accounted for, from the group's start on.                   *)
LossInv ==
  /\ TypeOK
  /\ committed <= Len(log) /\ first <= Len(log)
  /\ \A c \in Consumer : Bounds(c)
  /\ \A o \in (first + 1)..committed : Accounted(o)
  /\ \A c \in Consumer : \A o \in (first + 1)..Settled(c) : Accounted(o)
  /\ failures = 0 => \A r \in dlq : r.count = MaxRetries

(* No step takes a record, a DLQ entry or a note away.                     *)
Extends == /\ log' = log \/ \E r \in Record : log' = Append(log, r)
           /\ dlq \subseteq dlq'
           /\ done \subseteq done'

-----------------------------------------------------------------------------
(* Records are only appended to the log.                                   *)
LEMMA LogGrows ==
  ASSUME TypeOK, Extends
  PROVE  /\ Len(log') \in Nat /\ Len(log) \in Nat /\ Len(log) <= Len(log')
         /\ log' \in Seq(Record)
         /\ \A o \in DOMAIN log : o \in DOMAIN log' /\ log'[o] = log[o]
<1>0. log \in Seq(Record) /\ DOMAIN log = 1..Len(log) /\ Len(log) \in Nat  BY DEF TypeOK
<1>1. CASE log' = log  BY <1>0, <1>1
<1>2. CASE \E r \in Record : log' = Append(log, r)
  <2>1. PICK r \in Record : log' = Append(log, r)  BY <1>2
  <2>2. /\ log' \in Seq(Record) /\ Len(log') = Len(log) + 1
        /\ \A o \in 1..Len(log) : log'[o] = log[o]
    BY <2>1, <1>0
  <2>3. DOMAIN log' = 1..Len(log')  BY <2>2
  <2> QED  BY <1>0, <2>2, <2>3
<1> QED  BY <1>1, <1>2 DEF Extends

(* A record that is accounted for stays so.                                *)
LEMMA AccountedStays ==
  ASSUME TypeOK, Extends, NEW o \in DOMAIN log, Accounted(o)
  PROVE  Accounted(o)'
<1>1. \A p \in DOMAIN log : p \in DOMAIN log' /\ log'[p] = log[p]  BY LogGrows
<1>2. ASSUME Republished(o) PROVE Republished(o)'
  BY <1>1, <1>2 DEF Republished
<1>3. ASSUME InDLQ(log[o]) PROVE InDLQ(log[o])'
  BY <1>1, <1>3 DEF InDLQ, Extends
<1> QED  BY <1>2, <1>3 DEF Accounted, Extends

(* The session of c settles only what the step has accounted for.          *)
SettlesAccounted(c) ==
  \/ Settled(c)' \in {0, Settled(c), committed, first'}
  \/ /\ Settled(c)' \in Nat /\ Settled(c)' <= Len(log)
     /\ \A o \in 1..Settled(c)' : o > Settled(c) => Accounted(o)'

(* A step that only adds, keeps every session that it leaves alone, and    *)
(* settles nothing it has not accounted for, keeps the invariant.          *)
LEMMA StepKeeps ==
  ASSUME LossInv, Extends, TypeOK',
         first' = first \/ first' = Len(log),
         \/ committed' = committed
         \/ committed' = first'
         \/ \E c \in Consumer : committed' = marked[c],
         \A c \in Consumer : Bounds(c)',
         \A c \in Consumer : SettlesAccounted(c),
         failures' = 0 => \A r \in dlq' : r.count = MaxRetries
  PROVE  LossInv'
<1> DEFINE f == first'
<1> DEFINE g == committed'
<1>0. /\ Len(log) \in Nat /\ Len(log') \in Nat /\ Len(log) <= Len(log')
      /\ committed \in Nat /\ first \in Nat /\ f \in Nat
      /\ first <= Len(log) /\ committed <= Len(log) /\ (f = first \/ f = Len(log))
  BY LogGrows DEF LossInv, TypeOK
<1>a. g = committed \/ g = f \/ \E c \in Consumer : g = marked[c]
  OBVIOUS
<1>b. \A c \in Consumer :
        \/ Settled(c)' \in {0, Settled(c), committed, f}
        \/ /\ Settled(c)' \in Nat /\ Settled(c)' <= Len(log)
           /\ \A o \in 1..Settled(c)' : o > Settled(c) => Accounted(o)'
  BY DEF SettlesAccounted
<1> HIDE DEF f, g
<1>1. first <= f /\ f <= Len(log)
  BY <1>0
<1>2. \A o \in 1..Len(log) : Accounted(o) => Accounted(o)'
  BY AccountedStays DEF LossInv, TypeOK
<1>3. \A c \in Consumer : /\ Settled(c) \in Nat /\ Settled(c) <= Len(log)
                          /\ marked[c] \in Nat /\ marked[c] <= Settled(c)
  <2> TAKE c \in Consumer
  <2>1. Bounds(c) /\ marked[c] \in Nat /\ next[c] \in Nat /\ taken[c] \in Nat
    BY DEF LossInv, TypeOK
  <2> QED  BY <2>1, <1>0 DEF Bounds, Settled
<1>4. ASSUME NEW k \in Nat, k <= Len(log), \A o \in (first + 1)..k : Accounted(o)
      PROVE  \A o \in (f + 1)..k : Accounted(o)'
  <2> SUFFICES ASSUME NEW o \in (f + 1)..k PROVE Accounted(o)'
    OBVIOUS
  <2>1. o \in (first + 1)..k /\ o \in 1..Len(log)
    BY <1>0, <1>1, <1>4
  <2> QED  BY <2>1, <1>2, <1>4
<1>5. \A c \in Consumer : \A o \in (f + 1)..Settled(c) : Accounted(o)'
  BY <1>3, <1>4 DEF LossInv
<1>6. \A o \in (f + 1)..committed : Accounted(o)'
  BY <1>0, <1>4 DEF LossInv
<1>7. g <= Len(log') /\ \A o \in (f + 1)..g : Accounted(o)'
  <2>1. CASE g = committed
    BY <2>1, <1>0, <1>6
  <2>2. CASE g = f
    BY <2>2, <1>0, <1>1
  <2>3. CASE \E c \in Consumer : g = marked[c]
    <3>1. PICK c \in Consumer : g = marked[c]  BY <2>3
    <3>2. \A o \in (f + 1)..marked[c] : o \in (f + 1)..Settled(c)
      BY <1>0, <1>3
    <3> QED  BY <3>1, <3>2, <1>0, <1>3, <1>5
  <2> QED  BY <1>a, <2>1, <2>2, <2>3
<1>8. \A c \in Consumer : \A o \in (f + 1)..Settled(c)' : Accounted(o)'
  <2> SUFFICES ASSUME NEW c \in Consumer, NEW o \in (f + 1)..Settled(c)'
               PROVE  Accounted(o)'
    OBVIOUS
  <2>1. CASE Settled(c)' \in {0, f}  BY <2>1, <1>0
  <2>2. CASE Settled(c)' = Settled(c)
    BY <2>2, <1>5
  <2>3. CASE Settled(c)' = committed
    BY <2>3, <1>6
  <2>4. CASE /\ Settled(c)' \in Nat /\ Settled(c)' <= Len(log)
             /\ \A p \in 1..Settled(c)' : p > Settled(c) => Accounted(p)'
    <3>1. CASE o > Settled(c)  BY <2>4, <3>1, <1>0
    <3>2. CASE ~(o > Settled(c))
      <4>1. o \in (f + 1)..Settled(c)  BY <3>2, <2>4, <1>0, <1>3
      <4> QED  BY <4>1, <1>5
    <3> QED  BY <3>1, <3>2
  <2> QED  BY <1>b, <2>1, <2>2, <2>3, <2>4
<1>9. f <= Len(log')
  BY <1>0, <1>1
<1> QED  BY <1>7, <1>8, <1>9 DEF LossInv, f, g

(* A session that a step leaves alone keeps its bounds.                    *)
LEMMA OthersKeep ==
  ASSUME LossInv, Extends, failures' >= failures, failures' \in Nat, NEW d \in Consumer,
         marked'[d] = marked[d], taken'[d] = taken[d], next'[d] = next[d], phase'[d] = phase[d]
  PROVE  Bounds(d)' /\ Settled(d)' = Settled(d)
<1>1. Len(log) \in Nat /\ Len(log') \in Nat /\ Len(log) <= Len(log')
  BY LogGrows DEF LossInv
<1>2. Bounds(d) /\ taken[d] \in Nat /\ failures \in Nat  BY DEF LossInv, TypeOK
<1> QED  BY <1>1, <1>2 DEF Bounds, Settled, Failing

(* A new message disturbs nothing that was settled before.                 *)
LEMMA PublishKeeps ==
  ASSUME LossInv, NEW m \in Msg, Publish(m)
  PROVE  LossInv' /\ Extends /\ UNCHANGED <<committed, first>>
<1> USE DEF Publish, group, session
<1>1. [msg |-> m, count |-> 0] \in Record  BY ConsumerAssumption DEF Record
<1>2. Extends  BY <1>1 DEF Extends
<1>3. TypeOK'  BY <1>2, LogGrows DEF LossInv, TypeOK
<1>4. \A d \in Consumer : Bounds(d)' /\ Settled(d)' = Settled(d)
  <2> TAKE d \in Consumer
  <2>1. failures \in Nat  BY DEF LossInv, TypeOK
  <2> QED  BY <1>2, <2>1, OthersKeep
<1>5. failures' = 0 => \A r \in dlq' : r.count = MaxRetries  BY DEF LossInv
<1> QED  BY <1>2, <1>3, <1>4, <1>5, StepKeeps DEF SettlesAccounted

(* The group commits only marks, and gives a claim what is committed.      *)
LEMMA GroupKeeps ==
  ASSUME LossInv, NEW c \in Consumer, Group(c)
  PROVE  LossInv' /\ Extends
<1> USE DEF group, session, EndSession, Revoke
<1>1. Extends /\ failures' = failures /\ dlq' = dlq /\ log' = log
  BY DEF Group, Join, Commit, Leave, Expel, Crash, Extends
<1>2. TypeOK'
  <2>0. TypeOK /\ marked[c] \in Nat  BY DEF LossInv, TypeOK
  <2>1. CASE Join(c)
    <3>1. committed' \in Nat /\ first' \in Nat
      BY <2>0, <2>1 DEF Join, Resume, TypeOK
    <3> QED BY <2>0, <2>1, <3>1 DEF Join, TypeOK
  <2>2. CASE Commit(c)  BY <2>0, <2>2 DEF Commit, TypeOK
  <2>3. CASE Leave(c)  BY <2>0, <2>3 DEF Leave, TypeOK
  <2>4. CASE Expel(c)  BY <2>0, <2>4 DEF Expel, TypeOK
  <2>5. CASE Crash(c)  BY <2>0, <2>5 DEF Crash, TypeOK
  <2> QED  BY <2>1, <2>2, <2>3, <2>4, <2>5 DEF Group
<1>3. \/ UNCHANGED session
      \/ /\ phase'[c] \in {"none", "idle"} /\ marked'[c] = taken'[c]
         /\ marked'[c] \in {0, committed, first'}
         /\ \A d \in Consumer \ {c} : /\ marked'[d] = marked[d] /\ taken'[d] = taken[d]
                                      /\ next'[d] = next[d] /\ phase'[d] = phase[d]
  <2>0. /\ phase \in [Consumer -> {"none", "idle", "processing", "failing", "resorting"}]
        /\ marked \in [Consumer -> Nat] /\ taken \in [Consumer -> Nat]
        /\ next \in [Consumer -> Nat]
    BY DEF LossInv, TypeOK
  <2>1. CASE Join(c)  BY <2>0, <2>1 DEF Join, Resume
  <2>2. CASE Leave(c)  BY <2>0, <2>2 DEF Leave
  <2>3. CASE Crash(c)  BY <2>0, <2>3 DEF Crash
  <2>4. CASE Commit(c) \/ Expel(c)  BY <2>4 DEF Commit, Expel
  <2> QED  BY <2>1, <2>2, <2>3, <2>4 DEF Group
<1>5. /\ first' = first \/ first' = Len(log)
      /\ committed' = committed \/ committed' = first' \/ committed' = marked[c]
  BY DEF Group, Join, Resume, Commit, Leave, Expel, Crash
<1>4. \A d \in Consumer : Bounds(d)' /\ Settled(d)' \in {0, Settled(d), committed, first'}
  <2> TAKE d \in Consumer
  <2>1. /\ failures \in Nat /\ committed \in Nat /\ committed <= Len(log) /\ Len(log) \in Nat
        /\ first \in Nat /\ first <= Len(log)
    BY DEF LossInv, TypeOK
  <2>2. CASE UNCHANGED session \/ d # c
    BY <1>1, <1>3, <2>1, <2>2, OthersKeep
  <2>3. CASE ~UNCHANGED session /\ d = c
    BY <1>1, <1>3, <1>5, <2>1, <2>3 DEF Bounds, Settled, Failing
  <2> QED  BY <2>2, <2>3
<1>6. failures' = 0 => \A r \in dlq' : r.count = MaxRetries  BY <1>1 DEF LossInv
<1> QED  BY <1>1, <1>2, <1>4, <1>5, <1>6, StepKeeps DEF SettlesAccounted

(* Receiving, processing, marking and returning.                           *)
LEMMA BatchKeeps ==
  ASSUME LossInv, NEW c \in Consumer,
         Receive(c) \/ ProcessOk(c) \/ ProcessError(c) \/ MarkFailed(c) \/ Return(c)
  PROVE  LossInv' /\ Extends /\ UNCHANGED <<committed, first>>
<1> USE DEF group, session, Mark, EndSession
<1>0. /\ marked[c] \in Nat /\ taken[c] \in Nat /\ next[c] \in Nat /\ Bounds(c)
      /\ failures \in Nat /\ Len(log) \in Nat
  BY DEF LossInv, TypeOK
<1>1. /\ Extends /\ failures' = failures /\ dlq' = dlq /\ log' = log
      /\ UNCHANGED <<committed, first>>
  BY DEF Receive, ProcessOk, ProcessError, MarkFailed, Return, Extends
<1>2. \A d \in Consumer \ {c} : Bounds(d)' /\ Settled(d)' = Settled(d)
  <2> TAKE d \in Consumer \ {c}
  <2>1. /\ marked'[d] = marked[d] /\ taken'[d] = taken[d] /\ next'[d] = next[d]
        /\ phase'[d] = phase[d]
    BY DEF Receive, ProcessOk, ProcessError, MarkFailed, Return, LossInv, TypeOK
  <2> QED  BY <1>0, <1>1, <2>1, OthersKeep
<1>3. failures' = 0 => \A r \in dlq' : r.count = MaxRetries  BY <1>1 DEF LossInv
<1>4. CASE Receive(c)
  <2>1. PICK n \in 1..BatchSize :
          taken[c] + n <= Len(log) /\ taken' = [taken EXCEPT ![c] = taken[c] + n]
    BY <1>4 DEF Receive
  <2>2. n \in Nat /\ taken[c] + n \in Nat  BY <1>0, ConsumerAssumption
  <2>3. TypeOK'  BY <1>4, <2>1, <2>2 DEF Receive, LossInv, TypeOK
  <2>4. /\ taken'[c] = taken[c] + n /\ marked'[c] = marked[c] /\ phase[c] = "idle"
        /\ phase'[c] = "processing" /\ next'[c] = next[c]
    BY <1>4, <2>1 DEF Receive, LossInv, TypeOK
  <2>5. Bounds(c)' /\ Settled(c)' = Settled(c)
    BY <2>1, <2>2, <2>4, <1>0, <1>1 DEF Bounds, Settled, Failing
  <2> QED  BY <1>1, <1>2, <1>3, <2>3, <2>5, StepKeeps DEF SettlesAccounted
<1>5. CASE ProcessOk(c)
  <2>1. (marked[c] + 1)..taken[c] \subseteq Nat  BY <1>0
  <2>2. TypeOK'  BY <1>5, <2>1 DEF ProcessOk, LossInv, TypeOK
  <2>3. /\ taken'[c] = taken[c] /\ marked'[c] = taken[c] /\ phase[c] = "processing"
        /\ phase'[c] = "idle"
    BY <1>5 DEF ProcessOk, LossInv, TypeOK
  <2>4. /\ Bounds(c)' /\ Settled(c) = marked[c] /\ Settled(c)' = taken[c]
        /\ taken[c] <= Len(log)
    BY <2>3, <1>0, <1>1 DEF Bounds, Settled, Failing
  <2>5. \A o \in 1..taken[c] : o > marked[c] => Accounted(o)'
    <3> SUFFICES ASSUME NEW o \in 1..taken[c], o > marked[c] PROVE Accounted(o)'  OBVIOUS
    <3>1. o \in (marked[c] + 1)..taken[c]  BY <1>0
    <3> QED  BY <3>1, <1>5 DEF ProcessOk, Accounted
  <2> QED  BY <1>0, <1>1, <1>2, <1>3, <2>2, <2>4, <2>5, StepKeeps DEF SettlesAccounted
<1>6. CASE ProcessError(c)
  <2>1. TypeOK'  BY <1>0, <1>6 DEF ProcessError, LossInv, TypeOK
  <2>2. /\ taken'[c] = taken[c] /\ marked'[c] = marked[c] /\ phase[c] = "processing"
        /\ phase'[c] = "failing" /\ next'[c] = marked[c] + 1
    BY <1>6 DEF ProcessError, LossInv, TypeOK
  <2>3. Bounds(c)' /\ Settled(c)' = Settled(c)
    BY <2>2, <1>0, <1>1 DEF Bounds, Settled, Failing
  <2> QED  BY <1>1, <1>2, <1>3, <2>1, <2>3, StepKeeps DEF SettlesAccounted
<1>7. CASE MarkFailed(c)
  <2>1. TypeOK'  BY <1>0, <1>7 DEF MarkFailed, LossInv, TypeOK
  <2>2. /\ taken'[c] = taken[c] /\ marked'[c] = taken[c] /\ phase[c] = "failing"
        /\ phase'[c] = "idle" /\ next[c] > taken[c]
    BY <1>7 DEF MarkFailed, LossInv, TypeOK
  <2>3. Bounds(c)' /\ Settled(c)' = Settled(c)
    BY <2>2, <1>0, <1>1 DEF Bounds, Settled, Failing
  <2> QED  BY <1>1, <1>2, <1>3, <2>1, <2>3, StepKeeps DEF SettlesAccounted
<1>8. CASE Return(c)
  <2>1. TypeOK'  BY <1>8 DEF Return, LossInv, TypeOK
  <2>2. taken'[c] = 0 /\ marked'[c] = 0 /\ phase'[c] = "none"
    BY <1>8 DEF Return, LossInv, TypeOK
  <2>3. Bounds(c)' /\ Settled(c)' = 0
    BY <2>2, <1>0, <1>1 DEF Bounds, Settled, Failing
  <2> QED  BY <1>1, <1>2, <1>3, <2>1, <2>3, StepKeeps DEF SettlesAccounted
<1> QED  BY <1>4, <1>5, <1>6, <1>7, <1>8

(* The failure loop: each record it leaves behind is republished, in the   *)
(* DLQ or noted as given up.                                               *)
LEMMA SendKeeps ==
  ASSUME LossInv, NEW c \in Consumer,
         SendRetry(c) \/ SendRetryError(c) \/ SendDLQ(c) \/ SendDLQError(c) \/ Drop(c)
  PROVE  LossInv' /\ Extends /\ UNCHANGED <<committed, first>>
<1> USE DEF group, session
<1>0. /\ marked[c] \in Nat /\ taken[c] \in Nat /\ next[c] \in Nat /\ Bounds(c)
      /\ failures \in Nat /\ Len(log) \in Nat /\ TypeOK /\ DOMAIN log = 1..Len(log)
  BY DEF LossInv, TypeOK
<1>1. Failing(c) /\ next[c] <= taken[c] /\ marked[c] < next[c]
  BY <1>0 DEF SendRetry, SendRetryError, SendDLQ, SendDLQError, Drop, GivesUp, AtRecord,
              Bounds, Failing
<1>2. next[c] \in DOMAIN log /\ Current(c) \in Record
  <2>1. next[c] \in 1..Len(log)  BY <1>0, <1>1 DEF Bounds
  <2> QED  BY <2>1, <1>0 DEF Current, TypeOK
<1>3. Retryable(Current(c)) => [Current(c) EXCEPT !.count = @ + 1] \in Record
  BY <1>2, ConsumerAssumption DEF Retryable, Record
<1>4. /\ Extends /\ UNCHANGED <<committed, first>>
      /\ failures' \in Nat /\ failures' >= failures
      /\ marked' = marked /\ taken' = taken
  BY <1>0, <1>3 DEF SendRetry, SendRetryError, SendDLQ, SendDLQError, Drop, AppendRetry,
                    SendFails, ToNext, Extends
<1>5. log' \in Seq(Record) /\ Len(log') \in Nat /\ Len(log) <= Len(log')
  BY <1>0, <1>4, LogGrows
<1>6. TypeOK'
  <2>1. next[c] + 1 \in Nat  BY <1>0
  <2> QED
    BY <1>0, <1>2, <1>4, <1>5, <2>1
    DEF SendRetry, SendRetryError, SendDLQ, SendDLQError, Drop, ToNext, TypeOK
<1>7. /\ phase'[c] \in {"failing", "resorting"}
      /\ phase'[c] = "resorting" => SendRetryError(c) /\ next'[c] = next[c]
      /\ phase'[c] = "failing" => next'[c] = next[c] + 1
      /\ \A d \in Consumer \ {c} : next'[d] = next[d] /\ phase'[d] = phase[d]
  BY <1>0 DEF SendRetry, SendRetryError, SendDLQ, SendDLQError, Drop, ToNext, TypeOK
<1>8. \A d \in Consumer \ {c} : Bounds(d)' /\ Settled(d)' = Settled(d)
  BY <1>4, <1>7, OthersKeep
<1>9. Bounds(c)'
  <2>1. phase'[c] = "resorting" => failures' > 0
    BY <1>0, <1>7 DEF SendRetryError, SendFails
  <2> QED  BY <2>1, <1>0, <1>1, <1>4, <1>5, <1>7 DEF Bounds, Failing
<1>10. PICK k \in Nat : k = next[c]  BY <1>0
<1>11. phase'[c] = "failing" => Accounted(k)'
  <2> SUFFICES ASSUME phase'[c] = "failing" PROVE Accounted(k)'  OBVIOUS
  <2>1. log'[k] = log[k] /\ log[k] = Current(c)
    BY <1>0, <1>2, <1>4, <1>10, LogGrows DEF Current
  <2>2. CASE SendRetry(c)
    <3>1. log' = Append(log, [Current(c) EXCEPT !.count = Current(c).count + 1])
      BY <2>2 DEF SendRetry, AppendRetry
    <3>2. [Current(c) EXCEPT !.count = Current(c).count + 1] \in Record
      BY <2>2, <1>3 DEF SendRetry
    <3>3. /\ Len(log) + 1 \in DOMAIN log' /\ Len(log) + 1 > k
          /\ log'[Len(log) + 1] = [Current(c) EXCEPT !.count = Current(c).count + 1]
      <4>1. k <= Len(log)  BY <1>0, <1>2, <1>10
      <4>2. log \in Seq(Record)  BY <1>0 DEF TypeOK
      <4> QED  BY <3>1, <3>2, <4>1, <4>2, <1>0
    <3>4. Republished(k)'  BY <3>3, <2>1 DEF Republished
    <3> QED  BY <3>4 DEF Accounted
  <2>3. CASE SendRetryError(c)  BY <2>3, <1>0 DEF SendRetryError, TypeOK
  <2>4. CASE SendDLQ(c)
    <3>1. Current(c) \in dlq'  BY <2>4 DEF SendDLQ
    <3> QED  BY <2>1, <3>1 DEF Accounted, InDLQ
  <2>5. CASE SendDLQError(c)  BY <2>5, <1>10 DEF SendDLQError, Accounted
  <2>6. CASE Drop(c)  BY <2>6, <1>10 DEF Drop, Accounted
  <2> QED  BY <2>2, <2>3, <2>4, <2>5, <2>6
<1>12. \/ Settled(c)' = Settled(c)
       \/ /\ Settled(c)' \in Nat /\ Settled(c)' <= Len(log)
          /\ \A o \in 1..Settled(c)' : o > Settled(c) => Accounted(o)'
  <2>1. CASE phase'[c] = "resorting"  BY <2>1, <1>1, <1>7 DEF Settled, Failing
  <2>2. CASE phase'[c] = "failing"
    <3>1. Settled(c)' = k /\ Settled(c) = k - 1 /\ k <= Len(log)
      BY <2>2, <1>0, <1>1, <1>7, <1>10 DEF Settled, Failing, Bounds
    <3>2. \A o \in 1..k : o > k - 1 => o = k  BY <1>10
    <3> QED  BY <3>1, <3>2, <2>2, <1>11
  <2> QED  BY <2>1, <2>2, <1>7
<1>13. failures' = 0 => \A r \in dlq' : r.count = MaxRetries
  <2> SUFFICES ASSUME failures' = 0, NEW r \in dlq' PROVE r.count = MaxRetries
    OBVIOUS
  <2>1. failures = 0  BY <1>0, <1>4
  <2>2. CASE r \in dlq  BY <2>1, <2>2 DEF LossInv
  <2>3. CASE r \notin dlq
    <3>1. SendDLQ(c) /\ r = Current(c)
      BY <2>1, <2>3, <1>0 DEF SendRetry, SendRetryError, SendDLQ, SendDLQError, Drop, SendFails
    <3>2. ~Retryable(r)  BY <3>1, <2>1, <1>0 DEF SendDLQ, GivesUp, Bounds
    <3>3. r.count \in 0..MaxRetries  BY <3>1, <1>2 DEF Record
    <3> QED  BY <3>2, <3>3, ConsumerAssumption DEF Retryable
  <2> QED  BY <2>2, <2>3
<1> QED  BY <1>4, <1>6, <1>8, <1>9, <1>12, <1>13, StepKeeps DEF SettlesAccounted

-----------------------------------------------------------------------------
(* Every action of the consumer and the group keeps the invariant.         *)
LEMMA LossInvInductive == Spec => []LossInv
<1>1. Init => LossInv
  <2> SUFFICES ASSUME Init PROVE LossInv  OBVIOUS
  <2>1. TypeOK  BY DEF Init, TypeOK
  <2>2. Len(log) = 0  BY DEF Init
  <2>3. \A c \in Consumer : Bounds(c) /\ Settled(c) = 0
    BY <2>2 DEF Init, Bounds, Settled, Failing
  <2> QED  BY <2>1, <2>2, <2>3 DEF Init, LossInv
<1>2. LossInv /\ [Next]_vars => LossInv'
  <2> SUFFICES ASSUME LossInv, [Next]_vars PROVE LossInv'  OBVIOUS
  <2>1. CASE \E m \in Msg : Publish(m)  BY <2>1, PublishKeeps
  <2>2. CASE \E c \in Consumer : Group(c)  BY <2>2, GroupKeeps
  <2>3. CASE \E c \in Consumer : Handler(c)
    <3>1. PICK c \in Consumer : Handler(c)  BY <2>3
    <3>2. CASE Receive(c) \/ ProcessOk(c) \/ ProcessError(c) \/ MarkFailed(c) \/ Return(c)
      BY <3>2, BatchKeeps
    <3>3. CASE SendRetry(c) \/ SendRetryError(c) \/ SendDLQ(c) \/ SendDLQError(c) \/ Drop(c)
      BY <3>3, SendKeeps
    <3> QED  BY <3>1, <3>2, <3>3 DEF Handler
  <2>4. CASE UNCHANGED vars
    <3>1. UNCHANGED <<log, dlq, committed, first, owner, phase, marked, taken, next, failures,
                      revocations, done>>
      BY <2>4 DEF vars, group, session
    <3>2. \A o \in Nat : Accounted(o)' = Accounted(o)
      BY <3>1 DEF Accounted, Republished, InDLQ
    <3>3. \A c \in Consumer : Bounds(c)' = Bounds(c) /\ Settled(c)' = Settled(c)
      BY <3>1 DEF Bounds, Settled, Failing
    <3> QED  BY <3>1, <3>2, <3>3 DEF LossInv, TypeOK
  <2> QED  BY <2>1, <2>2, <2>3, <2>4 DEF Next
<1> QED  BY <1>1, <1>2, PTL DEF Spec

(* Type correctness.                                                       *)
THEOREM TypeCorrect == Spec => []TypeOK
<1>1. LossInv => TypeOK  BY DEF LossInv
<1> QED  BY <1>1, LossInvInductive, PTL

(* A record the group has passed for good since it started was processed,  *)
(* republished, sent to the DLQ, or its DLQ send failed: sendRetry and     *)
(* sendDLQ come before MarkMessage on every path.  Records from before the *)
(* start, the first commit's owner's first position, are not promised: the *)
(* group never saw them, or an owner that never committed did.             *)
THEOREM NoRecordLostSilently == Spec => []NoSilentLoss
<1>1. LossInv => NoSilentLoss  BY DEF LossInv, NoSilentLoss
<1> QED  BY <1>1, LossInvInductive, PTL

-----------------------------------------------------------------------------
(* No retry is sent twice.                                                 *)

RetryOf(r) == [r EXCEPT !.count = @ + 1]

(* The last record a retry of which the session of c may have sent.        *)
Sent(c) == IF phase[c] = "resorting" THEN next[c] ELSE Settled(c)

(* While no ownership was taken away one consumer has done all the work,   *)
(* and every retry in the log is that of a record it has passed.           *)
OnceInv ==
  revocations = 0 =>
    /\ \A c \in Consumer : phase[c] # "none" => owner = c
    /\ \A o, p \in DOMAIN log : log[o] = log[p] => o = p
    /\ \A p \in DOMAIN log : log[p].count > 0 =>
         \E c \in Consumer : owner = c /\
           \E o \in DOMAIN log : o <= Sent(c) /\ log[p] = RetryOf(log[o])

(* Two records with the same retry are the same.                           *)
LEMMA RetryInjective ==
  ASSUME NEW r \in Record, NEW t \in Record, RetryOf(r) = RetryOf(t)
  PROVE  r = t
<1>1. /\ RetryOf(r).msg = r.msg /\ RetryOf(r).count = r.count + 1
      /\ RetryOf(t).msg = t.msg /\ RetryOf(t).count = t.count + 1
  BY DEF RetryOf, Record
<1>2. r.msg = t.msg /\ r.count = t.count
  <2>1. r.count \in Nat /\ t.count \in Nat
    BY ConsumerAssumption DEF Record
  <2> QED BY <1>1, <2>1
<1> QED BY <1>2 DEF Record

(* Where a session is, in numbers.                                         *)
LEMMA SentNat ==
  ASSUME LossInv, NEW c \in Consumer
  PROVE  Sent(c) \in Nat
<1>1. marked[c] \in Nat /\ next[c] \in Nat /\ Bounds(c)
  BY DEF LossInv, TypeOK
<1> QED BY <1>1 DEF Sent, Settled, Bounds, Failing

(* A step with the same owner, whose session only moves on, and that adds  *)
(* at most a record nobody added before.                                   *)
LEMMA OnceKeeps ==
  ASSUME LossInv, OnceInv, revocations = 0, owner' = owner,
         \A c \in Consumer : phase'[c] # "none" => owner = c,
         \A c \in Consumer : owner = c => Sent(c)' \in Nat /\ Sent(c) <= Sent(c)',
         \/ log' = log
         \/ \E r \in Record :
              /\ log' = Append(log, r) /\ \A p \in DOMAIN log : log[p] # r
              /\ r.count > 0 => \E c \in Consumer : owner = c /\
                   \E o \in DOMAIN log : o <= Sent(c)' /\ r = RetryOf(log[o])
  PROVE  OnceInv'
<1>1. /\ log \in Seq(Record) /\ DOMAIN log = 1..Len(log) /\ Len(log) \in Nat
      /\ \A o, p \in DOMAIN log : log[o] = log[p] => o = p
      /\ \A p \in DOMAIN log : log[p].count > 0 =>
           \E c \in Consumer : owner = c /\
             \E o \in DOMAIN log : o <= Sent(c) /\ log[p] = RetryOf(log[o])
  BY DEF LossInv, TypeOK, OnceInv
<1>2. ASSUME NEW p \in DOMAIN log, log[p].count > 0
      PROVE  \E c \in Consumer : owner = c /\
               \E o \in DOMAIN log : o <= Sent(c)' /\ log[p] = RetryOf(log[o])
  <2>1. PICK c \in Consumer :
          owner = c /\ \E o \in DOMAIN log : o <= Sent(c) /\ log[p] = RetryOf(log[o])
    BY <1>1, <1>2
  <2>2. PICK o \in DOMAIN log : o <= Sent(c) /\ log[p] = RetryOf(log[o])
    BY <2>1
  <2>3. o <= Sent(c)'
    BY <1>1, <2>1, <2>2, SentNat
  <2> QED BY <2>1, <2>2, <2>3
<1>3. CASE log' = log
  BY <1>1, <1>2, <1>3 DEF OnceInv
<1>4. ASSUME NEW r \in Record, log' = Append(log, r), \A p \in DOMAIN log : log[p] # r,
             r.count > 0 => \E c \in Consumer : owner = c /\
               \E o \in DOMAIN log : o <= Sent(c)' /\ r = RetryOf(log[o])
      PROVE  OnceInv'
  <2> DEFINE n == Len(log) + 1
  <2>1. /\ DOMAIN log' = DOMAIN log \cup {n} /\ n \notin DOMAIN log /\ log'[n] = r
        /\ \A p \in DOMAIN log : log'[p] = log[p]
    <3>0. log \in Seq(Record) /\ Len(log) \in Nat /\ log' = Append(log, r)
      BY <1>1, <1>4
    <3>1. log' \in Seq(Record) /\ Len(log') = n /\ log'[n] = r
      BY <3>0
    <3>2. DOMAIN log' = 1..n
      BY <3>1
    <3>3. \A p \in 1..Len(log) : log'[p] = log[p]
      BY <3>0
    <3>4. 1..n = 1..Len(log) \cup {n} /\ n \notin 1..Len(log)
      BY <1>1
    <3> QED BY <1>1, <3>1, <3>2, <3>3, <3>4
  <2> HIDE DEF n
  <2>2. \A o, p \in DOMAIN log' : log'[o] = log'[p] => o = p
    <3> SUFFICES ASSUME NEW o \in DOMAIN log', NEW p \in DOMAIN log', log'[o] = log'[p]
                 PROVE  o = p
      OBVIOUS
    <3>1. CASE o \in DOMAIN log /\ p \in DOMAIN log
      BY <1>1, <2>1, <3>1
    <3>2. CASE o = n \/ p = n
      BY <1>4, <2>1, <3>2
    <3> QED BY <2>1, <3>1, <3>2
  <2>3. ASSUME NEW p \in DOMAIN log', log'[p].count > 0
        PROVE  \E c \in Consumer : owner' = c /\
                 \E o \in DOMAIN log' : o <= Sent(c)' /\ log'[p] = RetryOf(log'[o])
    <3>1. log'[p] = r \/ (p \in DOMAIN log /\ log'[p] = log[p])
      BY <2>1
    <3>2. PICK c \in Consumer : owner = c /\
            \E o \in DOMAIN log : o <= Sent(c)' /\ log'[p] = RetryOf(log[o])
      BY <1>2, <1>4, <2>3, <3>1
    <3> QED BY <2>1, <3>2
  <2> QED BY <2>2, <2>3 DEF OnceInv
<1> QED BY <1>3, <1>4

(* A retry about to be sent is not in the log: the records before it are   *)
(* the only ones with a retry, and they are others.                        *)
LEMMA RetryIsNew ==
  ASSUME LossInv, OnceInv, revocations = 0, NEW c \in Consumer, AtRecord(c)
  PROVE  /\ next[c] \in DOMAIN log /\ log[next[c]] \in Record
         /\ \A p \in DOMAIN log : log[p] # RetryOf(log[next[c]])
<1>1. /\ log \in Seq(Record) /\ DOMAIN log = 1..Len(log) /\ Len(log) \in Nat
      /\ next[c] \in Nat /\ marked[c] \in Nat /\ taken[c] \in Nat /\ Bounds(c)
      /\ phase[c] = "failing" /\ next[c] <= taken[c]
  BY DEF LossInv, TypeOK, AtRecord
<1>2. next[c] \in DOMAIN log /\ Sent(c) = next[c] - 1
  BY <1>1 DEF Bounds, Failing, Sent, Settled
<1>3. log[next[c]] \in Record
  BY <1>1, <1>2
<1>4. ASSUME NEW p \in DOMAIN log, log[p] = RetryOf(log[next[c]]) PROVE FALSE
  <2>1. owner = c
    BY <1>1 DEF OnceInv
  <2>2. log[p].count > 0
    <3>1. log[p].count = log[next[c]].count + 1 /\ log[next[c]].count \in Nat
      BY <1>3, <1>4, ConsumerAssumption DEF RetryOf, Record
    <3> QED BY <3>1
  <2>3. PICK o \in DOMAIN log : o <= Sent(c) /\ log[p] = RetryOf(log[o])
    BY <2>1, <2>2 DEF OnceInv
  <2>4. log[o] = log[next[c]]
    <3>1. log[o] \in Record
      BY <1>1, <2>3
    <3>2. RetryOf(log[o]) = RetryOf(log[next[c]])
      BY <1>4, <2>3
    <3> QED BY <1>3, <3>1, <3>2, RetryInjective
  <2>5. o = next[c]
    BY <1>2, <2>4 DEF OnceInv
  <2> QED BY <1>1, <1>2, <2>3, <2>5
<1> QED BY <1>2, <1>3, <1>4

(* The handler of the only consumer at work.                               *)
LEMMA OnceHandler ==
  ASSUME LossInv, OnceInv, revocations = 0, NEW c \in Consumer, Handler(c)
  PROVE  OnceInv'
<1> USE DEF group, session
<1>0. /\ phase \in [Consumer -> {"none", "idle", "processing", "failing", "resorting"}]
      /\ marked \in [Consumer -> Nat] /\ taken \in [Consumer -> Nat]
      /\ next \in [Consumer -> Nat] /\ Bounds(c)
      /\ marked[c] \in Nat /\ taken[c] \in Nat /\ next[c] \in Nat
  BY DEF LossInv, TypeOK
<1>1. owner = c /\ owner' = owner /\ ~Return(c)
  BY DEF OnceInv, Return, Handler, Receive, ProcessOk, ProcessError, SendRetry, SendRetryError, SendDLQ,
         SendDLQError, Drop, MarkFailed, GivesUp, AtRecord
<1>2. \A d \in Consumer \ {c} : phase'[d] = phase[d]
  BY <1>0, <1>1 DEF Handler, Receive, ProcessOk, ProcessError, SendRetry, SendRetryError, SendDLQ,
              SendDLQError, Drop, MarkFailed, Mark, ToNext
<1>3. \A d \in Consumer : phase'[d] # "none" => owner = d
  BY <1>1, <1>2 DEF OnceInv
<1>4. CASE Receive(c)
  <2>1. phase[c] = "idle" /\ phase'[c] = "processing" /\ marked' = marked /\ log' = log
    BY <1>0, <1>4 DEF Receive
  <2>2. Sent(c)' = Sent(c)
    BY <2>1 DEF Sent, Settled, Failing
  <2> QED BY <1>1, <1>3, <2>1, <2>2, SentNat, OnceKeeps
<1>5. CASE ProcessOk(c)
  <2>1. /\ phase[c] = "processing" /\ phase'[c] = "idle" /\ marked'[c] = taken[c] /\ log' = log
    BY <1>0, <1>5 DEF ProcessOk, Mark
  <2>2. Sent(c)' = taken[c] /\ Sent(c) = marked[c] /\ marked[c] <= taken[c]
    BY <1>0, <2>1 DEF Sent, Settled, Failing, Bounds
  <2> QED BY <1>0, <1>1, <1>3, <2>1, <2>2, OnceKeeps
<1>6. CASE ProcessError(c)
  <2>1. /\ phase[c] = "processing" /\ phase'[c] = "failing" /\ next'[c] = marked[c] + 1
        /\ marked' = marked /\ log' = log
    BY <1>0, <1>6 DEF ProcessError
  <2>2. Sent(c)' = Sent(c)
    BY <1>0, <2>1 DEF Sent, Settled, Failing
  <2> QED BY <1>1, <1>3, <2>1, <2>2, SentNat, OnceKeeps
<1>7. CASE MarkFailed(c)
  <2>1. /\ phase[c] = "failing" /\ phase'[c] = "idle" /\ marked'[c] = taken[c]
        /\ next[c] > taken[c] /\ log' = log
    BY <1>0, <1>7 DEF MarkFailed, Mark
  <2>2. Sent(c)' = taken[c] /\ Sent(c) = next[c] - 1 /\ next[c] <= taken[c] + 1
    BY <1>0, <2>1 DEF Sent, Settled, Failing, Bounds
  <2>3. Sent(c) <= Sent(c)' /\ Sent(c)' \in Nat
    BY <1>0, <2>2
  <2> QED BY <1>1, <1>3, <2>1, <2>3, OnceKeeps
<1>8. CASE SendRetry(c) \/ SendRetryError(c)
  <2>1. /\ AtRecord(c) /\ phase[c] = "failing" /\ Retryable(log[next[c]])
        /\ \/ phase'[c] = "failing" /\ next'[c] = next[c] + 1
           \/ phase'[c] = "resorting" /\ next'[c] = next[c]
        /\ log' = log \/ log' = Append(log, RetryOf(log[next[c]]))
    BY <1>0, <1>8 DEF SendRetry, SendRetryError, AppendRetry, ToNext, Current, RetryOf, AtRecord
  <2>2. Sent(c)' = next[c] /\ Sent(c) = next[c] - 1
    <3>1. Sent(c) = next[c] - 1
      BY <2>1 DEF Sent, Settled, Failing
    <3>2. CASE phase'[c] = "failing" /\ next'[c] = next[c] + 1
      BY <1>0, <3>1, <3>2 DEF Sent, Settled, Failing
    <3>3. CASE phase'[c] = "resorting" /\ next'[c] = next[c]
      BY <3>1, <3>3 DEF Sent
    <3> QED BY <2>1, <3>2, <3>3
  <2>3. /\ next[c] \in DOMAIN log /\ log[next[c]] \in Record
        /\ \A p \in DOMAIN log : log[p] # RetryOf(log[next[c]])
    BY <2>1, RetryIsNew
  <2>4. RetryOf(log[next[c]]) \in Record
    BY <2>1, <2>3, ConsumerAssumption DEF Retryable, RetryOf, Record
  <2>5. Sent(c) <= Sent(c)' /\ Sent(c)' \in Nat /\ next[c] <= Sent(c)'
    BY <1>0, <2>2
  <2>6. \/ log' = log
        \/ \E r \in Record :
             /\ log' = Append(log, r) /\ \A p \in DOMAIN log : log[p] # r
             /\ r.count > 0 => \E d \in Consumer : owner = d /\
                  \E o \in DOMAIN log : o <= Sent(d)' /\ r = RetryOf(log[o])
    <3> SUFFICES ASSUME log' = Append(log, RetryOf(log[next[c]]))
                 PROVE  \E d \in Consumer : owner = d /\
                          \E o \in DOMAIN log : o <= Sent(d)'
                                                /\ RetryOf(log[next[c]]) = RetryOf(log[o])
      BY <2>1, <2>3, <2>4
    <3> QED BY <1>1, <2>3, <2>5
  <2> QED BY <1>1, <1>3, <2>5, <2>6, OnceKeeps
<1>9. CASE SendDLQ(c) \/ SendDLQError(c) \/ Drop(c)
  <2>1. /\ Failing(c) /\ phase'[c] = "failing" /\ next'[c] = next[c] + 1 /\ log' = log
    BY <1>0, <1>9 DEF SendDLQ, SendDLQError, Drop, GivesUp, AtRecord, ToNext, Failing
  <2>2. Sent(c)' = next[c] /\ Sent(c) \in {next[c], next[c] - 1}
    BY <1>0, <2>1 DEF Sent, Settled, Failing
  <2>3. Sent(c) <= Sent(c)' /\ Sent(c)' \in Nat
    BY <1>0, <2>2
  <2> QED BY <1>1, <1>3, <2>1, <2>3, OnceKeeps
<1> QED BY <1>1, <1>4, <1>5, <1>6, <1>7, <1>8, <1>9 DEF Handler

(* A new message is another record than all before it.                     *)
LEMMA OncePublish ==
  ASSUME LossInv, OnceInv, revocations = 0, NEW m \in Msg, Publish(m)
  PROVE  OnceInv'
<1>1. PICK r : r = [msg |-> m, count |-> 0]
  OBVIOUS
<1>2. /\ log' = Append(log, r) /\ r \in Record /\ ~(r.count > 0)
      /\ UNCHANGED <<owner, phase, marked, next>>
      /\ \A p \in DOMAIN log : log[p].msg # m
  BY <1>1, ConsumerAssumption DEF Publish, Published, Record, group, session
<1>3. \A p \in DOMAIN log : log[p] # r
  BY <1>1, <1>2
<1>4. \A c \in Consumer : Sent(c)' = Sent(c) /\ Sent(c) \in Nat
  BY <1>2, SentNat DEF Sent, Settled, Failing
<1>5. \A c \in Consumer : phase'[c] # "none" => owner = c
  BY <1>2 DEF OnceInv
<1> QED BY <1>2, <1>3, <1>4, <1>5, OnceKeeps

(* The first Join finds a log without retries; a commit changes no         *)
(* session; everything else takes an ownership away.                       *)
LEMMA OnceGroup ==
  ASSUME LossInv, OnceInv, revocations = 0, NEW c \in Consumer, Group(c)
  PROVE  OnceInv'
<1> USE DEF group, session
<1>1. CASE Join(c)
  <2>1. /\ owner = NoOne /\ owner' = c /\ log' = log
        /\ \A d \in Consumer \ {c} : phase'[d] = phase[d]
    BY <1>1 DEF Join, LossInv, TypeOK
  <2>2. \A p \in DOMAIN log : ~(log[p].count > 0)
    BY <2>1, ConsumerAssumption DEF OnceInv
  <2>3. \A d \in Consumer : phase[d] = "none"
    BY <2>1, ConsumerAssumption DEF OnceInv
  <2> QED BY <2>1, <2>2, <2>3 DEF OnceInv
<1>2. CASE Commit(c)
  <2>1. UNCHANGED <<log, owner, phase, marked, next>>
    BY <1>2 DEF Commit
  <2>2. \A d \in Consumer : Sent(d)' = Sent(d) /\ Sent(d) \in Nat
    BY <2>1, SentNat DEF Sent, Settled, Failing
  <2>3. \A d \in Consumer : phase'[d] # "none" => owner = d
    BY <2>1 DEF OnceInv
  <2> QED BY <2>1, <2>2, <2>3, OnceKeeps
<1>3. CASE Leave(c) \/ Expel(c) \/ Crash(c)
  BY <1>3 DEF Leave, Expel, Crash, Revoke, OnceInv
<1> QED BY <1>1, <1>2, <1>3 DEF Group

(* Every step keeps the retries apart.                                     *)
LEMMA OnceStep ==
  ASSUME LossInv, OnceInv, [Next]_vars
  PROVE  OnceInv'
<1>1. revocations \in Nat /\ revocations' \in {revocations, revocations + 1}
  <2>1. revocations \in Nat
    BY DEF LossInv, TypeOK
  <2>2. revocations' = revocations \/ revocations' = revocations + 1
    BY DEF Next, Publish, Group, Join, Commit, Leave, Expel, Crash, Revoke, Handler, Receive,
           ProcessOk, ProcessError, SendRetry, SendRetryError, SendDLQ, SendDLQError, Drop,
           MarkFailed, Return, vars
  <2> QED BY <2>1, <2>2
<1>2. CASE revocations # 0
  <2>1. revocations' # 0
    BY <1>1, <1>2
  <2> QED BY <2>1 DEF OnceInv
<1>3. CASE revocations = 0 /\ UNCHANGED vars
  <2>1. UNCHANGED <<log, owner, phase, marked, next, revocations>>
    BY <1>3 DEF vars, group, session
  <2>2. \A d \in Consumer : Sent(d)' = Sent(d)
    BY <2>1 DEF Sent, Settled, Failing
  <2> QED BY <2>1, <2>2 DEF OnceInv
<1>4. CASE revocations = 0 /\ Next
  BY <1>4, OncePublish, OnceGroup, OnceHandler DEF Next
<1> QED BY <1>2, <1>3, <1>4

(* Retry counts stay within MaxRetries, without failed sends only messages *)
(* that had all their retries are in the DLQ, and no retry is sent twice   *)
(* as long as no ownership is taken away, whatever sends fail.             *)
THEOREM RetriesComeFirst == Spec => []RetriesBeforeDLQ
<1>1. LossInv /\ OnceInv => RetriesBeforeDLQ
  <2> SUFFICES ASSUME LossInv, OnceInv PROVE RetriesBeforeDLQ  OBVIOUS
  <2>1. \A o \in DOMAIN log : log[o] \in Record  BY DEF LossInv, TypeOK
  <2>2. \A r \in Record : r.count <= MaxRetries  BY ConsumerAssumption DEF Record
  <2> QED  BY <2>1, <2>2 DEF LossInv, OnceInv, RetriesBeforeDLQ
<1>2. Init => OnceInv
  <2> SUFFICES ASSUME Init PROVE OnceInv  OBVIOUS
  <2>1. DOMAIN log = {}  BY DEF Init
  <2> QED  BY <2>1 DEF Init, OnceInv
<1>3. LossInv /\ OnceInv /\ [Next]_vars => OnceInv'
  BY OnceStep
<1> QED  BY <1>1, <1>2, <1>3, LossInvInductive, PTL DEF Spec

-----------------------------------------------------------------------------
(* Refinement: the consumers of a group keep its offset.                   *)

(* The owner knows the offset: it is what the owner marked or was given.   *)
OwnerInv == \A c \in Consumer : owner = c => committed <= marked[c]

(* Only Join makes an owner, only the owner commits, and marks never sink  *)
(* while a session lasts.                                                  *)
LEMMA OwnerStep ==
  ASSUME LossInv, OwnerInv, [Next]_vars
  PROVE  OwnerInv'
<1> USE DEF group, session
<1>0. /\ committed \in Nat /\ marked \in [Consumer -> Nat] /\ taken \in [Consumer -> Nat]
      /\ \A d \in Consumer : marked[d] <= taken[d]
  BY DEF LossInv, TypeOK, Bounds
<1>1. ASSUME UNCHANGED <<committed, owner>>,
             \A d \in Consumer : owner = d => marked'[d] \in {marked[d], taken[d]}
      PROVE  OwnerInv'
  <2> SUFFICES ASSUME NEW d \in Consumer, owner = d PROVE committed <= marked'[d]
    BY <1>1 DEF OwnerInv
  <2>1. /\ committed <= marked[d] /\ marked[d] <= taken[d] /\ marked'[d] \in {marked[d], taken[d]}
        /\ marked[d] \in Nat /\ taken[d] \in Nat
    BY <1>0, <1>1 DEF OwnerInv
  <2> QED BY <1>0, <2>1
<1>2. CASE UNCHANGED vars
  BY <1>1, <1>2 DEF vars
<1>3. ASSUME NEW m \in Msg, Publish(m) PROVE OwnerInv'
  BY <1>1, <1>3 DEF Publish
<1>4. ASSUME NEW c \in Consumer, Handler(c) PROVE OwnerInv'
  <2>1. UNCHANGED <<committed, owner>>
    BY <1>4 DEF Handler, Receive, ProcessOk, ProcessError, SendRetry, SendRetryError, SendDLQ,
                SendDLQError, Drop, MarkFailed, Return
  <2>2. \/ marked' = marked \/ marked' = [marked EXCEPT ![c] = taken[c]]
        \/ owner # c /\ marked' = [marked EXCEPT ![c] = 0]
    BY <1>4 DEF Handler, Receive, ProcessOk, ProcessError, SendRetry, SendRetryError, SendDLQ,
                SendDLQError, Drop, MarkFailed, Mark, Return, EndSession
  <2>3. \A d \in Consumer : owner = d => marked'[d] \in {marked[d], taken[d]}
    BY <1>0, <2>2
  <2> QED BY <1>1, <2>1, <2>3
<1>5. ASSUME NEW c \in Consumer, Group(c) PROVE OwnerInv'
  <2>1. CASE Join(c)
    <3>1. marked'[c] = committed' /\ owner' = c
      BY <1>0, <2>1 DEF Join
    <3>2. committed' \in Nat
      BY <1>0, <2>1 DEF Join, Resume, LossInv, TypeOK
    <3> QED BY <3>1, <3>2 DEF OwnerInv
  <2>2. CASE Commit(c)
    <3>1. owner' = c /\ committed' = marked[c] /\ marked' = marked
      BY <2>2 DEF Commit
    <3> QED BY <1>0, <3>1 DEF OwnerInv
  <2>3. CASE Leave(c) \/ Expel(c)
    BY <2>3, ConsumerAssumption DEF Leave, Expel, OwnerInv
  <2>4. CASE Crash(c)
    <3>1. /\ committed' = committed /\ owner' = IF owner = c THEN NoOne ELSE owner
          /\ \A d \in Consumer \ {c} : marked'[d] = marked[d]
      BY <1>0, <2>4 DEF Crash, EndSession
    <3> QED BY <3>1, ConsumerAssumption DEF OwnerInv
  <2> QED BY <1>5, <2>1, <2>2, <2>3, <2>4 DEF Group
<1> QED BY <1>2, <1>3, <1>4, <1>5 DEF Next

(* A step that adds to the log or to what is accounted for settles.        *)
LEMMA AddingSettles ==
  ASSUME LossInv, Extends, TypeOK', UNCHANGED <<committed, first>>
  PROVE  Offsets!Settle
<1>1. TypeOK /\ log \in Seq(Record) /\ log' \in Seq(Record)
  BY DEF LossInv, TypeOK
<1>2. Len(log') \in {Len(log), Len(log) + 1}
  BY <1>1 DEF Extends
<1>3. AccountedFor \subseteq AccountedFor'
  <2> SUFFICES ASSUME NEW o \in DOMAIN log, Accounted(o) PROVE o \in DOMAIN log' /\ Accounted(o)'
    BY DEF AccountedFor
  <2> QED BY <1>1, LogGrows, AccountedStays
<1>4. AccountedFor' \subseteq 1..Len(log')
  BY <1>1 DEF AccountedFor
<1> QED BY <1>2, <1>3, <1>4 DEF Offsets!Settle

(* Committing the owner's marks passes what is accounted for.              *)
LEMMA CommittingPasses ==
  ASSUME LossInv, OwnerInv, NEW c \in Consumer, owner = c, committed' = marked[c],
         UNCHANGED <<log, dlq, first, done>>
  PROVE  Offsets!Pass \/ UNCHANGED Offsets!vars
<1>1. /\ marked[c] \in Nat /\ next[c] \in Nat /\ taken[c] \in Nat /\ committed \in Nat
      /\ Len(log) \in Nat /\ DOMAIN log = 1..Len(log) /\ Bounds(c)
      /\ \A o \in (first + 1)..Settled(c) : Accounted(o)
      /\ first \in Nat
  BY DEF LossInv, TypeOK
<1>2. marked[c] <= Settled(c) /\ marked[c] <= Len(log) /\ Settled(c) \in Nat
  BY <1>1 DEF Bounds, Settled
<1>3. (first + 1)..marked[c] \subseteq AccountedFor
  <2> SUFFICES ASSUME NEW o \in (first + 1)..marked[c] PROVE o \in DOMAIN log /\ Accounted(o)
    BY DEF AccountedFor
  <2>1. o \in (first + 1)..Settled(c) /\ o \in 1..Len(log)
    BY <1>1, <1>2
  <2> QED BY <1>1, <2>1
<1>4. AccountedFor' = AccountedFor
  BY DEF AccountedFor, Accounted, Republished, InDLQ
<1>5. marked[c] = committed \/ marked[c] > committed
  BY <1>1 DEF OwnerInv
<1> QED BY <1>3, <1>4, <1>5 DEF Offsets!Pass, Offsets!vars

(* Every step settles, passes or changes nothing about the offset.         *)
LEMMA StepOffsets ==
  ASSUME LossInv, LossInv', OwnerInv, [Next]_vars
  PROVE  [Offsets!Next]_(Offsets!vars)
<1> USE DEF Offsets!Next
<1>1. ASSUME Extends, UNCHANGED <<committed, first>> PROVE Offsets!Next
  BY <1>1, AddingSettles DEF LossInv
<1>2. ASSUME NEW m \in Msg, Publish(m) PROVE Offsets!Next
  BY <1>1, <1>2, PublishKeeps
<1>3. ASSUME NEW c \in Consumer, Handler(c) PROVE Offsets!Next
  BY <1>1, <1>3, BatchKeeps, SendKeeps DEF Handler
<1>4. ASSUME NEW c \in Consumer, Group(c) PROVE [Offsets!Next]_(Offsets!vars)
  <2>1. CASE Commit(c) \/ Leave(c)
    <3>1. owner = c /\ committed' = marked[c] /\ UNCHANGED <<log, dlq, first, done>>
      BY <2>1 DEF Commit, Leave
    <3> QED BY <3>1, CommittingPasses
  <2>2. CASE Expel(c) \/ Crash(c)
    <3>1. UNCHANGED <<committed, first>>
      BY <2>2 DEF Expel, Crash
    <3> QED BY <1>1, <1>4, <3>1, GroupKeeps
  <2>3. CASE Join(c)
    <3>1. UNCHANGED <<log, dlq, done>>
      BY <2>3 DEF Join
    <3>2. AccountedFor' = AccountedFor
      BY <3>1 DEF AccountedFor, Accounted, Republished, InDLQ
    <3>3. CASE Begun
      BY <2>3, <3>1, <3>2, <3>3 DEF Join, Resume, Offsets!vars
    <3>4. CASE ~Begun
      BY <2>3, <3>1, <3>2, <3>4 DEF Join, Resume, Begun, Offsets!Start, Offsets!Committed
    <3> QED BY <3>3, <3>4
  <2> QED BY <1>4, <2>1, <2>2, <2>3 DEF Group
<1>5. CASE UNCHANGED vars
  <2>1. UNCHANGED <<log, dlq, committed, first, done>>
    BY <1>5 DEF vars, group
  <2>2. AccountedFor' = AccountedFor
    BY <2>1 DEF AccountedFor, Accounted, Republished, InDLQ
  <2> QED BY <2>1, <2>2 DEF Offsets!vars
<1> QED BY <1>2, <1>3, <1>4, <1>5 DEF Next

(* The group's offset passes records only when they are accounted for and  *)
(* never goes back, whoever owned the partition, left, was expelled with a *)
(* batch in hand or crashed, for any batch size and number of retries.     *)
THEOREM AdvancedImplementsGroupOffset == Spec => ImplementsGroupOffset
<1>1. Init => OwnerInv /\ Offsets!Init
  <2> SUFFICES ASSUME Init PROVE OwnerInv /\ Offsets!Init
    OBVIOUS
  <2>1. Len(log) = 0 /\ DOMAIN log = {}
    BY DEF Init
  <2>2. AccountedFor = {}
    BY <2>1 DEF AccountedFor
  <2> QED BY <2>1, <2>2 DEF Init, OwnerInv, Offsets!Init
<1>2. LossInv /\ OwnerInv /\ [Next]_vars => OwnerInv'
  BY OwnerStep
<1>3. LossInv /\ LossInv' /\ OwnerInv /\ [Next]_vars => [Offsets!Next]_(Offsets!vars)
  BY StepOffsets
<1> QED BY <1>1, <1>2, <1>3, LossInvInductive, PTL DEF Spec, Offsets!Spec, ImplementsGroupOffset
=============================================================================
