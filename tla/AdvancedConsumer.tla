-------------------------- MODULE AdvancedConsumer --------------------------
(***************************************************************************)
(* SaramaAdvancedConsumer (mq/internal/mqsp/advanced_consumer.go) on one   *)
(* partition: consumers of a group take turns owning it, process messages  *)
(* in batches, republish what failed with a higher retry count, hand it to *)
(* the DLQ topic when its retries are used up, and mark it.  Marks become  *)
(* the group's offset only when they are committed.                        *)
(*                                                                         *)
(* consumeClaimSingle is consumeClaimBatch with a batch of one.  A crash   *)
(* or a rebalance may come between any two steps; a handler that outlives  *)
(* its ownership goes on until its session learns of it.                   *)
(*                                                                         *)
(* Offsets.Initial is left at sarama's OffsetNewest: as long as the group  *)
(* has committed nothing, each owner starts at the end of the partition.   *)
(***************************************************************************)
EXTENDS Naturals, Sequences

CONSTANTS
  Msg,           \* messages published to the topic, numbered in their order
  Consumer,      \* members of the consumer group
  NoOne,         \* the partition is not assigned
  BatchSize,     \* const batchSize of consumeClaimBatch, 1 for consumeClaimSingle
  MaxRetries,    \* maxRetries
  WithDLQ,       \* consumers configured with a dlqTopic
  MaxFailures,   \* bound: sends that fail
  MaxRevocations \* bound: crashes and ownerships taken away

ASSUME ConsumerAssumption ==
  /\ Msg \subseteq Nat /\ NoOne \notin Consumer
  /\ BatchSize \in Nat \ {0} /\ MaxRetries \in Nat /\ WithDLQ \subseteq Consumer
  /\ MaxFailures \in Nat /\ MaxRevocations \in Nat

VARIABLES
  log,         \* the partition: records with the message and its x-retry-count
  dlq,         \* records sent to the DLQ topic
  committed,   \* offset of the group: records up to it are never read again
  first,       \* history: where the group started; committed until it has committed
  owner,       \* consumer with the claim
  phase,       \* handler of each consumer: "none" outside a session, "idle",
               \* "processing", "failing", "resorting"
  marked,      \* records marked by its session
  taken,       \* records received by its session: marked + 1 .. taken is the batch
  next,        \* record of the batch the failure loop is at
  failures, revocations,
  done         \* history: records processed without error, and records given up
               \* whose DLQ send failed or had no topic

group   == <<committed, first, owner>>
session == <<phase, marked, taken, next>>
vars    == <<log, dlq, group, session, failures, revocations, done>>

Record == [msg : Msg, count : 0..MaxRetries]

Init ==
  /\ log = <<>> /\ dlq = {}
  /\ committed = 0 /\ first = 0 /\ owner = NoOne
  /\ phase = [c \in Consumer |-> "none"]
  /\ marked = [c \in Consumer |-> 0]
  /\ taken = [c \in Consumer |-> 0]
  /\ next = [c \in Consumer |-> 0]
  /\ failures = 0 /\ revocations = 0
  /\ done = {}

Published(m) == \E o \in DOMAIN log : log[o].msg = m

Publish(m) ==
  /\ ~Published(m) /\ \A k \in Msg : k < m => Published(k)
  /\ log' = Append(log, [msg |-> m, count |-> 0])
  /\ UNCHANGED <<dlq, group, session, failures, revocations, done>>

-----------------------------------------------------------------------------
(* The consumer group.                                                     *)

(* The group has a committed offset.                                       *)
Begun == committed > first

(* Where the claim of a new owner starts.                                  *)
Resume == IF Begun THEN UNCHANGED <<committed, first>>
                   ELSE committed' = Len(log) /\ first' = Len(log)

Join(c) ==
  /\ owner = NoOne /\ phase[c] = "none"
  /\ owner' = c
  /\ Resume
  /\ phase' = [phase EXCEPT ![c] = "idle"]
  /\ marked' = [marked EXCEPT ![c] = committed']
  /\ taken' = [taken EXCEPT ![c] = committed']
  /\ UNCHANGED <<log, dlq, next, failures, revocations, done>>

(* Offsets.AutoCommit.                                                     *)
Commit(c) ==
  /\ owner = c /\ marked[c] > committed
  /\ committed' = marked[c]
  /\ UNCHANGED <<log, dlq, first, owner, session, failures, revocations, done>>

Revoke ==
  /\ revocations < MaxRevocations
  /\ revocations' = revocations + 1

(* The session of c and what it knew are gone.                             *)
EndSession(c) ==
  /\ phase' = [phase EXCEPT ![c] = "none"]
  /\ marked' = [marked EXCEPT ![c] = 0]
  /\ taken' = [taken EXCEPT ![c] = 0]
  /\ next' = [next EXCEPT ![c] = 0]

(* Close, or a rebalance the handler answers in time: it returns between   *)
(* batches and the session commits its marks.                              *)
Leave(c) ==
  /\ owner = c /\ phase[c] = "idle"
  /\ Revoke
  /\ owner' = NoOne
  /\ committed' = marked[c]
  /\ EndSession(c)
  /\ UNCHANGED <<log, dlq, first, failures, done>>

(* A rebalance goes on without a handler that is busy.                     *)
Expel(c) ==
  /\ owner = c
  /\ Revoke
  /\ owner' = NoOne
  /\ UNCHANGED <<log, dlq, committed, first, session, failures, done>>

Crash(c) ==
  /\ phase[c] # "none"
  /\ Revoke
  /\ owner' = IF owner = c THEN NoOne ELSE owner
  /\ EndSession(c)
  /\ UNCHANGED <<log, dlq, committed, first, failures, done>>

-----------------------------------------------------------------------------
(* The handler.                                                            *)

(* One message is waited for, more are drained while they are there.  The  *)
(* claim's channel holds messages after the partition was lost, too.       *)
Receive(c) ==
  /\ phase[c] = "idle"
  /\ \E n \in 1..BatchSize :
       /\ taken[c] + n <= Len(log)
       /\ taken' = [taken EXCEPT ![c] = @ + n]
  /\ phase' = [phase EXCEPT ![c] = "processing"]
  /\ UNCHANGED <<log, dlq, group, marked, next, failures, revocations, done>>

Mark(c) == /\ marked' = [marked EXCEPT ![c] = taken[c]]
           /\ phase' = [phase EXCEPT ![c] = "idle"]
           /\ next' = [next EXCEPT ![c] = 0]

ProcessOk(c) ==
  /\ phase[c] = "processing"
  /\ Mark(c)
  /\ done' = done \cup (marked[c] + 1)..taken[c]
  /\ UNCHANGED <<log, dlq, group, taken, failures, revocations>>

(* Mutant: the batch is marked before its retries are sent.                *)
ProcessErrorMarks(c) ==
  /\ phase[c] = "processing"
  /\ phase' = [phase EXCEPT ![c] = "failing"]
  /\ next' = [next EXCEPT ![c] = marked[c] + 1]
  /\ marked' = [marked EXCEPT ![c] = taken[c]]
  /\ UNCHANGED <<log, dlq, group, taken, failures, revocations, done>>

ProcessError(c) ==
  /\ phase[c] = "processing"
  /\ phase' = [phase EXCEPT ![c] = "failing"]
  /\ next' = [next EXCEPT ![c] = marked[c] + 1]
  /\ UNCHANGED <<log, dlq, group, marked, taken, failures, revocations, done>>

AtRecord(c) == phase[c] = "failing" /\ next[c] <= taken[c]

(* Mutant: one retry too few.                                              *)
retryableBelow(r) == r.count + 1 < MaxRetries

Retryable(r) == r.count < MaxRetries
Current(c)   == log[next[c]]

ToNext(c) == /\ next' = [next EXCEPT ![c] = @ + 1]
             /\ phase' = [phase EXCEPT ![c] = "failing"]

AppendRetry(r) == log' = Append(log, [r EXCEPT !.count = @ + 1])

SendFails == failures < MaxFailures /\ failures' = failures + 1

SendRetry(c) ==
  /\ AtRecord(c) /\ Retryable(Current(c))
  /\ AppendRetry(Current(c))
  /\ ToNext(c)
  /\ UNCHANGED <<dlq, group, marked, taken, failures, revocations, done>>

(* A send that reports an error may have reached the broker all the same.  *)
SendRetryError(c) ==
  /\ AtRecord(c) /\ Retryable(Current(c))
  /\ SendFails
  /\ AppendRetry(Current(c)) \/ UNCHANGED log
  /\ phase' = [phase EXCEPT ![c] = "resorting"]
  /\ UNCHANGED <<dlq, group, marked, taken, next, revocations, done>>

(* The retries are used up, or the retry could not be sent.                *)
GivesUp(c) == (AtRecord(c) /\ ~Retryable(Current(c))) \/ phase[c] = "resorting"

SendDLQ(c) ==
  /\ GivesUp(c) /\ c \in WithDLQ
  /\ dlq' = dlq \cup {Current(c)}
  /\ ToNext(c)
  /\ UNCHANGED <<log, group, marked, taken, failures, revocations, done>>

(* The error of the send is not looked at.                                 *)
SendDLQError(c) ==
  /\ GivesUp(c) /\ c \in WithDLQ
  /\ SendFails
  /\ dlq' = dlq \cup {Current(c)} \/ UNCHANGED dlq
  /\ done' = done \cup {next[c]}
  /\ ToNext(c)
  /\ UNCHANGED <<log, group, marked, taken, revocations>>

Drop(c) ==
  /\ GivesUp(c) /\ c \notin WithDLQ
  /\ done' = done \cup {next[c]}
  /\ ToNext(c)
  /\ UNCHANGED <<log, dlq, group, marked, taken, failures, revocations>>

(* Mutant: failed messages are not marked.                                 *)
LeaveUnmarked(c) ==
  /\ phase[c] = "failing" /\ next[c] > taken[c]
  /\ phase' = [phase EXCEPT ![c] = "idle"]
  /\ UNCHANGED <<log, dlq, group, marked, taken, next, failures, revocations, done>>

MarkFailed(c) ==
  /\ phase[c] = "failing" /\ next[c] > taken[c]
  /\ Mark(c)
  /\ UNCHANGED <<log, dlq, group, taken, failures, revocations, done>>

(* An expelled handler learns of it, between batches; its marks are lost.  *)
Return(c) ==
  /\ owner # c /\ phase[c] = "idle"
  /\ EndSession(c)
  /\ UNCHANGED <<log, dlq, group, failures, revocations, done>>

Handler(c) ==
  \/ Receive(c) \/ ProcessOk(c) \/ ProcessError(c) \/ SendRetry(c) \/ SendRetryError(c)
  \/ SendDLQ(c) \/ SendDLQError(c) \/ Drop(c) \/ MarkFailed(c) \/ Return(c)

Group(c) == Join(c) \/ Commit(c) \/ Leave(c) \/ Expel(c) \/ Crash(c)

Next == \/ \E m \in Msg : Publish(m)
        \/ \E c \in Consumer : Group(c) \/ Handler(c)

Spec == Init /\ [][Next]_vars

(* Processors and sends return, marks are committed by a timer, the group  *)
(* assigns a free partition, and a session that lost its partition ends:   *)
(* something is done as long as anything can be.  Failing, crashing and    *)
(* publishing stay optional.                                               *)
Fairness == WF_vars(\E c \in Consumer : Join(c) \/ Commit(c) \/ Handler(c))

FairSpec == Spec /\ Fairness

-----------------------------------------------------------------------------
(* Properties.                                                             *)

(* Type invariant.                                                         *)
TypeOK ==
  /\ log \in Seq(Record) /\ dlq \subseteq Record
  /\ committed \in Nat /\ first \in Nat /\ owner \in Consumer \cup {NoOne}
  /\ phase \in [Consumer -> {"none", "idle", "processing", "failing", "resorting"}]
  /\ marked \in [Consumer -> Nat] /\ taken \in [Consumer -> Nat] /\ next \in [Consumer -> Nat]
  /\ failures \in Nat /\ revocations \in Nat
  /\ done \subseteq Nat

InDLQ(r)       == r \in dlq
Republished(o) == \E p \in DOMAIN log : p > o /\ log[p] = [log[o] EXCEPT !.count = @ + 1]
Accounted(o)   == o \in done \/ Republished(o) \/ InDLQ(log[o])

(* A record the group has passed for good since it started was processed,  *)
(* lives on as a retry or is in the DLQ, whoever owned the partition,      *)
(* crashed or was expelled on the way; the exceptions are a DLQ send that  *)
(* failed and a consumer without a DLQ topic.                              *)
NoSilentLoss == \A o \in (first + 1)..committed : Accounted(o)

(* Unless a send failed, a message reaches the DLQ only after MaxRetries   *)
(* retries, and no crash or second handler adds a retry to its count.  No  *)
(* retry is sent twice, even where a send reported an error, as long as no *)
(* owner lost its partition.                                               *)
RetriesBeforeDLQ ==
  /\ \A o \in DOMAIN log : log[o].count <= MaxRetries
  /\ failures = 0 => \A r \in dlq : r.count = MaxRetries
  /\ revocations = 0 => \A o, p \in DOMAIN log : log[o] = log[p] => o = p

(* Nothing stays in the partition for ever: the group gets through what    *)
(* is published and republished after it started, and retries cannot go    *)
(* round for ever.                                                         *)
Drained == <>[](committed = Len(log))

(* The offset starts where no commit could be lost, from then on it passes *)
(* only what is accounted for, and it never goes back: what a former owner *)
(* knew and marked is not committed after a later one.                     *)
AccountedFor == {o \in DOMAIN log : Accounted(o)}

Offsets == INSTANCE GroupOffset WITH
  end <- Len(log), offset <- committed, settled <- AccountedFor

ImplementsGroupOffset == Offsets!Spec
=============================================================================
