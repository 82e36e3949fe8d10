--------------------------- MODULE ManualConsumer ---------------------------
(***************************************************************************)
(* SaramaManualConsumer (mq/internal/mqsp/manual_consumer.go) on one       *)
(* partition.  consumeLoop joins the group again after every rebalance;    *)
(* ConsumeClaim moves messages into one channel that outlives the session, *)
(* so what an earlier session left there is handed out under a later one.  *)
(* The application runs the loop of mqspi.ManualConsumer: Consume, process *)
(* (or ColdRetry, or DLQ, until one succeeds), Confirm.  Offsets are       *)
(* committed by Confirm alone.                                             *)
(*                                                                         *)
(* Offsets.Initial is left at sarama's OffsetNewest: as long as the group  *)
(* has committed nothing, each session starts at the end of the partition. *)
(***************************************************************************)
EXTENDS Naturals, Sequences

CONSTANTS
  Consumer,      \* members of the consumer group
  NoOne,         \* the partition is not assigned
  LastOffset,    \* bound: messages published to the partition
  Capacity,      \* of msgChan
  Closing,       \* consumers whose application calls Close
  MaxRebalances, \* bound: rebalances and crashes
  MaxFailures    \* bound: sends and commits that fail

ASSUME ManualAssumption ==
  /\ NoOne \notin Consumer /\ Closing \subseteq Consumer
  /\ LastOffset \in Nat \ {0} /\ Capacity \in Nat \ {0}
  /\ MaxRebalances \in Nat /\ MaxFailures \in Nat

Offset == 1..LastOffset

VARIABLES
  end,         \* messages of the partition: 1 .. end
  committed,   \* offset of the group: messages up to it are not read again
  first,       \* history: where the group started; committed until it has committed
  owner,       \* member the broker has assigned the partition to
  session,     \* session of each member: "none", "live", "ending"
  generation,  \* number of that session
  position,    \* last message its claim has delivered
  marked,      \* last message marked on it
  hand,        \* message ConsumeClaim is about to send to msgChan, or 0
  msgChan,
  worker,      \* application: its step, its message and the session it came with
  status,      \* "open", "closing": closed is set and ctx cancelled, "closed"
  rebalances, failures,
  handled      \* messages processed without error, or in the retry or the DLQ topic

group  == <<end, committed, first, owner>>
claim  == <<session, generation, position, marked, hand>>
bounds == <<rebalances, failures>>
vars   == <<group, claim, msgChan, worker, status, bounds, handled>>

Wrapped == [offset : Offset, generation : Nat]
NoWork  == [at |-> "idle", offset |-> 0, generation |-> 0]

Init ==
  /\ end = 0 /\ committed = 0 /\ first = 0 /\ owner = NoOne
  /\ session = [c \in Consumer |-> "none"]
  /\ generation = [c \in Consumer |-> 0]
  /\ position = [c \in Consumer |-> 0]
  /\ marked = [c \in Consumer |-> 0]
  /\ hand = [c \in Consumer |-> 0]
  /\ msgChan = [c \in Consumer |-> <<>>]
  /\ worker = [c \in Consumer |-> NoWork]
  /\ status = [c \in Consumer |-> "open"]
  /\ rebalances = 0 /\ failures = 0
  /\ handled = {}

Fails == failures < MaxFailures /\ failures' = failures + 1
Works == UNCHANGED failures

Publish ==
  /\ end < LastOffset
  /\ end' = end + 1
  /\ UNCHANGED <<committed, first, owner, claim, msgChan, worker, status, bounds, handled>>

-----------------------------------------------------------------------------
(* consumeLoop and the consumer group.                                     *)

(* The group has a committed offset.                                       *)
Begun == committed > first

(* Where the claim of a new session starts.                                *)
Resume == IF Begun THEN UNCHANGED <<committed, first>>
                   ELSE committed' = end /\ first' = end

Joins(c) ==
  /\ owner = NoOne /\ session[c] = "none" /\ status[c] = "open"
  /\ Resume
  /\ owner' = c
  /\ session' = [session EXCEPT ![c] = "live"]
  /\ generation' = [generation EXCEPT ![c] = @ + 1]
  /\ position' = [position EXCEPT ![c] = committed']
  /\ marked' = [marked EXCEPT ![c] = committed']
  /\ UNCHANGED <<end, hand, msgChan, worker, status, bounds, handled>>

(* Mutant: consumeLoop returns with its first session.                     *)
JoinsOnce(c) == generation[c] = 0 /\ Joins(c)

(* The loop calls consumerGroup.Consume until ctx is cancelled.            *)
consumeLoop(c) == Joins(c)

(* The context of the session ends: the group rebalances, or Close has     *)
(* cancelled the context of the loop.                                      *)
Rebalance(c) ==
  /\ session[c] = "live" /\ rebalances < MaxRebalances
  /\ rebalances' = rebalances + 1
  /\ session' = [session EXCEPT ![c] = "ending"]
  /\ UNCHANGED <<group, generation, position, marked, hand, msgChan, worker, status, failures, handled>>

Cancelled(c) ==
  /\ session[c] = "live" /\ status[c] = "closing"
  /\ session' = [session EXCEPT ![c] = "ending"]
  /\ UNCHANGED <<group, generation, position, marked, hand, msgChan, worker, status, bounds, handled>>

(* The broker does not wait for a member for ever.                         *)
Expel(c) ==
  /\ owner = c /\ session[c] = "ending"
  /\ owner' = NoOne
  /\ UNCHANGED <<end, committed, first, claim, msgChan, worker, status, bounds, handled>>

Crash(c) ==
  /\ status[c] = "open" /\ rebalances < MaxRebalances
  /\ rebalances' = rebalances + 1
  /\ owner' = IF owner = c THEN NoOne ELSE owner
  /\ session' = [session EXCEPT ![c] = "none"]
  /\ hand' = [hand EXCEPT ![c] = 0]
  /\ msgChan' = [msgChan EXCEPT ![c] = <<>>]
  /\ worker' = [worker EXCEPT ![c] = NoWork]
  /\ UNCHANGED <<end, committed, first, generation, position, marked, status, failures, handled>>

-----------------------------------------------------------------------------
(* ConsumeClaim.                                                           *)

(* The claim holds messages after the session's context has ended, too.    *)
Take(c) ==
  /\ session[c] # "none" /\ hand[c] = 0 /\ position[c] < end
  /\ position' = [position EXCEPT ![c] = @ + 1]
  /\ hand' = [hand EXCEPT ![c] = position'[c]]
  /\ UNCHANGED <<group, session, generation, marked, msgChan, worker, status, bounds, handled>>

(* Mutant: ConsumeClaim marks what it has sent to msgChan.                 *)
PushMarks(c) ==
  /\ hand[c] # 0 /\ session[c] # "none"
  /\ Len(msgChan[c]) < Capacity
  /\ msgChan' = [msgChan EXCEPT ![c] = Append(@, [offset |-> hand[c], generation |-> generation[c]])]
  /\ hand' = [hand EXCEPT ![c] = 0] /\ marked' = [marked EXCEPT ![c] = hand[c]]
  /\ UNCHANGED <<group, session, generation, position, worker, status, bounds, handled>>

Push(c) ==
  /\ hand[c] # 0 /\ session[c] # "none"
  /\ Len(msgChan[c]) < Capacity
  /\ msgChan' = [msgChan EXCEPT ![c] = Append(@, [offset |-> hand[c], generation |-> generation[c]])]
  /\ hand' = [hand EXCEPT ![c] = 0]
  /\ UNCHANGED <<group, session, generation, position, marked, worker, status, bounds, handled>>

(* Mutant: the send to msgChan does not watch the context.                 *)
ReturnsWithEmptyHand(c) ==
  /\ session[c] = "ending" /\ hand[c] = 0
  /\ session' = [session EXCEPT ![c] = "none"]
  /\ owner' = IF owner = c THEN NoOne ELSE owner
  /\ UNCHANGED <<end, committed, first, generation, position, marked, hand, msgChan, worker, status, bounds, handled>>

(* Either select watches the context of the session; then the session is   *)
(* released.  The message in hand was not marked.                          *)
Returns(c) ==
  /\ session[c] = "ending"
  /\ session' = [session EXCEPT ![c] = "none"]
  /\ hand' = [hand EXCEPT ![c] = 0]
  /\ owner' = IF owner = c THEN NoOne ELSE owner
  /\ UNCHANGED <<end, committed, first, generation, position, marked, msgChan, worker, status, bounds, handled>>

-----------------------------------------------------------------------------
(* The application.                                                        *)

WorkerStep(c, step) == worker' = [worker EXCEPT ![c].at = step]

(* Consume looks at closed and then waits.                                 *)
Consume(c) ==
  /\ worker[c].at = "idle"
  /\ WorkerStep(c, IF status[c] = "open" THEN "waiting" ELSE "stopped")
  /\ UNCHANGED <<group, claim, msgChan, status, bounds, handled>>

Receive(c) ==
  /\ worker[c].at = "waiting" /\ msgChan[c] # <<>>
  /\ msgChan' = [msgChan EXCEPT ![c] = Tail(@)]
  /\ LET m == Head(msgChan[c]) IN
     worker' = [worker EXCEPT ![c] = [at |-> "processing", offset |-> m.offset, generation |-> m.generation]]
  /\ UNCHANGED <<group, claim, status, bounds, handled>>

ConsumerClosed(c) ==
  /\ worker[c].at = "waiting" /\ status[c] # "open"
  /\ WorkerStep(c, "stopped")
  /\ UNCHANGED <<group, claim, msgChan, status, bounds, handled>>

ProcessOk(c) ==
  /\ worker[c].at = "processing"
  /\ handled' = handled \cup {worker[c].offset}
  /\ WorkerStep(c, "confirming")
  /\ UNCHANGED <<group, claim, msgChan, status, bounds>>

ProcessError(c) ==
  /\ worker[c].at = "processing"
  /\ WorkerStep(c, "failing")
  /\ UNCHANGED <<group, claim, msgChan, status, bounds, handled>>

(* A send that fails may have reached the broker.  The producer behind     *)
(* ColdRetry and DLQ is closed last by Close.                              *)
Sends(c) ==
  /\ worker[c].at = "failing" /\ status[c] # "closed"
  /\ \/ Works /\ handled' = handled \cup {worker[c].offset} /\ WorkerStep(c, "confirming")
     \/ Fails /\ handled' \in {handled, handled \cup {worker[c].offset}} /\ UNCHANGED worker
  /\ UNCHANGED <<group, claim, msgChan, status, rebalances>>

ColdRetry(c) == Sends(c)  \* to the retry topic, which nothing in the code consumes
DLQ(c)       == Sends(c)

(* Neither looks at closed; a send on a closed producer does not come back. *)
SendAfterClose(c) ==
  /\ worker[c].at = "failing" /\ status[c] = "closed"
  /\ WorkerStep(c, "stopped")
  /\ UNCHANGED <<group, claim, msgChan, status, bounds, handled>>

(* The session of the message knows its partition until it is released,    *)
(* and the broker takes its commits while the member owns the partition.   *)
OwnSession(c) == session[c] # "none" /\ worker[c].generation = generation[c]

NewMark(c) == IF worker[c].offset > marked[c] THEN worker[c].offset ELSE marked[c]

(* MarkMessage and Commit; Confirm does not learn how the commit went.     *)
Confirm(c) ==
  /\ worker[c].at = "confirming"
  /\ worker' = [worker EXCEPT ![c] = NoWork]
  /\ IF OwnSession(c)
     THEN /\ marked' = [marked EXCEPT ![c] = NewMark(c)]
          /\ IF owner = c
             THEN (Works /\ committed' = marked'[c]) \/ (Fails /\ UNCHANGED committed)
             ELSE UNCHANGED <<committed, failures>>
     ELSE UNCHANGED <<marked, committed, failures>>
  /\ UNCHANGED <<end, first, owner, session, generation, position, hand, msgChan, status, rebalances, handled>>

-----------------------------------------------------------------------------
(* Close: closed is set and ctx cancelled; then it waits for consumeLoop.  *)

Close(c) ==
  /\ c \in Closing /\ status[c] = "open"
  /\ status' = [status EXCEPT ![c] = "closing"]
  /\ UNCHANGED <<group, claim, msgChan, worker, bounds, handled>>

Closed(c) ==
  /\ status[c] = "closing" /\ session[c] = "none"
  /\ status' = [status EXCEPT ![c] = "closed"]
  /\ UNCHANGED <<group, claim, msgChan, worker, bounds, handled>>

Group(c)   == consumeLoop(c) \/ Rebalance(c) \/ Cancelled(c) \/ Expel(c) \/ Crash(c)
Handler(c) == Take(c) \/ Push(c) \/ Returns(c)
Work(c)    == \/ Consume(c) \/ Receive(c) \/ ConsumerClosed(c)
              \/ ProcessOk(c) \/ ProcessError(c) \/ ColdRetry(c) \/ DLQ(c) \/ SendAfterClose(c)
              \/ Confirm(c)

Next == \/ Publish
        \/ \E c \in Consumer : Group(c) \/ Handler(c) \/ Work(c) \/ Close(c) \/ Closed(c)

Spec == Init /\ [][Next]_vars

(* The group assigns a free partition, goroutines run, and processors and  *)
(* sends return: something is done as long as anything can be.  Publishing *)
(* and failing, rebalances and crashes are optional.                       *)
Fairness ==
  WF_vars(\E c \in Consumer :
            consumeLoop(c) \/ Cancelled(c) \/ Handler(c) \/ Work(c) \/ Closed(c))

FairSpec == Spec /\ Fairness

-----------------------------------------------------------------------------
(* Properties.                                                             *)

(* Type invariant.                                                         *)
TypeOK ==
  /\ end \in 0..LastOffset /\ committed \in 0..LastOffset /\ first \in 0..LastOffset
  /\ owner \in Consumer \cup {NoOne}
  /\ session \in [Consumer -> {"none", "live", "ending"}]
  /\ generation \in [Consumer -> Nat]
  /\ position \in [Consumer -> 0..LastOffset] /\ marked \in [Consumer -> 0..LastOffset]
  /\ hand \in [Consumer -> 0..LastOffset]
  /\ msgChan \in [Consumer -> Seq(Wrapped)]
  /\ worker \in [Consumer -> [at : {"idle", "waiting", "processing", "failing", "confirming", "stopped"},
                              offset : 0..LastOffset, generation : Nat]]
  /\ status \in [Consumer -> {"open", "closing", "closed"}]
  /\ rebalances \in Nat /\ failures \in Nat
  /\ handled \subseteq Offset

(* Confirm commits a high-water mark.  For an application that handles one *)
(* message at a time it never passes a message of the group, delivered     *)
(* since it started, that nobody has handled, whatever sessions left in    *)
(* msgChan and whoever owned the partition in between.                     *)
NothingSkipped == (first + 1)..committed \subseteq handled

(* Every message published after the group started is handled in the end,  *)
(* by a member that does not close: rebalances, crashes and sessions whose *)
(* messages are still in msgChan lose none.  Before its first commit the   *)
(* group starts anew with every session, and what an earlier one was given *)
(* may stay unhandled.                                                     *)
AllHandled == <>[]((first + 1)..end \subseteq handled)

(* Close returns, though ConsumeClaim may be stuck before a full msgChan   *)
(* nobody reads any more.                                                  *)
CloseReturns == \A c \in Consumer : status[c] = "closing" ~> status[c] = "closed"

(* The offset starts at the end of the partition until it is committed,    *)
(* from then on it passes only what is handled, and it never goes back: a  *)
(* Confirm that comes after its session, or after a later one, moves       *)
(* nothing.                                                                *)
Offsets == INSTANCE GroupOffset WITH offset <- committed, settled <- handled

ImplementsGroupOffset == Offsets!Spec
=============================================================================
