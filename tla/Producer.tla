------------------------------ MODULE Producer ------------------------------
(***************************************************************************)
(* SaramaProducer (mq/internal/mqsp/producer.go): Produce, BatchProduce    *)
(* and AsyncProduce called by several goroutines while others call Close.  *)
(* AsyncProduce sends under a read lock, and Close passes through the      *)
(* write lock before it closes sarama's asynchronous producer; Produce     *)
(* reads the closed flag without a lock.  Callbacks do not use the         *)
(* producer.                                                               *)
(***************************************************************************)
EXTENDS Naturals, FiniteSets, Sequences

CONSTANTS
  Caller,       \* goroutines that produce
  Closer,       \* goroutines that call Close
  BatchSize,    \* most messages of a BatchProduce
  Capacity,     \* messages sarama's asynchronous producer holds before Input() blocks
  MaxMessages   \* bound: messages produced

ASSUME ProducerAssumption ==
  /\ BatchSize \in Nat \ {0} /\ Capacity \in Nat \ {0} /\ MaxMessages \in Nat

Message == 1..MaxMessages

VARIABLES
  produced,  \* messages handed to the producer so far: 1 .. produced
  pc,        \* step of each caller
  msgs,      \* messages of its call
  sent,      \* how many of them Produce has sent without error
  readers,   \* callers that hold mu.RLock
  closed,
  closer,    \* step of each Close
  open,      \* which of sarama's producers are open
  fate,      \* what has become of a message in sarama's asynchronous producer
  callbacks, \* results the callback of a message was called with
  log        \* messages in the topic

calls  == <<produced, pc, msgs, sent>>
sarama == <<open, fate, log>>
vars   == <<calls, readers, closed, closer, sarama, callbacks>>

InFlight == {m \in Message : fate[m] = "inflight"}

Init ==
  /\ produced = 0 /\ log = {}
  /\ pc = [c \in Caller |-> "idle"]
  /\ msgs = [c \in Caller |-> <<>>] /\ sent = [c \in Caller |-> 0]
  /\ readers = {} /\ closed = FALSE
  /\ closer = [k \in Closer |-> "idle"]
  /\ open = {"sync", "async"}
  /\ fate = [m \in Message |-> "none"]
  /\ callbacks = [m \in Message |-> <<>>]

Goto(c, step)   == pc' = [pc EXCEPT ![c] = step]
Calls(m, error) == callbacks' = [callbacks EXCEPT ![m] = Append(@, error)]

(* A call with n new messages begins.                                      *)
Begins(c, n, step) ==
  /\ pc[c] \in {"idle", "returned", "refused", "failed"}
  /\ produced + n <= MaxMessages /\ produced' = produced + n
  /\ msgs' = [msgs EXCEPT ![c] = [i \in 1..n |-> produced + i]]
  /\ sent' = [sent EXCEPT ![c] = 0]
  /\ Goto(c, step)

-----------------------------------------------------------------------------
(* Produce and BatchProduce.                                               *)

BeginProduce(c) ==
  /\ Begins(c, 1, "produce")
  /\ UNCHANGED <<readers, closed, closer, sarama, callbacks>>

BatchProduce(c) ==
  /\ \E n \in 1..BatchSize : Begins(c, n, IF closed THEN "refused" ELSE "produce")
  /\ UNCHANGED <<readers, closed, closer, sarama, callbacks>>

(* The closed flag is read before every message.                           *)
Produce(c) ==
  /\ pc[c] = "produce"
  /\ Goto(c, IF closed THEN "refused" ELSE "send")
  /\ UNCHANGED <<produced, msgs, sent, readers, closed, closer, sarama, callbacks>>

Current(c) == msgs[c][sent[c] + 1]

(* SendMessage answers once the broker has; an error may come although the *)
(* broker has the message.  A closed producer panics.                      *)
SendMessage(c, error) ==
  /\ pc[c] = "send" /\ "sync" \in open
  /\ \/ ~error /\ log' = log \cup {Current(c)}
     \/ error /\ log' \in {log, log \cup {Current(c)}}

SendPanics(c) ==
  /\ pc[c] = "send" /\ "sync" \notin open
  /\ Goto(c, "panicked")
  /\ UNCHANGED <<produced, msgs, sent, readers, closed, closer, sarama, callbacks>>

ProduceOk(c) ==
  /\ SendMessage(c, FALSE)
  /\ sent' = [sent EXCEPT ![c] = @ + 1]
  /\ Goto(c, IF sent'[c] < Len(msgs[c]) THEN "produce" ELSE "returned")
  /\ UNCHANGED <<produced, msgs, readers, closed, closer, open, fate, callbacks>>

(* Mutant: the loop of BatchProduce goes on after an error.                *)
ProduceErrorGoesOn(c) ==
  /\ SendMessage(c, TRUE)
  /\ sent' = [sent EXCEPT ![c] = @ + 1]
  /\ Goto(c, IF sent'[c] < Len(msgs[c]) THEN "produce" ELSE "failed")
  /\ UNCHANGED <<produced, msgs, readers, closed, closer, open, fate, callbacks>>

ProduceError(c) ==
  /\ SendMessage(c, TRUE)
  /\ Goto(c, "failed")
  /\ UNCHANGED <<produced, msgs, sent, readers, closed, closer, open, fate, callbacks>>

-----------------------------------------------------------------------------
(* AsyncProduce.                                                           *)

BeginAsync(c) ==
  /\ Begins(c, 1, "rlock")
  /\ UNCHANGED <<readers, closed, closer, sarama, callbacks>>

(* A Close that waits for the lock keeps new readers out.                  *)
NoWriter == \A k \in Closer : closer[k] # "lock"

(* Mutant: AsyncProduce takes no lock.                                     *)
NoRLock(c) ==
  /\ pc[c] = "rlock"
  /\ Goto(c, "async")
  /\ UNCHANGED <<produced, msgs, sent, readers, closed, closer, sarama, callbacks>>

RLock(c) ==
  /\ pc[c] = "rlock" /\ NoWriter
  /\ readers' = readers \cup {c}
  /\ Goto(c, "async")
  /\ UNCHANGED <<produced, msgs, sent, closed, closer, sarama, callbacks>>

(* Mutant: the early return does not unlock.                               *)
RefusedLocked(c) ==
  /\ pc[c] = "async" /\ closed
  /\ Calls(msgs[c][1], "closed")
  /\ Goto(c, "refused")
  /\ UNCHANGED <<produced, msgs, sent, readers, closed, closer, sarama>>

AsyncRefused(c) ==
  /\ pc[c] = "async" /\ closed
  /\ Calls(msgs[c][1], "closed")
  /\ readers' = readers \ {c}
  /\ Goto(c, "refused")
  /\ UNCHANGED <<produced, msgs, sent, closed, closer, sarama>>

AsyncAccepted(c) ==
  /\ pc[c] = "async" /\ ~closed
  /\ Goto(c, "input")
  /\ UNCHANGED <<produced, msgs, sent, readers, closed, closer, sarama, callbacks>>

(* Input() blocks while sarama is full, with the lock held; it panics once *)
(* it is closed.                                                           *)
Input(c) ==
  /\ pc[c] = "input"
  /\ readers' = readers \ {c}
  /\ IF "async" \in open
     THEN /\ Cardinality(InFlight) < Capacity
          /\ fate' = [fate EXCEPT ![msgs[c][1]] = "inflight"]
          /\ Goto(c, "returned")
     ELSE Goto(c, "panicked") /\ UNCHANGED fate
  /\ UNCHANGED <<produced, msgs, sent, closed, closer, open, log, callbacks>>

(* The broker answers, or the retries of sarama are used up.               *)
Acknowledged(m) ==
  /\ fate[m] = "inflight"
  /\ \/ fate' = [fate EXCEPT ![m] = "success"] /\ log' = log \cup {m}
     \/ fate' = [fate EXCEPT ![m] = "error"] /\ log' \in {log, log \cup {m}}
  /\ UNCHANGED <<calls, readers, closed, closer, open, callbacks>>

handleAsyncSuccesses(m) ==
  /\ fate[m] = "success"
  /\ fate' = [fate EXCEPT ![m] = "answered"]
  /\ Calls(m, "nil")
  /\ UNCHANGED <<calls, readers, closed, closer, open, log>>

(* Mutant: errors are drained without a callback.                          *)
ErrorIgnored(m) ==
  /\ fate[m] = "error"
  /\ fate' = [fate EXCEPT ![m] = "answered"]
  /\ UNCHANGED <<calls, readers, closed, closer, open, log, callbacks>>

handleAsyncErrors(m) ==
  /\ fate[m] = "error"
  /\ fate' = [fate EXCEPT ![m] = "answered"]
  /\ Calls(m, "error")
  /\ UNCHANGED <<calls, readers, closed, closer, open, log>>

-----------------------------------------------------------------------------
(* Close.  Only the call that sets the flag closes anything.               *)

Close(k) ==
  /\ closer[k] = "idle"
  /\ closer' = [closer EXCEPT ![k] = IF closed THEN "nothing" ELSE "lock"]
  /\ closed' = TRUE
  /\ UNCHANGED <<calls, readers, sarama, callbacks>>

(* The lock is taken and given back at once.                               *)
Lock(k) ==
  /\ closer[k] = "lock" /\ readers = {}
  /\ closer' = [closer EXCEPT ![k] = "drain"]
  /\ UNCHANGED <<calls, readers, closed, sarama, callbacks>>

(* sarama's Close reads both channels itself: what it gets before the      *)
(* handlers do has no callback.                                            *)
Swallow(m) ==
  /\ \E k \in Closer : closer[k] = "drain"
  /\ fate[m] \in {"success", "error"}
  /\ fate' = [fate EXCEPT ![m] = "swallowed"]
  /\ UNCHANGED <<calls, readers, closed, closer, open, log, callbacks>>

(* Nothing in flight: the channels are closed.                             *)
AsyncClosed(k) ==
  /\ closer[k] = "drain" /\ "async" \in open /\ InFlight = {}
  /\ open' = open \ {"async"}
  /\ UNCHANGED <<calls, readers, closed, closer, fate, log, callbacks>>

(* wg.Wait ends when both handlers have emptied their channels.            *)
HandlersDone == \A m \in Message : fate[m] \notin {"success", "error"}

SyncClosed(k) ==
  /\ closer[k] = "drain" /\ "async" \notin open /\ HandlersDone
  /\ open' = open \ {"sync"}
  /\ closer' = [closer EXCEPT ![k] = "done"]
  /\ UNCHANGED <<calls, readers, closed, fate, log, callbacks>>

InCall(c) ==
  \/ Produce(c) \/ ProduceOk(c) \/ ProduceError(c) \/ SendPanics(c)
  \/ RLock(c) \/ AsyncRefused(c) \/ AsyncAccepted(c) \/ Input(c)
InClose(k)   == Lock(k) \/ AsyncClosed(k) \/ SyncClosed(k)
InSarama(m)  == Acknowledged(m) \/ Swallow(m)
InHandler(m) == handleAsyncSuccesses(m) \/ handleAsyncErrors(m)

Next ==
  \/ \E c \in Caller : BeginProduce(c) \/ BatchProduce(c) \/ BeginAsync(c) \/ InCall(c)
  \/ \E k \in Closer : Close(k) \/ InClose(k)
  \/ \E m \in Message : InSarama(m) \/ InHandler(m)

Spec == Init /\ [][Next]_vars

(* Goroutines run, the broker answers, and callbacks return.               *)
Fairness ==
  /\ \A c \in Caller : WF_vars(InCall(c))
  /\ \A k \in Closer : WF_vars(InClose(k))
  /\ \A m \in Message : WF_vars(Acknowledged(m)) /\ WF_vars(InHandler(m))

FairSpec == Spec /\ Fairness

-----------------------------------------------------------------------------
(* Properties.                                                             *)

Step == {"idle", "produce", "send", "rlock", "async", "input",
         "returned", "refused", "failed", "panicked"}

(* Type invariant.                                                         *)
TypeOK ==
  /\ produced \in 0..MaxMessages
  /\ pc \in [Caller -> Step]
  /\ msgs \in [Caller -> Seq(Message)]
  /\ sent \in [Caller -> 0..BatchSize]
  /\ readers \subseteq Caller /\ closed \in BOOLEAN
  /\ closer \in [Closer -> {"idle", "nothing", "lock", "drain", "done"}]
  /\ open \subseteq {"sync", "async"}
  /\ fate \in [Message -> {"none", "inflight", "success", "error", "answered", "swallowed"}]
  /\ callbacks \in [Message -> Seq({"nil", "error", "closed"})]
  /\ log \subseteq Message

(* The lock of AsyncProduce and Close: nobody is about to send to Input()  *)
(* once sarama's asynchronous producer is closed.                          *)
NoSendOnClosedInput == \A c \in Caller : pc[c] = "input" => "async" \in open

(* A message has one result at most: its callback is called once, with nil *)
(* only if the topic has the message, and with ErrProducerClosed only if   *)
(* the topic will never have it.                                           *)
OneTrueResult ==
  \A m \in Message :
    /\ Len(callbacks[m]) <= 1
    /\ callbacks[m] = <<"nil">> => m \in log
    /\ callbacks[m] = <<"closed">> => m \notin log /\ fate[m] = "none"

(* BatchProduce returns the first error (mqspi/spi.go:10): what the topic  *)
(* has of a batch is its first messages, and all of it after a nil error.  *)
BatchIsPrefix ==
  \A c \in Caller : \A i, j \in 1..Len(msgs[c]) :
    /\ (i < j /\ msgs[c][j] \in log) => msgs[c][i] \in log
    /\ (pc[c] = "returned" /\ sent[c] > 0) => msgs[c][i] \in log

(* What the producer tells its callers is what has happened.               *)
TrueResults == OneTrueResult /\ BatchIsPrefix

(* Every message AsyncProduce has passed on gets its callback, unless      *)
(* Close takes its result away.                                            *)
Answered ==
  \A m \in Message :
    fate[m] = "inflight" ~> (Len(callbacks[m]) = 1 \/ (closed /\ fate[m] = "swallowed"))

(* Close gets the lock although callers hold it before a full Input(), and *)
(* returns.                                                                *)
CloseReturns == \A k \in Closer : closer[k] = "lock" ~> closer[k] = "done"
=============================================================================
