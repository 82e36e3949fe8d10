--------------------------- MODULE RistrettoCache ---------------------------
(***************************************************************************)
(* RistrettoCache (cache/internal/cachesp/ristretto.go): every call is a   *)
(* sequence of Get, SetWithTTL and Del on a map other goroutines work on   *)
(* at the same time.                                                       *)
(***************************************************************************)
EXTENDS Cachespi

resolveTTL(expire) == CASE expire = "NoExpiration"      -> "never"
                        [] expire = "DefaultExpiration" -> "default"
                        [] OTHER                        -> "own"

(* ristretto may turn a new key away, and Set does not tell.               *)
SetWithTTL(k, v, expire) ==
  \/ Put(k, v, resolveTTL(expire), expire)
  \/ ~Found(k) /\ UNCHANGED <<kv, forever>>

-----------------------------------------------------------------------------
(* Reads.                                                                  *)

Read(c, op) == /\ At(c, op, "start")
               /\ Return(c)
               /\ UNCHANGED <<kv, source, calls, errors, history>>

Get(c)          == Read(c, "Get")
GetOrDefault(c) == Read(c, "GetOrDefault")
Exists(c)       == Read(c, "Exists")

(* The loop of GetMany, in the random order of a Go map.                   *)
GetMany(c) ==
  /\ At(c, "GetMany", "start")
  /\ LET t == task[c] IN
     \/ \E k \in t.todo :
          LET rest == [t EXCEPT !.todo = @ \ {k}] IN
          IF Found(k)
          THEN \E u \in Received(rest, k, kv[k].val) : task' = [task EXCEPT ![c] = u]
          ELSE task' = [task EXCEPT ![c] = Dropped(rest, k)]
     \/ t.todo = {} /\ ReturnMap(c, t, TRUE)
  /\ UNCHANGED <<kv, source, calls, errors, history>>

-----------------------------------------------------------------------------
(* Writes.                                                                 *)

Set(c) ==
  /\ At(c, "Set", "start")
  /\ \E k \in task[c].keys, e \in Expire : SetWithTTL(k, task[c].args[k], e) /\ NoAnswer(k)
  /\ Return(c)
  /\ UNCHANGED <<source, calls, errors, clean>>

SetMany(c) ==
  /\ At(c, "SetMany", "start")
  /\ \/ \E k \in task[c].todo, e \in Expire :
          /\ SetWithTTL(k, task[c].args[k], e) /\ NoAnswer(k)
          /\ task' = [task EXCEPT ![c].todo = @ \ {k}]
     \/ task[c].todo = {} /\ Return(c) /\ UNCHANGED <<kv, answers, twice, forever>>
  /\ UNCHANGED <<source, calls, errors, clean>>

(* SetNX, GetAndDelete, Delete and Incr look first and write then.         *)
SetNXLooks(c) ==
  /\ At(c, "SetNX", "start")
  /\ \E k \in task[c].keys : IF Found(k) THEN Return(c) ELSE GoTo(c, "write")
  /\ UNCHANGED <<kv, source, calls, errors, history>>

SetNX(c) ==
  /\ At(c, "SetNX", "write")
  /\ \E k \in task[c].keys, e \in Expire :
       SetWithTTL(k, [of |-> k, n |-> 1], e) /\ Answer(k, <<"won", 0>>)
  /\ Return(c)
  /\ UNCHANGED <<source, calls, errors, clean>>

LooksForDelete(c) ==
  /\ task[c].op \in {"GetAndDelete", "Delete"} /\ task[c].at = "start"
  /\ \E k \in task[c].keys : IF Found(k) THEN GoTo(c, "write") ELSE Return(c)
  /\ UNCHANGED <<kv, source, calls, errors, history>>

GetAndDelete(c) ==
  /\ At(c, "GetAndDelete", "write")
  /\ \E k \in task[c].keys : Remove({k}) /\ Answer(k, <<"took", 0>>)
  /\ Return(c)
  /\ UNCHANGED <<source, calls, errors, clean>>

(* Mutant: Del comes to nothing.                                           *)
DeleteWithoutDel(c) ==
  /\ At(c, "Delete", "write")
  /\ Cleaned(task[c].keys)
  /\ Return(c)
  /\ UNCHANGED <<kv, source, calls, errors, answers, twice, forever>>

Delete(c) ==
  /\ At(c, "Delete", "write")
  /\ Remove(task[c].keys) /\ Cleaned(task[c].keys)
  /\ Return(c)
  /\ UNCHANGED <<source, calls, errors, answers, twice>>

DeleteMany(c) ==
  /\ At(c, "DeleteMany", "start")
  /\ \/ \E k \in task[c].todo :
          /\ Remove({k}) /\ Cleaned({k})
          /\ task' = [task EXCEPT ![c].todo = @ \ {k}]
     \/ task[c].todo = {} /\ Return(c) /\ UNCHANGED <<kv, forever, clean>>
  /\ UNCHANGED <<source, calls, errors, answers, twice>>

(* The number read is kept in results until it is written back.            *)
IncrLooks(c) ==
  /\ At(c, "Incr", "start")
  /\ \E k \in task[c].keys :
       task' = [task EXCEPT ![c].at = "write",
                            ![c].results = <<[of |-> k, n |-> IF Found(k) THEN kv[k].val.n ELSE 0]>>]
  /\ UNCHANGED <<kv, source, calls, errors, history>>

Incr(c) ==
  /\ At(c, "Incr", "write")
  /\ \E k \in task[c].keys, delta \in Deltas, e \in Expire :
       LET newVal == [task[c].results[1] EXCEPT !.n = @ + delta] IN
       SetWithTTL(k, newVal, e) /\ AnswerAfter(k, Upwards(k, delta), <<"incr", newVal.n>>)
  /\ Return(c)
  /\ UNCHANGED <<source, calls, errors, clean>>

Flush(c) ==
  /\ At(c, "Flush", "start")
  /\ Remove(Key) /\ Cleaned(Key)
  /\ Return(c)
  /\ UNCHANGED <<source, calls, errors, answers, twice>>

-----------------------------------------------------------------------------
(* Load and LoadMany.                                                      *)

(* A hit that does not fit the receiver is loaded again.                   *)
Load(c) ==
  /\ At(c, "Load", "start")
  /\ \E k \in task[c].keys :
       \/ Found(k) /\ Return(c)
       \/ task' = [task EXCEPT ![c].at = "load", ![c].missing = <<k>>]
  /\ UNCHANGED <<kv, source, calls, errors, history>>

LoadMany(c) ==
  /\ At(c, "LoadMany", "start")
  /\ LET t == task[c] IN
     \/ \E k \in t.todo :
          LET rest == [t EXCEPT !.todo = @ \ {k}] IN
          IF Found(k)
          THEN \E u \in Received(rest, k, kv[k].val) : task' = [task EXCEPT ![c] = u]
          ELSE task' = [task EXCEPT ![c] = [rest EXCEPT !.missing = Append(@, k)]]
     \/ t.todo = {} /\ t.missing = <<>> /\ ReturnMap(c, t, TRUE)
     \/ t.todo = {} /\ t.missing # <<>> /\ GoTo(c, "load")
  /\ UNCHANGED <<kv, source, calls, errors, history>>

FillOne(c) ==
  /\ task[c].at = "fill" /\ task[c].missing # <<>> /\ ~NilResult(task[c])
  /\ LET k == Head(task[c].missing)
         v == Head(task[c].results) IN
     /\ \E e \in Expire : SetWithTTL(k, v, e) /\ NoAnswer(k)
     /\ \E u \in Received(NextMissing(task[c]), k, v) : task' = [task EXCEPT ![c] = u]
  /\ UNCHANGED <<source, calls, errors, clean>>

-----------------------------------------------------------------------------
(* ristretto's policy may drop any entry.                                  *)
Evict(k) ==
  /\ Found(k)
  /\ Remove({k})
  /\ UNCHANGED <<source, task, calls, errors, answers, twice, clean>>

Step(c) ==
  \/ Get(c) \/ GetOrDefault(c) \/ Exists(c) \/ GetMany(c)
  \/ Set(c) \/ SetMany(c) \/ SetNXLooks(c) \/ SetNX(c)
  \/ LooksForDelete(c) \/ GetAndDelete(c) \/ Delete(c) \/ DeleteMany(c)
  \/ IncrLooks(c) \/ Incr(c) \/ Flush(c)
  \/ Load(c) \/ LoadMany(c) \/ LoaderReturns(c) \/ LoaderFails(c)
  \/ FillNothing(c) \/ FillOne(c) \/ Filled(c)

Next == \/ \E c \in Client : Calls(c) \/ Step(c)
        \/ \E k \in Key : Evict(k)
        \/ Surroundings
=============================================================================
