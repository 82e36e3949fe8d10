----------------------------- MODULE RedisCache -----------------------------
(***************************************************************************)
(* RedisCache (cache/internal/cachesp/redis.go): most calls are one Redis  *)
(* command, which takes effect at once.  Load and LoadMany are GET or      *)
(* MGET, the loader and one SET per key; Incr is INCRBY and EXPIRE;        *)
(* SetMany is a pipeline.  The reply of a command may be an error, the     *)
(* command having taken effect or not, and a client may crash between two  *)
(* commands.                                                               *)
(***************************************************************************)
EXTENDS Cachespi

(* Mutant: the default is passed on to Redis, for which 0 is no TTL.       *)
passTTL(expire) == IF expire = "own" THEN "own" ELSE "never"

resolveTTL(expire) == CASE expire = "NoExpiration"      -> "never"
                        [] expire = "DefaultExpiration" -> "default"
                        [] OTHER                        -> "own"

SET(k, v, expire) == Put(k, v, resolveTTL(expire), expire)

Error    == errors < MaxErrors /\ errors' = errors + 1
NoError  == UNCHANGED errors
Nothing  == UNCHANGED <<kv, answers, twice, forever>>

-----------------------------------------------------------------------------
(* Reads.  An error of the command is handed to the caller.                *)

Read(c, op) == /\ At(c, op, "start")
               /\ Return(c)
               /\ Error \/ NoError
               /\ UNCHANGED <<kv, source, calls, history>>

Get(c)          == Read(c, "Get")
GetOrDefault(c) == Read(c, "GetOrDefault")
Exists(c)       == Read(c, "Exists")

(* What MGET found is unmarshalled into the receivers of the map.          *)
Hits(ks) == {k \in ks : Found(k)}
Fits(c)  == SUBSET Hits(task[c].keys)
Unmarshal(t, fits) == [t EXCEPT !.filled = [k \in Key |-> IF k \in fits THEN kv[k].val ELSE @[k]]]

(* MGET without a key is an error.                                         *)
GetMany(c) ==
  /\ At(c, "GetMany", "start")
  /\ \/ /\ (Error \/ (task[c].keys = {} /\ NoError))
        /\ ReturnMap(c, task[c], FALSE)
     \/ /\ task[c].keys # {} /\ NoError
        /\ \E fits \in Fits(c) :
             ReturnMap(c, [Unmarshal(task[c], fits) EXCEPT !.keys = fits], TRUE)
  /\ UNCHANGED <<kv, source, calls, history>>

-----------------------------------------------------------------------------
(* Writes of one command.                                                  *)

Set(c) ==
  /\ At(c, "Set", "start")
  /\ \E k \in task[c].keys, e \in Expire :
       \/ SET(k, task[c].args[k], e) /\ NoAnswer(k) /\ (Error \/ NoError)
       \/ Nothing /\ Error
  /\ Return(c)
  /\ UNCHANGED <<source, calls, clean>>

(* Mutant: SET in place of SETNX.                                          *)
SetAlways(c) ==
  /\ At(c, "SetNX", "start")
  /\ \E k \in task[c].keys, e \in Expire :
       SET(k, [of |-> k, n |-> 1], e) /\ Answer(k, <<"won", 0>>) /\ NoError
  /\ Return(c)
  /\ UNCHANGED <<source, calls, clean>>

SetNX(c) ==
  /\ At(c, "SetNX", "start")
  /\ \E k \in task[c].keys, e \in Expire :
       \/ /\ ~Found(k)
          /\ SET(k, [of |-> k, n |-> 1], e)
          /\ (Answer(k, <<"won", 0>>) /\ NoError) \/ (NoAnswer(k) /\ Error)
       \/ Found(k) /\ Nothing /\ NoError
       \/ Nothing /\ Error
  /\ Return(c)
  /\ UNCHANGED <<source, calls, clean>>

GetAndDelete(c) ==
  /\ At(c, "GetAndDelete", "start")
  /\ \E k \in task[c].keys :
       \/ /\ Found(k)
          /\ Remove({k})
          /\ (Answer(k, <<"took", 0>>) /\ NoError) \/ (NoAnswer(k) /\ Error)
       \/ ~Found(k) /\ Nothing /\ NoError
       \/ Nothing /\ Error
  /\ Return(c)
  /\ UNCHANGED <<source, calls, clean>>

(* The commands of a pipeline; when it breaks the rest is lost.            *)
SetMany(c) ==
  /\ At(c, "SetMany", "start")
  /\ \/ \E k \in task[c].todo, e \in Expire :
          /\ SET(k, task[c].args[k], e) /\ NoAnswer(k) /\ NoError
          /\ task' = [task EXCEPT ![c].todo = @ \ {k}]
     \/ Return(c) /\ Nothing /\ (Error \/ (task[c].todo = {} /\ NoError))
  /\ UNCHANGED <<source, calls, clean>>

DEL(c, ks) ==
  /\ \/ Remove(ks) /\ Cleaned(ks) /\ (Error \/ NoError)
     \/ UNCHANGED <<kv, forever, clean>> /\ Error
  /\ Return(c)
  /\ UNCHANGED <<source, calls, answers, twice>>

Delete(c)     == At(c, "Delete", "start") /\ DEL(c, task[c].keys)
DeleteMany(c) == At(c, "DeleteMany", "start") /\ DEL(c, task[c].keys)
Flush(c)      == At(c, "Flush", "start") /\ DEL(c, Key)

-----------------------------------------------------------------------------
(* Incr: INCRBY keeps the TTL of a key and gives a new one none.           *)

Number(k)   == IF Found(k) THEN kv[k].val.n ELSE 0
IncrBy(k, delta) ==
  kv' = [kv EXCEPT ![k] = [val |-> [of |-> k, n |-> Number(k) + delta],
                           ttl |-> IF Found(k) THEN kv[k].ttl ELSE "never"]]
WillStay(k) == forever' = forever \cup {k}

Incr(c) ==
  /\ At(c, "Incr", "start")
  /\ \E k \in task[c].keys, delta \in Deltas :
       \/ /\ IncrBy(k, delta) /\ NoError
          /\ AnswerAfter(k, Upwards(k, delta), <<"incr", Number(k) + delta>>)
          /\ \E e \in Expire :
               IF resolveTTL(e) = "never"
               THEN Return(c) /\ (IF e = "NoExpiration" THEN WillStay(k) ELSE UNCHANGED forever)
               ELSE GoTo(c, "expire") /\ UNCHANGED forever
       \/ /\ IncrBy(k, delta) /\ NoAnswerAfter(k, Upwards(k, delta)) /\ WillStay(k)
          /\ Error /\ Return(c)
       \/ Nothing /\ Error /\ Return(c)
  /\ UNCHANGED <<source, calls, clean>>

EXPIRE(k) == /\ kv' = IF Found(k) THEN [kv EXCEPT ![k].ttl = "own"] ELSE kv
             /\ forever' = forever \ {k}

(* When EXPIRE fails the number is returned together with the error.       *)
IncrExpires(c) ==
  /\ At(c, "Incr", "expire")
  /\ \E k \in task[c].keys :
       \/ EXPIRE(k) /\ (Error \/ NoError)
       \/ WillStay(k) /\ Error /\ UNCHANGED kv
  /\ Return(c)
  /\ UNCHANGED <<source, calls, answers, twice, clean>>

-----------------------------------------------------------------------------
(* Load and LoadMany.                                                      *)

(* A miss, a failed GET and a hit that does not fit go on alike.           *)
Load(c) ==
  /\ At(c, "Load", "start")
  /\ \E k \in task[c].keys :
       \/ Found(k) /\ Return(c)
       \/ task' = [task EXCEPT ![c].at = "load", ![c].missing = <<k>>]
  /\ UNCHANGED <<kv, source, calls, errors, history>>

Orders(ks) == {s \in [1..Cardinality(ks) -> ks] : \A i, j \in DOMAIN s : s[i] = s[j] => i = j}

(* A failed MGET makes every key a missing one.                            *)
LoadMany(c) ==
  /\ At(c, "LoadMany", "start")
  /\ \E fits \in Fits(c) :
       LET t == Unmarshal(task[c], fits) IN
       \/ task[c].keys = fits /\ ReturnMap(c, t, TRUE)
       \/ /\ task[c].keys # fits
          /\ \E order \in Orders(task[c].keys \ fits) :
               task' = [task EXCEPT ![c] = [t EXCEPT !.at = "load", !.missing = order]]
  /\ UNCHANGED <<kv, source, calls, errors, history>>

(* The error of the SET is not looked at.                                  *)
FillOne(c) ==
  /\ task[c].at = "fill" /\ task[c].missing # <<>> /\ ~NilResult(task[c])
  /\ LET k == Head(task[c].missing)
         v == Head(task[c].results) IN
     /\ \/ \E e \in Expire : SET(k, v, e) /\ NoAnswer(k) /\ (Error \/ NoError)
        \/ Nothing /\ Error
     /\ \E u \in Received(NextMissing(task[c]), k, v) : task' = [task EXCEPT ![c] = u]
  /\ UNCHANGED <<source, calls, clean>>

-----------------------------------------------------------------------------
Crash(c) ==
  /\ task[c].at # "returned" /\ Error
  /\ Return(c)
  /\ forever' = IF At(c, "Incr", "expire") THEN forever \cup task[c].keys ELSE forever
  /\ UNCHANGED <<kv, source, calls, answers, twice, clean>>

Step(c) ==
  \/ Get(c) \/ GetOrDefault(c) \/ Exists(c) \/ GetMany(c)
  \/ Set(c) \/ SetNX(c) \/ GetAndDelete(c) \/ SetMany(c)
  \/ Delete(c) \/ DeleteMany(c) \/ Flush(c) \/ Incr(c) \/ IncrExpires(c)
  \/ Load(c) \/ LoadMany(c) \/ LoaderReturns(c) \/ LoaderFails(c)
  \/ FillNothing(c) \/ FillOne(c) \/ Filled(c)

Next == \/ \E c \in Client : Calls(c) \/ Step(c) \/ Crash(c)
        \/ Surroundings
=============================================================================
