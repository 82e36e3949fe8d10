------------------------------ MODULE Cachespi ------------------------------
(***************************************************************************)
(* What the two implementations of cachespi.Cache share: the entries, the  *)
(* data source behind the loaders, and the calls of concurrent clients.    *)
(* RistrettoCache and RedisCache add the steps a call takes.               *)
(*                                                                         *)
(* Callers keep one kind of thing under a key: data that a loader can      *)
(* fetch, a counter, or a token that SetNX places and GetAndDelete takes.  *)
(***************************************************************************)
EXTENDS Integers, Sequences, FiniteSets

CONSTANTS
  Client,
  Data, Counter, Token,  \* keys
  Absent,                \* no entry, a nil result, a receiver not populated
  Deltas,                \* deltas of Incr
  MaxVersion,            \* bound: versions of a datum
  MaxCalls,              \* bound: weight of the calls of all clients
  MaxErrors              \* bound: failed commands and crashed clients

Key   == Data \cup Counter \cup Token
Value == [of : Key, n : Int]

ASSUME CacheAssumption ==
  /\ Data \cap Counter = {} /\ Data \cap Token = {} /\ Counter \cap Token = {}
  /\ Absent \notin Value /\ Absent \notin [val : Value, ttl : {"never", "default", "own"}]
  /\ IsFiniteSet(Data) /\ Deltas \subseteq Int
  /\ MaxVersion \in Nat /\ MaxCalls \in Nat /\ MaxErrors \in Nat

VARIABLES
  kv,       \* key -> [val, ttl] or Absent
  source,   \* datum -> its version in the downstream service
  task,     \* client -> its call
  calls, errors,
  answers,  \* history: key -> exclusive answers given since it was last created
  twice,    \* history: keys an exclusive answer was given for twice
  forever,  \* history: keys stored to stay, or whose EXPIRE was lost
  clean     \* history: datum -> version at the last Delete no write overlapped

history == <<answers, twice, forever, clean>>
vars    == <<kv, source, task, calls, errors, history>>

Expire == {"NoExpiration", "DefaultExpiration", "own"}

Single == {"Get", "GetOrDefault", "Exists", "Set", "SetNX", "GetAndDelete", "Delete", "Load", "Incr"}
Many   == {"GetMany", "SetMany", "DeleteMany", "LoadMany", "Flush"}

(* A call: the keys of its receivers, those its loop has still to visit,   *)
(* missingKeys and the results of the loader from the one the loop is at,  *)
(* the values it has handed over, and those it was given to store.         *)
Empty == [k \in Key |-> Absent]
NoTask == [op |-> "none", at |-> "returned", keys |-> {}, todo |-> {}, missing |-> <<>>,
           results |-> <<>>, filled |-> Empty, args |-> Empty, ok |-> TRUE]

Init ==
  /\ kv = Empty
  /\ source = [k \in Data |-> 1]
  /\ task = [c \in Client |-> NoTask]
  /\ calls = 0 /\ errors = 0
  /\ answers = [k \in Key |-> {}] /\ twice = {} /\ forever = {}
  /\ clean = [k \in Data |-> 0]

-----------------------------------------------------------------------------
(* Calls.                                                                  *)

Uses(op) ==
  CASE op \in {"Get", "GetOrDefault", "Load", "Set"} -> Data
    [] op \in {"SetNX", "GetAndDelete", "Exists"}    -> Token
    [] op = "Incr"                                   -> Counter
    [] op = "Delete"                                 -> Key

(* Calls on data take more steps, so fewer of them are let in.             *)
Weight(ks) == IF ks \subseteq Data THEN 3 ELSE 2

(* Callers of Set and SetMany hand over what the source has at the call.   *)
Stores(op) == op \in {"Set", "SetMany"}
Arguments(ks) == [k \in Key |-> IF k \in ks THEN [of |-> k, n |-> source[k]] ELSE Absent]

Call(c, op, ks) ==
  /\ task[c].at = "returned" /\ calls + Weight(ks) <= MaxCalls
  /\ calls' = calls + Weight(ks)
  /\ task' = [task EXCEPT ![c] = [NoTask EXCEPT !.op = op, !.at = "start", !.keys = ks, !.todo = ks,
                                               !.args = IF Stores(op) THEN Arguments(ks) ELSE Empty]]
  /\ UNCHANGED <<kv, source, errors, history>>

Calls(c) ==
  \/ \E op \in Single : \E k \in Uses(op) : Call(c, op, {k})
  \/ \E op \in Many \ {"Flush"}, ks \in SUBSET Data : Call(c, op, ks)
  \/ Call(c, "Flush", {})

At(c, op, step) == task[c].op = op /\ task[c].at = step

Found(k) == kv[k] # Absent

GoTo(c, step) == task' = [task EXCEPT ![c].at = step]

(* The result of a call with one key shows in the history only.            *)
Return(c) == task' = [task EXCEPT ![c] = NoTask]

(* The receivers of GetMany and LoadMany are looked at after the return.   *)
Returned(t, ok) ==
  [t EXCEPT !.at = "returned", !.todo = {}, !.missing = <<>>, !.results = <<>>, !.ok = ok]
ReturnMap(c, t, ok) == task' = [task EXCEPT ![c] = Returned(t, ok)]

(* A receiver takes the value, or its type does not fit.                   *)
Populated(t, k, v) == [t EXCEPT !.filled[k] = v]
Dropped(t, k)      == [t EXCEPT !.keys = @ \ {k}]
Received(t, k, v)  == {Populated(t, k, v), Dropped(t, k)}

-----------------------------------------------------------------------------
(* Changes of the entries, with what they mean for the history.            *)

Put(k, v, ttl, expire) ==
  /\ kv' = [kv EXCEPT ![k] = [val |-> v, ttl |-> ttl]]
  /\ forever' = IF expire = "NoExpiration" THEN forever \cup {k} ELSE forever \ {k}

Remove(ks) ==
  /\ kv' = [k \in Key |-> IF k \in ks THEN Absent ELSE kv[k]]
  /\ forever' = forever \ ks

(* An answer that belongs to one caller: SetNX won, GetAndDelete took, the *)
(* number Incr arrived at.                                                 *)
Created(k) == ~Found(k) /\ kv'[k] # Absent
Before(k)  == IF Created(k) THEN {} ELSE answers[k]

AnswerAfter(k, earlier, a) ==
  /\ answers' = [answers EXCEPT ![k] = earlier \cup {a}]
  /\ twice' = IF a \in earlier THEN twice \cup {k} ELSE twice

NoAnswerAfter(k, earlier) ==
  /\ answers' = [answers EXCEPT ![k] = earlier]
  /\ UNCHANGED twice

Answer(k, a) == AnswerAfter(k, Before(k), a)
NoAnswer(k)  == NoAnswerAfter(k, Before(k))

(* Incr with a delta that does not count up may come to a number again.    *)
Upwards(k, delta) == IF delta > 0 THEN Before(k) ELSE {}

(* A call that holds a value for the key and has not stored it yet: a Load *)
(* with its results, or a Set.                                             *)
Missing(t) == {t.missing[i] : i \in DOMAIN t.missing}
Holds(t, k) == \/ t.at = "fill" /\ k \in Missing(t)
               \/ Stores(t.op) /\ t.at = "start" /\ k \in t.todo
Filling(k)  == \E c \in Client : Holds(task[c], k)

Cleaned(ks) ==
  clean' = [k \in Data |-> IF k \in ks /\ ~Filling(k) THEN source[k] ELSE clean[k]]

-----------------------------------------------------------------------------
(* The loader: results in the order of the keys it was asked for, nil for  *)
(* what it has not got; the last results may be left out.                  *)

Loaded(k) == {[of |-> k, n |-> source[k]], Absent}

LoaderReturns(c) ==
  /\ task[c].at = "load"
  /\ \E n \in 0..Len(task[c].missing) :
       \E rs \in [1..n -> UNION {Loaded(k) : k \in task[c].keys}] :
         /\ \A i \in 1..n : rs[i] \in Loaded(task[c].missing[i])
         /\ task' = [task EXCEPT ![c].at = "fill", ![c].results = rs]
  /\ UNCHANGED <<kv, source, calls, errors, history>>

(* Load returns the error; LoadMany takes the missing keys out of the map. *)
LoaderFails(c) ==
  /\ task[c].at = "load"
  /\ IF task[c].op = "Load" THEN Return(c)
     ELSE ReturnMap(c, [task[c] EXCEPT !.keys = @ \ Missing(task[c])], FALSE)
  /\ UNCHANGED <<kv, source, calls, errors, history>>

(* Results are taken up one by one, each for the key at its place.         *)
NilResult(t) == IF t.results = <<>> THEN TRUE ELSE Head(t.results) = Absent

(* Mutant: results[0] for every key, as in Load.                            *)
NextSameResult(t) == [t EXCEPT !.missing = Tail(@)]

NextMissing(t) == [t EXCEPT !.missing = Tail(@),
                            !.results = IF @ = <<>> THEN @ ELSE Tail(@)]

(* Mutant: the key stays in the map.                                       *)
KeepKey(c, k) == task' = [task EXCEPT ![c] = NextMissing(task[c])]

NoResult(c, k) == task' = [task EXCEPT ![c] = Dropped(NextMissing(task[c]), k)]

FillNothing(c) ==
  /\ task[c].at = "fill" /\ task[c].missing # <<>> /\ NilResult(task[c])
  /\ NoResult(c, Head(task[c].missing))
  /\ UNCHANGED <<kv, source, calls, errors, history>>

Filled(c) ==
  /\ task[c].at = "fill" /\ task[c].missing = <<>>
  /\ IF task[c].op = "Load" THEN Return(c) ELSE ReturnMap(c, task[c], TRUE)
  /\ UNCHANGED <<kv, source, calls, errors, history>>

-----------------------------------------------------------------------------
(* The surroundings.                                                       *)

Change(k) ==
  /\ source[k] < MaxVersion
  /\ source' = [source EXCEPT ![k] = @ + 1]
  /\ UNCHANGED <<kv, task, calls, errors, history>>

(* The TTL of an entry is over.                                            *)
Expires(k) ==
  /\ Found(k) /\ kv[k].ttl # "never"
  /\ Remove({k})
  /\ UNCHANGED <<source, task, calls, errors, answers, twice, clean>>

Surroundings == \/ \E k \in Data : Change(k)
                \/ \E k \in Key : Expires(k)

-----------------------------------------------------------------------------
(* Properties.                                                             *)

(* Results are matched to keys by position: whatever is stored or handed   *)
(* over for a key is a value of this key, and no version the source has    *)
(* not reached.                                                            *)
Own(k, v)  == v # Absent => v.of = k /\ (k \in Data => v.n <= source[k])
OwnValues ==
  /\ \A k \in Key : Found(k) => Own(k, kv[k].val)
  /\ \A c \in Client, k \in Key : Own(k, task[c].filled[k])

(* GetMany and LoadMany leave exactly the populated receivers in the map;  *)
(* the one error that leaves others is that of a failed MGET in GetMany.   *)
FilledOrRemoved ==
  \A c \in Client :
    LET t == task[c] IN
    t.op \in {"GetMany", "LoadMany"} /\ t.at = "returned" /\ (t.ok \/ t.op = "LoadMany")
      => t.keys = {k \in Key : t.filled[k] # Absent}

(* After a Delete that no fill and no Set overlapped nobody finds a value  *)
(* older than it in the cache: what is stored later was read later.        *)
NothingOlderThanDelete == \A k \in Data : Found(k) => kv[k].val.n >= clean[k]

(* An entry without a TTL was stored with NoExpiration, or is a counter    *)
(* between INCRBY and EXPIRE, or one whose EXPIRE never came.              *)
Expiring(k) == \E c \in Client : At(c, "Incr", "expire") /\ k \in task[c].keys
ForeverOnlyAsAsked ==
  \A k \in Key : Found(k) /\ kv[k].ttl = "never" => k \in forever \/ Expiring(k)
=============================================================================
