---------------------------- MODULE Caches_proofs ----------------------------
EXTENDS Caches, FiniteSetTheorems, TLAPS

(* Types.                                                                  *)
Entry   == [val : Value, ttl : {"never", "default", "own"}]
Maybe   == Value \cup {Absent}
TaskRec == [op : Single \cup Many \cup {"none"},
            at : {"returned", "start", "write", "expire", "load", "fill"},
            keys : SUBSET Key, todo : SUBSET Key, missing : Seq(Key),
            results : Seq(Maybe), filled : [Key -> Maybe], args : [Key -> Maybe],
            ok : BOOLEAN]

CacheTypes ==
  /\ kv \in [Key -> Entry \cup {Absent}]
  /\ source \in [Data -> Nat] /\ clean \in [Data -> Nat]
  /\ \A k \in Data : clean[k] <= source[k]
  /\ task \in [Client -> TaskRec]
  /\ backend \in {"Ristretto", "Redis"}

(* A call works on keys of the kind its operation is for.                  *)
RightKeys(t) ==
  /\ Missing(t) \subseteq t.keys /\ (t.at = "start" => t.todo \subseteq t.keys)
  /\ t.op \in {"Get", "GetOrDefault", "Load", "Set"} \cup (Many \ {"Flush"}) => t.keys \subseteq Data
  /\ t.op \in {"SetNX", "GetAndDelete", "Exists"} => t.keys \subseteq Token
  /\ t.op = "Incr" => \E k \in Counter : t.keys = {k}
  /\ t.at \in {"load", "fill"} => t.op \in {"Load", "LoadMany"}

(* The receivers a call has filled are those its loops are done with.      *)
FilledKeys(t) == {k \in Key : t.filled[k] # Absent}
Loops(t) ==
  /\ \A i, j \in 1..Len(t.missing) : t.missing[i] = t.missing[j] => i = j
  /\ (t.op = "Set" /\ t.at = "start") => t.todo = t.keys
  /\ (t.op = "GetMany" /\ t.at = "start") => t.missing = <<>> /\ t.keys \ t.todo = FilledKeys(t)
  /\ (t.op = "LoadMany" /\ t.at = "start") =>
        Missing(t) \cap t.todo = {} /\ t.keys \ (t.todo \cup Missing(t)) = FilledKeys(t)
  /\ (backend = "Redis" /\ t.op \in {"GetMany", "LoadMany"} /\ t.at = "start") =>
        t.todo = t.keys /\ t.missing = <<>>
  /\ (t.op = "LoadMany" /\ t.at \in {"load", "fill"}) => t.keys \ Missing(t) = FilledKeys(t)
  /\ (t.op \in {"GetMany", "LoadMany"} /\ t.at = "returned" /\ (t.ok \/ t.op = "LoadMany")) =>
        t.keys = FilledKeys(t)

(* What a loader handed over, Incr read or a Set was given belongs to the  *)
(* key at its place, and is no older than the last clean Delete.           *)
Fresh(k, v) == /\ v \in Value /\ v.of = k
               /\ k \in Data => clean[k] <= v.n /\ v.n <= source[k]
Results(t) ==
  /\ t.at = "fill" =>
       /\ Len(t.results) <= Len(t.missing)
       /\ \A i \in 1..Len(t.results) : t.results[i] # Absent => Fresh(t.missing[i], t.results[i])
  /\ (t.op = "Incr" /\ t.at = "write") => \A k \in t.keys : Fresh(k, t.results[1])
  /\ (Stores(t.op) /\ t.at = "start") => \A k \in t.todo : Fresh(k, t.args[k])
  /\ \A k \in Key : Own(k, t.filled[k])

TaskOK(t) == t \in TaskRec /\ RightKeys(t) /\ Loops(t) /\ Results(t)

EntriesFresh == \A k \in Key : Found(k) => Fresh(k, kv[k].val)

(* On Redis an answer that was given cannot be given again.                *)
Spent(k) == \A a \in answers[k] : /\ a # <<"took", 0>>
                                  /\ a[1] = "incr" => k \in Counter /\ a[2] <= kv[k].val.n
Exclusive ==
  backend = "Redis" =>
    /\ twice = {} /\ answers \in [Key -> SUBSET ({"won", "took", "incr"} \X Int)]
    /\ \A k \in Key : Found(k) => Spent(k)

CacheInv == /\ CacheTypes /\ (\A c \in Client : TaskOK(task[c]))
            /\ EntriesFresh /\ ForeverOnlyAsAsked /\ Exclusive

-----------------------------------------------------------------------------
(* Lemmas.                                                                 *)

(* Keys for data, counters and tokens are apart.                           *)
LEMMA KeyKinds ==
  /\ Data \subseteq Key /\ Counter \subseteq Key /\ Token \subseteq Key
  /\ \A k \in Counter : k \notin Data /\ k \notin Token
  /\ \A k \in Token : k \notin Data
  /\ Absent \notin Value /\ Absent \notin Entry
  BY CacheAssumption DEF Key, Entry

(* What a call has and holds stays right while other calls work.           *)
LEMMA TaskFrame ==
  ASSUME CacheTypes, CacheTypes', backend' = backend, NEW t, TaskOK(t),
         \A k \in Data : source[k] <= source'[k],
         \A k \in Data : Holds(t, k) => clean'[k] = clean[k]
  PROVE  TaskOK(t)'
<1>1. t \in TaskRec /\ RightKeys(t) /\ Loops(t) /\ Results(t)
  BY DEF TaskOK
<1>2. RightKeys(t)' /\ Loops(t)'
  BY <1>1 DEF RightKeys, Loops
<1>3. ASSUME t.at = "fill"
      PROVE  \A i \in 1..Len(t.results) : t.results[i] # Absent => Fresh(t.missing[i], t.results[i])'
  <2> SUFFICES ASSUME NEW i \in 1..Len(t.results), t.results[i] # Absent
               PROVE  Fresh(t.missing[i], t.results[i])'
    OBVIOUS
  <2>1. i \in DOMAIN t.missing /\ Fresh(t.missing[i], t.results[i])
    BY <1>1, <1>3 DEF Results, TaskRec
  <2>2. Holds(t, t.missing[i])
    BY <1>3, <2>1 DEF Missing, Holds
  <2>3. t.missing[i] \in Data => /\ clean'[t.missing[i]] = clean[t.missing[i]]
                                 /\ source[t.missing[i]] <= source'[t.missing[i]]
                                 /\ source[t.missing[i]] \in Nat /\ source'[t.missing[i]] \in Nat
    BY <1>3, <2>2 DEF CacheTypes
  <2>4. t.results[i].n \in Int
    BY <2>1 DEF Fresh, Value
  <2> QED
    BY <2>1, <2>3, <2>4 DEF Fresh
<1>4. ASSUME t.op = "Incr", t.at = "write" PROVE \A k \in t.keys : Fresh(k, t.results[1])'
  BY <1>1, <1>4, KeyKinds DEF RightKeys, Results, Fresh
<1>5. \A k \in Key : Own(k, t.filled[k])'
  <2> SUFFICES ASSUME NEW k \in Key, t.filled[k] # Absent
               PROVE  t.filled[k].of = k /\ (k \in Data => t.filled[k].n <= source'[k])
    BY DEF Own
  <2>1. Own(k, t.filled[k])
    BY <1>1 DEF Results
  <2>2. t.filled[k] \in Value
    BY <1>1 DEF TaskRec, Maybe
  <2>3. k \in Data => source[k] \in Nat /\ source'[k] \in Nat
    BY DEF CacheTypes
  <2> QED
    BY <2>1, <2>2, <2>3 DEF Own, Value
<1>6. ASSUME Stores(t.op), t.at = "start", NEW k \in t.todo PROVE Fresh(k, t.args[k])'
  <2>1. Fresh(k, t.args[k])
    BY <1>1, <1>6 DEF Results
  <2>2. k \in Data => clean'[k] = clean[k]
    BY <1>6 DEF Holds
  <2>3. k \in Data => source[k] <= source'[k] /\ source[k] \in Nat /\ source'[k] \in Nat
    BY DEF CacheTypes
  <2>4. t.args[k].n \in Int
    BY <2>1 DEF Fresh, Value
  <2> QED
    BY <2>1, <2>2, <2>3, <2>4 DEF Fresh
<1>7. Results(t)'
  BY <1>1, <1>3, <1>4, <1>5, <1>6 DEF Results
<1> QED
  BY <1>1, <1>2, <1>7 DEF TaskOK

(* Calls that may hold values they have not stored yet.                    *)
Carries(u) == u.at = "fill" \/ (Stores(u.op) /\ u.at = "start")

(* A step of a call, or none.                                              *)
Moves ==
  \/ task' = task
  \/ \E c \in Client : \E u :
       /\ task' = [task EXCEPT ![c] = u] /\ TaskOK(u) /\ ~At(c, "Incr", "expire")
       /\ Carries(u) => clean' = clean

(* Deletes leave those alone that a fill or a Set overlaps.                *)
LEMMA CleanKeeps ==
  ASSUME CacheInv, clean' = clean \/ \E ks : Cleaned(ks), source' = source
  PROVE  /\ clean' \in [Data -> Nat] /\ \A k \in Data : clean'[k] <= source'[k]
         /\ \A k \in Data : clean'[k] = clean[k] \/ (clean'[k] = source[k] /\ ~Filling(k))
         /\ \A c \in Client : \A k \in Data : Holds(task[c], k) => clean'[k] = clean[k]
<1>1. source \in [Data -> Nat] /\ clean \in [Data -> Nat] /\ \A k \in Data : clean[k] <= source[k]
  BY DEF CacheInv, CacheTypes
<1>2. /\ clean' \in [Data -> Nat]
      /\ \A k \in Data : clean'[k] = clean[k] \/ (clean'[k] = source[k] /\ ~Filling(k))
  BY <1>1 DEF Cleaned
<1>3. \A c \in Client : \A k \in Data : Holds(task[c], k) => Filling(k)
  BY DEF Filling
<1>4. \A k \in Data : clean'[k] <= source'[k]
  BY <1>1, <1>2
<1> QED
  BY <1>2, <1>3, <1>4

(* Other clients' calls stay right when one client's call moves on and     *)
(* some keys are deleted.                                                  *)
LEMMA TasksKeep ==
  ASSUME CacheInv, NEW c \in Client, NEW u, task' = [task EXCEPT ![c] = u], TaskOK(u),
         Carries(u) => clean' = clean, source' = source, backend' = backend,
         clean' = clean \/ \E ks : Cleaned(ks), kv' \in [Key -> Entry \cup {Absent}]
  PROVE  /\ CacheTypes' /\ \A d \in Client : TaskOK(task[d])'
         /\ task'[c] = u /\ \A d \in Client \ {c} : task'[d] = task[d]
<1>1. CacheTypes /\ \A d \in Client : TaskOK(task[d])
  BY DEF CacheInv
<1>2. /\ clean' \in [Data -> Nat] /\ \A k \in Data : clean'[k] <= source'[k]
      /\ \A d \in Client : \A k \in Data : Holds(task[d], k) => clean'[k] = clean[k]
  BY CleanKeeps
<1>3. \A k \in Data : source[k] <= source'[k]
  BY <1>1 DEF CacheTypes
<1>4. CacheTypes'
  BY <1>1, <1>2 DEF CacheTypes, TaskOK
<1>5. TaskOK(u)'
  <2>1. \A k \in Data : Holds(u, k) => clean'[k] = clean[k]
    BY DEF Holds, Carries
  <2> QED
    BY <1>1, <1>3, <1>4, <2>1, TaskFrame
<1>6. task'[c] = u /\ \A d \in Client \ {c} : task'[d] = task[d]
  BY <1>1 DEF CacheTypes
<1>7. ASSUME NEW d \in Client \ {c} PROVE TaskOK(task[d])'
  <2>1. PICK t : t = task[d]
    OBVIOUS
  <2>2. t = task'[d] /\ TaskOK(t) /\ \A k \in Data : Holds(t, k) => clean'[k] = clean[k]
    BY <1>1, <1>2, <1>6, <2>1
  <2>3. TaskOK(t)'
    BY <1>1, <1>3, <1>4, <2>2, TaskFrame
  <2> QED
    BY <2>2, <2>3
<1> QED
  BY <1>4, <1>5, <1>6, <1>7

(* The same for a step of any call, or of none.                            *)
LEMMA MovesKeep ==
  ASSUME CacheInv, Moves, source' = source, backend' = backend,
         clean' = clean \/ \E ks : Cleaned(ks), kv' \in [Key -> Entry \cup {Absent}]
  PROVE  /\ CacheTypes' /\ \A c \in Client : TaskOK(task[c])'
         /\ \A k : Expiring(k) => Expiring(k)'
<1>1. CASE task' = task
  <2>1. CacheTypes /\ \A c \in Client : TaskOK(task[c])
    BY DEF CacheInv
  <2>2. /\ clean' \in [Data -> Nat] /\ \A k \in Data : clean'[k] <= source'[k]
        /\ \A c \in Client : \A k \in Data : Holds(task[c], k) => clean'[k] = clean[k]
    BY CleanKeeps
  <2>3. \A k \in Data : source[k] <= source'[k]
    BY <2>1 DEF CacheTypes
  <2>4. CacheTypes'
    BY <1>1, <2>1, <2>2 DEF CacheTypes
  <2>5. ASSUME NEW c \in Client PROVE TaskOK(task[c])'
    <3>1. PICK t : t = task[c]
      OBVIOUS
    <3>2. t = task'[c] /\ TaskOK(t) /\ \A k \in Data : Holds(t, k) => clean'[k] = clean[k]
      BY <1>1, <2>1, <2>2, <3>1
    <3>3. TaskOK(t)'
      BY <2>1, <2>3, <2>4, <3>2, TaskFrame
    <3> QED
      BY <3>2, <3>3
  <2> QED
    BY <1>1, <2>4, <2>5 DEF Expiring, At
<1>2. ASSUME NEW c \in Client, NEW u, task' = [task EXCEPT ![c] = u], TaskOK(u),
             ~At(c, "Incr", "expire"), Carries(u) => clean' = clean
      PROVE  /\ CacheTypes' /\ \A d \in Client : TaskOK(task[d])'
             /\ \A k : Expiring(k) => Expiring(k)'
  <2>1. /\ CacheTypes' /\ \A d \in Client : TaskOK(task[d])'
        /\ \A d \in Client \ {c} : task'[d] = task[d]
    BY <1>2, TasksKeep
  <2> QED
    BY <1>2, <2>1 DEF Expiring, At
<1> QED
  BY <1>1, <1>2 DEF Moves

(* What a step may do to the entries: nothing, store a value that is the   *)
(* key's own, or remove some.                                              *)
LEMMA QuietKeeps ==
  ASSUME CacheInv, Moves, UNCHANGED <<kv, source, forever, clean, backend>>,
         backend = "Redis" => UNCHANGED <<answers, twice>>
  PROVE  CacheInv'
<1>1. kv' \in [Key -> Entry \cup {Absent}]
  BY DEF CacheInv, CacheTypes
<1>2. /\ CacheTypes' /\ \A c \in Client : TaskOK(task[c])'
      /\ \A k : Expiring(k) => Expiring(k)'
  BY <1>1, MovesKeep
<1>3. EntriesFresh'
  BY DEF CacheInv, EntriesFresh, Found, Fresh
<1>4. ForeverOnlyAsAsked'
  BY <1>2 DEF CacheInv, ForeverOnlyAsAsked, Found
<1>5. Exclusive'
  BY DEF CacheInv, Exclusive, Found, Spent
<1> QED
  BY <1>2, <1>3, <1>4, <1>5 DEF CacheInv

(* A fresh value of the key itself is stored, for good only when that was  *)
(* asked for; on Redis an answer that comes with it is the first since the *)
(* entry was created.                                                      *)
LEMMA PutKeeps ==
  ASSUME CacheInv, Moves, UNCHANGED <<source, clean, backend>>,
         NEW k \in Key, NEW v, Fresh(k, v), NEW ttl \in {"never", "default", "own"}, NEW e,
         ttl = "never" <=> e = "NoExpiration", Put(k, v, ttl, e),
         backend = "Redis" => \/ k \in Data /\ NoAnswer(k)
                              \/ ~Found(k) /\ (NoAnswer(k) \/ Answer(k, <<"won", 0>>))
  PROVE  CacheInv'
<1>1. CacheTypes /\ v \in Value
  BY DEF CacheInv, Fresh
<1>2. [val |-> v, ttl |-> ttl] \in Entry
  BY <1>1 DEF Entry
<1>3. /\ kv' \in [Key -> Entry \cup {Absent}] /\ kv'[k] = [val |-> v, ttl |-> ttl]
      /\ \A q \in Key \ {k} : kv'[q] = kv[q]
  BY <1>1, <1>2 DEF CacheTypes, Put
<1>4. /\ CacheTypes' /\ \A c \in Client : TaskOK(task[c])'
      /\ \A q : Expiring(q) => Expiring(q)'
  BY <1>3, MovesKeep
<1>5. EntriesFresh'
  <2> SUFFICES ASSUME NEW q \in Key, Found(q)' PROVE Fresh(q, kv[q].val)'
    BY DEF EntriesFresh
  <2>1. CASE q = k
    BY <1>3, <2>1 DEF Fresh
  <2>2. CASE q # k
    BY <1>3, <2>2 DEF CacheInv, EntriesFresh, Found, Fresh
  <2> QED
    BY <2>1, <2>2
<1>6. ForeverOnlyAsAsked'
  <2> SUFFICES ASSUME NEW q \in Key, Found(q)', kv'[q].ttl = "never"
               PROVE  q \in forever' \/ Expiring(q)'
    BY DEF ForeverOnlyAsAsked
  <2>1. CASE q = k
    BY <1>3, <2>1 DEF Put
  <2>2. CASE q # k
    <3>1. q \in forever \/ Expiring(q)
      BY <1>3, <2>2 DEF CacheInv, ForeverOnlyAsAsked, Found
    <3> QED
      BY <1>4, <2>2, <3>1 DEF Put
  <2> QED
    BY <2>1, <2>2
<1>7. Exclusive'
  <2> SUFFICES ASSUME backend = "Redis"
               PROVE  /\ twice' = {} /\ answers' \in [Key -> SUBSET ({"won", "took", "incr"} \X Int)]
                      /\ \A q \in Key : Found(q)' => Spent(q)'
    BY DEF Exclusive
  <2>1. /\ twice = {} /\ answers \in [Key -> SUBSET ({"won", "took", "incr"} \X Int)]
        /\ \A q \in Key : Found(q) => Spent(q)
    BY DEF CacheInv, Exclusive
  <2>2. kv'[k] # Absent
    BY <1>2, <1>3, KeyKinds
  <2>3. Before(k) = IF Found(k) THEN answers[k] ELSE {}
    BY <2>2 DEF Before, Created
  <2>4. \A q \in Key \ {k} : answers'[q] = answers[q]
    BY <2>1 DEF NoAnswer, NoAnswerAfter, Answer, AnswerAfter
  <2>5. ASSUME NEW q \in Key, Found(q)', q # k PROVE Spent(q)'
    BY <1>3, <2>1, <2>4, <2>5 DEF Found, Spent
  <2>6. CASE k \in Data /\ Found(k) /\ NoAnswer(k)
    <3>1. answers' = answers /\ twice' = twice
      BY <2>1, <2>3, <2>6 DEF NoAnswer, NoAnswerAfter
    <3>2. k \notin Counter /\ Spent(k)
      BY <2>1, <2>6, KeyKinds
    <3>3. Spent(k)'
      BY <3>1, <3>2 DEF Spent
    <3> QED
      BY <2>1, <2>5, <3>1, <3>3
  <2>7. CASE ~Found(k) /\ NoAnswer(k)
    <3>1. answers' = [answers EXCEPT ![k] = {}] /\ twice' = twice
      BY <2>3, <2>7 DEF NoAnswer, NoAnswerAfter
    <3>2. Spent(k)'
      BY <2>1, <3>1 DEF Spent
    <3> QED
      BY <2>1, <2>5, <3>1, <3>2
  <2>8. CASE ~Found(k) /\ Answer(k, <<"won", 0>>)
    <3>1. answers' = [answers EXCEPT ![k] = {<<"won", 0>>}] /\ twice' = twice
      BY <2>3, <2>8 DEF Answer, AnswerAfter
    <3>2. Spent(k)'
      BY <2>1, <3>1 DEF Spent
    <3> QED
      BY <2>1, <2>5, <3>1, <3>2
  <2> QED
    BY <2>6, <2>7, <2>8
<1> QED
  BY <1>4, <1>5, <1>6, <1>7 DEF CacheInv

(* Entries are removed; on Redis an answer that comes with it takes an     *)
(* entry that was there.                                                   *)
LEMMA RemoveKeeps ==
  ASSUME CacheInv, Moves, UNCHANGED <<source, backend>>,
         NEW ks, Remove(ks), clean' = clean \/ Cleaned(ks),
         backend = "Redis" => \/ UNCHANGED <<answers, twice>>
                              \/ \E k \in Key : /\ ks = {k} /\ Found(k)
                                                /\ NoAnswer(k) \/ Answer(k, <<"took", 0>>)
  PROVE  CacheInv'
<1>1. CacheTypes
  BY DEF CacheInv
<1>2. /\ kv' \in [Key -> Entry \cup {Absent}]
      /\ \A q \in Key : kv'[q] = IF q \in ks THEN Absent ELSE kv[q]
  BY <1>1 DEF CacheTypes, Remove
<1>3. /\ CacheTypes' /\ \A c \in Client : TaskOK(task[c])'
      /\ \A q : Expiring(q) => Expiring(q)'
  BY <1>2, MovesKeep
<1>4. EntriesFresh'
  <2> SUFFICES ASSUME NEW q \in Key, Found(q)' PROVE Fresh(q, kv[q].val)'
    BY DEF EntriesFresh
  <2>1. q \notin ks /\ kv'[q] = kv[q]
    BY <1>2 DEF Found
  <2>2. q \in Data => clean'[q] = clean[q]
    BY <2>1 DEF Cleaned
  <2> QED
    BY <2>1, <2>2 DEF CacheInv, EntriesFresh, Found, Fresh
<1>5. ForeverOnlyAsAsked'
  <2> SUFFICES ASSUME NEW q \in Key, Found(q)', kv'[q].ttl = "never"
               PROVE  q \in forever' \/ Expiring(q)'
    BY DEF ForeverOnlyAsAsked
  <2>1. q \notin ks /\ kv'[q] = kv[q]
    BY <1>2 DEF Found
  <2>2. q \in forever \/ Expiring(q)
    BY <2>1 DEF CacheInv, ForeverOnlyAsAsked, Found
  <2> QED
    BY <1>3, <2>1, <2>2 DEF Remove
<1>6. Exclusive'
  <2> SUFFICES ASSUME backend = "Redis"
               PROVE  /\ twice' = {} /\ answers' \in [Key -> SUBSET ({"won", "took", "incr"} \X Int)]
                      /\ \A q \in Key : Found(q)' => Spent(q)'
    BY DEF Exclusive
  <2>1. /\ twice = {} /\ answers \in [Key -> SUBSET ({"won", "took", "incr"} \X Int)]
        /\ \A q \in Key : Found(q) => Spent(q)
    BY DEF CacheInv, Exclusive
  <2>2. \A q \in Key : Found(q)' => Found(q) /\ kv'[q] = kv[q] /\ q \notin ks
    BY <1>2 DEF Found
  <2>3. CASE UNCHANGED <<answers, twice>>
    BY <2>1, <2>2, <2>3 DEF Spent
  <2>4. ASSUME NEW k \in Key, ks = {k}, Found(k), NoAnswer(k) \/ Answer(k, <<"took", 0>>)
        PROVE  /\ twice' = {} /\ answers' \in [Key -> SUBSET ({"won", "took", "incr"} \X Int)]
               /\ \A q \in Key : Found(q)' => Spent(q)'
    <3>1. Before(k) = answers[k]
      BY <2>4 DEF Before, Created
    <3>2. <<"took", 0>> \notin Before(k)
      BY <2>1, <2>4, <3>1 DEF Spent
    <3>3. /\ twice' = {} /\ \A q \in Key \ {k} : answers'[q] = answers[q]
          /\ answers' \in [Key -> SUBSET ({"won", "took", "incr"} \X Int)]
      <4>1. CASE NoAnswer(k)
        BY <2>1, <3>1, <4>1 DEF NoAnswer, NoAnswerAfter
      <4>2. CASE Answer(k, <<"took", 0>>)
        <5>1. Before(k) \cup {<<"took", 0>>} \in SUBSET ({"won", "took", "incr"} \X Int)
          BY <2>1, <3>1
        <5> QED
          BY <2>1, <3>2, <4>2, <5>1 DEF Answer, AnswerAfter
      <4> QED
        BY <2>4, <4>1, <4>2
    <3> QED
      BY <2>1, <2>2, <2>4, <3>3 DEF Spent
  <2> QED
    BY <2>3, <2>4
<1> QED
  BY <1>3, <1>4, <1>5, <1>6 DEF CacheInv

-----------------------------------------------------------------------------
(* Steps of calls.                                                         *)

(* A client without a call.                                                *)
LEMMA EmptyTask == ASSUME CacheTypes PROVE TaskOK(NoTask)
<1>1. NoTask \in TaskRec
  BY DEF NoTask, TaskRec, Empty, Maybe
<1>2. Missing(NoTask) = {}
  BY DEF NoTask, Missing
<1>3. RightKeys(NoTask)
  BY <1>2 DEF RightKeys, NoTask, Many
<1>4. Loops(NoTask)
  BY DEF Loops, NoTask
<1>5. Results(NoTask)
  BY DEF Results, NoTask, Own, Empty
<1> QED
  BY <1>1, <1>3, <1>4, <1>5 DEF TaskOK

(* A call that returns leaves no call behind.                              *)
LEMMA ReturnMoves ==
  ASSUME CacheInv, NEW c \in Client, Return(c), ~At(c, "Incr", "expire") PROVE Moves
<1>1. TaskOK(NoTask) /\ NoTask.at # "fill"
  BY EmptyTask DEF CacheInv, NoTask
<1>2. ~Carries(NoTask)
  BY DEF Carries, Stores, NoTask
<1> QED
  BY <1>1, <1>2 DEF Return, Moves

(* A call that makes no loop and holds no result goes on.                  *)
LEMMA NewCall ==
  ASSUME CacheTypes, NEW op \in Single \cup Many, NEW ks \in SUBSET Key,
         op \in {"Get", "GetOrDefault", "Load", "Set"} \cup (Many \ {"Flush"}) => ks \subseteq Data,
         op \in {"SetNX", "GetAndDelete", "Exists"} => ks \subseteq Token,
         op = "Incr" => \E k \in Counter : ks = {k}
  PROVE  TaskOK([NoTask EXCEPT !.op = op, !.at = "start", !.keys = ks, !.todo = ks,
                               !.args = IF Stores(op) THEN Arguments(ks) ELSE Empty])
<1>0. PICK given : given = IF Stores(op) THEN Arguments(ks) ELSE Empty
  OBVIOUS
<1>1. PICK u : u = [NoTask EXCEPT !.op = op, !.at = "start", !.keys = ks, !.todo = ks, !.args = given]
  OBVIOUS
<1>2. NoTask \in TaskRec /\ NoTask.missing = <<>> /\ NoTask.results = <<>> /\ NoTask.filled = Empty
  BY EmptyTask DEF TaskOK, NoTask
<1>a. /\ given \in [Key -> Maybe]
      /\ Stores(op) => \A k \in ks : k \in Data /\ given[k] = [of |-> k, n |-> source[k]]
  <2>1. Stores(op) => ks \subseteq Data
    BY DEF Stores, Many
  <2>2. \A k \in Data : [of |-> k, n |-> source[k]] \in Value
    BY KeyKinds DEF CacheTypes, Value
  <2>4. Stores(op) => Arguments(ks) \in [Key -> Maybe]
    BY <2>1, <2>2 DEF Arguments, Maybe
  <2>5. Empty \in [Key -> Maybe]
    BY DEF Empty, Maybe
  <2> QED
    BY <1>0, <2>1, <2>4, <2>5, KeyKinds DEF Arguments
<1>3. u \in TaskRec /\ u.op = op /\ u.at = "start" /\ u.keys = ks /\ u.todo = ks
      /\ u.missing = <<>> /\ u.results = <<>> /\ u.filled = Empty /\ u.args = given
  BY <1>1, <1>2, <1>a DEF TaskRec
<1>b. ASSUME Stores(op), NEW k \in ks PROVE Fresh(k, given[k])
  <2>1. k \in Data /\ given[k] = [of |-> k, n |-> source[k]]
    BY <1>a, <1>b
  <2>2. source[k] \in Nat /\ clean[k] <= source[k]
    BY <2>1 DEF CacheTypes
  <2> QED
    BY <2>1, <2>2, KeyKinds DEF Fresh, Value
<1>4. Missing(u) = {}
  BY <1>3 DEF Missing
<1>5. RightKeys(u)
  BY <1>3, <1>4 DEF RightKeys
<1>6. FilledKeys(u) = {}
  BY <1>3 DEF FilledKeys, Empty
<1>7. Loops(u)
  BY <1>3, <1>4, <1>6 DEF Loops
<1>8. Results(u)
  BY <1>3, <1>b DEF Results, Own, Empty
<1> QED
  BY <1>0, <1>1, <1>3, <1>5, <1>7, <1>8 DEF TaskOK

(* A client calls an operation.                                            *)
LEMMA CallsKeep == ASSUME CacheInv, NEW c \in Client, Calls(c), backend' = backend PROVE CacheInv'
<1>1. ASSUME NEW op \in Single \cup Many, NEW ks \in SUBSET Key, Call(c, op, ks),
             op \in {"Get", "GetOrDefault", "Load", "Set"} \cup (Many \ {"Flush"}) => ks \subseteq Data,
             op \in {"SetNX", "GetAndDelete", "Exists"} => ks \subseteq Token,
             op = "Incr" => \E k \in Counter : ks = {k}
      PROVE  CacheInv'
  <2>1. PICK u : u = [NoTask EXCEPT !.op = op, !.at = "start", !.keys = ks, !.todo = ks,
                                    !.args = IF Stores(op) THEN Arguments(ks) ELSE Empty]
    OBVIOUS
  <2>2. TaskOK(u)
    BY <1>1, <2>1, NewCall DEF CacheInv
  <2>3. ~At(c, "Incr", "expire") /\ task' = [task EXCEPT ![c] = u] /\ clean' = clean
    BY <1>1, <2>1 DEF Call, At, NoTask, history
  <2>4. Moves
    BY <2>2, <2>3 DEF Moves
  <2> QED
    BY <1>1, <2>4, QuietKeeps DEF Call, history
<1>2. ASSUME NEW op \in Single, NEW k \in Uses(op), Call(c, op, {k}) PROVE CacheInv'
  <2>1. /\ op \in {"Get", "GetOrDefault", "Load", "Set"} => k \in Data
        /\ op \in {"SetNX", "GetAndDelete", "Exists"} => k \in Token
        /\ op = "Incr" => k \in Counter
        /\ op = "Delete" => k \in Key
    BY <1>2 DEF Uses
  <2>2. k \in Key
    BY <1>2, <2>1, KeyKinds DEF Single
  <2>3. op \notin Many
    BY <1>2 DEF Single, Many
  <2> QED
    BY <1>1, <1>2, <2>1, <2>2, <2>3
<1>3. ASSUME NEW op \in Many \ {"Flush"}, NEW ks \in SUBSET Data, Call(c, op, ks) PROVE CacheInv'
  BY <1>1, <1>3, KeyKinds DEF Many
<1>4. ASSUME Call(c, "Flush", {}) PROVE CacheInv'
  BY <1>1, <1>4 DEF Many
<1> QED
  BY <1>2, <1>3, <1>4 DEF Calls

(* A call with one key looks at its entry and goes on to write.            *)
LEMMA GoMoves ==
  ASSUME CacheInv, NEW c \in Client, NEW step \in {"write", "expire"}, GoTo(c, step),
         task[c].at = "start", task[c].op = "Incr" => step = "expire"
  PROVE  Moves
<1>1. PICK t : t = task[c]
  OBVIOUS
<1>2. PICK u : u = [t EXCEPT !.at = step]
  OBVIOUS
<1>3. TaskOK(t) /\ t \in TaskRec /\ t.at = "start"
  BY <1>1 DEF CacheInv, TaskOK
<1>4. /\ u \in TaskRec /\ u.at = step /\ u.op = t.op /\ u.keys = t.keys /\ u.todo = t.todo
      /\ u.missing = t.missing /\ u.results = t.results /\ u.filled = t.filled /\ u.ok = t.ok
  BY <1>2, <1>3 DEF TaskRec
<1>5. RightKeys(u) /\ Loops(u) /\ Results(u)
  BY <1>1, <1>3, <1>4 DEF TaskOK, RightKeys, Loops, Results, Missing
<1>6. TaskOK(u)
  BY <1>4, <1>5 DEF TaskOK
<1>7. task' = [task EXCEPT ![c] = u] /\ ~Carries(u) /\ ~At(c, "Incr", "expire")
  BY <1>1, <1>2, <1>3, <1>4 DEF GoTo, At, Carries
<1> QED
  BY <1>6, <1>7 DEF Moves

(* The loops of SetMany and DeleteMany.                                    *)
LEMMA LoopMoves ==
  ASSUME CacheInv, NEW c \in Client, task[c].at = "start", task[c].op \in {"SetMany", "DeleteMany"},
         NEW k, task' = [task EXCEPT ![c].todo = @ \ {k}],
         task[c].op = "SetMany" => clean' = clean
  PROVE  Moves
<1>1. PICK t : t = task[c]
  OBVIOUS
<1>2. PICK u : u = [t EXCEPT !.todo = @ \ {k}]
  OBVIOUS
<1>3. TaskOK(t) /\ t \in TaskRec /\ t.at = "start" /\ t.op \in {"SetMany", "DeleteMany"}
  BY <1>1 DEF CacheInv, TaskOK
<1>4. /\ u \in TaskRec /\ u.at = "start" /\ u.op = t.op /\ u.keys = t.keys /\ u.todo = t.todo \ {k}
      /\ u.missing = t.missing /\ u.results = t.results /\ u.filled = t.filled /\ u.ok = t.ok
      /\ u.args = t.args
  BY <1>2, <1>3 DEF TaskRec
<1>5. RightKeys(u) /\ Loops(u) /\ Results(u)
  BY <1>3, <1>4 DEF TaskOK, RightKeys, Loops, Results, Missing
<1>6. TaskOK(u)
  BY <1>4, <1>5 DEF TaskOK
<1>7. task' = [task EXCEPT ![c] = u] /\ (Carries(u) => clean' = clean) /\ ~At(c, "Incr", "expire")
  BY <1>1, <1>2, <1>3, <1>4 DEF At, Carries, Stores
<1> QED
  BY <1>6, <1>7 DEF Moves

(* The keys a call has still to fill, one taken off or one put on.         *)
LEMMA MissingTail ==
  ASSUME NEW m \in Seq(Key), m # <<>>, \A i, j \in 1..Len(m) : m[i] = m[j] => i = j
  PROVE  /\ Tail(m) \in Seq(Key) /\ Head(m) \in Key /\ Head(m) = m[1]
         /\ Len(Tail(m)) = Len(m) - 1 /\ \A i \in 1..Len(m) - 1 : Tail(m)[i] = m[i + 1]
         /\ \A i, j \in 1..Len(Tail(m)) : Tail(m)[i] = Tail(m)[j] => i = j
         /\ {Tail(m)[i] : i \in DOMAIN Tail(m)} = {m[i] : i \in DOMAIN m} \ {Head(m)}
<1>1. /\ Tail(m) \in Seq(Key) /\ Head(m) = m[1] /\ Len(m) \in Nat /\ Len(m) > 0
      /\ Len(Tail(m)) = Len(m) - 1 /\ \A i \in 1..Len(m) - 1 : Tail(m)[i] = m[i + 1]
  OBVIOUS
<1>2. \A i, j \in 1..Len(Tail(m)) : Tail(m)[i] = Tail(m)[j] => i = j
  <2> SUFFICES ASSUME NEW i \in 1..Len(Tail(m)), NEW j \in 1..Len(Tail(m)), Tail(m)[i] = Tail(m)[j]
               PROVE  i = j
    OBVIOUS
  <2>1. i + 1 \in 1..Len(m) /\ j + 1 \in 1..Len(m) /\ m[i + 1] = m[j + 1]
    BY <1>1
  <2>2. i + 1 = j + 1
    BY <2>1
  <2> QED
    BY <1>1, <2>2
<1>3. DOMAIN Tail(m) = 1..Len(m) - 1 /\ DOMAIN m = 1..Len(m)
  BY <1>1
<1>4. ASSUME NEW i \in 1..Len(m) - 1 PROVE Tail(m)[i] \in {m[j] : j \in 1..Len(m)} \ {m[1]}
  <2>1. i + 1 \in 1..Len(m) /\ 1 \in 1..Len(m) /\ i + 1 # 1
    BY <1>1
  <2> QED
    BY <1>1, <2>1
<1>5. ASSUME NEW j \in 1..Len(m), m[j] # m[1] PROVE \E i \in 1..Len(m) - 1 : m[j] = Tail(m)[i]
  <2>1. j - 1 \in 1..Len(m) - 1 /\ (j - 1) + 1 = j
    BY <1>1, <1>5
  <2> QED
    BY <1>1, <2>1
<1>6. m[1] \in Key
  BY <1>1
<1>7. {Tail(m)[i] : i \in 1..Len(m) - 1} = {m[i] : i \in 1..Len(m)} \ {m[1]}
  <2>1. {Tail(m)[i] : i \in 1..Len(m) - 1} \subseteq {m[i] : i \in 1..Len(m)} \ {m[1]}
    BY <1>4
  <2>2. {m[i] : i \in 1..Len(m)} \ {m[1]} \subseteq {Tail(m)[i] : i \in 1..Len(m) - 1}
    BY <1>5
  <2> QED
    BY <2>1, <2>2
<1>8. {Tail(m)[i] : i \in DOMAIN Tail(m)} = {m[i] : i \in DOMAIN m} \ {Head(m)}
  BY <1>1, <1>3, <1>7
<1> QED
  BY <1>1, <1>2, <1>6, <1>8

(* GetMany and LoadMany visit a receiver: it is filled, or leaves the map, *)
(* or its key is one the loader is asked for.                              *)
LEMMA VisitMoves ==
  ASSUME CacheInv, backend = "Ristretto", NEW c \in Client, task[c].at = "start",
         task[c].op \in {"GetMany", "LoadMany"}, NEW k \in task[c].todo,
         NEW u, task' = [task EXCEPT ![c] = u],
         \/ Found(k) /\ u \in Received([task[c] EXCEPT !.todo = @ \ {k}], k, kv[k].val)
         \/ u = Dropped([task[c] EXCEPT !.todo = @ \ {k}], k)
         \/ task[c].op = "LoadMany" /\ u = [[task[c] EXCEPT !.todo = @ \ {k}] EXCEPT !.missing = Append(@, k)]
  PROVE  Moves
<1>1. PICK t : t = task[c]
  OBVIOUS
<1>2. TaskOK(t) /\ t \in TaskRec /\ RightKeys(t) /\ Loops(t) /\ Results(t) /\ CacheTypes
  BY <1>1 DEF CacheInv, TaskOK
<1>3. k \in t.keys /\ k \in t.todo /\ t.keys \subseteq Data /\ k \in Key /\ t.todo \subseteq t.keys
  BY <1>1, <1>2, KeyKinds DEF RightKeys, Many
<1>4. PICK rest : rest = [t EXCEPT !.todo = @ \ {k}]
  OBVIOUS
<1>5. /\ rest \in TaskRec /\ rest.op = t.op /\ rest.at = "start" /\ rest.keys = t.keys
      /\ rest.todo = t.todo \ {k} /\ rest.missing = t.missing /\ rest.results = t.results
      /\ rest.filled = t.filled /\ rest.ok = t.ok
  BY <1>1, <1>2, <1>4 DEF TaskRec
<1>6. /\ t.op = "GetMany" => t.missing = <<>> /\ t.keys \ t.todo = FilledKeys(t)
      /\ t.op = "LoadMany" => Missing(t) \cap t.todo = {} /\ t.keys \ (t.todo \cup Missing(t)) = FilledKeys(t)
      /\ \A i, j \in 1..Len(t.missing) : t.missing[i] = t.missing[j] => i = j
  BY <1>1, <1>2 DEF Loops
<1>7. u.at # "fill" /\ u.op = t.op /\ TaskOK(u)
  <2>1. ASSUME Found(k), NEW v \in Value, v = kv[k].val, u = Populated(rest, k, v)
        PROVE  u.at # "fill" /\ u.op = t.op /\ TaskOK(u)
    <3>1. /\ u \in TaskRec /\ u.op = t.op /\ u.at = "start" /\ u.keys = t.keys
          /\ u.todo = t.todo \ {k} /\ u.missing = t.missing /\ u.results = t.results
          /\ u.filled = [t.filled EXCEPT ![k] = v] /\ u.ok = t.ok
      BY <1>3, <1>5, <2>1 DEF Populated, TaskRec, Maybe
    <3>2. u.filled[k] = v /\ \A q \in Key \ {k} : u.filled[q] = t.filled[q]
      BY <1>2, <1>3, <3>1 DEF TaskRec
    <3>3. FilledKeys(u) = FilledKeys(t) \cup {k}
      BY <1>3, <2>1, <3>2, KeyKinds DEF FilledKeys
    <3>4. RightKeys(u) /\ Missing(u) = Missing(t)
      BY <1>2, <1>3, <3>1 DEF RightKeys, Missing
    <3>5. Loops(u)
      <4>1. (u.op = "GetMany") => u.missing = <<>> /\ u.keys \ u.todo = FilledKeys(u)
        BY <1>3, <1>6, <3>1, <3>3
      <4>2. (u.op = "LoadMany") => Missing(u) \cap u.todo = {} /\ u.keys \ (u.todo \cup Missing(u)) = FilledKeys(u)
        BY <1>3, <1>6, <3>1, <3>3, <3>4
      <4> QED
        BY <1>1, <1>6, <3>1, <4>1, <4>2 DEF Loops
    <3>6. Own(k, v)
      BY <1>3, <2>1 DEF CacheInv, EntriesFresh, Fresh, Own
    <3>7. Results(u)
      BY <1>1, <1>2, <3>1, <3>2, <3>6 DEF Results, Stores
    <3> QED
      BY <3>1, <3>4, <3>5, <3>7 DEF TaskOK
  <2>2. ASSUME u = Dropped(rest, k) PROVE u.at # "fill" /\ u.op = t.op /\ TaskOK(u)
    <3>1. /\ u \in TaskRec /\ u.op = t.op /\ u.at = "start" /\ u.keys = t.keys \ {k}
          /\ u.todo = t.todo \ {k} /\ u.missing = t.missing /\ u.results = t.results
          /\ u.filled = t.filled /\ u.ok = t.ok
      BY <1>5, <2>2 DEF Dropped, TaskRec
    <3>2. FilledKeys(u) = FilledKeys(t) /\ Missing(u) = Missing(t)
      BY <3>1 DEF FilledKeys, Missing
    <3>3. k \notin Missing(t)
      <4>1. t.missing = <<>> => Missing(t) = {}
        BY DEF Missing
      <4> QED
        BY <1>1, <1>3, <1>6, <4>1
    <3>4. RightKeys(u)
      BY <1>1, <1>2, <1>3, <3>1, <3>2, <3>3 DEF RightKeys, Many
    <3>5. Loops(u)
      <4>1. (u.op = "GetMany") => u.missing = <<>> /\ u.keys \ u.todo = FilledKeys(u)
        BY <1>3, <1>6, <3>1, <3>2
      <4>2. (u.op = "LoadMany") => Missing(u) \cap u.todo = {} /\ u.keys \ (u.todo \cup Missing(u)) = FilledKeys(u)
        BY <1>3, <1>6, <3>1, <3>2
      <4> QED
        BY <1>1, <1>6, <3>1, <4>1, <4>2 DEF Loops
    <3>6. Results(u)
      BY <1>1, <1>2, <3>1 DEF Results, Stores
    <3> QED
      BY <3>1, <3>4, <3>5, <3>6 DEF TaskOK
  <2>3. ASSUME t.op = "LoadMany", u = [rest EXCEPT !.missing = Append(@, k)]
        PROVE  u.at # "fill" /\ u.op = t.op /\ TaskOK(u)
    <3>1. t.missing \in Seq(Key)
      BY <1>2 DEF TaskRec
    <3>2. Append(t.missing, k) \in Seq(Key)
      BY <1>3, <3>1
    <3>3. /\ u \in TaskRec /\ u.op = "LoadMany" /\ u.at = "start" /\ u.keys = t.keys
          /\ u.todo = t.todo \ {k} /\ u.missing = Append(t.missing, k) /\ u.results = t.results
          /\ u.filled = t.filled /\ u.ok = t.ok
      BY <1>5, <2>3, <3>2 DEF TaskRec
    <3>4. Missing(u) = Missing(t) \cup {k}
      <4>1. /\ DOMAIN Append(t.missing, k) = 1..Len(t.missing) + 1 /\ DOMAIN t.missing = 1..Len(t.missing)
            /\ Append(t.missing, k)[Len(t.missing) + 1] = k /\ Len(t.missing) \in Nat
            /\ \A i \in 1..Len(t.missing) : Append(t.missing, k)[i] = t.missing[i]
        BY <1>3, <3>1
      <4>2. \A i \in 1..Len(t.missing) + 1 : i \in 1..Len(t.missing) \/ i = Len(t.missing) + 1
        BY <4>1
      <4>3. \A i \in 1..Len(t.missing) : i \in 1..Len(t.missing) + 1
        BY <4>1
      <4>4. Len(t.missing) + 1 \in 1..Len(t.missing) + 1
        BY <4>1
      <4> QED
        BY <3>3, <4>1, <4>2, <4>3, <4>4 DEF Missing
    <3>5. \A i, j \in 1..Len(u.missing) : u.missing[i] = u.missing[j] => i = j
      <4>1. k \notin Missing(t)
        BY <1>3, <1>6, <2>3
      <4>2. \A i \in 1..Len(t.missing) : t.missing[i] # k
        BY <3>1, <4>1 DEF Missing
      <4> QED
        BY <1>3, <1>6, <3>1, <3>3, <4>2
    <3>6. FilledKeys(u) = FilledKeys(t)
      BY <3>3 DEF FilledKeys
    <3>7. RightKeys(u)
      BY <1>2, <1>3, <3>3, <3>4 DEF RightKeys, Many
    <3>8. Missing(u) \cap u.todo = {} /\ u.keys \ (u.todo \cup Missing(u)) = FilledKeys(u)
      <4>1. Missing(t) \cap t.todo = {} /\ t.keys \ (t.todo \cup Missing(t)) = FilledKeys(t)
        BY <1>6, <2>3
      <4>2. (Missing(t) \cup {k}) \cap (t.todo \ {k}) = {}
        BY <4>1
      <4>3. (t.todo \ {k}) \cup (Missing(t) \cup {k}) = t.todo \cup Missing(t)
        BY <1>3
      <4> QED
        BY <3>3, <3>4, <3>6, <4>1, <4>2, <4>3
    <3>9. Loops(u)
      BY <3>3, <3>5, <3>8 DEF Loops
    <3>10. Results(u)
      BY <1>1, <1>2, <3>3 DEF Results, Stores
    <3> QED
      BY <2>3, <3>3, <3>7, <3>9, <3>10 DEF TaskOK
  <2>4. Found(k) => kv[k].val \in Value
    BY <1>3 DEF CacheInv, EntriesFresh, Fresh
  <2> QED
    BY <1>1, <1>4, <2>1, <2>2, <2>3, <2>4 DEF Received
<1>8. ~At(c, "Incr", "expire")
  BY DEF At
<1>9. t.op \in {"GetMany", "LoadMany"}
  BY <1>1
<1>10. ~Carries(u)
  BY <1>7, <1>9 DEF Carries, Stores
<1> QED
  BY <1>7, <1>8, <1>10 DEF Moves

(* The task after its loop has taken up the result for one missing key.    *)
LEMMA NextMissingTask ==
  ASSUME CacheInv, NEW t, TaskOK(t), t.at = "fill", t.missing # <<>>
  PROVE  LET k == Head(t.missing)
             n == NextMissing(t)
         IN  /\ n \in TaskRec /\ n.op = t.op /\ n.at = "fill" /\ n.keys = t.keys /\ n.todo = t.todo
             /\ n.missing = Tail(t.missing) /\ n.filled = t.filled /\ n.ok = t.ok
             /\ Missing(n) = Missing(t) \ {k} /\ k \in Missing(t) /\ k \in Data
             /\ \A i, j \in 1..Len(n.missing) : n.missing[i] = n.missing[j] => i = j
             /\ Len(n.results) <= Len(n.missing)
             /\ \A i \in 1..Len(n.results) : n.results[i] # Absent => Fresh(n.missing[i], n.results[i])
             /\ (t.results # <<>> /\ Head(t.results) # Absent) => Fresh(k, Head(t.results))
<1> DEFINE k == Head(t.missing)
<1>1. t \in TaskRec /\ RightKeys(t) /\ Loops(t) /\ Results(t)
  BY DEF TaskOK
<1>2. t.missing \in Seq(Key) /\ t.results \in Seq(Maybe)
  BY <1>1 DEF TaskRec
<1>3. \A i, j \in 1..Len(t.missing) : t.missing[i] = t.missing[j] => i = j
  BY <1>1 DEF Loops
<1>4. /\ Tail(t.missing) \in Seq(Key) /\ k \in Key /\ k = t.missing[1]
      /\ Len(Tail(t.missing)) = Len(t.missing) - 1
      /\ \A i \in 1..Len(t.missing) - 1 : Tail(t.missing)[i] = t.missing[i + 1]
      /\ \A i, j \in 1..Len(Tail(t.missing)) : Tail(t.missing)[i] = Tail(t.missing)[j] => i = j
      /\ {Tail(t.missing)[i] : i \in DOMAIN Tail(t.missing)} = Missing(t) \ {k}
  BY <1>2, <1>3, MissingTail DEF Missing
<1>5. PICK rs : rs = IF t.results = <<>> THEN t.results ELSE Tail(t.results)
  OBVIOUS
<1>6. rs \in Seq(Maybe)
  BY <1>2, <1>5
<1>7. PICK n : n = [t EXCEPT !.missing = Tail(t.missing), !.results = rs]
  OBVIOUS
<1>8. n = NextMissing(t)
  BY <1>5, <1>7 DEF NextMissing
<1>9. /\ n \in TaskRec /\ n.op = t.op /\ n.at = "fill" /\ n.keys = t.keys /\ n.todo = t.todo
      /\ n.missing = Tail(t.missing) /\ n.results = rs /\ n.filled = t.filled /\ n.ok = t.ok
  BY <1>1, <1>4, <1>6, <1>7 DEF TaskRec
<1>10. Missing(n) = Missing(t) \ {k}
  <2>1. n.missing = Tail(t.missing)
    BY <1>9
  <2>2. Missing(n) = {Tail(t.missing)[i] : i \in DOMAIN Tail(t.missing)}
    BY <2>1, Zenon DEF Missing
  <2> QED
    BY <1>4, <2>2
<1>11. k \in Missing(t)
  BY <1>2, <1>4 DEF Missing
<1>12. k \in Data
  BY <1>1, <1>11 DEF RightKeys, Many
<1>13. /\ Len(t.results) <= Len(t.missing)
       /\ \A i \in 1..Len(t.results) : t.results[i] # Absent => Fresh(t.missing[i], t.results[i])
  BY <1>1 DEF Results
<1>14. Len(rs) <= Len(n.missing)
  BY <1>2, <1>4, <1>5, <1>9, <1>13
<1>15. \A i \in 1..Len(rs) : rs[i] # Absent => Fresh(n.missing[i], rs[i])
  <2> SUFFICES ASSUME NEW i \in 1..Len(rs), rs[i] # Absent PROVE Fresh(n.missing[i], rs[i])
    OBVIOUS
  <2>1. t.results # <<>> /\ rs = Tail(t.results)
    BY <1>5
  <2>2. Len(rs) = Len(t.results) - 1 /\ rs[i] = t.results[i + 1] /\ i + 1 \in 1..Len(t.results)
    BY <1>2, <2>1
  <2>3. n.missing[i] = t.missing[i + 1]
    BY <1>2, <1>4, <1>9, <1>13, <2>2
  <2> QED
    BY <1>13, <2>2, <2>3
<1>16. (t.results # <<>> /\ Head(t.results) # Absent) => Fresh(k, Head(t.results))
  <2> SUFFICES ASSUME t.results # <<>>, Head(t.results) # Absent PROVE Fresh(k, Head(t.results))
    OBVIOUS
  <2>1. Head(t.results) = t.results[1] /\ 1 \in 1..Len(t.results)
    BY <1>2
  <2> QED
    BY <1>4, <1>13, <2>1
<1> QED
  BY <1>4, <1>8, <1>9, <1>10, <1>11, <1>12, <1>14, <1>15, <1>16

(* A receiver filled from the cache or by the loader holds its own key's   *)
(* value.                                                                  *)
LEMMA FillMoves ==
  ASSUME CacheInv, NEW c \in Client, task[c].at = "fill", task[c].missing # <<>>,
         UNCHANGED clean, NEW u, task' = [task EXCEPT ![c] = u],
         \/ u = Dropped(NextMissing(task[c]), Head(task[c].missing))
         \/ /\ ~NilResult(task[c])
            /\ u \in Received(NextMissing(task[c]), Head(task[c].missing), Head(task[c].results))
  PROVE  Moves
<1>1. PICK t : t = task[c]
  OBVIOUS
<1>2. PICK k, n : k = Head(t.missing) /\ n = NextMissing(t)
  OBVIOUS
<1>3. TaskOK(t) /\ t \in TaskRec /\ RightKeys(t) /\ Loops(t) /\ Results(t) /\ t.at = "fill" /\ t.missing # <<>>
  BY <1>1 DEF CacheInv, TaskOK
<1>4. /\ n \in TaskRec /\ n.op = t.op /\ n.at = "fill" /\ n.keys = t.keys /\ n.todo = t.todo
      /\ n.missing = Tail(t.missing) /\ n.filled = t.filled /\ n.ok = t.ok
      /\ Missing(n) = Missing(t) \ {k} /\ k \in Missing(t) /\ k \in Data
      /\ \A i, j \in 1..Len(n.missing) : n.missing[i] = n.missing[j] => i = j
      /\ Len(n.results) <= Len(n.missing)
      /\ \A i \in 1..Len(n.results) : n.results[i] # Absent => Fresh(n.missing[i], n.results[i])
      /\ (t.results # <<>> /\ Head(t.results) # Absent) => Fresh(k, Head(t.results))
  BY <1>2, <1>3, NextMissingTask
<1>5. k \in t.keys /\ k \in Key /\ t.op \in {"Load", "LoadMany"} /\ t.keys \subseteq Data /\ Missing(t) \subseteq t.keys
  BY <1>3, <1>4, KeyKinds DEF RightKeys, Many
<1>6. (t.op = "LoadMany") => t.keys \ Missing(t) = FilledKeys(t)
  BY <1>3 DEF Loops
<1>7. TaskOK(u)
  <2>1. ASSUME u = Dropped(n, k) PROVE TaskOK(u)
    <3>1. /\ u \in TaskRec /\ u.op = t.op /\ u.at = "fill" /\ u.keys = t.keys \ {k} /\ u.todo = t.todo
          /\ u.missing = n.missing /\ u.results = n.results /\ u.filled = t.filled /\ u.ok = t.ok
      BY <1>4, <2>1 DEF Dropped, TaskRec
    <3>2. FilledKeys(u) = FilledKeys(t) /\ Missing(u) = Missing(t) \ {k}
      <4>1. FilledKeys(u) = FilledKeys(t)
        BY <3>1 DEF FilledKeys
      <4>2. Missing(u) = Missing(n)
        BY <3>1, Zenon DEF Missing
      <4> QED
        BY <1>4, <4>1, <4>2
    <3>3. RightKeys(u)
      BY <1>5, <3>1, <3>2 DEF RightKeys, Many
    <3>4. (u.op = "LoadMany") => u.keys \ Missing(u) = FilledKeys(u)
      BY <1>4, <1>6, <3>1, <3>2
    <3>5. Loops(u)
      BY <1>4, <3>1, <3>4 DEF Loops
    <3>6. Results(u)
      BY <1>3, <1>4, <3>1 DEF Results
    <3> QED
      BY <3>1, <3>3, <3>5, <3>6 DEF TaskOK
  <2>2. ASSUME NEW v \in Value, Fresh(k, v), u = Populated(n, k, v) PROVE TaskOK(u)
    <3>1. /\ u \in TaskRec /\ u.op = t.op /\ u.at = "fill" /\ u.keys = t.keys /\ u.todo = t.todo
          /\ u.missing = n.missing /\ u.results = n.results
          /\ u.filled = [t.filled EXCEPT ![k] = v] /\ u.ok = t.ok
      BY <1>4, <1>5, <2>2 DEF Populated, TaskRec, Maybe
    <3>2. u.filled[k] = v /\ \A q \in Key \ {k} : u.filled[q] = t.filled[q]
      BY <1>3, <1>5, <3>1 DEF TaskRec
    <3>3. FilledKeys(u) = FilledKeys(t) \cup {k} /\ Missing(u) = Missing(t) \ {k}
      <4>1. FilledKeys(u) = FilledKeys(t) \cup {k}
        BY <1>5, <3>1, <3>2, KeyKinds DEF FilledKeys
      <4>2. Missing(u) = Missing(n)
        BY <3>1, Zenon DEF Missing
      <4> QED
        BY <1>4, <4>1, <4>2
    <3>4. RightKeys(u)
      BY <1>5, <3>1, <3>3 DEF RightKeys, Many
    <3>5. (u.op = "LoadMany") => u.keys \ Missing(u) = FilledKeys(u)
      BY <1>4, <1>5, <1>6, <3>1, <3>3
    <3>6. Loops(u)
      BY <1>4, <3>1, <3>5 DEF Loops
    <3>7. Own(k, v)
      BY <2>2 DEF Fresh, Own
    <3>8. Results(u)
      BY <1>3, <1>4, <3>1, <3>2, <3>7 DEF Results
    <3> QED
      BY <3>1, <3>4, <3>6, <3>8 DEF TaskOK
  <2>3. ~NilResult(t) => t.results # <<>> /\ Head(t.results) # Absent
    BY DEF NilResult
  <2>4. \A v : Fresh(k, v) => v \in Value
    BY DEF Fresh
  <2> QED
    BY <1>1, <1>2, <1>4, <2>1, <2>2, <2>3, <2>4 DEF Received
<1>8. ~At(c, "Incr", "expire")
  BY DEF At
<1> QED
  BY <1>7, <1>8 DEF Moves

(* The answers of GetMany and LoadMany.                                    *)
LEMMA ReturnedTask ==
  ASSUME CacheInv, NEW t \in TaskRec, NEW ok \in BOOLEAN, t.keys \subseteq Data,
         t.op \in {"GetMany", "LoadMany"}, \A k \in Key : Own(k, t.filled[k]),
         (ok \/ t.op = "LoadMany") => t.keys = FilledKeys(t)
  PROVE  TaskOK(Returned(t, ok)) /\ Returned(t, ok).at # "fill"
<1>1. PICK u : u = Returned(t, ok)
  OBVIOUS
<1>2. /\ u \in TaskRec /\ u.op = t.op /\ u.at = "returned" /\ u.keys = t.keys /\ u.todo = {}
      /\ u.missing = <<>> /\ u.results = <<>> /\ u.filled = t.filled /\ u.ok = ok
  <2>1. <<>> \in Seq(Key) /\ <<>> \in Seq(Maybe)
    OBVIOUS
  <2> QED
    BY <1>1, <2>1 DEF Returned, TaskRec
<1>3. Missing(u) = {} /\ FilledKeys(u) = FilledKeys(t)
  BY <1>2 DEF Missing, FilledKeys
<1>4. RightKeys(u)
  BY <1>2, <1>3 DEF RightKeys
<1>5. Loops(u)
  BY <1>2, <1>3 DEF Loops
<1>6. Results(u)
  BY <1>2 DEF Results
<1> QED
  BY <1>1, <1>2, <1>4, <1>5, <1>6 DEF TaskOK

-----------------------------------------------------------------------------
(* The steps that both implementations share.                              *)

(* What the invariant says of the call of a client.                        *)
LEMMA TaskFacts ==
  ASSUME CacheInv, NEW c \in Client
  PROVE  /\ TaskOK(task[c]) /\ task[c] \in TaskRec /\ RightKeys(task[c])
         /\ Loops(task[c]) /\ Results(task[c]) /\ CacheTypes
  BY DEF CacheInv, TaskOK

(* A call over a map returns, with every receiver it keeps filled.         *)
LEMMA MapMoves ==
  ASSUME CacheInv, NEW c \in Client, NEW t \in TaskRec, NEW ok \in BOOLEAN, ReturnMap(c, t, ok),
         t.keys \subseteq Data, t.op \in {"GetMany", "LoadMany"}, \A k \in Key : Own(k, t.filled[k]),
         (ok \/ t.op = "LoadMany") => t.keys = FilledKeys(t), ~At(c, "Incr", "expire")
  PROVE  Moves
<1>1. PICK u : u = Returned(t, ok)
  OBVIOUS
<1>2. TaskOK(u) /\ u.at # "fill"
  BY <1>1, ReturnedTask
<1>3. task' = [task EXCEPT ![c] = u]
  BY <1>1 DEF ReturnMap
<1>4. ~Carries(u)
  <2>1. u.at = "returned"
    BY <1>1 DEF Returned, TaskRec
  <2> QED
    BY <2>1 DEF Carries
<1> QED
  BY <1>2, <1>3, <1>4 DEF Moves

(* The loader's answer and the loop over its results.                      *)
LEMMA SharedSteps ==
  ASSUME CacheInv, NEW c \in Client, UNCHANGED backend,
         LoaderReturns(c) \/ LoaderFails(c) \/ FillNothing(c) \/ Filled(c)
  PROVE  CacheInv'
<1>1. UNCHANGED <<kv, source, answers, twice, forever, clean>>
  BY DEF LoaderReturns, LoaderFails, FillNothing, Filled, history
<1>2. PICK t : t = task[c]
  OBVIOUS
<1>3. TaskOK(t) /\ t \in TaskRec /\ RightKeys(t) /\ Loops(t) /\ Results(t) /\ CacheTypes
  BY <1>2, TaskFacts
<1>4. CASE LoaderReturns(c)
  <2>1. t.at = "load" /\ t.op \in {"Load", "LoadMany"} /\ t.keys \subseteq Data
    BY <1>2, <1>3, <1>4 DEF LoaderReturns, RightKeys, Many
  <2>2. PICK n \in 0..Len(t.missing) : \E rs \in [1..n -> UNION {Loaded(k) : k \in t.keys}] :
          /\ \A i \in 1..n : rs[i] \in Loaded(t.missing[i])
          /\ task' = [task EXCEPT ![c].at = "fill", ![c].results = rs]
    BY <1>2, <1>4 DEF LoaderReturns
  <2>3. PICK rs \in [1..n -> UNION {Loaded(k) : k \in t.keys}] :
          /\ \A i \in 1..n : rs[i] \in Loaded(t.missing[i])
          /\ task' = [task EXCEPT ![c].at = "fill", ![c].results = rs]
    BY <2>2
  <2>4. n \in Nat /\ n <= Len(t.missing) /\ Len(t.missing) \in Nat
    BY <1>3 DEF TaskRec
  <2>5. \A k \in Data : Loaded(k) \subseteq Maybe
    BY <1>3, KeyKinds DEF Loaded, Maybe, Value, CacheTypes
  <2>6. rs \in Seq(Maybe) /\ Len(rs) = n
    <3>1. rs \in [1..n -> Maybe]
      BY <2>1, <2>5
    <3> QED
      BY <2>4, <3>1
  <2>7. PICK u : u = [t EXCEPT !.at = "fill", !.results = rs]
    OBVIOUS
  <2>8. /\ u \in TaskRec /\ u.op = t.op /\ u.at = "fill" /\ u.keys = t.keys /\ u.todo = t.todo
        /\ u.missing = t.missing /\ u.results = rs /\ u.filled = t.filled /\ u.ok = t.ok
    BY <1>3, <2>6, <2>7 DEF TaskRec
  <2>9. Missing(u) = Missing(t)
    BY <2>8, Zenon DEF Missing
  <2>10. FilledKeys(u) = FilledKeys(t)
    BY <2>8 DEF FilledKeys
  <2>11. RightKeys(u) /\ Loops(u)
    BY <1>3, <2>1, <2>8, <2>9, <2>10 DEF RightKeys, Loops
  <2>12. \A i \in 1..n : rs[i] # Absent => Fresh(t.missing[i], rs[i])
    <3> SUFFICES ASSUME NEW i \in 1..n, rs[i] # Absent PROVE Fresh(t.missing[i], rs[i])
      OBVIOUS
    <3>1. t.missing[i] \in Missing(t)
      BY <1>3, <2>4 DEF Missing, TaskRec
    <3>2. t.missing[i] \in Data
      BY <1>3, <2>1, <3>1 DEF RightKeys
    <3>3. rs[i] = [of |-> t.missing[i], n |-> source[t.missing[i]]]
      BY <2>3 DEF Loaded
    <3>4. /\ clean[t.missing[i]] <= source[t.missing[i]] /\ source[t.missing[i]] \in Nat
      BY <1>3, <3>2 DEF CacheTypes
    <3> QED
      BY <3>2, <3>3, <3>4, KeyKinds DEF Fresh, Value
  <2>13. Results(u)
    BY <1>3, <2>4, <2>6, <2>8, <2>12 DEF Results
  <2>14. TaskOK(u) /\ task' = [task EXCEPT ![c] = u]
    BY <1>2, <2>3, <2>7, <2>8, <2>11, <2>13 DEF TaskOK
  <2>15. Moves
    BY <1>1, <1>2, <2>1, <2>14 DEF Moves, At
  <2> QED
    BY <1>1, <2>15, QuietKeeps
<1>5. CASE LoaderFails(c)
  <2>1. t.at = "load" /\ t.op \in {"Load", "LoadMany"} /\ t.keys \subseteq Data /\ ~At(c, "Incr", "expire")
    BY <1>2, <1>3, <1>5 DEF LoaderFails, RightKeys, Many, At
  <2>2. CASE t.op = "Load"
    <3>1. Return(c)
      BY <1>2, <1>5, <2>2 DEF LoaderFails
    <3>2. Moves
      BY <2>1, <3>1, ReturnMoves
    <3> QED
      BY <1>1, <3>2, QuietKeeps
  <2>3. CASE t.op = "LoadMany"
    <3>1. PICK s : s = [t EXCEPT !.keys = t.keys \ Missing(t)]
      OBVIOUS
    <3>2. ReturnMap(c, s, FALSE)
      BY <1>2, <1>5, <2>3, <3>1 DEF LoaderFails
    <3>3. s \in TaskRec /\ s.op = "LoadMany" /\ s.keys = t.keys \ Missing(t) /\ s.filled = t.filled
      BY <1>3, <2>3, <3>1 DEF TaskRec
    <3>4. FilledKeys(s) = FilledKeys(t)
      BY <3>3 DEF FilledKeys
    <3>5. t.keys \ Missing(t) = FilledKeys(t) /\ \A k \in Key : Own(k, t.filled[k])
      BY <1>3, <2>1, <2>3 DEF Loops, Results
    <3>6. Moves
      BY <2>1, <3>2, <3>3, <3>4, <3>5, MapMoves
    <3> QED
      BY <1>1, <3>6, QuietKeeps
  <2> QED
    BY <2>1, <2>2, <2>3
<1>6. CASE FillNothing(c)
  <2>1. PICK u : /\ u = Dropped(NextMissing(task[c]), Head(task[c].missing))
                 /\ task' = [task EXCEPT ![c] = u]
    BY <1>6 DEF FillNothing, NoResult
  <2>2. Moves
    BY <1>1, <1>6, <2>1, FillMoves DEF FillNothing
  <2> QED
    BY <1>1, <2>2, QuietKeeps
<1>7. CASE Filled(c)
  <2>1. t.at = "fill" /\ t.missing = <<>> /\ t.op \in {"Load", "LoadMany"} /\ t.keys \subseteq Data
        /\ ~At(c, "Incr", "expire")
    BY <1>2, <1>3, <1>7 DEF Filled, RightKeys, Many, At
  <2>2. CASE t.op = "Load"
    <3>1. Return(c)
      BY <1>2, <1>7, <2>2 DEF Filled
    <3>2. Moves
      BY <2>1, <3>1, ReturnMoves
    <3> QED
      BY <1>1, <3>2, QuietKeeps
  <2>3. CASE t.op = "LoadMany"
    <3>1. ReturnMap(c, t, TRUE)
      BY <1>2, <1>7, <2>3 DEF Filled
    <3>2. Missing(t) = {}
      BY <2>1 DEF Missing
    <3>3. t.keys = FilledKeys(t) /\ \A k \in Key : Own(k, t.filled[k])
      BY <1>3, <2>1, <2>3, <3>2 DEF Loops, Results
    <3>4. Moves
      BY <1>3, <2>1, <2>3, <3>1, <3>3, MapMoves
    <3> QED
      BY <1>1, <3>4, QuietKeeps
  <2> QED
    BY <2>1, <2>2, <2>3
<1> QED
  BY <1>4, <1>5, <1>6, <1>7

(* The source moves on, an entry runs out or is evicted.                   *)
LEMMA SurroundingsKeep == ASSUME CacheInv, Surroundings, UNCHANGED backend PROVE CacheInv'
<1>1. ASSUME NEW k \in Data, Change(k) PROVE CacheInv'
  <2>1. /\ UNCHANGED <<kv, task, answers, twice, forever, clean>>
        /\ source' = [source EXCEPT ![k] = @ + 1]
    BY <1>1 DEF Change, history
  <2>2. CacheTypes
    BY DEF CacheInv
  <2>3. source' \in [Data -> Nat] /\ \A q \in Data : source[q] <= source'[q] /\ source'[q] \in Nat
    BY <2>1, <2>2 DEF CacheTypes
  <2>4. CacheTypes'
    BY <2>1, <2>2, <2>3 DEF CacheTypes
  <2>5. ASSUME NEW c \in Client PROVE TaskOK(task[c])'
    <3>1. PICK t : t = task[c]
      OBVIOUS
    <3>2. TaskOK(t)
      BY <3>1 DEF CacheInv
    <3>3. TaskOK(t)'
      BY <2>1, <2>2, <2>3, <2>4, <3>2, TaskFrame
    <3> QED
      BY <2>1, <3>1, <3>3
  <2>6. EntriesFresh'
    <3> SUFFICES ASSUME NEW q \in Key, Found(q)' PROVE Fresh(q, kv[q].val)'
      BY DEF EntriesFresh
    <3>1. Fresh(q, kv[q].val) /\ kv' = kv /\ clean' = clean
      BY <2>1 DEF CacheInv, EntriesFresh, Found
    <3>2. q \in Data => source[q] \in Nat
      BY <2>2 DEF CacheTypes
    <3> QED
      BY <2>3, <3>1, <3>2 DEF Fresh, Value
  <2>7. ForeverOnlyAsAsked' /\ Exclusive'
    BY <1>1, <2>1 DEF CacheInv, ForeverOnlyAsAsked, Exclusive, Found, Expiring, At, Spent
  <2> QED
    BY <2>4, <2>5, <2>6, <2>7 DEF CacheInv
<1>2. ASSUME NEW k \in Key, Expires(k) PROVE CacheInv'
  <2>1. Remove({k}) /\ UNCHANGED <<source, task, answers, twice, clean>>
    BY <1>2 DEF Expires
  <2>2. Moves
    BY <2>1 DEF Moves
  <2> QED
    BY <2>1, <2>2, RemoveKeeps
<1> QED
  BY <1>1, <1>2 DEF Surroundings

-----------------------------------------------------------------------------
(* The in-memory cache.                                                    *)

(* The in-memory cache is read.                                            *)
LEMMA RistrettoReads ==
  ASSUME CacheInv, backend = "Ristretto", UNCHANGED backend, NEW c \in Client,
         \/ Ristretto!Get(c) \/ Ristretto!GetOrDefault(c) \/ Ristretto!Exists(c)
         \/ Ristretto!SetNXLooks(c) \/ Ristretto!LooksForDelete(c)
  PROVE  CacheInv'
<1>1. /\ UNCHANGED <<kv, source, answers, twice, forever, clean>>
      /\ task[c].at = "start"
      /\ Return(c) \/ (task[c].op # "Incr" /\ GoTo(c, "write"))
  BY DEF Ristretto!Get, Ristretto!GetOrDefault, Ristretto!Exists, Ristretto!Read, Ristretto!SetNXLooks,
         Ristretto!LooksForDelete, Ristretto!At, Ristretto!Return, Ristretto!GoTo, Ristretto!history,
         Ristretto!NoTask, Ristretto!Empty, Ristretto!Key, Return, GoTo, NoTask, Empty, Key
<1>2. Moves
  BY <1>1, ReturnMoves, GoMoves DEF At
<1> QED
  BY <1>1, <1>2, QuietKeeps

(* What the implementation takes from Cachespi is the same in both.        *)
LEMMA RistrettoShares ==
  /\ \A c : Ristretto!Return(c) <=> Return(c)
  /\ \A ks : Ristretto!Remove(ks) <=> Remove(ks)
  /\ \A ks : Ristretto!Cleaned(ks) <=> Cleaned(ks)
  /\ \A k : Ristretto!Found(k) <=> Found(k)
  /\ \A c, t, ok : Ristretto!ReturnMap(c, t, ok) <=> ReturnMap(c, t, ok)
  /\ \A t, k, v : Ristretto!Received(t, k, v) = Received(t, k, v)
  /\ \A t, k : Ristretto!Dropped(t, k) = Dropped(t, k)
  /\ \A t : Ristretto!NextMissing(t) = NextMissing(t) /\ (Ristretto!NilResult(t) <=> NilResult(t))
  /\ Ristretto!Key = Key /\ Ristretto!Expire = Expire
<1>1. Ristretto!Key = Key /\ Ristretto!Expire = Expire
  BY DEF Ristretto!Key, Key, Ristretto!Expire, Expire
<1>2. \A c : Ristretto!Return(c) <=> Return(c)
  BY DEF Ristretto!Return, Return, Ristretto!NoTask, NoTask, Ristretto!Empty, Empty, Ristretto!Key, Key
<1>3. \A ks : Ristretto!Remove(ks) <=> Remove(ks)
  BY DEF Ristretto!Remove, Remove, Ristretto!Key, Key
<1>4. \A ks : Ristretto!Cleaned(ks) <=> Cleaned(ks)
  BY DEF Ristretto!Cleaned, Cleaned, Ristretto!Filling, Filling, Ristretto!Holds, Holds,
         Ristretto!Missing, Missing, Ristretto!Stores, Stores
<1>5. \A k : Ristretto!Found(k) <=> Found(k)
  BY DEF Ristretto!Found, Found
<1>6. \A c, t, ok : Ristretto!ReturnMap(c, t, ok) <=> ReturnMap(c, t, ok)
  BY DEF Ristretto!ReturnMap, ReturnMap, Ristretto!Returned, Returned
<1>7. \A t, k, v : Ristretto!Received(t, k, v) = Received(t, k, v)
  BY DEF Ristretto!Received, Received, Ristretto!Populated, Populated, Ristretto!Dropped, Dropped
<1>8. \A t, k : Ristretto!Dropped(t, k) = Dropped(t, k)
  BY DEF Ristretto!Dropped, Dropped
<1>9. \A t : Ristretto!NextMissing(t) = NextMissing(t) /\ (Ristretto!NilResult(t) <=> NilResult(t))
  BY DEF Ristretto!NextMissing, NextMissing, Ristretto!NilResult, NilResult
<1> QED
  BY <1>1, <1>2, <1>3, <1>4, <1>5, <1>6, <1>7, <1>8, <1>9

(* The shared steps of the in-memory cache are those of the interface.     *)
LEMMA RistrettoShared ==
  ASSUME NEW c
  PROVE  /\ Ristretto!Calls(c) => Calls(c)
         /\ Ristretto!LoaderReturns(c) => LoaderReturns(c)
         /\ Ristretto!LoaderFails(c) => LoaderFails(c)
         /\ Ristretto!FillNothing(c) => FillNothing(c)
         /\ Ristretto!Filled(c) => Filled(c)
         /\ Ristretto!Surroundings => Surroundings
<1>1. Ristretto!Calls(c) => Calls(c)
  <2>1. \A op, ks : Ristretto!Call(c, op, ks) <=> Call(c, op, ks)
    BY DEF Ristretto!Call, Call, Ristretto!Weight, Weight, Ristretto!NoTask, NoTask, Ristretto!Empty, Empty,
           Ristretto!Key, Key, Ristretto!history, history, Ristretto!Stores, Stores, Ristretto!Arguments, Arguments
  <2>2. \A op : Ristretto!Uses(op) = Uses(op)
    BY DEF Ristretto!Uses, Uses, Ristretto!Key, Key
  <2>3. Ristretto!Single = Single /\ Ristretto!Many = Many
    BY DEF Ristretto!Single, Single, Ristretto!Many, Many
  <2> QED
    BY <2>1, <2>2, <2>3 DEF Ristretto!Calls, Calls
<1>2. Ristretto!LoaderReturns(c) => LoaderReturns(c)
  BY DEF Ristretto!LoaderReturns, LoaderReturns, Ristretto!Loaded, Loaded, Ristretto!history, history
<1>3. Ristretto!LoaderFails(c) => LoaderFails(c)
  BY RistrettoShares DEF Ristretto!LoaderFails, LoaderFails, Ristretto!Missing, Missing, Ristretto!history, history
<1>4. Ristretto!FillNothing(c) => FillNothing(c)
  BY RistrettoShares DEF Ristretto!FillNothing, FillNothing, Ristretto!NoResult, NoResult, Ristretto!history, history
<1>5. Ristretto!Filled(c) => Filled(c)
  BY RistrettoShares DEF Ristretto!Filled, Filled, Ristretto!history, history
<1>6. Ristretto!Surroundings => Surroundings
  BY RistrettoShares DEF Ristretto!Surroundings, Surroundings, Ristretto!Change, Change, Ristretto!Expires, Expires,
     Ristretto!history, history
<1> QED
  BY <1>1, <1>2, <1>3, <1>4, <1>5, <1>6

(* The loop of GetMany over the in-memory cache.                           *)
LEMMA RistrettoGetMany ==
  ASSUME CacheInv, backend = "Ristretto", UNCHANGED backend, NEW c \in Client, Ristretto!GetMany(c)
  PROVE  CacheInv'
<1>1. UNCHANGED <<kv, source, answers, twice, forever, clean>> /\ task[c].op = "GetMany" /\ task[c].at = "start"
  BY DEF Ristretto!GetMany, Ristretto!At, Ristretto!history
<1>2. PICK t : t = task[c]
  OBVIOUS
<1>3. \/ \E k \in t.todo :
           \E u : /\ task' = [task EXCEPT ![c] = u]
                  /\ \/ Found(k) /\ u \in Received([t EXCEPT !.todo = @ \ {k}], k, kv[k].val)
                     \/ u = Dropped([t EXCEPT !.todo = @ \ {k}], k)
      \/ t.todo = {} /\ ReturnMap(c, t, TRUE)
  BY <1>2, RistrettoShares DEF Ristretto!GetMany
<1>4. CASE \E k \in t.todo :
             \E u : /\ task' = [task EXCEPT ![c] = u]
                    /\ \/ Found(k) /\ u \in Received([t EXCEPT !.todo = @ \ {k}], k, kv[k].val)
                       \/ u = Dropped([t EXCEPT !.todo = @ \ {k}], k)
  <2>1. Moves
    BY <1>1, <1>2, <1>4, VisitMoves
  <2> QED
    BY <1>1, <2>1, QuietKeeps
<1>5. CASE t.todo = {} /\ ReturnMap(c, t, TRUE)
  <2>1. t \in TaskRec /\ t.keys \subseteq Data /\ t.keys = FilledKeys(t) /\ \A k \in Key : Own(k, t.filled[k])
    BY <1>1, <1>2, <1>5, TaskFacts DEF RightKeys, Loops, Results, Many
  <2>2. Moves
    BY <1>1, <1>2, <1>5, <2>1, MapMoves DEF At
  <2> QED
    BY <1>1, <2>2, QuietKeeps
<1> QED
  BY <1>3, <1>4, <1>5

(* The loop of LoadMany that finds the missing keys.                       *)
LEMMA RistrettoLoads ==
  ASSUME CacheInv, backend = "Ristretto", UNCHANGED backend, NEW c \in Client, Ristretto!LoadMany(c)
  PROVE  CacheInv'
<1>1. UNCHANGED <<kv, source, answers, twice, forever, clean>> /\ task[c].op = "LoadMany" /\ task[c].at = "start"
  BY DEF Ristretto!LoadMany, Ristretto!At, Ristretto!history
<1>2. PICK t : t = task[c]
  OBVIOUS
<1>3. \/ \E k \in t.todo :
           \E u : /\ task' = [task EXCEPT ![c] = u]
                  /\ \/ Found(k) /\ u \in Received([t EXCEPT !.todo = @ \ {k}], k, kv[k].val)
                     \/ u = [[t EXCEPT !.todo = @ \ {k}] EXCEPT !.missing = Append(@, k)]
      \/ t.todo = {} /\ t.missing = <<>> /\ ReturnMap(c, t, TRUE)
      \/ t.todo = {} /\ t.missing # <<>> /\ task' = [task EXCEPT ![c].at = "load"]
  BY <1>2, RistrettoShares DEF Ristretto!LoadMany, Ristretto!GoTo
<1>4. /\ t \in TaskRec /\ RightKeys(t) /\ t.keys \subseteq Data /\ \A k \in Key : Own(k, t.filled[k])
      /\ t.keys \ (t.todo \cup Missing(t)) = FilledKeys(t) /\ Loops(t) /\ Results(t)
  BY <1>1, <1>2, TaskFacts DEF RightKeys, Loops, Results, Many
<1>5. CASE \E k \in t.todo :
             \E u : /\ task' = [task EXCEPT ![c] = u]
                    /\ \/ Found(k) /\ u \in Received([t EXCEPT !.todo = @ \ {k}], k, kv[k].val)
                       \/ u = [[t EXCEPT !.todo = @ \ {k}] EXCEPT !.missing = Append(@, k)]
  <2>1. PICK k \in t.todo :
          \E u : /\ task' = [task EXCEPT ![c] = u]
                 /\ \/ Found(k) /\ u \in Received([task[c] EXCEPT !.todo = @ \ {k}], k, kv[k].val)
                    \/ u = [[task[c] EXCEPT !.todo = @ \ {k}] EXCEPT !.missing = Append(@, k)]
    BY <1>2, <1>5
  <2>2. k \in task[c].todo
    BY <1>2
  <2>3. Moves
    BY <1>1, <2>1, <2>2, VisitMoves
  <2> QED
    BY <1>1, <2>3, QuietKeeps
<1>6. CASE t.todo = {} /\ t.missing = <<>> /\ ReturnMap(c, t, TRUE)
  <2>1. Missing(t) = {}
    BY <1>6 DEF Missing
  <2>2. t.keys = FilledKeys(t)
    BY <1>4, <1>6, <2>1
  <2>3. Moves
    BY <1>1, <1>2, <1>4, <1>6, <2>2, MapMoves DEF At
  <2> QED
    BY <1>1, <2>3, QuietKeeps
<1>7. CASE t.todo = {} /\ t.missing # <<>> /\ task' = [task EXCEPT ![c].at = "load"]
  <2>1. PICK u : u = [t EXCEPT !.at = "load"]
    OBVIOUS
  <2>2. /\ u \in TaskRec /\ u.op = "LoadMany" /\ u.at = "load" /\ u.keys = t.keys /\ u.todo = {}
        /\ u.missing = t.missing /\ u.results = t.results /\ u.filled = t.filled /\ u.ok = t.ok
    BY <1>1, <1>2, <1>4, <1>7, <2>1 DEF TaskRec
  <2>3. Missing(u) = Missing(t) /\ FilledKeys(u) = FilledKeys(t)
    <3>1. Missing(u) = Missing(t)
      BY <2>2, Zenon DEF Missing
    <3> QED
      BY <2>2, <3>1 DEF FilledKeys
  <2>4. RightKeys(u) /\ Loops(u) /\ Results(u)
    BY <1>4, <1>7, <2>2, <2>3 DEF RightKeys, Loops, Results
  <2>5. task' = [task EXCEPT ![c] = u]
    BY <1>2, <1>7, <2>1
  <2>6. Moves
    BY <1>1, <2>2, <2>4, <2>5 DEF Moves, TaskOK, At
  <2> QED
    BY <1>1, <2>6, QuietKeeps
<1> QED
  BY <1>3, <1>5, <1>6, <1>7

(* A value that is stored, or turned away.                                 *)
LEMMA RistrettoStores ==
  ASSUME CacheInv, backend = "Ristretto", UNCHANGED <<source, clean, backend>>, Moves,
         NEW k \in Key, NEW v, Fresh(k, v), NEW e \in Expire, Ristretto!SetWithTTL(k, v, e)
  PROVE  CacheInv'
<1>1. PICK ttl : ttl = Ristretto!resolveTTL(e)
  OBVIOUS
<1>2. ttl \in {"never", "default", "own"} /\ (ttl = "never" <=> e = "NoExpiration")
  BY <1>1 DEF Ristretto!resolveTTL, Expire
<1>3. CASE Put(k, v, ttl, e)
  BY <1>2, <1>3, PutKeeps
<1>4. CASE UNCHANGED <<kv, forever>>
  BY <1>4, QuietKeeps
<1> QED
  BY <1>1, <1>3, <1>4 DEF Ristretto!SetWithTTL, Ristretto!Put, Put

(* What Set and SetMany were given is fresh until it is stored.            *)
LEMMA ArgumentIsFresh ==
  ASSUME CacheInv, NEW c \in Client, task[c].op \in {"Set", "SetMany"}, task[c].at = "start",
         NEW k, k \in IF task[c].op = "Set" THEN task[c].keys ELSE task[c].todo
  PROVE  Fresh(k, task[c].args[k])
BY TaskFacts DEF Loops, Results, Stores

(* Set, SetMany and SetNX on the in-memory cache.                          *)
LEMMA RistrettoSets ==
  ASSUME CacheInv, backend = "Ristretto", UNCHANGED backend, NEW c \in Client,
         Ristretto!Set(c) \/ Ristretto!SetMany(c) \/ Ristretto!SetNX(c)
  PROVE  CacheInv'
<1>1. UNCHANGED <<source, clean>>
  BY DEF Ristretto!Set, Ristretto!SetMany, Ristretto!SetNX
<1>2. /\ RightKeys(task[c])
      /\ \A k \in Token : Fresh(k, [of |-> k, n |-> 1])
  BY TaskFacts, KeyKinds DEF Fresh, Value
<1>3. CASE Ristretto!Set(c)
  <2>1. PICK k \in task[c].keys, e \in Expire : Ristretto!SetWithTTL(k, task[c].args[k], e)
    BY <1>3, RistrettoShares DEF Ristretto!Set
  <2>2. task[c].op = "Set" /\ task[c].at = "start" /\ Return(c)
    BY <1>3, RistrettoShares DEF Ristretto!Set, Ristretto!At
  <2>3. Moves /\ k \in Data /\ k \in Key
    BY <1>2, <2>2, ReturnMoves, KeyKinds DEF RightKeys, At
  <2>4. Fresh(k, task[c].args[k])
    BY <2>1, <2>2, ArgumentIsFresh
  <2> QED
    BY <1>1, <2>1, <2>3, <2>4, RistrettoStores
<1>4. CASE Ristretto!SetMany(c)
  <2>1. task[c].op = "SetMany" /\ task[c].at = "start"
    BY <1>4 DEF Ristretto!SetMany, Ristretto!At
  <2>2. CASE Return(c) /\ UNCHANGED <<kv, answers, twice, forever>>
    <3>1. Moves
      BY <2>1, <2>2, ReturnMoves DEF At
    <3> QED
      BY <1>1, <2>2, <3>1, QuietKeeps
  <2>3. ASSUME NEW k \in task[c].todo, NEW e \in Expire, task' = [task EXCEPT ![c].todo = @ \ {k}],
               Ristretto!SetWithTTL(k, task[c].args[k], e)
        PROVE  CacheInv'
    <3>1. Moves /\ k \in Data /\ k \in Key
      BY <1>1, <1>2, <2>1, <2>3, LoopMoves, KeyKinds DEF RightKeys, Many
    <3>2. Fresh(k, task[c].args[k])
      BY <2>1, <2>3, ArgumentIsFresh
    <3> QED
      BY <1>1, <2>3, <3>1, <3>2, RistrettoStores
  <2> QED
    BY <1>4, <2>2, <2>3, RistrettoShares DEF Ristretto!SetMany
<1>5. CASE Ristretto!SetNX(c)
  <2>1. PICK k \in task[c].keys, e \in Expire : Ristretto!SetWithTTL(k, [of |-> k, n |-> 1], e)
    BY <1>5, RistrettoShares DEF Ristretto!SetNX
  <2>2. task[c].op = "SetNX" /\ Return(c)
    BY <1>5, RistrettoShares DEF Ristretto!SetNX, Ristretto!At
  <2>3. Moves /\ k \in Token /\ k \in Key
    BY <1>2, <2>2, ReturnMoves, KeyKinds DEF RightKeys, At
  <2> QED
    BY <1>1, <1>2, <2>1, <2>3, RistrettoStores
<1> QED
  BY <1>3, <1>4, <1>5

(* The operations that delete on the in-memory cache.                      *)
LEMMA RistrettoRemoves ==
  ASSUME CacheInv, backend = "Ristretto", UNCHANGED backend, NEW c \in Client,
         \/ Ristretto!GetAndDelete(c) \/ Ristretto!Delete(c)
         \/ Ristretto!DeleteMany(c) \/ Ristretto!Flush(c)
  PROVE  CacheInv'
<1>1. CASE Ristretto!GetAndDelete(c)
  <2>1. PICK k \in task[c].keys : Remove({k})
    BY <1>1, RistrettoShares DEF Ristretto!GetAndDelete
  <2>2. task[c].op = "GetAndDelete" /\ Return(c) /\ UNCHANGED <<source, clean>>
    BY <1>1, RistrettoShares DEF Ristretto!GetAndDelete, Ristretto!At
  <2>3. Moves
    BY <2>2, ReturnMoves DEF At
  <2> QED
    BY <2>1, <2>2, <2>3, RemoveKeeps
<1>2. CASE Ristretto!Delete(c) \/ Ristretto!Flush(c)
  <2>1. PICK ks : Remove(ks) /\ Cleaned(ks)
    BY <1>2, RistrettoShares DEF Ristretto!Delete, Ristretto!Flush
  <2>2. task[c].op \in {"Delete", "Flush"} /\ Return(c) /\ UNCHANGED source
    BY <1>2, RistrettoShares DEF Ristretto!Delete, Ristretto!Flush, Ristretto!At
  <2>3. Moves
    BY <2>2, ReturnMoves DEF At
  <2> QED
    BY <2>1, <2>2, <2>3, RemoveKeeps
<1>3. CASE Ristretto!DeleteMany(c)
  <2>1. task[c].op = "DeleteMany" /\ task[c].at = "start" /\ UNCHANGED <<source, answers, twice>>
    BY <1>3 DEF Ristretto!DeleteMany, Ristretto!At
  <2>2. CASE Return(c) /\ UNCHANGED <<kv, forever, clean>>
    <3>1. Moves
      BY <2>1, <2>2, ReturnMoves DEF At
    <3> QED
      BY <2>1, <2>2, <3>1, QuietKeeps
  <2>3. ASSUME NEW k \in task[c].todo, task' = [task EXCEPT ![c].todo = @ \ {k}], Remove({k}), Cleaned({k})
        PROVE  CacheInv'
    <3>1. Moves
      BY <2>1, <2>3, LoopMoves
    <3> QED
      BY <2>1, <2>3, <3>1, RemoveKeeps
  <2> QED
    BY <1>3, <2>2, <2>3, RistrettoShares DEF Ristretto!DeleteMany
<1> QED
  BY <1>1, <1>2, <1>3

(* Incr on the in-memory cache reads, and writes in a later step.          *)
LEMMA RistrettoIncr ==
  ASSUME CacheInv, backend = "Ristretto", UNCHANGED backend, NEW c \in Client,
         Ristretto!IncrLooks(c) \/ Ristretto!Incr(c)
  PROVE  CacheInv'
<1>1. PICK t : t = task[c]
  OBVIOUS
<1>2. /\ t \in TaskRec /\ RightKeys(t) /\ Loops(t) /\ Results(t) /\ CacheTypes /\ t.op = "Incr"
      /\ UNCHANGED <<source, clean>>
  BY <1>1, TaskFacts DEF Ristretto!IncrLooks, Ristretto!Incr, Ristretto!At, Ristretto!history
<1>3. PICK k \in Counter : t.keys = {k}
  BY <1>2 DEF RightKeys
<1>4. k \in Key /\ k \notin Data
  BY KeyKinds
<1>5. CASE Ristretto!IncrLooks(c)
  <2>1. UNCHANGED <<kv, forever, answers, twice>> /\ t.at = "start"
    BY <1>1, <1>5 DEF Ristretto!IncrLooks, Ristretto!history, Ristretto!At
  <2>2. PICK v : v = [of |-> k, n |-> IF Found(k) THEN kv[k].val.n ELSE 0]
    OBVIOUS
  <2>3. Fresh(k, v)
    <3>1. Found(k) => kv[k].val.n \in Int
      BY <1>4 DEF CacheInv, EntriesFresh, Fresh, Value
    <3> QED
      BY <1>4, <2>2, <3>1 DEF Fresh, Value
  <2>4. task' = [task EXCEPT ![c].at = "write", ![c].results = <<v>>]
    <3>1. PICK q \in task[c].keys :
            task' = [task EXCEPT ![c].at = "write",
                                 ![c].results = <<[of |-> q, n |-> IF Ristretto!Found(q) THEN kv[q].val.n ELSE 0]>>]
      BY <1>5 DEF Ristretto!IncrLooks
    <3>2. q = k /\ (Ristretto!Found(q) <=> Found(k))
      BY <1>1, <1>3, <3>1, RistrettoShares
    <3>3. v = [of |-> q, n |-> IF Ristretto!Found(q) THEN kv[q].val.n ELSE 0]
      BY <2>2, <3>2
    <3> QED
      BY <3>1, <3>3
  <2>5. PICK u : u = [t EXCEPT !.at = "write", !.results = <<v>>]
    OBVIOUS
  <2>6. <<v>> \in Seq(Maybe) /\ <<v>>[1] = v
    BY <2>3 DEF Fresh, Maybe
  <2>7. /\ u \in TaskRec /\ u.op = "Incr" /\ u.at = "write" /\ u.keys = {k}
        /\ u.missing = t.missing /\ u.results = <<v>> /\ u.filled = t.filled
    BY <1>2, <1>3, <2>5, <2>6 DEF TaskRec
  <2>8. Missing(u) = Missing(t)
    BY <2>7, Zenon DEF Missing
  <2>9. RightKeys(u) /\ Loops(u) /\ Results(u)
    <3>1. RightKeys(u)
      BY <1>2, <1>3, <2>7, <2>8 DEF RightKeys, Many
    <3>2. Loops(u)
      BY <1>2, <2>7 DEF Loops
    <3>3. Results(u)
      BY <1>2, <2>3, <2>6, <2>7 DEF Results
    <3> QED
      BY <3>1, <3>2, <3>3
  <2>10. task' = [task EXCEPT ![c] = u]
    BY <1>1, <2>4, <2>5
  <2>11. Moves
    BY <1>1, <2>1, <2>7, <2>9, <2>10 DEF Moves, Carries, Stores, TaskOK, At
  <2> QED
    BY <1>2, <2>1, <2>11, QuietKeeps
<1>6. CASE Ristretto!Incr(c)
  <2>1. t.at = "write" /\ Return(c) /\ ~At(c, "Incr", "expire")
    BY <1>1, <1>6, RistrettoShares DEF Ristretto!Incr, Ristretto!At, At
  <2>3. PICK delta \in Deltas, e \in Expire :
          Ristretto!SetWithTTL(k, [t.results[1] EXCEPT !.n = @ + delta], e)
    BY <1>1, <1>3, <1>6, RistrettoShares DEF Ristretto!Incr
  <2>2. PICK v : v = [t.results[1] EXCEPT !.n = @ + delta]
    OBVIOUS
  <2>4. Fresh(k, t.results[1])
    BY <1>2, <1>3, <2>1 DEF Results
  <2>5. Fresh(k, v)
    BY <1>4, <2>2, <2>4, CacheAssumption DEF Fresh, Value
  <2>6. Moves
    BY <2>1, ReturnMoves
  <2> QED
    BY <1>2, <1>4, <2>2, <2>3, <2>5, <2>6, RistrettoStores
<1> QED
  BY <1>5, <1>6

(* A call of Load that has found nothing asks for its key.                 *)
LEMMA LoadMoves ==
  ASSUME CacheInv, NEW c \in Client, At(c, "Load", "start"), NEW k \in task[c].keys,
         task' = [task EXCEPT ![c].at = "load", ![c].missing = <<k>>]
  PROVE  Moves
<1>1. PICK t : t = task[c]
  OBVIOUS
<1>2. /\ t \in TaskRec /\ RightKeys(t) /\ Loops(t) /\ Results(t) /\ t.op = "Load" /\ t.at = "start"
  BY <1>1, TaskFacts DEF At
<1>3. k \in t.keys /\ k \in Key
  BY <1>1, <1>2 DEF TaskRec
<1>4. PICK u : u = [t EXCEPT !.at = "load", !.missing = <<k>>]
  OBVIOUS
<1>5. <<k>> \in Seq(Key) /\ Len(<<k>>) = 1 /\ <<k>>[1] = k /\ DOMAIN <<k>> = 1..1
  BY <1>3
<1>6. /\ u \in TaskRec /\ u.op = "Load" /\ u.at = "load" /\ u.keys = t.keys
      /\ u.missing = <<k>> /\ u.results = t.results /\ u.filled = t.filled
  BY <1>2, <1>4, <1>5 DEF TaskRec
<1>7. Missing(u) = {k}
  BY <1>5, <1>6 DEF Missing
<1>8. RightKeys(u)
  BY <1>2, <1>3, <1>6, <1>7 DEF RightKeys
<1>9. Loops(u)
  BY <1>5, <1>6 DEF Loops
<1>10. Results(u)
  BY <1>2, <1>6 DEF Results
<1>11. task' = [task EXCEPT ![c] = u]
  BY <1>1, <1>4
<1> QED
  BY <1>6, <1>8, <1>9, <1>10, <1>11 DEF Moves, Carries, Stores, TaskOK, At

(* Load on the in-memory cache, and the results of LoadMany stored one by  *)
(* one.                                                                    *)
LEMMA RistrettoFills ==
  ASSUME CacheInv, backend = "Ristretto", UNCHANGED backend, NEW c \in Client,
         Ristretto!Load(c) \/ Ristretto!FillOne(c)
  PROVE  CacheInv'
<1>1. CASE Ristretto!Load(c)
  <2>1. UNCHANGED <<kv, source, answers, twice, forever, clean>> /\ At(c, "Load", "start")
    BY <1>1 DEF Ristretto!Load, Ristretto!At, At, Ristretto!history
  <2>2. \/ Return(c)
        \/ \E k \in task[c].keys : task' = [task EXCEPT ![c].at = "load", ![c].missing = <<k>>]
    BY <1>1, RistrettoShares DEF Ristretto!Load
  <2>3. Moves
    BY <2>1, <2>2, ReturnMoves, LoadMoves DEF At
  <2> QED
    BY <2>1, <2>3, QuietKeeps
<1>2. CASE Ristretto!FillOne(c)
  <2>1. /\ task[c].at = "fill" /\ task[c].missing # <<>> /\ ~NilResult(task[c])
        /\ UNCHANGED <<source, clean>>
    BY <1>2, RistrettoShares DEF Ristretto!FillOne
  <2>2. PICK k, v : k = Head(task[c].missing) /\ v = Head(task[c].results)
    OBVIOUS
  <2>3. PICK e \in Expire : Ristretto!SetWithTTL(k, v, e)
    BY <1>2, <2>2, RistrettoShares DEF Ristretto!FillOne
  <2>4. PICK u \in Received(NextMissing(task[c]), k, v) : task' = [task EXCEPT ![c] = u]
    BY <1>2, <2>2, RistrettoShares DEF Ristretto!FillOne
  <2>5. Moves
    BY <2>1, <2>2, <2>4, FillMoves
  <2>6. PICK t : t = task[c]
    OBVIOUS
  <2>7. TaskOK(t) /\ t.at = "fill" /\ t.missing # <<>> /\ t.results # <<>> /\ Head(t.results) # Absent
    BY <2>1, <2>6, TaskFacts DEF NilResult
  <2>8. k \in Data /\ Fresh(k, v)
    BY <2>2, <2>6, <2>7, NextMissingTask
  <2> QED
    BY <2>1, <2>3, <2>5, <2>8, KeyKinds, RistrettoStores
<1> QED
  BY <1>1, <1>2

(* Every step of the in-memory cache keeps the invariant.                  *)
LEMMA RistrettoKeeps ==
  ASSUME CacheInv, backend = "Ristretto", UNCHANGED backend, Ristretto!Next PROVE CacheInv'
<1>1. ASSUME NEW c \in Client, Ristretto!Calls(c) PROVE CacheInv'
  BY <1>1, RistrettoShared, CallsKeep
<1>2. ASSUME NEW c \in Client, Ristretto!Step(c) PROVE CacheInv'
  BY <1>2, RistrettoShared, SharedSteps, RistrettoReads, RistrettoGetMany, RistrettoLoads, RistrettoSets,
     RistrettoRemoves, RistrettoIncr, RistrettoFills DEF Ristretto!Step
<1>3. ASSUME NEW k \in Key, Ristretto!Evict(k) PROVE CacheInv'
  <2>1. Remove({k}) /\ UNCHANGED <<source, task, answers, twice, clean>>
    BY <1>3, RistrettoShares DEF Ristretto!Evict
  <2>2. Moves
    BY <2>1 DEF Moves
  <2> QED
    BY <2>1, <2>2, RemoveKeeps
<1>4. ASSUME Ristretto!Surroundings PROVE CacheInv'
  BY <1>4, RistrettoShared, SurroundingsKeep
<1> QED
  BY <1>1, <1>2, <1>3, <1>4, RistrettoShares DEF Ristretto!Next

-----------------------------------------------------------------------------
(* The Redis cache.                                                        *)

(* The operators the Redis cache takes from the interface are the          *)
(* interface's.                                                            *)
LEMMA RedisShares ==
  /\ \A c : Redis!Return(c) <=> Return(c)
  /\ \A ks : Redis!Remove(ks) <=> Remove(ks)
  /\ \A ks : Redis!Cleaned(ks) <=> Cleaned(ks)
  /\ \A k : Redis!Found(k) <=> Found(k)
  /\ \A c, t, ok : Redis!ReturnMap(c, t, ok) <=> ReturnMap(c, t, ok)
  /\ \A t, k, v : Redis!Received(t, k, v) = Received(t, k, v)
  /\ \A t, k : Redis!Dropped(t, k) = Dropped(t, k)
  /\ \A t : Redis!NextMissing(t) = NextMissing(t) /\ (Redis!NilResult(t) <=> NilResult(t))
  /\ Redis!Key = Key /\ Redis!Expire = Expire
<1>1. Redis!Key = Key /\ Redis!Expire = Expire
  BY DEF Redis!Key, Key, Redis!Expire, Expire
<1>2. \A c : Redis!Return(c) <=> Return(c)
  BY DEF Redis!Return, Return, Redis!NoTask, NoTask, Redis!Empty, Empty, Redis!Key, Key
<1>3. \A ks : Redis!Remove(ks) <=> Remove(ks)
  BY DEF Redis!Remove, Remove, Redis!Key, Key
<1>4. \A ks : Redis!Cleaned(ks) <=> Cleaned(ks)
  BY DEF Redis!Cleaned, Cleaned, Redis!Filling, Filling, Redis!Holds, Holds,
         Redis!Missing, Missing, Redis!Stores, Stores
<1>5. \A k : Redis!Found(k) <=> Found(k)
  BY DEF Redis!Found, Found
<1>6. \A c, t, ok : Redis!ReturnMap(c, t, ok) <=> ReturnMap(c, t, ok)
  BY DEF Redis!ReturnMap, ReturnMap, Redis!Returned, Returned
<1>7. \A t, k, v : Redis!Received(t, k, v) = Received(t, k, v)
  BY DEF Redis!Received, Received, Redis!Populated, Populated, Redis!Dropped, Dropped
<1>8. \A t, k : Redis!Dropped(t, k) = Dropped(t, k)
  BY DEF Redis!Dropped, Dropped
<1>9. \A t : Redis!NextMissing(t) = NextMissing(t) /\ (Redis!NilResult(t) <=> NilResult(t))
  BY DEF Redis!NextMissing, NextMissing, Redis!NilResult, NilResult
<1> QED
  BY <1>1, <1>2, <1>3, <1>4, <1>5, <1>6, <1>7, <1>8, <1>9

(* So are its shared steps.                                                *)
LEMMA RedisShared ==
  ASSUME NEW c
  PROVE  /\ Redis!Calls(c) => Calls(c)
         /\ Redis!LoaderReturns(c) => LoaderReturns(c)
         /\ Redis!LoaderFails(c) => LoaderFails(c)
         /\ Redis!FillNothing(c) => FillNothing(c)
         /\ Redis!Filled(c) => Filled(c)
         /\ Redis!Surroundings => Surroundings
<1>1. Redis!Calls(c) => Calls(c)
  <2>1. \A op, ks : Redis!Call(c, op, ks) <=> Call(c, op, ks)
    BY DEF Redis!Call, Call, Redis!Weight, Weight, Redis!NoTask, NoTask, Redis!Empty, Empty,
           Redis!Key, Key, Redis!history, history, Redis!Stores, Stores, Redis!Arguments, Arguments
  <2>2. \A op : Redis!Uses(op) = Uses(op)
    BY DEF Redis!Uses, Uses, Redis!Key, Key
  <2>3. Redis!Single = Single /\ Redis!Many = Many
    BY DEF Redis!Single, Single, Redis!Many, Many
  <2> QED
    BY <2>1, <2>2, <2>3 DEF Redis!Calls, Calls
<1>2. Redis!LoaderReturns(c) => LoaderReturns(c)
  BY DEF Redis!LoaderReturns, LoaderReturns, Redis!Loaded, Loaded, Redis!history, history
<1>3. Redis!LoaderFails(c) => LoaderFails(c)
  BY RedisShares DEF Redis!LoaderFails, LoaderFails, Redis!Missing, Missing, Redis!history, history
<1>4. Redis!FillNothing(c) => FillNothing(c)
  BY RedisShares DEF Redis!FillNothing, FillNothing, Redis!NoResult, NoResult, Redis!history, history
<1>5. Redis!Filled(c) => Filled(c)
  BY RedisShares DEF Redis!Filled, Filled, Redis!history, history
<1>6. Redis!Surroundings => Surroundings
  BY RedisShares DEF Redis!Surroundings, Surroundings, Redis!Change, Change, Redis!Expires, Expires,
     Redis!history, history
<1> QED
  BY <1>1, <1>2, <1>3, <1>4, <1>5, <1>6


(* SET stores a value with the time to live that was asked for.            *)
LEMMA RedisPuts ==
  /\ \A k, v, e : e \in Expire =>
       (Redis!SET(k, v, e) => \E ttl \in {"never", "default", "own"} :
                                (ttl = "never" <=> e = "NoExpiration") /\ Put(k, v, ttl, e))
  /\ \A k : Redis!NoAnswer(k) <=> NoAnswer(k)
  /\ \A k, a : Redis!Answer(k, a) <=> Answer(k, a)
  /\ \A c, op, step : Redis!At(c, op, step) <=> At(c, op, step)
<1>1. ASSUME NEW k, NEW v, NEW e \in Expire, Redis!SET(k, v, e)
      PROVE  \E ttl \in {"never", "default", "own"} : (ttl = "never" <=> e = "NoExpiration") /\ Put(k, v, ttl, e)
  <2>1. Put(k, v, Redis!resolveTTL(e), e)
    BY <1>1 DEF Redis!SET, Redis!Put, Put
  <2>2. Redis!resolveTTL(e) \in {"never", "default", "own"} /\ (Redis!resolveTTL(e) = "never" <=> e = "NoExpiration")
    BY DEF Redis!resolveTTL, Expire
  <2> QED
    BY <2>1, <2>2
<1>2. \A k : Redis!NoAnswer(k) <=> NoAnswer(k)
  BY DEF Redis!NoAnswer, Redis!NoAnswerAfter, NoAnswer, NoAnswerAfter,
          Redis!Before, Before, Redis!Created, Created, Redis!Found, Found
<1>3. \A k, a : Redis!Answer(k, a) <=> Answer(k, a)
  BY DEF Redis!Answer, Redis!AnswerAfter, Answer, AnswerAfter,
          Redis!Before, Before, Redis!Created, Created, Redis!Found, Found
<1>4. \A c, op, step : Redis!At(c, op, step) <=> At(c, op, step)
  BY DEF Redis!At, At
<1> QED
  BY <1>1, <1>2, <1>3, <1>4

(* A value the source has, stored at once.                                 *)
LEMMA RedisStores ==
  ASSUME CacheInv, UNCHANGED <<source, clean, backend>>, Moves,
         NEW k \in Data, NEW v, Fresh(k, v), NEW e \in Expire, Redis!SET(k, v, e), Redis!NoAnswer(k)
  PROVE  CacheInv'
<1>1. PICK ttl \in {"never", "default", "own"} : (ttl = "never" <=> e = "NoExpiration") /\ Put(k, v, ttl, e)
  BY RedisPuts
<1>2. NoAnswer(k) /\ k \in Key
  BY RedisPuts, KeyKinds
<1> QED
  BY <1>1, <1>2, PutKeeps

(* Redis is read.                                                          *)
LEMMA RedisReads ==
  ASSUME CacheInv, backend = "Redis", UNCHANGED backend, NEW c \in Client,
         Redis!Get(c) \/ Redis!GetOrDefault(c) \/ Redis!Exists(c)
  PROVE  CacheInv'
<1>1. /\ UNCHANGED <<kv, source, answers, twice, forever, clean>> /\ Return(c) /\ ~At(c, "Incr", "expire")
  BY RedisShares DEF Redis!Get, Redis!GetOrDefault, Redis!Exists, Redis!Read, Redis!At, At, Redis!history
<1>2. Moves
  BY <1>1, ReturnMoves
<1> QED
  BY <1>1, <1>2, QuietKeeps

(* Set and SetMany on Redis.                                               *)
LEMMA RedisSets ==
  ASSUME CacheInv, backend = "Redis", UNCHANGED backend, NEW c \in Client,
         Redis!Set(c) \/ Redis!SetMany(c)
  PROVE  CacheInv'
<1>1. UNCHANGED <<source, clean>> /\ RightKeys(task[c])
  BY TaskFacts DEF Redis!Set, Redis!SetMany
<1>2. CASE Redis!Set(c)
  <2>1. task[c].op = "Set" /\ task[c].at = "start" /\ Return(c)
    BY <1>2, RedisShares DEF Redis!Set, Redis!At
  <2>2. Moves /\ task[c].keys \subseteq Data
    BY <1>1, <2>1, ReturnMoves DEF RightKeys, At
  <2>3. \/ \E k \in task[c].keys, e \in Expire : Redis!SET(k, task[c].args[k], e) /\ Redis!NoAnswer(k)
        \/ UNCHANGED <<kv, answers, twice, forever>>
    BY <1>2, RedisShares DEF Redis!Set, Redis!Nothing
  <2>4. ASSUME NEW k \in task[c].keys, NEW e \in Expire, Redis!NoAnswer(k),
               Redis!SET(k, task[c].args[k], e)
        PROVE  CacheInv'
    <3>1. k \in Data
      BY <2>2
    <3>2. Fresh(k, task[c].args[k])
      BY <2>1, <2>4, ArgumentIsFresh
    <3> QED
      BY <1>1, <2>2, <2>4, <3>1, <3>2, RedisStores
  <2>5. CASE UNCHANGED <<kv, answers, twice, forever>>
    BY <1>1, <2>2, <2>5, QuietKeeps
  <2> QED
    BY <2>3, <2>4, <2>5
<1>3. CASE Redis!SetMany(c)
  <2>1. task[c].op = "SetMany" /\ task[c].at = "start"
    BY <1>3 DEF Redis!SetMany, Redis!At
  <2>2. \/ \E k \in task[c].todo, e \in Expire :
             /\ Redis!SET(k, task[c].args[k], e) /\ Redis!NoAnswer(k)
             /\ task' = [task EXCEPT ![c].todo = @ \ {k}]
        \/ Return(c) /\ UNCHANGED <<kv, answers, twice, forever>>
    BY <1>3, RedisShares DEF Redis!SetMany, Redis!Nothing
  <2>3. ASSUME NEW k \in task[c].todo, NEW e \in Expire, Redis!NoAnswer(k),
               task' = [task EXCEPT ![c].todo = @ \ {k}], Redis!SET(k, task[c].args[k], e)
        PROVE  CacheInv'
    <3>1. Moves /\ k \in Data
      BY <1>1, <2>1, <2>3, LoopMoves DEF RightKeys, Many
    <3>2. Fresh(k, task[c].args[k])
      BY <2>1, <2>3, ArgumentIsFresh
    <3> QED
      BY <1>1, <2>3, <3>1, <3>2, RedisStores
  <2>4. CASE Return(c) /\ UNCHANGED <<kv, answers, twice, forever>>
    <3>1. Moves
      BY <2>1, <2>4, ReturnMoves DEF At
    <3> QED
      BY <1>1, <2>4, <3>1, QuietKeeps
  <2> QED
    BY <2>2, <2>3, <2>4
<1> QED
  BY <1>2, <1>3

(* SETNX stores where nothing is, GETDEL removes what is there.            *)
LEMMA RedisTokens ==
  ASSUME CacheInv, backend = "Redis", UNCHANGED backend, NEW c \in Client,
         Redis!SetNX(c) \/ Redis!GetAndDelete(c)
  PROVE  CacheInv'
<1>1. UNCHANGED <<source, clean>> /\ Return(c) /\ task[c].op \in {"SetNX", "GetAndDelete"}
  BY RedisShares DEF Redis!SetNX, Redis!GetAndDelete, Redis!At
<1>2. Moves /\ task[c].keys \subseteq Token
  BY <1>1, ReturnMoves, TaskFacts DEF RightKeys, At
<1>3. CASE UNCHANGED <<kv, answers, twice, forever>>
  BY <1>1, <1>2, <1>3, QuietKeeps
<1>4. ASSUME NEW k \in task[c].keys, NEW e \in Expire, ~Found(k), Redis!SET(k, [of |-> k, n |-> 1], e),
             Redis!Answer(k, <<"won", 0>>) \/ Redis!NoAnswer(k)
      PROVE  CacheInv'
  <2>1. PICK ttl \in {"never", "default", "own"} :
          (ttl = "never" <=> e = "NoExpiration") /\ Put(k, [of |-> k, n |-> 1], ttl, e)
    BY <1>4, RedisPuts
  <2>2. NoAnswer(k) \/ Answer(k, <<"won", 0>>)
    BY <1>4, RedisPuts
  <2>3. k \in Key /\ Fresh(k, [of |-> k, n |-> 1])
    BY <1>2, KeyKinds DEF Fresh, Value
  <2> QED
    BY <1>1, <1>2, <1>4, <2>1, <2>2, <2>3, PutKeeps
<1>5. ASSUME NEW k \in task[c].keys, Found(k), Redis!Remove({k}),
             Redis!Answer(k, <<"took", 0>>) \/ Redis!NoAnswer(k)
      PROVE  CacheInv'
  <2>1. Remove({k}) /\ (NoAnswer(k) \/ Answer(k, <<"took", 0>>)) /\ k \in Key
    BY <1>2, <1>5, RedisPuts, RedisShares, KeyKinds
  <2> QED
    BY <1>1, <1>2, <1>5, <2>1, RemoveKeeps
<1>6. CASE Redis!SetNX(c)
  BY <1>3, <1>4, <1>6, RedisShares DEF Redis!SetNX, Redis!Nothing
<1>7. CASE Redis!GetAndDelete(c)
  BY <1>3, <1>5, <1>7, RedisShares DEF Redis!GetAndDelete, Redis!Nothing
<1> QED
  BY <1>6, <1>7

(* Delete, DeleteMany and Flush on Redis.                                  *)
LEMMA RedisRemoves ==
  ASSUME CacheInv, backend = "Redis", UNCHANGED backend, NEW c \in Client,
         Redis!Delete(c) \/ Redis!DeleteMany(c) \/ Redis!Flush(c)
  PROVE  CacheInv'
<1>1. task[c].op \in {"Delete", "DeleteMany", "Flush"} /\ \E ks : Redis!DEL(c, ks)
  BY DEF Redis!Delete, Redis!DeleteMany, Redis!Flush, Redis!At
<1>2. PICK ks : Redis!DEL(c, ks)
  BY <1>1
<1>3. /\ Return(c) /\ UNCHANGED <<source, answers, twice>>
      /\ (Remove(ks) /\ Cleaned(ks)) \/ UNCHANGED <<kv, forever, clean>>
  BY <1>2, RedisShares DEF Redis!DEL
<1>4. Moves
  BY <1>1, <1>3, ReturnMoves DEF At
<1>5. CASE Remove(ks) /\ Cleaned(ks)
  BY <1>3, <1>4, <1>5, RemoveKeeps
<1>6. CASE UNCHANGED <<kv, forever, clean>>
  BY <1>3, <1>4, <1>6, QuietKeeps
<1> QED
  BY <1>3, <1>5, <1>6

(* INCRBY counts on from what is there; the key is kept for good, or some  *)
(* client is about to let it expire.                                       *)
LEMMA CountKeeps ==
  ASSUME CacheInv, backend = "Redis", UNCHANGED <<source, clean, backend>>, Moves,
         NEW k \in Counter, NEW n \in Int, NEW d \in Int, n = IF Found(k) THEN kv[k].val.n ELSE 0,
         kv' = [kv EXCEPT ![k] = [val |-> [of |-> k, n |-> n + d],
                                  ttl |-> IF Found(k) THEN kv[k].ttl ELSE "never"]],
         forever' = forever \/ forever' = forever \cup {k}, k \in forever' \/ Expiring(k)',
         NoAnswerAfter(k, Upwards(k, d)) \/ AnswerAfter(k, Upwards(k, d), <<"incr", n + d>>)
  PROVE  CacheInv'
<1>1. CacheTypes /\ k \in Key /\ k \notin Data
  BY KeyKinds DEF CacheInv
<1>2. Found(k) => kv[k] \in Entry
  BY <1>1 DEF CacheTypes, Found
<1>3. PICK w : w = [val |-> [of |-> k, n |-> n + d], ttl |-> IF Found(k) THEN kv[k].ttl ELSE "never"]
  OBVIOUS
<1>4. w \in Entry /\ w.val = [of |-> k, n |-> n + d] /\ w.val.n = n + d
  BY <1>1, <1>2, <1>3 DEF Entry, Value
<1>5. /\ kv' \in [Key -> Entry \cup {Absent}] /\ kv'[k] = w
      /\ \A q \in Key \ {k} : kv'[q] = kv[q]
  BY <1>1, <1>3, <1>4 DEF CacheTypes
<1>6. /\ CacheTypes' /\ \A c \in Client : TaskOK(task[c])'
      /\ \A q : Expiring(q) => Expiring(q)'
  BY <1>5, MovesKeep
<1>7. EntriesFresh'
  <2> SUFFICES ASSUME NEW q \in Key, Found(q)' PROVE Fresh(q, kv[q].val)'
    BY DEF EntriesFresh
  <2>1. CASE q = k
    BY <1>1, <1>4, <1>5, <2>1 DEF Fresh, Value
  <2>2. CASE q # k
    BY <1>5, <2>2 DEF CacheInv, EntriesFresh, Found, Fresh
  <2> QED
    BY <2>1, <2>2
<1>8. ForeverOnlyAsAsked'
  <2> SUFFICES ASSUME NEW q \in Key, Found(q)', kv'[q].ttl = "never", q # k
               PROVE  q \in forever' \/ Expiring(q)'
    BY DEF ForeverOnlyAsAsked
  <2>1. q \in forever \/ Expiring(q)
    BY <1>5 DEF CacheInv, ForeverOnlyAsAsked, Found
  <2> QED
    BY <1>6, <2>1
<1>9. Exclusive'
  <2>1. /\ twice = {} /\ answers \in [Key -> SUBSET ({"won", "took", "incr"} \X Int)]
        /\ \A q \in Key : Found(q) => Spent(q)
    BY DEF CacheInv, Exclusive
  <2>2. kv'[k] # Absent
    BY <1>4, <1>5, KeyKinds
  <2>3. Before(k) = IF Found(k) THEN answers[k] ELSE {}
    BY <2>2 DEF Before, Created
  <2>4. PICK B : B = Upwards(k, d)
    OBVIOUS
  <2>5. /\ B \in SUBSET ({"won", "took", "incr"} \X Int)
        /\ \A a \in B : a # <<"took", 0>> /\ (a[1] = "incr" => a[2] <= n /\ d > 0)
    <3>1. CASE Found(k) /\ d > 0
      BY <1>1, <2>1, <2>3, <2>4, <3>1 DEF Spent, Upwards
    <3>2. CASE ~(Found(k) /\ d > 0)
      <4>1. B = {}
        BY <2>3, <2>4, <3>2 DEF Upwards
      <4> QED
        BY <4>1
    <3> QED
      BY <3>1, <3>2
  <2>a. <<"incr", n + d>> \notin B
    <3>1. <<"incr", n + d>>[1] = "incr" /\ <<"incr", n + d>>[2] = n + d
      OBVIOUS
    <3>2. d > 0 => ~(n + d <= n)
      OBVIOUS
    <3> QED
      BY <2>5, <3>1, <3>2
  <2>6. PICK S \in SUBSET ({"won", "took", "incr"} \X Int) :
          /\ S = B \/ S = B \cup {<<"incr", n + d>>}
          /\ answers' = [answers EXCEPT ![k] = S] /\ twice' = twice
    <3>1. B \cup {<<"incr", n + d>>} \in SUBSET ({"won", "took", "incr"} \X Int)
      BY <2>5
    <3> QED
      BY <2>4, <2>5, <2>a, <3>1 DEF NoAnswerAfter, AnswerAfter
  <2>7. /\ answers' \in [Key -> SUBSET ({"won", "took", "incr"} \X Int)] /\ answers'[k] = S
        /\ \A q \in Key \ {k} : answers'[q] = answers[q]
    BY <1>1, <2>1, <2>6
  <2>8. ASSUME NEW a \in S PROVE a # <<"took", 0>> /\ (a[1] = "incr" => a[2] <= n + d)
    <3>1. CASE a \in B
      <4>1. a[2] \in Int
        BY <2>6
      <4>2. a # <<"took", 0>> /\ (a[1] = "incr" => a[2] <= n /\ d > 0)
        BY <2>5, <3>1
      <4> QED
        BY <4>1, <4>2
    <3>2. CASE a = <<"incr", n + d>>
      BY <3>2
    <3> QED
      BY <2>6, <3>1, <3>2
  <2>9. Spent(k)'
    BY <1>4, <1>5, <2>7, <2>8 DEF Spent
  <2>10. ASSUME NEW q \in Key, q # k, Found(q)' PROVE Spent(q)'
    BY <1>5, <2>1, <2>7, <2>10 DEF Found, Spent
  <2> QED
    BY <2>1, <2>6, <2>7, <2>9, <2>10 DEF Exclusive
<1> QED
  BY <1>6, <1>7, <1>8, <1>9 DEF CacheInv

(* INCR, then an Expire of its own for the first value.                    *)
LEMMA RedisIncr ==
  ASSUME CacheInv, backend = "Redis", UNCHANGED backend, NEW c \in Client, Redis!Incr(c)
  PROVE  CacheInv'
<1>1. task[c].op = "Incr" /\ task[c].at = "start" /\ ~At(c, "Incr", "expire") /\ UNCHANGED <<source, clean>>
  BY DEF Redis!Incr, Redis!At, At
<1>2. PICK k \in Counter : task[c].keys = {k}
  BY <1>1, TaskFacts DEF RightKeys
<1>3. k \in Key /\ CacheTypes
  BY KeyKinds DEF CacheInv
<1>4. PICK n : n = IF Found(k) THEN kv[k].val.n ELSE 0
  OBVIOUS
<1>5. n \in Int
  BY <1>3, <1>4 DEF CacheInv, EntriesFresh, Fresh, Value
<1>6. Redis!Number(k) = n
  BY <1>4, RedisShares DEF Redis!Number
<1>7. \/ \E d \in Int :
            /\ Redis!IncrBy(k, d)
            /\ \/ NoAnswerAfter(k, Upwards(k, d))
               \/ AnswerAfter(k, Upwards(k, d), <<"incr", n + d>>)
            /\ \/ Return(c) /\ Redis!WillStay(k)
               \/ GoTo(c, "expire") /\ UNCHANGED forever
      \/ UNCHANGED <<kv, answers, twice, forever>> /\ Return(c)
  <2>1. PICK q \in task[c].keys, d \in Deltas :
          \/ /\ Redis!IncrBy(q, d)
             /\ Redis!AnswerAfter(q, Redis!Upwards(q, d), <<"incr", Redis!Number(q) + d>>)
             /\ \E e \in Expire :
                  IF Redis!resolveTTL(e) = "never"
                  THEN Redis!Return(c) /\ (IF e = "NoExpiration" THEN Redis!WillStay(q) ELSE UNCHANGED forever)
                  ELSE Redis!GoTo(c, "expire") /\ UNCHANGED forever
          \/ /\ Redis!IncrBy(q, d) /\ Redis!NoAnswerAfter(q, Redis!Upwards(q, d))
             /\ Redis!WillStay(q) /\ Redis!Return(c)
          \/ Redis!Nothing /\ Redis!Return(c)
    BY RedisShares DEF Redis!Incr
  <2>2. q = k /\ d \in Int
    BY <1>2, CacheAssumption
  <2>3. \A e \in Expire : Redis!resolveTTL(e) = "never" => e = "NoExpiration"
    BY DEF Redis!resolveTTL, Expire
  <2>4. /\ Redis!Upwards(k, d) = Upwards(k, d)
        /\ \A S : Redis!NoAnswerAfter(k, S) <=> NoAnswerAfter(k, S)
        /\ \A S, a : Redis!AnswerAfter(k, S, a) <=> AnswerAfter(k, S, a)
    BY DEF Redis!Upwards, Upwards, Redis!NoAnswerAfter, NoAnswerAfter, Redis!AnswerAfter, AnswerAfter,
           Redis!Before, Before, Redis!Created, Created, Redis!Found, Found
  <2>5. Redis!GoTo(c, "expire") <=> GoTo(c, "expire")
    BY DEF Redis!GoTo, GoTo
  <2>6. CASE Redis!Nothing /\ Redis!Return(c)
    BY <2>6, RedisShares DEF Redis!Nothing
  <2>7. CASE ~(Redis!Nothing /\ Redis!Return(c))
    BY <1>6, <2>1, <2>2, <2>3, <2>4, <2>5, <2>7, RedisShares
  <2> QED
    BY <2>6, <2>7
<1>8. CASE UNCHANGED <<kv, answers, twice, forever>> /\ Return(c)
  <2>1. Moves
    BY <1>1, <1>8, ReturnMoves
  <2> QED
    BY <1>1, <1>8, <2>1, QuietKeeps
<1>9. ASSUME NEW d \in Int, Redis!IncrBy(k, d),
             NoAnswerAfter(k, Upwards(k, d)) \/ AnswerAfter(k, Upwards(k, d), <<"incr", n + d>>),
             (Return(c) /\ Redis!WillStay(k)) \/ (GoTo(c, "expire") /\ UNCHANGED forever)
      PROVE  CacheInv'
  <2>1. Moves
    BY <1>1, <1>9, ReturnMoves, GoMoves
  <2>2. kv' = [kv EXCEPT ![k] = [val |-> [of |-> k, n |-> n + d],
                                 ttl |-> IF Found(k) THEN kv[k].ttl ELSE "never"]]
    BY <1>6, <1>9, RedisShares DEF Redis!IncrBy
  <2>3. forever' = forever \/ forever' = forever \cup {k}
    BY <1>9 DEF Redis!WillStay
  <2>4. k \in forever' \/ Expiring(k)'
    <3>1. CASE Redis!WillStay(k)
      BY <3>1 DEF Redis!WillStay
    <3>2. CASE GoTo(c, "expire")
      <4>1. task'[c].at = "expire" /\ task'[c].op = "Incr" /\ task'[c].keys = {k}
        BY <1>1, <1>2, <1>3, <3>2 DEF GoTo, CacheTypes, TaskRec
      <4> QED
        BY <4>1 DEF Expiring, At
    <3> QED
      BY <1>9, <3>1, <3>2
  <2> QED
    BY <1>1, <1>4, <1>5, <1>9, <2>1, <2>2, <2>3, <2>4, CountKeeps
<1> QED
  BY <1>7, <1>8, <1>9

(* EXPIRE comes, or is known never to come.                                *)
LEMMA LastOfIncr ==
  ASSUME CacheInv, backend = "Redis", UNCHANGED <<source, clean, backend, answers, twice>>,
         NEW c \in Client, At(c, "Incr", "expire"), Return(c),
         NEW k \in Counter, task[c].keys = {k},
         \/ kv' = (IF Found(k) THEN [kv EXCEPT ![k].ttl = "own"] ELSE kv) /\ forever' = forever \ {k}
         \/ kv' = kv /\ forever' = forever \cup {k}
  PROVE  CacheInv'
<1>1. CacheTypes /\ k \in Key /\ k \notin Data
  BY KeyKinds DEF CacheInv
<1>2. /\ kv' \in [Key -> Entry \cup {Absent}]
      /\ \A q \in Key : /\ Found(q)' <=> Found(q)
                        /\ Found(q) => kv'[q].val = kv[q].val
                        /\ (Found(q) /\ q # k) => kv'[q].ttl = kv[q].ttl
      /\ Found(k) => kv'[k].ttl = "own" \/ k \in forever'
  <2>1. CASE kv' = kv /\ forever' = forever \cup {k}
    BY <1>1, <2>1 DEF CacheTypes, Found
  <2>2. CASE ~Found(k) /\ kv' = kv
    BY <1>1, <2>2 DEF CacheTypes, Found
  <2>3. CASE Found(k) /\ kv' = [kv EXCEPT ![k].ttl = "own"]
    <3>1. PICK w : w = [kv[k] EXCEPT !.ttl = "own"]
      OBVIOUS
    <3>2. kv[k] \in Entry
      BY <1>1, <2>3 DEF CacheTypes, Found
    <3>3. w \in Entry /\ w.val = kv[k].val /\ w.ttl = "own" /\ w # Absent
      BY <3>1, <3>2, KeyKinds DEF Entry
    <3>4. kv' = [kv EXCEPT ![k] = w]
      BY <2>3, <3>1
    <3>5. kv'[k] = w /\ \A q \in Key \ {k} : kv'[q] = kv[q]
      BY <1>1, <3>4 DEF CacheTypes
    <3>6. kv' \in [Key -> Entry \cup {Absent}]
      BY <1>1, <3>3, <3>4 DEF CacheTypes
    <3> QED
      BY <2>3, <3>3, <3>5, <3>6 DEF Found
  <2> QED
    BY <2>1, <2>2, <2>3
<1>3. /\ CacheTypes' /\ \A d \in Client : TaskOK(task[d])'
      /\ \A d \in Client \ {c} : task'[d] = task[d]
  <2>1. PICK u : u = NoTask
    OBVIOUS
  <2>2. TaskOK(u) /\ u.at # "fill" /\ task' = [task EXCEPT ![c] = u]
    BY <1>1, <2>1, EmptyTask DEF Return, NoTask
  <2> QED
    BY <1>2, <2>2, TasksKeep
<1>4. \A q \in Key \ {k} : Expiring(q) => Expiring(q)'
  BY <1>3 DEF Expiring, At
<1>5. EntriesFresh'
  BY <1>2 DEF CacheInv, EntriesFresh, Fresh
<1>6. ForeverOnlyAsAsked'
  <2> SUFFICES ASSUME NEW q \in Key, Found(q)', kv'[q].ttl = "never"
               PROVE  q \in forever' \/ Expiring(q)'
    BY DEF ForeverOnlyAsAsked
  <2>1. CASE q = k
    BY <1>2, <2>1
  <2>2. CASE q # k
    <3>1. q \in forever \/ Expiring(q)
      BY <1>2, <2>2 DEF CacheInv, ForeverOnlyAsAsked
    <3> QED
      BY <1>4, <2>2, <3>1
  <2> QED
    BY <2>1, <2>2
<1>7. Exclusive'
  BY <1>2 DEF CacheInv, Exclusive, Spent
<1> QED
  BY <1>3, <1>5, <1>6, <1>7 DEF CacheInv

(* The Expire after a first INCR, or the crash that comes before it.       *)
LEMMA RedisExpires ==
  ASSUME CacheInv, backend = "Redis", UNCHANGED backend, NEW c \in Client,
         Redis!IncrExpires(c) \/ Redis!Crash(c)
  PROVE  CacheInv'
<1>1. UNCHANGED <<source, clean, answers, twice>> /\ Return(c)
  BY RedisShares DEF Redis!IncrExpires, Redis!Crash
<1>2. CASE ~At(c, "Incr", "expire")
  <2>1. Redis!Crash(c) /\ UNCHANGED <<kv, forever>>
    BY <1>2, RedisPuts DEF Redis!IncrExpires, Redis!Crash
  <2>2. Moves
    BY <1>1, <1>2, ReturnMoves
  <2> QED
    BY <1>1, <2>1, <2>2, QuietKeeps
<1>3. CASE At(c, "Incr", "expire")
  <2>1. PICK k \in Counter : task[c].keys = {k}
    BY <1>3, TaskFacts DEF RightKeys, At
  <2>2. CASE Redis!Crash(c)
    <3>1. kv' = kv /\ forever' = forever \cup {k}
      BY <1>3, <2>1, <2>2, RedisPuts DEF Redis!Crash
    <3> QED
      BY <1>1, <1>3, <2>1, <3>1, LastOfIncr
  <2>3. CASE Redis!IncrExpires(c)
    <3>1. PICK q \in task[c].keys : Redis!EXPIRE(q) \/ (Redis!WillStay(q) /\ UNCHANGED kv)
      BY <2>3 DEF Redis!IncrExpires
    <3>2. q = k
      BY <2>1
    <3>3. \/ kv' = (IF Found(k) THEN [kv EXCEPT ![k].ttl = "own"] ELSE kv) /\ forever' = forever \ {k}
          \/ kv' = kv /\ forever' = forever \cup {k}
      BY <3>1, <3>2, RedisShares DEF Redis!EXPIRE, Redis!WillStay
    <3> QED
      BY <1>1, <1>3, <2>1, <3>3, LastOfIncr
  <2> QED
    BY <2>2, <2>3
<1> QED
  BY <1>2, <1>3

(* What MGET found is handed over, what it did not is asked for.           *)
LEMMA UnmarshalTask ==
  ASSUME CacheInv, backend = "Redis", NEW t, TaskOK(t), t.at = "start", t.op \in {"GetMany", "LoadMany"},
         NEW fits, fits \subseteq {k \in t.keys : Found(k)}
  PROVE  /\ Redis!Unmarshal(t, fits) \in TaskRec /\ FilledKeys(Redis!Unmarshal(t, fits)) = fits
         /\ Redis!Unmarshal(t, fits).op = t.op /\ Redis!Unmarshal(t, fits).keys = t.keys
         /\ \A k \in Key : Own(k, Redis!Unmarshal(t, fits).filled[k])
<1>1. /\ t \in TaskRec /\ RightKeys(t) /\ Loops(t) /\ Results(t)
      /\ t.todo = t.keys /\ t.keys \subseteq Data
  BY DEF TaskOK, Loops, RightKeys, Many
<1>2. FilledKeys(t) = {}
  <2>1. t.missing = <<>> => Missing(t) = {}
    BY DEF Missing
  <2> QED
    BY <1>1, <2>1 DEF Loops
<1>3. fits \subseteq Key
  BY <1>1, KeyKinds
<1>4. \A k \in fits : kv[k] \in Entry /\ Fresh(k, kv[k].val) /\ kv[k].val # Absent
  BY <1>3, KeyKinds DEF CacheInv, CacheTypes, EntriesFresh, Found, Fresh
<1>5. PICK f : f = [k \in Key |-> IF k \in fits THEN kv[k].val ELSE t.filled[k]]
  OBVIOUS
<1>6. f \in [Key -> Maybe]
  BY <1>1, <1>4, <1>5 DEF TaskRec, Maybe, Fresh
<1>7. PICK s : s = [t EXCEPT !.filled = f]
  OBVIOUS
<1>8. s = Redis!Unmarshal(t, fits)
  BY <1>5, <1>7, RedisShares DEF Redis!Unmarshal
<1>9. s \in TaskRec /\ s.op = t.op /\ s.keys = t.keys /\ s.filled = f
  BY <1>1, <1>6, <1>7 DEF TaskRec
<1>10. FilledKeys(s) = fits
  BY <1>2, <1>3, <1>4, <1>5, <1>9 DEF FilledKeys
<1>11. \A k \in Key : Own(k, f[k])
  BY <1>1, <1>4, <1>5 DEF Results, Own, Fresh
<1> QED
  BY <1>8, <1>9, <1>10, <1>11

(* MGET fills the receivers of the values that fit, and the others are     *)
(* removed from the map.                                                   *)
LEMMA RedisGetMany ==
  ASSUME CacheInv, backend = "Redis", UNCHANGED backend, NEW c \in Client, Redis!GetMany(c)
  PROVE  CacheInv'
<1>1. UNCHANGED <<kv, source, answers, twice, forever, clean>> /\ At(c, "GetMany", "start")
  BY RedisPuts DEF Redis!GetMany, Redis!history
<1>2. PICK t : t = task[c]
  OBVIOUS
<1>3. /\ TaskOK(t) /\ t \in TaskRec /\ t.op = "GetMany" /\ t.at = "start" /\ t.keys \subseteq Data
      /\ \A k \in Key : Own(k, t.filled[k])
  BY <1>1, <1>2, TaskFacts DEF At, RightKeys, Results, Many
<1>4. \/ ReturnMap(c, t, FALSE)
      \/ \E fits \in SUBSET {k \in t.keys : Found(k)} :
           ReturnMap(c, [Redis!Unmarshal(t, fits) EXCEPT !.keys = fits], TRUE)
  BY <1>2, RedisShares DEF Redis!GetMany, Redis!Fits, Redis!Hits
<1>5. CASE ReturnMap(c, t, FALSE)
  <2>1. Moves
    BY <1>1, <1>3, <1>5, MapMoves DEF At
  <2> QED
    BY <1>1, <2>1, QuietKeeps
<1>6. ASSUME NEW fits \in SUBSET {k \in t.keys : Found(k)},
             ReturnMap(c, [Redis!Unmarshal(t, fits) EXCEPT !.keys = fits], TRUE)
      PROVE  CacheInv'
  <2>1. PICK s : s = Redis!Unmarshal(t, fits)
    OBVIOUS
  <2>2. /\ s \in TaskRec /\ FilledKeys(s) = fits /\ s.op = "GetMany"
        /\ \A k \in Key : Own(k, s.filled[k])
    BY <1>3, <2>1, UnmarshalTask
  <2>3. PICK r : r = [s EXCEPT !.keys = fits]
    OBVIOUS
  <2>4. fits \subseteq Data /\ fits \in SUBSET Key
    BY <1>3, KeyKinds
  <2>5. r \in TaskRec /\ r.op = "GetMany" /\ r.keys = fits /\ r.filled = s.filled
    BY <2>2, <2>3, <2>4 DEF TaskRec
  <2>6. FilledKeys(r) = fits /\ \A k \in Key : Own(k, r.filled[k])
    BY <2>2, <2>5 DEF FilledKeys
  <2>7. ReturnMap(c, r, TRUE)
    BY <1>6, <2>1, <2>3
  <2>8. Moves
    BY <1>1, <2>4, <2>5, <2>6, <2>7, MapMoves DEF At
  <2> QED
    BY <1>1, <2>8, QuietKeeps
<1> QED
  BY <1>4, <1>5, <1>6

(* An order of the missing keys has each of them once.                     *)
LEMMA OrderOf ==
  ASSUME NEW ks, IsFiniteSet(ks), NEW s \in Redis!Orders(ks)
  PROVE  /\ s \in Seq(ks) /\ {s[i] : i \in DOMAIN s} = ks
         /\ \A i, j \in 1..Len(s) : s[i] = s[j] => i = j
<1>1. Cardinality(ks) \in Nat
  BY FS_CardinalityType
<1>2. /\ s \in [1..Cardinality(ks) -> ks]
      /\ \A i, j \in 1..Cardinality(ks) : s[i] = s[j] => i = j
  <2>1. s \in [1..Cardinality(ks) -> ks] /\ \A i, j \in DOMAIN s : s[i] = s[j] => i = j
    <3>1. Redis!Cardinality(ks) = Cardinality(ks)
      BY Zenon DEF Redis!Cardinality, Cardinality
    <3> QED
      BY <3>1 DEF Redis!Orders
  <2>2. DOMAIN s = 1..Cardinality(ks)
    BY <2>1
  <2> QED
    BY <2>1, <2>2
<1>3. s \in Seq(ks) /\ Len(s) = Cardinality(ks) /\ DOMAIN s = 1..Cardinality(ks)
  BY <1>1, <1>2
<1>4. s \in Injection(1..Cardinality(ks), ks)
  BY <1>2 DEF Injection, IsInjective
<1>5. Cardinality(1..Cardinality(ks)) = Cardinality(ks)
  BY <1>1, FS_Interval
<1>6. s \in Surjection(1..Cardinality(ks), ks)
  BY <1>4, <1>5, FS_Injection
<1>7. {s[i] : i \in DOMAIN s} = ks
  BY <1>2, <1>3, <1>6 DEF Surjection
<1> QED
  BY <1>2, <1>3, <1>7

(* LoadMany asks for what MGET did not bring, in the order of a Go map.    *)
LEMMA RedisLoadMany ==
  ASSUME CacheInv, backend = "Redis", UNCHANGED backend, NEW c \in Client, Redis!LoadMany(c)
  PROVE  CacheInv'
<1>1. UNCHANGED <<kv, source, answers, twice, forever, clean>> /\ At(c, "LoadMany", "start")
  BY RedisPuts DEF Redis!LoadMany, Redis!history
<1>2. PICK t : t = task[c]
  OBVIOUS
<1>3. /\ TaskOK(t) /\ t \in TaskRec /\ t.op = "LoadMany" /\ t.at = "start" /\ t.keys \subseteq Data
      /\ RightKeys(t)
  BY <1>1, <1>2, TaskFacts DEF At, RightKeys, Many
<1>4. PICK fits \in SUBSET {k \in t.keys : Found(k)} :
        \/ t.keys = fits /\ ReturnMap(c, Redis!Unmarshal(t, fits), TRUE)
        \/ \E order \in Redis!Orders(t.keys \ fits) :
             task' = [task EXCEPT ![c] = [Redis!Unmarshal(t, fits) EXCEPT !.at = "load", !.missing = order]]
  BY <1>2, RedisShares DEF Redis!LoadMany, Redis!Fits, Redis!Hits
<1>5. PICK s : s = Redis!Unmarshal(t, fits)
  OBVIOUS
<1>6. /\ s \in TaskRec /\ FilledKeys(s) = fits /\ s.op = "LoadMany" /\ s.keys = t.keys
      /\ \A k \in Key : Own(k, s.filled[k])
  BY <1>3, <1>5, UnmarshalTask
<1>7. CASE t.keys = fits /\ ReturnMap(c, s, TRUE)
  <2>1. Moves
    BY <1>1, <1>3, <1>6, <1>7, MapMoves DEF At
  <2> QED
    BY <1>1, <2>1, QuietKeeps
<1>8. ASSUME NEW order \in Redis!Orders(t.keys \ fits),
             task' = [task EXCEPT ![c] = [s EXCEPT !.at = "load", !.missing = order]]
      PROVE  CacheInv'
  <2>1. IsFiniteSet(t.keys \ fits)
    BY <1>3, CacheAssumption, FS_Subset
  <2>2. /\ order \in Seq(t.keys \ fits) /\ {order[i] : i \in DOMAIN order} = t.keys \ fits
        /\ \A i, j \in 1..Len(order) : order[i] = order[j] => i = j
    BY <2>1, OrderOf
  <2>3. order \in Seq(Key)
    BY <1>3, <2>2, KeyKinds
  <2>4. PICK u : u = [s EXCEPT !.at = "load", !.missing = order]
    OBVIOUS
  <2>5. /\ u \in TaskRec /\ u.op = "LoadMany" /\ u.at = "load" /\ u.keys = t.keys
        /\ u.missing = order /\ u.filled = s.filled
    BY <1>6, <2>3, <2>4 DEF TaskRec
  <2>6. FilledKeys(u) = fits
    BY <1>6, <2>5 DEF FilledKeys
  <2>7. Missing(u) = t.keys \ fits
    <3>1. Missing(u) = {order[i] : i \in DOMAIN order}
      BY <2>5, Zenon DEF Missing
    <3> QED
      BY <2>2, <3>1
  <2>8. RightKeys(u)
    BY <1>3, <2>5, <2>7 DEF RightKeys
  <2>9. u.keys \ Missing(u) = FilledKeys(u)
    BY <2>5, <2>6, <2>7
  <2>10. Loops(u)
    BY <2>2, <2>5, <2>9 DEF Loops
  <2>11. Results(u)
    BY <1>6, <2>5 DEF Results
  <2>12. task' = [task EXCEPT ![c] = u]
    BY <1>8, <2>4
  <2>13. Moves
    BY <1>1, <2>5, <2>8, <2>10, <2>11, <2>12 DEF Moves, TaskOK, At
  <2> QED
    BY <1>1, <2>13, QuietKeeps
<1> QED
  BY <1>4, <1>5, <1>7, <1>8

(* Load on Redis, and the results of LoadMany stored one by one.           *)
LEMMA RedisFills ==
  ASSUME CacheInv, backend = "Redis", UNCHANGED backend, NEW c \in Client,
         Redis!Load(c) \/ Redis!FillOne(c)
  PROVE  CacheInv'
<1>1. CASE Redis!Load(c)
  <2>1. UNCHANGED <<kv, source, answers, twice, forever, clean>> /\ At(c, "Load", "start")
    BY <1>1, RedisPuts DEF Redis!Load, Redis!history
  <2>2. \/ Return(c)
        \/ \E k \in task[c].keys : task' = [task EXCEPT ![c].at = "load", ![c].missing = <<k>>]
    BY <1>1, RedisShares DEF Redis!Load
  <2>3. Moves
    BY <2>1, <2>2, ReturnMoves, LoadMoves DEF At
  <2> QED
    BY <2>1, <2>3, QuietKeeps
<1>2. CASE Redis!FillOne(c)
  <2>1. /\ task[c].at = "fill" /\ task[c].missing # <<>> /\ ~NilResult(task[c])
        /\ UNCHANGED <<source, clean>>
    BY <1>2, RedisShares DEF Redis!FillOne
  <2>2. PICK k, v : k = Head(task[c].missing) /\ v = Head(task[c].results)
    OBVIOUS
  <2>3. \/ \E e \in Expire : Redis!SET(k, v, e) /\ Redis!NoAnswer(k)
        \/ UNCHANGED <<kv, answers, twice, forever>>
    BY <1>2, <2>2, RedisShares DEF Redis!FillOne, Redis!Nothing
  <2>4. PICK u \in Received(NextMissing(task[c]), k, v) : task' = [task EXCEPT ![c] = u]
    BY <1>2, <2>2, RedisShares DEF Redis!FillOne
  <2>5. Moves
    BY <2>1, <2>2, <2>4, FillMoves
  <2>6. PICK t : t = task[c]
    OBVIOUS
  <2>7. TaskOK(t) /\ t.at = "fill" /\ t.missing # <<>> /\ t.results # <<>> /\ Head(t.results) # Absent
    BY <2>1, <2>6, TaskFacts DEF NilResult
  <2>8. k \in Data /\ Fresh(k, v)
    BY <2>2, <2>6, <2>7, NextMissingTask
  <2>9. CASE \E e \in Expire : Redis!SET(k, v, e) /\ Redis!NoAnswer(k)
    BY <2>1, <2>5, <2>8, <2>9, RedisStores
  <2>10. CASE UNCHANGED <<kv, answers, twice, forever>>
    BY <2>1, <2>5, <2>10, QuietKeeps
  <2> QED
    BY <2>3, <2>9, <2>10
<1> QED
  BY <1>1, <1>2

(* Every step of the Redis cache keeps the invariant.                      *)
LEMMA RedisKeeps ==
  ASSUME CacheInv, backend = "Redis", UNCHANGED backend, Redis!Next PROVE CacheInv'
<1>1. ASSUME NEW c \in Client, Redis!Calls(c) PROVE CacheInv'
  BY <1>1, RedisShared, CallsKeep
<1>2. ASSUME NEW c \in Client, Redis!Step(c) PROVE CacheInv'
  BY <1>2, RedisShared, SharedSteps, RedisReads, RedisSets, RedisTokens, RedisRemoves, RedisIncr, RedisExpires,
     RedisGetMany, RedisLoadMany, RedisFills DEF Redis!Step
<1>3. ASSUME NEW c \in Client, Redis!Crash(c) PROVE CacheInv'
  BY <1>3, RedisExpires
<1>4. ASSUME Redis!Surroundings PROVE CacheInv'
  BY <1>4, RedisShared, SurroundingsKeep
<1> QED
  BY <1>1, <1>2, <1>3, <1>4 DEF Redis!Next

-----------------------------------------------------------------------------
(* The invariant, and what it says of every reachable state.               *)

(* Whatever calls the clients of either cache make, in any interleaving of *)
(* their reads, loads and writes, with loaders that fail, entries that run *)
(* out and Deletes in between, entries are fresh, calls hold their own     *)
(* keys' values and exclusive answers are given once.                      *)
THEOREM CacheInvariant == CacheSpec => []CacheInv
<1>1. CacheInit => CacheInv
  <2> SUFFICES ASSUME CacheInit PROVE CacheInv
    OBVIOUS
  <2>1. kv = Empty /\ \A k \in Key : kv[k] = Absent
    BY DEF CacheInit, Init, Empty
  <2>2. CacheTypes
    <3>1. NoTask \in TaskRec
      BY DEF NoTask, TaskRec, Empty, Maybe
    <3> QED
      BY <3>1 DEF CacheInit, Init, Empty, CacheTypes
  <2>3. \A c \in Client : TaskOK(task[c])
    BY <2>2, EmptyTask DEF CacheInit, Init
  <2>4. EntriesFresh /\ ForeverOnlyAsAsked
    BY <2>1 DEF EntriesFresh, ForeverOnlyAsAsked, Found
  <2>5. Exclusive
    BY <2>1 DEF Exclusive, Found, CacheInit, Init
  <2> QED
    BY <2>2, <2>3, <2>4, <2>5 DEF CacheInv
<1>2. CacheInv /\ [CacheNext]_<<vars, backend>> => CacheInv'
  <2> SUFFICES ASSUME CacheInv, [CacheNext]_<<vars, backend>> PROVE CacheInv'
    OBVIOUS
  <2>1. CASE UNCHANGED <<vars, backend>>
    <3>1. Moves /\ UNCHANGED <<kv, source, answers, twice, forever, clean, backend>>
      BY <2>1 DEF Moves, vars, history
    <3> QED
      BY <3>1, QuietKeeps
  <2>2. CASE CacheNext
    BY <2>2, RistrettoKeeps, RedisKeeps DEF CacheNext
  <2> QED
    BY <2>1, <2>2
<1> QED
  BY <1>1, <1>2, PTL DEF CacheSpec

(* Loads match results to keys by position (ristretto.go:301, redis.go:251):*)
(* no client, in whatever order they run, gets or stores another key's value *)
(* or one from a version the source has not had.                           *)
THEOREM EveryValueOwn == CacheSpec => []OwnValues
<1>1. CacheInv => OwnValues
  <2> SUFFICES ASSUME CacheInv PROVE OwnValues
    OBVIOUS
  <2>1. \A k \in Key : Found(k) => Own(k, kv[k].val)
    BY DEF CacheInv, EntriesFresh, Fresh, Own
  <2>2. \A c \in Client, k \in Key : Own(k, task[c].filled[k])
    BY DEF CacheInv, TaskOK, Results
  <2> QED
    BY <2>1, <2>2 DEF OwnValues
<1> QED
  BY <1>1, CacheInvariant, PTL

(* GetMany and LoadMany leave in the caller's map the populated receivers  *)
(* and no others, whatever the loader leaves out.                          *)
THEOREM EveryReceiverFilledOrRemoved == CacheSpec => []FilledOrRemoved
<1>1. CacheInv => FilledOrRemoved
  BY DEF CacheInv, TaskOK, Loops, FilledKeys, FilledOrRemoved
<1> QED
  BY <1>1, CacheInvariant, PTL

(* A value older than a Delete comes back only from a fill or a Set that   *)
(* was on its way when the Delete ran.                                     *)
THEOREM NothingOlderAfterDelete == CacheSpec => []NothingOlderThanDelete
<1>1. CacheInv => NothingOlderThanDelete
  BY KeyKinds DEF CacheInv, EntriesFresh, Fresh, NothingOlderThanDelete
<1> QED
  BY <1>1, CacheInvariant, PTL

(* An entry without a TTL was asked for, or awaits the EXPIRE of Incr, or  *)
(* that EXPIRE was lost with an error or a crash.                          *)
THEOREM ForeverWasAskedFor == CacheSpec => []ForeverOnlyAsAsked
<1>1. CacheInv => ForeverOnlyAsAsked
  BY DEF CacheInv
<1> QED
  BY <1>1, CacheInvariant, PTL

(* On Redis SetNX and GetAndDelete never give the same answer twice in the *)
(* life of a key, nor does Incr while its deltas are positive, whichever   *)
(* commands fail and whoever crashes.                                      *)
THEOREM AnswersAreExclusive == CacheSpec => []ExclusiveAnswers
<1>1. CacheInv => ExclusiveAnswers
  BY DEF CacheInv, Exclusive, ExclusiveAnswers
<1> QED
  BY <1>1, CacheInvariant, PTL
=============================================================================
