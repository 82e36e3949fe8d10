------------------------------- MODULE Caches -------------------------------
(***************************************************************************)
(* The implementations of cachespi.Cache behind one interface: the same    *)
(* calls on the one or the other.                                          *)
(***************************************************************************)
EXTENDS Cachespi

VARIABLE backend

Ristretto == INSTANCE RistrettoCache
Redis     == INSTANCE RedisCache

CacheInit == Init /\ backend \in {"Ristretto", "Redis"}

CacheNext == /\ UNCHANGED backend
             /\ \/ backend = "Ristretto" /\ Ristretto!Next
                \/ backend = "Redis" /\ Redis!Next

CacheSpec == CacheInit /\ [][CacheNext]_<<vars, backend>>

(* On Redis SetNX is won once and a token is taken once in the life of a   *)
(* key, and while a counter counts up every number is given once, whatever *)
(* fails in between; it may come to a number again after an Incr whose     *)
(* delta is zero or negative.  Ristretto promises less: its SetNX,         *)
(* GetAndDelete and Incr are two steps each.                               *)
ExclusiveAnswers == backend = "Redis" => twice = {}
=============================================================================
