---------------------------- MODULE RateLimiter ----------------------------
(***************************************************************************)
(* The rate limiter middleware (http/httphelper/ratelimit.go): requests    *)
(* of any number of keys and a cleanup goroutine share a map of visitors   *)
(* behind a mutex.  The clock is read under the mutex and runs on at any   *)
(* moment, so the ticker of cleanup may fire as late as it likes.          *)
(***************************************************************************)
EXTENDS Naturals, Sequences

CONSTANTS
  Key,     \* what KeyFunc returns
  Rate,    \* requests per window: positive, RateLimit replaces other values
  Window,  \* length of a window
  Absent,  \* no visitor is stored under the key
  MaxTime  \* bound: the clock

ASSUME LimiterAssumption ==
  /\ Rate \in Nat \ {0} /\ Window \in Nat \ {0} /\ MaxTime \in Nat
  /\ Absent \notin [count : Nat, resetAt : Nat]

VARIABLES
  visitors, \* rl.visitors
  now,      \* time.Now()
  verdict,  \* the last answer of allow for each key
  passes    \* history: when requests of each key were allowed

limiterVars == <<visitors, now, verdict, passes>>

Visitor == [count : 1..Rate, resetAt : Nat]

newRateLimiter ==
  /\ visitors = [k \in Key |-> Absent]
  /\ now = 1
  /\ verdict = [k \in Key |-> "none"]
  /\ passes = [k \in Key |-> <<>>]

(* Mutant: a window is over at resetAt.                                    *)
openBefore(v) == v # Absent /\ now < v.resetAt

(* A stored visitor whose window is still open.                            *)
Open(v) == v # Absent /\ ~(now > v.resetAt)

Admit(k, v) ==
  /\ visitors' = [visitors EXCEPT ![k] = v]
  /\ verdict' = [verdict EXCEPT ![k] = "allowed"]
  /\ passes' = [passes EXCEPT ![k] = Append(@, now)]
  /\ UNCHANGED now

FirstRequest(k) ==
  /\ ~Open(visitors[k])
  /\ Admit(k, [count |-> 1, resetAt |-> now + Window])

(* Mutant: one request too many.                                           *)
oneMoreRequest(k) ==
  /\ Open(visitors[k]) /\ visitors[k].count <= Rate
  /\ Admit(k, [visitors[k] EXCEPT !.count = @ + 1])

NextRequest(k) ==
  /\ Open(visitors[k]) /\ visitors[k].count < Rate
  /\ Admit(k, [visitors[k] EXCEPT !.count = @ + 1])

Reject(k) ==
  /\ Open(visitors[k]) /\ visitors[k].count >= Rate
  /\ verdict' = [verdict EXCEPT ![k] = "denied"]
  /\ UNCHANGED <<visitors, now, passes>>

allow(k) == FirstRequest(k) \/ NextRequest(k) \/ Reject(k)

(* Mutant: cleanup does not look at resetAt.                               *)
cleanupAll ==
  /\ visitors' = [k \in Key |-> Absent]
  /\ UNCHANGED <<now, verdict, passes>>

cleanup ==
  /\ visitors' = [k \in Key |-> IF Open(visitors[k]) THEN visitors[k] ELSE Absent]
  /\ UNCHANGED <<now, verdict, passes>>

Tick ==
  /\ now < MaxTime
  /\ now' = now + 1
  /\ UNCHANGED <<visitors, verdict, passes>>

LimiterNext == Tick \/ cleanup \/ \E k \in Key : allow(k)

LimiterSpec == newRateLimiter /\ [][LimiterNext]_limiterVars

-----------------------------------------------------------------------------
(* Properties.                                                             *)

(* Type invariant.                                                         *)
TypeOK ==
  /\ visitors \in [Key -> Visitor \cup {Absent}]
  /\ now \in Nat \ {0}
  /\ verdict \in [Key -> {"none", "allowed", "denied"}]
  /\ passes \in [Key -> Seq(Nat)]

(* Any 2 * Rate + 1 requests of a key that were allowed span more than a   *)
(* window: windows open at the first request, so two of them may touch.    *)
TwiceRatePerWindow ==
  \A k \in Key : \A i \in DOMAIN passes[k] :
    i + 2 * Rate <= Len(passes[k]) => passes[k][i + 2 * Rate] > passes[k][i] + Window

(* A quota per key, which cleanup never gives back early and never keeps:  *)
(* deleting a visitor cannot be told from leaving it.                      *)
Quota == INSTANCE RequestQuota WITH
  left   <- [k \in Key |-> IF Open(visitors[k]) THEN Rate - visitors[k].count ELSE Rate],
  closes <- [k \in Key |-> IF Open(visitors[k]) THEN visitors[k].resetAt ELSE 0]

ImplementsQuota == Quota!Spec
=============================================================================
