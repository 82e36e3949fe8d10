---------------------------- MODULE RequestQuota ----------------------------
(***************************************************************************)
(* What RateLimit (http/httphelper/ratelimit.go) promises each key: a      *)
(* quota of Rate requests from the first request on, given back in full    *)
(* when more than Window has passed since then, and at no other time.      *)
(***************************************************************************)
EXTENDS Naturals

CONSTANTS
  Key,     \* what KeyFunc returns
  Rate,    \* requests per window
  Window,  \* length of a window
  MaxTime  \* bound: the clock

VARIABLES
  now,     \* the clock
  left,    \* requests each key has left
  closes,  \* when the window of each key closes, 0 when none is open
  verdict  \* the last answer each key got

vars == <<now, left, closes, verdict>>

Init == /\ now = 1
        /\ left = [k \in Key |-> Rate]
        /\ closes = [k \in Key |-> 0]
        /\ verdict = [k \in Key |-> "none"]

Pass(k) ==
  /\ left[k] > 0
  /\ left' = [left EXCEPT ![k] = @ - 1]
  /\ closes' = [closes EXCEPT ![k] = IF @ = 0 THEN now + Window ELSE @]
  /\ verdict' = [verdict EXCEPT ![k] = "allowed"]
  /\ UNCHANGED now

Refuse(k) ==
  /\ left[k] = 0
  /\ verdict' = [verdict EXCEPT ![k] = "denied"]
  /\ UNCHANGED <<now, left, closes>>

Tick ==
  /\ now < MaxTime
  /\ now' = now + 1
  /\ left' = [k \in Key |-> IF closes[k] < now + 1 THEN Rate ELSE left[k]]
  /\ closes' = [k \in Key |-> IF closes[k] < now + 1 THEN 0 ELSE closes[k]]
  /\ UNCHANGED verdict

Next == Tick \/ \E k \in Key : Pass(k) \/ Refuse(k)

Spec == Init /\ [][Next]_vars
=============================================================================
