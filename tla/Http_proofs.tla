---------------------------- MODULE Http_proofs -----------------------------
(***************************************************************************)
(* Theorems about the two parts of package http that keep state, which     *)
(* share no variable.  The rate limiter implements a quota per key for any *)
(* keys, rate and window, the cleanup goroutine being invisible, and no    *)
(* span of a window's length sees more than twice the rate.  The HTTP      *)
(* client keeps the requests of any clients made of one shared client      *)
(* apart.                                                                  *)
(***************************************************************************)
EXTENDS RateLimiter, HttpClient, SequenceTheorems, TLAPS

(* The rate limiter.                                                       *)

(* What is left of a visitor's quota, and when it is given back.           *)
Left   == [k \in Key |-> IF Open(visitors[k]) THEN Rate - visitors[k].count ELSE Rate]
Closes == [k \in Key |-> IF Open(visitors[k]) THEN visitors[k].resetAt ELSE 0]

-----------------------------------------------------------------------------
(* The counters stay between 1 and Rate.                                   *)
THEOREM LimiterTypeCorrect == LimiterSpec => []TypeOK
<1>1. newRateLimiter => TypeOK
  BY DEF newRateLimiter, TypeOK
<1>2. TypeOK /\ [LimiterNext]_limiterVars => TypeOK'
  <2> SUFFICES ASSUME TypeOK, [LimiterNext]_limiterVars PROVE TypeOK'  OBVIOUS
  <2> USE LimiterAssumption
  <2>1. CASE Tick  BY <2>1 DEF Tick, TypeOK
  <2>2. CASE cleanup  BY <2>2 DEF cleanup, TypeOK
  <2>3. ASSUME NEW k \in Key, NEW v \in Visitor, Admit(k, v) PROVE TypeOK'
    BY <2>3 DEF Admit, TypeOK
  <2>4. CASE \E k \in Key : FirstRequest(k)
    <3>1. PICK k \in Key : FirstRequest(k)  BY <2>4
    <3>2. [count |-> 1, resetAt |-> now + Window] \in Visitor  BY DEF TypeOK, Visitor
    <3> QED  BY <2>3, <3>1, <3>2 DEF FirstRequest
  <2>5. CASE \E k \in Key : NextRequest(k)
    <3>1. PICK k \in Key : NextRequest(k)  BY <2>5
    <3>2. visitors[k] \in Visitor  BY <3>1 DEF NextRequest, Open, TypeOK
    <3>3. [visitors[k] EXCEPT !.count = visitors[k].count + 1] \in Visitor
      BY <3>1, <3>2 DEF NextRequest, Visitor
    <3> QED  BY <2>3, <3>1, <3>3 DEF NextRequest
  <2>6. CASE \E k \in Key : Reject(k)  BY <2>6 DEF Reject, TypeOK
  <2>7. CASE UNCHANGED limiterVars  BY <2>7 DEF limiterVars, TypeOK
  <2> QED  BY <2>1, <2>2, <2>4, <2>5, <2>6, <2>7 DEF LimiterNext, allow
<1> QED  BY <1>1, <1>2, PTL DEF LimiterSpec

-----------------------------------------------------------------------------
(* An admitted request takes one from the quota.                           *)
LEMMA AdmitIsPass ==
  ASSUME TypeOK, NEW k \in Key, FirstRequest(k) \/ NextRequest(k)
  PROVE  Quota!Pass(k)
<1> USE LimiterAssumption
<1>1. /\ Left[k] > 0
      /\ now' = now
      /\ verdict' = [verdict EXCEPT ![k] = "allowed"]
  BY DEF FirstRequest, NextRequest, Admit, Left, Open, TypeOK, Visitor
<1>2. /\ \A j \in Key \ {k} : visitors'[j] = visitors[j]
      /\ visitors'[k].count = IF Open(visitors[k]) THEN visitors[k].count + 1 ELSE 1
      /\ visitors'[k].resetAt = IF Open(visitors[k]) THEN visitors[k].resetAt ELSE now + Window
      /\ visitors'[k] # Absent
  <2>1. CASE FirstRequest(k)
    <3>1. visitors' = [visitors EXCEPT ![k] = [count |-> 1, resetAt |-> now + Window]]
      BY <2>1 DEF FirstRequest, Admit
    <3>2. [count |-> 1, resetAt |-> now + Window] # Absent  BY DEF TypeOK
    <3> QED  BY <3>1, <3>2, <2>1 DEF FirstRequest, TypeOK
  <2>2. CASE NextRequest(k)
    <3>1. visitors[k] \in Visitor /\ Open(visitors[k]) /\ visitors[k].count < Rate
      BY <2>2 DEF NextRequest, Open, TypeOK
    <3>2. visitors' = [visitors EXCEPT ![k] = [visitors[k] EXCEPT !.count = visitors[k].count + 1]]
      BY <2>2 DEF NextRequest, Admit
    <3>3. [visitors[k] EXCEPT !.count = visitors[k].count + 1] \in [count : Nat, resetAt : Nat]
      BY <3>1 DEF Visitor
    <3> QED  BY <3>1, <3>2, <3>3 DEF TypeOK, Visitor
  <2> QED  BY <2>1, <2>2
<1>3. /\ Open(visitors[k])'
      /\ Open(visitors[k]) => visitors[k].resetAt \in Nat /\ visitors[k].count \in 1..Rate
  BY <1>1, <1>2 DEF Open, TypeOK, Visitor
<1>4. \A j \in Key \ {k} : Open(visitors[j])' = Open(visitors[j])
  BY <1>1, <1>2 DEF Open
<1>5. Left' = [Left EXCEPT ![k] = Left[k] - 1]
  <2>1. Left'[k] = Left[k] - 1  BY <1>2, <1>3 DEF Left
  <2>2. \A j \in Key \ {k} : Left'[j] = Left[j]  BY <1>2, <1>4 DEF Left
  <2> QED  BY <2>1, <2>2 DEF Left
<1>6. Closes' = [Closes EXCEPT ![k] = IF Closes[k] = 0 THEN now + Window ELSE Closes[k]]
  <2>1. Open(visitors[k]) => visitors[k].resetAt # 0
    BY <1>3 DEF Open, TypeOK
  <2>2. Closes'[k] = IF Closes[k] = 0 THEN now + Window ELSE Closes[k]
    BY <2>1, <1>2, <1>3 DEF Closes
  <2>3. \A j \in Key \ {k} : Closes'[j] = Closes[j]  BY <1>2, <1>4 DEF Closes
  <2> QED  BY <2>2, <2>3 DEF Closes
<1> QED  BY <1>1, <1>5, <1>6 DEF Quota!Pass, Left, Closes

(* A step of the clock gives back the quotas whose window it closes.       *)
LEMMA TickIsTick ==
  ASSUME TypeOK, Tick
  PROVE  Quota!Tick
<1>1. /\ now < MaxTime /\ now' = now + 1 /\ visitors' = visitors /\ verdict' = verdict
      /\ now \in Nat \ {0}
  BY DEF Tick, TypeOK
<1>2. \A k \in Key : Open(visitors[k])' <=> Open(visitors[k]) /\ ~(visitors[k].resetAt < now + 1)
  BY <1>1 DEF Open, TypeOK, Visitor
<1>3. Left' = [k \in Key |-> IF Closes[k] < now + 1 THEN Rate ELSE Left[k]]
  BY <1>1, <1>2 DEF Left, Closes
<1>4. Closes' = [k \in Key |-> IF Closes[k] < now + 1 THEN 0 ELSE Closes[k]]
  BY <1>1, <1>2 DEF Closes
<1> QED  BY <1>1, <1>3, <1>4 DEF Quota!Tick, Left, Closes

(* allow gives exactly the answers of a quota per key; the cleanup         *)
(* goroutine, whenever it runs, is a stuttering step.                      *)
THEOREM LimiterImplementsQuota == LimiterSpec => ImplementsQuota
<1>1. newRateLimiter => Quota!Init
  BY DEF newRateLimiter, Quota!Init, Open
<1>2. TypeOK /\ [LimiterNext]_limiterVars => [Quota!Next]_Quota!vars
  <2> SUFFICES ASSUME TypeOK, [LimiterNext]_limiterVars PROVE [Quota!Next]_Quota!vars  OBVIOUS
  <2>1. CASE Tick  BY <2>1, TickIsTick DEF Quota!Next
  <2>2. CASE \E k \in Key : FirstRequest(k) \/ NextRequest(k)
    BY <2>2, AdmitIsPass DEF Quota!Next
  <2>3. CASE \E k \in Key : Reject(k)
    <3>1. PICK k \in Key : Reject(k)  BY <2>3
    <3>2. /\ Left[k] = 0 /\ visitors' = visitors /\ now' = now
          /\ verdict' = [verdict EXCEPT ![k] = "denied"]
      BY <3>1, LimiterAssumption DEF Reject, Left, Open, TypeOK, Visitor
    <3>3. Left' = Left /\ Closes' = Closes  BY <3>2 DEF Left, Closes, Open
    <3>4. Quota!Refuse(k)  BY <3>2, <3>3 DEF Quota!Refuse, Left, Closes
    <3> QED  BY <3>4 DEF Quota!Next
  <2>4. CASE cleanup \/ UNCHANGED limiterVars
    <3>1. now' = now /\ verdict' = verdict  BY <2>4 DEF cleanup, limiterVars
    <3>2. \A k \in Key : /\ Open(visitors[k])' = Open(visitors[k])
                         /\ Open(visitors[k]) => visitors'[k] = visitors[k]
      BY <2>4, <3>1 DEF cleanup, limiterVars, Open
    <3>3. Left' = Left /\ Closes' = Closes  BY <3>2 DEF Left, Closes
    <3> QED  BY <3>1, <3>3 DEF Quota!vars, Left, Closes
  <2> QED  BY <2>1, <2>2, <2>3, <2>4 DEF LimiterNext, allow
<1> QED  BY <1>1, <1>2, LimiterTypeCorrect, PTL DEF LimiterSpec, ImplementsQuota, Quota!Spec

-----------------------------------------------------------------------------
(* Requests of a key that were allowed.                                    *)

Passes(k) == Len(passes[k])
IsOpen(k) == Open(visitors[k])
Start(k)  == IF IsOpen(k) THEN visitors[k].resetAt - Window ELSE now
First(k)  == IF IsOpen(k) THEN Passes(k) - visitors[k].count + 1 ELSE Passes(k) + 1

(* Request j has opened a window: all before it are earlier, and Rate      *)
(* requests later that window is over.                                     *)
Opens(k, j) ==
  /\ \A i \in 1..(j - 1) : passes[k][i] < passes[k][j]
  /\ \A m \in 1..Passes(k) : m >= j + Rate => passes[k][m] > passes[k][j] + Window
  /\ passes[k][j] + Window < Start(k) \/ j = First(k)

(* Among Rate requests that follow a request, one has opened a window.     *)
WindowInv(k) ==
  /\ \A m \in 1..Passes(k) : /\ passes[k][m] <= now
                             /\ ~ IsOpen(k) => passes[k][m] < now
  /\ IsOpen(k) => /\ visitors[k].count <= Passes(k)
                  /\ passes[k][First(k)] = Start(k)
                  /\ \A i \in 1..(First(k) - 1) : passes[k][i] < Start(k)
  /\ \A i \in 1..Passes(k) : i + Rate <= Passes(k) =>
       \E j \in 1..Passes(k) : i < j /\ j <= i + Rate /\ Opens(k, j)

(* Types of one key.                                                       *)
LEMMA KeyTypes ==
  ASSUME TypeOK, NEW k \in Key
  PROVE  /\ passes[k] \in Seq(Nat) /\ Passes(k) \in Nat /\ DOMAIN passes[k] = 1..Passes(k)
         /\ \A m \in 1..Passes(k) : passes[k][m] \in Nat
         /\ now \in Nat /\ Rate \in Nat \ {0} /\ Window \in Nat
         /\ IsOpen(k) => /\ visitors[k].count \in 1..Rate /\ visitors[k].resetAt \in Nat
                         /\ now <= visitors[k].resetAt
<1>1. passes[k] \in Seq(Nat) /\ now \in Nat  BY DEF TypeOK
<1>2. Passes(k) \in Nat /\ DOMAIN passes[k] = 1..Passes(k) /\ \A m \in 1..Passes(k) : passes[k][m] \in Nat
  BY <1>1, LenProperties, ElementOfSeq DEF Passes
<1>3. IsOpen(k) => visitors[k] \in Visitor /\ ~ (now > visitors[k].resetAt)  BY DEF IsOpen, Open, TypeOK
<1>4. IsOpen(k) => /\ visitors[k].count \in 1..Rate /\ visitors[k].resetAt \in Nat
                  /\ now <= visitors[k].resetAt
  BY <1>1, <1>3 DEF Visitor
<1> QED  BY <1>1, <1>2, <1>4, LimiterAssumption

(* A request that was allowed: the first of its window, or one that found  *)
(* the window open and not full.                                           *)
LEMMA AdmitKeepsWindows ==
  ASSUME TypeOK, NEW k \in Key, WindowInv(k), FirstRequest(k) \/ NextRequest(k)
  PROVE  WindowInv(k)'
<1>1. /\ passes[k] \in Seq(Nat) /\ Passes(k) \in Nat /\ now \in Nat /\ Rate \in Nat \ {0} /\ Window \in Nat
      /\ \A m \in 1..Passes(k) : passes[k][m] \in Nat
      /\ IsOpen(k) => /\ visitors[k].count \in 1..Rate /\ visitors[k].resetAt \in Nat
                      /\ now <= visitors[k].resetAt
  BY KeyTypes
<1>2. PICK n \in Nat : n = Passes(k)  BY <1>1
<1>3. /\ Passes(k)' = n + 1 /\ \A m \in 1..n : passes'[k][m] = passes[k][m]
      /\ passes'[k][n + 1] = now /\ now' = now
  <2>1. passes'[k] = Append(passes[k], now) /\ now' = now
    BY DEF FirstRequest, NextRequest, Admit, TypeOK
  <2> QED  BY <2>1, <1>1, <1>2, AppendProperties DEF Passes
<1>4. /\ IsOpen(k)'
      /\ visitors'[k].count = IF IsOpen(k) THEN visitors[k].count + 1 ELSE 1
      /\ visitors'[k].resetAt = IF IsOpen(k) THEN visitors[k].resetAt ELSE now + Window
      /\ IsOpen(k) => visitors[k].count < Rate
  <2>1. CASE FirstRequest(k)
    <3>1. visitors'[k] = [count |-> 1, resetAt |-> now + Window] /\ ~ IsOpen(k)
      BY <2>1 DEF FirstRequest, Admit, TypeOK, IsOpen
    <3>2. [count |-> 1, resetAt |-> now + Window] # Absent  BY <1>1, LimiterAssumption
    <3>3. visitors'[k].count = 1 /\ visitors'[k].resetAt = now + Window  BY <3>1
    <3>4. ~ (now > now + Window)  BY <1>1
    <3> QED  BY <3>1, <3>2, <3>3, <3>4, <1>3 DEF IsOpen, Open
  <2>2. CASE NextRequest(k)
    <3>1. /\ visitors[k] \in Visitor /\ IsOpen(k) /\ visitors[k].count < Rate
          /\ visitors'[k] = [visitors[k] EXCEPT !.count = visitors[k].count + 1]
      BY <2>2 DEF NextRequest, Admit, TypeOK, IsOpen, Open
    <3>2. /\ visitors'[k].count = visitors[k].count + 1
          /\ visitors'[k].resetAt = visitors[k].resetAt
      BY <3>1 DEF Visitor
    <3>3. visitors'[k] # Absent
      <4>1. visitors'[k] \in [count : Nat, resetAt : Nat]  BY <1>1, <3>1 DEF Visitor
      <4> QED  BY <4>1, LimiterAssumption
    <3> QED  BY <3>1, <3>2, <3>3, <1>1, <1>3 DEF IsOpen, Open
  <2> QED  BY <2>1, <2>2
<1>5. PICK b \in 1..(n + 1), s \in Int :
        /\ b = First(k) /\ s = Start(k) /\ b = First(k)' /\ s = Start(k)'
        /\ s <= now /\ n + 1 < b + Rate /\ visitors'[k].count <= n + 1
        /\ passes'[k][b] = s /\ \A i \in 1..(b - 1) : passes[k][i] < s
  <2>1. CASE IsOpen(k)
    <3>1. visitors[k].count <= n /\ passes[k][First(k)] = Start(k)
          /\ \A i \in 1..(First(k) - 1) : passes[k][i] < Start(k)
      BY <2>1, <1>2 DEF WindowInv
    <3>2. First(k) = n - visitors[k].count + 1 /\ First(k) \in 1..n  BY <2>1, <3>1, <1>1, <1>2 DEF First
    <3>3. First(k)' = First(k)
      <4>1. visitors'[k].count = visitors[k].count + 1 /\ visitors[k].count \in Nat  BY <2>1, <1>1, <1>4
      <4>2. First(k)' = (n + 1) - visitors'[k].count + 1  BY <1>3, <1>4 DEF First
      <4> QED  BY <4>1, <4>2, <3>2
    <3>4. Start(k) = visitors[k].resetAt - Window /\ Start(k)' = Start(k)  BY <2>1, <1>4 DEF Start
    <3>5. Start(k) <= now
      <4>1. passes[k][First(k)] <= now  BY <3>2, <1>2 DEF WindowInv
      <4> QED  BY <4>1, <3>1
    <3>6. visitors[k].count \in Nat /\ visitors[k].count < Rate
          /\ visitors'[k].count = visitors[k].count + 1 /\ Start(k) \in Int
      BY <2>1, <3>4, <1>1, <1>4
    <3>7. n + 1 < First(k) + Rate /\ visitors'[k].count <= n + 1 /\ First(k) \in 1..(n + 1)
      <4>1. PICK c, r, f : c = visitors[k].count /\ r = Rate /\ f = First(k)  OBVIOUS
      <4>2. c \in Nat /\ r \in Nat /\ c < r /\ c <= n /\ f = n - c + 1 /\ f \in 1..n
        BY <4>1, <3>1, <3>2, <3>6, <1>1
      <4>3. n + 1 < f + r /\ c + 1 <= n + 1 /\ f \in 1..(n + 1)  BY <4>2, <1>2
      <4> QED  BY <4>1, <4>3, <3>6
    <3>8. passes'[k][First(k)] = Start(k)  BY <3>1, <3>2, <1>3
    <3> QED  BY <3>1, <3>3, <3>4, <3>5, <3>6, <3>7, <3>8
  <2>2. CASE ~ IsOpen(k)
    <3>1. First(k) = n + 1 /\ Start(k) = now  BY <2>2, <1>2 DEF First, Start
    <3>2. First(k)' = n + 1  BY <2>2, <1>3, <1>4 DEF First
    <3>3. Start(k)' = now  BY <2>2, <1>1, <1>4 DEF Start
    <3>4. \A i \in 1..n : passes[k][i] < now  BY <2>2, <1>2 DEF WindowInv
    <3> QED  BY <2>2, <3>1, <3>2, <3>3, <3>4, <1>1, <1>3, <1>4
  <2> QED  BY <2>1, <2>2
<1>6. \A m \in 1..(n + 1) : m \in 1..n \/ m = n + 1  OBVIOUS
<1>7. \A m \in 1..(n + 1) : passes'[k][m] <= now  BY <1>1, <1>2, <1>3, <1>6 DEF WindowInv
<1>8. ASSUME NEW j \in 1..n, Opens(k, j) PROVE Opens(k, j)'
  <2>1. /\ \A i \in 1..(j - 1) : passes[k][i] < passes[k][j]
        /\ \A m \in 1..n : m >= j + Rate => passes[k][m] > passes[k][j] + Window
        /\ passes[k][j] + Window < s \/ j = b
    BY <1>8, <1>2, <1>5 DEF Opens
  <2>2. \A i \in 1..(j - 1) : passes'[k][i] < passes'[k][j]  BY <2>1, <1>3
  <2>3. ASSUME NEW m \in 1..(n + 1), m >= j + Rate PROVE passes'[k][m] > passes'[k][j] + Window
    <3>1. passes'[k][j] = passes[k][j] /\ passes[k][j] \in Nat  BY <1>1, <1>2, <1>3
    <3>2. CASE m \in 1..n  BY <3>1, <3>2, <2>1, <2>3, <1>3
    <3>3. CASE m = n + 1
      <4>0. s \in Int /\ s <= now /\ n + 1 < b + Rate  BY <1>5
      <4>1. j # b  BY <4>0, <3>3, <2>3, <1>1
      <4>2. passes[k][j] + Window < now  BY <4>0, <4>1, <3>1, <2>1, <1>1
      <4> QED  BY <4>2, <3>1, <3>3, <1>3
    <3> QED  BY <3>2, <3>3, <1>6
  <2>4. passes'[k][j] + Window < Start(k)' \/ j = First(k)'  BY <2>1, <1>3, <1>5
  <2> QED  BY <2>2, <2>3, <2>4, <1>3 DEF Opens
<1>9. Opens(k, b)'
  <2>1. \A i \in 1..(b - 1) : passes'[k][i] < passes'[k][b]
    <3>1. \A i \in 1..(b - 1) : i \in 1..n  OBVIOUS
    <3> QED  BY <3>1, <1>3, <1>5
  <2>2. \A m \in 1..(n + 1) : ~ (m >= b + Rate)  BY <1>1, <1>5
  <2> QED  BY <2>1, <2>2, <1>3, <1>5 DEF Opens
<1>10. ASSUME NEW i \in 1..(n + 1), i + Rate <= n + 1
       PROVE  \E j \in 1..(n + 1) : i < j /\ j <= i + Rate /\ Opens(k, j)'
  <2>1. CASE i + Rate <= n
    <3>1. i \in 1..n  BY <2>1, <1>1
    <3>2. PICK j \in 1..n : i < j /\ j <= i + Rate /\ Opens(k, j)
      BY <2>1, <3>1, <1>2 DEF WindowInv
    <3> QED  BY <3>2, <1>8
  <2>2. CASE i + Rate = n + 1
    <3>1. i < b /\ b <= i + Rate  BY <2>2, <1>1, <1>5
    <3> QED  BY <3>1, <1>9
  <2> QED  BY <2>1, <2>2, <1>10, <1>1
<1>11. \A i \in 1..(b - 1) : passes'[k][i] < s
  <2>1. \A i \in 1..(b - 1) : i \in 1..n  OBVIOUS
  <2> QED  BY <2>1, <1>3, <1>5
<1> QED  BY <1>3, <1>4, <1>5, <1>7, <1>10, <1>11 DEF WindowInv

(* Time goes on, and visitors whose window is over are deleted.            *)
LEMMA WindowsStay ==
  ASSUME TypeOK, NEW k \in Key, WindowInv(k), passes'[k] = passes[k], now' \in Nat, now <= now',
         IsOpen(k)' => IsOpen(k) /\ visitors'[k] = visitors[k],
         (IsOpen(k) /\ ~ IsOpen(k)') => now' > visitors[k].resetAt
  PROVE  WindowInv(k)'
<1>1. /\ Passes(k) \in Nat /\ now \in Nat /\ Rate \in Nat \ {0} /\ Window \in Nat
      /\ \A m \in 1..Passes(k) : passes[k][m] \in Nat
      /\ IsOpen(k) => /\ visitors[k].count \in 1..Rate /\ visitors[k].resetAt \in Nat
                      /\ now <= visitors[k].resetAt
  BY KeyTypes
<1>2. Passes(k)' = Passes(k)  BY DEF Passes
<1>3. ASSUME NEW j \in 1..Passes(k), Opens(k, j) PROVE Opens(k, j)'
  <2>1. passes[k][j] + Window < Start(k)' \/ j = First(k)'
    <3>1. passes[k][j] + Window < Start(k) \/ j = First(k)  BY <1>3 DEF Opens
    <3>2. CASE IsOpen(k)'
      <4>1. Start(k)' = Start(k) /\ First(k)' = First(k)  BY <3>2, <1>2 DEF Start, First
      <4> QED  BY <3>1, <4>1
    <3>3. CASE IsOpen(k) /\ ~ IsOpen(k)'
      <4>1. Start(k)' = now' /\ Start(k) = visitors[k].resetAt - Window  BY <3>3 DEF Start
      <4>2. j = First(k) => passes[k][j] = Start(k)  BY <3>3 DEF WindowInv
      <4>3. passes[k][j] <= Start(k)  BY <4>1, <4>2, <3>1, <3>3, <1>1
      <4> QED  BY <4>1, <4>3, <3>3, <1>1
    <3>4. CASE ~ IsOpen(k) /\ ~ IsOpen(k)'
      <4>1. Start(k) = now /\ Start(k)' = now' /\ First(k)' = First(k)  BY <3>4, <1>2 DEF Start, First
      <4> QED  BY <4>1, <3>1, <1>1
    <3> QED  BY <3>2, <3>3, <3>4
  <2> QED  BY <2>1, <1>2, <1>3 DEF Opens
<1>4. \A m \in 1..Passes(k) : passes'[k][m] <= now' /\ (~ IsOpen(k)' => passes'[k][m] < now')
  BY <1>1 DEF WindowInv
<1>5. IsOpen(k)' => /\ visitors'[k].count <= Passes(k)
                   /\ passes'[k][First(k)'] = Start(k)'
                   /\ \A i \in 1..(First(k)' - 1) : passes'[k][i] < Start(k)'
  <2>1. IsOpen(k)' => Start(k)' = Start(k) /\ First(k)' = First(k)  BY <1>2 DEF Start, First
  <2> QED  BY <2>1 DEF WindowInv
<1>6. \A i \in 1..Passes(k) : i + Rate <= Passes(k) =>
        \E j \in 1..Passes(k) : i < j /\ j <= i + Rate /\ Opens(k, j)'
  BY <1>3 DEF WindowInv
<1> QED  BY <1>2, <1>4, <1>5, <1>6 DEF WindowInv

(* Windows open at the first request, so two of them may touch, but never  *)
(* three: 2 * Rate + 1 requests of a key span more than one.               *)
THEOREM AtMostTwiceTheRate == LimiterSpec => []TwiceRatePerWindow
<1> DEFINE Windows == \A k \in Key : WindowInv(k)
<1>1. newRateLimiter => Windows
  <2> SUFFICES ASSUME newRateLimiter, NEW k \in Key PROVE WindowInv(k)  OBVIOUS
  <2>1. Passes(k) = 0 /\ ~ IsOpen(k)
    <3>1. passes[k] = <<>> /\ visitors[k] = Absent  BY DEF newRateLimiter
    <3> QED  BY <3>1, EmptySeq DEF Passes, IsOpen, Open
  <2> QED  BY <2>1 DEF WindowInv
<1>2. TypeOK /\ Windows /\ [LimiterNext]_limiterVars => Windows'
  <2> SUFFICES ASSUME TypeOK, Windows, [LimiterNext]_limiterVars, NEW k \in Key PROVE WindowInv(k)'  OBVIOUS
  <2>1. now \in Nat /\ passes \in [Key -> Seq(Nat)] /\ visitors \in [Key -> Visitor \cup {Absent}]
    BY DEF TypeOK
  <2>2. ASSUME NEW j \in Key, FirstRequest(j) \/ NextRequest(j) PROVE WindowInv(k)'
    <3>1. CASE j = k  BY <2>2, <3>1, AdmitKeepsWindows
    <3>2. CASE j # k
      <4>1. passes'[k] = passes[k] /\ visitors'[k] = visitors[k] /\ now' = now
        BY <2>1, <2>2, <3>2 DEF FirstRequest, NextRequest, Admit
      <4>2. IsOpen(k)' <=> IsOpen(k)  BY <4>1 DEF IsOpen, Open
      <4> QED  BY <2>1, <4>1, <4>2, WindowsStay
    <3> QED  BY <3>1, <3>2
  <2>3. CASE Tick
    <3>1. passes' = passes /\ visitors' = visitors /\ now' = now + 1  BY <2>3 DEF Tick
    <3>2. now' \in Nat /\ now <= now'  BY <2>1, <3>1
    <3>3. IsOpen(k)' => IsOpen(k)
      <4>1. IsOpen(k)' => visitors[k] \in Visitor  BY <2>1, <3>1 DEF IsOpen, Open
      <4>2. visitors[k] \in Visitor => visitors[k].resetAt \in Nat  BY DEF Visitor
      <4> QED  BY <4>1, <4>2, <2>1, <3>1 DEF IsOpen, Open
    <3>4. (IsOpen(k) /\ ~ IsOpen(k)') => now' > visitors[k].resetAt  BY <3>1 DEF IsOpen, Open
    <3> QED  BY <3>1, <3>2, <3>3, <3>4, WindowsStay
  <2>4. CASE cleanup
    <3>1. passes' = passes /\ now' = now
          /\ visitors'[k] = IF IsOpen(k) THEN visitors[k] ELSE Absent
      BY <2>4 DEF cleanup, IsOpen
    <3>2. /\ IsOpen(k)' => IsOpen(k)
          /\ IsOpen(k) => IsOpen(k)' /\ visitors'[k] = visitors[k]
      BY <3>1 DEF IsOpen, Open
    <3> QED  BY <2>1, <3>1, <3>2, WindowsStay
  <2>5. CASE UNCHANGED limiterVars \/ \E j \in Key : Reject(j)
    <3>1. passes' = passes /\ visitors' = visitors /\ now' = now  BY <2>5 DEF limiterVars, Reject
    <3>2. IsOpen(k)' <=> IsOpen(k)  BY <3>1 DEF IsOpen, Open
    <3> QED  BY <2>1, <3>1, <3>2, WindowsStay
  <2> QED  BY <2>2, <2>3, <2>4, <2>5 DEF LimiterNext, allow
<1>3. TypeOK /\ Windows => TwiceRatePerWindow
  <2> SUFFICES ASSUME TypeOK, Windows, NEW k \in Key, NEW i \in 1..Passes(k), i + 2 * Rate <= Passes(k)
               PROVE  passes[k][i + 2 * Rate] > passes[k][i] + Window
    <3>1. \A k \in Key : TypeOK => DOMAIN passes[k] = 1..Passes(k)  BY KeyTypes
    <3> QED  BY <3>1 DEF TwiceRatePerWindow, Passes
  <2>1. Passes(k) \in Nat /\ Rate \in Nat \ {0} /\ Window \in Nat /\ \A m \in 1..Passes(k) : passes[k][m] \in Nat
    BY KeyTypes
  <2>2. PICK j \in 1..Passes(k) : i < j /\ j <= i + Rate /\ Opens(k, j)
    <3>1. i + Rate <= Passes(k)  BY <2>1
    <3> QED  BY <3>1 DEF WindowInv
  <2>3. i \in 1..(j - 1) /\ i + 2 * Rate >= j + Rate /\ i + 2 * Rate \in 1..Passes(k)  BY <2>1, <2>2
  <2>4. passes[k][i] < passes[k][j] /\ passes[k][i + 2 * Rate] > passes[k][j] + Window
    BY <2>2, <2>3 DEF Opens
  <2> QED  BY <2>1, <2>3, <2>4
<1>4. LimiterSpec => [](TypeOK /\ Windows)
  BY <1>1, <1>2, LimiterTypeCorrect, PTL DEF LimiterSpec
<1> QED  BY <1>3, <1>4, PTL

-----------------------------------------------------------------------------
(* The HTTP client.                                                        *)

(* Types.                                                                  *)
Mark      == ((Client \cup {Shared}) \X Nat) \cup {Bad}
BodyRec   == [kind : {"none"} \cup Kind, boundary : Nat]
HeaderRec == [type : BodyRec, values : Seq(Mark)]
Builder   == [header : Client \cup {Shared}, url : BOOLEAN, path : BOOLEAN, query : Seq(Mark),
              headerStructs : Seq(Mark), cookies : Seq(Mark), bodies : SUBSET Kind]
SentRec   == [header : HeaderRec, body : BodyRec, query : Seq(Mark), cookies : Seq(Mark)]
ResultRec == [resp : Status \cup {"none"}, err : {"none", "request", "error", "status", "decode"}]
Place     == {"idle", "building", "attempt", "do", "answered", "returned"}

HttpTypes ==
  /\ options \in [url : BOOLEAN, maxRetries : Nat]
  /\ call \in [Client -> Nat] /\ pc \in [Client -> Place]
  /\ builder \in [Client -> Builder]
  /\ header \in [Client \cup {Shared} -> HeaderRec]
  /\ mode \in [Client -> [of : {"Receive", "Request"}, decode : BOOLEAN]]
  /\ sent \in [Client -> Seq(SentRec)]
  /\ outcomes \in [Client -> Seq(Status \cup {"error"})]
  /\ unclosed \in [Client -> SUBSET Nat]
  /\ result \in [Client -> ResultRec]

(* What a request is built from: its own header map, the marks of its own  *)
(* call, the type of a body that was set.                                  *)
Built(c) ==
  /\ pc[c] # "idle" => builder[c].header = c
  /\ header[c].values \in Seq({Tag(c), Tag(Shared)})
  /\ header[c].type.kind \in {"none"} \cup builder[c].bodies
  /\ builder[c].query \in Seq({Tag(c), Bad})
  /\ builder[c].cookies \in Seq({Tag(c)})
  /\ pc[c] \in {"attempt", "do", "answered"} => builder[c].query \in Seq({Tag(c)})
  /\ \A k \in {"json", "xml", "form"} :
       builder[c].bodies = {k} => header[c].type = [kind |-> k, boundary |-> 0]

BodyKind(c) == IF builder[c].bodies = {} THEN "none" ELSE FirstSet(builder[c].bodies)

(* Each attempt was built from that.                                       *)
AsBuilt(c, r) ==
  /\ r.header.values \in Seq({Tag(c), Tag(Shared)})
  /\ r.query \in Seq({Tag(c)}) /\ r.cookies \in Seq({Tag(c)})
  /\ r.header.type.kind \in {"none"} \cup builder[c].bodies
  /\ r.header.values = header[c].values
  /\ r.body.kind = BodyKind(c)
  /\ \A k \in Kind \ {"bytes"} : builder[c].bodies = {k} => r.header.type = r.body

SentAsBuilt(c) == \A i \in 1..Len(sent[c]) : AsBuilt(c, sent[c][i])

(* Where the call is, by its attempts and what became of them.             *)
Attempts(c) ==
  /\ pc[c] \in {"idle", "building"} => sent[c] = <<>> /\ outcomes[c] = <<>>
  /\ pc[c] \in {"attempt", "answered", "returned"} => Len(outcomes[c]) = Len(sent[c])
  /\ pc[c] = "do" => Len(sent[c]) = Len(outcomes[c]) + 1
  /\ pc[c] = "answered" => Len(sent[c]) > 0 /\ outcomes[c][Len(sent[c])] # "error"
  /\ Len(sent[c]) <= 1 + options.maxRetries
  /\ pc[c] = "attempt" => Len(sent[c]) <= options.maxRetries
  /\ \A i \in 1..Len(sent[c]) - 1 : outcomes[c][i] \in {"error", "5xx"}
  /\ pc[c] = "attempt" => \A i \in 1..Len(sent[c]) : outcomes[c][i] \in {"error", "5xx"}

BodyOpen(c) ==
  /\ pc[c] \in {"idle", "building", "attempt", "do"} => unclosed[c] = {}
  /\ pc[c] = "answered" => unclosed[c] = {Len(sent[c])}
  /\ pc[c] = "returned" =>
       unclosed[c] = IF mode[c].of = "Receive" /\ result[c].resp # "none" THEN {Len(sent[c])} ELSE {}

Told(c) ==
  (pc[c] = "returned" /\ result[c].err = "none") =>
     /\ result[c].resp # "none" /\ result[c].resp = Last(outcomes[c])
     /\ mode[c].of = "Request" => result[c].resp = "2xx"

Good(c) == Built(c) /\ SentAsBuilt(c) /\ Attempts(c) /\ BodyOpen(c) /\ Told(c)

HttpInv ==
  /\ HttpTypes
  /\ header[Shared] = [type |-> NoBody, values |-> <<Tag(Shared)>>]
  /\ \A c \in Client : Good(c)

-----------------------------------------------------------------------------
(* Lemmas.                                                                 *)

(* The tag of a client names its call.                                     *)
LEMMA Tags ==
  /\ Tag(Shared) = <<Shared, 0>> /\ \A c \in Client : Tag(c) = <<c, call[c]>>
  BY HttpAssumption DEF Tag

(* A sequence over a set is one over any larger set.                       *)
LEMMA SeqWiden == ASSUME NEW S, NEW T, S \subseteq T, NEW s \in Seq(S) PROVE s \in Seq(T)
  OBVIOUS

(* The first field that is set is one of those that are.                   *)
LEMMA FirstSetIsSet ==
  ASSUME NEW bodies \in SUBSET Kind, bodies # {} PROVE FirstSet(bodies) \in bodies
<1> DEFINE P(i) == BodyFields[i] \in bodies
           Q(i) == P(i) /\ \A j \in 1..i - 1 : ~P(j)
<1>1. \E i \in 1..5 : P(i)
  <2>1. PICK k \in bodies : k \in Kind
    OBVIOUS
  <2>2. /\ BodyFields[1] = "json" /\ BodyFields[2] = "xml" /\ BodyFields[3] = "form"
        /\ BodyFields[4] = "multipart" /\ BodyFields[5] = "bytes"
    BY DEF BodyFields
  <2>3. \E i \in 1..5 : BodyFields[i] = k
    BY <2>1, <2>2 DEF Kind
  <2> QED
    BY <2>3
<1>2. \E i \in 1..5 : Q(i)
  BY <1>1
<1>3. Q(CHOOSE i \in 1..5 : Q(i))
  BY <1>2
<1> QED
  BY <1>3 DEF FirstSet

(* The body of an attempt is of the first kind that is set.                *)
LEMMA BodyKindIsSet ==
  ASSUME NEW c \in Client, HttpTypes
  PROVE  /\ buildBody(c) \in BodyRec /\ buildBody(c).kind = BodyKind(c)
         /\ BodyKind(c) \in {"none"} \cup builder[c].bodies
         /\ BodyKind(c) = "none" <=> builder[c].bodies = {}
         /\ \A k \in Kind : builder[c].bodies = {k} => BodyKind(c) = k
<1>1. builder[c].bodies \in SUBSET Kind
  BY DEF HttpTypes, Builder
<1>2. builder[c].bodies # {} => FirstSet(builder[c].bodies) \in builder[c].bodies
  BY <1>1, FirstSetIsSet
<1>3. Attempt(c) \in Nat
  BY DEF Attempt, HttpTypes
<1>4. "none" \notin Kind
  BY DEF Kind
<1> QED
  BY <1>1, <1>2, <1>3, <1>4 DEF buildBody, BodyKind, NoBody, BodyRec

(* A step of one client leaves the others as they are.                     *)
Same(d) ==
  /\ call'[d] = call[d] /\ pc'[d] = pc[d] /\ builder'[d] = builder[d] /\ header'[d] = header[d]
  /\ mode'[d] = mode[d] /\ sent'[d] = sent[d] /\ outcomes'[d] = outcomes[d]
  /\ unclosed'[d] = unclosed[d] /\ result'[d] = result[d]

(* A client whose state a step leaves alone stays good.                    *)
LEMMA Frame == ASSUME NEW d \in Client, Good(d), Same(d), options' = options PROVE Good(d)'
<1>1. Tag(d)' = Tag(d) /\ Tag(Shared)' = Tag(Shared)
  BY HttpAssumption DEF Tag, Same
<1>2. Built(d)'
  BY <1>1 DEF Good, Built, Same
<1>3. BodyKind(d)' = BodyKind(d)
  BY DEF Same, BodyKind
<1>4. SentAsBuilt(d)'
  BY <1>1, <1>3 DEF Good, SentAsBuilt, AsBuilt, Same
<1>5. Attempts(d)'
  BY DEF Good, Attempts, Same
<1>6. BodyOpen(d)' /\ Told(d)'
  BY DEF Good, BodyOpen, Told, Same, Last
<1> QED
  BY <1>2, <1>4, <1>5, <1>6 DEF Good

(* It is enough to look at the client that moves.                          *)
LEMMA OneClient ==
  ASSUME HttpInv, NEW c \in Client, HttpTypes', Good(c)', options' = options,
         header'[Shared] = header[Shared], \A d \in Client \ {c} : Same(d)
  PROVE  HttpInv'
<1>1. Tag(Shared)' = Tag(Shared)
  BY HttpAssumption DEF Tag
<1>2. \A d \in Client \ {c} : Good(d)'
  BY Frame DEF HttpInv
<1> QED
  BY <1>1, <1>2 DEF HttpInv

-----------------------------------------------------------------------------
(* Building.                                                               *)

(* Before the first call of New no client has sent or opened anything.     *)
THEOREM HttpInitInv == Init => HttpInv
<1> SUFFICES ASSUME Init PROVE HttpInv
  OBVIOUS
<1>1. options \in [url : BOOLEAN, maxRetries : Nat]
  BY HttpAssumption DEF Init, WithRetry
<1>2. Tag(Shared) = <<Shared, 0>> /\ \A c \in Client : Tag(c) = <<c, 0>>
  BY Tags DEF Init
<1>3. Fresh(Shared) \in Builder
  BY <1>1 DEF Fresh, Builder
<1>4. <<Tag(Shared)>> \in Seq(Mark)
  BY <1>2 DEF Mark
<1>5. NoBody \in BodyRec
  BY DEF NoBody, BodyRec
<1>6. HttpTypes
  BY <1>1, <1>3, <1>4, <1>5 DEF HttpTypes, Init, HeaderRec, Place, ResultRec
<1>7. ASSUME NEW c \in Client PROVE Good(c)
  <2>1. pc[c] = "idle" /\ builder[c] = Fresh(Shared) /\ header[c] = [type |-> NoBody, values |-> <<>>]
        /\ sent[c] = <<>> /\ outcomes[c] = <<>> /\ unclosed[c] = {}
    BY HttpAssumption DEF Init
  <2>2. Built(c)
    BY <2>1 DEF Built, Fresh, NoBody
  <2>3. SentAsBuilt(c) /\ Told(c) /\ BodyOpen(c)
    BY <2>1 DEF SentAsBuilt, Told, BodyOpen
  <2>4. Attempts(c)
    BY <2>1, <1>1 DEF Attempts
  <2> QED
    BY <2>2, <2>3, <2>4 DEF Good
<1> QED
  BY <1>6, <1>7 DEF HttpInv, Init

(* New copies the header map of the shared client.                         *)
LEMMA NewKeeps == ASSUME HttpInv, NEW c \in Client, New(c) PROVE HttpInv'
<1> USE DEF HttpInv
<1>1. pc' = [pc EXCEPT ![c] = "building"] /\ sent' = [sent EXCEPT ![c] = <<>>]
      /\ outcomes' = [outcomes EXCEPT ![c] = <<>>] /\ unclosed' = [unclosed EXCEPT ![c] = {}]
      /\ call' = [call EXCEPT ![c] = @ + 1] /\ UNCHANGED <<options, mode, result>>
  BY DEF New, NewCall
<1>2. builder' = [builder EXCEPT ![c] = Fresh(c)] /\ header' = [header EXCEPT ![c] = header[Shared]]
  BY DEF New
<1>3. Fresh(c) \in Builder
  BY DEF Fresh, Builder, HttpTypes
<1>4. HttpTypes'
  <2>1. pc' \in [Client -> Place] /\ call' \in [Client -> Nat] /\ sent' \in [Client -> Seq(SentRec)]
        /\ outcomes' \in [Client -> Seq(Status \cup {"error"})] /\ unclosed' \in [Client -> SUBSET Nat]
    BY <1>1 DEF HttpTypes, Place
  <2>2. builder' \in [Client -> Builder] /\ header' \in [Client \cup {Shared} -> HeaderRec]
    BY <1>2, <1>3 DEF HttpTypes
  <2> QED
    BY <2>1, <2>2, <1>1 DEF HttpTypes
<1>5. \A d \in Client \ {c} : Same(d)
  BY <1>1, <1>2 DEF Same, HttpTypes
<1>6. header'[Shared] = header[Shared]
  BY <1>2, HttpAssumption DEF HttpTypes
<1>7. /\ pc'[c] = "building" /\ sent'[c] = <<>> /\ outcomes'[c] = <<>> /\ unclosed'[c] = {}
      /\ builder'[c] = Fresh(c) /\ header'[c] = header[Shared]
  BY <1>1, <1>2 DEF HttpTypes
<1>8. Built(c)'
  <2>1. Tag(Shared)' = Tag(Shared)
    BY HttpAssumption DEF Tag
  <2> QED
    BY <1>7, <2>1 DEF Built, Fresh, NoBody
<1>9. SentAsBuilt(c)' /\ Told(c)' /\ BodyOpen(c)'
  BY <1>7 DEF SentAsBuilt, Told, BodyOpen
<1>10. Attempts(c)'
  BY <1>7, <1>1 DEF Attempts, HttpTypes
<1> QED
  BY <1>1, <1>4, <1>5, <1>6, <1>8, <1>9, <1>10, OneClient DEF Good

(* What a builder method may do to the fields and the header map.          *)
LEMMA SetterKeeps ==
  ASSUME HttpInv, NEW c \in Client, Setter(c),
         NEW b \in Builder, NEW h \in HeaderRec,
         builder' = [builder EXCEPT ![c] = b], header' = [header EXCEPT ![c] = h],
         b.header = c, h.values \in Seq({Tag(c), Tag(Shared)}),
         h.type.kind \in {"none"} \cup b.bodies,
         b.query \in Seq({Tag(c), Bad}), b.cookies \in Seq({Tag(c)}),
         \A k \in {"json", "xml", "form"} : b.bodies = {k} => h.type = [kind |-> k, boundary |-> 0]
  PROVE  HttpInv'
<1> USE DEF HttpInv
<1>1. pc[c] = "building" /\ UNCHANGED <<options, call, pc, mode, sent, outcomes, unclosed, result>>
  BY DEF Setter
<1>2. HttpTypes'
  BY <1>1 DEF HttpTypes
<1>3. \A d \in Client \ {c} : Same(d)
  BY <1>1 DEF Same, HttpTypes
<1>4. header'[Shared] = header[Shared]
  BY HttpAssumption DEF HttpTypes
<1>5. builder'[c] = b /\ header'[c] = h
  BY DEF HttpTypes
<1>6. Tag(c)' = Tag(c) /\ Tag(Shared)' = Tag(Shared)
  BY <1>1 DEF Tag
<1>7. Built(c)'
  BY <1>1, <1>5, <1>6 DEF Built
<1>8. sent[c] = <<>> /\ outcomes[c] = <<>> /\ unclosed[c] = {}
  BY <1>1 DEF Good, Attempts, BodyOpen
<1>9. SentAsBuilt(c)' /\ Told(c)' /\ BodyOpen(c)'
  BY <1>1, <1>8 DEF SentAsBuilt, Told, BodyOpen
<1>10. Attempts(c)'
  BY <1>1, <1>8 DEF Attempts, HttpTypes
<1> QED
  BY <1>1, <1>2, <1>3, <1>4, <1>7, <1>9, <1>10, OneClient DEF Good

(* The header map of a call that is being built is its own.                *)
LEMMA OwnHeader ==
  ASSUME HttpInv, NEW c \in Client, pc[c] # "idle"
  PROVE  /\ builder[c].header = c /\ Header(c) = header[c]
         /\ builder[c] \in Builder /\ header[c] \in HeaderRec
         /\ builder = [builder EXCEPT ![c] = builder[c]] /\ header = [header EXCEPT ![c] = header[c]]
         /\ \A h : PutHeader(c, h) <=> header' = [header EXCEPT ![c] = h]
<1>1. builder[c].header = c
  BY DEF HttpInv, Good, Built
<1>2. builder \in [Client -> Builder] /\ header \in [Client \cup {Shared} -> HeaderRec]
  BY DEF HttpInv, HttpTypes
<1> QED
  BY <1>1, <1>2 DEF Header, PutHeader

(* Tags are marks.                                                         *)
LEMMA Marks ==
  ASSUME HttpTypes, NEW c \in Client
  PROVE  Tag(c) \in Mark /\ Tag(Shared) \in Mark /\ Bad \in Mark
  BY Tags DEF Mark, HttpTypes

(* Set, Add and the methods that replace or extend a header value.         *)
LEMMA HeaderSetterKeeps ==
  ASSUME HttpInv, NEW c \in Client, Set(c) \/ Add(c) PROVE HttpInv'
<1>1. Setter(c) /\ UNCHANGED builder
  BY DEF Set, Add
<1>2. pc[c] # "idle"
  BY <1>1 DEF Setter
<1>3. PICK b : b = builder[c]
  OBVIOUS
<1>4. PICK vs : /\ vs = <<Tag(c)>> \/ vs = Append(header[c].values, Tag(c))
                /\ header' = [header EXCEPT ![c] = [header[c] EXCEPT !.values = vs]]
  <2>1. builder[c].header = c /\ Header(c) = header[c]
    BY <1>2, OwnHeader
  <2>2. CASE Set(c)
    BY <2>1, <2>2 DEF Set, PutHeader
  <2>3. CASE Add(c)
    BY <2>1, <2>3 DEF Add, PutHeader
  <2> QED
    BY <2>2, <2>3
<1>5. HttpTypes /\ Built(c)
  BY DEF HttpInv, Good
<1>6. vs \in Seq(Mark) /\ vs \in Seq({Tag(c), Tag(Shared)})
  <2>1. header[c].values \in Seq(Mark) /\ header[c].values \in Seq({Tag(c), Tag(Shared)})
    BY <1>2, <1>5, OwnHeader DEF HeaderRec, Built
  <2>2. Tag(c) \in Mark
    BY <1>5, Marks
  <2>3. <<Tag(c)>> \in Seq(Mark) /\ <<Tag(c)>> \in Seq({Tag(c), Tag(Shared)})
    BY <2>2
  <2>4. /\ Append(header[c].values, Tag(c)) \in Seq(Mark)
        /\ Append(header[c].values, Tag(c)) \in Seq({Tag(c), Tag(Shared)})
    BY <2>1, <2>2
  <2> QED
    BY <1>4, <2>3, <2>4
<1>7. PICK h : h = [header[c] EXCEPT !.values = vs]
  OBVIOUS
<1>8. h \in HeaderRec /\ h.values = vs /\ h.type = header[c].type
  BY <1>2, <1>6, <1>7, OwnHeader DEF HeaderRec
<1>9. header' = [header EXCEPT ![c] = h] /\ builder' = [builder EXCEPT ![c] = b]
  BY <1>1, <1>2, <1>3, <1>4, <1>7, OwnHeader
<1>10. /\ b \in Builder /\ b.header = c /\ h.type.kind \in {"none"} \cup b.bodies
       /\ b.query \in Seq({Tag(c), Bad}) /\ b.cookies \in Seq({Tag(c)})
       /\ \A k \in {"json", "xml", "form"} : b.bodies = {k} => h.type = [kind |-> k, boundary |-> 0]
  BY <1>2, <1>3, <1>5, <1>8, OwnHeader DEF Built
<1> QED
  BY <1>1, <1>6, <1>8, <1>9, <1>10, SetterKeeps

(* Those that change a field of the client and no header.                  *)
LEMMA FieldSetterKeeps ==
  ASSUME HttpInv, NEW c \in Client,
         \/ AddCookies(c) \/ Base(c) \/ Method(c)
         \/ \E q \in {Tag(c), Bad} : Query(c, q) \/ HeaderStruct(c, q)
  PROVE  HttpInv'
<1>1. Setter(c) /\ UNCHANGED header
  BY DEF AddCookies, Base, Method, Query, HeaderStruct
<1>2. pc[c] # "idle"
  BY <1>1 DEF Setter
<1>3. HttpTypes /\ Built(c)
  BY DEF HttpInv, Good
<1>4. PICK b : /\ builder' = [builder EXCEPT ![c] = b]
               /\ \/ b = [builder[c] EXCEPT !.cookies = Append(@, Tag(c))]
                  \/ b = [builder[c] EXCEPT !.url = TRUE]
                  \/ b = [builder[c] EXCEPT !.path = TRUE]
                  \/ \E q \in {Tag(c), Bad} : b = [builder[c] EXCEPT !.query = Append(@, q)]
                  \/ \E q \in {Tag(c), Bad} : b = [builder[c] EXCEPT !.headerStructs = Append(@, q)]
  BY DEF AddCookies, Base, Method, Query, HeaderStruct, Updates
<1>5. PICK h : h = header[c]
  OBVIOUS
<1>6. header' = [header EXCEPT ![c] = h]
  BY <1>1, <1>2, <1>5, OwnHeader
<1>7. \A q \in {Tag(c), Bad} : /\ Append(builder[c].query, q) \in Seq(Mark)
                               /\ Append(builder[c].query, q) \in Seq({Tag(c), Bad})
                               /\ Append(builder[c].headerStructs, q) \in Seq(Mark)
  BY <1>2, <1>3, OwnHeader, Marks DEF Built, Builder
<1>8. Append(builder[c].cookies, Tag(c)) \in Seq(Mark) /\ Append(builder[c].cookies, Tag(c)) \in Seq({Tag(c)})
  BY <1>2, <1>3, OwnHeader, Marks DEF Built, Builder
<1>9. /\ b \in Builder /\ b.header = builder[c].header /\ b.bodies = builder[c].bodies
      /\ b.query \in Seq({Tag(c), Bad}) /\ b.cookies \in Seq({Tag(c)})
  <2>1. /\ builder[c] \in Builder
        /\ builder[c].query \in Seq({Tag(c), Bad}) /\ builder[c].cookies \in Seq({Tag(c)})
    BY <1>2, <1>3, OwnHeader DEF Built
  <2>2. CASE b = [builder[c] EXCEPT !.cookies = Append(@, Tag(c))]
    BY <1>8, <2>1, <2>2 DEF Builder
  <2>3. CASE b = [builder[c] EXCEPT !.url = TRUE] \/ b = [builder[c] EXCEPT !.path = TRUE]
    BY <2>1, <2>3 DEF Builder
  <2>4. ASSUME NEW q \in {Tag(c), Bad}, b = [builder[c] EXCEPT !.query = Append(@, q)]
        PROVE  /\ b \in Builder /\ b.header = builder[c].header /\ b.bodies = builder[c].bodies
               /\ b.query = Append(builder[c].query, q) /\ b.cookies = builder[c].cookies
    BY <1>7, <2>1, <2>4 DEF Builder
  <2>5. ASSUME NEW q \in {Tag(c), Bad}, b = [builder[c] EXCEPT !.headerStructs = Append(@, q)]
        PROVE  /\ b \in Builder /\ b.header = builder[c].header /\ b.bodies = builder[c].bodies
               /\ b.query = builder[c].query /\ b.cookies = builder[c].cookies
    BY <1>7, <2>1, <2>5 DEF Builder
  <2> QED
    BY <1>4, <1>7, <2>1, <2>2, <2>3, <2>4, <2>5
<1>10. /\ h \in HeaderRec /\ h.values \in Seq({Tag(c), Tag(Shared)}) /\ b.header = c
       /\ h.type.kind \in {"none"} \cup b.bodies
       /\ \A k \in {"json", "xml", "form"} : b.bodies = {k} => h.type = [kind |-> k, boundary |-> 0]
  BY <1>2, <1>3, <1>5, <1>9, OwnHeader DEF Built
<1> QED
  BY <1>1, <1>4, <1>6, <1>9, <1>10, SetterKeeps

(* Those that set a body, and name its type when they know it.             *)
LEMMA BodySetterKeeps ==
  ASSUME HttpInv, NEW c \in Client,
         \/ \E k \in Kind : Body(c, k)
         \/ \E s \in {Tag(c), Bad}, json \in BOOLEAN : RequestStruct(c, s, json)
  PROVE  HttpInv'
<1>1. Setter(c)
  BY DEF Body, RequestStruct
<1>2. pc[c] # "idle"
  BY <1>1 DEF Setter
<1>3. HttpTypes /\ Built(c)
  BY DEF HttpInv, Good
<1>4. PICK b : /\ builder' = [builder EXCEPT ![c] = b]
               /\ \/ \E k \in Kind : b = [builder[c] EXCEPT !.bodies = @ \cup {k}]
                                     /\ Body(c, k)
                  \/ \E s \in {Tag(c), Bad}, json \in BOOLEAN :
                       /\ b = [builder[c] EXCEPT !.query = Append(@, s), !.headerStructs = Append(@, s),
                                                 !.bodies = IF json THEN @ \cup {"json"} ELSE @]
                       /\ RequestStruct(c, s, json)
  BY DEF Body, RequestStruct, Updates
<1>5. \A q \in {Tag(c), Bad} : /\ Append(builder[c].query, q) \in Seq(Mark)
                               /\ Append(builder[c].query, q) \in Seq({Tag(c), Bad})
                               /\ Append(builder[c].headerStructs, q) \in Seq(Mark)
  BY <1>2, <1>3, OwnHeader, Marks DEF Built, Builder
<1>6. /\ b \in Builder /\ b.header = c
      /\ b.query \in Seq({Tag(c), Bad}) /\ b.cookies \in Seq({Tag(c)})
  <2>1. /\ builder[c] \in Builder /\ builder[c].header = c
        /\ builder[c].query \in Seq({Tag(c), Bad}) /\ builder[c].cookies \in Seq({Tag(c)})
    BY <1>2, <1>3, OwnHeader DEF Built
  <2>2. ASSUME NEW k \in Kind, b = [builder[c] EXCEPT !.bodies = @ \cup {k}]
        PROVE  /\ b \in Builder /\ b.header = c
               /\ b.query = builder[c].query /\ b.cookies = builder[c].cookies
    BY <2>1, <2>2 DEF Builder
  <2>3. ASSUME NEW s \in {Tag(c), Bad}, NEW json \in BOOLEAN,
               b = [builder[c] EXCEPT !.query = Append(@, s), !.headerStructs = Append(@, s),
                                      !.bodies = IF json THEN @ \cup {"json"} ELSE @]
        PROVE  /\ b \in Builder /\ b.header = c
               /\ b.query = Append(builder[c].query, s) /\ b.cookies = builder[c].cookies
    <3>1. PICK bs \in SUBSET Kind : bs = IF json THEN builder[c].bodies \cup {"json"} ELSE builder[c].bodies
      BY <2>1 DEF Builder, Kind
    <3>2. b = [builder[c] EXCEPT !.query = Append(@, s), !.headerStructs = Append(@, s), !.bodies = bs]
      BY <2>3, <3>1
    <3> QED
      BY <1>5, <2>1, <3>2 DEF Builder
  <2> QED
    BY <1>4, <1>5, <2>1, <2>2, <2>3
<1>7. PICK h : /\ header' = [header EXCEPT ![c] = h]
               /\ \/ \E k \in {"json", "xml", "form"} :
                       h = WithType(c, k) /\ b.bodies = builder[c].bodies \cup {k}
                  \/ h = header[c] /\ \E k \in {"multipart", "bytes"} : b.bodies = builder[c].bodies \cup {k}
                  \/ h = header[c] /\ b.bodies = builder[c].bodies
  <2>1. builder[c] \in Builder
    BY <1>2, OwnHeader
  <2>2. ASSUME NEW k \in Kind, b = [builder[c] EXCEPT !.bodies = @ \cup {k}], Body(c, k)
        PROVE  \/ k \in {"json", "xml", "form"} /\ header' = [header EXCEPT ![c] = WithType(c, k)]
                  /\ b.bodies = builder[c].bodies \cup {k}
               \/ k \in {"multipart", "bytes"} /\ header' = [header EXCEPT ![c] = header[c]]
                  /\ b.bodies = builder[c].bodies \cup {k}
    BY <1>2, <2>1, <2>2, OwnHeader DEF Body, Kind, Builder
  <2>3. ASSUME NEW s \in {Tag(c), Bad}, NEW json \in BOOLEAN, RequestStruct(c, s, json),
               b = [builder[c] EXCEPT !.query = Append(@, s), !.headerStructs = Append(@, s),
                                      !.bodies = IF json THEN @ \cup {"json"} ELSE @]
        PROVE  \/ header' = [header EXCEPT ![c] = WithType(c, "json")]
                  /\ b.bodies = builder[c].bodies \cup {"json"}
               \/ header' = [header EXCEPT ![c] = header[c]] /\ b.bodies = builder[c].bodies
    <3>1. builder[c].header = c /\ header = [header EXCEPT ![c] = header[c]]
      BY <1>2, OwnHeader
    <3>2. CASE json = TRUE
      BY <2>1, <2>3, <3>1, <3>2 DEF RequestStruct, PutHeader, Builder
    <3>3. CASE json = FALSE
      BY <2>1, <2>3, <3>1, <3>3 DEF RequestStruct, Builder
    <3> QED
      BY <3>2, <3>3
  <2> QED
    BY <1>4, <2>2, <2>3
<1>8. WithType(c, "json") \in HeaderRec /\ WithType(c, "xml") \in HeaderRec /\ WithType(c, "form") \in HeaderRec
  BY <1>2, OwnHeader DEF WithType, HeaderRec, BodyRec, Kind
<1>9. \A k : WithType(c, k).values = header[c].values /\ WithType(c, k).type = [kind |-> k, boundary |-> 0]
  BY <1>2, OwnHeader DEF WithType, HeaderRec
<1>10. h \in HeaderRec /\ h.values \in Seq({Tag(c), Tag(Shared)})
  BY <1>2, <1>3, <1>7, <1>8, <1>9, OwnHeader DEF Built
<1>11. h.type.kind \in {"none"} \cup b.bodies
  BY <1>3, <1>7, <1>9 DEF Built
<1>12. \A k \in {"json", "xml", "form"} : b.bodies = {k} => h.type = [kind |-> k, boundary |-> 0]
  BY <1>3, <1>7, <1>9 DEF Built
<1> QED
  BY <1>1, <1>4, <1>6, <1>7, <1>10, <1>11, <1>12, SetterKeeps

(* Every builder method keeps to its own client's fields and header map.   *)
LEMMA BuildKeeps == ASSUME HttpInv, NEW c \in Client, Build(c) PROVE HttpInv'
<1>1. \/ Set(c) \/ Add(c)
      \/ AddCookies(c) \/ Base(c) \/ Method(c)
      \/ \E q \in {Tag(c), Bad} : Query(c, q) \/ HeaderStruct(c, q)
      \/ \E k \in Kind : Body(c, k)
      \/ \E s \in {Tag(c), Bad}, json \in BOOLEAN : RequestStruct(c, s, json)
  BY DEF Build
<1> QED
  BY <1>1, HeaderSetterKeeps, FieldSetterKeeps, BodySetterKeeps

-----------------------------------------------------------------------------
(* Receive and the attempts.                                               *)

(* A query without Bad has the marks of the call only.                     *)
LEMMA GoodQuery ==
  ASSUME NEW q, NEW t, q \in Seq({t, Bad}), ~Contains(q, Bad) PROVE q \in Seq({t})
<1>1. \A i \in 1..Len(q) : q[i] = t
  BY DEF Contains
<1>2. q \in [1..Len(q) -> {t}] /\ Len(q) \in Nat
  BY <1>1
<1> QED
  BY <1>2, SeqDef

(* Receive checks the URL and the header structs before the first attempt. *)
LEMMA ReceiveKeeps == ASSUME HttpInv, NEW c \in Client, Receive(c) PROVE HttpInv'
<1>1. HttpTypes /\ Good(c) /\ pc[c] = "building"
  BY DEF HttpInv, Receive
<1>2. UNCHANGED <<options, call, setters, sent, outcomes, unclosed>>
  BY DEF Receive
<1>3. PICK m \in [of : {"Receive", "Request"}, decode : BOOLEAN] : mode' = [mode EXCEPT ![c] = m]
  BY DEF Receive
<1>4. options.maxRetries \in Nat
  BY <1>1 DEF HttpTypes
<1>5. /\ builder[c].header = c /\ Header(c) = header[c] /\ builder[c] \in Builder /\ header[c] \in HeaderRec
      /\ builder = [builder EXCEPT ![c] = builder[c]] /\ header = [header EXCEPT ![c] = header[c]]
  BY <1>1, OwnHeader
<1>6. PICK b : /\ builder' = [builder EXCEPT ![c] = b]
               /\ b = builder[c] \/ b = [builder[c] EXCEPT !.headerStructs = <<>>]
  BY <1>5 DEF Receive, Updates
<1>7. PICK h : /\ header' = [header EXCEPT ![c] = h]
               /\ h = header[c] \/ h = [header[c] EXCEPT !.values = <<Tag(c)>>]
  BY <1>5 DEF Receive, PutHeader, applyHeaderStructs
<1>8. \/ Ends(c, "none", "request")
      \/ /\ pc' = [pc EXCEPT ![c] = "attempt"] /\ UNCHANGED result
         /\ buildURL(c)
  BY <1>4 DEF Receive
<1>9. PICK p, r : /\ pc' = [pc EXCEPT ![c] = p] /\ result' = [result EXCEPT ![c] = r]
                  /\ \/ p = "returned" /\ r = [resp |-> "none", err |-> "request"]
                     \/ p = "attempt" /\ r = result[c] /\ buildURL(c)
  <2>1. result = [result EXCEPT ![c] = result[c]]
    BY <1>1 DEF HttpTypes
  <2> QED
    BY <1>8, <2>1 DEF Ends
<1>10. <<Tag(c)>> \in Seq(Mark)
  BY <1>1, Marks
<1>11. b \in Builder /\ h \in HeaderRec
  <2>1. b \in Builder
    <3>1. <<>> \in Seq(Mark)
      OBVIOUS
    <3>2. CASE b = [builder[c] EXCEPT !.headerStructs = <<>>]
      BY <1>5, <3>1, <3>2 DEF Builder
    <3> QED
      BY <1>5, <1>6, <3>2
  <2>2. h \in HeaderRec
    BY <1>5, <1>7, <1>10 DEF HeaderRec
  <2> QED
    BY <2>1, <2>2
<1>12. /\ b.header = c /\ b.query = builder[c].query /\ b.cookies = builder[c].cookies
       /\ b.bodies = builder[c].bodies /\ h.type = header[c].type
       /\ h.values = header[c].values \/ h.values = <<Tag(c)>>
  BY <1>5, <1>6, <1>7 DEF Builder, HeaderRec
<1>13. p \in Place /\ r \in ResultRec
  BY <1>1, <1>9 DEF HttpTypes, Place, ResultRec
<1>14. HttpTypes'
  BY <1>1, <1>2, <1>3, <1>6, <1>7, <1>9, <1>11, <1>13 DEF HttpTypes
<1>15. \A d \in Client \ {c} : Same(d)
  BY <1>1, <1>2, <1>3, <1>6, <1>7, <1>9 DEF Same, HttpTypes
<1>16. header'[Shared] = header[Shared]
  BY <1>1, <1>7, HttpAssumption DEF HttpTypes
<1>17. builder'[c] = b /\ header'[c] = h /\ pc'[c] = p /\ result'[c] = r
  BY <1>1, <1>6, <1>7, <1>9 DEF HttpTypes
<1>18. Tag(c)' = Tag(c) /\ Tag(Shared)' = Tag(Shared)
  BY <1>2 DEF Tag
<1>19. p = "attempt" => builder[c].query \in Seq({Tag(c)})
  <2>1. builder[c].query \in Seq({Tag(c), Bad})
    BY <1>1 DEF Good, Built
  <2> QED
    BY <2>1, <1>9, GoodQuery DEF buildURL
<1>20. Built(c)'
  <2>1. h.values \in Seq({Tag(c), Tag(Shared)})
    <3>1. header[c].values \in Seq({Tag(c), Tag(Shared)})
      BY <1>1 DEF Good, Built
    <3>2. <<Tag(c)>> \in Seq({Tag(c), Tag(Shared)})
      OBVIOUS
    <3> QED
      BY <1>12, <3>1, <3>2
  <2> QED
    BY <1>1, <1>9, <1>12, <1>17, <1>18, <1>19, <2>1 DEF Good, Built
<1>21. sent[c] = <<>> /\ outcomes[c] = <<>> /\ unclosed[c] = {}
  BY <1>1 DEF Good, Attempts, BodyOpen
<1>22. SentAsBuilt(c)'
  BY <1>2, <1>21 DEF SentAsBuilt
<1>23. Attempts(c)'
  BY <1>2, <1>4, <1>9, <1>17, <1>21 DEF Attempts
<1>24. BodyOpen(c)' /\ Told(c)'
  BY <1>2, <1>9, <1>17, <1>21 DEF BodyOpen, Told
<1> QED
  BY <1>2, <1>14, <1>15, <1>16, <1>20, <1>22, <1>23, <1>24, OneClient DEF Good

(* An attempt is sent as it was built.                                     *)
LEMMA SendKeeps == ASSUME HttpInv, NEW c \in Client, Send(c) PROVE HttpInv'
<1>1. HttpTypes /\ Good(c) /\ pc[c] = "attempt"
  BY DEF HttpInv, Send
<1>2. UNCHANGED <<options, call, builder, setters, mode, outcomes, unclosed, result>>
  BY DEF Send
<1>3. /\ builder[c].header = c /\ Header(c) = header[c] /\ builder[c] \in Builder /\ header[c] \in HeaderRec
  BY <1>1, OwnHeader
<1>4. PICK body : body = buildBody(c)
  OBVIOUS
<1>5. /\ body \in BodyRec /\ body.kind = BodyKind(c)
      /\ BodyKind(c) \in {"none"} \cup builder[c].bodies
      /\ \A k \in Kind : builder[c].bodies = {k} => BodyKind(c) = k
  BY <1>1, <1>4, BodyKindIsSet
<1>6. PICK h : h = IF body.kind = "multipart" THEN [header[c] EXCEPT !.type = body] ELSE header[c]
  OBVIOUS
<1>7. PICK r : r = [header |-> h, body |-> body, query |-> builder[c].query, cookies |-> builder[c].cookies]
  OBVIOUS
<1>8. /\ header' = [header EXCEPT ![c] = h]
      /\ sent' = [sent EXCEPT ![c] = Append(@, r)]
      /\ pc' = [pc EXCEPT ![c] = "do"]
  BY <1>3, <1>4, <1>6, <1>7 DEF Send, PutHeader
<1>9. h \in HeaderRec /\ h.values = header[c].values
  BY <1>3, <1>5, <1>6 DEF HeaderRec
<1>10. r \in SentRec
  BY <1>3, <1>5, <1>7, <1>9 DEF SentRec, Builder
<1>11. /\ h.type.kind \in {"none"} \cup builder[c].bodies
       /\ \A k \in {"json", "xml", "form"} : builder[c].bodies = {k} => h.type = [kind |-> k, boundary |-> 0]
  <2>1. CASE body.kind = "multipart"
    BY <1>3, <1>5, <1>6, <2>1 DEF HeaderRec, Kind
  <2>2. CASE body.kind # "multipart"
    BY <1>1, <1>6, <2>2 DEF Good, Built
  <2> QED
    BY <2>1, <2>2
<1>12. \A k \in Kind \ {"bytes"} : builder[c].bodies = {k} => h.type = body
  <2> SUFFICES ASSUME NEW k \in Kind \ {"bytes"}, builder[c].bodies = {k} PROVE h.type = body
    OBVIOUS
  <2>1. body.kind = k
    BY <1>5
  <2>2. CASE k = "multipart"
    BY <1>3, <1>6, <2>1, <2>2 DEF HeaderRec
  <2>3. CASE k \in {"json", "xml", "form"}
    <3>1. FirstSet(builder[c].bodies) = k
      BY <1>5 DEF BodyKind
    <3>2. body = [kind |-> k, boundary |-> 0]
      BY <1>4, <2>3, <3>1 DEF buildBody
    <3> QED
      BY <1>11, <2>3, <3>2
  <2> QED
    BY <2>2, <2>3 DEF Kind
<1>13. Append(sent[c], r) \in Seq(SentRec) /\ Len(Append(sent[c], r)) = Len(sent[c]) + 1
       /\ Append(sent[c], r)[Len(sent[c]) + 1] = r
       /\ \A i \in 1..Len(sent[c]) : Append(sent[c], r)[i] = sent[c][i]
  BY <1>1, <1>10 DEF HttpTypes
<1>14. HttpTypes'
  BY <1>1, <1>2, <1>8, <1>9, <1>13 DEF HttpTypes, Place
<1>15. \A d \in Client \ {c} : Same(d)
  BY <1>1, <1>2, <1>8 DEF Same, HttpTypes
<1>16. header'[Shared] = header[Shared]
  BY <1>1, <1>8, HttpAssumption DEF HttpTypes
<1>17. header'[c] = h /\ pc'[c] = "do" /\ sent'[c] = Append(sent[c], r) /\ builder'[c] = builder[c]
  BY <1>1, <1>2, <1>8 DEF HttpTypes
<1>18. Tag(c)' = Tag(c) /\ Tag(Shared)' = Tag(Shared)
  BY <1>2 DEF Tag
<1>19. Built(c)'
  BY <1>1, <1>9, <1>11, <1>17, <1>18 DEF Good, Built
<1>20. AsBuilt(c, r)'
  <2>1. /\ r.header = h /\ r.body = body /\ r.query = builder[c].query /\ r.cookies = builder[c].cookies
    BY <1>7
  <2>2. BodyKind(c)' = BodyKind(c)
    BY <1>17 DEF BodyKind
  <2>3. /\ h.values \in Seq({Tag(c), Tag(Shared)})
        /\ builder[c].query \in Seq({Tag(c)}) /\ builder[c].cookies \in Seq({Tag(c)})
    BY <1>1, <1>9 DEF Good, Built
  <2> QED
    BY <1>5, <1>11, <1>12, <1>17, <1>18, <2>1, <2>2, <2>3 DEF AsBuilt
<1>21. \A i \in 1..Len(sent[c]) : AsBuilt(c, sent[c][i])'
  <2>1. BodyKind(c)' = BodyKind(c)
    BY <1>17 DEF BodyKind
  <2> SUFFICES ASSUME NEW i \in 1..Len(sent[c]) PROVE AsBuilt(c, sent[c][i])'
    OBVIOUS
  <2>2. AsBuilt(c, sent[c][i])
    BY <1>1 DEF Good, SentAsBuilt
  <2>3. sent'[c][i] = sent[c][i]
    BY <1>13, <1>17
  <2> QED
    BY <1>9, <1>17, <1>18, <2>1, <2>2, <2>3 DEF AsBuilt
<1>22. SentAsBuilt(c)'
  <2>1. Len(sent'[c]) = Len(sent[c]) + 1 /\ Len(sent[c]) \in Nat
    BY <1>1, <1>13, <1>17 DEF HttpTypes
  <2>2. \A i \in 1..Len(sent[c]) + 1 : i \in 1..Len(sent[c]) \/ i = Len(sent[c]) + 1
    BY <2>1
  <2>3. sent'[c][Len(sent[c]) + 1] = r
    BY <1>13, <1>17
  <2> SUFFICES ASSUME NEW i \in 1..Len(sent[c]) + 1 PROVE AsBuilt(c, sent[c][i])'
    BY <2>1 DEF SentAsBuilt
  <2> QED
    BY <1>20, <1>21, <2>2, <2>3 DEF AsBuilt
<1>23. Attempts(c)'
  <2>1. Len(sent'[c]) = Len(sent[c]) + 1 /\ Len(sent[c]) \in Nat /\ options.maxRetries \in Nat
    BY <1>1, <1>13, <1>17 DEF HttpTypes
  <2> QED
    BY <1>1, <1>2, <1>17, <2>1 DEF Good, Attempts
<1>24. BodyOpen(c)' /\ Told(c)'
  BY <1>1, <1>2, <1>17 DEF Good, BodyOpen, Told
<1> QED
  BY <1>2, <1>14, <1>15, <1>16, <1>19, <1>22, <1>23, <1>24, OneClient DEF Good

-----------------------------------------------------------------------------
(* What becomes of an attempt: the request and its parts stay.             *)

(* What an attempt comes to leaves alone what was built and sent.          *)
LEMMA OutcomeKeeps ==
  ASSUME HttpInv, NEW c \in Client, UNCHANGED <<options, client, mode, sent>>,
         NEW p \in Place, NEW os \in Seq(Status \cup {"error"}), NEW un \in SUBSET Nat,
         NEW r \in ResultRec,
         pc[c] \in {"attempt", "do", "answered"}, p \in {"attempt", "answered", "returned"},
         pc' = [pc EXCEPT ![c] = p], outcomes' = [outcomes EXCEPT ![c] = os],
         unclosed' = [unclosed EXCEPT ![c] = un], result' = [result EXCEPT ![c] = r],
         Attempts(c)', BodyOpen(c)', Told(c)'
  PROVE  HttpInv'
<1>1. HttpTypes /\ Good(c) /\ UNCHANGED <<call, builder, header>>
  BY DEF HttpInv, client
<1>2. HttpTypes'
  BY <1>1 DEF HttpTypes
<1>3. \A d \in Client \ {c} : Same(d)
  BY <1>1 DEF Same, HttpTypes
<1>4. Tag(c)' = Tag(c) /\ Tag(Shared)' = Tag(Shared) /\ BodyKind(c)' = BodyKind(c)
  BY <1>1 DEF Tag, BodyKind
<1>5. pc'[c] = p
  BY <1>1 DEF HttpTypes
<1>6. Built(c)'
  BY <1>1, <1>4, <1>5 DEF Good, Built
<1>7. SentAsBuilt(c)'
  BY <1>1, <1>4 DEF Good, SentAsBuilt, AsBuilt
<1> QED
  BY <1>1, <1>2, <1>3, <1>6, <1>7, OneClient DEF Good

(* A body that cannot be marshalled ends the request before an attempt.    *)
LEMMA MarshalFailsKeeps == ASSUME HttpInv, NEW c \in Client, MarshalFails(c) PROVE HttpInv'
<1>1. HttpTypes /\ Good(c) /\ pc[c] = "attempt"
  BY DEF HttpInv, MarshalFails
<1>2. UNCHANGED <<options, client, mode, sent, outcomes, unclosed>> /\ sent[c] = <<>>
  BY <1>1 DEF MarshalFails, Attempt, HttpTypes
<1>3. PICK os \in Seq(Status \cup {"error"}), un \in SUBSET Nat : os = outcomes[c] /\ un = unclosed[c]
  BY <1>1 DEF HttpTypes
<1>4. outcomes' = [outcomes EXCEPT ![c] = os] /\ unclosed' = [unclosed EXCEPT ![c] = un]
  BY <1>1, <1>2, <1>3 DEF HttpTypes
<1>5. PICK r \in ResultRec : /\ r = [resp |-> "none", err |-> "request"]
                             /\ pc' = [pc EXCEPT ![c] = "returned"] /\ result' = [result EXCEPT ![c] = r]
  BY DEF MarshalFails, Ends, ResultRec
<1>6. pc'[c] = "returned" /\ result'[c] = [resp |-> "none", err |-> "request"]
  BY <1>1, <1>5 DEF HttpTypes
<1>7. Attempts(c)'
  BY <1>1, <1>2, <1>6 DEF Good, Attempts
<1>8. BodyOpen(c)' /\ Told(c)'
  BY <1>1, <1>2, <1>6 DEF Good, BodyOpen, Told
<1> QED
  BY <1>1, <1>2, <1>4, <1>5, <1>7, <1>8, OutcomeKeeps DEF Place

(* The outcome of the last attempt is written down.                        *)
LEMMA Outcome ==
  ASSUME HttpInv, NEW c \in Client, pc[c] = "do", NEW o \in Status \cup {"error"},
         outcomes' = [outcomes EXCEPT ![c] = Append(@, o)], sent' = sent
  PROVE  /\ Len(sent[c]) \in Nat /\ Len(sent[c]) > 0
         /\ outcomes'[c] = Append(outcomes[c], o) /\ Append(outcomes[c], o) \in Seq(Status \cup {"error"})
         /\ Len(outcomes'[c]) = Len(sent'[c])
         /\ outcomes'[c][Len(sent'[c])] = o /\ Last(outcomes'[c]) = o
         /\ \A i \in 1..Len(sent'[c]) - 1 : outcomes'[c][i] \in {"error", "5xx"}
         /\ o \in {"error", "5xx"} => \A i \in 1..Len(sent'[c]) : outcomes'[c][i] \in {"error", "5xx"}
<1>1. outcomes[c] \in Seq(Status \cup {"error"}) /\ sent[c] \in Seq(SentRec)
  BY DEF HttpInv, HttpTypes
<1>2. /\ Len(sent[c]) = Len(outcomes[c]) + 1
      /\ \A i \in 1..Len(sent[c]) - 1 : outcomes[c][i] \in {"error", "5xx"}
  BY DEF HttpInv, Good, Attempts
<1>3. outcomes'[c] = Append(outcomes[c], o) /\ sent'[c] = sent[c]
  BY DEF HttpInv, HttpTypes
<1>4. /\ Append(outcomes[c], o) \in Seq(Status \cup {"error"})
      /\ Len(Append(outcomes[c], o)) = Len(outcomes[c]) + 1
      /\ Append(outcomes[c], o)[Len(outcomes[c]) + 1] = o
      /\ \A i \in 1..Len(outcomes[c]) : Append(outcomes[c], o)[i] = outcomes[c][i]
  BY <1>1
<1>5. Len(outcomes[c]) \in Nat
  BY <1>1
<1>6. Len(sent[c]) - 1 = Len(outcomes[c])
  BY <1>2, <1>5
<1>7. \A i \in 1..Len(sent'[c]) - 1 : outcomes'[c][i] \in {"error", "5xx"}
  BY <1>2, <1>3, <1>4, <1>6
<1>8. outcomes'[c][Len(sent'[c])] = o /\ Last(outcomes'[c]) = o
  BY <1>2, <1>3, <1>4 DEF Last
<1>9. \A i \in 1..Len(sent'[c]) : i \in 1..Len(sent'[c]) - 1 \/ i = Len(sent'[c])
  BY <1>2, <1>3, <1>5
<1> QED
  BY <1>2, <1>3, <1>4, <1>5, <1>7, <1>8, <1>9

(* An attempt without an answer is followed by the next or ends the call.  *)
LEMMA DoFailsKeeps == ASSUME HttpInv, NEW c \in Client, DoFails(c) PROVE HttpInv'
<1>1. HttpTypes /\ Good(c) /\ pc[c] = "do"
  BY DEF HttpInv, DoFails
<1>2. UNCHANGED <<options, client, mode, sent, unclosed>> /\ outcomes' = [outcomes EXCEPT ![c] = Append(@, "error")]
  BY DEF DoFails
<1>3. /\ Len(sent[c]) \in Nat
      /\ outcomes'[c] = Append(outcomes[c], "error") /\ Append(outcomes[c], "error") \in Seq(Status \cup {"error"})
      /\ Len(outcomes'[c]) = Len(sent'[c])
      /\ \A i \in 1..Len(sent'[c]) : outcomes'[c][i] \in {"error", "5xx"}
      /\ \A i \in 1..Len(sent'[c]) - 1 : outcomes'[c][i] \in {"error", "5xx"}
  BY <1>1, <1>2, Outcome
<1>4. PICK os \in Seq(Status \cup {"error"}), un \in SUBSET Nat : os = Append(outcomes[c], "error") /\ un = unclosed[c]
  BY <1>1, <1>3 DEF HttpTypes
<1>5. outcomes' = [outcomes EXCEPT ![c] = os] /\ unclosed' = [unclosed EXCEPT ![c] = un]
  BY <1>1, <1>2, <1>4 DEF HttpTypes
<1>6. sent'[c] = sent[c] /\ options' = options /\ unclosed'[c] = unclosed[c] /\ unclosed[c] = {}
      /\ options.maxRetries \in Nat /\ Len(sent[c]) <= 1 + options.maxRetries
  BY <1>1, <1>2 DEF Good, BodyOpen, Attempts, HttpTypes
<1>7. CASE HasNext(c)
  <2>1. pc' = [pc EXCEPT ![c] = "attempt"] /\ result' = result
    BY <1>7 DEF DoFails
  <2>2. PICK r \in ResultRec :
          r = result[c] /\ result' = [result EXCEPT ![c] = r]
    BY <1>1, <2>1 DEF HttpTypes
  <2>3. pc'[c] = "attempt"
    BY <1>1, <2>1 DEF HttpTypes
  <2>4. Attempts(c)'
    BY <1>3, <1>6, <1>7, <2>3 DEF Attempts, HasNext
  <2>5. BodyOpen(c)' /\ Told(c)'
    BY <1>6, <2>3 DEF BodyOpen, Told
  <2> QED
    BY <1>1, <1>2, <1>5, <2>1, <2>2, <2>4, <2>5, OutcomeKeeps DEF Place
<1>8. CASE ~HasNext(c)
  <2>1. PICK r \in ResultRec : /\ r = [resp |-> "none", err |-> "error"]
                               /\ pc' = [pc EXCEPT ![c] = "returned"] /\ result' = [result EXCEPT ![c] = r]
    BY <1>8 DEF DoFails, Ends, ResultRec
  <2>2. pc'[c] = "returned" /\ result'[c] = [resp |-> "none", err |-> "error"]
    BY <1>1, <2>1 DEF HttpTypes
  <2>3. Attempts(c)'
    BY <1>3, <1>6, <2>2 DEF Attempts
  <2>4. BodyOpen(c)' /\ Told(c)'
    BY <1>6, <2>2 DEF BodyOpen, Told
  <2> QED
    BY <1>1, <1>2, <1>5, <2>1, <2>3, <2>4, OutcomeKeeps DEF Place
<1> QED
  BY <1>7, <1>8

(* An answer comes with an open body.                                      *)
LEMMA DoAnswersKeeps ==
  ASSUME HttpInv, NEW c \in Client, NEW status \in Status, DoAnswers(c, status) PROVE HttpInv'
<1>1. HttpTypes /\ Good(c) /\ pc[c] = "do"
  BY DEF HttpInv, DoAnswers
<1>2. /\ UNCHANGED <<options, client, mode, sent, result>>
      /\ outcomes' = [outcomes EXCEPT ![c] = Append(@, status)]
      /\ unclosed' = [unclosed EXCEPT ![c] = @ \cup {Len(sent[c])}]
      /\ pc' = [pc EXCEPT ![c] = "answered"]
  BY DEF DoAnswers
<1>3. /\ Len(sent[c]) \in Nat /\ Len(sent[c]) > 0
      /\ outcomes'[c] = Append(outcomes[c], status) /\ Append(outcomes[c], status) \in Seq(Status \cup {"error"})
      /\ Len(outcomes'[c]) = Len(sent'[c]) /\ outcomes'[c][Len(sent'[c])] = status
      /\ \A i \in 1..Len(sent'[c]) - 1 : outcomes'[c][i] \in {"error", "5xx"}
  BY <1>1, <1>2, Outcome
<1>4. unclosed[c] = {}
  BY <1>1 DEF Good, BodyOpen
<1>5. PICK os \in Seq(Status \cup {"error"}), un \in SUBSET Nat,
           r \in ResultRec :
        os = Append(outcomes[c], status) /\ un = {Len(sent[c])} /\ r = result[c]
  BY <1>1, <1>3 DEF HttpTypes
<1>6. outcomes' = [outcomes EXCEPT ![c] = os] /\ unclosed' = [unclosed EXCEPT ![c] = un]
      /\ result' = [result EXCEPT ![c] = r]
  BY <1>1, <1>2, <1>4, <1>5 DEF HttpTypes
<1>7. /\ pc'[c] = "answered" /\ sent'[c] = sent[c] /\ options' = options /\ unclosed'[c] = {Len(sent[c])}
      /\ options.maxRetries \in Nat /\ Len(sent[c]) <= 1 + options.maxRetries /\ status # "error"
  BY <1>1, <1>2, <1>4 DEF Good, Attempts, HttpTypes, Status
<1>8. Attempts(c)'
  BY <1>3, <1>7 DEF Attempts
<1>9. BodyOpen(c)' /\ Told(c)'
  BY <1>7 DEF BodyOpen, Told
<1> QED
  BY <1>1, <1>2, <1>5, <1>6, <1>8, <1>9, OutcomeKeeps DEF Place

(* A call whose attempt was answered.                                      *)
LEMMA Answered ==
  ASSUME HttpInv, NEW c \in Client, pc[c] = "answered"
  PROVE  /\ Len(sent[c]) \in Nat /\ Len(sent[c]) > 0 /\ Len(outcomes[c]) = Len(sent[c])
         /\ Last(outcomes[c]) = outcomes[c][Len(sent[c])] /\ Last(outcomes[c]) \in Status
         /\ \A i \in 1..Len(sent[c]) - 1 : outcomes[c][i] \in {"error", "5xx"}
         /\ unclosed[c] = {Len(sent[c])} /\ options.maxRetries \in Nat
         /\ Len(sent[c]) <= 1 + options.maxRetries
<1>1. HttpTypes /\ Good(c)
  BY DEF HttpInv
<1>2. /\ Len(sent[c]) \in Nat /\ options.maxRetries \in Nat
      /\ outcomes[c] \in Seq(Status \cup {"error"})
  BY <1>1 DEF HttpTypes
<1>3. /\ Len(sent[c]) > 0 /\ Len(outcomes[c]) = Len(sent[c]) /\ outcomes[c][Len(sent[c])] # "error"
      /\ \A i \in 1..Len(sent[c]) - 1 : outcomes[c][i] \in {"error", "5xx"}
      /\ Len(sent[c]) <= 1 + options.maxRetries
  BY <1>1 DEF Good, Attempts
<1>4. outcomes[c][Len(sent[c])] \in Status
  BY <1>2, <1>3
<1> QED
  BY <1>1, <1>2, <1>3, <1>4 DEF Last, Good, BodyOpen

(* The body of an answer that is retried is closed.                        *)
LEMMA RetryKeeps == ASSUME HttpInv, NEW c \in Client, Retry(c) PROVE HttpInv'
<1>1. HttpTypes /\ Good(c) /\ pc[c] = "answered"
  BY DEF HttpInv, Retry
<1>2. /\ UNCHANGED <<options, client, mode, sent, outcomes, result>>
      /\ unclosed' = [unclosed EXCEPT ![c] = @ \ {Len(sent[c])}]
      /\ pc' = [pc EXCEPT ![c] = "attempt"]
  BY DEF Retry
<1>3. /\ Len(sent[c]) \in Nat /\ Len(outcomes[c]) = Len(sent[c])
      /\ \A i \in 1..Len(sent[c]) - 1 : outcomes[c][i] \in {"error", "5xx"}
      /\ unclosed[c] = {Len(sent[c])} /\ Len(sent[c]) <= options.maxRetries /\ options.maxRetries \in Nat
      /\ outcomes[c][Len(sent[c])] = "5xx"
  BY <1>1, Answered DEF Retry, Retried, HasNext
<1>4. \A i \in 1..Len(sent[c]) : outcomes[c][i] \in {"error", "5xx"}
  <2>1. \A i \in 1..Len(sent[c]) : i \in 1..Len(sent[c]) - 1 \/ i = Len(sent[c])
    BY <1>3
  <2> QED
    BY <2>1, <1>3
<1>5. PICK os \in Seq(Status \cup {"error"}), un \in SUBSET Nat,
           r \in ResultRec :
        os = outcomes[c] /\ un = {} /\ r = result[c]
  BY <1>1 DEF HttpTypes
<1>6. outcomes' = [outcomes EXCEPT ![c] = os] /\ unclosed' = [unclosed EXCEPT ![c] = un]
      /\ result' = [result EXCEPT ![c] = r]
  BY <1>1, <1>2, <1>3, <1>5 DEF HttpTypes
<1>7. pc'[c] = "attempt" /\ unclosed'[c] = {}
  BY <1>1, <1>2, <1>3 DEF HttpTypes
<1>8. Attempts(c)'
  BY <1>2, <1>3, <1>4, <1>7 DEF Attempts
<1>9. BodyOpen(c)' /\ Told(c)'
  BY <1>7 DEF BodyOpen, Told
<1> QED
  BY <1>1, <1>2, <1>5, <1>6, <1>8, <1>9, OutcomeKeeps DEF Place

(* The body of the last answer is decoded into the result.                 *)
LEMMA DecodeKeeps == ASSUME HttpInv, NEW c \in Client, Decode(c) PROVE HttpInv'
<1>1. HttpTypes /\ Good(c) /\ pc[c] = "answered"
  BY DEF HttpInv, Decode
<1>2. UNCHANGED <<options, client, mode, sent, outcomes>>
  BY DEF Decode
<1>3. /\ Len(sent[c]) \in Nat /\ Len(outcomes[c]) = Len(sent[c])
      /\ \A i \in 1..Len(sent[c]) - 1 : outcomes[c][i] \in {"error", "5xx"}
      /\ unclosed[c] = {Len(sent[c])} /\ Len(sent[c]) <= 1 + options.maxRetries /\ options.maxRetries \in Nat
      /\ Last(outcomes[c]) \in Status
  BY <1>1, Answered
<1>4. PICK err \in {"none", "decode"} : Request(c, err)
  BY DEF Decode
<1>5. PICK e \in {"none", "decode", "status"} :
        /\ Ends(c, Last(outcomes[c]), e)
        /\ (mode[c].of # "Receive" /\ e = "none") => Last(outcomes[c]) = "2xx"
  BY <1>4 DEF Request
<1>6. PICK un \in SUBSET Nat : /\ unclosed' = [unclosed EXCEPT ![c] = un]
                               /\ un = IF mode[c].of = "Receive" THEN {Len(sent[c])} ELSE {}
  <2>1. CASE mode[c].of = "Receive"
    <3>1. unclosed' = [unclosed EXCEPT ![c] = {Len(sent[c])}]
      BY <1>1, <1>3, <1>4, <2>1 DEF Request, HttpTypes
    <3> QED
      BY <1>3, <2>1, <3>1
  <2>2. CASE mode[c].of # "Receive"
    <3>1. unclosed' = [unclosed EXCEPT ![c] = {}]
      BY <1>1, <1>3, <1>4, <2>2 DEF Request, HttpTypes
    <3> QED
      BY <2>2, <3>1
  <2> QED
    BY <2>1, <2>2
<1>7. PICK r : r = [resp |-> Last(outcomes[c]), err |-> e]
  OBVIOUS
<1>8. /\ r \in ResultRec /\ result' = [result EXCEPT ![c] = r] /\ pc' = [pc EXCEPT ![c] = "returned"]
      /\ r.resp = Last(outcomes[c]) /\ r.err = e
  BY <1>3, <1>5, <1>7 DEF ResultRec, Ends
<1>9. PICK os \in Seq(Status \cup {"error"}) : os = outcomes[c]
  BY <1>1 DEF HttpTypes
<1>10. outcomes' = [outcomes EXCEPT ![c] = os]
  BY <1>1, <1>2, <1>9 DEF HttpTypes
<1>11. pc'[c] = "returned" /\ unclosed'[c] = un /\ result'[c] = r
  BY <1>1, <1>6, <1>8 DEF HttpTypes
<1>12. Attempts(c)'
  BY <1>2, <1>3, <1>11 DEF Attempts
<1>13. "none" \notin Status
  BY DEF Status
<1>14. BodyOpen(c)'
  BY <1>2, <1>3, <1>6, <1>8, <1>11, <1>13 DEF BodyOpen
<1>15. Told(c)'
  BY <1>2, <1>3, <1>5, <1>8, <1>11, <1>13 DEF Told
<1> QED
  BY <1>1, <1>2, <1>6, <1>8, <1>10, <1>12, <1>14, <1>15, OutcomeKeeps DEF Place

-----------------------------------------------------------------------------
(* The invariant, and what it says of every reachable state.               *)

(* Whatever any clients made of one shared client build, send, retry and   *)
(* decode at the same time, every request is made of its own call and as   *)
(* it was built, and a body is open only while its answer is in use.       *)
THEOREM HttpClientInvariant == Spec => []HttpInv
<1>1. Init => HttpInv
  BY HttpInitInv
<1>2. HttpInv /\ [Next]_vars => HttpInv'
  <2> SUFFICES ASSUME HttpInv, [Next]_vars PROVE HttpInv'
    OBVIOUS
  <2>1. CASE UNCHANGED vars
    <3>1. UNCHANGED <<options, call, builder, header, pc, mode, sent, outcomes, unclosed, result>>
      BY <2>1 DEF vars, client
    <3>2. HttpTypes' /\ header'[Shared] = header[Shared] /\ Tag(Shared)' = Tag(Shared)
      BY <3>1 DEF HttpInv, HttpTypes, Tag
    <3>3. \A d \in Client : Good(d)'
      BY <3>1, Frame DEF HttpInv, Same
    <3> QED
      BY <3>2, <3>3 DEF HttpInv
  <2>2. ASSUME NEW c \in Client,
               \/ New(c) \/ Build(c) \/ Receive(c) \/ Send(c) \/ MarshalFails(c)
               \/ DoFails(c) \/ (\E s \in Status : DoAnswers(c, s)) \/ Retry(c) \/ Decode(c)
        PROVE  HttpInv'
    BY <2>2, NewKeeps, BuildKeeps, ReceiveKeeps, SendKeeps, MarshalFailsKeeps, DoFailsKeeps,
       DoAnswersKeeps, RetryKeeps, DecodeKeeps
  <2> QED
    BY <2>1, <2>2 DEF Next
<1> QED
  BY <1>1, <1>2, PTL DEF Spec

(* What leaves in a request was set for its own call or is a default of    *)
(* the shared client (client.go:89, 356), whoever builds at the same time. *)
THEOREM EveryRequestItsOwn == Spec => []OwnRequest
<1>1. HttpInv => OwnRequest
  <2> SUFFICES ASSUME HttpInv, NEW c \in Client, NEW i \in 1..Len(sent[c])
               PROVE  /\ ToSet(sent[c][i].header.values) \subseteq {Tag(c), Tag(Shared)}
                      /\ ToSet(sent[c][i].query) \cup ToSet(sent[c][i].cookies) \subseteq {Tag(c)}
                      /\ sent[c][i].header.type.kind \in {"none"} \cup builder[c].bodies
    BY DEF OwnRequest
  <2>1. AsBuilt(c, sent[c][i])
    BY DEF HttpInv, Good, SentAsBuilt
  <2>2. \A S, s : s \in Seq(S) => ToSet(s) \subseteq S
    BY DEF ToSet
  <2> QED
    BY <2>1, <2>2 DEF AsBuilt
<1> QED
  BY <1>1, HttpClientInvariant, PTL

(* A retry (client.go:430) sends the same values and a body of the same    *)
(* field again, under the type and the boundary of that body.              *)
THEOREM EveryAttemptTheSame == Spec => []SameEachAttempt
<1>1. HttpInv => SameEachAttempt
  <2> SUFFICES ASSUME HttpInv, NEW c \in Client, NEW i \in 1..Len(sent[c])
               PROVE  /\ sent[c][i].body.kind = sent[c][1].body.kind
                      /\ sent[c][i].header.values = sent[c][1].header.values
                      /\ sent[c][i].body.kind = "none" => builder[c].bodies = {}
                      /\ \A k \in Kind \ {"bytes"} :
                           builder[c].bodies = {k} => sent[c][i].header.type = sent[c][i].body
    BY DEF SameEachAttempt
  <2>1. AsBuilt(c, sent[c][i])
    BY DEF HttpInv, Good, SentAsBuilt
  <2>2. 1 \in 1..Len(sent[c])
    OBVIOUS
  <2>3. AsBuilt(c, sent[c][1])
    BY <2>2 DEF HttpInv, Good, SentAsBuilt
  <2>4. BodyKind(c) = "none" <=> builder[c].bodies = {}
    BY BodyKindIsSet DEF HttpInv
  <2> QED
    BY <2>1, <2>3, <2>4 DEF AsBuilt
<1> QED
  BY <1>1, HttpClientInvariant, PTL

(* Attempts are bounded, a further one follows a network error or a 5xx    *)
(* only, and what the caller is told is what the last attempt came to.     *)
THEOREM EveryResultTrue == Spec => []TrueResult
<1>1. HttpInv => TrueResult
  BY DEF HttpInv, Good, Attempts, Told, TrueResult
<1> QED
  BY <1>1, HttpClientInvariant, PTL

(* Request has closed every body it got, Receive all but the last.         *)
THEOREM EveryBodyClosed == Spec => []NoBodyLeft
<1>1. HttpInv => NoBodyLeft
  BY DEF HttpInv, Good, BodyOpen, NoBodyLeft
<1> QED
  BY <1>1, HttpClientInvariant, PTL
=============================================================================
