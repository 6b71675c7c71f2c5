------------------------- MODULE RateLimiter_proofs -------------------------
(***************************************************************************)
(* Proofs about RateLimiter, for any number of clients and of requests     *)
(* between their commands, any limit, window and length of a tick.         *)
(***************************************************************************)
EXTENDS RateLimiter, TLAPS

-----------------------------------------------------------------------------
(* Facts about the operators.                                              *)

LEMMA ConstantTypes ==
    /\ Limit \in Nat \ {0} /\ Full \in Nat /\ Full = Limit + 1
    /\ WindowSeconds \in Nat \ {0} /\ TicksPerSecond \in Nat \ {0}
    /\ Window \in Nat \ {0} /\ Window = WindowSeconds * TicksPerSecond
<1>1. \A m, n \in Nat \ {0} : m * n \in Nat \ {0}
  OBVIOUS
<1>. QED  BY <1>1, RateAssumption DEF Full, Window

LEMMA BasicTypes ==
    Limit \in Nat \ {0} /\ Full = Limit + 1 /\ Window \in Nat \ {0}
BY ConstantTypes

\* A counter moves up, and stays above the limit once it is there.
LEMMA IncrementedType ==
    ASSUME NEW n \in Counts
    PROVE  /\ Incremented(n) \in Counts
           /\ Incremented(n) > 0
BY ConstantTypes DEF Incremented, Counts

LEMMA DivisionBound ==
    ASSUME NEW n \in Nat, NEW d \in Nat \ {0}
    PROVE  /\ n \div d \in Nat
           /\ (n \div d) * d <= n
           /\ n < (n \div d) * d + d
OBVIOUS

\* Either rounding falls short of the time left by less than a second.
LEMMA AdviceFits ==
    ASSUME NEW n \in 0..Window
    PROVE  /\ RetryAfter(NearestSeconds(n)) * TicksPerSecond \in Nat
           /\ n <= RetryAfter(NearestSeconds(n)) * TicksPerSecond + TicksPerSecond - 1
           /\ RetryAfter(WholeSeconds(n)) * TicksPerSecond \in Nat
           /\ n <= RetryAfter(WholeSeconds(n)) * TicksPerSecond + TicksPerSecond - 1
           /\ RetryAfter(WindowSeconds) * TicksPerSecond \in Nat
           /\ n <= RetryAfter(WindowSeconds) * TicksPerSecond + TicksPerSecond - 1
<1>. DEFINE T == TicksPerSecond
<1>1. T \in Nat \ {0} /\ n \in Nat /\ n <= Window /\ Window = WindowSeconds * T
      /\ WindowSeconds \in Nat \ {0}
  BY ConstantTypes
<1>2. ASSUME NEW q \in Nat, n <= q * T + T - 1
      PROVE  RetryAfter(q) * T \in Nat /\ n <= RetryAfter(q) * T + T - 1
  <2>1. CASE q > 1
    BY <1>1, <1>2, <2>1 DEF RetryAfter, Larger
  <2>2. CASE q = 1
    BY <1>1, <1>2, <2>2 DEF RetryAfter, Larger
  <2>3. CASE q = 0
    BY <1>1, <1>2, <2>3 DEF RetryAfter, Larger
  <2>. QED  BY <2>1, <2>2, <2>3
<1>3. NearestSeconds(n) \in Nat /\ n <= NearestSeconds(n) * T + T - 1
  <2>. DEFINE q == (2 * n + T) \div (2 * T)
  <2>1. 2 * n + T \in Nat /\ 2 * T \in Nat \ {0}
    BY <1>1
  <2>2. q \in Nat /\ 2 * n + T < q * (2 * T) + 2 * T
    BY <2>1, DivisionBound
  <2>3. q * T \in Nat /\ q * (2 * T) = 2 * (q * T)
    BY <2>2, <1>1
  <2>4. 2 * n + T < 2 * (q * T) + 2 * T
    BY <2>2, <2>3
  <2>. HIDE DEF q
  <2>5. n <= q * T + T - 1
    BY <2>3, <2>4, <1>1
  <2>. QED  BY <2>2, <2>5 DEF NearestSeconds, q
<1>4. WholeSeconds(n) \in Nat /\ n <= WholeSeconds(n) * T + T - 1
  <2>. DEFINE q == n \div T
  <2>1. q \in Nat /\ n < q * T + T
    BY <1>1, DivisionBound
  <2>2. q * T \in Nat
    BY <2>1, <1>1
  <2>. HIDE DEF q
  <2>3. n <= q * T + T - 1
    BY <2>1, <2>2, <1>1
  <2>. QED  BY <2>1, <2>3 DEF WholeSeconds, q
<1>5. n <= WindowSeconds * T + T - 1
  <2>1. WindowSeconds * T \in Nat
    BY <1>1
  <2>. QED  BY <2>1, <1>1
<1>. QED  BY <1>1, <1>2, <1>3, <1>4, <1>5

\* An answered request is back where it began.
LEMMA DoneType ==
    ASSUME TypeOK, NEW r \in Requests, Done(r)
    PROVE  pc' \in [Requests -> Points] /\ current' \in [Requests -> Counts]
<1>1. 0 \in Counts /\ "idle" \in Points
  BY BasicTypes DEF Counts, Points
<1>. HIDE DEF Counts, Points
<1>. QED  BY <1>1 DEF Done, TypeOK

LEMMA RecordType ==
    ASSUME TypeOK, NEW c \in Clients, NEW n, Record(c, n)
    PROVE  recent' \in [Clients -> [0..(Window - 1) -> Nat]]
<1>. DEFINE once == [k \in 0..(Window - 1) |-> recent[c][k] + 1]
<1>1. recent[c] \in [0..(Window - 1) -> Nat]
  BY DEF TypeOK
<1>2. \A k \in 0..(Window - 1) : recent[c][k] + 1 \in Nat
  <2>1. ASSUME NEW k \in 0..(Window - 1) PROVE recent[c][k] \in Nat
    BY <1>1
  <2>. QED  BY <2>1
<1>3. once \in [0..(Window - 1) -> Nat]
  BY <1>2
<1>4. recent' = [recent EXCEPT ![c] = IF Granted(n) THEN once ELSE @]
  BY DEF Record, TypeOK
<1>. HIDE DEF once
<1>. QED  BY <1>1, <1>3, <1>4 DEF TypeOK

-----------------------------------------------------------------------------
(* Every variable keeps its type: counters stop above the limit, and no    *)
(* time to live outlasts the window (rate_limit.py, _hit_redis and         *)
(* _hit_memory).                                                           *)
THEOREM TypeCorrect == Spec => []TypeOK
<1>1. Init => TypeOK
  BY BasicTypes, RateAssumption DEF Init, TypeOK, Counts, Points, NothingRecent
<1>2. TypeOK /\ [Next]_vars => TypeOK'
  <2>. SUFFICES ASSUME TypeOK, [Next]_vars PROVE TypeOK'
    OBVIOUS
  <2>. USE BasicTypes
  <2>1. ASSUME NEW r \in Requests, NEW c \in Clients, Incr(r, c) PROVE TypeOK'
    <3>1. count'[c] \in Counts /\ count' \in [Clients -> Counts]
      BY <2>1, IncrementedType DEF Incr, TypeOK
    <3>2. recent' \in [Clients -> [0..(Window - 1) -> Nat]]
      BY <2>1, RecordType DEF Incr
    <3>3. current' \in [Requests -> Counts] /\ who' \in [Requests -> Clients]
          /\ pc' \in [Requests -> Points] /\ age' \in [Clients -> 0..Window]
      BY <2>1, <3>1 DEF Incr, TypeOK, Points
    <3>. QED  BY <2>1, <3>1, <3>2, <3>3 DEF Incr, TypeOK
  <2>2. ASSUME NEW r \in Requests, ReadTtl(r) PROVE TypeOK'
    <3>1. wait' \in [Clients -> Nat \cup {NoWait}]
      BY <2>2, AdviceFits DEF ReadTtl, TypeOK, Advise
    <3>. QED  BY <2>2, <3>1, DoneType DEF ReadTtl, TypeOK
  <2>3. ASSUME NEW r \in Requests, ReadNoTtl(r) PROVE TypeOK'
    BY <2>3 DEF ReadNoTtl, TypeOK, Points
  <2>4. ASSUME NEW r \in Requests, Expire(r) PROVE TypeOK'
    <3>1. wait' \in [Clients -> Nat \cup {NoWait}]
      BY <2>4, AdviceFits DEF Expire, TypeOK
    <3>. QED  BY <2>4, <3>1, DoneType DEF Expire, TypeOK, NewTtl
  <2>5. ASSUME NEW r \in Requests, Die(r) PROVE TypeOK'
    <3>1. deaths' \in 0..MaxDeaths
      BY <2>5, RateAssumption DEF Die, TypeOK
    <3>. QED  BY <2>5, <3>1, DoneType DEF Die, TypeOK
  <2>6. ASSUME NEW c \in Clients, HitMemory(c) PROVE TypeOK'
    <3>1. Found(c).count \in Counts /\ Found(c).left \in 0..Window
      BY DEF Found, TypeOK, Counts
    <3>2. Incremented(Found(c).count) \in Counts
      BY <3>1, IncrementedType
    <3>3. recent' \in [Clients -> [0..(Window - 1) -> Nat]]
      BY <2>6, RecordType DEF HitMemory
    <3>4. wait' \in [Clients -> Nat \cup {NoWait}]
      BY <2>6, <3>1, AdviceFits DEF HitMemory, TypeOK, Advise
    <3>. QED  BY <2>6, <3>1, <3>2, <3>3, <3>4 DEF HitMemory, TypeOK
  <2>7. ASSUME Restart PROVE TypeOK'
    <3>1. deaths' \in 0..MaxDeaths
      BY <2>7, RateAssumption DEF Restart, TypeOK
    <3>. QED  BY <2>7, <3>1 DEF Restart, TypeOK, Counts
  <2>8. ASSUME Tick PROVE TypeOK'
    <3>1. left' \in [Clients -> 0..Window] /\ age' \in [Clients -> 0..Window]
      BY <2>8 DEF Tick, TypeOK
    <3>2. count' \in [Clients -> Counts]
      BY <2>8 DEF Tick, TypeOK, Counts
    <3>3. recent' \in [Clients -> [0..(Window - 1) -> Nat]]
      BY <2>8 DEF Tick, TypeOK
    <3>4. wait' \in [Clients -> Nat \cup {NoWait}]
      BY <2>8 DEF Tick, TypeOK, NoWait
    <3>. QED  BY <2>8, <3>1, <3>2, <3>3, <3>4 DEF Tick, TypeOK
  <2>9. CASE UNCHANGED vars
    BY <2>9 DEF vars, TypeOK
  <2>. QED  BY <2>1, <2>2, <2>3, <2>4, <2>5, <2>6, <2>7, <2>8, <2>9 DEF Next
<1>. QED  BY <1>1, <1>2, PTL DEF Spec

-----------------------------------------------------------------------------
IInv == TypeOK /\ OnlyRedisWaits /\ WindowsAreLong

LEMMA InitInvariant == Init => OnlyRedisWaits /\ WindowsAreLong
BY DEF Init, OnlyRedisWaits, WindowsAreLong

\* The step of a request does not shorten a window (EXPIRE only prolongs),
\* and the clock takes from its end what it adds to its age.
LEMMA StepInvariant ==
    ASSUME IInv, [Next]_vars
    PROVE  OnlyRedisWaits' /\ WindowsAreLong'
<1>. USE BasicTypes DEF IInv
<1>1. ASSUME NEW r \in Requests, NEW c \in Clients, Incr(r, c)
      PROVE  OnlyRedisWaits' /\ WindowsAreLong'
  <2>1. count'[c] > 0 /\ \A d \in Clients : d # c => count'[d] = count[d]
    BY <1>1, IncrementedType DEF Incr, TypeOK
  <2>2. left[c] > 0 => age'[c] = age[c]
    BY <1>1 DEF Incr, TypeOK, WindowsAreLong, Counts
  <2>. QED  BY <1>1, <2>1, <2>2 DEF Incr, TypeOK, OnlyRedisWaits, WindowsAreLong
<1>2. ASSUME NEW r \in Requests, ReadTtl(r) \/ ReadNoTtl(r) \/ Die(r)
      PROVE  OnlyRedisWaits' /\ WindowsAreLong'
  BY <1>2 DEF ReadTtl, ReadNoTtl, Die, Done, TypeOK, OnlyRedisWaits, WindowsAreLong
<1>3. ASSUME NEW r \in Requests, Expire(r)
      PROVE  OnlyRedisWaits' /\ WindowsAreLong'
  BY <1>3 DEF Expire, Done, NewTtl, TypeOK, OnlyRedisWaits, WindowsAreLong, Counts
<1>4. ASSUME NEW c \in Clients, HitMemory(c)
      PROVE  OnlyRedisWaits' /\ WindowsAreLong'
  <2>1. Found(c).count \in Counts /\ Found(c).left = IF left[c] = 0 THEN Window ELSE left[c]
    BY DEF Found, TypeOK, Counts
  <2>2. Incremented(Found(c).count) > 0
    BY <2>1, IncrementedType
  <2>. QED  BY <1>4, <2>1, <2>2 DEF HitMemory, TypeOK, OnlyRedisWaits, WindowsAreLong
<1>5. CASE Restart
  BY <1>5 DEF Restart, TypeOK, OnlyRedisWaits, WindowsAreLong
<1>6. CASE Tick
  <2>1. OnlyRedisWaits'
    BY <1>6 DEF Tick, OnlyRedisWaits
  <2>2. ASSUME NEW c \in Clients, left'[c] > 0
        PROVE  count'[c] > 0 /\ age'[c] + left'[c] >= Window
    <3>1. left[c] > 0 /\ left'[c] = left[c] - 1 /\ ~ Ends(c)
      BY <1>6, <2>2 DEF Tick, Ends, TypeOK
    <3>2. count'[c] = count[c] /\ count[c] > 0
      BY <1>6, <3>1 DEF Tick, WindowsAreLong
    <3>3. age'[c] = IF age[c] = Window THEN Window ELSE age[c] + 1
      BY <1>6 DEF Tick
    <3>4. age[c] \in 0..Window /\ left[c] \in 0..Window /\ age[c] + left[c] >= Window
      BY <3>1 DEF TypeOK, WindowsAreLong
    <3>. QED  BY <3>1, <3>2, <3>3, <3>4
  <2>. QED  BY <2>1, <2>2 DEF WindowsAreLong
<1>7. CASE UNCHANGED vars
  BY <1>7 DEF vars, OnlyRedisWaits, WindowsAreLong
<1>. QED  BY <1>1, <1>2, <1>3, <1>4, <1>5, <1>6, <1>7 DEF Next

THEOREM Invariance == Spec => []IInv
<1>1. IInv /\ [Next]_vars => OnlyRedisWaits' /\ WindowsAreLong'
  BY StepInvariant
<1>. QED  BY <1>1, InitInvariant, TypeCorrect, PTL DEF Spec, IInv

-----------------------------------------------------------------------------
(* Whichever backend keeps the counters and however its commands           *)
(* interleave, hits are counted in windows that last at least              *)
(* rate_limit_window_seconds: RateLimiter implements FixedWindow.          *)
THEOREM RefinesWindows == Spec => ImplementsWindows
<1>. DEFINE shown == [c \in Clients |-> IF Open(c) THEN count[c] ELSE 0]
<1>. USE BasicTypes
<1>1. Init => Windows!Init
  BY DEF Init, Windows!Init, Open
<1>2. IInv /\ [Next]_vars => [Windows!Next]_(Windows!vars)
  <2>. SUFFICES ASSUME IInv, [Next]_vars PROVE [Windows!Next]_(Windows!vars)
    OBVIOUS
  <2>1. ASSUME NEW r \in Requests, NEW c \in Clients, Incr(r, c)
        PROVE  Windows!Hit(c)
    <3>1. backend = "redis" /\ backend' = "redis" /\ c \in Clients
          /\ count' = [count EXCEPT ![c] = Incremented(@)]
          /\ age' = [age EXCEPT ![c] = IF count[c] = 0 THEN 0 ELSE @]
      BY <2>1 DEF Incr
    <3>2. count \in [Clients -> Counts] /\ count' \in [Clients -> Counts]
      BY <3>1, IncrementedType DEF IInv, TypeOK
    <3>3. \A d \in Clients : shown[d] = count[d] /\ shown'[d] = count'[d]
      BY <3>1, <3>2 DEF Open, Counts
    <3>4. shown = count /\ shown' = count'
      BY <3>2, <3>3
    <3>. QED  BY <3>1, <3>4 DEF Windows!Hit, Windows!Full, Incremented, Full, IInv, TypeOK
  <2>2. ASSUME NEW r \in Requests, ReadTtl(r) \/ ReadNoTtl(r) \/ Die(r)
        PROVE  UNCHANGED Windows!vars
    BY <2>2 DEF ReadTtl, ReadNoTtl, Die, Windows!vars, Open
  <2>3. ASSUME NEW r \in Requests, Expire(r)
        PROVE  UNCHANGED Windows!vars
    <3>1. backend = "redis" /\ UNCHANGED <<backend, count, age>>
      BY <2>3 DEF Expire, IInv, OnlyRedisWaits, TypeOK
    <3>. QED  BY <3>1 DEF Windows!vars, Open
  <2>4. ASSUME NEW c \in Clients, HitMemory(c)
        PROVE  Windows!Hit(c)
    <3>1. shown[c] = Found(c).count /\ (shown[c] = 0) = (left[c] = 0)
          /\ Found(c).count \in Counts /\ Found(c).left > 0
      BY <2>4 DEF HitMemory, Found, Open, IInv, TypeOK, WindowsAreLong, Counts
    <3>2. \A d \in Clients : d # c => shown'[d] = shown[d]
      BY <2>4 DEF HitMemory, Open, IInv, TypeOK
    <3>3. shown'[c] = Incremented(shown[c])
      BY <2>4, <3>1, IncrementedType DEF HitMemory, Open, IInv, TypeOK
    <3>4. shown' = [shown EXCEPT ![c] = IF @ = Full THEN Full ELSE @ + 1]
      BY <3>2, <3>3 DEF Incremented
    <3>5. age' = [age EXCEPT ![c] = IF shown[c] = 0 THEN 0 ELSE @]
      BY <2>4, <3>1 DEF HitMemory
    <3>. QED  BY <3>4, <3>5 DEF Windows!Hit, Windows!Full, Full
  <2>5. ASSUME Restart PROVE Windows!Forget
    BY <2>5 DEF Restart, Windows!Forget, Open
  <2>6. ASSUME Tick PROVE Windows!Elapse
    <3>. DEFINE over == {c \in Clients : Ends(c)}
    <3>1. age' = [c \in Clients |-> IF age[c] = Window THEN Window ELSE age[c] + 1]
      BY <2>6 DEF Tick
    <3>2. \A c \in over : age'[c] = Window
      <4>1. ASSUME NEW c \in over
            PROVE  age'[c] = Window
        <5>1. age[c] \in 0..Window /\ age[c] + 1 >= Window
          BY DEF Ends, IInv, TypeOK, WindowsAreLong
        <5>. QED  BY <3>1, <5>1
      <4>. QED  BY <4>1
    <3>3. \A c \in Clients : shown'[c] = IF c \in over THEN 0 ELSE shown[c]
      BY <2>6 DEF Tick, Ends, Open, IInv, TypeOK, WindowsAreLong, Counts
    <3>4. over \in SUBSET {c \in Clients : age'[c] = Window}
      BY <3>2
    <3>5. shown' = [c \in Clients |-> IF c \in over THEN 0 ELSE shown[c]]
      BY <3>3
    <3>. QED  BY <3>1, <3>4, <3>5 DEF Windows!Elapse
  <2>7. CASE UNCHANGED vars
    BY <2>7 DEF vars, Windows!vars, Open
  <2>. QED  BY <2>1, <2>2, <2>3, <2>4, <2>5, <2>6, <2>7 DEF Next, Windows!Next
<1>. QED  BY <1>1, <1>2, Invariance, PTL DEF Spec, ImplementsWindows, Windows!Spec

-----------------------------------------------------------------------------
(* A client that waits as long as Retry-After says is early by less than a *)
(* second, whichever way the backend rounds (rate_limit.py:42, :53).       *)
THEOREM AdviceIsFair == Spec => []RetryAfterFits
<1>. DEFINE AInv == RetryAfterFits /\ AdviceHasEnd
<1>1. Init => AInv
  BY DEF Init, RetryAfterFits, AdviceHasEnd
<1>2. TypeOK /\ TypeOK' /\ AInv /\ [Next]_vars => AInv'
  <2>. SUFFICES ASSUME TypeOK, TypeOK', AInv, [Next]_vars PROVE AInv'
    OBVIOUS
  <2>. DEFINE Fits(c) == /\ wait[c] # NoWait => left[c] <= wait[c] + TicksPerSecond - 1
                         /\ left[c] = 0 => wait[c] = NoWait
  <2>1. \A c \in Clients : Fits(c)
    BY DEF RetryAfterFits, AdviceHasEnd
  <2>2. TicksPerSecond \in Nat \ {0} /\ NoWait = -1
        /\ Window \in Nat \ {0}
    BY ConstantTypes DEF NoWait
  <2>3. \A c \in Clients : left[c] \in 0..Window /\ wait[c] \in Nat \cup {NoWait}
    BY DEF TypeOK
  <2>4. ASSUME NEW r \in Requests, ReadTtl(r), NEW c \in Clients PROVE Fits(c)'
    <3>1. left[who[r]] > 0 /\ left' = left /\ who[r] \in Clients
          /\ Advise(who[r], current[r], NearestSeconds(left[who[r]]))
      BY <2>4, <2>3 DEF ReadTtl, MissingTtl, TypeOK
    <3>2. \/ wait'[c] = wait[c]
          \/ /\ c = who[r]
             /\ wait'[c] = RetryAfter(NearestSeconds(left[c])) * TicksPerSecond
      <4>1. CASE c = who[r]
        BY <3>1, <4>1, <2>3 DEF Advise, TypeOK
      <4>2. CASE c # who[r]
        BY <3>1, <4>2, <2>3 DEF Advise, TypeOK
      <4>. QED  BY <4>1, <4>2
    <3>3. CASE wait'[c] = wait[c]
      BY <3>1, <3>3, <2>1
    <3>4. CASE c = who[r] /\ wait'[c] = RetryAfter(NearestSeconds(left[c])) * TicksPerSecond
      <4>1. left[c] <= RetryAfter(NearestSeconds(left[c])) * TicksPerSecond + TicksPerSecond - 1
        BY <2>3, AdviceFits
      <4>. QED  BY <3>1, <3>4, <4>1
    <3>. QED  BY <3>2, <3>3, <3>4
  <2>5. ASSUME NEW r \in Requests, Expire(r), NEW c \in Clients PROVE Fits(c)'
    <3>1. CASE c # who[r]
      BY <2>5, <3>1, <2>1 DEF Expire, TypeOK
    <3>2. CASE c = who[r]
      <4>1. \/ wait'[c] = NoWait
            \/ /\ left'[c] = Window
               /\ wait'[c] = RetryAfter(WindowSeconds) * TicksPerSecond
        BY <2>5, <3>2 DEF Expire, NewTtl, TypeOK, Counts
      <4>2. Window \in 0..Window
        BY <2>2
      <4>. QED  BY <4>1, <4>2, <2>2, AdviceFits
    <3>. QED  BY <3>1, <3>2
  <2>6. ASSUME NEW d \in Clients, HitMemory(d), NEW c \in Clients PROVE Fits(c)'
    <3>1. CASE c # d
      BY <2>6, <3>1, <2>1 DEF HitMemory, Advise, TypeOK
    <3>2. CASE c = d
      <4>1. Found(c).left \in 0..Window /\ Found(c).left > 0
            /\ left'[c] = Found(c).left
        BY <2>6, <3>2, <2>2, <2>3 DEF HitMemory, Found, TypeOK
      <4>2. \/ wait'[c] = wait[c]
            \/ wait'[c] = RetryAfter(WholeSeconds(left'[c])) * TicksPerSecond
        BY <2>6, <3>2, <4>1 DEF HitMemory, Advise, TypeOK
      <4>3. left[c] = 0 \/ left'[c] = left[c]
        BY <2>6, <3>2, <4>1 DEF Found
      <4>4. CASE wait'[c] = wait[c]
        BY <4>1, <4>3, <4>4, <2>1, <2>2, <2>3
      <4>5. CASE wait'[c] = RetryAfter(WholeSeconds(left'[c])) * TicksPerSecond
        BY <4>1, <4>5, AdviceFits
      <4>. QED  BY <4>2, <4>4, <4>5
    <3>. QED  BY <3>1, <3>2
  <2>7. ASSUME Restart, NEW c \in Clients PROVE Fits(c)'
    BY <2>7 DEF Restart
  <2>8. ASSUME Tick, NEW c \in Clients PROVE Fits(c)'
    <3>1. /\ left'[c] = IF left[c] = 0 THEN 0 ELSE left[c] - 1
          /\ wait'[c] = IF left[c] = 1 THEN NoWait
                        ELSE IF wait[c] > 0 THEN wait[c] - 1 ELSE wait[c]
      BY <2>8 DEF Tick, Ends
    <3>. QED  BY <3>1, <2>1, <2>2, <2>3
  <2>9. ASSUME UNCHANGED <<left, wait>>, NEW c \in Clients PROVE Fits(c)'
    BY <2>9, <2>1
  <2>10. \A c \in Clients : Fits(c)'
    <3>1. ASSUME NEW r \in Requests, NEW c \in Clients,
                 Incr(r, c) \/ ReadNoTtl(r) \/ Die(r) \/ UNCHANGED vars
          PROVE  UNCHANGED <<left, wait>>
      BY <3>1 DEF Incr, ReadNoTtl, Die, vars
    <3>2. UNCHANGED vars => UNCHANGED <<left, wait>>
      BY DEF vars
    <3>. QED  BY <2>4, <2>5, <2>6, <2>7, <2>8, <2>9, <3>1, <3>2 DEF Next
  <2>. QED  BY <2>10 DEF RetryAfterFits, AdviceHasEnd
<1>3. AInv => RetryAfterFits
  OBVIOUS
<1>. HIDE DEF AInv
<1>. QED  BY <1>1, <1>2, <1>3, TypeCorrect, PTL DEF Spec

-----------------------------------------------------------------------------
(* The rate.                                                               *)

\* A hit of client c, in a window of its own or in the one that is open.
HitCounts(c) ==
    /\ Open(c)'
    /\ count'[c] = Incremented(IF Open(c) THEN count[c] ELSE 0)
    /\ age'[c] = IF Open(c) THEN age[c] ELSE 0
    /\ recent'[c] = IF Granted(count'[c])
                    THEN [k \in 0..(Window - 1) |-> recent[c][k] + 1]
                    ELSE recent[c]

\* A granted hit is one more of the open window, and opens it when there was
\* none: then all hits before it are of one window.
LEMMA HitStep ==
    ASSUME TypeOK, NEW c \in Clients, Counted(c), HitCounts(c)
    PROVE  Counted(c)'
<1>1. /\ Limit \in Nat /\ Limit > 0 /\ Full = Limit + 1 /\ Window \in Nat /\ Window > 0
      /\ count[c] \in 0..Full /\ age[c] \in 0..Window
      /\ recent[c] \in [0..(Window - 1) -> Nat]
  BY BasicTypes DEF TypeOK, Counts
<1>2. Open(c) => count[c] > 0
  BY DEF Open
<1>3. CASE Open(c)
  <2>1. count'[c] = (IF count[c] = Full THEN Full ELSE count[c] + 1) /\ age'[c] = age[c]
    BY <1>3 DEF HitCounts, Incremented
  <2>. SUFFICES ASSUME NEW k \in 0..(Window - 1)
                PROVE  recent'[c][k] <= InWindow(c)' + (IF k <= age'[c] THEN 0 ELSE Limit)
    BY DEF HitCounts, Counted
  <2>2. recent[c][k] <= InWindow(c) + (IF k <= age[c] THEN 0 ELSE Limit)
    BY <1>3 DEF Counted
  <2>3. recent'[c][k] = IF count'[c] <= Limit THEN recent[c][k] + 1 ELSE recent[c][k]
    BY DEF HitCounts, Granted
  <2>4. recent[c][k] \in Nat
    BY <1>1
  <2>. QED  BY <1>1, <2>1, <2>2, <2>3, <2>4 DEF InWindow
<1>4. CASE ~ Open(c)
  <2>1. count'[c] = 1 /\ age'[c] = 0
    BY <1>1, <1>4 DEF HitCounts, Incremented
  <2>. SUFFICES ASSUME NEW k \in 0..(Window - 1)
                PROVE  recent'[c][k] <= InWindow(c)' + (IF k <= age'[c] THEN 0 ELSE Limit)
    BY DEF HitCounts, Counted
  <2>2. recent[c][0] = 0 /\ recent[c][k] <= Limit
    BY <1>4 DEF Counted
  <2>3. recent'[c][k] = recent[c][k] + 1
    BY <1>1, <2>1 DEF HitCounts, Granted
  <2>4. recent[c][k] \in Nat
    BY <1>1
  <2>. QED  BY <1>1, <2>1, <2>2, <2>3, <2>4 DEF InWindow
<1>. QED  BY <1>3, <1>4

\* What was granted k ticks ago was k - 1 ticks ago a tick before, and a
\* window that ends is as old as the span.
LEMMA TickStep ==
    ASSUME TypeOK, WindowsAreLong, Tick, NEW c \in Clients, Counted(c)
    PROVE  Counted(c)'
<1>1. /\ Limit \in Nat /\ Window \in Nat /\ Window > 0 /\ Full = Limit + 1
      /\ count[c] \in 0..Full /\ age[c] \in 0..Window /\ left[c] \in 0..Window
      /\ recent[c] \in [0..(Window - 1) -> Nat]
  BY BasicTypes DEF TypeOK, Counts
<1>2. /\ left'[c] = IF left[c] = 0 THEN 0 ELSE left[c] - 1
      /\ count'[c] = IF left[c] = 1 /\ backend = "redis" THEN 0 ELSE count[c]
      /\ age'[c] = IF age[c] = Window THEN Window ELSE age[c] + 1
      /\ recent'[c] = [k \in 0..(Window - 1) |-> IF k = 0 THEN 0 ELSE recent[c][k - 1]]
      /\ backend' = backend
  BY DEF Tick, Ends
<1>3. recent'[c][0] = 0 /\ \A k \in 1..(Window - 1) : recent'[c][k] = recent[c][k - 1]
  BY <1>1, <1>2
<1>4. left[c] = 1 => age[c] >= Window - 1
  BY <1>1 DEF WindowsAreLong
<1>5. backend \in {"redis", "memory"}
  BY DEF TypeOK
<1>6. CASE Open(c) /\ Open(c)'
  <2>1. count'[c] = count[c]
    BY <1>2, <1>6 DEF Open
  <2>2. ASSUME NEW k \in 1..(Window - 1)
        PROVE  recent'[c][k] <= InWindow(c)' + (IF k <= age'[c] THEN 0 ELSE Limit)
    <3>1. recent[c][k - 1] <= InWindow(c) + (IF k - 1 <= age[c] THEN 0 ELSE Limit)
      BY <1>1, <1>6 DEF Counted
    <3>2. k - 1 <= age[c] <=> k <= age'[c]
      BY <1>1, <1>2
    <3>3. InWindow(c)' = InWindow(c)
      BY <2>1 DEF InWindow
    <3>. QED  BY <1>3, <3>1, <3>2, <3>3
  <2>3. InWindow(c)' >= 0 /\ InWindow(c)' \in Int
    BY <1>1, <2>1 DEF InWindow
  <2>. QED  BY <1>1, <1>3, <1>6, <2>2, <2>3 DEF Counted
<1>7. CASE ~ Open(c)'
  <2>1. ASSUME NEW k \in 1..(Window - 1)
        PROVE  recent[c][k - 1] <= Limit
    <3>1. CASE ~ Open(c)
      BY <1>1, <3>1 DEF Counted
    <3>2. CASE Open(c)
      <4>1. left[c] = 1
        BY <1>1, <1>2, <1>5, <1>7, <3>2 DEF Open
      <4>2. k - 1 <= age[c] /\ k - 1 \in 0..(Window - 1)
        BY <1>1, <1>4, <4>1
      <4>3. recent[c][k - 1] <= InWindow(c)
        BY <1>1, <3>2, <4>2 DEF Counted, InWindow
      <4>. QED  BY <1>1, <4>2, <4>3 DEF InWindow
    <3>. QED  BY <3>1, <3>2
  <2>2. ASSUME NEW k \in 0..(Window - 1)
        PROVE  recent'[c][k] <= Limit
    <3>1. CASE k = 0
      BY <1>1, <1>3, <3>1
    <3>2. CASE k # 0
      <4>1. k \in 1..(Window - 1)
        BY <1>1, <3>2
      <4>. QED  BY <1>3, <2>1, <4>1
    <3>. QED  BY <3>1, <3>2
  <2>. QED  BY <1>3, <1>7, <2>2 DEF Counted
<1>8. CASE ~ Open(c) /\ Open(c)'
  BY <1>1, <1>2, <1>5, <1>8 DEF Open
<1>. QED  BY <1>6, <1>7, <1>8

LEMMA CountedStep ==
    ASSUME IInv, GrantsAreCounted, [Next]_vars
    PROVE  GrantsAreCounted'
<1>. SUFFICES ASSUME (backend = "memory" => deaths = 0)', NEW c \in Clients
              PROVE  Counted(c)'
  BY DEF GrantsAreCounted
<1>1. TypeOK /\ OnlyRedisWaits /\ WindowsAreLong /\ backend \in {"redis", "memory"}
      /\ deaths \in Nat
  BY RateAssumption DEF IInv, TypeOK
<1>2. ASSUME UNCHANGED <<backend, deaths>>
      PROVE  Counted(c)
  BY <1>2 DEF GrantsAreCounted
<1>3. ASSUME Counted(c), UNCHANGED <<backend, count[c], left[c], age[c], recent[c]>>
      PROVE  Counted(c)'
  BY <1>3 DEF Counted, Open, InWindow
<1>4. ASSUME NEW r \in Requests, NEW d \in Clients, Incr(r, d) PROVE Counted(c)'
  <2>1. Counted(c) /\ UNCHANGED <<backend, left>> /\ backend = "redis"
    BY <1>2, <1>4 DEF Incr
  <2>2. /\ count' = [count EXCEPT ![d] = Incremented(@)]
        /\ age' = [age EXCEPT ![d] = IF count[d] = 0 THEN 0 ELSE @]
        /\ recent' = [recent EXCEPT ![d] =
                IF Granted(count'[d]) THEN [k \in 0..(Window - 1) |-> @[k] + 1] ELSE @]
    BY <1>4 DEF Incr, Record
  <2>3. CASE c # d
    BY <1>1, <1>3, <2>1, <2>2, <2>3 DEF TypeOK
  <2>4. CASE c = d
    <3>1. count[c] \in Counts /\ count'[c] = Incremented(count[c])
      BY <1>1, <2>2, <2>4 DEF TypeOK
    <3>2. count'[c] > 0 /\ (Open(c) <=> count[c] # 0)
      BY <2>1, <3>1, IncrementedType, BasicTypes DEF Open, Counts
    <3>3. /\ age'[c] = IF count[c] = 0 THEN 0 ELSE age[c]
          /\ recent'[c] = IF Granted(count'[c])
                          THEN [k \in 0..(Window - 1) |-> recent[c][k] + 1] ELSE recent[c]
      BY <1>1, <2>2, <2>4 DEF TypeOK
    <3>4. Open(c)'
      BY <2>1, <3>2 DEF Open
    <3>5. HitCounts(c)
      BY <3>1, <3>2, <3>3, <3>4 DEF HitCounts
    <3>. QED  BY <1>1, <2>1, <3>5, HitStep
  <2>. QED  BY <2>3, <2>4
<1>5. ASSUME NEW r \in Requests, ReadTtl(r) \/ ReadNoTtl(r) PROVE Counted(c)'
  <2>1. UNCHANGED <<backend, count, left, age, recent, deaths>>
    BY <1>5 DEF ReadTtl, ReadNoTtl
  <2>. QED  BY <1>2, <1>3, <2>1
<1>6. ASSUME NEW r \in Requests, Expire(r) PROVE Counted(c)'
  <2>1. backend = "redis" /\ UNCHANGED <<backend, count, deaths, age, recent>>
    BY <1>1, <1>6 DEF Expire, OnlyRedisWaits
  <2>. QED  BY <1>2, <2>1 DEF Counted, Open, InWindow
<1>7. ASSUME NEW r \in Requests, Die(r) PROVE Counted(c)'
  <2>1. backend = "redis" /\ UNCHANGED <<backend, count, left, age, recent>>
    BY <1>1, <1>7 DEF Die, OnlyRedisWaits
  <2>2. Counted(c)
    BY <2>1 DEF GrantsAreCounted
  <2>. QED  BY <1>3, <2>1, <2>2
<1>8. ASSUME NEW d \in Clients, HitMemory(d) PROVE Counted(c)'
  <2>1. Counted(c) /\ backend = "memory" /\ backend' = backend
    BY <1>2, <1>8 DEF HitMemory
  <2>2. CASE c # d
    <3>1. UNCHANGED <<backend, count[c], left[c], age[c], recent[c]>>
      BY <1>1, <1>8, <2>2 DEF HitMemory, Record, TypeOK
    <3>. QED  BY <1>3, <2>1, <3>1
  <2>3. CASE c = d
    <3>1. /\ count'[c] = Incremented(Found(c).count) /\ left'[c] = Found(c).left
          /\ age'[c] = IF left[c] = 0 THEN 0 ELSE age[c]
          /\ recent'[c] = IF Granted(count'[c])
                          THEN [k \in 0..(Window - 1) |-> recent[c][k] + 1] ELSE recent[c]
      BY <1>1, <1>8, <2>3 DEF HitMemory, Record, TypeOK
    <3>2. left[c] \in 0..Window /\ (left[c] > 0 => count[c] > 0) /\ count[c] \in Counts
      BY <1>1 DEF TypeOK, WindowsAreLong
    <3>3. Open(c) <=> left[c] # 0
      BY <2>1, <3>2, BasicTypes DEF Open
    <3>4. /\ Found(c).count = IF Open(c) THEN count[c] ELSE 0
          /\ Found(c).left > 0
      BY <3>2, <3>3, BasicTypes DEF Found
    <3>5. Found(c).count \in Counts
      BY <3>2, <3>4, BasicTypes DEF Counts
    <3>6. count'[c] > 0
      BY <3>1, <3>5, IncrementedType
    <3>7. Open(c)'
      BY <2>1, <3>1, <3>4, <3>6 DEF Open
    <3>8. HitCounts(c)
      BY <3>1, <3>3, <3>4, <3>7 DEF HitCounts
    <3>. QED  BY <1>1, <2>1, <3>8, HitStep
  <2>. QED  BY <2>2, <2>3
<1>9. CASE Restart
  BY <1>1, <1>9 DEF Restart
<1>10. CASE Tick
  <2>1. Counted(c)
    BY <1>2, <1>10 DEF Tick
  <2>. QED  BY <1>1, <1>10, <2>1, TickStep
<1>11. CASE UNCHANGED vars
  BY <1>2, <1>3, <1>11 DEF vars
<1>. QED  BY <1>4, <1>5, <1>6, <1>7, <1>8, <1>9, <1>10, <1>11 DEF Next

(* No client is granted more than twice the limit in a span of time as     *)
(* long as a window, whichever backend counts, whichever requests die      *)
(* between INCR and EXPIRE and however often the window is prolonged.      *)
THEOREM RateIsBounded == Spec => []RateHolds
<1>1. Init => GrantsAreCounted
  <2>1. ASSUME Init, NEW c \in Clients PROVE Counted(c)
    <3>1. ~ Open(c) /\ recent[c] = NothingRecent
      BY <2>1 DEF Init, Open
    <3>2. 0 \in 0..(Window - 1) /\ Limit >= 0
      BY BasicTypes
    <3>3. \A k \in 0..(Window - 1) : recent[c][k] = 0
      BY <3>1 DEF NothingRecent
    <3>. QED  BY <3>1, <3>2, <3>3 DEF Counted
  <2>. QED  BY <2>1 DEF GrantsAreCounted
<1>2. IInv /\ GrantsAreCounted /\ [Next]_vars => GrantsAreCounted'
  BY CountedStep
<1>3. IInv /\ GrantsAreCounted => RateHolds
  <2>. SUFFICES ASSUME IInv, GrantsAreCounted, backend = "memory" => deaths = 0,
                       NEW c \in Clients
                PROVE  recent[c][Window - 1] <= 2 * Limit
    BY DEF RateHolds
  <2>1. Counted(c) /\ Window - 1 \in 0..(Window - 1) /\ Limit \in Nat
    BY BasicTypes DEF GrantsAreCounted
  <2>2. InWindow(c) <= Limit /\ InWindow(c) \in Int /\ recent[c][Window - 1] \in Nat
    BY <2>1, BasicTypes DEF InWindow, IInv, TypeOK, Counts
  <2>3. CASE Open(c)
    <3>1. recent[c][Window - 1] <= InWindow(c) + (IF Window - 1 <= age[c] THEN 0 ELSE Limit)
      BY <2>1, <2>3 DEF Counted
    <3>. QED  BY <2>1, <2>2, <3>1
  <2>4. CASE ~ Open(c)
    BY <2>1, <2>2, <2>4 DEF Counted
  <2>. QED  BY <2>3, <2>4
<1>. QED  BY <1>1, <1>2, <1>3, Invariance, PTL DEF Spec

=============================================================================
