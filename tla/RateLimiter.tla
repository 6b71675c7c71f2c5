---------------------------- MODULE RateLimiter ----------------------------
(***************************************************************************)
(* The rate limit in front of every endpoint (rate_limit.py, main.py       *)
(* rate_limit_middleware): hits are counted per client in a window.  With  *)
(* a Redis URL the counter is a key with a time to live, updated by up to  *)
(* three commands (INCR, TTL, EXPIRE) between which other requests may     *)
(* come and the request may die; without one it is an entry of a           *)
(* dictionary of the process, updated in one go.  Time is in ticks,        *)
(* several to a second, since Retry-After is rounded to seconds.           *)
(*                                                                         *)
(* Requests for /health, /ready and /metrics, and all requests when the    *)
(* limit is switched off, change nothing and are left out.                 *)
(***************************************************************************)
EXTENDS Integers

CONSTANTS
    Clients,         \* the subjects: client addresses
    Requests,        \* slots for requests between INCR and their answer
    Limit,           \* rate_limit_requests, at least 1
    WindowSeconds,   \* rate_limit_window_seconds, at least 1
    TicksPerSecond,
    MaxDeaths        \* bound: requests that die, processes that restart

ASSUME RateAssumption ==
    /\ Limit \in Nat \ {0}
    /\ WindowSeconds \in Nat \ {0}
    /\ TicksPerSecond \in Nat \ {0}
    /\ MaxDeaths \in Nat

VARIABLES
    backend,    \* where the counters are: "redis" or "memory"
    count,      \* the counter of each client, 0 without key or entry
    left,       \* ticks until it ends; 0: no time to live (Redis), over (memory)
    pc,         \* where in _hit_redis a request is
    who,        \* its client
    current,    \* what INCR returned to it
    deaths,     \* requests that died, processes that were replaced
    \* History:
    age,        \* ticks since the window was opened, up to Window
    recent,     \* hits granted no more than so many ticks ago
    wait        \* what the last refusal in this window left to wait, or NoWait

vars == <<backend, count, left, pc, who, current, deaths, age, recent, wait>>

Window == WindowSeconds * TicksPerSecond

\* All counts above the limit are treated alike.
Full == Limit + 1
Counts == 0..Full
NoWait == -1
Points == {"idle", "ttl", "expire"}

TypeOK ==
    /\ backend \in {"redis", "memory"}
    /\ count \in [Clients -> Counts]
    /\ left \in [Clients -> 0..Window]
    /\ pc \in [Requests -> Points]
    /\ who \in [Requests -> Clients]
    /\ current \in [Requests -> Counts]
    /\ deaths \in 0..MaxDeaths
    /\ age \in [Clients -> 0..Window]
    /\ recent \in [Clients -> [0..(Window - 1) -> Nat]]
    /\ wait \in [Clients -> Nat \cup {NoWait}]

NothingRecent == [k \in 0..(Window - 1) |-> 0]

\* initialize() opens a Redis connection when there is a URL for it.
Init ==
    /\ backend \in {"redis", "memory"}
    /\ count = [c \in Clients |-> 0]
    /\ left = [c \in Clients |-> 0]
    /\ pc = [r \in Requests |-> "idle"]
    /\ who \in {[r \in Requests |-> c] : c \in Clients}
    /\ current = [r \in Requests |-> 0]
    /\ deaths = 0
    /\ age = [c \in Clients |-> 0]
    /\ recent = [c \in Clients |-> NothingRecent]
    /\ wait = [c \in Clients |-> NoWait]

-----------------------------------------------------------------------------
(* Counting and advice.                                                    *)

Larger(m, n) == IF m > n THEN m ELSE n

Incremented(n) == IF n = Full THEN Full ELSE n + 1

Granted(n) == n <= Limit

\* A window is open: there is a key, or an entry that is not over.
Open(c) == count[c] > 0 /\ (backend = "memory" => left[c] > 0)

\* Redis rounds a time to live to the nearest second; the dictionary's
\* remaining time is truncated.  Neither answer is below one second.
NearestSeconds(ticks) == (2 * ticks + TicksPerSecond) \div (2 * TicksPerSecond)
WholeSeconds(ticks) == ticks \div TicksPerSecond

\* Mutant: the bound is taken from the wrong side.
RetryAfterMin(seconds) == IF seconds < 1 THEN seconds ELSE 1

RetryAfter(seconds) == Larger(seconds, 1)

\* A hit that was given the number n is answered: a client that is refused
\* is told to wait.
Advise(c, n, seconds) ==
    wait' = [wait EXCEPT ![c] =
                IF Granted(n) THEN @ ELSE RetryAfter(seconds) * TicksPerSecond]

\* A granted hit, for the record.
Record(c, n) ==
    recent' = [recent EXCEPT ![c] =
                  IF Granted(n) THEN [k \in 0..(Window - 1) |-> @[k] + 1] ELSE @]

-----------------------------------------------------------------------------
(* _hit_redis.                                                             *)

\* INCR creates the key when there is none, without a time to live.
Incr(r, c) ==
    /\ backend = "redis"
    /\ pc[r] = "idle"
    /\ count' = [count EXCEPT ![c] = Incremented(@)]
    /\ current' = [current EXCEPT ![r] = count'[c]]
    /\ who' = [who EXCEPT ![r] = c]
    /\ pc' = [pc EXCEPT ![r] = "ttl"]
    /\ age' = [age EXCEPT ![c] = IF count[c] = 0 THEN 0 ELSE @]
    /\ Record(c, count'[c])
    /\ UNCHANGED <<backend, left, deaths, wait>>

\* Mutant: only the hit that opens a window sets the time to live.
MissingTtlFirst(r) == current[r] = 1

\* What sends a request on to EXPIRE: it is the first of its window, or TTL
\* is negative, since the key has no time to live or has gone meanwhile.
MissingTtl(r) == current[r] = 1 \/ left[who[r]] = 0

\* Whoever has been answered is out of sight.
Done(r) ==
    /\ pc' = [pc EXCEPT ![r] = "idle"]
    /\ current' = [current EXCEPT ![r] = 0]

\* TTL, and the window has its end already: the answer is clear.
ReadTtl(r) ==
    /\ pc[r] = "ttl"
    /\ ~ MissingTtl(r)
    /\ Done(r)
    /\ Advise(who[r], current[r], NearestSeconds(left[who[r]]))
    /\ UNCHANGED <<backend, count, left, who, deaths, age, recent>>

\* TTL, and the end of the window is to be set.
ReadNoTtl(r) ==
    /\ pc[r] = "ttl"
    /\ MissingTtl(r)
    /\ pc' = [pc EXCEPT ![r] = "expire"]
    /\ UNCHANGED <<backend, count, left, who, current, deaths, age, recent, wait>>

\* Mutant: the end is set a second early.
NewTtlShort == Window - TicksPerSecond

\* Mutant: the window is one tick too long.
NewTtlLong == Window + 1

\* The time to live EXPIRE gives a key.
NewTtl == Window

\* EXPIRE does nothing to a key that is gone, and prolongs a window whose
\* end somebody else has set.  Whoever had been told when to come back was
\* told too little then.
Expire(r) ==
    LET c == who[r]
    IN  /\ pc[r] = "expire"
        /\ left' = [left EXCEPT ![c] = IF count[c] > 0 THEN NewTtl ELSE 0]
        /\ Done(r)
        /\ wait' = [wait EXCEPT ![c] =
                       IF Granted(current[r]) \/ count[c] = 0
                       THEN NoWait
                       ELSE RetryAfter(WindowSeconds) * TicksPerSecond]
        /\ UNCHANGED <<backend, count, who, deaths, age, recent>>

\* A command raises, or the process ends: the answer is an error, if any.
Die(r) ==
    /\ pc[r] # "idle"
    /\ deaths < MaxDeaths
    /\ deaths' = deaths + 1
    /\ Done(r)
    /\ UNCHANGED <<backend, count, left, who, age, recent, wait>>

-----------------------------------------------------------------------------
(* _hit_memory, and the process that keeps the dictionary.                 *)

\* Mutant: a window that is over starts again without a reset of its count.
FoundUnreset(c) == [count |-> count[c], left |-> IF left[c] = 0 THEN Window ELSE left[c]]

\* The entry a hit finds: a new one where there is none or it is over.
Found(c) ==
    IF left[c] = 0 THEN [count |-> 0, left |-> Window]
    ELSE [count |-> count[c], left |-> left[c]]

HitMemory(c) ==
    LET entry == Found(c)
        n == Incremented(entry.count)
    IN  /\ backend = "memory"
        /\ count' = [count EXCEPT ![c] = n]
        /\ left' = [left EXCEPT ![c] = entry.left]
        /\ age' = [age EXCEPT ![c] = IF left[c] = 0 THEN 0 ELSE @]
        /\ Record(c, n)
        /\ Advise(c, n, WholeSeconds(entry.left))
        /\ UNCHANGED <<backend, pc, who, current, deaths>>

\* The process is replaced: its dictionary is gone.
Restart ==
    /\ backend = "memory"
    /\ deaths < MaxDeaths
    /\ deaths' = deaths + 1
    /\ count' = [c \in Clients |-> 0]
    /\ left' = [c \in Clients |-> 0]
    /\ wait' = [c \in Clients |-> NoWait]
    /\ UNCHANGED <<backend, pc, who, current, age, recent>>

-----------------------------------------------------------------------------
(* Time.                                                                   *)

\* The window of c ends with the next tick.
Ends(c) == left[c] = 1

\* Redis deletes a key whose time has come; an entry of the dictionary
\* stays, and is found to be over by the next hit.
Tick ==
    /\ left' = [c \in Clients |-> IF left[c] = 0 THEN 0 ELSE left[c] - 1]
    /\ count' = [c \in Clients |->
                    IF Ends(c) /\ backend = "redis" THEN 0 ELSE count[c]]
    /\ age' = [c \in Clients |-> IF age[c] = Window THEN Window ELSE age[c] + 1]
    /\ recent' = [c \in Clients |->
                     [k \in 0..(Window - 1) |->
                         IF k = 0 THEN 0 ELSE recent[c][k - 1]]]
    /\ wait' = [c \in Clients |->
                   IF Ends(c) THEN NoWait
                   ELSE IF wait[c] > 0 THEN wait[c] - 1 ELSE wait[c]]
    /\ UNCHANGED <<backend, pc, who, current, deaths>>

Next ==
    \/ \E r \in Requests :
          \/ \E c \in Clients : Incr(r, c)
          \/ ReadTtl(r) \/ ReadNoTtl(r) \/ Expire(r) \/ Die(r)
    \/ \E c \in Clients : HitMemory(c)
    \/ Restart
    \/ Tick

Spec == Init /\ [][Next]_vars

\* Time passes, and a request that has not died takes its next step.
Fairness ==
    /\ WF_vars(Tick)
    /\ \A r \in Requests : WF_vars(ReadTtl(r) \/ ReadNoTtl(r) \/ Expire(r))

FairSpec == Spec /\ Fairness

-----------------------------------------------------------------------------
(* Properties.                                                             *)

(* However hits, deaths and late EXPIREs interleave, a client is granted   *)
(* no more than two windows' worth of hits in any span of time as long as  *)
(* a window, one window ending and the next beginning within it; unless    *)
(* the process with the dictionary has been replaced meanwhile.            *)
RateHolds ==
    (backend = "memory" => deaths = 0) =>
        \A c \in Clients : recent[c][Window - 1] <= 2 * Limit

(* A client that is refused and waits as long as Retry-After says comes    *)
(* back less than a second too early, although one backend rounds and the  *)
(* other truncates; unless a request that had been counted before sets the *)
(* end of the window once more.                                            *)
RetryAfterFits ==
    \A c \in Clients :
        wait[c] # NoWait => left[c] <= wait[c] + TicksPerSecond - 1

\* The next hit of the client would be refused.
Blocked(c) == Open(c) /\ count[c] >= Limit

Calls(c) == \E r \in Requests : pc[r] = "ttl" /\ who[r] = c

(* A client that keeps calling is admitted again and again: a key that has *)
(* lost its time to live, since the request that was to set it has died,   *)
(* gets one from a later hit, and late EXPIREs do not keep the window open *)
(* for ever.                                                               *)
CallersAreAdmitted ==
    \A c \in Clients :
        []<>(backend = "memory" \/ Calls(c)) => []<>(~ Blocked(c))

Windows ==
    INSTANCE FixedWindow WITH Length <- Window,
                              hits <- [c \in Clients |-> IF Open(c) THEN count[c] ELSE 0]

(* Counters in Redis, with the three commands of several requests mixed    *)
(* and some of them dead, and counters in memory both count hits in        *)
(* windows that last at least rate_limit_window_seconds.                   *)
ImplementsWindows == Windows!Spec

-----------------------------------------------------------------------------
(* What makes the properties inductive.                                    *)

\* Only _hit_redis has steps in between.
OnlyRedisWaits == backend = "memory" => \A r \in Requests : pc[r] = "idle"

\* A window with an end lasts its full length from the hit that opened it.
WindowsAreLong ==
    \A c \in Clients : left[c] > 0 => count[c] > 0 /\ age[c] + left[c] >= Window

\* Nobody has been told to wait for a window without an end.
AdviceHasEnd == \A c \in Clients : left[c] = 0 => wait[c] = NoWait

\* Hits granted in the window that is open.
InWindow(c) == IF count[c] > Limit THEN Limit ELSE count[c]

\* Of the hits granted no more than k ticks ago, those since the window was
\* opened are counted by it, and those before are all of one window.  When
\* none is open the last one has begun long ago, and no hit is granted in a
\* tick before the next is opened.
Counted(c) ==
    /\ Open(c) => \A k \in 0..(Window - 1) :
           recent[c][k] <= InWindow(c) + (IF k <= age[c] THEN 0 ELSE Limit)
    /\ ~ Open(c) => /\ recent[c][0] = 0
                    /\ \A k \in 0..(Window - 1) : recent[c][k] <= Limit

GrantsAreCounted ==
    (backend = "memory" => deaths = 0) => \A c \in Clients : Counted(c)

=============================================================================
