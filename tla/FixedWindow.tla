---------------------------- MODULE FixedWindow ----------------------------
(***************************************************************************)
(* What a rate limit promises, whichever store keeps the counters: the     *)
(* hits of a client are counted in windows, a window opens with the hit    *)
(* that finds none open, and closes no sooner than Length ticks later.     *)
(* Nothing is said of how much later.  RateLimiter implements it.          *)
(***************************************************************************)
EXTENDS Integers

CONSTANTS
    Clients,
    Limit,     \* hits a window admits
    Length     \* ticks a window lasts at least

VARIABLES
    hits,      \* hits of the open window, 0 without one; all above Limit alike
    age        \* ticks since the window was opened, up to Length

vars == <<hits, age>>

Full == Limit + 1

Init ==
    /\ hits = [c \in Clients |-> 0]
    /\ age = [c \in Clients |-> 0]

Hit(c) ==
    /\ hits' = [hits EXCEPT ![c] = IF @ = Full THEN Full ELSE @ + 1]
    /\ age' = [age EXCEPT ![c] = IF hits[c] = 0 THEN 0 ELSE @]

\* A tick, after which any of the windows that are old enough may be over.
Elapse ==
    /\ age' = [c \in Clients |-> IF age[c] = Length THEN Length ELSE age[c] + 1]
    /\ \E over \in SUBSET {c \in Clients : age'[c] = Length} :
          hits' = [c \in Clients |-> IF c \in over THEN 0 ELSE hits[c]]

\* The process that kept the counters is replaced.
Forget ==
    /\ hits' = [c \in Clients |-> 0]
    /\ UNCHANGED age

Next == Elapse \/ Forget \/ \E c \in Clients : Hit(c)

Spec == Init /\ [][Next]_vars

=============================================================================
