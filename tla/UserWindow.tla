----------------------------- MODULE UserWindow -----------------------------
(***************************************************************************)
(* The throttle of one user (rate-limiter/user-throttle.ts) over its Redis *)
(* script (redis/index.ts, LUA_USER_THROTTLE): a sorted set of sends,      *)
(* scored by when they go out, pruned and expired as time passes. A send   *)
(* may be booked for later, or be late: decided after its own send time.   *)
(***************************************************************************)
EXTENDS Integers, Sequences, FiniteSets

CONSTANTS
    Messages,      \* the idempotency keys the engine counts under
    UserLimit,     \* limit
    Span,          \* windowMs
    LastTime,      \* bound: the clock stops here
    MaxPassed      \* bound: sends let through

ASSUME UserWindowAssumption ==
    /\ UserLimit \in Nat
    /\ Span \in Nat \ {0}
    /\ LastTime \in Nat
    /\ MaxPassed \in Nat

VARIABLES
    time,          \* Date.now()
    counted,       \* the sorted set: messages with a score
    score,         \* score[m], meaningful for m \in counted
    expiry,        \* when the key expires
    passed         \* history: the sends let through, in order: when they go out,
                   \* and whether they were decided late

userWindowVars == <<time, counted, score, expiry, passed>>

Times == 0..LastTime

UserWindowTypeOK ==
    /\ time \in Times
    /\ counted \subseteq Messages
    /\ score \in [Messages -> Times]
    /\ expiry \in 0..(LastTime + Span)
    /\ passed \in Seq([at : Times, late : BOOLEAN])

UserWindowInit ==
    /\ time = 0
    /\ counted = {}
    /\ score = [m \in Messages |-> 0]
    /\ expiry = 0
    /\ passed = << >>

\* The clock, and with it the expiry of the key.
Later ==
    /\ time < LastTime
    /\ time' = time + 1
    /\ counted' = IF time + 1 >= expiry THEN {} ELSE counted
    /\ UNCHANGED <<score, expiry, passed>>

\* Prune, look for the message, count its window, add it: one script.
Kept(now)         == {m \in counted : score[m] > now - Span}
CountedIn(ms, at)  == {m \in ms : score[m] > at - Span /\ score[m] <= at}
KeyLife(now, at)  == IF at > now THEN at + Span ELSE now + Span

Throttled(m, at) ==
    /\ IF m \in Kept(time) \/ Cardinality(CountedIn(Kept(time), at)) >= UserLimit
       THEN counted' = Kept(time) /\ UNCHANGED <<score, expiry, passed>>
       ELSE /\ counted' = Kept(time) \cup {m}
            /\ score' = [score EXCEPT ![m] = at]
            /\ expiry' = IF expiry < KeyLife(time, at) THEN KeyLife(time, at) ELSE expiry
            /\ passed' = Append(passed, [at |-> at, late |-> at < time])
    /\ UNCHANGED time

\* check() for a send now, for later, or whose time has come and gone.
CheckUser(m, at) ==
    /\ Len(passed) < MaxPassed
    /\ Throttled(m, at)

UserWindowNext ==
    \/ Later
    \/ \E m \in Messages, at \in Times : CheckUser(m, at)

UserWindowSpec == UserWindowInit /\ [][UserWindowNext]_userWindowVars

(***************************************************************************)
(* Properties                                                              *)
(***************************************************************************)

\* A send that was let through is one of at most UserLimit in the window that
\* ends with it, of those let through before it: pruning, expiry and booking
\* ahead never lose one that counts. A message decided after its own send time
\* is the exception: it may be pruned before the next is counted.
WindowKept ==
    \A i \in 1..Len(passed) :
        \/ \E j \in 1..i : passed[j].late
        \/ Cardinality({j \in 1..i : /\ passed[j].at > passed[i].at - Span
                                     /\ passed[j].at <= passed[i].at}) <= UserLimit
=============================================================================
