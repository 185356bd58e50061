------------------------------- MODULE Tokens -------------------------------
(***************************************************************************)
(* The rate limiter of API requests and of provider sends                  *)
(* (rate-limiter/api-rate-limiter.ts, services/delivery/throttle.ts) over  *)
(* its Redis script (redis/index.ts). Every process leases tokens of the   *)
(* current window in batches and spends them in memory. A lease may come   *)
(* back after its window has ended; the window may turn under a waiter.    *)
(*                                                                         *)
(* One key. Time is in ticks, WindowTicks of them make a window.           *)
(***************************************************************************)
EXTENDS Integers, FiniteSets

CONSTANTS
    Processes,
    Requests,      \* calls of check(): 1..n, made in this order
    RequestOf,     \* [Requests -> Processes]
    Limits,        \* limits to consider
    WindowTicks,
    LastWindow,    \* bound: the clock stops at the end of this window
    MaxOutages     \* bound: leases that fail

ASSUME TokensAssumption ==
    /\ Limits \subseteq Nat \ {0}
    /\ WindowTicks \in Nat \ {0}
    /\ LastWindow \in Nat
    /\ MaxOutages \in Nat
    /\ RequestOf \in [Requests -> Processes]

VARIABLES
    limit,         \* limitRpm, the requests of one window
    tick,          \* Date.now()
    spent,         \* the counter of each window in Redis
    lease,         \* the lease of each process in each window
    held,          \* ProjectTokenLeaseState of each process
    asked,         \* the requests
    admitted,      \* history: requests admitted against each window
    outages        \* history: windows in which a lease failed

tokensVars == <<limit, tick, spent, lease, held, asked, admitted, outages>>

Windows  == 0..LastWindow
WindowAt(t) == t \div WindowTicks
Window   == WindowAt(tick)
NoWindow == -1

\* calculateTokenBatchSize, up to a limit of 60 per window.
TokenBatch == IF limit <= 10 THEN 1 ELSE 5
Threshold25(batch) == IF batch \div 4 > 1 THEN batch \div 4 ELSE 1

TokensTypeOK ==
    /\ limit \in Limits
    /\ tick \in 0..(WindowTicks * (LastWindow + 1) - 1)
    /\ spent \in [Windows -> Nat]
    /\ lease \in [Processes -> [Windows -> [at : {"none", "sent", "back"}, now : Nat, granted : Nat]]]
    /\ held \in [Processes -> [window : Windows \cup {NoWindow}, tokens : Nat, leasing : BOOLEAN]]
    /\ asked \in [Requests -> [at : {"new", "waiting", "told", "admitted", "refused", "turned"},
                               window : Windows, now : Nat, granted : Nat]]
    /\ admitted \in [Windows -> Nat]
    /\ outages \subseteq Windows

NoLease == [at |-> "none", now |-> 0, granted |-> 0]

TokensInit ==
    /\ limit \in Limits
    /\ tick = 0
    /\ spent = [w \in Windows |-> 0]
    /\ lease = [p \in Processes |-> [w \in Windows |-> NoLease]]
    /\ held = [p \in Processes |-> [window |-> NoWindow, tokens |-> 0, leasing |-> FALSE]]
    /\ asked = [q \in Requests |-> [at |-> "new", window |-> 0, now |-> 0, granted |-> 0]]
    /\ admitted = [w \in Windows |-> 0]
    /\ outages = {}

Tick ==
    /\ tick < WindowTicks * (LastWindow + 1) - 1
    /\ tick' = tick + 1
    /\ UNCHANGED <<limit, spent, lease, held, asked, admitted, outages>>

(***************************************************************************)
(* check(). `h` is the state as the call leaves it up to that point, `now` *)
(* the time the call read. refill() sends a lease unless one is on its way.*)
(***************************************************************************)
Leasing(p, h, w, now) ==
    /\ held' = [held EXCEPT ![p] = [h EXCEPT !.leasing = TRUE]]
    /\ lease' = IF h.leasing THEN lease
                ELSE [lease EXCEPT ![p][w] = [at |-> "sent", now |-> now, granted |-> 0]]

Spend(q, w) ==
    /\ asked' = [asked EXCEPT ![q].at = "admitted"]
    /\ admitted' = [admitted EXCEPT ![w] = @ + 1]

Check(q) ==
    LET p     == RequestOf[q]
        w     == Window
        \* A new window drops the tokens of the last and leases at once.
        h     == IF held[p].window = w THEN held[p]
                 ELSE [window |-> w, tokens |-> 0, leasing |-> FALSE]
        left  == h.tokens - 1
    IN
    /\ asked[q].at = "new"
    /\ \A r \in Requests : r < q => asked[r].at # "new"
    /\ IF h.tokens > 0
       THEN /\ Spend(q, w)
            /\ IF left <= Threshold25(TokenBatch)
               THEN Leasing(p, [h EXCEPT !.tokens = left], w, tick)
               ELSE held' = [held EXCEPT ![p].tokens = left] /\ UNCHANGED lease
       ELSE /\ asked' = [asked EXCEPT ![q] = [at |-> "waiting", window |-> w,
                                              now |-> tick, granted |-> 0]]
            /\ Leasing(p, h, w, tick)
            /\ UNCHANGED admitted
    /\ UNCHANGED <<limit, tick, spent, outages>>

\* LUA_LEASE_API_RATE_LIMIT: a sliding estimate over this window and the last.
Estimate(w, now) ==
    LET before == IF w = 0 THEN 0 ELSE spent[w - 1]
        weight == WindowTicks - (now % WindowTicks)
    IN  (before * weight + spent[w] * WindowTicks) \div WindowTicks

Granted(p, w) ==
    LET available == limit - Estimate(w, lease[p][w].now)
    IN  IF available <= 0 THEN 0 ELSE IF TokenBatch < available THEN TokenBatch ELSE available

Grant(p, w) ==
    /\ lease[p][w].at = "sent"
    /\ spent' = [spent EXCEPT ![w] = @ + Granted(p, w)]
    /\ lease' = [lease EXCEPT ![p][w].at = "back", ![p][w].granted = Granted(p, w)]
    /\ UNCHANGED <<limit, tick, held, asked, admitted, outages>>

\* The call fails, before the script or after it: the batch is credited all the
\* same (fail open).
Outage(p, w) ==
    /\ lease[p][w].at = "sent"
    /\ Cardinality(outages) < MaxOutages
    /\ outages' = outages \cup {w}
    /\ lease' = [lease EXCEPT ![p][w].at = "back", ![p][w].granted = TokenBatch]
    /\ \E taken \in {0, Granted(p, w)} : spent' = [spent EXCEPT ![w] = @ + taken]
    /\ UNCHANGED <<limit, tick, held, asked, admitted>>

\* The rest of executeLease: credit the window the lease was for, clear the
\* lease if it is still the current one, and resolve the waiters.
Told(p, w) ==
    asked' = [q \in Requests |->
                IF asked[q].at = "waiting" /\ RequestOf[q] = p /\ asked[q].window = w
                THEN [asked[q] EXCEPT !.at = "told", !.granted = lease[p][w].granted]
                ELSE asked[q]]

\* As Credit, but whatever comes back is credited to the window of the moment.
CreditAnyWindow(p, w) ==
    /\ lease[p][w].at = "back"
    /\ lease' = [lease EXCEPT ![p][w] = NoLease]
    /\ held' = [held EXCEPT ![p].tokens = @ + lease[p][w].granted, ![p].leasing = FALSE]
    /\ Told(p, w)
    /\ UNCHANGED <<limit, tick, spent, admitted, outages>>

Credit(p, w) ==
    /\ lease[p][w].at = "back"
    /\ lease' = [lease EXCEPT ![p][w] = NoLease]
    /\ held' = IF held[p].window = w
               THEN [held EXCEPT ![p].tokens = @ + lease[p][w].granted, ![p].leasing = FALSE]
               ELSE held
    /\ Told(p, w)
    /\ UNCHANGED <<limit, tick, spent, admitted, outages>>

\* A waiter goes on: refused if the window turned or Redis had nothing left,
\* back to waiting if others took the batch.
Resume(q) ==
    LET p == RequestOf[q]
        w == asked[q].window
    IN
    /\ asked[q].at = "told"
    /\ IF held[p].window # w
       THEN asked' = [asked EXCEPT ![q].at = "turned"] /\ UNCHANGED <<held, lease, admitted>>
       ELSE IF held[p].tokens > 0
       THEN /\ Spend(q, w)
            /\ held' = [held EXCEPT ![p].tokens = @ - 1]
            /\ UNCHANGED lease
       ELSE IF asked[q].granted = 0
       THEN asked' = [asked EXCEPT ![q].at = "refused"] /\ UNCHANGED <<held, lease, admitted>>
       ELSE /\ asked' = [asked EXCEPT ![q].at = "waiting"]
            /\ Leasing(p, held[p], w, asked[q].now)
            /\ UNCHANGED admitted
    /\ UNCHANGED <<limit, tick, spent, outages>>

TokensNext ==
    \/ Tick
    \/ \E q \in Requests : Check(q) \/ Resume(q)
    \/ \E p \in Processes, w \in Windows : Grant(p, w) \/ Outage(p, w) \/ Credit(p, w)

TokensSpec == TokensInit /\ [][TokensNext]_tokensVars

(***************************************************************************)
(* Properties                                                              *)
(***************************************************************************)

\* What a process holds of a window, in memory or on its way to it, and what all
\* of them hold, counted token by token.
HoldsOf(p, w) == (IF held[p].window = w THEN held[p].tokens ELSE 0)
                 + (IF lease[p][w].at = "back" THEN lease[p][w].granted ELSE 0)
InHand(w) == Cardinality(UNION {{p} \X (1..HoldsOf(p, w)) : p \in Processes})

\* A window never admits more than Redis gave out for it, and Redis never gives
\* out more than the limit, however late a lease comes back: as long as Redis
\* answered (the lease fails open otherwise, api-rate-limiter.ts:154).
NoOverrun ==
    \A w \in Windows \ outages :
        /\ admitted[w] + InHand(w) <= spent[w]
        /\ spent[w] <= limit

\* A request is refused only when Redis had given the window out, together with
\* the one before it, not because others took a batch (api-rate-limiter.ts:94-95).
\* One that waits while its window turns is refused without that ("turned").
RefusedWhenSpent ==
    \A q \in Requests : asked[q].at = "refused" =>
        LET w == asked[q].window
        IN  spent[w] + (IF w = 0 THEN 0 ELSE spent[w - 1]) >= limit
=============================================================================
