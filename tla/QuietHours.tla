----------------------------- MODULE QuietHours -----------------------------
(***************************************************************************)
(* When a send held back by the recipient's quiet hours goes out           *)
(* (services/engine/quiet-hours.ts, and its use in the engine). Time is a  *)
(* count of slots of UTC; a slot of local time is found by adding the      *)
(* zone's offset, which may change once (a change of the clocks). Windows  *)
(* are slots of the local day and may wrap midnight.                       *)
(***************************************************************************)
EXTENDS Integers, Sequences

CONSTANTS
    DayLength,     \* slots of a day
    Zones,         \* offsets of the recipient's time zone
    ClockChange,   \* the slot at which the zone's offset changes
    Shifts,        \* by how much: forward (a day at most), not at all, back
    Asked,         \* slots at which a send is asked for
    MaxWindows,    \* bound: windows a user has
    MaxChain       \* the 10 windows followed one after another

ASSUME QuietAssumption ==
    /\ DayLength \in Nat \ {0} /\ Zones \subseteq Int /\ ClockChange \in Int
    /\ Shifts \subseteq Int /\ \A s \in Shifts : s <= DayLength
    /\ Asked \subseteq Nat
    /\ MaxWindows \in Nat /\ MaxChain \in Nat

VARIABLES
    windows,       \* the user's quiet hours, a sequence of [from, to]
    zone,          \* the recipient's offset before the change
    shift,         \* by how much the clocks change
    sendAt,        \* when the send is due: its own time if that is ahead, or now
    candidate,     \* the time found so far
    turn,          \* windows followed so far
    stage          \* "asked", "chain", "out" (not in quiet hours) or "held"

quietVars == <<windows, zone, shift, sendAt, candidate, turn, stage>>

Slots == 0 .. DayLength - 1

Offset(t)    == zone + IF t >= ClockChange THEN shift ELSE 0
Local(t)     == t + Offset(t)
SlotOf(t)    == Local(t) % DayLength
DayStart(t)  == Local(t) - SlotOf(t)

\* localTimeToUtc: guess, compare the guess's wall clock, correct, three times.
Correct(guess, wall) == guess + (wall - Local(guess))
ToUtc(wall) == Correct(Correct(Correct(wall, wall), wall), wall)

InWindow(w, slot) ==
    IF w.from <= w.to THEN w.from <= slot /\ slot < w.to
                      ELSE w.from <= slot \/ slot < w.to

Quiet(t) == \E i \in DOMAIN windows : InWindow(windows[i], SlotOf(t))

\* The window's end, as the first time the wall clock shows it.
EndOfFirst(t, w) == DayStart(t) + w.to + IF SlotOf(t) >= w.to THEN DayLength ELSE 0
EndAt(t, w) == ToUtc(EndOfFirst(t, w))

\* As End, but taken as localTimeToUtc gives it, behind t or not.
EndEitherHour(t, w) == EndAt(t, w)

\* The end of the first window that holds t. In the hour that occurs twice the
\* end found may lie behind t: then it is taken at the offset in force at t.
End(t, w) ==
    LET end == EndAt(t, w)
    IN  IF end <= t THEN EndOfFirst(t, w) - Offset(t) ELSE end

FirstWindow(t) ==
    windows[CHOOSE i \in DOMAIN windows :
              /\ InWindow(windows[i], SlotOf(t))
              /\ \A j \in 1 .. i - 1 : ~InWindow(windows[j], SlotOf(t))]

NextActive(t) == End(t, FirstWindow(t))

QuietTypeOK ==
    /\ windows \in UNION {[1..n -> [from : Slots, to : Slots]] : n \in 0..MaxWindows}
    /\ zone \in Zones /\ shift \in Shifts
    /\ sendAt \in Nat /\ candidate \in Nat
    /\ turn \in 0..MaxChain
    /\ stage \in {"asked", "chain", "out", "held"}

QuietInit ==
    /\ windows \in UNION {[1..n -> [from : Slots, to : Slots]] : n \in 0..MaxWindows}
    /\ zone \in Zones /\ shift \in Shifts
    /\ sendAt \in Asked
    /\ candidate = sendAt
    /\ turn = 0
    /\ stage = "asked"

CheckFirst ==
    /\ stage = "asked"
    /\ IF Quiet(sendAt)
       THEN stage' = "chain" /\ candidate' = NextActive(sendAt)
       ELSE stage' = "out" /\ UNCHANGED candidate
    /\ UNCHANGED <<windows, zone, shift, sendAt, turn>>

\* The time found may lie in a window that follows or overlaps.
FollowChain ==
    /\ stage = "chain"
    /\ IF turn < MaxChain /\ Quiet(candidate) /\ NextActive(candidate) > candidate
       THEN candidate' = NextActive(candidate) /\ turn' = turn + 1 /\ UNCHANGED stage
       ELSE stage' = "held" /\ UNCHANGED <<candidate, turn>>
    /\ UNCHANGED <<windows, zone, shift, sendAt>>

QuietNext == CheckFirst \/ FollowChain
QuietSpec == QuietInit /\ [][QuietNext]_quietVars

-----------------------------------------------------------------------------
Jump == IF shift < 0 THEN -shift ELSE shift
AllDay == \A s \in Slots : \E i \in DOMAIN windows : InWindow(windows[i], s)

\* Nobody is sent anything within their quiet hours, unless these cover the
\* whole day (quiet-hours.ts, 136-150).
QuietKept == stage \in {"out", "held"} /\ ~AllDay => ~Quiet(candidate)

\* A send is not held past the first moment its recipient may be reached,
\* but for the hour the clocks skip or repeat: a window that ends there may
\* end that much later (quiet-hours.ts, 1-38).
NotOverdue ==
    stage = "held" =>
        \A t \in sendAt .. candidate - 1 : Quiet(t) \/ t - ClockChange \in -Jump .. Jump - 1

\* A send goes out neither within the quiet hours nor later than they end.
SentInDueTime == QuietKept /\ NotOverdue
=============================================================================
