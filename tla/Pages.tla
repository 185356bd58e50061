------------------------------- MODULE Pages -------------------------------
(***************************************************************************)
(* Listings by cursor while their tables change: the delivery log, one     *)
(* entry per task (getNotificationLogs), the users (UserRepository.list)   *)
(* and the scheduled messages (getScheduledMessages). Rows are read newest *)
(* first by a key that is unique; new rows of the log carry the time of    *)
(* their event and can come in anywhere. A round of the log listing (a     *)
(* batch and the tasks already listed) is one step.                        *)
(* Left out: filters, the status shown for a task, and that the scheduled  *)
(* messages are listed upwards.                                            *)
(***************************************************************************)
EXTENDS Naturals, FiniteSets

CONSTANTS
    Keys,          \* positions, finitely many numbers
    Things,        \* tasks (log); users and scheduled messages are their own key
    PageSize,      \* limit
    BatchSize,     \* rows of a round of the log listing
    MaxRounds,     \* rounds of a page of the log listing
    MaxChanges     \* bound: rows added or removed

ASSUME PagesAssumption ==
    /\ Keys \subseteq Nat \ {0} /\ IsFiniteSet(Keys)
    /\ {PageSize, BatchSize, MaxRounds} \subseteq Nat \ {0} /\ MaxChanges \in Nat

VARIABLES
    listing,       \* which one: log, users or scheduled
    rows,          \* [Keys -> Things or 0]: what the table holds
    page,          \* pc, cursor of the page (0: the first), scan position, inclusive, round, items
    listed,        \* history: keys or tasks listed on the pages so far
    again,         \* history: listed on a second page
    changed,       \* history: things with a row added or removed since the first page
    cutShort,      \* history: the listing ran out of rounds or lost its cursor
    changes

pagesVars == <<listing, rows, page, listed, again, changed, cutShort, changes>>

Newest(S) == CHOOSE k \in S : \A j \in S : j <= k
Present == {k \in Keys : rows[k] # 0}
Start == [pc |-> "first", cursor |-> 0, scan |-> 0, inclusive |-> TRUE, round |-> 0, items |-> {}]
\* The rows a query from a position returns, at most n, newest first.
RowsFrom(scan, inclusive, n) ==
    LET below == {k \in Present : scan = 0 \/ k < scan \/ (inclusive /\ k = scan)}
    IN {k \in below : Cardinality({j \in below : j > k}) < n}

PagesTypeOK ==
    /\ listing \in {"log", "users", "scheduled"}
    /\ rows \in [Keys -> Things \cup {0}]
    /\ page.pc \in {"first", "scan", "next", "end"}
    /\ {page.cursor, page.scan} \subseteq Keys \cup {0}
    /\ page.round \in 0..MaxRounds
    /\ page.items \cup listed \cup again \cup changed \subseteq Keys \cup Things
    /\ cutShort \in BOOLEAN
    /\ changes \in 0..MaxChanges

PagesInit ==
    /\ listing \in {"log", "users", "scheduled"}
    /\ rows \in [Keys -> Things \cup {0}]
    /\ page = Start
    /\ listed = {} /\ again = {} /\ changed = {}
    /\ cutShort = FALSE
    /\ changes = 0

\* What a row is listed as.
Entry(k) == IF listing = "log" THEN rows[k] ELSE k

\* A page ends with items; cursor 0 ends the listing.
Turn(items, cursor) ==
    /\ listed' = listed \cup items
    /\ again' = again \cup (items \cap listed)
    /\ page' = [Start EXCEPT !.pc = IF cursor = 0 THEN "end" ELSE "next", !.cursor = cursor]

\* The next page is asked for.
AskPage ==
    /\ page.pc \in {"first", "next"} /\ listing = "log"
    /\ page' = [page EXCEPT !.pc = "scan", !.scan = page.cursor]
    /\ UNCHANGED <<listing, rows, listed, again, changed, cutShort, changes>>

\* The tasks of a round that have a row newer than the cursor of the page.
ListedEarlier(tasks) ==
    {t \in tasks : page.cursor # 0 /\ \E k \in Present : k > page.cursor /\ rows[k] = t}

\* One round: tasks of the batch fill the page; the first row that does not fit
\* is the next cursor, else the scan goes on below the batch.
ScanLog ==
    /\ page.pc = "scan"
    /\ LET batch == RowsFrom(page.scan, page.inclusive, BatchSize)
           tasks == {rows[k] : k \in batch} \ page.items
           fresh == tasks \ ListedEarlier(tasks)
           FirstRow(t) == Newest({k \in batch : rows[k] = t})
           Place(t) == Cardinality({u \in fresh : FirstRow(u) > FirstRow(t)})
           room == PageSize - Cardinality(page.items)
           items == page.items \cup {t \in fresh : Place(t) < room}
           over == {FirstRow(t) : t \in {u \in fresh : Place(u) = room}}
       IN \/ /\ over # {}
             /\ Turn(items, Newest(over))
             /\ UNCHANGED cutShort
          \/ /\ over = {} /\ Cardinality(batch) < BatchSize
             /\ Turn(items, 0)
             /\ UNCHANGED cutShort
          \/ /\ over = {} /\ Cardinality(batch) = BatchSize /\ page.round + 1 = MaxRounds
             /\ Turn(items, 0)
             /\ cutShort' = TRUE
          \/ /\ over = {} /\ Cardinality(batch) = BatchSize /\ page.round + 1 < MaxRounds
             /\ page' = [page EXCEPT !.items = items, !.round = @ + 1, !.inclusive = FALSE,
                                     !.scan = CHOOSE k \in batch : \A j \in batch : k <= j]
             /\ UNCHANGED <<listed, again, cutShort>>
    /\ UNCHANGED <<listing, rows, changed, changes>>

\* UserRepository.list: the cursor is a row, and without it nothing compares as
\* older; a full page has a next one.
ListUsers ==
    /\ page.pc \in {"first", "next"} /\ listing = "users"
    /\ LET gone == page.cursor # 0 /\ page.cursor \notin Present
           items == IF gone THEN {} ELSE RowsFrom(page.cursor, FALSE, PageSize)
       IN /\ Turn(items, IF Cardinality(items) = PageSize
                         THEN CHOOSE k \in items : \A j \in items : k <= j ELSE 0)
          /\ cutShort' = (cutShort \/ gone)
    /\ UNCHANGED <<listing, rows, changed, changes>>

\* As ListScheduled, but the row read ahead becomes the cursor.
ListScheduledAhead ==
    /\ page.pc \in {"first", "next"} /\ listing = "scheduled"
    /\ LET ahead == RowsFrom(page.cursor, FALSE, PageSize + 1)
           items == RowsFrom(page.cursor, FALSE, PageSize)
       IN Turn(items, IF ahead # items THEN CHOOSE k \in ahead : \A j \in ahead : k <= j ELSE 0)
    /\ UNCHANGED <<listing, rows, changed, cutShort, changes>>

\* getScheduledMessages: one row is read ahead; the cursor is only compared.
ListScheduled ==
    /\ page.pc \in {"first", "next"} /\ listing = "scheduled"
    /\ LET ahead == RowsFrom(page.cursor, FALSE, PageSize + 1)
           items == RowsFrom(page.cursor, FALSE, PageSize)
       IN Turn(items, IF ahead # items THEN CHOOSE k \in items : \A j \in items : k <= j ELSE 0)
    /\ UNCHANGED <<listing, rows, changed, cutShort, changes>>

\* A row is inserted (a log row, a user, a scheduled message), or one is deleted
\* (a user, a message sent or cancelled).
TableChanges(k) ==
    /\ page.pc # "end" /\ changes < MaxChanges
    /\ changes' = changes + 1
    /\ \/ /\ rows[k] = 0
          /\ \E t \in Things : rows' = [rows EXCEPT ![k] = t]
       \/ /\ rows[k] # 0 /\ listing # "log"
          /\ rows' = [rows EXCEPT ![k] = 0]
    /\ changed' = IF page.pc = "first" THEN changed
                  ELSE changed \cup {IF listing = "log" THEN rows'[k] ELSE k}
    /\ UNCHANGED <<listing, page, listed, again, cutShort>>

PagesNext ==
    \/ AskPage \/ ScanLog \/ ListUsers \/ ListScheduled
    \/ \E k \in Keys : TableChanges(k)

PagesSpec == PagesInit /\ [][PagesNext]_pagesVars

(***************************************************************************)
(* Properties                                                              *)
(***************************************************************************)

\* Nothing that stays as it is is listed on two pages (the rows newer than the
\* cursor, notifications.ts:236-253).
NoneTwice == again \subseteq changed

\* When the listing ends, everything that stayed as it was has been listed,
\* unless the log ran out of rounds or the user a page ended with was deleted.
AllListed ==
    page.pc = "end" /\ ~cutShort => {Entry(k) : k \in Present} \subseteq listed \cup changed

\* Page after page, what did not change is listed and is listed once.
EachEntryOnce == NoneTwice /\ AllListed
=============================================================================
