------------------------------ MODULE ApiProofs ------------------------------
(***************************************************************************)
(* Proofs about what the HTTP API stores and publishes, for any callers,   *)
(* events and failures: the opt-outs of an address (OptOut), a user and    *)
(* the caches in front of it (Users), the dead letters (DeadLetters), the  *)
(* requests for notifications (Notify), who is let in (Access), the limits *)
(* on requests and on messages (Limits) and what the listings show (Pages).*)
(***************************************************************************)
EXTENDS OptOut, Users, Intake, Access, Limits, Pages, FiniteSetTheorems, SequenceTheorems,
        WellFoundedInduction, TLAPS

(***************************************************************************)
(* Opt-outs.                                                               *)
(***************************************************************************)

AllStops == {"suppressed", "gone", "off"}

HookTypes ==
    /\ hooks \subseteq [of : Events, at : {"read", "known", "stored"}, open : BOOLEAN]
    /\ hookAnswer \in [Events -> {"none", "pending", "ok", "failed"}]
SendTypes ==
    /\ since \in Nat
    /\ seen \in [is : {"none", "clear", "blocked"}, age : Nat]
    /\ mail \in [Mails -> {"none", "engine", "parked", "read", "sent", "late", "dropped"}]
    /\ heard \in [Mails -> SUBSET AllStops]

\* What the gate heard before it began to read is still so when it decides.
HeardStands(m) ==
    /\ mail[m] \in {"none", "engine", "sent"} => heard[m] = {}
    /\ mail[m] = "read" => heard[m] \subseteq Stops

\* An answer "clear" that the engine holds, or is being given, is older than
\* the suppression that contradicts it.
AnswerIsOlder ==
    /\ seen.is # "none" => seen.age < CacheTicks
    /\ Blocked /\ seen.is = "clear" => since <= seen.age
    /\ Blocked /\ asking = "clear" => since = 0

HookInv == HookTypes /\ OptOutHeld
SendInv == SendTypes /\ SoonHeeded /\ AnswerIsOlder /\ \A m \in Mails : HeardStands(m)
OptOutInv == HookInv /\ SendInv

LEMMA OptOutInvInit == OptOutInit => OptOutInv
<1> SUFFICES ASSUME OptOutInit PROVE OptOutInv
  OBVIOUS
<1>1. HookInv
  BY DEF OptOutInit, HookInv, HookTypes, OptOutHeld, Blocking
<1>2. SendTypes
  BY DEF OptOutInit, SendTypes, Unread
<1>3. SoonHeeded /\ AnswerIsOlder /\ \A m \in Mails : HeardStands(m)
  BY DEF OptOutInit, SoonHeeded, AnswerIsOlder, HeardStands, Unread, Blocked
<1> QED
  BY <1>1, <1>2, <1>3 DEF OptOutInv, SendInv

LEMMA AdvanceTyped ==
    ASSUME HookTypes, NEW h \in hooks, NEW at \in {"read", "known", "stored"},
           Advance(h, at), UNCHANGED hookAnswer
    PROVE  HookTypes'
<1>1. [h EXCEPT !.at = at] \in [of : Events, at : {"read", "known", "stored"}, open : BOOLEAN]
  BY DEF HookTypes
<1> QED
  BY <1>1 DEF HookTypes, Advance

\* An event is answered 200 when its opt-out is stored.
LEMMA HookStep == HookInv /\ [OptOutNext]_optOutVars => HookInv'
<1> SUFFICES ASSUME HookInv, [OptOutNext]_optOutVars PROVE HookInv'
  OBVIOUS
<1> USE DEF HookInv, HookTypes, OptOutHeld, hookVars
<1>1. ASSUME NEW e \in Events, Call(e) PROVE HookInv'
  <2>1. /\ hooks' = hooks \cup {[of |-> e, at |-> "read", open |-> TRUE]}
        /\ hookAnswer' = [hookAnswer EXCEPT ![e] = "pending"]
        /\ UNCHANGED <<reason, missed, lifted>>
    BY <1>1 DEF Call
  <2>2. HookTypes'
    <3>1. [of |-> e, at |-> "read", open |-> TRUE]
             \in [of : Events, at : {"read", "known", "stored"}, open : BOOLEAN]
      OBVIOUS
    <3> QED
      BY <2>1, <3>1
  <2>3. \A f \in Events : hookAnswer'[f] = "ok" => hookAnswer[f] = "ok"
    BY <2>1
  <2> QED
    BY <2>1, <2>2, <2>3 DEF Blocking, Blocked
<1>2. ASSUME NEW h \in hooks, ReadLog(h) PROVE HookInv'
  <2>1. CASE Advance(h, "known") /\ UNCHANGED <<hookAnswer, missed, reason, lifted>>
    <3>1. HookTypes'
      BY <2>1, AdvanceTyped
    <3> QED
      BY <2>1, <3>1 DEF Blocked
  <2>2. CASE /\ Respond(h, "ok") /\ UNCHANGED <<reason, lifted>>
             /\ missed' = IF h.open THEN missed \cup {h.of} ELSE missed
    BY <2>2 DEF Respond, Blocked
  <2> QED
    BY <1>2, <2>1, <2>2 DEF ReadLog
<1>3. ASSUME NEW h \in hooks, StoreEvent(h) PROVE HookInv'
  <2>1. HookTypes'
    BY <1>3, AdvanceTyped DEF StoreEvent
  <2> QED
    BY <1>3, <2>1 DEF StoreEvent, Blocked
<1>4. ASSUME NEW h \in hooks, Suppress(h) PROVE HookInv'
  BY <1>4, OptOutAssumption DEF Suppress, Record, Respond, Blocking, Blocked
<1>5. ASSUME NEW h \in hooks, HookFails(h) PROVE HookInv'
  BY <1>5 DEF HookFails, Respond, Blocked
<1>6. ASSUME NEW h \in hooks, CallTimesOut(h) PROVE HookInv'
  <2>1. /\ hooks' = (hooks \ {h}) \cup {[h EXCEPT !.open = FALSE]}
        /\ hookAnswer' = [hookAnswer EXCEPT ![h.of] = "failed"]
        /\ UNCHANGED <<reason, missed, lifted>>
    BY <1>6 DEF CallTimesOut
  <2>2. [h EXCEPT !.open = FALSE] \in [of : Events, at : {"read", "known", "stored"}, open : BOOLEAN]
    OBVIOUS
  <2>3. HookTypes'
    BY <2>1, <2>2
  <2>4. \A f \in Events : hookAnswer'[f] = "ok" => hookAnswer[f] = "ok"
    BY <2>1
  <2> QED
    BY <2>1, <2>3, <2>4 DEF Blocking, Blocked
<1>7. CASE DeleteSuppression
  BY <1>7 DEF DeleteSuppression, Blocked
<1>8. CASE CreateSuppression \/ \E topical \in BOOLEAN : Unsubscribe(topical)
  BY <1>8 DEF CreateSuppression, Unsubscribe, Record, Blocked
<1>9. CASE \/ LogFlushed \/ RemoveContact \/ AskSuppressions \/ ReadSuppressions
           \/ KeepSuppressions \/ PassTick \/ UNCHANGED optOutVars
           \/ \E m \in Mails : DispatchMail(m) \/ Decide(m) \/ Park(m) \/ BeginRelease(m)
                               \/ Release(m)
  <2>1. UNCHANGED <<hooks, hookAnswer, missed, reason, lifted>>
    BY <1>9 DEF LogFlushed, RemoveContact, AskSuppressions, ReadSuppressions,
       KeepSuppressions, PassTick, optOutVars, DispatchMail, Decide, Park, BeginRelease,
       Release, sendRest
  <2> QED
    BY <2>1 DEF Blocked
<1> QED
  BY <1>1, <1>2, <1>3, <1>4, <1>5, <1>6, <1>7, <1>8, <1>9 DEF OptOutNext


\* Until the operator lifts a suppression, what stops a send only grows.
LEMMA StopsGrow ==
    ASSUME Blocked => Blocked', optedOut => optedOut', ~reachable => ~reachable'
    PROVE  Stops \subseteq Stops'
BY DEF Stops

LEMMA StopsSame ==
    ASSUME UNCHANGED <<reason, optedOut, reachable>>
    PROVE  Stops' = Stops
BY DEF Stops, Blocked

\* A send passes the gate that read no opt-out, and the engine's check while the
\* answer it keeps is younger than any suppression.
LEMMA SendStep == SendInv /\ [OptOutNext]_optOutVars => SendInv'
<1> SUFFICES ASSUME SendInv, [OptOutNext]_optOutVars PROVE SendInv'
  OBVIOUS
<1> USE OptOutAssumption DEF SendInv, SendTypes, SoonHeeded, sendVars
<1>1. CASE LogFlushed \/ RemoveContact \/ UNCHANGED optOutVars
           \/ (\E e \in Events : Call(e))
           \/ \E h \in hooks : ReadLog(h) \/ StoreEvent(h) \/ HookFails(h) \/ CallTimesOut(h)
  <2>1. UNCHANGED <<since, reason, sendVars>>
    BY <1>1 DEF LogFlushed, RemoveContact, Call, ReadLog, StoreEvent, HookFails,
       CallTimesOut, optOutVars
  <2>2. (optedOut => optedOut') /\ (~reachable => ~reachable') /\ (Blocked => Blocked')
    BY <1>1, <2>1 DEF LogFlushed, RemoveContact, Call, ReadLog, StoreEvent, HookFails,
       CallTimesOut, optOutVars, Blocked
  <2>3. Stops \subseteq Stops'
    BY <2>2, StopsGrow
  <2> QED
    BY <2>1, <2>3 DEF AnswerIsOlder, HeardStands, Blocked
<1>2. CASE CreateSuppression \/ (\E topical \in BOOLEAN : Unsubscribe(topical))
           \/ \E h \in hooks : Suppress(h)
  <2>1. UNCHANGED sendVars /\ (UNCHANGED <<since, reason>> \/ (~Blocked /\ since' = 0))
    BY <1>2 DEF CreateSuppression, Unsubscribe, Suppress, Record
  <2>2. (optedOut => optedOut') /\ (~reachable => ~reachable') /\ (Blocked => Blocked')
    BY <1>2, <2>1 DEF CreateSuppression, Unsubscribe, Suppress, Blocked
  <2>3. Stops \subseteq Stops'
    BY <2>2, StopsGrow
  <2>4. AnswerIsOlder'
    <3>1. CASE UNCHANGED <<since, reason>>
      BY <2>1, <3>1 DEF AnswerIsOlder, Blocked
    <3>2. CASE since' = 0
      BY <2>1, <3>2 DEF AnswerIsOlder
    <3> QED
      BY <2>1, <3>1, <3>2
  <2>5. \A m \in Mails : HeardStands(m)'
    BY <2>1, <2>3 DEF HeardStands
  <2> QED
    BY <2>1, <2>4, <2>5
<1>3. CASE DeleteSuppression
  <2>1. /\ reason' = "none" /\ since' = 0 /\ UNCHANGED <<seen, asking, mail, optedOut, reachable>>
        /\ heard' = [m \in Mails |-> heard[m] \ {"suppressed"}]
    BY <1>3 DEF DeleteSuppression
  <2>2. Stops \ {"suppressed"} \subseteq Stops'
    BY <2>1 DEF Stops
  <2>3. \A m \in Mails : HeardStands(m)'
    BY <2>1, <2>2 DEF HeardStands
  <2> QED
    BY <2>1, <2>3 DEF AnswerIsOlder, Blocked
<1>4. CASE AskSuppressions \/ ReadSuppressions \/ KeepSuppressions
  <2>1. UNCHANGED <<since, reason, optedOut, reachable, mail, heard>>
    BY <1>4 DEF AskSuppressions, ReadSuppressions, KeepSuppressions, sendRest
  <2>2. seen' \in [is : {"none", "clear", "blocked"}, age : Nat] /\ AnswerIsOlder'
    BY <1>4, <2>1 DEF AskSuppressions, ReadSuppressions, KeepSuppressions, AnswerIsOlder, Blocked
  <2>3. \A m \in Mails : HeardStands(m)'
    BY <2>1 DEF HeardStands, Stops, Blocked
  <2> QED
    BY <2>1, <2>2, <2>3
<1>5. CASE PassTick
  <2>1. /\ asking = "no" /\ asking' = "no" /\ UNCHANGED <<reason, optedOut, reachable, mail, heard>>
        /\ since' \in {since, since + 1}
        /\ seen' = IF seen.age = CacheTicks - 1 \/ seen.is = "none" THEN Unread
                   ELSE [seen EXCEPT !.age = @ + 1]
    BY <1>5 DEF PassTick
  <2>2. CASE seen.age = CacheTicks - 1 \/ seen.is = "none"
    <3>1. seen' = [is |-> "none", age |-> 0]
      BY <2>1, <2>2 DEF Unread
    <3>2. AnswerIsOlder'
      BY <2>1, <3>1 DEF AnswerIsOlder
    <3>3. \A m \in Mails : HeardStands(m)'
      BY <2>1, StopsSame DEF HeardStands
    <3> QED
      BY <2>1, <3>1, <3>2, <3>3
  <2>3. CASE ~(seen.age = CacheTicks - 1 \/ seen.is = "none")
    <3>1. seen'.is = seen.is /\ seen'.age = seen.age + 1 /\ seen'.age < CacheTicks
      BY <2>1, <2>3 DEF AnswerIsOlder
    <3>2. seen' \in [is : {"none", "clear", "blocked"}, age : Nat]
      BY <2>1, <2>3
    <3>3. AnswerIsOlder'
      BY <2>1, <3>1 DEF AnswerIsOlder, Blocked
    <3>4. \A m \in Mails : HeardStands(m)'
      BY <2>1, StopsSame DEF HeardStands
    <3> QED
      BY <2>1, <3>2, <3>3, <3>4
  <2> QED
    BY <2>2, <2>3
<1>6. ASSUME NEW m \in Mails, DispatchMail(m) \/ Park(m) \/ Decide(m) PROVE SendInv'
  <2>1. UNCHANGED <<since, reason, optedOut, reachable, seen, asking, heard>>
    BY <1>6 DEF DispatchMail, Park, Decide, sendRest
  <2>2. mail' \in [Mails -> {"none", "engine", "parked", "read", "sent", "late", "dropped"}]
    BY <1>6 DEF DispatchMail, Park, Decide
  <2>3. \A n \in Mails \ {m} : mail'[n] = mail[n]
    BY <1>6 DEF DispatchMail, Park, Decide
  <2>4. mail[m] \in {"none", "engine"} /\ mail'[m] \in {"engine", "parked", "dropped", "sent", "late"}
    BY <1>6 DEF DispatchMail, Park, Decide
  <2>5. mail'[m] # "late"
    BY <1>6 DEF DispatchMail, Park, Decide, Fresh, AnswerIsOlder, Blocked
  <2>6. SoonHeeded'
    BY <2>3, <2>5
  <2>7. \A n \in Mails : HeardStands(n)'
    BY <2>1, <2>3, <2>4, <2>5 DEF HeardStands, Stops, Blocked
  <2> QED
    BY <2>1, <2>2, <2>6, <2>7 DEF AnswerIsOlder, Blocked
<1>7. ASSUME NEW m \in Mails, BeginRelease(m) \/ Release(m) PROVE SendInv'
  <2>1. UNCHANGED <<since, reason, optedOut, reachable, seen, asking>>
    BY <1>7 DEF BeginRelease, Release, sendRest
  <2>4. Stops' = Stops /\ AnswerIsOlder'
    BY <2>1, StopsSame DEF AnswerIsOlder, Blocked
  <2>2. CASE BeginRelease(m)
    <3>1. /\ mail' = [mail EXCEPT ![m] = "read"]
          /\ heard' = [heard EXCEPT ![m] = Stops]
      BY <2>2 DEF BeginRelease
    <3>2. Stops \in SUBSET AllStops
      BY DEF Stops, AllStops
    <3>3. HeardStands(m)'
      BY <2>4, <3>1 DEF HeardStands
    <3>4. \A n \in Mails \ {m} : HeardStands(n)'
      BY <2>4, <3>1 DEF HeardStands
    <3> QED
      BY <2>1, <2>4, <3>1, <3>2, <3>3, <3>4
  <2>3. CASE Release(m)
    <3>1. PICK to \in IF Stops # {} THEN {"dropped", "parked"} ELSE {"sent", "parked"} :
             mail' = [mail EXCEPT ![m] = to]
      BY <2>3 DEF Release
    <3>2. mail[m] = "read" /\ heard' = heard
      BY <2>3 DEF Release
    <3>3. HeardStands(m)'
      BY <3>1, <3>2 DEF HeardStands
    <3>4. \A n \in Mails \ {m} : HeardStands(n)'
      BY <2>4, <3>1, <3>2 DEF HeardStands
    <3> QED
      BY <2>1, <2>4, <3>1, <3>2, <3>3, <3>4
  <2> QED
    BY <1>7, <2>2, <2>3
<1> QED
  BY <1>1, <1>2, <1>3, <1>4, <1>5, <1>6, <1>7 DEF OptOutNext

\* For any events of the provider, sends, ticks and failures: an opt-out that was
\* answered 200 is in force until the operator lifts it or was too early to be
\* found, its first reason stays, and no send after it passes the gate at release
\* or the engine's check (webhooks.ts:73-126, send-gate.ts:20-24,
\* engine/main.ts:154-156).
THEOREM OptOutsAreHeeded == OptOutSpec => OptOutHeeded
<1>1. OptOutInit => OptOutInv
  BY OptOutInvInit
<1>2. OptOutInv /\ [OptOutNext]_optOutVars => OptOutInv'
  BY HookStep, SendStep DEF OptOutInv
<1>3. OptOutInv => OptOutHeld /\ GateHeeds /\ SoonHeeded
  BY DEF OptOutInv, HookInv, SendInv, HeardStands, GateHeeds
<1>4. [OptOutNext]_optOutVars => [reason # "none" => reason' \in {reason, "none"}]_optOutVars
  <2> SUFFICES ASSUME OptOutNext, reason # "none" PROVE reason' \in {reason, "none"}
    BY DEF optOutVars
  <2> QED
    BY DEF OptOutNext, LogFlushed, CreateSuppression, DeleteSuppression, RemoveContact,
       AskSuppressions, ReadSuppressions, KeepSuppressions, PassTick, Call, ReadLog,
       StoreEvent, Suppress, HookFails, CallTimesOut, Unsubscribe, Record, Blocked,
       DispatchMail, Decide, Park, BeginRelease, Release, sendRest
<1> QED
  BY <1>1, <1>2, <1>3, <1>4, PTL DEF OptOutSpec, OptOutHeeded, FirstReasonWins

(***************************************************************************)
(* Users and addresses.                                                    *)
(***************************************************************************)

AnyValues == Values("profile") \cup Values("address")
Reasons == {"crossed", "import", "cleared first", "elsewhere"}
UserCalls == [pc : {"idle", "load", "write", "optOut", "clear", "remove"}, kind : Kinds,
              call : 0..MaxWrites, named : SUBSET FieldsOf("profile"), seen : AnyValues,
              crossed : BOOLEAN, into : SUBSET CacheNames]
CallersTyped ==
    /\ caller \in [Callers -> UserCalls]
    /\ exists \in BOOLEAN
    /\ writes \in 0..MaxWrites
TablesTyped ==
    /\ stored \in [Kinds -> AnyValues] /\ latest \in [Kinds -> AnyValues]
    /\ cached \in [CacheNames -> SUBSET AnyValues] /\ behind \in [CacheNames -> SUBSET Reasons]
    /\ \A k \in Kinds : stored[k] \in Values(k) /\ latest[k] \in Values(k)
    /\ \A x \in CacheNames : cached[x] \subseteq Values(KindOf(x))
    /\ clobbered \subseteq Attributes

\* A request is at a call of its kind; a read that nothing crossed has the
\* first rows as they are.
CallFits(c) ==
    /\ caller[c].pc = "write" => caller[c].kind = "profile" /\ caller[c].seen \in Values("profile")
    /\ caller[c].pc = "optOut" => caller[c].kind = "address"
ReadFits(c) ==
    caller[c].pc = "load" =>
        /\ caller[c].seen \in Values(caller[c].kind)
        /\ \A x \in caller[c].into : KindOf(x) = caller[c].kind
        /\ ~caller[c].crossed => \A f \in FirstOf(caller[c].kind) :
              caller[c].seen[f] = stored[caller[c].kind][f]

\* Every field is as the last call that named it left it, or as a PATCH wrote it back;
\* of an address no call writes a field it does not name.
ProfileKept ==
    \A f \in FieldsOf("profile") :
        \/ stored["profile"][f] = latest["profile"][f]
        \/ f \in clobbered
        \/ f \in Defaulted /\ latest["profile"][f] = 0 /\ stored["profile"][f] = Default
AddressKept == stored["address"] = latest["address"]

Clears(c) == caller[c].pc = "clear" /\ caller[c].kind = "profile"
EntryFollows(x) ==
    \/ cached[x] \subseteq {Shown(stored[KindOf(x)])}
    \/ behind[x] # {}
    \/ x = "own" /\ \E c \in Callers : Clears(c)

UsersInv ==
    /\ CallersTyped /\ TablesTyped /\ ProfileKept /\ AddressKept
    /\ \A x \in CacheNames : EntryFollows(x)
    /\ \A c \in Callers : CallFits(c) /\ ReadFits(c)

LEMMA KindFacts ==
    /\ "profile" \in Kinds /\ "address" \in Kinds /\ {"profile", "address"} = Kinds
    /\ \A k \in Kinds : FirstOf(k) \subseteq FieldsOf(k) /\ Unset(k) \in Values(k)
                        /\ Values(k) \subseteq AnyValues
    /\ Attributes \subseteq FieldsOf("profile")
BY UsersAssumption DEF Kinds, FirstOf, FieldsOf, Unset, Values, AddressFields, AnyValues, Default

LEMMA KindOfFacts ==
    /\ \A x : KindOf(x) \in Kinds /\ Values(KindOf(x)) \subseteq AnyValues
    /\ KindOf("own") = "profile"
<1>1. \A x : KindOf(x) \in Kinds
  BY DEF KindOf, Kinds
<1> QED
  BY <1>1, KindFacts DEF KindOf

\* What a reader is shown of a record is a record, with the same value or the default.
LEMMA ShownFacts ==
    ASSUME NEW k \in Kinds, NEW r \in Values(k)
    PROVE  /\ Shown(r) \in Values(k)
           /\ \A f \in FieldsOf(k) :
                 Shown(r)[f] = IF f \in Defaulted /\ r[f] = 0 THEN Default ELSE r[f]
BY UsersAssumption DEF Shown, Values, Default

LEMMA WrittenTyped ==
    ASSUME NEW k \in Kinds, NEW r \in Values(k), NEW fields, NEW call \in 0..MaxWrites
    PROVE  /\ Written(r, fields, call) \in Values(k)
           /\ \A f \in FieldsOf(k) :
                 Written(r, fields, call)[f] = IF f \in fields THEN call ELSE r[f]
BY UsersAssumption DEF Written, Values, Default

LEMMA AtRestTyped ==
    /\ AtRest \in UserCalls /\ AtRest.pc = "idle" /\ AtRest.kind = "profile"
    /\ AtRest.seen \in Values("profile") /\ AtRest.call = 0 /\ AtRest.named = {}
    /\ ~AtRest.crossed
<1>1. Unset("profile") \in Values("profile") /\ "profile" \in Kinds /\ 0 \in 0..MaxWrites
  BY KindFacts, UsersAssumption
<1> QED
  BY <1>1 DEF AtRest, UserCalls, AnyValues

\* A commit on some kinds crosses the reads of them under way, and is seen by
\* nothing else of the other requests.
Crossed(r, X, old) ==
    /\ r \in UserCalls /\ r.pc = old.pc /\ r.kind = old.kind /\ r.seen = old.seen
    /\ r.call = old.call /\ r.named = old.named /\ r.into = old.into
    /\ old.crossed => r.crossed
    /\ old.pc = "load" /\ old.kind \in X => r.crossed

LEMMA CrossingFacts ==
    ASSUME CallersTyped
    PROVE  /\ \A k \in Kinds : /\ Crossing(k) \in [Callers -> UserCalls]
                               /\ \A c \in Callers : Crossed(Crossing(k)[c], {k}, caller[c])
           /\ CrossingAny \in [Callers -> UserCalls]
           /\ \A c \in Callers : Crossed(CrossingAny[c], Kinds, caller[c])
<1>1. ASSUME NEW r \in UserCalls
      PROVE  /\ [r EXCEPT !.crossed = TRUE] \in UserCalls
             /\ Crossed([r EXCEPT !.crossed = TRUE], Kinds, r)
             /\ Crossed(r, {}, r)
  BY DEF UserCalls, Crossed
<1>2. \A c \in Callers : caller[c] \in UserCalls
  BY DEF CallersTyped
<1>3. ASSUME NEW k \in Kinds, NEW c \in Callers PROVE Crossed(Crossing(k)[c], {k}, caller[c])
  <2>1. Crossing(k)[c] = IF caller[c].pc = "load" /\ caller[c].kind = k
                         THEN [caller[c] EXCEPT !.crossed = TRUE] ELSE caller[c]
    BY DEF Crossing
  <2> QED
    BY <1>1, <1>2, <2>1 DEF Crossed
<1>4. ASSUME NEW c \in Callers PROVE Crossed(CrossingAny[c], Kinds, caller[c])
  <2>1. CrossingAny[c] = IF caller[c].pc = "load" THEN [caller[c] EXCEPT !.crossed = TRUE] ELSE caller[c]
    BY DEF CrossingAny
  <2> QED
    BY <1>1, <1>2, <2>1 DEF Crossed
<1>5. ASSUME NEW k \in Kinds PROVE Crossing(k) \in [Callers -> UserCalls]
  BY <1>3 DEF Crossing, Crossed
<1>6. CrossingAny \in [Callers -> UserCalls]
  BY <1>4 DEF CrossingAny, Crossed
<1> QED
  BY <1>3, <1>4, <1>5, <1>6

LEMMA CrossedSelf == \A r \in UserCalls : Crossed(r, {}, r)
BY DEF Crossed

\* What a step does to the requests: c acts, and commits on the kinds X.
Moves(c, X) ==
    /\ caller' \in [Callers -> UserCalls]
    /\ \A d \in Callers \ {c} : Crossed(caller'[d], X, caller[d])
    /\ \A k \in Kinds \ X : stored'[k] = stored[k]

\* Its own request then fits, and those of the others do as before.
LEMMA FitsStep ==
    ASSUME CallersTyped, NEW c \in Callers, NEW X, Moves(c, X),
           \A d \in Callers : CallFits(d) /\ ReadFits(d), CallFits(c)', ReadFits(c)'
    PROVE  \A d \in Callers : CallFits(d)' /\ ReadFits(d)'
<1>1. ASSUME NEW d \in Callers \ {c} PROVE CallFits(d)'
  BY <1>1 DEF Moves, Crossed, CallFits
<1>2. ASSUME NEW d \in Callers \ {c} PROVE ReadFits(d)'
  <2>1. Crossed(caller'[d], X, caller[d]) /\ caller[d].kind \in Kinds
    BY DEF Moves, CallersTyped, UserCalls
  <2>2. CASE caller[d].kind \in X
    BY <2>1, <2>2 DEF Crossed, ReadFits
  <2>3. CASE caller[d].kind \notin X
    <3>1. stored'[caller[d].kind] = stored[caller[d].kind]
      BY <2>1, <2>3 DEF Moves
    <3>2. ReadFits(d) /\ caller'[d].pc = caller[d].pc /\ caller'[d].kind = caller[d].kind
          /\ caller'[d].seen = caller[d].seen /\ caller'[d].into = caller[d].into
          /\ (caller[d].crossed => caller'[d].crossed)
      BY <2>1 DEF Crossed
    <3> QED
      BY <3>1, <3>2 DEF ReadFits
  <2> QED
    BY <2>2, <2>3
<1> QED
  BY <1>1, <1>2

\* An entry nothing was done to follows as before, unless its own writer is done.
LEMMA EntryStays ==
    ASSUME NEW c \in Callers, NEW X, Moves(c, X), NEW x \in CacheNames, KindOf(x) \notin X,
           EntryFollows(x), cached'[x] = cached[x], behind'[x] = behind[x], x = "own" => ~Clears(c)
    PROVE  EntryFollows(x)'
<1>1. ASSUME NEW d \in Callers, Clears(d), x = "own" PROVE Clears(d)'
  BY <1>1 DEF Moves, Crossed, Clears
<1>2. stored'[KindOf(x)] = stored[KindOf(x)]
  BY KindOfFacts DEF Moves
<1>3. CASE cached[x] \subseteq {Shown(stored[KindOf(x)])}
  <2>1. cached'[x] \subseteq {Shown(stored'[KindOf(x)])}
    BY <1>2, <1>3
  <2> QED
    BY <2>1 DEF EntryFollows
<1>4. CASE behind[x] # {}
  BY <1>4 DEF EntryFollows
<1>5. CASE x = "own" /\ \E d \in Callers : Clears(d)
  BY <1>1, <1>5 DEF EntryFollows
<1> QED
  BY <1>3, <1>4, <1>5 DEF EntryFollows

\* What a commit on the kinds K does to the caches.
LEMMA OutdatedFacts ==
    ASSUME UsersInv, NEW K, NEW why \in SUBSET Reasons, behind' = Outdated(K, why), cached' = cached
    PROVE  /\ behind' \in [CacheNames -> SUBSET Reasons]
           /\ \A x \in CacheNames :
                 /\ KindOf(x) \notin K => behind'[x] = behind[x]
                 /\ KindOf(x) \in K =>
                       cached'[x] = {} \/ behind'[x] # {} \/ (x = "own" /\ why = {})
BY DEF UsersInv, TablesTyped, Outdated, Reasons

\* Every entry follows a commit on the kinds K of a request that clears the API's
\* own cache next, or gives a reason why it does not.
LEMMA CommitFollowed ==
    ASSUME UsersInv, NEW c \in Callers, NEW K, NEW why \in SUBSET Reasons, Moves(c, K),
           behind' = Outdated(K, why), cached' = cached, ~Clears(c),
           "profile" \in K => why # {} \/ Clears(c)'
    PROVE  \A x \in CacheNames : EntryFollows(x)'
<1> TAKE x \in CacheNames
<1>1. CASE KindOf(x) \notin K
  <2>1. EntryFollows(x) /\ cached'[x] = cached[x] /\ behind'[x] = behind[x]
    BY <1>1, OutdatedFacts DEF UsersInv
  <2> QED
    BY <1>1, <2>1, EntryStays
<1>2. CASE KindOf(x) \in K
  <2>1. cached'[x] = {} \/ behind'[x] # {} \/ (x = "own" /\ why = {})
    BY <1>2, OutdatedFacts
  <2> QED
    BY <1>2, <2>1, KindOfFacts DEF EntryFollows
<1> QED
  BY <1>1, <1>2

-----------------------------------------------------------------------------
LEMMA ImportStep ==
    ASSUME UsersInv, NEW c \in Callers, ImportUser(c)
    PROVE  UsersInv'
<1> USE DEF UsersInv
<1>1. PICK named \in SUBSET FieldsOf("profile"), address \in ImportedAddress :
         /\ stored' = [stored EXCEPT !["profile"] = Written(@, named, writes'),
                                     !["address"] = Written(@, address, writes')]
         /\ latest' = [latest EXCEPT !["profile"] = Written(@, named, writes'),
                                     !["address"] = Written(@, address, writes')]
         /\ clobbered' = clobbered \ named
  BY DEF ImportUser
<1>2. /\ writes' \in 0..MaxWrites /\ exists' \in BOOLEAN
      /\ caller' = CrossingAny /\ cached' = cached /\ caller[c].pc = "idle"
      /\ behind' = Outdated(Kinds, {"import"}) /\ {"import"} \in SUBSET Reasons
  BY UsersAssumption DEF ImportUser, NewCall, CallersTyped, Reasons
<1>3. /\ stored'["profile"] = Written(stored["profile"], named, writes')
      /\ stored'["address"] = Written(stored["address"], address, writes')
      /\ latest'["profile"] = Written(latest["profile"], named, writes')
      /\ latest'["address"] = Written(latest["address"], address, writes')
  BY <1>1, KindFacts DEF TablesTyped
<1>4. /\ \A k \in Kinds : stored'[k] \in Values(k) /\ latest'[k] \in Values(k)
      /\ \A f \in FieldsOf("profile") :
            /\ stored'["profile"][f] = IF f \in named THEN writes' ELSE stored["profile"][f]
            /\ latest'["profile"][f] = IF f \in named THEN writes' ELSE latest["profile"][f]
  BY <1>2, <1>3, KindFacts, WrittenTyped DEF TablesTyped
<1>5. ProfileKept' /\ AddressKept'
  BY ZenonT(30), <1>1, <1>3, <1>4 DEF ProfileKept, AddressKept
<1>6. CallersTyped' /\ Moves(c, Kinds)
  BY <1>2, CrossingFacts DEF CallersTyped, Moves
<1>7. CallFits(c)' /\ ReadFits(c)'
  BY <1>2, CrossingFacts DEF Crossed, CallFits, ReadFits
<1>8. \A d \in Callers : CallFits(d)' /\ ReadFits(d)'
  BY <1>6, <1>7, FitsStep
<1>9. TablesTyped'
  <2>1. /\ stored' \in [Kinds -> AnyValues] /\ latest' \in [Kinds -> AnyValues]
    BY <1>1, <1>4, KindFacts DEF TablesTyped
  <2>2. behind' \in [CacheNames -> SUBSET Reasons]
    BY <1>2, OutdatedFacts
  <2> QED
    BY <1>1, <1>2, <1>4, <2>1, <2>2 DEF TablesTyped
<1>10. \A x \in CacheNames : EntryFollows(x)'
  BY <1>2, <1>6, CommitFollowed DEF Clears
<1> QED
  BY <1>5, <1>6, <1>8, <1>9, <1>10

LEMMA BeginPatchStep ==
    ASSUME UsersInv, NEW c \in Callers, BeginPatch(c)
    PROVE  UsersInv'
<1> USE DEF UsersInv
<1>1. PICK named \in SUBSET FieldsOf("profile") :
         caller' = [caller EXCEPT ![c] = [AtRest EXCEPT !.pc = "write", !.call = writes', !.named = named,
                                                         !.seen = Shown(stored["profile"])]]
  BY DEF BeginPatch
<1>2. /\ writes' \in 0..MaxWrites /\ caller[c].pc = "idle"
      /\ UNCHANGED <<exists, stored, cached, latest, clobbered, behind>>
  BY UsersAssumption DEF BeginPatch, NewCall, CallersTyped
<1>3. Shown(stored["profile"]) \in Values("profile") /\ Shown(stored["profile"]) \in AnyValues
  BY KindFacts, ShownFacts DEF TablesTyped
<1>4. /\ caller'[c] \in UserCalls /\ caller'[c].pc = "write" /\ caller'[c].kind = "profile"
      /\ caller'[c].seen \in Values("profile")
      /\ \A d \in Callers \ {c} : caller'[d] = caller[d]
  BY <1>1, <1>2, <1>3, AtRestTyped DEF CallersTyped, UserCalls
<1>5. CallersTyped' /\ Moves(c, {})
  BY <1>1, <1>2, <1>4, CrossedSelf DEF CallersTyped, Moves
<1>6. \A d \in Callers : CallFits(d)' /\ ReadFits(d)'
  <2>1. CallFits(c)' /\ ReadFits(c)'
    BY <1>4 DEF CallFits, ReadFits
  <2> QED
    BY <1>5, <2>1, FitsStep
<1>7. TablesTyped' /\ ProfileKept' /\ AddressKept'
  BY <1>2 DEF TablesTyped, ProfileKept, AddressKept
<1>8. \A x \in CacheNames : EntryFollows(x)'
  BY <1>2, <1>5, EntryStays DEF Clears
<1> QED
  BY <1>5, <1>6, <1>7, <1>8

LEMMA CommitPatchStep ==
    ASSUME UsersInv, NEW c \in Callers, CommitPatch(c)
    PROVE  UsersInv'
<1> USE DEF UsersInv
<1> DEFINE me == caller[c]
           new == [f \in FieldsOf("profile") |->
                      IF f \in me.named THEN me.call
                      ELSE IF f \in Attributes THEN me.seen[f] ELSE stored["profile"][f]]
<1>1. /\ me.pc = "write" /\ caller' = [Crossing("profile") EXCEPT ![c].pc = "clear"]
      /\ UNCHANGED <<exists, cached, writes>>
      /\ me \in UserCalls /\ me.kind = "profile" /\ me.seen \in Values("profile")
  BY DEF CommitPatch, CallersTyped, CallFits
<1>2. /\ caller'[c] \in UserCalls /\ caller'[c].pc = "clear" /\ caller'[c].kind = "profile"
      /\ \A d \in Callers \ {c} : caller'[d] = Crossing("profile")[d]
      /\ caller' \in [Callers -> UserCalls]
  <2>1. Crossing("profile") \in [Callers -> UserCalls] /\ Crossing("profile")[c].kind = "profile"
    BY <1>1, CrossingFacts, KindFacts DEF Crossed
  <2> QED
    BY <1>1, <2>1 DEF UserCalls
<1>3. /\ stored'["address"] = stored["address"] /\ latest'["address"] = latest["address"]
      /\ stored' \in [Kinds -> AnyValues] /\ latest' \in [Kinds -> AnyValues]
      /\ stored'["profile"] \in Values("profile") /\ latest'["profile"] \in Values("profile")
      /\ clobbered' \subseteq Attributes /\ ProfileKept'
  <2>1. CASE exists
    <3>1. /\ stored' = [stored EXCEPT !["profile"] = new]
          /\ latest' = [latest EXCEPT !["profile"] = Written(@, me.named, me.call)]
          /\ clobbered' = (clobbered \ me.named) \cup
                     {f \in Attributes \ me.named : me.seen[f] # Shown(latest["profile"])[f]}
      BY <2>1 DEF CommitPatch
    <3>2. new \in Values("profile")
      BY <1>1, KindFacts, UsersAssumption DEF Values, UserCalls, TablesTyped, Default
    <3>3. /\ Written(latest["profile"], me.named, me.call) \in Values("profile")
          /\ \A f \in FieldsOf("profile") : Written(latest["profile"], me.named, me.call)[f]
                = IF f \in me.named THEN me.call ELSE latest["profile"][f]
      BY <1>1, KindFacts, WrittenTyped DEF UserCalls, TablesTyped
    <3>4. /\ stored'["profile"] = new /\ stored'["address"] = stored["address"]
          /\ latest'["profile"] = Written(latest["profile"], me.named, me.call)
          /\ latest'["address"] = latest["address"]
      BY <3>1, KindFacts DEF TablesTyped
    <3>5. ProfileKept'
      <4> SUFFICES ASSUME NEW f \in FieldsOf("profile")
                   PROVE  \/ stored'["profile"][f] = latest'["profile"][f]
                          \/ f \in clobbered'
                          \/ f \in Defaulted /\ latest'["profile"][f] = 0 /\ stored'["profile"][f] = Default
        BY DEF ProfileKept
      <4>1. stored'["profile"][f] = new[f] /\ latest'["profile"][f] = IF f \in me.named THEN me.call ELSE latest["profile"][f]
        BY <3>3, <3>4
      <4>2. CASE f \in me.named
        BY <4>1, <4>2
      <4>3. CASE f \in Attributes \ me.named
        <5>1. Shown(latest["profile"])[f] = IF f \in Defaulted /\ latest["profile"][f] = 0 THEN Default ELSE latest["profile"][f]
          BY ShownFacts, KindFacts DEF TablesTyped
        <5> QED
          BY <3>1, <4>1, <4>3, <5>1
      <4>4. CASE f \notin Attributes /\ f \notin me.named
        <5>1. f \notin clobbered /\ f \notin Defaulted
          BY <4>4, UsersAssumption DEF TablesTyped
        <5> QED
          BY <4>1, <4>4, <5>1 DEF ProfileKept
      <4> QED
        BY <4>2, <4>3, <4>4
    <3>6. stored' \in [Kinds -> AnyValues] /\ latest' \in [Kinds -> AnyValues]
      BY <3>1, <3>2, <3>3, KindFacts DEF TablesTyped
    <3> QED
      BY <3>1, <3>2, <3>3, <3>4, <3>5, <3>6 DEF TablesTyped
  <2>2. CASE ~exists
    <3>1. UNCHANGED <<stored, latest, clobbered, behind>>
      BY <2>2 DEF CommitPatch
    <3> QED
      BY <3>1, KindFacts DEF TablesTyped, ProfileKept
  <2> QED
    BY <2>1, <2>2 DEF CallersTyped
<1>0. /\ ~exists => UNCHANGED <<stored, behind>>
      /\ exists => behind' = Outdated({"profile"}, {}) /\ {} \in SUBSET Reasons
  BY DEF CommitPatch
<1>4. TablesTyped' /\ AddressKept'
  <2>1. behind' \in [CacheNames -> SUBSET Reasons]
    <3>1. CASE exists
      BY <1>0, <1>1, <3>1, OutdatedFacts
    <3>2. CASE ~exists
      BY <1>0, <3>2 DEF TablesTyped
    <3> QED
      BY <3>1, <3>2
  <2> QED
    BY <1>1, <1>3, <2>1, KindFacts DEF TablesTyped, AddressKept
<1>5. CallersTyped' /\ Moves(c, {"profile"})
  BY <1>1, <1>2, <1>3, CrossingFacts, KindFacts DEF CallersTyped, Moves
<1>6. \A d \in Callers : CallFits(d)' /\ ReadFits(d)'
  <2>1. CallFits(c)' /\ ReadFits(c)'
    BY <1>2 DEF CallFits, ReadFits
  <2> QED
    BY <1>5, <2>1, FitsStep
<1>7. \A x \in CacheNames : EntryFollows(x)'
  <2>1. CASE exists
    BY <1>0, <1>1, <1>2, <1>5, <2>1, CommitFollowed DEF Clears
  <2>2. CASE ~exists
    <3>1. Moves(c, {})
      BY <1>0, <1>5, <1>2, <2>2, CrossingFacts, KindFacts DEF Moves, Crossed
    <3> QED
      BY <1>0, <1>1, <2>2, <3>1, EntryStays DEF Clears
  <2> QED
    BY <2>1, <2>2
<1> QED
  BY <1>3, <1>4, <1>5, <1>6, <1>7

\* The one-query writes of an address: its row, then its opt-outs.
LEMMA AddressWritten ==
    ASSUME UsersInv, NEW fields, NEW call \in 0..MaxWrites,
           stored' = [stored EXCEPT !["address"] = Written(@, fields, call)],
           latest' = [latest EXCEPT !["address"] = Written(@, fields, call)],
           behind' = Outdated({"address"}, {}), UNCHANGED <<cached, clobbered>>
    PROVE  TablesTyped' /\ ProfileKept' /\ AddressKept' /\ stored'["profile"] = stored["profile"]
<1> USE DEF UsersInv
<1>1. /\ Written(stored["address"], fields, call) \in Values("address")
      /\ Written(latest["address"], fields, call) \in Values("address")
  BY WrittenTyped, KindFacts DEF TablesTyped
<1>2. /\ stored'["address"] = Written(stored["address"], fields, call)
      /\ latest'["address"] = Written(latest["address"], fields, call)
      /\ stored'["profile"] = stored["profile"] /\ latest'["profile"] = latest["profile"]
  BY KindFacts DEF TablesTyped
<1>3. /\ stored' \in [Kinds -> AnyValues] /\ latest' \in [Kinds -> AnyValues]
      /\ behind' \in [CacheNames -> SUBSET Reasons]
  BY <1>1, KindFacts, OutdatedFacts DEF TablesTyped
<1> QED
  BY <1>1, <1>2, <1>3, KindFacts DEF TablesTyped, ProfileKept, AddressKept

LEMMA BeginAddressStep ==
    ASSUME UsersInv, NEW c \in Callers, BeginAddress(c)
    PROVE  UsersInv'
<1> USE DEF UsersInv
<1>1. PICK next \in {"optOut", "clear"} :
         caller' = [Crossing("address") EXCEPT ![c] =
                       [AtRest EXCEPT !.pc = next, !.kind = "address", !.call = writes']]
  BY DEF BeginAddress
<1>2. /\ writes' \in 0..MaxWrites /\ UNCHANGED <<exists, cached, clobbered>>
      /\ caller[c].pc = "idle" /\ behind' = Outdated({"address"}, {}) /\ {} \in SUBSET Reasons
  BY UsersAssumption DEF BeginAddress, NewCall, CallersTyped
<1>3. /\ caller'[c] \in UserCalls /\ caller'[c].pc = next /\ caller'[c].kind = "address"
      /\ \A d \in Callers \ {c} : caller'[d] = Crossing("address")[d]
      /\ caller' \in [Callers -> UserCalls]
  <2>1. Crossing("address") \in [Callers -> UserCalls]
    BY CrossingFacts, KindFacts
  <2> QED
    BY <1>1, <1>2, <2>1, AtRestTyped, KindFacts DEF UserCalls
<1>4. TablesTyped' /\ ProfileKept' /\ AddressKept' /\ stored'["profile"] = stored["profile"]
  BY <1>2, AddressWritten DEF BeginAddress
<1>5. CallersTyped' /\ Moves(c, {"address"})
  BY <1>2, <1>3, <1>4, CrossingFacts, KindFacts DEF CallersTyped, Moves
<1>6. \A d \in Callers : CallFits(d)' /\ ReadFits(d)'
  <2>1. CallFits(c)' /\ ReadFits(c)'
    BY <1>3 DEF CallFits, ReadFits
  <2> QED
    BY <1>5, <2>1, FitsStep
<1>7. \A x \in CacheNames : EntryFollows(x)'
  BY <1>2, <1>5, CommitFollowed DEF Clears
<1> QED
  BY <1>4, <1>5, <1>6, <1>7

LEMMA WriteOptOutStep ==
    ASSUME UsersInv, NEW c \in Callers, WriteOptOut(c)
    PROVE  UsersInv'
<1> USE DEF UsersInv
<1>1. /\ caller[c].pc = "optOut" /\ caller[c].kind = "address" /\ caller[c] \in UserCalls
      /\ caller' = [Crossing("address") EXCEPT ![c].pc = "clear"]
      /\ UNCHANGED <<exists, cached, writes, clobbered>>
      /\ behind' = Outdated({"address"}, {}) /\ {} \in SUBSET Reasons
  BY DEF WriteOptOut, CallersTyped, CallFits
<1>2. /\ caller'[c] \in UserCalls /\ caller'[c].pc = "clear" /\ caller'[c].kind = "address"
      /\ \A d \in Callers \ {c} : caller'[d] = Crossing("address")[d]
      /\ caller' \in [Callers -> UserCalls]
  <2>1. Crossing("address") \in [Callers -> UserCalls] /\ Crossing("address")[c].kind = "address"
    BY <1>1, CrossingFacts, KindFacts DEF Crossed
  <2> QED
    BY <1>1, <2>1 DEF UserCalls
<1>3. TablesTyped' /\ ProfileKept' /\ AddressKept' /\ stored'["profile"] = stored["profile"]
  <2>1. caller[c].call \in 0..MaxWrites
    BY <1>1 DEF UserCalls
  <2> QED
    BY <1>1, <2>1, AddressWritten DEF WriteOptOut
<1>4. CallersTyped' /\ Moves(c, {"address"})
  BY <1>1, <1>2, <1>3, CrossingFacts, KindFacts DEF CallersTyped, Moves
<1>5. \A d \in Callers : CallFits(d)' /\ ReadFits(d)'
  <2>1. CallFits(c)' /\ ReadFits(c)'
    BY <1>2 DEF CallFits, ReadFits
  <2> QED
    BY <1>4, <2>1, FitsStep
<1>6. \A x \in CacheNames : EntryFollows(x)'
  BY <1>1, <1>4, CommitFollowed DEF Clears
<1> QED
  BY <1>3, <1>4, <1>5, <1>6

\* A request that ends touches no table, and no other request.
LEMMA ComesToRest ==
    ASSUME UsersInv, NEW c \in Callers, caller' = [caller EXCEPT ![c] = AtRest],
           UNCHANGED <<exists, stored, writes, latest, clobbered>>
    PROVE  /\ CallersTyped' /\ Moves(c, {}) /\ ProfileKept' /\ AddressKept'
           /\ \A d \in Callers : CallFits(d)' /\ ReadFits(d)'
           /\ /\ cached' \in [CacheNames -> SUBSET AnyValues] /\ behind' \in [CacheNames -> SUBSET Reasons]
              /\ \A x \in CacheNames : cached'[x] \subseteq Values(KindOf(x))
              => TablesTyped'
<1> USE DEF UsersInv
<1>1. caller'[c] = AtRest /\ caller' \in [Callers -> UserCalls]
      /\ \A d \in Callers \ {c} : caller'[d] = caller[d]
  BY AtRestTyped DEF CallersTyped
<1>2. CallersTyped' /\ Moves(c, {})
  BY <1>1, CrossedSelf DEF CallersTyped, Moves
<1>3. CallFits(c)' /\ ReadFits(c)'
  BY <1>1, AtRestTyped DEF CallFits, ReadFits
<1>4. \A d \in Callers : CallFits(d)' /\ ReadFits(d)'
  BY <1>2, <1>3, FitsStep
<1> QED
  BY <1>2, <1>4 DEF TablesTyped, ProfileKept, AddressKept

\* A cache is cleared, and whatever was held against its entry.
LEMMA UncacheFacts ==
    ASSUME UsersInv, NEW x, Uncache(x)
    PROVE  /\ cached' \in [CacheNames -> SUBSET AnyValues] /\ behind' \in [CacheNames -> SUBSET Reasons]
           /\ \A y \in CacheNames : cached'[y] \subseteq Values(KindOf(y))
           /\ x \in CacheNames => cached'[x] = {}
           /\ \A y \in CacheNames \ {x} : cached'[y] = cached[y] /\ behind'[y] = behind[y]
BY DEF UsersInv, TablesTyped, Uncache

\* A request that clears the API's own cache, if its kind has one there, leaves
\* every entry as it follows.
LEMMA OwnUncached ==
    ASSUME UsersInv, NEW c \in Callers, NEW k \in Kinds, UncacheOwn(k), Moves(c, {}),
           k = "address" => ~Clears(c)
    PROVE  /\ cached' \in [CacheNames -> SUBSET AnyValues] /\ behind' \in [CacheNames -> SUBSET Reasons]
           /\ \A y \in CacheNames : cached'[y] \subseteq Values(KindOf(y))
           /\ \A x \in CacheNames : EntryFollows(x)'
<1>0. \A x \in CacheNames : EntryFollows(x)
  BY DEF UsersInv
<1>1. CASE k = "profile"
  <2>1. Uncache("own")
    BY <1>1 DEF UncacheOwn
  <2>2. \A x \in CacheNames \ {"own"} : EntryFollows(x)'
    <3> TAKE x \in CacheNames \ {"own"}
    <3>1. cached'[x] = cached[x] /\ behind'[x] = behind[x] /\ x # "own"
      BY <2>1, UncacheFacts
    <3> QED
      BY <1>0, <3>1, EntryStays
  <2>3. "own" \in CacheNames => EntryFollows("own")'
    BY <2>1, UncacheFacts DEF EntryFollows
  <2> QED
    BY <2>1, <2>2, <2>3, UncacheFacts
<1>2. CASE k = "address"
  <2>1. UNCHANGED <<cached, behind>>
    BY <1>2 DEF UncacheOwn
  <2>2. \A x \in CacheNames : EntryFollows(x)'
    BY <1>0, <1>2, <2>1, EntryStays
  <2> QED
    BY <2>1, <2>2 DEF UsersInv, TablesTyped
<1> QED
  BY <1>1, <1>2 DEF Kinds

LEMMA OptOutFailsStep ==
    ASSUME UsersInv, NEW c \in Callers, OptOutFails(c)
    PROVE  UsersInv'
<1> USE DEF UsersInv
<1>1. UNCHANGED <<cached, behind>> /\ caller[c].kind = "address"
  BY DEF OptOutFails, CallFits
<1>2. /\ CallersTyped' /\ Moves(c, {}) /\ ProfileKept' /\ AddressKept' /\ TablesTyped'
      /\ \A d \in Callers : CallFits(d)' /\ ReadFits(d)'
  BY <1>1, ComesToRest DEF OptOutFails, TablesTyped
<1>3. \A x \in CacheNames : EntryFollows(x)'
  BY <1>1, <1>2, EntryStays DEF Clears
<1> QED
  BY <1>2, <1>3

LEMMA ClearCacheStep ==
    ASSUME UsersInv, NEW c \in Callers, ClearCache(c)
    PROVE  UsersInv'
<1> USE DEF UsersInv
<1>1. PICK k \in Kinds : k = caller[c].kind /\ UncacheOwn(k)
  BY DEF ClearCache, CallersTyped, UserCalls
<1>2. /\ CallersTyped' /\ Moves(c, {}) /\ ProfileKept' /\ AddressKept'
      /\ \A d \in Callers : CallFits(d)' /\ ReadFits(d)'
  BY ComesToRest DEF ClearCache
<1>3. /\ cached' \in [CacheNames -> SUBSET AnyValues] /\ behind' \in [CacheNames -> SUBSET Reasons]
      /\ \A y \in CacheNames : cached'[y] \subseteq Values(KindOf(y))
      /\ \A x \in CacheNames : EntryFollows(x)'
  BY <1>1, <1>2, OwnUncached DEF Clears
<1>4. TablesTyped'
  BY <1>3, ComesToRest DEF ClearCache
<1> QED
  BY <1>2, <1>3, <1>4

LEMMA EndReadStep ==
    ASSUME UsersInv, NEW c \in Callers, EndRead(c)
    PROVE  UsersInv'
<1> USE DEF UsersInv
<1>0. PICK x \in caller[c].into, k \in Kinds :
         /\ k = KindOf(x) /\ k = caller[c].kind /\ x \in CacheNames
         /\ cached' = [cached EXCEPT ![x] = {Shown([f \in FieldsOf(k) |->
                            IF f \in FirstOf(k) THEN caller[c].seen[f] ELSE stored[k][f]])}]
         /\ behind' = [behind EXCEPT ![x] = IF caller[c].crossed THEN {"crossed"} ELSE {}]
  <2>1. PICK x \in caller[c].into :
         /\ cached' = [cached EXCEPT ![x] = {Shown([f \in FieldsOf(KindOf(x)) |->
              IF f \in FirstOf(KindOf(x)) THEN caller[c].seen[f] ELSE stored[KindOf(x)][f]])}]
         /\ behind' = [behind EXCEPT ![x] = IF caller[c].crossed THEN {"crossed"} ELSE {}]
    BY DEF EndRead
  <2>2. KindOf(x) = caller[c].kind /\ x \in CacheNames
    BY DEF EndRead, ReadFits, CallersTyped, UserCalls
  <2> QED
    BY <2>1, <2>2, KindOfFacts
<1> DEFINE record == [f \in FieldsOf(k) |-> IF f \in FirstOf(k) THEN caller[c].seen[f] ELSE stored[k][f]]
<1>1. caller[c].pc = "load" /\ caller[c].seen \in Values(k) /\ stored' = stored
  BY <1>0 DEF EndRead, ReadFits
<1>2. record \in Values(k)
  BY <1>0, <1>1 DEF Values, TablesTyped
<1>3. ~caller[c].crossed => record = stored[k]
  BY <1>0, <1>1 DEF ReadFits, TablesTyped, Values
<1>4. /\ cached'[x] = {Shown(record)} /\ behind'[x] = IF caller[c].crossed THEN {"crossed"} ELSE {}
      /\ \A y \in CacheNames \ {x} : cached'[y] = cached[y] /\ behind'[y] = behind[y]
      /\ \A y \in CacheNames : cached'[y] \subseteq Values(KindOf(y))
      /\ cached' \in [CacheNames -> SUBSET AnyValues] /\ behind' \in [CacheNames -> SUBSET Reasons]
  <2>0. cached' = [cached EXCEPT ![x] = {Shown(record)}]
    BY <1>0
  <2> HIDE DEF record
  <2>1. {Shown(record)} \in SUBSET AnyValues /\ Shown(record) \in Values(KindOf(x))
    BY <1>0, <1>2, ShownFacts, KindFacts
  <2>2. cached'[x] = {Shown(record)} /\ \A y \in CacheNames \ {x} : cached'[y] = cached[y]
    BY <1>0, <2>0 DEF TablesTyped
  <2>3. cached' \in [CacheNames -> SUBSET AnyValues]
    BY <1>0, <2>0, <2>1 DEF TablesTyped
  <2> QED
    BY <1>0, <2>1, <2>2, <2>3 DEF TablesTyped, Reasons
<1>5. /\ CallersTyped' /\ Moves(c, {}) /\ ProfileKept' /\ AddressKept' /\ TablesTyped'
      /\ \A d \in Callers : CallFits(d)' /\ ReadFits(d)'
  BY <1>4, ComesToRest DEF EndRead
<1>6. EntryFollows(x)'
  <2> HIDE DEF record
  <2>1. caller[c].crossed => behind'[x] # {}
    BY <1>4
  <2>2. ~caller[c].crossed => cached'[x] = {Shown(stored'[KindOf(x)])}
    BY <1>0, <1>1, <1>3, <1>4
  <2> QED
    BY <2>1, <2>2 DEF EntryFollows
<1>7. \A y \in CacheNames \ {x} : EntryFollows(y)'
  BY <1>1, <1>4, <1>5, EntryStays DEF Clears
<1> QED
  BY <1>5, <1>6, <1>7

LEMMA BeginReadStep ==
    ASSUME UsersInv, NEW c \in Callers, NEW x \in CacheNames, BeginRead(c, x)
    PROVE  UsersInv'
<1> USE DEF UsersInv
<1>0. PICK k \in Kinds : k = KindOf(x)
  BY KindOfFacts
<1>1. /\ caller[c].pc = "idle" /\ UNCHANGED <<exists, stored, cached, writes, latest, clobbered, behind>>
      /\ caller' = [caller EXCEPT ![c] = [AtRest EXCEPT !.pc = "load", !.kind = k, !.into = {x},
                                                        !.seen = stored[k]]]
      /\ stored[k] \in Values(k) /\ stored[k] \in AnyValues
  BY <1>0, KindFacts DEF BeginRead, TablesTyped
<1>2. /\ caller'[c] \in UserCalls /\ caller'[c].pc = "load" /\ caller'[c].kind = k
      /\ caller'[c].into = {x}
      /\ caller'[c].seen = stored[k] /\ caller' \in [Callers -> UserCalls]
      /\ \A d \in Callers \ {c} : caller'[d] = caller[d]
  BY <1>1, AtRestTyped DEF CallersTyped, UserCalls
<1>3. CallersTyped' /\ Moves(c, {})
  BY <1>1, <1>2, CrossedSelf DEF CallersTyped, Moves
<1>4. \A d \in Callers : CallFits(d)' /\ ReadFits(d)'
  <2>1. CallFits(c)' /\ ReadFits(c)'
    BY <1>0, <1>1, <1>2 DEF CallFits, ReadFits
  <2> QED
    BY <1>3, <2>1, FitsStep
<1>5. \A y \in CacheNames : EntryFollows(y)'
  BY <1>1, <1>3, EntryStays DEF Clears
<1> QED
  BY <1>1, <1>3, <1>4, <1>5 DEF TablesTyped, ProfileKept, AddressKept

LEMMA BeginRemoveStep ==
    ASSUME UsersInv, NEW c \in Callers, NEW k \in Kinds, BeginRemove(c, k)
    PROVE  UsersInv'
<1> USE DEF UsersInv
<1>1. /\ caller[c].pc = "idle" /\ UncacheOwn(k) /\ UNCHANGED <<exists, stored, latest, clobbered>>
      /\ caller' = [caller EXCEPT ![c] = [AtRest EXCEPT !.pc = "remove", !.kind = k, !.call = writes']]
      /\ writes' \in 0..MaxWrites
  BY UsersAssumption DEF BeginRemove, NewCall, CallersTyped
<1>2. /\ caller'[c] \in UserCalls /\ caller'[c].pc = "remove" /\ caller' \in [Callers -> UserCalls]
      /\ \A d \in Callers \ {c} : caller'[d] = caller[d]
  BY <1>1, AtRestTyped DEF CallersTyped, UserCalls
<1>3. CallersTyped' /\ Moves(c, {})
  BY <1>1, <1>2, CrossedSelf DEF CallersTyped, Moves
<1>4. \A d \in Callers : CallFits(d)' /\ ReadFits(d)'
  <2>1. CallFits(c)' /\ ReadFits(c)'
    BY <1>2 DEF CallFits, ReadFits
  <2> QED
    BY <1>3, <2>1, FitsStep
<1>5. /\ cached' \in [CacheNames -> SUBSET AnyValues] /\ behind' \in [CacheNames -> SUBSET Reasons]
      /\ \A y \in CacheNames : cached'[y] \subseteq Values(KindOf(y))
      /\ \A x \in CacheNames : EntryFollows(x)'
  BY <1>1, <1>3, OwnUncached DEF Clears
<1>6. TablesTyped' /\ ProfileKept' /\ AddressKept'
  BY <1>1, <1>5 DEF TablesTyped, ProfileKept, AddressKept
<1> QED
  BY <1>3, <1>4, <1>5, <1>6

LEMMA CacheLapsesStep ==
    ASSUME UsersInv, NEW x \in CacheNames, CacheLapses(x)
    PROVE  UsersInv'
<1> USE DEF UsersInv
<1>1. Uncache(x) /\ UNCHANGED <<exists, stored, caller, writes, latest, clobbered>>
  BY DEF CacheLapses
<1>2. CallersTyped' /\ \A c \in Callers : CallFits(c)' /\ ReadFits(c)'
  BY <1>1 DEF CallersTyped, CallFits, ReadFits
<1>3. TablesTyped' /\ ProfileKept' /\ AddressKept'
  BY <1>1, UncacheFacts DEF TablesTyped, ProfileKept, AddressKept
<1>4. EntryFollows(x)'
  BY <1>1, UncacheFacts DEF EntryFollows
<1>5. \A y \in CacheNames \ {x} : EntryFollows(y)'
  BY <1>1, UncacheFacts DEF EntryFollows, Clears
<1> QED
  BY <1>2, <1>3, <1>4, <1>5

LEMMA CommitRemoveStep ==
    ASSUME UsersInv, NEW c \in Callers, CommitRemove(c)
    PROVE  UsersInv'
<1> USE DEF UsersInv
<1>1. PICK k \in Kinds : k = caller[c].kind
  BY DEF CallersTyped, UserCalls
<1>2. caller[c].pc = "remove" /\ caller[c] \in UserCalls /\ UNCHANGED <<cached, writes>>
  BY DEF CommitRemove, CallersTyped
<1>3. CASE k = "profile"
  <2>1. /\ exists' = FALSE /\ clobbered' = {}
        /\ stored' = [j \in Kinds |-> Unset(j)] /\ latest' = [j \in Kinds |-> Unset(j)]
        /\ behind' = Outdated(Kinds, {"cleared first"}) /\ {"cleared first"} \in SUBSET Reasons
        /\ caller' = [CrossingAny EXCEPT ![c] = AtRest]
    BY <1>1, <1>3 DEF CommitRemove, Reasons
  <2>2. /\ caller'[c] = AtRest /\ caller' \in [Callers -> UserCalls]
        /\ \A d \in Callers \ {c} : caller'[d] = CrossingAny[d]
    BY <2>1, AtRestTyped, CrossingFacts
  <2>3. CallersTyped' /\ Moves(c, Kinds)
    BY <1>2, <2>1, <2>2, CrossingFacts DEF CallersTyped, Moves
  <2>4. CallFits(c)' /\ ReadFits(c)'
    BY <2>2, AtRestTyped DEF CallFits, ReadFits
  <2>5. \A d \in Callers : CallFits(d)' /\ ReadFits(d)'
    BY <2>3, <2>4, FitsStep
  <2>6. TablesTyped'
    BY <1>2, <2>1, KindFacts, OutdatedFacts DEF TablesTyped
  <2>7. ProfileKept' /\ AddressKept'
    BY <2>1, KindFacts DEF ProfileKept, AddressKept
  <2>8. \A x \in CacheNames : EntryFollows(x)'
    BY <1>2, <2>1, <2>3, CommitFollowed DEF Clears
  <2> QED
    BY <2>3, <2>5, <2>6, <2>7, <2>8
<1>4. CASE k = "address"
  <2>1. /\ stored' = [stored EXCEPT ![k] = IF exists THEN Written(@, {"enabled"}, caller[c].call) ELSE @]
        /\ latest' = [latest EXCEPT ![k] = IF exists THEN Written(@, {"enabled"}, caller[c].call) ELSE @]
        /\ behind' = Outdated({k}, {}) /\ {} \in SUBSET Reasons
        /\ caller' = [Crossing(k) EXCEPT ![c] = AtRest]
        /\ UNCHANGED <<exists, clobbered>>
    BY <1>1, <1>4 DEF CommitRemove
  <2>2. /\ caller'[c] = AtRest /\ caller' \in [Callers -> UserCalls]
        /\ \A d \in Callers \ {c} : caller'[d] = Crossing(k)[d]
    BY <2>1, AtRestTyped, CrossingFacts
  <2>3. /\ stored'["profile"] = stored["profile"] /\ latest'["profile"] = latest["profile"]
        /\ stored'[k] \in Values(k) /\ latest'[k] \in Values(k) /\ stored'[k] = latest'[k]
        /\ stored' \in [Kinds -> AnyValues] /\ latest' \in [Kinds -> AnyValues]
    <3>1. caller[c].call \in 0..MaxWrites
      BY <1>2 DEF UserCalls
    <3>2. Written(stored[k], {"enabled"}, caller[c].call) \in Values(k)
      BY <3>1, WrittenTyped DEF TablesTyped
    <3>3. stored[k] = latest[k] /\ stored[k] \in Values(k) /\ Values(k) \subseteq AnyValues
      BY <1>4, KindFacts DEF AddressKept, TablesTyped
    <3> QED
      BY <1>4, <2>1, <3>2, <3>3, KindFacts DEF TablesTyped
  <2>4. TablesTyped' /\ ProfileKept' /\ AddressKept'
    BY <1>2, <1>4, <2>1, <2>3, OutdatedFacts, KindFacts DEF TablesTyped, ProfileKept, AddressKept
  <2>5. CallersTyped' /\ Moves(c, {k})
    BY <1>2, <1>4, <2>1, <2>2, <2>3, CrossingFacts, KindFacts DEF CallersTyped, Moves
  <2>6. CallFits(c)' /\ ReadFits(c)'
    BY <2>2, AtRestTyped DEF CallFits, ReadFits
  <2>7. \A d \in Callers : CallFits(d)' /\ ReadFits(d)'
    BY <2>5, <2>6, FitsStep
  <2>8. \A x \in CacheNames : EntryFollows(x)'
    BY <1>2, <1>4, <2>1, <2>5, CommitFollowed DEF Clears
  <2> QED
    BY <2>4, <2>5, <2>7, <2>8
<1> QED
  BY <1>3, <1>4 DEF Kinds

LEMMA UsersInvInit == UsersInit => UsersInv
<1> SUFFICES ASSUME UsersInit PROVE UsersInv
  OBVIOUS
<1>1. \A c \in Callers : caller[c] = AtRest
  BY DEF UsersInit
<1>2. CallersTyped
  <2>1. 0 \in 0..MaxWrites
    BY UsersAssumption
  <2> QED
    BY <2>1, AtRestTyped DEF UsersInit, CallersTyped
<1>3. TablesTyped /\ ProfileKept /\ AddressKept
  BY KindFacts DEF UsersInit, TablesTyped, ProfileKept, AddressKept, Reasons
<1>4. \A c \in Callers : CallFits(c) /\ ReadFits(c)
  BY <1>1, AtRestTyped DEF CallFits, ReadFits
<1>5. \A x \in CacheNames : EntryFollows(x)
  BY DEF UsersInit, EntryFollows
<1> QED
  BY <1>2, <1>3, <1>4, <1>5 DEF UsersInv

LEMMA UsersInvNext == UsersInv /\ [UsersNext]_usersVars => UsersInv'
<1> SUFFICES ASSUME UsersInv, [UsersNext]_usersVars PROVE UsersInv'
  OBVIOUS
<1>1. CASE UsersNext
  BY <1>1, ImportStep, BeginPatchStep, CommitPatchStep, BeginAddressStep, WriteOptOutStep,
     OptOutFailsStep, ClearCacheStep, CommitRemoveStep, EndReadStep, BeginReadStep,
     BeginRemoveStep, CacheLapsesStep DEF UsersNext
<1>2. CASE UNCHANGED usersVars
  BY <1>2 DEF usersVars, UsersInv, CallersTyped, TablesTyped, ProfileKept, AddressKept,
     EntryFollows, Clears, CallFits, ReadFits
<1> QED
  BY <1>1, <1>2

\* However imports, patches, writes of an address, deletions and reads of one user
\* cross, a field holds what the last call that named it wrote, or what a PATCH
\* wrote back from its read, be it the default of a field nobody set; and a cached
\* profile or address is the stored one but for the races the caches leave open and
\* for the writes that clear the cache of another process (upsertManyFull and
\* updatePartial, user.ts:292-297 and 449-463; user.ts:532, contact.ts:193,
\* enricher/main.ts:570-571).
THEOREM WritesStay == UsersSpec => []WritesAreKept
<1>1. UsersInv => WritesAreKept
  <2> SUFFICES ASSUME UsersInv PROVE WritesAreKept
    OBVIOUS
  <2>1. FieldsKept
    BY KindFacts DEF UsersInv, ProfileKept, AddressKept, FieldsKept
  <2>2. CacheFollows
    BY DEF UsersInv, EntryFollows, Clears, CacheFollows
  <2> QED
    BY <2>1, <2>2 DEF WritesAreKept
<1> QED
  BY <1>1, UsersInvInit, UsersInvNext, PTL DEF UsersSpec

(***************************************************************************)
(* Dead letters.                                                           *)
(***************************************************************************)

Copies(l) == replayed[l][Target(l)]
Holds(o, l) == operator[o].letter = {l}

\* A request at work holds the one letter it found.
RequestFits(o) ==
    IF operator[o].pc = "idle" THEN operator[o].letter = {} ELSE \E l \in Letters : Holds(o, l)

\* It is added to one stream, and gone only when it was deleted or added.
GoesOneWay(l) ==
    /\ \A s \in ReplayStreams : s # Target(l) => replayed[l][s] = 0
    /\ l \in removedBy => l \notin letters
    /\ l \notin letters => l \in removedBy \/ Copies(l) > 0
    /\ \A o \in Operators : Holds(o, l) /\ operator[o].pc = "drop" => Copies(l) > 0

\* Until two requests meet on it, one holds it at most, while it is there, and a
\* copy of it is that request's own.
HeldByOne(l) ==
    /\ \A o, p \in Operators : Holds(o, l) /\ Holds(p, l) => o = p
    /\ \A o \in Operators : Holds(o, l) => l \in letters
CopyIsOwn(l) ==
    /\ \A o \in Operators : Holds(o, l) /\ operator[o].pc # "drop" => Copies(l) = 0
    /\ Copies(l) <= 1
    /\ l \in removedBy => Copies(l) = 0
    /\ l \in letters /\ Copies(l) > 0 => \E o \in Operators : Holds(o, l) /\ operator[o].pc = "drop"
OneAtATime(l) == l \notin twice => HeldByOne(l) /\ CopyIsOwn(l)

\* No stream has more copies of a letter than were added in all.
CopiesCounted == \A l \in Letters, s \in ReplayStreams : replayed[l][s] <= replays

DeadInv ==
    /\ DeadLettersTypeOK /\ CopiesCounted
    /\ \A o \in Operators : RequestFits(o)
    /\ \A l \in Letters : GoesOneWay(l) /\ OneAtATime(l)

LEMMA TargetTyped == \A l \in Letters : Target(l) \in ReplayStreams
BY DeadLettersAssumption DEF Target

LEMMA DeadInvInit == DeadLettersInit => DeadInv
<1> SUFFICES ASSUME DeadLettersInit PROVE DeadInv
  OBVIOUS
<1>1. 0 \in 0..MaxReplays
  BY DeadLettersAssumption
<1>2. DeadLettersTypeOK
  BY <1>1 DEF DeadLettersInit, DeadLettersTypeOK, NoRequest
<1>3. \A o \in Operators : operator[o].pc = "idle" /\ operator[o].letter = {}
  BY DEF DeadLettersInit, NoRequest
<1>4. \A l \in Letters, s \in ReplayStreams : replayed[l][s] = 0
  BY DEF DeadLettersInit
<1>5. \A o \in Operators : RequestFits(o)
  BY <1>3 DEF RequestFits
<1>6. \A l \in Letters : GoesOneWay(l) /\ OneAtATime(l)
  BY <1>3, <1>4, TargetTyped DEF DeadLettersInit, GoesOneWay, OneAtATime, HeldByOne, CopyIsOwn, Copies, Holds
<1> QED
  BY <1>2, <1>4, <1>5, <1>6 DEF DeadInv, CopiesCounted, DeadLettersInit

\* What a replay adds, letter by letter and stream by stream.
LEMMA AddFacts ==
    ASSUME DeadLettersTypeOK, CopiesCounted, NEW o \in Operators, AddToStream(o)
    PROVE  /\ replays' \in 0..MaxReplays
           /\ \A l \in Letters, s \in ReplayStreams :
                 replayed'[l][s] = IF Holds(o, l) /\ s = Target(l) THEN replayed[l][s] + 1
                                   ELSE replayed[l][s]
           /\ replayed' \in [Letters -> [ReplayStreams -> 0..MaxReplays]] /\ CopiesCounted'
<1> USE DEF DeadLettersTypeOK
<1>1. replays' = replays + 1 /\ replays' \in 0..MaxReplays
  BY DeadLettersAssumption DEF AddToStream
<1>2. replayed' = [l \in Letters |-> IF operator[o].letter = {l}
                                     THEN [replayed[l] EXCEPT ![Target(l)] = @ + 1] ELSE replayed[l]]
  BY DEF AddToStream
<1>3. \A l \in Letters, s \in ReplayStreams : replayed[l][s] \in Nat /\ replayed[l][s] + 1 \in 0..MaxReplays
  BY <1>1, DeadLettersAssumption DEF CopiesCounted
<1>4. ASSUME NEW l \in Letters, NEW s \in ReplayStreams
      PROVE  replayed'[l][s] = IF Holds(o, l) /\ s = Target(l) THEN replayed[l][s] + 1 ELSE replayed[l][s]
  BY <1>2, TargetTyped DEF Holds
<1>5. ASSUME NEW l \in Letters PROVE replayed'[l] \in [ReplayStreams -> 0..MaxReplays]
  <2>1. CASE Holds(o, l)
    <3>1. replayed[l][Target(l)] + 1 \in 0..MaxReplays
      BY <1>3, TargetTyped
    <3>2. replayed'[l] = [replayed[l] EXCEPT ![Target(l)] = @ + 1]
      BY <1>2, <2>1 DEF Holds
    <3> QED
      BY <3>1, <3>2
  <2>2. CASE ~Holds(o, l)
    BY <1>2, <2>2 DEF Holds
  <2> QED
    BY <2>1, <2>2
<1>6. replayed' \in [Letters -> [ReplayStreams -> 0..MaxReplays]]
  BY <1>2, <1>5
<1>7. CopiesCounted'
  BY <1>1, <1>3, <1>4 DEF CopiesCounted
<1> QED
  BY <1>1, <1>4, <1>6, <1>7

\* Types, and what a request holds.
LEMMA DeadTypesStep ==
    ASSUME DeadLettersTypeOK, CopiesCounted, \A o \in Operators : RequestFits(o), DeadLettersNext
    PROVE  DeadLettersTypeOK' /\ CopiesCounted' /\ \A o \in Operators : RequestFits(o)'
<1> USE DEF DeadLettersTypeOK
<1>1. CASE ListLetters
  BY <1>1 DEF ListLetters, RequestFits, Holds, CopiesCounted
<1>2. ASSUME NEW o \in Operators, NEW l \in Letters, FindLetter(o, l)
      PROVE  DeadLettersTypeOK' /\ CopiesCounted' /\ \A p \in Operators : RequestFits(p)'
  <2>1. CASE l \in letters
    <3>1. PICK next \in {"add", "delete"} :
             operator' = [operator EXCEPT ![o] = [pc |-> next, letter |-> {l}]]
      BY <1>2, <2>1 DEF FindLetter
    <3>2. operator'[o].pc = next /\ operator'[o].letter = {l}
          /\ \A p \in Operators \ {o} : operator'[p] = operator[p]
      BY <3>1
    <3> QED
      BY <1>2, <3>1, <3>2 DEF FindLetter, Marked, RequestFits, Holds, CopiesCounted
  <2>2. CASE l \notin letters
    BY <1>2, <2>2 DEF FindLetter, Marked, RequestFits, Holds, CopiesCounted
  <2> QED
    BY <2>1, <2>2
<1>3. ASSUME NEW o \in Operators, AddToStream(o)
      PROVE  DeadLettersTypeOK' /\ CopiesCounted' /\ \A p \in Operators : RequestFits(p)'
  <2>1. replays' \in 0..MaxReplays
    BY <1>3, DeadLettersAssumption DEF AddToStream
  <2>2. PICK k \in Letters : Holds(o, k)
    BY <1>3 DEF AddToStream, RequestFits
  <2>3. operator' = [operator EXCEPT ![o].pc = "drop"]
        /\ UNCHANGED <<letters, shown, removedBy, twice>>
    BY <1>3 DEF AddToStream
  <2>4. replayed' \in [Letters -> [ReplayStreams -> 0..MaxReplays]]
    BY <1>3, AddFacts
  <2>5. CopiesCounted'
    BY <1>3, AddFacts
  <2> QED
    BY <2>1, <2>2, <2>3, <2>4, <2>5 DEF RequestFits, Holds
<1>4. ASSUME NEW o \in Operators, DropLetter(o) \/ DeleteLetter(o) \/ RequestFails(o)
      PROVE  DeadLettersTypeOK' /\ CopiesCounted' /\ \A p \in Operators : RequestFits(p)'
  <2>1. operator' = [operator EXCEPT ![o] = [pc |-> "idle", letter |-> {}]]
        /\ UNCHANGED <<replayed, replays, shown>>
    BY <1>4 DEF DropLetter, DeleteLetter, RequestFails, NoRequest
  <2>2. /\ operator'[o].pc = "idle" /\ operator'[o].letter = {}
        /\ \A p \in Operators \ {o} : operator'[p] = operator[p]
    BY <2>1
  <2>3. operator[o].letter \subseteq Letters
    OBVIOUS
  <2>4. letters' \subseteq Letters /\ removedBy' \subseteq Letters /\ twice' \subseteq Letters
    BY <1>4, <2>3 DEF DropLetter, DeleteLetter, RequestFails
  <2> QED
    BY <2>1, <2>2, <2>4 DEF RequestFits, Holds, CopiesCounted
<1> QED
  BY <1>1, <1>2, <1>3, <1>4 DEF DeadLettersNext

LEMMA LetterStep ==
    ASSUME DeadInv, DeadLettersNext, NEW k \in Letters
    PROVE  GoesOneWay(k)' /\ OneAtATime(k)'
<1> USE DEF DeadInv, DeadLettersTypeOK, Holds
<1>0. GoesOneWay(k) /\ OneAtATime(k) /\ Target(k) \in ReplayStreams
  BY TargetTyped
<1>1. CASE ListLetters
  BY <1>0, <1>1 DEF ListLetters, GoesOneWay, OneAtATime, HeldByOne, CopyIsOwn, Copies
<1>2. ASSUME NEW o \in Operators, NEW l \in Letters, FindLetter(o, l)
      PROVE  GoesOneWay(k)' /\ OneAtATime(k)'
  <2>1. CASE l \in letters
    <3>1. PICK next \in {"add", "delete"} :
             operator' = [operator EXCEPT ![o] = [pc |-> next, letter |-> {l}]]
      BY <1>2, <2>1 DEF FindLetter
    <3>2. /\ operator'[o].pc = next /\ operator'[o].letter = {l} /\ ~Holds(o, k)
          /\ \A p \in Operators \ {o} : operator'[p] = operator[p]
          /\ UNCHANGED <<letters, replayed, removedBy>>
          /\ twice \subseteq twice'
      BY <1>2, <3>1 DEF FindLetter, Marked, RequestFits
    <3>3. (\E p \in Operators \ {o} : Holds(p, l)) => l \in twice'
      BY <1>2, <2>1 DEF FindLetter, Marked, Other
    <3>4. GoesOneWay(k)'
      BY <1>0, <3>2 DEF GoesOneWay, Copies
    <3>5. CASE k = l
      <4>1. SUFFICES ASSUME k \notin twice' PROVE HeldByOne(k)' /\ CopyIsOwn(k)'
        BY <3>4 DEF OneAtATime
      <4>2. k \notin twice /\ \A p \in Operators : ~Holds(p, k)
        BY <3>2, <3>3, <3>5, <4>1
      <4>3. \A p \in Operators : Holds(p, k)' => p = o
        BY <3>2, <4>2
      <4>4. Copies(k)' = Copies(k) /\ Copies(k) \in Nat
        BY <1>0, <3>2 DEF Copies
      <4>5. Copies(k) = 0
        BY <1>0, <2>1, <3>5, <4>2, <4>4 DEF OneAtATime, HeldByOne, CopyIsOwn
      <4> QED
        BY <2>1, <3>2, <3>5, <4>3, <4>4, <4>5 DEF HeldByOne, CopyIsOwn
    <3>6. CASE k # l
      <4>1. ~Holds(o, k)' /\ (k \in twice' <=> k \in twice) /\ Copies(k)' = Copies(k)
        BY <1>2, <3>2, <3>6 DEF FindLetter, Marked, Copies
      <4>2. \A p \in Operators : (Holds(p, k)' <=> Holds(p, k))
                                 /\ (Holds(p, k) => operator'[p] = operator[p])
        BY <3>2, <4>1
      <4> QED
        <5> HIDE DEF Holds, DeadInv, DeadLettersTypeOK
        <5>1. HeldByOne(k) => HeldByOne(k)'
          BY <3>2, <4>2 DEF HeldByOne
        <5>2. CopyIsOwn(k) => CopyIsOwn(k)'
          BY <3>2, <4>1, <4>2 DEF CopyIsOwn
        <5> QED
          BY <1>0, <3>4, <4>1, <5>1, <5>2 DEF OneAtATime
    <3> QED
      BY <3>4, <3>5, <3>6
  <2>2. CASE l \notin letters
    <3>1. UNCHANGED <<operator, twice, letters, replayed, removedBy>>
      BY <1>2, <2>2 DEF FindLetter, Marked
    <3> QED
      BY <1>0, <3>1 DEF GoesOneWay, OneAtATime, HeldByOne, CopyIsOwn, Copies
  <2> QED
    BY <2>1, <2>2
<1>3. ASSUME NEW o \in Operators, AddToStream(o) PROVE GoesOneWay(k)' /\ OneAtATime(k)'
  <2>1. /\ operator'[o].pc = "drop" /\ operator'[o].letter = operator[o].letter
        /\ operator[o].pc = "add"
        /\ \A p \in Operators \ {o} : operator'[p] = operator[p]
        /\ UNCHANGED <<letters, removedBy, twice>>
    BY <1>3 DEF AddToStream
  <2>2. /\ Copies(k)' = IF Holds(o, k) THEN Copies(k) + 1 ELSE Copies(k)
        /\ Copies(k) \in Nat
        /\ \A s \in ReplayStreams : s # Target(k) => replayed'[k][s] = replayed[k][s]
    BY <1>0, <1>3, AddFacts DEF Copies
  <2>3. GoesOneWay(k)'
    BY <1>0, <2>1, <2>2 DEF GoesOneWay
  <2>4. OneAtATime(k)'
    <3>1. \A p \in Operators : Holds(p, k)' <=> Holds(p, k)
      BY <2>1
    <3>2. CASE Holds(o, k)
      <4>1. SUFFICES ASSUME k \notin twice PROVE HeldByOne(k)' /\ CopyIsOwn(k)'
        BY <2>1 DEF OneAtATime
      <4>2. Copies(k)' = 1 /\ k \in letters /\ k \notin removedBy
        BY <1>0, <2>1, <2>2, <3>2, <4>1 DEF OneAtATime, HeldByOne, CopyIsOwn, GoesOneWay
      <4>3. \A p \in Operators : Holds(p, k)' => p = o
        BY <1>0, <3>1, <3>2, <4>1 DEF OneAtATime, HeldByOne, CopyIsOwn
      <4> QED
        <5> HIDE DEF Holds, DeadInv, DeadLettersTypeOK
        <5>1. HeldByOne(k)'
          BY <2>1, <4>2, <4>3 DEF HeldByOne
        <5>2. CopyIsOwn(k)'
          BY <2>1, <3>1, <3>2, <4>2, <4>3 DEF CopyIsOwn
        <5> QED
          BY <5>1, <5>2
    <3>3. CASE ~Holds(o, k)
      <4>1. \A p \in Operators : Holds(p, k) => operator'[p] = operator[p]
        BY <2>1, <3>3
      <4> QED
        <5> HIDE DEF Holds, DeadInv, DeadLettersTypeOK
        <5>1. HeldByOne(k) => HeldByOne(k)'
          BY <2>1, <3>1 DEF HeldByOne
        <5>2. CopyIsOwn(k) => CopyIsOwn(k)'
          BY <2>1, <2>2, <3>1, <3>3, <4>1 DEF CopyIsOwn
        <5> QED
          BY <1>0, <2>1, <5>1, <5>2 DEF OneAtATime
    <3> QED
      BY <3>2, <3>3
  <2> QED
    BY <2>3, <2>4
<1>4. ASSUME NEW o \in Operators, DropLetter(o) \/ DeleteLetter(o) \/ RequestFails(o)
      PROVE  GoesOneWay(k)' /\ OneAtATime(k)'
  <2>1. /\ operator'[o].pc = "idle" /\ operator'[o].letter = {}
        /\ \A p \in Operators \ {o} : operator'[p] = operator[p]
        /\ UNCHANGED replayed /\ Copies(k)' = Copies(k) /\ Copies(k) \in Nat
        /\ twice \subseteq twice'
    BY <1>0, <1>4 DEF DropLetter, DeleteLetter, RequestFails, NoRequest, Copies
  <2>2. \A p \in Operators : Holds(p, k)' => p # o /\ Holds(p, k) /\ operator'[p] = operator[p]
    BY <2>1
  <2>3. CASE ~Holds(o, k)
    <3>1. k \notin operator[o].letter
      BY <2>3 DEF RequestFits
    <3>2. /\ (k \in letters' <=> k \in letters) /\ (k \in removedBy' <=> k \in removedBy)
          /\ (k \in twice' <=> k \in twice)
      BY <1>4, <3>1 DEF DropLetter, DeleteLetter, RequestFails
    <3>3. \A p \in Operators : Holds(p, k) => p # o /\ Holds(p, k)' /\ operator'[p] = operator[p]
      BY <2>1, <2>3
    <3> QED
      BY <1>0, <2>1, <2>2, <3>2, <3>3 DEF GoesOneWay, OneAtATime, HeldByOne, CopyIsOwn
  <2>4. CASE Holds(o, k) /\ DropLetter(o)
    <3>1. /\ k \notin letters' /\ removedBy' = removedBy /\ twice' = twice
          /\ operator[o].pc = "drop"
      BY <2>4 DEF DropLetter
    <3> QED
      BY <1>0, <2>1, <2>2, <2>4, <3>1 DEF GoesOneWay, OneAtATime, HeldByOne, CopyIsOwn
  <2>5. CASE Holds(o, k) /\ DeleteLetter(o)
    <3>1. /\ k \notin letters' /\ k \in removedBy' /\ twice' = twice
          /\ operator[o].pc = "delete"
      BY <2>5 DEF DeleteLetter
    <3> QED
      BY <1>0, <2>1, <2>2, <2>5, <3>1 DEF GoesOneWay, OneAtATime, HeldByOne, CopyIsOwn
  <2>6. CASE Holds(o, k) /\ RequestFails(o)
    <3>1. /\ letters' = letters /\ removedBy' = removedBy
          /\ operator[o].pc = "drop" => k \in twice'
      BY <2>6 DEF RequestFails
    <3> QED
      BY <1>0, <2>1, <2>2, <2>6, <3>1 DEF GoesOneWay, OneAtATime, HeldByOne, CopyIsOwn
  <2> QED
    BY <1>4, <2>3, <2>4, <2>5, <2>6
<1> QED
  BY <1>1, <1>2, <1>3, <1>4 DEF DeadLettersNext

LEMMA DeadInvNext == DeadInv /\ [DeadLettersNext]_deadVars => DeadInv'
<1> SUFFICES ASSUME DeadInv, [DeadLettersNext]_deadVars PROVE DeadInv'
  OBVIOUS
<1>1. CASE DeadLettersNext
  BY <1>1, DeadTypesStep, LetterStep DEF DeadInv
<1>2. CASE UNCHANGED deadVars
  BY <1>2 DEF deadVars, DeadInv, DeadLettersTypeOK, CopiesCounted, RequestFits, Holds,
     GoesOneWay, OneAtATime, HeldByOne, CopyIsOwn, Copies
<1> QED
  BY <1>1, <1>2

\* For any letters and any requests that cross: a dead letter that is gone was
\* deleted or is back on its stream, once, and one that is still listed has a copy
\* only while its replay has yet to delete it, unless two requests held it together
\* or a deletion failed (replayDLQMessage and deleteDLQMessage, system.ts:252-277).
THEOREM LettersGoOnce == DeadLettersSpec => []LettersCountOnce
<1>1. ASSUME DeadInv PROVE LettersCountOnce
  <2> USE <1>1 DEF DeadInv, DeadLettersTypeOK
  <2>1. ASSUME NEW l \in Letters
        PROVE  /\ Added(l) = IF Copies(l) > 0 THEN {Target(l)} ELSE {}
               /\ Copies(l) \in Nat
    BY TargetTyped DEF GoesOneWay, Added, Copies
  <2>2. ReplayedOnce
    <3>1. ASSUME NEW l \in Letters, l \notin letters
          PROVE  l \in removedBy \/ Added(l) = {Target(l)}
      BY <2>1, <3>1 DEF GoesOneWay
    <3>2. ASSUME NEW l \in Letters, l \notin twice
          PROVE  /\ \A s \in ReplayStreams : replayed[l][s] <= 1
                 /\ ~(l \in removedBy /\ Added(l) # {})
      BY <2>1, <3>2 DEF GoesOneWay, OneAtATime, HeldByOne, CopyIsOwn, Copies
    <3> QED
      BY <3>1, <3>2 DEF ReplayedOnce
  <2>3. NotBoth
    <3>1. SUFFICES ASSUME NEW l \in letters, Added(l) # {}, l \notin twice
                   PROVE  \E o \in Operators : operator[o] = [pc |-> "drop", letter |-> {l}]
      BY DEF NotBoth
    <3>2. Copies(l) > 0
      BY <2>1, <3>1
    <3>3. PICK o \in Operators : Holds(o, l) /\ operator[o].pc = "drop"
      BY <3>1, <3>2 DEF OneAtATime, HeldByOne, CopyIsOwn
    <3> QED
      BY <3>3 DEF Holds
  <2> QED
    BY <2>2, <2>3 DEF LettersCountOnce
<1> QED
  BY <1>1, DeadInvInit, DeadInvNext, PTL DEF DeadLettersSpec

(***************************************************************************)
(* Requests for notifications.                                             *)
(***************************************************************************)

\* A request has its list, and publishes it once its inline users are stored.
PostFits ==
    post.pc # "idle" =>
        /\ post.targets \in Bodies /\ post.published <= Len(post.targets)
        /\ posts > 0
        /\ post.pc \in {"publish", "answer"} => ToSet(post.targets) \cap Inline \subseteq known
        /\ post.pc = "answer" => post.published = Len(post.targets)

\* The id of an event: of a position its target has in some list, or of its own
\* request.
IdFits(e) ==
    IF ownKey THEN \E p \in Positions(e.target) : e.id = <<"key", p>>
    ELSE \E n \in 1..posts, i \in Nat :
            /\ e.id = <<n, i>>
            /\ n = posts /\ post.pc # "idle" => i \in 1..Len(post.targets) /\ e.target = post.targets[i]
EventFits(e) ==
    /\ e.target \in Targets
    /\ e.target \in Inline => e.target \in known
    /\ IdFits(e)
EventsFit == \A e \in inbound \cup taken : EventFits(e)

\* Without a key of the caller's, no two targets share an id.
IdsDiffer ==
    ~ownKey => \A e, f \in inbound \cup taken : e.id = f.id => e.target = f.target

\* An id is taken once, and each taking is one notification.
TakenOf(t) == {e \in taken : e.target = t}
TakenOnce ==
    /\ IsFiniteSet(taken)
    /\ \A e \in taken : e = [id |-> e.id, target |-> e.target] /\ fanned[e.target] > 0
    /\ \A e, f \in taken : e.id = f.id => e = f
    /\ \A t \in Targets : fanned[t] <= Cardinality(TakenOf(t))

\* What AcceptedIsSent promises of a target holds from its publishing on.
OnItsWay(t) ==
    \/ fanned[t] > 0
    \/ \E e \in inbound : e.target = t
    \/ ownKey /\ \E u \in Targets \ {t} : Positions(t) \cap Positions(u) # {}
PublishedIsOnItsWay ==
    /\ \A t \in answered202 : OnItsWay(t)
    /\ post.pc # "idle" => \A i \in 1..post.published : OnItsWay(post.targets[i])

NotifyInv ==
    /\ NotifyTypeOK /\ PostFits /\ EventsFit /\ IdsDiffer /\ TakenOnce /\ PublishedIsOnItsWay

LEMMA Lists ==
    ASSUME NEW b \in Bodies
    PROVE  /\ Len(b) \in Nat /\ DOMAIN b = 1..Len(b)
           /\ \A i \in 1..Len(b) : b[i] \in ToSet(b) /\ b[i] \in Targets
           /\ \A t \in ToSet(b) : \E i \in 1..Len(b) : b[i] = t
           /\ ToSet(b) \subseteq Targets
<1>1. b \in Seq(ToSet(b))
  BY NotifyAssumption
<1>2. Len(b) \in Nat /\ DOMAIN b = 1..Len(b)
  BY <1>1
<1>3. ToSet(b) = {b[i] : i \in 1..Len(b)}
  BY <1>2 DEF ToSet
<1>4. ToSet(b) \subseteq Targets
  BY DEF Targets
<1> QED
  BY <1>2, <1>3, <1>4

\* A place of a target in a list is one of its positions.
LEMMA PositionOf ==
    ASSUME NEW b \in Bodies, NEW i \in 1..Len(b)
    PROVE  (IF Len(b) > 1 THEN i ELSE 0) \in Positions(b[i])
BY Lists DEF Positions

LEMMA PositionsFinite ==
    ASSUME NEW t \in Targets
    PROVE  IsFiniteSet(Positions(t))
<1> DEFINE Of(b) == {IF Len(b) > 1 THEN i ELSE 0 : i \in {j \in DOMAIN b : b[j] = t}}
           Each == [b \in Bodies |-> Of(b)]
           All == {Of(b) : b \in Bodies}
<1>1. Each \in Surjection(Bodies, All)
  BY DEF Surjection
<1>2. IsFiniteSet(All)
  BY <1>1, FS_Surjection, NotifyAssumption
<1>3. ASSUME NEW b \in Bodies PROVE IsFiniteSet(Of(b))
  <2>1. Of(b) \subseteq 0..Len(b)
    BY Lists
  <2>2. IsFiniteSet(0..Len(b))
    BY Lists, FS_Interval
  <2> QED
    BY <2>1, <2>2, FS_Subset
<1>4. \A S \in All : IsFiniteSet(S)
  BY <1>3
<1> HIDE DEF Of
<1>5. IsFiniteSet(UNION All)
  BY <1>2, <1>4, FS_UNION
<1> QED
  BY <1>5 DEF Positions, Of

LEMMA NotifyInvInit == NotifyInit => NotifyInv
<1> SUFFICES ASSUME NotifyInit PROVE NotifyInv
  OBVIOUS
<1> USE DEF NotifyInit
<1>1. NotifyTypeOK
  BY NotifyAssumption DEF NotifyTypeOK, NoPost
<1>2. PostFits /\ EventsFit /\ IdsDiffer /\ PublishedIsOnItsWay
  BY DEF PostFits, EventsFit, IdsDiffer, PublishedIsOnItsWay, NoPost
<1>3. TakenOnce
  <2>1. \A t \in Targets : TakenOf(t) = {} /\ fanned[t] = 0
    BY DEF TakenOf
  <2> QED
    BY <2>1, FS_EmptySet DEF TakenOnce
<1> QED
  BY <1>1, <1>2, <1>3 DEF NotifyInv

\* The next chunk of a request.
LEMMA ChunkFacts ==
    ASSUME NotifyInv, post.pc = "publish"
    PROVE  /\ post.targets \in Bodies /\ post.published \in Nat
           /\ LastOfChunk \in post.published..Len(post.targets)
           /\ \A e \in ChunkEvents : \E i \in 1..Len(post.targets) :
                 i \in (post.published + 1)..LastOfChunk /\
                 e.target = post.targets[i] /\ e.id = EventId(i)
           /\ \A i \in (post.published + 1)..LastOfChunk :
                 \E e \in ChunkEvents : e.target = post.targets[i]
<1>1. post.targets \in Bodies /\ post.published \in Nat /\ post.published <= Len(post.targets)
  BY DEF NotifyInv, NotifyTypeOK, PostFits
<1>2. Len(post.targets) \in Nat
  BY <1>1, Lists
<1>3. LastOfChunk \in post.published..Len(post.targets)
  BY <1>1, <1>2, NotifyAssumption DEF LastOfChunk, Upto
<1> DEFINE Event(i) == [id |-> EventId(i), post |-> posts, target |-> post.targets[i]]
<1>4. ChunkEvents = {Event(i) : i \in (post.published + 1)..LastOfChunk}
  BY DEF ChunkEvents
<1>5. \A i : Event(i).target = post.targets[i] /\ Event(i).id = EventId(i)
  OBVIOUS
<1>6. \A i \in (post.published + 1)..LastOfChunk : i \in 1..Len(post.targets)
  BY <1>1, <1>2, <1>3
<1> HIDE DEF Event
<1> QED
  BY <1>1, <1>3, <1>4, <1>5, <1>6

\* Its events fit, and none of them has the id of another target's.
LEMMA ChunkFits ==
    ASSUME NotifyInv, post.pc = "publish", NEW e \in ChunkEvents
    PROVE  /\ EventFits(e)
           /\ ~ownKey => \A f \in inbound \cup taken \cup ChunkEvents :
                            e.id = f.id => e.target = f.target
<1>1. PICK i \in 1..Len(post.targets) : e.target = post.targets[i] /\ e.id = EventId(i)
  BY ChunkFacts
<1>2. post.targets \in Bodies /\ Len(post.targets) \in Nat /\ posts \in Nat /\ posts > 0
  BY Lists DEF NotifyInv, NotifyTypeOK, PostFits
<1>3. e.target \in Targets /\ (e.target \in Inline => e.target \in known)
  BY <1>1, <1>2, Lists DEF NotifyInv, PostFits
<1>4. CASE ownKey
  <2>1. e.id = <<"key", IF Len(post.targets) > 1 THEN i ELSE 0>>
    BY <1>1, <1>4 DEF EventId
  <2>2. IdFits(e)
    BY <2>1, <1>1, <1>2, <1>4, PositionOf DEF IdFits
  <2> QED
    BY <2>2, <1>3, <1>4 DEF EventFits
<1>5. CASE ~ownKey
  <2>1. e.id = <<posts, i>>
    BY <1>1, <1>5 DEF EventId
  <2>2. IdFits(e)
    BY <2>1, <1>1, <1>2, <1>5 DEF IdFits
  <2>3. ASSUME NEW f \in inbound \cup taken, e.id = f.id PROVE e.target = f.target
    <3>1. PICK n \in 1..posts, j \in Nat :
            /\ f.id = <<n, j>>
            /\ n = posts /\ post.pc # "idle" => f.target = post.targets[j]
      BY <1>5, <2>3 DEF NotifyInv, EventsFit, EventFits, IdFits
    <3>2. n = posts /\ j = i
      BY <3>1, <2>1, <2>3
    <3> QED
      BY <3>1, <3>2, <1>1
  <2>4. ASSUME NEW f \in ChunkEvents, e.id = f.id PROVE e.target = f.target
    <3>1. PICK j \in 1..Len(post.targets) : f.target = post.targets[j] /\ f.id = EventId(j)
      BY ChunkFacts
    <3>2. f.id = <<posts, j>>
      BY <3>1, <1>5 DEF EventId
    <3> QED
      BY <3>1, <3>2, <2>1, <2>4, <1>1
  <2> QED
    BY <2>2, <2>3, <2>4, <1>3 DEF EventFits
<1> QED
  BY <1>4, <1>5

\* Publishing some of them keeps what was said of the events.
LEMMA ChunkPublished ==
    ASSUME NotifyInv, post.pc = "publish", NEW some \in SUBSET ChunkEvents,
           inbound' = inbound \cup some,
           UNCHANGED <<ownKey, posts, known, taken>>,
           post'.pc = "idle" \/ (post'.pc # "idle" /\ post'.targets = post.targets)
    PROVE  EventsFit' /\ IdsDiffer'
<1>1. ASSUME NEW e, EventFits(e) PROVE EventFits(e)'
  BY <1>1 DEF EventFits, IdFits, Positions, Targets
<1>2. EventsFit'
  BY <1>1, ChunkFits DEF NotifyInv, EventsFit
<1>3. IdsDiffer'
  BY ChunkFits DEF NotifyInv, IdsDiffer
<1> QED
  BY <1>2, <1>3

\* What is on its way stays so while events are only added.
LEMMA StaysOnItsWay ==
    ASSUME inbound \subseteq inbound', UNCHANGED <<ownKey, fanned>>, NEW t, OnItsWay(t)
    PROVE  OnItsWay(t)'
BY DEF OnItsWay, Positions, Targets

LEMMA PostStep == ASSUME NotifyInv, Post PROVE NotifyInv'
<1> USE DEF Post
<1>1. PICK body \in Bodies : post' = [pc |-> "persist", targets |-> body, published |-> 0]
  OBVIOUS
<1>2. post.pc = "idle" /\ posts \in Nat /\ posts' = posts + 1
  BY NotifyAssumption DEF NotifyInv, NotifyTypeOK
<1>3. NotifyTypeOK'
  BY <1>1, <1>2, NotifyAssumption DEF NotifyInv, NotifyTypeOK, Targets
<1>4. PostFits'
  BY <1>1, <1>2, Lists DEF PostFits
<1>5. EventsFit'
  <2>1. ASSUME NEW e, EventFits(e) PROVE EventFits(e)'
    BY <2>1, <1>2 DEF EventFits, IdFits, Positions, Targets
  <2> QED
    BY <2>1 DEF NotifyInv, EventsFit
<1>6. IdsDiffer' /\ TakenOnce'
  BY DEF NotifyInv, IdsDiffer, TakenOnce, TakenOf, Targets
<1>7. PublishedIsOnItsWay'
  <2>1. \A t : OnItsWay(t) => OnItsWay(t)'
    BY StaysOnItsWay
  <2> QED
    BY <2>1, <1>1 DEF NotifyInv, PublishedIsOnItsWay
<1> QED
  BY <1>3, <1>4, <1>5, <1>6, <1>7 DEF NotifyInv

LEMMA PersistStep == ASSUME NotifyInv, PersistInline PROVE NotifyInv'
<1> USE DEF PersistInline
<1>1. post.pc = "persist" /\ post' = [post EXCEPT !.pc = "publish"]
  OBVIOUS
<1>2. /\ post'.pc = "publish" /\ post'.targets = post.targets /\ post'.published = post.published
      /\ post'.targets \in Bodies
  BY <1>1 DEF NotifyInv, NotifyTypeOK, PostFits
<1>3. NotifyTypeOK'
  BY <1>1, <1>2, Lists DEF NotifyInv, NotifyTypeOK, Targets
<1>4. PostFits'
  BY <1>1, <1>2 DEF NotifyInv, PostFits
<1>5. EventsFit'
  <2>1. ASSUME NEW e, EventFits(e) PROVE EventFits(e)'
    BY <2>1, <1>1, <1>2 DEF EventFits, IdFits, Positions, Targets
  <2> QED
    BY <2>1 DEF NotifyInv, EventsFit
<1>6. IdsDiffer' /\ TakenOnce'
  BY DEF NotifyInv, IdsDiffer, TakenOnce, TakenOf, Targets
<1>7. PublishedIsOnItsWay'
  <2>1. \A t : OnItsWay(t) => OnItsWay(t)'
    BY StaysOnItsWay
  <2> QED
    BY <2>1, <1>1, <1>2 DEF NotifyInv, NotifyTypeOK, PublishedIsOnItsWay
<1> QED
  BY <1>3, <1>4, <1>5, <1>6, <1>7 DEF NotifyInv

LEMMA PublishStep == ASSUME NotifyInv, PublishChunk PROVE NotifyInv'
<1> USE DEF PublishChunk
<1>1. /\ post'.pc = (IF LastOfChunk = Len(post.targets) THEN "answer" ELSE "publish")
      /\ post'.targets = post.targets /\ post'.published = LastOfChunk
  BY DEF NotifyInv, NotifyTypeOK
<1>2. /\ post.targets \in Bodies /\ post.published \in Nat /\ Len(post.targets) \in Nat
      /\ LastOfChunk \in post.published..Len(post.targets)
  BY ChunkFacts, Lists
<1>3. NotifyTypeOK'
  <2>1. post' \in [pc : {"idle", "persist", "publish", "answer"},
                    targets : Bodies \cup {<<>>}, published : Nat]
    <3>1. LastOfChunk \in Nat
      BY <1>2
    <3> QED
      BY <3>1 DEF NotifyInv, NotifyTypeOK
  <2>2. \A e \in ChunkEvents : e.target \in Targets
    BY ChunkFits DEF EventFits
  <2> QED
    BY <2>1, <2>2 DEF NotifyInv, NotifyTypeOK, Targets
<1>4. PostFits'
  BY <1>1, <1>2 DEF NotifyInv, PostFits
<1>5. EventsFit' /\ IdsDiffer'
  BY <1>1, ChunkPublished
<1>6. TakenOnce'
  BY DEF NotifyInv, TakenOnce, TakenOf, Targets
<1>7. PublishedIsOnItsWay'
  <2>1. \A t : OnItsWay(t) => OnItsWay(t)'
    BY StaysOnItsWay
  <2>2. ASSUME NEW i \in 1..LastOfChunk PROVE OnItsWay(post.targets[i]) \/ i > post.published
    BY <1>2 DEF NotifyInv, PublishedIsOnItsWay
  <2>3. ASSUME NEW i \in 1..LastOfChunk, i > post.published
        PROVE  \E e \in inbound' : e.target = post.targets[i]
    <3>1. i \in (post.published + 1)..LastOfChunk
      BY <2>3, <1>2
    <3> QED
      BY <3>1, ChunkFacts
  <2>4. ASSUME NEW i \in 1..LastOfChunk PROVE \A t : t = post.targets[i] => OnItsWay(t)'
    BY <2>1, <2>2, <2>3 DEF OnItsWay
  <2>5. \A t \in answered202' : OnItsWay(t)'
    BY <2>1 DEF NotifyInv, PublishedIsOnItsWay
  <2> QED
    BY <2>4, <2>5, <1>1 DEF PublishedIsOnItsWay
<1> QED
  BY <1>3, <1>4, <1>5, <1>6, <1>7 DEF NotifyInv

LEMMA AnswerStep == ASSUME NotifyInv, AnswerPost PROVE NotifyInv'
<1> USE DEF AnswerPost, NoPost
<1>1. post.targets \in Bodies /\ post.published = Len(post.targets)
  BY DEF NotifyInv, PostFits
<1>2. NotifyTypeOK'
  BY <1>1, Lists DEF NotifyInv, NotifyTypeOK, Targets
<1>3. PostFits'
  BY DEF PostFits
<1>4. EventsFit'
  <2>1. ASSUME NEW e, EventFits(e) PROVE EventFits(e)'
    BY <2>1 DEF EventFits, IdFits, Positions, Targets
  <2> QED
    BY <2>1 DEF NotifyInv, EventsFit
<1>5. IdsDiffer' /\ TakenOnce'
  BY DEF NotifyInv, IdsDiffer, TakenOnce, TakenOf, Targets
<1>6. PublishedIsOnItsWay'
  <2>1. \A t : OnItsWay(t) => OnItsWay(t)'
    BY StaysOnItsWay
  <2>2. \A t \in ToSet(post.targets) : OnItsWay(t)
    BY <1>1, Lists DEF NotifyInv, PublishedIsOnItsWay
  <2> QED
    BY <2>1, <2>2 DEF NotifyInv, PublishedIsOnItsWay
<1> QED
  BY <1>2, <1>3, <1>4, <1>5, <1>6 DEF NotifyInv

LEMMA FailStep == ASSUME NotifyInv, PostFails PROVE NotifyInv'
<1> USE DEF PostFails, NoPost
<1>1. PICK some \in SUBSET (IF post.pc = "publish" THEN ChunkEvents ELSE {}) :
        inbound' = inbound \cup some
  OBVIOUS
<1>2. NotifyTypeOK'
  <2>1. \A e \in some : e.target \in Targets
    BY <1>1, ChunkFits DEF EventFits
  <2> QED
    BY <1>1, <2>1 DEF NotifyInv, NotifyTypeOK, Targets
<1>3. PostFits'
  BY DEF PostFits
<1>4. EventsFit' /\ IdsDiffer'
  <2>1. CASE post.pc = "publish"
    BY <1>1, <2>1, ChunkPublished
  <2>2. CASE post.pc # "publish"
    <3>1. ASSUME NEW e, EventFits(e) PROVE EventFits(e)'
      BY <3>1 DEF EventFits, IdFits, Positions, Targets
    <3>2. inbound' = inbound
      BY <1>1, <2>2
    <3> QED
      BY <3>1, <3>2 DEF NotifyInv, EventsFit, IdsDiffer
  <2> QED
    BY <2>1, <2>2
<1>5. TakenOnce'
  BY DEF NotifyInv, TakenOnce, TakenOf, Targets
<1>6. PublishedIsOnItsWay'
  <2>1. \A t : OnItsWay(t) => OnItsWay(t)'
    BY <1>1, StaysOnItsWay
  <2> QED
    BY <2>1 DEF NotifyInv, PublishedIsOnItsWay
<1> QED
  BY <1>2, <1>3, <1>4, <1>5, <1>6 DEF NotifyInv

LEMMA TakeStep == ASSUME NotifyInv, NEW e \in inbound, TakeInbound(e) PROVE NotifyInv'
<1> DEFINE new == [id |-> e.id, target |-> e.target]
           repeated == \E t \in taken : t.id = e.id
<1>1. /\ inbound' = inbound \ {e} /\ UNCHANGED <<ownKey, post, posts, known, answered202>>
      /\ repeated => UNCHANGED <<taken, fanned>>
      /\ ~repeated => taken' = taken \cup {new}
  BY DEF TakeInbound
<1>2. EventFits(e)
  BY DEF NotifyInv, EventsFit
<1>3. ~repeated => fanned' = [fanned EXCEPT ![e.target] = @ + 1]
  BY <1>2 DEF TakeInbound, EventFits
<1>4. \A t \in Targets : fanned[t] \in Nat /\ fanned'[t] \in Nat /\ fanned'[t] >= fanned[t]
  BY <1>1, <1>2, <1>3 DEF NotifyInv, NotifyTypeOK, EventFits
<1>5. NotifyTypeOK'
  BY <1>1, <1>2, <1>3 DEF NotifyInv, NotifyTypeOK, EventFits, Targets
<1>6. PostFits'
  BY <1>1 DEF NotifyInv, PostFits
<1>7. EventsFit'
  <2>1. ASSUME NEW f, EventFits(f) PROVE EventFits(f)'
    BY <2>1, <1>1 DEF EventFits, IdFits, Positions, Targets
  <2>2. EventFits(new)
    BY <1>2 DEF EventFits, IdFits
  <2> QED
    BY <1>1, <2>1, <2>2 DEF NotifyInv, EventsFit
<1>8. IdsDiffer'
  BY <1>1 DEF NotifyInv, IdsDiffer
<1>9. TakenOnce'
  <2>1. CASE repeated
    BY <2>1, <1>1 DEF NotifyInv, TakenOnce, TakenOf, Targets
  <2>2. CASE ~repeated
    <3>1. taken' = taken \cup {new} /\ new \notin taken /\ new.target = e.target /\ new.id = e.id
      BY <2>2, <1>1
    <3>2. IsFiniteSet(taken) /\ IsFiniteSet(taken')
      BY <3>1, FS_AddElement DEF NotifyInv, TakenOnce
    <3>3. \A f \in taken' : f = [id |-> f.id, target |-> f.target] /\ fanned'[f.target] > 0
      BY <3>1, <2>2, <1>2, <1>3, <1>4 DEF NotifyInv, NotifyTypeOK, TakenOnce, EventFits
    <3>4. \A f, g \in taken' : f.id = g.id => f = g
      BY <3>1, <2>2 DEF NotifyInv, TakenOnce
    <3>5. ASSUME NEW t \in Targets PROVE fanned'[t] <= Cardinality(TakenOf(t)')
      <4>1. IsFiniteSet(TakenOf(t)) /\ Cardinality(TakenOf(t)) \in Nat
        BY <3>2, FS_Subset, FS_CardinalityType DEF TakenOf
      <4>2. fanned[t] <= Cardinality(TakenOf(t))
        BY DEF NotifyInv, TakenOnce
      <4>3. CASE t = e.target
        <5>1. TakenOf(t)' = TakenOf(t) \cup {new} /\ new \notin TakenOf(t)
          BY <3>1, <4>3 DEF TakenOf
        <5>2. Cardinality(TakenOf(t)') = Cardinality(TakenOf(t)) + 1
          BY <5>1, <4>1, FS_AddElement
        <5>3. fanned'[t] = fanned[t] + 1
          BY <2>2, <1>3, <4>3, <1>2 DEF NotifyInv, NotifyTypeOK, EventFits
        <5> QED
          BY <5>2, <5>3, <4>1, <4>2, <1>4
      <4>4. CASE t # e.target
        <5>1. TakenOf(t)' = TakenOf(t)
          BY <3>1, <4>4 DEF TakenOf
        <5>2. fanned'[t] = fanned[t]
          BY <2>2, <1>3, <4>4, <1>2 DEF NotifyInv, NotifyTypeOK, EventFits
        <5> QED
          BY <5>1, <5>2, <4>2
      <4> QED
        BY <4>3, <4>4
    <3> QED
      BY <3>2, <3>3, <3>4, <3>5 DEF TakenOnce, Targets
  <2> QED
    BY <2>1, <2>2
<1>10. ASSUME NEW t \in Targets, OnItsWay(t) PROVE OnItsWay(t)'
  <2>1. CASE fanned[t] > 0
    BY <2>1, <1>4 DEF OnItsWay
  <2>2. CASE \E f \in inbound : f.target = t
    <3>1. PICK f \in inbound : f.target = t
      BY <2>2
    <3>2. CASE f # e
      BY <3>1, <3>2, <1>1 DEF OnItsWay
    <3>3. CASE f = e /\ ~repeated
      BY <3>1, <3>3, <1>3, <1>4 DEF OnItsWay, NotifyInv, NotifyTypeOK
    <3>4. CASE f = e /\ repeated
      <4>1. PICK g \in taken : g.id = e.id
        BY <3>4
      <4>2. fanned[g.target] > 0 /\ EventFits(g)
        BY DEF NotifyInv, TakenOnce, EventsFit
      <4>3. CASE g.target = t
        BY <4>2, <4>3, <1>1, <3>4 DEF OnItsWay
      <4>4. CASE g.target # t
        <5>1. ownKey
          BY <4>1, <4>4, <3>1, <3>4 DEF NotifyInv, IdsDiffer
        <5>2. PICK p \in Positions(t) : e.id = <<"key", p>>
          BY <1>2, <5>1, <3>1, <3>4 DEF EventFits, IdFits
        <5>3. PICK q \in Positions(g.target) : g.id = <<"key", q>>
          BY <4>2, <5>1 DEF EventFits, IdFits
        <5>4. p = q /\ g.target \in Targets \ {t}
          BY <5>2, <5>3, <4>1, <4>2, <4>4 DEF EventFits
        <5> QED
          BY <5>1, <5>4, <1>1 DEF OnItsWay, Positions, Targets
      <4> QED
        BY <4>3, <4>4
    <3> QED
      BY <3>2, <3>3, <3>4
  <2>3. CASE ownKey /\ \E u \in Targets \ {t} : Positions(t) \cap Positions(u) # {}
    BY <2>3, <1>1 DEF OnItsWay, Positions, Targets
  <2> QED
    BY <1>10, <2>1, <2>2, <2>3 DEF OnItsWay
<1>11. PublishedIsOnItsWay'
  <2>1. \A t \in answered202 : t \in Targets
    BY DEF NotifyInv, NotifyTypeOK
  <2>2. post.pc # "idle" => \A i \in 1..post.published : post.targets[i] \in Targets
    BY Lists DEF NotifyInv, NotifyTypeOK, PostFits
  <2> QED
    BY <2>1, <2>2, <1>1, <1>10 DEF NotifyInv, PublishedIsOnItsWay
<1> QED
  BY <1>5, <1>6, <1>7, <1>8, <1>9, <1>11 DEF NotifyInv

LEMMA NotifyInvNext == NotifyInv /\ [NotifyNext]_notifyVars => NotifyInv'
<1> SUFFICES ASSUME NotifyInv, [NotifyNext]_notifyVars PROVE NotifyInv'
  OBVIOUS
<1>1. CASE UNCHANGED notifyVars
  <2>1. NotifyTypeOK' /\ PostFits' /\ IdsDiffer' /\ TakenOnce'
    BY <1>1 DEF notifyVars, NotifyInv, NotifyTypeOK, PostFits, IdsDiffer, TakenOnce, TakenOf,
       Targets
  <2>2. EventsFit'
    BY <1>1 DEF notifyVars, NotifyInv, EventsFit, EventFits, IdFits, Positions, Targets
  <2>3. PublishedIsOnItsWay'
    BY <1>1, StaysOnItsWay DEF notifyVars, NotifyInv, PublishedIsOnItsWay
  <2> QED
    BY <2>1, <2>2, <2>3 DEF NotifyInv
<1> QED
  BY <1>1, PostStep, PersistStep, PublishStep, AnswerStep, FailStep, TakeStep DEF NotifyNext

\* With a caller's key an event for a target is taken once per position.
LEMMA KeyedOnce ==
    ASSUME NotifyInv, ownKey, NEW t \in Targets
    PROVE  fanned[t] <= Cardinality(Positions(t))
<1> DEFINE Place == [e \in TakenOf(t) |-> e.id[2]]
<1>1. ASSUME NEW e \in TakenOf(t)
      PROVE  e \in taken /\ e.id[2] \in Positions(t) /\ e.id = <<"key", e.id[2]>>
  BY <1>1 DEF NotifyInv, EventsFit, EventFits, IdFits, TakenOf
<1>2. Place \in Injection(TakenOf(t), Positions(t))
  <2>1. Place \in [TakenOf(t) -> Positions(t)]
    BY <1>1
  <2>2. ASSUME NEW e \in TakenOf(t), NEW f \in TakenOf(t), Place[e] = Place[f] PROVE e = f
    BY <1>1, <2>2 DEF NotifyInv, TakenOnce
  <2> QED
    BY <2>1, <2>2 DEF Injection, IsInjective
<1>3. Cardinality(TakenOf(t)) <= Cardinality(Positions(t))
  BY <1>2, PositionsFinite, FS_Injection
<1>4. /\ fanned[t] \in Nat /\ fanned[t] <= Cardinality(TakenOf(t))
      /\ IsFiniteSet(TakenOf(t))
  BY FS_Subset DEF NotifyInv, NotifyTypeOK, TakenOnce, TakenOf
<1> QED
  BY <1>3, <1>4, PositionsFinite, FS_CardinalityType

\* A caller that repeats its request under its own key reaches each target once,
\* whatever part failed; and a target of an answered request is notified or on
\* the stream, even when other requests put their events in between
\* (handlers/notifications.ts:53-96, enricher/main.ts:330-333).
THEOREM RequestsGoOnce == NotifySpec => []RequestsCountOnce
<1>1. NotifyInv => RequestsCountOnce
  BY KeyedOnce DEF NotifyInv, RequestsCountOnce, RepeatedOnce, AcceptedIsSent,
     PublishedIsOnItsWay, OnItsWay
<1> QED
  BY <1>1, NotifyInvInit, NotifyInvNext, PTL DEF NotifySpec

\* What enters the pipeline twice counts once, of requests and of dead letters
\* (handlers/notifications.ts, handlers/system.ts).
THEOREM IntakeCountsOnce == IntakeSpec => []EnteredOnce
BY RequestsGoOnce, LettersGoOnce, PTL DEF IntakeSpec, EnteredOnce

(***************************************************************************)
(* The entry of the API.                                                   *)
(***************************************************************************)

\* A key is cached once.
CachedOnce == \A i, j \in DOMAIN authCache : authCache[i] = authCache[j] => i = j
Lookups == [by : Credentials, row : {"asked", "found", "absent"}]
FoundIsKey == \A l \in lookingUp : l \in Lookups /\ (l.row = "found" => l.by \in ApiKeys)

CacheInv == authCache \in Seq(ApiKeys) /\ CachedOnce /\ Revocable
GateInv == CacheInv /\ FoundIsKey /\ WritesAuthorised

\* A sequence without its i-th element.
LEMMA WithoutOne ==
    ASSUME NEW S, NEW s \in Seq(S), NEW i \in 1..Len(s)
    PROVE  /\ RemoveAt(s, i) \in Seq(S)
           /\ Len(RemoveAt(s, i)) = Len(s) - 1
           /\ \A j \in 1..(Len(s) - 1) : RemoveAt(s, i)[j] = s[IF j < i THEN j ELSE j + 1]
<1> DEFINE a == SubSeq(s, 1, i - 1)
           b == SubSeq(s, i + 1, Len(s))
<1>1. Len(s) \in Nat /\ i - 1 \in Int /\ i + 1 \in Int /\ \A j \in 1..Len(s) : s[j] \in S
  OBVIOUS
<1>2. a \in Seq(S) /\ Len(a) = i - 1 /\ \A j \in 1..(i - 1) : a[j] = s[j]
  <2>1. \A j \in 1..(i - 1) : s[j] \in S
    BY <1>1
  <2>2. QED  BY <1>1, <2>1, SubSeqProperties
<1>3. b \in Seq(S) /\ Len(b) = Len(s) - i /\ \A j \in 1..(Len(s) - i) : b[j] = s[i + j]
  <2>1. \A j \in (i + 1)..Len(s) : s[j] \in S
    BY <1>1
  <2>2. /\ b \in Seq(S) /\ Len(b) = IF i + 1 <= Len(s) THEN Len(s) - (i + 1) + 1 ELSE 0
        /\ \A j \in 1..(Len(s) - (i + 1) + 1) : b[j] = s[(i + 1) + j - 1]
    BY <1>1, <2>1, SubSeqProperties
  <2>3. \A j \in 1..(Len(s) - i) : j \in 1..(Len(s) - (i + 1) + 1) /\ (i + 1) + j - 1 = i + j
    BY <1>1
  <2>4. Len(b) = Len(s) - i
    BY <1>1, <2>2
  <2>5. QED  BY <2>2, <2>3, <2>4
<1>4. RemoveAt(s, i) = a \o b
  BY DEF RemoveAt
<1> HIDE DEF a, b
<1>5. /\ a \o b \in Seq(S) /\ Len(a \o b) = Len(a) + Len(b)
      /\ \A j \in 1..(Len(a) + Len(b)) : (a \o b)[j] = IF j <= Len(a) THEN a[j] ELSE b[j - Len(a)]
  BY <1>2, <1>3, ConcatProperties
<1>6. Len(a) + Len(b) = Len(s) - 1
  BY <1>1, <1>2, <1>3
<1>7. ASSUME NEW j \in 1..(Len(s) - 1) PROVE (a \o b)[j] = s[IF j < i THEN j ELSE j + 1]
  <2>1. CASE j < i
    <3>1. (a \o b)[j] = a[j] /\ j \in 1..(i - 1)
      BY <1>1, <1>2, <1>5, <1>6, <2>1
    <3>2. QED  BY <3>1, <1>2, <2>1
  <2>2. CASE ~(j < i)
    <3>1. j - Len(a) = j - i + 1 /\ j - i + 1 \in 1..(Len(s) - i) /\ i + (j - i + 1) = j + 1
      BY <1>1, <1>2, <2>2
    <3>2. (a \o b)[j] = b[j - i + 1]
      BY <1>1, <1>2, <1>5, <1>6, <2>2, <3>1
    <3>3. QED  BY <3>1, <3>2, <1>3, <2>2
  <2>3. QED  BY <2>1, <2>2
<1>8. QED  BY <1>4, <1>5, <1>6, <1>7

\* The cache without a key keeps the others, each once.
LEMMA CacheShrinks ==
    ASSUME CacheInv, NEW k
    PROVE  /\ CacheWithout(k) \in Seq(ApiKeys)
           /\ \A i \in DOMAIN CacheWithout(k) :
                 CacheWithout(k)[i] \in Range(authCache) /\ CacheWithout(k)[i] # k
           /\ \A i, j \in DOMAIN CacheWithout(k) :
                 CacheWithout(k)[i] = CacheWithout(k)[j] => i = j
<1>1. DOMAIN authCache = 1..Len(authCache) /\ Len(authCache) \in Nat
  BY DEF CacheInv
<1>2. CASE k \in Range(authCache)
  <2> DEFINE p == PlaceInCache(k)
             rest == RemoveAt(authCache, p)
             At(j) == IF j < p THEN j ELSE j + 1
  <2>1. p \in 1..Len(authCache) /\ authCache[p] = k
    BY <1>1, <1>2 DEF PlaceInCache, Range
  <2> HIDE DEF p
  <2>2. CacheWithout(k) = rest
    BY <1>2 DEF CacheWithout, p
  <2>3. /\ rest \in Seq(ApiKeys) /\ Len(rest) = Len(authCache) - 1
        /\ \A j \in 1..(Len(authCache) - 1) : rest[j] = authCache[At(j)]
    BY <2>1, WithoutOne DEF CacheInv
  <2> HIDE DEF rest
  <2>4. DOMAIN rest = 1..(Len(authCache) - 1)
    BY <2>3
  <2>5. \A j \in 1..(Len(authCache) - 1) : At(j) \in 1..Len(authCache) /\ At(j) # p
    BY <1>1, <2>1
  <2>6. \A i, j \in 1..(Len(authCache) - 1) : At(i) = At(j) => i = j
    BY <1>1, <2>1
  <2> HIDE DEF At
  <2>7. \A j \in DOMAIN rest : rest[j] \in Range(authCache) /\ rest[j] # k
    BY <1>1, <2>1, <2>3, <2>4, <2>5 DEF CacheInv, CachedOnce, Range
  <2>8. \A i, j \in DOMAIN rest : rest[i] = rest[j] => i = j
    BY <1>1, <2>3, <2>4, <2>5, <2>6 DEF CacheInv, CachedOnce
  <2>9. QED  BY <2>2, <2>3, <2>7, <2>8
<1>3. CASE k \notin Range(authCache)
  BY <1>3 DEF CacheWithout, CacheInv, CachedOnce, Range
<1>4. QED  BY <1>2, <1>3

\* A cache that shrinks keeps its hashes as long as those of its keys stay.
LEMMA DropKeeps ==
    ASSUME CacheInv, NEW k, authCache' = CacheWithout(k),
           hashes \subseteq hashes' \cup {k}
    PROVE  CacheInv'
  BY CacheShrinks DEF CacheInv, CachedOnce, Revocable, Range

\* What is used or inserted is last, and the rest is what was there without it.
LEMMA TouchFacts ==
    ASSUME CacheInv, NEW k \in ApiKeys
    PROVE  /\ Touch(k) \in Seq(ApiKeys) /\ Touch(k) # << >>
           /\ \A i \in DOMAIN Touch(k) : Touch(k)[i] \in Range(authCache) \cup {k}
           /\ \A i, j \in DOMAIN Touch(k) : Touch(k)[i] = Touch(k)[j] => i = j
<1> DEFINE rest == CacheWithout(k)
<1>1. /\ rest \in Seq(ApiKeys)
      /\ \A i \in DOMAIN rest : rest[i] \in Range(authCache) /\ rest[i] # k
      /\ \A i, j \in DOMAIN rest : rest[i] = rest[j] => i = j
  BY CacheShrinks
<1>2. Touch(k) = Append(rest, k)
  BY DEF Touch
<1> HIDE DEF rest
<1>3. /\ Append(rest, k) \in Seq(ApiKeys)
      /\ Len(Append(rest, k)) = Len(rest) + 1 /\ Len(rest) \in Nat
      /\ DOMAIN Append(rest, k) = 1..(Len(rest) + 1) /\ DOMAIN rest = 1..Len(rest)
      /\ \A i \in 1..Len(rest) : Append(rest, k)[i] = rest[i]
      /\ Append(rest, k)[Len(rest) + 1] = k
  BY <1>1
<1>4. Append(rest, k) # << >>
  BY <1>3
<1>5. \A i \in 1..(Len(rest) + 1) : i \in 1..Len(rest) \/ i = Len(rest) + 1
  BY <1>3
<1>6. QED  BY <1>1, <1>2, <1>3, <1>4, <1>5

LEMMA TouchKeeps ==
    ASSUME CacheInv, NEW k \in Range(authCache), authCache' = Touch(k), UNCHANGED hashes
    PROVE  CacheInv'
<1>1. k \in ApiKeys
  BY DEF CacheInv, Range
<1>2. QED  BY <1>1, TouchFacts DEF CacheInv, CachedOnce, Revocable, Range

LEMMA InsertKeeps ==
    ASSUME CacheInv, NEW k \in ApiKeys, authCache' = Insert(k), hashes' = hashes \cup {k}
    PROVE  CacheInv'
<1> DEFINE new == Touch(k)
<1>1. /\ new \in Seq(ApiKeys) /\ new # << >>
      /\ \A i \in DOMAIN new : new[i] \in hashes'
      /\ \A i, j \in DOMAIN new : new[i] = new[j] => i = j
  BY TouchFacts DEF CacheInv, Revocable
<1>2. authCache' = IF Len(new) > CacheSize THEN Tail(new) ELSE new
  BY DEF Insert
<1> HIDE DEF new
<1>3. CASE authCache' = new
  BY <1>1, <1>3 DEF CacheInv, CachedOnce, Revocable, Range
<1>4. CASE authCache' = Tail(new)
  <2>1. /\ Tail(new) \in Seq(ApiKeys) /\ Len(Tail(new)) = Len(new) - 1
        /\ \A i \in 1..Len(Tail(new)) : Tail(new)[i] = new[i + 1]
    BY <1>1, HeadTailProperties
  <2>2. /\ DOMAIN Tail(new) = 1..Len(Tail(new)) /\ DOMAIN new = 1..Len(new) /\ Len(new) \in Nat
        /\ \A i \in 1..Len(Tail(new)) : i + 1 \in 1..Len(new)
    BY <1>1, <2>1
  <2>3. \A i \in DOMAIN Tail(new) : Tail(new)[i] \in hashes'
    BY <1>1, <2>1, <2>2
  <2>4. \A i, j \in DOMAIN Tail(new) : Tail(new)[i] = Tail(new)[j] => i = j
    BY <1>1, <2>1, <2>2
  <2>5. QED  BY <1>4, <2>1, <2>3, <2>4 DEF CacheInv, CachedOnce, Revocable, Range
<1>5. QED  BY <1>2, <1>3, <1>4

LEMMA EmptyKeeps == ASSUME authCache' = << >> PROVE CacheInv'
  BY DEF CacheInv, CachedOnce, Revocable, Range

LEMMA SameCache == ASSUME CacheInv, UNCHANGED <<authCache, hashes>> PROVE CacheInv'
  BY DEF CacheInv, CachedOnce, Revocable

LEMMA GateInvInit == ApiGateInit => GateInv
<1> SUFFICES ASSUME ApiGateInit PROVE GateInv
  OBVIOUS
<1>1. CacheInv
  BY DEF ApiGateInit, CacheInv, CachedOnce, Revocable, Range
<1>2. WritesAuthorised /\ FoundIsKey
  BY DEF ApiGateInit, WritesAuthorised, Unreached, Open, FoundIsKey
<1>3. QED  BY <1>1, <1>2 DEF GateInv

\* What the role check hands on may write what it writes.
LEMMA AdmitsWell ==
    ASSUME NEW r \in GateRequests, Admit(r), r.path # "projects", r.by \notin {"none", "unknown"}
    PROVE  WritesAuthorised'
<1>1. CASE Refuse
  BY <1>1 DEF Refuse, Unreached, WritesAuthorised, Open
<1>2. CASE Handle(r) /\ ~(Reads(r.by) /\ r.writes /\ r.path # "logout")
  BY <1>2 DEF Handle, WritesAuthorised
<1>3. QED  BY <1>1, <1>2 DEF Admit

LEMMA RefusesWell == ASSUME Refuse PROVE WritesAuthorised'
  BY DEF Refuse, Unreached, WritesAuthorised, Open

LEMMA NoRoleIsKey == \A c \in {"writer", "reader", "adminKey", "unknown", "none"} : c \notin ApiKeys
  BY ApiGateAssumption

\* The steps of a request.
LEMMA RequestStep ==
    ASSUME GateInv, NEW r \in GateRequests,
           \/ NoCredential(r) \/ AdminRequest(r) \/ CachedKey(r) \/ AskKey(r)
           \/ KeyAnswered(r) \/ ManageProjects(r) \/ OpenRequest(r)
    PROVE  GateInv'
<1> USE DEF GateInv
<1>1. CASE NoCredential(r)
  BY <1>1, RefusesWell, SameCache DEF NoCredential, FoundIsKey
<1>2. CASE AdminRequest(r)
  <2>1. CASE Refuse
    BY <1>2, <2>1, RefusesWell, SameCache DEF AdminRequest, FoundIsKey
  <2>2. CASE Admit(r)
    <3>1. r.path # "projects" /\ r.by \notin {"none", "unknown"}
      BY <1>2 DEF AdminRequest, Administers
    <3>2. QED  BY <1>2, <2>2, <3>1, AdmitsWell, SameCache DEF AdminRequest, FoundIsKey
  <2>3. QED  BY <1>2, <2>1, <2>2 DEF AdminRequest
<1>3. CASE CachedKey(r)
  <2>1. r.by \in ApiKeys
    BY <1>3 DEF CachedKey, CacheInv, Range
  <2>2. WritesAuthorised'
    BY <1>3, <2>1, NoRoleIsKey, AdmitsWell DEF CachedKey
  <2>3. QED  BY <1>3, <2>2, TouchKeeps DEF CachedKey, FoundIsKey
<1>4. CASE AskKey(r)
  <2> DEFINE new == [by |-> r.by, row |-> "asked"]
  <2>1. new \in Lookups /\ new.row # "found"
    BY DEF Lookups, GateRequests
  <2>2. lookingUp' = lookingUp \cup {new}
    BY <1>4 DEF AskKey
  <2> HIDE DEF new
  <2>3. FoundIsKey'
    BY <2>1, <2>2 DEF FoundIsKey
  <2>4. QED  BY <1>4, <2>3, SameCache DEF AskKey, WritesAuthorised
<1>5. CASE KeyAnswered(r)
  <2>1. PICK l \in lookingUp :
          /\ l.by = r.by /\ lookingUp' = lookingUp \ {l}
          /\ IF l.row = "found" THEN Keep(r.by) /\ Admit(r)
             ELSE Refuse /\ UNCHANGED <<authCache, hashes>>
    BY <1>5 DEF KeyAnswered
  <2>2. FoundIsKey'
    BY <2>1 DEF FoundIsKey
  <2>3. CASE l.row = "found"
    <3>1. r.by \in ApiKeys
      BY <2>1, <2>3 DEF FoundIsKey
    <3>2. WritesAuthorised'
      BY <1>5, <2>1, <2>3, <3>1, NoRoleIsKey, AdmitsWell DEF KeyAnswered
    <3>3. CacheInv'
      BY <2>1, <2>3, <3>1, InsertKeeps, EmptyKeeps DEF Keep
    <3>4. QED  BY <2>2, <3>2, <3>3
  <2>4. CASE l.row # "found"
    BY <2>1, <2>2, <2>4, RefusesWell, SameCache
  <2>5. QED  BY <2>3, <2>4
<1>6. CASE ManageProjects(r)
  <2>1. CASE Refuse
    BY <1>6, <2>1, RefusesWell, SameCache DEF ManageProjects, FoundIsKey
  <2>2. ASSUME Handle(r), r.by \in {"writer", "adminKey"} \/ (r.by = "reader" /\ ~r.writes)
        PROVE  GateInv'
    <3>1. r.by \notin ApiKeys /\ r.by \notin {"none", "unknown"} /\ (r.writes => ~Reads(r.by))
      BY <2>2, NoRoleIsKey, ApiGateAssumption DEF Reads
    <3>2. WritesAuthorised'
      BY <2>2, <3>1 DEF Handle, WritesAuthorised
    <3>3. QED  BY <1>6, <3>2, SameCache DEF ManageProjects, FoundIsKey
  <2>3. QED  BY <1>6, <2>1, <2>2 DEF ManageProjects
<1>7. CASE OpenRequest(r)
  <2>1. CASE Handle(r)
    <3>1. WritesAuthorised'
      BY <1>7, <2>1 DEF OpenRequest, Handle, WritesAuthorised, Open
    <3>2. QED  BY <1>7, <3>1, SameCache DEF OpenRequest, FoundIsKey
  <2>2. CASE Refuse
    BY <1>7, <2>2, RefusesWell, SameCache DEF OpenRequest, FoundIsKey
  <2>3. QED  BY <1>7, <2>1, <2>2 DEF OpenRequest
<1>8. QED  BY <1>1, <1>2, <1>3, <1>4, <1>5, <1>6, <1>7

LEMMA GateInvStep == GateInv /\ [ApiGateNext]_gateVars => GateInv'
<1> SUFFICES ASSUME GateInv, [ApiGateNext]_gateVars PROVE GateInv'
  OBVIOUS
<1> USE DEF GateInv
<1>1. CASE InvalidateAll
  BY <1>1, EmptyKeeps DEF InvalidateAll, FoundIsKey, WritesAuthorised
<1>2. CASE NextMinute
  BY <1>2, SameCache DEF NextMinute, FoundIsKey, WritesAuthorised
<1>3. CASE Replied
  BY <1>3, SameCache DEF Replied, FoundIsKey, WritesAuthorised, Unreached, Open
<1>4. ASSUME NEW l \in lookingUp, ReadKey(l) PROVE GateInv'
  <2> DEFINE read == IF l.by \in ApiKeys \ revoked THEN "found" ELSE "absent"
             new == [l EXCEPT !.row = read]
  <2>1. l \in Lookups /\ lookingUp' = (lookingUp \ {l}) \cup {new}
    BY <1>4 DEF ReadKey, FoundIsKey
  <2>2. new \in Lookups /\ (new.row = "found" => new.by \in ApiKeys)
    BY <2>1 DEF Lookups
  <2> HIDE DEF new
  <2>3. FoundIsKey'
    BY <2>1, <2>2 DEF FoundIsKey
  <2>4. QED  BY <1>4, <2>3, SameCache DEF ReadKey, WritesAuthorised
<1>5. ASSUME NEW k \in ApiKeys, DeleteKey(k) PROVE GateInv'
  BY <1>5, SameCache DEF DeleteKey, FoundIsKey, WritesAuthorised
<1>6. ASSUME NEW k \in ApiKeys, InvalidateHash(k) \/ EntryExpires(k) PROVE GateInv'
  <2>1. authCache' = CacheWithout(k) /\ hashes \subseteq hashes' \cup {k}
    BY <1>6 DEF InvalidateHash, EntryExpires
  <2>2. QED  BY <1>6, <2>1, DropKeeps DEF InvalidateHash, EntryExpires, FoundIsKey, WritesAuthorised
<1>7. CASE UNCHANGED gateVars
  BY <1>7, SameCache DEF gateVars, FoundIsKey, WritesAuthorised
<1>8. QED
  BY <1>1, <1>2, <1>3, <1>4, <1>5, <1>6, <1>7, RequestStep DEF ApiGateNext

\* A cached key can always be found again to be revoked, and nothing is written
\* for a credential that may only read (main.ts, 394-448).
THEOREM GateKept == ApiGateSpec => []GateHolds
<1>1. GateInv => GateHolds
  BY DEF GateInv, CacheInv, GateHolds
<1>2. QED  BY <1>1, GateInvInit, GateInvStep, PTL DEF ApiGateSpec

(***************************************************************************)
(* The tabs of the dashboard.                                              *)
(***************************************************************************)

TabTypes ==
    /\ holds \in [Tabs -> Nat] /\ given \in [Tabs -> Nat]
    /\ leaving \in [Tabs -> Nat \X Nat]
    /\ signing \in [Tabs -> {"no", "asked", "answered"} \X Nat]
    /\ verifying \in [Tabs -> Nat]
    /\ storedToken \in Nat /\ made \in Nat

\* Every token that somebody has is of a session that was made; a tab leaves with
\* the token it held.
TokensWereMade ==
    /\ storedToken <= made /\ \A s \in left : s <= made
    /\ \A t \in Tabs :
          /\ holds[t] <= made /\ verifying[t] <= made /\ signing[t][2] <= made
          /\ leaving[t][1] <= made /\ leaving[t][1] = leaving[t][2]

TabsInv == TabTypes /\ TokensWereMade /\ left \subseteq Nat /\ KeepsSession /\ LeftIsRevoked

LEMMA TabsInvInit == AdminTabsInit => TabsInv
  BY DEF AdminTabsInit, TabsInv, TabTypes, TokensWereMade, KeepsSession, LeftIsRevoked, NoToken, Staying

LEMMA TabsInvStep == TabsInv /\ [AdminTabsNext]_tabVars => TabsInv'
<1> SUFFICES ASSUME TabsInv, [AdminTabsNext]_tabVars PROVE TabsInv'
  OBVIOUS
<1> USE DEF TabsInv, TabTypes, TokensWereMade, KeepsSession, LeftIsRevoked, NoToken, Staying,
            serverVars, browserVars
<1>1. ASSUME NEW a \in Apis, FindAdmin(a) \/ CreateAdmin(a) PROVE TabsInv'
  BY <1>1 DEF FindAdmin, CreateAdmin
<1>2. ASSUME NEW s \in live, SessionExpires(s) PROVE TabsInv'
  BY <1>2 DEF SessionExpires
<1>3. ASSUME NEW t \in Tabs, LoadTab(t) PROVE TabsInv'
  <2>1. TabTypes'
    BY <1>3 DEF LoadTab
  <2>2. TokensWereMade' /\ left' \subseteq Nat
    BY <1>3 DEF LoadTab
  <2>3. KeepsSession' /\ LeftIsRevoked'
    BY <1>3 DEF LoadTab
  <2>4. QED  BY <2>1, <2>2, <2>3
<1>4. ASSUME NEW t \in Tabs, Verified(t) PROVE TabsInv'
  <2>1. TabTypes'
    BY <1>4 DEF Verified
  <2>2. TokensWereMade' /\ left' \subseteq Nat
    BY <1>4 DEF Verified
  <2>3. KeepsSession' /\ LeftIsRevoked'
    BY <1>4 DEF Verified
  <2>4. QED  BY <2>1, <2>2, <2>3
<1>5. ASSUME NEW t \in Tabs, SignIn(t) PROVE TabsInv'
  BY <1>5 DEF SignIn
<1>6. ASSUME NEW t \in Tabs, CreateSession(t) PROVE TabsInv'
  <2>1. TabTypes'
    BY <1>6 DEF CreateSession, NewSession
  <2>2. TokensWereMade' /\ left' \subseteq Nat
    BY <1>6 DEF CreateSession, NewSession
  <2>3. KeepsSession' /\ LeftIsRevoked'
    BY <1>6 DEF CreateSession, NewSession
  <2>4. QED  BY <2>1, <2>2, <2>3
<1>7. ASSUME NEW t \in Tabs, SignedIn(t) PROVE TabsInv'
  <2>1. TabTypes'
    BY <1>7 DEF SignedIn
  <2>2. TokensWereMade' /\ left' \subseteq Nat
    BY <1>7 DEF SignedIn
  <2>3. KeepsSession' /\ LeftIsRevoked'
    BY <1>7 DEF SignedIn
  <2>4. QED  BY <2>1, <2>2, <2>3
<1>8. ASSUME NEW t \in Tabs, SignInFails(t) PROVE TabsInv'
  BY <1>8 DEF SignInFails
<1>9. ASSUME NEW t \in Tabs, SignOut(t) PROVE TabsInv'
  BY <1>9 DEF SignOut
<1>10. ASSUME NEW t \in Tabs, SignedOut(t) PROVE TabsInv'
  <2>1. TabTypes' /\ TokensWereMade' /\ left' \subseteq Nat
    <3>1. leaving[t][1] \in Nat /\ leaving[t][1] <= made
      OBVIOUS
    <3>2. left' \subseteq left \cup {leaving[t][1]}
      BY <1>10 DEF SignedOut
    <3>3. QED  BY <1>10, <3>1, <3>2 DEF SignedOut
  <2>2. KeepsSession'
    BY <1>10 DEF SignedOut
  <2>3. LeftIsRevoked'
    <3>1. leaving[t][1] = leaving[t][2]
      OBVIOUS
    <3>2. CASE RevokeSession(leaving[t][2]) /\ left' = left \cup {leaving[t][1]}
      BY <3>1, <3>2 DEF RevokeSession
    <3>3. CASE UNCHANGED <<live, left>>
      BY <3>3
    <3>4. QED  BY <1>10, <3>2, <3>3 DEF SignedOut
  <2>4. QED  BY <2>1, <2>2, <2>3
<1>11. CASE UNCHANGED tabVars
  BY <1>11 DEF tabVars
<1>12. QED
  BY <1>1, <1>2, <1>3, <1>4, <1>5, <1>6, <1>7, <1>8, <1>9, <1>10, <1>11 DEF AdminTabsNext

\* A tab keeps the session it was given, and what it signed out of admits nobody
\* (useAuth.tsx, auth.ts).
THEOREM TabsKept == AdminTabsSpec => []SessionsHold
<1>1. TabsInv => SessionsHold
  BY DEF TabsInv, SessionsHold
<1>2. QED  BY <1>1, TabsInvInit, TabsInvStep, PTL DEF AdminTabsSpec

\* Who is let in may do what is asked, and can be kept out again, at the API and
\* in the dashboard.
THEOREM AccessKept == AccessSpec => []AccessHolds
<1>1. GateHolds /\ SessionsHold => AccessHolds
  BY DEF AccessHolds
<1>2. QED  BY <1>1, GateKept, TabsKept, PTL DEF AccessSpec

(***************************************************************************)
(* The token leases.                                                       *)
(***************************************************************************)

LeaseRows == [at : {"none", "sent", "back"}, now : Nat, granted : Nat]
HeldRows  == [window : Windows \cup {NoWindow}, tokens : Nat, leasing : BOOLEAN]
AskedRows == [at : {"new", "waiting", "told", "admitted", "refused", "turned"},
              window : Windows, now : Nat, granted : Nat]

\* Redis gave the window out, together with the one before it.
GivenOut(w) == spent[w] + (IF w = 0 THEN 0 ELSE spent[w - 1]) >= limit

\* The tokens a window has in hand, one by one.
RowOf(p, n) == {p} \X (1..n)
Rows(f)     == UNION {RowOf(p, f[p]) : p \in Processes}
Hand(w)     == Rows([p \in Processes |-> HoldsOf(p, w)])
NoneOverrun(w) ==
    IsFiniteSet(Hand(w))
    /\ (w \notin outages => admitted[w] + Cardinality(Hand(w)) <= spent[w] /\ spent[w] <= limit)

\* Nothing comes back, or was told of, unless the window was given out.
EmptyLeases ==
    \A p \in Processes, w \in Windows :
        lease[p][w].at = "back" /\ lease[p][w].granted = 0 => GivenOut(w)
EmptyAnswers ==
    \A q \in Requests :
        asked[q].at = "told" /\ asked[q].granted = 0 => GivenOut(asked[q].window)

TokensInv ==
    /\ TokensTypeOK
    /\ \A w \in Windows : NoneOverrun(w)
    /\ EmptyLeases /\ EmptyAnswers /\ RefusedWhenSpent

-----------------------------------------------------------------------------
LEMMA DivFacts ==
    ASSUME NEW n \in Nat, NEW d \in Nat \ {0}
    PROVE  n \div d \in Nat /\ n % d \in 0..(d - 1) /\ n = d * (n \div d) + (n % d)
  OBVIOUS

LEMMA DivAtMost ==
    ASSUME NEW d \in Nat \ {0}, NEW k \in Nat, NEW n \in 0..(d * (k + 1) - 1)
    PROVE  n \div d \in 0..k
<1> DEFINE q == n \div d
<1>1. q \in Nat /\ d * q <= n /\ n \in Nat
  BY DivFacts
<1>2. d * q < d * (k + 1)
  <2>1. d * (k + 1) \in Int /\ d * q \in Int
    BY <1>1
  <2>2. QED  BY <1>1, <2>1
<1> HIDE DEF q
<1>3. q < k + 1
  <2>1. ASSUME q >= k + 1 PROVE FALSE
    <3>1. d * q >= d * (k + 1)
      BY <1>1, <2>1
    <3>2. QED  BY <1>1, <1>2, <3>1
  <2>2. QED  BY <1>1, <2>1
<1>4. QED  BY <1>1, <1>3 DEF q

\* The estimate is at least what was given out of this window, and at most that
\* with all of the window before.
LEMMA EstimateBounds ==
    ASSUME NEW a \in Nat, NEW b \in Nat, NEW d \in Nat \ {0}, NEW weight \in 1..d
    PROVE  LET e == (a * weight + b * d) \div d IN e \in Nat /\ b <= e /\ e <= a + b
<1> DEFINE n == a * weight + b * d
           e == n \div d
           r == n % d
<1>1. a * weight \in Nat /\ b * d \in Nat /\ n \in Nat
  OBVIOUS
<1>2. e \in Nat /\ r \in 0..(d - 1) /\ n = d * e + r
  BY <1>1, DivFacts
<1>3. a * weight <= a * d
  OBVIOUS
<1>4. b <= e
  <2>1. ASSUME e < b PROVE FALSE
    <3>1. b * d <= d * e + r
      BY <1>1, <1>2
    <3>2. d * (e + 1) <= d * b
      <4>1. e + 1 <= b
        BY <1>2, <2>1
      <4> HIDE DEF e, n, r
      <4>2. QED  BY <4>1, <1>2
    <3> HIDE DEF e, n, r
    <3>3. d * e + d <= d * e + r
      BY <3>1, <3>2, <1>2
    <3>4. QED  BY <3>3, <1>2
  <2>2. QED  BY <1>2, <2>1
<1>5. e <= a + b
  <2>1. d * e <= d * (a + b)
    <3>1. n <= d * (a + b)
      BY <1>1, <1>3
    <3> HIDE DEF e, n, r
    <3>2. QED  BY <1>1, <1>2, <3>1
  <2> HIDE DEF e, n, r
  <2>2. ASSUME e >= a + b + 1 PROVE FALSE
    <3>1. d * e >= d * (a + b + 1)
      BY <2>2, <1>2
    <3>2. d * (a + b + 1) = d * (a + b) + d
      OBVIOUS
    <3>3. QED  BY <2>1, <3>1, <3>2, <1>2
  <2>3. QED  BY <1>2, <2>2
<1>6. QED  BY <1>2, <1>4, <1>5

LEMMA RowsMember ==
    ASSUME NEW f, NEW x
    PROVE  x \in Rows(f) <=> \E p \in Processes : x \in RowOf(p, f[p])
  BY DEF Rows

LEMMA RowsApart ==
    ASSUME NEW p, NEW q, NEW m, NEW n, NEW x, x \in RowOf(p, m), x \in RowOf(q, n)
    PROVE  p = q
<1>1. x[1] = p /\ x[1] = q
  BY DEF RowOf
<1>2. QED  BY <1>1

\* Counting the tokens of all processes, when those of one of them change.
LEMMA RowsCount ==
    ASSUME NEW f, NEW g, NEW p \in Processes, IsFiniteSet(Rows(f)), f[p] \in Nat, g[p] \in Nat,
           \A q \in Processes \ {p} : g[q] = f[q]
    PROVE  /\ IsFiniteSet(Rows(g))
           /\ Cardinality(Rows(f)) \in Nat
           /\ Cardinality(Rows(g)) = Cardinality(Rows(f)) - f[p] + g[p]
<1> DEFINE others == Rows(f) \ RowOf(p, f[p])
           Row(n) == RowOf(p, n)
<1>1. /\ Rows(f) = others \cup Row(f[p]) /\ others \cap Row(f[p]) = {}
      /\ Rows(g) = others \cup Row(g[p]) /\ others \cap Row(g[p]) = {}
  <2>1. \A x : x \in Row(f[p]) => x \in Rows(f)
    BY RowsMember
  <2>2. \A x : x \in Row(g[p]) => x \in Rows(g)
    BY RowsMember
  <2>3. \A x : x \in others <=> \E q \in Processes \ {p} : x \in RowOf(q, f[q])
    BY RowsMember, RowsApart
  <2>4. \A x : x \in Rows(g) <=> x \in others \/ x \in Row(g[p])
    BY <2>2, <2>3, RowsMember
  <2>5. \A x : ~(x \in others /\ x \in Row(g[p]))
    BY <2>3, RowsApart
  <2>6. Rows(g) = others \cup Row(g[p])
    <3> HIDE DEF others, Row
    <3>1. QED  BY <2>4
  <2>7. others \cap Row(g[p]) = {}
    <3> HIDE DEF others, Row
    <3>1. QED  BY <2>5
  <2>8. QED  BY <2>1, <2>6, <2>7
<1>2. ASSUME NEW n \in Nat PROVE IsFiniteSet(Row(n)) /\ Cardinality(Row(n)) = n
  <2>1. IsFiniteSet({p}) /\ Cardinality({p}) = 1
    BY FS_Singleton
  <2>2. IsFiniteSet(1..n) /\ Cardinality(1..n) = n
    <3>1. n \in Int /\ 1 \in Int
      OBVIOUS
    <3>2. IsFiniteSet(1..n) /\ Cardinality(1..n) = IF 1 > n THEN 0 ELSE n - 1 + 1
      BY <3>1, FS_Interval
    <3>3. QED  BY <3>2
  <2>3. IsFiniteSet(Row(n)) /\ Cardinality(Row(n)) = Cardinality({p}) * Cardinality(1..n)
    BY <2>1, <2>2, FS_Product DEF RowOf
  <2>4. QED  BY <2>1, <2>2, <2>3
<1>3. IsFiniteSet(others)
  BY <1>1, FS_Subset
<1> HIDE DEF others, Row
<1>6. Cardinality(others) \in Nat
  BY <1>3, FS_CardinalityType
<1>a. ASSUME NEW n \in Nat, others \cap Row(n) = {}
      PROVE  /\ IsFiniteSet(others \cup Row(n))
             /\ Cardinality(others \cup Row(n)) = Cardinality(others) + n
  <2>1. /\ IsFiniteSet(others \cup Row(n))
        /\ Cardinality(others \cup Row(n))
             = Cardinality(others) + Cardinality(Row(n)) - Cardinality(others \cap Row(n))
    BY <1>2, <1>3, FS_Union
  <2>2. Cardinality(others \cap Row(n)) = 0
    BY <1>a, FS_EmptySet
  <2>3. QED  BY <1>2, <1>6, <2>1, <2>2
<1>4. Cardinality(others \cup Row(f[p])) = Cardinality(others) + f[p]
  BY <1>1, <1>a
<1>5. /\ IsFiniteSet(others \cup Row(g[p]))
      /\ Cardinality(others \cup Row(g[p])) = Cardinality(others) + g[p]
  BY <1>1, <1>a
<1>7. QED  BY <1>1, <1>4, <1>5, <1>6

LEMMA HandIsInHand == \A w : InHand(w) = Cardinality(Hand(w))
<1> SUFFICES ASSUME NEW w PROVE InHand(w) = Cardinality(Hand(w))
  OBVIOUS
<1> DEFINE f == [p \in Processes |-> HoldsOf(p, w)]
<1>1. \A p \in Processes : RowOf(p, f[p]) = {p} \X (1..HoldsOf(p, w))
  BY DEF RowOf
<1>2. {RowOf(p, f[p]) : p \in Processes} = {{p} \X (1..HoldsOf(p, w)) : p \in Processes}
  BY <1>1
<1>3. QED  BY <1>2 DEF InHand, Hand, Rows

LEMMA HoldsNat ==
    ASSUME TokensTypeOK, NEW p \in Processes, NEW w \in Windows PROVE HoldsOf(p, w) \in Nat
<1>1. held[p].tokens \in Nat /\ lease[p][w].granted \in Nat
  BY DEF TokensTypeOK
<1>2. QED  BY <1>1 DEF HoldsOf

LEMMA HoldsNatNext ==
    ASSUME TokensTypeOK', NEW p \in Processes, NEW w \in Windows PROVE HoldsOf(p, w)' \in Nat
<1>1. held' \in [Processes -> HeldRows] /\ lease' \in [Processes -> [Windows -> LeaseRows]]
  BY DEF TokensTypeOK, HeldRows, LeaseRows
<1>2. held'[p] \in HeldRows /\ lease'[p][w] \in LeaseRows
  BY <1>1
<1>3. held'[p].tokens \in Nat /\ lease'[p][w].granted \in Nat
  BY <1>2 DEF HeldRows, LeaseRows
<1>4. QED  BY <1>3 DEF HoldsOf

\* A step changes what one process holds.
LEMMA HandStep ==
    ASSUME TokensTypeOK, TokensTypeOK', NEW p \in Processes, NEW w \in Windows,
           IsFiniteSet(Hand(w)),
           \A q \in Processes \ {p} : HoldsOf(q, w)' = HoldsOf(q, w)
    PROVE  /\ IsFiniteSet(Hand(w)') /\ Cardinality(Hand(w)) \in Nat
           /\ Cardinality(Hand(w)') = Cardinality(Hand(w)) - HoldsOf(p, w) + HoldsOf(p, w)'
<1> DEFINE f == [q \in Processes |-> HoldsOf(q, w)]
           g == [q \in Processes |-> HoldsOf(q, w)']
<1>1. f[p] = HoldsOf(p, w) /\ g[p] = HoldsOf(p, w)' /\ Hand(w) = Rows(f) /\ Hand(w)' = Rows(g)
  BY DEF Hand, Rows, RowOf
<1>2. HoldsOf(p, w) \in Nat /\ HoldsOf(p, w)' \in Nat
  BY HoldsNat, HoldsNatNext
<1>3. \A q \in Processes \ {p} : g[q] = f[q]
  OBVIOUS
<1> HIDE DEF f, g
<1>4. f[p] \in Nat /\ g[p] \in Nat /\ IsFiniteSet(Rows(f))
  BY <1>1, <1>2
<1>5. /\ IsFiniteSet(Rows(g)) /\ Cardinality(Rows(f)) \in Nat
      /\ Cardinality(Rows(g)) = Cardinality(Rows(f)) - f[p] + g[p]
  BY <1>3, <1>4, RowsCount
<1>6. QED  BY <1>1, <1>5

LEMMA TokensInvInit == TokensInit => TokensInv
<1> SUFFICES ASSUME TokensInit PROVE TokensInv
  OBVIOUS
<1>1. TokensTypeOK
  <2>1. /\ limit \in Limits /\ tick = 0 /\ admitted \in [Windows -> Nat] /\ spent \in [Windows -> Nat]
        /\ outages \subseteq Windows
    BY DEF TokensInit
  <2>2. tick \in 0..(WindowTicks * (LastWindow + 1) - 1)
    <3>1. WindowTicks * (LastWindow + 1) \in Nat \ {0}
      BY TokensAssumption
    <3> HIDE DEF TokensInit
    <3>2. QED  BY <2>1, <3>1
  <2>3. lease \in [Processes -> [Windows -> LeaseRows]]
    BY DEF TokensInit, NoLease, LeaseRows
  <2>4. held \in [Processes -> HeldRows]
    BY DEF TokensInit, HeldRows
  <2>5. asked \in [Requests -> AskedRows]
    BY TokensAssumption DEF TokensInit, AskedRows, Windows
  <2>6. QED  BY <2>1, <2>2, <2>3, <2>4, <2>5 DEF TokensTypeOK, LeaseRows, HeldRows, AskedRows
<1>2. ASSUME NEW w \in Windows PROVE NoneOverrun(w)
  <2>1. \A p \in Processes : HoldsOf(p, w) = 0
    BY <1>2 DEF TokensInit, HoldsOf, NoLease, NoWindow
  <2>2. \A p \in Processes : RowOf(p, [q \in Processes |-> HoldsOf(q, w)][p]) = {}
    BY <2>1 DEF RowOf
  <2>3. Hand(w) = {}
    BY <2>2 DEF Hand, Rows
  <2>4. IsFiniteSet(Hand(w)) /\ Cardinality(Hand(w)) = 0
    BY <2>3, FS_EmptySet
  <2>5. QED  BY <1>2, <2>4, TokensAssumption DEF NoneOverrun, TokensInit
<1>3. EmptyLeases /\ EmptyAnswers /\ RefusedWhenSpent
  BY DEF TokensInit, EmptyLeases, EmptyAnswers, RefusedWhenSpent, NoLease
<1>4. QED  BY <1>1, <1>2, <1>3 DEF TokensInv

LEMMA TokensTypes ==
    TokensTypeOK <=>
        /\ limit \in Limits
        /\ tick \in 0..(WindowTicks * (LastWindow + 1) - 1)
        /\ spent \in [Windows -> Nat]
        /\ lease \in [Processes -> [Windows -> LeaseRows]]
        /\ held \in [Processes -> HeldRows]
        /\ asked \in [Requests -> AskedRows]
        /\ admitted \in [Windows -> Nat]
        /\ outages \subseteq Windows
  BY DEF TokensTypeOK, LeaseRows, HeldRows, AskedRows

LEMMA WindowTyped == ASSUME TokensTypeOK PROVE Window \in Windows /\ tick \in Nat
<1>1. tick \in 0..(WindowTicks * (LastWindow + 1) - 1)
  BY DEF TokensTypeOK
<1>2. WindowTicks \in Nat \ {0} /\ LastWindow \in Nat
  BY TokensAssumption
<1>3. tick \div WindowTicks \in 0..LastWindow
  BY <1>1, <1>2, DivAtMost
<1>4. tick \in Nat
  <2>1. WindowTicks * (LastWindow + 1) - 1 \in Int
    BY <1>2
  <2>2. QED  BY <1>1, <2>1
<1>5. QED  BY <1>3, <1>4 DEF Window, WindowAt, Windows

\* A grant is a batch at most, and fits what the estimate leaves of the limit.
LEMMA GrantFits ==
    ASSUME TokensTypeOK, NEW p \in Processes, NEW w \in Windows
    PROVE  /\ Granted(p, w) \in Nat
           /\ spent[w] <= limit => spent[w] + Granted(p, w) <= limit
           /\ Granted(p, w) = 0 => GivenOut(w)
<1> DEFINE before == IF w = 0 THEN 0 ELSE spent[w - 1]
           now    == lease[p][w].now
           weight == WindowTicks - (now % WindowTicks)
           e      == Estimate(w, now)
<1>1. spent[w] \in Nat /\ limit \in Nat \ {0} /\ WindowTicks \in Nat \ {0}
  BY TokensAssumption DEF TokensTypeOK
<1>2. before \in Nat
  <2>1. w # 0 => w - 1 \in Windows
    BY TokensAssumption DEF Windows
  <2>2. QED  BY <2>1 DEF TokensTypeOK
<1>3. weight \in 1..WindowTicks
  <2>1. now \in Nat
    <3>1. lease[p][w] \in LeaseRows
      BY TokensTypes
    <3>2. QED  BY <3>1 DEF LeaseRows
  <2>2. now % WindowTicks \in 0..(WindowTicks - 1)
    BY <1>1, <2>1, DivFacts
  <2> HIDE DEF now
  <2>3. QED  BY <1>1, <2>2
<1>4. e = (before * weight + spent[w] * WindowTicks) \div WindowTicks
  BY DEF Estimate
<1> HIDE DEF before, weight, now, e
<1>5. e \in Nat /\ spent[w] <= e /\ e <= before + spent[w]
  BY <1>1, <1>2, <1>3, <1>4, EstimateBounds
<1>6. Granted(p, w) = LET available == limit - e
                      IN IF available <= 0 THEN 0
                         ELSE IF TokenBatch < available THEN TokenBatch ELSE available
  BY DEF Granted, e, now
<1>7. TokenBatch \in {1, 5}
  BY DEF TokenBatch
<1>8. GivenOut(w) <=> spent[w] + before >= limit
  BY DEF GivenOut, before
<1> HIDE DEF Windows
<1>9. QED  BY <1>1, <1>2, <1>5, <1>6, <1>7, <1>8

\* A step that takes nothing from Redis keeps the invariant if what a process has
\* in hand of a window, with what was admitted against it, does not grow.
LEMMA LocalStep ==
    ASSUME TokensInv, TokensTypeOK', NEW p \in Processes,
           UNCHANGED <<limit, spent, outages>>,
           \A q \in Processes \ {p}, w \in Windows : HoldsOf(q, w)' = HoldsOf(q, w),
           \A w \in Windows :
               admitted'[w] + HoldsOf(p, w)' <= admitted[w] + HoldsOf(p, w)
    PROVE  (\A w \in Windows : NoneOverrun(w))'
<1> SUFFICES ASSUME NEW w \in Windows PROVE NoneOverrun(w)'
  BY DEF Windows
<1>1. TokensTypeOK /\ NoneOverrun(w)
  BY DEF TokensInv
<1>2. /\ IsFiniteSet(Hand(w)') /\ Cardinality(Hand(w)) \in Nat
      /\ Cardinality(Hand(w)') = Cardinality(Hand(w)) - HoldsOf(p, w) + HoldsOf(p, w)'
  BY <1>1, HandStep DEF NoneOverrun
<1>3. admitted[w] \in Nat /\ admitted'[w] \in Nat /\ spent[w] \in Nat /\ HoldsOf(p, w) \in Nat
  BY <1>1, HoldsNat DEF TokensTypeOK, Windows
<1>4. HoldsOf(p, w)' \in Nat
  BY HoldsNatNext
<1>5. admitted'[w] + HoldsOf(p, w)' <= admitted[w] + HoldsOf(p, w)
  OBVIOUS
<1>6. w \notin outages => admitted'[w] + Cardinality(Hand(w)') <= spent[w] /\ spent[w] <= limit
  BY <1>1, <1>2, <1>3, <1>4, <1>5 DEF NoneOverrun
<1>7. QED  BY <1>2, <1>6 DEF NoneOverrun

\* What was given out stays so.
LEMMA GivenOutStays ==
    ASSUME TokensTypeOK, TokensTypeOK', limit' = limit, \A w \in Windows : spent'[w] >= spent[w],
           NEW w \in Windows, GivenOut(w)
    PROVE  GivenOut(w)'
<1>1. spent[w] \in Nat /\ spent'[w] \in Nat /\ spent'[w] >= spent[w] /\ limit \in Nat
  BY TokensAssumption DEF TokensTypeOK, Windows
<1>2. w # 0 => w - 1 \in Windows
  BY TokensAssumption DEF Windows
<1>3. w # 0 => spent[w - 1] \in Nat /\ spent'[w - 1] \in Nat /\ spent'[w - 1] >= spent[w - 1]
  BY <1>2 DEF TokensTypeOK, Windows
<1>4. QED  BY <1>1, <1>3 DEF GivenOut

LEMMA TickStep == ASSUME TokensInv, Tick PROVE TokensInv'
<1>1. TokensTypeOK'
  <2>1. tick' \in 0..(WindowTicks * (LastWindow + 1) - 1)
    <3>1. WindowTicks * (LastWindow + 1) - 1 \in Int
      BY TokensAssumption
    <3>2. tick \in 0..(WindowTicks * (LastWindow + 1) - 1)
      BY DEF TokensInv, TokensTypeOK
    <3> DEFINE last == WindowTicks * (LastWindow + 1) - 1
    <3>3. tick < last /\ tick' = tick + 1
      BY DEF Tick
    <3> HIDE DEF last
    <3>4. QED  BY <3>1, <3>2, <3>3 DEF last
  <2>2. QED  BY <2>1 DEF TokensInv, TokensTypeOK, Tick, Windows
<1>2. UNCHANGED <<limit, spent, lease, held, asked, admitted, outages>>
  BY DEF Tick
<1>3. (\A w \in Windows : NoneOverrun(w))' /\ EmptyLeases' /\ EmptyAnswers' /\ RefusedWhenSpent'
  BY <1>2 DEF TokensInv, NoneOverrun, Hand, Rows, RowOf, HoldsOf, EmptyLeases, EmptyAnswers,
              RefusedWhenSpent, GivenOut
<1>4. QED  BY <1>1, <1>3 DEF TokensInv

LEMMA CreditStep ==
    ASSUME TokensInv, NEW p \in Processes, NEW w \in Windows, Credit(p, w) PROVE TokensInv'
<1>1. /\ lease[p][w] \in LeaseRows /\ held[p] \in HeldRows
      /\ lease \in [Processes -> [Windows -> LeaseRows]] /\ held \in [Processes -> HeldRows]
      /\ asked \in [Requests -> AskedRows]
  BY TokensTypes DEF TokensInv
<1>2. /\ lease[p][w].at = "back" /\ lease' = [lease EXCEPT ![p][w] = NoLease]
      /\ UNCHANGED <<limit, tick, spent, admitted, outages>>
  BY DEF Credit
<1>3. held' = IF held[p].window = w
              THEN [held EXCEPT ![p].tokens = @ + lease[p][w].granted, ![p].leasing = FALSE]
              ELSE held
  BY DEF Credit
<1>4. asked' = [q \in Requests |->
                 IF asked[q].at = "waiting" /\ RequestOf[q] = p /\ asked[q].window = w
                 THEN [asked[q] EXCEPT !.at = "told", !.granted = lease[p][w].granted]
                 ELSE asked[q]]
  BY DEF Credit, Told
<1>5. TokensTypeOK'
  <2>1. lease' \in [Processes -> [Windows -> LeaseRows]]
    BY <1>1, <1>2 DEF NoLease, LeaseRows
  <2>2. held' \in [Processes -> HeldRows]
    <3>1. /\ lease[p][w].granted \in Nat /\ held[p].tokens + lease[p][w].granted \in Nat
          /\ held[p].window \in Windows \cup {NoWindow}
      BY <1>1 DEF LeaseRows, HeldRows
    <3>2. held' = held \/ held' = [held EXCEPT ![p] =
              [@ EXCEPT !.tokens = held[p].tokens + lease[p][w].granted, !.leasing = FALSE]]
      BY <1>1, <1>3
    <3>3. [held[p] EXCEPT !.tokens = held[p].tokens + lease[p][w].granted, !.leasing = FALSE]
             \in HeldRows
      BY <1>1, <3>1 DEF HeldRows
    <3>4. QED  BY <1>1, <3>2, <3>3
  <2>3. asked' \in [Requests -> AskedRows]
    BY <1>1, <1>4 DEF AskedRows, LeaseRows
  <2>4. QED  BY <1>2, <2>1, <2>2, <2>3, TokensTypes DEF TokensInv, TokensTypeOK, LeaseRows, HeldRows, AskedRows
<1>6. (\A v \in Windows : NoneOverrun(v))'
  <2>1. \A q \in Processes \ {p}, v \in Windows : HoldsOf(q, v)' = HoldsOf(q, v)
    BY <1>1, <1>2, <1>3 DEF HoldsOf
  <2>2. ASSUME NEW v \in Windows
        PROVE  admitted'[v] + HoldsOf(p, v)' <= admitted[v] + HoldsOf(p, v)
    <3>1. lease'[p][v] = (IF v = w THEN NoLease ELSE lease[p][v]) /\ lease[p][v] \in LeaseRows
      BY <1>1, <1>2
    <3>2. held'[p].window = held[p].window
          /\ held'[p].tokens = (IF held[p].window = w THEN held[p].tokens + lease[p][w].granted
                                ELSE held[p].tokens)
      BY <1>1, <1>3 DEF HeldRows
    <3>3. /\ admitted[v] \in Nat /\ held[p].tokens \in Nat /\ lease[p][w].granted \in Nat
          /\ lease[p][v].granted \in Nat
      BY <1>1, <3>1 DEF TokensInv, TokensTypeOK, HeldRows, LeaseRows
    <3>4. HoldsOf(p, v)' <= HoldsOf(p, v) /\ HoldsOf(p, v) \in Nat /\ HoldsOf(p, v)' \in Nat
      <4>1. CASE v = w
        BY <1>2, <3>1, <3>2, <3>3, <4>1 DEF HoldsOf, NoLease
      <4>2. CASE v # w
        BY <1>2, <3>1, <3>2, <3>3, <4>2 DEF HoldsOf
      <4>3. QED  BY <4>1, <4>2
    <3>5. QED  BY <1>2, <3>3, <3>4
  <2>3. QED  BY <1>2, <1>5, <2>1, <2>2, LocalStep
<1>7. \A v \in Windows : GivenOut(v)' <=> GivenOut(v)
  BY <1>2 DEF GivenOut
<1>8. EmptyLeases'
  <2>1. ASSUME NEW q \in Processes, NEW v \in Windows, lease'[q][v].at = "back",
               lease'[q][v].granted = 0
        PROVE  GivenOut(v)
    <3>1. lease'[q][v] = lease[q][v]
      BY <1>1, <1>2, <2>1 DEF NoLease
    <3>2. QED  BY <2>1, <3>1 DEF TokensInv, EmptyLeases
  <2>2. QED  BY <1>7, <2>1 DEF EmptyLeases, Windows
<1>9. EmptyAnswers'
  <2>1. ASSUME NEW q \in Requests, asked'[q].at = "told", asked'[q].granted = 0
        PROVE  GivenOut(asked'[q].window) /\ asked'[q].window \in Windows
    <3>1. asked[q] \in AskedRows
      BY <1>1
    <3>2. CASE asked[q].at = "waiting" /\ RequestOf[q] = p /\ asked[q].window = w
      <4>1. asked'[q].granted = lease[p][w].granted /\ asked'[q].window = w
        BY <1>4, <3>1, <3>2 DEF AskedRows
      <4>2. QED  BY <1>2, <2>1, <4>1 DEF TokensInv, EmptyLeases
    <3>3. CASE ~(asked[q].at = "waiting" /\ RequestOf[q] = p /\ asked[q].window = w)
      <4>1. asked'[q] = asked[q]
        BY <1>4, <3>3
      <4>2. QED  BY <2>1, <3>1, <4>1 DEF TokensInv, EmptyAnswers, AskedRows
    <3>4. QED  BY <3>2, <3>3
  <2>2. QED  BY <1>2, <2>1 DEF EmptyAnswers, GivenOut
<1>10. RefusedWhenSpent'
  <2>1. ASSUME NEW q \in Requests, asked'[q].at = "refused" PROVE asked'[q] = asked[q]
    BY <1>1, <1>4, <2>1 DEF AskedRows
  <2>2. QED  BY <1>2, <2>1 DEF TokensInv, RefusedWhenSpent
<1>11. QED  BY <1>5, <1>6, <1>8, <1>9, <1>10 DEF TokensInv

\* A batch comes back from Redis, or is credited without it.
LEMMA BatchBackStep ==
    ASSUME TokensInv, NEW p \in Processes, NEW w \in Windows, NEW n \in Nat, NEW drawn \in Nat,
           lease[p][w].at = "sent",
           lease' = [lease EXCEPT ![p][w].at = "back", ![p][w].granted = n],
           spent' = [spent EXCEPT ![w] = @ + drawn],
           UNCHANGED <<limit, tick, held, asked, admitted>>,
           outages' \subseteq Windows, outages \subseteq outages',
           w \notin outages' => n = drawn /\ (spent[w] <= limit => spent[w] + drawn <= limit),
           n = 0 => GivenOut(w)
    PROVE  TokensInv'
<1>1. /\ lease[p][w] \in LeaseRows /\ held[p] \in HeldRows /\ spent[w] \in Nat
      /\ lease \in [Processes -> [Windows -> LeaseRows]] /\ held \in [Processes -> HeldRows]
      /\ asked \in [Requests -> AskedRows] /\ spent \in [Windows -> Nat]
  BY TokensTypes DEF TokensInv
<1> DEFINE row == [lease[p][w] EXCEPT !.at = "back", !.granted = n]
<1>2. row \in LeaseRows /\ row.at = "back" /\ row.granted = n
  BY <1>1 DEF LeaseRows
<1>3. lease' = [lease EXCEPT ![p][w] = row]
  BY <1>1
<1> HIDE DEF row
<1>4. lease' \in [Processes -> [Windows -> LeaseRows]]
  <2>1. [lease[p] EXCEPT ![w] = row] \in [Windows -> LeaseRows]
    BY <1>1, <1>2
  <2>2. lease' = [lease EXCEPT ![p] = [lease[p] EXCEPT ![w] = row]]
    BY <1>3
  <2>3. QED  BY <1>1, <2>1, <2>2
<1>5. spent' \in [Windows -> Nat] /\ \A v \in Windows : spent'[v] >= spent[v]
  BY <1>1
<1>6. TokensTypeOK'
  BY <1>4, <1>5, TokensTypes
     DEF TokensInv, TokensTypeOK, LeaseRows, HeldRows, AskedRows, Windows
<1>7. ASSUME NEW v \in Windows PROVE NoneOverrun(v)'
  <2>1. TokensTypeOK /\ NoneOverrun(v) /\ IsFiniteSet(Hand(v))
    BY DEF TokensInv, NoneOverrun
  <2>2. \A q \in Processes \ {p} : HoldsOf(q, v)' = HoldsOf(q, v)
    BY <1>1, <1>3 DEF HoldsOf
  <2>3. HoldsOf(p, v)' = HoldsOf(p, v) + (IF v = w THEN n ELSE 0)
    <3>1. held[p].tokens \in Nat /\ lease[p][v] \in LeaseRows /\ lease[p][v].granted \in Nat
      BY <1>1 DEF HeldRows, LeaseRows
    <3>2. CASE v = w
      BY <1>1, <1>2, <1>3, <3>1, <3>2 DEF HoldsOf
    <3>3. CASE v # w
      BY <1>1, <1>3, <3>1, <3>3 DEF HoldsOf
    <3>4. QED  BY <3>2, <3>3
  <2>4. /\ IsFiniteSet(Hand(v)') /\ Cardinality(Hand(v)) \in Nat
        /\ Cardinality(Hand(v)') = Cardinality(Hand(v)) - HoldsOf(p, v) + HoldsOf(p, v)'
    BY <1>6, <2>1, <2>2, HandStep
  <2>5. admitted[v] \in Nat /\ spent[v] \in Nat /\ HoldsOf(p, v) \in Nat /\ limit \in Nat
    BY <2>1, HoldsNat, TokensAssumption DEF TokensTypeOK
  <2>6. spent'[v] = spent[v] + (IF v = w THEN drawn ELSE 0)
    BY <1>1, <2>5
  <2>7. v \notin outages' => admitted[v] + Cardinality(Hand(v)') <= spent'[v] /\ spent'[v] <= limit
    <3> SUFFICES ASSUME v \notin outages'
                 PROVE  admitted[v] + Cardinality(Hand(v)') <= spent'[v] /\ spent'[v] <= limit
      OBVIOUS
    <3>1. admitted[v] + Cardinality(Hand(v)) <= spent[v] /\ spent[v] <= limit
      BY <2>1 DEF NoneOverrun
    <3>2. CASE v = w
      BY <2>3, <2>4, <2>5, <2>6, <3>1, <3>2
    <3>3. CASE v # w
      BY <2>3, <2>4, <2>5, <2>6, <3>1, <3>3
    <3>4. QED  BY <3>2, <3>3
  <2>8. QED  BY <2>4, <2>7 DEF NoneOverrun
<1>8. ASSUME NEW v \in Windows, GivenOut(v) PROVE GivenOut(v)'
  BY <1>5, <1>6, <1>8, GivenOutStays DEF TokensInv
<1>9. EmptyLeases'
  <2>1. ASSUME NEW q \in Processes, NEW v \in Windows, lease'[q][v].at = "back",
               lease'[q][v].granted = 0
        PROVE  GivenOut(v)
    <3>1. CASE q = p /\ v = w
      BY <1>1, <1>2, <1>3, <2>1, <3>1
    <3>2. CASE ~(q = p /\ v = w)
      <4>1. lease'[q][v] = lease[q][v]
        BY <1>1, <1>3, <3>2
      <4>2. QED  BY <2>1, <4>1 DEF TokensInv, EmptyLeases
    <3>3. QED  BY <3>1, <3>2
  <2>2. QED  BY <1>8, <2>1 DEF EmptyLeases, Windows
<1>10. EmptyAnswers'
  <2>1. ASSUME NEW q \in Requests, asked[q].at = "told", asked[q].granted = 0
        PROVE  GivenOut(asked[q].window)'
    <3>1. PICK v \in Windows : v = asked[q].window
      BY <1>1 DEF AskedRows
    <3>2. GivenOut(v)
      BY <2>1, <3>1 DEF TokensInv, EmptyAnswers
    <3>3. GivenOut(v)'
      BY <1>8, <3>2
    <3>4. asked'[q].window = v
      BY <3>1
    <3>5. QED  BY <3>3, <3>4 DEF GivenOut
  <2>2. QED  BY <2>1 DEF EmptyAnswers
<1>11. RefusedWhenSpent'
  <2>1. ASSUME NEW q \in Requests, asked[q].at = "refused" PROVE GivenOut(asked[q].window)'
    <3>1. PICK v \in Windows : v = asked[q].window
      BY <1>1 DEF AskedRows
    <3>2. GivenOut(v)
      BY <2>1, <3>1 DEF TokensInv, RefusedWhenSpent, GivenOut
    <3>3. GivenOut(v)'
      BY <1>8, <3>2
    <3>4. asked'[q].window = v
      BY <3>1
    <3>5. QED  BY <3>3, <3>4 DEF GivenOut
  <2>2. QED  BY <2>1 DEF RefusedWhenSpent, GivenOut
<1>12. QED  BY <1>6, <1>7, <1>9, <1>10, <1>11 DEF TokensInv, Windows

LEMMA GrantStep ==
    ASSUME TokensInv, NEW p \in Processes, NEW w \in Windows, Grant(p, w) PROVE TokensInv'
<1>1. TokensTypeOK /\ outages \subseteq Windows
  BY DEF TokensInv, TokensTypeOK
<1>2. PICK n \in Nat : n = Granted(p, w)
  BY <1>1, GrantFits
<1>3. /\ spent[w] <= limit => spent[w] + n <= limit
      /\ n = 0 => GivenOut(w)
  BY <1>1, <1>2, GrantFits
<1>4. /\ lease[p][w].at = "sent"
      /\ spent' = [spent EXCEPT ![w] = @ + n]
      /\ lease' = [lease EXCEPT ![p][w].at = "back", ![p][w].granted = n]
      /\ UNCHANGED <<limit, tick, held, asked, admitted, outages>>
  BY <1>2 DEF Grant
<1>5. QED  BY <1>1, <1>3, <1>4, BatchBackStep

LEMMA OutageStep ==
    ASSUME TokensInv, NEW p \in Processes, NEW w \in Windows, Outage(p, w) PROVE TokensInv'
<1>1. TokensTypeOK /\ outages \subseteq Windows
  BY DEF TokensInv, TokensTypeOK
<1>2. PICK n \in Nat \ {0} : n = TokenBatch
  BY DEF TokenBatch
<1>3. PICK drawn \in {0, Granted(p, w)} : spent' = [spent EXCEPT ![w] = @ + drawn]
  BY DEF Outage
<1>4. drawn \in Nat
  BY <1>1, <1>3, GrantFits
<1>5. /\ lease[p][w].at = "sent"
      /\ lease' = [lease EXCEPT ![p][w].at = "back", ![p][w].granted = n]
      /\ UNCHANGED <<limit, tick, held, asked, admitted>>
      /\ outages' = outages \cup {w}
  BY <1>2 DEF Outage
<1>6. outages' \subseteq Windows /\ outages \subseteq outages' /\ w \in outages' /\ n # 0
  BY <1>1, <1>2, <1>5
<1>7. QED  BY <1>3, <1>4, <1>5, <1>6, BatchBackStep

\* A request takes a token, if one is left, and may send a lease.
LEMMA HeldStep ==
    ASSUME TokensInv, NEW p \in Processes, NEW w \in Windows, NEW h \in HeldRows, NEW n \in {0, 1},
           held' = [held EXCEPT ![p] = h], h.window = w,
           \/ held[p].window = w /\ h.tokens + n <= held[p].tokens
           \/ h.tokens = 0 /\ n = 0,
           \/ lease' = lease
           \/ \E now \in Nat : lease' = [lease EXCEPT ![p][w] =
                                           [at |-> "sent", now |-> now, granted |-> 0]],
           admitted' = IF n = 0 THEN admitted ELSE [admitted EXCEPT ![w] = @ + 1],
           asked' \in [Requests -> AskedRows],
           UNCHANGED <<limit, tick, spent, outages>>
    PROVE  TokensTypeOK' /\ (\A v \in Windows : NoneOverrun(v))' /\ EmptyLeases'
<1>1. /\ held[p] \in HeldRows /\ admitted \in [Windows -> Nat]
      /\ lease \in [Processes -> [Windows -> LeaseRows]] /\ held \in [Processes -> HeldRows]
  BY TokensTypes DEF TokensInv
<1>2. /\ lease' \in [Processes -> [Windows -> LeaseRows]]
      /\ \A q \in Processes, v \in Windows :
            lease'[q][v] = lease[q][v] \/ (q = p /\ v = w /\ lease'[q][v].at = "sent")
  <2>1. CASE lease' = lease
    BY <1>1, <2>1
  <2>2. CASE lease' # lease
    <3>1. PICK now \in Nat : lease' = [lease EXCEPT ![p][w] =
                                          [at |-> "sent", now |-> now, granted |-> 0]]
      BY <2>2
    <3> DEFINE row == [at |-> "sent", now |-> now, granted |-> 0]
    <3>2. row \in LeaseRows /\ row.at = "sent"
      BY DEF LeaseRows
    <3>3. lease' = [lease EXCEPT ![p] = [lease[p] EXCEPT ![w] = row]]
      BY <3>1
    <3> HIDE DEF row
    <3>4. [lease[p] EXCEPT ![w] = row] \in [Windows -> LeaseRows]
      BY <1>1, <3>2
    <3>5. lease' \in [Processes -> [Windows -> LeaseRows]]
      BY <1>1, <3>3, <3>4
    <3>6. ASSUME NEW q \in Processes, NEW v \in Windows
          PROVE  lease'[q][v] = lease[q][v] \/ (q = p /\ v = w /\ lease'[q][v].at = "sent")
      BY <1>1, <3>2, <3>3
    <3>7. QED  BY <3>5, <3>6
  <2>3. QED  BY <2>1, <2>2
<1>3. admitted' \in [Windows -> Nat]
      /\ \A v \in Windows : admitted'[v] = admitted[v] + (IF v = w THEN n ELSE 0)
  BY <1>1
<1>4. TokensTypeOK'
  <2>1. held' \in [Processes -> HeldRows]
    BY <1>1
  <2>2. QED  BY <1>2, <1>3, <2>1, TokensTypes
             DEF TokensInv, TokensTypeOK, LeaseRows, HeldRows, AskedRows, Windows
<1>5. (\A v \in Windows : NoneOverrun(v))'
  <2>1. \A q \in Processes \ {p}, v \in Windows : HoldsOf(q, v)' = HoldsOf(q, v)
    <3>1. \A q \in Processes \ {p} : held'[q] = held[q]
      BY <1>1
    <3>2. QED  BY <1>2, <3>1 DEF HoldsOf
  <2>2. ASSUME NEW v \in Windows
        PROVE  admitted'[v] + HoldsOf(p, v)' <= admitted[v] + HoldsOf(p, v)
    <3>1. held'[p] = h /\ h.tokens \in Nat /\ held[p].tokens \in Nat /\ admitted[v] \in Nat
      BY <1>1 DEF HeldRows
    <3>2. lease[p][v].granted \in Nat
      BY <1>1 DEF LeaseRows
    <3>3. lease'[p][v] = lease[p][v] \/ lease'[p][v].at = "sent"
      BY <1>2
    <3>4. CASE v = w
      <4>1. admitted'[v] = admitted[v] + n
        BY <1>3, <3>4
      <4>2. PICK a \in Nat : a = IF held[p].window = v THEN held[p].tokens ELSE 0
        BY <3>1
      <4>3. h.tokens + n <= a
        BY <3>1, <3>4, <4>2
      <4>4. PICK b \in Nat : b = IF lease[p][v].at = "back" THEN lease[p][v].granted ELSE 0
        BY <3>2
      <4>5. PICK c \in Nat : c = (IF lease'[p][v].at = "back" THEN lease'[p][v].granted ELSE 0)
                             /\ c <= b
        BY <3>2, <3>3, <4>4
      <4>6. HoldsOf(p, v) = a + b
        BY <4>2, <4>4 DEF HoldsOf
      <4>7. HoldsOf(p, v)' = h.tokens + c
        BY <3>1, <3>4, <4>5 DEF HoldsOf
      <4>8. QED  BY <3>1, <4>1, <4>3, <4>5, <4>6, <4>7
    <3>5. CASE v # w
      BY <1>3, <3>1, <3>2, <3>3, <3>5 DEF HoldsOf
    <3>6. QED  BY <3>4, <3>5
  <2>3. QED  BY <1>4, <2>1, <2>2, LocalStep
<1>6. EmptyLeases'
  <2>1. ASSUME NEW q \in Processes, NEW v \in Windows, lease'[q][v].at = "back",
               lease'[q][v].granted = 0
        PROVE  GivenOut(v)'
    <3>1. lease'[q][v] = lease[q][v]
      BY <1>2, <2>1
    <3>2. GivenOut(v)
      BY <2>1, <3>1 DEF TokensInv, EmptyLeases
    <3>3. QED  BY <3>2 DEF GivenOut
  <2>2. QED  BY <2>1 DEF EmptyLeases, Windows
<1>7. QED  BY <1>4, <1>5, <1>6

\* One request goes on; it is told of nothing, and refused only as it was told.
LEMMA AskedStep ==
    ASSUME TokensInv, NEW q \in Requests, NEW row \in AskedRows,
           asked' = [asked EXCEPT ![q] = row], UNCHANGED <<limit, spent>>, row.at # "told",
           row.at = "refused" => GivenOut(row.window)
    PROVE  asked' \in [Requests -> AskedRows] /\ EmptyAnswers' /\ RefusedWhenSpent'
<1>1. asked \in [Requests -> AskedRows]
  BY TokensTypes DEF TokensInv
<1>2. EmptyAnswers'
  <2>1. ASSUME NEW r \in Requests, asked'[r].at = "told", asked'[r].granted = 0
        PROVE  asked'[r] = asked[r] /\ GivenOut(asked'[r].window)
    <3>1. asked'[r] = asked[r]
      BY <1>1, <2>1
    <3>2. QED  BY <2>1, <3>1 DEF TokensInv, EmptyAnswers
  <2>2. QED  BY <2>1 DEF EmptyAnswers, GivenOut
<1>3. RefusedWhenSpent'
  <2>1. ASSUME NEW r \in Requests, asked'[r].at = "refused" PROVE GivenOut(asked'[r].window)
    <3>1. CASE r = q
      BY <1>1, <2>1, <3>1
    <3>2. CASE r # q
      <4>1. asked'[r] = asked[r]
        BY <1>1, <3>2
      <4>2. QED  BY <2>1, <4>1 DEF TokensInv, RefusedWhenSpent, GivenOut
    <3>3. QED  BY <3>1, <3>2
  <2>2. QED  BY <2>1 DEF RefusedWhenSpent, GivenOut
<1>4. QED  BY <1>1, <1>2, <1>3

\* What refill() does to the state of a process.
LEMMA LeasingDoes ==
    ASSUME NEW p \in Processes, NEW w \in Windows, NEW now \in Nat, NEW h \in HeldRows,
           Leasing(p, h, w, now)
    PROVE  \E k \in HeldRows :
             /\ k.window = h.window /\ k.tokens = h.tokens /\ held' = [held EXCEPT ![p] = k]
             /\ \/ lease' = lease
                \/ \E t \in Nat : lease' = [lease EXCEPT ![p][w] =
                                               [at |-> "sent", now |-> t, granted |-> 0]]
<1> DEFINE k == [h EXCEPT !.leasing = TRUE]
<1>1. k \in HeldRows /\ k.window = h.window /\ k.tokens = h.tokens
  BY DEF HeldRows
<1>2. held' = [held EXCEPT ![p] = k]
  BY DEF Leasing
<1>3. \/ lease' = lease
      \/ \E t \in Nat : lease' = [lease EXCEPT ![p][w] =
                                     [at |-> "sent", now |-> t, granted |-> 0]]
  BY DEF Leasing
<1> HIDE DEF k
<1>4. QED  BY <1>1, <1>2, <1>3

LEMMA CheckStep == ASSUME TokensInv, NEW q \in Requests, Check(q) PROVE TokensInv'
<1> DEFINE p == RequestOf[q]
           w == Window
           h == IF held[p].window = w THEN held[p]
                ELSE [window |-> w, tokens |-> 0, leasing |-> FALSE]
<1>1. /\ p \in Processes /\ w \in Windows /\ tick \in Nat /\ held[p] \in HeldRows
      /\ asked[q] \in AskedRows /\ held \in [Processes -> HeldRows]
      /\ asked \in [Requests -> AskedRows] /\ TokensTypeOK
  BY TokensAssumption, TokensTypes, WindowTyped DEF TokensInv
<1>2. /\ h \in HeldRows /\ h.window = w /\ h.tokens \in Nat
      /\ (held[p].window = w /\ h = held[p]) \/ h.tokens = 0
  BY <1>1 DEF HeldRows
<1>3. UNCHANGED <<limit, tick, spent, outages>>
  BY DEF Check
<1>4. CASE h.tokens > 0
  <2>1. h = held[p] /\ held[p].window = w
    BY <1>2, <1>4
  <2>2. /\ Spend(q, w)
        /\ IF h.tokens - 1 <= Threshold25(TokenBatch)
           THEN Leasing(p, [h EXCEPT !.tokens = h.tokens - 1], w, tick)
           ELSE held' = [held EXCEPT ![p].tokens = h.tokens - 1] /\ UNCHANGED lease
    BY <1>4 DEF Check
  <2>3. PICK g \in HeldRows : g = [h EXCEPT !.tokens = h.tokens - 1] /\ g.window = w
                            /\ g.tokens = h.tokens - 1
    <3>1. h.tokens - 1 \in Nat
      BY <1>2, <1>4
    <3>2. [h EXCEPT !.tokens = h.tokens - 1] \in HeldRows
      BY <1>2, <3>1 DEF HeldRows
    <3> HIDE DEF h, w
    <3>3. QED  BY <1>2, <3>2 DEF HeldRows
  <2>4. PICK k \in HeldRows :
             /\ k.window = w /\ k.tokens = h.tokens - 1 /\ held' = [held EXCEPT ![p] = k]
             /\ \/ lease' = lease
                \/ \E t \in Nat : lease' = [lease EXCEPT ![p][w] =
                                               [at |-> "sent", now |-> t, granted |-> 0]]
    <3>1. CASE h.tokens - 1 <= Threshold25(TokenBatch)
      <4>1. Leasing(p, g, w, tick)
        BY <2>2, <2>3, <3>1
      <4> HIDE DEF p, w, h
      <4>2. \E k \in HeldRows :
               /\ k.window = g.window /\ k.tokens = g.tokens /\ held' = [held EXCEPT ![p] = k]
               /\ \/ lease' = lease
                  \/ \E t \in Nat : lease' = [lease EXCEPT ![p][w] =
                                                 [at |-> "sent", now |-> t, granted |-> 0]]
        BY <1>1, <4>1, LeasingDoes
      <4>3. QED  BY <2>3, <4>2
    <3>2. CASE ~(h.tokens - 1 <= Threshold25(TokenBatch))
      <4>1. held' = [held EXCEPT ![p] = g] /\ lease' = lease
        BY <2>1, <2>2, <2>3, <3>2
      <4> HIDE DEF p, w, h
      <4>2. QED  BY <2>3, <4>1
    <3>3. QED  BY <3>1, <3>2
  <2>5. PICK row \in AskedRows : row = [asked[q] EXCEPT !.at = "admitted"] /\ row.at = "admitted"
    <3>1. PICK a \in AskedRows : a = asked[q]
      BY <1>1
    <3>2. [a EXCEPT !.at = "admitted"] \in AskedRows /\ [a EXCEPT !.at = "admitted"].at = "admitted"
      BY DEF AskedRows
    <3>3. QED  BY <3>1, <3>2
  <2>6. asked' = [asked EXCEPT ![q] = row] /\ admitted' = [admitted EXCEPT ![w] = @ + 1]
    BY <2>2, <2>5 DEF Spend
  <2> HIDE DEF p, w, h
  <2>7. asked' \in [Requests -> AskedRows] /\ EmptyAnswers' /\ RefusedWhenSpent'
    BY <1>3, <2>5, <2>6, AskedStep
  <2>8. k.tokens + 1 <= held[p].tokens
    BY <1>2, <2>1, <2>4
  <2>9. PICK n \in {0, 1} :
             /\ k.tokens + n <= held[p].tokens
             /\ admitted' = IF n = 0 THEN admitted ELSE [admitted EXCEPT ![w] = @ + 1]
    BY <2>6, <2>8
  <2>10. TokensTypeOK' /\ (\A v \in Windows : NoneOverrun(v))' /\ EmptyLeases'
    BY <1>1, <1>3, <2>1, <2>4, <2>7, <2>9, HeldStep
  <2>11. QED  BY <2>7, <2>10 DEF TokensInv
<1>5. CASE ~(h.tokens > 0)
  <2>1. /\ asked' = [asked EXCEPT ![q] = [at |-> "waiting", window |-> w,
                                          now |-> tick, granted |-> 0]]
        /\ Leasing(p, h, w, tick)
        /\ UNCHANGED admitted
    BY <1>5 DEF Check
  <2> DEFINE row == [at |-> "waiting", window |-> w, now |-> tick, granted |-> 0]
  <2>2. row \in AskedRows /\ row.at = "waiting"
    BY <1>1 DEF AskedRows
  <2>3. h.tokens = 0
    BY <1>2, <1>5
  <2> HIDE DEF p, w, h, row
  <2>4. PICK k \in HeldRows :
             /\ k.window = w /\ k.tokens = 0 /\ held' = [held EXCEPT ![p] = k]
             /\ \/ lease' = lease
                \/ \E t \in Nat : lease' = [lease EXCEPT ![p][w] =
                                               [at |-> "sent", now |-> t, granted |-> 0]]
    BY <1>1, <1>2, <2>1, <2>3, LeasingDoes
  <2>5. asked' = [asked EXCEPT ![q] = row]
    BY <2>1 DEF row
  <2>6. asked' \in [Requests -> AskedRows] /\ EmptyAnswers' /\ RefusedWhenSpent'
    BY <1>3, <2>2, <2>5, AskedStep
  <2>7. PICK n \in {0, 1} : n = 0
    OBVIOUS
  <2>8. TokensTypeOK' /\ (\A v \in Windows : NoneOverrun(v))' /\ EmptyLeases'
    BY <1>1, <1>3, <2>1, <2>4, <2>6, <2>7, HeldStep
  <2>9. QED  BY <2>6, <2>8 DEF TokensInv
<1>6. QED  BY <1>4, <1>5

LEMMA ResumeStep == ASSUME TokensInv, NEW q \in Requests, Resume(q) PROVE TokensInv'
<1> DEFINE p == RequestOf[q]
           w == asked[q].window
<1>1. /\ p \in Processes /\ w \in Windows /\ held[p] \in HeldRows /\ held[p].tokens \in Nat
      /\ asked[q] \in AskedRows /\ held \in [Processes -> HeldRows] /\ asked[q].now \in Nat
      /\ asked \in [Requests -> AskedRows] /\ asked[q].at = "told"
  BY TokensAssumption, TokensTypes DEF TokensInv, HeldRows, AskedRows, Resume
<1>2. UNCHANGED <<limit, tick, spent, outages>>
  BY DEF Resume
<1>3. \/ /\ asked' = [asked EXCEPT ![q].at = "turned"]
         /\ UNCHANGED <<held, lease, admitted>>
      \/ /\ asked[q].granted = 0 /\ asked' = [asked EXCEPT ![q].at = "refused"]
         /\ UNCHANGED <<held, lease, admitted>>
      \/ /\ held[p].window = w /\ held[p].tokens > 0 /\ Spend(q, w)
         /\ held' = [held EXCEPT ![p].tokens = @ - 1] /\ lease' = lease
      \/ /\ held[p].window = w /\ asked' = [asked EXCEPT ![q].at = "waiting"]
         /\ Leasing(p, held[p], w, asked[q].now) /\ admitted' = admitted
  BY DEF Resume
<1>4. ASSUME NEW to \in {"turned", "refused", "admitted", "waiting"},
             asked' = [asked EXCEPT ![q].at = to], to = "refused" => asked[q].granted = 0
      PROVE  asked' \in [Requests -> AskedRows] /\ EmptyAnswers' /\ RefusedWhenSpent'
  <2>1. PICK a \in AskedRows : a = asked[q]
    BY <1>1
  <2>2. PICK row \in AskedRows : row = [a EXCEPT !.at = to] /\ row.at = to /\ row.window = a.window
    <3>1. [a EXCEPT !.at = to] = [at |-> to, window |-> a.window, now |-> a.now,
                                  granted |-> a.granted]
      BY DEF AskedRows
    <3>2. a.window \in Windows /\ a.now \in Nat /\ a.granted \in Nat
      BY DEF AskedRows
    <3>3. [at |-> to, window |-> a.window, now |-> a.now, granted |-> a.granted] \in AskedRows
      BY <3>2 DEF AskedRows
    <3>4. QED  BY <3>1, <3>3
  <2>3. asked' = [asked EXCEPT ![q] = row]
    BY <1>4, <2>1, <2>2
  <2>4. row.at = "refused" => GivenOut(row.window)
    BY <1>1, <1>4, <2>1, <2>2 DEF TokensInv, EmptyAnswers
  <2>5. row.at # "told"
    BY <2>2
  <2>6. QED  BY <1>2, <2>3, <2>4, <2>5, AskedStep
<1> HIDE DEF p, w
<1>5. PICK h \in HeldRows, n \in {0, 1}, to \in {"turned", "refused", "admitted", "waiting"},
           v \in Windows :
        /\ asked' = [asked EXCEPT ![q].at = to] /\ (to = "refused" => asked[q].granted = 0)
        /\ \/ n = 0 /\ UNCHANGED <<held, lease, admitted>>
           \/ /\ held' = [held EXCEPT ![p] = h] /\ h.window = v /\ held[p].window = v
              /\ h.tokens + n <= held[p].tokens
              /\ \/ lease' = lease
                 \/ \E now \in Nat : lease' = [lease EXCEPT ![p][v] =
                                                 [at |-> "sent", now |-> now, granted |-> 0]]
              /\ admitted' = IF n = 0 THEN admitted ELSE [admitted EXCEPT ![v] = @ + 1]
  <2>1. CASE /\ asked' = [asked EXCEPT ![q].at = "turned"]
             /\ UNCHANGED <<held, lease, admitted>>
    BY <1>1, <2>1
  <2>2. CASE /\ asked[q].granted = 0 /\ asked' = [asked EXCEPT ![q].at = "refused"]
             /\ UNCHANGED <<held, lease, admitted>>
    BY <1>1, <2>2
  <2>3. CASE /\ held[p].window = w /\ held[p].tokens > 0 /\ Spend(q, w)
             /\ held' = [held EXCEPT ![p].tokens = @ - 1] /\ lease' = lease
    <3>1. PICK g \in HeldRows : g = held[p]
      BY <1>1
    <3>2. PICK h \in HeldRows : /\ h = [g EXCEPT !.tokens = g.tokens - 1]
                                /\ h.window = g.window /\ h.tokens = g.tokens - 1
      BY <1>1, <2>3, <3>1 DEF HeldRows
    <3>3. held' = [held EXCEPT ![p] = h]
      BY <2>3, <3>1, <3>2
    <3>4. PICK n \in {0, 1} : /\ h.tokens + n <= held[p].tokens
                              /\ admitted' = IF n = 0 THEN admitted
                                             ELSE [admitted EXCEPT ![w] = @ + 1]
      BY <1>1, <2>3, <3>1, <3>2 DEF Spend
    <3>5. asked' = [asked EXCEPT ![q].at = "admitted"]
      BY <2>3 DEF Spend
    <3>6. held[p].window = w /\ h.window = w /\ lease' = lease
      BY <2>3, <3>1, <3>2
    <3>7. QED  BY <1>1, <3>3, <3>4, <3>5, <3>6
  <2>4. CASE /\ held[p].window = w /\ asked' = [asked EXCEPT ![q].at = "waiting"]
             /\ Leasing(p, held[p], w, asked[q].now) /\ admitted' = admitted
    <3>1. PICK g \in HeldRows, now \in Nat : g = held[p] /\ now = asked[q].now
      BY <1>1
    <3>2. Leasing(p, g, w, now)
      BY <2>4, <3>1
    <3>3. PICK h \in HeldRows :
               /\ h.window = g.window /\ h.tokens = g.tokens /\ held' = [held EXCEPT ![p] = h]
               /\ \/ lease' = lease
                  \/ \E t \in Nat : lease' = [lease EXCEPT ![p][w] =
                                                 [at |-> "sent", now |-> t, granted |-> 0]]
      BY <1>1, <3>2, LeasingDoes
    <3>4. PICK n \in {0, 1} : /\ h.tokens + n <= held[p].tokens
                              /\ admitted' = IF n = 0 THEN admitted
                                             ELSE [admitted EXCEPT ![w] = @ + 1]
      BY <1>1, <2>4, <3>1, <3>3
    <3>5. QED  BY <1>1, <2>4, <3>1, <3>3, <3>4
  <2>5. QED  BY <1>3, <2>1, <2>2, <2>3, <2>4
<1>6. asked' \in [Requests -> AskedRows] /\ EmptyAnswers' /\ RefusedWhenSpent'
  BY <1>4, <1>5
<1>7. TokensTypeOK' /\ (\A u \in Windows : NoneOverrun(u))' /\ EmptyLeases'
  <2>1. CASE UNCHANGED <<held, lease, admitted>>
    <3>1. TokensTypeOK'
      BY <1>2, <1>6, <2>1, TokensTypes
         DEF TokensInv, TokensTypeOK, LeaseRows, HeldRows, AskedRows, Windows
    <3>2. (\A u \in Windows : NoneOverrun(u))' /\ EmptyLeases'
      BY <1>2, <2>1 DEF TokensInv, NoneOverrun, Hand, Rows, RowOf, HoldsOf, EmptyLeases, GivenOut
    <3>3. QED  BY <3>1, <3>2
  <2>2. CASE ~UNCHANGED <<held, lease, admitted>>
    BY <1>1, <1>2, <1>5, <1>6, <2>2, HeldStep
  <2>3. QED  BY <2>1, <2>2
<1>8. QED  BY <1>6, <1>7 DEF TokensInv

\* TokensSpec => [](NoOverrun /\ RefusedWhenSpent): no window admits more than
\* Redis gave out for it, nor Redis more than the limit, and a request is
\* refused only when it did (api-rate-limiter.ts).
THEOREM TokensAreKept == TokensSpec => [](NoOverrun /\ RefusedWhenSpent)
<1>1. TokensInit => TokensInv
  BY TokensInvInit
<1>2. TokensInv /\ [TokensNext]_tokensVars => TokensInv'
  <2> SUFFICES ASSUME TokensInv, [TokensNext]_tokensVars PROVE TokensInv'
    OBVIOUS
  <2>1. CASE Tick
    BY <2>1, TickStep
  <2>2. CASE \E q \in Requests : Check(q) \/ Resume(q)
    BY <2>2, CheckStep, ResumeStep
  <2>3. CASE \E p \in Processes, w \in Windows : Grant(p, w) \/ Outage(p, w) \/ Credit(p, w)
    BY <2>3, GrantStep, OutageStep, CreditStep
  <2>4. CASE UNCHANGED tokensVars
    <3>1. UNCHANGED <<limit, tick, spent, lease, held, asked, admitted, outages>>
      BY <2>4 DEF tokensVars
    <3>2. TokensTypeOK'
      BY <3>1 DEF TokensInv, TokensTypeOK, Windows
    <3>3. (\A w \in Windows : NoneOverrun(w))' /\ EmptyLeases' /\ EmptyAnswers' /\ RefusedWhenSpent'
      BY <3>1 DEF TokensInv, NoneOverrun, Hand, Rows, RowOf, HoldsOf, EmptyLeases, EmptyAnswers,
                  RefusedWhenSpent, GivenOut
    <3>4. QED  BY <3>2, <3>3 DEF TokensInv
  <2>5. QED  BY <2>1, <2>2, <2>3, <2>4 DEF TokensNext
<1>3. TokensInv => NoOverrun /\ RefusedWhenSpent
  BY HandIsInHand DEF TokensInv, NoneOverrun, NoOverrun
<1>4. QED  BY <1>1, <1>2, <1>3, PTL DEF TokensSpec

(***************************************************************************)
(* The throttle of one user.                                               *)
(***************************************************************************)

\* The sends that were let through, in the window that ends at a time.
SentIn(at) == {j \in 1..Len(passed) : passed[j].at > at - Span /\ passed[j].at <= at}

NoneLate == \A j \in 1..Len(passed) : ~passed[j].late

\* Every send that a window from now on holds is still counted, and the key
\* outlives what it counts.
StillCounted ==
    /\ NoneLate => \A at \in Int : at >= time =>
         Cardinality(SentIn(at)) <= Cardinality(CountedIn(counted, at))
    /\ \A m \in counted : expiry >= score[m] + Span

WindowInv == UserWindowTypeOK /\ IsFiniteSet(counted) /\ StillCounted /\ WindowKept

LEMMA SentFinite ==
    ASSUME UserWindowTypeOK, NEW at
    PROVE  IsFiniteSet(SentIn(at)) /\ Cardinality(SentIn(at)) \in Nat
<1>1. IsFiniteSet(1..Len(passed))
  BY FS_Interval DEF UserWindowTypeOK
<1>2. SentIn(at) \subseteq 1..Len(passed)
  BY DEF SentIn
<1>3. QED  BY <1>1, <1>2, FS_Subset, FS_CardinalityType

LEMMA CountedFinite ==
    ASSUME NEW ms, IsFiniteSet(ms), NEW at
    PROVE  IsFiniteSet(CountedIn(ms, at)) /\ Cardinality(CountedIn(ms, at)) \in Nat
<1>1. CountedIn(ms, at) \subseteq ms
  BY DEF CountedIn
<1>2. QED  BY <1>1, FS_Subset, FS_CardinalityType

LEMMA WindowInvInit == UserWindowInit => WindowInv
<1> SUFFICES ASSUME UserWindowInit PROVE WindowInv
  OBVIOUS
<1> USE UserWindowAssumption DEF UserWindowInit
<1>1. UserWindowTypeOK
  BY DEF UserWindowTypeOK, Times
<1>2. \A at : SentIn(at) = {} /\ CountedIn(counted, at) = {}
  BY DEF SentIn, CountedIn
<1>3. StillCounted
  <2>1. Cardinality({}) = 0
    BY FS_EmptySet
  <2>2. \A at : Cardinality(SentIn(at)) = 0 /\ Cardinality(CountedIn(counted, at)) = 0
    BY <1>2, <2>1
  <2>3. QED  BY <2>2 DEF StillCounted
<1>4. WindowKept
  BY DEF WindowKept
<1>5. QED  BY <1>1, <1>3, <1>4, FS_EmptySet DEF WindowInv

LEMMA LaterStep == ASSUME WindowInv, Later PROVE WindowInv'
<1> USE UserWindowAssumption DEF Later
<1>1. UserWindowTypeOK' /\ IsFiniteSet(counted')
  <2>1. UserWindowTypeOK'
    BY DEF WindowInv, UserWindowTypeOK, Times
  <2>2. IsFiniteSet(counted')
    BY FS_EmptySet DEF WindowInv
  <2>3. QED  BY <2>1, <2>2
<1>2. WindowKept'
  BY DEF WindowInv, WindowKept
<1>3. StillCounted'
  <2>1. ASSUME NoneLate, NEW at \in Int, at >= time + 1
        PROVE  Cardinality(SentIn(at)) <= Cardinality(CountedIn(counted', at))
    <3>1. Cardinality(SentIn(at)) <= Cardinality(CountedIn(counted, at))
      BY <2>1 DEF WindowInv, StillCounted, UserWindowTypeOK, Times
    <3>2. CountedIn(counted', at) = CountedIn(counted, at)
      <4>1. CASE time + 1 >= expiry
        <5>1. ASSUME NEW m \in counted PROVE ~(score[m] > at - Span)
          BY <2>1, <4>1, <5>1 DEF WindowInv, StillCounted, UserWindowTypeOK, Times
        <5>2. QED  BY <4>1, <5>1 DEF CountedIn
      <4>2. CASE ~(time + 1 >= expiry)
        BY <4>2 DEF CountedIn
      <4>3. QED  BY <4>1, <4>2
    <3>3. QED  BY <3>1, <3>2
  <2>2. /\ NoneLate' = NoneLate /\ \A at : SentIn(at)' = SentIn(at)
        /\ \A ms, at : CountedIn(ms, at)' = CountedIn(ms, at)
    BY DEF NoneLate, SentIn, CountedIn
  <2>3. \A m \in counted' : expiry' >= score'[m] + Span
    BY DEF WindowInv, StillCounted
  <2>4. NoneLate' => \A at \in Int : at >= time' =>
          Cardinality(SentIn(at)') <= Cardinality(CountedIn(counted, at)')
    <3>1. \A at : CountedIn(counted, at)' = CountedIn(counted', at)
      BY DEF CountedIn
    <3>2. QED  BY <2>1, <2>2, <3>1
  <2>5. QED  BY <2>3, <2>4 DEF StillCounted
<1>4. QED  BY <1>1, <1>2, <1>3 DEF WindowInv

LEMMA ThrottledStep ==
    ASSUME WindowInv, NEW m \in Messages, NEW at \in Times, Throttled(m, at)
    PROVE  WindowInv'
<1> USE UserWindowAssumption DEF Throttled
<1>0. /\ time \in Nat /\ at \in Nat /\ at \in Times
      /\ counted \subseteq Messages /\ score \in [Messages -> Times] /\ score \in [Messages -> Nat]
      /\ expiry \in 0..(LastTime + Span) /\ expiry \in Nat
      /\ passed \in Seq([at : Times, late : BOOLEAN]) /\ IsFiniteSet(counted)
  BY DEF WindowInv, UserWindowTypeOK, Times
<1>1. IsFiniteSet(Kept(time)) /\ Kept(time) \subseteq counted
  <2>1. Kept(time) \subseteq counted
    BY DEF Kept
  <2>2. QED  BY <2>1, <1>0, FS_Subset
\* What is pruned is in no window that ends now or later.
<1>2. ASSUME NEW end \in Int, end >= time
      PROVE  CountedIn(Kept(time), end) = CountedIn(counted, end)
  <2>1. ASSUME NEW k \in counted, score[k] > end - Span PROVE score[k] > time - Span
    <3>1. score[k] \in Nat
      BY <1>0
    <3>2. QED  BY <3>1, <1>0, <1>2, <2>1
  <2>2. QED  BY <2>1 DEF CountedIn, Kept
<1>3. CASE m \in Kept(time) \/ Cardinality(CountedIn(Kept(time), at)) >= UserLimit
  <2>1. counted' = Kept(time) /\ UNCHANGED <<score, expiry, passed, time>>
    BY <1>3
  <2>2. UserWindowTypeOK' /\ IsFiniteSet(counted')
    BY <1>0, <1>1, <2>1 DEF WindowInv, UserWindowTypeOK
  <2>3. WindowKept'
    BY <2>1 DEF WindowInv, WindowKept
  <2>4. \A k \in counted' : expiry' >= score'[k] + Span
    BY <1>1, <2>1 DEF WindowInv, StillCounted
  <2>5. \A end \in Int : end >= time => CountedIn(counted, end)' = CountedIn(counted, end)
    <3>1. \A end : CountedIn(counted, end)' = CountedIn(Kept(time), end)
      BY <2>1 DEF CountedIn
    <3>2. QED  BY <3>1, <1>2
  <2>6. StillCounted'
    <3>1. \A end : SentIn(end)' = SentIn(end)
      BY <2>1 DEF SentIn
    <3>2. NoneLate' = NoneLate
      BY <2>1 DEF NoneLate
    <3>3. NoneLate' => \A end \in Int : end >= time' =>
            Cardinality(SentIn(end)') <= Cardinality(CountedIn(counted, end)')
      BY <2>1, <2>5, <3>1, <3>2 DEF WindowInv, StillCounted
    <3>4. QED  BY <2>4, <3>3 DEF StillCounted
  <2>7. QED  BY <2>2, <2>3, <2>6 DEF WindowInv
<1>4. CASE ~(m \in Kept(time) \/ Cardinality(CountedIn(Kept(time), at)) >= UserLimit)
  <2>1. /\ counted' = Kept(time) \cup {m} /\ m \notin Kept(time)
        /\ score' = [score EXCEPT ![m] = at]
        /\ expiry' = IF expiry < KeyLife(time, at) THEN KeyLife(time, at) ELSE expiry
        /\ passed' = Append(passed, [at |-> at, late |-> at < time])
        /\ time' = time
        /\ ~(Cardinality(CountedIn(Kept(time), at)) >= UserLimit)
    BY <1>4
  <2>2. /\ score'[m] = at /\ \A k \in Kept(time) : score'[k] = score[k]
        /\ score' \in [Messages -> Times]
    BY <1>0, <1>1, <2>1
  <2>3. /\ expiry' \in 0..(LastTime + Span) /\ expiry' >= expiry
        /\ expiry' >= at + Span /\ expiry' \in Nat
    BY <1>0, <2>1 DEF KeyLife, WindowInv, UserWindowTypeOK, Times
  <2>4. IsFiniteSet(counted') /\ counted' \subseteq Messages
    BY <1>0, <1>1, <2>1, FS_AddElement
  <2>5. /\ passed' \in Seq([at : Times, late : BOOLEAN])
        /\ Len(passed') = Len(passed) + 1 /\ Len(passed) \in Nat
        /\ passed'[Len(passed) + 1] = [at |-> at, late |-> at < time]
        /\ \A j \in 1..Len(passed) : passed'[j] = passed[j]
    BY <1>0, <2>1
  <2>6. UserWindowTypeOK'
    BY <1>0, <2>1, <2>2, <2>3, <2>4, <2>5 DEF WindowInv, UserWindowTypeOK
  <2>7. \A k \in counted' : expiry' >= score'[k] + Span
    <3>1. ASSUME NEW k \in Kept(time) PROVE expiry' >= score'[k] + Span
      <4>1. expiry >= score[k] + Span /\ score'[k] = score[k] /\ score[k] \in Nat
        BY <1>0, <1>1, <2>2 DEF WindowInv, StillCounted
      <4>2. QED  BY <4>1, <1>0, <2>3
    <3>2. QED  BY <3>1, <2>1, <2>2, <2>3
  <2> DEFINE new(end) == IF at > end - Span /\ at <= end THEN 1 ELSE 0
  <2>8. ASSUME NEW end \in Int, end >= time
        PROVE  Cardinality(CountedIn(counted, end)') = Cardinality(CountedIn(counted, end)) + new(end)
    <3>1. CountedIn(counted, end)' = CountedIn(Kept(time), end) \cup (IF new(end) = 1 THEN {m} ELSE {})
      BY <2>1, <2>2 DEF CountedIn
    <3>2. CountedIn(Kept(time), end) = CountedIn(counted, end) /\ m \notin CountedIn(Kept(time), end)
      BY <1>2, <2>1, <2>8 DEF CountedIn
    <3>3. IsFiniteSet(CountedIn(counted, end)) /\ Cardinality(CountedIn(counted, end)) \in Nat
      BY <1>0, CountedFinite
    <3>4. CASE new(end) = 1
      <4>1. CountedIn(counted, end)' = CountedIn(counted, end) \cup {m}
        BY <3>1, <3>2, <3>4
      <4>2. QED  BY <3>2, <3>3, <3>4, <4>1, FS_AddElement
    <3>5. CASE new(end) = 0
      <4>1. CountedIn(counted, end)' = CountedIn(counted, end)
        BY <3>1, <3>2, <3>5
      <4>2. QED  BY <3>3, <3>5, <4>1
    <3>6. QED  BY <3>4, <3>5
  <2>9. ASSUME NEW end \in Int
        PROVE  Cardinality(SentIn(end)') = Cardinality(SentIn(end)) + new(end)
    <3>1. SentIn(end)' = SentIn(end) \cup (IF new(end) = 1 THEN {Len(passed) + 1} ELSE {})
      BY <2>5 DEF SentIn
    <3>2. Len(passed) + 1 \notin SentIn(end)
      BY <2>5 DEF SentIn
    <3>3. IsFiniteSet(SentIn(end)) /\ Cardinality(SentIn(end)) \in Nat
      BY SentFinite DEF WindowInv
    <3>4. CASE new(end) = 1
      <4>1. SentIn(end)' = SentIn(end) \cup {Len(passed) + 1}
        BY <3>1, <3>4
      <4>2. QED  BY <3>2, <3>3, <3>4, <4>1, FS_AddElement
    <3>5. CASE new(end) = 0
      <4>1. SentIn(end)' = SentIn(end)
        BY <3>1, <3>5
      <4>2. QED  BY <3>3, <3>5, <4>1
    <3>6. QED  BY <3>4, <3>5
  <2>10. ASSUME NoneLate' PROVE NoneLate /\ at >= time
    <3>1. \A j \in 1..(Len(passed) + 1) : ~passed'[j].late
      BY <2>5, <2>10 DEF NoneLate
    <3>2. NoneLate
      BY <3>1, <2>5 DEF NoneLate
    <3>3. ~(at < time)
      BY <3>1, <2>5
    <3>4. QED  BY <3>2, <3>3, <1>0
  <2>11. StillCounted'
    <3>1. ASSUME NoneLate', NEW end \in Int, end >= time'
          PROVE  Cardinality(SentIn(end)') <= Cardinality(CountedIn(counted, end)')
      <4>1. Cardinality(SentIn(end)) <= Cardinality(CountedIn(counted, end))
        BY <2>1, <2>10, <3>1 DEF WindowInv, StillCounted
      <4>2. /\ Cardinality(SentIn(end)) \in Nat /\ Cardinality(CountedIn(counted, end)) \in Nat
            /\ new(end) \in {0, 1}
        BY <1>0, CountedFinite, SentFinite DEF WindowInv
      <4> HIDE DEF new
      <4>3. Cardinality(SentIn(end)') = Cardinality(SentIn(end)) + new(end)
        BY <2>9
      <4>4. Cardinality(CountedIn(counted, end)') = Cardinality(CountedIn(counted, end)) + new(end)
        BY <2>1, <2>8, <3>1
      <4>5. QED  BY <4>1, <4>2, <4>3, <4>4
    <3>2. QED  BY <2>7, <3>1 DEF StillCounted
  <2>12. WindowKept'
    <3>1. ASSUME NEW i \in 1..Len(passed)
          PROVE  \/ \E j \in 1..i : passed'[j].late
                 \/ Cardinality({j \in 1..i : /\ passed'[j].at > passed'[i].at - Span
                                              /\ passed'[j].at <= passed'[i].at}) <= UserLimit
      <4>1. \A j \in 1..i : passed'[j] = passed[j]
        BY <2>5
      <4>2. {j \in 1..i : passed'[j].at > passed'[i].at - Span /\ passed'[j].at <= passed'[i].at}
              = {j \in 1..i : passed[j].at > passed[i].at - Span /\ passed[j].at <= passed[i].at}
        BY <4>1, <2>5
      <4>3. QED  BY <4>1, <4>2 DEF WindowInv, WindowKept
    <3>2. ASSUME NEW i, i = Len(passed) + 1, ~\E j \in 1..i : passed'[j].late
          PROVE  Cardinality({j \in 1..i : /\ passed'[j].at > passed'[i].at - Span
                                           /\ passed'[j].at <= passed'[i].at}) <= UserLimit
      <4>1. NoneLate'
        BY <3>2, <2>5 DEF NoneLate
      <4>2. NoneLate /\ at >= time
        BY <4>1, <2>10
      <4>3. {j \in 1..i : passed'[j].at > passed'[i].at - Span /\ passed'[j].at <= passed'[i].at}
              = SentIn(at)'
        BY <2>5, <3>2 DEF SentIn
      <4>4. Cardinality(SentIn(at)) <= Cardinality(CountedIn(counted, at))
        BY <4>2, <1>0 DEF WindowInv, StillCounted
      <4>5. Cardinality(CountedIn(counted, at)) < UserLimit
        <5>1. CountedIn(Kept(time), at) = CountedIn(counted, at)
          BY <1>0, <1>2, <4>2
        <5>2. QED  BY <5>1, <2>1, <1>0, CountedFinite
      <4>6. Cardinality(SentIn(at)') = Cardinality(SentIn(at)) + 1
        BY <2>9, <1>0
      <4>7. Cardinality(SentIn(at)) \in Nat /\ Cardinality(CountedIn(counted, at)) \in Nat
        BY <1>0, CountedFinite, SentFinite DEF WindowInv
      <4>8. Cardinality(SentIn(at)') <= UserLimit
        BY <4>4, <4>5, <4>6, <4>7
      <4>9. QED  BY <4>3, <4>8
    <3>3. QED  BY <3>1, <3>2, <2>5 DEF WindowKept
  <2>13. QED  BY <2>4, <2>6, <2>11, <2>12 DEF WindowInv
<1>5. QED  BY <1>3, <1>4

LEMMA WindowInvStep == WindowInv /\ [UserWindowNext]_userWindowVars => WindowInv'
<1> SUFFICES ASSUME WindowInv, [UserWindowNext]_userWindowVars PROVE WindowInv'
  OBVIOUS
<1>1. CASE Later
  BY <1>1, LaterStep
<1>2. ASSUME NEW m \in Messages, NEW at \in Times, CheckUser(m, at) PROVE WindowInv'
  BY <1>2, ThrottledStep DEF CheckUser
<1>3. CASE UNCHANGED userWindowVars
  <2>1. UserWindowTypeOK' /\ IsFiniteSet(counted') /\ WindowKept'
    BY <1>3 DEF userWindowVars, WindowInv, UserWindowTypeOK, WindowKept
  <2>2. /\ NoneLate' = NoneLate /\ \A at : SentIn(at)' = SentIn(at)
        /\ \A at : CountedIn(counted, at)' = CountedIn(counted, at)
    BY <1>3 DEF userWindowVars, NoneLate, SentIn, CountedIn
  <2>3. StillCounted'
    BY <1>3, <2>2 DEF userWindowVars, WindowInv, StillCounted
  <2>4. QED  BY <2>1, <2>3 DEF WindowInv
<1>4. QED  BY <1>1, <1>2, <1>3 DEF UserWindowNext

\* A window of a user never holds more sends than the limit, whatever is pruned,
\* expires or is booked ahead, but for sends decided after their own time
\* (src/src/rate-limiter/user-throttle.ts, redis/index.ts).
THEOREM UserWindowIsKept == UserWindowSpec => []WindowKept
<1>1. WindowInv => WindowKept
  BY DEF WindowInv
<1>2. QED  BY <1>1, WindowInvInit, WindowInvStep, PTL DEF UserWindowSpec

\* LimitsSpec => []LimitsHold: neither limit is overrun, and a request is refused
\* only when its window was given out (api-rate-limiter.ts, user-throttle.ts).
THEOREM LimitsKept == LimitsSpec => []LimitsHold
<1>1. NoOverrun /\ RefusedWhenSpent /\ WindowKept => LimitsHold
  BY DEF LimitsHold
<1>2. QED  BY <1>1, TokensAreKept, UserWindowIsKept, PTL DEF LimitsSpec

(***************************************************************************)
(* Ranks: the elements of a finite set by how many are above them.         *)
(***************************************************************************)

\* A set of naturals has a least element.
LEMMA LeastNat ==
    ASSUME NEW T \in SUBSET Nat, T # {} PROVE \E m \in T : \A n \in T : m <= n
<1> DEFINE R == {ss \in Nat \X Nat : ss[1] < ss[2]}
<1>1. \A m, n \in Nat : n < m => <<n, m>> \in R
  OBVIOUS
<1>2. IsWellFoundedOn(R, Nat)
  <2>1. OpToRel(<, Nat) = R
    BY DEF OpToRel
  <2>2. QED  BY <2>1, NatLessThanWellFounded
<1> HIDE DEF R
<1>3. PICK m \in T : \A n \in T : ~ (<<n, m>> \in R)
  BY <1>2, WFMin
<1>4. \A n \in T : ~(n < m)
  BY <1>1, <1>3
<1>5. \A n \in T : n \in Nat /\ m \in Nat
  OBVIOUS
<1>6. QED  BY <1>4, <1>5

\* The elements of S above t, by f.
Above(S, f, t) == {u \in S : f[u] > f[t]}

LEMMA AboveCard ==
    ASSUME NEW S, IsFiniteSet(S), NEW f, NEW t
    PROVE  IsFiniteSet(Above(S, f, t)) /\ Cardinality(Above(S, f, t)) \in Nat
<1>1. Above(S, f, t) \subseteq S
  BY DEF Above
<1>2. QED  BY <1>1, FS_Subset, FS_CardinalityType

\* What is higher has fewer above it.
LEMMA HigherHasFewer ==
    ASSUME NEW S, IsFiniteSet(S), NEW f, \A u \in S : f[u] \in Nat,
           NEW t \in S, NEW u \in S, f[t] > f[u]
    PROVE  Cardinality(Above(S, f, t)) < Cardinality(Above(S, f, u))
<1> DEFINE A == Above(S, f, t)
           B == Above(S, f, u)
<1>1. IsFiniteSet(A) /\ IsFiniteSet(B) /\ Cardinality(A) \in Nat /\ Cardinality(B) \in Nat
  BY AboveCard
<1>2. A \subseteq B /\ t \in B /\ t \notin A
  BY DEF Above
<1> HIDE DEF A, B
<1>3. Cardinality(A) <= Cardinality(B) /\ (Cardinality(B) = Cardinality(A) => A = B)
  BY <1>1, <1>2, FS_Subset
<1>4. QED  BY <1>1, <1>2, <1>3 DEF A, B

\* Some element has exactly n above it, if one has n or more.
LEMMA RanksAreFilled ==
    ASSUME NEW S, IsFiniteSet(S), NEW f, \A u \in S : f[u] \in Nat,
           \A u, v \in S : f[u] = f[v] => u = v,
           NEW t \in S, NEW n \in Nat, n <= Cardinality(Above(S, f, t))
    PROVE  \E u \in S : Cardinality(Above(S, f, u)) = n
<1> DEFINE rank(u) == Cardinality(Above(S, f, u))
           T == {rank(u) : u \in {v \in S : n <= rank(v)}}
<1>1. \A u \in S : rank(u) \in Nat
  BY AboveCard
<1>2. T \subseteq Nat /\ rank(t) \in T
  BY <1>1
<1>3. PICK r \in T : \A m \in T : r <= m
  <2> HIDE DEF T
  <2>1. QED  BY <1>2, LeastNat
<1>4. PICK u \in S : r = rank(u) /\ n <= rank(u)
  BY <1>3
<1>5. \A v \in S : n <= rank(v) => rank(u) <= rank(v)
  BY <1>3, <1>4
<1>6. ASSUME rank(u) # n PROVE FALSE
  <2> DEFINE A == Above(S, f, u)
             F == {f[v] : v \in A}
  <2>1. IsFiniteSet(A) /\ Cardinality(A) \in Nat /\ Cardinality(A) > n
    BY <1>1, <1>4, <1>6, AboveCard
  <2>2. A # {}
    <3> HIDE DEF A
    <3>1. QED  BY <2>1, FS_EmptySet
  <2>3. A \subseteq S /\ F \subseteq Nat /\ F # {}
    BY <2>2 DEF Above
  <2>4. PICK v \in A : \A w \in A : f[v] <= f[w]
    <3> HIDE DEF A
    <3>1. PICK m \in F : \A k \in F : m <= k
      <4> HIDE DEF F
      <4>1. QED  BY <2>3, LeastNat
    <3>2. QED  BY <3>1
  <2>5. Above(S, f, v) = A \ {v}
    BY <2>4 DEF Above
  <2>6. rank(v) = rank(u) - 1
    <3> HIDE DEF A, F
    <3>1. Cardinality(A \ {v}) = Cardinality(A) - 1
      BY <2>1, <2>4, FS_RemoveElement
    <3>2. QED  BY <2>5, <3>1 DEF A
  <2>7. v \in S
    BY <2>3, <2>4
  <2> HIDE DEF A, F
  <2>8. n <= rank(v) /\ rank(u) \in Nat
    BY <1>1, <1>4, <1>6, <2>6
  <2>9. QED  BY <1>5, <2>6, <2>7, <2>8
<1>7. QED  BY <1>4, <1>6

\* The n highest are fewer than n only when they are all there is.
LEMMA FewerIsAll ==
    ASSUME NEW S, IsFiniteSet(S), NEW f, \A u \in S : f[u] \in Nat,
           \A u, v \in S : f[u] = f[v] => u = v, NEW n \in Nat,
           NEW top, top = {u \in S : Cardinality(Above(S, f, u)) < n}
    PROVE  /\ IsFiniteSet(top) /\ Cardinality(top) \in Nat
           /\ Cardinality(top) < n => top = S
<1>1. IsFiniteSet(top) /\ Cardinality(top) \in Nat /\ top \subseteq S
  BY FS_Subset, FS_CardinalityType
<1>2. ASSUME top # S PROVE Cardinality(top) >= n
  <2>1. PICK t \in S : n <= Cardinality(Above(S, f, t))
    BY <1>1, <1>2, AboveCard
  <2>2. PICK u \in S : Cardinality(Above(S, f, u)) = n
    BY <2>1, RanksAreFilled
  <2>3. \A v \in Above(S, f, u) : v \in S /\ f[v] > f[u]
    BY DEF Above
  <2>4. Above(S, f, u) \subseteq top
    BY <2>2, <2>3, HigherHasFewer
  <2>5. QED  BY <1>1, <2>2, <2>4, FS_Subset
<1>3. QED  BY <1>1, <1>2

\* If each has fewer than n above it, they are n at most.
LEMMA AllFit ==
    ASSUME NEW S, IsFiniteSet(S), NEW f, \A u \in S : f[u] \in Nat,
           \A u, v \in S : f[u] = f[v] => u = v, NEW n \in Nat,
           \A u \in S : Cardinality(Above(S, f, u)) < n
    PROVE  Cardinality(S) <= n
<1>1. CASE S = {}
  BY <1>1, FS_EmptySet
<1>2. CASE S # {}
  <2> DEFINE F == {f[v] : v \in S}
  <2>1. F \subseteq Nat /\ F # {}
    BY <1>2
  <2>2. PICK v \in S : \A w \in S : f[v] <= f[w]
    <3>1. PICK m \in F : \A k \in F : m <= k
      <4> HIDE DEF F
      <4>1. QED  BY <2>1, LeastNat
    <3>2. QED  BY <3>1
  <2>3. Above(S, f, v) = S \ {v}
    BY <2>2 DEF Above
  <2>4. Cardinality(S \ {v}) = Cardinality(S) - 1 /\ Cardinality(S) \in Nat
    BY <2>2, FS_RemoveElement, FS_CardinalityType
  <2>5. Cardinality(S) - 1 < n
    BY <2>2, <2>3, <2>4
  <2>6. QED  BY <2>4, <2>5
<1>3. QED  BY <1>1, <1>2

LEMMA GreatestOf ==
    ASSUME NEW S \in SUBSET Nat, IsFiniteSet(S), S # {} PROVE \E m \in S : \A n \in S : n <= m
<1> DEFINE f == [k \in S |-> k]
<1>1. (\A u \in S : f[u] \in Nat) /\ (\A u, v \in S : f[u] = f[v] => u = v)
  OBVIOUS
<1>2. PICK t \in S : TRUE
  OBVIOUS
<1>3. PICK m \in S : Cardinality(Above(S, f, m)) = 0
  <2>1. Cardinality(Above(S, f, t)) \in Nat
    BY AboveCard
  <2>2. PICK n \in Nat : n = 0
    OBVIOUS
  <2> HIDE DEF f
  <2>3. n <= Cardinality(Above(S, f, t))
    BY <2>1, <2>2
  <2>4. \E u \in S : Cardinality(Above(S, f, u)) = n
    BY <1>1, <1>2, <2>3, RanksAreFilled
  <2>5. QED  BY <2>2, <2>4
<1>4. Above(S, f, m) = {}
  BY <1>3, AboveCard, FS_EmptySet
<1>5. \A n \in S : ~(n > m)
  BY <1>4 DEF Above
<1>6. QED  BY <1>5

(***************************************************************************)
(* The pages of a listing.                                                 *)
(***************************************************************************)

Below(scan, inclusive) == {k \in Present : scan = 0 \/ k < scan \/ (inclusive /\ k = scan)}

Scanned(k) == page.scan # 0 /\ (k > page.scan \/ (k = page.scan /\ ~page.inclusive))
Passed(k)  == page.cursor # 0 /\ k > page.cursor

PageRows == [pc : {"first", "scan", "next", "end"}, cursor : Keys \cup {0},
             scan : Keys \cup {0}, inclusive : BOOLEAN, round : 0..MaxRounds,
             items : SUBSET (Keys \cup Things)]

PagesTypes ==
    /\ listing \in {"log", "users", "scheduled"}
    /\ rows \in [Keys -> Things \cup {0}]
    /\ page \in PageRows
    /\ listed \cup again \cup changed \subseteq Keys \cup Things
    /\ listing # "log" => listed \subseteq Keys
    /\ cutShort \in BOOLEAN
    /\ changes \in 0..MaxChanges

\* Where the listing is.
Turning ==
    /\ page.pc # "scan" => page.inclusive /\ page.round = 0 /\ page.items = {}
    /\ page.pc \in {"first", "scan"} /\ page.cursor = 0 => listed = {}
    /\ page.pc = "first" => page.cursor = 0
    /\ page.pc = "next" => page.cursor # 0
    /\ page.pc = "scan" =>
         /\ listing = "log" /\ page.round < MaxRounds
         /\ page.cursor # 0 => page.scan # 0 /\ page.scan <= page.cursor
         /\ IsFiniteSet(page.items) /\ Cardinality(page.items) <= PageSize

\* The cursor parts what is listed from what is not, but for what changed: by its
\* key for users and scheduled messages, by its newest row for a task.
ByKey ==
    listing # "log" /\ page.pc # "end" =>
        /\ \A k \in listed : page.cursor # 0 /\ k >= page.cursor
        /\ \A k \in Present \ changed : page.cursor # 0 /\ k >= page.cursor => k \in listed
ByTask ==
    listing = "log" /\ page.pc # "end" =>
        /\ \A t \in listed \ changed : \E k \in Present : Passed(k) /\ rows[k] = t
        /\ \A k \in Present : Passed(k) /\ rows[k] \notin changed => rows[k] \in listed

\* The scan parts what is on the page so far from the rest.
Scan ==
    page.pc = "scan" =>
        /\ page.items \cap listed \subseteq changed
        /\ \A t \in page.items \ changed : \E k \in Present : Scanned(k) /\ rows[k] = t
        /\ \A k \in Present : Scanned(k) /\ rows[k] \notin changed =>
              rows[k] \in listed \cup page.items

PagesInv == PagesTypes /\ Turning /\ ByKey /\ ByTask /\ Scan /\ NoneTwice /\ AllListed

LEMMA KeysAreNats ==
    /\ Keys \subseteq Nat /\ 0 \notin Keys /\ IsFiniteSet(Keys)
    /\ PageSize \in Nat \ {0} /\ BatchSize \in Nat \ {0} /\ MaxRounds \in Nat \ {0}
  BY PagesAssumption

LEMMA PositionsAreNats ==
    ASSUME PagesInv PROVE page.cursor \in Nat /\ page.scan \in Nat /\ page.inclusive \in BOOLEAN
<1>1. page.cursor \in Keys \cup {0} /\ page.scan \in Keys \cup {0} /\ page.inclusive \in BOOLEAN
  BY DEF PagesInv, PagesTypes, PageRows
<1>2. \A k \in Keys \cup {0} : k \in Nat
  BY KeysAreNats
<1>3. QED  BY <1>1, <1>2

LEMMA PresentFinite == IsFiniteSet(Present) /\ Present \subseteq Keys
<1>1. Present \subseteq Keys
  BY DEF Present
<1>2. QED  BY <1>1, KeysAreNats, FS_Subset

\* What a query returns.
LEMMA RowsFromIs ==
    ASSUME NEW scan \in Nat, NEW inclusive \in BOOLEAN, NEW n \in Nat \ {0},
           NEW batch, batch = RowsFrom(scan, inclusive, n)
    PROVE  /\ batch \subseteq Below(scan, inclusive) /\ batch \subseteq Present
           /\ IsFiniteSet(batch) /\ Cardinality(batch) \in Nat /\ Cardinality(batch) <= n
           /\ \A k \in batch : \A j \in Below(scan, inclusive) : j >= k => j \in batch
           /\ Cardinality(batch) < n => batch = Below(scan, inclusive)
           /\ RowsFrom(scan, inclusive, n + 1) = batch => batch = Below(scan, inclusive)
           /\ batch = {} => Below(scan, inclusive) = {}
<1> DEFINE S == Below(scan, inclusive)
           f == [k \in S |-> k]
           rank(k) == Cardinality(Above(S, f, k))
<1>1. S \subseteq Present /\ S \subseteq Nat /\ IsFiniteSet(S)
  BY PresentFinite, KeysAreNats, FS_Subset DEF Below
<1>2. (\A u \in S : f[u] \in Nat) /\ (\A u, v \in S : f[u] = f[v] => u = v)
  BY <1>1
<1>3. \A m : RowsFrom(scan, inclusive, m) = {k \in S : rank(k) < m}
  <2>1. \A k \in S : Above(S, f, k) = {j \in S : j > k}
    BY DEF Above
  <2>2. QED  BY <2>1 DEF RowsFrom, Below
<1>4. \A k \in S : rank(k) \in Nat
  BY <1>1, AboveCard
<1>5. \A j, k \in S : j > k => rank(j) < rank(k)
  <2>1. \A k \in S : f[k] = k
    OBVIOUS
  <2> HIDE DEF S, f
  <2>2. QED  BY <1>1, <1>2, <2>1, HigherHasFewer
<1>6. \A k \in S, m \in Nat : m <= rank(k) => \E u \in S : rank(u) = m
  <2> HIDE DEF S, f
  <2>1. QED  BY <1>1, <1>2, RanksAreFilled
<1>7. batch = {k \in S : rank(k) < n}
  BY <1>3
<1>8. /\ IsFiniteSet(batch) /\ Cardinality(batch) \in Nat
      /\ Cardinality(batch) < n => batch = S
  <2>1. n \in Nat
    OBVIOUS
  <2> HIDE DEF S, f
  <2>2. QED  BY <1>1, <1>2, <1>7, <2>1, FewerIsAll
<1>9. RowsFrom(scan, inclusive, n + 1) = batch => batch = S
  <2> SUFFICES ASSUME RowsFrom(scan, inclusive, n + 1) = batch, NEW k \in S, k \notin batch
               PROVE  FALSE
    BY <1>7
  <2>1. rank(k) >= n
    BY <1>4, <1>7
  <2>2. PICK u \in S : rank(u) = n
    BY <1>6, <2>1
  <2>3. u \in RowsFrom(scan, inclusive, n + 1) /\ u \notin batch
    <3> HIDE DEF S, rank
    <3>1. QED  BY <1>3, <1>7, <2>2
  <2>4. QED  BY <2>3
<1>10. batch = {} => S = {}
  <2> SUFFICES ASSUME batch = {}, NEW k \in S PROVE FALSE
    OBVIOUS
  <2>1. PICK u \in S : rank(u) = 0
    BY <1>4, <1>6
  <2>2. QED  BY <1>7, <2>1
<1>11. \A k \in batch : \A j \in S : j >= k => j \in batch
  <2> SUFFICES ASSUME NEW k \in batch, NEW j \in S, j >= k PROVE j \in batch
    OBVIOUS
  <2>1. k \in S /\ rank(k) < n /\ rank(k) \in Nat /\ rank(j) \in Nat
    BY <1>4, <1>7
  <2>2. j = k \/ j > k
    BY <1>1, <2>1
  <2>3. j = k \/ rank(j) < rank(k)
    BY <1>5, <2>1, <2>2
  <2> HIDE DEF S, rank
  <2>4. QED  BY <1>7, <2>1, <2>3
<1>12. Cardinality(batch) <= n
  <2>1. ASSUME NEW k \in batch PROVE Cardinality(Above(batch, f, k)) < n
    <3>1. k \in S /\ rank(k) < n /\ rank(k) \in Nat
      BY <1>4, <1>7
    <3>2. Above(batch, f, k) \subseteq Above(S, f, k)
      BY <1>7 DEF Above
    <3>3. IsFiniteSet(Above(S, f, k))
      BY <1>1, AboveCard
    <3>4. Cardinality(Above(batch, f, k)) <= rank(k)
      BY <3>2, <3>3, FS_Subset
    <3>5. Cardinality(Above(batch, f, k)) \in Nat
      BY <1>8, AboveCard
    <3>6. QED  BY <3>1, <3>4, <3>5
  <2>2. (\A u \in batch : f[u] \in Nat) /\ (\A u, v \in batch : f[u] = f[v] => u = v)
    BY <1>2, <1>7
  <2>3. n \in Nat
    OBVIOUS
  <2> HIDE DEF S, f
  <2>4. QED  BY <1>8, <2>1, <2>2, <2>3, AllFit
<1> HIDE DEF S, rank
<1>13. QED  BY <1>1, <1>7, <1>8, <1>9, <1>10, <1>11, <1>12 DEF S

LEMMA PagesInvInit == PagesInit => PagesInv
<1> SUFFICES ASSUME PagesInit PROVE PagesInv
  OBVIOUS
<1>1. page = [pc |-> "first", cursor |-> 0, scan |-> 0, inclusive |-> TRUE, round |-> 0,
              items |-> {}]
  BY DEF PagesInit, Start
<1>2. PagesTypes
  <2>1. page \in PageRows
    BY <1>1, KeysAreNats DEF PageRows
  <2>2. changes \in 0..MaxChanges
    BY PagesAssumption DEF PagesInit
  <2>3. QED  BY <2>1, <2>2 DEF PagesInit, PagesTypes
<1>3. Turning
  BY <1>1 DEF PagesInit, Turning
<1>4. ByKey /\ ByTask /\ Scan /\ NoneTwice /\ AllListed
  BY <1>1 DEF PagesInit, ByKey, ByTask, Scan, NoneTwice, AllListed, Passed
<1>5. QED  BY <1>2, <1>3, <1>4 DEF PagesInv

LEMMA AskPageStep == ASSUME PagesInv, AskPage PROVE PagesInv'
<1>1. /\ page.pc \in {"first", "next"} /\ listing = "log"
      /\ page' = [page EXCEPT !.pc = "scan", !.scan = page.cursor]
      /\ UNCHANGED <<listing, rows, listed, again, changed, cutShort, changes>>
  BY DEF AskPage
<1>2. page \in PageRows /\ page.inclusive /\ page.round = 0 /\ page.items = {}
  BY <1>1 DEF PagesInv, PagesTypes, Turning
<1>3. page.cursor \in Keys \cup {0} /\ page.cursor \in Nat
  <2>1. page.cursor \in Keys \cup {0}
    BY <1>2 DEF PageRows
  <2>2. page.cursor \in Keys => page.cursor \in Nat
    BY KeysAreNats
  <2>3. QED  BY <2>1, <2>2
<1>4. /\ page'.pc = "scan" /\ page'.cursor = page.cursor /\ page'.scan = page.cursor
      /\ page'.inclusive /\ page'.round = 0 /\ page'.items = {} /\ page' \in PageRows
  BY <1>1, <1>2, <1>3 DEF PageRows
<1>5. PagesTypes'
  BY <1>1, <1>4 DEF PagesInv, PagesTypes, PageRows
<1>6. Turning'
  <2>1. page.cursor = 0 => listed' = {}
    BY <1>1 DEF PagesInv, Turning
  <2>2. IsFiniteSet({}) /\ Cardinality({}) = 0
    BY FS_EmptySet
  <2>3. IsFiniteSet(page'.items) /\ Cardinality(page'.items) <= PageSize /\ page'.round < MaxRounds
    BY <1>4, <2>2, KeysAreNats
  <2>4. page.cursor <= page.cursor
    BY <1>3
  <2>5. QED  BY <1>1, <1>4, <2>1, <2>3, <2>4 DEF Turning
<1>7. Present' = Present /\ (\A k : Passed(k)' <=> Passed(k))
  BY <1>1, <1>4 DEF Present, Passed
<1>8. ByTask /\ ByTask'
  BY <1>1, <1>4, <1>7 DEF PagesInv, ByTask
<1>9. Scan'
  <2>1. \A k : Scanned(k)' => Passed(k)
    BY <1>4 DEF Scanned, Passed
  <2>2. page'.items = {}
    BY <1>4
  <2>3. QED  BY <1>1, <1>7, <1>8, <2>1, <2>2 DEF ByTask, Scan
<1>10. ByKey' /\ NoneTwice' /\ AllListed'
  BY <1>1, <1>4 DEF PagesInv, ByKey, NoneTwice, AllListed
<1>11. QED  BY <1>5, <1>6, <1>8, <1>9, <1>10 DEF PagesInv

\* What comes and goes is counted as changed.
LEMMA ChangesStep == ASSUME PagesInv, NEW k \in Keys, TableChanges(k) PROVE PagesInv'
<1>1. /\ page.pc # "end" /\ changes < MaxChanges /\ changes' = changes + 1
      /\ UNCHANGED <<listing, page, listed, again, cutShort>>
  BY DEF TableChanges
<1>2. PICK t \in Things \cup {0} :
         /\ rows' = [rows EXCEPT ![k] = t]
         /\ listing = "log" => rows[k] = 0 /\ t \in Things
  BY DEF TableChanges
<1>3. rows \in [Keys -> Things \cup {0}]
  BY DEF PagesInv, PagesTypes
<1>4. rows'[k] = t /\ \A j \in Keys : j # k => rows'[j] = rows[j]
  BY <1>2, <1>3
<1>5. changed' = IF page.pc = "first" THEN changed
                 ELSE changed \cup {IF listing = "log" THEN t ELSE k}
  BY <1>4 DEF TableChanges
<1>6. changed \subseteq changed'
  BY <1>5
<1>7. PagesTypes'
  <2>1. rows' \in [Keys -> Things \cup {0}]
    BY <1>2, <1>3
  <2>2. changed' \subseteq Keys \cup Things
    BY <1>2, <1>5 DEF PagesInv, PagesTypes
  <2>3. changes' \in 0..MaxChanges
    BY <1>1, PagesAssumption DEF PagesInv, PagesTypes
  <2>4. QED  BY <1>1, <2>1, <2>2, <2>3 DEF PagesInv, PagesTypes, PageRows
<1>8. Turning'
  BY <1>1 DEF PagesInv, Turning
<1>9. (\A j : Passed(j)' <=> Passed(j)) /\ (\A j : Scanned(j)' <=> Scanned(j))
  BY <1>1 DEF Passed, Scanned
<1>10. page.pc = "first" => page.cursor = 0
  BY DEF PagesInv, Turning
<1>11. \A j : j \in Present' <=> j \in Keys /\ rows'[j] # 0
  BY DEF Present
<1>12. \A j : j \in Present <=> j \in Keys /\ rows[j] # 0
  BY DEF Present
<1>13. ByKey'
  <2> SUFFICES ASSUME listing # "log"
               PROVE  /\ \A j \in listed : page.cursor # 0 /\ j >= page.cursor
                      /\ \A j \in Present' \ changed' :
                           page.cursor # 0 /\ j >= page.cursor => j \in listed
    BY <1>1 DEF ByKey
  <2>1. \A j \in listed : page.cursor # 0 /\ j >= page.cursor
    BY <1>1 DEF PagesInv, ByKey
  <2>2. ASSUME NEW j \in Present' \ changed', page.cursor # 0, j >= page.cursor
        PROVE  j \in listed
    <3>1. k \in changed'
      BY <1>5, <1>10, <2>2
    <3>2. j \in Present \ changed
      BY <1>4, <1>6, <1>11, <1>12, <3>1
    <3>3. QED  BY <1>1, <2>2, <3>2 DEF PagesInv, ByKey
  <2>3. QED  BY <2>1, <2>2
<1>14. ASSUME listing = "log", NEW j \in Present
       PROVE  j \in Present' /\ rows'[j] = rows[j]
  BY <1>2, <1>4, <1>11, <1>12, <1>14
<1>15. ASSUME listing = "log", NEW j \in Present', rows'[j] \notin changed', page.pc # "first"
       PROVE  j \in Present /\ rows'[j] = rows[j] /\ rows[j] \notin changed
  <2>1. t \in changed'
    BY <1>5, <1>15
  <2>2. j # k
    BY <1>4, <1>15, <2>1
  <2>3. QED  BY <1>4, <1>6, <1>11, <1>12, <1>15, <2>2
<1>16. ByTask'
  <2> SUFFICES ASSUME listing = "log"
               PROVE  /\ \A u \in listed \ changed' :
                           \E j \in Present' : Passed(j) /\ rows'[j] = u
                      /\ \A j \in Present' : Passed(j) /\ rows'[j] \notin changed' =>
                                             rows'[j] \in listed
    BY <1>1, <1>9 DEF ByTask
  <2>1. ASSUME NEW u \in listed \ changed' PROVE \E j \in Present' : Passed(j) /\ rows'[j] = u
    <3>1. PICK j \in Present : Passed(j) /\ rows[j] = u
      BY <1>1, <1>6 DEF PagesInv, ByTask
    <3>2. QED  BY <1>14, <3>1
  <2>2. ASSUME NEW j \in Present', Passed(j), rows'[j] \notin changed' PROVE rows'[j] \in listed
    <3>1. page.pc # "first"
      BY <1>10, <2>2 DEF Passed
    <3>2. j \in Present /\ rows'[j] = rows[j] /\ rows[j] \notin changed
      BY <1>15, <2>2, <3>1
    <3>3. QED  BY <1>1, <2>2, <3>2 DEF PagesInv, ByTask
  <2>3. QED  BY <2>1, <2>2
<1>17. Scan'
  <2> SUFFICES ASSUME page.pc = "scan"
               PROVE  /\ page.items \cap listed \subseteq changed'
                      /\ \A u \in page.items \ changed' :
                           \E j \in Present' : Scanned(j) /\ rows'[j] = u
                      /\ \A j \in Present' : Scanned(j) /\ rows'[j] \notin changed' =>
                            rows'[j] \in listed \cup page.items
    BY <1>1, <1>9 DEF Scan
  <2>1. listing = "log"
    BY DEF PagesInv, Turning
  <2>2. page.items \cap listed \subseteq changed'
    BY <1>6 DEF PagesInv, Scan
  <2>3. ASSUME NEW u \in page.items \ changed' PROVE \E j \in Present' : Scanned(j) /\ rows'[j] = u
    <3>1. PICK j \in Present : Scanned(j) /\ rows[j] = u
      BY <1>6 DEF PagesInv, Scan
    <3>2. QED  BY <1>14, <2>1, <3>1
  <2>4. ASSUME NEW j \in Present', Scanned(j), rows'[j] \notin changed'
        PROVE  rows'[j] \in listed \cup page.items
    <3>1. j \in Present /\ rows'[j] = rows[j] /\ rows[j] \notin changed
      BY <1>15, <2>1, <2>4
    <3>2. QED  BY <2>4, <3>1 DEF PagesInv, Scan
  <2>5. QED  BY <2>2, <2>3, <2>4
<1>18. NoneTwice' /\ AllListed'
  BY <1>1, <1>6 DEF PagesInv, NoneTwice, AllListed
<1>19. QED  BY <1>7, <1>8, <1>13, <1>16, <1>17, <1>18 DEF PagesInv

LEMMA TurnIs ==
    ASSUME NEW items, NEW cursor \in Keys \cup {0}, Turn(items, cursor)
    PROVE  /\ listed' = listed \cup items /\ again' = again \cup (items \cap listed)
           /\ page' \in PageRows /\ page'.pc = (IF cursor = 0 THEN "end" ELSE "next")
           /\ page'.cursor = cursor /\ page'.inclusive /\ page'.round = 0 /\ page'.items = {}
<1>1. page' = [pc |-> IF cursor = 0 THEN "end" ELSE "next", cursor |-> cursor, scan |-> 0,
               inclusive |-> TRUE, round |-> 0, items |-> {}]
  BY DEF Turn, Start
<1>2. 0 \in 0..MaxRounds
  BY KeysAreNats
<1>3. page' \in PageRows
  BY <1>1, <1>2 DEF PageRows
<1>4. /\ page'.pc = (IF cursor = 0 THEN "end" ELSE "next") /\ page'.cursor = cursor
      /\ page'.inclusive /\ page'.round = 0 /\ page'.items = {}
  BY <1>1
<1>5. listed' = listed \cup items /\ again' = again \cup (items \cap listed)
  BY DEF Turn
<1>6. QED  BY <1>3, <1>4, <1>5

\* A page of users or scheduled messages: the rows below the cursor, all of them or
\* down to the next cursor.
LEMMA KeyPageStep ==
    ASSUME PagesInv, page.pc \in {"first", "next"}, listing # "log",
           NEW items \in SUBSET Present, NEW cursor \in Keys \cup {0}, Turn(items, cursor),
           items = {} \/ items \subseteq Below(page.cursor, FALSE),
           \/ cursor = 0 /\ (cutShort' \/ items = Below(page.cursor, FALSE))
           \/ /\ cursor \in items /\ (\A j \in items : cursor <= j)
              /\ \A j \in Below(page.cursor, FALSE) : j >= cursor => j \in items,
           cutShort' \in BOOLEAN,
           UNCHANGED <<listing, rows, changed, changes>>
    PROVE  PagesInv'
<1> DEFINE below == Below(page.cursor, FALSE)
<1>1. /\ listed' = listed \cup items /\ again' = again \cup (items \cap listed)
      /\ page' \in PageRows /\ page'.pc = (IF cursor = 0 THEN "end" ELSE "next")
      /\ page'.cursor = cursor /\ page'.inclusive /\ page'.round = 0 /\ page'.items = {}
  BY TurnIs
<1>2. /\ \A k \in listed : page.cursor # 0 /\ k >= page.cursor
      /\ \A k \in Present \ changed : page.cursor # 0 /\ k >= page.cursor => k \in listed
  BY DEF PagesInv, ByKey
<1>3. \A k \in Keys : k \in Nat /\ k # 0
  BY KeysAreNats
<1>4. Present \subseteq Keys /\ items \subseteq Keys /\ listed \subseteq Keys
  BY PresentFinite DEF PagesInv, PagesTypes
<1>5. page.cursor \in Keys \cup {0}
  BY DEF PagesInv, PagesTypes, PageRows
<1>6. \A k \in Present : k \in below <=> page.cursor = 0 \/ k < page.cursor
  BY DEF Below
<1>7. items \cap listed = {}
  <2> SUFFICES ASSUME NEW k \in items, k \in listed PROVE FALSE
    OBVIOUS
  <2>1. k \in below /\ k \in Present
    OBVIOUS
  <2>2. page.cursor # 0 /\ k >= page.cursor
    BY <1>2
  <2>3. k < page.cursor
    BY <1>6, <2>1, <2>2
  <2>4. QED  BY <1>3, <1>4, <1>5, <2>2, <2>3
<1> HIDE DEF below
<1>8. PagesTypes'
  BY <1>1, <1>4, <1>7 DEF PagesInv, PagesTypes, PageRows
<1>9. Turning'
  BY <1>1 DEF Turning
<1>10. ByTask' /\ Scan'
  BY <1>1 DEF ByTask, Scan
<1>11. NoneTwice'
  BY <1>1, <1>7 DEF PagesInv, NoneTwice
<1>12. CASE cursor = 0
  <2>1. ByKey'
    BY <1>1, <1>12 DEF ByKey
  <2>2. ASSUME ~cutShort', NEW k \in Present PROVE k \in listed' \cup changed
    <3>1. items = below
      BY <1>3, <1>4, <1>12, <2>2 DEF below
    <3>2. k \in below \/ (page.cursor # 0 /\ k >= page.cursor)
      BY <1>3, <1>4, <1>5, <1>6
    <3>3. QED  BY <1>1, <1>2, <3>1, <3>2
  <2>3. Present' = Present /\ \A k : Entry(k)' = k
    BY DEF Present, Entry
  <2>4. AllListed'
    BY <2>2, <2>3 DEF AllListed
  <2>5. QED  BY <1>8, <1>9, <1>10, <1>11, <2>1, <2>4 DEF PagesInv
<1>13. CASE cursor # 0
  <2>1. /\ cursor \in items /\ (\A j \in items : cursor <= j)
        /\ \A j \in below : j >= cursor => j \in items
    BY <1>13 DEF below
  <2>2. page.cursor = 0 \/ cursor < page.cursor
    BY <1>6, <2>1 DEF below
  <2>3. \A k \in listed' : k >= cursor
    BY <1>1, <1>2, <1>3, <1>4, <1>5, <2>1, <2>2
  <2>4. ASSUME NEW k \in Present \ changed, k >= cursor PROVE k \in listed'
    <3>1. k \in below \/ (page.cursor # 0 /\ k >= page.cursor)
      BY <1>3, <1>4, <1>5, <1>6
    <3>2. QED  BY <1>1, <1>2, <2>1, <2>4, <3>1
  <2>5. Present' = Present
    BY DEF Present
  <2>6. ByKey'
    BY <1>1, <1>13, <2>3, <2>4, <2>5 DEF ByKey
  <2>7. AllListed'
    BY <1>1, <1>13 DEF AllListed
  <2>8. QED  BY <1>8, <1>9, <1>10, <1>11, <2>6, <2>7 DEF PagesInv
<1>14. QED  BY <1>12, <1>13

LEMMA UsersStep == ASSUME PagesInv, ListUsers PROVE PagesInv'
<1> DEFINE gone == page.cursor # 0 /\ page.cursor \notin Present
           found == RowsFrom(page.cursor, FALSE, PageSize)
           items == IF gone THEN {} ELSE found
           cursor == IF Cardinality(items) = PageSize
                     THEN CHOOSE k \in items : \A j \in items : k <= j ELSE 0
<1>1. /\ page.pc \in {"first", "next"} /\ listing = "users" /\ Turn(items, cursor)
      /\ cutShort' = (cutShort \/ gone) /\ UNCHANGED <<listing, rows, changed, changes>>
  BY DEF ListUsers
<1>2. page.cursor \in Nat
  BY PositionsAreNats
<1>3. /\ found \subseteq Below(page.cursor, FALSE) /\ found \subseteq Present
      /\ \A k \in found : \A j \in Below(page.cursor, FALSE) : j >= k => j \in found
      /\ Cardinality(found) < PageSize => found = Below(page.cursor, FALSE)
      /\ Cardinality(found) \in Nat /\ Cardinality(found) <= PageSize /\ IsFiniteSet(found)
  <2>1. PICK inclusive \in BOOLEAN : inclusive = FALSE
    OBVIOUS
  <2>2. PICK batch : batch = RowsFrom(page.cursor, inclusive, PageSize)
    OBVIOUS
  <2>3. batch = found
    BY <2>1, <2>2
  <2> HIDE DEF found
  <2>4. /\ batch \subseteq Below(page.cursor, inclusive) /\ batch \subseteq Present
        /\ \A k \in batch : \A j \in Below(page.cursor, inclusive) : j >= k => j \in batch
        /\ Cardinality(batch) < PageSize => batch = Below(page.cursor, inclusive)
        /\ Cardinality(batch) \in Nat /\ Cardinality(batch) <= PageSize /\ IsFiniteSet(batch)
    BY <1>2, <2>2, KeysAreNats, RowsFromIs
  <2>5. QED  BY <2>1, <2>3, <2>4
<1>4. cutShort' \in BOOLEAN
  BY <1>1 DEF PagesInv, PagesTypes
<1>5. items \subseteq Present /\ (items = {} \/ items \subseteq Below(page.cursor, FALSE))
  BY <1>3
<1>6. PageSize \in Nat \ {0}
  BY KeysAreNats
<1>7. CASE Cardinality(items) = PageSize
  <2>1. ~gone
    BY <1>6, <1>7, FS_EmptySet
  <2>2. items = found /\ items # {}
    BY <1>6, <1>7, <2>1, FS_EmptySet
  <2>3. cursor \in items /\ \A j \in items : cursor <= j
    <3>1. items \subseteq Nat
      BY <1>5, KeysAreNats, PresentFinite
    <3> HIDE DEF items
    <3>2. \E k \in items : \A j \in items : k <= j
      BY <2>2, <3>1, LeastNat
    <3>3. QED  BY <1>7, <3>2
  <2>4. \A j \in Below(page.cursor, FALSE) : j >= cursor => j \in items
    BY <1>3, <2>2, <2>3
  <2>5. cursor \in Keys \cup {0}
    BY <1>5, <2>3, PresentFinite
  <2> HIDE DEF items, cursor, gone
  <2>6. QED  BY <1>1, <1>4, <1>5, <2>3, <2>4, <2>5, KeyPageStep
<1>8. CASE Cardinality(items) # PageSize
  <2>1. cursor = 0
    BY <1>8
  <2>2. cutShort' \/ items = Below(page.cursor, FALSE)
    <3>1. CASE gone
      BY <1>1, <3>1
    <3>2. CASE ~gone
      <4>1. items = found
        BY <3>2
      <4>2. Cardinality(found) # PageSize
        BY <1>8, <4>1
      <4> HIDE DEF found, gone
      <4>3. Cardinality(found) < PageSize
        BY <1>3, <1>6, <4>2
      <4>4. QED  BY <1>3, <4>1, <4>3
    <3>3. QED  BY <3>1, <3>2
  <2> HIDE DEF items, cursor, gone
  <2>3. QED  BY <1>1, <1>4, <1>5, <2>1, <2>2, KeyPageStep
<1>9. QED  BY <1>7, <1>8

LEMMA ScheduledStep == ASSUME PagesInv, ListScheduled PROVE PagesInv'
<1> DEFINE ahead == RowsFrom(page.cursor, FALSE, PageSize + 1)
           items == RowsFrom(page.cursor, FALSE, PageSize)
           cursor == IF ahead # items THEN CHOOSE k \in items : \A j \in items : k <= j ELSE 0
<1>1. /\ page.pc \in {"first", "next"} /\ listing = "scheduled" /\ Turn(items, cursor)
      /\ UNCHANGED <<listing, rows, changed, cutShort, changes>>
  BY DEF ListScheduled
<1>2. page.cursor \in Nat
  BY PositionsAreNats
<1>3. /\ items \subseteq Below(page.cursor, FALSE) /\ items \subseteq Present
      /\ \A k \in items : \A j \in Below(page.cursor, FALSE) : j >= k => j \in items
      /\ ahead = items => items = Below(page.cursor, FALSE)
      /\ items = {} => Below(page.cursor, FALSE) = {}
  <2>1. PICK inclusive \in BOOLEAN : inclusive = FALSE
    OBVIOUS
  <2>2. PICK batch : batch = RowsFrom(page.cursor, inclusive, PageSize)
    OBVIOUS
  <2>3. batch = items /\ ahead = RowsFrom(page.cursor, inclusive, PageSize + 1)
    BY <2>1, <2>2
  <2> HIDE DEF items, ahead
  <2>4. /\ batch \subseteq Below(page.cursor, inclusive) /\ batch \subseteq Present
        /\ \A k \in batch : \A j \in Below(page.cursor, inclusive) : j >= k => j \in batch
        /\ RowsFrom(page.cursor, inclusive, PageSize + 1) = batch =>
              batch = Below(page.cursor, inclusive)
        /\ batch = {} => Below(page.cursor, inclusive) = {}
    BY <1>2, <2>2, KeysAreNats, RowsFromIs
  <2>5. QED  BY <2>1, <2>3, <2>4
<1>4. cutShort' \in BOOLEAN
  BY <1>1 DEF PagesInv, PagesTypes
<1>5. CASE ahead # items
  <2>1. items # {}
    <3>1. ahead \subseteq Below(page.cursor, FALSE)
      BY DEF RowsFrom, Below
    <3>2. QED  BY <1>3, <1>5, <3>1
  <2>2. cursor \in items /\ \A j \in items : cursor <= j
    <3>1. items \subseteq Nat
      BY <1>3, KeysAreNats, PresentFinite
    <3> HIDE DEF items, ahead
    <3>2. \E k \in items : \A j \in items : k <= j
      BY <2>1, <3>1, LeastNat
    <3>3. QED  BY <1>5, <3>2
  <2>3. \A j \in Below(page.cursor, FALSE) : j >= cursor => j \in items
    BY <1>3, <2>2
  <2>4. cursor \in Keys \cup {0}
    BY <1>3, <2>2, PresentFinite
  <2> HIDE DEF items, cursor, ahead
  <2>5. QED  BY <1>1, <1>3, <1>4, <2>2, <2>3, <2>4, KeyPageStep
<1>6. CASE ahead = items
  <2>1. cursor = 0 /\ items = Below(page.cursor, FALSE)
    BY <1>3, <1>6
  <2> HIDE DEF items, cursor, ahead
  <2>2. QED  BY <1>1, <1>3, <1>4, <2>1, KeyPageStep
<1>7. QED  BY <1>5, <1>6

\* One round of the log.
LEMMA ScanLogStep == ASSUME PagesInv, ScanLog PROVE PagesInv'
<1> DEFINE batch == RowsFrom(page.scan, page.inclusive, BatchSize)
           below == Below(page.scan, page.inclusive)
           tasks == {rows[k] : k \in batch} \ page.items
           fresh == tasks \ ListedEarlier(tasks)
           FirstRow(t) == Newest({k \in batch : rows[k] = t})
           Place(t) == Cardinality({u \in fresh : FirstRow(u) > FirstRow(t)})
           room == PageSize - Cardinality(page.items)
           items == page.items \cup {t \in fresh : Place(t) < room}
           over == {FirstRow(t) : t \in {u \in fresh : Place(u) = room}}
<1>1. page.pc = "scan" /\ UNCHANGED <<listing, rows, changed, changes>>
  BY DEF ScanLog
<1>2. \/ /\ over # {} /\ Turn(items, Newest(over)) /\ UNCHANGED cutShort
      \/ /\ over = {} /\ Cardinality(batch) < BatchSize /\ Turn(items, 0) /\ UNCHANGED cutShort
      \/ /\ over = {} /\ Turn(items, 0) /\ cutShort' = TRUE
      \/ /\ over = {} /\ Cardinality(batch) = BatchSize /\ page.round + 1 < MaxRounds
         /\ page' = [page EXCEPT !.items = items, !.round = @ + 1, !.inclusive = FALSE,
                                 !.scan = CHOOSE k \in batch : \A j \in batch : k <= j]
         /\ UNCHANGED <<listed, again, cutShort>>
  BY DEF ScanLog
<1>3. /\ listing = "log" /\ page.round < MaxRounds
      /\ page.cursor # 0 => page.scan # 0 /\ page.scan <= page.cursor
      /\ IsFiniteSet(page.items) /\ Cardinality(page.items) <= PageSize
      /\ page.cursor = 0 => listed = {}
  BY <1>1 DEF PagesInv, Turning
<1>4. /\ \A t \in listed \ changed : \E k \in Present : Passed(k) /\ rows[k] = t
      /\ \A k \in Present : Passed(k) /\ rows[k] \notin changed => rows[k] \in listed
  BY <1>1, <1>3 DEF PagesInv, ByTask
<1>5. /\ page.items \cap listed \subseteq changed
      /\ \A t \in page.items \ changed : \E k \in Present : Scanned(k) /\ rows[k] = t
      /\ \A k \in Present : Scanned(k) /\ rows[k] \notin changed =>
            rows[k] \in listed \cup page.items
  BY <1>1 DEF PagesInv, Scan
<1>6. /\ page.cursor \in Nat /\ page.scan \in Nat /\ page.inclusive \in BOOLEAN
      /\ BatchSize \in Nat \ {0} /\ PageSize \in Nat \ {0} /\ rows \in [Keys -> Things \cup {0}]
      /\ page \in PageRows
  BY PositionsAreNats, KeysAreNats DEF PagesInv, PagesTypes
<1>7. /\ batch \subseteq below /\ batch \subseteq Present
      /\ IsFiniteSet(batch) /\ Cardinality(batch) \in Nat
      /\ \A k \in batch : \A j \in below : j >= k => j \in batch
      /\ Cardinality(batch) < BatchSize => batch = below
  <2> HIDE DEF batch
  <2>1. QED  BY <1>6, RowsFromIs DEF batch
<1>8. Present \subseteq Keys /\ (\A k \in Keys : k \in Nat /\ k # 0) /\ batch \subseteq Nat
  BY <1>7, PresentFinite, KeysAreNats
<1>9. \A k \in Present : Scanned(k) \/ k \in below
  BY <1>6, <1>8 DEF Scanned, Below
<1>10. \A k \in below : (page.scan = 0 \/ k <= page.scan) /\ (\A j \in Keys : Scanned(j) => j > k)
  BY <1>6, <1>8 DEF Scanned, Below
\* The newest row of each task of the batch.
<1>11. \A t \in fresh : /\ FirstRow(t) \in batch /\ rows[FirstRow(t)] = t
                        /\ \A k \in batch : rows[k] = t => k <= FirstRow(t)
  <2> SUFFICES ASSUME NEW t \in fresh
               PROVE  /\ FirstRow(t) \in batch /\ rows[FirstRow(t)] = t
                      /\ \A k \in batch : rows[k] = t => k <= FirstRow(t)
    OBVIOUS
  <2> DEFINE own == {k \in batch : rows[k] = t}
  <2>1. own # {} /\ own \subseteq batch
    OBVIOUS
  <2> HIDE DEF own, batch
  <2>2. own \subseteq Nat /\ IsFiniteSet(own)
    BY <1>7, <1>8, <2>1, FS_Subset
  <2>3. \E m \in own : \A n \in own : n <= m
    BY <2>1, <2>2, GreatestOf
  <2>4. Newest(own) \in own /\ \A n \in own : n <= Newest(own)
    BY <2>3 DEF Newest
  <2>5. QED  BY <2>4 DEF own
<1>12. fresh \subseteq Things
  <2>1. \A k \in batch : rows[k] \in Things
    BY <1>6, <1>7, <1>8 DEF Present
  <2>2. QED  BY <2>1
<1>13. \A t \in fresh : t \notin page.items /\ (t \in listed => t \in changed)
  <2> SUFFICES ASSUME NEW t \in fresh, t \in listed, t \notin changed PROVE FALSE
    OBVIOUS
  <2>1. PICK k \in Present : Passed(k) /\ rows[k] = t
    BY <1>4
  <2>2. t \in ListedEarlier(tasks)
    BY <2>1 DEF ListedEarlier, Passed
  <2>3. QED  BY <2>2
<1>14. \A k \in batch : rows[k] \notin changed => rows[k] \in listed \cup page.items \cup fresh
  <2> SUFFICES ASSUME NEW k \in batch, rows[k] \notin changed, rows[k] \notin page.items,
                      rows[k] \notin fresh
               PROVE  rows[k] \in listed
    OBVIOUS
  <2>1. rows[k] \in ListedEarlier(tasks)
    OBVIOUS
  <2>2. PICK j \in Present : Passed(j) /\ rows[j] = rows[k]
    BY <2>1 DEF ListedEarlier, Passed
  <2>3. rows[j] \in listed
    <3> HIDE DEF batch, tasks, fresh
    <3>1. rows[j] \notin changed
      BY <2>2
    <3>2. QED  BY <1>4, <2>2, <3>1
  <2>4. QED  BY <2>2, <2>3
<1> DEFINE f == [t \in fresh |-> FirstRow(t)]
<1>15. /\ \A t \in fresh : f[t] \in Nat /\ f[t] = FirstRow(t)
       /\ \A t, u \in fresh : f[t] = f[u] => t = u
  <2> HIDE DEF batch, fresh, FirstRow
  <2>1. \A t \in fresh : f[t] = FirstRow(t)
    OBVIOUS
  <2> HIDE DEF f
  <2>2. QED  BY <1>8, <1>11, <2>1
<1>16. IsFiniteSet(fresh)
  <2> HIDE DEF batch, fresh, FirstRow
  <2>1. f \in [fresh -> batch]
    BY <1>11
  <2> HIDE DEF f
  <2>2. f \in Injection(fresh, batch)
    BY <1>15, <2>1 DEF Injection, IsInjective
  <2>3. QED  BY <1>7, <2>2, FS_Injection
<1>17. \A t \in fresh : Place(t) = Cardinality(Above(fresh, f, t))
  <2> SUFFICES ASSUME NEW t \in fresh PROVE Place(t) = Cardinality(Above(fresh, f, t))
    OBVIOUS
  <2> HIDE DEF batch, fresh, FirstRow
  <2>1. {u \in fresh : FirstRow(u) > FirstRow(t)} = Above(fresh, f, t)
    <3> HIDE DEF f
    <3>1. QED  BY <1>15 DEF Above
  <2>2. QED  BY <2>1
<1> HIDE DEF batch, fresh, FirstRow, f, Place
<1>18. \A t \in fresh : Place(t) \in Nat
  BY <1>16, <1>17, AboveCard
<1>19. \A t, u \in fresh : FirstRow(t) > FirstRow(u) => Place(t) < Place(u)
  <2> SUFFICES ASSUME NEW t \in fresh, NEW u \in fresh, FirstRow(t) > FirstRow(u)
               PROVE  Place(t) < Place(u)
    OBVIOUS
  <2>1. f[t] > f[u]
    BY <1>15
  <2>2. Cardinality(Above(fresh, f, t)) < Cardinality(Above(fresh, f, u))
    BY <1>15, <1>16, <2>1, HigherHasFewer
  <2>3. QED  BY <1>17, <2>2
<1>20. room \in Nat /\ Cardinality(page.items) \in Nat
  <2>1. Cardinality(page.items) \in Nat
    BY <1>3, FS_CardinalityType
  <2>2. QED  BY <1>3, <1>6, <2>1
<1>21. over = {} => \A t \in fresh : Place(t) < room
  <2> SUFFICES ASSUME NEW t \in fresh, room <= Place(t) PROVE over # {}
    BY <1>18, <1>20
  <2> HIDE DEF room
  <2>1. \E u \in fresh : Cardinality(Above(fresh, f, u)) = room
    BY <1>15, <1>16, <1>17, <1>20, RanksAreFilled
  <2>2. PICK u \in fresh : Place(u) = room
    BY <1>17, <2>1
  <2>3. FirstRow(u) \in over
    BY <2>2
  <2>4. QED  BY <2>3
<1>22. Cardinality(fresh) <= room \/ over # {}
  <2> SUFFICES ASSUME over = {} PROVE Cardinality(fresh) <= room
    OBVIOUS
  <2>1. \A t \in fresh : Cardinality(Above(fresh, f, t)) < room
    BY <1>17, <1>21
  <2> HIDE DEF room, over
  <2>2. QED  BY <1>15, <1>16, <1>20, <2>1, AllFit
\* All that is listed down to a row of the batch.
<1>23. ASSUME NEW m \in batch, \A t \in fresh : FirstRow(t) >= m => t \in items \/ FirstRow(t) = m,
              NEW k \in Present, k > m, rows[k] \notin changed
       PROVE  rows[k] \in listed \cup items
  <2>1. k > m /\ k >= m /\ k \in Nat /\ m \in Nat /\ rows[k] \notin changed
    BY <1>8, <1>23
  <2>2. page.items \subseteq items
    OBVIOUS
  <2>3. \A t \in fresh : FirstRow(t) >= m => t \in items \/ FirstRow(t) = m
    BY <1>23
  <2> HIDE DEF items
  <2>4. CASE Scanned(k)
    <3>1. rows[k] \in listed \cup page.items
      BY <1>5, <2>1, <2>4
    <3>2. QED  BY <2>2, <3>1
  <2>5. CASE k \in below
    <3>1. k \in batch
      BY <1>7, <2>1, <2>5
    <3>2. rows[k] \in listed \cup page.items \cup fresh
      BY <1>14, <2>1, <3>1
    <3>3. ASSUME NEW t \in fresh, t = rows[k] PROVE t \in items
      <4>1. k <= FirstRow(t) /\ FirstRow(t) \in Nat
        BY <1>8, <1>11, <3>1, <3>3
      <4>2. FirstRow(t) > m
        BY <2>1, <4>1
      <4>3. QED  BY <2>1, <2>3, <4>1, <4>2
    <3>4. QED  BY <2>2, <3>2, <3>3
  <2>6. Scanned(k) \/ k \in below
    BY <1>9
  <2>7. QED  BY <2>4, <2>5, <2>6
<1>24. /\ items \cap listed \subseteq changed
       /\ \A k \in Present : Scanned(k) /\ rows[k] \notin changed => rows[k] \in listed \cup items
  BY <1>5, <1>13
<1>25. items \subseteq Keys \cup Things
  BY <1>6, <1>12 DEF PageRows
<1>26. Present' = Present /\ rows' = rows /\ changed' = changed /\ listing' = "log"
  BY <1>1, <1>3 DEF Present
\* The page is full: the first row that does not fit is the next cursor.
<1>28. CASE /\ over # {} /\ Turn(items, Newest(over)) /\ UNCHANGED cutShort
  <2>1. PICK u \in fresh : Place(u) = room
    BY <1>28
  <2>2. PICK m \in batch : m = FirstRow(u)
    BY <1>11
  <2>3. \A t \in fresh : t # u => FirstRow(t) # m
    BY <1>15, <2>2
  <2>4. \A t \in fresh : FirstRow(t) > m => Place(t) < room
    BY <1>19, <2>1, <2>2
  <2>5. \A t \in fresh : Place(t) <= room /\ t # u => FirstRow(t) > m /\ Place(t) < room
    <3> SUFFICES ASSUME NEW t \in fresh, Place(t) <= room, t # u
                 PROVE  FirstRow(t) > m
      BY <2>4
    <3>1. FirstRow(t) \in Nat /\ m \in Nat /\ FirstRow(t) # m
      BY <1>8, <1>11, <2>3
    <3>2. ~(m > FirstRow(t))
      <4> HIDE DEF room
      <4>1. m > FirstRow(t) => room < Place(t)
        BY <1>19, <2>1, <2>2
      <4>2. QED  BY <1>18, <1>20, <4>1
    <3>3. QED  BY <3>1, <3>2
  <2>6. over = {m}
    <3>1. m \in over
      BY <2>1, <2>2
    <3>2. \A t \in fresh : Place(t) = room => t = u
      <4> HIDE DEF room
      <4>1. QED  BY <1>18, <1>20, <2>5
    <3>3. QED  BY <2>2, <3>1, <3>2
  <2>7. Newest(over) = m
    <3>1. m <= m
      BY <1>8
    <3> HIDE DEF over
    <3>2. QED  BY <2>6, <3>1 DEF Newest
  <2>8. m \in Keys /\ m # 0 /\ m \in Nat /\ m \in below
    BY <1>7, <1>8
  <2>9. Turn(items, m)
    BY <1>28, <2>7
  <2> HIDE DEF items, over, below
  <2>10. /\ listed' = listed \cup items /\ again' = again \cup (items \cap listed)
         /\ page' \in PageRows /\ page'.pc = "next" /\ page'.cursor = m
         /\ page'.inclusive /\ page'.round = 0 /\ page'.items = {}
    BY <2>8, <2>9, TurnIs
  <2>11. PagesTypes'
    BY <1>1, <1>3, <1>24, <1>25, <1>28, <2>10 DEF PagesInv, PagesTypes, PageRows
  <2>12. Turning'
    BY <2>8, <2>10 DEF Turning
  <2>13. NoneTwice'
    BY <1>24, <1>26, <2>10 DEF PagesInv, NoneTwice
  <2>14. \A k : Passed(k)' <=> k > m
    BY <2>8, <2>10 DEF Passed
  <2>15. ASSUME NEW k \in Present, k > m, rows[k] \notin changed PROVE rows[k] \in listed'
    <3>1. \A t \in fresh : FirstRow(t) >= m => t \in items \/ FirstRow(t) = m
      <4>1. \A t \in fresh : FirstRow(t) \in Nat
        BY <1>8, <1>11
      <4>2. \A t \in fresh : FirstRow(t) >= m => FirstRow(t) > m \/ FirstRow(t) = m
        BY <2>8, <4>1
      <4>3. \A t \in fresh : Place(t) < room => t \in items
        BY DEF items
      <4>4. QED  BY <2>4, <4>2, <4>3
    <3>2. QED  BY <1>23, <2>10, <2>15, <3>1
  <2>16. ASSUME NEW t \in listed' \ changed PROVE \E k \in Present : k > m /\ rows[k] = t
    <3>1. CASE t \in listed
      <4>1. PICK k \in Present : Passed(k) /\ rows[k] = t
        BY <1>4, <2>16, <3>1
      <4>2. page.cursor # 0 /\ k > page.cursor /\ k \in Nat
        BY <1>8, <4>1 DEF Passed
      <4>3. page.scan # 0 /\ page.scan <= page.cursor /\ m <= page.scan
        BY <1>3, <1>10, <2>8, <4>2
      <4>4. QED  BY <1>6, <2>8, <4>1, <4>2, <4>3
    <3>2. CASE t \in page.items
      <4>1. PICK k \in Present : Scanned(k) /\ rows[k] = t
        BY <1>5, <2>16, <3>2
      <4>2. QED  BY <1>8, <1>10, <2>8, <4>1
    <3>3. CASE t \in fresh /\ Place(t) < room
      <4>1. t # u /\ Place(t) <= room
        <5> HIDE DEF room
        <5>1. QED  BY <1>18, <1>20, <2>1, <3>3
      <4>2. FirstRow(t) > m /\ FirstRow(t) \in Present /\ rows[FirstRow(t)] = t
        BY <1>7, <1>11, <2>5, <3>3, <4>1
      <4>3. QED  BY <4>2
    <3>4. t \in listed \/ t \in page.items \/ (t \in fresh /\ Place(t) < room)
      BY <2>10, <2>16 DEF items
    <3>5. QED  BY <3>1, <3>2, <3>3, <3>4
  <2>17. ByTask'
    BY <1>26, <2>14, <2>15, <2>16 DEF ByTask
  <2>18. ByKey' /\ Scan' /\ AllListed'
    BY <1>26, <2>10 DEF ByKey, Scan, AllListed
  <2>19. QED  BY <2>11, <2>12, <2>13, <2>17, <2>18 DEF PagesInv
\* The listing ends, and nothing is left below the batch or it is cut short.
<1>29. CASE /\ over = {} /\ Turn(items, 0) /\ cutShort' \in BOOLEAN
            /\ cutShort' \/ batch = below
  <2>1. \A t \in fresh : t \in items
    BY <1>21, <1>29
  <2> HIDE DEF items, over, below
  <2>2. PICK cursor \in Keys \cup {0} : cursor = 0
    OBVIOUS
  <2>3. Turn(items, cursor)
    BY <1>29, <2>2
  <2>4. /\ listed' = listed \cup items /\ again' = again \cup (items \cap listed)
        /\ page' \in PageRows /\ page'.pc = "end"
        /\ page'.cursor = 0 /\ page'.inclusive /\ page'.round = 0 /\ page'.items = {}
    BY <2>2, <2>3, TurnIs
  <2>5. PagesTypes'
    BY <1>1, <1>3, <1>24, <1>25, <1>29, <2>4 DEF PagesInv, PagesTypes, PageRows
  <2>6. Turning' /\ ByKey' /\ ByTask' /\ Scan'
    BY <2>4 DEF Turning, ByKey, ByTask, Scan
  <2>7. NoneTwice'
    BY <1>24, <1>26, <2>4 DEF PagesInv, NoneTwice
  <2>8. ASSUME ~cutShort', NEW k \in Present PROVE rows[k] \in listed' \cup changed
    <3>1. CASE Scanned(k)
      BY <1>24, <2>4, <3>1
    <3>2. CASE k \in below
      <4>1. page.items \subseteq items
        BY DEF items
      <4>2. k \in batch
        BY <1>29, <2>8, <3>2
      <4>3. QED  BY <1>14, <2>1, <2>4, <4>1, <4>2
    <3>3. Scanned(k) \/ k \in below
      BY <1>9
    <3>4. QED  BY <3>1, <3>2, <3>3
  <2>9. \A k : Entry(k)' = rows[k]
    BY <1>26 DEF Entry
  <2>10. AllListed'
    BY <1>26, <2>8, <2>9 DEF AllListed
  <2>11. QED  BY <2>5, <2>6, <2>7, <2>10 DEF PagesInv
\* The page has room, and the scan goes on below the batch.
<1>30. CASE /\ over = {} /\ Cardinality(batch) = BatchSize /\ page.round + 1 < MaxRounds
            /\ page' = [page EXCEPT !.items = items, !.round = @ + 1, !.inclusive = FALSE,
                                    !.scan = CHOOSE k \in batch : \A j \in batch : k <= j]
            /\ UNCHANGED <<listed, again, cutShort>>
  <2>1. \A t \in fresh : t \in items
    BY <1>21, <1>30
  <2>2. items = page.items \cup fresh
    BY <2>1
  <2>3. PICK m \in batch : /\ \A j \in batch : m <= j
                           /\ m = CHOOSE k \in batch : \A j \in batch : k <= j
    <3>1. batch # {}
      BY <1>6, <1>30, FS_EmptySet
    <3>2. \E k \in batch : \A j \in batch : k <= j
      BY <1>8, <3>1, LeastNat
    <3>3. QED  BY <3>2
  <2>4. m \in Keys /\ m # 0 /\ m \in Nat /\ m \in below
    BY <1>7, <1>8
  <2>5. IsFiniteSet(items) /\ Cardinality(items) <= PageSize
    <3>1. Cardinality(fresh) <= room
      BY <1>22, <1>30
    <3>2. /\ IsFiniteSet(page.items \cup fresh)
          /\ Cardinality(page.items \cup fresh) =
               Cardinality(page.items) + Cardinality(fresh) - Cardinality(page.items \cap fresh)
      BY <1>3, <1>16, FS_Union
    <3>3. Cardinality(fresh) \in Nat
      BY <1>16, FS_CardinalityType
    <3>4. page.items \cap fresh = {}
      BY <1>13
    <3>5. Cardinality(page.items \cap fresh) = 0
      BY <3>4, FS_EmptySet
    <3>6. room = PageSize - Cardinality(page.items)
      OBVIOUS
    <3> HIDE DEF room, items
    <3>7. Cardinality(page.items \cup fresh) <= PageSize
      BY <1>6, <1>20, <3>1, <3>2, <3>3, <3>5, <3>6
    <3>8. QED  BY <2>2, <3>2, <3>7
  <2> HIDE DEF items, over, below, room
  <2>6. /\ page'.pc = "scan" /\ page'.cursor = page.cursor /\ page'.scan = m
        /\ page'.inclusive = FALSE /\ page'.round = page.round + 1 /\ page'.items = items
        /\ page' \in PageRows
    <3>1. page.round + 1 \in 0..MaxRounds
      BY <1>6, <1>30, KeysAreNats DEF PageRows
    <3>2. page' = [page EXCEPT !.items = items, !.round = page.round + 1, !.inclusive = FALSE,
                              !.scan = m]
      BY <1>6, <1>30, <2>3 DEF PageRows
    <3>3. /\ page'.cursor = page.cursor /\ page'.scan = m
          /\ page'.inclusive = FALSE /\ page'.round = page.round + 1 /\ page'.items = items
          /\ page'.pc = page.pc
      BY <1>6, <3>2 DEF PageRows
    <3>4. page' \in PageRows
      BY <1>6, <1>25, <2>4, <3>1, <3>2 DEF PageRows
    <3>5. QED  BY <1>1, <3>3, <3>4
  <2>7. PagesTypes'
    BY <1>1, <1>3, <1>30, <2>6 DEF PagesInv, PagesTypes, PageRows
  <2>8. Turning'
    <3>1. page.cursor # 0 => m # 0 /\ m <= page.cursor
      BY <1>3, <1>6, <1>10, <2>4
    <3>2. page.cursor = 0 => listed' = {}
      BY <1>3, <1>30
    <3>3. page.round + 1 < MaxRounds
      BY <1>30
    <3>4. QED  BY <1>26, <2>5, <2>6, <3>1, <3>2, <3>3 DEF Turning
  <2>9. \A k : Passed(k)' <=> Passed(k)
    BY <2>6 DEF Passed
  <2>10. ByTask'
    BY <1>4, <1>26, <1>30, <2>9 DEF ByTask
  <2>11. \A k \in Keys : Scanned(k)' <=> k >= m
    BY <1>8, <2>4, <2>6 DEF Scanned
  <2>12. ASSUME NEW t \in items \ changed PROVE \E k \in Present : Scanned(k)' /\ rows[k] = t
    <3>1. CASE t \in page.items
      <4>1. PICK k \in Present : Scanned(k) /\ rows[k] = t
        BY <1>5, <2>12, <3>1
      <4>2. k > m /\ k \in Nat /\ k \in Keys
        BY <1>8, <1>10, <2>4, <4>1
      <4>3. k >= m
        BY <2>4, <4>2
      <4>4. QED  BY <2>11, <4>1, <4>2, <4>3
    <3>2. CASE t \in fresh
      <4>1. FirstRow(t) \in batch /\ rows[FirstRow(t)] = t
        BY <1>11, <3>2
      <4>2. FirstRow(t) >= m /\ FirstRow(t) \in Keys /\ FirstRow(t) \in Present
        BY <1>7, <1>8, <2>3, <4>1
      <4>3. QED  BY <2>11, <4>1, <4>2
    <3>3. QED  BY <2>2, <2>12, <3>1, <3>2
  <2>13. ASSUME NEW k \in Present, k >= m, rows[k] \notin changed PROVE rows[k] \in listed \cup items
    <3>1. CASE Scanned(k)
      BY <1>24, <2>13, <3>1
    <3>2. CASE k \in below
      <4>1. k \in batch
        BY <1>7, <2>13, <3>2
      <4>2. QED  BY <1>14, <2>2, <2>13, <4>1
    <3>3. Scanned(k) \/ k \in below
      BY <1>9
    <3>4. QED  BY <3>1, <3>2, <3>3
  <2>14. Scan'
    <3>1. page'.items \cap listed' \subseteq changed'
      BY <1>24, <1>26, <1>30, <2>6
    <3>2. \A t \in page'.items \ changed' : \E k \in Present' : Scanned(k)' /\ rows'[k] = t
      BY <1>26, <2>6, <2>12
    <3>3. \A k \in Present' : Scanned(k)' /\ rows'[k] \notin changed' =>
             rows'[k] \in listed' \cup page'.items
      BY <1>8, <1>26, <1>30, <2>6, <2>11, <2>13
    <3>4. QED  BY <3>1, <3>2, <3>3 DEF Scan
  <2>15. ByKey' /\ NoneTwice' /\ AllListed'
    BY <1>26, <1>30, <2>6 DEF PagesInv, ByKey, NoneTwice, AllListed
  <2>16. QED  BY <2>7, <2>8, <2>10, <2>14, <2>15 DEF PagesInv
<1>31. cutShort \in BOOLEAN
  BY DEF PagesInv, PagesTypes
<1>32. QED
  <2> HIDE DEF items, over, below, room
  <2>1. QED  BY <1>2, <1>7, <1>28, <1>29, <1>30, <1>31

\* PagesSpec => []EachEntryOnce: page after page, everything that stays as it is
\* is listed, and once (notifications.ts, UserRepository.list), unless the log
\* ran out of rounds or the user a page ended with was deleted.
THEOREM PagesKept == PagesSpec => []EachEntryOnce
<1>1. PagesInv /\ [PagesNext]_pagesVars => PagesInv'
  <2> SUFFICES ASSUME PagesInv, [PagesNext]_pagesVars PROVE PagesInv'
    OBVIOUS
  <2>1. CASE UNCHANGED pagesVars
    <3>1. UNCHANGED <<listing, rows, page, listed, again, changed, cutShort, changes>>
      BY <2>1 DEF pagesVars
    <3>2. Present' = Present /\ (\A k : Entry(k)' = Entry(k))
      BY <3>1 DEF Present, Entry
    <3>3. (\A k : Passed(k)' <=> Passed(k)) /\ (\A k : Scanned(k)' <=> Scanned(k))
      BY <3>1 DEF Passed, Scanned
    <3>4. PagesTypes' /\ Turning'
      BY <3>1 DEF PagesInv, PagesTypes, PageRows, Turning
    <3>5. ByKey' /\ ByTask'
      BY <3>1, <3>2, <3>3 DEF PagesInv, ByKey, ByTask
    <3>6. Scan' /\ NoneTwice' /\ AllListed'
      BY <3>1, <3>2, <3>3 DEF PagesInv, Scan, NoneTwice, AllListed
    <3>7. QED  BY <3>4, <3>5, <3>6 DEF PagesInv
  <2>2. QED  BY <2>1, AskPageStep, ScanLogStep, UsersStep, ScheduledStep, ChangesStep DEF PagesNext
<1>2. PagesInv => EachEntryOnce
  BY DEF PagesInv, EachEntryOnce
<1>3. QED  BY <1>1, <1>2, PagesInvInit, PTL DEF PagesSpec
=============================================================================
