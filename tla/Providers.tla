------------------------------ MODULE Providers ------------------------------
(***************************************************************************)
(* The provider packages: what each transport makes of its provider's      *)
(* answers, and of the provider's later callbacks.                         *)
(*                                                                         *)
(* One message goes to one person through one transport.  What the         *)
(* provider answers follows from the person's address, from whether our    *)
(* request and credentials are sound, and from the moment; an answer may   *)
(* be lost after the provider accepted the message.  What the transport    *)
(* says of the answer decides whether the message is sent again, given up, *)
(* or its address thought dead.                                            *)
(***************************************************************************)
EXTENDS Naturals, Sequences

CONSTANTS
    Texts,       \* the bodies a message may have, sequences of UTF-16 units
    MaxText,     \* the longest body the providers that have a limit accept
    MaxSends     \* deliveryOptions.maxAttempts

\* Every high surrogate of a text is followed by its low one.
PairsWhole(s) ==
    \A i \in DOMAIN s : s[i] = "high" => i < Len(s) /\ s[i + 1] = "low"

ASSUME ProviderBounds ==
    /\ MaxText \in Nat \ {0} /\ MaxSends \in Nat \ {0}
    /\ \A s \in Texts : s \in Seq(STRING) /\ PairsWhole(s)

VARIABLES
    transport,   \* the transport of the message
    person,      \* "reachable", "gone" or "optedOut"
    sound,       \* our request and our credentials are good
    addressed,   \* the task has a destination
    text,        \* the rendered body
    formatted,   \* a parse mode applies to it: markup, not plain text (Telegram)
    lastAnswer,      \* the last answer of the provider
    verdict,     \* what send() made of it
    sends,       \* calls of send()
    copies,      \* messages the provider took for delivery
    bodyTaken,       \* the body it took
    suppressed   \* a callback put the address on the suppression list

providersVars == <<transport, person, sound, addressed, text, formatted, lastAnswer, verdict,
                   sends, copies, bodyTaken, suppressed>>

Transports == {"resend", "twilio", "slack", "slackHook", "whatsapp", "telegram", "discord", "fcm"}

AnswerOf(status, code) == [status |-> status, code |-> code]
Lost       == AnswerOf(0, "none")     \* no answer: timeout or reset
Garbled     == AnswerOf(200, "unread") \* an acceptance with a body that cannot be read
TooLong    == AnswerOf(400, "too_long")
NoAnswer   == AnswerOf(0, "unsent")

Sent                 == [success |-> TRUE, retry |-> FALSE, invalid |-> FALSE]
Failed(retry, invalid) == [success |-> FALSE, retry |-> retry, invalid |-> invalid]

-----------------------------------------------------------------------------
(* What the providers answer (their documentation, as the packages cite it) *)

Accepts(t) ==
    CASE t = "twilio" -> AnswerOf(201, "none")
      [] t \in {"slack", "slackHook"} -> AnswerOf(200, "ok")
      [] OTHER -> AnswerOf(200, "none")

(* The moment is wrong: rate limits and outages. *)
Busy(t) ==
    CASE t = "slack"    -> {AnswerOf(200, "ratelimited"), AnswerOf(200, "internal_error"), AnswerOf(503, "none")}
      [] t = "whatsapp" -> {AnswerOf(400, "130429"), AnswerOf(429, "4"), AnswerOf(500, "none")}
      [] t = "fcm"      -> {AnswerOf(429, "messaging/quota-exceeded"),
                            AnswerOf(503, "messaging/server-unavailable")}
      [] OTHER          -> {AnswerOf(408, "none"), AnswerOf(429, "none"), AnswerOf(500, "none")}

(* Our credentials or our request are wrong. *)
Unsound(t) ==
    CASE t = "slack"     -> {AnswerOf(200, "invalid_auth"), AnswerOf(200, "account_inactive"),
                             AnswerOf(200, "not_in_channel")}
      [] t = "slackHook" -> {AnswerOf(403, "invalid_token"), AnswerOf(400, "invalid_payload")}
      [] t = "twilio"    -> {AnswerOf(401, "20003"), AnswerOf(400, "21612")}
      [] t = "whatsapp"  -> {AnswerOf(401, "190"), AnswerOf(400, "100")}
      [] t = "fcm"       -> {AnswerOf(401, "messaging/third-party-auth-error"),
                             AnswerOf(400, "messaging/invalid-argument")}
      [] t = "discord"   -> {AnswerOf(400, "none")}
      [] OTHER           -> {AnswerOf(401, "none"), AnswerOf(422, "none")}

(* The address is dead. (A URL that is no Discord webhook is refused alike.) *)
Dead(t) ==
    CASE t = "slack"     -> {AnswerOf(200, "channel_not_found"), AnswerOf(200, "is_archived")}
      [] t = "slackHook" -> {AnswerOf(404, "no_service"), AnswerOf(410, "channel_is_archived")}
      [] t = "twilio"    -> {AnswerOf(400, "21211"), AnswerOf(400, "21614")}
      [] t = "whatsapp"  -> {AnswerOf(400, "131026")}
      [] t = "telegram"  -> {AnswerOf(403, "none"), AnswerOf(400, "chat_not_found")}
      [] t = "discord"   -> {AnswerOf(404, "none"), AnswerOf(401, "none")}
      [] t = "fcm"       -> {AnswerOf(404, "messaging/registration-token-not-registered")}
      [] OTHER           -> {AnswerOf(422, "none")}

(* Codes a provider uses both for a dead address and for a fault of ours. *)
Ambiguous == {"21612", "account_inactive", "not_in_channel", "messaging/invalid-argument"}

(* These take a message for an address that turns out to be dead. *)
AcceptsFirst(t) == t \in {"resend", "twilio", "whatsapp"}

-----------------------------------------------------------------------------
(* What send() makes of them.                                              *)

IsPermanentStatus(status) == status \in 400..499 /\ status \notin {408, 429}

ResendSend(r) ==
    IF r.status = 200 THEN Sent ELSE Failed(~IsPermanentStatus(r.status), FALSE)

InvalidDestinationCodes == {"21211", "21610", "21612", "21614"}
TwilioSend(r) ==
    LET invalid == r.code \in InvalidDestinationCodes
    IN  IF r.status = 201 THEN Sent
        ELSE Failed(~(invalid \/ IsPermanentStatus(r.status)), invalid)

InvalidDestinationErrors ==
    {"channel_not_found", "is_archived", "channel_is_archived", "user_not_found",
     "account_inactive", "not_in_channel"}
RetryableErrors ==
    {"ratelimited", "rate_limited", "internal_error", "fatal_error", "service_unavailable",
     "request_timeout", "team_added_to_org"}

SlackSend(r) ==
    IF r.code = "ok" THEN Sent
    ELSE Failed(r.code = "none" \/ r.code \in RetryableErrors \/ r.status = 429 \/ r.status >= 500,
                r.code \in InvalidDestinationErrors)

InvalidWebhookBodies == {"channel_not_found", "channel_is_archived", "no_service"}
SlackHookSend(r) ==
    LET invalid == r.code \in InvalidWebhookBodies
    IN  IF r.status = 200 /\ r.code = "ok" THEN Sent
        ELSE Failed(~(invalid \/ IsPermanentStatus(r.status)), invalid)

RetryableGraphCodes == {"4", "130429"}    \* those of the set that Busy answers

(* As WhatsAppSend, but judged by the status alone. *)
WhatsAppSendByStatus(r) ==
    IF r.status = 200 THEN Sent ELSE Failed(~IsPermanentStatus(r.status), FALSE)

WhatsAppSend(r) ==
    IF r.status = 200 THEN Sent
    ELSE Failed(r.code \in RetryableGraphCodes \/ ~IsPermanentStatus(r.status), FALSE)

TelegramSend(r) ==
    LET invalid == r.status = 403 \/ (r.status = 400 /\ r.code = "chat_not_found")
    IN  IF r.status = 200 THEN Sent
        ELSE Failed(~(invalid \/ IsPermanentStatus(r.status)), invalid)

DiscordSend(r) ==
    IF r.status = 200 THEN Sent
    ELSE Failed(~IsPermanentStatus(r.status), r.status \in {401, 404})

InvalidTokenCodes ==
    {"messaging/invalid-registration-token", "messaging/registration-token-not-registered",
     "messaging/invalid-argument"}
MessagingCodes ==
    InvalidTokenCodes \cup {"messaging/quota-exceeded", "messaging/server-unavailable",
                            "messaging/third-party-auth-error"}
RetryableCodes == {"messaging/quota-exceeded", "messaging/server-unavailable"}
FcmSend(r) ==
    LET invalid == r.code \in InvalidTokenCodes
    IN  IF r.status = 200 THEN Sent
        ELSE Failed(~(invalid \/ r.code \in MessagingCodes \ RetryableCodes), invalid)

Verdict(t, r) ==
    CASE t = "resend"    -> ResendSend(r)
      [] t = "twilio"    -> TwilioSend(r)
      [] t = "slack"     -> SlackSend(r)
      [] t = "slackHook" -> SlackHookSend(r)
      [] t = "whatsapp"  -> WhatsAppSend(r)
      [] t = "telegram"  -> TelegramSend(r)
      [] t = "discord"   -> DiscordSend(r)
      [] t = "fcm"       -> FcmSend(r)

(* These look at the status first and take an unreadable body for an empty one;
   to the others it is an error like any other. *)
TakesGarbled(t) == t \in {"whatsapp", "discord"}
Outcome(t, r) ==
    IF r = Garbled /\ ~TakesGarbled(t) THEN Failed(TRUE, FALSE) ELSE Verdict(t, r)

(* A task these refuse to send at all. *)
Unsendable ==
    \/ ~addressed
    \/ transport \in {"twilio", "whatsapp", "telegram"} /\ text = <<>>

(* truncate: at most MaxText units, ending in an ellipsis, no pair split. *)
Truncate(s) ==
    IF Len(s) <= MaxText THEN s
    ELSE LET kept == IF MaxText > 1 /\ s[MaxText - 1] = "high" THEN MaxText - 2 ELSE MaxText - 1
         IN  Append(SubSeq(s, 1, kept), "...")
Limited == transport \in {"twilio", "telegram", "discord"}
BodySent == IF Limited /\ ~formatted THEN Truncate(text) ELSE text

(* The provider refuses a longer text outright. *)
Fits == Limited => Len(BodySent) <= MaxText

-----------------------------------------------------------------------------
ProvidersInit ==
    /\ transport \in Transports
    /\ person \in {"reachable", "gone", "optedOut"}
    /\ sound \in BOOLEAN /\ addressed \in BOOLEAN
    /\ text \in Texts
    /\ formatted \in BOOLEAN /\ (formatted => transport = "telegram")
    /\ lastAnswer = NoAnswer /\ verdict = Failed(TRUE, FALSE)
    /\ sends = 0 /\ copies = 0 /\ bodyTaken = <<>> /\ suppressed = FALSE

(* Delivery sends, and sends again what may be retried. *)
MaySend == sends < MaxSends /\ ~verdict.success /\ verdict.retry

Answered(r) ==
    /\ lastAnswer' = r
    /\ verdict' = Outcome(transport, r)
    /\ sends' = sends + 1
    /\ UNCHANGED <<transport, person, sound, addressed, text, formatted, suppressed>>

(* send() returns before it calls the provider. *)
RefuseTask ==
    /\ MaySend /\ Unsendable
    /\ verdict' = Failed(FALSE, FALSE)
    /\ sends' = sends + 1
    /\ UNCHANGED <<transport, person, sound, addressed, text, formatted, lastAnswer, copies,
                   bodyTaken, suppressed>>

(* Resend drops a repeat of a task it accepted: the idempotencyKey is the taskId. *)
Keyed == transport = "resend"

(* The provider takes the message; its answer may be lost or spoilt on the way. *)
SendAccepted ==
    /\ MaySend /\ ~Unsendable /\ sound /\ Fits
    /\ person # "gone" \/ AcceptsFirst(transport)
    /\ person = "optedOut" => transport # "twilio"
    /\ copies' = IF Keyed /\ copies > 0 THEN copies ELSE copies + 1
    /\ bodyTaken' = BodySent
    /\ \E r \in {Accepts(transport), Lost, Garbled} : Answered(r)

SendRefused ==
    /\ MaySend /\ ~Unsendable
    /\ \E r \in Busy(transport) \cup {Lost}
                  \cup (IF sound THEN {} ELSE Unsound(transport))
                  \cup (IF Fits THEN {} ELSE {TooLong})
                  \cup (IF person = "gone" THEN Dead(transport) ELSE {})
                  \cup (IF person = "optedOut" /\ transport = "twilio"
                          THEN {AnswerOf(400, "21610")} ELSE {}) : Answered(r)
    /\ UNCHANGED <<copies, bodyTaken>>

-----------------------------------------------------------------------------
(* Callbacks.                                                              *)

Callback(kind, code) == [kind |-> kind, code |-> code]

(* What the provider reports of a message it took. *)
Reports ==
    LET temporary == {Callback("bounced", "Transient"), Callback("bounced", "Undetermined"),
                      Callback("undelivered", "30003"), Callback("failed", "none"),
                      Callback("opened", "none"), Callback("sent", "none")}
        final == {Callback("bounced", "Permanent"), Callback("undelivered", "30005")}
        withdrawn == {Callback("complained", "none"), Callback("undelivered", "21610")}
    IN  temporary \cup (IF person = "gone" THEN final ELSE {})
                  \cup (IF person = "optedOut" THEN withdrawn ELSE {})

Event(status, hard) == [status |-> status, hard |-> hard]
Untracked == Event("none", FALSE)

ResendEvent(c) ==
    CASE c.kind = "opened" -> Event("opened", FALSE)
      [] c.kind = "bounced" -> Event("bounced", c.code = "Permanent")
      [] c.kind = "complained" -> Event("complained", FALSE)
      [] OTHER -> Untracked

HardBounceCodes == {"21211", "21612", "21614", "30005", "30006"}
TwilioEvent(c) ==
    CASE c.kind \in {"failed", "undelivered"} ->
           IF c.code = "21610" THEN Event("unsubscribed", FALSE)
           ELSE Event("bounced", c.code \in HardBounceCodes)
      [] c.kind = "opened" -> Event("opened", FALSE)
      [] OTHER -> Untracked

WhatsAppEvent(c) ==
    CASE c.kind = "opened" -> Event("opened", FALSE)
      [] c.kind = "failed" -> Event("bounced", FALSE)
      [] OTHER -> Untracked

EventOf(c) ==
    CASE transport = "resend"   -> ResendEvent(c)
      [] transport = "twilio"   -> TwilioEvent(c)
      [] transport = "whatsapp" -> WhatsAppEvent(c)

Suppresses(e) == e.status \in {"unsubscribed", "complained"} \/ (e.status = "bounced" /\ e.hard)

(* A callback that cannot be verified is dropped, whatever it says. *)
ReceiveCallback ==
    /\ AcceptsFirst(transport) /\ copies > 0
    /\ \E c \in Reports, verified \in BOOLEAN :
         suppressed' = (suppressed \/ (verified /\ Suppresses(EventOf(c))))
    /\ UNCHANGED <<transport, person, sound, addressed, text, formatted, lastAnswer, verdict,
                   sends, copies, bodyTaken>>

ProvidersNext == RefuseTask \/ SendAccepted \/ SendRefused \/ ReceiveCallback

ProvidersSpec == ProvidersInit /\ [][ProvidersNext]_providersVars

-----------------------------------------------------------------------------
ProvidersTypeOK ==
    /\ transport \in Transports
    /\ person \in {"reachable", "gone", "optedOut"}
    /\ formatted \in BOOLEAN
    /\ sends \in 0..MaxSends /\ copies \in 0..MaxSends
    /\ verdict \in [success : BOOLEAN, retry : BOOLEAN, invalid : BOOLEAN]

(***************************************************************************)
(* "Delivered" is only said of a message the provider took: Slack answers  *)
(* nearly every error with HTTP 200 (provider-slack/src/index.ts:20-23).   *)
(***************************************************************************)
NoFalseSuccess == verdict.success => copies > 0

(***************************************************************************)
(* No message is given up for a bad moment: while attempts are left, a     *)
(* rate limit, an outage or a lost answer is tried again, also where the   *)
(* provider dresses it as a 400 (provider-whatsapp/src/index.ts:112-114)   *)
(* or as a success (provider-slack/src/index.ts:189-194).  An acceptance   *)
(* that cannot be read is taken for one or tried again, never given up.    *)
(***************************************************************************)
BadMomentIsRetried ==
    ~Unsendable =>
        /\ lastAnswer \in Busy(transport) \cup {Lost} => verdict.retry
        /\ lastAnswer = Garbled => verdict.retry \/ verdict.success

(***************************************************************************)
(* An address is called dead only when it is, or has opted out: a fault of *)
(* ours flags it only under the four codes that do not say whose fault it  *)
(* was (provider-whatsapp/src/index.ts:118-121).                           *)
(***************************************************************************)
SparesTheLiving ==
    verdict.invalid => person # "reachable" \/ lastAnswer.code \in Ambiguous

(***************************************************************************)
(* However often the answer is lost and the send repeated, Resend mails    *)
(* one copy (provider-resend/src/index.ts:89-91).  The other providers     *)
(* have no such key, and may deliver a copy for every lost answer.         *)
(***************************************************************************)
MailedOnce == transport = "resend" => copies <= 1

(***************************************************************************)
(* No plain text is lost to its length: it is cut to what the provider     *)
(* takes, never inside a surrogate pair (provider-twilio/src/index.ts:     *)
(* 327-337).  Markup is not cut anywhere, so that no tag is left open: it  *)
(* arrives whole or is refused (provider-telegram/src/index.ts:69-71).     *)
(***************************************************************************)
CutWhole ==
    /\ lastAnswer = TooLong => formatted
    /\ formatted => bodyTaken \in {<<>>, text}
    /\ Limited => PairsWhole(bodyTaken)

(***************************************************************************)
(* A callback puts an address on the suppression list only when it is gone *)
(* or its owner withdrew: never for a soft bounce, nor for a code nobody   *)
(* has listed (provider-resend/src/index.ts:233-242, twilio :20-25,        *)
(* whatsapp :182-190).                                                     *)
(***************************************************************************)
SuppressedRightly == suppressed => person # "reachable"

\* What an answer is taken for never costs a message that could be sent, nor an
\* address that could be reached.
AnswersJudged ==
    /\ NoFalseSuccess /\ BadMomentIsRetried /\ SparesTheLiving
    /\ MailedOnce /\ CutWhole /\ SuppressedRightly
=============================================================================
