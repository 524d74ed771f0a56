----------------------------- MODULE XapiClient ------------------------------
(***************************************************************************)
(* The calls uefistored makes to XAPI (src/src/xapi.c), request by request *)
(* over a socket that may fail: the pull at start and the notification of  *)
(* a secure boot failure, which log in first and retry the login, and the  *)
(* push, which needs no session but is throttled.                          *)
(*                                                                         *)
(* A request is answered ("ok"), answered with HTTP 200 and a Failure body *)
(* ("failed"), never delivered ("refused"), or delivered while its answer  *)
(* is lost or cannot be parsed ("lost").  Time is counted in half seconds, *)
(* the time a credit takes; time(NULL) counts seconds of a clock that may  *)
(* be set.                                                                 *)
(***************************************************************************)
EXTENDS Integers, FiniteSets

CONSTANTS
    MaxRetries,  \* retries of session_login_retry
    MaxCredit,   \* MAX_CREDIT
    Word,        \* 2^32, the range of the unsigned send_credit
    Faults,      \* what may become of a request instead of "ok"
    Clocks,      \* what the clock may be set to, in half seconds
    Epoch,       \* the clock when the process starts
    MaxFaults, MaxNotify, MaxSets, MaxResets, MaxNow  \* bounds of the model

CreditPerSecond == 2

ASSUME ClientAssumption ==
    /\ {MaxRetries, MaxFaults, MaxNotify, MaxSets, MaxResets, MaxNow, Epoch} \subseteq Nat
    /\ MaxCredit \in Nat \ {0}
    /\ Word \in Nat /\ Word > 2 * MaxCredit
    /\ Faults \subseteq {"failed", "refused", "lost"}
    /\ Clocks \subseteq Nat

VARIABLES
    pc,        \* the next request, "sleep", or "idle" between two calls
    call,      \* the running or last call: "pull", "notify", "set", or "none"
    retries,
    session,   \* session_id, 0 before a login filled it in
    result,    \* what the last call returned
    open,      \* the sessions open at XAPI, external
    granted,   \* how many sessions XAPI has opened, external
    faults, notified, sent, sets, resets,  \* counted for the properties and bounds
    last_time, send_credit,        \* of throttle
    now, clock                     \* time since the start, and the clock

socket == <<pc, call, retries, session, result>>
xapi == <<open, granted>>
counts == <<faults, notified, sent, sets, resets>>
credit == <<last_time, send_credit>>
time == <<now, clock>>
vars == <<socket, xapi, counts, credit, time>>

Seconds(t) == t \div 2

Init == /\ pc = "idle" /\ call = "none" /\ retries = 0 /\ session = 0
        /\ result = "none"
        /\ open = {} /\ granted = 0
        /\ faults = 0 /\ notified = 0 /\ sent = 0 /\ sets = 0 /\ resets = 0
        /\ last_time = 0 /\ send_credit = MaxCredit
        /\ now = 0 /\ clock = Epoch

-----------------------------------------------------------------------------
(***************************************************************************)
(* Requests                                                                *)
(***************************************************************************)
Outcomes == {"ok"} \cup Faults

Count(o) == /\ o # "ok" => faults < MaxFaults
            /\ faults' = IF o = "ok" THEN faults ELSE faults + 1

Return(r) == pc' = "idle" /\ result' = r

\* As if the result of the last retry were not looked at.
LoginFailed_Ignored ==
    IF retries > 0
    THEN pc' = "login" /\ retries' = retries - 1 /\ UNCHANGED result
    ELSE pc' = (IF call = "pull" THEN "get_by_uuid" ELSE "message")
         /\ UNCHANGED <<retries, result>>

\* session_login_retry sleeps and tries again.  A pull without a session is a
\* pull of no variables.
LoginFailed ==
    IF retries > 0
    THEN pc' = "login" /\ retries' = retries - 1 /\ UNCHANGED result
    ELSE Return(IF call = "pull" THEN "empty" ELSE "error") /\ UNCHANGED retries

\* The answer to a login that XAPI has carried out may still be lost.
session_login(o) ==
    /\ pc = "login"
    /\ Count(o)
    /\ IF o \in {"ok", "lost"} THEN granted' = granted + 1 /\ open' = open \cup {granted + 1}
       ELSE UNCHANGED xapi
    /\ \/ /\ o = "ok"
          /\ session' = granted + 1
          /\ pc' = IF call = "pull" THEN "get_by_uuid" ELSE "message"
          /\ UNCHANGED <<retries, result>>
       \/ /\ o # "ok"
          /\ LoginFailed
          /\ UNCHANGED session
    /\ UNCHANGED <<call, notified, sent, sets, resets, credit, time>>

\* A pull that fails after its login returns without logging out.
xapi_vm_get_by_uuid(o) ==
    /\ pc = "get_by_uuid"
    /\ Count(o)
    /\ IF o = "ok" THEN pc' = "get_nvram" /\ UNCHANGED result ELSE Return("empty")
    /\ UNCHANGED <<call, retries, session, xapi, notified, sent, sets, resets, credit, time>>

\* As if a pull that has its variables did not log out.
xapi_get_nvram_NoLogout(o) ==
    /\ pc = "get_nvram"
    /\ Count(o)
    /\ Return(IF o = "ok" THEN "variables" ELSE "empty")
    /\ UNCHANGED <<call, retries, session, xapi, notified, sent, sets, resets, credit, time>>

xapi_get_nvram(o) ==
    /\ pc = "get_nvram"
    /\ Count(o)
    /\ IF o = "ok" THEN pc' = "logout" /\ UNCHANGED result ELSE Return("empty")
    /\ UNCHANGED <<call, retries, session, xapi, notified, sent, sets, resets, credit, time>>

\* The result of the logout is ignored.  What was pulled is decoded next, and
\* a list that cannot be decoded is an error.
session_logout(o, decodes) ==
    /\ pc = "logout"
    /\ Count(o)
    /\ open' = IF o \in {"ok", "lost"} THEN open \ {session} ELSE open
    /\ Return(IF decodes THEN "variables" ELSE "error")
    /\ UNCHANGED <<call, retries, session, granted, notified, sent, sets, resets, credit, time>>

\* Of the answer to message.create only the HTTP status is looked at, and
\* there is no logout.
message_create(o) ==
    /\ pc = "message"
    /\ Count(o)
    /\ Return(IF o \in {"ok", "failed"} THEN "success" ELSE "error")
    /\ UNCHANGED <<call, retries, session, xapi, notified, sent, sets, resets, credit, time>>

\* As for message.create.
send_request(o) ==
    /\ pc = "push"
    /\ Count(o)
    /\ sent' = sent + 1
    /\ Return(IF o \in {"ok", "failed"} THEN "success" ELSE "error")
    /\ UNCHANGED <<call, retries, session, xapi, notified, sets, resets, credit, time>>

-----------------------------------------------------------------------------
(***************************************************************************)
(* Calls                                                                   *)
(***************************************************************************)
\* As if the first attempt were one of the retries.
Login_Counted(c) == /\ pc' = "login"
                    /\ call' = c
                    /\ retries' = MaxRetries - 1
                    /\ session' = 0
                    /\ UNCHANGED <<result, xapi, faults, sent, sets, resets, credit, time>>

\* session_id is a local of each caller.
Login(c) == /\ pc' = "login"
            /\ call' = c
            /\ retries' = MaxRetries
            /\ session' = 0
            /\ UNCHANGED <<result, xapi, faults, sent, sets, resets, credit, time>>

\* Once, when the process starts.
xapi_variables_request == /\ call = "none"
                          /\ Login("pull")
                          /\ UNCHANGED notified

xapi_notify == /\ pc = "idle"
               /\ notified < MaxNotify
               /\ notified' = notified + 1
               /\ Login("notify")

\* As if the credit had no limit.
Earned_Unlimited(c) == c

Earned(c) == IF c > MaxCredit THEN MaxCredit ELSE c

\* The difference is signed and the sum is cut to the width of send_credit.
Spend(c) == IF c > 0 THEN send_credit' = c - 1 /\ pc' = "push"
            ELSE send_credit' = c /\ pc' = "sleep"

throttle ==
    /\ Spend(Earned((send_credit + (Seconds(clock) - last_time) * CreditPerSecond) % Word))
    /\ last_time' = Seconds(clock)

xapi_set ==
    /\ pc = "idle"
    /\ sets < MaxSets
    /\ sets' = sets + 1
    /\ call' = "set"
    /\ throttle
    /\ UNCHANGED <<retries, session, result, xapi, faults, notified, sent, resets, time>>

\* As if the time slept were not taken off.
nanosleep_Paid ==
    /\ pc = "sleep"
    /\ now' = now + 1 /\ clock' = clock + 1
    /\ pc' = "push"
    /\ UNCHANGED <<call, retries, session, result, xapi, counts, credit>>

\* As if the sleep ended when there is a credit, which only throttle earns.
nanosleep_ForCredit ==
    /\ pc = "sleep"
    /\ send_credit > 0
    /\ now' = now + 1 /\ clock' = clock + 1
    /\ last_time' = Seconds(clock')
    /\ pc' = "push"
    /\ UNCHANGED <<call, retries, session, result, xapi, counts, send_credit>>

\* The time slept earns nothing.
nanosleep ==
    /\ pc = "sleep"
    /\ now' = now + 1 /\ clock' = clock + 1
    /\ last_time' = Seconds(clock')
    /\ pc' = "push"
    /\ UNCHANGED <<call, retries, session, result, xapi, counts, send_credit>>

-----------------------------------------------------------------------------
Tick == /\ pc = "idle"
        /\ now < MaxNow
        /\ now' = now + 1 /\ clock' = clock + 1
        /\ UNCHANGED <<socket, xapi, counts, credit>>

SetClock(t) == /\ pc \in {"idle", "sleep"}
               /\ resets < MaxResets
               /\ resets' = resets + 1
               /\ clock' = t
               /\ UNCHANGED <<socket, xapi, faults, notified, sent, sets, credit, now>>

\* What a call does until it returns.
Step == \/ \E o \in Outcomes :
               \/ session_login(o) \/ xapi_vm_get_by_uuid(o) \/ xapi_get_nvram(o)
               \/ \E decodes \in BOOLEAN : session_logout(o, decodes)
               \/ message_create(o) \/ send_request(o)
        \/ nanosleep

Next == \/ Step
        \/ xapi_variables_request \/ xapi_notify \/ xapi_set
        \/ Tick \/ \E t \in Clocks : SetClock(t)

Spec == Init /\ [][Next]_vars /\ WF_vars(Step)

-----------------------------------------------------------------------------
\* The retries, the session and the unsigned credit stay in their ranges.
TypeOK ==
    /\ pc \in {"idle", "login", "get_by_uuid", "get_nvram", "logout", "message",
               "sleep", "push"}
    /\ call \in {"none", "pull", "notify", "set"}
    /\ retries \in 0 .. MaxRetries
    /\ session \in 0 .. granted
    /\ result \in {"none", "empty", "variables", "success", "error"}
    /\ open \subseteq 1 .. granted
    /\ send_credit \in 0 .. MaxCredit
    /\ {last_time, now, clock, faults, notified, sent, sets, resets} \subseteq Nat

\* Every request after a login carries the session that XAPI granted last and
\* still has open, however many logins failed or lost their answer before.
OwnSession ==
    pc \in {"get_by_uuid", "get_nvram", "logout", "message"} =>
        session = granted /\ session \in open

\* A pull comes back without variables for want of a session only after the
\* login and all its retries have failed.
RetriesSuffice ==
    call = "pull" /\ result = "empty" /\ session = 0 => faults > MaxRetries

\* Between two calls the sessions left open at XAPI are at most one for each
\* request that went wrong and one for each notification, which never logs
\* out: a pull that is answered leaves none.
LeaksBounded == pc = "idle" => Cardinality(open) <= faults + notified

\* Pushes go out at a bounded rate: after a first burst of MAX_CREDIT at most
\* three in a second (two that its credit pays for, and one that slept half of
\* it), and one further burst each time the clock is set, forward or back,
\* when the unsigned credit wraps.  Time is in half seconds; each time the
\* clock is set it may lie half a second before its next full second.
RateBound == 2 * sent <= (2 * MaxCredit + 1) * (1 + resets) + 3 * now

\* Every call returns: retries and the sleep of the throttle come to an end.
CallsReturn == pc # "idle" ~> pc = "idle"
=============================================================================
