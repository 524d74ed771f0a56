-------------------------- MODULE XapiClientProofs ---------------------------
(***************************************************************************)
(* Proofs about XapiClient, for any limits, any faults and any clock.      *)
(***************************************************************************)
EXTENDS XapiClient, FiniteSetTheorems, TLAPS

-----------------------------------------------------------------------------
(***************************************************************************)
(* Arithmetic                                                              *)
(***************************************************************************)
\* A half second passes: the clock's second changes every other time.
LEMMA HalfSecond ==
    ASSUME NEW t \in Nat
    PROVE  /\ Seconds(t) \in Nat /\ t % 2 \in 0 .. 1
           /\ Seconds(t + 1) = Seconds(t) + (t % 2)
           /\ (t + 1) % 2 = 1 - (t % 2)
BY DEF Seconds

\* In a product that is below its factor, the other factor is not positive.
LEMMA SmallProduct ==
    ASSUME NEW w \in Nat \ {0}, NEW k \in Int, w * k < w
    PROVE  k <= 0
<1> SUFFICES ASSUME k >= 1 PROVE w * k >= w
  OBVIOUS
<1>1. w * k = w + w * (k - 1)
  OBVIOUS
<1>2. w * (k - 1) >= 0
  OBVIOUS
<1> QED
  BY <1>1, <1>2

\* Quotient and remainder of a word.
LEMMA WordMod ==
    ASSUME NEW w \in Nat \ {0}, NEW x \in Int
    PROVE  /\ x % w \in 0 .. w - 1
           /\ x \div w \in Int
           /\ x = w * (x \div w) + (x % w)
OBVIOUS

\* An unsigned word that two is added to grows by two or wraps to less.
LEMMA AddTwo ==
    ASSUME NEW w \in Nat \ {0}, NEW x \in Int
    PROVE  (x + 2) % w <= (x % w) + 2
<1> DEFINE q == x \div w
           r == x % w
           qq == (x + 2) \div w
           rr == (x + 2) % w
<1>1. q \in Int /\ r \in 0 .. w - 1 /\ x = w * q + r
  BY WordMod
<1>2. qq \in Int /\ rr \in 0 .. w - 1 /\ x + 2 = w * qq + rr
  <2> DEFINE y == x + 2
  <2>1. y \in Int
    OBVIOUS
  <2> HIDE DEF y
  <2>2. /\ y \div w \in Int /\ y % w \in 0 .. w - 1 /\ y = w * (y \div w) + (y % w)
    BY <2>1, WordMod
  <2> QED
    BY <2>2 DEF y
<1> HIDE DEF q, r, qq, rr
<1>3. w * (q - qq) = w * q - w * qq
  BY <1>1, <1>2
<1>4. SUFFICES ASSUME rr > r + 2 PROVE FALSE
  BY <1>1, <1>2 DEF r, rr
<1> DEFINE d == q - qq
<1>5. d \in Int /\ w * d = rr - r - 2
  <2>1. w * q \in Int /\ w * qq \in Int
    BY <1>1, <1>2
  <2> QED
    BY <1>1, <1>2, <1>3, <2>1
<1> HIDE DEF d
<1>6. d <= 0
  BY <1>1, <1>2, <1>5, SmallProduct
<1>7. w * d <= 0
  BY <1>5, <1>6
<1> QED
  BY <1>1, <1>2, <1>4, <1>5, <1>7

\* A number within the word is its own remainder.
LEMMA SmallMod ==
    ASSUME NEW w \in Nat \ {0}, NEW x \in 0 .. w - 1
    PROVE  x % w = x
OBVIOUS

-----------------------------------------------------------------------------
(***************************************************************************)
(* The throttle                                                            *)
(***************************************************************************)
\* The credit that throttle would find now.
Credit == Earned((send_credit + (Seconds(clock) - last_time) * CreditPerSecond) % Word)

Phase == clock % 2

Due == IF pc = "push" THEN 1 ELSE 0

\* What was sent, what is about to be sent, what the credit still allows, and
\* the half second that counts towards the next credit.
Charged == 2 * sent + 2 * Due + 2 * Credit + Phase

Allowed == (2 * MaxCredit + 1) * (1 + resets) + 3 * now

RateType ==
    /\ sent \in Nat /\ resets \in Nat /\ now \in Nat /\ clock \in Nat /\ last_time \in Nat
    /\ send_credit \in 0 .. MaxCredit

RateInv == RateType /\ (pc = "sleep" => send_credit = 0) /\ Charged <= Allowed

\* What the constants are.
LEMMA Limits ==
    /\ MaxCredit \in Nat \ {0} /\ Word \in Nat \ {0} /\ MaxCredit < Word
    /\ Epoch \in Nat /\ Clocks \subseteq Nat
BY ClientAssumption

\* The credit is capped.
LEMMA EarnedRange ==
    ASSUME NEW c \in Nat
    PROVE  Earned(c) \in 0 .. MaxCredit /\ Earned(c) <= c
BY Limits DEF Earned

\* Whatever the clock shows, throttle finds a credit within the cap, even when
\* the unsigned difference of two seconds wraps.
LEMMA CreditRange ==
    ASSUME NEW c \in 0 .. MaxCredit, NEW l \in Nat, NEW t \in Nat
    PROVE  Earned((c + (Seconds(t) - l) * CreditPerSecond) % Word) \in 0 .. MaxCredit
<1>1. Seconds(t) \in Nat
  BY HalfSecond
<1> DEFINE x == c + (Seconds(t) - l) * CreditPerSecond
<1>2. x \in Int
  BY <1>1, Limits DEF CreditPerSecond
<1> HIDE DEF x
<1>3. x % Word \in Nat
  BY <1>2, Limits, WordMod
<1> QED
  BY <1>3, EarnedRange DEF x

\* A credit that was taken stock of in this second is there as it is.
LEMMA FreshCredit ==
    ASSUME NEW c \in 0 .. MaxCredit, NEW t \in Nat
    PROVE  Earned((c + (Seconds(t) - Seconds(t)) * CreditPerSecond) % Word) = c
<1>1. c + (Seconds(t) - Seconds(t)) * CreditPerSecond = c
  BY HalfSecond, Limits DEF CreditPerSecond
<1>2. c % Word = c
  BY Limits, SmallMod
<1> QED
  BY <1>1, <1>2, Limits DEF Earned

\* A half second adds a credit of two when the clock's second changes.
LEMMA TickCredit ==
    ASSUME RateType, clock' = clock + 1, last_time' = last_time, send_credit' = send_credit
    PROVE  Credit' <= Credit + 2 * Phase
<1> DEFINE x == send_credit + (Seconds(clock) - last_time) * CreditPerSecond
           y == send_credit + (Seconds(clock + 1) - last_time) * CreditPerSecond
<1>1. x \in Int /\ y = x + 2 * Phase
  <2>1. /\ Seconds(clock) \in Nat /\ Phase \in 0 .. 1
        /\ Seconds(clock + 1) = Seconds(clock) + Phase
    BY HalfSecond, ZenonT(30) DEF RateType, Phase
  <2> QED
    BY <2>1, Limits DEF RateType, CreditPerSecond
<1>2. Credit = Earned(x % Word) /\ Credit' = Earned(y % Word)
  BY DEF Credit
<1> HIDE DEF x, y
<1>3. x % Word \in Nat
  BY <1>1, Limits, WordMod
<1>4. CASE Phase = 0
  BY <1>1, <1>2, <1>3, <1>4, EarnedRange
<1>5. CASE Phase = 1
  <2>1. y \in Int /\ y = x + 2
    BY <1>1, <1>5
  <2>2. y % Word \in Nat /\ y % Word <= (x % Word) + 2
    <3>1. (x + 2) % Word <= (x % Word) + 2
      BY <1>1, Limits, AddTwo
    <3>2. y % Word \in Nat
      BY <2>1, Limits, WordMod
    <3> QED
      BY <2>1, <3>1, <3>2, Zenon
  <2> QED
    BY <1>2, <1>3, <1>5, <2>2, Limits DEF Earned
<1> QED
  BY <1>4, <1>5, HalfSecond DEF RateType, Phase

\* Setting the clock allows one more burst.
LEMMA AllowedGrows ==
    ASSUME NEW c \in Nat, NEW n \in Nat
    PROVE  /\ (2 * c + 1) * (1 + n) \in Nat
           /\ (2 * c + 1) * (1 + (n + 1)) = (2 * c + 1) * (1 + n) + (2 * c + 1)
<1> DEFINE b == 2 * c + 1
           m == 1 + n
<1>1. b \in Nat /\ m \in Nat
  OBVIOUS
<1> HIDE DEF b, m
<1>2. b * m \in Nat /\ b * (m + 1) = b * m + b
  BY <1>1
<1>3. 1 + (n + 1) = m + 1
  BY DEF m
<1> QED
  BY <1>2, <1>3 DEF b, m

\* The sums of the steps below.
LEMMA SpendSum ==
    ASSUME NEW s \in Nat, NEW p \in Nat, NEW c \in Nat, NEW d \in Nat
    PROVE  2 * s + 2 * d + 2 * c + p = 2 * s + 2 * (c + d) + p
OBVIOUS

\* A half second passes.
LEMMA TickSum ==
    ASSUME NEW s \in Nat, NEW d \in Nat, NEW c \in Nat, NEW cc \in Nat, NEW p \in 0 .. 1,
           NEW b \in Nat, NEW n \in Nat,
           cc <= c + 2 * p, 2 * s + 2 * d + 2 * c + p <= b + 3 * n
    PROVE  2 * s + 2 * d + 2 * cc + (1 - p) <= b + 3 * n + 3
OBVIOUS

\* The clock is set.
LEMMA ClockSum ==
    ASSUME NEW s \in Nat, NEW d \in Nat, NEW c \in Nat, NEW p \in Nat, NEW m \in Nat,
           NEW cc \in 0 .. m, NEW pp \in 0 .. 1, NEW b \in Nat, NEW n \in Nat,
           2 * s + 2 * d + 2 * c + p <= b + 3 * n
    PROVE  2 * s + 2 * d + 2 * cc + pp <= b + (2 * m + 1) + 3 * n
OBVIOUS

\* The first burst is the full credit.
LEMMA RateInit == Init => RateInv
<1> SUFFICES ASSUME Init PROVE RateInv
  OBVIOUS
<1>1. RateType
  BY Limits DEF Init, RateType
<1>2. Credit \in 0 .. MaxCredit /\ Phase \in 0 .. 1
  BY <1>1, CreditRange, HalfSecond, ZenonT(30) DEF RateType, Credit, Phase
<1>3. Charged <= 2 * MaxCredit + 1
  BY <1>1, <1>2, Limits DEF Init, RateType, Charged, Due
<1>4. Allowed = 2 * MaxCredit + 1
  BY Limits DEF Init, Allowed
<1>5. pc # "sleep"
  BY DEF Init
<1> QED
  BY <1>1, <1>3, <1>4, <1>5 DEF RateInv

\* Every step keeps what was sent within what is allowed.
LEMMA RateStep == RateInv /\ [Next]_vars => RateInv'
<1> SUFFICES ASSUME RateInv, [Next]_vars PROVE RateInv'
  OBVIOUS
<1> DEFINE burst == (2 * MaxCredit + 1) * (1 + resets)
<1>1. /\ RateType /\ Credit \in 0 .. MaxCredit /\ Phase \in 0 .. 1
      /\ burst \in Nat /\ Due \in 0 .. 1 /\ MaxCredit \in Nat
      /\ 2 * sent + 2 * Due + 2 * Credit + Phase <= burst + 3 * now
  <2>1. RateType /\ Charged <= Allowed
    BY DEF RateInv
  <2>2. Credit \in 0 .. MaxCredit
    BY <2>1, CreditRange, ZenonT(30) DEF RateType, Credit
  <2>3. Phase \in 0 .. 1
    BY <2>1, HalfSecond DEF RateType, Phase
  <2>4. burst \in Nat /\ MaxCredit \in Nat
    BY <2>1, AllowedGrows, Limits DEF RateType
  <2>5. Due \in 0 .. 1
    BY DEF Due
  <2> QED
    BY <2>1, <2>2, <2>3, <2>4, <2>5 DEF Charged, Allowed
<1> HIDE DEF burst
\* The requests of a session leave the throttle alone.
<1>2. ASSUME UNCHANGED <<credit, time, sent, resets>>, pc' \notin {"push", "sleep"}
      PROVE  RateInv'
  <2>1. Credit' = Credit /\ Due' = 0 /\ burst' = burst /\ Phase' = Phase
    BY <1>2 DEF credit, time, Credit, Due, burst, Phase
  <2>2. RateType' /\ clock' = clock /\ sent' = sent /\ now' = now
    BY <1>1, <1>2 DEF RateType, credit, time
  <2>3. 2 * sent + 2 * Credit + Phase <= burst + 3 * now
    BY <1>1 DEF RateType
  <2>4. Charged' <= Allowed'
    <3>1. Charged' = 2 * sent + 2 * Credit + Phase
      BY <1>1, <2>1, <2>2 DEF Charged, RateType
    <3>2. Allowed' = burst + 3 * now
      BY <2>1, <2>2 DEF Allowed, burst
    <3> QED
      BY <2>3, <3>1, <3>2
  <2> QED
    BY <1>2, <2>2, <2>4 DEF RateInv
<1>3. ASSUME NEW o \in Outcomes, session_login(o) PROVE RateInv'
  <2>1. pc' \notin {"push", "sleep"}
    BY <1>3 DEF session_login, LoginFailed, Return
  <2> QED
    BY <1>2, <1>3, <2>1 DEF session_login
<1>4. ASSUME NEW o \in Outcomes,
             \/ xapi_vm_get_by_uuid(o) \/ xapi_get_nvram(o) \/ message_create(o)
             \/ \E decodes \in BOOLEAN : session_logout(o, decodes)
      PROVE  RateInv'
  <2>1. pc' \notin {"push", "sleep"}
    BY <1>4 DEF xapi_vm_get_by_uuid, xapi_get_nvram, message_create, session_logout, Return
  <2> QED
    BY <1>2, <1>4, <2>1
       DEF xapi_vm_get_by_uuid, xapi_get_nvram, message_create, session_logout
<1>5. CASE xapi_variables_request \/ xapi_notify
  <2>1. pc' \notin {"push", "sleep"}
    BY <1>5 DEF xapi_variables_request, xapi_notify, Login
  <2> QED
    BY <1>2, <1>5, <2>1 DEF xapi_variables_request, xapi_notify, Login
<1>6. ASSUME NEW o \in Outcomes, send_request(o) PROVE RateInv'
  <2>1. /\ Due = 1 /\ Due' = 0 /\ sent' = sent + 1 /\ clock' = clock /\ now' = now
        /\ Credit' = Credit /\ burst' = burst /\ Phase' = Phase /\ pc' = "idle"
    BY <1>6 DEF send_request, Return, Due, credit, time, Credit, burst, Phase
  <2>2. RateType'
    BY <1>1, <1>6 DEF send_request, credit, time, RateType
  <2>3. Charged' = 2 * sent + 2 * Due + 2 * Credit + Phase
    BY <1>1, <2>1 DEF Charged, RateType
  <2>4. Allowed' = burst + 3 * now
    BY <2>1 DEF Allowed, burst
  <2> QED
    BY <1>1, <2>1, <2>2, <2>3, <2>4 DEF RateInv
<1>7. CASE xapi_set
  <2>1. /\ UNCHANGED <<sent, resets, now, clock>> /\ last_time' = Seconds(clock) /\ pc = "idle"
        /\ Spend(Credit)
    BY <1>7 DEF xapi_set, throttle, time, Credit
  <2>2. /\ send_credit' \in 0 .. MaxCredit
        /\ send_credit' + Due' = Credit
        /\ pc' = "sleep" => send_credit' = 0
    BY <1>1, <2>1 DEF Spend, Due
  <2>3. RateType'
    BY <1>1, <2>1, <2>2, HalfSecond DEF RateType
  <2>4. Credit' = send_credit'
    BY <1>1, <2>1, <2>2, FreshCredit DEF Credit, RateType
  <2>5. Due = 0 /\ Due' \in 0 .. 1 /\ Phase' = Phase
    BY <2>1 DEF Due, Phase
  <2>6. Charged' = 2 * sent + 2 * Credit + Phase
    <3> DEFINE cc == send_credit'
               dd == Due'
    <3>1. sent \in Nat /\ Phase \in Nat
      BY <1>1 DEF RateType
    <3>2. cc \in Nat /\ dd \in Nat
      BY <1>1, <2>2, <2>5
    <3>3. cc + dd = Credit
      BY <2>2
    <3> HIDE DEF cc, dd
    <3>4. 2 * sent + 2 * dd + 2 * cc + Phase = 2 * sent + 2 * Credit + Phase
      BY <3>1, <3>2, <3>3, SpendSum
    <3> QED
      BY <2>1, <2>4, <2>5, <3>4 DEF Charged, cc, dd
  <2>7. Allowed' = burst + 3 * now
    BY <2>1 DEF Allowed, burst
  <2> QED
    BY <1>1, <2>2, <2>3, <2>5, <2>6, <2>7 DEF RateInv, RateType
<1>8. CASE nanosleep
  <2>1. /\ UNCHANGED <<sent, resets, send_credit>> /\ now' = now + 1 /\ clock' = clock + 1
        /\ last_time' = Seconds(clock') /\ pc' = "push" /\ pc = "sleep" /\ send_credit = 0
    BY <1>8 DEF nanosleep, counts, RateInv
  <2>2. /\ clock' \in Nat /\ Phase' = 1 - Phase /\ Seconds(clock') \in Nat
    BY <1>1, <2>1, HalfSecond DEF RateType, Phase
  <2>3. RateType'
    BY <1>1, <2>1, <2>2 DEF RateType
  <2>4. Credit' = 0
    BY <1>1, <2>1, <2>2, FreshCredit DEF Credit
  <2>5. Due = 0 /\ Due' = 1
    BY <2>1 DEF Due
  <2>6. Charged' = 2 * sent + 2 + (1 - Phase)
    BY <1>1, <2>1, <2>2, <2>4, <2>5 DEF Charged, RateType
  <2>7. Allowed' = burst + 3 * now + 3
    BY <1>1, <2>1 DEF Allowed, burst, RateType
  <2> QED
    BY <1>1, <2>1, <2>3, <2>5, <2>6, <2>7 DEF RateInv, RateType
<1>9. CASE Tick
  <2>1. /\ UNCHANGED <<sent, resets, send_credit, last_time, pc>>
        /\ now' = now + 1 /\ clock' = clock + 1
    BY <1>9 DEF Tick, counts, credit, socket
  <2>2. /\ clock' \in Nat /\ Phase' = 1 - Phase
    BY <1>1, <2>1, HalfSecond DEF RateType, Phase
  <2>3. RateType'
    BY <1>1, <2>1, <2>2 DEF RateType
  <2>4. Credit' \in 0 .. MaxCredit /\ Credit' <= Credit + 2 * Phase
    <3>1. Credit' \in 0 .. MaxCredit
      BY <2>3, CreditRange DEF RateType, Credit
    <3> QED
      BY <1>1, <2>1, <3>1, TickCredit
  <2>5. Due' = Due
    BY <2>1 DEF Due
  <2>6. Charged' = 2 * sent + 2 * Due + 2 * Credit' + (1 - Phase)
    BY <1>1, <2>1, <2>2, <2>5 DEF Charged
  <2>7. Allowed' = burst + 3 * now + 3
    BY <1>1, <2>1 DEF Allowed, burst, RateType
  <2>8. Charged' <= Allowed'
    <3> DEFINE cc == Credit'
    <3>1. /\ sent \in Nat /\ Due \in Nat /\ Credit \in Nat /\ now \in Nat
          /\ cc \in Nat /\ cc <= Credit + 2 * Phase
      BY <1>1, <2>4 DEF RateType
    <3> HIDE DEF cc
    <3>2. 2 * sent + 2 * Due + 2 * cc + (1 - Phase) <= burst + 3 * now + 3
      BY <1>1, <3>1, TickSum
    <3> QED
      BY <2>6, <2>7, <3>2 DEF cc
  <2> QED
    BY <2>1, <2>3, <2>8 DEF RateInv
<1>10. ASSUME NEW t \in Clocks, SetClock(t) PROVE RateInv'
  <2>1. /\ UNCHANGED <<sent, now, send_credit, last_time, pc>>
        /\ resets' = resets + 1 /\ clock' = t /\ t \in Nat
    BY <1>10, Limits DEF SetClock, credit, socket
  <2>2. RateType'
    BY <1>1, <2>1 DEF RateType
  <2>3. Credit' \in 0 .. MaxCredit /\ Phase' \in 0 .. 1
    <3>1. Credit' \in 0 .. MaxCredit
      BY <2>2, CreditRange DEF RateType, Credit
    <3> QED
      BY <2>1, <3>1, HalfSecond DEF Phase
  <2>4. Due' = Due
    BY <2>1 DEF Due
  <2>5. Charged' = 2 * sent + 2 * Due + 2 * Credit' + Phase'
    BY <2>1, <2>4 DEF Charged
  <2>6. Allowed' = burst + (2 * MaxCredit + 1) + 3 * now
    BY <1>1, <2>1, AllowedGrows DEF Allowed, burst, RateType
  <2>7. Charged' <= Allowed'
    <3> DEFINE cc == Credit'
               pp == Phase'
    <3>1. /\ sent \in Nat /\ Due \in Nat /\ Credit \in Nat /\ Phase \in Nat /\ now \in Nat
          /\ cc \in 0 .. MaxCredit /\ pp \in 0 .. 1
      BY <1>1, <2>3 DEF RateType
    <3> HIDE DEF cc, pp
    <3>2. 2 * sent + 2 * Due + 2 * cc + pp <= burst + (2 * MaxCredit + 1) + 3 * now
      BY <1>1, <3>1, ClockSum
    <3> QED
      BY <2>5, <2>6, <3>2 DEF cc, pp
  <2> QED
    BY <2>1, <2>2, <2>7 DEF RateInv
<1>11. CASE UNCHANGED vars
  BY <1>11 DEF vars, socket, counts, credit, time, RateInv, RateType, Charged, Allowed, Credit, Due, Phase
<1> QED
  BY <1>3, <1>4, <1>5, <1>6, <1>7, <1>8, <1>9, <1>10, <1>11 DEF Next, Step

\* The throttle of xapi.c bounds the pushes for any MAX_CREDIT and any clock:
\* a burst of MAX_CREDIT at the start and each time the clock is set, and
\* three pushes a second in the long run.
THEOREM RateStaysBounded == Spec => []RateBound
<1>1. RateInv => RateBound
  <2> SUFFICES ASSUME RateInv PROVE RateBound
    OBVIOUS
  <2>1. Credit \in Nat
    BY CreditRange, Limits DEF RateInv, RateType, Credit
  <2>2. Due \in Nat /\ Phase \in Nat /\ sent \in Nat
    BY HalfSecond DEF RateInv, RateType, Phase, Due
  <2>3. (2 * MaxCredit + 1) * (1 + resets) \in Nat /\ 3 * now \in Nat
    BY AllowedGrows, Limits DEF RateInv, RateType
  <2> QED
    BY <2>1, <2>2, <2>3 DEF RateInv, RateBound, Charged, Allowed
<1> QED
  BY <1>1, RateInit, RateStep, PTL DEF Spec

-----------------------------------------------------------------------------
(***************************************************************************)
(* The sessions                                                            *)
(***************************************************************************)
\* The sessions that may be open: one for each request that went wrong, one
\* for each notification once it has logged in, and that of a pull.
Leaks == faults + notified
             + (IF pc = "login" /\ call = "notify" THEN -1 ELSE 0)
             + (IF pc \in {"get_by_uuid", "get_nvram", "logout"} THEN 1 ELSE 0)

ClientType ==
    /\ call \in {"none", "pull", "notify", "set"}
    /\ retries \in 0 .. MaxRetries
    /\ granted \in Nat /\ faults \in Nat /\ notified \in Nat
    /\ open \subseteq 1 .. granted /\ IsFiniteSet(open)

ClientInv ==
    /\ ClientType
    /\ pc = "login" => call \in {"pull", "notify"}
    /\ pc \in {"get_by_uuid", "get_nvram", "logout"} => call = "pull"
    /\ pc = "message" => call = "notify"
    /\ pc \in {"push", "sleep"} => call = "set"
    /\ call = "none" => (pc = "idle" /\ result = "none")
    /\ (pc = "login" /\ call = "pull") => (session = 0 /\ faults + retries >= MaxRetries)
    /\ (pc # "idle" /\ call = "pull") => result = "none"
    /\ OwnSession
    /\ RetriesSuffice
    /\ Cardinality(open) <= Leaks

\* No session is open at the start.
LEMMA ClientInit == Init => ClientInv
<1> SUFFICES ASSUME Init PROVE ClientInv
  OBVIOUS
<1>1. Cardinality({}) = 0 /\ IsFiniteSet({})
  BY FS_EmptySet
<1>2. ClientType
  BY <1>1, ClientAssumption DEF Init, ClientType
<1>3. Leaks = 0
  BY DEF Init, Leaks
<1> QED
  BY <1>1, <1>2, <1>3 DEF Init, ClientInv, OwnSession, RetriesSuffice

\* XAPI opens a session nobody has, and closes one that is open.
LEMMA OpenSession ==
    ASSUME ClientType
    PROVE  /\ IsFiniteSet(open \cup {granted + 1})
           /\ Cardinality(open \cup {granted + 1}) = Cardinality(open) + 1
           /\ open \cup {granted + 1} \subseteq 1 .. granted + 1
<1>1. granted + 1 \notin open
  BY DEF ClientType
<1> QED
  BY <1>1, FS_AddElement DEF ClientType

\* A logout closes one session.
LEMMA CloseSession ==
    ASSUME ClientType, session \in open
    PROVE  /\ IsFiniteSet(open \ {session})
           /\ Cardinality(open \ {session}) = Cardinality(open) - 1
           /\ open \ {session} \subseteq 1 .. granted
BY FS_RemoveElement DEF ClientType

\* Every step keeps the invariant of the sessions and retries.
LEMMA ClientStep == ClientInv /\ [Next]_vars => ClientInv'
<1> SUFFICES ASSUME ClientInv, [Next]_vars PROVE ClientInv'
  OBVIOUS
<1>1. /\ ClientType /\ OwnSession /\ RetriesSuffice /\ Cardinality(open) <= Leaks
      /\ Cardinality(open) \in Nat
      /\ MaxRetries \in Nat /\ Leaks \in Int
  <2>1. ClientType /\ OwnSession /\ RetriesSuffice /\ Cardinality(open) <= Leaks
    BY DEF ClientInv
  <2>2. Cardinality(open) \in Nat
    BY <2>1, FS_CardinalityType DEF ClientType
  <2>3. MaxRetries \in Nat /\ Leaks \in Int
    BY <2>1, ClientAssumption DEF ClientType, Leaks
  <2> QED
    BY <2>1, <2>2, <2>3
<1>2. ASSUME NEW o \in Outcomes, Count(o)
      PROVE  /\ faults' \in Nat /\ faults' >= faults
             /\ o # "ok" => faults' = faults + 1
             /\ o = "ok" => faults' = faults
  BY <1>1, <1>2 DEF Count, ClientType
<1>3. ASSUME NEW o \in Outcomes, session_login(o) PROVE ClientInv'
  <2> USE DEF session_login, LoginFailed, Return, xapi
  <2>1. /\ pc = "login" /\ call' = call /\ notified' = notified /\ call \in {"pull", "notify"}
        /\ faults' \in Nat /\ faults' >= faults
        /\ o # "ok" => faults' = faults + 1
        /\ o = "ok" => faults' = faults
    BY <1>2, <1>3 DEF ClientInv
  <2>2. /\ granted' \in Nat /\ open' \subseteq 1 .. granted' /\ IsFiniteSet(open')
        /\ o \in {"ok", "lost"} => Cardinality(open') = Cardinality(open) + 1
        /\ o \notin {"ok", "lost"} => Cardinality(open') = Cardinality(open)
    <3>1. CASE o \in {"ok", "lost"}
      <4>1. granted' = granted + 1 /\ open' = open \cup {granted + 1}
        BY <1>3, <3>1
      <4> QED
        BY <1>1, <3>1, <4>1, OpenSession DEF ClientType
    <3>2. CASE o \notin {"ok", "lost"}
      BY <1>1, <1>3, <3>2, ZenonT(30) DEF ClientType
    <3> QED
      BY <3>1, <3>2
  <2>3. retries' \in 0 .. MaxRetries
    BY <1>1, <1>3 DEF ClientType
  <2>4. ClientType'
    BY <1>1, <2>1, <2>2, <2>3 DEF ClientType
  <2>5. CASE o = "ok"
    <3>1. /\ pc' = (IF call = "pull" THEN "get_by_uuid" ELSE "message")
          /\ result' = result /\ session' = granted + 1 /\ granted' = granted + 1
          /\ open' = open \cup {granted + 1}
      BY <1>3, <2>5
    <3>2. Leaks' = Leaks + 1
      BY <1>1, <2>1, <2>5, <3>1, SMTT(30) DEF Leaks, ClientType
    <3>3. OwnSession' /\ RetriesSuffice'
      BY <1>1, <2>1, <3>1 DEF OwnSession, RetriesSuffice, ClientInv, ClientType
    <3>4. Cardinality(open') <= Leaks'
      BY <1>1, <2>1, <2>2, <2>5, <3>2 DEF Leaks, ClientType
    <3> QED
      BY <2>1, <2>4, <3>1, <3>3, <3>4 DEF ClientInv
  <2>6. CASE o # "ok" /\ retries > 0
    <3>1. pc' = "login" /\ retries' = retries - 1 /\ UNCHANGED <<result, session>>
      BY <1>3, <2>6
    <3>2. Leaks' = Leaks + 1
      BY <1>1, <2>1, <2>6, <3>1 DEF Leaks, ClientType
    <3>3. OwnSession' /\ RetriesSuffice'
      BY <1>1, <2>1, <3>1 DEF OwnSession, RetriesSuffice, ClientInv
    <3>4. Cardinality(open') <= Leaks'
      BY <1>1, <2>2, <3>2
    <3>5. call = "pull" => (session' = 0 /\ faults' + retries' >= MaxRetries)
      BY <1>1, <2>1, <2>6, <3>1 DEF ClientInv, ClientType
    <3> QED
      BY <2>1, <2>4, <3>1, <3>3, <3>4, <3>5 DEF ClientInv
  <2>7. CASE o # "ok" /\ ~(retries > 0)
    <3>1. /\ pc' = "idle" /\ session' = session
          /\ result' = IF call = "pull" THEN "empty" ELSE "error"
      BY <1>3, <2>7
    <3>2. Leaks' >= Leaks + 1 /\ Leaks' \in Int
      BY <1>1, <2>1, <2>7, <3>1 DEF Leaks, ClientType
    <3>3. call = "pull" => faults' > MaxRetries
      BY <1>1, <2>1, <2>7 DEF ClientInv, ClientType
    <3>4. OwnSession' /\ RetriesSuffice'
      BY <2>1, <3>1, <3>3 DEF OwnSession, RetriesSuffice
    <3>5. Cardinality(open') <= Leaks'
      BY <1>1, <2>2, <3>2
    <3> QED
      BY <2>1, <2>4, <3>1, <3>4, <3>5 DEF ClientInv
  <2> QED
    BY <2>5, <2>6, <2>7
\* A pull that has its session goes on, or ends with a fault.
<1>4. ASSUME NEW o \in Outcomes, xapi_vm_get_by_uuid(o) \/ xapi_get_nvram(o) PROVE ClientInv'
  <2>1. /\ pc \in {"get_by_uuid", "get_nvram"}
        /\ UNCHANGED <<call, retries, session, open, granted, notified>>
        /\ o = "ok" => pc' \in {"get_nvram", "logout"} /\ result' = result
        /\ o # "ok" => pc' = "idle" /\ result' = "empty"
    BY <1>4 DEF xapi_vm_get_by_uuid, xapi_get_nvram, Return, xapi
  <2>2. /\ faults' \in Nat /\ faults' >= faults
        /\ o # "ok" => faults' = faults + 1
        /\ o = "ok" => faults' = faults
    BY <1>2, <1>4 DEF xapi_vm_get_by_uuid, xapi_get_nvram
  <2>3. ClientType'
    BY <1>1, <2>1, <2>2 DEF ClientType
  <2>4. Leaks' = Leaks
    <3>1. CASE o = "ok"
      BY <1>1, <2>1, <2>2, <3>1 DEF Leaks, ClientType
    <3>2. CASE o # "ok"
      BY <1>1, <2>1, <2>2, <3>2 DEF Leaks, ClientType
    <3> QED
      BY <3>1, <3>2
  <2>5. session # 0 /\ call = "pull" /\ OwnSession'
    BY <1>1, <2>1 DEF OwnSession, ClientType, ClientInv
  <2> QED
    BY <1>1, <2>1, <2>3, <2>4, <2>5 DEF ClientInv, RetriesSuffice
<1>5. ASSUME NEW o \in Outcomes, NEW decodes \in BOOLEAN, session_logout(o, decodes)
      PROVE  ClientInv'
  <2>1. /\ pc = "logout" /\ pc' = "idle" /\ result' \in {"variables", "error"}
        /\ UNCHANGED <<call, retries, session, granted, notified>>
        /\ open' = (IF o \in {"ok", "lost"} THEN open \ {session} ELSE open)
    BY <1>5 DEF session_logout, Return
  <2>2. /\ faults' \in Nat /\ faults' >= faults
        /\ o # "ok" => faults' = faults + 1
        /\ o = "ok" => faults' = faults
    BY <1>2, <1>5 DEF session_logout
  <2>3. session \in open
    BY <1>1, <2>1 DEF OwnSession
  <2>4. ClientType'
    BY <1>1, <2>1, <2>2, <2>3, CloseSession DEF ClientType
  <2>5. /\ o \in {"ok", "lost"} => Cardinality(open') = Cardinality(open) - 1
        /\ o \notin {"ok", "lost"} => Cardinality(open') = Cardinality(open)
    BY <1>1, <2>1, <2>3, CloseSession
  <2>6. Leaks' = Leaks - 1 + (faults' - faults)
    BY <1>1, <2>1, <2>2 DEF Leaks, ClientType
  <2>7. Cardinality(open') <= Leaks'
    BY <1>1, <2>2, <2>5, <2>6 DEF ClientType
  <2> QED
    BY <2>1, <2>4, <2>7 DEF ClientInv, OwnSession, RetriesSuffice
<1>6. ASSUME NEW o \in Outcomes, message_create(o) \/ send_request(o) PROVE ClientInv'
  <2>1. /\ pc \in {"message", "push"} /\ pc' = "idle" /\ result' \in {"success", "error"}
        /\ UNCHANGED <<call, retries, session, open, granted, notified>>
    BY <1>6 DEF message_create, send_request, Return, xapi
  <2>2. faults' \in Nat /\ faults' >= faults
    BY <1>2, <1>6 DEF message_create, send_request
  <2>3. ClientType'
    BY <1>1, <2>1, <2>2 DEF ClientType
  <2>4. Leaks' >= Leaks /\ Leaks' \in Int
    <3>1. Leaks = faults + notified /\ Leaks' = faults' + notified
      BY <1>1, <2>1, <2>2 DEF Leaks, ClientType
    <3>2. faults \in Nat /\ notified \in Nat
      BY <1>1 DEF ClientType
    <3> DEFINE f == faults'
    <3>3. f \in Nat /\ f >= faults
      BY <2>2
    <3> HIDE DEF f
    <3>4. f + notified >= faults + notified /\ f + notified \in Int
      BY <3>2, <3>3
    <3> QED
      BY <3>1, <3>4 DEF f
  <2>5. Cardinality(open') <= Leaks'
    BY <1>1, <2>1, <2>4
  <2> QED
    BY <2>1, <2>3, <2>5 DEF ClientInv, OwnSession, RetriesSuffice
<1>7. CASE xapi_variables_request \/ xapi_notify
  <2>1. /\ pc = "idle" /\ pc' = "login" /\ retries' = MaxRetries /\ session' = 0
        /\ UNCHANGED <<result, open, granted, faults>>
        /\ \/ call = "none" /\ call' = "pull" /\ notified' = notified
           \/ call' = "notify" /\ notified' = notified + 1
    BY <1>7, SMTT(30) DEF xapi_variables_request, xapi_notify, Login, xapi, ClientInv
  <2>2. ClientType'
    BY <1>1, <2>1 DEF ClientType
  <2>3. Leaks' = Leaks
    BY <1>1, <2>1 DEF Leaks, ClientType
  <2>4. call' = "pull" => result' = "none"
    BY <2>1 DEF ClientInv
  <2>5. faults' + retries' >= MaxRetries
    BY <1>1, <2>1 DEF ClientType
  <2> QED
    BY <1>1, <2>1, <2>2, <2>3, <2>4, <2>5, SMTT(30) DEF ClientInv, OwnSession, RetriesSuffice
<1>8. CASE xapi_set
  <2>1. /\ pc = "idle" /\ pc' \in {"push", "sleep"} /\ call' = "set"
        /\ UNCHANGED <<retries, session, result, open, granted, faults, notified>>
    BY <1>8 DEF xapi_set, throttle, Spend, xapi
  <2>2. ClientType' /\ Leaks' = Leaks
    BY <1>1, <2>1 DEF ClientType, Leaks
  <2> QED
    BY <1>1, <2>1, <2>2 DEF ClientInv, OwnSession, RetriesSuffice
<1>9. CASE nanosleep
  <2>1. /\ pc = "sleep" /\ pc' = "push"
        /\ UNCHANGED <<call, retries, session, result, open, granted, faults, notified>>
    BY <1>9 DEF nanosleep, xapi, counts
  <2>2. ClientType' /\ Leaks' = Leaks
    BY <1>1, <2>1 DEF ClientType, Leaks
  <2> QED
    BY <1>1, <2>1, <2>2 DEF ClientInv, OwnSession, RetriesSuffice
<1>10. CASE Tick \/ (\E t \in Clocks : SetClock(t)) \/ UNCHANGED vars
  <2>1. UNCHANGED <<pc, call, retries, session, result, open, granted, faults, notified>>
    BY <1>10 DEF Tick, SetClock, vars, socket, xapi, counts
  <2> QED
    BY <2>1, SMTT(30) DEF ClientInv, ClientType, Leaks, OwnSession, RetriesSuffice
<1> QED
  BY <1>3, <1>4, <1>5, <1>6, <1>7, <1>8, <1>9, <1>10 DEF Next, Step

\* Every request of xapi.c after a login carries the session XAPI granted last
\* and has not closed, for any number of retries and any faults.
THEOREM SessionIsOwn == Spec => []OwnSession
<1>1. ClientInv => OwnSession
  BY DEF ClientInv
<1> QED
  BY <1>1, ClientInit, ClientStep, PTL DEF Spec

\* A pull gives up its login only after the first attempt and all the retries
\* of session_login_retry have failed, for any number of retries.
THEOREM AllRetriesTried == Spec => []RetriesSuffice
<1>1. ClientInv => RetriesSuffice
  BY DEF ClientInv
<1> QED
  BY <1>1, ClientInit, ClientStep, PTL DEF Spec

\* Between two calls, XAPI holds at most one session for each request that
\* went wrong and for each notification, however long the daemon runs.
THEOREM LeaksStayBounded == Spec => []LeaksBounded
<1>1. ClientInv => LeaksBounded
  <2> SUFFICES ASSUME ClientInv, pc = "idle" PROVE Cardinality(open) <= faults + notified
    BY DEF LeaksBounded
  <2>1. Leaks = faults + notified
    BY DEF Leaks, ClientInv, ClientType
  <2> QED
    BY <2>1 DEF ClientInv
<1> QED
  BY <1>1, ClientInit, ClientStep, PTL DEF Spec

-----------------------------------------------------------------------------
(***************************************************************************)
(* The types                                                               *)
(***************************************************************************)
\* What the other two invariants leave open.
TypeInv ==
    /\ pc \in {"idle", "login", "get_by_uuid", "get_nvram", "logout", "message",
               "sleep", "push"}
    /\ granted \in Nat /\ session \in 0 .. granted /\ sets \in Nat
    /\ result \in {"none", "empty", "variables", "success", "error"}

\* Every step keeps it.
LEMMA TypeStep == TypeInv /\ [Next]_vars => TypeInv'
<1> SUFFICES ASSUME TypeInv, [Next]_vars PROVE TypeInv'
  OBVIOUS
<1> USE DEF TypeInv, socket, xapi, counts
<1>1. ASSUME NEW o \in Outcomes, session_login(o) PROVE TypeInv'
  <2>1. granted' \in {granted, granted + 1} /\ sets' = sets
    BY <1>1 DEF session_login
  <2>2. CASE o = "ok"
    BY <1>1, <2>1, <2>2 DEF session_login
  <2>3. CASE o # "ok"
    BY <1>1, <2>1, <2>3 DEF session_login, LoginFailed, Return
  <2> QED
    BY <2>2, <2>3
<1>2. ASSUME NEW o \in Outcomes, xapi_vm_get_by_uuid(o) PROVE TypeInv'
  BY <1>2 DEF xapi_vm_get_by_uuid, Return
<1>3. ASSUME NEW o \in Outcomes, xapi_get_nvram(o) PROVE TypeInv'
  BY <1>3 DEF xapi_get_nvram, Return
<1>4. ASSUME NEW o \in Outcomes, NEW decodes \in BOOLEAN, session_logout(o, decodes)
      PROVE  TypeInv'
  BY <1>4 DEF session_logout, Return
<1>5. ASSUME NEW o \in Outcomes, message_create(o) PROVE TypeInv'
  BY <1>5 DEF message_create, Return
<1>6. ASSUME NEW o \in Outcomes, send_request(o) PROVE TypeInv'
  BY <1>6 DEF send_request, Return
<1>7. CASE nanosleep
  BY <1>7 DEF nanosleep
<1>8. CASE xapi_variables_request \/ xapi_notify
  BY <1>8 DEF xapi_variables_request, xapi_notify, Login
<1>9. CASE xapi_set
  <2>1. pc' \in {"push", "sleep"}
    BY <1>9 DEF xapi_set, throttle, Spend
  <2> QED
    BY <1>9, <2>1 DEF xapi_set
<1>10. CASE Tick \/ \E t \in Clocks : SetClock(t)
  BY <1>10 DEF Tick, SetClock
<1>11. CASE UNCHANGED vars
  BY <1>11 DEF vars
<1> QED
  BY <1>1, <1>2, <1>3, <1>4, <1>5, <1>6, <1>7, <1>8, <1>9, <1>10, <1>11 DEF Next, Step

\* The retries, the session and the unsigned credit of xapi.c stay in their
\* ranges, whatever the clock does to the sum of throttle.
THEOREM ClientTypes == Spec => []TypeOK
<1>1. Init => TypeInv
  BY DEF Init, TypeInv
<1>2. RateInv /\ ClientInv /\ TypeInv => TypeOK
  BY DEF RateInv, RateType, ClientInv, ClientType, TypeInv, TypeOK
<1> QED
  BY <1>1, <1>2, RateInit, RateStep, ClientInit, ClientStep, TypeStep, PTL DEF Spec
=============================================================================
