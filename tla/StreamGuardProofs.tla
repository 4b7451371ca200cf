------------------------- MODULE StreamGuardProofs -------------------------
(***************************************************************************)
(* What the circuit breaker guarantees for every threshold, every probe    *)
(* limit and every set of requests.  The three invariants are inductive    *)
(* together: FailuresMatchState says that an outcome which finds the       *)
(* breaker OPEN leaves it OPEN or CLOSED, so an outcome never leaves it    *)
(* HALF_OPEN, and that is why `holders' may be emptied at each outcome and *)
(* why no decrement of the probe count ever makes room inside an episode.  *)
(*                                                                         *)
(* The second half is about the token buckets in front of the breaker, for *)
(* every capacity and every price.                                         *)
(***************************************************************************)
EXTENDS StreamGuard, RateLimiter, FiniteSetTheorems, TLAPS

GuardInv == TypeOK /\ FailuresMatchState /\ ProbeBudget

USE BreakerAssumption, GuardAssumption DEF BreakerAssumption, GuardAssumption

\* holders is a finite set in every state of the right type.
LEMMA HoldersFinite == TypeOK => IsFiniteSet(holders)
BY FS_Subset DEF TypeOK

\* The initial state satisfies the inductive invariant.
LEMMA GuardInit == Init => GuardInv
<1> SUFFICES ASSUME Init
             PROVE  GuardInv
  OBVIOUS
<1>1. TypeOK
  <2>1. cooled \in BOOLEAN /\ healthy \in BOOLEAN
    BY DEF Init, BreakerInit
  <2>2. failures \in 0 .. FailureThreshold /\ probes \in Nat /\ aborts \in 0 .. MaxAborts
    BY DEF Init, BreakerInit
  <2>3. QED
    BY <2>1, <2>2 DEF Init, BreakerInit, TypeOK, BreakerTypeOK
<1>2. FailuresMatchState
  BY DEF Init, BreakerInit, FailuresMatchState
<1>3. ProbeBudget
  BY DEF Init, BreakerInit, ProbeBudget
<1>4. QED
  BY <1>1, <1>2, <1>3 DEF GuardInv

\* success() and the admin reset leave a closed breaker with a clean count.
LEMMA SuccessEffect ==
  ASSUME BreakerTypeOK, Success \/ Reset
  PROVE  /\ BreakerTypeOK'
         /\ state' = "closed"
         /\ failures' = 0
BY DEF BreakerTypeOK, Success, Reset, ProbesReleased

\* failure() keeps count and state in agreement and never ends in HALF_OPEN.
LEMMA FailureEffect ==
  ASSUME BreakerTypeOK, FailuresMatchState, Failure
  PROVE  /\ BreakerTypeOK'
         /\ FailuresMatchState'
         /\ state' # "half_open"
<1>1. failures' \in 0 .. FailureThreshold /\ probes' \in Nat
  BY DEF BreakerTypeOK, Failure, ProbesReleased, FailuresCounted
<1>2. CASE state = "half_open" \/ FailuresCounted >= FailureThreshold
  <2>1. state' = "open" /\ cooled' = FALSE /\ failures' = FailuresCounted
    BY <1>2 DEF Failure
  <2>2. failures' = FailureThreshold
    BY <1>2, <2>1 DEF BreakerTypeOK, FailuresMatchState, FailuresCounted
  <2>3. BreakerTypeOK'
    BY <1>1, <2>1 DEF BreakerTypeOK
  <2>4. QED
    BY <2>1, <2>2, <2>3 DEF FailuresMatchState
<1>3. CASE ~(state = "half_open" \/ FailuresCounted >= FailureThreshold)
  <2>1. state' = state /\ cooled' = cooled /\ failures' = FailuresCounted
    BY <1>3 DEF Failure
  <2>2. FailuresCounted = failures + 1 /\ failures + 1 < FailureThreshold
    BY <1>3 DEF BreakerTypeOK, FailuresCounted
  <2>3. QED
    BY <1>1, <1>3, <2>1, <2>2 DEF BreakerTypeOK, FailuresMatchState
<1>4. QED
  BY <1>2, <1>3

\* A neutral ending frees the holder, not the slot.
LEMMA NeutralStep ==
  ASSUME GuardInv, NEW r \in Requests, EndsNeutral(r), healthy' \in BOOLEAN,
         aborts' \in 0 .. MaxAborts
  PROVE  GuardInv'
<1>1. TypeOK'
  BY DEF GuardInv, TypeOK, EndsNeutral, Finish, Reading, breakerVars, BreakerTypeOK
<1>2. FailuresMatchState'
  BY DEF GuardInv, EndsNeutral, breakerVars, FailuresMatchState
<1>3. ProbeBudget'
  <2>1. IsFiniteSet(holders) /\ holders' \subseteq holders
    BY HoldersFinite DEF GuardInv, EndsNeutral
  <2>2. Cardinality(holders') <= Cardinality(holders)
    BY <2>1, FS_Subset
  <2>3. Cardinality(holders) \in Nat /\ Cardinality(holders') \in Nat
    BY <2>1, FS_Subset, FS_CardinalityType
  <2>4. QED
    BY <2>1, <2>2, <2>3 DEF GuardInv, EndsNeutral, breakerVars, ProbeBudget,
                             TypeOK, BreakerTypeOK
<1>4. QED
  BY <1>1, <1>2, <1>3 DEF GuardInv

\* A failed stream leaves HALF_OPEN, if it was there, and empties the episode.
LEMMA FailedStep ==
  ASSUME GuardInv, NEW r \in Requests, EndsFailed(r), healthy' \in BOOLEAN,
         aborts' \in 0 .. MaxAborts
  PROVE  GuardInv'
<1>1. /\ BreakerTypeOK'
      /\ FailuresMatchState'
      /\ state' # "half_open"
  BY FailureEffect DEF GuardInv, TypeOK, EndsFailed
<1>2. TypeOK'
  BY <1>1 DEF GuardInv, TypeOK, EndsFailed, Finish, Reading
<1>3. QED
  BY <1>1, <1>2 DEF GuardInv, EndsFailed, ProbeBudget

\* check() admits a stream only within the probe budget.
LEMMA AdmitStep ==
  ASSUME GuardInv, NEW r \in Requests, Admit(r)
  PROVE  GuardInv'
<1>1. IsFiniteSet(holders) /\ Cardinality(holders) \in Nat
  BY HoldersFinite, FS_CardinalityType DEF GuardInv
<1>2. TypeOK'
  BY DEF GuardInv, TypeOK, BreakerTypeOK, Admit, CheckPasses, StateSeen, ProbesSeen,
         Reopens, Refused, Reading
<1>3. FailuresMatchState'
  BY DEF GuardInv, TypeOK, BreakerTypeOK, FailuresMatchState, Admit, CheckPasses,
         StateSeen, Reopens, Refused
<1>4. ProbeBudget'
  <2>1. CASE Reopens
    <3>1. Cardinality({r}) = 1
      BY FS_Singleton
    <3>2. holders' = {r} /\ probes' = 1 /\ state' = "half_open" /\ 0 < HalfOpenMax
      BY <2>1 DEF Admit, CheckPasses, StateSeen, ProbesSeen, Reopens, Refused
    <3>3. QED
      BY <3>1, <3>2 DEF ProbeBudget
  <2>2. CASE ~Reopens /\ state = "half_open"
    <3>1. Cardinality(holders \cup {r}) <= Cardinality(holders) + 1
      <4>1. Cardinality(holders \cup {r}) =
              IF r \in holders THEN Cardinality(holders) ELSE Cardinality(holders) + 1
        BY <1>1, FS_AddElement
      <4>2. QED
        BY <1>1, <4>1
    <3>2. Cardinality(holders \cup {r}) \in Nat
      BY <1>1, FS_AddElement, FS_CardinalityType
    <3>3. /\ holders' = holders \cup {r}
          /\ probes' = probes + 1
          /\ state' = "half_open"
          /\ probes < HalfOpenMax
      BY <2>2 DEF Admit, CheckPasses, StateSeen, ProbesSeen, Refused,
                  GuardInv, TypeOK, BreakerTypeOK
    <3>4. QED
      BY <1>1, <2>2, <3>1, <3>2, <3>3 DEF ProbeBudget, GuardInv, TypeOK, BreakerTypeOK
  <2>3. CASE ~Reopens /\ state # "half_open"
    BY <2>3 DEF Admit, CheckPasses, StateSeen, ProbeBudget
  <2>4. QED
    BY <2>1, <2>2, <2>3
<1>5. QED
  BY <1>2, <1>3, <1>4 DEF GuardInv

\* A refused caller changes nothing but, at most, OPEN into HALF_OPEN.
LEMMA RefuseStep ==
  ASSUME GuardInv, NEW r \in Requests, Refuse(r)
  PROVE  GuardInv'
<1>1. TypeOK'
  BY DEF GuardInv, TypeOK, BreakerTypeOK, Refuse, CheckRaises, StateSeen, ProbesSeen,
         Reopens, Reading
<1>2. FailuresMatchState'
  BY DEF GuardInv, TypeOK, BreakerTypeOK, FailuresMatchState, Refuse, CheckRaises,
         StateSeen, Reopens
<1>3. ProbeBudget'
  BY FS_EmptySet DEF GuardInv, TypeOK, BreakerTypeOK, ProbeBudget, Refuse, CheckRaises,
                     StateSeen, ProbesSeen, Reopens
<1>4. QED
  BY <1>1, <1>2, <1>3 DEF GuardInv

\* Every step of the guard preserves the inductive invariant.
LEMMA GuardStep == GuardInv /\ [Next]_vars => GuardInv'
<1> SUFFICES ASSUME GuardInv, [Next]_vars
             PROVE  GuardInv'
  OBVIOUS
<1>1. ASSUME NEW r \in Requests, Exhausted(r)
      PROVE  GuardInv'
  <2>1. BreakerTypeOK' /\ state' = "closed" /\ failures' = 0
    BY <1>1, SuccessEffect DEF GuardInv, TypeOK, Exhausted
  <2>2. TypeOK'
    BY <1>1, <2>1 DEF GuardInv, TypeOK, Exhausted, Finish, Reading
  <2>3. QED
    BY <1>1, <2>1, <2>2 DEF GuardInv, Exhausted, FailuresMatchState, ProbeBudget
<1>2. ASSUME NEW r \in Requests, DoneEvent(r)
      PROVE  GuardInv'
  <2>1. CASE r \in Chats
    <3>1. EndsNeutral(r) \/ r \in Battles
      BY <1>2 DEF DoneEvent
    <3>2. EndsNeutral(r)
      BY <2>1, <3>1
    <3>3. QED
      BY <1>2, <3>2, NeutralStep DEF DoneEvent, GuardInv, TypeOK
  <2>2. CASE r \notin Chats
    <3>1. /\ pc' = [pc EXCEPT ![r] = "draining"]
          /\ UNCHANGED <<breakerVars, holders, healthy, aborts>>
      BY <1>2, <2>2 DEF DoneEvent
    <3>2. TypeOK'
      BY <3>1 DEF GuardInv, TypeOK, BreakerTypeOK, breakerVars, Reading
    <3>3. QED
      BY <3>1, <3>2 DEF GuardInv, FailuresMatchState, ProbeBudget, breakerVars
  <2>3. QED
    BY <2>1, <2>2
<1>3. ASSUME NEW r \in Requests, ErrorEvent(r) \/ ConfigError(r)
      PROVE  GuardInv'
  BY <1>3, NeutralStep DEF ErrorEvent, ConfigError, GuardInv, TypeOK
<1>4. ASSUME NEW r \in Requests, UpstreamFails(r)
      PROVE  GuardInv'
  BY <1>4, FailedStep DEF UpstreamFails, GuardInv, TypeOK
<1>5. ASSUME NEW r \in Requests, Disconnect(r)
      PROVE  GuardInv'
  <2>1. healthy' \in BOOLEAN /\ aborts' \in 0 .. MaxAborts
    BY <1>5 DEF Disconnect, GuardInv, TypeOK
  <2>2. QED
    BY <1>5, <2>1, NeutralStep, FailedStep DEF Disconnect
<1>6. CASE OutageEnds
  BY <1>6 DEF OutageEnds, GuardInv, TypeOK, BreakerTypeOK, Reading, breakerVars,
              FailuresMatchState, ProbeBudget
<1>7. CASE AdminReset
  <2>1. BreakerTypeOK' /\ state' = "closed" /\ failures' = 0
    BY <1>7, SuccessEffect DEF GuardInv, TypeOK, AdminReset
  <2>2. QED
    BY <1>7, <2>1 DEF AdminReset, GuardInv, TypeOK, Reading, FailuresMatchState, ProbeBudget
<1>8. CASE Cooldown
  BY <1>8 DEF Cooldown, CooldownElapses, GuardInv, TypeOK, BreakerTypeOK, Reading,
              FailuresMatchState, ProbeBudget
<1>9. CASE UNCHANGED vars
  BY <1>9 DEF vars, breakerVars, GuardInv, TypeOK, BreakerTypeOK, Reading,
              FailuresMatchState, ProbeBudget
<1>10. QED
  BY <1>1, <1>2, <1>3, <1>4, <1>5, <1>6, <1>7, <1>8, <1>9, AdmitStep, RefuseStep
     DEF Next, Upstream

\* The breaker's and the streams' state keep their types in every behaviour.
THEOREM GuardTypeCorrect == Spec => []TypeOK
<1>1. GuardInv => TypeOK
  BY DEF GuardInv
<1>2. QED
  BY GuardInit, GuardStep, <1>1, PTL DEF Spec

\* The circuit is closed exactly while fewer than CB_FAILURE_THRESHOLD failures
\* are on the books.
THEOREM CircuitMatchesFailures == Spec => []FailuresMatchState
<1>1. GuardInv => FailuresMatchState
  BY DEF GuardInv
<1>2. QED
  BY GuardInit, GuardStep, <1>1, PTL DEF Spec

\* A HALF_OPEN episode never has more than CB_HALF_OPEN_MAX probes running.
THEOREM ProbesBounded == Spec => []ProbeBudget
<1>1. GuardInv => ProbeBudget
  BY DEF GuardInv
<1>2. QED
  BY GuardInit, GuardStep, <1>1, PTL DEF Spec

-----------------------------------------------------------------------------
(* The token buckets, which a stream passes before it asks the breaker     *)
(* (client.py:475-476).                                                    *)

USE RateAssumption DEF RateAssumption

RateTypes == /\ capacity \in [Buckets -> Nat]
             /\ tokens \in [Buckets -> Nat]
             /\ since \in [Buckets -> Nat]
             /\ \A b \in Buckets : tokens[b] <= capacity[b]
             /\ stage \in [Callers -> Buckets \cup {"idle", "planned"}]
             /\ prompt \in [Callers -> Nat]
             /\ due \in [Callers -> Nat]

\* Who was not overtaken sleeps long enough: what its bucket holds, with what it
\* regains until the sleep is over, makes up the price.
SleepsEnough(r) ==
    r \notin overtaken /\ Asleep(r) /\ Price(r) <= capacity[stage[r]]
        => Refill(stage[r]) + due[r] >= Price(r)

\* And nobody sleeps longer than an empty bucket needs to regain the price.
SleepsNoLonger(r) == Asleep(r) => due[r] <= Price(r)

RateInv == RateTypes /\ \A r \in Callers : SleepsEnough(r) /\ SleepsNoLonger(r)

LEMMA RateBegins == LimiterInit => RateInv
<1> SUFFICES ASSUME LimiterInit
             PROVE  RateInv
  OBVIOUS
<1>1. RateTypes
  BY DEF LimiterInit, RateTypes
<1>2. \A r \in Callers : ~Asleep(r)
  BY DEF LimiterInit, Asleep, Buckets
<1> QED BY <1>1, <1>2 DEF RateInv, SleepsEnough, SleepsNoLonger

\* What a bucket holds now is a number up to its capacity.
LEMMA RefillType ==
  ASSUME RateTypes, NEW b \in Buckets
  PROVE  Refill(b) \in Nat /\ Refill(b) <= capacity[b]
BY DEF RateTypes, Refill, Least

\* Writing the time down changes nothing but the bucket's content.
LEMMA RefilledEffect ==
  ASSUME RateTypes, capacity' = capacity, NEW b \in Buckets, NEW left \in Nat, left <= capacity[b],
         Refilled(b, left)
  PROVE  /\ tokens' \in [Buckets -> Nat] /\ since' \in [Buckets -> Nat]
         /\ \A c \in Buckets : tokens'[c] <= capacity'[c]
         /\ \A c \in Buckets : Refill(c)' = IF c = b THEN left ELSE Refill(c)
<1>1. /\ tokens' \in [Buckets -> Nat] /\ since' \in [Buckets -> Nat]
      /\ \A c \in Buckets : /\ tokens'[c] = IF c = b THEN left ELSE tokens[c]
                            /\ since'[c] = IF c = b THEN 0 ELSE since[c]
  BY DEF RateTypes, Refilled
<1>2. \A c \in Buckets : tokens'[c] <= capacity'[c]
  BY <1>1 DEF RateTypes
<1>3. ASSUME NEW c \in Buckets
      PROVE  Refill(c)' = IF c = b THEN left ELSE Refill(c)
  <2>1. CASE c = b
    <3>1. tokens'[c] = left /\ since'[c] = 0 /\ capacity'[c] = capacity[b] /\ capacity[b] \in Nat
      BY <1>1, <2>1 DEF RateTypes
    <3>2. Refill(c)' = Least(capacity'[c], tokens'[c] + since'[c])
      BY DEF Refill, Least
    <3> QED BY <2>1, <3>1, <3>2 DEF Least
  <2>2. CASE c # b
    BY <1>1, <2>2 DEF Refill, Least
  <2> QED BY <2>1, <2>2
<1> QED BY <1>1, <1>2, <1>3

\* A sleeper for whom nothing has changed, or that has been overtaken, is as well
\* off as before.
LEMMA Undisturbed ==
  ASSUME RateInv, NEW q \in Callers, capacity' = capacity,
         stage'[q] = stage[q], prompt'[q] = prompt[q], due'[q] = due[q],
         q \in overtaken' \/ q \notin overtaken,
         \A b \in Buckets : stage[q] = b /\ q \notin overtaken' => Refill(b)' = Refill(b)
  PROVE  SleepsEnough(q)' /\ SleepsNoLonger(q)'
<1>1. SleepsEnough(q) /\ SleepsNoLonger(q)
  BY DEF RateInv
<1>2. Asleep(q)' <=> Asleep(q)
  BY DEF Asleep, Buckets
<1>3. Price(q)' = Price(q)
  BY DEF Price
<1>4. SleepsNoLonger(q)'
  BY <1>1, <1>2, <1>3 DEF SleepsNoLonger
<1>5. CASE q \in overtaken' \/ ~Asleep(q)
  BY <1>2, <1>4, <1>5 DEF SleepsEnough
<1>6. CASE q \notin overtaken' /\ Asleep(q)
  <2>1. PICK b \in Buckets : stage[q] = b
    BY <1>6 DEF Asleep
  <2>2. Refill(b)' = Refill(b)
    BY <1>6, <2>1
  <2>3. /\ Refill(stage[q])' = Refill(stage[q])
        /\ capacity'[stage'[q]] = capacity[stage[q]]
    BY <2>1, <2>2 DEF Refill, Least
  <2> QED BY <1>1, <1>2, <1>3, <1>4, <1>6, <2>3 DEF SleepsEnough
<1> QED BY <1>5, <1>6

\* Taking from a bucket, by somebody who then is not asleep: the others that sleep
\* there are overtaken, those at the other bucket notice nothing.
LEMMA PayStep ==
  ASSUME RateInv, NEW r \in Callers, NEW b \in Buckets, NEW n \in Nat,
         capacity' = capacity, Pay(r, b, n),
         NEW then \in {"idle", "planned"}, stage' = [stage EXCEPT ![r] = then], due' = due,
         prompt' \in [Callers -> Nat], \A q \in Callers \ {r} : prompt'[q] = prompt[q]
  PROVE  RateInv'
<1> DEFINE left == Greatest(0, Refill(b) - n)
<1>1. left \in Nat /\ left <= capacity[b]
  BY RefillType DEF RateInv, RateTypes, Greatest
<1>2. /\ tokens' \in [Buckets -> Nat] /\ since' \in [Buckets -> Nat]
      /\ \A c \in Buckets : tokens'[c] <= capacity'[c]
      /\ \A c \in Buckets : Refill(c)' = IF c = b THEN left ELSE Refill(c)
  <2> HIDE DEF left
  <2>1. Refilled(b, left)
    BY DEF Pay, left
  <2> QED BY <1>1, <2>1, RefilledEffect DEF RateInv
<1> HIDE DEF left
<1>3. RateTypes'
  <2>1. stage' \in [Callers -> Buckets \cup {"idle", "planned"}]
    BY DEF RateInv, RateTypes
  <2> QED BY <1>2, <2>1 DEF RateInv, RateTypes
<1>4. ASSUME NEW q \in Callers
      PROVE  SleepsEnough(q)' /\ SleepsNoLonger(q)'
  <2>1. CASE q = r
    <3>1. stage'[r] = then
      BY DEF RateInv, RateTypes
    <3>2. ~Asleep(q)'
      BY <2>1, <3>1 DEF Asleep, Buckets
    <3> QED BY <3>2 DEF SleepsEnough, SleepsNoLonger
  <2>2. CASE q # r
    <3>1. stage'[q] = stage[q] /\ prompt'[q] = prompt[q] /\ due'[q] = due[q]
      BY <2>2 DEF RateInv, RateTypes
    <3>2. q \in overtaken' <=> q \in overtaken \/ stage[q] = b
      BY <2>2 DEF Pay
    <3>3. ASSUME NEW c \in Buckets, stage[q] = c, q \notin overtaken'
          PROVE  Refill(c)' = Refill(c)
      BY <1>2, <3>2, <3>3
    <3> QED BY <3>1, <3>2, <3>3, Undisturbed
  <2> QED BY <2>1, <2>2
<1> QED BY <1>3, <1>4 DEF RateInv

\* Falling asleep: as long as the bucket needs for what is missing.  It writes the
\* time down, and takes nothing from anybody.
LEMMA FallAsleepStep ==
  ASSUME RateInv, NEW r \in Callers, NEW b \in Buckets, NEW n \in Nat,
         capacity' = capacity, FallAsleep(r, b, n),
         prompt' \in [Callers -> Nat], \A q \in Callers \ {r} : prompt'[q] = prompt[q],
         Price(r)' = n
  PROVE  RateInv'
<1> DEFINE left == Refill(b)
<1>1. left \in Nat /\ left <= capacity[b] /\ left < n /\ capacity[b] \in Nat
  BY RefillType DEF RateInv, RateTypes, FallAsleep
<1>2. /\ tokens' \in [Buckets -> Nat] /\ since' \in [Buckets -> Nat]
      /\ \A c \in Buckets : tokens'[c] <= capacity'[c]
      /\ \A c \in Buckets : Refill(c)' = IF c = b THEN left ELSE Refill(c)
  <2> HIDE DEF left
  <2>1. Refilled(b, left)
    BY DEF FallAsleep, left
  <2> QED BY <1>1, <2>1, RefilledEffect DEF RateInv
<1>3. Deficit(b, n) \in Nat /\ Deficit(b, n) <= n
  BY <1>1 DEF Deficit
<1>4. stage' = [stage EXCEPT ![r] = b] /\ due' = [due EXCEPT ![r] = Deficit(b, n)]
      /\ overtaken' = overtaken
  BY DEF FallAsleep
<1>5. RateTypes'
  <2>1. stage' \in [Callers -> Buckets \cup {"idle", "planned"}] /\ due' \in [Callers -> Nat]
    BY <1>3, <1>4 DEF RateInv, RateTypes
  <2> QED BY <1>2, <2>1 DEF RateInv, RateTypes
<1>6. ASSUME NEW q \in Callers
      PROVE  SleepsEnough(q)' /\ SleepsNoLonger(q)'
  <2>1. CASE q = r
    <3>1. stage'[r] = b /\ due'[r] = Deficit(b, n)
      BY <1>4 DEF RateInv, RateTypes
    <3>2. SleepsNoLonger(r)'
      BY <1>3, <3>1 DEF SleepsNoLonger
    <3>3. Refill(stage[r])' = left
      <4>1. Refill(stage[r])' = Refill(b)'
        BY <3>1 DEF Refill, Least
      <4> QED BY <1>2, <4>1
    <3>4. n <= capacity[b] => left + Deficit(b, n) >= n
      BY <1>1 DEF Deficit
    <3>5. SleepsEnough(r)'
      <4> HIDE DEF left
      <4> QED BY <3>1, <3>3, <3>4 DEF SleepsEnough
    <3> QED BY <2>1, <3>2, <3>5
  <2>2. CASE q # r
    <3>1. stage'[q] = stage[q] /\ prompt'[q] = prompt[q] /\ due'[q] = due[q]
      BY <1>4, <2>2 DEF RateInv, RateTypes
    <3> QED BY <1>2, <1>4, <3>1, Undisturbed
  <2> QED BY <2>1, <2>2
<1> QED BY <1>5, <1>6 DEF RateInv

\* take(), and a call of it that is not asleep for a price.
LEMMA TakeStep ==
  ASSUME RateInv, NEW r \in Callers, NEW b \in Buckets, NEW n \in Nat,
         NEW then \in {"idle", "planned"}, capacity' = capacity,
         Take(r, b, n, then),
         prompt' \in [Callers -> Nat], \A q \in Callers \ {r} : prompt'[q] = prompt[q],
         stage'[r] = b => Price(r)' = n
  PROVE  RateInv'
<1>1. CASE Pay(r, b, n) /\ stage' = [stage EXCEPT ![r] = then] /\ due' = due
  BY <1>1, PayStep
<1>2. CASE FallAsleep(r, b, n)
  <2>1. stage'[r] = b
    BY <1>2 DEF FallAsleep, RateInv, RateTypes
  <2> QED BY <1>2, <2>1, FallAsleepStep
<1> QED BY <1>1, <1>2 DEF Take

LEMMA ChatStep ==
  ASSUME RateInv, NEW r \in Callers, Chat(r)
  PROVE  RateInv'
<1>1. PICK n \in Prompts :
         /\ \/ n > 0 /\ Take(r, "tpm", n, "planned")
            \/ n = 0 /\ stage' = [stage EXCEPT ![r] = "planned"]
                     /\ UNCHANGED <<buckets, due, overtaken>>
         /\ prompt' = [prompt EXCEPT ![r] = IF stage'[r] = "tpm" THEN n ELSE 0]
  BY DEF Chat
<1>2. n \in Nat /\ capacity' = capacity /\ stage[r] = "idle"
  BY DEF Chat
<1>3. /\ prompt' \in [Callers -> Nat]
      /\ \A q \in Callers \ {r} : prompt'[q] = prompt[q]
      /\ stage'[r] = "tpm" => prompt'[r] = n
  BY <1>1, <1>2 DEF RateInv, RateTypes
<1>4. CASE Take(r, "tpm", n, "planned")
  <2>1. stage'[r] = "tpm" => Price(r)' = n
    BY <1>3 DEF Price
  <2>2. "tpm" \in Buckets
    BY DEF Buckets
  <2> QED BY <1>2, <1>3, <1>4, <2>1, <2>2, TakeStep
<1>5. CASE stage' = [stage EXCEPT ![r] = "planned"] /\ UNCHANGED <<buckets, due, overtaken>>
  <2>1. tokens' = tokens /\ since' = since /\ due' = due /\ overtaken' = overtaken
    BY <1>5 DEF buckets
  <2>2. RateTypes'
    BY <1>2, <1>3, <1>5, <2>1 DEF RateInv, RateTypes
  <2>3. \A b \in Buckets : Refill(b)' = Refill(b)
    BY <1>2, <2>1 DEF Refill, Least
  <2>4. ASSUME NEW q \in Callers
        PROVE  SleepsEnough(q)' /\ SleepsNoLonger(q)'
    <3>1. CASE q = r
      <4>1. ~Asleep(q)'
        BY <1>5, <3>1 DEF Asleep, Buckets, RateInv, RateTypes
      <4> QED BY <4>1 DEF SleepsEnough, SleepsNoLonger
    <3>2. CASE q # r
      <4>1. stage'[q] = stage[q] /\ prompt'[q] = prompt[q] /\ due'[q] = due[q]
        BY <1>3, <1>5, <2>1, <3>2 DEF RateInv, RateTypes
      <4> QED BY <1>2, <2>1, <2>3, <4>1, Undisturbed
    <3> QED BY <3>1, <3>2
  <2> QED BY <2>2, <2>4 DEF RateInv
<1> QED BY <1>1, <1>4, <1>5

LEMMA StreamStep ==
  ASSUME RateInv, NEW r \in Callers, Stream(r)
  PROVE  RateInv'
<1>1. Take(r, "rpm", 1, "idle") /\ capacity' = capacity /\ prompt' = prompt
  BY DEF Stream
<1>2. stage'[r] = "rpm" => Price(r)' = 1
  BY DEF Price
<1>3. "rpm" \in Buckets /\ 1 \in Nat /\ "idle" \in {"idle", "planned"}
  BY DEF Buckets
<1>4. prompt' \in [Callers -> Nat]
  BY <1>1 DEF RateInv, RateTypes
<1> QED BY <1>1, <1>2, <1>3, <1>4, TakeStep

LEMMA WakeStep ==
  ASSUME RateInv, NEW r \in Callers, Wake(r)
  PROVE  RateInv'
<1>1. /\ stage[r] \in Buckets
      /\ Pay(r, stage[r], Price(r))
      /\ stage' = [stage EXCEPT ![r] = Then(r)]
      /\ prompt' = [prompt EXCEPT ![r] = 0]
      /\ capacity' = capacity /\ due' = due
  BY DEF Wake, Asleep
<1>2. Price(r) \in Nat /\ Then(r) \in {"idle", "planned"}
  BY DEF RateInv, RateTypes, Price, Then
<1>3. prompt' \in [Callers -> Nat] /\ \A q \in Callers \ {r} : prompt'[q] = prompt[q]
  BY <1>1 DEF RateInv, RateTypes
<1> QED BY <1>1, <1>2, <1>3, PayStep

LEMMA DisconnectStep ==
  ASSUME RateInv, NEW r \in Callers, HangUp(r)
  PROVE  RateInv'
<1>1. /\ stage' = [stage EXCEPT ![r] = "idle"] /\ due' = [due EXCEPT ![r] = 0]
      /\ overtaken' = overtaken \ {r}
      /\ capacity' = capacity /\ tokens' = tokens /\ since' = since /\ prompt' = prompt
  BY DEF HangUp, buckets
<1>2. RateTypes'
  BY <1>1 DEF RateInv, RateTypes
<1>3. \A b \in Buckets : Refill(b)' = Refill(b)
  BY <1>1 DEF Refill, Least
<1>4. ASSUME NEW q \in Callers
      PROVE  SleepsEnough(q)' /\ SleepsNoLonger(q)'
  <2>1. CASE q = r
    <3>1. ~Asleep(q)'
      BY <1>1, <2>1 DEF Asleep, Buckets, RateInv, RateTypes
    <3> QED BY <3>1 DEF SleepsEnough, SleepsNoLonger
  <2>2. CASE q # r
    <3>1. stage'[q] = stage[q] /\ prompt'[q] = prompt[q] /\ due'[q] = due[q]
      BY <1>1, <2>2 DEF RateInv, RateTypes
    <3> QED BY <1>1, <1>3, <2>2, <3>1, Undisturbed
  <2> QED BY <2>1, <2>2
<1> QED BY <1>2, <1>4 DEF RateInv

\* A tick brings every sleeper one unit nearer, unless its bucket is full, and a
\* full bucket has what it came for.
LEMMA TickStep ==
  ASSUME RateInv, Tick
  PROVE  RateInv'
<1>1. /\ since' = [b \in Buckets |-> Least(capacity[b], since[b] + 1)]
      /\ due' = [r \in Callers |-> Greatest(0, due[r] - 1)]
      /\ capacity' = capacity /\ tokens' = tokens /\ stage' = stage
      /\ prompt' = prompt /\ overtaken' = overtaken
  BY DEF Tick
<1>2. /\ \A b \in Buckets : since'[b] \in Nat
      /\ \A r \in Callers : due'[r] \in Nat /\ due'[r] <= due[r] /\ due'[r] >= due[r] - 1
  BY <1>1 DEF RateInv, RateTypes, Least, Greatest
<1>3. RateTypes'
  BY <1>1, <1>2 DEF RateInv, RateTypes
<1>4. ASSUME NEW b \in Buckets
      PROVE  Refill(b)' = capacity[b] \/ Refill(b)' = Refill(b) + 1
  BY <1>1 DEF RateInv, RateTypes, Refill, Least
<1>5. ASSUME NEW r \in Callers
      PROVE  SleepsEnough(r)' /\ SleepsNoLonger(r)'
  <2>1. /\ Asleep(r)' <=> Asleep(r)
        /\ Price(r)' = Price(r)
        /\ Price(r) \in Nat
    BY <1>1 DEF RateInv, RateTypes, Asleep, Price
  <2>2. SleepsEnough(r) /\ SleepsNoLonger(r)
    BY DEF RateInv
  <2>3. due[r] \in Nat /\ due'[r] \in Nat
    BY <1>2 DEF RateInv, RateTypes
  <2>4. SleepsNoLonger(r)'
    BY <1>2, <2>1, <2>2, <2>3 DEF SleepsNoLonger
  <2>5. CASE ~Asleep(r)
    BY <2>1, <2>4, <2>5 DEF SleepsEnough
  <2>6. CASE Asleep(r)
    <3>1. PICK b \in Buckets : stage[r] = b
      BY <2>6 DEF Asleep
    <3>2. /\ Refill(stage[r]) = Refill(b) /\ Refill(stage[r])' = Refill(b)'
          /\ capacity'[stage'[r]] = capacity[b] /\ capacity[stage[r]] = capacity[b]
      BY <1>1, <3>1 DEF Refill, Least
    <3>3. Refill(b) \in Nat /\ capacity[b] \in Nat
      BY RefillType DEF RateInv, RateTypes
    <3>4. Refill(b)' \in Nat
      BY <1>4, <3>3
    <3> QED BY <1>1, <1>2, <1>4, <2>1, <2>2, <2>3, <2>4, <3>2, <3>3, <3>4 DEF SleepsEnough
  <2> QED BY <2>5, <2>6
<1> QED BY <1>3, <1>5 DEF RateInv

LEMMA RateStep == RateInv /\ [LimiterNext]_limiterVars => RateInv'
<1> SUFFICES ASSUME RateInv, [LimiterNext]_limiterVars
             PROVE  RateInv'
  OBVIOUS
<1>1. CASE UNCHANGED limiterVars
  BY <1>1 DEF limiterVars, buckets, RateInv, RateTypes, SleepsEnough, SleepsNoLonger,
             Asleep, Price, Refill, Least
<1> QED BY <1>1, ChatStep, StreamStep, WakeStep, DisconnectStep, TickStep DEF LimiterNext

\* A request that has slept finds what it came for, unless somebody took from its
\* bucket meanwhile: for every limit, every price and any number of requests, the
\* limit is exceeded only by sleepers that meet (rate_limiter.py:45-58).
THEOREM SleepersArePaid == LimiterSpec => []PaidUnlessOvertaken
<1>1. LimiterInit => RateInv
  BY RateBegins
<1>2. RateInv /\ [LimiterNext]_limiterVars => RateInv'
  BY RateStep
<1>3. RateInv => PaidUnlessOvertaken
  <2> SUFFICES ASSUME RateInv, NEW r \in Callers, Asleep(r), due[r] = 0,
                      Price(r) <= capacity[stage[r]], r \notin overtaken
               PROVE  Refill(stage[r]) >= Price(r)
    BY DEF PaidUnlessOvertaken
  <2>1. Refill(stage[r]) \in Nat
    BY RefillType DEF RateInv, Asleep
  <2> QED BY <2>1 DEF RateInv, SleepsEnough
<1> QED BY <1>1, <1>2, <1>3, PTL DEF LimiterSpec

\* A sleep, once begun, only grows shorter: take() does not start over.
SleepsOnce == \A r \in Callers :
    Asleep(r) /\ Asleep(r)' => stage'[r] = stage[r] /\ due'[r] <= due[r]

LEMMA SleepsOnceStep == RateInv /\ [LimiterNext]_limiterVars => SleepsOnce
<1> SUFFICES ASSUME RateInv, [LimiterNext]_limiterVars, NEW q \in Callers,
                    Asleep(q), Asleep(q)'
             PROVE  stage'[q] = stage[q] /\ due'[q] <= due[q]
  BY DEF SleepsOnce
<1> USE DEF RateInv, RateTypes
<1>1. stage[q] \in Buckets /\ stage'[q] \in Buckets /\ due[q] \in Nat
  BY DEF Asleep
<1>2. "idle" \notin Buckets /\ "planned" \notin Buckets
  BY DEF Buckets
<1>3. ASSUME NEW r \in Callers, NEW b, NEW n, NEW then, Take(r, b, n, then), r # q
      PROVE  stage'[q] = stage[q] /\ due'[q] = due[q]
  BY <1>3 DEF Take, FallAsleep
<1>4. ASSUME NEW r \in Callers, Chat(r)
      PROVE  stage'[q] = stage[q] /\ due'[q] = due[q]
  <2>1. r # q
    BY <1>1, <1>2, <1>4 DEF Chat
  <2>2. PICK n \in Prompts :
           \/ Take(r, "tpm", n, "planned")
           \/ stage' = [stage EXCEPT ![r] = "planned"] /\ due' = due
    BY <1>4 DEF Chat
  <2> QED BY <1>3, <2>1, <2>2
<1>5. ASSUME NEW r \in Callers, Stream(r)
      PROVE  stage'[q] = stage[q] /\ due'[q] = due[q]
  BY <1>1, <1>2, <1>3, <1>5 DEF Stream
<1>6. ASSUME NEW r \in Callers, Wake(r)
      PROVE  stage'[q] = stage[q] /\ due'[q] = due[q]
  BY <1>1, <1>2, <1>6 DEF Wake, Then
<1>7. ASSUME NEW r \in Callers, HangUp(r)
      PROVE  stage'[q] = stage[q] /\ due'[q] = due[q]
  BY <1>1, <1>2, <1>7 DEF HangUp
<1>8. CASE Tick
  BY <1>1, <1>8 DEF Tick, Greatest
<1>9. CASE UNCHANGED limiterVars
  BY <1>1, <1>9 DEF limiterVars
<1> QED BY <1>1, <1>4, <1>5, <1>6, <1>7, <1>8, <1>9 DEF LimiterNext

\* Nobody is held longer than its bucket takes to regain the whole price, however
\* many sleep with it: a sleep is never longer, and never begun again
\* (rate_limiter.py:47-58).  With the clock it is why everybody is admitted.
THEOREM SleepsAreBounded ==
  LimiterSpec => /\ []\A r \in Callers : SleepsNoLonger(r)
                 /\ [][SleepsOnce]_limiterVars
<1>1. LimiterInit => RateInv
  BY RateBegins
<1>2. RateInv /\ [LimiterNext]_limiterVars => RateInv'
  BY RateStep
<1>3. RateInv => \A r \in Callers : SleepsNoLonger(r)
  BY DEF RateInv
<1>4. RateInv /\ [LimiterNext]_limiterVars => [SleepsOnce]_limiterVars
  BY SleepsOnceStep
<1> QED BY <1>1, <1>2, <1>3, <1>4, PTL DEF LimiterSpec
=============================================================================
