--------------------------- MODULE CircuitBreaker ---------------------------
(***************************************************************************)
(* The circuit breaker in front of the upstream                            *)
(* (src/src/circuit_breaker.py).                                           *)
(*                                                                         *)
(* Every method body runs under `_lock' and awaits nothing inside it, so   *)
(* on the single event loop each call is one atomic step.  Time is         *)
(* abstracted to `cooled': whether CB_COOLDOWN seconds have gone by since  *)
(* `_opened_at'.                                                           *)
(***************************************************************************)
EXTENDS Integers

CONSTANTS FailureThreshold,   \* CB_FAILURE_THRESHOLD
          HalfOpenMax         \* CB_HALF_OPEN_MAX

ASSUME BreakerAssumption == /\ FailureThreshold \in Nat \ {0}
                            /\ HalfOpenMax \in Nat

VARIABLES state,      \* CircuitBreaker.state
          failures,   \* _failures, saturated at FailureThreshold: the code only
                      \* ever asks whether it has reached the threshold
          probes,     \* _half_open_probes
          cooled      \* _cooldown_left() = 0

breakerVars == <<state, failures, probes, cooled>>

BreakerInit == /\ state = "closed"
               /\ failures = 0
               /\ probes = 0
               /\ cooled = TRUE      \* _opened_at = 0.0

-----------------------------------------------------------------------------
(* check(): lines 57-66 may first turn OPEN into HALF_OPEN, and only then  *)
(* do lines 67-71 count the caller as a probe or turn it away.             *)

Reopens == state = "open" /\ cooled

StateSeen  == IF Reopens THEN "half_open" ELSE state
ProbesSeen == IF Reopens THEN 0 ELSE probes

\* Slip: check() before fix B2, which let every caller through in HALF_OPEN.
RefusedUnlimited == StateSeen = "open"

Refused == \/ StateSeen = "open"
           \/ StateSeen = "half_open" /\ ProbesSeen >= HalfOpenMax

CheckPasses == /\ ~Refused
               /\ state' = StateSeen
               /\ probes' = IF StateSeen = "half_open" THEN ProbesSeen + 1 ELSE probes
               /\ UNCHANGED <<failures, cooled>>

CheckRaises == /\ Refused
               /\ state' = StateSeen
               /\ probes' = ProbesSeen
               /\ UNCHANGED <<failures, cooled>>

-----------------------------------------------------------------------------
(* success(), failure(), _trip(), the admin reset and the clock.           *)

\* Slips: a success that leaves the failure count alone; a probe's success that
\* closes nothing.
SuccessKeepsCount == /\ probes' = IF probes > 0 THEN probes - 1 ELSE 0
                     /\ state' = "closed"
                     /\ UNCHANGED <<failures, cooled>>

SuccessKeepsState == /\ failures' = 0
                     /\ probes' = IF probes > 0 THEN probes - 1 ELSE 0
                     /\ UNCHANGED <<state, cooled>>

ProbesReleased == IF probes > 0 THEN probes - 1 ELSE 0   \* max(0, n - 1)

FailuresCounted == IF failures < FailureThreshold THEN failures + 1 ELSE failures

Success == /\ failures' = 0
           /\ probes' = ProbesReleased
           /\ state' = "closed"
           /\ UNCHANGED cooled

Failure == /\ failures' = FailuresCounted
           /\ probes' = ProbesReleased
           /\ IF state = "half_open" \/ FailuresCounted >= FailureThreshold
                THEN state' = "open" /\ cooled' = FALSE
                ELSE UNCHANGED <<state, cooled>>

\* POST /admin/breaker/reset writes the three fields without the lock; it
\* awaits nothing, so it is still one step.
Reset == /\ state' = "closed"
         /\ failures' = 0
         /\ probes' = 0
         /\ UNCHANGED cooled

CooldownElapses == /\ ~cooled
                   /\ cooled' = TRUE
                   /\ UNCHANGED <<state, failures, probes>>

BreakerTypeOK == /\ state \in {"closed", "open", "half_open"}
                 /\ failures \in 0 .. FailureThreshold
                 /\ probes \in Nat
                 /\ cooled \in BOOLEAN
=============================================================================
