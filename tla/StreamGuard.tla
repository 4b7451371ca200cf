---------------------------- MODULE StreamGuard ----------------------------
(***************************************************************************)
(* ArenaClient._stream_grounded (src/src/client.py) and its two kinds of   *)
(* consumer: every upstream stream passes the breaker's check() and tells  *)
(* the breaker how it ended -- unless it ends in a way the generator calls *)
(* neutral.                                                                *)
(*                                                                         *)
(* /v1/chat/completions leaves its `async for' at the `done' event; the    *)
(* abandoned generator is then closed with GeneratorExit.  /v1/battle      *)
(* reads on to the end of the stream.                                      *)
(***************************************************************************)
EXTENDS CircuitBreaker, FiniteSets

CONSTANTS Chats,       \* request slots of /v1/chat/completions
          Battles,     \* request slots of /v1/battle
          MaxAborts    \* bound: client disconnects in one behaviour

Requests == Chats \cup Battles

ASSUME GuardAssumption == /\ Chats \cap Battles = {}
                          /\ IsFiniteSet(Requests)
                          /\ MaxAborts \in Nat

VARIABLES pc,        \* what each request slot is doing
          holders,   \* history: streams still running whose check() took a
                     \* probe slot since the breaker last entered HALF_OPEN
          healthy,   \* has the outage of the upstream ended for good?
          aborts     \* client disconnects so far

vars == <<breakerVars, pc, holders, healthy, aborts>>

Init == /\ BreakerInit
        /\ pc = [r \in Requests |-> "idle"]
        /\ holders = {}
        /\ healthy = FALSE
        /\ aborts = 0

\* The slot's handler has returned; the slot may serve another request.
Finish(r) == pc' = [pc EXCEPT ![r] = "idle"]

Reading(r) == pc[r] \in {"reading", "draining"}

-----------------------------------------------------------------------------
(* breaker.check(), before the try block.                                  *)

Admit(r) == /\ pc[r] = "idle"
            /\ CheckPasses
            /\ pc' = [pc EXCEPT ![r] = "reading"]
            /\ holders' = IF StateSeen = "half_open"
                            THEN (IF Reopens THEN {} ELSE holders) \cup {r}
                            ELSE {}
            /\ UNCHANGED <<healthy, aborts>>

\* CircuitOpenError: the route answers 503.
Refuse(r) == /\ pc[r] = "idle"
             /\ CheckRaises
             /\ holders' = IF Reopens THEN {} ELSE holders
             /\ UNCHANGED <<pc, healthy, aborts>>

-----------------------------------------------------------------------------
(* The ways out of the try block.                                          *)

\* The generator ran to its end: the else branch.
Exhausted(r) == /\ Reading(r)
                /\ Success
                /\ Finish(r)
                /\ holders' = {}
                /\ UNCHANGED <<healthy, aborts>>

\* GeneratorExit, or an error about configuration: re-raised, nothing told to
\* the breaker.
EndsNeutral(r) == /\ Finish(r)
                  /\ holders' = holders \ {r}
                  /\ UNCHANGED breakerVars

\* Any other BaseException.  Whatever state failure() finds, it leaves the
\* breaker outside HALF_OPEN.
EndsFailed(r) == /\ Failure
                 /\ Finish(r)
                 /\ holders' = {}

\* The upstream's `done' event.  Chat breaks out of its loop; battle continues.
DoneEvent(r) ==
  /\ pc[r] = "reading"
  /\ \/ r \in Chats   /\ EndsNeutral(r)
     \/ r \in Battles /\ pc' = [pc EXCEPT ![r] = "draining"]
                      /\ UNCHANGED <<breakerVars, holders>>
  /\ UNCHANGED <<healthy, aborts>>

\* The upstream's `error' event: both consumers leave the generator.
ErrorEvent(r) == /\ ~healthy
                 /\ Reading(r)
                 /\ EndsNeutral(r)
                 /\ UNCHANGED <<healthy, aborts>>

\* NoCookiesError on the way to an attempt.
ConfigError(r) == /\ ~healthy
                  /\ pc[r] = "reading"
                  /\ EndsNeutral(r)
                  /\ UNCHANGED <<healthy, aborts>>

\* ArenaError after the last retry, an httpx error, ...
UpstreamFails(r) == /\ ~healthy
                    /\ Reading(r)
                    /\ EndsFailed(r)
                    /\ UNCHANGED <<healthy, aborts>>

\* The client goes away.  If the generator is suspended at its yield it is
\* closed (GeneratorExit); if it is awaiting the upstream, the server's
\* cancellation arrives there as CancelledError, which is a BaseException.
Disconnect(r) == /\ aborts < MaxAborts
                 /\ Reading(r)
                 /\ EndsNeutral(r) \/ EndsFailed(r)
                 /\ aborts' = aborts + 1
                 /\ UNCHANGED healthy

-----------------------------------------------------------------------------
(* Environment.                                                            *)

OutageEnds == /\ ~healthy
              /\ healthy' = TRUE
              /\ UNCHANGED <<breakerVars, pc, holders, aborts>>

AdminReset == /\ Reset
              /\ holders' = {}
              /\ UNCHANGED <<pc, healthy, aborts>>

Cooldown == /\ CooldownElapses
            /\ UNCHANGED <<pc, holders, healthy, aborts>>

Upstream(r) == \/ DoneEvent(r) \/ Exhausted(r) \/ ErrorEvent(r)
               \/ ConfigError(r) \/ UpstreamFails(r)

Next == \/ \E r \in Requests : \/ Admit(r) \/ Refuse(r)
                               \/ Upstream(r) \/ Disconnect(r)
        \/ OutageEnds \/ AdminReset \/ Cooldown

(***************************************************************************)
(* Fairness.  REQUEST_TIMEOUT bounds every read of the upstream, so a      *)
(* stream's next outcome always comes; time passes; and clients keep       *)
(* sending requests.  Nothing obliges an administrator, a disconnecting    *)
(* client or the end of the outage.                                        *)
(***************************************************************************)
Spec == /\ Init /\ [][Next]_vars
        /\ WF_vars(Cooldown)
        /\ \A r \in Requests : WF_vars(Upstream(r)) /\ WF_vars(Admit(r))

-----------------------------------------------------------------------------
(* Properties.                                                             *)

\* Every variable has its type, and only running streams hold a probe slot.
TypeOK == /\ BreakerTypeOK
          /\ pc \in [Requests -> {"idle", "reading", "draining"}]
          /\ holders \in SUBSET {r \in Requests : Reading(r)}
          /\ healthy \in BOOLEAN
          /\ aborts \in 0 .. MaxAborts

\* The failure count and the state never disagree, however late an outcome
\* arrives and whichever state it finds: the circuit is closed exactly while
\* fewer than CB_FAILURE_THRESHOLD failures are on the books.
FailuresMatchState == state = "closed" <=> failures < FailureThreshold

\* In HALF_OPEN at most CB_HALF_OPEN_MAX probes of this episode are running,
\* each on a slot that check() counted; outcomes of streams admitted before
\* the trip never make room for one more, because every outcome, early or
\* late, ends the episode.
ProbeBudget == IF state = "half_open"
                 THEN Cardinality(holders) <= probes /\ probes <= HalfOpenMax
                 ELSE holders = {}

\* A probe slot whose stream has ended without telling the breaker.
SlotLeaked == state = "half_open" /\ Cardinality(holders) < probes

\* Once the upstream is healthy for good the circuit closes again -- unless a
\* probe ends neutral and leaks its slot.
ClosesUnlessSlotLeaks == healthy ~> (state = "closed" \/ SlotLeaked)

\* What the module's header promises without the exception: after the cooldown
\* probes are tried, and a working upstream closes the circuit.
ClosesAfterOutage == healthy ~> state = "closed"
=============================================================================
