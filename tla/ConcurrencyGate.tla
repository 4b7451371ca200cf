-------------------------- MODULE ConcurrencyGate --------------------------
(***************************************************************************)
(* ConcurrencyGate.slot (src/src/concurrency.py): a semaphore for the      *)
(* places, a bounded queue in front of it, a timeout on the wait.          *)
(*                                                                         *)
(* The gate's `_lock' is never held across an await, so each of its bodies *)
(* joins the atomic step around it.  asyncio.Semaphore is external; it is  *)
(* modelled as the image's CPython 3.12 (src/Dockerfile) has it: waiters   *)
(* are futures in a deque, release() hands the permit to the first one     *)
(* that is not done, and the waiter notices at its next turn of the loop.  *)
(* A timeout or a cancellation may strike on either side of the hand-over. *)
(***************************************************************************)
EXTENDS Integers, Sequences, FiniteSets

CONSTANTS Requests,
          MaxConcurrent,   \* MAX_CONCURRENT_REQUESTS
          MaxQueue         \* MAX_QUEUE_SIZE

ASSUME GateAssumption == /\ IsFiniteSet(Requests)
                         /\ MaxConcurrent \in Nat
                         /\ MaxQueue \in Nat

VARIABLES at,        \* where each request is, see Places
          line,      \* semaphore: its pending futures, oldest first
          free,      \* semaphore: _value
          waiting,   \* _waiting
          active     \* _active

vars == <<at, line, free, waiting, active>>

Places == {"out",       \* not in slot()
           "queued",    \* its future is pending
           "granted",   \* release() has set its future; it has not run since
           "revoked",   \* granted, and then timed out or cancelled
           "gone",      \* its pending future was cancelled; it has not run since
           "active"}    \* in the body of slot()

Those(places) == {r \in Requests : at[r] \in places}

Init == /\ at = [r \in Requests |-> "out"]
        /\ line = <<>>
        /\ free = MaxConcurrent
        /\ waiting = 0
        /\ active = 0

Decremented(n) == IF n > 0 THEN n - 1 ELSE 0     \* max(0, n - 1)

-----------------------------------------------------------------------------
(* The semaphore.                                                          *)

\* locked(): a free permit is not for newcomers while any waiter is pending or
\* has a permit on its way.
Locked == free = 0 \/ Those({"queued", "granted", "revoked"}) # {}

Smaller(m, n) == IF m < n THEN m ELSE n

\* Hand permits to the oldest waiters: `permits' are free and r goes to `place'.
WakeAndMove(permits, most, r, place) ==
  LET k     == Smaller(most, Smaller(permits, Len(line)))
      woken == {line[i] : i \in 1 .. k}
  IN  /\ at' = [q \in Requests |-> IF q = r THEN place
                                   ELSE IF q \in woken THEN "granted"
                                   ELSE at[q]]
      /\ line' = SubSeq(line, k + 1, Len(line))
      /\ free' = permits - k

\* Slips: no final loop in acquire(); a release() that only counts.
WakeNobody(permits, r, place) == WakeAndMove(permits, 0, r, place)
ReleaseSilently(r, place)     == WakeAndMove(free + 1, 0, r, place)

\* acquire()'s final loop wakes while permits and waiters are left.
WakeAll(permits, r, place) == WakeAndMove(permits, permits, r, place)

\* release() returns one permit and wakes at most one waiter.
Release(r, place) == WakeAndMove(free + 1, 1, r, place)

-----------------------------------------------------------------------------
(* slot().                                                                 *)

\* Slips: one request too many; a newcomer at the wrong end of the deque;
\* `_waiting' given back only on success.
OverloadedTooLate == active + waiting > MaxConcurrent + MaxQueue

JoinedInFront(r) == <<r>> \o line

GiveUpStillCounted(r) == /\ at[r] \in {"gone", "revoked"}
                         /\ WakeAll(IF at[r] = "revoked" THEN free + 1 ELSE free, r, "out")
                         /\ UNCHANGED <<waiting, active>>

Overloaded == active + waiting >= MaxConcurrent + MaxQueue

Reject(r) == /\ at[r] = "out"
             /\ Overloaded
             /\ UNCHANGED vars

\* acquire() does not suspend: _waiting goes up and down, _active up.
EnterAtOnce(r) == /\ at[r] = "out"
                  /\ ~Overloaded
                  /\ ~Locked
                  /\ at' = [at EXCEPT ![r] = "active"]
                  /\ free' = free - 1
                  /\ active' = active + 1
                  /\ UNCHANGED <<line, waiting>>

Joined(r) == Append(line, r)

Queue(r) == /\ at[r] = "out"
            /\ ~Overloaded
            /\ Locked
            /\ at' = [at EXCEPT ![r] = "queued"]
            /\ line' = Joined(r)
            /\ waiting' = waiting + 1
            /\ UNCHANGED <<free, active>>

\* The waiter runs with its permit, after waking whoever else can be woken.
Resume(r) == /\ at[r] = "granted"
             /\ WakeAll(free, r, "active")
             /\ waiting' = Decremented(waiting)
             /\ active' = active + 1

\* The deque without its i-th future.
Without(i) == SubSeq(line, 1, i - 1) \o SubSeq(line, i + 1, Len(line))

\* queue_timeout, or the request's task is cancelled.
Interrupt(r) == /\ \/ /\ at[r] = "queued"
                      /\ at' = [at EXCEPT ![r] = "gone"]
                      /\ \E i \in 1 .. Len(line) : line[i] = r /\ line' = Without(i)
                   \/ /\ at[r] = "granted"
                      /\ at' = [at EXCEPT ![r] = "revoked"]
                      /\ UNCHANGED line
                /\ UNCHANGED <<free, waiting, active>>

\* The interrupted waiter runs: it returns a permit it was handed, and leaves
\* through the finally clause with `acquired' False.
GiveUp(r) == /\ at[r] \in {"gone", "revoked"}
             /\ WakeAll(IF at[r] = "revoked" THEN free + 1 ELSE free, r, "out")
             /\ waiting' = Decremented(waiting)
             /\ UNCHANGED active

\* The body ends, normally or by any exception.
Exit(r) == /\ at[r] = "active"
           /\ Release(r, "out")
           /\ active' = Decremented(active)
           /\ UNCHANGED waiting

Next == \E r \in Requests : \/ Reject(r) \/ EnterAtOnce(r) \/ Queue(r) \/ Resume(r)
                            \/ Interrupt(r) \/ GiveUp(r) \/ Exit(r)

(***************************************************************************)
(* Fairness: the event loop runs every ready task, and a request inside    *)
(* ends, REQUEST_TIMEOUT bounding its upstream reads.  Timeouts are not    *)
(* fair: progress must not depend on giving up.                            *)
(***************************************************************************)
Spec == /\ Init /\ [][Next]_vars
        /\ \A r \in Requests : WF_vars(Resume(r)) /\ WF_vars(GiveUp(r)) /\ WF_vars(Exit(r))

-----------------------------------------------------------------------------
(* Properties.                                                             *)

\* The line holds exactly the pending waiters, each once.
LineOK == /\ line \in Seq(Requests)
          /\ {line[i] : i \in 1 .. Len(line)} = Those({"queued"})
          /\ \A i, j \in 1 .. Len(line) : line[i] = line[j] => i = j

\* Every variable has its type, and the line its contents.
TypeOK == /\ at \in [Requests -> Places]
          /\ LineOK
          /\ free \in Nat /\ waiting \in Nat /\ active \in Nat

\* Through every timeout and cancellation, on either side of the hand-over,
\* the counters the gate decides on and reports are the numbers of requests
\* that really wait and run, and no permit is lost or minted.
Accounting ==
  /\ active = Cardinality(Those({"active"}))
  /\ waiting = Cardinality(Those({"queued", "granted", "revoked", "gone"}))
  /\ free + Cardinality(Those({"granted", "revoked", "active"})) = MaxConcurrent

\* A permit lies idle while requests queue only if a waiter that will hand it
\* on is about to run: no wake-up is lost.
NoLostWakeup == free > 0 /\ line # <<>> => Those({"granted", "revoked"}) # {}

\* Nobody overtakes a queued request: those ahead of it only become fewer, and
\* whoever gets a permit while it stays queued was ahead of it.
Ahead(q) == {r \in Requests : \E i, j \in 1 .. Len(line) :
                                i < j /\ line[i] = r /\ line[j] = q}

KeepsOrder(q) == /\ Ahead(q)' \subseteq Ahead(q)
                 /\ \A r \in Requests : /\ at[r] \in {"out", "queued"}
                                        /\ at'[r] \in {"granted", "active"}
                                        => r \in Ahead(q)

OrderKept == \A q \in Requests : at[q] = "queued" /\ at'[q] = "queued" => KeepsOrder(q)

NoOvertaking == [][OrderKept]_vars

\* A queued request gets its permit although nobody ever times out.
NoStarvation == \A r \in Requests : at[r] = "queued" ~> at[r] # "queued"

\* The gate implements bounded admission.
AdmissionControl == INSTANCE Admission
                    WITH inside <- Those({"active"}),
                         room <- Those({"queued", "granted", "revoked", "gone"})

ImplementsAdmission == AdmissionControl!Spec
=============================================================================
