----------------------------- MODULE TokenBroker -----------------------------
(***************************************************************************)
(* The WebSocket TokenBroker (src/src/token_broker.py): connections that   *)
(* replace one another, requests for tokens, cookies and logins that are   *)
(* sent to the current one, and the bucket that limits tokens in flight.   *)
(*                                                                         *)
(* Request ids are fresh, so a request stands for its id, and each request *)
(* and each connection occurs once.  The peers are external: extensions    *)
(* answer what they were asked, at any time or never, and another server's *)
(* request_token() (_request_via_external_broker) connects like one and    *)
(* never answers.  The three tables of futures never meet and are one.     *)
(***************************************************************************)
EXTENDS Integers, FiniteSets

CONSTANTS TokenRequests,   \* request_token()
          OtherRequests,   \* request_cookies(), request_relogin()
          Extensions,      \* connections of the extension
          Outsiders,       \* connections of other servers
          None,
          MaxBurst,        \* MAX_BURST
          Impatient        \* the requests that may be cancelled

Requests    == TokenRequests \cup OtherRequests
Connections == Extensions \cup Outsiders

ASSUME BrokerAssumption == /\ TokenRequests \cap OtherRequests = {}
                           /\ IsFiniteSet(TokenRequests)
                           /\ None \notin Requests \cup Connections
                           /\ MaxBurst \in Nat \ {0}
                           /\ Impatient \subseteq Requests

VARIABLES server,
          conn,        \* the state of each connection
          handler,     \* where its _handler is
          ext,         \* _extension_ws
          extLock,     \* the handler that has _extension_lock across an await
          pc,          \* where each request is
          lock,        \* the request that has _token_lock across an await
          inFlight,    \* _in_flight_tokens
          pending,     \* the keys of the tables of futures
          done,        \* requests that were answered, or failed by stop(), while they waited
          asked,       \* the ids in the tables that were sent to an extension
          lost,        \* history: requests that did not give their place back
          cancelled    \* history: requests that were cancelled

connectionVars == <<server, conn, handler, ext, extLock>>
bucketVars     == <<lock, inFlight, lost>>
futureVars     == <<pending, done, asked>>
vars == <<connectionVars, pc, bucketVars, futureVars, cancelled>>

Init == /\ server = "down"
        /\ conn = [c \in Connections |-> "new"]
        /\ handler = [c \in Connections |-> "none"]
        /\ ext = None
        /\ extLock = None
        /\ pc = [r \in Requests |-> "idle"]
        /\ lock = None
        /\ inFlight = 0
        /\ pending = {}
        /\ done = {}
        /\ asked = {}
        /\ lost = {}
        /\ cancelled = {}

\* is_extension_connected.
Connected == ext # None /\ conn[ext] = "open"

(***************************************************************************)
(* An asyncio.Lock goes to whoever waits for it before it goes to anybody  *)
(* else.  Who of those that wait is next is left open.                     *)
(***************************************************************************)
Queueing(r)   == pc[r] \in {"queued", "leaving"}
NobodyElse(r) == \A s \in Requests \ {r} : ~Queueing(s)
LockFree(r)   == lock = None /\ NobodyElse(r)
ExtensionFree == /\ extLock = None
                 /\ \A c \in Connections : handler[c] \notin {"entering", "leaving"}
                 /\ \A r \in Requests : pc[r] # "lookup"

\* Who has a future that was not cancelled.
Awaiting == {r \in Requests : pc[r] \in {"lookup", "waiting"}}

Goto(r, place) == pc' = [pc EXCEPT ![r] = place]

Handle(c, place) == handler' = [handler EXCEPT ![c] = place]

-----------------------------------------------------------------------------
(* Connections.                                                            *)

Start == /\ server = "down"
         /\ server' = "up"
         /\ UNCHANGED <<conn, handler, ext, extLock, pc, bucketVars, futureVars, cancelled>>

\* With _extension_lock: an open connection is closed first, which suspends.
Register(c, now) == \/ /\ Connected
                       /\ conn' = [now EXCEPT ![ext] = "closing"]
                       /\ extLock' = c
                       /\ Handle(c, "replacing")
                       /\ UNCHANGED ext
                    \/ /\ ~Connected
                       /\ conn' = now
                       /\ ext' = c
                       /\ Handle(c, "reading")
                       /\ UNCHANGED extLock

Connect(c) == /\ server = "up"
              /\ conn[c] = "new"
              /\ \/ /\ ExtensionFree
                    /\ Register(c, [conn EXCEPT ![c] = "open"])
                 \/ /\ ~ExtensionFree
                    /\ conn' = [conn EXCEPT ![c] = "open"]
                    /\ Handle(c, "entering")
                    /\ UNCHANGED <<ext, extLock>>
              /\ UNCHANGED <<server, pc, bucketVars, futureVars, cancelled>>

Enter(c) == /\ handler[c] = "entering"
            /\ extLock = None
            /\ Register(c, conn)
            /\ UNCHANGED <<server, pc, bucketVars, futureVars, cancelled>>

\* Slip: the lock stays taken if closing the old connection raises.
ReplacedKeepingLock(c) == /\ handler[c] = "replacing"
                          /\ conn' = [conn EXCEPT ![ext] = "closed"]
                          /\ ext' = c
                          /\ Handle(c, "reading")
                          /\ UNCHANGED <<server, extLock, pc, bucketVars, futureVars, cancelled>>

\* The old connection is closed, or close() has given up.
Replaced(c) == /\ handler[c] = "replacing"
               /\ conn' = [conn EXCEPT ![ext] = "closed"]
               /\ ext' = c
               /\ extLock' = None
               /\ Handle(c, "reading")
               /\ UNCHANGED <<server, pc, bucketVars, futureVars, cancelled>>

\* The peer closes, or the network does.  Another server's request ends so.
Drop(c) == /\ conn[c] = "open"
           /\ conn' = [conn EXCEPT ![c] = "closed"]
           /\ UNCHANGED <<server, handler, ext, extLock, pc, bucketVars, futureVars, cancelled>>

\* Slip: whoever leaves takes the current connection along.
ForgetAny(c) == ext' = None /\ Handle(c, "gone")

Forget(c) == /\ ext' = IF ext = c THEN None ELSE ext
             /\ Handle(c, "gone")

\* The messages of a closed connection are read to the end; then the finally clause.
Depart(c) == /\ \/ /\ handler[c] = "reading"
                   /\ conn[c] = "closed"
                   /\ IF ExtensionFree THEN Forget(c) ELSE Handle(c, "leaving") /\ UNCHANGED ext
                \/ /\ handler[c] = "leaving"
                   /\ extLock = None
                   /\ Forget(c)
             /\ UNCHANGED <<server, conn, extLock, pc, bucketVars, futureVars, cancelled>>

-----------------------------------------------------------------------------
(* Answers, and the end of the server.                                     *)

\* _resolve_token, _resolve_cookies, _resolve_relogin, for a good answer or a bad
\* one.  An answer whose id is in no table changes nothing.
Receive(r) == /\ r \in asked
              /\ \E c \in Extensions : handler[c] = "reading"
              /\ asked' = asked \ {r}
              /\ pending' = pending \ {r}
              /\ done' = IF pc[r] = "waiting" THEN done \cup {r} ELSE done
              /\ UNCHANGED <<connectionVars, pc, bucketVars, cancelled>>

\* stop() waits for the handlers of the connections, which Drop closes one by one.
Stop == /\ server = "up"
        /\ server' = "stopping"
        /\ UNCHANGED <<conn, handler, ext, extLock, pc, bucketVars, futureVars, cancelled>>

\* Slip: the tables are cleared and the futures are not failed.
StopClearing == /\ server = "stopping"
                /\ \A c \in Connections : handler[c] \in {"none", "gone"}
                /\ server' = "down"
                /\ pending' = {}
                /\ asked' = {}
                /\ UNCHANGED <<conn, handler, ext, extLock, pc, bucketVars, done, cancelled>>

Stopped == /\ server = "stopping"
           /\ \A c \in Connections : handler[c] \in {"none", "gone"}
           /\ server' = "down"
           /\ pending' = {}
           /\ asked' = {}
           /\ done' = done \cup (pending \cap Awaiting)
           /\ UNCHANGED <<conn, handler, ext, extLock, pc, bucketVars, cancelled>>

-----------------------------------------------------------------------------
(* Requests.                                                               *)

\* The end of a request, with n tokens in flight: a token gives its place back.
Finally(r, n, free) == \/ /\ r \in OtherRequests
                          /\ Goto(r, "ended")
                          /\ inFlight' = n
                       \/ /\ r \in TokenRequests
                          /\ free
                          /\ Goto(r, "ended")
                          /\ inFlight' = IF n > 0 THEN n - 1 ELSE 0
                       \/ /\ r \in TokenRequests
                          /\ ~free
                          /\ Goto(r, "leaving")
                          /\ inFlight' = n

\* The message is sent to whatever is connected now; or nothing is, or send() raises.
Send(r, n, free, ids) == \/ /\ Connected
                            /\ Goto(r, "waiting")
                            /\ inFlight' = n
                            /\ pending' = ids
                            /\ asked' = IF ext \in Extensions THEN asked \cup {r} ELSE asked
                         \/ /\ Finally(r, n, free)
                            /\ pending' = ids \ {r}
                            /\ UNCHANGED asked

Ask(r, n, free) == \/ /\ ExtensionFree
                      /\ Send(r, n, free, pending \cup {r})
                   \/ /\ ~ExtensionFree
                      /\ Goto(r, "lookup")
                      /\ inFlight' = n
                      /\ pending' = pending \cup {r}
                      /\ UNCHANGED asked

\* With _token_lock: a request that waits for a place, or for its turn, keeps the lock.
Go(r)     == lock' = None /\ Ask(r, inFlight + 1, NobodyElse(r))
Bucket(r) == \/ /\ inFlight >= MaxBurst
                /\ lock' = r
                /\ Goto(r, "full")
                /\ UNCHANGED <<inFlight, pending, asked>>
             \/ /\ inFlight < MaxBurst
                /\ lock' = r
                /\ Goto(r, "pacing")
                /\ UNCHANGED <<inFlight, pending, asked>>
             \/ /\ inFlight < MaxBurst
                /\ Go(r)

\* A call without a server or a connection raises and changes nothing.
CallToken(r) == /\ r \in TokenRequests
                /\ \/ /\ LockFree(r)
                      /\ Bucket(r)
                   \/ /\ ~LockFree(r)
                      /\ Goto(r, "queued")
                      /\ UNCHANGED <<lock, inFlight, pending, asked>>

CallOther(r) == /\ r \in OtherRequests
                /\ Ask(r, inFlight, TRUE)
                /\ UNCHANGED lock

Call(r) == /\ pc[r] = "idle"
           /\ server # "down"
           /\ Connected
           /\ CallToken(r) \/ CallOther(r)
           /\ UNCHANGED <<connectionVars, lost, done, cancelled>>

TakeLock(r) == /\ pc[r] = "queued"
               /\ lock = None
               /\ Bucket(r)
               /\ UNCHANGED <<connectionVars, lost, done, cancelled>>

Wake(r) == /\ pc[r] \in {"full", "pacing"}
           /\ pc[r] = "full" => inFlight < MaxBurst
           /\ Go(r)
           /\ UNCHANGED <<connectionVars, lost, done, cancelled>>

LookUp(r) == /\ pc[r] = "lookup"
             /\ extLock = None
             /\ Send(r, inFlight, LockFree(r), pending)
             /\ UNCHANGED <<connectionVars, lock, lost, done, cancelled>>

\* Slip: an answered token request ends and keeps its place.
ReturnKeepingPlace(r) == /\ pc[r] = "waiting"
                         /\ r \in done
                         /\ Goto(r, "ended")
                         /\ UNCHANGED <<connectionVars, bucketVars, futureVars, cancelled>>

Return(r) == /\ pc[r] = "waiting"
             /\ r \in done
             /\ Finally(r, inFlight, LockFree(r))
             /\ UNCHANGED <<connectionVars, lock, lost, futureVars, cancelled>>

\* Slip: the id of a request that timed out stays in its table.
TimeoutKeepingId(r) == /\ pc[r] = "waiting"
                       /\ r \notin done
                       /\ asked' = asked \ {r}
                       /\ Finally(r, inFlight, LockFree(r))
                       /\ UNCHANGED <<connectionVars, lock, lost, pending, done, cancelled>>

Timeout(r) == /\ pc[r] = "waiting"
              /\ r \notin done
              /\ pending' = pending \ {r}
              /\ asked' = asked \ {r}
              /\ Finally(r, inFlight, LockFree(r))
              /\ UNCHANGED <<connectionVars, lock, lost, done, cancelled>>

Release(r) == /\ pc[r] = "leaving"
              /\ lock = None
              /\ Finally(r, inFlight, TRUE)
              /\ UNCHANGED <<connectionVars, lock, lost, futureVars, cancelled>>

-----------------------------------------------------------------------------
(***************************************************************************)
(* A request is cancelled while it is suspended.  CancelledError is no     *)
(* Exception: the id stays in its table, and a request that waits for the  *)
(* lock to give its place back never does.                                 *)
(***************************************************************************)
CancelQueued(r) == /\ pc[r] = "queued"
                   /\ Goto(r, "ended")
                   /\ UNCHANGED <<lock, inFlight, lost>>

CancelHolding(r) == /\ pc[r] \in {"full", "pacing"}
                    /\ lock' = None
                    /\ Goto(r, "ended")
                    /\ UNCHANGED <<inFlight, lost>>

CancelAsking(r) == /\ pc[r] \in {"lookup", "waiting"}
                   /\ Finally(r, inFlight, LockFree(r))
                   /\ UNCHANGED <<lock, lost>>

CancelLeaving(r) == /\ pc[r] = "leaving"
                    /\ Goto(r, "ended")
                    /\ lost' = lost \cup {r}
                    /\ UNCHANGED <<lock, inFlight>>

Cancel(r) == /\ r \in Impatient \ cancelled
             /\ cancelled' = cancelled \cup {r}
             /\ CancelQueued(r) \/ CancelHolding(r) \/ CancelAsking(r) \/ CancelLeaving(r)
             /\ UNCHANGED <<connectionVars, futureVars>>

-----------------------------------------------------------------------------
Handler(c) == Enter(c) \/ Replaced(c) \/ Depart(c)
Proceed(r) == TakeLock(r) \/ Wake(r) \/ LookUp(r) \/ Return(r) \/ Timeout(r) \/ Release(r)

Next == \/ Start \/ Stop \/ Stopped
        \/ \E c \in Connections : Connect(c) \/ Drop(c) \/ Handler(c)
        \/ \E r \in Requests : Call(r) \/ Proceed(r) \/ Receive(r) \/ Cancel(r)

(***************************************************************************)
(* What the event loop schedules goes on: handlers, requests that can run, *)
(* timers, and the close of an old connection, which has a timeout.        *)
(* Nothing is promised of peers, callers or whoever cancels.               *)
(***************************************************************************)
Fairness == /\ \A c \in Connections : WF_vars(Handler(c))
            /\ \A r \in Requests : WF_vars(Proceed(r))

Spec == Init /\ [][Next]_vars /\ Fairness

-----------------------------------------------------------------------------
(* Properties.                                                             *)

\* The counter stays a number, the locks are held by those that wait with them,
\* and every table only knows requests.
TypeOK == /\ server \in {"down", "up", "stopping"}
          /\ conn \in [Connections -> {"new", "open", "closing", "closed"}]
          /\ handler \in [Connections ->
                            {"none", "entering", "replacing", "reading", "leaving", "gone"}]
          /\ ext \in Connections \cup {None}
          /\ extLock \in Connections \cup {None}
          /\ pc \in [Requests -> {"idle", "queued", "full", "pacing", "lookup",
                                  "waiting", "leaving", "ended"}]
          /\ lock \in TokenRequests \cup {None}
          /\ inFlight \in 0 .. MaxBurst
          /\ pending \subseteq Requests
          /\ done \subseteq Requests
          /\ asked \subseteq Requests
          /\ lost \subseteq TokenRequests
          /\ cancelled \subseteq Requests

\* Every token in flight is a request that will give its place back, or one
\* that was cancelled while it waited to (token_broker.py: lines 286 and 313-315).
InPlace == {r \in TokenRequests : pc[r] \in {"lookup", "waiting", "leaving"}}
SlotsAccounted == inFlight = Cardinality(InPlace \cup lost)

\* No id is left behind: who is in a table waits for the answer, or was
\* cancelled (lines 306-312).
PendingIsAwaited == pending \subseteq Awaiting \cup cancelled

\* A connection that is open and read is the one requests are sent to, however
\* the handlers that come and go overlap (lines 132-140 and 174-177).
ConnectedIsRegistered == \A c \in Connections :
    handler[c] = "reading" /\ conn[c] = "open" => ext = c

\* Once stop() has returned nobody waits for an answer that cannot come (lines 111-123).
StopAnswersAll == server = "down" => {r \in Requests : pc[r] = "waiting"} \subseteq done

\* Every request ends, whatever the extension does (each occurs once, so in the
\* end none is under way), unless one finds the bucket full: it sleeps with the
\* lock that every place is given back under (lines 272-276 and 313-315).
EndsUnlessFull == []<>(\/ \A r \in Requests : pc[r] \in {"idle", "ended"}
                       \/ \E s \in TokenRequests : pc[s] = "full")

\* And that one sleeps until it is cancelled (lines 272-276 and 313-315).
FullIsForever == \A r \in TokenRequests : pc[r] = "full" => inFlight >= MaxBurst
=============================================================================
