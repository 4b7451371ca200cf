-------------------------- MODULE TokenBrokerProofs --------------------------
(***************************************************************************)
(* What the broker guarantees for any number of connections, requests and  *)
(* places in flight.  The invariant comes in two halves.  Connections: an  *)
(* open one has a handler, the extension's lock is with the handler that   *)
(* replaces, and nobody is registered before it reads.  Requests: the      *)
(* token lock is with who sleeps, places are counted, an unanswered id is  *)
(* in its table; of the other half it needs that nothing is open while the *)
(* server is down.                                                         *)
(***************************************************************************)
EXTENDS TokenBroker, FiniteSetTheorems, TLAPS

USE BrokerAssumption DEF BrokerAssumption

ConnectionTypes == /\ server \in {"down", "up", "stopping"}
                   /\ conn \in [Connections -> {"new", "open", "closing", "closed"}]
                   /\ handler \in [Connections -> {"none", "entering", "replacing",
                                                   "reading", "leaving", "gone"}]
                   /\ ext \in Connections \cup {None}
                   /\ extLock \in Connections \cup {None}

OpenIsHandled == \A c \in Connections :
    conn[c] = "open" => handler[c] \in {"entering", "replacing", "reading"}
NewIsUnhandled == \A c \in Connections : conn[c] = "new" => handler[c] = "none"
ReplacerHasLock == \A c \in Connections : handler[c] = "replacing" => extLock = c
RegisteredReads == \A c \in Connections :
    handler[c] \in {"none", "entering", "replacing"} => ext # c
DownIsClosed    == server = "down" => \A c \in Connections : conn[c] # "open"

ConnectionInv == /\ ConnectionTypes
                 /\ OpenIsHandled /\ NewIsUnhandled /\ ReplacerHasLock /\ RegisteredReads
                 /\ ConnectedIsRegistered /\ DownIsClosed

-----------------------------------------------------------------------------
\* Registering a connection whose handler is new or has waited for the lock.
LEMMA RegisterKeeps ==
  ASSUME ConnectionInv, UNCHANGED server, extLock = None,
         NEW c \in Connections, NEW now, Register(c, now),
         \/ handler[c] = "entering" /\ now = conn
         \/ handler[c] = "none" /\ server = "up" /\ now = [conn EXCEPT ![c] = "open"]
  PROVE  ConnectionInv'
<1> USE DEF ConnectionInv, ConnectionTypes, OpenIsHandled, NewIsUnhandled, ReplacerHasLock,
            RegisteredReads, ConnectedIsRegistered, DownIsClosed, Handle
<1>0. /\ now \in [Connections -> {"new", "open", "closing", "closed"}]
      /\ \A d \in Connections \ {c} : now[d] = conn[d]
      /\ now[c] # "new"
      /\ handler[c] \in {"none", "entering"}
  OBVIOUS
<1>1. CASE Connected
  <2>1. /\ ext \in Connections /\ ext # c
        /\ conn' = [now EXCEPT ![ext] = "closing"]
        /\ extLock' = c /\ ext' = ext
        /\ handler' = [handler EXCEPT ![c] = "replacing"]
    BY <1>1 DEF Register, Connected
  <2>2. ConnectionTypes'
    BY <1>0, <2>1
  <2>3. \A d \in Connections : handler[d] # "replacing"
    OBVIOUS
  <2> QED
    BY <1>0, <2>1, <2>2, <2>3
<1>2. CASE ~Connected
  <2>1. /\ conn' = now /\ ext' = c /\ extLock' = None
        /\ handler' = [handler EXCEPT ![c] = "reading"]
    BY <1>2 DEF Register
  <2>2. \A d \in Connections : handler[d] = "reading" => conn[d] # "open"
    BY <1>2 DEF Connected
  <2>3. ConnectionTypes'
    BY <1>0, <2>1
  <2> QED
    BY <1>0, <2>1, <2>2, <2>3
<1> QED
  BY <1>1, <1>2

\* Connections keep their half.
LEMMA ConnectionStep ==
  ASSUME ConnectionInv, [Next]_vars
  PROVE  ConnectionInv'
<1> USE DEF ConnectionInv, ConnectionTypes, OpenIsHandled, NewIsUnhandled, ReplacerHasLock,
            RegisteredReads, ConnectedIsRegistered, DownIsClosed, Handle
<1>1. CASE UNCHANGED connectionVars
  BY <1>1 DEF connectionVars
<1>2. CASE Start \/ Stop \/ Stopped
  BY <1>2 DEF Start, Stop, Stopped
<1>3. ASSUME NEW c \in Connections, Connect(c)
      PROVE  ConnectionInv'
  <2>1. CASE ExtensionFree /\ Register(c, [conn EXCEPT ![c] = "open"])
    <3>1. handler[c] = "none" /\ extLock = None
      BY <1>3, <2>1 DEF Connect, ExtensionFree
    <3> QED
      BY <1>3, <2>1, <3>1, RegisterKeeps DEF Connect
  <2>2. CASE /\ conn' = [conn EXCEPT ![c] = "open"]
             /\ Handle(c, "entering")
             /\ UNCHANGED <<ext, extLock>>
    BY <1>3, <2>2 DEF Connect
  <2> QED
    BY <1>3, <2>1, <2>2 DEF Connect
<1>4. ASSUME NEW c \in Connections, Enter(c)
      PROVE  ConnectionInv'
  BY <1>4, RegisterKeeps DEF Enter
<1>5. ASSUME NEW c \in Connections, Replaced(c)
      PROVE  ConnectionInv'
  BY <1>5 DEF Replaced
<1>6. ASSUME NEW c \in Connections, Drop(c)
      PROVE  ConnectionInv'
  BY <1>6 DEF Drop
<1>7. ASSUME NEW c \in Connections, Depart(c)
      PROVE  ConnectionInv'
  BY <1>7 DEF Depart, Forget
<1>8. ASSUME NEW r \in Requests, Call(r) \/ Proceed(r) \/ Receive(r) \/ Cancel(r)
      PROVE  UNCHANGED connectionVars
  BY <1>8 DEF Call, Proceed, TakeLock, Wake, LookUp, Return, Timeout, Release, Receive, Cancel
<1> QED
  BY <1>1, <1>2, <1>3, <1>4, <1>5, <1>6, <1>7, <1>8 DEF Next, Handler, vars

-----------------------------------------------------------------------------
Places == {"idle", "queued", "full", "pacing", "lookup", "waiting", "leaving", "ended"}
Holders == InPlace \cup lost

BucketTypes == /\ pc \in [Requests -> Places]
               /\ lock \in TokenRequests \cup {None}
               /\ inFlight \in 0 .. MaxBurst
               /\ lost \subseteq TokenRequests

OthersPassBy == \A r \in OtherRequests : pc[r] \notin {"queued", "full", "pacing", "leaving"}
SleeperHasLock == /\ \A r \in Requests : pc[r] \in {"full", "pacing"} => lock = r
                  /\ lock # None => pc[lock] \in {"full", "pacing"}
PacingHasRoom == \A r \in Requests : pc[r] = "pacing" => inFlight < MaxBurst
LostHaveEnded == \A r \in lost : pc[r] = "ended"

BucketInv == /\ BucketTypes
             /\ OthersPassBy /\ SleeperHasLock /\ PacingHasRoom /\ LostHaveEnded
             /\ FullIsForever /\ SlotsAccounted

\* Counting follows one request that enters or leaves the set of holders.
LEMMA Counted ==
  ASSUME BucketTypes, BucketTypes', SlotsAccounted, NEW r \in Requests,
         Holders' \ {r} = Holders \ {r},
         inFlight' = inFlight + (IF r \in Holders' THEN 1 ELSE 0)
                              - (IF r \in Holders THEN 1 ELSE 0)
  PROVE  SlotsAccounted'
<1>1. IsFiniteSet(Holders) /\ IsFiniteSet(Holders')
  <2>1. Holders \subseteq TokenRequests /\ Holders' \subseteq TokenRequests
    BY DEF Holders, InPlace, BucketTypes
  <2> QED
    BY <2>1, FS_Subset
<1>2. /\ Cardinality(Holders \ {r}) = Cardinality(Holders) - (IF r \in Holders THEN 1 ELSE 0)
      /\ Cardinality(Holders' \ {r}) = Cardinality(Holders') - (IF r \in Holders' THEN 1 ELSE 0)
      /\ Cardinality(Holders) \in Nat /\ Cardinality(Holders') \in Nat
  BY <1>1, FS_RemoveElement, FS_CardinalityType
<1>3. Cardinality(Holders \ {r}) = Cardinality(Holders' \ {r})
  OBVIOUS
<1>4. inFlight = Cardinality(Holders)
  BY DEF SlotsAccounted, Holders
<1>5. inFlight' = Cardinality(Holders')
  BY <1>2, <1>3, <1>4
<1> QED
  BY <1>5 DEF SlotsAccounted, Holders

\* A request moves, and takes the lock along or not.
LEMMA MoveKeeps ==
  ASSUME BucketInv, NEW r \in Requests, NEW place \in Places,
         pc' = [pc EXCEPT ![r] = place],
         r \in OtherRequests => place \notin {"queued", "full", "pacing", "leaving"},
         lost' \in {lost, lost \cup {r}}, r \in lost' => r \in TokenRequests /\ place = "ended",
         inFlight' = inFlight + (IF r \in Holders' THEN 1 ELSE 0)
                              - (IF r \in Holders THEN 1 ELSE 0),
         inFlight' # inFlight => lock \in {None, r} /\ place \notin {"full", "pacing"}
                                 /\ inFlight' \in 0 .. MaxBurst,
         place = "pacing" => inFlight < MaxBurst,
         place = "full" => inFlight >= MaxBurst,
         \/ place \in {"full", "pacing"} /\ lock = None /\ lock' = r
         \/ place \notin {"full", "pacing"} /\ lock \in {None, r} /\ lock' = None
         \/ place \notin {"full", "pacing"} /\ lock # r /\ lock' = lock
  PROVE  BucketInv'
<1> USE DEF BucketInv, BucketTypes, OthersPassBy, SleeperHasLock, PacingHasRoom,
            LostHaveEnded, FullIsForever
<1>1. BucketTypes'
  <2>1. lost' \subseteq TokenRequests
    OBVIOUS
  <2>2. pc' \in [Requests -> Places]
    OBVIOUS
  <2>3. lock' \in TokenRequests \cup {None}
    BY DEF Requests
  <2> QED
    BY <2>1, <2>2, <2>3
<1>2. OthersPassBy' /\ LostHaveEnded'
  OBVIOUS
<1>3. SleeperHasLock'
  OBVIOUS
<1>4. PacingHasRoom' /\ FullIsForever'
  <2>1. inFlight' = inFlight \/ \A s \in Requests \ {r} : pc[s] \notin {"full", "pacing"}
    OBVIOUS
  <2>2. \A s \in Requests \ {r} : pc'[s] = pc[s]
    OBVIOUS
  <2>3. pc'[r] = place /\ (place \in {"full", "pacing"} => inFlight' = inFlight)
    OBVIOUS
  <2> QED
    BY <2>1, <2>2, <2>3 DEF Requests
<1>5. Holders' \ {r} = Holders \ {r}
  BY DEF Holders, InPlace
<1>6. SlotsAccounted'
  BY <1>1, <1>5, Counted
<1> QED
  BY <1>1, <1>2, <1>3, <1>4, <1>6

\* A step that concerns no request's place.
LEMMA BucketIdle ==
  ASSUME BucketInv, UNCHANGED <<pc, bucketVars>>
  PROVE  BucketInv'
BY DEF BucketInv, BucketTypes, OthersPassBy, SleeperHasLock, PacingHasRoom, LostHaveEnded,
       FullIsForever, SlotsAccounted, InPlace, bucketVars

\* Who has a place.
LEMMA WhoHolds ==
  ASSUME BucketInv, NEW r \in Requests
  PROVE  r \in Holders <=> \/ r \in TokenRequests /\ pc[r] \in {"lookup", "waiting", "leaving"}
                           \/ r \in lost
BY DEF Holders, InPlace, BucketInv, BucketTypes

\* Passing the bucket counts a token, until it has given up at once.
LEMMA GoKeeps ==
  ASSUME BucketInv, NEW r \in TokenRequests, inFlight < MaxBurst, lock \in {None, r},
         pc[r] \in {"idle", "queued", "full", "pacing"}, Go(r), UNCHANGED lost
  PROVE  BucketInv'
<1> DEFINE places == {"lookup", "waiting", "leaving"}
<1>0. r \in Requests /\ r \notin OtherRequests
  BY DEF Requests
<1>1. PICK place \in places \cup {"ended"} :
        /\ pc' = [pc EXCEPT ![r] = place]
        /\ inFlight' = IF place \in places THEN inFlight + 1 ELSE inFlight
  <2>1. inFlight \in Nat
    BY DEF BucketInv, BucketTypes
  <2>2. CASE Goto(r, "lookup") /\ inFlight' = inFlight + 1
    BY <2>2 DEF Goto
  <2>3. CASE Goto(r, "waiting") /\ inFlight' = inFlight + 1
    BY <2>3 DEF Goto
  <2>4. CASE Finally(r, inFlight + 1, NobodyElse(r))
    <3>1. CASE NobodyElse(r)
      BY <1>0, <2>1, <2>4, <3>1 DEF Finally, Goto
    <3>2. CASE ~NobodyElse(r)
      BY <1>0, <2>1, <2>4, <3>2 DEF Finally, Goto
    <3> QED
      BY <3>1, <3>2
  <2> QED
    BY <2>2, <2>3, <2>4 DEF Go, Ask, Send
<1>2. lock' = None
  BY DEF Go
<1>3. r \notin Holders
  BY <1>0, WhoHolds DEF BucketInv, LostHaveEnded
<1>4. r \in Holders' <=> place \in places
  BY <1>0, <1>1, <1>3 DEF Holders, InPlace, BucketInv, BucketTypes
<1>5. /\ inFlight' = inFlight + (IF r \in Holders' THEN 1 ELSE 0)
                              - (IF r \in Holders THEN 1 ELSE 0)
      /\ inFlight' \in 0 .. MaxBurst
  BY <1>1, <1>3, <1>4 DEF BucketInv, BucketTypes
<1>6. r \notin lost /\ place \in Places
  BY <1>3 DEF Holders, Places
<1> QED
  BY <1>0, <1>1, <1>2, <1>5, <1>6, MoveKeeps

\* A request that ends gives its place back, or waits to.
Ends(r) == \/ r \in OtherRequests /\ Goto(r, "ended") /\ inFlight' = inFlight
           \/ /\ r \in TokenRequests /\ lock = None
              /\ Goto(r, "ended") /\ inFlight' = IF inFlight > 0 THEN inFlight - 1 ELSE 0
           \/ r \in TokenRequests /\ Goto(r, "leaving") /\ inFlight' = inFlight

LEMMA FinallyKeeps ==
  ASSUME BucketInv, NEW r \in Requests, Ends(r),
         pc[r] \in {"lookup", "waiting"} \/ (r \in TokenRequests /\ pc[r] = "leaving"),
         UNCHANGED <<lock, lost>>
  PROVE  BucketInv'
<1>0. /\ inFlight \in 0 .. MaxBurst /\ pc \in [Requests -> Places]
      /\ r \notin lost /\ lost \subseteq TokenRequests
      /\ lock # r
      /\ {"ended", "leaving"} \subseteq Places
  BY DEF BucketInv, BucketTypes, LostHaveEnded, SleeperHasLock, Places
<1>1. CASE r \in OtherRequests /\ Goto(r, "ended") /\ inFlight' = inFlight
  <2>1. Goto(r, "ended") /\ inFlight' = inFlight
    BY <1>1
  <2>2. r \notin Holders /\ r \notin Holders'
    BY <1>0, <1>1 DEF Holders, InPlace
  <2>3. inFlight' = inFlight + (IF r \in Holders' THEN 1 ELSE 0)
                                 - (IF r \in Holders THEN 1 ELSE 0)
    BY <1>0, <2>1, <2>2
  <2>4. "ended" \in Places /\ pc' = [pc EXCEPT ![r] = "ended"]
    BY <1>0, <2>1 DEF Goto
  <2> QED
    BY <1>0, <2>1, <2>3, <2>4, MoveKeeps
<1>2. CASE /\ r \in TokenRequests /\ lock = None
           /\ Goto(r, "ended") /\ inFlight' = IF inFlight > 0 THEN inFlight - 1 ELSE 0
  <2>1. /\ Goto(r, "ended") /\ inFlight' = (IF inFlight > 0 THEN inFlight - 1 ELSE 0)
        /\ r \notin OtherRequests /\ lock = None
    BY <1>2
  <2>2. r \in Holders /\ r \notin Holders'
    BY <1>0, <1>2, <2>1 DEF Holders, InPlace, Goto
  <2>3. inFlight > 0
    <3>1. Holders \subseteq TokenRequests
      BY <1>0 DEF Holders, InPlace
    <3>2. IsFiniteSet(Holders)
      BY <3>1, FS_Subset
    <3>3. Cardinality(Holders) # 0
      BY <2>2, <3>2, FS_EmptySet
    <3> QED
      BY <1>0, <3>3 DEF BucketInv, SlotsAccounted, Holders
  <2>4. /\ inFlight' = inFlight + (IF r \in Holders' THEN 1 ELSE 0)
                                    - (IF r \in Holders THEN 1 ELSE 0)
        /\ inFlight' \in 0 .. MaxBurst
    BY <1>0, <2>1, <2>2, <2>3
  <2>5. "ended" \in Places /\ pc' = [pc EXCEPT ![r] = "ended"]
    BY <1>0, <2>1 DEF Goto
  <2> QED
    BY <1>0, <2>1, <2>4, <2>5, MoveKeeps
<1>3. CASE r \in TokenRequests /\ Goto(r, "leaving") /\ inFlight' = inFlight
  <2>1. Goto(r, "leaving") /\ inFlight' = inFlight /\ r \notin OtherRequests
    BY <1>3
  <2>2. r \in Holders /\ r \in Holders'
    BY <1>0, <1>3, <2>1 DEF Holders, InPlace, Goto
  <2>3. inFlight' = inFlight + (IF r \in Holders' THEN 1 ELSE 0)
                                 - (IF r \in Holders THEN 1 ELSE 0)
    BY <1>0, <2>1, <2>2
  <2>4. "leaving" \in Places /\ pc' = [pc EXCEPT ![r] = "leaving"]
    BY <1>0, <2>1 DEF Goto
  <2> QED
    BY <1>0, <2>1, <2>3, <2>4, MoveKeeps
<1> QED
  BY <1>1, <1>2, <1>3 DEF Ends

\* The finally clause, when the lock can be free only if nobody has it.
LEMMA FinallyEnds ==
  ASSUME NEW r \in Requests, Finally(r, inFlight, LockFree(r))
  PROVE  Ends(r)
<1>1. CASE LockFree(r)
  BY <1>1 DEF LockFree, Finally, Ends
<1>2. CASE ~LockFree(r)
  BY <1>2 DEF Finally, Ends
<1> QED
  BY <1>1, <1>2

\* A request at the bucket waits for a place, for its turn, or goes.
LEMMA BucketKeeps ==
  ASSUME BucketInv, NEW r \in TokenRequests, lock = None, pc[r] \in {"idle", "queued"},
         Bucket(r), UNCHANGED lost
  PROVE  BucketInv'
<1>1. CASE inFlight < MaxBurst /\ Go(r)
  BY <1>1, GoKeeps
<1>2. ASSUME NEW place \in {"full", "pacing"}, Goto(r, place), lock' = r, UNCHANGED inFlight,
             place = "full" => inFlight >= MaxBurst, place = "pacing" => inFlight < MaxBurst
      PROVE  BucketInv'
  <2>1. r \in Requests /\ r \notin OtherRequests /\ place \in Places
    BY DEF Requests, Places
  <2>2. r \notin Holders
    BY <2>1, WhoHolds DEF BucketInv, LostHaveEnded
  <2>3. pc' = [pc EXCEPT ![r] = place] /\ r \notin Holders'
    BY <1>2, <2>1, <2>2 DEF Goto, Holders, InPlace, BucketInv, BucketTypes
  <2>4. inFlight' = inFlight + (IF r \in Holders' THEN 1 ELSE 0)
                             - (IF r \in Holders THEN 1 ELSE 0)
    BY <1>2, <2>2, <2>3 DEF BucketInv, BucketTypes
  <2>5. r \notin lost'
    BY <2>2 DEF Holders
  <2> QED
    BY <1>2, <2>1, <2>3, <2>4, <2>5, MoveKeeps
<1> QED
  BY <1>1, <1>2 DEF Bucket

\* The bucket keeps its half.
LEMMA BucketStep ==
  ASSUME BucketInv, [Next]_vars
  PROVE  BucketInv'
<1>1. CASE UNCHANGED <<pc, bucketVars>>
  BY <1>1, BucketIdle
<1>2. ASSUME NEW r \in Requests, Call(r)
      PROVE  BucketInv'
  <2>1. CASE r \in TokenRequests /\ LockFree(r) /\ Bucket(r)
    BY <1>2, <2>1, BucketKeeps DEF Call, LockFree
  <2>2. CASE r \in TokenRequests /\ Goto(r, "queued") /\ UNCHANGED <<lock, inFlight>>
    <3>1. r \notin OtherRequests /\ "queued" \in Places /\ lock # r
          /\ pc' = [pc EXCEPT ![r] = "queued"]
      BY <1>2, <2>2 DEF Call, Places, Goto, BucketInv, SleeperHasLock
    <3>2. r \notin Holders /\ r \notin Holders'
      BY <1>2, <2>2, <3>1 DEF Call, Holders, InPlace, BucketInv, BucketTypes, LostHaveEnded
    <3>3. UNCHANGED lost /\ r \notin lost
      BY <1>2, <3>2 DEF Call, Holders
    <3>4. inFlight' = inFlight + (IF r \in Holders' THEN 1 ELSE 0)
                               - (IF r \in Holders THEN 1 ELSE 0)
      BY <2>2, <3>2 DEF BucketInv, BucketTypes
    <3> QED
      BY <2>2, <3>1, <3>3, <3>4, MoveKeeps
  <2>3. CASE CallOther(r)
    <3>1. r \in OtherRequests /\ r \notin TokenRequests /\ UNCHANGED <<lock, lost>>
          /\ pc[r] = "idle" /\ lock # r
      BY <1>2, <2>3 DEF Call, CallOther, BucketInv, SleeperHasLock
    <3>2. PICK place \in {"lookup", "waiting", "ended"} : Goto(r, place) /\ UNCHANGED inFlight
      BY <2>3, <3>1 DEF CallOther, Ask, Send, Finally
    <3>3. r \notin Holders /\ r \notin Holders' /\ r \notin lost
      BY <3>1 DEF Holders, InPlace, BucketInv, BucketTypes
    <3>4. inFlight' = inFlight + (IF r \in Holders' THEN 1 ELSE 0)
                               - (IF r \in Holders THEN 1 ELSE 0)
      BY <3>2, <3>3 DEF BucketInv, BucketTypes
    <3>5. place \in Places /\ pc' = [pc EXCEPT ![r] = place]
      BY <3>2 DEF Places, Goto
    <3> QED
      BY <3>1, <3>2, <3>3, <3>4, <3>5, MoveKeeps
  <2> QED
    BY <1>2, <2>1, <2>2, <2>3 DEF Call, CallToken
<1>3. ASSUME NEW r \in Requests, TakeLock(r)
      PROVE  BucketInv'
  <2>1. r \in TokenRequests
    BY <1>3 DEF TakeLock, BucketInv, OthersPassBy, Requests
  <2> QED
    BY <1>3, <2>1, BucketKeeps DEF TakeLock
<1>4. ASSUME NEW r \in Requests, Wake(r)
      PROVE  BucketInv'
  <2>1. r \in TokenRequests /\ lock = r /\ inFlight < MaxBurst
    BY <1>4 DEF Wake, BucketInv, OthersPassBy, Requests, SleeperHasLock, PacingHasRoom
  <2> QED
    BY <1>4, <2>1, GoKeeps DEF Wake
<1>5. ASSUME NEW r \in Requests, LookUp(r)
      PROVE  BucketInv'
  <2>1. CASE Finally(r, inFlight, LockFree(r))
    <3>1. Ends(r) /\ pc[r] = "lookup" /\ UNCHANGED <<lock, lost>>
      BY <1>5, <2>1, FinallyEnds DEF LookUp
    <3> QED
      BY <3>1, FinallyKeeps
  <2>2. CASE Goto(r, "waiting") /\ UNCHANGED inFlight
    <3>1. UNCHANGED <<lock, lost>> /\ pc[r] = "lookup" /\ lock # r
      BY <1>5 DEF LookUp, BucketInv, SleeperHasLock
    <3>2. pc' = [pc EXCEPT ![r] = "waiting"] /\ "waiting" \in Places
      BY <2>2 DEF Goto, Places
    <3>3. (r \in Holders' <=> r \in Holders) /\ r \notin lost
      BY <3>1, <3>2 DEF Holders, InPlace, BucketInv, BucketTypes, LostHaveEnded
    <3>4. inFlight' = inFlight + (IF r \in Holders' THEN 1 ELSE 0)
                               - (IF r \in Holders THEN 1 ELSE 0)
      BY <2>2, <3>3 DEF BucketInv, BucketTypes
    <3> QED
      BY <2>2, <3>1, <3>2, <3>3, <3>4, MoveKeeps
  <2> QED
    BY <1>5, <2>1, <2>2 DEF LookUp, Send
<1>6. ASSUME NEW r \in Requests, Return(r) \/ Timeout(r)
      PROVE  BucketInv'
  <2>1. Ends(r) /\ pc[r] = "waiting" /\ UNCHANGED <<lock, lost>>
    BY <1>6, FinallyEnds DEF Return, Timeout
  <2> QED
    BY <2>1, FinallyKeeps
<1>7. ASSUME NEW r \in Requests, Release(r)
      PROVE  BucketInv'
  <2>1. r \in TokenRequests
    BY <1>7 DEF Release, BucketInv, OthersPassBy, Requests
  <2> QED
    BY <1>7, <2>1, FinallyKeeps DEF Release, Finally, Ends
<1>8. ASSUME NEW r \in Requests, CancelAsking(r)
      PROVE  BucketInv'
  <2>1. Ends(r) /\ pc[r] \in {"lookup", "waiting"} /\ UNCHANGED <<lock, lost>>
    BY <1>8, FinallyEnds DEF CancelAsking
  <2> QED
    BY <2>1, FinallyKeeps
<1>9. ASSUME NEW r \in Requests, CancelQueued(r) \/ CancelHolding(r) \/ CancelLeaving(r)
      PROVE  BucketInv'
  <2>1. pc' = [pc EXCEPT ![r] = "ended"] /\ "ended" \in Places /\ UNCHANGED inFlight
        /\ r \in TokenRequests /\ r \notin OtherRequests
    BY <1>9 DEF CancelQueued, CancelHolding, CancelLeaving, Goto, Places, BucketInv,
                OthersPassBy, Requests
  <2>2. lost' \in {lost, lost \cup {r}}
    BY <1>9 DEF CancelQueued, CancelHolding, CancelLeaving
  <2>3. \/ lock \in {None, r} /\ lock' = None
        \/ lock # r /\ lock' = lock
    <3>1. r # None
      OBVIOUS
    <3>2. CASE pc[r] \in {"full", "pacing"}
      BY <1>9, <3>2 DEF CancelQueued, CancelHolding, CancelLeaving, BucketInv, SleeperHasLock
    <3>3. CASE pc[r] \notin {"full", "pacing"}
      BY <1>9, <3>1, <3>3 DEF CancelQueued, CancelHolding, CancelLeaving, BucketInv,
                              SleeperHasLock
    <3> QED
      BY <3>2, <3>3
  <2>4. r \in Holders' <=> r \in Holders
    BY <1>9, <2>1 DEF CancelQueued, CancelHolding, CancelLeaving, Holders, InPlace, BucketInv,
                      BucketTypes
  <2>5. inFlight' = inFlight + (IF r \in Holders' THEN 1 ELSE 0)
                             - (IF r \in Holders THEN 1 ELSE 0)
    BY <2>1, <2>4 DEF BucketInv, BucketTypes
  <2>6. CASE lock \in {None, r} /\ lock' = None
    BY <2>1, <2>2, <2>5, <2>6, MoveKeeps
  <2>7. CASE lock # r /\ lock' = lock
    BY <2>1, <2>2, <2>5, <2>7, MoveKeeps
  <2> QED
    BY <2>3, <2>6, <2>7
<1> QED
  <2>1. ASSUME Start \/ Stop \/ Stopped \/ \E c \in Connections : Connect(c) \/ Drop(c) \/ Handler(c)
        PROVE  UNCHANGED <<pc, bucketVars>>
    BY <2>1 DEF Start, Stop, Stopped, Connect, Drop, Handler, Enter, Replaced, Depart
  <2>2. ASSUME NEW r \in Requests, Receive(r)
        PROVE  UNCHANGED <<pc, bucketVars>>
    BY <2>2 DEF Receive
  <2> QED
    BY <1>1, <1>2, <1>3, <1>4, <1>5, <1>6, <1>7, <1>8, <1>9, <2>1, <2>2
       DEF Next, Proceed, Cancel, vars

-----------------------------------------------------------------------------
FutureTypes == /\ pending \subseteq Requests
               /\ done \subseteq Requests
               /\ asked \subseteq Requests
               /\ cancelled \subseteq Requests

\* An answered request has been sent, or waits to be; it has left its table.
AnsweredWasMade   == \A r \in done : pc[r] \in {"lookup", "waiting", "leaving", "ended"}
AskedWasSent      == \A r \in asked : pc[r] \in {"waiting", "leaving", "ended"}
AnsweredHasLeft   == done \cap pending = {}
UnansweredIsThere == Awaiting \ done \subseteq pending

FutureInv == /\ FutureTypes
             /\ AnsweredWasMade /\ AskedWasSent /\ AnsweredHasLeft /\ UnansweredIsThere
             /\ PendingIsAwaited /\ StopAnswersAll

\* A request is sent or not, from a place where it had no future or an unsent one.
LEMMA SendKeeps ==
  ASSUME FutureInv, DownIsClosed, ext \in Connections \cup {None},
         pc \in [Requests -> Places], NEW r \in Requests,
         UNCHANGED <<connectionVars, done, cancelled>>,
         \/ /\ pc[r] \in {"idle", "queued", "full", "pacing"}
            /\ pending' = pending \cup {r}
         \/ pc[r] = "lookup" /\ UNCHANGED pending,
         Connected, Goto(r, "waiting"),
         asked' = asked \/ asked' = asked \cup {r}
  PROVE  FutureInv'
<1> USE DEF FutureInv, FutureTypes, AnsweredWasMade, AskedWasSent, AnsweredHasLeft,
            UnansweredIsThere, PendingIsAwaited, StopAnswersAll, Awaiting, Goto
<1>1. server' # "down"
  BY DEF Connected, DownIsClosed, connectionVars
<1>2. \A s \in Requests : pc'[s] = IF s = r THEN "waiting" ELSE pc[s]
  OBVIOUS
<1> QED
  BY <1>1, <1>2

\* A request that is over leaves its table, or is in it because it was cancelled.
LEMMA EndKeeps ==
  ASSUME FutureInv, pc \in [Requests -> Places], NEW r \in Requests,
         UNCHANGED <<connectionVars, done>>,
         Goto(r, "ended") \/ Goto(r, "leaving"),
         \/ pending' = pending \ {r}
         \/ pending' = pending /\ (r \in pending => r \in cancelled'),
         asked' \in {asked, asked \ {r}},
         cancelled' \in {cancelled, cancelled \cup {r}}
  PROVE  FutureInv'
<1> USE DEF FutureInv, FutureTypes, AnsweredWasMade, AskedWasSent, AnsweredHasLeft,
            UnansweredIsThere, PendingIsAwaited, StopAnswersAll, Awaiting, Goto
<1>1. PICK place \in {"ended", "leaving"} : pc' = [pc EXCEPT ![r] = place]
  OBVIOUS
<1>2. \A s \in Requests : pc'[s] = IF s = r THEN place ELSE pc[s]
  BY <1>1
<1>3. FutureTypes' /\ AnsweredWasMade' /\ AskedWasSent' /\ AnsweredHasLeft'
  BY <1>2
<1>4. UnansweredIsThere' /\ PendingIsAwaited'
  BY <1>2
<1>5. StopAnswersAll'
  BY <1>2 DEF connectionVars
<1> QED
  BY <1>3, <1>4, <1>5

\* A request that waits for the extension's lock has its future in the table.
LEMMA LookUpKeeps ==
  ASSUME FutureInv, pc \in [Requests -> Places], NEW r \in Requests,
         UNCHANGED <<connectionVars, done, asked, cancelled>>,
         pc[r] \in {"idle", "queued", "full", "pacing"},
         pending' = pending \cup {r}, Goto(r, "lookup")
  PROVE  FutureInv'
BY DEF FutureInv, FutureTypes, AnsweredWasMade, AskedWasSent, AnsweredHasLeft,
       UnansweredIsThere, PendingIsAwaited, StopAnswersAll, Awaiting, Goto, connectionVars

\* Asking keeps the tables, whoever asks.
LEMMA AskKeeps ==
  ASSUME FutureInv, DownIsClosed, ext \in Connections \cup {None},
         pc \in [Requests -> Places], NEW r \in Requests,
         UNCHANGED <<connectionVars, done, cancelled>>,
         pc[r] \in {"idle", "queued", "full", "pacing"},
         \/ Ask(r, inFlight, TRUE)
         \/ Ask(r, inFlight + 1, NobodyElse(r))
  PROVE  FutureInv'
<1>1. CASE Goto(r, "lookup") /\ pending' = pending \cup {r} /\ UNCHANGED asked
  BY <1>1, LookUpKeeps
<1>2. CASE /\ Connected /\ Goto(r, "waiting") /\ pending' = pending \cup {r}
           /\ asked' = asked \/ asked' = asked \cup {r}
  BY <1>2, SendKeeps
<1>3. CASE /\ Goto(r, "ended") \/ Goto(r, "leaving")
           /\ pending' = (pending \cup {r}) \ {r}
           /\ UNCHANGED asked
  <2>1. pending' = pending \ {r}
    BY <1>3
  <2> QED
    BY <1>3, <2>1, EndKeeps
<1>4. CASE Ask(r, inFlight, TRUE)
  BY <1>1, <1>2, <1>3, <1>4 DEF Ask, Send, Finally
<1>5. CASE Ask(r, inFlight + 1, NobodyElse(r))
  <2>1. CASE NobodyElse(r)
    BY <1>1, <1>2, <1>3, <1>5, <2>1 DEF Ask, Send, Finally
  <2>2. CASE ~NobodyElse(r)
    BY <1>1, <1>2, <1>3, <1>5, <2>2 DEF Ask, Send, Finally
  <2> QED
    BY <2>1, <2>2
<1> QED
  BY <1>4, <1>5

\* A request that waits at the bucket has no future yet.
LEMMA WaitKeeps ==
  ASSUME FutureInv, pc \in [Requests -> Places], NEW r \in Requests,
         UNCHANGED <<connectionVars, futureVars, cancelled>>,
         pc[r] \in {"idle", "queued"},
         NEW place \in {"queued", "full", "pacing"}, Goto(r, place)
  PROVE  FutureInv'
BY DEF FutureInv, FutureTypes, AnsweredWasMade, AskedWasSent, AnsweredHasLeft,
       UnansweredIsThere, PendingIsAwaited, StopAnswersAll, Awaiting, Goto, connectionVars,
       futureVars

\* The bucket, for the tables.
LEMMA BucketTables ==
  ASSUME FutureInv, DownIsClosed, ext \in Connections \cup {None},
         pc \in [Requests -> Places], NEW r \in Requests,
         UNCHANGED <<connectionVars, done, cancelled>>,
         pc[r] \in {"idle", "queued"}, Bucket(r)
  PROVE  FutureInv'
<1>1. CASE Go(r)
  BY <1>1, AskKeeps DEF Go
<1>2. ASSUME NEW place \in {"full", "pacing"}, Goto(r, place), UNCHANGED <<pending, asked>>
      PROVE  FutureInv'
  BY <1>2, WaitKeeps DEF futureVars
<1> QED
  BY <1>1, <1>2 DEF Bucket

\* The tables keep their half.
LEMMA FutureStep ==
  ASSUME FutureInv, ConnectionInv, BucketInv, [Next]_vars
  PROVE  FutureInv'
<1> USE DEF FutureInv, FutureTypes, AnsweredWasMade, AskedWasSent, AnsweredHasLeft,
            UnansweredIsThere, PendingIsAwaited, StopAnswersAll, Awaiting
<1>0. /\ DownIsClosed /\ ext \in Connections \cup {None}
      /\ server \in {"down", "up", "stopping"}
      /\ pc \in [Requests -> Places]
  BY DEF ConnectionInv, ConnectionTypes, BucketInv, BucketTypes
<1>1. CASE UNCHANGED <<pc, futureVars, cancelled>> /\ server' \in {server, "up", "stopping"}
  BY <1>1 DEF futureVars
<1>2. CASE Stopped
  BY <1>2 DEF Stopped
<1>3. ASSUME NEW r \in Requests, Receive(r)
      PROVE  FutureInv'
  BY <1>3, <1>0 DEF Receive, connectionVars
<1>4. ASSUME NEW r \in Requests, Call(r)
      PROVE  FutureInv'
  <2>1. pc[r] = "idle" /\ UNCHANGED <<connectionVars, done, cancelled>>
    BY <1>4 DEF Call
  <2>2. CASE CallOther(r)
    BY <1>0, <2>1, <2>2, AskKeeps DEF CallOther
  <2>3. CASE Bucket(r)
    BY <1>0, <2>1, <2>3, BucketTables
  <2>4. CASE Goto(r, "queued") /\ UNCHANGED <<pending, asked>>
    BY <1>0, <2>1, <2>4, WaitKeeps DEF futureVars
  <2> QED
    BY <1>4, <2>2, <2>3, <2>4 DEF Call, CallToken
<1>5. ASSUME NEW r \in Requests, TakeLock(r)
      PROVE  FutureInv'
  BY <1>0, <1>5, BucketTables DEF TakeLock
<1>6. ASSUME NEW r \in Requests, Wake(r)
      PROVE  FutureInv'
  BY <1>0, <1>6, AskKeeps DEF Wake, Go
<1>7. ASSUME NEW r \in Requests, LookUp(r)
      PROVE  FutureInv'
  <2>1. pc[r] = "lookup" /\ UNCHANGED <<connectionVars, done, cancelled>>
    BY <1>7 DEF LookUp
  <2>2. CASE /\ Connected /\ Goto(r, "waiting") /\ UNCHANGED pending
             /\ asked' = asked \/ asked' = asked \cup {r}
    BY <1>0, <2>1, <2>2, SendKeeps
  <2>3. CASE Ends(r) /\ pending' = pending \ {r} /\ UNCHANGED asked
    BY <1>0, <2>1, <2>3, EndKeeps DEF Ends
  <2> QED
    BY <1>7, <2>2, <2>3, FinallyEnds DEF LookUp, Send
<1>8. ASSUME NEW r \in Requests, Return(r) \/ Timeout(r)
      PROVE  FutureInv'
  <2>1. Ends(r) /\ UNCHANGED <<connectionVars, done, cancelled>>
    BY <1>8, FinallyEnds DEF Return, Timeout, futureVars
  <2>2. \/ pending' = pending \ {r}
        \/ pending' = pending /\ r \notin pending
    BY <1>8 DEF Return, Timeout, futureVars
  <2>3. asked' \in {asked, asked \ {r}}
    BY <1>8 DEF Return, Timeout, futureVars
  <2> QED
    BY <1>0, <2>1, <2>2, <2>3, EndKeeps DEF Ends
<1>9. ASSUME NEW r \in Requests, Release(r)
      PROVE  FutureInv'
  <2>1. /\ Goto(r, "ended") \/ Goto(r, "leaving")
        /\ UNCHANGED <<connectionVars, futureVars, cancelled>>
        /\ r \in pending => r \in cancelled
    BY <1>9 DEF Release, Finally
  <2> QED
    BY <1>0, <2>1, EndKeeps DEF futureVars
<1>10. ASSUME NEW r \in Requests, Cancel(r)
       PROVE  FutureInv'
  <2>1. /\ UNCHANGED <<connectionVars, futureVars>>
        /\ cancelled' = cancelled \cup {r}
    BY <1>10 DEF Cancel
  <2>2. Goto(r, "ended") \/ Goto(r, "leaving")
    BY <1>10, FinallyEnds DEF Cancel, CancelQueued, CancelHolding, CancelAsking, CancelLeaving,
                              Ends
  <2> QED
    BY <1>0, <2>1, <2>2, EndKeeps DEF futureVars
<1> QED
  <2>1. ASSUME Start \/ Stop \/ \E c \in Connections : Connect(c) \/ Drop(c) \/ Handler(c)
        PROVE  UNCHANGED <<pc, futureVars, cancelled>> /\ server' \in {server, "up", "stopping"}
    BY <2>1 DEF Start, Stop, Connect, Drop, Handler, Enter, Replaced, Depart
  <2>2. ASSUME UNCHANGED vars
        PROVE  UNCHANGED <<pc, futureVars, cancelled>> /\ server' \in {server, "up", "stopping"}
    BY <2>2 DEF vars, connectionVars
  <2> QED
    BY <1>1, <1>2, <1>3, <1>4, <1>5, <1>6, <1>7, <1>8, <1>9, <1>10, <2>1, <2>2
       DEF Next, Proceed

-----------------------------------------------------------------------------
BrokerInv == ConnectionInv /\ BucketInv /\ FutureInv

\* The initial state satisfies the inductive invariant.
LEMMA BrokerInit == Init => BrokerInv
<1> SUFFICES ASSUME Init PROVE BrokerInv
  OBVIOUS
<1>1. ConnectionInv
  BY DEF Init, ConnectionInv, ConnectionTypes, OpenIsHandled, NewIsUnhandled, ReplacerHasLock,
         RegisteredReads, ConnectedIsRegistered, DownIsClosed
<1>2. BucketInv
  <2>1. InPlace \cup lost = {}
    BY DEF Init, InPlace, Requests
  <2>2. SlotsAccounted
    BY <2>1, FS_EmptySet DEF Init, SlotsAccounted
  <2> QED
    BY <2>2 DEF Init, BucketInv, BucketTypes, OthersPassBy, SleeperHasLock, PacingHasRoom,
                LostHaveEnded, FullIsForever, Places, Requests
<1>3. FutureInv
  BY DEF Init, FutureInv, FutureTypes, AnsweredWasMade, AskedWasSent, AnsweredHasLeft,
         UnansweredIsThere, PendingIsAwaited, StopAnswersAll, Awaiting
<1> QED
  BY <1>1, <1>2, <1>3 DEF BrokerInv

\* The invariant holds throughout.
LEMMA BrokerAlways == Spec => []BrokerInv
<1>1. BrokerInv /\ [Next]_vars => BrokerInv'
  BY ConnectionStep, BucketStep, FutureStep DEF BrokerInv
<1> QED
  BY <1>1, BrokerInit, PTL DEF Spec

\* The counter of tokens in flight stays between zero and MAX_BURST.
THEOREM BrokerTypeCorrect == Spec => []TypeOK
<1>1. BrokerInv => TypeOK
  BY DEF BrokerInv, ConnectionInv, ConnectionTypes, BucketInv, BucketTypes, FutureInv,
         FutureTypes, TypeOK, Places
<1> QED
  BY <1>1, BrokerAlways, PTL

\* Every place in flight belongs to a request that will give it back, or to one
\* that was cancelled at the lock it gives it back under.
THEOREM PlacesAreAccounted == Spec => []SlotsAccounted
<1>1. BrokerInv => SlotsAccounted
  BY DEF BrokerInv, BucketInv
<1> QED
  BY <1>1, BrokerAlways, PTL

\* Ids are in the tables only while their requests wait, or after a cancellation.
THEOREM NoIdIsLeft == Spec => []PendingIsAwaited
<1>1. BrokerInv => PendingIsAwaited
  BY DEF BrokerInv, FutureInv
<1> QED
  BY <1>1, BrokerAlways, PTL

\* The open connection is the one that requests are sent to.
THEOREM OpenConnectionServes == Spec => []ConnectedIsRegistered
<1>1. BrokerInv => ConnectedIsRegistered
  BY DEF BrokerInv, ConnectionInv
<1> QED
  BY <1>1, BrokerAlways, PTL

\* A stopped broker lets nobody wait.
THEOREM StopReleasesAll == Spec => []StopAnswersAll
<1>1. BrokerInv => StopAnswersAll
  BY DEF BrokerInv, FutureInv
<1> QED
  BY <1>1, BrokerAlways, PTL

\* A request that finds the bucket full never finds it otherwise: the loop
\* `while self._in_flight_tokens >= MAX_BURST` has no way out but cancellation.
THEOREM FullNeverWakes == Spec => []FullIsForever
<1>1. BrokerInv => FullIsForever
  BY DEF BrokerInv, BucketInv
<1> QED
  BY <1>1, BrokerAlways, PTL
=============================================================================
