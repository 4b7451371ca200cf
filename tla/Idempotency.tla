---------------------------- MODULE Idempotency ----------------------------
(***************************************************************************)
(* IdempotencyStore (src/src/idempotency.py) for one Idempotency-Key: the  *)
(* cached response, the marker of the request in flight, and the events    *)
(* its waiters wait on.  Keys do not interact, except that a store of more *)
(* than 100 keys drops the expired ones, which get_cached() does too.      *)
(*                                                                         *)
(* A marker (_Inflight) and a response are named by the request that       *)
(* created them.  No method awaits anything under `_lock': each call is    *)
(* one atomic step.                                                        *)
(***************************************************************************)
CONSTANTS Callers, None

ASSUME NoneAssumption == None \notin Callers

VARIABLES cache,      \* _store[key].value, None if absent or expired
          inflight,   \* _inflight[key], None if absent
          fired       \* the markers whose event is set

storeVars == <<cache, inflight, fired>>

StoreInit == cache = None /\ inflight = None /\ fired = {}

StoreTypeOK == /\ cache \in Callers \cup {None}
               /\ inflight \in Callers \cup {None}
               /\ fired \in SUBSET Callers

(* acquire(): what it returns is decided by these three guards.            *)

\* Slip: no marker before fix B4.
GetsNoneBeforeB4 == cache = None

GetsCached == cache # None                       \* the cached value
GetsMarker == cache = None /\ inflight # None    \* someone's _Inflight
GetsNone   == cache = None /\ inflight = None    \* None: the caller owns the key

\* Slip: a placeholder in the cache instead of a marker beside it.
MarkInCache(r) == /\ cache' = r
                  /\ inflight' = r
                  /\ UNCHANGED fired

Mark(r) == /\ inflight' = r
           /\ UNCHANGED <<cache, fired>>

\* Slip: the marker goes but its waiters are not told.
PopSilently == inflight' = None /\ UNCHANGED fired

\* Whoever's marker it is, it goes and its waiters are told.
PopMarker == /\ inflight' = None
             /\ fired' = IF inflight = None THEN fired ELSE fired \cup {inflight}

Put(r) == cache' = r /\ PopMarker

ReleaseKey == PopMarker /\ UNCHANGED cache

\* IDEMPOTENCY_TTL runs out.
Expire == /\ cache # None
          /\ cache' = None
          /\ UNCHANGED <<inflight, fired>>
=============================================================================
