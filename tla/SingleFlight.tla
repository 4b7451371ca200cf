---------------------------- MODULE SingleFlight ----------------------------
(***************************************************************************)
(* Non-streaming POST /v1/chat/completions with an Idempotency-Key         *)
(* (chat_completions in src/src/routes/chat.py), several requests carrying *)
(* the same key.  What happens upstream is in other modules; here a run    *)
(* either succeeds, fails, or produces a text the code after it chokes on. *)
(***************************************************************************)
EXTENDS Idempotency, FiniteSets

VARIABLES pc,        \* where each request is in the handler
          ticket,    \* the marker each request waits on (`result')
          answer,    \* the response each request returned; None: none or error
          ran,       \* history: the requests that called the upstream
          troubled   \* history: has any run failed or any response expired?

flightVars == <<storeVars, pc, ticket, answer, ran, troubled>>

FlightInit == /\ StoreInit
              /\ pc = [r \in Callers |-> "new"]
              /\ ticket = [r \in Callers |-> None]
              /\ answer = [r \in Callers |-> None]
              /\ ran = {}
              /\ troubled = FALSE

Goto(r, place) == pc' = [pc EXCEPT ![r] = place]

\* Return the response `v', or an error if it is None.
Answer(r, v) == /\ Goto(r, "answered")
                /\ answer' = [answer EXCEPT ![r] = v]

-----------------------------------------------------------------------------
(* Lines 125-142.                                                          *)

AnswerFromCache(r) == /\ GetsCached
                      /\ Answer(r, cache)
                      /\ UNCHANGED <<storeVars, ticket, ran, troubled>>

TakeOwnership(r) == /\ GetsNone
                    /\ Mark(r)
                    /\ Goto(r, "planning")
                    /\ UNCHANGED <<ticket, answer, ran, troubled>>

Arrive(r) ==
  /\ pc[r] = "new"
  /\ \/ AnswerFromCache(r)
     \/ TakeOwnership(r)
     \/ /\ GetsMarker
        /\ ticket' = [ticket EXCEPT ![r] = inflight]
        /\ Goto(r, "waiting")
        /\ UNCHANGED <<storeVars, answer, ran, troubled>>

\* After wait_for(): the cache is asked once more and then acquire() again.
\* If that returns another request's marker, no branch is left for it and the
\* handler goes on as if it owned the key.
WakeUp(r) ==
  /\ pc[r] = "waiting"
  /\ ticket[r] \in fired
  /\ \/ AnswerFromCache(r)
     \/ TakeOwnership(r)
     \/ /\ GetsMarker
        /\ Goto(r, "planning")
        /\ UNCHANGED <<storeVars, ticket, answer, ran, troubled>>

-----------------------------------------------------------------------------
(* Lines 144-157: token bucket and plan_turn().                            *)

Plan(r) == /\ pc[r] = "planning"
           /\ Goto(r, "upstream")
           /\ ran' = ran \cup {r}
           /\ UNCHANGED <<storeVars, ticket, answer, troubled>>

\* ValueError (hashing a text with a lone surrogate raises one): answered 400,
\* the store is not told.
BadRequest(r) == /\ pc[r] = "planning"
                 /\ Answer(r, None)
                 /\ troubled' = TRUE
                 /\ UNCHANGED <<storeVars, ticket, ran>>

-----------------------------------------------------------------------------
(* Lines 270-401: the upstream run and what follows it.                    *)

Succeed(r) == /\ pc[r] = "upstream"
              /\ Put(r)
              /\ Answer(r, r)
              /\ UNCHANGED <<ticket, ran, troubled>>

\* The except clauses around the run.
Fail(r) == /\ pc[r] = "upstream"
           /\ ReleaseKey
           /\ Answer(r, None)
           /\ troubled' = TRUE
           /\ UNCHANGED <<ticket, ran>>

\* parse_tool_calls() or commit_response() raises: outside the try block.
PostProcessingFails(r) == /\ pc[r] = "upstream"
                          /\ Answer(r, None)
                          /\ troubled' = TRUE
                          /\ UNCHANGED <<storeVars, ticket, ran>>

ResponseExpires == /\ Expire
                   /\ troubled' = TRUE
                   /\ UNCHANGED <<pc, ticket, answer, ran>>

Handler(r) == \/ WakeUp(r) \/ Plan(r) \/ BadRequest(r)
              \/ Succeed(r) \/ Fail(r) \/ PostProcessingFails(r)

FlightNext == \/ \E r \in Callers : Arrive(r) \/ Handler(r)
              \/ ResponseExpires

\* The event loop runs every ready handler, and every upstream run ends.
FlightSpec == FlightInit /\ [][FlightNext]_flightVars /\ \A r \in Callers : WF_flightVars(Handler(r))

-----------------------------------------------------------------------------
(* Properties.                                                             *)

Stages == {"new", "waiting", "planning", "upstream", "answered"}

\* A waiting request holds another request's marker.
FlightTypeOK == /\ StoreTypeOK
                /\ pc \in [Callers -> Stages]
                /\ ticket \in [Callers -> Callers \cup {None}]
                /\ answer \in [Callers -> Callers \cup {None}]
                /\ ran \in SUBSET Callers
                /\ troubled \in BOOLEAN
                /\ \A r \in Callers : pc[r] = "waiting" => ticket[r] \in Callers \ {r}

\* No wake-up is lost: a request waits only on an event that is set already,
\* or on the marker in the store, which is the one the next put() or release()
\* sets.  It holds although any request may pop any other request's marker.
WaiterHasWaker ==
  \A r \in Callers :
    pc[r] = "waiting" /\ ticket[r] \notin fired => inflight = ticket[r]

\* Whatever is returned was produced: a response that several requests return
\* is the one its own producer returned, after its run upstream.
AnswersGenuine ==
  \A r \in Callers :
    answer[r] # None => answer[r] \in ran /\ answer[answer[r]] = answer[r]

\* As long as nothing fails and no response expires, one request per key runs
\* upstream and the others get its response.
QuietSingleFlight ==
  ~troubled => \A r, s \in ran \cup {q \in Callers : pc[q] = "planning"} : r = s

\* The marker of a request that has been answered without put() or release():
\* nobody is left who would remove it.
Stranded == inflight # None /\ pc[inflight] = "answered"

\* A waiting request is answered, however many failures it lives through --
\* unless a marker is stranded.
AnsweredUnlessStranded ==
  \A r \in Callers : pc[r] = "waiting" ~> pc[r] = "answered" \/ Stranded
=============================================================================
