----------------------------- MODULE TokenBridge -----------------------------
(***************************************************************************)
(* reCAPTCHA tokens with the strategy "extension": get_recaptcha_token     *)
(* (src/src/recaptcha_solver.py), the HttpTokenBridge behind it            *)
(* (src/src/token_bridge.py), the administrator's test, which asks the     *)
(* bridge directly, and the extension that polls it                        *)
(* (src/extension/background.js).                                          *)
(*                                                                         *)
(* Each request asks once.  Request ids are fresh (uuid4), so a request    *)
(* stands for its id.  _pending_request and _future are set and cleared    *)
(* together and are one variable; a future itself is kept per request,     *)
(* since its owner refers to it when the bridge no longer does.            *)
(***************************************************************************)
EXTENDS Naturals

CONSTANTS Chats,       \* requests that come through the solver
          Tests,       \* /admin/broker/test
          Tokens,      \* what reCAPTCHA can produce
          None, Failed,
          MaxMishaps   \* bound: lost posts and kills of the extension

Requests == Chats \cup Tests
Anyone   == "anyone"   \* a pre-token is for whoever asks next

ASSUME BridgeAssumption == /\ Chats \cap Tests = {}
                           /\ {None, Failed} \cap (Requests \cup Tokens) = {}
                           /\ None # Failed
                           /\ Anyone \notin Requests \cup {None}
                           /\ MaxMishaps \in Nat

VARIABLES pc,        \* where each request is
          solver,    \* who holds _cache_lock of the solver
          cached,    \* _cached_token, while it is fresh
          pending,   \* _pending_request; None: none, and no _future
          future,    \* what each request's future was set to
          got,       \* the token each request returned with
          answer,    \* the id in the answer to a poll, on its way
          job,       \* handleTokenRequest: whom it works for, how far, with what
          pre,       \* genAndSubmitPreToken: the token it is posting
          madeFor,   \* history: whom each token was made for
          mishaps

serverVars    == <<pc, solver, cached, pending, future, got>>
extensionVars == <<answer, job, pre, madeFor>>
vars          == <<serverVars, extensionVars, mishaps>>

Job(id, phase, token) == [id |-> id, phase |-> phase, token |-> token]
Idle == Job(None, "idle", None)

Init == /\ pc = [r \in Requests |-> "new"]
        /\ solver = None
        /\ cached = None
        /\ pending = None
        /\ future = [r \in Requests |-> None]
        /\ got = [r \in Requests |-> None]
        /\ answer = None
        /\ job = Idle
        /\ pre = None
        /\ madeFor = [t \in Tokens |-> None]
        /\ mishaps = 0

Goto(r, place) == pc' = [pc EXCEPT ![r] = place]

-----------------------------------------------------------------------------
(* request_token().                                                        *)

\* Slip: the token stays in the cache.
TakeCachedAndKeep(r) == /\ cached # None
                        /\ got' = [got EXCEPT ![r] = cached]
                        /\ Goto(r, "done")
                        /\ UNCHANGED <<cached, pending, future>>

TakeCached(r) == /\ cached # None
                 /\ got' = [got EXCEPT ![r] = cached]
                 /\ cached' = None
                 /\ Goto(r, "done")
                 /\ UNCHANGED <<pending, future>>

\* There is one place: whoever was in it is forgotten.
Await(r) == /\ cached = None
            /\ pending' = r
            /\ Goto(r, "waiting")
            /\ UNCHANGED <<cached, future, got>>

\* Slip: the bridge is only told of answers.
LeaveWithoutClearing(r, token) == /\ Goto(r, "done")
                                  /\ got' = [got EXCEPT ![r] = token]
                                  /\ future' = [future EXCEPT ![r] = None]
                                  /\ pending' = IF token = None THEN pending ELSE None
                                  /\ UNCHANGED cached

\* The finally clause clears the place, whoever is in it.  The request's own
\* future goes with its frame.
Leave(r, token) == /\ Goto(r, "done")
                   /\ got' = [got EXCEPT ![r] = token]
                   /\ future' = [future EXCEPT ![r] = None]
                   /\ pending' = None
                   /\ UNCHANGED cached

Unlock(r) == solver' = IF solver = r THEN None ELSE solver

-----------------------------------------------------------------------------
(* get_recaptcha_token(): the lock is held while the bridge is asked.  The *)
(* order of the lock's queue is left open.                                 *)

WaitForSolver(r) == /\ pc[r] = "new"
                    /\ solver # None
                    /\ Goto(r, "queued")
                    /\ UNCHANGED <<solver, cached, pending, future, got>>

\* Slip: every chat asks the bridge at once.
SolveUnlocked(r) == /\ pc[r] \in {"new", "queued"}
                    /\ \/ TakeCached(r) /\ UNCHANGED solver
                       \/ Await(r) /\ solver' = r

Solve(r) == /\ pc[r] \in {"new", "queued"}
            /\ solver = None
            /\ \/ TakeCached(r) /\ UNCHANGED solver
               \/ Await(r) /\ solver' = r

Test(r) == /\ pc[r] = "new"
           /\ TakeCached(r) \/ Await(r)
           /\ UNCHANGED solver

Ask == \/ \E r \in Chats : WaitForSolver(r) \/ Solve(r)
       \/ \E r \in Tests : Test(r)

\* The future was set: a token is returned, an error raised.
Return(r) == /\ pc[r] = "waiting"
             /\ future[r] # None
             /\ Leave(r, IF future[r] \in Tokens THEN future[r] ELSE None)
             /\ Unlock(r)

\* The time-out or a cancellation, which win over a future set a moment before;
\* a chat can also be cancelled in the queue of the solver's lock.
GiveUp(r) == \/ pc[r] = "waiting" /\ Leave(r, None) /\ Unlock(r)
             \/ /\ pc[r] = "queued"
                /\ Goto(r, "done")
                /\ UNCHANGED <<solver, cached, pending, future, got>>

\* _pre_token_ttl has passed.
CacheExpires == /\ cached # None
                /\ cached' = None
                /\ UNCHANGED <<pc, solver, pending, future, got>>

-----------------------------------------------------------------------------
(* submit_token(), on behalf of the post that is being made.               *)

\* Slip: nobody looks at the id.
SubmitWhateverId(id, outcome) ==
  /\ future' = [r \in Requests |->
                 IF r = pending /\ future[r] = None THEN outcome ELSE future[r]]
  /\ UNCHANGED <<pc, solver, cached, pending, got>>

\* Slip: errors are logged only.
SubmitTokensOnly(id, outcome) ==
  /\ future' = [r \in Requests |->
                 IF r = id /\ r = pending /\ future[r] = None /\ outcome # Failed
                 THEN outcome ELSE future[r]]
  /\ UNCHANGED <<pc, solver, cached, pending, got>>

\* "No pending request" and "Stale request id" change nothing, nor does an
\* outcome for a future that is done.
Submit(id, outcome) ==
  /\ future' = [r \in Requests |->
                 IF r = id /\ r = pending /\ future[r] = None THEN outcome ELSE future[r]]
  /\ UNCHANGED <<pc, solver, cached, pending, got>>

SubmitPre(token) == /\ cached' = token
                    /\ UNCHANGED <<pc, solver, pending, future, got>>

-----------------------------------------------------------------------------
(* The extension.                                                          *)

\* The server answers a poll.  One answer at a time is on its way: polls are two
\* seconds apart.
Poll == /\ pending # None /\ answer = None
        /\ answer' = pending
        /\ UNCHANGED <<serverVars, job, pre, madeFor, mishaps>>

\* isGenerating is looked at when the answer is there, however old it is.
ReadAnswer == /\ answer # None
              /\ answer' = None
              /\ job' = IF job = Idle THEN Job(answer, "generating", None) ELSE job
              /\ UNCHANGED <<serverVars, pre, madeFor, mishaps>>

Fresh(t) == t \in Tokens /\ madeFor[t] = None

Generate == /\ job.phase = "generating"
            /\ \/ \E t \in Tokens :
                    /\ Fresh(t)
                    /\ madeFor' = [madeFor EXCEPT ![t] = job.id]
                    /\ job' = Job(job.id, "posting", t)
               \/ \* an error of the page, or the 15 seconds are over
                  /\ job' = Job(job.id, "reporting", None)
                  /\ UNCHANGED madeFor
            /\ UNCHANGED <<serverVars, answer, pre, mishaps>>

PostToken == /\ job.phase = "posting"
             /\ Submit(job.id, job.token)
             /\ job' = Idle
             /\ UNCHANGED <<answer, pre, madeFor, mishaps>>

PostError == /\ job.phase = "reporting"
             /\ Submit(job.id, Failed)
             /\ job' = Idle
             /\ UNCHANGED <<answer, pre, madeFor, mishaps>>

Mishap == mishaps < MaxMishaps /\ mishaps' = mishaps + 1

\* The post of the token fails, before or after the server has had it: the
\* catch clause reports an error for the same id.
PostTokenFails == /\ Mishap
                  /\ job.phase = "posting"
                  /\ \/ Submit(job.id, job.token)
                     \/ UNCHANGED serverVars
                  /\ job' = Job(job.id, "reporting", None)
                  /\ UNCHANGED <<answer, pre, madeFor>>

PostErrorFails == /\ Mishap
                  /\ job.phase = "reporting"
                  /\ job' = Idle
                  /\ UNCHANGED <<serverVars, answer, pre, madeFor>>

\* Every 80 seconds, unless isGenerating; a token that cannot be made or posted
\* is dropped.
GeneratePre == /\ pre = None
               /\ job = Idle
               /\ \E t \in Tokens : /\ Fresh(t)
                                    /\ pre' = t
                                    /\ madeFor' = [madeFor EXCEPT ![t] = Anyone]
               /\ UNCHANGED <<serverVars, answer, job, mishaps>>

PostPre == /\ pre # None
           /\ SubmitPre(pre) \/ UNCHANGED serverVars
           /\ pre' = None
           /\ UNCHANGED <<answer, job, madeFor, mishaps>>

\* Android kills the background page.
Killed == /\ Mishap
          /\ answer' = None
          /\ job' = Idle
          /\ pre' = None
          /\ UNCHANGED <<serverVars, madeFor>>

-----------------------------------------------------------------------------

Server == /\ \/ Ask
             \/ CacheExpires
             \/ \E r \in Requests : Return(r) \/ GiveUp(r)
          /\ UNCHANGED <<extensionVars, mishaps>>

Extension == \/ Poll \/ ReadAnswer \/ Generate \/ PostToken \/ PostError
             \/ GeneratePre \/ PostPre
             \/ PostTokenFails \/ PostErrorFails \/ Killed

Next == Server \/ Extension

\* Ready tasks run and release the lock, which wakes whoever has queued longest; the
\* extension polls every two seconds and its races and posts end.  Time-outs,
\* cancellations, mishaps and pre-tokens need not happen.
Spec == /\ Init /\ [][Next]_vars
        /\ \A r \in Requests : WF_vars(Return(r) /\ UNCHANGED <<extensionVars, mishaps>>)
        /\ \A r \in Chats : WF_vars(pc[r] = "queued" /\ Solve(r) /\ UNCHANGED <<extensionVars, mishaps>>)
        /\ WF_vars(Poll) /\ WF_vars(ReadAnswer) /\ WF_vars(Generate) /\ WF_vars(PostToken) /\ WF_vars(PostError)

-----------------------------------------------------------------------------
(* Properties.                                                             *)

\* The lock is with the chat that waits at the bridge, if any.
TypeOK ==
  /\ pc \in [Requests -> {"new", "queued", "waiting", "done"}]
  /\ solver \in Chats \cup {None}
  /\ cached \in Tokens \cup {None}
  /\ pending \in Requests \cup {None}
  /\ future \in [Requests -> Tokens \cup {None, Failed}]
  /\ got \in [Requests -> Tokens \cup {None}]
  /\ answer \in Requests \cup {None}
  /\ job \in [id : Requests \cup {None}, phase : {"idle", "generating", "posting", "reporting"},
              token : Tokens \cup {None}]
  /\ pre \in Tokens \cup {None}
  /\ madeFor \in [Tokens -> Requests \cup {Anyone, None}]
  /\ mishaps \in 0 .. MaxMishaps
  /\ \A r \in Chats : pc[r] = "waiting" <=> solver = r

\* A token serves once: no two requests return with the same one, and what is
\* in the cache has been returned to nobody.  arena.ai refuses a second use.
TokenUsedOnce ==
  \A r \in Requests :
    got[r] # None => /\ got[r] # cached
                     /\ \A s \in Requests : got[s] = got[r] => s = r

\* A late post never answers a later request: a request returns with a token
\* made for it, or with a pre-token.
TokenForItsRequest ==
  \A r \in Requests : got[r] # None => madeFor[got[r]] \in {r, Anyone}

\* The extension is asked for tokens only while somebody waits for one: no
\* outcome leaves a request behind that it would serve again and again.
PendingIsAwaited == pending # None => pc[pending] = "waiting"

\* Waiting, unanswered, and nobody knows: all that is left is the time-out.
Orphaned(r) == pc[r] = "waiting" /\ future[r] = None /\ pending # r

\* The solver's lock keeps chats from forgetting each other's requests: only
\* an administrator's test can be the reason of a chat's time-out.
OnlyTestsOrphan ==
  \A r \in Chats : Orphaned(r) => \E s \in Tests : pc[s] \in {"waiting", "done"}

\* With a working extension a request comes back before its time-out, through
\* stale answers to polls, lost posts and kills -- unless it is orphaned.  And a chat that
\* queues for the solver's lock comes back unless one that has the lock is (line 71 of
\* recaptcha_solver.py).
AnsweredUnlessOrphaned ==
  /\ \A r \in Requests : pc[r] = "waiting" ~> pc[r] = "done" \/ Orphaned(r)
  /\ \A r \in Chats : pc[r] = "queued" ~> pc[r] = "done" \/ \E s \in Chats : Orphaned(s)
=============================================================================
