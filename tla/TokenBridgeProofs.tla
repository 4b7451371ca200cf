------------------------- MODULE TokenBridgeProofs -------------------------
(***************************************************************************)
(* What holds of reCAPTCHA tokens for any number of chats, tests, tokens   *)
(* and mishaps.  That a token serves once follows from what it was made    *)
(* for: one made for a request can only be in that request's hands, so     *)
(* only pre-tokens have to be followed from place to place (PreTokenOnce). *)
(***************************************************************************)
EXTENDS TokenBridge, TLAPS

\* A request has a future while it waits and a token when it is done.
Stages == \A r \in Requests : /\ pc[r] # "done" => got[r] = None
                              /\ pc[r] # "waiting" => future[r] = None

\* Every token is where it may be, given what it was made for.
Purposes ==
  /\ TokenForItsRequest
  /\ \A r \in Requests : future[r] \in Tokens => madeFor[future[r]] = r
  /\ job # Idle => job.id \in Requests
  /\ job.phase = "posting" => job.token \in Tokens /\ madeFor[job.token] = job.id
  /\ cached # None => madeFor[cached] = Anyone
  /\ pre # None => madeFor[pre] = Anyone

\* A pre-token in the extension's hands has been seen by nobody else.
PreTokenOnce == pre # None => pre # cached /\ \A r \in Requests : got[r] # pre

\* A chat that waits is answered, or known to the bridge, or a test was there.
ChatsKnown == \A r \in Chats :
                pc[r] = "waiting" => \/ future[r] # None
                                     \/ pending = r
                                     \/ \E s \in Tests : pc[s] \in {"waiting", "done"}

USE BridgeAssumption DEF BridgeAssumption

\* The five things a server step may do to the bridge, besides CacheExpires.
Took(r)    == pc[r] \in {"new", "queued"} /\ TakeCached(r) /\ UNCHANGED solver
Asked(r)   == pc[r] \in {"new", "queued"} /\ solver = None /\ Await(r) /\ solver' = r
Tested(r)  == pc[r] = "new" /\ Await(r) /\ UNCHANGED solver
Left(r, t) == pc[r] = "waiting" /\ t \in {None, future[r]} \ {Failed} /\ Leave(r, t) /\ Unlock(r)
Moved(r)   == /\ \/ pc[r] = "new" /\ Goto(r, "queued")
                 \/ pc[r] = "queued" /\ Goto(r, "done")
              /\ UNCHANGED <<solver, cached, pending, future, got>>

\* There are no others.
LEMMA ServerCases ==
  ASSUME TypeOK, Server
  PROVE  \/ \E r \in Requests : Took(r) \/ Moved(r)
         \/ \E r \in Chats : Asked(r)
         \/ \E r \in Tests : Tested(r)
         \/ \E r \in Requests : \E t \in Tokens \cup {None} : Left(r, t)
         \/ CacheExpires
<1>1. ASSUME NEW r \in Chats, WaitForSolver(r) \/ Solve(r)
      PROVE  r \in Requests /\ (Took(r) \/ Moved(r) \/ Asked(r))
  <2>1. r \in Requests
    BY DEF Requests
  <2>2. CASE WaitForSolver(r)
    BY <2>1, <2>2 DEF WaitForSolver, Moved
  <2>3. CASE Solve(r)
    BY <2>1, <2>3 DEF Solve, Took, Asked
  <2>4. QED
    BY <1>1, <2>2, <2>3
<1>2. ASSUME NEW r \in Tests, Test(r)
      PROVE  r \in Requests /\ (Took(r) \/ Tested(r))
  BY <1>2 DEF Test, Took, Tested, Requests
<1>3. ASSUME NEW r \in Requests, Return(r)
      PROVE  \E t \in Tokens \cup {None} : Left(r, t)
  <2>1. future[r] \in Tokens \cup {None, Failed}
    BY DEF TypeOK
  <2>2. CASE future[r] \in Tokens
    <3>1. Left(r, future[r])
      BY <1>3, <2>2 DEF Return, Left
    <3>2. QED
      BY <2>2, <3>1
  <2>3. CASE future[r] \notin Tokens
    <3>1. Left(r, None)
      BY <1>3, <2>3 DEF Return, Left
    <3>2. QED
      BY <3>1
  <2>4. QED
    BY <2>2, <2>3
<1>4. ASSUME NEW r \in Requests, GiveUp(r)
      PROVE  Left(r, None) \/ Moved(r)
  BY <1>4 DEF GiveUp, Left, Moved
<1>5. QED
  BY <1>1, <1>2, <1>3, <1>4 DEF Server, Ask

ExtensionUnchanged == UNCHANGED <<answer, job, pre, madeFor, mishaps>>

LEMMA ServerKeepsExtension == Server => ExtensionUnchanged
BY DEF Server, extensionVars, ExtensionUnchanged

-----------------------------------------------------------------------------
(* Types, and the lock that goes with a waiting chat.                      *)

LEMMA TypeServer ==
  ASSUME TypeOK, Server
  PROVE  TypeOK'
<1>1. ExtensionUnchanged
  BY ServerKeepsExtension
<1>2. ASSUME NEW r \in Requests, Took(r)
      PROVE  TypeOK'
  BY <1>1, <1>2 DEF TypeOK, ExtensionUnchanged, Took, TakeCached, Goto
<1>3. ASSUME NEW r \in Requests, Moved(r)
      PROVE  TypeOK'
  <2>1. /\ pc' \in [Requests -> {"new", "queued", "waiting", "done"}]
        /\ \A c \in Requests : pc'[c] = "waiting" <=> pc[c] = "waiting"
    BY <1>3 DEF TypeOK, Moved, Goto
  <2>2. QED
    BY <1>1, <1>3, <2>1 DEF TypeOK, ExtensionUnchanged, Moved, Requests
<1>4. ASSUME NEW r \in Chats, Asked(r)
      PROVE  TypeOK'
  BY <1>1, <1>4 DEF TypeOK, ExtensionUnchanged, Asked, Await, Goto, Requests
<1>5. ASSUME NEW r \in Tests, Tested(r)
      PROVE  TypeOK'
  BY <1>1, <1>5 DEF TypeOK, ExtensionUnchanged, Tested, Await, Goto, Requests
<1>6. ASSUME NEW r \in Requests, NEW t \in Tokens \cup {None}, Left(r, t)
      PROVE  TypeOK'
  <2>1. pc[r] = "waiting" /\ pc' = [pc EXCEPT ![r] = "done"]
    BY <1>6 DEF Left, Leave, Goto
  <2>2. solver' = IF solver = r THEN None ELSE solver
    BY <1>6 DEF Left, Unlock
  <2>3. \A c \in Chats : pc'[c] = "waiting" <=> solver' = c
    BY <2>1, <2>2 DEF TypeOK, Requests
  <2>4. solver' \in Chats \cup {None}
    BY <2>2 DEF TypeOK
  <2>5. pc' \in [Requests -> {"new", "queued", "waiting", "done"}]
    BY <2>1 DEF TypeOK
  <2>6. /\ cached' \in Tokens \cup {None}
        /\ pending' \in Requests \cup {None}
        /\ future' \in [Requests -> Tokens \cup {None, Failed}]
        /\ got' \in [Requests -> Tokens \cup {None}]
    BY <1>6 DEF TypeOK, Left, Leave
  <2>7. QED
    BY <1>1, <2>3, <2>4, <2>5, <2>6 DEF TypeOK, ExtensionUnchanged
<1>7. CASE CacheExpires
  BY <1>1, <1>7 DEF TypeOK, ExtensionUnchanged, CacheExpires
<1>8. QED
  BY <1>2, <1>3, <1>4, <1>5, <1>6, <1>7, ServerCases

LEMMA TypeExtension ==
  ASSUME TypeOK, Purposes, Extension
  PROVE  TypeOK'
<1> USE DEF Idle, Job, serverVars
<1>1. CASE Poll
  BY <1>1 DEF TypeOK, Poll
<1>2. CASE ReadAnswer
  BY <1>2 DEF TypeOK, ReadAnswer
<1>3. CASE Generate
  <2>1. job.id \in Requests
    BY <1>3 DEF Generate, Purposes
  <2>2. job' \in [id : Requests \cup {None},
                  phase : {"idle", "generating", "posting", "reporting"},
                  token : Tokens \cup {None}]
    BY <1>3, <2>1 DEF TypeOK, Generate
  <2>3. madeFor' \in [Tokens -> Requests \cup {Anyone, None}]
    BY <1>3, <2>1 DEF TypeOK, Generate, Fresh
  <2>4. QED
    BY <1>3, <2>2, <2>3 DEF TypeOK, Generate
<1>4. CASE PostToken
  <2>1. job.token \in Tokens
    BY <1>4 DEF PostToken, Purposes
  <2>2. QED
    BY <1>4, <2>1 DEF TypeOK, PostToken, Submit
<1>5. CASE PostError
  BY <1>5 DEF TypeOK, PostError, Submit
<1>6. CASE GeneratePre
  BY <1>6 DEF TypeOK, GeneratePre, Fresh
<1>7. CASE PostPre
  BY <1>7 DEF TypeOK, PostPre, SubmitPre
<1>8. CASE PostTokenFails
  <2>1. job.token \in Tokens
    BY <1>8 DEF PostTokenFails, Purposes
  <2>2. future' \in [Requests -> Tokens \cup {None, Failed}]
    BY <1>8, <2>1 DEF TypeOK, PostTokenFails, Submit
  <2>3. UNCHANGED <<pc, solver, cached, pending, got, answer, pre, madeFor>>
    BY <1>8 DEF PostTokenFails, Submit
  <2>4. mishaps' \in 0 .. MaxMishaps
    BY <1>8 DEF TypeOK, PostTokenFails, Mishap
  <2>5. job' = Job(job.id, "reporting", None)
    BY <1>8 DEF PostTokenFails
  <2>6. QED
    BY <2>2, <2>3, <2>4, <2>5 DEF TypeOK
<1>9. CASE PostErrorFails \/ Killed
  BY <1>9 DEF TypeOK, PostErrorFails, Killed, Mishap
<1>10. QED
  BY <1>1, <1>2, <1>3, <1>4, <1>5, <1>6, <1>7, <1>8, <1>9 DEF Extension

-----------------------------------------------------------------------------
(* Whoever the extension is asked to serve waits.                          *)

\* Stages and PendingIsAwaited concern the server's variables only.
LEMMA AwaitedServer ==
  ASSUME TypeOK, Stages, PendingIsAwaited, Server
  PROVE  Stages' /\ PendingIsAwaited'
<1>1. ASSUME NEW r \in Requests, Took(r)
      PROVE  Stages' /\ PendingIsAwaited'
  BY <1>1 DEF TypeOK, Stages, PendingIsAwaited, Took, TakeCached, Goto
<1>2. ASSUME NEW r \in Requests, Moved(r)
      PROVE  Stages' /\ PendingIsAwaited'
  BY <1>2 DEF TypeOK, Stages, PendingIsAwaited, Moved, Goto
<1>3. ASSUME NEW r \in Requests, Asked(r) \/ Tested(r)
      PROVE  Stages' /\ PendingIsAwaited'
  BY <1>3 DEF TypeOK, Stages, PendingIsAwaited, Asked, Tested, Await, Goto
<1>4. ASSUME NEW r \in Requests, NEW t \in Tokens \cup {None}, Left(r, t)
      PROVE  Stages' /\ PendingIsAwaited'
  BY <1>4 DEF TypeOK, Stages, PendingIsAwaited, Left, Leave, Goto
<1>5. CASE CacheExpires
  BY <1>5 DEF Stages, PendingIsAwaited, CacheExpires
<1>6. QED
  BY <1>1, <1>2, <1>3, <1>4, <1>5, ServerCases DEF Requests

\* The extension sets a future only of the request that is pending.
FutureSet == \E outcome \in Tokens \cup {Failed} :
               future' = [r \in Requests |->
                           IF r = job.id /\ r = pending /\ future[r] = None
                           THEN outcome ELSE future[r]]

LEMMA ExtensionCases ==
  ASSUME TypeOK, Purposes, Extension
  PROVE  /\ UNCHANGED <<pc, solver, pending, got>>
         /\ UNCHANGED future \/ FutureSet
<1>1. CASE Poll \/ ReadAnswer \/ Generate \/ PostErrorFails \/ GeneratePre \/ PostPre \/ Killed
  BY <1>1 DEF Poll, ReadAnswer, Generate, PostErrorFails, GeneratePre, PostPre, Killed,
              SubmitPre, serverVars
<1>2. CASE PostToken
  <2>1. job.token \in Tokens
    BY <1>2 DEF PostToken, Purposes
  <2>2. QED
    BY <1>2, <2>1 DEF PostToken, Submit, FutureSet
<1>3. CASE PostError
  BY <1>3 DEF PostError, Submit, FutureSet
<1>4. CASE PostTokenFails
  <2>1. job.token \in Tokens
    BY <1>4 DEF PostTokenFails, Purposes
  <2>2. QED
    BY <1>4, <2>1 DEF PostTokenFails, Submit, FutureSet, serverVars
<1>5. QED
  BY <1>1, <1>2, <1>3, <1>4 DEF Extension

LEMMA AwaitedExtension ==
  ASSUME TypeOK, Purposes, Stages, PendingIsAwaited, Extension
  PROVE  Stages' /\ PendingIsAwaited'
<1>1. /\ UNCHANGED <<pc, solver, pending, got>>
      /\ UNCHANGED future \/ FutureSet
  BY ExtensionCases
<1>2. \A r \in Requests : pc[r] # "waiting" => future'[r] = future[r]
  BY <1>1 DEF FutureSet, PendingIsAwaited
<1>3. QED
  BY <1>1, <1>2 DEF Stages, PendingIsAwaited

-----------------------------------------------------------------------------
(* Tokens go where they were made for.                                     *)

LEMMA PurposesServer ==
  ASSUME TypeOK, Purposes, Server
  PROVE  Purposes'
<1>1. ExtensionUnchanged
  BY ServerKeepsExtension
<1>2. ASSUME NEW r \in Requests, Took(r)
      PROVE  Purposes'
  BY <1>1, <1>2 DEF TypeOK, Purposes, TokenForItsRequest, ExtensionUnchanged, Took, TakeCached
<1>3. ASSUME NEW r \in Requests, Moved(r)
      PROVE  Purposes'
  BY <1>1, <1>3 DEF Purposes, TokenForItsRequest, ExtensionUnchanged, Moved
<1>4. ASSUME NEW r \in Requests, Asked(r) \/ Tested(r)
      PROVE  Purposes'
  BY <1>1, <1>4 DEF Purposes, TokenForItsRequest, ExtensionUnchanged, Asked, Tested, Await
<1>5. ASSUME NEW r \in Requests, NEW t \in Tokens \cup {None}, Left(r, t)
      PROVE  Purposes'
  <2>1. got' = [got EXCEPT ![r] = t] /\ future' = [future EXCEPT ![r] = None]
        /\ cached' = cached /\ (t = None \/ t = future[r])
    BY <1>5 DEF Left, Leave
  <2>2. t # None => madeFor[t] = r
    BY <2>1 DEF Purposes
  <2>3. TokenForItsRequest'
    BY <1>1, <2>1, <2>2 DEF TypeOK, Purposes, TokenForItsRequest, ExtensionUnchanged
  <2>4. \A q \in Requests : future'[q] \in Tokens => madeFor'[future'[q]] = q
    BY <1>1, <2>1 DEF TypeOK, Purposes, ExtensionUnchanged
  <2>5. QED
    BY <1>1, <2>1, <2>3, <2>4 DEF Purposes, ExtensionUnchanged
<1>6. CASE CacheExpires
  BY <1>1, <1>6 DEF Purposes, TokenForItsRequest, ExtensionUnchanged, CacheExpires
<1>7. QED
  BY <1>2, <1>3, <1>4, <1>5, <1>6, ServerCases DEF Requests

\* A post sets the future of the request its token was made for.
LEMMA SubmitPurposes ==
  ASSUME TypeOK, Purposes, NEW outcome \in Tokens \cup {Failed},
         outcome \in Tokens => madeFor[outcome] = job.id,
         Submit(job.id, outcome), madeFor' = madeFor
  PROVE  \A r \in Requests : future'[r] \in Tokens => madeFor'[future'[r]] = r
BY DEF TypeOK, Purposes, Submit

\* Making a fresh token changes nothing about the tokens there are.
LEMMA FreshIsNew ==
  ASSUME TypeOK, Purposes, NEW t \in Tokens, madeFor[t] = None,
         NEW whom, madeFor' = [madeFor EXCEPT ![t] = whom], UNCHANGED <<future, got, cached>>
  PROVE  /\ TokenForItsRequest'
         /\ \A r \in Requests : future'[r] \in Tokens => madeFor'[future'[r]] = r
         /\ cached' # None => madeFor'[cached'] = Anyone
         /\ \A u \in Tokens : madeFor[u] # None => madeFor'[u] = madeFor[u]
BY DEF TypeOK, Purposes, TokenForItsRequest

LEMMA PurposesExtension ==
  ASSUME TypeOK, PendingIsAwaited, Purposes, Extension
  PROVE  Purposes'
<1> USE DEF Idle, Job, serverVars
<1>1. CASE Poll
  BY <1>1 DEF Poll, Purposes, TokenForItsRequest
<1>2. CASE ReadAnswer
  BY <1>2 DEF TypeOK, ReadAnswer, Purposes, TokenForItsRequest
<1>3. CASE Generate
  <2>1. job.id \in Requests /\ UNCHANGED <<future, got, cached, pre>>
    BY <1>3 DEF Generate, Purposes
  <2>2. ASSUME NEW t \in Tokens, Fresh(t), madeFor' = [madeFor EXCEPT ![t] = job.id],
               job' = Job(job.id, "posting", t)
        PROVE  Purposes'
    <3>1. /\ TokenForItsRequest'
          /\ \A r \in Requests : future'[r] \in Tokens => madeFor'[future'[r]] = r
          /\ cached' # None => madeFor'[cached'] = Anyone
          /\ \A u \in Tokens : madeFor[u] # None => madeFor'[u] = madeFor[u]
      BY <2>1, <2>2, FreshIsNew DEF Fresh
    <3>2. madeFor'[t] = job.id
      BY <2>2 DEF TypeOK
    <3>3. pre' # None => madeFor'[pre'] = Anyone
      BY <2>1, <3>1 DEF TypeOK, Purposes
    <3>4. QED
      BY <2>1, <2>2, <3>1, <3>2, <3>3 DEF Purposes
  <2>3. CASE job' = Job(job.id, "reporting", None) /\ madeFor' = madeFor
    BY <2>1, <2>3 DEF Purposes, TokenForItsRequest
  <2>4. QED
    BY <1>3, <2>2, <2>3 DEF Generate, Fresh
<1>4. CASE PostToken
  <2>1. job.token \in Tokens /\ madeFor[job.token] = job.id
    BY <1>4 DEF PostToken, Purposes
  <2>2. \A r \in Requests : future'[r] \in Tokens => madeFor'[future'[r]] = r
    BY <1>4, <2>1, SubmitPurposes DEF PostToken
  <2>3. QED
    BY <1>4, <2>2 DEF PostToken, Submit, Purposes, TokenForItsRequest
<1>5. CASE PostError
  <2>1. \A r \in Requests : future'[r] \in Tokens => madeFor'[future'[r]] = r
    BY <1>5, SubmitPurposes DEF PostError
  <2>2. QED
    BY <1>5, <2>1 DEF PostError, Submit, Purposes, TokenForItsRequest
<1>6. CASE PostTokenFails
  <2>1. job.token \in Tokens /\ madeFor[job.token] = job.id /\ job.id \in Requests
    BY <1>6 DEF PostTokenFails, Purposes
  <2>2. \A r \in Requests : future'[r] \in Tokens => madeFor'[future'[r]] = r
    <3>1. CASE Submit(job.id, job.token)
      BY <1>6, <2>1, <3>1, SubmitPurposes DEF PostTokenFails
    <3>2. CASE UNCHANGED serverVars
      BY <1>6, <3>2 DEF PostTokenFails, Purposes
    <3>3. QED
      BY <1>6, <3>1, <3>2 DEF PostTokenFails
  <2>3. QED
    BY <1>6, <2>1, <2>2 DEF PostTokenFails, Submit, Purposes, TokenForItsRequest
<1>7. CASE PostErrorFails
  BY <1>7 DEF PostErrorFails, Purposes, TokenForItsRequest
<1>8. CASE GeneratePre
  <2>1. UNCHANGED <<future, got, cached, job>> /\ job = Idle
    BY <1>8 DEF GeneratePre
  <2>2. ASSUME NEW t \in Tokens, Fresh(t), madeFor' = [madeFor EXCEPT ![t] = Anyone], pre' = t
        PROVE  Purposes'
    <3>1. /\ TokenForItsRequest'
          /\ \A r \in Requests : future'[r] \in Tokens => madeFor'[future'[r]] = r
          /\ cached' # None => madeFor'[cached'] = Anyone
      BY <2>1, <2>2, FreshIsNew DEF Fresh
    <3>2. madeFor'[t] = Anyone
      BY <2>2 DEF TypeOK
    <3>3. QED
      BY <2>1, <2>2, <3>1, <3>2 DEF Purposes
  <2>3. QED
    BY <1>8, <2>2 DEF GeneratePre, Fresh
<1>9. CASE PostPre
  BY <1>9 DEF PostPre, SubmitPre, Purposes, TokenForItsRequest
<1>10. CASE Killed
  BY <1>10 DEF Killed, Purposes, TokenForItsRequest
<1>11. QED
  BY <1>1, <1>2, <1>3, <1>4, <1>5, <1>6, <1>7, <1>8, <1>9, <1>10 DEF Extension

-----------------------------------------------------------------------------
(* A token serves once.                                                    *)

LEMMA OnceServer ==
  ASSUME TypeOK, Stages, Purposes, TokenUsedOnce, PreTokenOnce, Server
  PROVE  TokenUsedOnce' /\ PreTokenOnce'
<1>1. pre' = pre
  BY ServerKeepsExtension DEF ExtensionUnchanged
<1>2. ASSUME NEW r \in Requests, Took(r)
      PROVE  TokenUsedOnce' /\ PreTokenOnce'
  <2>1. got' = [got EXCEPT ![r] = cached] /\ cached # None /\ cached' = None
    BY <1>2 DEF Took, TakeCached
  <2>2. \A s \in Requests : got[s] # cached
    BY <2>1 DEF TokenUsedOnce
  <2>3. QED
    BY <1>1, <2>1, <2>2 DEF TypeOK, TokenUsedOnce, PreTokenOnce
<1>3. ASSUME NEW r \in Requests, Moved(r) \/ Asked(r) \/ Tested(r)
      PROVE  TokenUsedOnce' /\ PreTokenOnce'
  BY <1>1, <1>3 DEF TokenUsedOnce, PreTokenOnce, Moved, Asked, Tested, Await
<1>4. ASSUME NEW r \in Requests, NEW t \in Tokens \cup {None}, Left(r, t)
      PROVE  TokenUsedOnce' /\ PreTokenOnce'
  <2>1. got' = [got EXCEPT ![r] = t] /\ cached' = cached /\ (t = None \/ t = future[r])
    BY <1>4 DEF Left, Leave
  <2>2. t # None => madeFor[t] = r
    BY <2>1 DEF Purposes
  <2>3. t # None => /\ t # cached
                    /\ t # pre
                    /\ \A s \in Requests : got[s] = t => s = r
    BY <2>2 DEF TypeOK, Purposes, TokenForItsRequest
  <2>4. QED
    BY <1>1, <2>1, <2>3 DEF TypeOK, TokenUsedOnce, PreTokenOnce
<1>5. CASE CacheExpires
  BY <1>1, <1>5 DEF TypeOK, TokenUsedOnce, PreTokenOnce, CacheExpires
<1>6. QED
  BY <1>2, <1>3, <1>4, <1>5, ServerCases DEF Requests

LEMMA OnceExtension ==
  ASSUME TypeOK, Purposes, TokenUsedOnce, PreTokenOnce, Extension
  PROVE  TokenUsedOnce' /\ PreTokenOnce'
<1>1. got' = got
  BY ExtensionCases
<1>2. CASE cached' = cached /\ pre' \in {pre, None}
  BY <1>1, <1>2 DEF TokenUsedOnce, PreTokenOnce
<1>3. CASE Poll \/ ReadAnswer \/ Generate \/ PostToken \/ PostError \/ PostTokenFails
           \/ PostErrorFails \/ Killed
  BY <1>2, <1>3 DEF Poll, ReadAnswer, Generate, PostToken, PostError, PostTokenFails,
                    PostErrorFails, Killed, Submit, serverVars
<1>4. CASE GeneratePre
  <2>1. pre' \in Tokens /\ madeFor[pre'] = None /\ cached' = cached
    BY <1>4 DEF GeneratePre, Fresh, serverVars
  <2>2. pre' # cached /\ \A r \in Requests : got[r] # pre'
    BY <2>1 DEF Purposes, TokenForItsRequest
  <2>3. QED
    BY <1>1, <2>1, <2>2 DEF TokenUsedOnce, PreTokenOnce
<1>5. CASE PostPre
  <2>1. pre' = None /\ pre # None /\ cached' \in {cached, pre}
    BY <1>5 DEF PostPre, SubmitPre, serverVars
  <2>2. QED
    BY <1>1, <2>1 DEF TokenUsedOnce, PreTokenOnce
<1>6. QED
  BY <1>3, <1>4, <1>5 DEF Extension

-----------------------------------------------------------------------------
(* Chats and tests.                                                        *)

LEMMA KnownStep ==
  ASSUME TypeOK, Purposes, ChatsKnown, Next
  PROVE  ChatsKnown'
<1>1. ASSUME NEW r \in Requests, Took(r)
      PROVE  ChatsKnown'
  BY <1>1 DEF TypeOK, ChatsKnown, Took, TakeCached, Goto, Requests
<1>2. ASSUME NEW r \in Requests, Moved(r)
      PROVE  ChatsKnown'
  BY <1>2 DEF TypeOK, ChatsKnown, Moved, Goto, Requests
<1>3. ASSUME NEW r \in Chats, Asked(r)
      PROVE  ChatsKnown'
  <2>1. \A c \in Chats : pc'[c] = "waiting" => c = r
    BY <1>3 DEF TypeOK, Asked, Await, Goto, Requests
  <2>2. QED
    BY <1>3, <2>1 DEF ChatsKnown, Asked, Await
<1>4. ASSUME NEW r \in Tests, Tested(r)
      PROVE  ChatsKnown'
  <2>1. pc'[r] = "waiting"
    BY <1>4 DEF TypeOK, Tested, Await, Goto, Requests
  <2>2. QED
    BY <2>1 DEF ChatsKnown
<1>5. ASSUME NEW r \in Requests, NEW t \in Tokens \cup {None}, Left(r, t)
      PROVE  ChatsKnown'
  <2>1. pc[r] = "waiting" /\ pc' = [pc EXCEPT ![r] = "done"]
    BY <1>5 DEF Left, Leave, Goto
  <2>2. CASE r \in Chats
    <3>1. \A c \in Chats : pc'[c] # "waiting"
      BY <2>1, <2>2 DEF TypeOK, Requests
    <3>2. QED
      BY <3>1 DEF ChatsKnown
  <2>3. CASE r \in Tests
    <3>1. pc'[r] = "done"
      BY <2>1 DEF TypeOK
    <3>2. QED
      BY <2>3, <3>1 DEF ChatsKnown
  <2>4. QED
    BY <2>2, <2>3 DEF Requests
<1>6. CASE CacheExpires
  BY <1>6 DEF ChatsKnown, CacheExpires
<1>7. CASE Extension
  <2>1. /\ UNCHANGED <<pc, solver, pending, got>>
        /\ UNCHANGED future \/ FutureSet
    BY <1>7, ExtensionCases
  <2>2. \A r \in Chats : future[r] # None => future'[r] # None
    BY <2>1 DEF FutureSet, Requests
  <2>3. QED
    BY <2>1, <2>2 DEF ChatsKnown
<1>8. QED
  BY <1>1, <1>2, <1>3, <1>4, <1>5, <1>6, <1>7, ServerCases DEF Next

-----------------------------------------------------------------------------

BridgeInv == /\ TypeOK /\ Stages /\ PendingIsAwaited
             /\ Purposes /\ TokenUsedOnce /\ PreTokenOnce
             /\ ChatsKnown

LEMMA BridgeInit == Init => BridgeInv
<1> SUFFICES ASSUME Init
             PROVE  BridgeInv
  OBVIOUS
<1> USE DEF Init, Idle, Job
<1>1. TypeOK
  BY DEF TypeOK, Requests
<1>2. Stages /\ PendingIsAwaited /\ ChatsKnown
  BY DEF Stages, PendingIsAwaited, ChatsKnown, Requests
<1>3. Purposes
  BY DEF Purposes, TokenForItsRequest
<1>4. TokenUsedOnce /\ PreTokenOnce
  BY DEF TokenUsedOnce, PreTokenOnce
<1>5. QED
  BY <1>1, <1>2, <1>3, <1>4 DEF BridgeInv

LEMMA BridgeStep == BridgeInv /\ [Next]_vars => BridgeInv'
<1> SUFFICES ASSUME BridgeInv, [Next]_vars
             PROVE  BridgeInv'
  OBVIOUS
<1>1. CASE Server
  <2>1. TypeOK' /\ Stages' /\ PendingIsAwaited'
    BY <1>1, TypeServer, AwaitedServer DEF BridgeInv
  <2>2. Purposes' /\ TokenUsedOnce' /\ PreTokenOnce'
    BY <1>1, PurposesServer, OnceServer DEF BridgeInv
  <2>3. ChatsKnown'
    BY <1>1, KnownStep DEF BridgeInv, Next
  <2>4. QED
    BY <2>1, <2>2, <2>3 DEF BridgeInv
<1>2. CASE Extension
  <2>1. TypeOK' /\ Stages' /\ PendingIsAwaited'
    BY <1>2, TypeExtension, AwaitedExtension DEF BridgeInv
  <2>2. Purposes' /\ TokenUsedOnce' /\ PreTokenOnce'
    BY <1>2, PurposesExtension, OnceExtension DEF BridgeInv
  <2>3. ChatsKnown'
    BY <1>2, KnownStep DEF BridgeInv, Next
  <2>4. QED
    BY <2>1, <2>2, <2>3 DEF BridgeInv
<1>3. CASE UNCHANGED vars
  <2>1. TypeOK' /\ Stages' /\ PendingIsAwaited'
    BY <1>3 DEF BridgeInv, TypeOK, Stages, PendingIsAwaited, vars, serverVars, extensionVars
  <2>2. Purposes' /\ TokenUsedOnce' /\ PreTokenOnce' /\ ChatsKnown'
    BY <1>3 DEF BridgeInv, Purposes, TokenForItsRequest, TokenUsedOnce, PreTokenOnce,
                ChatsKnown, vars, serverVars, extensionVars
  <2>3. QED
    BY <2>1, <2>2 DEF BridgeInv
<1>4. QED
  BY <1>1, <1>2, <1>3 DEF Next

\* The inductive invariant holds in every behaviour of the bridge.
THEOREM BridgeInvariant == Spec => []BridgeInv
BY BridgeInit, BridgeStep, PTL DEF Spec

\* Types, and the solver's lock: it is with the chat that waits at the bridge,
\* and with nobody when none does.
THEOREM BridgeTypeCorrect == Spec => []TypeOK
<1>1. BridgeInv => TypeOK
  BY DEF BridgeInv
<1>2. QED
  BY <1>1, BridgeInvariant, PTL

\* No token is used twice, whatever is late, lost or repeated.
THEOREM TokensServeOnce == Spec => []TokenUsedOnce
<1>1. BridgeInv => TokenUsedOnce
  BY DEF BridgeInv
<1>2. QED
  BY <1>1, BridgeInvariant, PTL

\* A request returns with a token made for it, or with a pre-token.
THEOREM TokensMeetTheirRequest == Spec => []TokenForItsRequest
<1>1. BridgeInv => TokenForItsRequest
  BY DEF BridgeInv, Purposes
<1>2. QED
  BY <1>1, BridgeInvariant, PTL

\* The extension is never asked to serve a request that nobody waits for.
THEOREM NobodyServedInVain == Spec => []PendingIsAwaited
<1>1. BridgeInv => PendingIsAwaited
  BY DEF BridgeInv
<1>2. QED
  BY <1>1, BridgeInvariant, PTL

\* Without an administrator's test the bridge forgets no chat.
THEOREM ChatsForgetNoChat == Spec => []OnlyTestsOrphan
<1>1. BridgeInv => OnlyTestsOrphan
  BY DEF BridgeInv, ChatsKnown, OnlyTestsOrphan, Orphaned
<1>2. QED
  BY <1>1, BridgeInvariant, PTL
=============================================================================
