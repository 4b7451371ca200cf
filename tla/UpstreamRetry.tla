--------------------------- MODULE UpstreamRetry ---------------------------
(***************************************************************************)
(* ArenaClient._stream_with_retry (src/src/client.py) over the cookie      *)
(* pool: several requests, each with its attempts, its payload and what    *)
(* its consumer has been given.                                            *)
(*                                                                         *)
(* A stream has a text per key (model_index), TextLength characters long,  *)
(* and every attempt of a request is sent the same text, in chunks of any  *)
(* size: that is when dropping what was sent before makes sense.  Sent     *)
(* characters are numbered, so that the text is 1, 2, ..., TextLength.     *)
(***************************************************************************)
EXTENDS CookiePool

CONSTANTS Requests, Keys, TextLength,
          RetryAttempts,    \* RETRY_ATTEMPTS
          None

ASSUME RetryAssumption == /\ TextLength \in Nat \ {0}
                          /\ RetryAttempts \in Nat \ {0}
                          /\ Keys # {}
                          /\ None \notin Cookies

VARIABLES pc,
          attempt,
          cookie,       \* entry
          payload,      \* payload["recaptchaV3Token"], see Tokens
          invalidated,  \* recaptcha_invalidated
          acc,          \* lengths of acc[k]
          emitted,      \* emitted[k]
          out           \* what the consumer has been given, per key

requestVars == <<pc, attempt, cookie, payload, invalidated, acc, emitted, out>>
vars == <<poolVars, requestVars>>

Tokens == {"none", "fresh", "spent"}   \* spent: an earlier attempt sent it

Nothing == [k \in Keys |-> 0]     \* no character of any key

Init == /\ PoolInit
        /\ pc = [r \in Requests |-> "new"]
        /\ attempt = [r \in Requests |-> 0]
        /\ cookie = [r \in Requests |-> None]
        /\ payload = [r \in Requests |-> "none"]
        /\ invalidated = [r \in Requests |-> FALSE]
        /\ acc = [r \in Requests |-> Nothing]
        /\ emitted = [r \in Requests |-> Nothing]
        /\ out = [r \in Requests |-> [k \in Keys |-> <<>>]]

Goto(r, place) == pc' = [pc EXCEPT ![r] = place]

\* The generator ends and its variables with it; what a served consumer was
\* given stays.
End(r, place) == /\ Goto(r, place)
                 /\ attempt' = [attempt EXCEPT ![r] = 0]
                 /\ cookie' = [cookie EXCEPT ![r] = None]
                 /\ payload' = [payload EXCEPT ![r] = "none"]
                 /\ invalidated' = [invalidated EXCEPT ![r] = FALSE]
                 /\ acc' = [acc EXCEPT ![r] = Nothing]
                 /\ emitted' = [emitted EXCEPT ![r] = Nothing]
                 /\ out' = IF place = "served" THEN out
                           ELSE [out EXCEPT ![r] = [k \in Keys |-> <<>>]]

Started(r)  == \E k \in Keys : acc[r][k] > 0
Complete(r) == \A k \in Keys : acc[r][k] = TextLength

-----------------------------------------------------------------------------
(* One attempt.                                                            *)

\* The top of the loop: a cookie, then get_recaptcha_token suspends.
Begin(r) == /\ pc[r] \in {"new", "backoff"}
            /\ attempt' = [attempt EXCEPT ![r] = @ + 1]
            /\ acc' = [acc EXCEPT ![r] = Nothing]
            /\ \E c \in Cookies : /\ Acquire(c)
                                  /\ cookie' = [cookie EXCEPT ![r] = c]
            /\ Goto(r, "solving")
            /\ UNCHANGED <<payload, invalidated, emitted, out>>

\* NoCookiesError, which no handler of the loop catches.
BeginWithoutCookies(r) == /\ pc[r] = "new"
                          /\ Entries = {}
                          /\ End(r, "failed")
                          /\ UNCHANGED poolVars

\* The solver returns a token, or None, or raises, which is the same; without
\* a token the payload stays as it is.  Then the request is posted.
Post(r) == /\ pc[r] = "solving"
           /\ \/ payload' = [payload EXCEPT ![r] = "fresh"]
              \/ payload' = [payload EXCEPT ![r] = IF @ = "none" THEN "none" ELSE "spent"]
           /\ Goto(r, "streaming")
           /\ UNCHANGED <<poolVars, attempt, cookie, invalidated, acc, emitted, out>>

\* Slip: the whole chunk is passed on.
PassOnWhole(r, k, n) == /\ out' = [out EXCEPT ![r][k] = @ \o [i \in 1 .. n |-> acc[r][k] + i]]
                        /\ emitted' = [emitted EXCEPT ![r][k] = acc[r][k] + n]

\* The part of acc[k] + n characters that goes beyond what was sent.
PassOn(r, k, n) ==
  LET cur     == acc[r][k] + n
      already == emitted[r][k]
  IN  \/ /\ cur > already
         /\ out' = [out EXCEPT ![r][k] = @ \o [i \in 1 .. cur - already |-> already + i]]
         /\ emitted' = [emitted EXCEPT ![r][k] = cur]
      \/ /\ cur <= already
         /\ UNCHANGED <<out, emitted>>

\* A content event with n characters for key k.
Chunk(r, k, n) == /\ pc[r] = "streaming"
                  /\ acc[r][k] + n <= TextLength
                  /\ acc' = [acc EXCEPT ![r][k] = @ + n]
                  /\ PassOn(r, k, n)
                  /\ UNCHANGED <<poolVars, pc, attempt, cookie, payload, invalidated>>

-----------------------------------------------------------------------------
(* The ends of an attempt.                                                 *)

\* The consumer reads to the end of the stream (battle): the cookie is good.
Finish(r) == /\ pc[r] = "streaming"
             /\ Complete(r)
             /\ MarkOk(cookie[r])
             /\ End(r, "served")

\* The consumer stops at the done event (chat), and nothing is marked.
StopAtDone(r) == /\ pc[r] = "streaming"
                 /\ Complete(r)
                 /\ End(r, "served")
                 /\ UNCHANGED poolVars

\* The client has gone: GeneratorExit or CancelledError.
Disconnect(r) == /\ pc[r] \in {"solving", "streaming", "backoff"}
                 /\ End(r, "left")
                 /\ UNCHANGED poolVars

BackOff(r, refresh) == /\ Goto(r, "backoff")
                       /\ invalidated' = [invalidated EXCEPT ![r] = refresh]
                       /\ UNCHANGED <<cookie, payload, acc, emitted, out>>

\* Slip: an attempt that failed early does not count.
RetryUncounted(r, refresh) == /\ BackOff(r, refresh)
                              /\ attempt' = [attempt EXCEPT ![r] = @ - 1]

\* Sleep and go round again, unless this was the last attempt.
RetryOrRaise(r, refresh) ==
  \/ /\ attempt[r] < RetryAttempts
     /\ BackOff(r, refresh)
     /\ UNCHANGED attempt
  \/ /\ attempt[r] >= RetryAttempts
     /\ End(r, "failed")

\* Status 429, a status in RETRYABLE_STATUS, a stream without events: before
\* any content.  A network error: at any time.
Interrupted(r) == /\ pc[r] = "streaming"
                  /\ RetryOrRaise(r, invalidated[r])
                  /\ UNCHANGED poolVars

\* ArenaAuthError with failure_mode "recaptcha", the first one.
TokenRejected(r) == /\ pc[r] = "streaming"
                    /\ ~Started(r)
                    /\ ~invalidated[r]
                    /\ RetryOrRaise(r, TRUE)
                    /\ UNCHANGED poolVars

\* "recaptcha" again, "auth_expired" or "cloudflare": refresh_from_extension
\* always answers False, and the entry is blamed.
CookieRejected(r) == /\ pc[r] = "streaming"
                     /\ ~Started(r)
                     /\ MarkFailed(cookie[r], TRUE)
                     /\ RetryOrRaise(r, invalidated[r])

Banned(r) == /\ pc[r] = "streaming"
             /\ ~Started(r)
             /\ MarkFailed(cookie[r], TRUE)
             /\ End(r, "failed")

\* Another 4xx, or an exception no handler lists.
Fatal(r) == /\ pc[r] = "streaming"
            /\ End(r, "failed")
            /\ UNCHANGED poolVars

-----------------------------------------------------------------------------

Proceed(r) == \/ Post(r)
              \/ \E k \in Keys, n \in 1 .. TextLength : Chunk(r, k, n)
              \/ Finish(r) \/ StopAtDone(r) \/ Interrupted(r)
              \/ TokenRejected(r) \/ CookieRejected(r) \/ Banned(r) \/ Fatal(r)

\* submit_vote takes a cookie and fails at once: ARENA_VOTE_URL is not imported.
Vote == \E c \in Cookies : Acquire(c)

Others == /\ (\E c \in Cookies : Validate(c)) \/ Renew \/ Vote
          /\ UNCHANGED requestVars

Next == \/ \E r \in Requests : Begin(r) \/ BeginWithoutCookies(r) \/ Proceed(r) \/ Disconnect(r)
        \/ Others

(***************************************************************************)
(* Fairness: a back-off ends, the solver answers or times out, and an      *)
(* attempt goes on or ends, REQUEST_TIMEOUT bounding every read.           *)
(***************************************************************************)
Spec == /\ Init /\ [][Next]_vars
        /\ \A r \in Requests : WF_vars(Begin(r) \/ BeginWithoutCookies(r)) /\ WF_vars(Proceed(r))

-----------------------------------------------------------------------------
(* Properties.                                                             *)

Places == {"new", "solving", "streaming", "backoff", "served", "failed", "left"}

\* Every variable has its type.
TypeOK == /\ PoolTypeOK
          /\ pc \in [Requests -> Places]
          /\ attempt \in [Requests -> 0 .. RetryAttempts]
          /\ cookie \in [Requests -> Cookies \cup {None}]
          /\ payload \in [Requests -> Tokens]
          /\ invalidated \in [Requests -> BOOLEAN]
          /\ acc \in [Requests -> [Keys -> 0 .. TextLength]]
          /\ emitted \in [Requests -> [Keys -> 0 .. TextLength]]
          /\ \A r \in Requests, k \in Keys : out[r][k] \in Seq(1 .. TextLength)

\* Through any number of reconnections and however the chunks are cut, the
\* consumer is given the text without gap or repetition, and a request that
\* counts as served has been given all of it.
TextIntact == \A r \in Requests, k \in Keys :
                /\ out[r][k] = [i \in 1 .. Len(out[r][k]) |-> i]
                /\ pc[r] = "served" => Len(out[r][k]) = TextLength

\* A request that is served, refused or cut off is over for good, and none
\* goes on for ever.
EveryRequestEnds == \A r \in Requests : []<>(pc[r] \in {"served", "failed", "left"})

\* The load is spread: while an entry stays healthy, no attempt takes another
\* entry that was taken since it was taken last, however the set of healthy
\* entries changes meanwhile.
NotPassedOver ==
  [][\A r \in Requests : pc[r] # "solving" /\ pc'[r] = "solving" =>
       \A c \in Healthy : c = cookie'[r] \/ cookie'[r] \notin since[c]]_vars

\* What an attempt sends was obtained for it: without a token from the solver
\* the field is left out.
TokenObtainedForAttempt == \A r \in Requests : pc[r] = "streaming" => payload[r] # "spent"
=============================================================================
