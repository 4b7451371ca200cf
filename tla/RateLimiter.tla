----------------------------- MODULE RateLimiter -----------------------------
(***************************************************************************)
(* The token buckets of src/src/rate_limiter.py, switched on: "tpm" takes  *)
(* the tokens of a chat's prompt (src/src/routes/chat.py), "rpm" one unit  *)
(* for every request (src/src/client.py).  A request that finds too little *)
(* sleeps until time has made up for what is missing, looks once more, and *)
(* is admitted whatever it finds.                                          *)
(*                                                                         *)
(* A unit is what a bucket regains in a tick of the clock.  The clock only *)
(* goes forward, and a bucket that is full regains nothing.                *)
(***************************************************************************)
EXTENDS Integers

CONSTANTS Callers,
          Prompts,   \* how many units a prompt may cost; none for a battle
          Limits     \* the configured capacities; with 0 a bucket is never refilled

Buckets == {"tpm", "rpm"}

ASSUME RateAssumption == Prompts \subseteq Nat /\ Limits \subseteq [Buckets -> Nat]

VARIABLES capacity,
          tokens,    \* what a bucket held when it was last refilled
          since,     \* ticks since then, up to those that fill it
          stage,     \* "idle", asleep at a bucket, or "planned" in between
          prompt,    \* what a sleeper at "tpm" came for
          due,       \* ticks left to sleep
          overtaken  \* history: sleepers whose bucket was taken from meanwhile

buckets == <<tokens, since>>
limiterVars == <<capacity, buckets, stage, prompt, due, overtaken>>

Least(x, y)    == IF x < y THEN x ELSE y
Greatest(x, y) == IF x > y THEN x ELSE y

LimiterInit == /\ capacity \in Limits
               /\ tokens = capacity
               /\ since = [b \in Buckets |-> 0]
               /\ stage = [r \in Callers |-> "idle"]
               /\ prompt = [r \in Callers |-> 0]
               /\ due = [r \in Callers |-> 0]
               /\ overtaken = {}

Asleep(r) == stage[r] \in Buckets
Refill(b) == Least(capacity[b], tokens[b] + since[b])

\* refill_per_sec is 0 with the capacity, and nobody sleeps.
Deficit(b, n) == IF capacity[b] = 0 THEN 0 ELSE n - Refill(b)

Refilled(b, left) == /\ tokens' = [tokens EXCEPT ![b] = left]
                     /\ since' = [since EXCEPT ![b] = 0]

Pay(r, b, n) == /\ Refilled(b, Greatest(0, Refill(b) - n))
                /\ overtaken' = (overtaken \cup {q \in Callers : stage[q] = b}) \ {r}

\* Slip: the sleep is a tick too short.
FallAsleepBriefly(r, b, n) == /\ Refill(b) < n
                              /\ Refilled(b, Refill(b))
                              /\ stage' = [stage EXCEPT ![r] = b]
                              /\ due' = [due EXCEPT ![r] = Greatest(0, Deficit(b, n) - 1)]
                              /\ UNCHANGED overtaken

FallAsleep(r, b, n) == /\ Refill(b) < n
                       /\ Refilled(b, Refill(b))
                       /\ stage' = [stage EXCEPT ![r] = b]
                       /\ due' = [due EXCEPT ![r] = Deficit(b, n)]
                       /\ UNCHANGED overtaken

\* take(): enough at once, or asleep.
Take(r, b, n, then) == \/ /\ Refill(b) >= n
                          /\ Pay(r, b, n)
                          /\ stage' = [stage EXCEPT ![r] = then]
                          /\ UNCHANGED due
                       \/ FallAsleep(r, b, n)

-----------------------------------------------------------------------------
Price(r) == IF stage[r] = "rpm" THEN 1 ELSE prompt[r]
Then(r)  == IF stage[r] = "tpm" THEN "planned" ELSE "idle"

\* A chat asks for its prompt; acquire_tokens lets one of no tokens pass.
Chat(r) == /\ stage[r] = "idle"
           /\ \E n \in Prompts :
                 /\ \/ n > 0 /\ Take(r, "tpm", n, "planned")
                    \/ n = 0 /\ stage' = [stage EXCEPT ![r] = "planned"]
                             /\ UNCHANGED <<buckets, due, overtaken>>
                 /\ prompt' = [prompt EXCEPT ![r] = IF stage'[r] = "tpm" THEN n ELSE 0]
           /\ UNCHANGED capacity

Stream(r) == /\ stage[r] = "planned"
             /\ Take(r, "rpm", 1, "idle")
             /\ UNCHANGED <<capacity, prompt>>

\* Slip: take() again, instead of the one look after the sleep.
TakeAgain(r) == /\ Asleep(r)
                /\ due[r] = 0
                /\ Take(r, stage[r], Price(r), Then(r))
                /\ prompt' = [prompt EXCEPT ![r] = IF stage'[r] = "tpm" THEN @ ELSE 0]
                /\ UNCHANGED capacity

\* After the sleep: admitted, with enough or without.
Wake(r) == /\ Asleep(r)
           /\ due[r] = 0
           /\ Pay(r, stage[r], Price(r))
           /\ stage' = [stage EXCEPT ![r] = Then(r)]
           /\ prompt' = [prompt EXCEPT ![r] = 0]
           /\ UNCHANGED <<capacity, due>>

\* The client of a stream disconnects.
HangUp(r) == /\ stage[r] = "rpm"
             /\ stage' = [stage EXCEPT ![r] = "idle"]
             /\ due' = [due EXCEPT ![r] = 0]
             /\ overtaken' = overtaken \ {r}
             /\ UNCHANGED <<capacity, buckets, prompt>>

Tick == /\ since' = [b \in Buckets |-> Least(capacity[b], since[b] + 1)]
        /\ due' = [r \in Callers |-> Greatest(0, due[r] - 1)]
        /\ <<since', due'>> # <<since, due>>
        /\ UNCHANGED <<capacity, tokens, stage, prompt, overtaken>>

LimiterNext == \/ \E r \in Callers : Chat(r) \/ Stream(r) \/ Wake(r) \/ HangUp(r)
               \/ Tick

Fairness == WF_limiterVars(Tick) /\ \A r \in Callers : WF_limiterVars(Wake(r))

LimiterSpec == LimiterInit /\ [][LimiterNext]_limiterVars /\ Fairness

-----------------------------------------------------------------------------
\* A request that has slept, for no more than its bucket can hold, finds what it
\* came for, unless somebody has taken from the bucket since: the limit is exceeded
\* by sleepers that meet, and by nothing else (rate_limiter.py:45-58).
PaidUnlessOvertaken ==
    \A r \in Callers : Asleep(r) /\ due[r] = 0 /\ Price(r) <= capacity[stage[r]] /\ r \notin overtaken
                           => Refill(stage[r]) >= Price(r)

\* Nobody sleeps for ever, though others may drain the bucket while it sleeps
\* and a prompt may cost more than the bucket holds (rate_limiter.py:50-58).
AdmittedInTheEnd == \A r \in Callers : Asleep(r) ~> ~Asleep(r)
=============================================================================
