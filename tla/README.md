# Verification of arena-web2api

TLA+ models of the concurrent core of arena-web2api (an OpenAI-compatible server in front of
arena.ai), the TLC runs that check them and the theorems TLAPS proves about them. Paths are relative
to the repository root.

## The system

One Python process, one asyncio event loop. A request passes, in this order:

1. the middlewares (`src/auth.py`, `src/request_id.py`, `src/debug_logging.py`);
2. its route: `src/routes/chat.py` or `src/routes/battle.py`;
3. for non-streaming chat with an `Idempotency-Key`: the **idempotency store** (`src/idempotency.py`);
4. the token bucket (`src/rate_limiter.py`) and `plan_turn` of the **conversation manager**
   (`src/conversation.py`, `src/conversation_store.py`);
5. the **concurrency gate** and the **conversation lock** (`src/concurrency.py`);
6. the **stream guard**, `ArenaClient._stream_grounded` in `src/client.py`, around it the **circuit
   breaker** (`src/circuit_breaker.py`);
7. the **retry loop**, `ArenaClient._stream_with_retry`: a cookie from the **cookie pool**
   (`src/cookie_pool.py`), a reCAPTCHA token from the **solver** (`src/recaptcha_solver.py`), which asks
   the **token bridge** (`src/token_bridge.py`), which the **browser extension**
   (`extension/background.js`) polls; then one upstream attempt through the **SSE decoder**
   (`src/sse_parser.py`);
8. back in the route: `commit_response`, then the answer.

Beside it run the refresh loops of the cookie pool and of the model registry, the admin routes
(`src/routes/admin.py`), the older WebSocket **token broker** (`src/token_broker.py`), and the saving of
conversations at shutdown and their loading at the start.

### Inventory

| Component | State | Operations | What is hard | Correct means |
|---|---|---|---|---|
| circuit breaker | state, failures, probes, opened_at | check, success, failure, admin reset, time | outcomes of streams admitted in another state arrive late | state and count agree; probe budget kept; closes again when the upstream works |
| stream guard | one generator per request | admit, the ways a generator ends | GeneratorExit and CancelledError look alike to the client, not to the code | every admitted stream gives its probe slot back |
| concurrency gate | semaphore, waiting, active | slot(): enter, wait, time out, cancel, leave | time-out against hand-over | counters exact, no permit lost, FIFO, nobody starves |
| conversation locks | lock and last use per conversation | acquire, evict | eviction while somebody waits; a route that takes none | one holder per conversation |
| idempotency store | cached responses, markers, events | acquire, wait_for, put, release, expiry | requests pop each other's markers | nobody waits for ever; what is returned was produced |
| chat route | one handler per request | steps 3-8 | errors between acquire and put | one upstream run per key; waiters are answered |
| conversations | key -> conversation, history | plan_turn, commit_response, size cap, expiry | plans made before locks, commits after them; replies shown in another form than they are committed | a conversation continues what it says it continues, and the next turn finds it |
| conversation file | file, four backups | rotate, copy, replace, load | crashes between file operations | a readable version survives |
| retry loop, cookie pool | attempt, emitted lengths; health per cookie | acquire, attempt, mark, retry, revive | late outcomes on replaced cookies; answers cut by length | each part sent once; health follows outcomes |
| solver, bridge, extension | cached tokens, pending request, future | request, poll, submit, invalidate | two requests share one slot; late tokens | a token is used once, by its requester |
| token broker | pending futures, in flight, connection | request, resolve, reconnect, stop | a lock held while waiting for places | a request is answered or times out |
| SSE decoder | buffer, fields of the event | feed, flush | cuts at any byte | events do not depend on the cuts |
| rate limiters | tokens, time of the last refill | take for a prompt, for a request | waiters wake together; a prompt may cost more than the bucket holds | the rate is exceeded only by waiters that meet; nobody sleeps for ever |
| registry, metrics, auth, schemas, tools, attachments, desktop CDP, scripts | caches, counters, none | | pure I/O or pure functions | not modelled, see below |

### asyncio, once and for all

Steps of the models are the stretches between two suspensions. `async with lock` on an uncontended
`asyncio.Lock` does not suspend; a lock whose bodies never await is therefore never contended, and its
bodies join the atomic step around them. That is the case of the locks in the breaker, the gate, the
idempotency store, the token bridge, the cookie pool and the buckets. Locks held across an await
(conversation locks, the solver's cache lock, the broker's token lock) have to be modelled as locks.

## Modules

| Module | Models | State and actions |
|---|---|---|
| `CircuitBreaker` | `src/circuit_breaker.py`, the reset in `src/routes/admin.py` | `state`, `failures`, `probes` are the object's fields, `cooled` stands for the clock; `CheckPasses`/`CheckRaises`, `Success`, `Failure`, `Reset`, `CooldownElapses` |
| `StreamGuard` | `_stream_grounded` and its consumers in both routes, over `CircuitBreaker` | one `pc` per request slot; one action per way in and per way out of the generator |
| `Admission` | abstract: what a bounded gate promises | `inside`, `room` |
| `ConcurrencyGate` | `ConcurrencyGate.slot`, over CPython 3.12's `asyncio.Semaphore` (external; `Dockerfile` fixes the version) | `line` and `free` are the semaphore's deque and value; one action per stretch of `slot()` |
| `Idempotency` | `src/idempotency.py` for one key | `cache`, `inflight`, `fired` |
| `SingleFlight` | the non-streaming chat handler, several requests with one key, over `Idempotency` | `pc`, `ticket` (the marker waited on), `answer` |
| `CookiePool` | `src/cookie_pool.py`, and `submit_cookies` in `src/token_bridge.py` | `unused` and `used` rank the entries by `last_used`; `healthy` and `fails` are theirs; `Acquire`, `MarkOk`, `MarkFailed`, `Validate`, `Renew` |
| `UpstreamRetry` | `_stream_with_retry` with its attempts, over `CookiePool` | `attempt`, `cookie`, `payload`, `invalidated`, `acc`, `emitted` are the function's locals, `out` what the consumer was given; one action per await and per except clause |
| `TokenBridge` | `get_recaptcha_token` with the strategy `extension`, `src/token_bridge.py`, `extension/background.js`, `/admin/broker/test` | `solver` is the cache lock's holder, `pending` the bridge's single place, `job` the extension's on-demand generation; one action per await on either side |
| `Conversations` | `src/conversation.py`, the in-memory part of `src/conversation_store.py`, `ConversationLockManager` in `src/concurrency.py`, both routes, and what arena.ai was sent | `model` is what all requests name, `route` whether one came by `/v1/battle`, `transcript` what a client has said and been shown; `convs` and `order` are the store's dict, `hist` the conversations' histories, `locks` numbers each conversation's current lock; `Continue`/`Start` plan, `Lock`, `Post`, `Resend`, `Succeed` (commit, eviction, and what the client is `Shown`), `Fail` |
| `Persistence` | `persist` and `load` in `src/conversation_store.py`, `lifespan` in `main.py`, `migrate.py` with `migrations/` | `file` gives each file's content or `None`; `pc` and `step` are the server's place in `persist()`, `migrator` and `moved` those of `migrate.py`; one action per operation on a file, `Killed` and `MigrateEnds` between any two |
| `TokenBroker` | `src/token_broker.py` | `conn`, `handler` and `ext` are the connections, their handlers and the one that is asked, `pending` the tables of ids, `inFlight` and `lock` the bucket; one action per await of a handler, a request and `stop()` |
| `ArenaEvents` | the interpretation of an event in `src/sse_parser.py`, the collecting loop of `src/routes/battle.py` | operators only: `Parse`, `Interpret`, `Hear` |
| `EventDecoder` | what `SSEDecoder` in `src/sse_parser.py` makes of a line and of an event, over `ArenaEvents` | operators only: `Field`, `Reset`, `AfterEvent` |
| `StreamBlocks` | what arena.ai sends (external): blocks of lines, and what the decoder makes of one alone, over `EventDecoder` | operators only: `Bytes`, `Saying`, `Assembled`, `Alone` |
| `WholeStream` | abstract: a stream without chunks and without a buffer | `text` is there from the beginning and is handled line by line; the client may damage a character that is not handled yet |
| `ArenaStream` | the read loop of `_stream_attempt` in `src/client.py`, `SSEDecoder` and `iter_arena_events` in `src/sse_parser.py`, over `StreamBlocks` | `buffer`, `decoder` and `sse` are the decoder's fields and last event, `heard` what the battle route has collected; `Arrive` reads a chunk, `FieldLine` and `BlankLine` handle a line, `ClientEnds` and `IteratorEnds` end the stream anywhere |
| `RateLimiter` | both buckets of `src/rate_limiter.py` with their callers in `src/routes/chat.py` and `src/client.py` | `tokens` and `since` are a bucket's level and the time since it was refilled, `due` what is left of a sleep; `Chat` and `Stream` take or fall asleep, `Wake` looks once more, `Tick` is the clock |
| `MCUpstreamRetry`, `MCConversations`, `MCArenaStream`, `MCRateLimiter` | the cookie lists, the symmetry, the streams and the limits for TLC | |
| `WaitingProofs` | theorems about `ConcurrencyGate` and `SingleFlight` | it extends both, which therefore share no name: `FlightSpec`, `Callers` |
| `StreamGuardProofs` | theorems about `StreamGuard` and `RateLimiter` | likewise: `LimiterSpec`, `Callers` |
| `UpstreamRetryProofs` | theorems about `UpstreamRetry` with its `CookiePool` | |
| `TokenBridgeProofs`, `ConversationsProofs`, `PersistenceProofs`, `TokenBrokerProofs`, `ArenaStreamProofs` | theorems about the modules they are named for | |

A definition marked "Slip" in a module is not part of the model: it is the form a plausible mistake in
the code would take, and the runs' properties are shown to catch it.

## Runs

| Run | What it shows | Bounds |
|---|---|---|
| `stream_guard` | `FailuresMatchState`; `ProbeBudget`; `ClosesUnlessSlotLeaks` | 2 chat + 2 battle slots (reused), threshold 2, 2 probes, 2 disconnects: enough for old and new probes, chat and battle outcomes, and both kinds of disconnect to meet in one episode |
| `stream_guard_stuck` | violated: `ClosesAfterOutage` | one chat client, no disconnect |
| `gate` | `Accounting`; `NoLostWakeup`; `NoOvertaking`; `NoStarvation`; refinement of `Admission` | 5 requests, 2 places, 2 seats: the gate can be full with one more at the door, and two can be handed permits while one gives up |
| `single_flight` | `WaiterHasWaker`; `AnswersGenuine`; `QuietSingleFlight`; `AnsweredUnlessStranded` | 4 requests with one key, each arriving once: an owner, two that wake together, one that arrives in between |
| `retry` | `HealthMatchesFails`; `TextIntact`; `NotPassedOver`; `EveryRequestEnds` | 1 request, 3 attempts, 2 cookies (configured or not), fail threshold 2, 2 text streams of 2 characters |
| `retry_token` | violated: `TokenObtainedForAttempt` | 1 request, 2 attempts |
| `conversations` | `StoredUnderHistory`; `ContextUnlessDisturbed`; `SerialUnlessEvicted`; `NextTurnContinues` | 2 clients that say the same, by both routes, 1 reply and 1 dressed form of it, 3 conversations, a cap of 2 trimmed to 1, requests of up to 5 messages, 1 failure: with fewer messages no conversation outlives the eviction of its lock |
| `persistence` | `SavedSurvives`; `NewestIsTaken`; `HistoryKept`; `DestroyedIsBackedUp` | 1 conversation, 5 saves, so that the fourth backup of the rotation is deleted, 1 failing file operation, 1 run of `migrate.py`; kills are not bounded |
| `token_bridge` | `TokenUsedOnce`; `TokenForItsRequest`; `PendingIsAwaited`; `OnlyTestsOrphan`; `AnsweredUnlessOrphaned` | 2 chats, 1 test, 2 tokens, 1 mishap: a chat behind another's lock while a test takes the bridge's place, and a late post for each |
| `token_broker` | `SlotsAccounted`; `PendingIsAwaited`; `ConnectedIsRegistered`; `StopAnswersAll`; `EndsUnlessFull` | 2 requests for a token, 1 for cookies, one of them cancelled, 2 connections of the extension and 1 of another server, 1 place in flight: a request that finds the bucket full, and a connection replaced twice while its handler is still at the lock |
| `arena_stream` | `HeardIsMeant`; `NothingLostAtEnd`; `FieldsAreTheirBlocks`; refinement of `WholeStream` | streams of up to 2 events out of every shape `_interpret_chunk` tells apart, each on one line, over two data lines or numbered; chunks of 1 to 16 tokens, so every cut; an end after any chunk; both readers |
| `rate_limiter` | `PaidUnlessOvertaken`; `AdmittedInTheEnd` | 3 requests that come again and again, prompts of 0 to 3 units in a bucket of 2, a request limit of 1 or 0: prompts larger than the bucket, and three asleep at one bucket |

Where TLAPS proves a module's types the run does not check them again.

One request is enough in `retry`: requests meet only in the cookie pool, and to the pool another request
does what validation, renewal and votes do there at any time. Its attempts get the same text each time, because
cutting by length is meaningless otherwise; what happens when the texts differ is not claimed. When the
generator ends its locals are reset, for nobody reads them again.

In `conversations` the clients say the same words because that is the worst case: fingerprints know nothing of
clients, so they share every conversation they can share. All requests name the same model, `arena-battle` or another,
because fingerprints include it. With `arena-battle` each request picks its route anew: both plan in one store, and only
the chat route takes the lock (`Locking`; `PER_CONVERSATION_LOCK` is on, its default). A reply is committed as bare text
and may be shown in another form (`Shown`); all such forms are one value, `Dressed`, because the store only
compares. What arena.ai remembers of a battle is taken to be the committed text: which of two replies it keeps the code
does not say, and the properties compare it with clients that were shown the committed text.

Which waiter of a lock is next, and how old a lock is, are left open. Locks that nobody waits for may be evicted, too, but
a new one does the same for whoever comes, so only the eviction of an awaited lock is a step of the model (`Evict`). An
error event returns from inside the lock and cleans up as a success does, an exception does not.
`disturbed` and `evicted` are history variables the code does not have.

In `persistence` one conversation tells what the properties ask, because versions are told apart by the number of
their save. `saves`, `saved` and `mishaps` are history variables. A file is whole or torn: `os.replace` puts a whole
file in place of another, `copy2` and `open(..., "w")` tear the file they write until they are through. Loss of
what the operating system has accepted, for `persist()` does not call `fsync`, is not modelled.

Polls of the extension are two seconds apart, so one answer is under way at a time; its delay is unbounded.

In `token_broker` each request comes once and each connection opens once. Another server that finds the port taken
connects to this broker as if it were an extension (`_request_via_external_broker`) and replaces the real one:
it is an outsider, which is never answered and answers nothing.

In `arena_stream` text is a sequence of tokens. A character of two bytes, `"hi"` and `"lo"`, is the only thing that can
be cut apart to an effect; JSON is a token that names its keys, its text and a closing brace, and is no JSON without
it. `Tokens` is the set of all tokens, for TLC the strings. What each block is to mean is stated with the block, not computed by the decoder's operators.
That the decoder finds it there, given the block alone, whole and line by line, is `BlockAssumption`, which TLC evaluates for every
block of the run and every choice of its characters to be cut; one block has two characters of two bytes. What the properties add is all
that a stream does to a block: chunks, other blocks before it, an end in its middle.

In `rate_limiter` a unit is what a bucket regains in a tick, so that sleeps end on ticks. The clock only goes forward:
a system clock that is set back, which `time.time()` would follow, is left out.

`single_flight`, `token_bridge`, `conversations`, `token_broker` and `arena_stream` do not check for deadlock: requests arrive
once, transcripts reach their bound, streams end, so these models may stop. The other passing runs check it.

### Fairness

Weak fairness of the event loop's own steps only: a ready task runs, a stream has a next outcome
(`REQUEST_TIMEOUT` bounds every read), the cooldown passes, and, in `StreamGuard`, clients keep sending
requests. Never fair: time-outs of the queue, cancellations, disconnects, administrators, the end of
the outage, pre-tokens, lost posts. So `NoStarvation` holds without anybody giving up,
`ClosesUnlessSlotLeaks` without anybody pressing reset, and `AnsweredUnlessOrphaned` without a time-out to
end the wait, at the bridge or in the queue of the solver's lock. `TokenBridge` is fair to whoever queues for that
lock, which wakes the one that has queued longest, to the extension's poll (a two-second interval), to its generation
(a race with 15 seconds) and to its posts. `TokenBroker` is fair to the handlers of connections, because closing a
connection has a time-out, and to the requests' own steps, because every wait of theirs but the one for a place
has one; nothing is expected of extensions or callers, and of cancellation neither. Each request comes once, so that
`EndsUnlessFull` says that in the end all are over, in the form `[]<>`. `RateLimiter` is fair to the clock and to
whoever has slept long enough, not to newcomers.

## Disagreements between code and documentation

1. **The circuit can stay HALF_OPEN for ever** (`stream_guard_stuck`). A chat consumer breaks at the `done`
   event; the generator ends with GeneratorExit, which `_stream_grounded` calls neutral, and the probe's
   slot is never given back. The header of `src/circuit_breaker.py` promises CLOSED after a good probe.
   `ClosesUnlessSlotLeaks` shows that this is the only way to stay open.
2. **A token is sent twice** (`retry_token`). `payload` is shared by the attempts and the token's field is only
   ever set. If a later attempt gets no token, the field is not left out, as the solver's docstring and the
   loop's warnings say, but carries the token that was spent.

Seen while modelling, without a run of their own; where a passing run's property draws the line, it is named:

- Two requests with one key can run upstream. After a failure the second `acquire()` of a woken waiter may return the
  marker of another woken waiter, and no branch handles it. The regression test for B4 says that one request runs
  (`src/tests/test_resilience.py`); `QuietSingleFlight` shows that this holds as long as nothing fails.
- Waiters of an unreleased marker wait for ever. `HTTPException(400)` and errors after the try block leave the marker
  in the store, although a comment in the handler says that the waiter takes over. `AnsweredUnlessStranded` shows
  that this is the only way to wait for ever.
- A conversation arena.ai never saw is continued. `plan_turn` registers a new conversation before its first turn is
  sent, and a failure leaves it there. A client that keeps its message and adds another is a continuation, of
  which only the last message is sent. `ContextUnlessDisturbed` shows that a failed, repeated or overlapping turn is
  needed for that.
- **The token broker stops for good when its bucket is full.** A request that finds `MAX_BURST` tokens in flight sleeps
  with the lock held that finishing requests need to give a place back. It waits for ever, and so does every request
  for a token after it, although the docstring promises `asyncio.TimeoutError`. `FullNeverWakes` proves that nothing but
  a cancellation ends it, and `EndsUnlessFull` shows that nothing else keeps a request from ending. Only
  `broker-only.sh` and the tests start the broker, and no route asks it for a token.
- A request of the broker that is cancelled while it waits to give its place back never does (`lost`), and one that is
  cancelled while it waits for its answer leaves its id in the table: `CancelledError` is no `Exception`.
- A character that is cut between two chunks is damaged. `src/client.py:282` decodes chunk by chunk, so that both halves
  become replacement characters, before the decoder, which buffers what is cut, sees them. `HeardIsMeant` shows
  that nothing else is damaged. `iter_arena_events`, which nothing but its test calls, is given text.
- The client never flushes the decoder. A last event without its blank line is lost, while `iter_arena_events` hears it;
  what is left of a truncated JSON payload it hears as text. An error with an empty text is no error to the routes.
- `TokenBucket.take` admits whoever has slept, so that sleepers that meet exceed the limit; its comment calls this a trade-off.
  With `RATE_LIMIT_RPM=0` nobody waits at all.
- The registry's ids are its names: the page's script returns `publicName` and `displayName`, and `_ingest` reads neither.
- `_stream_with_retry`'s docstring says authentication errors are raised at once; the code tries again with
  another cookie until the attempts are used up (`CookieRejected`).
- `submit_vote` uses `ARENA_VOTE_URL`, which `src/client.py` does not import: every vote takes a cookie's turn and fails.
- `src/token_bridge.py` calls its place a queue. There is one, and two requests that meet forget each other:
  the older one's id is overwritten, and whoever ends first clears the younger one's. `OnlyTestsOrphan` shows
  that the solver's lock keeps chats apart, so that an administrator's test is needed to make a chat time out.
- The comment at `src/conversation.py:134` says registering at once keeps duplicate requests from making two
  conversations. A duplicate looks up its prefix, never its own key, and makes another one, which overwrites the
  first in the store.
- `_cleanup_locked` sorts by `last_activity`, which conversations do not have: it keeps the oldest 1000, not
  the most recently used, and drops the conversation that was just stored.
- `migrate.py`, run as `DEPLOYMENT.md` says, makes a store file the server cannot load: `migrations/002` adds
  `last_activity`, which `Conversation(**d)` refuses with a TypeError. `load()` takes it for a damaged file and
  goes on with `.bak`, which is one save older, and the next save replaces the migrated file (`Loadable`).
- The comments in `persist()` and `load()` speak of `.bak.1` and of four backups. The rotation renames `.bak` to `.bak.2`,
  so that no `.bak.1` is ever made (`TypeOK`) and three backups are kept (`HistoryKept`: with the store file, four versions).
- `migrate.py` warns when its backup fails, and then opens the store file for writing all the same; killed
  there, it leaves nothing but the server's own backups. `DestroyedIsBackedUp` exempts exactly that, and saves meanwhile.
- `_maybe_cleanup` takes a lock for unused that was released a moment ago and that others wait for. They go on with
  the old lock while newcomers get a new one, so that turns overlap.
- The battle route takes no conversation lock. `POST /v1/battle` plans in the same store as the chat route
  (`src/routes/battle.py:59`) and runs continuations under the gate alone (lines 68 and 111), so that two of one
  conversation are upstream together, and one with a chat about `arena-battle`. The header of `src/concurrency.py`
  (lines 7-8) says the lock keeps two requests of one conversation from being sent together. `SerialUnlessEvicted` shows that
  these two, an evicted lock and the battle route, are the only ways for continuations to overlap. First turns take no lock at all.
- **A conversation is lost when its client is shown something else than was committed.** `commit_response` is to record
  the reply "để lượt sau match đúng" (`src/conversation.py:149`), so that the next turn matches, and is given the bare
  text. But a chat with `arena-battle` shows each piece under a label, "[A] " or "[B] " (`src/routes/chat.py:187-196`, while line
  218 commits `full`), or both sides under headings (321-324, of which it commits `full_a or full_b`). Where tools were
  asked for, a reply with calls is answered with the calls and what is left of the text (342-361; the stream adds the calls, 199-207),
  and committed whole. The battle route gives both sides and commits `a or b`
  (`src/routes/battle.py:88` and `121`), whichever its client keeps. The next turn then starts a new conversation, and the flattened
  history is sent to an arena.ai that had it all, against the module's header (`src/conversation.py:4-7`).
  `NextTurnContinues` says that the next turn of an undisturbed conversation is found if and only if what was shown
  is what was committed, as long as the store is not over its cap.
- An error event whose `error` is neither text nor an object, a number, say, raises AttributeError in `_interpret_chunk`
  (`src/sse_parser.py:181-185`): the stream ends as by an error event, but no message of arena.ai's arrives.
  A line of plain text that happens to be a JSON number, `true`, `null` or a list is dropped (lines 167-170), though the comment
  above calls what is not JSON plain text and keeps it. Both are blocks of `arena_stream` ("wrong{" and "7").

## Proofs

All theorems hold for every value of the constants that the modules' named assumptions admit.

`WaitingProofs`, first half (`GateAssumption`: finitely many requests, limits in Nat): `GateInv` joins `TypeOK`,
`Accounting` and `NoLostWakeup`. Types say that the deque holds every pending waiter once; without that the
counters cannot be counted. `Accounting` is cardinalities of sets of requests, so each step is a lemma
about one request entering or leaving them. `NobodyOvertakes` is about single steps: every change of the
deque removes elements or appends one. `GateImplementsAdmission` maps `room` to the requests waiting and `inside` to
the requests running, and each step of the gate to one of `Admission` or to none.

`WaitingProofs`, second half, about `SingleFlight` (`NoneAssumption`: the sentinel is no request): `FlightInv` joins
types, `WaiterHasWaker`, `AnswersGenuine` and `QuietSingleFlight`, strengthened: whoever owns the marker is past the
door, what is cached or returned was returned by its own producer, and as long as nothing has failed the key is either
unused, owned by the one request that runs, or served from the cache.

`TokenBridgeProofs` (`BridgeAssumption`: the sentinels are distinct from requests and tokens): `BridgeInv`. The
argument is in `Purposes`: a token is made for one request or for anyone, and wherever it is on its way that
purpose fits the place. So one made for a request cannot be in anybody else's hands, and only pre-tokens
need to be followed from the extension to the cache to a request (`PreTokenOnce`).

`UpstreamRetryProofs` (`PoolAssumption`: a positive threshold, the default cookie is a cookie, and the configured lists
repeat nothing, as the pool's dict of entries cannot; `RetryAssumption`: positive lengths): `HealthInv` is
`HealthMatchesFails` with the types of health and counts. For `NotPassedOver` the cookies have to be followed through
the ranking (`RankInv`): the two lists together hold every entry exactly once, and whatever was taken since an entry was
last looked at stands behind it (`Behind`). `Touch` takes an entry out of its list and puts it at the end, so it falls
behind everybody and keeps the order of the others (`RemoveFirstLeaves`); what `Acquire` takes is ahead of all it could
have taken. `RequestInv` completes the types of the locals: who has yet to begin an attempt has one left.
`TextInv` says that the consumer has the first `emitted` characters and that `acc` never exceeds `emitted`; the step
that matters is a chunk that straddles what was sent (`ChunkText`, with `UptoExtended` about sequences).

`ConversationsProofs` (`ConversationsAssumption`): `StoreInv` needs little beside types, because no two keys can lead
to one conversation once each key is its history, and so a commit that deletes its old key leaves none behind.
`SerialInv` says that whoever waits for or has a lock means the one in the table, until it is evicted under a waiter; it speaks of
continuations by the chat route, and of the others `TurnsAreSerial` says nothing.
`ContextInv` follows a conversation through its turns (`Fits`): what arena.ai has is the history before the turn is
sent, that and the turn afterwards, and the history again when it is committed (`Settled`). It rests on
`StoreInv`: what plan_turn finds under the client's transcript is a conversation with that history.

`NextTurnIsFound` is an equivalence. One half is that the commit stores the conversation under its new history, which is the
client's request with the committed reply; the other, that a client which was shown something else holds a transcript that
is no history of this conversation, because a key leads to its own history (`StoreInv`). It adds that `order` lists the keys of the store and each one once (`OrderInv`), without which the size of the
store would not be the length of the list the trimming cuts, and that a request in hand is its client's transcript with
one message more (`Spoken`): so whoever's transcript has grown is the one whose turn was committed in this step.

`PersistenceProofs` (`PersistenceAssumption`: the sentinel is no content): `FileInv` joins the types with what is needed to
follow the store file. Until `migrate.py` opens it, it holds the last save (`StoreIsSaved`), because the rotation and the copy
only write backups and the save replaces the file in one step; what `migrate.py` destroys has been whole and copied
(`BackedUp`). That `None` is no content matters: a copy needs something to copy, so a server that copies has found the
file and nobody deletes it (`StoreThere`).

`NewestIsTaken` needs the order of the versions in all files at once (`Ordered`): whatever becomes of it, a version
only moves down the list of candidates, a copy stands next to its original, and what enters at the head has
the highest number (`Counted`). `migrate.py` keeps the order as long as what it holds is the version in the store file
(`HoldsStore`). `HistoryKept` follows the four newest versions through the steps of a save (`History`): which file has
which number after each of them.

`TokenBrokerProofs` (`BrokerAssumption`): places are counted as the requests that hold one and those that lost it;
each id in a table belongs to a request that waits; the open connection that is read is the one that is registered,
because whoever registers closes its predecessor before it lets go of the lock. `FullNeverWakes` says that the bucket is full
whenever a request sleeps at it: the sleeper keeps the lock, and places are only given back under it.

`StreamGuardProofs`: `GuardInv` is inductive for every threshold, probe limit, and set of requests. Its parts:
types, `FailuresMatchState` and `ProbeBudget`, strengthened so that outside HALF_OPEN no stream holds a slot.
The strengthening is needed because `check()` reuses the counter of the previous episode only after a reset.
Assumed: `BreakerAssumption` (a positive threshold) and `GuardAssumption` (finitely many requests).

`StreamGuardProofs`, second half, about `RateLimiter` (`RateAssumption`: prompts and limits in Nat): `RateInv` says
of each sleeper that what its bucket holds, with what it regains until the sleep is over, makes up the price, unless
somebody took from the bucket meanwhile (`SleepsEnough`), and that it never sleeps longer than an empty bucket needs
(`SleepsNoLonger`). The two together bound the wait from both sides: `SleepersArePaid`, `SleepsAreBounded`.

`ArenaStreamProofs`, first half (`StreamAssumption`: the streams are well encoded; `BlockAssumption`: their tokens and the two that
decoding makes are in `Tokens`): `StreamImplementsWhole`. The text of the refinement is what is buffered and what the rest of the
wire decodes to. A chunk that ends between two characters leaves it as it is (`DecodeUncut`); one that ends inside a character damages
that one (`DecodeCut`); a line is handled in both at once. That `Decode`, which flattens a sequence of pieces, takes
them one by one is an induction on their number. It is made over a set of numbers, from the least one that is not in it,
which needs no operator as a parameter. The theorem says nothing of what a line means: `AfterLine` and `AfterEnd`
are parameters of `WholeStream`, so it holds for this decoder as for any other.

Second half, what the lines mean: `HeardIsMeant`, `NothingLostAtEnd` and `FieldsAreTheirBlocks`, for streams of any number of
blocks of any length, cut into any chunks. Assumed is only what each block says alone (`SaysWhatItSays` in `BlockAssumption`):
that depends on JSON and on the words arena.ai uses, so it is a fact about the data. Beside the encoding nothing is assumed
of two blocks together, of a chunk, or of a block that is not complete.

- The inductive invariant, `MeaningInv`, says where the reading is (`ReadingAt`): `k` blocks have been handled and `j` lines of the
  next, which are `h` bytes. What is buffered is the text of the bytes from `h` to `arrived`; the decoder agrees with what
  it would have after `j` lines of that block alone; what is heard, whether anything was, and the fields of the last event are those of the
  `k` blocks (`KnownAfter`). The properties speak only of moments when no line is left to handle, so none of them is inductive:
  between those moments it takes the place in the block to say what the next line does.
- The decoder "agrees" when it has the same type, data, id and retry. The last comment and the last id survive from block to block,
  and `FieldAgrees`, `EventFields` and `EventHeard` show that nothing heard depends on them.
- `CutsInv` says that only characters that have begun to arrive are cut, and that one of which only the first byte has arrived is; so what is
  buffered is a function of bytes and cuts (`Text`). Bytes of one block are the same text among the others (`TextIn`), a newline in the text is one in the
  bytes (`TextFirstLine`), and so the first line of the buffer is the next line of the block (`NextLine`).
- `AssembledSteps` takes a block line by line, `MeantStep` a stream block by block, `EventPlus` shows that an event is heard after others as it is
  alone, behind what was heard: the three inductions that join what a block says to what a stream says.
- A stream ends in three ways: an error was heard (`FailedAt`), the client has read what came (`EndedAt`), the
  iterator flushed its decoder (`FlushedEnd`). For the last one `FlushedIsBlock` shows that a block without its blank line, or without the
  newline of its last line either, is what `flush()` assembles.

TLC checked `MeaningInv` on the streams of the run before it was proved.

Only model-checked: liveness (`ClosesUnlessSlotLeaks`, `NoStarvation`, `AnsweredUnlessStranded`, `EveryRequestEnds`,
`AnsweredUnlessOrphaned`, `EndsUnlessFull`, `AdmittedInTheEnd`), which is out of the prover's reach. Every safety property of the passing
runs is a theorem. That the blocks of the run say what they say, the hypothesis of the second half above, is TLC's: it computes
strings of a given length, and of data in general there is nothing to prove.

## Not modelled

- Authentication, schemas, tools, tokenizer, attachments and the payload builders are stateless functions over
  strings. Metrics, logging and configuration decide nothing.
- The model registry is a cache that a browser outside refills under one lock; a failure keeps what there was, and a
  stale or empty cache changes only the names in a list.
- The desktop CDP transport and solver, the 2captcha and Playwright solvers, the scripts and the web page are
  input and output, without a second actor. The cache of the solver is off with the strategy that is modelled.
- The per-key rate limiter is switched off by a constant.
- The streaming handler of the chat route is modelled where it meets shared state: the way it leaves the stream
  (`StreamGuard`), the gate and the lock, plan and commit, and whether what it shows is what it commits (`Conversations`). The
  chunks it formats are not.
- What a consumer gets when an attempt after a reconnect has another text than the first is not claimed (`retry`), nor
  what becomes of two responses that were produced under one idempotency key: `AnswersGenuine` asks only that each was produced.
- Two hazards have no property. A failure of a request that used the old value of a renewed cookie is held against the
  new one; the model has the step, and nothing says what should happen. A save that overlaps `migrate.py` can be
  overwritten by the older version; the properties of `persistence` exempt exactly that.
