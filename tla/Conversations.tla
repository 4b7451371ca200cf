---------------------------- MODULE Conversations ----------------------------
(***************************************************************************)
(* Multi-turn chat: plan_turn and commit_response (src/src/conversation.py)*)
(* over the conversation store (src/src/conversation_store.py), the locks  *)
(* of ConversationLockManager (src/src/concurrency.py) between them, and   *)
(* what arena.ai has been told of each conversation.                       *)
(*                                                                         *)
(* A client sends its transcript and a new message, waits, and adds what   *)
(* it is shown as the reply.  It does so by the chat route (src/src/routes/*)
(* chat.py) or, if the model is arena-battle, by the battle route, too     *)
(* (src/src/routes/battle.py), which takes no lock.                        *)
(*                                                                         *)
(* Fingerprints are injective here: the key of a history is the history.   *)
(* They include the model, so all requests name the same.  Conversation    *)
(* ids are fresh.                                                          *)
(***************************************************************************)
EXTENDS Naturals, SequencesExt, FiniteSets

CONSTANTS Clients,
          Messages, Replies,   \* what users and the model say
          Dressed,             \* replies as the routes dress them up
          Cap, Keep,           \* 5000 and MAX_CONVERSATIONS
          None,
          MaxConversations,    \* bound: conversations ever made
          MaxLength,           \* bound: messages in a request
          MaxFailures          \* bound: turns and attempts that fail

ASSUME ConversationsAssumption == /\ Cap \in Nat /\ Keep \in Nat /\ Keep <= Cap
                                  /\ MaxConversations \in Nat
                                  /\ None \notin 1 .. MaxConversations

Ids     == 1 .. MaxConversations
History == Seq(Messages \cup Replies \cup Dressed)

VARIABLES model,       \* what all requests name
          pc,
          route,       \* by which a request has come
          transcript,  \* what each client has said and been told
          msgs,        \* the messages of its request
          conv,        \* plan.conversation
          continuing,  \* plan.is_continuation
          lock,        \* the lock it has taken or waits for
          convs,       \* _convs: key -> conversation
          order,       \* the keys of _convs in the order the dict has them
          hist,        \* history of each conversation; its key is always that
          locks,       \* _locks: the number of each conversation's current lock
          arena,       \* what arena.ai has of each conversation
          made,        \* conversations made so far
          disturbed,   \* history: conversations with a failed, repeated or overlapping turn
          evicted,     \* history: those whose lock was evicted while awaited
          failures

clientVars == <<pc, route, transcript, msgs, conv, continuing, lock>>
storeVars  == <<convs, order, hist>>
vars == <<model, clientVars, storeVars, locks, arena, made, disturbed, evicted, failures>>

Init == /\ model \in {"arena-battle", "direct"}
        /\ route = [r \in Clients |-> "chat"]
        /\ pc = [r \in Clients |-> "idle"]
        /\ transcript = [r \in Clients |-> <<>>]
        /\ msgs = [r \in Clients |-> <<>>]
        /\ conv = [r \in Clients |-> None]
        /\ continuing = [r \in Clients |-> FALSE]
        /\ lock = [r \in Clients |-> None]
        /\ convs = [k \in {} |-> None]
        /\ order = <<>>
        /\ hist = [c \in Ids |-> <<>>]
        /\ locks = [c \in Ids |-> 0]
        /\ arena = [c \in Ids |-> <<>>]
        /\ made = 0
        /\ disturbed = {}
        /\ evicted = {}
        /\ failures = 0

Goto(r, place) == pc' = [pc EXCEPT ![r] = place]

-----------------------------------------------------------------------------
(* The store, a dict in insertion order.                                   *)

OnlyKeys(f, S)    == [k \in DOMAIN f \cap S |-> f[k]]
WithKey(f, k, c)  == [j \in DOMAIN f \cup {k} |-> IF j = k THEN c ELSE f[j]]

\* put_sync(): over the cap, the first Keep keys stay.  The attribute they are
\* sorted by, last_activity, does not exist, and the sort is stable.
Put(f, seq, k, c) ==
  LET added == IF k \in DOMAIN f THEN seq ELSE Append(seq, k)
      kept  == IF Len(added) > Cap THEN SubSeq(added, 1, Keep) ELSE added
  IN  /\ convs' = OnlyKeys(WithKey(f, k, c), {kept[i] : i \in 1 .. Len(kept)})
      /\ order' = kept

\* _live() finds an expired conversation and deletes it.
Expire == /\ \E k \in DOMAIN convs : /\ convs' = OnlyKeys(convs, DOMAIN convs \ {k})
                                     /\ order' = RemoveFirst(order, k)
          /\ UNCHANGED <<model, clientVars, hist, locks, arena, made, disturbed, evicted,
                         failures>>

-----------------------------------------------------------------------------
(* plan_turn().                                                            *)

Active(c) == \E r \in Clients : pc[r] # "idle" /\ conv[r] = c

Routes == IF model = "arena-battle" THEN {"chat", "battle"} ELSE {"chat"}

Send(r, m) == /\ pc[r] = "idle"
              /\ Len(transcript[r]) < MaxLength
              /\ \E way \in Routes : route' = [route EXCEPT ![r] = way]
              /\ msgs' = [msgs EXCEPT ![r] = Append(transcript[r], m)]

\* The messages but the last are the history of a living conversation.
Continue(r, m) ==
  /\ Send(r, m)
  /\ transcript[r] \in DOMAIN convs
  /\ LET c == convs[transcript[r]]
     IN  /\ conv' = [conv EXCEPT ![r] = c]
         /\ disturbed' = IF Active(c) THEN disturbed \cup {c} ELSE disturbed
  /\ continuing' = [continuing EXCEPT ![r] = TRUE]
  /\ Goto(r, "planned")
  /\ UNCHANGED <<model, transcript, lock, storeVars, locks, arena, made, evicted, failures>>

\* Otherwise a conversation is made and registered before anything is sent.
Start(r, m) ==
  /\ Send(r, m)
  /\ transcript[r] \notin DOMAIN convs
  /\ made < MaxConversations
  /\ made' = made + 1
  /\ conv' = [conv EXCEPT ![r] = made + 1]
  /\ hist' = [hist EXCEPT ![made + 1] = msgs'[r]]
  /\ Put(convs, order, msgs'[r], made + 1)
  /\ continuing' = [continuing EXCEPT ![r] = FALSE]
  /\ Goto(r, "planned")
  /\ UNCHANGED <<model, transcript, lock, locks, arena, disturbed, evicted, failures>>

-----------------------------------------------------------------------------
(* The lock of the conversation, for continuations by the chat route only. *)

Locking(r) == continuing[r] /\ route[r] = "chat"

InTurn(r) == pc[r] \in {"turn", "posted"}

Held(c, n) == \E r \in Clients : InTurn(r) /\ Locking(r) /\ conv[r] = c /\ lock[r] = n

BeginWithoutLock(r) == /\ pc[r] = "planned"
                       /\ ~Locking(r)
                       /\ Goto(r, "turn")
                       /\ UNCHANGED lock

\* The lock is looked up once, at the start.
LookUpLock(r) == /\ pc[r] = "planned"
                 /\ Locking(r)
                 /\ lock' = [lock EXCEPT ![r] = locks[conv[r]]]
                 /\ Goto(r, "queued")

\* Slip: a lock that is held is not waited for.
TakeLock(r) == /\ pc[r] = "queued"
               /\ Goto(r, "turn")
               /\ UNCHANGED lock

AcquireLock(r) == /\ pc[r] = "queued"
                  /\ ~Held(conv[r], lock[r])
                  /\ Goto(r, "turn")
                  /\ UNCHANGED lock

Lock(r) == /\ BeginWithoutLock(r) \/ LookUpLock(r) \/ AcquireLock(r)
           /\ UNCHANGED <<model, route, transcript, msgs, conv, continuing, storeVars, locks,
                          arena, made, disturbed, evicted, failures>>

Awaited(c) == \E r \in Clients : pc[r] = "queued" /\ conv[r] = c /\ lock[r] = locks[c]

\* _maybe_cleanup(), by r which has just released its own lock: any locks that
\* are old and not held are dropped, awaited or not.  One that nobody waits for is
\* as good as the new one that takes its place, so that only the others are numbered.
Evict(r) ==
  \E S \in SUBSET {c \in Ids : /\ Awaited(c)
                               /\ ~Held(c, locks[c]) \/ (c = conv[r] /\ lock[r] = locks[c])} :
    /\ locks' = [c \in Ids |-> IF c \in S THEN locks[c] + 1 ELSE locks[c]]
    /\ evicted' = evicted \cup S

-----------------------------------------------------------------------------
(* The turn.                                                               *)

\* Slip: a new conversation is sent the last message, too.
SentLast(r) == <<msgs[r][Len(msgs[r])]>>

\* send_content: the last message, or the flattened history if arena.ai has none.
Sent(r) == IF continuing[r] THEN <<msgs[r][Len(msgs[r])]>> ELSE msgs[r]

Post(r) == /\ pc[r] = "turn"
           /\ arena' = [arena EXCEPT ![conv[r]] = @ \o Sent(r)]
           /\ Goto(r, "posted")
           /\ UNCHANGED <<model, route, transcript, msgs, conv, continuing, lock, storeVars,
                          locks, made, disturbed, evicted, failures>>

\* _stream_with_retry() sends the same payload again, after an attempt that
\* reached arena.ai.
Resend(r) == /\ pc[r] = "posted"
             /\ failures < MaxFailures
             /\ failures' = failures + 1
             /\ arena' = [arena EXCEPT ![conv[r]] = @ \o Sent(r)]
             /\ disturbed' = disturbed \cup {conv[r]}
             /\ UNCHANGED <<model, clientVars, storeVars, locks, made, evicted>>

\* Slip: the user's message is not recorded.
ReplyOnly(r, a) == <<a>>

\* What commit_response() appends.
Turn(r, a) == IF continuing[r] THEN <<msgs[r][Len(msgs[r])], a>> ELSE <<a>>

\* Slip: the old key stays.
CommitBesides(r, a) ==
  LET c == conv[r]
  IN  /\ hist' = [hist EXCEPT ![c] = @ \o Turn(r, a)]
      /\ Put(convs, order, hist'[c], c)

\* commit_response(): what is deleted is whatever has the old key.
Commit(r, a) ==
  LET c    == conv[r]
      rest == DOMAIN convs \ {hist[c]}
  IN  /\ hist' = [hist EXCEPT ![c] = @ \o Turn(r, a)]
      /\ Put(OnlyKeys(convs, rest), RemoveFirst(order, hist[c]), hist'[c], c)

\* The request ends; its client has this transcript.
Leave(r, said) == /\ Goto(r, "idle")
                  /\ route' = [route EXCEPT ![r] = "chat"]
                  /\ transcript' = [transcript EXCEPT ![r] = said]
                  /\ msgs' = [msgs EXCEPT ![r] = <<>>]
                  /\ conv' = [conv EXCEPT ![r] = None]
                  /\ continuing' = [continuing EXCEPT ![r] = FALSE]
                  /\ lock' = [lock EXCEPT ![r] = None]

\* What a client may add for the reply a.  Chats with arena-battle are shown both
\* sides under labels; where tools were asked for, calls may stand in for the text that
\* has them.  The battle route gives the sides apart, of which a is A, or B if A said
\* nothing: its client keeps the one it likes, or both in a form of its own.
Shown(r, a) == CASE route[r] = "battle"                        -> Replies \cup Dressed
                 [] route[r] = "chat" /\ model = "arena-battle" -> Dressed
                 [] route[r] = "chat" /\ model = "direct"       -> {a} \cup Dressed

\* From the release of the lock to the commit nothing suspends.  What is committed is
\* the bare text.
Succeed(r, a) == /\ pc[r] = "posted"
                 /\ arena' = [arena EXCEPT ![conv[r]] = Append(@, a)]
                 /\ Commit(r, a)
                 /\ \/ Locking(r) /\ Evict(r)
                    \/ ~Locking(r) /\ UNCHANGED <<locks, evicted>>
                 /\ \E said \in Shown(r, a) : Leave(r, Append(msgs[r], said))
                 /\ UNCHANGED <<model, made, disturbed, failures>>

\* An error, a time-out or a disconnect, anywhere; arena.ai may have finished its
\* reply.  The client keeps its message or takes it back.  An exception leaves the locks
\* as they are; an error event is returned from, so that locks are cleaned up.
Fail(r) == /\ failures < MaxFailures
           /\ failures' = failures + 1
           /\ pc[r] # "idle"
           /\ \/ UNCHANGED arena
              \/ /\ pc[r] = "posted"
                 /\ \E a \in Replies : arena' = [arena EXCEPT ![conv[r]] = Append(@, a)]
           /\ disturbed' = IF pc[r] = "posted" \/ ~continuing[r] THEN disturbed \cup {conv[r]}
                           ELSE disturbed
           /\ \/ UNCHANGED <<locks, evicted>>
              \/ pc[r] = "posted" /\ Locking(r) /\ Evict(r)
           /\ \E said \in {transcript[r], msgs[r]} : Leave(r, said)
           /\ UNCHANGED <<model, storeVars, made>>

Next == \/ \E r \in Clients : \/ \E m \in Messages : Continue(r, m) \/ Start(r, m)
                              \/ Lock(r) \/ Post(r) \/ Resend(r) \/ Fail(r)
                              \/ \E a \in Replies : Succeed(r, a)
        \/ Expire

Spec == Init /\ [][Next]_vars

-----------------------------------------------------------------------------
(* Properties.                                                             *)

\* However turns of one conversation interleave, a key leads to a conversation
\* with exactly that history: what is continued is what the client has seen.
StoredUnderHistory == \A k \in DOMAIN convs : hist[convs[k]] = k

\* What a continuation relies on when it sends its last message alone.
HasContext(r) == continuing[r] /\ pc[r] = "turn" => arena[conv[r]] = transcript[r]

\* A conversation none of whose turns has failed, was repeated or overlapped another is
\* continued with arena.ai knowing what the client has seen, whatever was
\* registered, expired, trimmed or overwritten meanwhile.
ContextUnlessDisturbed == \A r \in Clients : HasContext(r) \/ conv[r] \in disturbed

\* After a turn of such a conversation the client's next one will find it if and only
\* if the client was shown what was committed, unless the store is over its cap.  Who
\* was shown something else, by one of the routes' dressings or by the other side of a
\* battle, does not come back to it (chat.py:187-218 and 321-361, battle.py:82-88).
NextTurnContinues ==
  [][\A r \in Clients :
       LET c     == conv[r]
           said  == transcript'[r]
           finds == said \in DOMAIN convs' /\ convs'[said] = c
       IN  pc[r] = "posted" /\ Len(said) > Len(msgs[r]) /\ c \notin disturbed =>
             \/ finds <=> Last(said) = Last(hist'[c])
             \/ Cardinality(DOMAIN convs \cup {hist'[c]}) > Cap]_vars

\* Two continuations of one conversation are upstream together only if one of them came
\* by the battle route, which takes no lock, or if the lock was evicted while one of them
\* waited for it (chat.py:172 and 273, battle.py:68 and 111, concurrency.py:115-132).
SerialUnlessEvicted ==
  \A r, s \in Clients :
    /\ InTurn(r) /\ InTurn(s) /\ continuing[r] /\ continuing[s]
    /\ conv[r] = conv[s] /\ r # s
    => conv[r] \in evicted \/ "battle" \in {route[r], route[s]}
=============================================================================
