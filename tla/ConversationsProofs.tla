------------------------- MODULE ConversationsProofs -------------------------
(***************************************************************************)
(* Theorems about Conversations, for any clients, messages, cap and        *)
(* bounds.  Which keys the store keeps matters to the last one alone, and  *)
(* only its proof knows of order.                                          *)
(***************************************************************************)
EXTENDS Conversations, SequenceTheorems, FiniteSetTheorems, TLAPS

Words == Messages \cup Replies \cup Dressed

\* The types the proofs need; conversations in use have been made.
Types == /\ model \in {"arena-battle", "direct"}
         /\ route \in [Clients -> {"chat", "battle"}]
         /\ pc \in [Clients -> {"idle", "planned", "queued", "turn", "posted"}]
         /\ transcript \in [Clients -> History]
         /\ msgs \in [Clients -> History]
         /\ conv \in [Clients -> Ids \cup {None}]
         /\ continuing \in [Clients -> BOOLEAN]
         /\ lock \in [Clients -> Nat \cup {None}]
         /\ hist \in [Ids -> History]
         /\ arena \in [Ids -> History]
         /\ locks \in [Ids -> Nat]
         /\ made \in 0 .. MaxConversations
         /\ disturbed \subseteq Ids
         /\ evicted \subseteq Ids

InUse == \A r \in Clients : pc[r] # "idle" => conv[r] \in 1 .. made /\ Len(msgs[r]) > 0

StoredMade == \A k \in DOMAIN convs : convs[k] \in 1 .. made

StoreInv == Types /\ InUse /\ StoredMade /\ StoredUnderHistory

-----------------------------------------------------------------------------
(* The store.                                                              *)

\* After put_sync() every key leads where it did, the new one to its conversation.
LEMMA PutLeads ==
  ASSUME NEW f, NEW seq, NEW k, NEW c, Put(f, seq, k, c)
  PROVE  \A j \in DOMAIN convs' : \/ j = k /\ convs'[j] = c
                                  \/ j \in DOMAIN f /\ j # k /\ convs'[j] = f[j]
<1> DEFINE added == IF k \in DOMAIN f THEN seq ELSE Append(seq, k)
           kept  == IF Len(added) > Cap THEN SubSeq(added, 1, Keep) ELSE added
           S     == {kept[i] : i \in 1 .. Len(kept)}
<1>1. convs' = OnlyKeys(WithKey(f, k, c), S)
  BY DEF Put
<1> HIDE DEF S
<1>2. convs' = [j \in (DOMAIN f \cup {k}) \cap S |-> IF j = k THEN c ELSE f[j]]
  BY <1>1 DEF OnlyKeys, WithKey
<1> QED BY <1>2

-----------------------------------------------------------------------------
(* Types.                                                                  *)

\* The last message, alone or with the reply to it.
LEMMA LastWord ==
  ASSUME NEW s \in Seq(Words), Len(s) > 0
  PROVE  /\ s[Len(s)] \in Words
         /\ <<s[Len(s)]>> \in Seq(Words)
         /\ \A a \in Words : <<s[Len(s)], a>> \in Seq(Words)
<1> DEFINE w == s[Len(s)]
<1>1. w \in Words
  OBVIOUS
<1> HIDE DEF w
<1>2. <<w>> \in Seq(Words) /\ \A a \in Words : <<w, a>> \in Seq(Words)
  BY <1>1
<1> QED BY <1>1, <1>2 DEF w

LEMMA Said ==
  ASSUME Types, NEW r \in Clients, Len(msgs[r]) > 0
  PROVE  Sent(r) \in Seq(Words) /\ \A a \in Replies : Turn(r, a) \in Seq(Words)
<1>1. msgs[r] \in Seq(Words)
  BY DEF Types, History, Words
<1>2. CASE continuing[r]
  <2>1. Sent(r) = <<msgs[r][Len(msgs[r])]>>
    BY <1>2 DEF Sent
  <2>2. \A a \in Replies : Turn(r, a) = <<msgs[r][Len(msgs[r])], a>> /\ a \in Words
    BY <1>2 DEF Turn, Words
  <2> QED BY <1>1, <2>1, <2>2, LastWord
<1>3. CASE ~continuing[r]
  <2>1. Sent(r) = msgs[r]
    BY <1>3 DEF Sent
  <2>2. \A a \in Replies : Turn(r, a) = <<a>> /\ a \in Words
    BY <1>3 DEF Turn, Words
  <2>3. \A a \in Words : <<a>> \in Seq(Words)
    OBVIOUS
  <2> QED BY <1>1, <2>1, <2>2, <2>3
<1> QED BY <1>2, <1>3

LEMMA LeaveTypes ==
  ASSUME Types, NEW r \in Clients, NEW said \in History, Leave(r, said)
  PROVE  /\ pc' \in [Clients -> {"idle", "planned", "queued", "turn", "posted"}]
         /\ transcript' \in [Clients -> History]
         /\ msgs' \in [Clients -> History]
         /\ conv' \in [Clients -> Ids \cup {None}]
         /\ continuing' \in [Clients -> BOOLEAN]
         /\ lock' \in [Clients -> Nat \cup {None}]
         /\ route' \in [Clients -> {"chat", "battle"}]
         /\ pc'[r] = "idle"
         /\ \A s \in Clients \ {r} : /\ pc'[s] = pc[s] /\ conv'[s] = conv[s]
                                     /\ msgs'[s] = msgs[s]
<1>1. <<>> \in History
  BY DEF History
<1> QED BY <1>1 DEF Leave, Goto, Types

\* What a client is shown is words.
LEMMA ShownWords ==
  ASSUME Types, NEW r \in Clients, NEW a \in Replies, NEW said \in Shown(r, a)
  PROVE  said \in Words
<1>1. route[r] \in {"chat", "battle"} /\ model \in {"arena-battle", "direct"}
  BY DEF Types
<1>2. CASE route[r] = "battle"
  BY <1>2 DEF Shown, Words
<1>3. CASE route[r] = "chat" /\ model = "arena-battle"
  BY <1>3 DEF Shown, Words
<1>4. CASE route[r] = "chat" /\ model = "direct"
  BY <1>4 DEF Shown, Words
<1> QED BY <1>1, <1>2, <1>3, <1>4

\* A request comes by one of the two routes.
LEMMA SendTypes ==
  ASSUME Types, NEW r \in Clients, NEW m, Send(r, m)
  PROVE  route' \in [Clients -> {"chat", "battle"}]
<1>1. PICK way \in {"chat", "battle"} : route' = [route EXCEPT ![r] = way]
  BY DEF Send, Routes
<1> QED BY <1>1 DEF Types

LEMMA ContinueTypes ==
  ASSUME StoreInv, NEW r \in Clients, NEW m \in Messages, Continue(r, m)
  PROVE  Types' /\ InUse'
<1>1. /\ Append(transcript[r], m) \in History
      /\ Len(Append(transcript[r], m)) > 0
  BY DEF StoreInv, Types, History
<1>2. convs[transcript[r]] \in 1 .. made /\ convs[transcript[r]] \in Ids
  <2>1. convs[transcript[r]] \in 1 .. made
    BY DEF StoreInv, StoredMade, Continue
  <2>2. made \in 0 .. MaxConversations
    BY DEF StoreInv, Types
  <2> QED BY <2>1, <2>2, ConversationsAssumption DEF Ids, ConversationsAssumption
<1>3. msgs' = [msgs EXCEPT ![r] = Append(transcript[r], m)]
  BY DEF Continue, Send
<1>6. route' \in [Clients -> {"chat", "battle"}]
  BY SendTypes DEF StoreInv, Continue
<1>4. Types'
  BY <1>1, <1>2, <1>3, <1>6 DEF StoreInv, Types, Continue, Goto, storeVars
<1>5. InUse'
  BY <1>1, <1>2, <1>3 DEF StoreInv, Types, InUse, Continue, Goto
<1> QED BY <1>4, <1>5

LEMMA StartTypes ==
  ASSUME StoreInv, NEW r \in Clients, NEW m \in Messages, Start(r, m)
  PROVE  Types' /\ InUse'
<1>1. /\ Append(transcript[r], m) \in History
      /\ Len(Append(transcript[r], m)) > 0
  BY DEF StoreInv, Types, History
<1>2. made + 1 \in Ids /\ made' = made + 1 /\ made' \in 0 .. MaxConversations
  BY ConversationsAssumption DEF StoreInv, Types, Start, Ids, ConversationsAssumption
<1>3. msgs' = [msgs EXCEPT ![r] = Append(transcript[r], m)]
  BY DEF Start, Send
<1>4. msgs'[r] \in History
  BY <1>1, <1>3 DEF StoreInv, Types
<1>7. route' \in [Clients -> {"chat", "battle"}]
  BY SendTypes DEF StoreInv, Start
<1>5. Types'
  BY <1>1, <1>2, <1>3, <1>4, <1>7 DEF StoreInv, Types, Start, Goto
<1>6. InUse'
  BY <1>1, <1>2, <1>3 DEF StoreInv, Types, InUse, Start, Goto
<1> QED BY <1>5, <1>6

LEMMA LockTypes ==
  ASSUME StoreInv, NEW r \in Clients, Lock(r)
  PROVE  Types' /\ InUse'
<1>1. conv[r] \in Ids \/ pc[r] = "idle"
  BY ConversationsAssumption DEF StoreInv, InUse, Types, Ids, ConversationsAssumption
<1>2. lock' \in [Clients -> Nat \cup {None}]
  BY <1>1 DEF StoreInv, Types, Lock, BeginWithoutLock, LookUpLock, AcquireLock
<1>3. /\ pc' \in [Clients -> {"idle", "planned", "queued", "turn", "posted"}]
      /\ \A s \in Clients : pc'[s] # "idle" => pc[s] # "idle"
  BY DEF StoreInv, Types, Lock, BeginWithoutLock, LookUpLock, AcquireLock, Goto
<1> QED BY <1>2, <1>3 DEF StoreInv, Types, InUse, Lock, storeVars

LEMMA PostTypes ==
  ASSUME StoreInv, NEW r \in Clients, Post(r) \/ Resend(r)
  PROVE  Types' /\ InUse'
<1>1. pc[r] # "idle" /\ conv[r] \in Ids
  BY ConversationsAssumption
  DEF StoreInv, InUse, Types, Ids, Post, Resend, ConversationsAssumption
<1>2. Sent(r) \in History
  BY <1>1, Said DEF StoreInv, InUse, History, Words
<1>3. arena[conv[r]] \o Sent(r) \in History
  BY <1>1, <1>2 DEF StoreInv, Types, History
<1>4. CASE Post(r)
  BY <1>1, <1>3, <1>4 DEF Post, Goto, StoreInv, Types, InUse, storeVars
<1>5. CASE Resend(r)
  BY <1>1, <1>3, <1>5 DEF Resend, StoreInv, Types, InUse, storeVars, clientVars
<1> QED BY <1>4, <1>5

LEMMA EvictTypes ==
  ASSUME Types, NEW r \in Clients, Evict(r)
  PROVE  locks' \in [Ids -> Nat] /\ evicted' \subseteq Ids
<1>1. PICK S \in SUBSET Ids :
         /\ locks' = [c \in Ids |-> IF c \in S THEN locks[c] + 1 ELSE locks[c]]
         /\ evicted' = evicted \cup S
  BY DEF Evict
<1> QED BY <1>1 DEF Types

LEMMA SucceedTypes ==
  ASSUME StoreInv, NEW r \in Clients, NEW a \in Replies, Succeed(r, a)
  PROVE  /\ Types' /\ InUse'
         /\ conv[r] \in Ids /\ conv[r] \in 1 .. made
         /\ hist' = [hist EXCEPT ![conv[r]] = @ \o Turn(r, a)]
         /\ hist'[conv[r]] = hist[conv[r]] \o Turn(r, a)
         /\ UNCHANGED made
<1>1. pc[r] # "idle" /\ conv[r] \in Ids /\ conv[r] \in 1 .. made /\ Len(msgs[r]) > 0
  <2>1. pc[r] # "idle"
    BY DEF Succeed
  <2>2. conv[r] \in 1 .. made /\ Len(msgs[r]) > 0
    BY <2>1 DEF StoreInv, InUse
  <2>3. made \in 0 .. MaxConversations
    BY DEF StoreInv, Types
  <2> QED BY <2>1, <2>2, <2>3, ConversationsAssumption DEF Ids, ConversationsAssumption
<1>2. a \in Words /\ Turn(r, a) \in Seq(Words)
  BY <1>1, Said DEF StoreInv, Words
<1>3. /\ msgs[r] \in Seq(Words) /\ hist[conv[r]] \in Seq(Words)
      /\ arena[conv[r]] \in Seq(Words)
  BY <1>1 DEF StoreInv, Types, History, Words
<1>14. PICK said \in Shown(r, a) : Leave(r, Append(msgs[r], said))
  BY DEF Succeed
<1>15. said \in Words
  BY ShownWords DEF StoreInv
<1>4. Append(msgs[r], said) \in History
  BY <1>3, <1>15 DEF History, Words
<1>5. hist[conv[r]] \o Turn(r, a) \in History
  BY <1>2, <1>3 DEF History, Words
<1>6. Append(arena[conv[r]], a) \in History
  BY <1>2, <1>3 DEF History, Words
<1>7. hist' = [hist EXCEPT ![conv[r]] = @ \o Turn(r, a)]
  BY DEF Succeed, Commit
<1>8. hist' \in [Ids -> History] /\ hist'[conv[r]] = hist[conv[r]] \o Turn(r, a)
  BY <1>1, <1>5, <1>7 DEF StoreInv, Types
<1>9. arena' \in [Ids -> History]
  BY <1>1, <1>6 DEF StoreInv, Types, Succeed
<1>10. locks' \in [Ids -> Nat] /\ evicted' \subseteq Ids
  <2>1. CASE Evict(r)
    BY <2>1, EvictTypes DEF StoreInv
  <2>2. CASE UNCHANGED <<locks, evicted>>
    BY <2>2 DEF StoreInv, Types
  <2> QED BY <2>1, <2>2 DEF Succeed
<1>11. made' = made /\ disturbed' = disturbed /\ model' = model
  BY DEF Succeed
<1>12. Types'
  BY <1>4, <1>8, <1>9, <1>10, <1>11, <1>14, LeaveTypes DEF StoreInv, Types
<1>13. InUse'
  BY <1>4, <1>11, <1>14, LeaveTypes DEF StoreInv, InUse
<1> QED BY <1>1, <1>7, <1>8, <1>11, <1>12, <1>13

LEMMA FailTypes ==
  ASSUME StoreInv, NEW r \in Clients, Fail(r)
  PROVE  Types' /\ InUse'
<1>1. pc[r] # "idle" /\ conv[r] \in Ids
  <2>1. pc[r] # "idle"
    BY DEF Fail
  <2>2. conv[r] \in 1 .. made /\ made \in 0 .. MaxConversations
    BY <2>1 DEF StoreInv, InUse, Types
  <2> QED BY <2>1, <2>2, ConversationsAssumption DEF Ids, ConversationsAssumption
<1>2. PICK said \in {transcript[r], msgs[r]} : Leave(r, said)
  BY DEF Fail
<1>3. said \in History
  BY DEF StoreInv, Types
<1>4. arena' \in [Ids -> History]
  <2>1. CASE UNCHANGED arena
    BY <2>1 DEF StoreInv, Types
  <2>2. ASSUME NEW a \in Replies, arena' = [arena EXCEPT ![conv[r]] = Append(@, a)]
        PROVE  arena' \in [Ids -> History]
    <3>1. arena[conv[r]] \in Seq(Words) /\ a \in Words
      BY <1>1 DEF StoreInv, Types, History, Words
    <3>2. Append(arena[conv[r]], a) \in History
      BY <3>1 DEF History, Words
    <3> QED BY <1>1, <2>2, <3>2 DEF StoreInv, Types
  <2> QED BY <2>1, <2>2 DEF Fail
<1>5. disturbed' \subseteq Ids
  BY <1>1 DEF StoreInv, Types, Fail
<1>6. UNCHANGED <<model, hist, made>>
  BY DEF Fail, storeVars
<1>9. locks' \in [Ids -> Nat] /\ evicted' \subseteq Ids
  <2>1. CASE Evict(r)
    BY <2>1, EvictTypes DEF StoreInv
  <2>2. CASE UNCHANGED <<locks, evicted>>
    BY <2>2 DEF StoreInv, Types
  <2> QED BY <2>1, <2>2 DEF Fail
<1>7. Types'
  BY <1>2, <1>3, <1>4, <1>5, <1>6, <1>9, LeaveTypes DEF StoreInv, Types
<1>8. InUse'
  BY <1>2, <1>3, <1>6, LeaveTypes DEF StoreInv, InUse
<1> QED BY <1>7, <1>8

-----------------------------------------------------------------------------
(* Keys and histories.                                                     *)

LEMMA SucceedStored ==
  ASSUME StoreInv, NEW r \in Clients, NEW a \in Replies, Succeed(r, a)
  PROVE  StoredMade' /\ StoredUnderHistory'
<1> DEFINE c    == conv[r]
           rest == DOMAIN convs \ {hist[c]}
           f    == OnlyKeys(convs, rest)
<1>1. Put(f, RemoveFirst(order, hist[c]), hist'[c], c)
  BY DEF Succeed, Commit
<1>2. DOMAIN f = rest /\ \A k \in rest : f[k] = convs[k]
  BY DEF OnlyKeys
<1>3. \A k \in rest : convs[k] # c
  BY DEF StoreInv, StoredUnderHistory
<1>4. \A i \in Ids : i # c => hist'[i] = hist[i]
  BY SucceedTypes DEF StoreInv, Types
<1> HIDE DEF f
<1>5. \A j \in DOMAIN convs' : \/ j = hist'[c] /\ convs'[j] = c
                               \/ /\ j \in DOMAIN f /\ j # hist'[c]
                                  /\ convs'[j] = f[j]
  BY <1>1, PutLeads
<1>6. \A k \in DOMAIN convs : convs[k] \in 1 .. made /\ convs[k] \in Ids
  <2>1. \A k \in DOMAIN convs : convs[k] \in 1 .. made
    BY DEF StoreInv, StoredMade
  <2>2. made \in 0 .. MaxConversations
    BY DEF StoreInv, Types
  <2> QED BY <2>1, <2>2, ConversationsAssumption DEF Ids, ConversationsAssumption
<1>7. c \in 1 .. made /\ made' = made
  BY SucceedTypes
<1>8. ASSUME NEW j \in DOMAIN convs'
      PROVE  convs'[j] \in 1 .. made /\ hist'[convs'[j]] = j
  <2>1. CASE j = hist'[c] /\ convs'[j] = c
    BY <2>1, <1>7
  <2>2. CASE j \in rest /\ convs'[j] = convs[j]
    BY <2>2, <1>3, <1>4, <1>6 DEF StoreInv, StoredUnderHistory
  <2> QED BY <1>2, <1>5, <2>1, <2>2
<1> QED BY <1>7, <1>8 DEF StoredMade, StoredUnderHistory

LEMMA StartStored ==
  ASSUME StoreInv, NEW r \in Clients, NEW m \in Messages, Start(r, m)
  PROVE  StoredMade' /\ StoredUnderHistory'
<1> DEFINE c == made + 1
           h == msgs'[r]
<1>1. /\ Put(convs, order, h, c) /\ hist' = [hist EXCEPT ![c] = h]
      /\ made' = made + 1
  BY DEF Start
<1>2. made \in Nat /\ c \in Ids
  BY ConversationsAssumption DEF StoreInv, Types, Start, Ids, ConversationsAssumption
<1> HIDE DEF h
<1>3. hist'[c] = h /\ \A i \in Ids : i # c => hist'[i] = hist[i]
  BY <1>1, <1>2 DEF StoreInv, Types
<1>4. \A k \in DOMAIN convs : convs[k] \in 1 .. made
  BY DEF StoreInv, StoredMade
<1>5. \A k \in DOMAIN convs : convs[k] \in Ids /\ convs[k] # c /\ convs[k] \in 1 .. made'
  <2> SUFFICES ASSUME NEW k \in DOMAIN convs
               PROVE  convs[k] \in Ids /\ convs[k] # c /\ convs[k] \in 1 .. made'
    OBVIOUS
  <2>1. convs[k] \in 1 .. made
    BY <1>4
  <2>2. made' = made + 1 /\ MaxConversations \in Nat
    BY <1>1, ConversationsAssumption DEF ConversationsAssumption
  <2> QED BY <1>2, <2>1, <2>2 DEF Ids
<1>6. c \in 1 .. made'
  BY <1>1, <1>2
<1> HIDE DEF c
<1>7. \A j \in DOMAIN convs' : \/ j = h /\ convs'[j] = c
                               \/ j \in DOMAIN convs /\ j # h /\ convs'[j] = convs[j]
  BY <1>1, PutLeads
<1>8. ASSUME NEW j \in DOMAIN convs'
      PROVE  convs'[j] \in 1 .. made' /\ hist'[convs'[j]] = j
  <2>1. CASE j = h /\ convs'[j] = c
    BY <2>1, <1>3, <1>6
  <2>2. CASE j \in DOMAIN convs /\ convs'[j] = convs[j]
    BY <2>2, <1>3, <1>5 DEF StoreInv, StoredUnderHistory
  <2> QED BY <1>7, <2>1, <2>2
<1> QED BY <1>8 DEF StoredMade, StoredUnderHistory

LEMMA ExpireStored ==
  ASSUME StoreInv, Expire
  PROVE  StoreInv'
<1>1. PICK k \in DOMAIN convs : convs' = OnlyKeys(convs, DOMAIN convs \ {k})
  BY DEF Expire
<1>2. \A j \in DOMAIN convs' : j \in DOMAIN convs /\ convs'[j] = convs[j]
  BY <1>1 DEF OnlyKeys
<1>3. UNCHANGED <<model, clientVars, hist, locks, arena, made, disturbed, evicted>>
  BY DEF Expire
<1>4. Types' /\ InUse'
  BY <1>3 DEF StoreInv, Types, InUse, clientVars
<1>5. StoredMade' /\ StoredUnderHistory'
  BY <1>2, <1>3 DEF StoreInv, StoredMade, StoredUnderHistory
<1> QED BY <1>4, <1>5 DEF StoreInv

LEMMA StoreSame ==
  ASSUME StoreInv, UNCHANGED <<storeVars, made>>
  PROVE  StoredMade' /\ StoredUnderHistory'
BY DEF StoreInv, StoredMade, StoredUnderHistory, storeVars

LEMMA StoreInit == Init => StoreInv
<1> SUFFICES ASSUME Init PROVE StoreInv
  OBVIOUS
<1>1. <<>> \in History
  BY DEF History
<1>2. Types
  BY <1>1, ConversationsAssumption DEF Init, Types, ConversationsAssumption
<1>3. InUse
  BY DEF Init, InUse
<1>4. DOMAIN convs = {}
  BY DEF Init
<1> QED BY <1>2, <1>3, <1>4 DEF StoreInv, StoredMade, StoredUnderHistory

LEMMA StoreStep == StoreInv /\ [Next]_vars => StoreInv'
<1> SUFFICES ASSUME StoreInv, [Next]_vars PROVE StoreInv'
  OBVIOUS
<1>1. ASSUME NEW r \in Clients, NEW m \in Messages, Continue(r, m)
      PROVE  StoreInv'
  <2>1. UNCHANGED <<storeVars, made>>
    BY <1>1 DEF Continue
  <2> QED BY <1>1, <2>1, ContinueTypes, StoreSame DEF StoreInv
<1>2. ASSUME NEW r \in Clients, NEW m \in Messages, Start(r, m)
      PROVE  StoreInv'
  BY <1>2, StartTypes, StartStored DEF StoreInv
<1>3. ASSUME NEW r \in Clients, Lock(r)
      PROVE  StoreInv'
  <2>1. UNCHANGED <<storeVars, made>>
    BY <1>3 DEF Lock
  <2> QED BY <1>3, <2>1, LockTypes, StoreSame DEF StoreInv
<1>4. ASSUME NEW r \in Clients, Post(r) \/ Resend(r)
      PROVE  StoreInv'
  <2>1. UNCHANGED <<storeVars, made>>
    BY <1>4 DEF Post, Resend
  <2> QED BY <1>4, <2>1, PostTypes, StoreSame DEF StoreInv
<1>5. ASSUME NEW r \in Clients, Fail(r)
      PROVE  StoreInv'
  <2>1. UNCHANGED <<storeVars, made>>
    BY <1>5 DEF Fail
  <2> QED BY <1>5, <2>1, FailTypes, StoreSame DEF StoreInv
<1>6. ASSUME NEW r \in Clients, NEW a \in Replies, Succeed(r, a)
      PROVE  StoreInv'
  BY <1>6, SucceedTypes, SucceedStored DEF StoreInv
<1>7. CASE Expire
  BY <1>7, ExpireStored
<1>8. CASE UNCHANGED vars
  <2>1. UNCHANGED <<model, clientVars, storeVars, locks, arena, made, disturbed, evicted>>
    BY <1>8 DEF vars
  <2> QED BY <2>1, StoreSame DEF StoreInv, Types, InUse, clientVars, storeVars
<1> QED BY <1>1, <1>2, <1>3, <1>4, <1>5, <1>6, <1>7, <1>8 DEF Next

LEMMA StoreInvariant == Spec => []StoreInv
<1>1. Init => StoreInv
  BY StoreInit
<1>2. StoreInv /\ [Next]_vars => StoreInv'
  BY StoreStep
<1> QED BY <1>1, <1>2, PTL DEF Spec

\* A key always leads to the conversation with exactly that history, however
\* plans and commits of plan_turn() and commit_response() interleave.
THEOREM KeysMatchHistories == Spec => []StoredUnderHistory
<1>1. StoreInv => StoredUnderHistory
  BY DEF StoreInv
<1> QED BY <1>1, StoreInvariant, PTL

-----------------------------------------------------------------------------
(* Locks.                                                                  *)

Queues(r) == Locking(r) /\ pc[r] = "queued"
Holds(r)  == Locking(r) /\ InTurn(r)

\* As long as no lock of a conversation is evicted under a waiter, all its turns by
\* the chat route mean the lock of the table.
CurrentLock == \A r \in Clients : /\ Queues(r) \/ Holds(r)
                                  /\ conv[r] \notin evicted
                                  => lock[r] = locks[conv[r]]

Serial == \A r, s \in Clients : /\ Holds(r) /\ Holds(s)
                                /\ conv[r] = conv[s] /\ r # s
                                => conv[r] \in evicted

SerialInv == StoreInv /\ CurrentLock /\ Serial

Unlocked(r) == ~Queues(r) /\ ~Holds(r)

\* Steps that neither take a lock, nor wait for one, nor evict any.
LEMMA SerialSame ==
  ASSUME SerialInv, UNCHANGED <<locks, evicted>>,
         \A s \in Clients : \/ Unlocked(s)'
                            \/ /\ UNCHANGED <<conv[s], lock[s]>>
                               /\ Queues(s)' => Queues(s)
                               /\ Holds(s)' => Holds(s)
  PROVE  CurrentLock' /\ Serial'
<1>1. \A s \in Clients : Queues(s)' \/ Holds(s)' =>
        /\ conv'[s] = conv[s] /\ lock'[s] = lock[s]
        /\ Queues(s)' => Queues(s)
        /\ Holds(s)' => Holds(s)
  BY DEF Unlocked
<1>2. CurrentLock'
  BY <1>1 DEF SerialInv, CurrentLock
<1>3. Serial'
  BY <1>1 DEF SerialInv, Serial
<1> QED BY <1>2, <1>3

LEMMA LookUpSerial ==
  ASSUME SerialInv, NEW r \in Clients, LookUpLock(r), UNCHANGED <<conv, route, continuing, locks, evicted>>
  PROVE  CurrentLock' /\ Serial'
<1>1. pc' = [pc EXCEPT ![r] = "queued"] /\ lock' = [lock EXCEPT ![r] = locks[conv[r]]]
  BY DEF LookUpLock, Goto
<1>2. /\ pc'[r] = "queued" /\ lock'[r] = locks[conv[r]]
      /\ \A s \in Clients \ {r} : pc'[s] = pc[s] /\ lock'[s] = lock[s]
  BY <1>1 DEF SerialInv, StoreInv, Types
<1>3. CurrentLock'
  BY <1>2 DEF SerialInv, CurrentLock, Queues, Holds, Locking, InTurn
<1>4. Serial'
  BY <1>2 DEF SerialInv, Serial, Holds, Locking, InTurn
<1> QED BY <1>3, <1>4

LEMMA AcquireSerial ==
  ASSUME SerialInv, NEW r \in Clients, AcquireLock(r), UNCHANGED <<conv, route, continuing, locks, evicted>>
  PROVE  CurrentLock' /\ Serial'
<1>1. pc' = [pc EXCEPT ![r] = "turn"] /\ lock' = lock /\ pc[r] = "queued"
  BY DEF AcquireLock, Goto
<1>2. pc'[r] = "turn" /\ \A s \in Clients \ {r} : pc'[s] = pc[s]
  BY <1>1 DEF SerialInv, StoreInv, Types
<1>3. CurrentLock'
  BY <1>1, <1>2 DEF SerialInv, CurrentLock, Queues, Holds, Locking, InTurn
<1>4. ASSUME NEW s \in Clients, s # r, Holds(s), conv[s] = conv[r], Holds(r)'
      PROVE  conv[r] \in evicted
  <2>1. lock[s] # lock[r]
    BY <1>4 DEF AcquireLock, Held, Holds
  <2>2. Queues(r)
    BY <1>1, <1>4 DEF Holds, Queues, Locking
  <2> QED BY <1>4, <2>1, <2>2 DEF SerialInv, CurrentLock
<1>5. \A s \in Clients \ {r} : Holds(s)' <=> Holds(s)
  BY <1>2 DEF Holds, Locking, InTurn
<1>6. Serial'
  BY <1>4, <1>5 DEF SerialInv, Serial
<1> QED BY <1>3, <1>6

LEMMA EvictSerial ==
  ASSUME SerialInv, NEW r \in Clients, NEW said \in History,
         Leave(r, said), Evict(r), Holds(r)
  PROVE  CurrentLock' /\ Serial'
<1>1. PICK S \in SUBSET Ids :
         /\ \A c \in S : ~Held(c, locks[c]) \/ (c = conv[r] /\ lock[r] = locks[c])
         /\ locks' = [c \in Ids |-> IF c \in S THEN locks[c] + 1 ELSE locks[c]]
         /\ evicted' = evicted \cup S
  BY DEF Evict
<1>2. /\ pc'[r] = "idle"
      /\ \A s \in Clients \ {r} : /\ pc'[s] = pc[s] /\ conv'[s] = conv[s]
                                  /\ lock'[s] = lock[s] /\ route'[s] = route[s]
                                  /\ continuing'[s] = continuing[s]
  BY DEF Leave, Goto, SerialInv, StoreInv, Types
<1>3. ~Queues(r)' /\ ~Holds(r)'
  BY <1>2 DEF Queues, Holds, InTurn
<1>4. \A s \in Clients \ {r} : (Queues(s)' <=> Queues(s)) /\ (Holds(s)' <=> Holds(s))
  BY <1>2 DEF Queues, Holds, Locking, InTurn
<1>5. ASSUME NEW s \in Clients, s # r, Queues(s) \/ Holds(s), conv[s] \notin evicted'
      PROVE  lock[s] = locks'[conv[s]]
  <2>1. lock[s] = locks[conv[s]] /\ conv[s] \notin evicted
    BY <1>1, <1>5 DEF SerialInv, CurrentLock
  <2>2. conv[s] \in Ids
    <3>1. conv[s] \in 1 .. made /\ made \in 0 .. MaxConversations
      BY <1>5 DEF SerialInv, StoreInv, InUse, Types, Queues, Holds, InTurn
    <3> QED BY <3>1, ConversationsAssumption DEF Ids, ConversationsAssumption
  <2>3. conv[s] \notin S
    BY <1>1, <1>5
  <2> QED BY <1>1, <2>1, <2>2, <2>3
<1>6. CurrentLock'
  BY <1>2, <1>3, <1>4, <1>5 DEF CurrentLock
<1>7. Serial'
  BY <1>1, <1>2, <1>3, <1>4 DEF SerialInv, Serial
<1> QED BY <1>6, <1>7

\* A client that leaves, or has just come, has no lock.
LEMMA OthersSerial ==
  ASSUME SerialInv, NEW r \in Clients, UNCHANGED <<locks, evicted>>, Unlocked(r)',
         \A s \in Clients \ {r} : /\ pc'[s] = pc[s] /\ conv'[s] = conv[s]
                                  /\ lock'[s] = lock[s] /\ route'[s] = route[s]
                                  /\ continuing'[s] = continuing[s]
  PROVE  CurrentLock' /\ Serial'
<1>1. \A s \in Clients \ {r} : (Queues(s)' <=> Queues(s)) /\ (Holds(s)' <=> Holds(s))
  BY DEF Queues, Holds, Locking, InTurn
<1> QED BY <1>1, SerialSame

LEMMA SerialInit == Init => SerialInv
<1> SUFFICES ASSUME Init PROVE SerialInv
  OBVIOUS
<1>1. \A r \in Clients : pc[r] = "idle"
  BY DEF Init
<1> QED BY <1>1, StoreInit DEF SerialInv, CurrentLock, Serial, Queues, Holds, InTurn

LEMMA SerialStep == SerialInv /\ [Next]_vars => SerialInv'
<1> SUFFICES ASSUME SerialInv, [Next]_vars PROVE CurrentLock' /\ Serial'
  BY StoreStep DEF SerialInv
<1>1. ASSUME NEW r \in Clients, NEW m \in Messages, Continue(r, m) \/ Start(r, m)
      PROVE  CurrentLock' /\ Serial'
  <2>1. /\ pc' = [pc EXCEPT ![r] = "planned"]
        /\ \E c : conv' = [conv EXCEPT ![r] = c]
        /\ \E b : continuing' = [continuing EXCEPT ![r] = b]
        /\ \E way : route' = [route EXCEPT ![r] = way]
        /\ UNCHANGED <<lock, locks, evicted>>
    BY <1>1 DEF Continue, Start, Send, Goto
  <2>2. /\ pc'[r] = "planned"
        /\ \A s \in Clients \ {r} : /\ pc'[s] = pc[s] /\ conv'[s] = conv[s]
                                    /\ lock'[s] = lock[s] /\ route'[s] = route[s]
                                    /\ continuing'[s] = continuing[s]
    BY <2>1 DEF SerialInv, StoreInv, Types
  <2>3. Unlocked(r)'
    BY <2>2 DEF Unlocked, Queues, Holds, InTurn
  <2> QED BY <2>1, <2>2, <2>3, OthersSerial
<1>2. ASSUME NEW r \in Clients, Lock(r)
      PROVE  CurrentLock' /\ Serial'
  <2>1. UNCHANGED <<conv, route, continuing, locks, evicted>>
    BY <1>2 DEF Lock
  <2>2. CASE BeginWithoutLock(r)
    <3>1. pc' = [pc EXCEPT ![r] = "turn"] /\ ~Locking(r) /\ lock' = lock
      BY <2>2 DEF BeginWithoutLock, Goto
    <3>2. Unlocked(r)' /\ \A s \in Clients \ {r} : pc'[s] = pc[s]
      BY <2>1, <3>1 DEF SerialInv, StoreInv, Types, Unlocked, Queues, Holds, Locking
    <3> QED BY <2>1, <3>1, <3>2, OthersSerial
  <2>3. CASE LookUpLock(r)
    BY <2>1, <2>3, LookUpSerial
  <2>4. CASE AcquireLock(r)
    BY <2>1, <2>4, AcquireSerial
  <2> QED BY <1>2, <2>2, <2>3, <2>4 DEF Lock
<1>3. ASSUME NEW r \in Clients, Post(r)
      PROVE  CurrentLock' /\ Serial'
  <2>1. /\ pc[r] = "turn" /\ pc' = [pc EXCEPT ![r] = "posted"]
        /\ UNCHANGED <<conv, route, continuing, lock, locks, evicted>>
    BY <1>3 DEF Post, Goto
  <2>2. \A s \in Clients : (Queues(s)' => Queues(s)) /\ (Holds(s)' => Holds(s))
    BY <2>1 DEF SerialInv, StoreInv, Types, Queues, Holds, Locking, InTurn
  <2> QED BY <2>1, <2>2, SerialSame
<1>4. ASSUME NEW r \in Clients, Fail(r)
      PROVE  CurrentLock' /\ Serial'
  <2>1. PICK said \in {transcript[r], msgs[r]} : Leave(r, said)
    BY <1>4 DEF Fail
  <2>2. /\ pc'[r] = "idle"
        /\ \A s \in Clients \ {r} : /\ pc'[s] = pc[s] /\ conv'[s] = conv[s]
                                    /\ lock'[s] = lock[s] /\ route'[s] = route[s]
                                    /\ continuing'[s] = continuing[s]
    BY <2>1 DEF Leave, Goto, SerialInv, StoreInv, Types
  <2>3. Unlocked(r)'
    BY <2>2 DEF Unlocked, Queues, Holds, InTurn
  <2>4. CASE UNCHANGED <<locks, evicted>>
    BY <2>2, <2>3, <2>4, OthersSerial
  <2>5. CASE pc[r] = "posted" /\ Locking(r) /\ Evict(r)
    <3>1. said \in History
      BY DEF SerialInv, StoreInv, Types
    <3>2. Holds(r)
      BY <2>5 DEF Holds, InTurn
    <3> QED BY <2>1, <2>5, <3>1, <3>2, EvictSerial
  <2> QED BY <1>4, <2>4, <2>5 DEF Fail
<1>5. ASSUME NEW r \in Clients, NEW a \in Replies, Succeed(r, a)
      PROVE  CurrentLock' /\ Serial'
  <2>1. PICK w \in Shown(r, a) : Leave(r, Append(msgs[r], w)) /\ pc[r] = "posted"
    BY <1>5 DEF Succeed
  <2>2. Append(msgs[r], w) \in History
    <3>1. w \in Words /\ msgs[r] \in Seq(Words)
      BY ShownWords DEF SerialInv, StoreInv, Types, History, Words
    <3> QED BY <3>1 DEF History, Words
  <2>3. CASE Locking(r) /\ Evict(r)
    BY <2>1, <2>2, <2>3, EvictSerial DEF Holds, InTurn
  <2>4. CASE UNCHANGED <<locks, evicted>>
    <3>1. /\ pc'[r] = "idle"
          /\ \A s \in Clients \ {r} : /\ pc'[s] = pc[s] /\ conv'[s] = conv[s]
                                      /\ lock'[s] = lock[s] /\ route'[s] = route[s]
                                      /\ continuing'[s] = continuing[s]
      BY <2>1 DEF Leave, Goto, SerialInv, StoreInv, Types
    <3>2. Unlocked(r)'
      BY <3>1 DEF Unlocked, Queues, Holds, InTurn
    <3> QED BY <2>4, <3>1, <3>2, OthersSerial
  <2> QED BY <1>5, <2>3, <2>4 DEF Succeed
<1>6. CASE UNCHANGED <<clientVars, locks, evicted>>
  <2>1. \A s \in Clients : /\ UNCHANGED <<conv[s], lock[s]>>
                           /\ (Queues(s)' => Queues(s)) /\ (Holds(s)' => Holds(s))
    BY <1>6 DEF clientVars, Queues, Holds, Locking, InTurn
  <2> QED BY <1>6, <2>1, SerialSame
<1>7. CASE \E r \in Clients : Resend(r)
  BY <1>6, <1>7 DEF Resend
<1>8. CASE Expire
  BY <1>6, <1>8 DEF Expire
<1>9. CASE UNCHANGED vars
  BY <1>6, <1>9 DEF vars
<1> QED BY <1>1, <1>2, <1>3, <1>4, <1>5, <1>7, <1>8, <1>9 DEF Next

\* Two continuations of a conversation are upstream together only if its lock was
\* evicted by ConversationLockManager while one of them waited for it, or if one of
\* them came by POST /v1/battle, which takes no lock.
THEOREM TurnsAreSerial == Spec => []SerialUnlessEvicted
<1>1. Init => SerialInv
  BY SerialInit
<1>2. SerialInv /\ [Next]_vars => SerialInv'
  BY SerialStep
<1>3. SerialInv => SerialUnlessEvicted
  <2>1. SerialInv => \A r \in Clients : route[r] \in {"chat", "battle"}
    BY DEF SerialInv, StoreInv, Types
  <2> QED BY <2>1 DEF SerialInv, Serial, Holds, Locking, SerialUnlessEvicted
<1> QED BY <1>1, <1>2, <1>3, PTL DEF Spec

-----------------------------------------------------------------------------
(* What arena.ai knows.                                                    *)

\* A turn fits its conversation: the client has seen its history, and arena.ai has
\* that and, once it is sent, the turn.
Fits(r) ==
  LET c == conv[r]
  IN  /\ continuing[r] => /\ transcript[r] = hist[c]
                          /\ pc[r] # "posted" => arena[c] = hist[c]
                          /\ pc[r] = "posted" => arena[c] = hist[c] \o Sent(r)
      /\ ~continuing[r] => /\ msgs[r] = hist[c]
                           /\ pc[r] # "posted" => arena[c] = <<>>
                           /\ pc[r] = "posted" => arena[c] = hist[c]

InTouch == \A r \in Clients : pc[r] # "idle" /\ conv[r] \notin disturbed => Fits(r)

Alone == \A r, s \in Clients : /\ pc[r] # "idle" /\ pc[s] # "idle"
                               /\ conv[r] = conv[s] /\ r # s
                               => conv[r] \in disturbed

Settled == \A c \in 1 .. made : c \notin disturbed /\ ~Active(c) => arena[c] = hist[c]

Unsaid == \A c \in Ids : c > made => arena[c] = <<>>

ContextInv == StoreInv /\ InTouch /\ Alone /\ Settled /\ Unsaid

\* The others see r move, and only r's own conversation change.
Aside(r) ==
  /\ disturbed \subseteq disturbed'
  /\ \A s \in Clients \ {r} : /\ pc'[s] = pc[s] /\ conv'[s] = conv[s]
                              /\ transcript'[s] = transcript[s] /\ msgs'[s] = msgs[s]
                              /\ continuing'[s] = continuing[s]
                              /\ pc[s] # "idle" /\ conv[s] \notin disturbed' =>
                                   /\ hist'[conv[s]] = hist[conv[s]]
                                   /\ arena'[conv[s]] = arena[conv[s]]

LEMMA OthersInTouch ==
  ASSUME ContextInv, NEW r \in Clients, Aside(r),
         pc'[r] # "idle" /\ conv'[r] \notin disturbed' => Fits(r)'
  PROVE  InTouch'
<1> SUFFICES ASSUME NEW s \in Clients, pc'[s] # "idle", conv'[s] \notin disturbed'
             PROVE  Fits(s)'
  BY DEF InTouch
<1>1. CASE s = r
  BY <1>1
<1>2. CASE s # r
  <2>1. /\ pc'[s] = pc[s] /\ conv'[s] = conv[s]
        /\ transcript'[s] = transcript[s] /\ msgs'[s] = msgs[s]
        /\ continuing'[s] = continuing[s]
        /\ hist'[conv[s]] = hist[conv[s]] /\ arena'[conv[s]] = arena[conv[s]]
        /\ conv[s] \notin disturbed
    BY <1>2 DEF Aside
  <2>2. Fits(s)
    BY <2>1 DEF ContextInv, InTouch
  <2> QED BY <2>1, <2>2 DEF Fits, Sent
<1> QED BY <1>1, <1>2

\* r is the only one in its conversation, or that is disturbed.
LEMMA NobodyElse ==
  ASSUME ContextInv, NEW r \in Clients, NEW s \in Clients \ {r},
         pc[r] # "idle", pc[s] # "idle",
         disturbed \subseteq disturbed', conv[s] \notin disturbed'
  PROVE  conv[s] # conv[r]
BY DEF ContextInv, Alone

LEMMA InIds ==
  ASSUME StoreInv, NEW r \in Clients, pc[r] # "idle"
  PROVE  conv[r] \in Ids /\ conv[r] \in 1 .. made
<1>1. conv[r] \in 1 .. made /\ made \in 0 .. MaxConversations
  BY DEF StoreInv, InUse, Types
<1> QED BY <1>1, ConversationsAssumption DEF Ids, ConversationsAssumption

LEMMA ContinueContext ==
  ASSUME ContextInv, NEW r \in Clients, NEW m \in Messages, Continue(r, m)
  PROVE  InTouch' /\ Alone' /\ Settled' /\ Unsaid'
<1> DEFINE c == convs[transcript[r]]
<1>1. /\ pc[r] = "idle" /\ transcript[r] \in DOMAIN convs
      /\ msgs' = [msgs EXCEPT ![r] = Append(transcript[r], m)]
      /\ conv' = [conv EXCEPT ![r] = c]
      /\ disturbed' = IF Active(c) THEN disturbed \cup {c} ELSE disturbed
      /\ continuing' = [continuing EXCEPT ![r] = TRUE]
      /\ pc' = [pc EXCEPT ![r] = "planned"]
      /\ UNCHANGED <<transcript, hist, arena, made>>
  BY DEF Continue, Send, Goto, storeVars
<1>2. hist[c] = transcript[r] /\ c \in 1 .. made
  BY <1>1 DEF ContextInv, StoreInv, StoredUnderHistory, StoredMade
<1> HIDE DEF c
<1>3. /\ conv'[r] = c /\ continuing'[r] = TRUE /\ pc'[r] = "planned"
      /\ \A s \in Clients \ {r} : /\ pc'[s] = pc[s] /\ conv'[s] = conv[s]
                                  /\ msgs'[s] = msgs[s] /\ continuing'[s] = continuing[s]
  BY <1>1 DEF ContextInv, StoreInv, Types
<1>4. Aside(r)
  BY <1>1, <1>3 DEF Aside
<1>5. c \notin disturbed' => ~Active(c) /\ c \notin disturbed
  BY <1>1
<1>6. conv'[r] \notin disturbed' => Fits(r)'
  <2>1. c \notin disturbed' => arena[c] = hist[c]
    BY <1>2, <1>5 DEF ContextInv, Settled
  <2> QED BY <1>1, <1>2, <1>3, <2>1 DEF Fits
<1>7. InTouch'
  BY <1>4, <1>6, OthersInTouch
<1>8. Alone'
  <2>1. ASSUME NEW s \in Clients \ {r}, pc[s] # "idle", conv[s] = c
        PROVE  c \in disturbed'
    BY <1>1, <2>1 DEF Active
  <2> QED BY <1>1, <1>3, <2>1 DEF ContextInv, Alone
<1>9. Settled'
  <2>1. \A d \in 1 .. made : ~Active(d)' => ~Active(d)
    BY <1>1, <1>3 DEF Active
  <2> QED BY <1>1, <2>1 DEF ContextInv, Settled
<1> QED BY <1>1, <1>7, <1>8, <1>9 DEF ContextInv, Unsaid

LEMMA StartContext ==
  ASSUME ContextInv, NEW r \in Clients, NEW m \in Messages, Start(r, m)
  PROVE  InTouch' /\ Alone' /\ Settled' /\ Unsaid'
<1>0. PICK c : c = made + 1
  OBVIOUS
<1>1. /\ pc[r] = "idle" /\ made < MaxConversations /\ made' = made + 1
      /\ msgs' = [msgs EXCEPT ![r] = Append(transcript[r], m)]
      /\ conv' = [conv EXCEPT ![r] = c]
      /\ hist' = [hist EXCEPT ![c] = msgs'[r]]
      /\ continuing' = [continuing EXCEPT ![r] = FALSE]
      /\ pc' = [pc EXCEPT ![r] = "planned"]
      /\ UNCHANGED <<transcript, arena, disturbed>>
  BY <1>0 DEF Start, Send, Goto
<1>2. made \in Nat /\ c \in Ids /\ c > made
  BY <1>0, <1>1, ConversationsAssumption
  DEF ContextInv, StoreInv, Types, Ids, ConversationsAssumption
<1>3. /\ conv'[r] = c /\ continuing'[r] = FALSE /\ pc'[r] = "planned"
      /\ hist'[c] = msgs'[r]
      /\ \A i \in Ids : i # c => hist'[i] = hist[i]
      /\ \A s \in Clients \ {r} : /\ pc'[s] = pc[s] /\ conv'[s] = conv[s]
                                  /\ msgs'[s] = msgs[s] /\ continuing'[s] = continuing[s]
  BY <1>1, <1>2 DEF ContextInv, StoreInv, Types
<1>4. \A s \in Clients : pc[s] # "idle" => /\ conv[s] \in Ids /\ conv[s] \in 1 .. made
                                           /\ conv[s] # c
  BY <1>2, InIds DEF ContextInv
<1>5. arena[c] = <<>>
  BY <1>2 DEF ContextInv, Unsaid
<1>6. /\ \A d \in 1 .. made' : d \in 1 .. made \/ d = c
      /\ \A d \in 1 .. made : d \in Ids /\ d # c
  <2>1. made' = made + 1 /\ made < MaxConversations /\ MaxConversations \in Nat
    BY <1>1, ConversationsAssumption DEF ConversationsAssumption
  <2> QED BY <1>0, <1>2, <2>1 DEF Ids
<1>7. \A d \in Ids : d > made' => d > made
  BY <1>1, <1>2 DEF Ids
<1>8. Aside(r)
  BY <1>1, <1>3, <1>4 DEF Aside
<1>9. Fits(r)'
  BY <1>1, <1>3, <1>5 DEF Fits
<1>10. InTouch'
  BY <1>8, <1>9, OthersInTouch
<1>11. Alone'
  BY <1>1, <1>3, <1>4 DEF ContextInv, Alone
<1>12. Settled'
  <2>1. Active(c)'
    BY <1>3 DEF Active
  <2>2. \A d \in 1 .. made : ~Active(d)' => ~Active(d)
    BY <1>1, <1>3 DEF Active
  <2> QED BY <1>1, <1>3, <1>6, <2>1, <2>2 DEF ContextInv, Settled
<1>13. Unsaid'
  BY <1>1, <1>7 DEF ContextInv, Unsaid
<1> QED BY <1>10, <1>11, <1>12, <1>13

\* r is active before and after, in the same conversation.
LEMMA StillActive ==
  ASSUME ContextInv, NEW r \in Clients, Aside(r), pc[r] # "idle", pc'[r] # "idle",
         UNCHANGED <<conv, hist, made>>,
         \A d \in Ids : d # conv[r] => arena'[d] = arena[d]
  PROVE  Alone' /\ Settled' /\ Unsaid'
<1>1. \A s \in Clients : pc'[s] # "idle" <=> pc[s] # "idle"
  BY DEF Aside
<1>2. conv[r] \in Ids /\ conv[r] \in 1 .. made
  BY InIds DEF ContextInv
<1>3. \A d : Active(d)' <=> Active(d)
  BY <1>1 DEF Active
<1>4. Alone'
  BY <1>1 DEF ContextInv, Alone, Aside
<1>5. ASSUME NEW d \in 1 .. made, d \notin disturbed', ~Active(d)
      PROVE  arena'[d] = hist[d]
  <2>1. d \in Ids
    BY ConversationsAssumption
    DEF ContextInv, StoreInv, Types, Ids, ConversationsAssumption
  <2>2. d # conv[r]
    BY <1>5 DEF Active
  <2>3. arena[d] = hist[d]
    BY <1>5 DEF ContextInv, Settled, Aside
  <2> QED BY <1>5, <2>1, <2>2, <2>3
<1>6. Settled'
  BY <1>3, <1>5 DEF Settled
<1>7. Unsaid'
  <2>1. \A d \in Ids : d > made => d # conv[r]
    BY <1>2 DEF ContextInv, StoreInv, Types, Ids
  <2> QED BY <2>1 DEF ContextInv, Unsaid
<1> QED BY <1>4, <1>6, <1>7

LEMMA LockContext ==
  ASSUME ContextInv, NEW r \in Clients, Lock(r)
  PROVE  InTouch' /\ Alone' /\ Settled' /\ Unsaid'
<1>1. /\ pc[r] \in {"planned", "queued"}
      /\ \E q \in {"queued", "turn"} : pc' = [pc EXCEPT ![r] = q]
      /\ UNCHANGED <<transcript, msgs, conv, continuing, hist, arena, made, disturbed>>
  BY DEF Lock, BeginWithoutLock, LookUpLock, AcquireLock, Goto, storeVars
<1>2. /\ pc'[r] \in {"queued", "turn"}
      /\ \A s \in Clients \ {r} : pc'[s] = pc[s]
  BY <1>1 DEF ContextInv, StoreInv, Types
<1>3. Aside(r)
  BY <1>1, <1>2 DEF Aside
<1>4. pc[r] # "idle" /\ pc[r] # "posted" /\ pc'[r] # "idle" /\ pc'[r] # "posted"
  BY <1>1, <1>2
<1>5. conv[r] \notin disturbed => Fits(r)
  BY <1>4 DEF ContextInv, InTouch
<1>6. conv'[r] \notin disturbed' => Fits(r)'
  BY <1>1, <1>4, <1>5 DEF Fits
<1>7. InTouch'
  BY <1>3, <1>6, OthersInTouch
<1> QED BY <1>1, <1>3, <1>4, <1>7, StillActive

LEMMA PostContext ==
  ASSUME ContextInv, NEW r \in Clients, Post(r)
  PROVE  InTouch' /\ Alone' /\ Settled' /\ Unsaid'
<1>1. /\ pc[r] = "turn" /\ pc' = [pc EXCEPT ![r] = "posted"]
      /\ arena' = [arena EXCEPT ![conv[r]] = @ \o Sent(r)]
      /\ UNCHANGED <<transcript, msgs, conv, continuing, hist, made, disturbed>>
  BY DEF Post, Goto, storeVars
<1>2. conv[r] \in Ids /\ Len(msgs[r]) > 0
  BY <1>1, InIds DEF ContextInv, StoreInv, InUse
<1>3. /\ pc'[r] = "posted" /\ arena'[conv[r]] = arena[conv[r]] \o Sent(r)
      /\ \A s \in Clients \ {r} : pc'[s] = pc[s]
      /\ \A d \in Ids : d # conv[r] => arena'[d] = arena[d]
  BY <1>1, <1>2 DEF ContextInv, StoreInv, Types
<1>4. \A s \in Clients \ {r} : pc[s] # "idle" /\ conv[s] \notin disturbed' =>
                                 arena'[conv[s]] = arena[conv[s]]
  BY <1>1, <1>3, NobodyElse, InIds DEF ContextInv
<1>5. Aside(r)
  BY <1>1, <1>3, <1>4 DEF Aside
<1>6. conv[r] \notin disturbed => Fits(r)
  BY <1>1 DEF ContextInv, InTouch
<1>7. conv'[r] \notin disturbed' => Fits(r)'
  <2>1. CASE continuing[r]
    <3>1. (Sent(r))' = Sent(r)
      BY <1>1 DEF Sent
    <3> QED BY <1>1, <1>3, <1>6, <2>1, <3>1 DEF Fits
  <2>2. CASE ~continuing[r]
    <3>1. Sent(r) = msgs[r] /\ msgs[r] \in Seq(Words)
      BY <2>2 DEF Sent, ContextInv, StoreInv, Types, History, Words
    <3>2. <<>> \o msgs[r] = msgs[r]
      BY <3>1
    <3> QED BY <1>1, <1>3, <1>6, <2>2, <3>1, <3>2 DEF Fits
  <2> QED BY <2>1, <2>2
<1>8. InTouch'
  BY <1>5, <1>7, OthersInTouch
<1> QED BY <1>1, <1>3, <1>5, <1>8, StillActive

LEMMA ResendContext ==
  ASSUME ContextInv, NEW r \in Clients, Resend(r)
  PROVE  InTouch' /\ Alone' /\ Settled' /\ Unsaid'
<1>1. /\ pc[r] = "posted"
      /\ arena' = [arena EXCEPT ![conv[r]] = @ \o Sent(r)]
      /\ disturbed' = disturbed \cup {conv[r]}
      /\ UNCHANGED <<pc, transcript, msgs, conv, continuing, hist, made>>
  BY DEF Resend, clientVars, storeVars
<1>2. \A d \in Ids : d # conv[r] => arena'[d] = arena[d]
  BY <1>1 DEF ContextInv, StoreInv, Types
<1>3. \A s \in Clients \ {r} : pc[s] # "idle" /\ conv[s] \notin disturbed' =>
                                 arena'[conv[s]] = arena[conv[s]]
  BY <1>1, <1>2, InIds DEF ContextInv
<1>4. Aside(r)
  BY <1>1, <1>3 DEF Aside
<1>5. InTouch'
  BY <1>1, <1>4, OthersInTouch
<1> QED BY <1>1, <1>2, <1>4, <1>5, StillActive

\* r leaves its conversation, which is settled or disturbed.
LEMMA LeaveContext ==
  ASSUME ContextInv, NEW r \in Clients, NEW said \in History, Leave(r, said),
         pc[r] # "idle", disturbed \subseteq disturbed', made' = made,
         \A d \in Ids : d # conv[r] => arena'[d] = arena[d] /\ hist'[d] = hist[d],
         conv[r] \notin disturbed' => arena'[conv[r]] = hist'[conv[r]]
  PROVE  InTouch' /\ Alone' /\ Settled' /\ Unsaid'
<1>1. /\ pc'[r] = "idle"
      /\ \A s \in Clients \ {r} : /\ pc'[s] = pc[s] /\ conv'[s] = conv[s]
                                  /\ transcript'[s] = transcript[s] /\ msgs'[s] = msgs[s]
                                  /\ continuing'[s] = continuing[s]
  BY DEF Leave, Goto, ContextInv, StoreInv, Types
<1>2. \A s \in Clients \ {r} : pc[s] # "idle" /\ conv[s] \notin disturbed' =>
                                 /\ arena'[conv[s]] = arena[conv[s]]
                                 /\ hist'[conv[s]] = hist[conv[s]]
  BY <1>1, NobodyElse, InIds DEF ContextInv
<1>3. Aside(r)
  BY <1>1, <1>2 DEF Aside
<1>4. InTouch'
  BY <1>1, <1>3, OthersInTouch
<1>5. Alone'
  BY <1>1 DEF ContextInv, Alone
<1>6. conv[r] \in 1 .. made /\ made \in 0 .. MaxConversations
  BY InIds DEF ContextInv, StoreInv, Types
<1>7. ASSUME NEW d \in 1 .. made, d \notin disturbed', ~Active(d)'
      PROVE  arena'[d] = hist'[d]
  <2>1. CASE d = conv[r]
    BY <1>7, <2>1
  <2>2. CASE d # conv[r]
    <3>1. ~Active(d)
      BY <1>1, <1>7, <2>2 DEF Active
    <3>2. d \in Ids
      BY <1>6, ConversationsAssumption DEF Ids, ConversationsAssumption
    <3> QED BY <1>7, <2>2, <3>1, <3>2 DEF ContextInv, Settled
  <2> QED BY <2>1, <2>2
<1>8. Settled'
  BY <1>7 DEF Settled
<1>9. Unsaid'
  <2>1. \A d \in Ids : d > made => d # conv[r]
    BY <1>6 DEF Ids
  <2> QED BY <2>1 DEF ContextInv, Unsaid
<1> QED BY <1>4, <1>5, <1>8, <1>9

\* The commit and arena.ai agree on what was said.
LEMMA SaidAlike ==
  ASSUME NEW h \in Seq(Words), NEW w \in Words, NEW a \in Words
  PROVE  Append(h \o <<w>>, a) = h \o <<w, a>> /\ Append(h, a) = h \o <<a>>
<1>1. <<w>> \in Seq(Words) /\ <<a>> \in Seq(Words) /\ <<w>> \o <<a>> = <<w, a>>
  <2>1. <<w>> \in Seq(Words) /\ <<a>> \in Seq(Words) /\ <<w, a>> \in Seq(Words)
    OBVIOUS
  <2>2. Len(<<w>>) = 1 /\ Len(<<a>>) = 1 /\ <<w>>[1] = w /\ <<a>>[1] = a
    OBVIOUS
  <2>3. /\ <<w>> \o <<a>> \in Seq(Words) /\ Len(<<w>> \o <<a>>) = 2
        /\ (<<w>> \o <<a>>)[1] = w /\ (<<w>> \o <<a>>)[2] = a
    BY <2>1, <2>2, ConcatProperties
  <2>4. Len(<<w, a>>) = 2 /\ <<w, a>>[1] = w /\ <<w, a>>[2] = a
    OBVIOUS
  <2>5. \A i \in 1 .. 2 : i = 1 \/ i = 2
    OBVIOUS
  <2>6. <<w>> \o <<a>> = <<w, a>>
    BY <2>1, <2>3, <2>4, <2>5, SeqEqual
  <2> QED BY <2>1, <2>6
<1>2. h \o <<w>> \in Seq(Words)
  BY <1>1, ConcatProperties
<1>3. Append(h \o <<w>>, a) = (h \o <<w>>) \o <<a>>
  BY <1>2, AppendIsConcat
<1>4. (h \o <<w>>) \o <<a>> = h \o (<<w>> \o <<a>>)
  BY <1>1, ConcatAssociative
<1>5. Append(h, a) = h \o <<a>>
  BY AppendIsConcat
<1> QED BY <1>1, <1>3, <1>4, <1>5

LEMMA SucceedContext ==
  ASSUME ContextInv, NEW r \in Clients, NEW a \in Replies, Succeed(r, a)
  PROVE  InTouch' /\ Alone' /\ Settled' /\ Unsaid'
<1> DEFINE c == conv[r]
<1>1. /\ pc[r] = "posted"
      /\ arena' = [arena EXCEPT ![c] = Append(@, a)]
      /\ disturbed' = disturbed
  BY DEF Succeed
<1>7. PICK said \in Shown(r, a) : Leave(r, Append(msgs[r], said))
  BY DEF Succeed
<1>2. /\ c \in Ids /\ made' = made
      /\ hist' = [hist EXCEPT ![c] = @ \o Turn(r, a)]
      /\ hist'[c] = hist[c] \o Turn(r, a)
  BY SucceedTypes DEF ContextInv
<1>3. /\ arena'[c] = Append(arena[c], a)
      /\ \A d \in Ids : d # c => arena'[d] = arena[d] /\ hist'[d] = hist[d]
  BY <1>1, <1>2 DEF ContextInv, StoreInv, Types
<1>4. /\ hist[c] \in Seq(Words) /\ msgs[r] \in Seq(Words) /\ a \in Words
      /\ Len(msgs[r]) > 0
  BY <1>1, <1>2 DEF ContextInv, StoreInv, InUse, Types, History, Words
<1>8. Append(msgs[r], said) \in History
  <2>1. said \in Words
    BY ShownWords DEF ContextInv, StoreInv
  <2> QED BY <1>4, <2>1 DEF History, Words
<1>5. c \notin disturbed => Fits(r)
  BY <1>1 DEF ContextInv, InTouch
<1>6. c \notin disturbed => arena'[c] = hist'[c]
  <2>1. CASE continuing[r]
    <3>1. PICK w \in Words : w = msgs[r][Len(msgs[r])]
      BY <1>4, LastWord
    <3>2. Sent(r) = <<w>> /\ Turn(r, a) = <<w, a>>
      BY <2>1, <3>1 DEF Sent, Turn
    <3>3. c \notin disturbed => arena[c] = hist[c] \o <<w>>
      BY <1>1, <1>5, <2>1, <3>2 DEF Fits
    <3>4. Append(hist[c] \o <<w>>, a) = hist[c] \o <<w, a>>
      BY <1>4, SaidAlike
    <3> QED BY <1>2, <1>3, <3>2, <3>3, <3>4
  <2>2. CASE ~continuing[r]
    <3>1. Turn(r, a) = <<a>>
      BY <2>2 DEF Turn
    <3>2. c \notin disturbed => arena[c] = hist[c]
      BY <1>1, <1>5, <2>2 DEF Fits
    <3>3. Append(hist[c], a) = hist[c] \o <<a>>
      BY <1>4, SaidAlike
    <3> QED BY <1>2, <1>3, <3>1, <3>2, <3>3
  <2> QED BY <2>1, <2>2
<1> QED BY <1>1, <1>2, <1>3, <1>6, <1>7, <1>8, LeaveContext

LEMMA FailContext ==
  ASSUME ContextInv, NEW r \in Clients, Fail(r)
  PROVE  InTouch' /\ Alone' /\ Settled' /\ Unsaid'
<1>1. PICK said \in {transcript[r], msgs[r]} : Leave(r, said)
  BY DEF Fail
<1>2. said \in History /\ pc[r] # "idle" /\ conv[r] \in Ids
  BY InIds DEF Fail, ContextInv, StoreInv, Types
<1>3. /\ made' = made /\ hist' = hist
      /\ disturbed \subseteq disturbed'
      /\ \/ arena' = arena
         \/ pc[r] = "posted" /\ \E a \in Replies : arena' = [arena EXCEPT ![conv[r]] = Append(@, a)]
      /\ conv[r] \notin disturbed' => pc[r] # "posted" /\ continuing[r] /\ conv[r] \notin disturbed
  BY DEF Fail, storeVars
<1>4. \A d \in Ids : d # conv[r] => arena'[d] = arena[d] /\ hist'[d] = hist[d]
  BY <1>3 DEF ContextInv, StoreInv, Types
<1>5. conv[r] \notin disturbed' => arena'[conv[r]] = hist'[conv[r]]
  BY <1>2, <1>3 DEF ContextInv, InTouch, Fits
<1> QED BY <1>1, <1>2, <1>3, <1>4, <1>5, LeaveContext

LEMMA ContextSame ==
  ASSUME ContextInv, UNCHANGED <<clientVars, hist, arena, made, disturbed>>
  PROVE  InTouch' /\ Alone' /\ Settled' /\ Unsaid'
<1>1. InTouch'
  BY DEF ContextInv, InTouch, Fits, Sent, clientVars
<1>2. Alone'
  BY DEF ContextInv, Alone, clientVars
<1>3. Settled'
  BY DEF ContextInv, Settled, Active, clientVars
<1>4. Unsaid'
  BY DEF ContextInv, Unsaid
<1> QED BY <1>1, <1>2, <1>3, <1>4

LEMMA ContextInit == Init => ContextInv
<1> SUFFICES ASSUME Init PROVE ContextInv
  OBVIOUS
<1>1. \A r \in Clients : pc[r] = "idle"
  BY DEF Init
<1>2. made = 0 /\ \A c \in Ids : arena[c] = <<>>
  BY DEF Init
<1> QED BY <1>1, <1>2, StoreInit DEF ContextInv, InTouch, Alone, Settled, Unsaid

LEMMA ContextStep == ContextInv /\ [Next]_vars => ContextInv'
<1> SUFFICES ASSUME ContextInv, [Next]_vars
             PROVE  InTouch' /\ Alone' /\ Settled' /\ Unsaid'
  BY StoreStep DEF ContextInv
<1>1. CASE Expire
  BY <1>1, ContextSame DEF Expire
<1>2. CASE UNCHANGED vars
  BY <1>2, ContextSame DEF vars, storeVars
<1> QED BY <1>1, <1>2, ContinueContext, StartContext, LockContext, PostContext,
           ResendContext, SucceedContext, FailContext DEF Next

\* A conversation none of whose turns failed, was repeated or overlapped another is
\* continued with arena.ai knowing exactly what the client has seen: plan_turn() is
\* then right to send the last message alone.
THEOREM ContextIsKept == Spec => []ContextUnlessDisturbed
<1>1. Init => ContextInv
  BY ContextInit
<1>2. ContextInv /\ [Next]_vars => ContextInv'
  BY ContextStep
<1>3. ContextInv => ContextUnlessDisturbed
  BY DEF ContextInv, InTouch, Fits, ContextUnlessDisturbed, HasContext
<1> QED BY <1>1, <1>2, <1>3, PTL DEF Spec

-----------------------------------------------------------------------------
(* Sequences without repetition.                                           *)

Distinct(s) == \A i, j \in 1 .. Len(s) : s[i] = s[j] => i = j
Elements(s) == {s[i] : i \in 1 .. Len(s)}

\* There are as many elements as places.
LEMMA DistinctCount ==
  ASSUME NEW S, NEW s \in Seq(S), Distinct(s)
  PROVE  IsFiniteSet(Elements(s)) /\ Cardinality(Elements(s)) = Len(s)
<1>1. Len(s) \in Nat
  OBVIOUS
<1>2. \A i \in 1 .. Len(s) : s[i] \in Elements(s)
  BY DEF Elements
<1> DEFINE f == [i \in 1 .. Len(s) |-> s[i]]
<1>3. f \in Bijection(1 .. Len(s), Elements(s))
  <2>1. f \in [1 .. Len(s) -> Elements(s)]
    BY <1>2
  <2>2. \A i, j \in 1 .. Len(s) : f[i] = f[j] => i = j
    BY DEF Distinct
  <2>3. \A x \in Elements(s) : \E i \in 1 .. Len(s) : f[i] = x
    BY DEF Elements
  <2> HIDE DEF f
  <2> QED BY <2>1, <2>2, <2>3 DEF Bijection, Injection, Surjection, IsInjective
<1>4. ExistsBijection(1 .. Len(s), Elements(s))
  BY <1>3 DEF ExistsBijection
<1>5. IsFiniteSet(1 .. Len(s)) /\ Cardinality(1 .. Len(s)) = Len(s)
  <2>1. PICK n \in Nat : n = Len(s)
    BY <1>1
  <2>2. IsFiniteSet(1 .. n) /\ Cardinality(1 .. n) = IF 1 > n THEN 0 ELSE n - 1 + 1
    BY FS_Interval, SMTT(30)
  <2>3. IF 1 > n THEN n = 0 ELSE n - 1 + 1 = n
    OBVIOUS
  <2> QED BY <2>1, <2>2, <2>3
<1> QED BY <1>4, <1>5, FS_Bijection

\* What RemoveFirst does to a sequence that has e at place p and nowhere else.
LEMMA RemoveFirstAt ==
  ASSUME NEW S, NEW s \in Seq(S), NEW e, NEW p \in 1 .. Len(s), s[p] = e,
         \A i \in 1 .. Len(s) : s[i] = e => i = p
  PROVE  /\ RemoveFirst(s, e) \in Seq(S)
         /\ Len(RemoveFirst(s, e)) = Len(s) - 1
         /\ \A i \in 1 .. Len(s) - 1 : RemoveFirst(s, e)[i] = IF i < p THEN s[i] ELSE s[i + 1]
<1> DEFINE front == SubSeq(s, 1, p - 1)
           back  == SubSeq(s, p + 1, Len(s))
<1>1. SelectInSeq(s, LAMBDA v : v = e) = p
  <2> DEFINE I == {i \in 1 .. Len(s) : s[i] = e}
  <2>1. I = {p}
    OBVIOUS
  <2>2. SelectInSeq(s, LAMBDA v : v = e) = IF I # {} THEN Min(I) ELSE 0
    BY DEF SelectInSeq
  <2>3. Min({p}) = p
    BY DEF Min
  <2> QED BY <2>1, <2>2, <2>3
<1>2. RemoveFirst(s, e) = front \o back
  BY <1>1 DEF RemoveFirst, RemoveAt
<1>3. Len(s) \in Nat /\ p \in Nat
  OBVIOUS
<1>4. /\ front \in Seq(S) /\ Len(front) = p - 1
      /\ \A i \in 1 .. p - 1 : front[i] = s[i]
  BY <1>3, SubSeqProperties
<1>5. /\ back \in Seq(S) /\ Len(back) = Len(s) - p
      /\ \A i \in 1 .. Len(s) - p : back[i] = s[p + i]
  BY <1>3
<1> HIDE DEF front, back
<1>6. /\ front \o back \in Seq(S)
      /\ Len(front \o back) = Len(s) - 1
      /\ \A i \in 1 .. Len(s) - 1 :
            (front \o back)[i] = IF i <= p - 1 THEN front[i] ELSE back[i - (p - 1)]
  <2>1. /\ front \o back \in Seq(S)
        /\ Len(front \o back) = Len(front) + Len(back)
        /\ \A i \in 1 .. Len(front) + Len(back) :
             (front \o back)[i] = IF i <= Len(front) THEN front[i] ELSE back[i - Len(front)]
    BY <1>4, <1>5, ConcatProperties
  <2>2. Len(front) + Len(back) = Len(s) - 1
    BY <1>3, <1>4, <1>5
  <2> QED BY <1>4, <2>1, <2>2
<1>7. ASSUME NEW i \in 1 .. Len(s) - 1
      PROVE  (front \o back)[i] = IF i < p THEN s[i] ELSE s[i + 1]
  <2>1. CASE i < p
    BY <1>3, <1>4, <1>6, <2>1
  <2>2. CASE ~(i < p)
    <3>1. i - (p - 1) \in 1 .. Len(s) - p /\ p + (i - (p - 1)) = i + 1
      BY <1>3, <2>2
    <3>2. (front \o back)[i] = back[i - (p - 1)]
      BY <1>3, <1>6, <2>2
    <3> QED BY <1>5, <2>2, <3>1, <3>2
  <2> QED BY <2>1, <2>2
<1> QED BY <1>2, <1>6, <1>7

\* Removing an element takes it from a sequence and leaves the others.
LEMMA RemoveFirstLeaves ==
  ASSUME NEW S, NEW s \in Seq(S), Distinct(s), NEW e
  PROVE  /\ RemoveFirst(s, e) \in Seq(S)
         /\ Distinct(RemoveFirst(s, e))
         /\ Elements(RemoveFirst(s, e)) = Elements(s) \ {e}
<1> DEFINE t == RemoveFirst(s, e)
<1>1. CASE e \notin Elements(s)
  <2>1. t = s
    BY <1>1 DEF RemoveFirst, Elements
  <2> HIDE DEF t
  <2>2. Elements(s) \ {e} = Elements(s)
    BY <1>1
  <2> QED BY <2>1, <2>2 DEF t
<1>2. CASE e \in Elements(s)
  <2>1. PICK p \in 1 .. Len(s) : s[p] = e
    BY <1>2 DEF Elements
  <2>2. \A i \in 1 .. Len(s) : s[i] = e => i = p
    BY <2>1 DEF Distinct
  <2>3. /\ t \in Seq(S)
        /\ Len(t) = Len(s) - 1
        /\ \A i \in 1 .. Len(s) - 1 : t[i] = IF i < p THEN s[i] ELSE s[i + 1]
    BY <2>1, <2>2, RemoveFirstAt
  <2> HIDE DEF t
  <2> DEFINE from(i) == IF i < p THEN i ELSE i + 1
             to(i)   == IF i < p THEN i ELSE i - 1
  <2>4. Len(s) \in Nat /\ p \in Nat
    OBVIOUS
  <2>5. \A i \in 1 .. Len(t) : from(i) \in 1 .. Len(s) /\ from(i) # p /\ t[i] = s[from(i)]
    BY <2>3, <2>4
  <2>6. \A i \in 1 .. Len(s) : i # p => to(i) \in 1 .. Len(t) /\ t[to(i)] = s[i]
    <3> SUFFICES ASSUME NEW i \in 1 .. Len(s), i # p
                 PROVE  to(i) \in 1 .. Len(t) /\ t[to(i)] = s[i]
      OBVIOUS
    <3>1. CASE i < p
      BY <2>3, <2>4, <3>1
    <3>2. CASE ~(i < p)
      <4>1. i - 1 \in 1 .. Len(s) - 1 /\ ~(i - 1 < p) /\ (i - 1) + 1 = i
        BY <2>4, <3>2
      <4> QED BY <2>3, <3>2, <4>1
    <3> QED BY <3>1, <3>2
  <2>7. \A i, j \in 1 .. Len(t) : from(i) = from(j) => i = j
    BY <2>3, <2>4
  <2> HIDE DEF from, to
  <2>8. Distinct(t)
    BY <2>5, <2>7 DEF Distinct
  <2>9. Elements(t) = Elements(s) \ {e}
    <3>1. ASSUME NEW x \in Elements(t)
          PROVE  x \in Elements(s) \ {e}
      <4>1. PICK i \in 1 .. Len(t) : x = t[i]
        BY DEF Elements
      <4> QED BY <2>2, <2>5, <4>1 DEF Elements
    <3>2. ASSUME NEW x \in Elements(s) \ {e}
          PROVE  x \in Elements(t)
      <4>1. PICK i \in 1 .. Len(s) : x = s[i]
        BY DEF Elements
      <4>2. i # p
        BY <2>1, <4>1
      <4> QED BY <2>6, <4>1, <4>2 DEF Elements
    <3> QED BY <3>1, <3>2
  <2> QED BY <2>3, <2>8, <2>9 DEF t
<1> QED BY <1>1, <1>2

\* An element appended joins the others.
LEMMA AppendLeaves ==
  ASSUME NEW S, NEW s \in Seq(S), Distinct(s), NEW e \in S, e \notin Elements(s)
  PROVE  /\ Append(s, e) \in Seq(S)
         /\ Distinct(Append(s, e))
         /\ Elements(Append(s, e)) = Elements(s) \cup {e}
<1> DEFINE t == Append(s, e)
<1>1. /\ t \in Seq(S) /\ Len(t) = Len(s) + 1
      /\ \A i \in 1 .. Len(s) : t[i] = s[i]
      /\ t[Len(s) + 1] = e
  BY AppendProperties
<1>2. Len(s) \in Nat
  OBVIOUS
<1> HIDE DEF t
<1>3. Distinct(t)
  <2> SUFFICES ASSUME NEW i \in 1 .. Len(t), NEW j \in 1 .. Len(t), t[i] = t[j]
               PROVE  i = j
    BY DEF Distinct
  <2>1. \A k \in 1 .. Len(s) : t[k] # e
    BY <1>1 DEF Elements
  <2>2. \A k \in 1 .. Len(t) : k \in 1 .. Len(s) \/ k = Len(s) + 1
    BY <1>1, <1>2
  <2> QED BY <1>1, <2>1, <2>2 DEF Distinct
<1>4. Elements(t) = Elements(s) \cup {e}
  <2>1. \A k \in 1 .. Len(t) : k \in 1 .. Len(s) \/ k = Len(s) + 1
    BY <1>1, <1>2
  <2>2. \A k \in 1 .. Len(s) : k \in 1 .. Len(t)
    BY <1>1, <1>2
  <2>3. Len(s) + 1 \in 1 .. Len(t)
    BY <1>1, <1>2
  <2>4. Elements(t) \subseteq Elements(s) \cup {e}
    BY <1>1, <2>1 DEF Elements
  <2>5. Elements(s) \subseteq Elements(t)
    BY <1>1, <2>2 DEF Elements
  <2>6. e \in Elements(t)
    BY <1>1, <2>3 DEF Elements
  <2> QED BY <2>4, <2>5, <2>6
<1> QED BY <1>1, <1>3, <1>4 DEF t
-----------------------------------------------------------------------------
(* The order of the store.                                                 *)

\* The dict has its keys in some order, each of them once.
OrderInv == order \in Seq(History) /\ Distinct(order) /\ Elements(order) = DOMAIN convs

\* put_sync() keeps what it is given, unless the store is over its cap.
LEMMA PutOrder ==
  ASSUME NEW f, NEW seq \in Seq(History), Distinct(seq), Elements(seq) = DOMAIN f,
         NEW k \in History, NEW c, Put(f, seq, k, c)
  PROVE  /\ OrderInv'
         /\ \/ k \in DOMAIN convs' /\ convs'[k] = c
            \/ IsFiniteSet(DOMAIN f) /\ Cardinality(DOMAIN f \cup {k}) > Cap
<1> DEFINE added == IF k \in DOMAIN f THEN seq ELSE Append(seq, k)
           kept  == IF Len(added) > Cap THEN SubSeq(added, 1, Keep) ELSE added
           S     == {kept[i] : i \in 1 .. Len(kept)}
<1>1. convs' = OnlyKeys(WithKey(f, k, c), S) /\ order' = kept
  BY DEF Put
<1>2. added \in Seq(History) /\ Distinct(added) /\ Elements(added) = DOMAIN f \cup {k}
  <2>1. CASE k \in DOMAIN f
    BY <2>1
  <2>2. CASE k \notin DOMAIN f
    BY <2>2, AppendLeaves
  <2> QED BY <2>1, <2>2
<1> HIDE DEF added
<1>3. kept \in Seq(History) /\ Distinct(kept) /\ Elements(kept) \subseteq Elements(added)
  <2>1. CASE Len(added) > Cap
    <3>1. Keep \in Nat /\ Cap \in Nat /\ Keep <= Cap
      BY ConversationsAssumption DEF ConversationsAssumption
    <3>2. Len(added) \in Nat
      BY <1>2
    <3>3. \A i \in 1 .. Keep : i \in 1 .. Len(added)
      BY <2>1, <3>1, <3>2
    <3>4. \A i \in 1 .. Keep : added[i] \in History
      BY <1>2, <3>3, ElementOfSeq
    <3>5. kept = SubSeq(added, 1, Keep)
      BY <2>1
    <3>6. /\ kept \in Seq(History) /\ Len(kept) = Keep
          /\ \A i \in 1 .. Keep : kept[i] = added[i]
      BY <1>2, <2>1, <3>1, <3>2, <3>5
    <3> HIDE DEF kept
    <3>7. Distinct(kept)
      BY <1>2, <3>3, <3>6 DEF Distinct
    <3>8. Elements(kept) \subseteq Elements(added)
      BY <3>3, <3>6 DEF Elements
    <3> QED BY <3>6, <3>7, <3>8
  <2>2. CASE ~(Len(added) > Cap)
    BY <1>2, <2>2
  <2> QED BY <2>1, <2>2
<1>4. ~(Len(added) > Cap) => kept = added
  OBVIOUS
<1>5. S = Elements(kept)
  BY DEF Elements
<1> HIDE DEF S, kept
<1>6. convs' = [j \in (DOMAIN f \cup {k}) \cap S |-> IF j = k THEN c ELSE f[j]]
  BY <1>1 DEF OnlyKeys, WithKey
<1>7. DOMAIN convs' = Elements(kept)
  BY <1>2, <1>3, <1>5, <1>6
<1>8. OrderInv'
  BY <1>1, <1>3, <1>7 DEF OrderInv, Elements, Distinct
<1>9. CASE ~(Len(added) > Cap)
  BY <1>2, <1>4, <1>5, <1>6, <1>8, <1>9
<1>10. CASE Len(added) > Cap
  <2>1. Cardinality(DOMAIN f \cup {k}) > Cap
    BY <1>2, <1>10, DistinctCount
  <2>2. IsFiniteSet(DOMAIN f)
    BY DistinctCount
  <2> QED BY <1>8, <2>1, <2>2
<1> QED BY <1>9, <1>10

\* Deleting a key leaves the others where they are.
LEMMA DeleteOrder ==
  ASSUME OrderInv, NEW k
  PROVE  /\ RemoveFirst(order, k) \in Seq(History)
         /\ Distinct(RemoveFirst(order, k))
         /\ Elements(RemoveFirst(order, k)) = DOMAIN convs \ {k}
         /\ DOMAIN OnlyKeys(convs, DOMAIN convs \ {k}) = DOMAIN convs \ {k}
<1>1. DOMAIN OnlyKeys(convs, DOMAIN convs \ {k}) = DOMAIN convs \ {k}
  BY DEF OnlyKeys
<1> QED BY <1>1, RemoveFirstLeaves DEF OrderInv

\* The reply goes to the store under what the client will send next.
LEMMA CommitOrder ==
  ASSUME StoreInv, OrderInv, NEW r \in Clients, NEW a \in Replies, Succeed(r, a)
  PROVE  /\ OrderInv'
         /\ \/ hist'[conv[r]] \in DOMAIN convs' /\ convs'[hist'[conv[r]]] = conv[r]
            \/ Cardinality(DOMAIN convs \cup {hist'[conv[r]]}) > Cap
<1> DEFINE c    == conv[r]
           rest == DOMAIN convs \ {hist[c]}
           f    == OnlyKeys(convs, rest)
           seq  == RemoveFirst(order, hist[c])
           key  == hist'[c]
<1>1. Put(f, seq, key, c)
  BY DEF Succeed, Commit
<1>2. /\ seq \in Seq(History) /\ Distinct(seq) /\ Elements(seq) = DOMAIN f
      /\ DOMAIN f = rest
  BY DeleteOrder
<1>3. key \in History
  <2>1. hist' \in [Ids -> History] /\ c \in Ids
    BY SucceedTypes DEF Types
  <2> QED BY <2>1
<1> HIDE DEF f, seq, key
<1>4. /\ OrderInv'
      /\ \/ key \in DOMAIN convs' /\ convs'[key] = c
         \/ IsFiniteSet(DOMAIN f) /\ Cardinality(DOMAIN f \cup {key}) > Cap
  BY <1>1, <1>2, <1>3, PutOrder
<1>5. CASE key \in DOMAIN convs' /\ convs'[key] = c
  BY <1>4, <1>5 DEF key
<1>6. CASE Cardinality(DOMAIN f \cup {key}) > Cap
  <2>1. IsFiniteSet(DOMAIN convs)
    BY DistinctCount DEF OrderInv
  <2>2. IsFiniteSet(DOMAIN convs \cup {key})
    BY <2>1, FS_AddElement
  <2>3. DOMAIN f \cup {key} \subseteq DOMAIN convs \cup {key}
    BY <1>2
  <2>4. /\ Cardinality(DOMAIN f \cup {key}) <= Cardinality(DOMAIN convs \cup {key})
        /\ Cardinality(DOMAIN f \cup {key}) \in Nat
        /\ Cardinality(DOMAIN convs \cup {key}) \in Nat
    BY <2>2, <2>3, FS_Subset, FS_CardinalityType
  <2>5. Cap \in Nat
    BY ConversationsAssumption DEF ConversationsAssumption
  <2>6. Cardinality(DOMAIN convs \cup {key}) > Cap
    BY <1>6, <2>4, <2>5
  <2> QED BY <1>4, <2>6 DEF key
<1> QED BY <1>4, <1>5, <1>6

LEMMA OrderStep ==
  ASSUME StoreInv, OrderInv, [Next]_vars
  PROVE  OrderInv'
<1>1. CASE UNCHANGED storeVars
  BY <1>1 DEF storeVars, OrderInv, Elements, Distinct
<1>2. ASSUME NEW r \in Clients, NEW m \in Messages, Start(r, m)
      PROVE  OrderInv'
  <2>1. Put(convs, order, msgs'[r], made + 1)
    BY <1>2 DEF Start
  <2>2. msgs'[r] \in History
    BY <1>2, StartTypes DEF Types
  <2> QED BY <2>1, <2>2, PutOrder DEF OrderInv
<1>3. CASE Expire
  <2>1. PICK k \in DOMAIN convs : /\ convs' = OnlyKeys(convs, DOMAIN convs \ {k})
                                  /\ order' = RemoveFirst(order, k)
    BY <1>3 DEF Expire
  <2> DEFINE t == RemoveFirst(order, k)
             D == DOMAIN convs \ {k}
  <2>2. /\ t \in Seq(History) /\ Distinct(t) /\ Elements(t) = D
    BY DeleteOrder
  <2>3. DOMAIN convs' = D
    BY <2>1 DEF OnlyKeys
  <2>4. order' = t
    BY <2>1
  <2> HIDE DEF t, D
  <2> QED BY <2>2, <2>3, <2>4 DEF OrderInv, Elements, Distinct
<1>4. ASSUME NEW r \in Clients,
             \/ \E m \in Messages : Continue(r, m)
             \/ Lock(r) \/ Post(r) \/ Resend(r) \/ Fail(r)
      PROVE  UNCHANGED storeVars
  BY <1>4 DEF Continue, Lock, Post, Resend, Fail
<1>5. CASE UNCHANGED vars
  BY <1>1, <1>5 DEF vars
<1> QED BY <1>1, <1>2, <1>3, <1>4, <1>5, CommitOrder DEF Next

\* What a request sends is what its client has seen, and one message more.
Spoken == \A r \in Clients : pc[r] # "idle" =>
                               \E m \in Messages : msgs[r] = Append(transcript[r], m)

LEMMA SpokenStep ==
  ASSUME StoreInv, Spoken, [Next]_vars
  PROVE  Spoken'
<1>1. CASE UNCHANGED <<transcript, msgs>> /\ \A r \in Clients : pc'[r] # "idle" => pc[r] # "idle"
  BY <1>1 DEF Spoken
<1>2. ASSUME NEW r \in Clients, NEW m \in Messages, Continue(r, m) \/ Start(r, m)
      PROVE  Spoken'
  <2>1. /\ msgs' = [msgs EXCEPT ![r] = Append(transcript[r], m)]
        /\ pc' = [pc EXCEPT ![r] = "planned"] /\ transcript' = transcript
    BY <1>2 DEF Continue, Start, Send, Goto
  <2> QED BY <2>1 DEF Spoken, StoreInv, Types
<1>3. ASSUME NEW r \in Clients, NEW said, Leave(r, said)
      PROVE  Spoken'
  BY <1>3 DEF Leave, Goto, Spoken, StoreInv, Types
<1>4. ASSUME NEW r \in Clients, Lock(r) \/ Post(r)
      PROVE  Spoken'
  <2>1. UNCHANGED <<transcript, msgs>>
    BY <1>4 DEF Lock, Post
  <2>2. pc[r] # "idle" /\ \E place : pc' = [pc EXCEPT ![r] = place]
    BY <1>4 DEF Lock, BeginWithoutLock, LookUpLock, AcquireLock, Post, Goto
  <2> QED BY <1>1, <2>1, <2>2 DEF StoreInv, Types
<1>5. ASSUME NEW r \in Clients, Resend(r)
      PROVE  Spoken'
  BY <1>1, <1>5 DEF Resend, clientVars
<1>6. CASE Expire \/ UNCHANGED vars
  BY <1>1, <1>6 DEF Expire, vars, clientVars
<1> QED BY <1>2, <1>3, <1>4, <1>5, <1>6 DEF Next, Succeed, Fail

\* The history that is committed is the transcript of the client.
LEMMA CommitSpoken ==
  ASSUME ContextInv, Spoken, NEW r \in Clients, NEW a \in Replies, Succeed(r, a),
         conv[r] \notin disturbed
  PROVE  hist'[conv[r]] = Append(msgs[r], a)
<1> DEFINE c == conv[r]
<1>1. /\ c \in Ids /\ hist' = [hist EXCEPT ![c] = @ \o Turn(r, a)]
      /\ pc[r] = "posted"
  BY SucceedTypes DEF ContextInv, Succeed
<1>2. hist'[c] = hist[c] \o Turn(r, a)
  BY <1>1 DEF ContextInv, StoreInv, Types
<1>3. Fits(r)
  BY <1>1 DEF ContextInv, InTouch
<1>4. /\ hist[c] \in Seq(Words) /\ msgs[r] \in Seq(Words) /\ transcript[r] \in Seq(Words)
      /\ a \in Words
  BY <1>1 DEF ContextInv, StoreInv, Types, History, Words
<1>5. PICK m \in Messages : msgs[r] = Append(transcript[r], m)
  BY <1>1 DEF Spoken
<1>6. m \in Words
  BY DEF Words
<1>7. CASE continuing[r]
  <2>1. msgs[r][Len(msgs[r])] = m /\ msgs[r] = transcript[r] \o <<m>>
    BY <1>4, <1>5, <1>6, AppendProperties, AppendIsConcat
  <2>2. Turn(r, a) = <<m, a>>
    BY <1>7, <2>1 DEF Turn
  <2>3. transcript[r] = hist[c]
    BY <1>3, <1>7 DEF Fits
  <2>4. Append(hist[c] \o <<m>>, a) = hist[c] \o <<m, a>>
    BY <1>4, <1>6, SaidAlike
  <2> QED BY <1>2, <2>1, <2>2, <2>3, <2>4
<1>8. CASE ~continuing[r]
  <2>1. Turn(r, a) = <<a>> /\ msgs[r] = hist[c]
    BY <1>3, <1>8 DEF Turn, Fits
  <2>2. Append(hist[c], a) = hist[c] \o <<a>>
    BY <1>4, SaidAlike
  <2> QED BY <1>2, <2>1, <2>2
<1> QED BY <1>7, <1>8

\* Only a reply makes the transcript longer than what was sent.
LEMMA OnlyRepliesAdd ==
  ASSUME StoreInv, Spoken, [Next]_vars, NEW r \in Clients, pc[r] = "posted",
         Len(transcript'[r]) > Len(msgs[r])
  PROVE  \E a \in Replies : Succeed(r, a)
<1>1. Len(transcript[r]) <= Len(msgs[r]) /\ Len(msgs[r]) \in Nat
  <2>1. PICK m \in Messages : msgs[r] = Append(transcript[r], m)
    BY DEF Spoken
  <2>2. transcript[r] \in Seq(Words) /\ m \in Words
    BY DEF StoreInv, Types, History, Words
  <2>3. Len(msgs[r]) = Len(transcript[r]) + 1 /\ Len(transcript[r]) \in Nat
    BY <2>1, <2>2, AppendProperties
  <2> QED BY <2>3
<1>2. transcript'[r] # transcript[r] /\ transcript'[r] # msgs[r]
  BY <1>1
<1>3. ASSUME NEW s \in Clients, NEW said, Leave(s, said)
      PROVE  s = r /\ said # transcript[r] /\ said # msgs[r]
  BY <1>2, <1>3 DEF Leave, StoreInv, Types
<1>4. ASSUME NEW s \in Clients, Fail(s)
      PROVE  FALSE
  BY <1>3, <1>4 DEF Fail
<1>5. ASSUME NEW s \in Clients, NEW a \in Replies, Succeed(s, a)
      PROVE  s = r
  BY <1>3, <1>5 DEF Succeed
<1>6. ASSUME NEW s \in Clients,
             \/ \E m \in Messages : Continue(s, m) \/ Start(s, m)
             \/ Lock(s) \/ Post(s) \/ Resend(s)
      PROVE  FALSE
  BY <1>2, <1>6 DEF Continue, Start, Lock, Post, Resend, clientVars
<1>7. ~Expire /\ ~UNCHANGED vars
  BY <1>2 DEF Expire, vars, clientVars
<1> QED BY <1>4, <1>5, <1>6, <1>7 DEF Next

\* After a turn of a conversation that nothing disturbed the client's next one finds it
\* if and only if the client was shown what commit_response() was given, whatever the
\* others store, expire or overwrite, for any cap: only the trimming of a store that
\* is over its cap can drop it.
THEOREM NextTurnIsFound == Spec => NextTurnContinues
<1> DEFINE Finds(r) == /\ transcript'[r] \in DOMAIN convs'
                       /\ convs'[transcript'[r]] = conv[r]
           Found == \A r \in Clients :
             LET c     == conv[r]
                 said  == transcript'[r]
                 finds == said \in DOMAIN convs' /\ convs'[said] = c
             IN  pc[r] = "posted" /\ Len(said) > Len(msgs[r]) /\ c \notin disturbed =>
                   \/ finds <=> Last(said) = Last(hist'[c])
                   \/ Cardinality(DOMAIN convs \cup {hist'[c]}) > Cap
<1>1. ContextInv /\ Spoken /\ OrderInv /\ [Next]_vars => [Found]_vars
  <2> SUFFICES ASSUME ContextInv, Spoken, OrderInv, [Next]_vars,
                      NEW r \in Clients, pc[r] = "posted",
                      Len(transcript'[r]) > Len(msgs[r]), conv[r] \notin disturbed
               PROVE  \/ Finds(r) <=> Last(transcript'[r]) = Last(hist'[conv[r]])
                      \/ Cardinality(DOMAIN convs \cup {hist'[conv[r]]}) > Cap
    OBVIOUS
  <2>1. StoreInv /\ StoreInv'
    BY StoreStep DEF ContextInv
  <2>2. PICK a \in Replies : Succeed(r, a)
    BY <2>1, OnlyRepliesAdd
  <2>3. PICK w \in Shown(r, a) : Leave(r, Append(msgs[r], w))
    BY <2>2 DEF Succeed
  <2>4. /\ hist'[conv[r]] = Append(msgs[r], a)
        /\ transcript'[r] = Append(msgs[r], w)
    BY <2>1, <2>2, <2>3, CommitSpoken DEF Leave, StoreInv, Types
  <2>5. msgs[r] \in Seq(Words) /\ a \in Words /\ w \in Words
    BY <2>1, ShownWords DEF StoreInv, Types, History, Words
  <2>6. Last(transcript'[r]) = w /\ Last(hist'[conv[r]]) = a
    BY <2>4, <2>5, AppendProperties DEF Last
  <2>7. CASE w = a
    <3>1. transcript'[r] = hist'[conv[r]]
      BY <2>4, <2>7
    <3>2. \/ Finds(r)
          \/ Cardinality(DOMAIN convs \cup {hist'[conv[r]]}) > Cap
      BY <2>1, <2>2, <3>1, CommitOrder
    <3> QED BY <2>6, <2>7, <3>2
  <2>8. CASE w # a
    <3>1. Finds(r) => hist'[conv[r]] = transcript'[r]
      BY <2>1 DEF StoreInv, StoredUnderHistory
    <3>2. ~Finds(r)
      BY <2>6, <2>8, <3>1
    <3> QED BY <2>6, <2>8, <3>2
  <2> QED BY <2>7, <2>8
<1> HIDE DEF Found
<1>2. Init => Spoken /\ OrderInv
  <2> SUFFICES ASSUME Init PROVE Spoken /\ OrderInv
    OBVIOUS
  <2>1. Spoken
    BY DEF Init, Spoken
  <2>2. order = <<>> /\ DOMAIN convs = {}
    BY DEF Init
  <2>3. OrderInv
    BY <2>2 DEF OrderInv, Distinct, Elements
  <2> QED BY <2>1, <2>3
<1>3. ContextInv /\ Spoken /\ OrderInv /\ [Next]_vars => (Spoken /\ OrderInv)'
  BY SpokenStep, OrderStep DEF ContextInv
<1>4. Spec => [][Found]_vars
  BY <1>1, <1>2, <1>3, ContextInit, ContextStep, PTL DEF Spec
<1> QED BY <1>4 DEF Found, NextTurnContinues
=============================================================================
