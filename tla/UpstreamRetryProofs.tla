------------------------ MODULE UpstreamRetryProofs ------------------------
(***************************************************************************)
(* What the retry loop and the cookie pool guarantee for any number of     *)
(* requests, attempts, cookies and streams of text. Of the pool: health    *)
(* follows the counts of failures, and the two lists rank every entry      *)
(* exactly once, so that the one acquire() takes is behind none it could   *)
(* have taken.                                                             *)
(***************************************************************************)
EXTENDS UpstreamRetry, SequenceTheorems, TLAPS

USE PoolAssumption, RetryAssumption DEF PoolAssumption, RetryAssumption

-----------------------------------------------------------------------------
(* The pool.                                                               *)

HealthInv == /\ healthy \in [Cookies -> BOOLEAN]
             /\ fails \in [Cookies -> 0 .. FailThreshold]
             /\ HealthMatchesFails

\* Entries made healthy have a clean count.
LEMMA HealthyAgainHealth ==
  ASSUME HealthInv, NEW S, HealthyAgain(S)
  PROVE  HealthInv'
<1>1. healthy' \in [Cookies -> BOOLEAN]
  BY DEF HealthInv, HealthyAgain
<1>2. fails' \in [Cookies -> 0 .. FailThreshold]
  BY DEF HealthInv, HealthyAgain
<1>3. ASSUME NEW c \in Cookies
      PROVE  /\ fails'[c] = FailThreshold => ~healthy'[c]
             /\ ~healthy'[c] => fails'[c] > 0
  <2>1. CASE c \in S
    <3>1. healthy'[c] /\ fails'[c] = 0
      BY <2>1 DEF HealthyAgain
    <3>2. QED
      BY <3>1
  <2>2. CASE c \notin S
    <3>1. healthy'[c] <=> healthy[c]
      BY <2>2 DEF HealthyAgain
    <3>2. fails'[c] = fails[c]
      BY <2>2 DEF HealthyAgain
    <3>3. QED
      BY <3>1, <3>2 DEF HealthInv, HealthMatchesFails
  <2>3. QED
    BY <2>1, <2>2
<1>4. QED
  BY <1>1, <1>2, <1>3 DEF HealthInv, HealthMatchesFails

LEMMA AcquireHealth ==
  ASSUME HealthInv, NEW c, Acquire(c)
  PROVE  HealthInv'
<1>1. CASE UNCHANGED <<healthy, fails>>
  BY <1>1 DEF HealthInv, HealthMatchesFails
<1>2. CASE HealthyAgain(Entries)
  BY <1>2, HealthyAgainHealth
<1>3. QED
  BY <1>1, <1>2 DEF Acquire

LEMMA MarkOkHealth ==
  ASSUME HealthInv, NEW c, MarkOk(c)
  PROVE  HealthInv'
BY HealthyAgainHealth DEF MarkOk

LEMMA MarkFailedHealth ==
  ASSUME HealthInv, NEW c, NEW authFail \in BOOLEAN, MarkFailed(c, authFail)
  PROVE  HealthInv'
<1>1. fails' = [fails EXCEPT ![c] = IF @ < FailThreshold THEN @ + 1 ELSE @]
  BY DEF MarkFailed
<1>2. fails' \in [Cookies -> 0 .. FailThreshold]
  <2>1. CASE c \in Cookies
    <3>1. fails[c] \in 0 .. FailThreshold
      BY <2>1 DEF HealthInv
    <3>2. (IF fails[c] < FailThreshold THEN fails[c] + 1 ELSE fails[c]) \in 0 .. FailThreshold
      BY <3>1
    <3>3. QED
      BY <1>1, <3>2 DEF HealthInv
  <2>2. CASE c \notin Cookies
    BY <1>1, <2>2 DEF HealthInv
  <2>3. QED
    BY <2>1, <2>2
<1>3. healthy' = [healthy EXCEPT ![c] = @ /\ ~authFail /\ fails'[c] < FailThreshold]
  BY DEF MarkFailed
<1>4. healthy' \in [Cookies -> BOOLEAN]
  <2> DEFINE kept == healthy[c] /\ ~authFail /\ fails'[c] < FailThreshold
  <2>1. healthy' = [healthy EXCEPT ![c] = kept]
    BY <1>3
  <2>2. kept \in BOOLEAN
    OBVIOUS
  <2> HIDE DEF kept
  <2>3. QED
    BY <2>1, <2>2 DEF HealthInv
<1>5. ASSUME NEW d \in Cookies
      PROVE  /\ fails'[d] = FailThreshold => ~healthy'[d]
             /\ ~healthy'[d] => fails'[d] > 0
  <2>1. CASE d = c
    <3>1. fails'[d] > 0
      BY <1>1, <2>1 DEF HealthInv
    <3>2. healthy'[d] => fails'[d] < FailThreshold
      BY <1>3, <2>1 DEF HealthInv
    <3>3. fails'[d] \in 0 .. FailThreshold
      BY <1>2
    <3>4. fails'[d] < FailThreshold => fails'[d] # FailThreshold
      BY <3>3
    <3>5. QED
      BY <3>1, <3>2, <3>4
  <2>2. CASE d # c
    <3>1. fails'[d] = fails[d]
      BY <1>1, <2>2 DEF HealthInv
    <3>2. healthy'[d] = healthy[d]
      BY <1>3, <2>2 DEF HealthInv
    <3>3. QED
      BY <3>1, <3>2 DEF HealthInv, HealthMatchesFails
  <2>3. QED
    BY <2>1, <2>2
<1>6. QED
  BY <1>2, <1>4, <1>5 DEF HealthInv, HealthMatchesFails

LEMMA RenewHealth ==
  ASSUME HealthInv, Renew
  PROVE  HealthInv'
<1>1. CASE HealthyAgain({Default})
  BY <1>1, HealthyAgainHealth
<1>2. CASE /\ healthy' = [healthy EXCEPT ![Default] = TRUE]
           /\ fails' = [fails EXCEPT ![Default] = 0]
  <2>1. healthy' \in [Cookies -> BOOLEAN] /\ fails' \in [Cookies -> 0 .. FailThreshold]
    BY <1>2 DEF HealthInv
  <2>2. HealthMatchesFails'
    BY <1>2 DEF HealthInv, HealthMatchesFails
  <2>3. QED
    BY <2>1, <2>2 DEF HealthInv
<1>3. QED
  BY <1>1, <1>2 DEF Renew

LEMMA HealthStep == HealthInv /\ [Next]_vars => HealthInv'
<1> SUFFICES ASSUME HealthInv, [Next]_vars
             PROVE  HealthInv'
  OBVIOUS
<1>1. CASE UNCHANGED poolVars
  BY <1>1 DEF poolVars, HealthInv, HealthMatchesFails
<1>2. ASSUME NEW r \in Requests, Begin(r)
      PROVE  HealthInv'
  BY <1>2, AcquireHealth DEF Begin
<1>3. ASSUME NEW r \in Requests, Proceed(r)
      PROVE  UNCHANGED poolVars \/ HealthInv'
  <2>1. CASE Finish(r)
    BY <2>1, MarkOkHealth DEF Finish
  <2>2. CASE CookieRejected(r)
    BY <2>2, MarkFailedHealth DEF CookieRejected
  <2>3. CASE Banned(r)
    BY <2>3, MarkFailedHealth DEF Banned
  <2>4. CASE Post(r) \/ \E k \in Keys, n \in 1 .. TextLength : Chunk(r, k, n)
    BY <2>4 DEF Post, Chunk
  <2>5. CASE StopAtDone(r) \/ Interrupted(r) \/ TokenRejected(r) \/ Fatal(r)
    BY <2>5 DEF StopAtDone, Interrupted, TokenRejected, Fatal
  <2>6. QED
    BY <1>3, <2>1, <2>2, <2>3, <2>4, <2>5 DEF Proceed
<1>4. CASE Others
  <2>1. ASSUME NEW c \in Cookies, Validate(c)
        PROVE  HealthInv'
    BY <2>1, MarkOkHealth, MarkFailedHealth DEF Validate
  <2>2. QED
    BY <1>4, <2>1, RenewHealth, AcquireHealth DEF Others, Vote
<1>5. ASSUME NEW r \in Requests, BeginWithoutCookies(r) \/ Disconnect(r)
      PROVE  UNCHANGED poolVars
  BY <1>5 DEF BeginWithoutCookies, Disconnect
<1>6. QED
  BY <1>1, <1>2, <1>3, <1>4, <1>5 DEF Next, vars

\* An entry with the full count rests, and one that rests has failed: for any
\* interleaving of attempts, validations, renewals and revivals.
THEOREM HealthFollowsFailures == Spec => []HealthMatchesFails
<1>1. Init => HealthInv
  BY DEF Init, PoolInit, HealthInv, HealthMatchesFails
<1>2. HealthInv => HealthMatchesFails
  BY DEF HealthInv
<1>3. QED
  BY <1>1, <1>2, HealthStep, PTL DEF Spec

-----------------------------------------------------------------------------
(* Sequences without repetition.                                           *)

Distinct(s) == \A i, j \in 1 .. Len(s) : s[i] = s[j] => i = j
Elements(s) == {s[i] : i \in 1 .. Len(s)}

\* x stands before y.
Ahead(s, x, y) == \E i, j \in 1 .. Len(s) : i < j /\ s[i] = x /\ s[j] = y

\* What RemoveFirst does to a sequence that has e at place p and nowhere else.
LEMMA RemoveFirstAt ==
  ASSUME NEW S, NEW s \in Seq(S), NEW e, NEW p \in 1 .. Len(s), s[p] = e,
         \A i \in 1 .. Len(s) : s[i] = e => i = p
  PROVE  /\ RemoveFirst(s, e) \in Seq(S)
         /\ Len(RemoveFirst(s, e)) = Len(s) - 1
         /\ \A i \in 1 .. Len(s) - 1 : RemoveFirst(s, e)[i] = IF i < p THEN s[i] ELSE s[i + 1]
<1> DEFINE front == SubSeq(s, 1, p - 1)
           back  == SubSeq(s, p + 1, Len(s))
<1>1. SelectInSeq(s, LAMBDA v : v = e) = p
  <2> DEFINE I == {i \in 1 .. Len(s) : s[i] = e}
  <2>1. I = {p}
    OBVIOUS
  <2>2. SelectInSeq(s, LAMBDA v : v = e) = IF I # {} THEN Min(I) ELSE 0
    BY DEF SelectInSeq
  <2>3. Min({p}) = p
    BY DEF Min
  <2> QED BY <2>1, <2>2, <2>3
<1>2. RemoveFirst(s, e) = front \o back
  BY <1>1 DEF RemoveFirst, RemoveAt
<1>3. Len(s) \in Nat /\ p \in Nat
  OBVIOUS
<1>4. /\ front \in Seq(S) /\ Len(front) = p - 1
      /\ \A i \in 1 .. p - 1 : front[i] = s[i]
  BY <1>3, SubSeqProperties
<1>5. /\ back \in Seq(S) /\ Len(back) = Len(s) - p
      /\ \A i \in 1 .. Len(s) - p : back[i] = s[p + i]
  BY <1>3
<1> HIDE DEF front, back
<1>6. /\ front \o back \in Seq(S)
      /\ Len(front \o back) = Len(s) - 1
      /\ \A i \in 1 .. Len(s) - 1 :
            (front \o back)[i] = IF i <= p - 1 THEN front[i] ELSE back[i - (p - 1)]
  <2>1. /\ front \o back \in Seq(S)
        /\ Len(front \o back) = Len(front) + Len(back)
        /\ \A i \in 1 .. Len(front) + Len(back) :
             (front \o back)[i] = IF i <= Len(front) THEN front[i] ELSE back[i - Len(front)]
    BY <1>4, <1>5, ConcatProperties
  <2>2. Len(front) + Len(back) = Len(s) - 1
    BY <1>3, <1>4, <1>5
  <2> QED BY <1>4, <2>1, <2>2
<1>7. ASSUME NEW i \in 1 .. Len(s) - 1
      PROVE  (front \o back)[i] = IF i < p THEN s[i] ELSE s[i + 1]
  <2>1. CASE i < p
    BY <1>3, <1>4, <1>6, <2>1
  <2>2. CASE ~(i < p)
    <3>1. i - (p - 1) \in 1 .. Len(s) - p /\ p + (i - (p - 1)) = i + 1
      BY <1>3, <2>2
    <3>2. (front \o back)[i] = back[i - (p - 1)]
      BY <1>3, <1>6, <2>2
    <3> QED BY <1>5, <2>2, <3>1, <3>2
  <2> QED BY <2>1, <2>2
<1> QED BY <1>2, <1>6, <1>7

\* Removing an element takes it from a sequence and leaves the others in order.
LEMMA RemoveFirstLeaves ==
  ASSUME NEW S, NEW s \in Seq(S), Distinct(s), NEW e
  PROVE  /\ RemoveFirst(s, e) \in Seq(S)
         /\ Distinct(RemoveFirst(s, e))
         /\ Elements(RemoveFirst(s, e)) = Elements(s) \ {e}
         /\ \A x, y : Ahead(s, x, y) /\ x # e /\ y # e => Ahead(RemoveFirst(s, e), x, y)
<1> DEFINE t == RemoveFirst(s, e)
<1>1. CASE e \notin Elements(s)
  <2>1. t = s
    BY <1>1 DEF RemoveFirst, Elements
  <2> HIDE DEF t
  <2>2. Elements(s) \ {e} = Elements(s)
    BY <1>1
  <2> QED BY <2>1, <2>2 DEF t
<1>2. CASE e \in Elements(s)
  <2>1. PICK p \in 1 .. Len(s) : s[p] = e
    BY <1>2 DEF Elements
  <2>2. \A i \in 1 .. Len(s) : s[i] = e => i = p
    BY <2>1 DEF Distinct
  <2>3. /\ t \in Seq(S)
        /\ Len(t) = Len(s) - 1
        /\ \A i \in 1 .. Len(s) - 1 : t[i] = IF i < p THEN s[i] ELSE s[i + 1]
    BY <2>1, <2>2, RemoveFirstAt
  <2> HIDE DEF t
  <2> DEFINE from(i) == IF i < p THEN i ELSE i + 1
             to(i)   == IF i < p THEN i ELSE i - 1
  <2>4. Len(s) \in Nat /\ p \in Nat
    OBVIOUS
  <2>5. \A i \in 1 .. Len(t) : from(i) \in 1 .. Len(s) /\ from(i) # p /\ t[i] = s[from(i)]
    BY <2>3, <2>4
  <2>6. \A i \in 1 .. Len(s) : i # p => to(i) \in 1 .. Len(t) /\ t[to(i)] = s[i]
    <3> SUFFICES ASSUME NEW i \in 1 .. Len(s), i # p
                 PROVE  to(i) \in 1 .. Len(t) /\ t[to(i)] = s[i]
      OBVIOUS
    <3>1. CASE i < p
      BY <2>3, <2>4, <3>1
    <3>2. CASE ~(i < p)
      <4>1. i - 1 \in 1 .. Len(s) - 1 /\ ~(i - 1 < p) /\ (i - 1) + 1 = i
        BY <2>4, <3>2
      <4> QED BY <2>3, <3>2, <4>1
    <3> QED BY <3>1, <3>2
  <2>7. \A i, j \in 1 .. Len(t) : from(i) = from(j) => i = j
    BY <2>3, <2>4
  <2>8. \A i, j \in 1 .. Len(s) : i < j /\ i # p /\ j # p => to(i) < to(j)
    BY <2>4
  <2> HIDE DEF from, to
  <2>9. Distinct(t)
    BY <2>5, <2>7 DEF Distinct
  <2>10. Elements(t) = Elements(s) \ {e}
    <3>1. ASSUME NEW x \in Elements(t)
          PROVE  x \in Elements(s) \ {e}
      <4>1. PICK i \in 1 .. Len(t) : x = t[i]
        BY DEF Elements
      <4> QED BY <2>2, <2>5, <4>1 DEF Elements
    <3>2. ASSUME NEW x \in Elements(s) \ {e}
          PROVE  x \in Elements(t)
      <4>1. PICK i \in 1 .. Len(s) : x = s[i]
        BY DEF Elements
      <4>2. i # p
        BY <2>1, <4>1
      <4> QED BY <2>6, <4>1, <4>2 DEF Elements
    <3> QED BY <3>1, <3>2
  <2>11. ASSUME NEW x, NEW y, Ahead(s, x, y), x # e, y # e
         PROVE  Ahead(t, x, y)
    <3>1. PICK i \in 1 .. Len(s), j \in 1 .. Len(s) : i < j /\ s[i] = x /\ s[j] = y
      BY <2>11 DEF Ahead
    <3>2. i # p /\ j # p
      BY <2>1, <2>11, <3>1
    <3> QED BY <2>6, <2>8, <3>1, <3>2 DEF Ahead
  <2> QED BY <2>3, <2>9, <2>10, <2>11 DEF t
<1> QED BY <1>1, <1>2

\* An element appended stands behind the others.
LEMMA AppendLeaves ==
  ASSUME NEW S, NEW s \in Seq(S), Distinct(s), NEW e \in S, e \notin Elements(s)
  PROVE  /\ Append(s, e) \in Seq(S)
         /\ Distinct(Append(s, e))
         /\ Elements(Append(s, e)) = Elements(s) \cup {e}
         /\ \A x, y : Ahead(s, x, y) => Ahead(Append(s, e), x, y)
         /\ \A x \in Elements(s) : Ahead(Append(s, e), x, e)
<1> DEFINE t == Append(s, e)
<1>1. /\ t \in Seq(S) /\ Len(t) = Len(s) + 1
      /\ \A i \in 1 .. Len(s) : t[i] = s[i]
      /\ t[Len(s) + 1] = e
  BY AppendProperties
<1>2. Len(s) \in Nat
  OBVIOUS
<1> HIDE DEF t
<1>3. Distinct(t)
  <2> SUFFICES ASSUME NEW i \in 1 .. Len(t), NEW j \in 1 .. Len(t), t[i] = t[j]
               PROVE  i = j
    BY DEF Distinct
  <2>1. \A k \in 1 .. Len(s) : t[k] # e
    BY <1>1 DEF Elements
  <2>2. \A k \in 1 .. Len(t) : k \in 1 .. Len(s) \/ k = Len(s) + 1
    BY <1>1, <1>2
  <2> QED BY <1>1, <2>1, <2>2 DEF Distinct
<1>4. Elements(t) = Elements(s) \cup {e}
  <2>1. \A k \in 1 .. Len(t) : k \in 1 .. Len(s) \/ k = Len(s) + 1
    BY <1>1, <1>2
  <2>2. \A k \in 1 .. Len(s) : k \in 1 .. Len(t)
    BY <1>1, <1>2
  <2>3. Len(s) + 1 \in 1 .. Len(t)
    BY <1>1, <1>2
  <2>4. Elements(t) \subseteq Elements(s) \cup {e}
    BY <1>1, <2>1 DEF Elements
  <2>5. Elements(s) \subseteq Elements(t)
    BY <1>1, <2>2 DEF Elements
  <2>6. e \in Elements(t)
    BY <1>1, <2>3 DEF Elements
  <2> QED BY <2>4, <2>5, <2>6
<1>5. \A x, y : Ahead(s, x, y) => Ahead(t, x, y)
  BY <1>1, <1>2 DEF Ahead
<1>6. ASSUME NEW x \in Elements(s)
      PROVE  Ahead(t, x, e)
  <2>1. PICK i \in 1 .. Len(s) : x = s[i]
    BY DEF Elements
  <2>2. i \in 1 .. Len(t) /\ Len(s) + 1 \in 1 .. Len(t) /\ i < Len(s) + 1
    BY <1>1, <1>2
  <2> QED BY <1>1, <2>1, <2>2 DEF Ahead
<1> QED BY <1>1, <1>3, <1>4, <1>5, <1>6 DEF t
-----------------------------------------------------------------------------
(* The ranking of the pool.                                                *)

\* d was used after c, if c was used at all.
Behind(c, d) == d \in Elements(used) /\ (c \in Elements(unused) \/ Ahead(used, c, d))

\* Whatever was taken since c was is ranked behind c.
RankInv == /\ unused \in Seq(Cookies) /\ used \in Seq(Cookies)
           /\ Distinct(unused) /\ Distinct(used)
           /\ Elements(unused) \cap Elements(used) = {}
           /\ since \in [Cookies -> SUBSET Cookies]
           /\ \A c \in Cookies : \A d \in since[c] : Behind(c, d)

\* The two lists as one.
LEMMA RankWhole ==
  ASSUME RankInv
  PROVE  /\ Rank \in Seq(Cookies)
         /\ Distinct(Rank)
         /\ Entries = Elements(unused) \cup Elements(used)
         /\ \A c, d : Behind(c, d) => Ahead(Rank, c, d)
<1> DEFINE n == Len(unused)
           m == Len(used)
<1>1. /\ Rank \in Seq(Cookies) /\ Len(Rank) = n + m
      /\ \A i \in 1 .. n + m : Rank[i] = IF i <= n THEN unused[i] ELSE used[i - n]
  BY ConcatProperties DEF RankInv, Rank
<1>2. n \in Nat /\ m \in Nat
  BY DEF RankInv
<1> HIDE DEF n, m
<1>3. \A i \in 1 .. n : i \in 1 .. Len(Rank) /\ Rank[i] = unused[i]
  BY <1>1, <1>2
<1>4. \A i \in 1 .. m : n + i \in 1 .. Len(Rank) /\ Rank[n + i] = used[i]
  <2> SUFFICES ASSUME NEW i \in 1 .. m
               PROVE  n + i \in 1 .. Len(Rank) /\ Rank[n + i] = used[i]
    OBVIOUS
  <2>1. n + i \in 1 .. n + m /\ ~(n + i <= n) /\ (n + i) - n = i
    BY <1>2
  <2> QED BY <1>1, <2>1
<1>5. \A i \in 1 .. Len(Rank) : i \in 1 .. n \/ \E k \in 1 .. m : i = n + k
  <2> SUFFICES ASSUME NEW i \in 1 .. Len(Rank), i \notin 1 .. n
               PROVE  \E k \in 1 .. m : i = n + k
    OBVIOUS
  <2>1. i - n \in 1 .. m /\ i = n + (i - n)
    BY <1>1, <1>2
  <2> QED BY <2>1
<1>6. /\ \A i \in 1 .. n : unused[i] \in Elements(unused)
      /\ \A i \in 1 .. m : used[i] \in Elements(used)
  BY DEF Elements, n, m
<1>7. Distinct(Rank)
  <2> SUFFICES ASSUME NEW i \in 1 .. Len(Rank), NEW j \in 1 .. Len(Rank), Rank[i] = Rank[j]
               PROVE  i = j
    BY DEF Distinct
  <2>1. CASE i \in 1 .. n /\ j \in 1 .. n
    BY <1>3, <2>1 DEF RankInv, Distinct, n
  <2>2. CASE i \in 1 .. n /\ j \notin 1 .. n
    <3>1. PICK k \in 1 .. m : j = n + k
      BY <1>5, <2>2
    <3> QED BY <1>3, <1>4, <1>6, <2>2, <3>1 DEF RankInv
  <2>3. CASE i \notin 1 .. n /\ j \in 1 .. n
    <3>1. PICK k \in 1 .. m : i = n + k
      BY <1>5, <2>3
    <3> QED BY <1>3, <1>4, <1>6, <2>3, <3>1 DEF RankInv
  <2>4. CASE i \notin 1 .. n /\ j \notin 1 .. n
    <3>1. PICK k \in 1 .. m : i = n + k
      BY <1>5, <2>4
    <3>2. PICK l \in 1 .. m : j = n + l
      BY <1>5, <2>4
    <3>3. used[k] = used[l]
      BY <1>4, <3>1, <3>2
    <3> QED BY <3>1, <3>2, <3>3 DEF RankInv, Distinct, m
  <2> QED BY <2>1, <2>2, <2>3, <2>4
<1>8. Entries = Elements(unused) \cup Elements(used)
  <2>1. Entries \subseteq Elements(unused) \cup Elements(used)
    <3> SUFFICES ASSUME NEW i \in 1 .. Len(Rank)
                 PROVE  Rank[i] \in Elements(unused) \cup Elements(used)
      BY DEF Entries
    <3> QED BY <1>3, <1>4, <1>5, <1>6
  <2>2. Elements(unused) \subseteq Entries
    BY <1>3 DEF Elements, Entries, n
  <2>3. Elements(used) \subseteq Entries
    BY <1>4 DEF Elements, Entries, m
  <2> QED BY <2>1, <2>2, <2>3
<1>9. ASSUME NEW c, NEW d, Behind(c, d)
      PROVE  Ahead(Rank, c, d)
  <2>1. CASE c \in Elements(unused)
    <3>1. PICK i \in 1 .. n : unused[i] = c
      BY <2>1 DEF Elements, n
    <3>2. PICK j \in 1 .. m : used[j] = d
      BY <1>9 DEF Behind, Elements, m
    <3>3. i < n + j
      BY <1>2
    <3> QED BY <1>3, <1>4, <3>1, <3>2, <3>3 DEF Ahead
  <2>2. CASE Ahead(used, c, d)
    <3>1. PICK i \in 1 .. m, j \in 1 .. m : i < j /\ used[i] = c /\ used[j] = d
      BY <2>2 DEF Ahead, m
    <3>2. n + i < n + j
      BY <1>2, <3>1
    <3> QED BY <1>4, <3>1, <3>2 DEF Ahead
  <2> QED BY <1>9, <2>1, <2>2 DEF Behind
<1> QED BY <1>1, <1>7, <1>8, <1>9

\* An entry that is taken goes behind all others, which keep their places.
LEMMA TouchRank ==
  ASSUME RankInv, NEW c \in Entries, Touch(c)
  PROVE  RankInv'
<1> DEFINE u == RemoveFirst(unused, c)
           v == RemoveFirst(used, c)
<1>1. /\ u \in Seq(Cookies) /\ Distinct(u)
      /\ Elements(u) = Elements(unused) \ {c}
  BY RemoveFirstLeaves DEF RankInv
<1>2. /\ v \in Seq(Cookies) /\ Distinct(v)
      /\ Elements(v) = Elements(used) \ {c}
      /\ \A x, y : Ahead(used, x, y) /\ x # c /\ y # c => Ahead(v, x, y)
  BY RemoveFirstLeaves DEF RankInv
<1>3. unused' = u /\ used' = Append(v, c)
  BY DEF Touch
<1> HIDE DEF u, v
<1>4. c \in Cookies
  BY RankWhole DEF Entries
<1>5. /\ Append(v, c) \in Seq(Cookies) /\ Distinct(Append(v, c))
      /\ Elements(Append(v, c)) = Elements(v) \cup {c}
      /\ \A x, y : Ahead(v, x, y) => Ahead(Append(v, c), x, y)
      /\ \A x \in Elements(v) : Ahead(Append(v, c), x, c)
  <2>1. c \notin Elements(v)
    BY <1>2
  <2> QED BY <1>2, <1>4, <2>1, AppendLeaves
<1>6. Elements(unused)' \cap Elements(used)' = {}
  <2>1. Elements(unused)' = Elements(u) /\ Elements(used)' = Elements(Append(v, c))
    BY <1>3 DEF Elements
  <2> QED BY <1>1, <1>2, <1>5, <2>1 DEF RankInv
<1>7. since' = [d \in Cookies |-> IF d # c /\ d \in Entries /\ healthy'[d]
                                  THEN since[d] \cup {c} ELSE {}]
  BY DEF Touch
<1>8. since' \in [Cookies -> SUBSET Cookies]
  BY <1>4, <1>7 DEF RankInv
<1>9. ASSUME NEW d \in Cookies, NEW e \in since'[d]
      PROVE  Behind(d, e)'
  <2>1. d # c /\ d \in Entries /\ e \in since[d] \cup {c}
    BY <1>7
  <2>2. d \in Elements(u) \cup Elements(v)
    BY <1>1, <1>2, <2>1, RankWhole
  <2>3. CASE e = c
    BY <1>3, <1>5, <2>2, <2>3 DEF Behind, Elements
  <2>4. CASE e # c
    <3>1. Behind(d, e)
      BY <2>1, <2>4 DEF RankInv
    <3>2. e \in Elements(v) /\ (d \in Elements(u) \/ Ahead(v, d, e))
      BY <1>1, <1>2, <2>1, <2>4, <3>1 DEF Behind
    <3> QED BY <1>3, <1>5, <3>2 DEF Behind, Elements
  <2> QED BY <2>3, <2>4
<1> QED BY <1>1, <1>3, <1>5, <1>6, <1>8, <1>9 DEF RankInv

LEMMA AcquireRank ==
  ASSUME RankInv, NEW c, Acquire(c)
  PROVE  RankInv'
<1>1. c \in Entries
  BY DEF Acquire, Oldest, Healthy, Entries
<1> QED BY <1>1, TouchRank DEF Acquire

LEMMA MarkRank ==
  ASSUME RankInv, NEW c, MarkOk(c) \/ \E authFail \in BOOLEAN : MarkFailed(c, authFail)
  PROVE  RankInv'
<1>1. unused' = unused /\ used' = used
  BY DEF MarkOk, MarkFailed
<1>2. since' \in [Cookies -> SUBSET Cookies] /\ \A d \in Cookies : since'[d] \subseteq since[d]
  <2>1. CASE since' = since
    BY <2>1 DEF RankInv
  <2>2. CASE since' = [since EXCEPT ![c] = {}]
    BY <2>2 DEF RankInv
  <2> QED BY <2>1, <2>2 DEF MarkOk, MarkFailed, RankInv
<1> QED BY <1>1, <1>2 DEF RankInv, Behind

LEMMA RenewRank ==
  ASSUME RankInv, Renew
  PROVE  RankInv'
<1>1. CASE UNCHANGED <<unused, used, since>>
  BY <1>1 DEF RankInv, Behind
<1>2. CASE Default \notin Entries /\ unused' = Append(unused, Default) /\ UNCHANGED <<used, since>>
  <2>1. Default \notin Elements(unused) /\ Default \notin Elements(used)
    BY <1>2, RankWhole
  <2>2. /\ Append(unused, Default) \in Seq(Cookies) /\ Distinct(Append(unused, Default))
        /\ Elements(Append(unused, Default)) = Elements(unused) \cup {Default}
    BY <2>1, AppendLeaves DEF RankInv
  <2>3. Elements(unused)' = Elements(unused) \cup {Default}
    BY <1>2, <2>2 DEF Elements
  <2>4. Elements(used)' = Elements(used) /\ \A c, d : Ahead(used, c, d)' <=> Ahead(used, c, d)
    BY <1>2
  <2>5. \A c, d : Behind(c, d) => Behind(c, d)'
    BY <2>3, <2>4, <1>2 DEF Behind
  <2> QED BY <1>2, <2>1, <2>2, <2>3, <2>4, <2>5 DEF RankInv
<1> QED BY <1>1, <1>2 DEF Renew

-----------------------------------------------------------------------------
(* The text.                                                               *)

\* The first n characters.
Upto(n) == [i \in 1 .. n |-> i]

LEMMA UptoSeq ==
  ASSUME NEW n \in Nat
  PROVE  Upto(n) \in Seq(Nat) /\ Len(Upto(n)) = n
BY DEF Upto

\* The characters after the n-th, up to the m-th.
Rest(n, m) == [i \in 1 .. m - n |-> n + i]

\* The characters after the n-th extend the first n to the first m.
LEMMA UptoExtended ==
  ASSUME NEW n \in Nat, NEW m \in Nat, n < m
  PROVE  Upto(n) \o Rest(n, m) = Upto(m)
<1>1. /\ Rest(n, m) \in Seq(Nat) /\ Len(Rest(n, m)) = m - n
      /\ \A i \in 1 .. m - n : Rest(n, m)[i] = n + i
  BY DEF Rest
<1>2. /\ Upto(n) \in Seq(Nat) /\ Len(Upto(n)) = n
      /\ Upto(m) \in Seq(Nat) /\ Len(Upto(m)) = m
  BY UptoSeq
<1>3. /\ Upto(n) \o Rest(n, m) \in Seq(Nat)
      /\ Len(Upto(n) \o Rest(n, m)) = Len(Upto(n)) + Len(Rest(n, m))
      /\ \A i \in 1 .. Len(Upto(n)) + Len(Rest(n, m)) :
           (Upto(n) \o Rest(n, m))[i] = IF i <= Len(Upto(n)) THEN Upto(n)[i]
                                                             ELSE Rest(n, m)[i - Len(Upto(n))]
  BY <1>1, <1>2, ConcatProperties
<1>4. Len(Upto(n)) + Len(Rest(n, m)) = m
  BY <1>1, <1>2
<1>5. ASSUME NEW i \in 1 .. m
      PROVE  (Upto(n) \o Rest(n, m))[i] = Upto(m)[i]
  <2>1. Upto(m)[i] = i
    BY DEF Upto
  <2>2. CASE i <= n
    <3>1. Upto(n)[i] = i
      BY <2>2 DEF Upto
    <3>2. QED
      BY <1>2, <1>3, <1>4, <2>1, <2>2, <3>1
  <2>3. CASE ~(i <= n)
    <3>1. Rest(n, m)[i - n] = i
      <4>1. i - n \in 1 .. m - n /\ n + (i - n) = i
        BY <2>3
      <4>2. QED
        BY <1>1, <4>1
    <3>2. QED
      BY <1>2, <1>3, <1>4, <2>1, <2>3, <3>1
  <2>4. QED
    BY <2>2, <2>3
<1>6. QED
  BY <1>2, <1>3, <1>4, <1>5, SeqEqual

\* An update of a function of functions changes one value.
LEMMA NestedUpdate ==
  ASSUME NEW A, NEW B, NEW S, NEW f \in [A -> [B -> S]], NEW a \in A, NEW b \in B, NEW v \in S
  PROVE  /\ [f EXCEPT ![a][b] = v] \in [A -> [B -> S]]
         /\ [f EXCEPT ![a][b] = v][a][b] = v
         /\ \A x \in A, y \in B : x # a \/ y # b => [f EXCEPT ![a][b] = v][x][y] = f[x][y]
OBVIOUS

Lengths == [Requests -> [Keys -> 0 .. TextLength]]

\* A consumer has been given what emitted says, and emitted is what the longest
\* attempt so far has got; a served one has been given everything.
TextInv == /\ pc \in [Requests -> Places]
           /\ acc \in Lengths /\ emitted \in Lengths
           /\ out \in [Requests -> [Keys -> Seq(Nat)]]
           /\ \A r \in Requests, k \in Keys :
                /\ acc[r][k] <= emitted[r][k]
                /\ pc[r] # "served" => out[r][k] = Upto(emitted[r][k])
                /\ pc[r] = "served" => out[r][k] = Upto(TextLength)

\* The generator of r ends; what it may leave behind depends on how.
LEMMA EndText ==
  ASSUME TextInv, NEW r \in Requests, NEW place \in Places, End(r, place),
         place = "served" => Complete(r) /\ pc[r] # "served"
  PROVE  TextInv'
<1>1. /\ pc' = [pc EXCEPT ![r] = place]
      /\ acc' = [acc EXCEPT ![r] = Nothing]
      /\ emitted' = [emitted EXCEPT ![r] = Nothing]
  BY DEF End, Goto
<1>2. Nothing \in [Keys -> 0 .. TextLength]
  BY DEF Nothing
<1>3. pc' \in [Requests -> Places] /\ acc' \in Lengths /\ emitted' \in Lengths
  BY <1>1, <1>2 DEF TextInv, Lengths
<1>4. Upto(0) = <<>>
  BY DEF Upto
<1>5. CASE place = "served"
  <2>1. out' = out
    BY <1>5 DEF End
  <2>2. ASSUME NEW k \in Keys
        PROVE  out[r][k] = Upto(TextLength)
    <3>1. acc[r][k] = TextLength /\ acc[r][k] <= emitted[r][k] /\ emitted[r][k] \in 0 .. TextLength
      BY <1>5 DEF Complete, TextInv, Lengths
    <3>2. emitted[r][k] = TextLength
      BY <3>1
    <3>3. QED
      BY <1>5, <3>2 DEF TextInv
  <2>3. ASSUME NEW q \in Requests, NEW k \in Keys
        PROVE  /\ acc'[q][k] <= emitted'[q][k]
               /\ pc'[q] # "served" => out'[q][k] = Upto(emitted'[q][k])
               /\ pc'[q] = "served" => out'[q][k] = Upto(TextLength)
    <3>1. CASE q = r
      BY <1>1, <1>5, <2>1, <2>2, <3>1 DEF TextInv, Lengths, Nothing
    <3>2. CASE q # r
      BY <1>1, <2>1, <3>2 DEF TextInv, Lengths
    <3>3. QED
      BY <3>1, <3>2
  <2>4. QED
    BY <1>3, <2>1, <2>3 DEF TextInv
<1>6. CASE place # "served"
  <2>1. out' = [out EXCEPT ![r] = [k \in Keys |-> <<>>]]
    BY <1>6 DEF End
  <2>2. out' \in [Requests -> [Keys -> Seq(Nat)]]
    BY <2>1 DEF TextInv
  <2>3. ASSUME NEW q \in Requests, NEW k \in Keys
        PROVE  /\ acc'[q][k] <= emitted'[q][k]
               /\ pc'[q] # "served" => out'[q][k] = Upto(emitted'[q][k])
               /\ pc'[q] = "served" => out'[q][k] = Upto(TextLength)
    <3>1. CASE q = r
      BY <1>1, <1>4, <1>6, <2>1, <3>1 DEF TextInv, Lengths, Nothing
    <3>2. CASE q # r
      BY <1>1, <2>1, <3>2 DEF TextInv, Lengths
    <3>3. QED
      BY <3>1, <3>2
  <2>4. QED
    BY <1>3, <2>2, <2>3 DEF TextInv
<1>7. QED
  BY <1>5, <1>6

\* A chunk extends the text exactly by what goes beyond it.
LEMMA ChunkText ==
  ASSUME TextInv, NEW r \in Requests, NEW k \in Keys, NEW n \in 1 .. TextLength, Chunk(r, k, n)
  PROVE  TextInv'
<1> DEFINE cur == acc[r][k] + n
           already == emitted[r][k]
<1>1. /\ pc[r] = "streaming" /\ pc' = pc
      /\ cur <= TextLength
      /\ acc' = [acc EXCEPT ![r][k] = cur]
      /\ PassOn(r, k, n)
  BY DEF Chunk
<1>2. cur \in 0 .. TextLength /\ already \in 0 .. TextLength
  <2>1. acc[r][k] \in 0 .. TextLength /\ emitted[r][k] \in 0 .. TextLength
    BY DEF TextInv, Lengths
  <2>2. QED
    BY <1>1, <2>1
<1> HIDE DEF cur, already
<1>3. /\ acc' \in Lengths
      /\ acc'[r][k] = cur
      /\ \A q \in Requests, l \in Keys : q # r \/ l # k => acc'[q][l] = acc[q][l]
  BY <1>1, <1>2, NestedUpdate DEF TextInv, Lengths
<1>4. out[r][k] = Upto(already)
  BY <1>1 DEF TextInv, already
<1>5. CASE cur > already
  <2>1. /\ out' = [out EXCEPT ![r][k] = @ \o Rest(already, cur)]
        /\ emitted' = [emitted EXCEPT ![r][k] = cur]
    <3>1. ~(cur <= already)
      BY <1>2, <1>5
    <3>2. QED
      BY <1>1, <3>1, Zenon DEF PassOn, Rest, cur, already
  <2>2. out[r][k] \o Rest(already, cur) = Upto(cur)
    BY <1>2, <1>4, <1>5, UptoExtended
  <2>3. out' = [out EXCEPT ![r][k] = Upto(cur)]
    BY <2>1, <2>2
  <2>4. Upto(cur) \in Seq(Nat)
    BY <1>2, UptoSeq
  <2>5. /\ out' \in [Requests -> [Keys -> Seq(Nat)]]
        /\ out'[r][k] = Upto(cur)
        /\ \A q \in Requests, l \in Keys : q # r \/ l # k => out'[q][l] = out[q][l]
    BY <2>3, <2>4, NestedUpdate DEF TextInv
  <2>6. /\ emitted' \in Lengths
        /\ emitted'[r][k] = cur
        /\ \A q \in Requests, l \in Keys : q # r \/ l # k => emitted'[q][l] = emitted[q][l]
    BY <1>2, <2>1, NestedUpdate DEF TextInv, Lengths
  <2>7. ASSUME NEW q \in Requests, NEW l \in Keys
        PROVE  /\ acc'[q][l] <= emitted'[q][l]
               /\ pc'[q] # "served" => out'[q][l] = Upto(emitted'[q][l])
               /\ pc'[q] = "served" => out'[q][l] = Upto(TextLength)
    <3>1. CASE q = r /\ l = k
      BY <1>1, <1>2, <1>3, <2>5, <2>6, <3>1
    <3>2. CASE q # r \/ l # k
      BY <1>1, <1>3, <2>5, <2>6, <3>2 DEF TextInv
    <3>3. QED
      BY <3>1, <3>2
  <2>8. QED
    BY <1>1, <1>3, <2>5, <2>6, <2>7 DEF TextInv
<1>6. CASE ~(cur > already)
  <2>1. out' = out /\ emitted' = emitted
    BY <1>1, <1>6, Zenon DEF PassOn, cur, already
  <2>2. ASSUME NEW q \in Requests, NEW l \in Keys
        PROVE  acc'[q][l] <= emitted[q][l]
    <3>1. CASE q = r /\ l = k
      BY <1>2, <1>3, <1>6, <3>1 DEF already
    <3>2. CASE q # r \/ l # k
      BY <1>3, <3>2 DEF TextInv
    <3>3. QED
      BY <3>1, <3>2
  <2>3. QED
    BY <1>1, <1>3, <2>1, <2>2 DEF TextInv
<1>7. QED
  BY <1>5, <1>6

LEMMA TextStep == TextInv /\ [Next]_vars => TextInv'
<1> SUFFICES ASSUME TextInv, [Next]_vars
             PROVE  TextInv'
  OBVIOUS
<1>1. CASE UNCHANGED requestVars
  BY <1>1 DEF requestVars, TextInv
<1>2. ASSUME NEW r \in Requests, NEW place \in Places \ {"served"}, pc[r] # "served", Goto(r, place),
             acc' = acc \/ acc' = [acc EXCEPT ![r] = Nothing], UNCHANGED <<emitted, out>>
      PROVE  TextInv'
  <2>1. Nothing \in [Keys -> 0 .. TextLength] /\ \A k \in Keys : Nothing[k] = 0
    BY DEF Nothing
  <2>2. acc' \in Lengths
    BY <1>2, <2>1 DEF TextInv, Lengths
  <2>3. pc' \in [Requests -> Places] /\ \A q \in Requests : pc'[q] = "served" <=> pc[q] = "served"
    BY <1>2 DEF TextInv, Goto
  <2>4. ASSUME NEW q \in Requests, NEW k \in Keys
        PROVE  acc'[q][k] <= emitted'[q][k]
    <3>1. acc[q][k] <= emitted[q][k] /\ emitted'[q][k] = emitted[q][k] /\ emitted[q][k] \in 0 .. TextLength
      BY <1>2 DEF TextInv, Lengths
    <3>2. acc'[q][k] = acc[q][k] \/ acc'[q][k] = 0
      BY <1>2, <2>1 DEF TextInv, Lengths
    <3>3. QED
      BY <3>1, <3>2
  <2>5. QED
    BY <1>2, <2>2, <2>3, <2>4 DEF TextInv
<1>3. ASSUME NEW r \in Requests, Begin(r) \/ Post(r)
      PROVE  TextInv'
  BY <1>2, <1>3 DEF Begin, Post, Places
<1>4. ASSUME NEW r \in Requests, BeginWithoutCookies(r) \/ Disconnect(r) \/ Fatal(r) \/ Banned(r)
      PROVE  TextInv'
  BY <1>4, EndText DEF BeginWithoutCookies, Disconnect, Fatal, Banned, Places
<1>5. ASSUME NEW r \in Requests, Finish(r) \/ StopAtDone(r)
      PROVE  TextInv'
  BY <1>5, EndText DEF Finish, StopAtDone, Places
<1>6. ASSUME NEW r \in Requests, NEW refresh, pc[r] = "streaming", RetryOrRaise(r, refresh)
      PROVE  TextInv'
  <2>1. CASE BackOff(r, refresh)
    BY <1>2, <1>6, <2>1 DEF BackOff, Places
  <2>2. CASE End(r, "failed")
    <3>1. "failed" \in Places /\ "failed" # "served"
      BY DEF Places
    <3>2. QED
      BY <2>2, <3>1, EndText
  <2>3. QED
    BY <1>6, <2>1, <2>2 DEF RetryOrRaise
<1>7. ASSUME NEW r \in Requests, Interrupted(r) \/ TokenRejected(r) \/ CookieRejected(r)
      PROVE  TextInv'
  BY <1>6, <1>7 DEF Interrupted, TokenRejected, CookieRejected
<1>8. CASE Others
  BY <1>1, <1>8 DEF Others
<1>9. CASE UNCHANGED vars
  BY <1>1, <1>9 DEF vars
<1>10. QED
  BY <1>3, <1>4, <1>5, <1>7, <1>8, <1>9, ChunkText DEF Next, Proceed

LEMMA TextInit == Init => TextInv
<1> SUFFICES ASSUME Init
             PROVE  TextInv
  OBVIOUS
<1>1. Upto(0) = <<>>
  BY DEF Upto
<1>2. Nothing \in [Keys -> 0 .. TextLength] /\ \A k \in Keys : Nothing[k] = 0
  BY DEF Nothing
<1>3. acc \in Lengths /\ emitted \in Lengths /\ pc \in [Requests -> Places]
  BY <1>2 DEF Init, Lengths, Places
<1>4. out \in [Requests -> [Keys -> Seq(Nat)]]
  BY DEF Init
<1>5. \A r \in Requests, k \in Keys : /\ acc[r][k] = 0 /\ emitted[r][k] = 0
                                      /\ out[r][k] = <<>> /\ pc[r] = "new"
  BY <1>2 DEF Init
<1>6. QED
  BY <1>1, <1>3, <1>4, <1>5 DEF TextInv

\* Every consumer is given its text without gap or repetition, however often
\* the attempt is broken off and however the chunks are cut; a served one is
\* given all of it.
THEOREM TextArrivesIntact == Spec => []TextIntact
<1>1. ASSUME TextInv, NEW r \in Requests, NEW k \in Keys
      PROVE  /\ out[r][k] = [i \in 1 .. Len(out[r][k]) |-> i]
             /\ pc[r] = "served" => Len(out[r][k]) = TextLength
  <2>1. ASSUME NEW n \in Nat, out[r][k] = Upto(n)
        PROVE  Len(out[r][k]) = n /\ out[r][k] = [i \in 1 .. Len(out[r][k]) |-> i]
    <3>1. Len(out[r][k]) = n
      BY <2>1, UptoSeq
    <3>2. QED
      BY <2>1, <3>1 DEF Upto
  <2>2. emitted[r][k] \in Nat
    BY <1>1 DEF TextInv, Lengths
  <2>3. CASE pc[r] = "served"
    BY <1>1, <2>1, <2>3 DEF TextInv
  <2>4. CASE pc[r] # "served"
    BY <1>1, <2>1, <2>2, <2>4 DEF TextInv
  <2>5. QED
    BY <2>3, <2>4
<1>2. TextInv => TextIntact
  BY <1>1 DEF TextIntact
<1>3. QED
  BY <1>2, TextInit, TextStep, PTL DEF Spec

-----------------------------------------------------------------------------
(* The requests.                                                           *)

\* The types of what a generator holds; only attempts that are left are begun.
RequestInv == /\ pc \in [Requests -> Places]
              /\ attempt \in [Requests -> 0 .. RetryAttempts]
              /\ cookie \in [Requests -> Cookies \cup {None}]
              /\ payload \in [Requests -> Tokens]
              /\ invalidated \in [Requests -> BOOLEAN]
              /\ \A r \in Requests : pc[r] \in {"new", "backoff"} => attempt[r] < RetryAttempts

\* Whoever comes to "solving" has taken the cookie it holds.
TakesACookie == \A r \in Requests : pc[r] # "solving" /\ pc'[r] = "solving" =>
                                      \E c \in Cookies : Acquire(c) /\ cookie'[r] = c

LEMMA EndRequest ==
  ASSUME RequestInv, NEW r \in Requests, NEW place \in {"served", "failed", "left"}, End(r, place)
  PROVE  RequestInv' /\ TakesACookie
<1>1. /\ pc' = [pc EXCEPT ![r] = place]
      /\ attempt' = [attempt EXCEPT ![r] = 0]
      /\ cookie' = [cookie EXCEPT ![r] = None]
      /\ payload' = [payload EXCEPT ![r] = "none"]
      /\ invalidated' = [invalidated EXCEPT ![r] = FALSE]
  BY DEF End, Goto
<1>2. /\ attempt' \in [Requests -> 0 .. RetryAttempts]
      /\ cookie' \in [Requests -> Cookies \cup {None}]
      /\ payload' \in [Requests -> Tokens]
      /\ pc' \in [Requests -> Places]
  BY <1>1 DEF RequestInv, Tokens, Places
<1>3. invalidated' \in [Requests -> BOOLEAN]
  BY <1>1 DEF RequestInv
<1>4. /\ \A q \in Requests : pc'[q] \in {"new", "backoff"} => attempt'[q] < RetryAttempts
      /\ TakesACookie
  BY <1>1 DEF RequestInv, TakesACookie
<1> QED BY <1>2, <1>3, <1>4 DEF RequestInv

LEMMA BackOffRequest ==
  ASSUME RequestInv, NEW r \in Requests, NEW refresh \in BOOLEAN, RetryOrRaise(r, refresh)
  PROVE  RequestInv' /\ TakesACookie
<1>1. CASE End(r, "failed")
  BY <1>1, EndRequest
<1>2. CASE attempt[r] < RetryAttempts /\ BackOff(r, refresh) /\ UNCHANGED attempt
  <2>1. /\ pc' = [pc EXCEPT ![r] = "backoff"]
        /\ invalidated' = [invalidated EXCEPT ![r] = refresh]
        /\ UNCHANGED <<attempt, cookie, payload>>
    BY <1>2 DEF BackOff, Goto
  <2>2. invalidated' \in [Requests -> BOOLEAN]
    BY <2>1 DEF RequestInv
  <2>3. pc' \in [Requests -> Places] /\ TakesACookie
    BY <2>1 DEF RequestInv, Places, TakesACookie
  <2>4. \A q \in Requests : pc'[q] \in {"new", "backoff"} => attempt'[q] < RetryAttempts
    BY <1>2, <2>1 DEF RequestInv
  <2> QED BY <2>1, <2>2, <2>3, <2>4 DEF RequestInv
<1> QED BY <1>1, <1>2 DEF RetryOrRaise

LEMMA BeginRequest ==
  ASSUME RequestInv, NEW r \in Requests, Begin(r)
  PROVE  RequestInv' /\ TakesACookie
<1>1. PICK c \in Cookies : Acquire(c) /\ cookie' = [cookie EXCEPT ![r] = c]
  BY DEF Begin
<1>2. /\ pc[r] \in {"new", "backoff"}
      /\ pc' = [pc EXCEPT ![r] = "solving"]
      /\ attempt' = [attempt EXCEPT ![r] = @ + 1]
      /\ payload' = payload /\ invalidated' = invalidated
  BY DEF Begin, Goto
<1>3. attempt[r] + 1 \in 0 .. RetryAttempts
  BY <1>2 DEF RequestInv
<1>4. attempt' \in [Requests -> 0 .. RetryAttempts]
  BY <1>2, <1>3 DEF RequestInv
<1>5. /\ cookie' \in [Requests -> Cookies \cup {None}]
      /\ pc' \in [Requests -> Places]
  BY <1>1, <1>2 DEF RequestInv, Places
<1>6. \A q \in Requests : pc'[q] \in {"new", "backoff"} => attempt'[q] < RetryAttempts
  BY <1>2 DEF RequestInv
<1>7. TakesACookie
  <2> SUFFICES ASSUME NEW q \in Requests, pc[q] # "solving", pc'[q] = "solving"
               PROVE  \E d \in Cookies : Acquire(d) /\ cookie'[q] = d
    BY DEF TakesACookie
  <2>1. q = r
    BY <1>2 DEF RequestInv
  <2>2. cookie'[r] = c
    BY <1>1 DEF RequestInv
  <2> QED BY <1>1, <2>1, <2>2
<1> QED BY <1>2, <1>4, <1>5, <1>6, <1>7 DEF RequestInv

LEMMA RequestSame ==
  ASSUME RequestInv, UNCHANGED <<pc, attempt, cookie, payload, invalidated>>
  PROVE  RequestInv' /\ TakesACookie
BY DEF RequestInv, TakesACookie

LEMMA RequestStep == RequestInv /\ [Next]_vars => RequestInv' /\ TakesACookie
<1> SUFFICES ASSUME RequestInv, [Next]_vars
             PROVE  RequestInv' /\ TakesACookie
  OBVIOUS
<1>1. ASSUME NEW r \in Requests, Post(r)
      PROVE  RequestInv' /\ TakesACookie
  <2>1. /\ pc' = [pc EXCEPT ![r] = "streaming"]
        /\ UNCHANGED <<attempt, cookie, invalidated>>
    BY <1>1 DEF Post, Goto
  <2>2. payload' \in [Requests -> Tokens]
    BY <1>1 DEF Post, RequestInv, Tokens
  <2>3. pc' \in [Requests -> Places] /\ TakesACookie
    BY <2>1 DEF RequestInv, Places, TakesACookie
  <2>4. \A q \in Requests : pc'[q] \in {"new", "backoff"} => attempt'[q] < RetryAttempts
    BY <2>1 DEF RequestInv
  <2> QED BY <2>1, <2>2, <2>3, <2>4 DEF RequestInv
<1>2. ASSUME NEW r \in Requests,
             \/ BeginWithoutCookies(r) \/ Disconnect(r) \/ Finish(r) \/ StopAtDone(r)
             \/ Banned(r) \/ Fatal(r)
      PROVE  RequestInv' /\ TakesACookie
  BY <1>2, EndRequest DEF BeginWithoutCookies, Disconnect, Finish, StopAtDone, Banned, Fatal
<1>3. ASSUME NEW r \in Requests, Interrupted(r) \/ TokenRejected(r) \/ CookieRejected(r)
      PROVE  RequestInv' /\ TakesACookie
  <2>1. invalidated[r] \in BOOLEAN
    BY DEF RequestInv
  <2> QED BY <1>3, <2>1, BackOffRequest DEF Interrupted, TokenRejected, CookieRejected
<1>4. ASSUME NEW r \in Requests, \E k \in Keys, n \in 1 .. TextLength : Chunk(r, k, n)
      PROVE  RequestInv' /\ TakesACookie
  BY <1>4, RequestSame DEF Chunk
<1>5. CASE Others
  BY <1>5, RequestSame DEF Others, requestVars
<1>6. CASE UNCHANGED vars
  BY <1>6, RequestSame DEF vars, requestVars
<1> QED BY <1>1, <1>2, <1>3, <1>4, <1>5, <1>6, BeginRequest DEF Next, Proceed

LEMMA RankStep == RankInv /\ [Next]_vars => RankInv'
<1> SUFFICES ASSUME RankInv, [Next]_vars
             PROVE  RankInv'
  OBVIOUS
<1>1. CASE UNCHANGED poolVars
  BY <1>1 DEF poolVars, RankInv, Behind
<1>2. ASSUME NEW r \in Requests, Begin(r)
      PROVE  RankInv'
  BY <1>2, AcquireRank DEF Begin
<1>3. ASSUME NEW r \in Requests, Finish(r) \/ CookieRejected(r) \/ Banned(r)
      PROVE  RankInv'
  BY <1>3, MarkRank DEF Finish, CookieRejected, Banned
<1>4. ASSUME NEW r \in Requests,
             \/ Post(r) \/ \E k \in Keys, n \in 1 .. TextLength : Chunk(r, k, n)
             \/ StopAtDone(r) \/ Interrupted(r) \/ TokenRejected(r) \/ Fatal(r)
             \/ BeginWithoutCookies(r) \/ Disconnect(r)
      PROVE  UNCHANGED poolVars
  BY <1>4 DEF Post, Chunk, StopAtDone, Interrupted, TokenRejected, Fatal, BeginWithoutCookies,
              Disconnect
<1>5. CASE Others
  BY <1>5, MarkRank, RenewRank, AcquireRank DEF Others, Validate, Vote
<1> QED BY <1>1, <1>2, <1>3, <1>4, <1>5 DEF Next, Proceed, vars

LEMMA RetryInit == Init => RankInv /\ HealthInv /\ TextInv /\ RequestInv
<1> SUFFICES ASSUME Init
             PROVE  RankInv /\ HealthInv /\ TextInv /\ RequestInv
  OBVIOUS
<1>1. HealthInv
  BY DEF Init, PoolInit, HealthInv, HealthMatchesFails
<1>2. RankInv
  <2>1. /\ unused \in Seq(Cookies) /\ IsInjective(unused)
        /\ used = <<>> /\ since = [c \in Cookies |-> {}]
    BY DEF Init, PoolInit
  <2>2. Distinct(unused)
    BY <2>1 DEF IsInjective, Distinct
  <2>3. Elements(used) = {} /\ Distinct(used) /\ used \in Seq(Cookies)
    BY <2>1 DEF Elements, Distinct
  <2> QED BY <2>1, <2>2, <2>3 DEF RankInv
<1>3. RequestInv
  BY DEF Init, RequestInv, Places, Tokens
<1> QED BY <1>1, <1>2, <1>3, TextInit

\* Every variable has its type: the ranking has no entry twice, no request has
\* more attempts than it may, and a consumer is given nothing but its text.
THEOREM RetryTypeCorrect == Spec => []TypeOK
<1>1. ASSUME RankInv, HealthInv, TextInv, RequestInv
      PROVE  TypeOK
  <2>1. PoolTypeOK
    BY <1>1, RankWhole DEF RankInv, HealthInv, PoolTypeOK, Distinct
  <2>2. acc \in [Requests -> [Keys -> 0 .. TextLength]] /\ emitted \in [Requests -> [Keys -> 0 .. TextLength]]
    BY <1>1 DEF TextInv, Lengths
  <2>3. ASSUME NEW r \in Requests, NEW k \in Keys
        PROVE  out[r][k] \in Seq(1 .. TextLength)
    <3>1. \A n \in 0 .. TextLength : Upto(n) \in Seq(1 .. TextLength)
      BY DEF Upto
    <3>2. emitted[r][k] \in 0 .. TextLength /\ TextLength \in 0 .. TextLength
      BY <2>2
    <3>3. out[r][k] \in {Upto(emitted[r][k]), Upto(TextLength)}
      BY <1>1 DEF TextInv
    <3> QED BY <3>1, <3>2, <3>3
  <2> QED BY <1>1, <2>1, <2>2, <2>3 DEF TypeOK, RequestInv
<1>2. RankInv /\ HealthInv /\ TextInv /\ RequestInv => TypeOK
  BY <1>1
<1> QED BY <1>2, RetryInit, RankStep, HealthStep, TextStep, RequestStep, PTL DEF Spec

\* The entry that is taken stands before all healthy ones, and whatever was
\* taken since a healthy one was stands behind that.
LEMMA OldestNotPassedOver ==
  ASSUME RankInv, NEW h \in Healthy, NEW c, Acquire(c)
  PROVE  c \notin since[h]
<1>1. PICK i \in 1 .. Len(Rank) : Rank[i] = c /\ \A j \in 1 .. i - 1 : Rank[j] \notin Healthy
  BY DEF Acquire, Oldest
<1>2. SUFFICES ASSUME c \in since[h]
               PROVE  FALSE
  OBVIOUS
<1>3. h \in Cookies
  BY RankWhole DEF Healthy, Entries
<1>4. Ahead(Rank, h, c)
  BY <1>2, <1>3, RankWhole DEF RankInv
<1>5. PICK k \in 1 .. Len(Rank), l \in 1 .. Len(Rank) : k < l /\ Rank[k] = h /\ Rank[l] = c
  BY <1>4 DEF Ahead
<1>6. l = i
  BY <1>1, <1>5, RankWhole DEF Distinct
<1>7. k \in 1 .. i - 1
  BY <1>5, <1>6
<1> QED BY <1>1, <1>5, <1>7

\* The load is spread, for any pool and any number of requests: an attempt never
\* takes an entry that was taken after one that has been healthy ever since.
THEOREM NobodyPassedOver == Spec => NotPassedOver
<1> DEFINE Fair == \A r \in Requests : pc[r] # "solving" /\ pc'[r] = "solving" =>
                     \A c \in Healthy : c = cookie'[r] \/ cookie'[r] \notin since[c]
<1>1. RankInv /\ RequestInv /\ [Next]_vars => [Fair]_vars
  <2> SUFFICES ASSUME RankInv, RequestInv, [Next]_vars,
                      NEW r \in Requests, pc[r] # "solving", pc'[r] = "solving",
                      NEW c \in Healthy
               PROVE  cookie'[r] \notin since[c]
    OBVIOUS
  <2>1. PICK d \in Cookies : Acquire(d) /\ cookie'[r] = d
    BY RequestStep DEF TakesACookie
  <2> QED BY <2>1, OldestNotPassedOver
<1> HIDE DEF Fair
<1>2. Spec => [][Fair]_vars
  BY <1>1, RetryInit, RankStep, RequestStep, PTL DEF Spec
<1> QED BY <1>2 DEF Fair, NotPassedOver
=============================================================================
