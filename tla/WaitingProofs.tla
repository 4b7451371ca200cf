--------------------------- MODULE WaitingProofs ---------------------------
(***************************************************************************)
(* What is guaranteed where requests wait: at the gate, for every number   *)
(* of requests, places and seats, and, in the second half, behind a        *)
(* request with the same key.                                              *)
(*                                                                         *)
(* The gate's invariant is the conjunction of what TLC checks: the type    *)
(* invariant with the contents of the line, the exact counters, and        *)
(* NoLostWakeup. Everything that moves permits goes through WakeAndMove,   *)
(* so WakeEffect, which says what that does to the line and to the         *)
(* requests, carries most of the proof.                                    *)
(***************************************************************************)
EXTENDS ConcurrencyGate, SingleFlight, FiniteSetTheorems, SequenceTheorems, TLAPS

USE GateAssumption DEF GateAssumption

\* The first k requests of the line.
First(k) == {line[i] : i \in 1 .. k}

\* How many requests WakeAndMove wakes.
Woken(permits, most) == Smaller(most, Smaller(permits, Len(line)))

\* What handing k of the free permits to the head of the line does, request by
\* request.
Handed(k, permits, r, place) ==
  /\ free' = permits - k /\ free' \in Nat
  /\ at' = [q \in Requests |-> IF q = r THEN place
                               ELSE IF q \in First(k) THEN "granted"
                               ELSE at[q]]
  /\ First(k) \subseteq Those({"queued"})
  /\ at' \in [Requests -> Places]
  /\ LineOK'
  /\ Len(line') = Len(line) - k
  /\ \A i \in 1 .. Len(line') : line'[i] = line[i + k]

\* The same, set by set.
Moved(k, permits, r, place) ==
  /\ free' = permits - k /\ free' \in Nat
  /\ at' \in [Requests -> Places] /\ LineOK'
  /\ Len(line') = Len(line) - k
  /\ IsFiniteSet(First(k)) /\ Cardinality(First(k)) = k
  /\ First(k) \cap (Those({"granted", "revoked", "active"}) \cup {r}) = {}
  /\ Those({"active"})' = IF place = "active" THEN Those({"active"}) \cup {r}
                          ELSE Those({"active"}) \ {r}
  /\ Those({"queued", "granted", "revoked", "gone"})'
       = Those({"queued", "granted", "revoked", "gone"}) \ {r}
  /\ Those({"granted", "revoked", "active"})'
       = (IF place = "active" THEN Those({"granted", "revoked", "active"}) \cup {r}
          ELSE Those({"granted", "revoked", "active"}) \ {r}) \cup First(k)
  /\ First(k) \subseteq Those({"granted", "revoked"})'

GateInv == TypeOK /\ Accounting /\ NoLostWakeup

\* Sets of requests are finite, and counting them yields naturals.
LEMMA ThoseFinite ==
  ASSUME NEW P
  PROVE  IsFiniteSet(Those(P)) /\ Cardinality(Those(P)) \in Nat
<1>1. Those(P) \in SUBSET Requests
  BY DEF Those
<1>2. QED
  BY <1>1, FS_Subset, FS_CardinalityType

\* The first k of a line without repetitions are k requests.
LEMMA FirstCounted ==
  ASSUME LineOK, NEW k \in 0 .. Len(line)
  PROVE  IsFiniteSet(First(k)) /\ Cardinality(First(k)) = k
<1> DEFINE f == [i \in 1 .. k |-> line[i]]
<1>1. Len(line) \in Nat
  BY LenProperties DEF LineOK
<1>2. f \in [1 .. k -> First(k)]
  BY DEF First
<1>3. f \in Injection(1 .. k, First(k))
  BY <1>1, <1>2 DEF Injection, IsInjective, LineOK
<1>4. f \in Surjection(1 .. k, First(k))
  BY <1>2 DEF Surjection, First
<1>5. ExistsBijection(1 .. k, First(k))
  BY <1>3, <1>4 DEF ExistsBijection, Bijection
<1>6. IsFiniteSet(1 .. k) /\ Cardinality(1 .. k) = k
  BY <1>1, FS_Interval
<1>7. QED
  BY <1>5, <1>6, FS_Bijection

\* What handing permits to the head of the line does.
LEMMA WakeEffect ==
  ASSUME at \in [Requests -> Places], LineOK,
         NEW permits \in Nat, NEW most \in Nat,
         NEW r \in Requests, at[r] # "queued",
         NEW place \in Places \ {"queued", "granted"},
         WakeAndMove(permits, most, r, place)
  PROVE  /\ Woken(permits, most) \in 0 .. Len(line)
         /\ Handed(Woken(permits, most), permits, r, place)
<1> DEFINE k == Woken(permits, most)
<1>1. Len(line) \in Nat
  BY LenProperties DEF LineOK
<1>2. k \in 0 .. Len(line) /\ k <= permits
  BY <1>1 DEF Smaller, Woken
<1>3. /\ free' = permits - k
      /\ line' = SubSeq(line, k + 1, Len(line))
      /\ at' = [q \in Requests |-> IF q = r THEN place
                                   ELSE IF q \in First(k) THEN "granted"
                                   ELSE at[q]]
  BY DEF WakeAndMove, First, Woken
<1> HIDE DEF k
<1>4. free' \in Nat
  BY <1>2, <1>3
<1>5. First(k) \subseteq Those({"queued"})
  BY <1>1, <1>2 DEF First, LineOK
<1>6. at' \in [Requests -> Places]
  BY <1>3 DEF Places
<1>7. \A i \in k + 1 .. Len(line) : line[i] \in Requests
  BY <1>1, <1>2, ElementOfSeq DEF LineOK
<1>8. /\ line' \in Seq(Requests)
      /\ Len(line') = Len(line) - k
      /\ \A i \in 1 .. Len(line) - k : line'[i] = line[i + k]
  <2>1. /\ SubSeq(line, k + 1, Len(line)) \in Seq(Requests)
        /\ Len(SubSeq(line, k + 1, Len(line))) =
             IF k + 1 <= Len(line) THEN Len(line) - (k + 1) + 1 ELSE 0
        /\ \A i \in 1 .. Len(line) - (k + 1) + 1 :
             SubSeq(line, k + 1, Len(line))[i] = line[(k + 1) + i - 1]
    BY <1>1, <1>2, <1>7, SubSeqProperties
  <2>2. QED
    BY <1>1, <1>2, <1>3, <2>1
<1>9. {line'[i] : i \in 1 .. Len(line')} = {line[j] : j \in k + 1 .. Len(line)}
  <2>1. ASSUME NEW j \in k + 1 .. Len(line)
        PROVE  j - k \in 1 .. Len(line') /\ line'[j - k] = line[j]
    BY <1>1, <1>2, <1>8
  <2>2. ASSUME NEW i \in 1 .. Len(line')
        PROVE  i + k \in k + 1 .. Len(line) /\ line'[i] = line[i + k]
    BY <1>1, <1>2, <1>8
  <2>3. {line'[i] : i \in 1 .. Len(line')} \subseteq {line[j] : j \in k + 1 .. Len(line)}
    BY <2>2
  <2>4. ASSUME NEW x \in {line[j] : j \in k + 1 .. Len(line)}
        PROVE  x \in {line'[i] : i \in 1 .. Len(line')}
    <3>1. PICK j \in k + 1 .. Len(line) : x = line[j]
      OBVIOUS
    <3>2. j - k \in 1 .. Len(line') /\ line'[j - k] = x
      BY <2>1, <3>1
    <3>3. QED
      BY <3>2
  <2>5. QED
    BY <2>3, <2>4
<1>10. {line[j] : j \in k + 1 .. Len(line)} = Those({"queued"}) \ First(k)
  BY <1>1, <1>2 DEF First, LineOK
<1>11. Those({"queued"})' = Those({"queued"}) \ First(k)
  BY <1>3 DEF Those
<1>12. \A i, j \in 1 .. Len(line') : line'[i] = line'[j] => i = j
  <2>1. ASSUME NEW i \in 1 .. Len(line'), NEW j \in 1 .. Len(line'), line'[i] = line'[j]
        PROVE  i = j
    <3>1. i + k \in 1 .. Len(line) /\ j + k \in 1 .. Len(line)
      BY <1>1, <1>2, <1>8
    <3>2. line[i + k] = line[j + k]
      BY <1>8, <2>1
    <3>3. i + k = j + k
      BY <3>1, <3>2 DEF LineOK
    <3>4. QED
      BY <1>1, <1>2, <1>8, <3>3
  <2>2. QED
    BY <2>1
<1>13. LineOK'
  BY <1>8, <1>9, <1>10, <1>11, <1>12 DEF LineOK
<1>14. Handed(k, permits, r, place)
  BY <1>3, <1>4, <1>5, <1>6, <1>8, <1>13 DEF Handed
<1>15. QED
  BY <1>2, <1>14 DEF k

\* The initial state satisfies the invariant.
LEMMA GateInit == Init => GateInv
<1> SUFFICES ASSUME Init
             PROVE  GateInv
  OBVIOUS
<1>1. \A P : "out" \notin P => Those(P) = {}
  BY DEF Init, Those
<1>2. TypeOK
  <2>1. line \in Seq(Requests) /\ Len(line) = 0
    BY EmptySeq DEF Init
  <2>2. LineOK
    BY <1>1, <2>1 DEF LineOK
  <2>3. QED
    BY <2>2 DEF TypeOK, Init, Places
<1>3. Accounting
  <2>1. /\ Those({"active"}) = {}
        /\ Those({"queued", "granted", "revoked", "gone"}) = {}
        /\ Those({"granted", "revoked", "active"}) = {}
    BY <1>1
  <2>2. Cardinality({}) = 0
    BY FS_EmptySet
  <2>3. active = 0 /\ waiting = 0 /\ free = MaxConcurrent
    BY DEF Init
  <2>4. MaxConcurrent + 0 = MaxConcurrent
    OBVIOUS
  <2>5. QED
    BY <2>1, <2>2, <2>3, <2>4 DEF Accounting
<1>4. NoLostWakeup
  BY DEF NoLostWakeup, Init
<1>5. QED
  BY <1>2, <1>3, <1>4 DEF GateInv

\* A newcomer is let in at once, or joins the line.
LEMMA ArrivalStep ==
  ASSUME GateInv, NEW r \in Requests, EnterAtOnce(r) \/ Queue(r)
  PROVE  GateInv'
<1> USE DEF GateInv
<1>1. CASE EnterAtOnce(r)
  <2>1. /\ Those({"active"})' = Those({"active"}) \cup {r}
        /\ r \notin Those({"active"})
        /\ Those({"queued", "granted", "revoked", "gone"})'
             = Those({"queued", "granted", "revoked", "gone"})
        /\ Those({"granted", "revoked", "active"})'
             = Those({"granted", "revoked", "active"}) \cup {r}
        /\ r \notin Those({"granted", "revoked", "active"})
        /\ Those({"queued"})' = Those({"queued"}) /\ Those({"queued"}) = {}
    BY <1>1 DEF EnterAtOnce, Those, TypeOK, Places, Locked
  <2>2. free > 0 /\ free' = free - 1 /\ active' = active + 1
        /\ waiting' = waiting /\ line' = line
    BY <1>1 DEF EnterAtOnce, TypeOK, Locked
  <2>3. LineOK'
    BY <2>1, <2>2 DEF TypeOK, LineOK
  <2>4. TypeOK'
    BY <1>1, <2>2, <2>3 DEF TypeOK, EnterAtOnce, Places
  <2>5. Accounting'
    <3>1. Cardinality(Those({"active"})') = Cardinality(Those({"active"})) + 1
      BY <2>1, ThoseFinite, FS_AddElement
    <3>2. Cardinality(Those({"granted", "revoked", "active"})')
            = Cardinality(Those({"granted", "revoked", "active"})) + 1
      BY <2>1, ThoseFinite, FS_AddElement
    <3>3. Cardinality(Those({"granted", "revoked", "active"})) \in Nat
      BY ThoseFinite
    <3>4. QED
      BY <2>1, <2>2, <3>1, <3>2, <3>3 DEF TypeOK, Accounting
  <2>6. NoLostWakeup'
    BY <2>1, <2>2, LenProperties, EmptySeq DEF NoLostWakeup, TypeOK, LineOK
  <2>7. QED
    BY <2>4, <2>5, <2>6
<1>2. CASE Queue(r)
  <2>1. /\ Those({"active"})' = Those({"active"})
        /\ Those({"queued", "granted", "revoked", "gone"})'
             = Those({"queued", "granted", "revoked", "gone"}) \cup {r}
        /\ r \notin Those({"queued", "granted", "revoked", "gone"})
        /\ Those({"granted", "revoked", "active"})' = Those({"granted", "revoked", "active"})
        /\ Those({"queued"})' = Those({"queued"}) \cup {r}
        /\ r \notin Those({"queued"})
        /\ Those({"granted", "revoked"})' = Those({"granted", "revoked"})
        /\ at' \in [Requests -> Places]
    BY <1>2 DEF Queue, Those, TypeOK, Places
  <2>2. free' = free /\ active' = active /\ waiting' = waiting + 1
    BY <1>2 DEF Queue
  <2>3. Len(line) \in Nat
    BY LenProperties DEF TypeOK, LineOK
  <2>4. /\ line' \in Seq(Requests)
        /\ Len(line') = Len(line) + 1
        /\ \A i \in 1 .. Len(line) : line'[i] = line[i]
        /\ line'[Len(line) + 1] = r
    BY <1>2, AppendProperties DEF Queue, Joined, TypeOK, LineOK
  <2>5. {line'[i] : i \in 1 .. Len(line')} = {line[i] : i \in 1 .. Len(line)} \cup {r}
    <3>1. ASSUME NEW i \in 1 .. Len(line')
          PROVE  line'[i] \in {line[j] : j \in 1 .. Len(line)} \cup {r}
      <4>1. CASE i = Len(line) + 1
        BY <4>1, <2>4
      <4>2. CASE i # Len(line) + 1
        <5>1. i \in 1 .. Len(line)
          BY <2>3, <2>4, <4>2
        <5>2. QED
          BY <5>1, <2>4
      <4>3. QED
        BY <4>1, <4>2
    <3>2. ASSUME NEW j \in 1 .. Len(line)
          PROVE  line[j] \in {line'[i] : i \in 1 .. Len(line')}
      <4>1. j \in 1 .. Len(line') /\ line'[j] = line[j]
        BY <2>3, <2>4
      <4>2. QED
        BY <4>1
    <3>3. r \in {line'[i] : i \in 1 .. Len(line')}
      <4>1. Len(line) + 1 \in 1 .. Len(line')
        BY <2>3, <2>4
      <4>2. QED
        BY <4>1, <2>4
    <3>4. QED
      BY <3>1, <3>2, <3>3
  <2>6. \A i, j \in 1 .. Len(line') : line'[i] = line'[j] => i = j
    <3>1. \A i \in 1 .. Len(line) : line[i] # r
      BY <2>1 DEF TypeOK, LineOK
    <3>2. QED
      BY <2>3, <2>4, <3>1 DEF TypeOK, LineOK
  <2>7. LineOK'
    BY <2>1, <2>4, <2>5, <2>6 DEF TypeOK, LineOK
  <2>8. TypeOK'
    BY <2>1, <2>2, <2>7 DEF TypeOK
  <2>9. Accounting'
    BY <2>1, <2>2, ThoseFinite, FS_AddElement DEF TypeOK, Accounting
  <2>10. NoLostWakeup'
    <3>1. CASE line = <<>>
      <4>1. Those({"queued"}) = {}
        BY <3>1, EmptySeq DEF TypeOK, LineOK
      <4>2. free = 0 \/ Those({"granted", "revoked"}) # {}
        BY <1>2, <4>1 DEF Queue, Locked, Those
      <4>3. QED
        BY <2>1, <2>2, <4>2 DEF NoLostWakeup, TypeOK
    <3>2. CASE line # <<>>
      BY <2>1, <2>2, <3>2 DEF NoLostWakeup
    <3>3. QED
      BY <3>1, <3>2
  <2>11. QED
    BY <2>8, <2>9, <2>10
<1>3. QED
  BY <1>1, <1>2

(***************************************************************************)
(* The steps that hand permits on.                                         *)
(***************************************************************************)
\* A request r that is not queued leaves the semaphore's hands, for the body or
\* for the street, and the head of the line gets permits.
LEMMA WakeSets ==
  ASSUME GateInv,
         NEW permits \in Nat, NEW most \in Nat,
         NEW r \in Requests, at[r] # "queued",
         NEW place \in {"out", "active"},
         WakeAndMove(permits, most, r, place)
  PROVE  /\ Woken(permits, most) \in 0 .. Len(line)
         /\ Moved(Woken(permits, most), permits, r, place)
<1>1. at \in [Requests -> Places] /\ LineOK
  BY DEF GateInv, TypeOK
<1>2. place \in Places \ {"queued", "granted"}
  BY DEF Places
<1> DEFINE k == Woken(permits, most)
<1>3. k \in 0 .. Len(line) /\ Handed(k, permits, r, place)
  BY <1>1, <1>2, WakeEffect
<1> HIDE DEF k
<1>4. \A q \in Requests : q \in First(k) => at[q] = "queued" /\ q # r
  BY <1>3 DEF Those, Handed
<1>5. First(k) \subseteq Requests
  BY <1>3 DEF Those, Handed
<1>6. First(k) \cap (Those({"granted", "revoked", "active"}) \cup {r}) = {}
  BY <1>4, <1>5 DEF Those, Handed
<1>7. Those({"active"})' = IF place = "active" THEN Those({"active"}) \cup {r}
                           ELSE Those({"active"}) \ {r}
  BY <1>1, <1>3, <1>4 DEF Those, Handed
<1>8. Those({"queued", "granted", "revoked", "gone"})'
        = Those({"queued", "granted", "revoked", "gone"}) \ {r}
  BY <1>1, <1>3, <1>4 DEF Those, Handed
<1>9. Those({"granted", "revoked", "active"})'
        = (IF place = "active" THEN Those({"granted", "revoked", "active"}) \cup {r}
           ELSE Those({"granted", "revoked", "active"}) \ {r}) \cup First(k)
  BY <1>1, <1>3, <1>4, <1>5 DEF Those, Handed
<1>10. First(k) \subseteq Those({"granted", "revoked"})'
  BY <1>3, <1>4, <1>5 DEF Those, Handed
<1>11. IsFiniteSet(First(k)) /\ Cardinality(First(k)) = k
  BY <1>1, <1>3, FirstCounted
<1>12. Moved(k, permits, r, place)
  BY <1>3, <1>6, <1>7, <1>8, <1>9, <1>10, <1>11 DEF Moved, Handed
<1>13. QED
  BY <1>3, <1>12 DEF k

\* After a wake-up of all that can be woken, no permit lies idle in vain.
LEMMA WokenNoLoss ==
  ASSUME GateInv, NEW k \in 0 .. Len(line), Len(line) \in Nat, NEW permits \in Nat,
         free' = permits - k, Len(line') = Len(line) - k, LineOK',
         IsFiniteSet(First(k)), Cardinality(First(k)) = k,
         First(k) \subseteq Those({"granted", "revoked"})',
         k > 0 \/ permits = 0 \/ Len(line) = 0
  PROVE  NoLostWakeup'
<1>1. CASE k > 0
  <2>1. First(k) # {}
    BY <1>1, FS_EmptySet
  <2>2. QED
    BY <2>1 DEF NoLostWakeup
<1>2. CASE k = 0 /\ permits = 0
  BY <1>2 DEF NoLostWakeup
<1>3. CASE k = 0 /\ Len(line) = 0
  <2>1. Len(line') = 0 /\ line' \in Seq(Requests)
    BY <1>3 DEF LineOK
  <2>2. line' = <<>>
    BY <2>1, EmptySeq
  <2>3. QED
    BY <2>2 DEF NoLostWakeup
<1>4. QED
  BY <1>1, <1>2, <1>3

\* The body of slot() begins: the waiter takes the permit it was handed.
LEMMA ResumeStep ==
  ASSUME GateInv, NEW r \in Requests, Resume(r)
  PROVE  GateInv'
<1>1. /\ at[r] = "granted" /\ WakeAndMove(free, free, r, "active")
      /\ waiting' = Decremented(waiting) /\ active' = active + 1
      /\ free \in Nat /\ waiting \in Nat /\ active \in Nat /\ Len(line) \in Nat
  BY LenProperties DEF Resume, WakeAll, GateInv, TypeOK, LineOK
<1> DEFINE k == Woken(free, free)
<1>2. k \in 0 .. Len(line) /\ Moved(k, free, r, "active")
  BY <1>1, WakeSets
<1>2a. k > 0 \/ free = 0 \/ Len(line) = 0
  BY <1>1 DEF Smaller, Woken
<1> HIDE DEF k
<1>3. /\ r \in Those({"granted", "revoked", "active"})
      /\ r \in Those({"queued", "granted", "revoked", "gone"})
      /\ r \notin Those({"active"})
  BY <1>1 DEF Those
<1>4. Cardinality(Those({"active"})') = Cardinality(Those({"active"})) + 1
  BY <1>2, <1>3, ThoseFinite, FS_AddElement DEF Moved
<1>5. Cardinality(Those({"queued", "granted", "revoked", "gone"})')
        = Cardinality(Those({"queued", "granted", "revoked", "gone"})) - 1
  BY <1>2, <1>3, ThoseFinite, FS_RemoveElement DEF Moved
<1>6. Cardinality(Those({"granted", "revoked", "active"})')
        = Cardinality(Those({"granted", "revoked", "active"})) + k
  <2>1. /\ Those({"granted", "revoked", "active"})'
             = Those({"granted", "revoked", "active"}) \cup First(k)
        /\ Those({"granted", "revoked", "active"}) \cap First(k) = {}
    BY <1>2, <1>3 DEF Moved
  <2>2. Cardinality({}) = 0
    BY FS_EmptySet
  <2>3. Cardinality(First(k)) = k /\ IsFiniteSet(First(k))
    BY <1>2 DEF Moved
  <2>4. Cardinality(Those({"granted", "revoked", "active"}) \cup First(k))
          = Cardinality(Those({"granted", "revoked", "active"})) + Cardinality(First(k)) - 0
    BY <2>1, <2>2, <2>3, ThoseFinite, FS_Union
  <2>5. Cardinality(Those({"granted", "revoked", "active"})')
          = Cardinality(Those({"granted", "revoked", "active"})) + k - 0
    BY <2>1, <2>3, <2>4
  <2>6. Cardinality(Those({"granted", "revoked", "active"})) + k \in Nat
    BY <1>1, <1>2, ThoseFinite
  <2>7. QED
    BY <1>1, <1>2, <2>5, <2>6, ThoseFinite
<1>7. waiting' \in Nat /\ waiting' = waiting - 1 /\ active' \in Nat
  <2>1. Cardinality(Those({"queued", "granted", "revoked", "gone"})) # 0
    BY <1>3, ThoseFinite, FS_EmptySet
  <2>2. waiting # 0
    BY <2>1 DEF GateInv, Accounting
  <2>3. QED
    BY <1>1, <2>2 DEF Decremented
<1>8. TypeOK'
  BY <1>2, <1>7 DEF TypeOK, Moved
<1>9. Accounting'
  <2>1. /\ active = Cardinality(Those({"active"}))
        /\ waiting = Cardinality(Those({"queued", "granted", "revoked", "gone"}))
        /\ free + Cardinality(Those({"granted", "revoked", "active"})) = MaxConcurrent
    BY DEF GateInv, Accounting
  <2>2. Cardinality(Those({"granted", "revoked", "active"})) \in Nat
    BY ThoseFinite
  <2>3. free' + Cardinality(Those({"granted", "revoked", "active"})') = MaxConcurrent
    BY <1>1, <1>2, <1>6, <2>1, <2>2 DEF Moved
  <2>4. QED
    BY <1>1, <1>4, <1>5, <1>7, <2>1, <2>3 DEF Accounting
<1>10. NoLostWakeup'
  BY <1>1, <1>2, <1>2a, WokenNoLoss DEF Moved
<1>11. QED
  BY <1>8, <1>9, <1>10 DEF GateInv

\* What the three counted sets are once r has left and k requests were woken.
LEMMA LeavingCounted ==
  ASSUME NEW k \in Nat, NEW permits, NEW r, Moved(k, permits, r, "out")
  PROVE  /\ Cardinality(Those({"active"})')
              = IF r \in Those({"active"}) THEN Cardinality(Those({"active"})) - 1
                ELSE Cardinality(Those({"active"}))
         /\ Cardinality(Those({"queued", "granted", "revoked", "gone"})')
              = IF r \in Those({"queued", "granted", "revoked", "gone"})
                THEN Cardinality(Those({"queued", "granted", "revoked", "gone"})) - 1
                ELSE Cardinality(Those({"queued", "granted", "revoked", "gone"}))
         /\ Cardinality(Those({"granted", "revoked", "active"})')
              = IF r \in Those({"granted", "revoked", "active"})
                THEN Cardinality(Those({"granted", "revoked", "active"})) - 1 + k
                ELSE Cardinality(Those({"granted", "revoked", "active"})) + k
<1>1. Those({"active"})' = Those({"active"}) \ {r}
  BY DEF Moved
<1>2. Those({"queued", "granted", "revoked", "gone"})'
        = Those({"queued", "granted", "revoked", "gone"}) \ {r}
  BY DEF Moved
<1> DEFINE H == Those({"granted", "revoked", "active"})
<1>3. Those({"granted", "revoked", "active"})' = (H \ {r}) \cup First(k)
  BY DEF Moved
<1>4. (H \ {r}) \cap First(k) = {}
  BY DEF Moved
<1>5. IsFiniteSet(First(k)) /\ Cardinality(First(k)) = k /\ Cardinality({}) = 0
  BY FS_EmptySet DEF Moved
<1>6. IsFiniteSet(H) /\ Cardinality(H) \in Nat
  BY ThoseFinite
<1> HIDE DEF H
<1>7. /\ IsFiniteSet(H \ {r})
      /\ Cardinality(H \ {r}) = IF r \in H THEN Cardinality(H) - 1 ELSE Cardinality(H)
  BY <1>6, FS_RemoveElement
<1>8. Cardinality((H \ {r}) \cup First(k)) = Cardinality(H \ {r}) + k - 0
  BY <1>4, <1>5, <1>7, FS_Union
<1>9. Cardinality((H \ {r}) \cup First(k))
        = IF r \in H THEN Cardinality(H) - 1 + k ELSE Cardinality(H) + k
  BY <1>6, <1>7, <1>8
<1>10. Cardinality(Those({"active"})')
         = IF r \in Those({"active"}) THEN Cardinality(Those({"active"})) - 1
           ELSE Cardinality(Those({"active"}))
  BY <1>1, ThoseFinite, FS_RemoveElement
<1>11. Cardinality(Those({"queued", "granted", "revoked", "gone"})')
         = IF r \in Those({"queued", "granted", "revoked", "gone"})
           THEN Cardinality(Those({"queued", "granted", "revoked", "gone"})) - 1
           ELSE Cardinality(Those({"queued", "granted", "revoked", "gone"}))
  BY <1>2, ThoseFinite, FS_RemoveElement
<1>12. QED
  BY <1>3, <1>9, <1>10, <1>11 DEF H

\* The interrupted waiter goes, handing on the permit it may have had.
LEMMA GiveUpStep ==
  ASSUME GateInv, NEW r \in Requests, GiveUp(r)
  PROVE  GateInv'
<1> DEFINE permits == IF at[r] = "revoked" THEN free + 1 ELSE free
           k       == Woken(permits, permits)
<1>1. /\ at[r] \in {"gone", "revoked"} /\ WakeAndMove(permits, permits, r, "out")
      /\ waiting' = Decremented(waiting) /\ active' = active
  BY DEF GiveUp, WakeAll
<1>2. /\ free \in Nat /\ waiting \in Nat /\ active \in Nat /\ Len(line) \in Nat
      /\ permits \in Nat
  BY LenProperties DEF GateInv, TypeOK, LineOK
<1>3. k \in 0 .. Len(line) /\ Moved(k, permits, r, "out")
  BY <1>1, <1>2, WakeSets
<1>4. k > 0 \/ permits = 0 \/ Len(line) = 0
  BY <1>2 DEF Smaller, Woken
<1>5. /\ r \in Those({"granted", "revoked", "active"}) <=> at[r] = "revoked"
      /\ r \in Those({"queued", "granted", "revoked", "gone"})
      /\ r \notin Those({"active"})
  BY <1>1 DEF Those
<1>6. permits = IF r \in Those({"granted", "revoked", "active"}) THEN free + 1 ELSE free
  BY <1>5
<1> HIDE DEF k, permits
<1>7. free' = permits - k /\ free' \in Nat /\ k \in Nat
  BY <1>2, <1>3 DEF Moved
<1>8. Cardinality(Those({"active"})') = Cardinality(Those({"active"}))
  BY <1>3, <1>5, <1>7, LeavingCounted
<1>9. Cardinality(Those({"queued", "granted", "revoked", "gone"})')
        = Cardinality(Those({"queued", "granted", "revoked", "gone"})) - 1
  BY <1>3, <1>5, <1>7, LeavingCounted
<1>10. Cardinality(Those({"granted", "revoked", "active"})')
         = IF r \in Those({"granted", "revoked", "active"})
           THEN Cardinality(Those({"granted", "revoked", "active"})) - 1 + k
           ELSE Cardinality(Those({"granted", "revoked", "active"})) + k
  BY <1>3, <1>7, LeavingCounted
<1>11. /\ active = Cardinality(Those({"active"}))
       /\ waiting = Cardinality(Those({"queued", "granted", "revoked", "gone"}))
       /\ free + Cardinality(Those({"granted", "revoked", "active"})) = MaxConcurrent
  BY DEF GateInv, Accounting
<1>12. waiting' \in Nat /\ waiting' = waiting - 1
  <2>1. Cardinality(Those({"queued", "granted", "revoked", "gone"})) # 0
    BY <1>5, ThoseFinite, FS_EmptySet
  <2>2. QED
    BY <1>1, <1>2, <1>11, <2>1 DEF Decremented
<1>13. TypeOK'
  BY <1>1, <1>2, <1>3, <1>12 DEF TypeOK, Moved
<1>14. Accounting'
  <2>1. free' + Cardinality(Those({"granted", "revoked", "active"})') = MaxConcurrent
    <3>1. Cardinality(Those({"granted", "revoked", "active"})) \in Nat
      BY ThoseFinite
    <3>2. QED
      BY <1>2, <1>6, <1>7, <1>10, <1>11, <3>1
  <2>2. QED
    BY <1>1, <1>8, <1>9, <1>11, <1>12, <2>1 DEF Accounting
<1>15. NoLostWakeup'
  BY <1>2, <1>3, <1>4, WokenNoLoss DEF Moved
<1>16. QED
  BY <1>13, <1>14, <1>15 DEF GateInv

\* The body of slot() ends and its permit goes to the oldest waiter, if any.
LEMMA ExitStep ==
  ASSUME GateInv, NEW r \in Requests, Exit(r)
  PROVE  GateInv'
<1> DEFINE k == Woken(free + 1, 1)
<1>1. /\ at[r] = "active" /\ WakeAndMove(free + 1, 1, r, "out")
      /\ active' = Decremented(active) /\ waiting' = waiting
  BY DEF Exit, Release
<1>2. /\ free \in Nat /\ waiting \in Nat /\ active \in Nat /\ Len(line) \in Nat
      /\ free + 1 \in Nat
  BY LenProperties DEF GateInv, TypeOK, LineOK
<1>3. k \in 0 .. Len(line) /\ Moved(k, free + 1, r, "out")
  BY <1>1, <1>2, WakeSets
<1>4. k > 0 \/ Len(line) = 0
  BY <1>2 DEF Smaller, Woken
<1>5. /\ r \in Those({"granted", "revoked", "active"})
      /\ r \notin Those({"queued", "granted", "revoked", "gone"})
      /\ r \in Those({"active"})
  BY <1>1 DEF Those
<1> HIDE DEF k
<1>6. free' = (free + 1) - k /\ free' \in Nat /\ k \in Nat
  BY <1>2, <1>3 DEF Moved
<1>7. /\ Cardinality(Those({"active"})') = Cardinality(Those({"active"})) - 1
      /\ Cardinality(Those({"queued", "granted", "revoked", "gone"})')
           = Cardinality(Those({"queued", "granted", "revoked", "gone"}))
      /\ Cardinality(Those({"granted", "revoked", "active"})')
           = Cardinality(Those({"granted", "revoked", "active"})) - 1 + k
  BY <1>3, <1>5, <1>6, LeavingCounted
<1>8. /\ active = Cardinality(Those({"active"}))
      /\ waiting = Cardinality(Those({"queued", "granted", "revoked", "gone"}))
      /\ free + Cardinality(Those({"granted", "revoked", "active"})) = MaxConcurrent
  BY DEF GateInv, Accounting
<1>9. active' \in Nat /\ active' = active - 1
  <2>1. Cardinality(Those({"active"})) # 0
    BY <1>5, ThoseFinite, FS_EmptySet
  <2>2. QED
    BY <1>1, <1>2, <1>8, <2>1 DEF Decremented
<1>10. TypeOK'
  BY <1>1, <1>2, <1>3, <1>9 DEF TypeOK, Moved
<1>11. Accounting'
  <2>1. free' + Cardinality(Those({"granted", "revoked", "active"})') = MaxConcurrent
    <3>1. Cardinality(Those({"granted", "revoked", "active"})) \in Nat
      BY ThoseFinite
    <3>2. QED
      BY <1>2, <1>6, <1>7, <1>8, <3>1
  <2>2. QED
    BY <1>1, <1>7, <1>8, <1>9, <2>1 DEF Accounting
<1>12. NoLostWakeup'
  BY <1>2, <1>3, <1>4, WokenNoLoss DEF Moved
<1>13. QED
  BY <1>10, <1>11, <1>12 DEF GateInv

\* Taking the i-th future out of the deque leaves the others, in order.
LEMMA WithoutEffect ==
  ASSUME LineOK, NEW i \in 1 .. Len(line)
  PROVE  /\ Without(i) \in Seq(Requests)
         /\ Len(Without(i)) = Len(line) - 1
         /\ \A j \in 1 .. Len(line) - 1 :
              Without(i)[j] = IF j < i THEN line[j] ELSE line[j + 1]
<1> DEFINE left  == SubSeq(line, 1, i - 1)
           right == SubSeq(line, i + 1, Len(line))
<1>1. Len(line) \in Nat /\ i \in Int /\ 1 <= i /\ i <= Len(line)
  BY LenProperties DEF LineOK
<1>2. \A j \in 1 .. Len(line) : line[j] \in Requests
  BY ElementOfSeq DEF LineOK
<1>3. /\ left \in Seq(Requests) /\ Len(left) = i - 1
      /\ \A j \in 1 .. i - 1 : left[j] = line[j]
  <2>1. \A j \in 1 .. i - 1 : line[j] \in Requests
    BY <1>1, <1>2
  <2>2. /\ SubSeq(line, 1, i - 1) \in Seq(Requests)
        /\ Len(SubSeq(line, 1, i - 1)) = IF 1 <= i - 1 THEN (i - 1) - 1 + 1 ELSE 0
        /\ \A j \in 1 .. (i - 1) - 1 + 1 : SubSeq(line, 1, i - 1)[j] = line[1 + j - 1]
    BY <1>1, <2>1, SubSeqProperties
  <2>3. QED
    BY <1>1, <2>2
<1>4. /\ right \in Seq(Requests) /\ Len(right) = Len(line) - i
      /\ \A j \in 1 .. Len(line) - i : right[j] = line[i + j]
  <2>1. \A j \in i + 1 .. Len(line) : line[j] \in Requests
    BY <1>1, <1>2
  <2>2. /\ SubSeq(line, i + 1, Len(line)) \in Seq(Requests)
        /\ Len(SubSeq(line, i + 1, Len(line)))
             = IF i + 1 <= Len(line) THEN Len(line) - (i + 1) + 1 ELSE 0
        /\ \A j \in 1 .. Len(line) - (i + 1) + 1 :
             SubSeq(line, i + 1, Len(line))[j] = line[(i + 1) + j - 1]
    BY <1>1, <2>1, SubSeqProperties
  <2>3. QED
    BY <1>1, <2>2
<1>5. Without(i) = left \o right
  BY DEF Without
<1> HIDE DEF left, right
<1>6. /\ left \o right \in Seq(Requests)
      /\ Len(left \o right) = Len(left) + Len(right)
      /\ \A j \in 1 .. Len(left) + Len(right) :
           (left \o right)[j] = IF j <= Len(left) THEN left[j] ELSE right[j - Len(left)]
  BY <1>3, <1>4, ConcatProperties
<1>7. Len(left) + Len(right) = Len(line) - 1
  BY <1>1, <1>3, <1>4
<1>8. ASSUME NEW j \in 1 .. Len(line) - 1
      PROVE  (left \o right)[j] = IF j < i THEN line[j] ELSE line[j + 1]
  <2>1. CASE j < i
    BY <1>1, <1>3, <1>6, <1>7, <2>1
  <2>2. CASE ~(j < i)
    <3>1. /\ j - (i - 1) \in 1 .. Len(line) - i /\ ~(j <= i - 1)
          /\ i + (j - (i - 1)) = j + 1
      BY <1>1, <2>2
    <3>2. (left \o right)[j] = right[j - (i - 1)]
      BY <1>3, <1>6, <1>7, <3>1
    <3>3. QED
      BY <1>4, <2>2, <3>1, <3>2
  <2>3. QED
    BY <2>1, <2>2
<1>9. QED
  BY <1>5, <1>6, <1>7, <1>8

\* What LineOK needs of the deque once r's future is gone from it.
LEMMA WithoutLineOK ==
  ASSUME LineOK, NEW i \in 1 .. Len(line), line' = Without(i),
         Those({"queued"})' = Those({"queued"}) \ {line[i]}
  PROVE  LineOK'
<1>1. Len(line) \in Nat
  BY LenProperties DEF LineOK
<1>2. /\ line' \in Seq(Requests) /\ Len(line') = Len(line) - 1
      /\ \A j \in 1 .. Len(line) - 1 : line'[j] = IF j < i THEN line[j] ELSE line[j + 1]
  BY WithoutEffect
<1>3. \A m, n \in 1 .. Len(line) : line[m] = line[n] => m = n
  BY DEF LineOK
<1>4. ASSUME NEW j \in 1 .. Len(line')
      PROVE  \E m \in 1 .. Len(line) : /\ m # i /\ line'[j] = line[m]
                                       /\ m = IF j < i THEN j ELSE j + 1
  <2>1. CASE j < i
    BY <1>1, <1>2, <2>1
  <2>2. CASE ~(j < i)
    <3>1. j + 1 \in 1 .. Len(line) /\ j + 1 # i
      BY <1>1, <1>2, <2>2
    <3>2. line'[j] = line[j + 1]
      BY <1>2, <2>2
    <3>3. QED
      BY <2>2, <3>1, <3>2
  <2>3. QED
    BY <2>1, <2>2
<1>5. ASSUME NEW m \in 1 .. Len(line), m # i
      PROVE  \E j \in 1 .. Len(line') : line'[j] = line[m]
  <2>1. CASE m < i
    <3>1. m \in 1 .. Len(line') /\ line'[m] = line[m]
      BY <1>1, <1>2, <2>1
    <3>2. QED
      BY <3>1
  <2>2. CASE m > i
    <3>1. m - 1 \in 1 .. Len(line') /\ ~(m - 1 < i) /\ (m - 1) + 1 = m
      BY <1>1, <1>2, <2>2
    <3>2. line'[m - 1] = line[m]
      BY <1>2, <3>1
    <3>3. QED
      BY <3>1, <3>2
  <2>3. QED
    BY <1>1, <1>5, <2>1, <2>2
<1>6. {line'[j] : j \in 1 .. Len(line')} = Those({"queued"})'
  <2>1. {line[m] : m \in 1 .. Len(line)} = Those({"queued"})
    BY DEF LineOK
  <2>2. ASSUME NEW j \in 1 .. Len(line')
        PROVE  line'[j] \in Those({"queued"})'
    <3>1. PICK m \in 1 .. Len(line) : m # i /\ line'[j] = line[m]
      BY <1>4
    <3>2. line[m] # line[i]
      BY <1>3, <3>1
    <3>3. line[m] \in Those({"queued"})
      BY <2>1
    <3>4. QED
      BY <3>1, <3>2, <3>3
  <2>3. ASSUME NEW q \in Those({"queued"})'
        PROVE  q \in {line'[j] : j \in 1 .. Len(line')}
    <3>1. q \in Those({"queued"}) /\ q # line[i]
      BY <2>3
    <3>2. PICK m \in 1 .. Len(line) : q = line[m]
      BY <2>1, <3>1
    <3>3. m # i
      BY <3>1, <3>2
    <3>4. PICK j \in 1 .. Len(line') : line'[j] = line[m]
      BY <1>5, <3>3
    <3>5. QED
      BY <3>2, <3>4
  <2>4. QED
    BY <2>2, <2>3
<1>7. ASSUME NEW a \in 1 .. Len(line'), NEW b \in 1 .. Len(line'), line'[a] = line'[b]
      PROVE  a = b
  <2>1. PICK m \in 1 .. Len(line) : line'[a] = line[m] /\ m = IF a < i THEN a ELSE a + 1
    BY <1>4
  <2>2. PICK n \in 1 .. Len(line) : line'[b] = line[n] /\ n = IF b < i THEN b ELSE b + 1
    BY <1>4
  <2>3. m = n
    BY <1>3, <1>7, <2>1, <2>2
  <2>4. QED
    BY <1>1, <1>2, <2>1, <2>2, <2>3
<1>8. QED
  BY <1>2, <1>6, <1>7 DEF LineOK

\* A timeout or a cancellation strikes a waiter, on either side of the hand-over.
LEMMA InterruptStep ==
  ASSUME GateInv, NEW r \in Requests, Interrupt(r)
  PROVE  GateInv'
<1>1. free' = free /\ waiting' = waiting /\ active' = active
  BY DEF Interrupt
<1>2. CASE at[r] = "queued"
  <2>1. at' = [at EXCEPT ![r] = "gone"]
    BY <1>2 DEF Interrupt
  <2>2. PICK i \in 1 .. Len(line) : line[i] = r /\ line' = Without(i)
    BY <1>2 DEF Interrupt
  <2>3. /\ Those({"queued"})' = Those({"queued"}) \ {r}
        /\ Those({"active"})' = Those({"active"})
        /\ Those({"queued", "granted", "revoked", "gone"})'
             = Those({"queued", "granted", "revoked", "gone"})
        /\ Those({"granted", "revoked", "active"})' = Those({"granted", "revoked", "active"})
        /\ Those({"granted", "revoked"})' = Those({"granted", "revoked"})
        /\ at' \in [Requests -> Places]
    BY <1>2, <2>1 DEF Those, GateInv, TypeOK, Places
  <2>4. LineOK'
    BY <2>2, <2>3, WithoutLineOK DEF GateInv, TypeOK
  <2>5. line' # <<>> => line # <<>>
    <3>1. Len(line) # 0
      BY LenProperties, <2>2 DEF GateInv, TypeOK, LineOK
    <3>2. line # <<>>
      BY <3>1, EmptySeq
    <3>3. QED
      BY <3>2
  <2>6. NoLostWakeup'
    BY <1>1, <2>3, <2>5 DEF GateInv, NoLostWakeup
  <2>7. Accounting'
    BY <1>1, <2>3 DEF GateInv, Accounting
  <2>8. QED
    BY <1>1, <2>3, <2>4, <2>6, <2>7 DEF GateInv, TypeOK
<1>3. CASE at[r] = "granted"
  <2>1. at' = [at EXCEPT ![r] = "revoked"] /\ line' = line
    BY <1>3 DEF Interrupt
  <2>2. /\ Those({"queued"})' = Those({"queued"})
        /\ Those({"active"})' = Those({"active"})
        /\ Those({"queued", "granted", "revoked", "gone"})'
             = Those({"queued", "granted", "revoked", "gone"})
        /\ Those({"granted", "revoked", "active"})' = Those({"granted", "revoked", "active"})
        /\ Those({"granted", "revoked"})' = Those({"granted", "revoked"})
        /\ at' \in [Requests -> Places]
    BY <1>3, <2>1 DEF Those, GateInv, TypeOK, Places
  <2>3. LineOK'
    BY <2>1, <2>2 DEF GateInv, TypeOK, LineOK
  <2>4. NoLostWakeup'
    BY <1>1, <2>1, <2>2 DEF GateInv, NoLostWakeup
  <2>5. Accounting'
    BY <1>1, <2>2 DEF GateInv, Accounting
  <2>6. QED
    BY <1>1, <2>2, <2>3, <2>4, <2>5 DEF GateInv, TypeOK
<1>4. QED
  BY <1>2, <1>3 DEF Interrupt

\* Nothing changes.
LEMMA GateStutter == GateInv /\ UNCHANGED vars => GateInv'
<1> SUFFICES ASSUME GateInv, UNCHANGED vars
             PROVE  GateInv'
  OBVIOUS
<1>1. at' = at /\ line' = line /\ free' = free /\ waiting' = waiting /\ active' = active
  BY DEF vars
<1>2. \A P : Those(P)' = Those(P)
  BY <1>1 DEF Those
<1>3. TypeOK'
  BY <1>1, <1>2 DEF GateInv, TypeOK, LineOK
<1>4. Accounting'
  BY <1>1, <1>2 DEF GateInv, Accounting
<1>5. NoLostWakeup'
  BY <1>1, <1>2 DEF GateInv, NoLostWakeup
<1>6. QED
  BY <1>3, <1>4, <1>5 DEF GateInv

\* Every step of the gate preserves the invariant.
LEMMA GateStep == GateInv /\ [Next]_vars => GateInv'
<1> SUFFICES ASSUME GateInv, [Next]_vars
             PROVE  GateInv'
  OBVIOUS
<1>1. CASE Next
  <2>1. PICK r \in Requests : \/ Reject(r) \/ EnterAtOnce(r) \/ Queue(r) \/ Resume(r)
                             \/ Interrupt(r) \/ GiveUp(r) \/ Exit(r)
    BY <1>1 DEF Next
  <2>2. CASE Reject(r)
    BY <2>2, GateStutter DEF Reject
  <2>3. CASE EnterAtOnce(r) \/ Queue(r)
    BY <2>3, ArrivalStep
  <2>4. CASE Resume(r)
    BY <2>4, ResumeStep
  <2>5. CASE Interrupt(r)
    BY <2>5, InterruptStep
  <2>6. CASE GiveUp(r)
    BY <2>6, GiveUpStep
  <2>7. CASE Exit(r)
    BY <2>7, ExitStep
  <2>8. QED
    BY <2>1, <2>2, <2>3, <2>4, <2>5, <2>6, <2>7
<1>2. CASE UNCHANGED vars
  BY <1>2, GateStutter
<1>3. QED
  BY <1>1, <1>2

\* The invariant holds of every behaviour of the gate.
THEOREM GateInvariant == Spec => []GateInv
<1>1. Init => GateInv
  BY GateInit
<1>2. GateInv /\ [Next]_vars => GateInv'
  BY GateStep
<1>3. QED
  BY <1>1, <1>2, PTL DEF Spec

\* The deque always holds the pending waiters of slot(), each once.
THEOREM GateTypeCorrect == Spec => []TypeOK
<1>1. GateInv => TypeOK
  BY DEF GateInv
<1>2. QED
  BY <1>1, GateInvariant, PTL

\* _waiting, _active and the semaphore's value never drift from the requests
\* that really wait, run and hold permits, whatever is cancelled and when.
THEOREM CountersExact == Spec => []Accounting
<1>1. GateInv => Accounting
  BY DEF GateInv
<1>2. QED
  BY <1>1, GateInvariant, PTL

\* No permit lies idle while requests queue, unless a waiter is about to pass
\* it on.
THEOREM NoWakeupLost == Spec => []NoLostWakeup
<1>1. GateInv => NoLostWakeup
  BY DEF GateInv
<1>2. QED
  BY <1>1, GateInvariant, PTL

(***************************************************************************)
(* Order.  A step reads the new line as a piece of the old one: no request *)
(* gets in front of another that stays queued.                             *)
(***************************************************************************)
\* Every queued request has a position.
LEMMA Positioned ==
  ASSUME LineOK, NEW q \in Requests, at[q] = "queued"
  PROVE  \E j \in 1 .. Len(line) : line[j] = q
<1>1. q \in Those({"queued"})
  BY DEF Those
<1>2. QED
  BY <1>1 DEF LineOK

\* Handing permits to the head of the line overtakes nobody who stays in it.
LEMMA WakeKeepsOrder ==
  ASSUME GateInv,
         NEW permits \in Nat, NEW most \in Nat,
         NEW r \in Requests, at[r] \notin {"out", "queued"},
         NEW place \in {"out", "active"},
         WakeAndMove(permits, most, r, place),
         NEW q \in Requests, at[q] = "queued", at'[q] = "queued"
  PROVE  KeepsOrder(q)
<1> DEFINE k == Woken(permits, most)
<1>1. at \in [Requests -> Places] /\ LineOK /\ Len(line) \in Nat
  BY LenProperties DEF GateInv, TypeOK, LineOK
<1>2. place \in Places \ {"queued", "granted"} /\ at[r] # "queued"
  BY DEF Places
<1>3. k \in 0 .. Len(line) /\ Handed(k, permits, r, place)
  BY <1>1, <1>2, WakeEffect
<1> HIDE DEF k
<1>4. /\ Len(line') = Len(line) - k
      /\ \A i \in 1 .. Len(line') : line'[i] = line[i + k]
  BY <1>3 DEF Handed
<1>5. ASSUME NEW x \in Ahead(q)'
      PROVE  x \in Ahead(q)
  <2>1. PICK i, j \in 1 .. Len(line') : i < j /\ line'[i] = x /\ line'[j] = q
    BY DEF Ahead
  <2>2. /\ i + k \in 1 .. Len(line) /\ j + k \in 1 .. Len(line) /\ i + k < j + k
    BY <1>1, <1>3, <1>4, <2>1
  <2>3. line[i + k] = x /\ line[j + k] = q
    BY <1>4, <2>1
  <2>4. QED
    BY <2>2, <2>3 DEF Ahead
<1>6. ASSUME NEW x \in Requests, at[x] \in {"out", "queued"}, at'[x] \in {"granted", "active"}
      PROVE  x \in Ahead(q)
  <2>1. x # r
    BY <1>6
  <2>2. x \in First(k)
    BY <1>3, <1>6, <2>1 DEF Handed
  <2>3. q \notin First(k)
    BY <1>3 DEF Handed
  <2>4. PICK i \in 1 .. k : line[i] = x
    BY <2>2 DEF First
  <2>5. PICK j \in 1 .. Len(line) : line[j] = q
    BY <1>1, Positioned
  <2>6. j \notin 1 .. k
    BY <2>3, <2>5 DEF First
  <2>7. i \in 1 .. Len(line) /\ i < j
    BY <1>1, <1>3, <2>6
  <2>8. QED
    BY <2>4, <2>5, <2>7 DEF Ahead
<1>7. QED
  BY <1>5, <1>6 DEF KeepsOrder

\* A newcomer gets in at once only when nobody is queued, and else joins at the
\* end.
LEMMA ArrivalKeepsOrder ==
  ASSUME GateInv, NEW r \in Requests, EnterAtOnce(r) \/ Queue(r),
         NEW q \in Requests, at[q] = "queued", at'[q] = "queued"
  PROVE  KeepsOrder(q)
<1>1. Queue(r)
  BY DEF EnterAtOnce, Locked, Those
<1>2. /\ at[r] = "out" /\ q # r
      /\ at' = [at EXCEPT ![r] = "queued"]
      /\ at \in [Requests -> Places] /\ LineOK /\ Len(line) \in Nat
  BY <1>1, LenProperties DEF Queue, GateInv, TypeOK, LineOK
<1>3. /\ Len(line') = Len(line) + 1
      /\ \A i \in 1 .. Len(line) : line'[i] = line[i]
      /\ line'[Len(line) + 1] = r
  BY <1>1, <1>2, AppendProperties DEF Queue, Joined, LineOK
<1>4. ASSUME NEW x \in Ahead(q)'
      PROVE  x \in Ahead(q)
  <2>1. PICK i, j \in 1 .. Len(line') : i < j /\ line'[i] = x /\ line'[j] = q
    BY DEF Ahead
  <2>2. j # Len(line) + 1
    BY <1>2, <1>3, <2>1
  <2>3. i \in 1 .. Len(line) /\ j \in 1 .. Len(line)
    BY <1>2, <1>3, <2>1, <2>2
  <2>4. line[i] = x /\ line[j] = q
    BY <1>3, <2>1, <2>3
  <2>5. QED
    BY <2>1, <2>3, <2>4 DEF Ahead
<1>5. \A x \in Requests : at'[x] \in {"granted", "active"} => at[x] = at'[x]
  BY <1>2
<1>6. QED
  BY <1>4, <1>5 DEF KeepsOrder

\* A waiter that drops out leaves the others in order.
LEMMA InterruptKeepsOrder ==
  ASSUME GateInv, NEW r \in Requests, Interrupt(r),
         NEW q \in Requests, at[q] = "queued", at'[q] = "queued"
  PROVE  KeepsOrder(q)
<1>1. at \in [Requests -> Places] /\ LineOK /\ Len(line) \in Nat
  BY LenProperties DEF GateInv, TypeOK, LineOK
<1>2. \A x \in Requests : at'[x] \in {"granted", "active"} => at[x] = at'[x]
  BY <1>1 DEF Interrupt
<1>3. ASSUME NEW x \in Ahead(q)'
      PROVE  x \in Ahead(q)
  <2>1. PICK i, j \in 1 .. Len(line') : i < j /\ line'[i] = x /\ line'[j] = q
    BY DEF Ahead
  <2>2. CASE line' = line
    BY <1>3, <2>1, <2>2 DEF Ahead
  <2>3. CASE \E m \in 1 .. Len(line) : line' = Without(m)
    <3>1. PICK m \in 1 .. Len(line) : line' = Without(m)
      BY <2>3
    <3>2. /\ Len(line') = Len(line) - 1
          /\ \A n \in 1 .. Len(line) - 1 :
               line'[n] = IF n < m THEN line[n] ELSE line[n + 1]
      BY <1>1, <3>1, WithoutEffect
    <3> DEFINE old(n) == IF n < m THEN n ELSE n + 1
    <3>3. old(i) \in 1 .. Len(line) /\ old(j) \in 1 .. Len(line) /\ old(i) < old(j)
      BY <1>1, <2>1, <3>2
    <3>4. line[old(i)] = x /\ line[old(j)] = q
      BY <2>1, <3>2
    <3> HIDE DEF old
    <3>5. QED
      BY <3>3, <3>4 DEF Ahead
  <2>4. QED
    BY <2>2, <2>3 DEF Interrupt
<1>4. QED
  BY <1>2, <1>3 DEF KeepsOrder

\* Nobody overtakes a queued request, in any step of the gate.
THEOREM NobodyOvertakes == Spec => NoOvertaking
<1>1. ASSUME GateInv, Next
      PROVE  OrderKept
  <2>1. SUFFICES ASSUME NEW q \in Requests, at[q] = "queued", at'[q] = "queued"
                 PROVE  KeepsOrder(q)
    BY DEF OrderKept
  <2>2. PICK r \in Requests : \/ Reject(r) \/ EnterAtOnce(r) \/ Queue(r) \/ Resume(r)
                             \/ Interrupt(r) \/ GiveUp(r) \/ Exit(r)
    BY <1>1 DEF Next
  <2>3. free \in Nat /\ free + 1 \in Nat
    BY <1>1 DEF GateInv, TypeOK
  <2>4. CASE Reject(r)
    <3>1. line' = line /\ at' = at
      BY <2>4 DEF Reject, vars
    <3>2. Ahead(q)' = Ahead(q)
      BY <3>1 DEF Ahead
    <3>3. QED
      BY <3>1, <3>2 DEF KeepsOrder
  <2>5. CASE EnterAtOnce(r) \/ Queue(r)
    BY <1>1, <2>1, <2>5, ArrivalKeepsOrder
  <2>6. CASE Resume(r)
    BY <1>1, <2>1, <2>3, <2>6, WakeKeepsOrder DEF Resume, WakeAll
  <2>7. CASE Interrupt(r)
    BY <1>1, <2>1, <2>7, InterruptKeepsOrder
  <2>8. CASE GiveUp(r)
    BY <1>1, <2>1, <2>3, <2>8, WakeKeepsOrder DEF GiveUp, WakeAll
  <2>9. CASE Exit(r)
    BY <1>1, <2>1, <2>3, <2>9, WakeKeepsOrder DEF Exit, Release
  <2>10. QED
    BY <2>2, <2>4, <2>5, <2>6, <2>7, <2>8, <2>9
<1>2. GateInv /\ [Next]_vars => [OrderKept]_vars
  BY <1>1
<1>3. QED
  BY <1>2, GateInvariant, PTL DEF Spec, NoOvertaking

(***************************************************************************)
(* The gate implements Admission.  A place is free whenever a permit is    *)
(* free or in the hands of a waiter, because the permits add up.           *)
(***************************************************************************)
\* The state functions the refinement maps the abstract variables to.
InsideNow == Those({"active"})
RoomNow   == Those({"queued", "granted", "revoked", "gone"})

\* A permit that is free, or handed to a waiter, is a free place.
LEMMA PlaceLeft ==
  ASSUME GateInv, NEW r \in Requests, free > 0 \/ at[r] = "granted"
  PROVE  Cardinality(InsideNow) < MaxConcurrent
<1>1. /\ free \in Nat
      /\ free + Cardinality(Those({"granted", "revoked", "active"})) = MaxConcurrent
  BY DEF GateInv, TypeOK, Accounting
<1>2. InsideNow \in SUBSET Those({"granted", "revoked", "active"})
  BY DEF InsideNow, Those
<1>3. /\ Cardinality(InsideNow) <= Cardinality(Those({"granted", "revoked", "active"}))
      /\ Cardinality(Those({"granted", "revoked", "active"})) = Cardinality(InsideNow)
           => Those({"granted", "revoked", "active"}) = InsideNow
  BY <1>2, ThoseFinite, FS_Subset
<1>4. /\ Cardinality(InsideNow) \in Nat
      /\ Cardinality(Those({"granted", "revoked", "active"})) \in Nat
  BY ThoseFinite DEF InsideNow
<1>5. CASE free > 0
  BY <1>1, <1>3, <1>4, <1>5
<1>6. CASE at[r] = "granted"
  <2>1. r \in Those({"granted", "revoked", "active"}) /\ r \notin InsideNow
    BY <1>6 DEF Those, InsideNow
  <2>2. Cardinality(InsideNow) # Cardinality(Those({"granted", "revoked", "active"}))
    BY <1>3, <2>1
  <2>3. QED
    BY <1>1, <1>3, <1>4, <2>2
<1>7. QED
  BY <1>5, <1>6

\* Whoever is not turned away finds a place or a seat.
LEMMA SeatLeft ==
  ASSUME GateInv, ~Overloaded
  PROVE  Cardinality(InsideNow) + Cardinality(RoomNow) < MaxConcurrent + MaxQueue
<1>1. active = Cardinality(InsideNow) /\ waiting = Cardinality(RoomNow)
  BY DEF GateInv, Accounting, InsideNow, RoomNow
<1>2. active \in Nat /\ waiting \in Nat
  BY DEF GateInv, TypeOK
<1>3. QED
  BY <1>1, <1>2 DEF Overloaded

\* The instance counts as this module does.
LEMMA SameCardinality ==
  ASSUME NEW S
  PROVE  AdmissionControl!Cardinality(S) = Cardinality(S)
BY DEF Cardinality, AdmissionControl!Cardinality

\* Each step of the gate is one of Admission's, or changes neither set.
LEMMA GateStepAdmits ==
  ASSUME GateInv, [Next]_vars
  PROVE  [AdmissionControl!Next]_<<Those({"active"}),
                                   Those({"queued", "granted", "revoked", "gone"})>>
<1> USE DEF InsideNow, RoomNow
<1>0. /\ at \in [Requests -> Places] /\ free \in Nat /\ free + 1 \in Nat
      /\ Len(line) \in Nat /\ LineOK
  BY LenProperties DEF GateInv, TypeOK, LineOK
<1>1. CASE UNCHANGED vars
  BY <1>1 DEF vars, Those
<1>2. CASE Next
  <2>1. PICK r \in Requests : \/ Reject(r) \/ EnterAtOnce(r) \/ Queue(r) \/ Resume(r)
                             \/ Interrupt(r) \/ GiveUp(r) \/ Exit(r)
    BY <1>2 DEF Next
  <2>2. CASE Reject(r)
    BY <2>2 DEF Reject, vars, Those
  <2>3. CASE EnterAtOnce(r)
    <3>1. /\ r \notin InsideNow \cup RoomNow
          /\ InsideNow' = InsideNow \cup {r} /\ RoomNow' = RoomNow
      BY <1>0, <2>3 DEF EnterAtOnce, Those
    <3>2. free > 0
      BY <1>0, <2>3 DEF EnterAtOnce, Locked
    <3>3. AdmissionControl!WalkIn(r)
      BY <2>3, <3>1, <3>2, PlaceLeft, SeatLeft, SameCardinality
         DEF EnterAtOnce, AdmissionControl!WalkIn, AdmissionControl!HasSeat, AdmissionControl!HasPlace
    <3>4. QED
      BY <3>3 DEF AdmissionControl!Next
  <2>4. CASE Queue(r)
    <3>1. /\ r \notin InsideNow \cup RoomNow
          /\ InsideNow' = InsideNow /\ RoomNow' = RoomNow \cup {r}
      BY <1>0, <2>4 DEF Queue, Those
    <3>2. AdmissionControl!Wait(r)
      BY <2>4, <3>1, SeatLeft, SameCardinality DEF Queue, AdmissionControl!Wait, AdmissionControl!HasSeat
    <3>3. QED
      BY <3>2 DEF AdmissionControl!Next
  <2>5. CASE Resume(r)
    <3>1. at[r] = "granted" /\ WakeAndMove(free, free, r, "active")
      BY <2>5 DEF Resume, WakeAll
    <3>2. Moved(Woken(free, free), free, r, "active")
      BY <1>0, <3>1, WakeSets
    <3>3. r \in RoomNow /\ InsideNow' = InsideNow \cup {r} /\ RoomNow' = RoomNow \ {r}
      BY <3>1, <3>2 DEF Moved, Those
    <3>4. AdmissionControl!Enter(r)
      BY <3>1, <3>3, PlaceLeft, SameCardinality DEF AdmissionControl!Enter, AdmissionControl!HasPlace
    <3>5. QED
      BY <3>4 DEF AdmissionControl!Next
  <2>6. CASE Interrupt(r)
    <3>1. InsideNow' = InsideNow /\ RoomNow' = RoomNow
      BY <1>0, <2>6 DEF Interrupt, Those
    <3>2. QED
      BY <3>1
  <2>7. CASE GiveUp(r)
    <3> DEFINE permits == IF at[r] = "revoked" THEN free + 1 ELSE free
    <3>1. /\ at[r] \in {"gone", "revoked"} /\ WakeAndMove(permits, permits, r, "out")
          /\ permits \in Nat
      BY <1>0, <2>7 DEF GiveUp, WakeAll
    <3>2. Moved(Woken(permits, permits), permits, r, "out")
      BY <3>1, WakeSets
    <3>3. r \in RoomNow /\ InsideNow' = InsideNow \ {r} /\ RoomNow' = RoomNow \ {r}
      BY <3>1, <3>2 DEF Moved, Those
    <3>4. InsideNow' = InsideNow
      BY <3>1, <3>3 DEF Those
    <3>5. AdmissionControl!GiveUp(r)
      BY <3>3, <3>4 DEF AdmissionControl!GiveUp
    <3>6. QED
      BY <3>5 DEF AdmissionControl!Next
  <2>8. CASE Exit(r)
    <3>1. at[r] = "active" /\ WakeAndMove(free + 1, 1, r, "out")
      BY <2>8 DEF Exit, Release
    <3>2. Moved(Woken(free + 1, 1), free + 1, r, "out")
      BY <1>0, <3>1, WakeSets
    <3>3. r \in InsideNow /\ InsideNow' = InsideNow \ {r} /\ RoomNow' = RoomNow \ {r}
      BY <3>1, <3>2 DEF Moved, Those
    <3>4. RoomNow' = RoomNow
      BY <3>1, <3>3 DEF Those
    <3>5. AdmissionControl!Leave(r)
      BY <3>3, <3>4 DEF AdmissionControl!Leave
    <3>6. QED
      BY <3>5 DEF AdmissionControl!Next
  <2>9. QED
    BY <2>1, <2>2, <2>3, <2>4, <2>5, <2>6, <2>7, <2>8
<1>3. QED
  BY <1>1, <1>2

\* Whatever is cancelled and when, the gate is a bounded waiting room in front of
\* MaxConcurrent places.
THEOREM GateImplementsAdmission == Spec => ImplementsAdmission
<1>1. Init => AdmissionControl!Init
  BY DEF Init, Those, AdmissionControl!Init
<1>2. GateInv /\ [Next]_vars
        => [AdmissionControl!Next]_<<Those({"active"}),
                                     Those({"queued", "granted", "revoked", "gone"})>>
  BY GateStepAdmits
<1>3. QED
  BY <1>1, <1>2, GateInvariant, PTL DEF Spec, ImplementsAdmission, AdmissionControl!Spec
-----------------------------------------------------------------------------
(* Single flight, the other place where chat requests wait for one another.*)
(* For any number of requests with one key, four invariants build on each  *)
(* other:                                                                  *)
(*   - types, with the owner of the marker past the point where it could   *)
(*     wait, so that nobody waits for itself;                              *)
(*   - WaiterHasWaker, which needs only that a marker is never replaced,   *)
(*     although anybody may pop it;                                        *)
(*   - AnswersGenuine, strengthened to the cached response and to the      *)
(*     requests not yet answered;                                          *)
(*   - QuietSingleFlight, strengthened to say that until something fails   *)
(*     the marker's owner is the only one past the door, and that no event *)
(*     is set while the cache is empty.                                    *)

USE NoneAssumption DEF NoneAssumption

OwnerPastTheDoor == inflight # None => pc[inflight] \notin {"new", "waiting"}

AnswersInv == /\ AnswersGenuine
              /\ cache # None => cache \in ran /\ answer[cache] = cache
              /\ \A r \in Callers : pc[r] = "upstream" => r \in ran
              /\ \A r \in Callers : pc[r] # "answered" => answer[r] = None

Past(r) == pc[r] \in {"planning", "upstream"}

QuietInv == ~troubled =>
              /\ \A r \in Callers : Past(r) => inflight = r
              /\ cache = None => /\ fired = {}
                                 /\ \A r \in ran : pc[r] = "upstream"
              /\ cache # None => /\ ran \subseteq {cache}
                                 /\ \A r \in Callers : ~Past(r)

FlightInv == /\ FlightTypeOK /\ OwnerPastTheDoor
             /\ WaiterHasWaker
             /\ AnswersInv
             /\ QuietInv

\* The initial state satisfies the inductive invariant.
LEMMA FlightBegins == FlightInit => FlightInv
BY DEF FlightInit, StoreInit, FlightInv, FlightTypeOK, StoreTypeOK,
       Stages, OwnerPastTheDoor, WaiterHasWaker, AnswersInv, AnswersGenuine,
       QuietInv, Past

\* Types, and the owner's place, are kept by every step.
LEMMA FlightTypeStep ==
  ASSUME FlightTypeOK, OwnerPastTheDoor, [FlightNext]_flightVars
  PROVE  FlightTypeOK' /\ OwnerPastTheDoor'
<1> USE DEF FlightTypeOK, StoreTypeOK, Stages,
            OwnerPastTheDoor, Goto, Answer
<1>1. ASSUME NEW r \in Callers, Arrive(r)
      PROVE  FlightTypeOK' /\ OwnerPastTheDoor'
  BY <1>1 DEF Arrive, AnswerFromCache, TakeOwnership, GetsCached,
              GetsNone, GetsMarker, Mark, storeVars
<1>2. ASSUME NEW r \in Callers, WakeUp(r)
      PROVE  FlightTypeOK' /\ OwnerPastTheDoor'
  BY <1>2 DEF WakeUp, AnswerFromCache, TakeOwnership, GetsCached,
              GetsNone, GetsMarker, Mark, storeVars
<1>3. ASSUME NEW r \in Callers, Plan(r) \/ BadRequest(r) \/ PostProcessingFails(r)
      PROVE  FlightTypeOK' /\ OwnerPastTheDoor'
  <2>1. /\ pc' \in [Callers -> Stages] /\ ran' \in SUBSET Callers
        /\ answer' \in [Callers -> Callers \cup {None}]
        /\ \A q \in Callers : pc'[q] = "waiting" => pc[q] = "waiting"
        /\ \A q \in Callers : pc'[q] = "new" => pc[q] = "new"
    BY <1>3 DEF Plan, BadRequest, PostProcessingFails
  <2>2. UNCHANGED <<cache, inflight, fired, ticket>>
    BY <1>3 DEF Plan, BadRequest, PostProcessingFails, storeVars
  <2>3. troubled' \in BOOLEAN
    BY <1>3 DEF Plan, BadRequest, PostProcessingFails
  <2>4. QED
    BY <2>1, <2>2, <2>3
<1>4. ASSUME NEW r \in Callers, Succeed(r) \/ Fail(r)
      PROVE  FlightTypeOK' /\ OwnerPastTheDoor'
  <2>1. /\ pc' \in [Callers -> Stages]
        /\ cache' \in Callers \cup {None}
        /\ answer' \in [Callers -> Callers \cup {None}]
        /\ \A q \in Callers : pc'[q] = "waiting" => pc[q] = "waiting"
    BY <1>4 DEF Succeed, Fail, Put, ReleaseKey
  <2>2. inflight' = None /\ fired' \in SUBSET Callers
    BY <1>4 DEF Succeed, Fail, Put, ReleaseKey, PopMarker
  <2>3. UNCHANGED <<ticket, ran>>
    BY <1>4 DEF Succeed, Fail
  <2>4. troubled' \in BOOLEAN
    BY <1>4 DEF Succeed, Fail
  <2>5. QED
    BY <2>1, <2>2, <2>3, <2>4
<1>5. CASE ResponseExpires
  BY <1>5 DEF ResponseExpires, Expire
<1>6. CASE UNCHANGED flightVars
  BY <1>6 DEF flightVars, storeVars
<1>7. QED
  BY <1>1, <1>2, <1>3, <1>4, <1>5, <1>6 DEF FlightNext, Handler

\* A marker goes only by being popped, and then its event is set.
LEMMA WakerStep ==
  ASSUME FlightTypeOK, WaiterHasWaker, [FlightNext]_flightVars
  PROVE  WaiterHasWaker'
<1> USE DEF FlightTypeOK, StoreTypeOK, WaiterHasWaker,
            Goto, Answer
<1>1. ASSUME NEW r \in Callers, Arrive(r)
      PROVE  WaiterHasWaker'
  BY <1>1 DEF Arrive, AnswerFromCache, TakeOwnership, GetsCached,
              GetsNone, GetsMarker, Mark, storeVars
<1>2. ASSUME NEW r \in Callers, WakeUp(r)
      PROVE  WaiterHasWaker'
  BY <1>2 DEF WakeUp, AnswerFromCache, TakeOwnership, GetsCached,
              GetsNone, GetsMarker, Mark, storeVars
<1>3. ASSUME NEW r \in Callers, Plan(r) \/ BadRequest(r) \/ PostProcessingFails(r)
      PROVE  WaiterHasWaker'
  BY <1>3 DEF Plan, BadRequest, PostProcessingFails, storeVars
<1>4. ASSUME NEW r \in Callers, Succeed(r) \/ Fail(r)
      PROVE  WaiterHasWaker'
  BY <1>4 DEF Succeed, Fail, Put, ReleaseKey, PopMarker
<1>5. CASE ResponseExpires
  BY <1>5 DEF ResponseExpires, Expire
<1>6. CASE UNCHANGED flightVars
  BY <1>6 DEF flightVars, storeVars
<1>7. QED
  BY <1>1, <1>2, <1>3, <1>4, <1>5, <1>6 DEF FlightNext, Handler

\* A response enters the cache with its producer's own answer, and answers given
\* are never changed.
LEMMA AnswersStep ==
  ASSUME FlightTypeOK, AnswersInv, [FlightNext]_flightVars
  PROVE  AnswersInv'
<1> USE DEF FlightTypeOK, StoreTypeOK, AnswersInv,
            AnswersGenuine, Goto, Answer
<1>1. ASSUME NEW r \in Callers, Arrive(r)
      PROVE  AnswersInv'
  BY <1>1 DEF Arrive, AnswerFromCache, TakeOwnership, GetsCached,
              GetsNone, GetsMarker, Mark, storeVars
<1>2. ASSUME NEW r \in Callers, WakeUp(r)
      PROVE  AnswersInv'
  BY <1>2 DEF WakeUp, AnswerFromCache, TakeOwnership, GetsCached,
              GetsNone, GetsMarker, Mark, storeVars
<1>3. ASSUME NEW r \in Callers, Plan(r) \/ BadRequest(r) \/ PostProcessingFails(r)
      PROVE  AnswersInv'
  BY <1>3 DEF Plan, BadRequest, PostProcessingFails, storeVars
<1>4. ASSUME NEW r \in Callers, Succeed(r) \/ Fail(r)
      PROVE  AnswersInv'
  BY <1>4 DEF Succeed, Fail, Put, ReleaseKey, PopMarker
<1>5. CASE ResponseExpires
  BY <1>5 DEF ResponseExpires, Expire
<1>6. CASE UNCHANGED flightVars
  BY <1>6 DEF flightVars, storeVars
<1>7. QED
  BY <1>1, <1>2, <1>3, <1>4, <1>5, <1>6 DEF FlightNext, Handler

\* Until something fails, the owner of the marker is alone past the door.
LEMMA QuietStep ==
  ASSUME FlightTypeOK, AnswersInv, QuietInv, [FlightNext]_flightVars
  PROVE  QuietInv'
<1> USE DEF FlightTypeOK, StoreTypeOK, QuietInv, Past,
            Goto, Answer
<1>1. ASSUME NEW r \in Callers, Arrive(r)
      PROVE  QuietInv'
  <2>1. CASE AnswerFromCache(r)
    BY <1>1, <2>1 DEF Arrive, AnswerFromCache, GetsCached, storeVars
  <2>2. CASE TakeOwnership(r)
    BY <1>1, <2>2 DEF Arrive, AnswersInv, TakeOwnership, GetsNone,
                      Mark
  <2>3. CASE ~AnswerFromCache(r) /\ ~TakeOwnership(r)
    BY <1>1, <2>3 DEF Arrive, GetsMarker, storeVars
  <2>4. QED
    BY <2>1, <2>2, <2>3
<1>2. ASSUME NEW r \in Callers, WakeUp(r)
      PROVE  QuietInv'
  <2>1. CASE AnswerFromCache(r)
    BY <1>2, <2>1 DEF WakeUp, AnswerFromCache, GetsCached, storeVars
  <2>2. CASE ~AnswerFromCache(r)
    BY <1>2, <2>2 DEF WakeUp, TakeOwnership, GetsNone, GetsMarker
  <2>3. QED
    BY <2>1, <2>2
<1>3. ASSUME NEW r \in Callers, Plan(r)
      PROVE  QuietInv'
  BY <1>3 DEF Plan, storeVars
<1>4. ASSUME NEW r \in Callers, Succeed(r)
      PROVE  QuietInv'
  BY <1>4 DEF Succeed, Put, PopMarker
<1>5. ASSUME NEW r \in Callers, BadRequest(r) \/ Fail(r) \/ PostProcessingFails(r)
      PROVE  QuietInv'
  BY <1>5 DEF BadRequest, Fail, PostProcessingFails
<1>6. CASE ResponseExpires
  BY <1>6 DEF ResponseExpires
<1>7. CASE UNCHANGED flightVars
  BY <1>7 DEF flightVars, storeVars
<1>8. QED
  BY <1>1, <1>2, <1>3, <1>4, <1>5, <1>6, <1>7 DEF FlightNext, Handler

\* The invariant is inductive.
LEMMA FlightStep == FlightInv /\ [FlightNext]_flightVars => FlightInv'
BY FlightTypeStep, WakerStep, AnswersStep, QuietStep DEF FlightInv

\* Every behaviour of the specification satisfies the invariant.
THEOREM FlightInvariant == FlightSpec => []FlightInv
BY FlightBegins, FlightStep, PTL DEF FlightSpec

\* The store's and the handlers' state keep their types; nobody waits for itself.
THEOREM FlightTypeCorrect == FlightSpec => []FlightTypeOK
<1>1. FlightInv => FlightTypeOK
  BY DEF FlightInv
<1>2. QED
  BY FlightInvariant, <1>1, PTL

\* No wake-up is lost, whoever pops whose marker.
THEOREM NobodyWaitsInVain == FlightSpec => []WaiterHasWaker
<1>1. FlightInv => WaiterHasWaker
  BY DEF FlightInv
<1>2. QED
  BY FlightInvariant, <1>1, PTL

\* Whatever is returned was produced upstream, by the request it is named after.
THEOREM AnswersAreGenuine == FlightSpec => []AnswersGenuine
<1>1. FlightInv => AnswersGenuine
  BY DEF FlightInv, AnswersInv
<1>2. QED
  BY FlightInvariant, <1>1, PTL

\* Until something fails or expires, one request per key runs upstream.
THEOREM SingleFlightWhileQuiet == FlightSpec => []QuietSingleFlight
<1>1. ASSUME FlightInv, ~troubled,
             NEW r \in ran \cup {q \in Callers : pc[q] = "planning"},
             NEW s \in ran \cup {q \in Callers : pc[q] = "planning"}
      PROVE  r = s
  <2>1. r \in Callers /\ s \in Callers
    BY <1>1 DEF FlightInv, FlightTypeOK
  <2>2. CASE cache = None
    BY <1>1, <2>1, <2>2 DEF FlightInv, QuietInv, Past
  <2>3. CASE cache # None
    BY <1>1, <2>1, <2>3 DEF FlightInv, QuietInv, Past
  <2>4. QED
    BY <2>2, <2>3
<1>2. FlightInv => QuietSingleFlight
  BY <1>1 DEF QuietSingleFlight
<1>3. QED
  BY FlightInvariant, <1>2, PTL
=============================================================================
