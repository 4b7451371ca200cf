------------------------- MODULE ArenaStreamProofs -------------------------
(***************************************************************************)
(* A stream that comes in chunks is the stream that comes whole:           *)
(* ArenaStream implements WholeStream, for every wire that is well         *)
(* encoded, every cutting into chunks, and whatever the lines say.  And    *)
(* what is heard of it is what its blocks mean, if each means alone what   *)
(* it is to mean.                                                          *)
(*                                                                         *)
(* The first part is about Decode, which flattens a sequence of            *)
(* pieces. FlattenSeq reads its result from a recursive table, so that it  *)
(* takes the pieces one by one is an induction on their number; it is made *)
(* over a set of numbers, from the least number that is not in it. With    *)
(* FlattenConcat, text that is cut between characters decodes to what it   *)
(* does uncut (DecodeUncut), and text cut inside one to the same with that *)
(* character damaged twice (DecodeCut).                                    *)
(*                                                                         *)
(* The refinement then goes step by step: a chunk is a stutter or the      *)
(* damage of a character, a line that is handled is the first of what is   *)
(* left of the text.                                                       *)
(*                                                                         *)
(* The rest is about meaning.  MeaningInv says where the reading is: so    *)
(* many blocks are handled, and so many lines of the next.  What is        *)
(* buffered is the text of the bytes that follow (NextLine), the decoder   *)
(* has what it would have of that block alone (LineAgrees), and the blank  *)
(* line adds what the block says to what was said before (EventPlus,       *)
(* MeantStep).                                                             *)
(***************************************************************************)
EXTENDS ArenaStream, SequenceTheorems, WellFoundedInduction, TLAPS

-----------------------------------------------------------------------------
(* Induction, and flattening.                                              *)

\* A set of numbers has a least one.
LEMMA LeastNat ==
  ASSUME NEW T, T \subseteq Nat, T # {}
  PROVE  \E x \in T : \A y \in T : x <= y
<1>1. PICK x \in T : \A y \in T : ~ (<<y, x>> \in OpToRel(<, Nat))
  BY NatLessThanWellFounded, WFMin
<1>2. \A y \in T : ~(y < x)
  BY <1>1 DEF OpToRel
<1> QED BY <1>2

\* Induction, for a set of numbers.
LEMMA Induction ==
  ASSUME NEW A, 0 \in A, \A n \in Nat : n \in A => n + 1 \in A
  PROVE  Nat \subseteq A
<1> SUFFICES ASSUME Nat \ A # {} PROVE FALSE
  OBVIOUS
<1>1. PICK x \in Nat \ A : \A y \in Nat \ A : x <= y
  BY LeastNat
<1>2. x # 0 /\ x - 1 \in Nat /\ x = (x - 1) + 1
  BY <1>1
<1>3. x - 1 \in A
  BY <1>1, <1>2
<1> QED BY <1>1, <1>2, <1>3

\* The table FlattenSeq reads its result from.
Table(s, f) == f = [i \in 1 .. Len(s) |-> IF i = 1 THEN s[i] ELSE f[i - 1] \o s[i]]

\* Every sequence has one, because for every n there is one with n rows.
LEMMA TableExists ==
  ASSUME NEW S, NEW s \in Seq(S)
  PROVE  \E f : Table(s, f)
<1> DEFINE Begun(n, f) == f = [i \in 1 .. n |-> IF i = 1 THEN s[i] ELSE f[i - 1] \o s[i]]
           A == {n \in Nat : \E f : Begun(n, f)}
<1>1. 0 \in A
  <2>1. Begun(0, [i \in 1 .. 0 |-> 0])
    OBVIOUS
  <2> QED BY <2>1
<1>2. ASSUME NEW n \in Nat, n \in A
      PROVE  n + 1 \in A
  <2>1. PICK f : Begun(n, f)
    BY <1>2
  <2> DEFINE g == [i \in 1 .. n + 1 |->
                     IF i <= n THEN f[i] ELSE IF n = 0 THEN s[1] ELSE f[n] \o s[n + 1]]
  <2>0. \A i \in 1 .. n + 1 :
           g[i] = IF i <= n THEN f[i] ELSE IF n = 0 THEN s[1] ELSE f[n] \o s[n + 1]
    OBVIOUS
  <2> HIDE DEF g
  <2>2. ASSUME NEW i \in 1 .. n + 1
        PROVE  g[i] = IF i = 1 THEN s[i] ELSE g[i - 1] \o s[i]
    <3>1. CASE i <= n
      <4>0. i \in 1 .. n /\ (i # 1 => i - 1 \in 1 .. n + 1 /\ i - 1 <= n)
        BY <3>1
      <4>1. f[i] = IF i = 1 THEN s[i] ELSE f[i - 1] \o s[i]
        BY <2>1, <4>0
      <4>2. g[i] = f[i] /\ (i # 1 => g[i - 1] = f[i - 1])
        BY <2>0, <3>1, <4>0
      <4> QED BY <4>1, <4>2
    <3>2. CASE i = n + 1 /\ n = 0
      BY <2>0, <3>2
    <3>3. CASE i = n + 1 /\ n # 0
      <4>1. i - 1 = n /\ n \in 1 .. n + 1 /\ i # 1 /\ ~(i <= n)
        BY <3>3
      <4>2. g[i] = f[n] \o s[n + 1]
        BY <2>0, <3>3, <4>1
      <4>3. g[n] = f[n]
        BY <2>0, <3>3, <4>1
      <4> QED BY <3>3, <4>1, <4>2, <4>3
    <3> QED BY <3>1, <3>2, <3>3
  <2>3. Begun(n + 1, g)
    <3>1. g = [i \in 1 .. n + 1 |-> g[i]]
      BY DEF g
    <3> QED BY <2>2, <3>1
  <2> HIDE DEF Begun
  <2> QED BY <2>3
<1> HIDE DEF Begun
<1>3. Len(s) \in A
  <2> HIDE DEF A
  <2> QED BY <1>1, <1>2, Induction, LenProperties
<1>4. PICK f : Begun(Len(s), f)
  BY <1>3
<1>5. Table(s, f)
  BY <1>4 DEF Begun, Table
<1> QED BY <1>5

\* FlattenSeq is the last row of a table.
LEMMA FlattenIsTable ==
  ASSUME NEW S, NEW s \in Seq(S), Len(s) # 0
  PROVE  \E f : Table(s, f) /\ FlattenSeq(s) = f[Len(s)]
<1> DEFINE F == CHOOSE f : Table(s, f)
<1>1. Table(s, F)
  BY TableExists
<1>2. FlattenSeq(s) = F[Len(s)]
  BY DEF FlattenSeq, Table
<1> QED BY <1>1, <1>2

\* Sequences that begin alike have tables that begin alike.
LEMMA TableUnique ==
  ASSUME NEW s, NEW t, Len(s) \in Nat, Len(t) \in Nat, NEW f, NEW g, Table(s, f), Table(t, g),
         NEW m \in Nat, m <= Len(s), m <= Len(t), \A i \in 1 .. m : s[i] = t[i]
  PROVE  \A i \in 1 .. m : f[i] = g[i]
<1> DEFINE A == {n \in Nat : n \in 1 .. m => f[n] = g[n]}
<1>1. 0 \in A
  OBVIOUS
<1>2. ASSUME NEW n \in Nat, n \in A
      PROVE  n + 1 \in A
  <2> SUFFICES ASSUME n + 1 \in 1 .. m PROVE f[n + 1] = g[n + 1]
    OBVIOUS
  <2>1. n + 1 \in 1 .. Len(s) /\ n + 1 \in 1 .. Len(t)
    OBVIOUS
  <2>2. f[n + 1] = IF n + 1 = 1 THEN s[n + 1] ELSE f[(n + 1) - 1] \o s[n + 1]
    BY <2>1 DEF Table
  <2>3. g[n + 1] = IF n + 1 = 1 THEN t[n + 1] ELSE g[(n + 1) - 1] \o t[n + 1]
    BY <2>1 DEF Table
  <2>4. n + 1 # 1 => f[n] = g[n]
    BY <1>2
  <2>5. (n + 1) - 1 = n /\ s[n + 1] = t[n + 1]
    OBVIOUS
  <2> QED BY <2>2, <2>3, <2>4, <2>5
<1>3. Nat \subseteq A
  <2> HIDE DEF A
  <2> QED BY <1>1, <1>2, Induction
<1> QED BY <1>3

\* A table for one sequence more has one row more.
LEMMA TableAppend ==
  ASSUME NEW s, NEW t, NEW n \in Nat, Len(s) = n, Len(t) = n + 1, \A i \in 1 .. n : s[i] = t[i],
         NEW f, NEW g, Table(s, f), Table(t, g)
  PROVE  g[n + 1] = IF n = 0 THEN t[n + 1] ELSE f[n] \o t[n + 1]
<1>1. n + 1 \in 1 .. Len(t) /\ (n # 0 => n + 1 # 1) /\ (n + 1) - 1 = n
  OBVIOUS
<1>2. g[n + 1] = IF n + 1 = 1 THEN t[n + 1] ELSE g[(n + 1) - 1] \o t[n + 1]
  BY <1>1 DEF Table
<1>3. \A i \in 1 .. n : f[i] = g[i]
  BY TableUnique
<1>4. n # 0 => f[n] = g[n]
  BY <1>3
<1> QED BY <1>1, <1>2, <1>4

\* Flattening, piece by piece.
LEMMA FlattenAppend ==
  \A S : \A s \in Seq(Seq(S)), x \in Seq(S) : FlattenSeq(s) \in Seq(S) =>
     FlattenSeq(Append(s, x)) = FlattenSeq(s) \o x /\ FlattenSeq(Append(s, x)) \in Seq(S)
<1>1. SUFFICES ASSUME NEW S, NEW s, NEW x,
                      s \in Seq(Seq(S)), x \in Seq(S), FlattenSeq(s) \in Seq(S)
               PROVE  /\ FlattenSeq(Append(s, x)) = FlattenSeq(s) \o x
                      /\ FlattenSeq(Append(s, x)) \in Seq(S)
  OBVIOUS
<1>2. PICK n \in Nat : n = Len(s)
  BY <1>1, LenProperties
<1>3. PICK t : t \in Seq(Seq(S)) /\ t = Append(s, x)
  BY <1>1, AppendProperties
<1>4. Len(t) = n + 1 /\ t[n + 1] = x /\ \A i \in 1 .. n : s[i] = t[i]
  BY <1>1, <1>2, <1>3, AppendProperties
<1>5. PICK g : Table(t, g) /\ FlattenSeq(t) = g[n + 1]
  <2>1. Len(t) # 0
    BY <1>4
  <2>2. \E g : Table(t, g) /\ FlattenSeq(t) = g[Len(t)]
    BY <1>3, <2>1, FlattenIsTable
  <2> QED BY <1>4, <2>2
<1>6. FlattenSeq(t) = FlattenSeq(s) \o x
  <2>1. CASE n = 0
    <3>1. s = <<>> /\ FlattenSeq(s) = s
      BY <1>1, <1>2, <2>1, EmptySeq DEF FlattenSeq
    <3>2. g[n + 1] = t[n + 1]
      BY <1>4, <1>5, <2>1 DEF Table
    <3> QED BY <1>1, <1>4, <1>5, <3>1, <3>2
  <2>2. CASE n # 0
    <3>1. PICK f : Table(s, f) /\ FlattenSeq(s) = f[n]
      BY <1>1, <1>2, <2>2, FlattenIsTable
    <3>2. g[n + 1] = IF n = 0 THEN t[n + 1] ELSE f[n] \o t[n + 1]
      <4>1. Table(s, f) /\ Table(t, g) /\ Len(s) = n
        BY <1>2, <1>5, <3>1
      <4> QED BY <1>4, <4>1, TableAppend
    <3> QED BY <1>4, <1>5, <2>2, <3>1, <3>2
  <2> QED BY <2>1, <2>2
<1> QED BY <1>1, <1>3, <1>6, ConcatProperties

\* What is flattened is a sequence again.
LEMMA FlattenType ==
  ASSUME NEW S
  PROVE  \A s \in Seq(Seq(S)) : FlattenSeq(s) \in Seq(S)
<1> DEFINE A == {n \in Nat : \A s \in Seq(Seq(S)) : Len(s) = n => FlattenSeq(s) \in Seq(S)}
<1>1. 0 \in A
  BY EmptySeq DEF FlattenSeq
<1>2. ASSUME NEW n \in Nat, n \in A
      PROVE  n + 1 \in A
  <2> SUFFICES ASSUME NEW s \in Seq(Seq(S)), Len(s) = n + 1
               PROVE  FlattenSeq(s) \in Seq(S)
    OBVIOUS
  <2>1. s # <<>>
    BY EmptySeq
  <2>2. PICK r \in Seq(Seq(S)), x \in Seq(S) : s = Append(r, x)
    BY <2>1, SequenceEmptyOrAppend
  <2>3. Len(r) = n
    BY <2>2, AppendProperties, LenProperties
  <2>4. FlattenSeq(r) \in Seq(S)
    BY <1>2, <2>3
  <2> QED BY <2>2, <2>4, FlattenAppend
<1>3. Nat \subseteq A
  <2> HIDE DEF A
  <2> QED BY <1>1, <1>2, Induction
<1> QED BY <1>3, LenProperties

\* Sequences of pieces can be flattened one after the other.
LEMMA FlattenConcat ==
  ASSUME NEW S, NEW p \in Seq(Seq(S))
  PROVE  \A q \in Seq(Seq(S)) : FlattenSeq(p \o q) = FlattenSeq(p) \o FlattenSeq(q)
<1> DEFINE A == {n \in Nat : \A q \in Seq(Seq(S)) :
                     Len(q) = n => FlattenSeq(p \o q) = FlattenSeq(p) \o FlattenSeq(q)}
<1>0. FlattenSeq(p) \in Seq(S)
  BY FlattenType
<1>a. \A a, b, c \in Seq(S) : (a \o b) \o c = a \o (b \o c)
  BY ConcatAssociative
<1>b. \A a, b, c \in Seq(Seq(S)) : (a \o b) \o c = a \o (b \o c)
  BY ConcatAssociative, SMTT(30)
<1>1. 0 \in A
  <2> SUFFICES ASSUME NEW q \in Seq(Seq(S)), Len(q) = 0
               PROVE  FlattenSeq(p \o q) = FlattenSeq(p) \o FlattenSeq(q)
    OBVIOUS
  <2>1. q = <<>> /\ FlattenSeq(q) = <<>>
    BY EmptySeq DEF FlattenSeq
  <2>2. p \o q = p
    BY <2>1, ConcatEmptySeq
  <2>3. FlattenSeq(p) \o <<>> = FlattenSeq(p)
    BY <1>0, ConcatEmptySeq
  <2> QED BY <2>1, <2>2, <2>3
<1>2. ASSUME NEW n \in Nat, n \in A
      PROVE  n + 1 \in A
  <2> SUFFICES ASSUME NEW q \in Seq(Seq(S)), Len(q) = n + 1
               PROVE  FlattenSeq(p \o q) = FlattenSeq(p) \o FlattenSeq(q)
    OBVIOUS
  <2>1. q # <<>>
    BY EmptySeq
  <2>2. PICK r \in Seq(Seq(S)), x \in Seq(S) : q = Append(r, x)
    BY <2>1, SequenceEmptyOrAppend
  <2>3. Len(r) = n
    BY <2>2, AppendProperties, LenProperties
  <2>4. FlattenSeq(p \o r) = FlattenSeq(p) \o FlattenSeq(r)
    BY <1>2, <2>3
  <2>5. p \o r \in Seq(Seq(S)) /\ FlattenSeq(r) \in Seq(S) /\ FlattenSeq(p \o r) \in Seq(S)
    BY FlattenType, ConcatProperties
  <2>6. p \o q = Append(p \o r, x)
    <3>1. q = r \o <<x>> /\ Append(p \o r, x) = (p \o r) \o <<x>> /\ <<x>> \in Seq(Seq(S))
      BY <2>2, <2>5, AppendIsConcat
    <3>2. r \in Seq(Seq(S)) /\ p \in Seq(Seq(S))
      OBVIOUS
    <3> HIDE DEF A
    <3>3. (p \o r) \o <<x>> = p \o (r \o <<x>>)
      BY <1>b, <3>1, <3>2, SMTT(30)
    <3> QED BY <3>1, <3>3
  <2>7. FlattenSeq(p \o q) = FlattenSeq(p \o r) \o x
    BY <2>5, <2>6, FlattenAppend
  <2>8. FlattenSeq(q) = FlattenSeq(r) \o x
    BY <2>2, <2>5, FlattenAppend
  <2>9. (FlattenSeq(p) \o FlattenSeq(r)) \o x = FlattenSeq(p) \o (FlattenSeq(r) \o x)
    BY <1>0, <1>a, <2>5
  <2> QED BY <2>4, <2>7, <2>8, <2>9
<1>3. Nat \subseteq A
  <2> HIDE DEF A
  <2> QED BY <1>1, <1>2, Induction
<1> QED BY <1>3, LenProperties

\* One piece alone is itself.
LEMMA FlattenOne ==
  ASSUME NEW S, NEW x \in Seq(S)
  PROVE  FlattenSeq(<<x>>) = x
<1>1. <<>> \in Seq(Seq(S)) /\ FlattenSeq(<<>>) = <<>> /\ <<>> \in Seq(S)
  BY EmptySeq DEF FlattenSeq
<1>2. FlattenSeq(Append(<<>>, x)) = <<>> \o x
  BY <1>1, FlattenAppend
<1> QED BY <1>2, ConcatEmptySeq

-----------------------------------------------------------------------------
(* Cutting a sequence that is a concatenation.                             *)

\* The elements k + 1 .. k + n.
LEMMA Slice ==
  \A S : \A s \in Seq(S), k, n \in Nat : k + n <= Len(s) =>
     /\ SubSeq(s, k + 1, k + n) \in Seq(S) /\ Len(SubSeq(s, k + 1, k + n)) = n
     /\ \A i \in 1 .. n : SubSeq(s, k + 1, k + n)[i] = s[k + i]
<1> SUFFICES ASSUME NEW S, NEW s \in Seq(S), NEW k \in Nat, NEW n \in Nat, k + n <= Len(s)
             PROVE  /\ SubSeq(s, k + 1, k + n) \in Seq(S) /\ Len(SubSeq(s, k + 1, k + n)) = n
                    /\ \A i \in 1 .. n : SubSeq(s, k + 1, k + n)[i] = s[k + i]
  OBVIOUS
<1>1. \A i \in k + 1 .. k + n : s[i] \in S
  BY LenProperties, ElementOfSeq
<1>2. /\ SubSeq(s, k + 1, k + n) \in Seq(S)
      /\ Len(SubSeq(s, k + 1, k + n)) = IF k + 1 <= k + n THEN (k + n) - (k + 1) + 1 ELSE 0
      /\ \A i \in 1 .. (k + n) - (k + 1) + 1 : SubSeq(s, k + 1, k + n)[i] = s[(k + 1) + i - 1]
  BY <1>1, SubSeqProperties
<1> QED BY <1>2

\* A cut in the first part of a concatenation.
LEMMA CutFirst ==
  ASSUME NEW S, NEW u \in Seq(S), NEW v \in Seq(S), NEW p \in 0 .. Len(u), NEW s, s = u \o v
  PROVE  /\ SubSeq(s, 1, p) = SubSeq(u, 1, p)
         /\ SubSeq(s, p + 1, Len(s)) = SubSeq(u, p + 1, Len(u)) \o v
<1>1. /\ u \o v \in Seq(S) /\ Len(u \o v) = Len(u) + Len(v)
      /\ \A i \in 1 .. Len(u) + Len(v) : (u \o v)[i] = IF i <= Len(u) THEN u[i] ELSE v[i - Len(u)]
  BY ConcatProperties
<1>2. Len(u) \in Nat /\ Len(v) \in Nat
  BY LenProperties
<1>3. SubSeq(u \o v, 1, p) = SubSeq(u, 1, p)
  <2>1. /\ SubSeq(u, 1, p) \in Seq(S) /\ Len(SubSeq(u, 1, p)) = p
        /\ \A i \in 1 .. p : SubSeq(u, 1, p)[i] = u[i]
    BY <1>2, SubSeqProperties
  <2>2. /\ SubSeq(u \o v, 1, p) \in Seq(S) /\ Len(SubSeq(u \o v, 1, p)) = p
        /\ \A i \in 1 .. p : SubSeq(u \o v, 1, p)[i] = (u \o v)[i]
    BY <1>1, <1>2, SubSeqProperties
  <2>3. \A i \in 1 .. p : (u \o v)[i] = u[i]
    BY <1>1, <1>2
  <2> QED BY <2>1, <2>2, <2>3, SeqEqual
<1>4. SubSeq(u \o v, p + 1, Len(u \o v)) = SubSeq(u, p + 1, Len(u)) \o v
  <2> DEFINE n == Len(u) - p
             w == SubSeq(u, p + 1, Len(u))
             x == SubSeq(u \o v, p + 1, Len(u) + Len(v))
  <2>1. w \in Seq(S) /\ Len(w) = n /\ \A i \in 1 .. n : w[i] = u[p + i]
    BY <1>2, SubSeqProperties
  <2>2. /\ x \in Seq(S) /\ Len(x) = n + Len(v)
        /\ \A i \in 1 .. n + Len(v) : x[i] = (u \o v)[p + i]
    BY <1>1, <1>2, SubSeqProperties
  <2> HIDE DEF w, x
  <2>3. /\ w \o v \in Seq(S) /\ Len(w \o v) = n + Len(v)
        /\ \A i \in 1 .. n + Len(v) : (w \o v)[i] = IF i <= n THEN w[i] ELSE v[i - n]
    <3>1. /\ w \o v \in Seq(S) /\ Len(w \o v) = Len(w) + Len(v)
          /\ \A i \in 1 .. Len(w) + Len(v) :
                (w \o v)[i] = IF i <= Len(w) THEN w[i] ELSE v[i - Len(w)]
      BY <2>1, ConcatProperties
    <3>2. Len(w) = n
      BY <2>1
    <3> HIDE DEF n
    <3> QED BY <3>1, <3>2
  <2>4. ASSUME NEW i \in 1 .. n + Len(v)
        PROVE  x[i] = (w \o v)[i]
    <3>1. p + i \in 1 .. Len(u) + Len(v) /\ (p + i) - Len(u) = i - n /\ (p + i <= Len(u) <=> i <= n)
      BY <1>2
    <3>2. x[i] = IF i <= n THEN u[p + i] ELSE v[i - n]
      BY <1>1, <2>2, <3>1
    <3>3. i <= n => i \in 1 .. n
      OBVIOUS
    <3> QED BY <2>1, <2>3, <3>2, <3>3
  <2>5. x = w \o v
    BY <2>2, <2>3, <2>4, SeqEqual
  <2> QED BY <1>1, <2>5 DEF w, x
<1> QED BY <1>3, <1>4

-----------------------------------------------------------------------------
(* Decoding in pieces.                                                     *)

\* What the ith token decodes to.
Piece(bytes, i) ==
    CASE bytes[i] = "hi" -> IF i < Len(bytes) THEN <<"char">> ELSE <<"damage">>
      [] bytes[i] = "lo" -> IF i = 1 THEN <<"damage">> ELSE <<>>
      [] OTHER -> <<bytes[i]>>
Pieces(bytes) == [i \in DOMAIN bytes |-> Piece(bytes, i)]

\* A piece is text.
LEMMA PieceType ==
  ASSUME NEW b \in Seq(Tokens), NEW i \in 1 .. Len(b)
  PROVE  Piece(b, i) \in Seq(Tokens)
<1>1. b[i] \in Tokens
  BY ElementOfSeq
<1>2. \A x \in Tokens : <<x>> \in Seq(Tokens)
  OBVIOUS
<1>3. "char" \in Tokens /\ "damage" \in Tokens /\ <<>> \in Seq(Tokens)
  BY BlockAssumption DEF BlockAssumption
<1> QED BY <1>1, <1>2, <1>3 DEF Piece

\* Decode flattens the pieces.
LEMMA PiecesType ==
  ASSUME NEW b \in Seq(Tokens)
  PROVE  /\ Pieces(b) \in Seq(Seq(Tokens)) /\ Len(Pieces(b)) = Len(b)
         /\ \A i \in 1 .. Len(b) : Pieces(b)[i] = Piece(b, i)
         /\ Decode(b) = FlattenSeq(Pieces(b))
         /\ Decode(b) \in Seq(Tokens)
<1>1. Len(b) \in Nat /\ DOMAIN b = 1 .. Len(b)
  BY LenProperties
<1>2. \A i \in 1 .. Len(b) : Piece(b, i) \in Seq(Tokens)
  BY PieceType
<1>3. Pieces(b) \in Seq(Seq(Tokens)) /\ Len(Pieces(b)) = Len(b)
  BY <1>1, <1>2 DEF Pieces
<1>4. \A i \in 1 .. Len(b) : Pieces(b)[i] = Piece(b, i)
  BY <1>1 DEF Pieces
<1>5. Decode(b) = FlattenSeq(Pieces(b))
  BY DEF Decode, Pieces, Piece
<1> QED BY <1>3, <1>4, <1>5, FlattenType

\* Cut between characters, text is decoded in pieces as it is whole.
LEMMA DecodeUncut ==
  ASSUME NEW a \in Seq(Tokens), NEW b \in Seq(Tokens),
         Len(a) = 0 \/ a[Len(a)] # "hi", Len(b) = 0 \/ b[1] # "lo"
  PROVE  Decode(a \o b) = Decode(a) \o Decode(b)
<1>1. /\ a \o b \in Seq(Tokens) /\ Len(a \o b) = Len(a) + Len(b)
      /\ \A i \in 1 .. Len(a) + Len(b) : (a \o b)[i] = IF i <= Len(a) THEN a[i] ELSE b[i - Len(a)]
  BY ConcatProperties
<1>2. Len(a) \in Nat /\ Len(b) \in Nat
  BY LenProperties
<1>3. ASSUME NEW i \in 1 .. Len(a) + Len(b)
      PROVE  Piece(a \o b, i) = IF i <= Len(a) THEN Piece(a, i) ELSE Piece(b, i - Len(a))
  <2>1. CASE i <= Len(a)
    <3>1. (a \o b)[i] = a[i] /\ (a[i] = "hi" => i < Len(a))
      BY <1>1, <1>2, <2>1
    <3>2. i < Len(a) => i < Len(a \o b)
      BY <1>1, <1>2
    <3> QED BY <2>1, <3>1, <3>2 DEF Piece
  <2>2. CASE ~(i <= Len(a))
    <3> DEFINE j == i - Len(a)
    <3>1. (a \o b)[i] = b[j] /\ j \in 1 .. Len(b)
      BY <1>1, <1>2, <2>2
    <3>2. (i < Len(a \o b)) <=> (j < Len(b))
      BY <1>1, <1>2, <2>2
    <3>3. b[j] = "lo" => (i = 1 <=> j = 1)
      BY <1>2, <2>2, <3>1
    <3> QED BY <2>2, <3>1, <3>2, <3>3 DEF Piece
  <2> QED BY <2>1, <2>2
<1>4. /\ Pieces(a) \o Pieces(b) \in Seq(Seq(Tokens))
      /\ Len(Pieces(a) \o Pieces(b)) = Len(a) + Len(b)
      /\ \A i \in 1 .. Len(a) + Len(b) : (Pieces(a) \o Pieces(b))[i] =
            IF i <= Len(a) THEN Pieces(a)[i] ELSE Pieces(b)[i - Len(a)]
  <2>1. \A s, t \in Seq(Seq(Tokens)) :
           /\ s \o t \in Seq(Seq(Tokens)) /\ Len(s \o t) = Len(s) + Len(t)
           /\ \A i \in 1 .. Len(s) + Len(t) :
                 (s \o t)[i] = IF i <= Len(s) THEN s[i] ELSE t[i - Len(s)]
    BY ConcatProperties
  <2>2. PICK s \in Seq(Seq(Tokens)) : s = Pieces(a) /\ Len(s) = Len(a)
    BY PiecesType
  <2>3. PICK t \in Seq(Seq(Tokens)) : t = Pieces(b) /\ Len(t) = Len(b)
    BY PiecesType
  <2>4. /\ s \o t \in Seq(Seq(Tokens)) /\ Len(s \o t) = Len(s) + Len(t)
        /\ \A i \in 1 .. Len(s) + Len(t) :
              (s \o t)[i] = IF i <= Len(s) THEN s[i] ELSE t[i - Len(s)]
    BY <2>1
  <2> QED BY <2>2, <2>3, <2>4
<1>5. Pieces(a \o b) = Pieces(a) \o Pieces(b)
  <2>1. /\ Pieces(a \o b) \in Seq(Seq(Tokens)) /\ Len(Pieces(a \o b)) = Len(a) + Len(b)
        /\ \A i \in 1 .. Len(a) + Len(b) : Pieces(a \o b)[i] = Piece(a \o b, i)
    BY <1>1, PiecesType
  <2>2. ASSUME NEW i \in 1 .. Len(a) + Len(b)
        PROVE  Pieces(a \o b)[i] = (Pieces(a) \o Pieces(b))[i]
    <3>1. CASE i <= Len(a)
      <4>1. i \in 1 .. Len(a)
        BY <1>2, <3>1
      <4>2. Pieces(a)[i] = Piece(a, i)
        BY <4>1, PiecesType
      <4> QED BY <1>3, <1>4, <2>1, <3>1, <4>2
    <3>2. CASE ~(i <= Len(a))
      <4>1. i - Len(a) \in 1 .. Len(b)
        BY <1>2, <3>2
      <4>2. Pieces(b)[i - Len(a)] = Piece(b, i - Len(a))
        BY <4>1, PiecesType
      <4> QED BY <1>3, <1>4, <2>1, <3>2, <4>2
    <3> QED BY <3>1, <3>2
  <2>3. \A s, t \in Seq(Seq(Tokens)) :
           Len(s) = Len(t) /\ (\A i \in 1 .. Len(s) : s[i] = t[i]) => s = t
    BY SeqEqual
  <2> QED BY <1>4, <2>1, <2>2, <2>3
<1>6. FlattenSeq(Pieces(a) \o Pieces(b)) = FlattenSeq(Pieces(a)) \o FlattenSeq(Pieces(b))
  BY PiecesType, FlattenConcat
<1> QED BY <1>1, <1>5, <1>6, PiecesType

\* Cut inside one, it is damaged, and nothing else is.
LEMMA DecodeCut ==
  ASSUME NEW a \in Seq(Tokens), NEW b \in Seq(Tokens), Len(a) # 0, Len(b) # 0,
         a[Len(a)] = "hi", b[1] = "lo"
  PROVE  \E x, y \in Seq(Tokens) :
            /\ Decode(a \o b) = (x \o <<"char">>) \o y
            /\ Decode(a) = x \o <<"damage">>
            /\ Decode(b) = <<"damage">> \o y
<1>1. /\ a \o b \in Seq(Tokens) /\ Len(a \o b) = Len(a) + Len(b)
      /\ \A i \in 1 .. Len(a) + Len(b) : (a \o b)[i] = IF i <= Len(a) THEN a[i] ELSE b[i - Len(a)]
  BY ConcatProperties
<1>2. PICK m \in Nat, n \in Nat : Len(a) = m + 1 /\ Len(b) = n + 1
  <2>1. Len(a) \in Nat /\ Len(b) \in Nat
    BY LenProperties
  <2>2. Len(a) - 1 \in Nat /\ Len(b) - 1 \in Nat
    BY <2>1
  <2> QED BY <2>1, <2>2
<1> DEFINE p == [i \in 1 .. m |-> Piece(a, i)]
           q == [i \in 1 .. n |-> Piece(b, i + 1)]
<1>3. /\ \A i \in 1 .. m : Piece(a, i) \in Seq(Tokens) /\ Piece(a, i) = Piece(a \o b, i)
      /\ \A i \in 1 .. n : Piece(b, i + 1) \in Seq(Tokens)
      /\ \A i \in 1 .. n : Piece(b, i + 1) = Piece(a \o b, i + m + 2)
  <2>1. ASSUME NEW i \in 1 .. m
        PROVE  Piece(a, i) \in Seq(Tokens) /\ Piece(a, i) = Piece(a \o b, i)
    <3>1. i \in 1 .. Len(a) /\ i < Len(a) /\ i < Len(a \o b) /\ i \in 1 .. Len(a) + Len(b)
      BY <1>1, <1>2
    <3>2. (a \o b)[i] = a[i]
      BY <1>1, <3>1
    <3>3. Piece(a, i) \in Seq(Tokens)
      BY <3>1, PieceType
    <3> QED BY <3>1, <3>2, <3>3 DEF Piece
  <2>2. ASSUME NEW i \in 1 .. n
        PROVE  Piece(b, i + 1) \in Seq(Tokens) /\ Piece(b, i + 1) = Piece(a \o b, i + m + 2)
    <3>1. /\ i + 1 \in 1 .. Len(b) /\ i + m + 2 \in 1 .. Len(a) + Len(b)
          /\ ~(i + m + 2 <= Len(a)) /\ (i + m + 2) - Len(a) = i + 1
          /\ (i + 1 < Len(b)) <=> (i + m + 2 < Len(a \o b))
          /\ i + 1 # 1 /\ i + m + 2 # 1
      BY <1>1, <1>2
    <3>2. (a \o b)[i + m + 2] = b[i + 1]
      BY <1>1, <3>1
    <3>3. Piece(b, i + 1) \in Seq(Tokens)
      BY <3>1, PieceType
    <3> QED BY <3>1, <3>2, <3>3 DEF Piece
  <2> QED BY <2>1, <2>2
<1>4. /\ Piece(a, m + 1) = <<"damage">> /\ Piece(b, 1) = <<"damage">>
      /\ Piece(a \o b, m + 1) = <<"char">> /\ Piece(a \o b, m + 2) = <<>>
  <2>1. /\ (a \o b)[m + 1] = "hi" /\ (a \o b)[m + 2] = "lo"
        /\ m + 1 < Len(a \o b) /\ m + 2 # 1 /\ ~(m + 1 < Len(a)) /\ a[m + 1] = "hi"
    BY <1>1, <1>2
  <2> QED BY <2>1 DEF Piece
<1>5. p \in Seq(Seq(Tokens)) /\ Len(p) = m /\ q \in Seq(Seq(Tokens)) /\ Len(q) = n
  BY <1>3
<1>6. /\ \A i \in 1 .. m : p[i] = Piece(a, i)
      /\ \A i \in 1 .. n : q[i] = Piece(b, i + 1)
  OBVIOUS
<1> HIDE DEF p, q
<1>7. /\ <<"damage">> \in Seq(Tokens) /\ <<"char">> \in Seq(Tokens) /\ <<>> \in Seq(Tokens)
  BY BlockAssumption DEF BlockAssumption
<1>8. \A s, t \in Seq(Seq(Tokens)) :
         Len(s) = Len(t) /\ (\A i \in 1 .. Len(s) : s[i] = t[i]) => s = t
  BY SeqEqual
<1>9. Decode(a) = FlattenSeq(p) \o <<"damage">>
  <2>1. Pieces(a) = Append(p, <<"damage">>)
    <3>1. PICK s : s \in Seq(Seq(Tokens)) /\ s = Append(p, <<"damage">>)
      BY <1>5, <1>7, AppendProperties
    <3>2. Len(s) = m + 1 /\ s[m + 1] = <<"damage">> /\ \A i \in 1 .. m : s[i] = p[i]
      BY <1>5, <1>7, <3>1, AppendProperties
    <3>3. PICK t : /\ t \in Seq(Seq(Tokens)) /\ t = Pieces(a) /\ Len(t) = m + 1
                /\ \A i \in 1 .. m + 1 : t[i] = Piece(a, i)
      BY <1>2, PiecesType
    <3>4. ASSUME NEW i \in 1 .. m + 1
          PROVE  s[i] = t[i]
      <4>1. CASE i = m + 1
        BY <1>4, <3>2, <3>3, <4>1
      <4>2. CASE i # m + 1
        <5>1. i \in 1 .. m
          BY <4>2
        <5> QED BY <1>6, <3>2, <3>3, <5>1
      <4> QED BY <4>1, <4>2
    <3> QED BY <1>8, <3>1, <3>2, <3>3, <3>4
  <2>2. FlattenSeq(p) \in Seq(Tokens)
    BY <1>5, FlattenType
  <2>3. FlattenSeq(Append(p, <<"damage">>)) = FlattenSeq(p) \o <<"damage">>
    BY <1>5, <1>7, <2>2, FlattenAppend
  <2>4. Decode(a) = FlattenSeq(Pieces(a))
    BY PiecesType
  <2> QED BY <2>1, <2>3, <2>4
<1>10. Decode(b) = <<"damage">> \o FlattenSeq(q)
  <2>1. <<<<"damage">>>> \in Seq(Seq(Tokens))
    BY <1>7
  <2>2. Pieces(b) = <<<<"damage">>>> \o q
    <3>1. PICK s : s \in Seq(Seq(Tokens)) /\ s = <<<<"damage">>>> \o q
      BY <1>5, <2>1, ConcatProperties
    <3>2. Len(s) = n + 1 /\ s[1] = <<"damage">> /\ \A i \in 1 .. n : s[i + 1] = q[i]
      <4>1. /\ Len(s) = 1 + n
            /\ \A i \in 1 .. 1 + n : s[i] = IF i <= 1 THEN <<<<"damage">>>>[i] ELSE q[i - 1]
        BY <1>5, <2>1, <3>1, ConcatProperties
      <4> QED BY <4>1
    <3>3. PICK t : /\ t \in Seq(Seq(Tokens)) /\ t = Pieces(b) /\ Len(t) = n + 1
                /\ \A i \in 1 .. n + 1 : t[i] = Piece(b, i)
      BY <1>2, PiecesType
    <3>4. ASSUME NEW i \in 1 .. n + 1
          PROVE  s[i] = t[i]
      <4>1. CASE i = 1
        BY <1>4, <3>2, <3>3, <4>1
      <4>2. CASE i # 1
        <5>1. i - 1 \in 1 .. n /\ (i - 1) + 1 = i
          BY <4>2
        <5> QED BY <1>6, <3>2, <3>3, <5>1
      <4> QED BY <4>1, <4>2
    <3> QED BY <1>8, <3>1, <3>2, <3>3, <3>4
  <2>3. FlattenSeq(<<<<"damage">>>> \o q) = FlattenSeq(<<<<"damage">>>>) \o FlattenSeq(q)
    BY <1>5, <2>1, FlattenConcat
  <2>4. FlattenSeq(<<<<"damage">>>>) = <<"damage">>
    BY <1>7, FlattenOne
  <2> QED BY <2>2, <2>3, <2>4, PiecesType
<1>11. Decode(a \o b) = (FlattenSeq(p) \o <<"char">>) \o FlattenSeq(q)
  <2>1. PICK r : r \in Seq(Seq(Tokens)) /\ r = Append(p, <<"char">>)
    BY <1>5, <1>7, AppendProperties
  <2>2. Len(r) = m + 1 /\ r[m + 1] = <<"char">> /\ \A i \in 1 .. m : r[i] = p[i]
    BY <1>5, <1>7, <2>1, AppendProperties
  <2>3. PICK s : s \in Seq(Seq(Tokens)) /\ s = Append(r, <<>>)
    BY <1>7, <2>1, AppendProperties
  <2>4. /\ Len(s) = m + 2 /\ s[m + 2] = <<>> /\ s[m + 1] = <<"char">>
        /\ \A i \in 1 .. m : s[i] = p[i]
    <3>1. Len(s) = (m + 1) + 1 /\ s[(m + 1) + 1] = <<>> /\ \A i \in 1 .. m + 1 : s[i] = r[i]
      BY <1>7, <2>1, <2>2, <2>3, AppendProperties
    <3> QED BY <2>2, <3>1
  <2>5. PICK u : u \in Seq(Seq(Tokens)) /\ u = s \o q
    BY <1>5, <2>3, ConcatProperties
  <2>6. /\ Len(u) = m + n + 2
        /\ \A i \in 1 .. m + n + 2 : u[i] = IF i <= m + 2 THEN s[i] ELSE q[i - (m + 2)]
    <3>1. \A v, w \in Seq(Seq(Tokens)) :
             /\ Len(v \o w) = Len(v) + Len(w)
             /\ \A i \in 1 .. Len(v) + Len(w) :
                   (v \o w)[i] = IF i <= Len(v) THEN v[i] ELSE w[i - Len(v)]
      BY ConcatProperties
    <3>2. /\ Len(s \o q) = Len(s) + Len(q)
          /\ \A i \in 1 .. Len(s) + Len(q) :
                (s \o q)[i] = IF i <= Len(s) THEN s[i] ELSE q[i - Len(s)]
      BY <1>5, <2>3, <3>1
    <3>3. Len(s) = m + 2 /\ Len(q) = n /\ Len(s) + Len(q) = m + n + 2
      BY <1>5, <2>4
    <3> QED BY <2>5, <3>2, <3>3
  <2>7. PICK t : /\ t \in Seq(Seq(Tokens)) /\ t = Pieces(a \o b) /\ Len(t) = m + n + 2
              /\ \A i \in 1 .. m + n + 2 : t[i] = Piece(a \o b, i)
    <3>1. Len(a \o b) = m + n + 2
      BY <1>1, <1>2
    <3>2. /\ Pieces(a \o b) \in Seq(Seq(Tokens)) /\ Len(Pieces(a \o b)) = Len(a \o b)
          /\ \A i \in 1 .. Len(a \o b) : Pieces(a \o b)[i] = Piece(a \o b, i)
      BY <1>1, PiecesType
    <3> HIDE DEF Piece, Pieces
    <3>3. \A i \in 1 .. m + n + 2 : Pieces(a \o b)[i] = Piece(a \o b, i)
      BY <3>1, <3>2
    <3> QED BY <3>1, <3>2, <3>3
  <2>8. ASSUME NEW i \in 1 .. m + n + 2
        PROVE  u[i] = t[i]
    <3>0. t[i] = Piece(a \o b, i) /\ u[i] = IF i <= m + 2 THEN s[i] ELSE q[i - (m + 2)]
      BY <2>6, <2>7
    <3>1. CASE i <= m
      <4>1. i \in 1 .. m /\ i <= m + 2
        BY <3>1
      <4>2. s[i] = p[i] /\ p[i] = Piece(a, i) /\ Piece(a, i) = Piece(a \o b, i)
        BY <1>3, <1>6, <2>4, <4>1
      <4> QED BY <3>0, <4>1, <4>2
    <3>2. CASE i = m + 1 \/ i = m + 2
      <4>1. i <= m + 2
        BY <3>2
      <4>2. s[i] = Piece(a \o b, i)
        BY <1>4, <2>4, <3>2
      <4> QED BY <3>0, <4>1, <4>2
    <3>3. CASE i > m + 2
      <4>1. i - (m + 2) \in 1 .. n /\ (i - (m + 2)) + m + 2 = i /\ ~(i <= m + 2)
        BY <3>3
      <4>2. q[i - (m + 2)] = Piece(a \o b, i)
        BY <1>3, <1>6, <4>1
      <4> QED BY <3>0, <4>1, <4>2
    <3> QED BY <3>1, <3>2, <3>3
  <2>9. Pieces(a \o b) = s \o q
    BY <1>8, <2>5, <2>6, <2>7, <2>8
  <2>10. /\ FlattenSeq(r) = FlattenSeq(p) \o <<"char">> /\ FlattenSeq(r) \in Seq(Tokens)
    BY <1>5, <1>7, <2>1, FlattenType, FlattenAppend
  <2>11. FlattenSeq(s) = FlattenSeq(r) \o <<>>
    BY <1>7, <2>1, <2>3, <2>10, FlattenAppend
  <2>12. FlattenSeq(r) \o <<>> = FlattenSeq(r)
    BY <2>10, ConcatEmptySeq
  <2>13. FlattenSeq(s \o q) = FlattenSeq(s) \o FlattenSeq(q)
    BY <1>5, <2>3, FlattenConcat
  <2>14. Decode(a \o b) = FlattenSeq(Pieces(a \o b))
    BY <1>1, PiecesType
  <2> QED BY <2>9, <2>10, <2>11, <2>12, <2>13, <2>14
<1>12. FlattenSeq(p) \in Seq(Tokens) /\ FlattenSeq(q) \in Seq(Tokens)
  BY <1>5, FlattenType
<1> QED BY <1>9, <1>10, <1>11, <1>12
-----------------------------------------------------------------------------
(* The parts of what is not handled.                                       *)

\* A cut between the parts.
LEMMA CutSecond ==
  ASSUME NEW S, NEW u \in Seq(S), NEW v \in Seq(S), NEW s, s = u \o v
  PROVE  SubSeq(s, Len(u) + 1, Len(s)) = v
<1>1. PICK p \in 0 .. Len(u) : p = Len(u)
  BY LenProperties
<1>2. SubSeq(s, p + 1, Len(s)) = SubSeq(u, p + 1, Len(u)) \o v
  BY CutFirst, ZenonT(30)
<1>3. SubSeq(u, p + 1, Len(u)) = <<>>
  <2>1. p + 1 \in Int /\ Len(u) \in Int /\ Len(u) < p + 1
    BY <1>1, LenProperties
  <2> QED BY <2>1, SubSeqEmpty
<1>4. <<>> \o v = v
  BY ConcatEmptySeq
<1> QED BY <1>1, <1>2, <1>3, <1>4

\* A sequence around one of its elements.
LEMMA Around ==
  ASSUME NEW S, NEW x \in Seq(S), NEW y \in Seq(S), NEW one \in Seq(S), Len(one) = 1,
         NEW u, u = x \o one, NEW s, s = u \o y
  PROVE  /\ Len(x) + 1 \in 1 .. Len(s) /\ s[Len(x) + 1] = one[1]
         /\ SubSeq(s, 1, Len(x)) = x
         /\ SubSeq(s, (Len(x) + 1) + 1, Len(s)) = y
<1>1. PICK n \in Nat, k \in Nat : n = Len(x) /\ k = Len(y)
  BY LenProperties
<1>2. u \in Seq(S)
  BY ConcatProperties
<1>3. Len(u) = n + 1 /\ u[n + 1] = one[1]
  <2>1. /\ Len(u) = Len(x) + Len(one)
        /\ \A i \in 1 .. Len(x) + Len(one) : u[i] = IF i <= Len(x) THEN x[i] ELSE one[i - Len(x)]
    BY ConcatProperties
  <2>2. Len(u) = n + 1
    BY <1>1, <2>1
  <2>3. /\ n + 1 \in 1 .. Len(x) + Len(one) /\ ~(n + 1 <= Len(x))
        /\ (n + 1) - Len(x) = 1
    BY <1>1
  <2>4. u[n + 1] = one[(n + 1) - Len(x)]
    BY <2>1, <2>3
  <2> QED BY <2>2, <2>3, <2>4
<1>4. n + 1 \in 1 .. Len(s) /\ s[n + 1] = one[1]
  <2>1. /\ Len(s) = Len(u) + Len(y)
        /\ \A i \in 1 .. Len(u) + Len(y) : s[i] = IF i <= Len(u) THEN u[i] ELSE y[i - Len(u)]
    BY <1>2, ConcatProperties
  <2>2. n + 1 \in 1 .. Len(u) + Len(y) /\ n + 1 <= Len(u)
    BY <1>1, <1>3
  <2> QED BY <1>3, <2>1, <2>2
<1>5. SubSeq(s, 1, n) = x
  <2>1. SubSeq(s, 1, n) = SubSeq(u, 1, n)
    BY <1>2, <1>3, CutFirst
  <2>2. SubSeq(u, 1, n) = SubSeq(x, 1, n)
    BY <1>1, CutFirst
  <2>3. SubSeq(x, 1, n) = x
    BY <1>1, SubSeqFull
  <2> QED BY <2>1, <2>2, <2>3
<1>6. SubSeq(s, (n + 1) + 1, Len(s)) = y
  <2>1. SubSeq(s, Len(u) + 1, Len(s)) = y
    BY <1>2, CutSecond
  <2> QED BY <1>3, <2>1
<1> QED BY <1>1, <1>4, <1>5, <1>6

\* The same for a character of the text.
LEMMA CharacterAt ==
  ASSUME NEW x \in Seq(Tokens), NEW y \in Seq(Tokens), NEW s, s = (x \o <<"char">>) \o y
  PROVE  /\ Len(x) + 1 \in 1 .. Len(s) /\ s[Len(x) + 1] = "char"
         /\ SubSeq(s, 1, Len(x)) = x
         /\ SubSeq(s, (Len(x) + 1) + 1, Len(s)) = y
<1>1. PICK one : one = <<"char">>
  OBVIOUS
<1>2. one \in Seq(Tokens) /\ Len(one) = 1 /\ one[1] = "char"
  BY <1>1, BlockAssumption DEF BlockAssumption
<1>3. PICK u : u = x \o one
  OBVIOUS
<1>4. s = u \o y
  BY <1>1, <1>3
<1> QED BY <1>2, <1>3, <1>4, Around

\* A damage after a damage.
LEMMA Twice ==
  ASSUME NEW S, NEW c \in S
  PROVE  <<c>> \o <<c>> = <<c, c>>
<1>1. PICK s \in Seq(S) : s = <<c>> /\ Len(s) = 1 /\ s[1] = c
  <2>1. <<c>> \in Seq(S) /\ Len(<<c>>) = 1 /\ <<c>>[1] = c
    OBVIOUS
  <2> QED BY <2>1
<1>2. PICK t \in Seq(S) : t = <<c, c>> /\ Len(t) = 2 /\ t[1] = c /\ t[2] = c
  <2>1. /\ <<c, c>> \in Seq(S) /\ Len(<<c, c>>) = 2
        /\ <<c, c>>[1] = c /\ <<c, c>>[2] = c
    OBVIOUS
  <2> QED BY <2>1
<1>3. PICK r : r = s \o s
  OBVIOUS
<1>4. /\ Len(r) = Len(s) + Len(s)
      /\ \A i \in 1 .. Len(s) + Len(s) : r[i] = IF i <= Len(s) THEN s[i] ELSE s[i - Len(s)]
  BY <1>3, ConcatProperties
<1>5. Len(r) = 2 /\ \A i \in 1 .. 2 : r[i] = t[i]
  BY <1>1, <1>2, <1>4
<1>6. r \in Seq(S)
  BY <1>3, ConcatProperties
<1>7. r = t
  BY <1>2, <1>5, <1>6, SeqEqual
<1> QED BY <1>1, <1>2, <1>3, <1>7

\* The first newline.
LEMMA FirstNewline ==
  ASSUME NEW b \in Seq(Tokens), Contains(b, "nl"),
         NEW n, n = SelectInSeq(b, IsNewline)
  PROVE  n \in 1 .. Len(b) /\ b[n] = "nl" /\ \A i \in 1 .. n - 1 : b[i] # "nl"
<1>1. PICK k \in Nat : k = Len(b)
  BY LenProperties
<1> DEFINE I == {i \in 1 .. Len(b) : b[i] = "nl"}
<1>2. I # {} /\ I \subseteq Nat
  BY <1>1 DEF Contains
<1>3. \E x \in I : \A y \in I : x =< y
  BY <1>2, LeastNat
<1>4. n = CHOOSE x \in I : \A y \in I : x =< y
  BY <1>2 DEF SelectInSeq, Min, IsNewline
<1>5. n \in I /\ \A y \in I : n =< y
  BY <1>3, <1>4
<1>6. ASSUME NEW i \in 1 .. n - 1
      PROVE  b[i] # "nl"
  <2>1. i \in 1 .. Len(b) /\ ~(n =< i)
    BY <1>1, <1>5
  <2> QED BY <1>5, <2>1
<1> QED BY <1>5, <1>6

-----------------------------------------------------------------------------
(* What every state of the stream has.                                     *)

StreamInv == /\ Encoded(wire)
             /\ arrived \in 0 .. Len(wire)
             /\ buffer \in Seq(Tokens)
             /\ reader \in Readers
             /\ stage = "reading" => ~heard.failed

\* The bytes that have not arrived.
Rest == SubSeq(wire, arrived + 1, Len(wire))

\* What is not handled is the buffer and what the rest will decode to.
LEMMA RestType ==
  ASSUME StreamInv
  PROVE  /\ Len(wire) \in Nat /\ arrived \in Nat
         /\ Rest \in Seq(Tokens) /\ Decode(Rest) \in Seq(Tokens)
         /\ Unhandled = buffer \o Decode(Rest) /\ Unhandled \in Seq(Tokens)
<1>1. wire \in Seq(Tokens) /\ Len(wire) \in Nat /\ arrived \in Nat /\ buffer \in Seq(Tokens)
  BY LenProperties DEF StreamInv, Encoded
<1>2. \A i \in arrived + 1 .. Len(wire) : wire[i] \in Tokens
  BY <1>1, ElementOfSeq
<1>3. Rest \in Seq(Tokens)
  BY <1>1, <1>2, SubSeqProperties DEF Rest
<1>4. Decode(Rest) \in Seq(Tokens)
  BY <1>3, PiecesType
<1>5. Unhandled = buffer \o Decode(Rest)
  BY DEF Unhandled, Rest
<1> QED BY <1>1, <1>3, <1>4, <1>5, ConcatProperties

\* The buffer is its beginning.
LEMMA BufferIsFirst ==
  ASSUME StreamInv
  PROVE  /\ Len(buffer) \in Nat /\ Len(Unhandled) \in Nat /\ Len(buffer) <= Len(Unhandled)
         /\ \A i \in 1 .. Len(buffer) : Unhandled[i] = buffer[i]
<1>1. PICK r : r \in Seq(Tokens) /\ Unhandled = buffer \o r
  BY RestType
<1>2. buffer \in Seq(Tokens) /\ Len(buffer) \in Nat /\ Len(r) \in Nat
  BY <1>1, LenProperties DEF StreamInv
<1>3. /\ Len(buffer \o r) = Len(buffer) + Len(r)
      /\ \A i \in 1 .. Len(buffer) + Len(r) :
            (buffer \o r)[i] = IF i <= Len(buffer) THEN buffer[i] ELSE r[i - Len(buffer)]
  BY <1>1, <1>2, ConcatProperties
<1> QED BY <1>1, <1>2, <1>3

\* A chunk and what comes after it.
LEMMA ChunkProperties ==
  ASSUME StreamInv, NEW n \in Nat, n # 0, arrived + n <= Len(wire)
  PROVE  LET a == SubSeq(wire, arrived + 1, arrived + n)
             b == SubSeq(wire, (arrived + n) + 1, Len(wire))
         IN  /\ a \in Seq(Tokens) /\ b \in Seq(Tokens) /\ Rest = a \o b
             /\ Len(a) = n /\ a[Len(a)] = wire[arrived + n]
             /\ wire[arrived + n] = "hi" => Len(b) # 0 /\ b[1] = "lo"
             /\ wire[arrived + n] # "hi" => Len(b) = 0 \/ b[1] # "lo"
<1> DEFINE m == arrived + n
           a == SubSeq(wire, arrived + 1, arrived + n)
           b == SubSeq(wire, (arrived + n) + 1, Len(wire))
<1>1. wire \in Seq(Tokens) /\ Len(wire) \in Nat /\ arrived \in Nat /\ m \in 1 .. Len(wire)
  BY RestType DEF StreamInv, Encoded
<1>2. a \in Seq(Tokens) /\ Len(a) = n /\ \A i \in 1 .. n : a[i] = wire[arrived + i]
  BY <1>1, Slice
<1> DEFINE k == Len(wire) - m
<1>3. k \in Nat /\ m + k = Len(wire) /\ n + k = Len(wire) - arrived
  BY <1>1
<1>4. b \in Seq(Tokens) /\ Len(b) = k /\ \A i \in 1 .. k : b[i] = wire[m + i]
  <2>1. b = SubSeq(wire, m + 1, m + k) /\ m \in Nat /\ m + k <= Len(wire)
    BY <1>1, <1>3
  <2> HIDE DEF m, k, b
  <2> QED BY <1>1, <1>3, <2>1, Slice
<1> HIDE DEF a, b, k
<1>5. /\ arrived + 1 \in 1 .. Len(wire) + 1 /\ m \in (arrived + 1) - 1 .. Len(wire)
      /\ Len(wire) \in m .. Len(wire)
  BY <1>1
<1>6. Rest = a \o b
  <2> HIDE DEF m
  <2>1. SubSeq(wire, arrived + 1, m) \o SubSeq(wire, m + 1, Len(wire)) = Rest
    BY <1>1, <1>5, ConcatAdjacentSubSeq DEF Rest
  <2> QED BY <2>1 DEF a, b, m
<1>7. a[Len(a)] = wire[m]
  BY <1>2
<1>8. wire[m] = "hi" => m < Len(wire) /\ wire[m + 1] = "lo"
  BY <1>1 DEF StreamInv, Encoded
<1>9. m < Len(wire) /\ wire[m + 1] = "lo" => wire[m] = "hi"
  <2>1. m < Len(wire) => m + 1 \in 1 .. Len(wire) /\ (m + 1) - 1 = m
    BY <1>1
  <2> QED BY <2>1 DEF StreamInv, Encoded
<1>10. (Len(b) # 0 <=> m < Len(wire)) /\ (Len(b) # 0 => b[1] = wire[m + 1])
  <2>1. Len(b) # 0 <=> m < Len(wire)
    BY <1>1, <1>4 DEF k
  <2>2. m < Len(wire) => 1 \in 1 .. k
    BY <1>1 DEF k
  <2> QED BY <1>4, <2>1, <2>2
<1>11. m = arrived + n
  OBVIOUS
<1> HIDE DEF m
<1>12. /\ wire[m] = "hi" => Len(b) # 0 /\ b[1] = "lo"
       /\ wire[m] # "hi" => Len(b) = 0 \/ b[1] # "lo"
  BY <1>8, <1>9, <1>10
<1> QED BY <1>2, <1>4, <1>6, <1>7, <1>11, <1>12 DEF a, b

\* It holds at first ...
LEMMA InvInit == Init => StreamInv
<1> SUFFICES ASSUME Init PROVE StreamInv
  OBVIOUS
<1>1. Encoded(wire) /\ Len(wire) \in Nat
  BY StreamAssumption, LenProperties DEF Init, StreamAssumption, Encoded
<1>2. buffer \in Seq(Tokens)
  BY DEF Init
<1> QED BY <1>1, <1>2 DEF Init, StreamInv, Unheard

\* Where the first line of the buffer ends, and what comes after it.
LEMMA UnreadType ==
  ASSUME StreamInv, HasLine
  PROVE  /\ LineEnd \in 1 .. Len(buffer) /\ Len(buffer) \in Nat
         /\ buffer[LineEnd] = "nl" /\ \A i \in 1 .. LineEnd - 1 : buffer[i] # "nl"
         /\ Unread \in Seq(Tokens)
<1>1. buffer \in Seq(Tokens) /\ Len(buffer) \in Nat
  BY LenProperties DEF StreamInv
<1>2. /\ LineEnd \in 1 .. Len(buffer)
      /\ buffer[LineEnd] = "nl" /\ \A i \in 1 .. LineEnd - 1 : buffer[i] # "nl"
  BY <1>1, FirstNewline DEF HasLine, LineEnd
<1>3. \A i \in LineEnd + 1 .. Len(buffer) : buffer[i] \in Tokens
  BY <1>1, <1>2, ElementOfSeq
<1>4. Unread \in Seq(Tokens)
  BY <1>1, <1>2, <1>3, SubSeqProperties DEF Unread
<1> QED BY <1>1, <1>2, <1>4

\* ... and no step violates it.
LEMMA InvNext == StreamInv /\ [Next]_vars => StreamInv'
<1> SUFFICES ASSUME StreamInv, [Next]_vars PROVE StreamInv'
  OBVIOUS
<1>1. ASSUME NEW n \in 1 .. MaxChunk, Arrive(n)
      PROVE  StreamInv'
  <2>1. n \in Nat /\ n # 0 /\ arrived + n <= Len(wire) /\ arrived \in Nat /\ Len(wire) \in Nat
    BY <1>1, RestType, StreamAssumption DEF Arrive, Receive, StreamAssumption
  <2>2. SubSeq(wire, arrived + 1, arrived + n) \in Seq(Tokens)
    BY <2>1, ChunkProperties
  <2>3. Chunk(n) \in Seq(Tokens)
    BY <2>2, PiecesType DEF Chunk
  <2>4. buffer' \in Seq(Tokens)
    BY <1>1, <2>3, ConcatProperties DEF Arrive, StreamInv
  <2>5. arrived' \in 0 .. Len(wire)
    BY <1>1, <2>1 DEF Arrive, Receive
  <2>6. UNCHANGED <<wire, reader, stage, heard>>
    BY <1>1 DEF Arrive, Receive, sources, results
  <2> QED BY <2>4, <2>5, <2>6 DEF StreamInv, Encoded
<1>2. CASE FieldLine
  BY <1>2, UnreadType DEF FieldLine, StreamInv, Encoded, sources, results
<1>3. CASE BlankLine
  <2>1. buffer' \in Seq(Tokens)
    BY <1>3, UnreadType DEF BlankLine
  <2>2. UNCHANGED <<wire, reader, arrived>> /\ stage = "reading"
    BY <1>3 DEF BlankLine, sources
  <2>3. stage' = "reading" => ~heard'.failed
    BY <1>3, <2>2 DEF BlankLine, results, StreamInv
  <2> QED BY <2>1, <2>2, <2>3 DEF StreamInv, Encoded
<1>4. CASE ClientEnds
  BY <1>4 DEF ClientEnds, StreamInv, Encoded, sources, results
<1>5. CASE IteratorEnds
  <2>1. buffer' \in Seq(Tokens)
    BY <1>5 DEF IteratorEnds
  <2>2. UNCHANGED <<wire, reader, arrived>> /\ stage' # "reading"
    BY <1>5 DEF IteratorEnds, sources
  <2> QED BY <2>1, <2>2 DEF StreamInv, Encoded
<1>6. CASE UNCHANGED vars
  BY <1>6 DEF vars, sources, results, StreamInv, Encoded
<1> QED BY <1>1, <1>2, <1>3, <1>4, <1>5, <1>6 DEF Next

-----------------------------------------------------------------------------
(* Every step is one of the undivided stream, or none.                     *)

\* The whole text is there, and nothing is known of it.
LEMMA BeginsWhole == Init => Undivided!Init
<1> SUFFICES ASSUME Init PROVE Undivided!Init
  OBVIOUS
<1>1. Unhandled \in Seq(Tokens)
  BY InvInit, RestType
<1>2. Known = Beginning
  BY DEF Init, Known, Beginning
<1> QED BY <1>1, <1>2 DEF Init, Undivided!Init

\* A chunk changes nothing, but for a character it cuts.
LEMMA ArriveIsNothingOrDamage ==
  ASSUME StreamInv, NEW n \in 1 .. MaxChunk, Arrive(n)
  PROVE  Undivided!Damage \/ UNCHANGED Undivided!vars
<1> DEFINE a == SubSeq(wire, arrived + 1, arrived + n)
           b == SubSeq(wire, (arrived + n) + 1, Len(wire))
<1>1. n \in Nat /\ n # 0 /\ arrived + n <= Len(wire)
  BY StreamAssumption DEF Arrive, Receive, StreamAssumption
<1>2. /\ a \in Seq(Tokens) /\ b \in Seq(Tokens) /\ Rest = a \o b
      /\ Len(a) = n /\ a[Len(a)] = wire[arrived + n]
      /\ wire[arrived + n] = "hi" => Len(b) # 0 /\ b[1] = "lo"
      /\ wire[arrived + n] # "hi" => Len(b) = 0 \/ b[1] # "lo"
  BY <1>1, ChunkProperties
<1>3. Unhandled = buffer \o Decode(a \o b)
  BY <1>2, RestType
<1>4. Unhandled' = (buffer \o Decode(a)) \o Decode(b)
  <2>1. buffer' = buffer \o Decode(a) /\ arrived' = arrived + n /\ wire' = wire
    BY DEF Arrive, Receive, Chunk, sources
  <2> QED BY <2>1 DEF Unhandled
<1>5. UNCHANGED <<reader, Known, stage>> /\ stage = "reading"
  BY DEF Arrive, Receive, Known, sources, results
<1>6. buffer \in Seq(Tokens)
  BY DEF StreamInv
<1> HIDE DEF a, b
<1>7. \A s, t, u \in Seq(Tokens) : (s \o t) \o u = s \o (t \o u) /\ s \o t \in Seq(Tokens)
  BY ConcatAssociative, ConcatProperties, SMTT(30)
<1>8. CASE ~CutsAt(arrived + n)
  <2>1. Decode(a \o b) = Decode(a) \o Decode(b)
    BY <1>2, <1>8, DecodeUncut DEF CutsAt
  <2>2. Decode(a) \in Seq(Tokens) /\ Decode(b) \in Seq(Tokens)
    BY <1>2, PiecesType
  <2>3. (buffer \o Decode(a)) \o Decode(b) = buffer \o (Decode(a) \o Decode(b))
    BY <1>6, <1>7, <2>2
  <2>4. Unhandled' = Unhandled
    BY <1>3, <1>4, <2>1, <2>3
  <2> QED BY <1>5, <2>4 DEF Undivided!vars
<1>9. CASE CutsAt(arrived + n)
  <2>1. reader = "client"
    <3>1. reader \in {"client", "iterator"}
      BY StreamAssumption DEF StreamInv, StreamAssumption
    <3>2. reader # "iterator"
      BY <1>9 DEF Arrive, Receive
    <3> QED BY <3>1, <3>2
  <2>2. Len(a) # 0 /\ Len(b) # 0 /\ a[Len(a)] = "hi" /\ b[1] = "lo"
    BY <1>1, <1>2, <1>9 DEF CutsAt
  <2>3. PICK x \in Seq(Tokens), y \in Seq(Tokens) :
           /\ Decode(a \o b) = (x \o <<"char">>) \o y
           /\ Decode(a) = x \o <<"damage">>
           /\ Decode(b) = <<"damage">> \o y
    BY <1>2, <2>2, DecodeCut
  <2>4. PICK z : z \in Seq(Tokens) /\ z = buffer \o x
    BY <1>6, <1>7
  <2>5. /\ "char" \in Tokens /\ <<"char">> \in Seq(Tokens) /\ <<"damage">> \in Seq(Tokens)
        /\ <<"damage">> \o <<"damage">> = <<"damage", "damage">>
    BY BlockAssumption, Twice DEF BlockAssumption
  <2>6. Unhandled = (z \o <<"char">>) \o y
    <3>1. x \o <<"char">> \in Seq(Tokens)
      BY <1>7, <2>5
    <3>2. buffer \o ((x \o <<"char">>) \o y) = (buffer \o (x \o <<"char">>)) \o y
      BY <1>6, <1>7, <3>1, SMTT(30)
    <3>3. buffer \o (x \o <<"char">>) = z \o <<"char">>
      BY <1>6, <1>7, <2>4, <2>5, SMTT(30)
    <3> QED BY <1>3, <2>3, <3>2, <3>3
  <2>7. Unhandled' = (z \o <<"damage", "damage">>) \o y
    <3>1. buffer \o (x \o <<"damage">>) = z \o <<"damage">>
      BY <1>6, <1>7, <2>4, <2>5
    <3>2. z \o <<"damage">> \in Seq(Tokens)
      BY <1>7, <2>4, <2>5
    <3>3. (z \o <<"damage">>) \o (<<"damage">> \o y) = ((z \o <<"damage">>) \o <<"damage">>) \o y
      BY <1>7, <2>5, <3>2
    <3>4. (z \o <<"damage">>) \o <<"damage">> = z \o <<"damage", "damage">>
      BY <1>7, <2>4, <2>5
    <3> QED BY <1>4, <2>3, <3>1, <3>3, <3>4
  <2>8. /\ Len(z) + 1 \in 1 .. Len(Unhandled) /\ Unhandled[Len(z) + 1] = "char"
        /\ SubSeq(Unhandled, 1, Len(z)) = z
        /\ SubSeq(Unhandled, (Len(z) + 1) + 1, Len(Unhandled)) = y
    BY <2>4, <2>6, CharacterAt, SMTT(30)
  <2>9. PICK i \in 1 .. Len(Unhandled) : i = Len(z) + 1 /\ i - 1 = Len(z)
    BY <2>4, <2>8, LenProperties
  <2>10. Undivided!Upto(i - 1) = z /\ Undivided!After(i) = y
    BY <2>8, <2>9 DEF Undivided!Upto, Undivided!After
  <2>11. Unhandled' = Undivided!Upto(i - 1) \o <<"damage", "damage">> \o Undivided!After(i)
    BY <2>7, <2>10
  <2> QED BY <1>5, <2>1, <2>8, <2>9, <2>11 DEF Undivided!Damage
<1> QED BY <1>8, <1>9

\* The line that is handled is the first of what is not handled.
LEMMA LineIsFirst ==
  ASSUME StreamInv, HasLine, buffer' = Unread, UNCHANGED <<wire, arrived>>
  PROVE  \E p \in 0 .. Len(Unhandled) - 1 :
            /\ Undivided!Begin(p) /\ Unhandled[p + 1] = "nl"
            /\ Undivided!Upto(p) = Line
            /\ Unhandled' = Undivided!After(p + 1)
<1>1. PICK k \in Nat : k = Len(buffer)
  BY UnreadType
<1>2. PICK p \in 0 .. k - 1 : p = LineEnd - 1
  BY <1>1, UnreadType
<1>3. LineEnd = p + 1 /\ p + 1 \in 1 .. k /\ p + 1 \in 0 .. k /\ p \in 0 .. k
  BY <1>1, <1>2, UnreadType
<1>4. buffer \in Seq(Tokens) /\ Decode(Rest) \in Seq(Tokens) /\ Unhandled = buffer \o Decode(Rest)
  BY RestType DEF StreamInv
<1>5. /\ Len(Unhandled) \in Nat /\ k <= Len(Unhandled)
      /\ \A i \in 1 .. k : Unhandled[i] = buffer[i]
  BY <1>1, BufferIsFirst
<1>6. SubSeq(Unhandled, 1, p) = Line
  BY <1>1, <1>2, <1>3, <1>4, CutFirst DEF Line
<1>7. SubSeq(Unhandled, (p + 1) + 1, Len(Unhandled)) = Unhandled'
  <2>1. SubSeq(Unhandled, (p + 1) + 1, Len(Unhandled)) = SubSeq(buffer, (p + 1) + 1, Len(buffer)) \o Decode(Rest)
    BY <1>1, <1>3, <1>4, CutFirst, ZenonT(30)
  <2>2. SubSeq(buffer, (p + 1) + 1, Len(buffer)) = buffer'
    BY <1>3 DEF Unread
  <2>3. Unhandled' = buffer' \o Decode(Rest)
    BY DEF Unhandled, Rest
  <2> QED BY <2>1, <2>2, <2>3
<1>8. \A i \in 1 .. p : Unhandled[i] # "nl"
  BY <1>2, <1>3, <1>5, UnreadType
<1>9. Unhandled[p + 1] = "nl"
  BY <1>3, <1>5, UnreadType
<1>10. p \in 0 .. Len(Unhandled) - 1 /\ p \in 0 .. Len(Unhandled)
  BY <1>2, <1>5
<1> QED BY <1>6, <1>7, <1>8, <1>9, <1>10 DEF Undivided!Begin, Undivided!Upto, Undivided!After

\* A line of a field.
LEMMA FieldLineReads ==
  ASSUME StreamInv, FieldLine
  PROVE  Undivided!ReadLine
<1>1. PICK p \in 0 .. Len(Unhandled) - 1 :
         /\ Undivided!Begin(p) /\ Unhandled[p + 1] = "nl"
         /\ Undivided!Upto(p) = Line
         /\ Unhandled' = Undivided!After(p + 1)
  BY LineIsFirst DEF FieldLine, sources
<1>2. Known' = AfterLine(Known, Line)
  BY DEF FieldLine, Known, AfterLine, results
<1>3. Known'.heard = heard
  BY DEF FieldLine, Known, results
<1>4. Undivided!Unless("reading")
  BY <1>3 DEF FieldLine, StreamInv, Undivided!Unless
<1> QED BY <1>1, <1>2, <1>4 DEF FieldLine, sources, Undivided!ReadLine

\* Dispatch is AfterEvent.
LEMMA DispatchKnown ==
  ASSUME NEW d, Dispatch(d)
  PROVE  Known' = AfterEvent(Known, d)
BY DEF Dispatch, Known, AfterEvent

\* A blank line.
LEMMA BlankLineReads ==
  ASSUME StreamInv, BlankLine
  PROVE  Undivided!ReadLine
<1>1. PICK p \in 0 .. Len(Unhandled) - 1 :
         /\ Undivided!Begin(p) /\ Unhandled[p + 1] = "nl"
         /\ Undivided!Upto(p) = Line
         /\ Unhandled' = Undivided!After(p + 1)
  BY LineIsFirst DEF BlankLine, sources
<1>2. Known' = AfterLine(Known, Line)
  <2>1. Line = <<>> /\ Known.decoder = decoder
    BY DEF BlankLine, Known
  <2>2. CASE IsEvent(decoder)
    BY <2>1, <2>2, DispatchKnown DEF BlankLine, AfterLine
  <2>3. CASE ~IsEvent(decoder)
    BY <2>1, <2>3 DEF BlankLine, AfterLine, Known, results
  <2> QED BY <2>2, <2>3
<1>3. Known'.heard = heard'
  BY DEF Known
<1>4. Undivided!Unless("reading")
  BY <1>3 DEF BlankLine, StreamInv, results, Undivided!Unless
<1> QED BY <1>1, <1>2, <1>4 DEF BlankLine, sources, Undivided!ReadLine

\* What is left in the buffer is the begin of a line.
LEMMA IteratorEndsWhole ==
  ASSUME StreamInv, IteratorEnds
  PROVE  Undivided!IteratorEnds
<1>1. PICK k \in Nat : k = Len(buffer)
  BY LenProperties DEF StreamInv
<1>2. buffer \in Seq(Tokens) /\ Decode(Rest) \in Seq(Tokens) /\ Unhandled = buffer \o Decode(Rest)
  BY RestType DEF StreamInv
<1>3. /\ Len(Unhandled) \in Nat /\ k <= Len(Unhandled)
      /\ \A i \in 1 .. k : Unhandled[i] = buffer[i]
  BY <1>1, BufferIsFirst
<1>4. k \in 0 .. Len(Unhandled) /\ k \in 0 .. k
  BY <1>3
<1>5. Undivided!Begin(k)
  BY <1>1, <1>3, <1>4 DEF IteratorEnds, HasLine, Contains, Undivided!Begin
<1>6. Undivided!Upto(k) = buffer
  <2>1. SubSeq(Unhandled, 1, k) = SubSeq(buffer, 1, k)
    BY <1>1, <1>2, <1>4, CutFirst
  <2>2. SubSeq(buffer, 1, k) = buffer
    BY <1>1, <1>2, SubSeqFull
  <2> QED BY <2>1, <2>2 DEF Undivided!Upto
<1>7. Unhandled' = Undivided!After(k)
  <2>1. SubSeq(Unhandled, k + 1, Len(Unhandled)) = SubSeq(buffer, k + 1, k) \o Decode(Rest)
    BY <1>1, <1>2, <1>4, CutFirst, ZenonT(30)
  <2>2. SubSeq(buffer, k + 1, k) = <<>>
    BY SubSeqEmpty
  <2>3. Unhandled' = <<>> \o Decode(Rest)
    BY DEF IteratorEnds, sources, Unhandled, Rest
  <2> QED BY <2>1, <2>2, <2>3 DEF Undivided!After
<1>8. Known' = AfterEnd(Known, buffer)
  <2>1. Flushed = IF buffer = <<>> THEN Known.decoder ELSE Field(Known.decoder, buffer)
    BY DEF Flushed, Known
  <2>2. CASE IsLastEvent(Flushed)
    BY <2>1, <2>2, DispatchKnown DEF IteratorEnds, AfterEnd
  <2>3. CASE ~IsLastEvent(Flushed)
    <3>1. Known' = [Known EXCEPT !.decoder = Flushed]
      BY <2>3 DEF IteratorEnds, Known, results
    <3> QED BY <2>1, <2>3, <3>1 DEF AfterEnd
  <2> QED BY <2>2, <2>3
<1>9. Undivided!Unless("ended")
  BY DEF IteratorEnds, Known, Undivided!Unless
<1> QED BY <1>4, <1>5, <1>6, <1>7, <1>8, <1>9 DEF IteratorEnds, sources, Undivided!IteratorEnds

\* The client leaves it.
LEMMA ClientEndsWhole == ClientEnds => Undivided!ClientEnds
<1> SUFFICES ASSUME ClientEnds PROVE Undivided!ClientEnds
  OBVIOUS
<1>1. Known.started = started /\ UNCHANGED <<Unhandled, reader, Known>>
  BY DEF ClientEnds, sources, results, Known, Unhandled
<1> QED BY <1>1 DEF ClientEnds, Undivided!ClientEnds

\* All steps together.
LEMMA StepsWhole == StreamInv /\ [Next]_vars => [Undivided!Next]_(Undivided!vars)
<1> SUFFICES ASSUME StreamInv, [Next]_vars PROVE [Undivided!Next]_(Undivided!vars)
  OBVIOUS
<1>1. ASSUME NEW n \in 1 .. MaxChunk, Arrive(n)
      PROVE  Undivided!Damage \/ UNCHANGED Undivided!vars
  BY <1>1, ArriveIsNothingOrDamage
<1>2. CASE UNCHANGED vars
  BY <1>2 DEF vars, sources, results, Undivided!vars, Unhandled, Known
<1> QED
  BY <1>1, <1>2, FieldLineReads, BlankLineReads, ClientEndsWhole, IteratorEndsWhole
  DEF Next, Undivided!Next

-----------------------------------------------------------------------------
\* What is read stays well encoded, what is buffered is text, and a stream is read on
\* only until an error has been heard.
THEOREM StreamInvariant == Spec => []StreamInv
BY InvInit, InvNext, PTL DEF Spec

\* However the bytes are cut into chunks, and whatever the lines say, what is heard
\* is what would be heard of the whole text, line by line; only the client may damage
\* a character, and only one it has not handled yet (client.py:280-286,
\* sse_parser.py:53-71).
THEOREM StreamImplementsWhole == Spec => ImplementsWhole
BY StreamInvariant, BeginsWhole, StepsWhole, PTL DEF Spec, ImplementsWhole, Undivided!Spec

-----------------------------------------------------------------------------
(* Where the parts of a sequence are in what it flattens to.               *)


\* What flattening a sequence makes of one of its parts.
LEMMA PartOf ==
  ASSUME NEW S, NEW s \in Seq(Seq(S)), NEW j \in Nat, j < Len(s)
  PROVE  /\ EndOfPart(s, j) \in Nat /\ EndOfPart(s, j + 1) \in Nat
         /\ s[j + 1] \in Seq(S)
         /\ EndOfPart(s, j + 1) = EndOfPart(s, j) + Len(s[j + 1])
         /\ EndOfPart(s, j + 1) <= Len(FlattenSeq(s))
         /\ \A x \in 1 .. Len(s[j + 1]) : FlattenSeq(s)[EndOfPart(s, j) + x] = s[j + 1][x]
<1>1. PICK n \in Nat : n = Len(s)
  BY LenProperties
<1>2. j + 1 \in 1 .. n /\ j + 1 \in Nat /\ s[j + 1] \in Seq(S)
  BY <1>1, ElementOfSeq
<1>3. PICK p : p \in Seq(Seq(S)) /\ p = SubSeq(s, 1, j)
  <2>1. \A i \in 1 .. j : s[i] \in Seq(S)
    BY <1>1, ElementOfSeq
  <2>2. SubSeq(s, 1, j) \in Seq(Seq(S))
    BY <2>1, SubSeqProperties
  <2> QED BY <2>2
<1>4. PICK q : q \in Seq(Seq(S)) /\ q = SubSeq(s, 1, j + 1)
  <2>1. \A i \in 1 .. j + 1 : s[i] \in Seq(S)
    BY <1>1, <1>2, ElementOfSeq
  <2>2. SubSeq(s, 1, j + 1) \in Seq(Seq(S))
    BY <2>1, SubSeqProperties
  <2> QED BY <2>2
<1>5. PICK r : r \in Seq(Seq(S)) /\ r = SubSeq(s, (j + 1) + 1, n)
  <2>1. \A i \in (j + 1) + 1 .. n : s[i] \in Seq(S)
    BY <1>1, ElementOfSeq
  <2>2. SubSeq(s, (j + 1) + 1, n) \in Seq(Seq(S))
    BY <2>1, SubSeqProperties
  <2> QED BY <2>2
<1>6. q = Append(p, s[j + 1])
  <2>1. q = SubSeq(s, 1, (j + 1) - 1) \o <<s[j + 1]>>
    <3>1. 1 \in 1 .. Len(s) /\ j + 1 \in 1 .. Len(s)
      BY <1>1, <1>2
    <3> QED BY <1>4, <3>1, SubSeqRecursiveSecond
  <2>2. (j + 1) - 1 = j
    OBVIOUS
  <2>3. Append(p, s[j + 1]) = p \o <<s[j + 1]>>
    BY <1>2, <1>3, AppendIsConcat
  <2> QED BY <1>3, <2>1, <2>2, <2>3
<1>7. s = q \o r
  <2>1. SubSeq(s, 1, j + 1) \o SubSeq(s, (j + 1) + 1, n) = SubSeq(s, 1, n)
    <3>1. 1 \in 1 .. Len(s) + 1 /\ j + 1 \in 1 - 1 .. Len(s) /\ n \in j + 1 .. Len(s)
      BY <1>1, <1>2
    <3> QED BY <3>1, ConcatAdjacentSubSeq
  <2>2. SubSeq(s, 1, n) = s
    BY <1>1, SubSeqFull
  <2> QED BY <1>4, <1>5, <2>1, <2>2
<1>8. PICK a \in Seq(S), b \in Seq(S), c \in Seq(S), x \in Seq(S) :
         a = FlattenSeq(p) /\ b = FlattenSeq(q) /\ c = FlattenSeq(r) /\ x = s[j + 1]
  BY <1>2, <1>3, <1>4, <1>5, FlattenType
<1>9. b = a \o x
  BY <1>2, <1>3, <1>6, <1>8, FlattenAppend
<1>10. FlattenSeq(s) = b \o c
  BY <1>4, <1>5, <1>7, <1>8, FlattenConcat
<1>11. PICK la \in Nat, lb \in Nat, lc \in Nat, lx \in Nat :
          la = Len(a) /\ lb = Len(b) /\ lc = Len(c) /\ lx = Len(x)
  BY LenProperties
<1>12. lb = la + lx /\ \A i \in 1 .. la + lx : b[i] = IF i <= la THEN a[i] ELSE x[i - la]
  BY <1>9, <1>11, ConcatProperties
<1>13. Len(FlattenSeq(s)) = lb + lc /\ \A i \in 1 .. lb : FlattenSeq(s)[i] = b[i]
  <2>1. /\ Len(b \o c) = lb + lc
        /\ \A i \in 1 .. lb + lc : (b \o c)[i] = IF i <= lb THEN b[i] ELSE c[i - lb]
    BY <1>11, ConcatProperties
  <2> QED BY <1>10, <2>1
<1>14. EndOfPart(s, j) = la /\ EndOfPart(s, j + 1) = lb
  BY <1>3, <1>4, <1>8, <1>11 DEF EndOfPart
<1>15. ASSUME NEW i \in 1 .. lx
       PROVE  FlattenSeq(s)[la + i] = x[i]
  <2>1. la + i \in 1 .. lb /\ ~(la + i <= la) /\ (la + i) - la = i
    BY <1>12
  <2> QED BY <1>12, <1>13, <2>1
<1> QED BY <1>2, <1>8, <1>11, <1>12, <1>13, <1>14, <1>15, SMTT(30)

\* Where it begins, and where it ends.
LEMMA PartsBounds ==
  ASSUME NEW S, NEW s \in Seq(Seq(S))
  PROVE  EndOfPart(s, 0) = 0 /\ EndOfPart(s, Len(s)) = Len(FlattenSeq(s))
<1>1. SubSeq(s, 1, 0) = <<>> /\ FlattenSeq(<<>>) = <<>>
  BY SubSeqEmpty, EmptySeq DEF FlattenSeq
<1>2. SubSeq(s, 1, Len(s)) = s
  BY SubSeqFull
<1> QED BY <1>1, <1>2, EmptySeq DEF EndOfPart

\* Of parts that are not empty, a later one ends later.
LEMMA PartsGrow ==
  ASSUME NEW S, NEW s \in Seq(Seq(S)), \A i \in 1 .. Len(s) : Len(s[i]) # 0,
         NEW i \in Nat
  PROVE  \A j \in Nat : i <= j /\ j <= Len(s) =>
            /\ EndOfPart(s, i) \in Nat /\ EndOfPart(s, j) \in Nat
            /\ EndOfPart(s, i) + (j - i) <= EndOfPart(s, j)
<1> DEFINE A == {n \in Nat : i + n <= Len(s) =>
                    /\ EndOfPart(s, i) \in Nat /\ EndOfPart(s, i + n) \in Nat
                    /\ EndOfPart(s, i) + n <= EndOfPart(s, i + n)}
<1>0. Len(s) \in Nat
  BY LenProperties
<1>1. 0 \in A
  <2> SUFFICES ASSUME i <= Len(s) PROVE EndOfPart(s, i) \in Nat
    BY <1>0
  <2>1. \A t \in Seq(Seq(S)) : Len(FlattenSeq(t)) \in Nat
    BY FlattenType, LenProperties
  <2>2. SubSeq(s, 1, i) \in Seq(Seq(S))
    <3>1. \A x \in 1 .. i : s[x] \in Seq(S)
      BY <1>0, ElementOfSeq
    <3> QED BY <3>1, SubSeqProperties
  <2> QED BY <2>1, <2>2 DEF EndOfPart
<1>2. ASSUME NEW n \in Nat, n \in A
      PROVE  n + 1 \in A
  <2> SUFFICES ASSUME i + (n + 1) <= Len(s)
               PROVE  /\ EndOfPart(s, i) \in Nat /\ EndOfPart(s, i + (n + 1)) \in Nat
                      /\ EndOfPart(s, i) + (n + 1) <= EndOfPart(s, i + (n + 1))
    OBVIOUS
  <2>1. PICK m \in Nat : m = i + n /\ m + 1 = i + (n + 1) /\ m < Len(s)
    BY <1>0
  <2>2. /\ EndOfPart(s, m + 1) \in Nat /\ s[m + 1] \in Seq(S)
        /\ EndOfPart(s, m + 1) = EndOfPart(s, m) + Len(s[m + 1])
    BY <2>1, PartOf
  <2>3. Len(s[m + 1]) \in Nat /\ Len(s[m + 1]) # 0
    BY <1>0, <2>1, <2>2, LenProperties
  <2>4. EndOfPart(s, i) \in Nat /\ EndOfPart(s, m) \in Nat /\ EndOfPart(s, i) + n <= EndOfPart(s, m)
    BY <1>0, <1>2, <2>1
  <2>5. PICK x \in Nat, y \in Nat, z \in Nat, w \in Nat :
          x = EndOfPart(s, i) /\ y = EndOfPart(s, m) /\ z = EndOfPart(s, m + 1) /\ w = Len(s[m + 1])
    BY <2>2, <2>3, <2>4, Zenon
  <2>6. x + n <= y /\ z = y + w /\ w # 0
    BY <2>2, <2>3, <2>4, <2>5, Zenon
  <2>7. x + (n + 1) <= z
    BY <2>6, SMTT(30)
  <2>8. /\ EndOfPart(s, i) \in Nat /\ EndOfPart(s, m + 1) \in Nat
        /\ EndOfPart(s, i) + (n + 1) <= EndOfPart(s, m + 1)
    BY <2>2, <2>4, <2>5, <2>7, Zenon
  <2> QED BY <2>1, <2>8, Zenon
<1>3. Nat \subseteq A
  <2> HIDE DEF A
  <2> QED BY <1>1, <1>2, Induction
<1> SUFFICES ASSUME NEW j \in Nat, i <= j, j <= Len(s)
             PROVE  /\ EndOfPart(s, i) \in Nat /\ EndOfPart(s, j) \in Nat
                    /\ EndOfPart(s, i) + (j - i) <= EndOfPart(s, j)
  OBVIOUS
<1>4. PICK n \in Nat : n = j - i /\ i + n = j
  BY <1>0
<1> QED BY <1>3, <1>4

-----------------------------------------------------------------------------
(* The text of bytes, of which some characters are cut.                    *)


\* Concatenation, by a name that the provers leave alone.
Cat(s, t) == s \o t

\* What it makes is a sequence, of the one and then the other.
LEMMA CatType ==
  \A S : \A s, t \in Seq(S) :
     /\ Cat(s, t) \in Seq(S) /\ Len(Cat(s, t)) = Len(s) + Len(t)
     /\ \A i \in 1 .. Len(s) + Len(t) : Cat(s, t)[i] = IF i <= Len(s) THEN s[i] ELSE t[i - Len(s)]
     /\ Cat(s, <<>>) = s /\ Cat(<<>>, s) = s
     /\ Cat(s, t) = <<>> <=> s = <<>> /\ t = <<>>
<1> SUFFICES ASSUME NEW S, NEW s \in Seq(S), NEW t \in Seq(S)
             PROVE  /\ Cat(s, t) \in Seq(S) /\ Len(Cat(s, t)) = Len(s) + Len(t)
                    /\ \A i \in 1 .. Len(s) + Len(t) :
                          Cat(s, t)[i] = IF i <= Len(s) THEN s[i] ELSE t[i - Len(s)]
                    /\ Cat(s, <<>>) = s /\ Cat(<<>>, s) = s
                    /\ Cat(s, t) = <<>> <=> s = <<>> /\ t = <<>>
  OBVIOUS
<1>1. /\ s \o t \in Seq(S) /\ Len(s \o t) = Len(s) + Len(t)
      /\ \A i \in 1 .. Len(s) + Len(t) : (s \o t)[i] = IF i <= Len(s) THEN s[i] ELSE t[i - Len(s)]
  BY ConcatProperties
<1>2. s \o <<>> = s /\ <<>> \o s = s
  BY ConcatEmptySeq
<1>3. s \o t = <<>> <=> s = <<>> /\ t = <<>>
  BY ConcatEqualIffEmpty
<1> QED BY <1>1, <1>2, <1>3 DEF Cat

\* Of three it is the same, whichever two come first.
LEMMA CatAssociative ==
  \A S : \A s, t, u \in Seq(S) : Cat(Cat(s, t), u) = Cat(s, Cat(t, u))
BY ConcatAssociative DEF Cat

\* A glyph is text; no glyph but that of a newline has one.
LEMMA GlyphType ==
  ASSUME NEW S, S \subseteq Tokens, {"char", "damage"} \subseteq S,
         NEW bytes, NEW cut, NEW i, bytes[i] \in S
  PROVE  Glyph(bytes, cut, i) \in Seq(S)
<1>1. \A x \in S : <<x>> \in Seq(S)
  OBVIOUS
<1>2. <<>> \in Seq(S)
  OBVIOUS
<1> QED BY <1>1, <1>2 DEF Glyph

\* The text of no bytes, of some, and of some more.
LEMMA TextType ==
  ASSUME NEW S, S \subseteq Tokens, {"char", "damage"} \subseteq S,
         NEW bytes, NEW cut, NEW p \in Nat, NEW q \in Nat,
         p <= q, \A i \in p + 1 .. q : bytes[i] \in S
  PROVE  /\ Text(bytes, cut, p, q) \in Seq(S)
         /\ p = q => Text(bytes, cut, p, q) = <<>>
<1> DEFINE s == [i \in 1 .. q - p |-> Glyph(bytes, cut, p + i)]
<1>1. \A i \in 1 .. q - p : Glyph(bytes, cut, p + i) \in Seq(S)
  <2> SUFFICES ASSUME NEW i \in 1 .. q - p PROVE Glyph(bytes, cut, p + i) \in Seq(S)
    OBVIOUS
  <2>1. p + i \in p + 1 .. q
    OBVIOUS
  <2> QED BY <2>1, GlyphType
<1>2. s \in Seq(Seq(S))
  BY <1>1
<1>3. p = q => s = <<>>
  OBVIOUS
<1> HIDE DEF s
<1>4. FlattenSeq(s) \in Seq(S) /\ (p = q => FlattenSeq(s) = <<>>)
  BY <1>2, <1>3, FlattenType, EmptySeq DEF FlattenSeq
<1> QED BY <1>4 DEF s, Text

\* Text is taken in two parts.
LEMMA TextConcat ==
  ASSUME NEW bytes \in Seq(Tokens), NEW cut, NEW p \in Nat, NEW m \in Nat, NEW q \in Nat,
         p <= m, m <= q, q <= Len(bytes)
  PROVE  Text(bytes, cut, p, q) = Cat(Text(bytes, cut, p, m), Text(bytes, cut, m, q))
<1> DEFINE s == [i \in 1 .. q - p |-> Glyph(bytes, cut, p + i)]
           t == [i \in 1 .. m - p |-> Glyph(bytes, cut, p + i)]
           u == [i \in 1 .. q - m |-> Glyph(bytes, cut, m + i)]
<1>0. Len(bytes) \in Nat /\ {"char", "damage"} \subseteq Tokens
  BY LenProperties, BlockAssumption DEF BlockAssumption
<1>1. \A i \in 1 .. Len(bytes) : Glyph(bytes, cut, i) \in Seq(Tokens)
  BY <1>0, GlyphType, ElementOfSeq
<1>2. s \in Seq(Seq(Tokens)) /\ Len(s) = q - p
  <2>1. \A i \in 1 .. q - p : p + i \in 1 .. Len(bytes)
    BY <1>0
  <2> QED BY <1>1, <2>1
<1>3. t \in Seq(Seq(Tokens)) /\ Len(t) = m - p
  <2>1. \A i \in 1 .. m - p : p + i \in 1 .. Len(bytes)
    BY <1>0
  <2> QED BY <1>1, <2>1
<1>4. u \in Seq(Seq(Tokens)) /\ Len(u) = q - m
  <2>1. \A i \in 1 .. q - m : m + i \in 1 .. Len(bytes)
    BY <1>0
  <2> QED BY <1>1, <2>1
<1>5. /\ \A i \in 1 .. q - p : s[i] = Glyph(bytes, cut, p + i)
      /\ \A i \in 1 .. m - p : t[i] = Glyph(bytes, cut, p + i)
      /\ \A i \in 1 .. q - m : u[i] = Glyph(bytes, cut, m + i)
  OBVIOUS
<1> HIDE DEF s, t, u
<1>6. /\ t \o u \in Seq(Seq(Tokens)) /\ Len(t \o u) = q - p
      /\ \A i \in 1 .. q - p : (t \o u)[i] = IF i <= m - p THEN t[i] ELSE u[i - (m - p)]
  <2>1. /\ t \o u \in Seq(Seq(Tokens)) /\ Len(t \o u) = Len(t) + Len(u)
        /\ \A i \in 1 .. Len(t) + Len(u) : (t \o u)[i] = IF i <= Len(t) THEN t[i] ELSE u[i - Len(t)]
    BY <1>3, <1>4, ConcatProperties
  <2>2. Len(t) + Len(u) = q - p
    BY <1>3, <1>4
  <2> QED BY <1>3, <2>1, <2>2
<1>7. ASSUME NEW i \in 1 .. q - p
      PROVE  s[i] = (t \o u)[i]
  <2>1. CASE i <= m - p
    <3>1. i \in 1 .. m - p
      BY <2>1
    <3> QED BY <1>5, <1>6, <2>1, <3>1
  <2>2. CASE ~(i <= m - p)
    <3>1. i - (m - p) \in 1 .. q - m /\ m + (i - (m - p)) = p + i
      BY <2>2
    <3> QED BY <1>5, <1>6, <2>2, <3>1
  <2> QED BY <2>1, <2>2
<1>8. s = t \o u
  <2>1. \A a, b \in Seq(Seq(Tokens)) :
           Len(a) = Len(b) /\ (\A i \in 1 .. Len(a) : a[i] = b[i]) => a = b
    BY SeqEqual
  <2> QED BY <1>2, <1>6, <1>7, <2>1
<1>9. FlattenSeq(s) = FlattenSeq(t) \o FlattenSeq(u)
  BY <1>3, <1>4, <1>8, FlattenConcat
<1> QED BY <1>9 DEF s, t, u, Text, Cat

\* The text of one byte.
LEMMA TextOne ==
  ASSUME NEW bytes \in Seq(Tokens), NEW cut, NEW p \in Nat, p + 1 <= Len(bytes)
  PROVE  Text(bytes, cut, p, p + 1) = Glyph(bytes, cut, p + 1)
<1>1. bytes[p + 1] \in Tokens
  BY LenProperties, ElementOfSeq
<1>2. Glyph(bytes, cut, p + 1) \in Seq(Tokens)
  BY <1>1, GlyphType, BlockAssumption DEF BlockAssumption
<1>3. [i \in 1 .. (p + 1) - p |-> Glyph(bytes, cut, p + i)] = <<Glyph(bytes, cut, p + 1)>>
  <2>0. (p + 1) - p = 1
    OBVIOUS
  <2>1. [i \in 1 .. (p + 1) - p |-> Glyph(bytes, cut, p + i)] = [i \in 1 .. 1 |-> Glyph(bytes, cut, p + i)]
    BY <2>0
  <2>2. ASSUME NEW i \in 1 .. 1
        PROVE  Glyph(bytes, cut, p + i) = Glyph(bytes, cut, p + 1)
    <3>1. i = 1
      OBVIOUS
    <3> QED BY <3>1
  <2>3. [i \in 1 .. 1 |-> Glyph(bytes, cut, p + i)] = [i \in 1 .. 1 |-> Glyph(bytes, cut, p + 1)]
    BY <2>2
  <2>4. PICK x \in Seq(Tokens) : x = Glyph(bytes, cut, p + 1)
    BY <1>2
  <2>5. PICK f : f = [i \in 1 .. 1 |-> x] /\ f \in Seq(Seq(Tokens)) /\ Len(f) = 1 /\ f[1] = x
    <3>1. /\ [i \in 1 .. 1 |-> x] \in Seq(Seq(Tokens)) /\ Len([i \in 1 .. 1 |-> x]) = 1
          /\ [i \in 1 .. 1 |-> x][1] = x
      OBVIOUS
    <3> QED BY <3>1
  <2>6. PICK g : g = <<x>> /\ g \in Seq(Seq(Tokens)) /\ Len(g) = 1 /\ g[1] = x
    <3>1. <<x>> \in Seq(Seq(Tokens)) /\ Len(<<x>>) = 1 /\ <<x>>[1] = x
      OBVIOUS
    <3> QED BY <3>1
  <2>7. f = g
    <3>1. \A i \in 1 .. Len(f) : f[i] = g[i]
      BY <2>5, <2>6
    <3> QED BY <2>5, <2>6, <3>1, SeqEqual
  <2> QED BY <2>1, <2>3, <2>4, <2>5, <2>6, <2>7
<1> QED BY <1>2, <1>3, FlattenOne DEF Text

\* Text that does not begin inside a character is not empty.
LEMMA TextBegins ==
  ASSUME NEW bytes \in Seq(Tokens), NEW cut, NEW p \in Nat, NEW q \in Nat,
         p < q, q <= Len(bytes), bytes[p + 1] # "lo"
  PROVE  Text(bytes, cut, p, q) # <<>>
<1>0. Len(bytes) \in Nat /\ {"char", "damage"} \subseteq Tokens
  BY LenProperties, BlockAssumption DEF BlockAssumption
<1>1. Text(bytes, cut, p, q) = Cat(Text(bytes, cut, p, p + 1), Text(bytes, cut, p + 1, q))
  BY <1>0, TextConcat
<1>2. Text(bytes, cut, p, p + 1) = Glyph(bytes, cut, p + 1)
  BY <1>0, TextOne
<1>3. Glyph(bytes, cut, p + 1) # <<>>
  BY DEF Glyph
<1>4. \A i \in 1 .. Len(bytes) : bytes[i] \in Tokens
  BY ElementOfSeq
<1>5. Text(bytes, cut, p, p + 1) \in Seq(Tokens) /\ Text(bytes, cut, p + 1, q) \in Seq(Tokens)
  <2>1. /\ \A i \in p + 1 .. p + 1 : bytes[i] \in Tokens
        /\ \A i \in (p + 1) + 1 .. q : bytes[i] \in Tokens
    BY <1>0, <1>4
  <2>2. p + 1 \in Nat /\ p <= p + 1 /\ p + 1 <= q
    OBVIOUS
  <2> QED BY <1>0, <2>1, <2>2, TextType
<1> QED BY <1>1, <1>2, <1>3, <1>5, CatType

\* Bytes that look alike are the same text.
LEMMA TextSame ==
  ASSUME NEW a, NEW cut, NEW b, NEW bcut, NEW p \in Nat, NEW q \in Nat, NEW o \in Nat,
         \A i \in p + 1 .. q : Glyph(a, cut, o + i) = Glyph(b, bcut, i)
  PROVE  Text(a, cut, o + p, o + q) = Text(b, bcut, p, q)
<1>1. (o + q) - (o + p) = q - p
  OBVIOUS
<1>2. ASSUME NEW i \in 1 .. q - p
      PROVE  Glyph(a, cut, (o + p) + i) = Glyph(b, bcut, p + i)
  <2>1. p + i \in p + 1 .. q /\ (o + p) + i = o + (p + i)
    OBVIOUS
  <2> QED BY <2>1
<1>3. [i \in 1 .. q - p |-> Glyph(a, cut, (o + p) + i)] = [i \in 1 .. q - p |-> Glyph(b, bcut, p + i)]
  BY <1>2
<1> QED BY <1>1, <1>3 DEF Text

-----------------------------------------------------------------------------
(* The bytes of a block, and of all.                                       *)

\* The lines of a block.
LEMMA LinesType ==
  ASSUME NEW block, WellFormed(block)
  PROVE  /\ block.lines \in Seq(Seq(Tokens)) /\ Len(block.lines) \in Nat
         /\ \A i \in 1 .. Len(block.lines) :
               /\ block.lines[i] \in Seq(Tokens) /\ Len(block.lines[i]) \in Nat
               /\ Len(block.lines[i]) # 0
               /\ \A x \in 1 .. Len(block.lines[i]) : block.lines[i][x] # "nl"
<1>0. block.lines \in Seq(Seq(Tokens) \ {<<>>}) /\ \A i \in DOMAIN block.lines : ~Contains(block.lines[i], "nl")
  BY DEF WellFormed
<1>1. block.lines \in Seq(Seq(Tokens))
  <2>1. Seq(Tokens) \ {<<>>} \subseteq Seq(Tokens)
    OBVIOUS
  <2> HIDE DEF WellFormed
  <2>2. \A s \in Seq(Seq(Tokens) \ {<<>>}) : s \in Seq(Seq(Tokens))
    BY <2>1, SeqMonotonic
  <2> QED BY <1>0, <2>2
<1>2. Len(block.lines) \in Nat /\ DOMAIN block.lines = 1 .. Len(block.lines)
  BY <1>1, LenProperties
<1>3. ASSUME NEW i \in 1 .. Len(block.lines)
      PROVE  /\ block.lines[i] \in Seq(Tokens) /\ Len(block.lines[i]) \in Nat
             /\ Len(block.lines[i]) # 0
             /\ \A x \in 1 .. Len(block.lines[i]) : block.lines[i][x] # "nl"
  <2>1. block.lines[i] \in Seq(Tokens) \ {<<>>}
    BY <1>0, ElementOfSeq
  <2>2. Len(block.lines[i]) \in Nat /\ Len(block.lines[i]) # 0
    BY <2>1, EmptySeq, LenProperties
  <2>3. ~Contains(block.lines[i], "nl")
    BY <1>0, <1>2
  <2> QED BY <2>1, <2>2, <2>3 DEF Contains
<1> QED BY <1>1, <1>2, <1>3

\* Its rows.
LEMMA RowsType ==
  ASSUME NEW block, WellFormed(block)
  PROVE  /\ Rows(block) \in Seq(Seq(Tokens)) /\ Len(Rows(block)) = Len(block.lines)
         /\ Bytes(block) \in Seq(Tokens)
         /\ \A i \in 1 .. Len(block.lines) :
               /\ Rows(block)[i] = block.lines[i] \o <<"nl">>
               /\ Rows(block)[i] \in Seq(Tokens)
<1>1. /\ block.lines \in Seq(Seq(Tokens)) /\ Len(block.lines) \in Nat
      /\ DOMAIN block.lines = 1 .. Len(block.lines)
      /\ \A i \in 1 .. Len(block.lines) : block.lines[i] \in Seq(Tokens)
  BY LinesType, LenProperties
<1>2. <<"nl">> \in Seq(Tokens)
  <2>1. "nl" \in Tokens
    BY BlockAssumption DEF BlockAssumption
  <2> QED BY <2>1
<1>3. \A i \in 1 .. Len(block.lines) : block.lines[i] \o <<"nl">> \in Seq(Tokens)
  BY <1>1, <1>2, ConcatProperties
<1>4. Rows(block) = [i \in 1 .. Len(block.lines) |-> block.lines[i] \o <<"nl">>]
  BY <1>1 DEF Rows
<1>5. Rows(block) \in Seq(Seq(Tokens)) /\ Len(Rows(block)) = Len(block.lines)
  BY <1>1, <1>3, <1>4
<1>6. \A i \in 1 .. Len(block.lines) : Rows(block)[i] = block.lines[i] \o <<"nl">>
  BY <1>4
<1>7. FlattenSeq(Rows(block)) \in Seq(Tokens)
  BY <1>5, FlattenType
<1>8. Bytes(block) \in Seq(Tokens)
  BY <1>2, <1>7, ConcatProperties DEF Bytes
<1> QED BY <1>3, <1>5, <1>6, <1>8

\* Where a line is in its block.
LEMMA LineIn ==
  ASSUME NEW block, WellFormed(block), NEW j \in Nat, j < Len(block.lines)
  PROVE  /\ RowsEnd(block, j) \in Nat
         /\ RowsEnd(block, j + 1) = RowsEnd(block, j) + Len(block.lines[j + 1]) + 1
         /\ RowsEnd(block, j + 1) < Len(Bytes(block))
         /\ \A x \in 1 .. Len(block.lines[j + 1]) :
               Bytes(block)[RowsEnd(block, j) + x] = block.lines[j + 1][x]
         /\ Bytes(block)[RowsEnd(block, j + 1)] = "nl"
<1> DEFINE line == block.lines[j + 1]
           row == Rows(block)[j + 1]
<1>1. j + 1 \in 1 .. Len(block.lines) /\ Len(block.lines) \in Nat
  BY LinesType
<1>2. line \in Seq(Tokens) /\ Len(line) \in Nat /\ row = line \o <<"nl">> /\ row \in Seq(Tokens)
  BY <1>1, LinesType, RowsType
<1>3. /\ Len(row) = Len(line) + 1 /\ row[Len(line) + 1] = "nl"
      /\ \A x \in 1 .. Len(line) : row[x] = line[x]
  <2> HIDE DEF line, row
  <2>0. "nl" \in Tokens /\ <<"nl">> \in Seq(Tokens) /\ Len(<<"nl">>) = 1 /\ <<"nl">>[1] = "nl"
    BY BlockAssumption DEF BlockAssumption
  <2>1. /\ Len(row) = Len(line) + 1
        /\ \A x \in 1 .. Len(line) + 1 : row[x] = IF x <= Len(line) THEN line[x] ELSE <<"nl">>[x - Len(line)]
    BY <1>2, <2>0, ConcatProperties
  <2>2. Len(line) + 1 \in 1 .. Len(line) + 1 /\ ~(Len(line) + 1 <= Len(line)) /\ (Len(line) + 1) - Len(line) = 1
    BY <1>2
  <2>3. \A x \in 1 .. Len(line) : x \in 1 .. Len(line) + 1 /\ x <= Len(line)
    BY <1>2
  <2> QED BY <2>0, <2>1, <2>2, <2>3
<1>4. /\ Rows(block) \in Seq(Seq(Tokens)) /\ j < Len(Rows(block))
  BY RowsType
<1>5. /\ EndOfPart(Rows(block), j) \in Nat /\ EndOfPart(Rows(block), j + 1) \in Nat
      /\ EndOfPart(Rows(block), j + 1) = EndOfPart(Rows(block), j) + Len(row)
      /\ EndOfPart(Rows(block), j + 1) <= Len(FlattenSeq(Rows(block)))
      /\ \A x \in 1 .. Len(row) : FlattenSeq(Rows(block))[EndOfPart(Rows(block), j) + x] = row[x]
  BY <1>4, PartOf
<1>6. PICK f \in Seq(Tokens) : f = FlattenSeq(Rows(block)) /\ Len(f) \in Nat
  BY <1>4, FlattenType, LenProperties
<1>7. /\ Len(Bytes(block)) = Len(f) + 1 /\ \A i \in 1 .. Len(f) : Bytes(block)[i] = f[i]
  <2>0. "nl" \in Tokens /\ <<"nl">> \in Seq(Tokens) /\ Len(<<"nl">>) = 1
    BY BlockAssumption DEF BlockAssumption
  <2>1. /\ Len(f \o <<"nl">>) = Len(f) + 1
        /\ \A i \in 1 .. Len(f) + 1 : (f \o <<"nl">>)[i] = IF i <= Len(f) THEN f[i] ELSE <<"nl">>[i - Len(f)]
    BY <2>0, ConcatProperties
  <2>2. Bytes(block) = f \o <<"nl">>
    BY <1>6 DEF Bytes
  <2>3. \A i \in 1 .. Len(f) : i \in 1 .. Len(f) + 1 /\ i <= Len(f)
    BY <1>6
  <2> QED BY <2>1, <2>2, <2>3
<1> HIDE DEF row, line
<1>8. PICK a \in Nat, b \in Nat : a = RowsEnd(block, j) /\ b = RowsEnd(block, j + 1)
  BY <1>5 DEF RowsEnd
<1>9. /\ b = a + Len(line) + 1 /\ b <= Len(f) /\ b < Len(Bytes(block))
  BY <1>2, <1>3, <1>5, <1>6, <1>7, <1>8, SMTT(30) DEF RowsEnd
<1>10. ASSUME NEW x \in 1 .. Len(line) + 1
       PROVE  Bytes(block)[a + x] = row[x]
  <2>1. a + x \in 1 .. Len(f) /\ x \in 1 .. Len(row)
    BY <1>2, <1>3, <1>6, <1>9
  <2> QED BY <1>5, <1>6, <1>7, <1>8, <2>1 DEF RowsEnd
<1>11. \A x \in 1 .. Len(line) : Bytes(block)[a + x] = line[x]
  <2>1. \A x \in 1 .. Len(line) : x \in 1 .. Len(line) + 1
    BY <1>2
  <2> QED BY <1>3, <1>10, <2>1
<1>12. Bytes(block)[b] = "nl"
  <2>1. Len(line) + 1 \in 1 .. Len(line) + 1 /\ b = a + (Len(line) + 1)
    BY <1>2, <1>9
  <2> QED BY <1>3, <1>10, <2>1
<1> QED BY <1>8, <1>9, <1>11, <1>12 DEF line

\* Where the blank line is.
LEMMA BlankIn ==
  ASSUME NEW block, WellFormed(block)
  PROVE  /\ RowsEnd(block, 0) = 0
         /\ Len(Bytes(block)) \in Nat /\ Len(Bytes(block)) # 0
         /\ RowsEnd(block, Len(block.lines)) = Len(Bytes(block)) - 1
         /\ Bytes(block)[Len(Bytes(block))] = "nl"
<1>1. PICK f \in Seq(Tokens) : f = FlattenSeq(Rows(block)) /\ Len(f) \in Nat
  BY RowsType, FlattenType, LenProperties
<1>2. /\ Len(Bytes(block)) = Len(f) + 1 /\ Bytes(block)[Len(f) + 1] = "nl"
  <2>0. "nl" \in Tokens /\ <<"nl">> \in Seq(Tokens) /\ Len(<<"nl">>) = 1 /\ <<"nl">>[1] = "nl"
    BY BlockAssumption DEF BlockAssumption
  <2>1. /\ Len(f \o <<"nl">>) = Len(f) + 1
        /\ \A i \in 1 .. Len(f) + 1 : (f \o <<"nl">>)[i] = IF i <= Len(f) THEN f[i] ELSE <<"nl">>[i - Len(f)]
    BY <2>0, ConcatProperties
  <2>2. Bytes(block) = f \o <<"nl">>
    BY <1>1 DEF Bytes
  <2>3. Len(f) + 1 \in 1 .. Len(f) + 1 /\ ~(Len(f) + 1 <= Len(f)) /\ (Len(f) + 1) - Len(f) = 1
    BY <1>1
  <2> QED BY <2>0, <2>1, <2>2, <2>3
<1>3. EndOfPart(Rows(block), 0) = 0 /\ EndOfPart(Rows(block), Len(Rows(block))) = Len(f)
  BY <1>1, RowsType, PartsBounds
<1>4. Len(Rows(block)) = Len(block.lines)
  BY RowsType
<1> QED BY <1>1, <1>2, <1>3, <1>4 DEF RowsEnd

\* The lines end one after the other.
LEMMA RowsGrow ==
  ASSUME NEW block, WellFormed(block), NEW i \in Nat, NEW j \in Nat, i <= j, j <= Len(block.lines)
  PROVE  /\ RowsEnd(block, i) \in Nat /\ RowsEnd(block, j) \in Nat
         /\ RowsEnd(block, i) + (j - i) <= RowsEnd(block, j)
<1>1. ASSUME NEW x \in 1 .. Len(Rows(block))
      PROVE  Len(Rows(block)[x]) # 0
  <2>0. x \in 1 .. Len(block.lines)
    BY RowsType
  <2>1. /\ Rows(block)[x] = block.lines[x] \o <<"nl">>
        /\ block.lines[x] \in Seq(Tokens)
        /\ Len(block.lines[x]) \in Nat
    BY <2>0, RowsType, LinesType
  <2>2. "nl" \in Tokens /\ <<"nl">> \in Seq(Tokens) /\ Len(<<"nl">>) = 1
    BY BlockAssumption DEF BlockAssumption
  <2>3. Len(block.lines[x] \o <<"nl">>) = Len(block.lines[x]) + 1
    BY <2>1, <2>2, ConcatProperties
  <2> QED BY <2>1, <2>3
<1>2. Rows(block) \in Seq(Seq(Tokens)) /\ j <= Len(Rows(block))
  BY RowsType
<1>3. /\ EndOfPart(Rows(block), i) \in Nat /\ EndOfPart(Rows(block), j) \in Nat
      /\ EndOfPart(Rows(block), i) + (j - i) <= EndOfPart(Rows(block), j)
  BY <1>1, <1>2, PartsGrow
<1> QED BY <1>3 DEF RowsEnd

-----------------------------------------------------------------------------
(* Where the reading is.  k blocks have been handled and j lines of the next;*)
(* what is buffered is the text of the bytes from there, and the decoder has*)
(* of the next block what it would have of it alone.                       *)


\* The decoder has the same of the event being assembled.
Agree(d, e) == d.event = e.event /\ d.data = e.data /\ d.id = e.id /\ d.retry = e.retry

IsDecoder(d) == /\ d = [event |-> d.event, data |-> d.data, id |-> d.id, retry |-> d.retry,
                        comment |-> d.comment, lastId |-> d.lastId]
                /\ d.data \in Seq(Seq(Tokens))

\* The characters that were cut; what is buffered ends in the middle of one if
\* the last chunk did.
CutsInv == /\ blocks \in Streams /\ wire = AllBytes(blocks)
           /\ cuts \subseteq {i \in 1 .. arrived : wire[i] = "hi"}
           /\ arrived > 0 /\ wire[arrived] = "hi" => arrived \in cuts
           /\ reader = "iterator" => cuts = {}
           /\ IsDecoder(decoder)

\* k blocks have been handled and j lines of the next, which are h bytes.
At(k, j, h) == IF k = Len(blocks) THEN j = 0 /\ h = EndOf(k)
               ELSE /\ j \in 0 .. Len(blocks[k + 1].lines)
                    /\ h = EndOf(k) + RowsEnd(blocks[k + 1], j)

\* What is buffered then, and what the decoder has of the next block.
Assembling(k, j) == IF k = Len(blocks) THEN Clear({}, {})
                    ELSE Assembled(blocks[k + 1], CutsIn(k + 1))[j]

\* What is known after k blocks.
KnownAfter(k) ==
    /\ heard = Meant(k)
    /\ started <=> \E i \in 1 .. k : ~blocks[i].silent
    /\ \A l \in 1 .. k : blocks[l].dispatched /\ (\A i \in l + 1 .. k : ~blocks[i].dispatched) =>
          sse.event = blocks[l].event /\ sse.id = blocks[l].id /\ sse.retry = blocks[l].retry

ReadingAt(k, j, h) == /\ At(k, j, h)
                      /\ h <= arrived
                      /\ buffer = Text(wire, cuts, h, arrived)
                      /\ Agree(decoder, Assembling(k, j))
                      /\ KnownAfter(k)
                      /\ ~Failing(k)

\* How the reading ends: an error was heard after l blocks; the client has read l
\* whole blocks; the iterator has flushed its decoder.
FailedAt(l) == /\ EndOf(l) <= arrived
               /\ heard = Meant(l)
               /\ Failing(l)
               /\ stage = "failed"
EndedAt(l)  == /\ EndOf(l) <= arrived
               /\ l < Len(blocks) => arrived < EndOf(l + 1)
               /\ KnownAfter(l)
               /\ reader = "client"
               /\ stage = IF started THEN "ended" ELSE "empty"
FlushedEnd  == /\ reader = "iterator"
               /\ stage \in {"ended", "failed"}
               /\ \A k \in DOMAIN blocks : arrived \in {EndOf(k) - 2, EndOf(k) - 1} => heard = Meant(k)

MeaningInv == /\ StreamInv
              /\ CutsInv
              /\ stage = "reading" => \E k \in 0 .. Len(blocks), j \in Nat, h \in Nat : ReadingAt(k, j, h)
              /\ stage # "reading" => FlushedEnd \/ \E l \in 0 .. Len(blocks) : FailedAt(l) \/ EndedAt(l)

\* The blocks that are sent.
LEMMA BlocksType ==
  ASSUME blocks \in Streams
  PROVE  /\ blocks \in Seq(Sent) /\ Len(blocks) \in Nat /\ DOMAIN blocks = 1 .. Len(blocks)
         /\ \A k \in 1 .. Len(blocks) : WellFormed(blocks[k]) /\ SaysWhatItSays(blocks[k])
         /\ Parts(blocks) \in Seq(Seq(Tokens)) /\ Len(Parts(blocks)) = Len(blocks)
         /\ \A k \in 1 .. Len(blocks) : Parts(blocks)[k] = Bytes(blocks[k])
<1>1. blocks \in Seq(Sent) /\ Len(blocks) \in Nat /\ DOMAIN blocks = 1 .. Len(blocks)
  <2>1. blocks \in Seq(Sent)
    BY BlockAssumption DEF BlockAssumption
  <2> QED BY <2>1, LenProperties
<1>2. \A k \in 1 .. Len(blocks) : WellFormed(blocks[k]) /\ SaysWhatItSays(blocks[k])
  <2>1. \A k \in 1 .. Len(blocks) : blocks[k] \in Sent
    BY <1>1, ElementOfSeq
  <2> QED BY <2>1, BlockAssumption DEF BlockAssumption
<1>3. \A k \in 1 .. Len(blocks) : Bytes(blocks[k]) \in Seq(Tokens)
  BY <1>2, RowsType
<1>4. Parts(blocks) = [k \in 1 .. Len(blocks) |-> Bytes(blocks[k])]
  BY <1>1 DEF Parts
<1>5. Parts(blocks) \in Seq(Seq(Tokens)) /\ Len(Parts(blocks)) = Len(blocks)
  BY <1>1, <1>3, <1>4
<1>6. \A k \in 1 .. Len(blocks) : Parts(blocks)[k] = Bytes(blocks[k])
  BY <1>4
<1> QED BY <1>1, <1>2, <1>5, <1>6

\* Where a block is in what is sent.
LEMMA BlockIn ==
  ASSUME blocks \in Streams, wire = AllBytes(blocks), NEW k \in Nat, k < Len(blocks)
  PROVE  /\ WellFormed(blocks[k + 1]) /\ SaysWhatItSays(blocks[k + 1])
         /\ EndOf(k) \in Nat /\ EndOf(k + 1) \in Nat
         /\ EndOf(k + 1) = EndOf(k) + Len(Bytes(blocks[k + 1]))
         /\ EndOf(k + 1) <= Len(wire)
         /\ \A x \in 1 .. Len(Bytes(blocks[k + 1])) : wire[EndOf(k) + x] = Bytes(blocks[k + 1])[x]
<1>1. k + 1 \in 1 .. Len(blocks)
  BY BlocksType
<1>2. /\ Parts(blocks) \in Seq(Seq(Tokens)) /\ k < Len(Parts(blocks))
      /\ Parts(blocks)[k + 1] = Bytes(blocks[k + 1])
      /\ wire = FlattenSeq(Parts(blocks))
  BY <1>1, BlocksType DEF AllBytes
<1>3. LET s == Parts(blocks)
      IN  /\ EndOfPart(s, k) \in Nat /\ EndOfPart(s, k + 1) \in Nat
          /\ EndOfPart(s, k + 1) = EndOfPart(s, k) + Len(s[k + 1])
          /\ EndOfPart(s, k + 1) <= Len(FlattenSeq(s))
          /\ \A x \in 1 .. Len(s[k + 1]) : FlattenSeq(s)[EndOfPart(s, k) + x] = s[k + 1][x]
  BY <1>2, PartOf
<1>4. WellFormed(blocks[k + 1]) /\ SaysWhatItSays(blocks[k + 1])
  BY <1>1, BlocksType
<1> QED BY <1>2, <1>3, <1>4 DEF EndOf

\* Where the first begins, and the last ends.
LEMMA BlocksBounds ==
  ASSUME blocks \in Streams, wire = AllBytes(blocks)
  PROVE  EndOf(0) = 0 /\ EndOf(Len(blocks)) = Len(wire)
<1>1. Parts(blocks) \in Seq(Seq(Tokens)) /\ Len(Parts(blocks)) = Len(blocks)
  BY BlocksType
<1>2. /\ EndOfPart(Parts(blocks), 0) = 0
      /\ EndOfPart(Parts(blocks), Len(Parts(blocks))) = Len(FlattenSeq(Parts(blocks)))
  BY <1>1, PartsBounds
<1> QED BY <1>1, <1>2 DEF EndOf, AllBytes

\* The blocks end one after the other.
LEMMA BlocksGrow ==
  ASSUME blocks \in Streams, NEW i \in Nat, NEW j \in Nat, i <= j, j <= Len(blocks)
  PROVE  /\ EndOf(i) \in Nat /\ EndOf(j) \in Nat
         /\ EndOf(i) + (j - i) <= EndOf(j)
<1>1. ASSUME NEW x \in 1 .. Len(Parts(blocks))
      PROVE  Len(Parts(blocks)[x]) # 0
  <2>1. x \in 1 .. Len(blocks)
    BY BlocksType
  <2>2. Parts(blocks)[x] = Bytes(blocks[x]) /\ WellFormed(blocks[x])
    BY <2>1, BlocksType
  <2> QED BY <2>2, BlankIn
<1>2. Parts(blocks) \in Seq(Seq(Tokens)) /\ j <= Len(Parts(blocks))
  BY BlocksType
<1>3. /\ EndOfPart(Parts(blocks), i) \in Nat /\ EndOfPart(Parts(blocks), j) \in Nat
      /\ EndOfPart(Parts(blocks), i) + (j - i) <= EndOfPart(Parts(blocks), j)
  BY <1>1, <1>2, PartsGrow
<1> QED BY <1>3 DEF EndOf

\* A block ends in a newline.
LEMMA EndsInNewline ==
  ASSUME blocks \in Streams, wire = AllBytes(blocks), NEW k \in Nat, k # 0, k <= Len(blocks)
  PROVE  EndOf(k) \in Nat /\ EndOf(k) # 0 /\ wire[EndOf(k)] = "nl"
<1>1. PICK i \in Nat : k = i + 1 /\ i < Len(blocks)
  <2>1. k - 1 \in Nat /\ k = (k - 1) + 1 /\ k - 1 < Len(blocks)
    BY BlocksType
  <2> QED BY <2>1
<1>2. /\ WellFormed(blocks[i + 1])
      /\ EndOf(i) \in Nat
      /\ EndOf(i + 1) = EndOf(i) + Len(Bytes(blocks[i + 1]))
      /\ \A x \in 1 .. Len(Bytes(blocks[i + 1])) : wire[EndOf(i) + x] = Bytes(blocks[i + 1])[x]
  BY <1>1, BlockIn
<1>3. PICK n \in Nat : n = Len(Bytes(blocks[i + 1])) /\ n # 0 /\ Bytes(blocks[i + 1])[n] = "nl"
  BY <1>2, BlankIn
<1>4. n \in 1 .. n
  BY <1>3
<1> QED BY <1>1, <1>2, <1>3, <1>4

\* A byte of a block is the same glyph among the others.
LEMMA GlyphIn ==
  ASSUME blocks \in Streams, wire = AllBytes(blocks), Encoded(wire), NEW k \in Nat, k < Len(blocks),
         NEW x \in 1 .. Len(Bytes(blocks[k + 1]))
  PROVE  Glyph(wire, cuts, EndOf(k) + x) = Glyph(Bytes(blocks[k + 1]), CutsIn(k + 1), x)
<1> DEFINE bytes == Bytes(blocks[k + 1])
           n == EndOf(k)
<1>1. /\ bytes \in Seq(Tokens) /\ Len(bytes) \in Nat /\ n \in Nat /\ n + Len(bytes) <= Len(wire)
      /\ Len(wire) \in Nat
      /\ \A i \in 1 .. Len(bytes) : wire[n + i] = bytes[i]
  <2>1. Len(wire) \in Nat
    BY LenProperties DEF Encoded
  <2> QED BY <2>1, BlockIn, RowsType, LenProperties
<1>2. x \in 1 .. Len(bytes) /\ n + x \in 1 .. Len(wire) /\ wire[n + x] = bytes[x]
  BY <1>1
<1>3. \A i \in 1 .. Len(bytes) : i \in CutsIn(k + 1) <=> bytes[i] = "hi" /\ n + i \in cuts
  <2>1. (k + 1) - 1 = k
    OBVIOUS
  <2>2. DOMAIN bytes = 1 .. Len(bytes)
    BY <1>1, LenProperties
  <2> QED BY <2>1, <2>2 DEF CutsIn, Highs
<1>4. CASE bytes[x] = "hi"
  <2>1. x \in CutsIn(k + 1) <=> n + x \in cuts
    BY <1>2, <1>3, <1>4
  <2> QED BY <1>2, <1>4, <2>1 DEF Glyph
<1>5. CASE bytes[x] = "lo"
  <2>1. n + x > 1 /\ wire[(n + x) - 1] = "hi"
    BY <1>2, <1>5 DEF Encoded
  <2>2. x # 1
    <3> SUFFICES ASSUME x = 1 PROVE FALSE
      OBVIOUS
    <3>1. (n + x) - 1 = n /\ n # 0
      BY <1>1, <2>1
    <3>2. k # 0
      BY <3>1, BlocksBounds
    <3>3. wire[n] = "nl"
      BY <3>2, EndsInNewline
    <3> QED BY <2>1, <3>1, <3>3
  <2>3. x - 1 \in 1 .. Len(bytes) /\ (n + x) - 1 = n + (x - 1)
    BY <1>1, <1>2, <2>2
  <2>4. bytes[x - 1] = "hi"
    BY <1>1, <2>1, <2>3
  <2>5. x - 1 \in CutsIn(k + 1) <=> (n + x) - 1 \in cuts
    BY <1>3, <2>3, <2>4
  <2> QED BY <1>2, <1>5, <2>5 DEF Glyph
<1>6. CASE bytes[x] # "hi" /\ bytes[x] # "lo"
  BY <1>2, <1>6 DEF Glyph
<1> QED BY <1>4, <1>5, <1>6

\* Its bytes are the same text.
LEMMA TextIn ==
  ASSUME blocks \in Streams, wire = AllBytes(blocks), Encoded(wire), NEW k \in Nat, k < Len(blocks),
         NEW p \in Nat, NEW q \in Nat, p <= q, q <= Len(Bytes(blocks[k + 1]))
  PROVE  Text(wire, cuts, EndOf(k) + p, EndOf(k) + q) = Text(Bytes(blocks[k + 1]), CutsIn(k + 1), p, q)
<1>1. EndOf(k) \in Nat /\ Len(Bytes(blocks[k + 1])) \in Nat
  BY BlockIn, BlankIn
<1>2. \A i \in p + 1 .. q : i \in 1 .. Len(Bytes(blocks[k + 1]))
  BY <1>1
<1>3. \A i \in p + 1 .. q : Glyph(wire, cuts, EndOf(k) + i) = Glyph(Bytes(blocks[k + 1]), CutsIn(k + 1), i)
  BY <1>2, GlyphIn
<1>b. PICK b, c : b = Bytes(blocks[k + 1]) /\ c = CutsIn(k + 1)
  OBVIOUS
<1>o. PICK o \in Nat : o = EndOf(k)
  BY <1>1
<1>4. o = EndOf(k) /\ b = Bytes(blocks[k + 1]) /\ c = CutsIn(k + 1)
  BY <1>b, <1>o, Zenon
<1>5. \A i \in p + 1 .. q : Glyph(wire, cuts, o + i) = Glyph(b, c, i)
  BY <1>3, <1>4
<1>6. Text(wire, cuts, o + p, o + q) = Text(b, c, p, q)
  BY <1>5, TextSame
<1> QED BY <1>4, <1>6

-----------------------------------------------------------------------------
(* What arrives is the text that it is in the whole.                       *)


\* Only the characters before its end matter for a text.
LEMMA TextBefore ==
  ASSUME NEW bytes, NEW c, NEW d, NEW p \in Nat, NEW q \in Nat, \A i \in 0 .. q : i \in c <=> i \in d
  PROVE  Text(bytes, c, p, q) = Text(bytes, d, p, q)
<1>1. ASSUME NEW i \in 1 .. q - p
      PROVE  Glyph(bytes, c, p + i) = Glyph(bytes, d, p + i)
  <2>1. p + i \in 0 .. q /\ (p + i) - 1 \in 0 .. q
    OBVIOUS
  <2> QED BY <2>1 DEF Glyph
<1>2. [i \in 1 .. q - p |-> Glyph(bytes, c, p + i)] = [i \in 1 .. q - p |-> Glyph(bytes, d, p + i)]
  BY <1>1
<1> QED BY <1>2 DEF Text

\* What a chunk decodes to is its text, if a character that it begins or ends in is
\* one that is cut.
LEMMA ChunkIsText ==
  ASSUME Encoded(wire), NEW a \in Nat, NEW n \in Nat, n # 0, a + n <= Len(wire), NEW c,
         \A i \in a + 1 .. a + n : i \in c <=> i = a + n /\ wire[i] = "hi",
         a # 0 /\ wire[a] = "hi" => a \in c
  PROVE  Decode(SubSeq(wire, a + 1, a + n)) = Text(wire, c, a, a + n)
<1>1. wire \in Seq(Tokens) /\ Len(wire) \in Nat
  BY LenProperties DEF Encoded
<1>2. PICK b : /\ b = SubSeq(wire, a + 1, a + n) /\ b \in Seq(Tokens) /\ Len(b) = n
              /\ \A i \in 1 .. n : b[i] = wire[a + i]
  <2>1. /\ SubSeq(wire, a + 1, a + n) \in Seq(Tokens) /\ Len(SubSeq(wire, a + 1, a + n)) = n
        /\ \A i \in 1 .. n : SubSeq(wire, a + 1, a + n)[i] = wire[a + i]
    BY <1>1, Slice
  <2> QED BY <2>1
<1>3. ASSUME NEW i \in 1 .. n
      PROVE  Piece(b, i) = Glyph(wire, c, a + i)
  <2>1. a + i \in 1 .. Len(wire) /\ a + i \in a + 1 .. a + n /\ (a + i = a + n <=> ~(i < n))
    BY <1>1
  <2>2. b[i] = wire[a + i]
    BY <1>2
  <2>3. CASE b[i] = "hi"
    <3>1. a + i \in c <=> ~(i < n)
      BY <2>1, <2>2, <2>3
    <3> QED BY <1>2, <2>2, <2>3, <3>1 DEF Piece, Glyph
  <2>4. CASE b[i] = "lo"
    <3>1. a + i > 1 /\ wire[(a + i) - 1] = "hi"
      BY <2>1, <2>2, <2>4 DEF Encoded
    <3>2. CASE i = 1
      <4>1. (a + i) - 1 = a /\ a # 0
        BY <3>1, <3>2
      <4>2. (a + i) - 1 \in c
        BY <3>1, <4>1
      <4> QED BY <2>2, <2>4, <3>2, <4>2 DEF Piece, Glyph
    <3>3. CASE i # 1
      <4>1. (a + i) - 1 \in a + 1 .. a + n /\ (a + i) - 1 # a + n
        BY <3>3
      <4>2. (a + i) - 1 \notin c
        BY <4>1
      <4> QED BY <2>2, <2>4, <3>3, <4>2 DEF Piece, Glyph
    <3> QED BY <3>2, <3>3
  <2>5. CASE b[i] # "hi" /\ b[i] # "lo"
    BY <2>2, <2>5 DEF Piece, Glyph
  <2> QED BY <2>3, <2>4, <2>5
<1>4. Pieces(b) = [i \in 1 .. (a + n) - a |-> Glyph(wire, c, a + i)]
  <2>1. DOMAIN b = 1 .. n /\ (a + n) - a = n
    BY <1>2, LenProperties
  <2>2. Pieces(b) = [i \in 1 .. n |-> Piece(b, i)]
    BY <2>1 DEF Pieces
  <2>3. [i \in 1 .. n |-> Piece(b, i)] = [i \in 1 .. n |-> Glyph(wire, c, a + i)]
    BY <1>3
  <2> QED BY <2>1, <2>2, <2>3
<1>5. Decode(b) = FlattenSeq(Pieces(b))
  BY <1>2, PiecesType
<1> QED BY <1>2, <1>4, <1>5 DEF Text

\* What is buffered stays the text of what has arrived.
LEMMA ArriveText ==
  ASSUME StreamInv, CutsInv, NEW n \in 1 .. MaxChunk, Arrive(n), NEW h \in Nat, h <= arrived,
         buffer = Text(wire, cuts, h, arrived)
  PROVE  buffer' = Text(wire, cuts', h, arrived')
<1>1. /\ n \in Nat /\ n # 0 /\ arrived \in Nat /\ arrived + n <= Len(wire) /\ arrived' = arrived + n
      /\ Encoded(wire) /\ wire \in Seq(Tokens) /\ Len(wire) \in Nat
  BY RestType, StreamAssumption DEF StreamInv, StreamAssumption, Arrive, Receive, Encoded
<1>2. /\ cuts \subseteq {i \in 1 .. arrived : wire[i] = "hi"}
      /\ arrived > 0 /\ wire[arrived] = "hi" => arrived \in cuts
  BY DEF CutsInv
<1>3. cuts' = IF wire[arrived + n] = "hi" THEN cuts \cup {arrived + n} ELSE cuts
  BY DEF Arrive, Receive, CutsAt
<1>4. PICK c : c = cuts'
  OBVIOUS
<1>5. \A i \in arrived + 1 .. arrived + n : i \in c <=> i = arrived + n /\ wire[i] = "hi"
  <2> SUFFICES ASSUME NEW i \in arrived + 1 .. arrived + n
               PROVE  i \in c <=> i = arrived + n /\ wire[i] = "hi"
    OBVIOUS
  <2>1. i \notin cuts
    BY <1>1, <1>2
  <2> QED BY <1>3, <1>4, <2>1
<1>6. arrived # 0 /\ wire[arrived] = "hi" => arrived \in c
  BY <1>1, <1>2, <1>3, <1>4
<1>7. Chunk(n) = Text(wire, c, arrived, arrived + n)
  <2>1. Decode(SubSeq(wire, arrived + 1, arrived + n)) = Text(wire, c, arrived, arrived + n)
    BY <1>1, <1>5, <1>6, ChunkIsText
  <2> QED BY <2>1 DEF Chunk
<1>8. Text(wire, cuts, h, arrived) = Text(wire, c, h, arrived)
  <2>1. \A i \in 0 .. arrived : i \in cuts <=> i \in c
    BY <1>1, <1>3, <1>4
  <2> QED BY <1>1, <2>1, TextBefore
<1>9. Text(wire, c, h, arrived + n) = Cat(Text(wire, c, h, arrived), Text(wire, c, arrived, arrived + n))
  BY <1>1, TextConcat
<1>10. buffer' = Cat(buffer, Chunk(n))
  BY DEF Arrive, Cat
<1> QED BY <1>1, <1>4, <1>7, <1>8, <1>9, <1>10

-----------------------------------------------------------------------------
(* The first line of a text is that of its bytes.                          *)


\* Bytes without a newline are text without one.
LEMMA TextNoLine ==
  ASSUME NEW bytes \in Seq(Tokens), NEW cut, NEW p \in Nat, NEW q \in Nat, p <= q, q <= Len(bytes),
         \A i \in p + 1 .. q : bytes[i] # "nl"
  PROVE  /\ Text(bytes, cut, p, q) \in Seq(Tokens)
         /\ \A i \in 1 .. Len(Text(bytes, cut, p, q)) : Text(bytes, cut, p, q)[i] # "nl"
         /\ ~Contains(Text(bytes, cut, p, q), "nl")
<1> DEFINE S == Tokens \ {"nl"}
<1>1. /\ S \subseteq Tokens /\ {"char", "damage"} \subseteq S
  BY BlockAssumption DEF BlockAssumption
<1>2. \A i \in p + 1 .. q : bytes[i] \in S
  <2>1. \A i \in p + 1 .. q : i \in 1 .. Len(bytes)
    BY LenProperties
  <2> QED BY <2>1, ElementOfSeq
<1>3. Text(bytes, cut, p, q) \in Seq(S)
  <2> HIDE DEF S
  <2> QED BY <1>1, <1>2, TextType
<1>4. PICK t \in Seq(S) : t = Text(bytes, cut, p, q)
  BY <1>3
<1>5. Len(t) \in Nat /\ DOMAIN t = 1 .. Len(t) /\ \A i \in 1 .. Len(t) : t[i] \in S
  BY LenProperties, ElementOfSeq
<1>6. t \in Seq(Tokens)
  BY <1>1, SeqMonotonic
<1> QED BY <1>4, <1>5, <1>6 DEF Contains

\* Where the first newline of a text is, and what is before and after it.
First(t)      == SelectInSeq(t, IsNewline)
FirstLine(t)  == SubSeq(t, 1, First(t) - 1)
AfterFirst(t) == SubSeq(t, First(t) + 1, Len(t))

\* The first newline of bytes is the first of their text.
LEMMA TextFirstLine ==
  ASSUME NEW bytes \in Seq(Tokens), NEW cut, NEW p \in Nat, NEW m \in Nat, NEW q \in Nat,
         p <= m, m < q, q <= Len(bytes), bytes[m + 1] = "nl", \A i \in p + 1 .. m : bytes[i] # "nl"
  PROVE  \A t : t = Text(bytes, cut, p, q) =>
            /\ Contains(t, "nl")
            /\ FirstLine(t) = Text(bytes, cut, p, m)
            /\ AfterFirst(t) = Text(bytes, cut, m + 1, q)
<1> SUFFICES ASSUME NEW t, t = Text(bytes, cut, p, q)
             PROVE  /\ Contains(t, "nl")
                    /\ FirstLine(t) = Text(bytes, cut, p, m)
                    /\ AfterFirst(t) = Text(bytes, cut, m + 1, q)
  OBVIOUS
<1>0. Len(bytes) \in Nat /\ {"char", "damage", "nl"} \subseteq Tokens
  BY LenProperties, BlockAssumption DEF BlockAssumption
<1>a. \A i \in 1 .. Len(bytes) : bytes[i] \in Tokens
  BY ElementOfSeq
<1>b. \A x, y \in Nat : x <= y /\ y <= Len(bytes) => Text(bytes, cut, x, y) \in Seq(Tokens)
  <2> SUFFICES ASSUME NEW x \in Nat, NEW y \in Nat, x <= y, y <= Len(bytes)
               PROVE  Text(bytes, cut, x, y) \in Seq(Tokens)
    OBVIOUS
  <2>1. \A i \in x + 1 .. y : bytes[i] \in Tokens
    BY <1>0, <1>a
  <2> QED BY <1>0, <2>1, TextType
<1>1. PICK x \in Seq(Tokens), y \in Seq(Tokens) :
         /\ x = Text(bytes, cut, p, m) /\ y = Text(bytes, cut, m + 1, q)
         /\ \A i \in 1 .. Len(x) : x[i] # "nl"
  <2>1. Text(bytes, cut, p, m) \in Seq(Tokens) /\ Text(bytes, cut, m + 1, q) \in Seq(Tokens)
    BY <1>0, <1>b
  <2>2. \A i \in 1 .. Len(Text(bytes, cut, p, m)) : Text(bytes, cut, p, m)[i] # "nl"
    BY <1>0, TextNoLine
  <2> QED BY <2>1, <2>2
<1>2. PICK one \in Seq(Tokens) : one = <<"nl">> /\ Len(one) = 1 /\ one[1] = "nl"
  <2>1. <<"nl">> \in Seq(Tokens) /\ Len(<<"nl">>) = 1 /\ <<"nl">>[1] = "nl"
    BY <1>0
  <2> QED BY <2>1
<1>3. PICK u : u = x \o one
  OBVIOUS
<1>4. t = u \o y
  <2>1. Text(bytes, cut, p, q) = Cat(Text(bytes, cut, p, m + 1), Text(bytes, cut, m + 1, q))
    BY <1>0, TextConcat
  <2>2. Text(bytes, cut, p, m + 1) = Cat(Text(bytes, cut, p, m), Text(bytes, cut, m, m + 1))
    BY <1>0, TextConcat
  <2>3. Text(bytes, cut, m, m + 1) = one
    <3>1. Text(bytes, cut, m, m + 1) = Glyph(bytes, cut, m + 1)
      BY <1>0, TextOne
    <3> QED BY <1>2, <3>1 DEF Glyph
  <2> QED BY <1>1, <1>3, <2>1, <2>2, <2>3 DEF Cat
<1>5. /\ Len(x) + 1 \in 1 .. Len(t) /\ t[Len(x) + 1] = "nl"
      /\ SubSeq(t, 1, Len(x)) = x
      /\ SubSeq(t, (Len(x) + 1) + 1, Len(t)) = y
  BY <1>2, <1>3, <1>4, Around
<1>6. t \in Seq(Tokens) /\ Len(t) \in Nat /\ DOMAIN t = 1 .. Len(t)
  <2>1. p <= q /\ t \in Seq(Tokens)
    BY <1>0, <1>b
  <2> QED BY <2>1, LenProperties
<1>7. Contains(t, "nl")
  BY <1>5, <1>6 DEF Contains
<1>c. PICK n : n = First(t)
  OBVIOUS
<1>8. n \in 1 .. Len(t) /\ t[n] = "nl" /\ \A i \in 1 .. n - 1 : t[i] # "nl"
  BY <1>6, <1>7, <1>c, FirstNewline DEF First
<1>9. PICK l \in Nat : l = Len(x)
  BY LenProperties
<1>10. \A i \in 1 .. l : t[i] # "nl"
  <2> SUFFICES ASSUME NEW i \in 1 .. l PROVE t[i] # "nl"
    OBVIOUS
  <2>1. SubSeq(t, 1, l) = x /\ l <= Len(t)
    BY <1>5, <1>6, <1>9
  <2>2. \A r \in 1 .. l : t[r] \in Tokens
    BY <1>6, <2>1, ElementOfSeq
  <2>3. \A r \in 1 .. (l - 1) + 1 : SubSeq(t, 1, l)[r] = t[1 + r - 1]
    BY <2>2, SubSeqProperties
  <2>4. i \in 1 .. (l - 1) + 1 /\ 1 + i - 1 = i
    OBVIOUS
  <2>5. x[i] = t[i]
    BY <2>1, <2>3, <2>4
  <2> QED BY <1>1, <1>9, <2>5
<1>11. n = l + 1
  <2>1. ~(n <= l)
    BY <1>8, <1>10
  <2>2. ~(l + 1 <= n - 1)
    BY <1>5, <1>8, <1>9, SMTT(30)
  <2> QED BY <1>6, <1>8, <2>1, <2>2
<1>12. n - 1 = l /\ n + 1 = (l + 1) + 1
  BY <1>11
<1>13. SubSeq(t, 1, n - 1) = x /\ SubSeq(t, n + 1, Len(t)) = y
  BY <1>5, <1>9, <1>12, Zenon
<1>14. FirstLine(t) = SubSeq(t, 1, n - 1) /\ AfterFirst(t) = SubSeq(t, n + 1, Len(t))
  BY <1>c, Zenon DEF FirstLine, AfterFirst
<1> QED BY <1>1, <1>7, <1>13, <1>14, Zenon

\* There is a newline in the text if there is one in the bytes.
LEMMA TextHasLine ==
  ASSUME NEW bytes \in Seq(Tokens), NEW cut, NEW p \in Nat, NEW q \in Nat, p <= q, q <= Len(bytes)
  PROVE  Contains(Text(bytes, cut, p, q), "nl") <=> \E i \in p + 1 .. q : bytes[i] = "nl"
<1>1. ASSUME NEW i \in p + 1 .. q, bytes[i] = "nl"
      PROVE  Contains(Text(bytes, cut, p, q), "nl")
  <2> DEFINE I == {r \in p + 1 .. q : bytes[r] = "nl"}
  <2>1. PICK x \in I : \A y \in I : x <= y
    <3>1. I \subseteq Nat /\ I # {}
      BY <1>1
    <3> QED BY <3>1, LeastNat
  <2>2. PICK m \in Nat : m + 1 = x /\ p <= m /\ m < q
    <3>1. x - 1 \in Nat /\ (x - 1) + 1 = x /\ p <= x - 1 /\ x - 1 < q
      OBVIOUS
    <3> QED BY <3>1
  <2>3. \A r \in p + 1 .. m : bytes[r] # "nl"
    <3> SUFFICES ASSUME NEW r \in p + 1 .. m, bytes[r] = "nl" PROVE FALSE
      OBVIOUS
    <3>1. r \in I /\ ~(x <= r)
      BY <2>2
    <3> QED BY <2>1, <3>1
  <2>4. bytes[m + 1] = "nl"
    BY <2>2
  <2> QED BY <2>2, <2>3, <2>4, TextFirstLine
<1>2. ASSUME \A i \in p + 1 .. q : bytes[i] # "nl"
      PROVE  ~Contains(Text(bytes, cut, p, q), "nl")
  BY <1>2, TextNoLine
<1> QED BY <1>1, <1>2

-----------------------------------------------------------------------------
(* The line that is handled is the next of its block.                      *)


\* How long the line of a block is that begins there; the blank line has no bytes.
WidthOf(block, j) == IF j < Len(block.lines) THEN Len(block.lines[j + 1]) ELSE 0
Width(k, j)       == WidthOf(blocks[k + 1], j)

\* It has no newline, and one after it.
LEMMA LineOf ==
  ASSUME NEW block, WellFormed(block), NEW j \in Nat, j <= Len(block.lines)
  PROVE  /\ RowsEnd(block, j) \in Nat /\ WidthOf(block, j) \in Nat /\ Len(Bytes(block)) \in Nat
         /\ RowsEnd(block, j) + WidthOf(block, j) + 1 <= Len(Bytes(block))
         /\ Bytes(block)[RowsEnd(block, j) + WidthOf(block, j) + 1] = "nl"
         /\ \A x \in 1 .. WidthOf(block, j) : Bytes(block)[RowsEnd(block, j) + x] # "nl"
         /\ j = Len(block.lines) => WidthOf(block, j) = 0 /\ RowsEnd(block, j) + 1 = Len(Bytes(block))
         /\ j < Len(block.lines) =>
               /\ WidthOf(block, j) # 0 /\ WidthOf(block, j) = Len(block.lines[j + 1])
               /\ RowsEnd(block, j) + WidthOf(block, j) + 1 = RowsEnd(block, j + 1)
<1>1. Len(block.lines) \in Nat /\ Len(Bytes(block)) \in Nat
  BY LinesType, BlankIn
<1>2. CASE j = Len(block.lines)
  <2>1. WidthOf(block, j) = 0
    BY <1>1, <1>2 DEF WidthOf
  <2>2. /\ RowsEnd(block, j) = Len(Bytes(block)) - 1
        /\ Len(Bytes(block)) # 0
        /\ Bytes(block)[Len(Bytes(block))] = "nl"
    BY <1>2, BlankIn
  <2>3. RowsEnd(block, j) + 0 + 1 = Len(Bytes(block)) /\ RowsEnd(block, j) \in Nat
    BY <1>1, <2>2
  <2> QED BY <1>1, <1>2, <2>1, <2>2, <2>3
<1>3. CASE j < Len(block.lines)
  <2>1. WidthOf(block, j) = Len(block.lines[j + 1])
    BY <1>3 DEF WidthOf
  <2>2. /\ RowsEnd(block, j) \in Nat
        /\ RowsEnd(block, j + 1) = RowsEnd(block, j) + Len(block.lines[j + 1]) + 1
        /\ RowsEnd(block, j + 1) < Len(Bytes(block))
        /\ \A x \in 1 .. Len(block.lines[j + 1]) : Bytes(block)[RowsEnd(block, j) + x] = block.lines[j + 1][x]
        /\ Bytes(block)[RowsEnd(block, j + 1)] = "nl"
    BY <1>3, LineIn
  <2>3. /\ Len(block.lines[j + 1]) \in Nat /\ Len(block.lines[j + 1]) # 0
        /\ \A x \in 1 .. Len(block.lines[j + 1]) : block.lines[j + 1][x] # "nl"
    <3>1. j + 1 \in 1 .. Len(block.lines)
      BY <1>1, <1>3
    <3> QED BY <3>1, LinesType
  <2>4. RowsEnd(block, j) + WidthOf(block, j) + 1 <= Len(Bytes(block)) /\ j # Len(block.lines)
    BY <1>1, <1>3, <2>1, <2>2, <2>3
  <2> QED BY <1>1, <1>3, <2>1, <2>2, <2>3, <2>4
<1> QED BY <1>1, <1>2, <1>3

\* It is one among all bytes.
LEMMA LineAt ==
  ASSUME blocks \in Streams, wire = AllBytes(blocks), NEW k \in Nat, k < Len(blocks),
         NEW j \in Nat, NEW h \in Nat, At(k, j, h)
  PROVE  /\ EndOf(k) \in Nat /\ EndOf(k + 1) \in Nat /\ Width(k, j) \in Nat
         /\ WellFormed(blocks[k + 1]) /\ Len(blocks[k + 1].lines) \in Nat
         /\ EndOf(k) <= h /\ EndOf(k + 1) <= Len(wire)
         /\ h + Width(k, j) + 1 <= EndOf(k + 1) /\ wire[h + Width(k, j) + 1] = "nl"
         /\ \A i \in h + 1 .. h + Width(k, j) : wire[i] # "nl"
         /\ j <= Len(blocks[k + 1].lines)
         /\ RowsEnd(blocks[k + 1], j) \in Nat /\ h = EndOf(k) + RowsEnd(blocks[k + 1], j)
         /\ j = Len(blocks[k + 1].lines) => Width(k, j) = 0 /\ h + 1 = EndOf(k + 1)
         /\ j < Len(blocks[k + 1].lines) =>
               /\ Width(k, j) # 0 /\ Width(k, j) = Len(blocks[k + 1].lines[j + 1])
               /\ h + Width(k, j) + 1 = EndOf(k) + RowsEnd(blocks[k + 1], j + 1)
<1>1. /\ WellFormed(blocks[k + 1])
      /\ EndOf(k) \in Nat /\ EndOf(k + 1) \in Nat
      /\ EndOf(k + 1) = EndOf(k) + Len(Bytes(blocks[k + 1]))
      /\ EndOf(k + 1) <= Len(wire)
      /\ \A x \in 1 .. Len(Bytes(blocks[k + 1])) : wire[EndOf(k) + x] = Bytes(blocks[k + 1])[x]
  BY BlockIn
<1>2. Len(blocks[k + 1].lines) \in Nat
  BY <1>1, LinesType
<1>3. j <= Len(blocks[k + 1].lines) /\ h = EndOf(k) + RowsEnd(blocks[k + 1], j)
  BY <1>2 DEF At
<1>4. /\ RowsEnd(blocks[k + 1], j) \in Nat /\ Width(k, j) \in Nat /\ Len(Bytes(blocks[k + 1])) \in Nat
      /\ RowsEnd(blocks[k + 1], j) + Width(k, j) + 1 <= Len(Bytes(blocks[k + 1]))
      /\ Bytes(blocks[k + 1])[RowsEnd(blocks[k + 1], j) + Width(k, j) + 1] = "nl"
      /\ \A x \in 1 .. Width(k, j) : Bytes(blocks[k + 1])[RowsEnd(blocks[k + 1], j) + x] # "nl"
      /\ j = Len(blocks[k + 1].lines) => Width(k, j) = 0 /\ RowsEnd(blocks[k + 1], j) + 1 = Len(Bytes(blocks[k + 1]))
      /\ j < Len(blocks[k + 1].lines) =>
            /\ Width(k, j) # 0 /\ Width(k, j) = Len(blocks[k + 1].lines[j + 1])
            /\ RowsEnd(blocks[k + 1], j) + Width(k, j) + 1 = RowsEnd(blocks[k + 1], j + 1)
  BY <1>1, <1>3, LineOf DEF Width
<1>5. /\ wire[(EndOf(k) + RowsEnd(blocks[k + 1], j)) + Width(k, j) + 1] = "nl"
      /\ (EndOf(k) + RowsEnd(blocks[k + 1], j)) + Width(k, j) + 1 <= EndOf(k) + Len(Bytes(blocks[k + 1]))
      /\ \A x \in (EndOf(k) + RowsEnd(blocks[k + 1], j)) + 1 .. (EndOf(k) + RowsEnd(blocks[k + 1], j)) + Width(k, j) :
            wire[x] # "nl"
  <2>1. /\ EndOf(k) \in Nat /\ Len(Bytes(blocks[k + 1])) \in Nat
        /\ \A x \in 1 .. Len(Bytes(blocks[k + 1])) : wire[EndOf(k) + x] = Bytes(blocks[k + 1])[x]
        /\ RowsEnd(blocks[k + 1], j) \in Nat /\ Width(k, j) \in Nat
        /\ RowsEnd(blocks[k + 1], j) + Width(k, j) + 1 <= Len(Bytes(blocks[k + 1]))
        /\ Bytes(blocks[k + 1])[RowsEnd(blocks[k + 1], j) + Width(k, j) + 1] = "nl"
        /\ \A x \in 1 .. Width(k, j) : Bytes(blocks[k + 1])[RowsEnd(blocks[k + 1], j) + x] # "nl"
    BY <1>1, <1>4, Zenon
  <2>a. PICK s, t : s = wire /\ t = Bytes(blocks[k + 1])
    BY Zenon
  <2>b. PICK o \in Nat, l \in Nat, r \in Nat, w \in Nat :
           /\ o = EndOf(k) /\ l = Len(Bytes(blocks[k + 1])) /\ r = RowsEnd(blocks[k + 1], j)
           /\ w = Width(k, j)
    BY <2>1, Zenon
  <2>2. /\ o = EndOf(k) /\ l = Len(Bytes(blocks[k + 1])) /\ r = RowsEnd(blocks[k + 1], j)
        /\ w = Width(k, j) /\ s = wire /\ t = Bytes(blocks[k + 1])
    BY <2>a, <2>b, Zenon
  <2>3. /\ \A x \in 1 .. l : s[o + x] = t[x]
        /\ r + w + 1 <= l /\ t[r + w + 1] = "nl" /\ \A x \in 1 .. w : t[r + x] # "nl"
    BY <2>1, <2>2, Zenon
  <2>4. /\ s[(o + r) + w + 1] = "nl" /\ (o + r) + w + 1 <= o + l
        /\ \A x \in (o + r) + 1 .. (o + r) + w : s[x] # "nl"
    <3>1. r + w + 1 \in 1 .. l /\ (o + r) + w + 1 = o + (r + w + 1) /\ (o + r) + w + 1 <= o + l
      BY <2>3
    <3>2. ASSUME NEW i \in (o + r) + 1 .. (o + r) + w
          PROVE  s[i] # "nl"
      <4>1. PICK x \in 1 .. w : r + x \in 1 .. l /\ i = o + (r + x)
        <5>1. i - (o + r) \in 1 .. w /\ r + (i - (o + r)) \in 1 .. l /\ i = o + (r + (i - (o + r)))
          BY <2>3
        <5> QED BY <5>1
      <4>2. s[o + (r + x)] = t[r + x]
        BY <2>3, <4>1
      <4> QED BY <2>3, <4>1, <4>2
    <3> QED BY <2>3, <3>1, <3>2
  <2> QED BY <2>2, <2>4, Zenon
<1>a. /\ h <= EndOf(k) + RowsEnd(blocks[k + 1], j) /\ EndOf(k) + RowsEnd(blocks[k + 1], j) <= h
      /\ EndOf(k + 1) <= EndOf(k) + Len(Bytes(blocks[k + 1])) /\ EndOf(k) + Len(Bytes(blocks[k + 1])) <= EndOf(k + 1)
  <2>1. \A x, y \in Nat : x = y => x <= y /\ y <= x
    OBVIOUS
  <2>2. EndOf(k) + RowsEnd(blocks[k + 1], j) \in Nat /\ EndOf(k) + Len(Bytes(blocks[k + 1])) \in Nat
    BY <1>1, <1>4, SMTT(30)
  <2> QED BY <1>1, <1>3, <2>1, <2>2, Zenon
<1>b. EndOf(k) \in Nat /\ EndOf(k + 1) \in Nat
  BY <1>1
<1>6. /\ wire[h + Width(k, j) + 1] = "nl" /\ h + Width(k, j) + 1 <= EndOf(k + 1)
      /\ \A i \in h + 1 .. h + Width(k, j) : wire[i] # "nl"
  <2>1. h + Width(k, j) + 1 <= EndOf(k + 1)
    BY <1>a, <1>b, <1>4, SMTT(30)
  <2>2. EndOf(k) + RowsEnd(blocks[k + 1], j) = h
    BY <1>3
  <2>3. wire[h + Width(k, j) + 1] = "nl" /\ \A i \in h + 1 .. h + Width(k, j) : wire[i] # "nl"
    BY <1>5, <2>2, Zenon
  <2> QED BY <2>1, <2>3
<1>7. EndOf(k) <= h
  BY <1>a, <1>b, <1>4
<1>8. j = Len(blocks[k + 1].lines) => Width(k, j) = 0 /\ h + 1 = EndOf(k + 1)
  <2> SUFFICES ASSUME j = Len(blocks[k + 1].lines)
               PROVE  Width(k, j) = 0 /\ h + 1 = EndOf(k + 1)
    OBVIOUS
  <2>1. Width(k, j) = 0 /\ RowsEnd(blocks[k + 1], j) + 1 <= Len(Bytes(blocks[k + 1]))
        /\ Len(Bytes(blocks[k + 1])) <= RowsEnd(blocks[k + 1], j) + 1
    BY <1>4
  <2> QED BY <1>a, <1>b, <1>4, <2>1, SMTT(30)
<1>9. j < Len(blocks[k + 1].lines) =>
               /\ Width(k, j) # 0 /\ Width(k, j) = Len(blocks[k + 1].lines[j + 1])
               /\ h + Width(k, j) + 1 = EndOf(k) + RowsEnd(blocks[k + 1], j + 1)
  <2> SUFFICES ASSUME j < Len(blocks[k + 1].lines)
               PROVE  h + Width(k, j) + 1 = EndOf(k) + RowsEnd(blocks[k + 1], j + 1)
    BY <1>4
  <2>1. RowsEnd(blocks[k + 1], j) + Width(k, j) + 1 = RowsEnd(blocks[k + 1], j + 1)
    BY <1>4
  <2>2. \A e, r, w \in Nat : (e + r) + w + 1 = e + (r + w + 1)
    OBVIOUS
  <2>3. (EndOf(k) + RowsEnd(blocks[k + 1], j)) + Width(k, j) + 1
           = EndOf(k) + (RowsEnd(blocks[k + 1], j) + Width(k, j) + 1)
    <3>1. EndOf(k) \in Nat /\ RowsEnd(blocks[k + 1], j) \in Nat /\ Width(k, j) \in Nat
      BY <1>b, <1>4, Zenon
    <3>2. PICK e \in Nat, r \in Nat, w \in Nat :
             e = EndOf(k) /\ r = RowsEnd(blocks[k + 1], j) /\ w = Width(k, j)
      BY <3>1, Zenon
    <3>3. (e + r) + w + 1 = e + (r + w + 1)
      OBVIOUS
    <3> QED BY <3>2, <3>3, Zenon
  <2>4. h + Width(k, j) + 1 = (EndOf(k) + RowsEnd(blocks[k + 1], j)) + Width(k, j) + 1
    BY <1>3, Zenon
  <2>5. EndOf(k) + (RowsEnd(blocks[k + 1], j) + Width(k, j) + 1) = EndOf(k) + RowsEnd(blocks[k + 1], j + 1)
    BY <2>1, Zenon
  <2> QED BY <2>3, <2>4, <2>5, Zenon
<1> QED BY <1>1, <1>2, <1>3, <1>4, <1>6, <1>7, <1>8, <1>9, Zenon

\* If there is a line in the buffer, it is the next one.
LEMMA NextLine ==
  ASSUME StreamInv, CutsInv, NEW k \in 0 .. Len(blocks), NEW j \in Nat, NEW h \in Nat, At(k, j, h),
         h <= arrived, buffer = Text(wire, cuts, h, arrived)
  PROVE  /\ HasLine <=> k < Len(blocks) /\ h + Width(k, j) + 1 <= arrived
         /\ HasLine => /\ Line = Text(wire, cuts, h, h + Width(k, j))
                       /\ Unread = Text(wire, cuts, h + Width(k, j) + 1, arrived)
<1>0. /\ wire \in Seq(Tokens) /\ Len(wire) \in Nat /\ arrived \in Nat /\ arrived <= Len(wire)
      /\ blocks \in Streams /\ wire = AllBytes(blocks)
      /\ Len(blocks) \in Nat /\ k \in Nat
  BY RestType, BlocksType DEF StreamInv, CutsInv, Encoded
<1>1. HasLine <=> \E i \in h + 1 .. arrived : wire[i] = "nl"
  <2>1. Contains(Text(wire, cuts, h, arrived), "nl") <=> \E i \in h + 1 .. arrived : wire[i] = "nl"
    BY <1>0, TextHasLine
  <2> QED BY <2>1, Zenon DEF HasLine
<1>2. CASE k = Len(blocks)
  <2>1. h = Len(wire)
    BY <1>0, <1>2, BlocksBounds DEF At
  <2>2. ~HasLine
    BY <1>0, <1>1, <2>1
  <2> QED BY <1>2, <2>2
<1>3. CASE k < Len(blocks)
  <2>0. /\ Width(k, j) \in Nat /\ EndOf(k + 1) \in Nat /\ EndOf(k + 1) <= Len(wire)
        /\ h + Width(k, j) + 1 <= EndOf(k + 1) /\ wire[h + Width(k, j) + 1] = "nl"
        /\ \A i \in h + 1 .. h + Width(k, j) : wire[i] # "nl"
    <3>1. blocks \in Streams /\ wire = AllBytes(blocks) /\ k \in Nat
      BY <1>0
    <3> QED BY <1>3, <3>1, LineAt
  <2>1. PICK w \in Nat : w = Width(k, j)
    BY <2>0, Zenon
  <2>2. /\ h + w + 1 <= Len(wire) /\ wire[h + w + 1] = "nl"
        /\ \A i \in h + 1 .. h + w : wire[i] # "nl"
    <3>1. h + Width(k, j) + 1 <= Len(wire)
      BY <1>0, <2>0
    <3> QED BY <2>0, <2>1, <3>1, Zenon
  <2>3. HasLine <=> h + w + 1 <= arrived
    <3>1. ASSUME h + w + 1 <= arrived
          PROVE  HasLine
      <4>1. h + w + 1 \in h + 1 .. arrived
        BY <1>0, <3>1
      <4> QED BY <1>1, <2>2, <4>1
    <3>2. ASSUME ~(h + w + 1 <= arrived)
          PROVE  ~HasLine
      <4>1. \A i \in h + 1 .. arrived : i \in h + 1 .. h + w
        BY <1>0, <3>2
      <4> QED BY <1>1, <2>2, <4>1
    <3> QED BY <3>1, <3>2
  <2>4. ASSUME HasLine
        PROVE  Line = Text(wire, cuts, h, h + w) /\ Unread = Text(wire, cuts, h + w + 1, arrived)
    <3>1. PICK m \in Nat : m = h + w /\ h <= m /\ m < arrived /\ arrived <= Len(wire)
      BY <1>0, <2>3, <2>4
    <3>2. PICK t : t = Text(wire, cuts, h, arrived) /\ t = buffer
      OBVIOUS
    <3>3. FirstLine(t) = Text(wire, cuts, h, m)
          /\ AfterFirst(t) = Text(wire, cuts, m + 1, arrived)
      <4>1. wire[m + 1] = "nl" /\ \A i \in h + 1 .. m : wire[i] # "nl"
        BY <2>2, <3>1
      <4>2. \A u : u = Text(wire, cuts, h, arrived) =>
               /\ FirstLine(u) = Text(wire, cuts, h, m)
               /\ AfterFirst(u) = Text(wire, cuts, m + 1, arrived)
        <5>1. wire \in Seq(Tokens) /\ h \in Nat /\ m \in Nat /\ arrived \in Nat
          BY <1>0
        <5>2. h <= m /\ m < arrived /\ arrived <= Len(wire)
          BY <3>1
        <5> QED BY <4>1, <5>1, <5>2, TextFirstLine
      <4> QED BY <3>2, <4>2, Zenon
    <3>4. LineEnd = First(t)
      BY <3>2, Zenon DEF LineEnd, First
    <3>5. Line = FirstLine(t) /\ Unread = AfterFirst(t)
      BY <3>2, <3>4, Zenon DEF Line, Unread, FirstLine, AfterFirst
    <3> QED BY <3>1, <3>3, <3>5, Zenon
  <2> QED BY <1>3, <2>1, <2>3, <2>4, Zenon
<1> QED BY <1>0, <1>2, <1>3

-----------------------------------------------------------------------------
(* What the decoder has of a block after some of its lines.                *)

\* What Assembled is up to the nth line.
Steps(block, cut, n, f) ==
    f = [j \in 0 .. n |-> IF j = 0 THEN Clear({}, {}) ELSE Field(f[j - 1], LineText(block, cut, j))]

\* There is such a function, as for every n there is one up to there.
LEMMA StepsExist ==
  ASSUME NEW block, NEW cut, NEW m \in Nat
  PROVE  \E f : Steps(block, cut, m, f)
<1> DEFINE A == {n \in Nat : \E f : Steps(block, cut, n, f)}
<1>1. 0 \in A
  <2>1. \A j \in 0 .. 0 : j = 0
    OBVIOUS
  <2> DEFINE f == [j \in 0 .. 0 |-> Clear({}, {})]
  <2>2. f = [j \in 0 .. 0 |-> IF j = 0 THEN Clear({}, {}) ELSE Field(f[j - 1], LineText(block, cut, j))]
    BY <2>1
  <2>3. Steps(block, cut, 0, f)
    <3> HIDE DEF f
    <3> QED BY <2>2 DEF Steps
  <2> QED BY <2>3
<1>2. ASSUME NEW n \in Nat, n \in A
      PROVE  n + 1 \in A
  <2>1. PICK f : Steps(block, cut, n, f)
    BY <1>2
  <2>2. \A j \in 0 .. n : f[j] = IF j = 0 THEN Clear({}, {}) ELSE Field(f[j - 1], LineText(block, cut, j))
    BY <2>1 DEF Steps
  <2> DEFINE g == [j \in 0 .. n + 1 |->
                     IF j <= n THEN f[j] ELSE Field(f[n], LineText(block, cut, n + 1))]
  <2>3. \A j \in 0 .. n + 1 : g[j] = IF j <= n THEN f[j] ELSE Field(f[n], LineText(block, cut, n + 1))
    OBVIOUS
  <2>4. g = [j \in 0 .. n + 1 |-> g[j]]
    OBVIOUS
  <2> HIDE DEF g
  <2>5. ASSUME NEW j \in 0 .. n + 1
        PROVE  g[j] = IF j = 0 THEN Clear({}, {}) ELSE Field(g[j - 1], LineText(block, cut, j))
    <3>1. CASE j <= n
      <4>1. j \in 0 .. n /\ (j # 0 => j - 1 \in 0 .. n + 1 /\ j - 1 <= n)
        BY <3>1
      <4>2. g[j] = f[j] /\ (j # 0 => g[j - 1] = f[j - 1])
        BY <2>3, <3>1, <4>1
      <4> QED BY <2>2, <4>1, <4>2
    <3>2. CASE j = n + 1
      <4>1. j # 0 /\ j - 1 = n /\ ~(j <= n) /\ n \in 0 .. n + 1 /\ n <= n
        BY <3>2
      <4>2. g[j] = Field(f[n], LineText(block, cut, n + 1)) /\ g[n] = f[n]
        BY <2>3, <4>1
      <4> QED BY <3>2, <4>1, <4>2
    <3> QED BY <3>1, <3>2
  <2>6. Steps(block, cut, n + 1, g)
    BY <2>4, <2>5 DEF Steps
  <2> QED BY <2>6
<1>3. m \in A
  <2> HIDE DEF A
  <2> QED BY <1>1, <1>2, Induction
<1> QED BY <1>3

\* Line by line.
LEMMA AssembledSteps ==
  ASSUME NEW block, WellFormed(block), NEW cut
  PROVE  /\ Assembled(block, cut)[0] = Clear({}, {})
         /\ \A j \in Nat : j < Len(block.lines) =>
               Assembled(block, cut)[j + 1] = Field(Assembled(block, cut)[j], LineText(block, cut, j + 1))
<1>1. PICK m \in Nat : m = Len(block.lines)
  BY LinesType
<1>2. Assembled(block, cut) = CHOOSE f : Steps(block, cut, m, f)
  BY <1>1 DEF Assembled, Steps
<1>3. PICK f : f = Assembled(block, cut) /\ Steps(block, cut, m, f)
  BY <1>2, StepsExist
<1>4. \A j \in 0 .. m : f[j] = IF j = 0 THEN Clear({}, {}) ELSE Field(f[j - 1], LineText(block, cut, j))
  BY <1>3 DEF Steps
<1>5. f[0] = Clear({}, {})
  BY <1>4
<1>6. ASSUME NEW j \in Nat, j < m
      PROVE  f[j + 1] = Field(f[j], LineText(block, cut, j + 1))
  <2>1. j + 1 \in 0 .. m /\ j + 1 # 0 /\ (j + 1) - 1 = j
    BY <1>6
  <2> QED BY <1>4, <2>1
<1> QED BY <1>1, <1>3, <1>5, <1>6

\* The text of a line.
LEMMA LineTextIs ==
  ASSUME NEW block, WellFormed(block), NEW cut, NEW j \in Nat, j < Len(block.lines)
  PROVE  LineText(block, cut, j + 1)
           = Text(Bytes(block), cut, RowsEnd(block, j), RowsEnd(block, j) + WidthOf(block, j))
<1>1. (j + 1) - 1 = j
  OBVIOUS
<1>2. WidthOf(block, j) = Len(block.lines[j + 1])
  BY DEF WidthOf
<1> QED BY <1>1, <1>2, Zenon DEF LineText

\* Only the characters before a line ends matter for it.
LEMMA AssembledBefore ==
  ASSUME NEW block, NEW c, NEW d, NEW m \in Nat, WellFormed(block), m <= Len(block.lines),
         \A i \in 0 .. RowsEnd(block, m) : i \in c <=> i \in d
  PROVE  Assembled(block, c)[m] = Assembled(block, d)[m]
<1> DEFINE A == {n \in Nat : n <= m => Assembled(block, c)[n] = Assembled(block, d)[n]}
<1>0. Len(block.lines) \in Nat
  BY LinesType
<1>1. 0 \in A
  BY AssembledSteps
<1>2. ASSUME NEW n \in Nat, n \in A
      PROVE  n + 1 \in A
  <2> SUFFICES ASSUME n + 1 <= m
               PROVE  Assembled(block, c)[n + 1] = Assembled(block, d)[n + 1]
    OBVIOUS
  <2>1. n < Len(block.lines) /\ n <= m
    BY <1>0
  <2>2. LineText(block, c, n + 1) = LineText(block, d, n + 1)
    <3>1. PICK r \in Nat, w \in Nat : r = RowsEnd(block, n) /\ w = WidthOf(block, n)
      <4>1. n <= Len(block.lines)
        BY <1>0, <2>1
      <4>2. RowsEnd(block, n) \in Nat /\ WidthOf(block, n) \in Nat
        BY <4>1, LineOf
      <4> QED BY <4>2, Zenon
    <3>2. r + w <= RowsEnd(block, m) /\ RowsEnd(block, m) \in Nat
      <4>1. /\ RowsEnd(block, n) + WidthOf(block, n) + 1 = RowsEnd(block, n + 1)
            /\ RowsEnd(block, n) \in Nat
            /\ WidthOf(block, n) \in Nat
        BY <1>0, <2>1, LineOf
      <4>2. /\ RowsEnd(block, n + 1) \in Nat
            /\ RowsEnd(block, m) \in Nat
            /\ RowsEnd(block, n + 1) + (m - (n + 1)) <= RowsEnd(block, m)
        BY RowsGrow
      <4> QED BY <3>1, <4>1, <4>2, SMTT(30)
    <3>3. \A i \in 0 .. r + w : i \in c <=> i \in d
      BY <3>2
    <3>4. Text(Bytes(block), c, r, r + w) = Text(Bytes(block), d, r, r + w)
      <4>1. r + w \in Nat
        OBVIOUS
      <4> QED BY <3>3, <4>1, TextBefore
    <3>5. /\ LineText(block, c, n + 1) = Text(Bytes(block), c, r, r + w)
          /\ LineText(block, d, n + 1) = Text(Bytes(block), d, r, r + w)
      BY <2>1, <3>1, LineTextIs
    <3> QED BY <3>4, <3>5, Zenon
  <2>3. Assembled(block, c)[n] = Assembled(block, d)[n]
    BY <1>2, <2>1
  <2> QED BY <2>1, <2>2, <2>3, AssembledSteps
<1>3. m \in A
  <2> HIDE DEF A
  <2> QED BY <1>1, <1>2, Induction
<1> QED BY <1>3

-----------------------------------------------------------------------------
(* What a line does to the decoder.                                        *)

\* The parts of a line, and what it is.
Colon(line)   == SelectInSeq(line, IsColon)
NameOf(line)  == IF Colon(line) = 0 THEN line ELSE SubSeq(line, 1, Colon(line) - 1)
Beyond(line)  == IF Colon(line) = 0 THEN <<>> ELSE SubSeq(line, Colon(line) + 1, Len(line))
ValueOf(line) == IF Beyond(line) # <<>> /\ Beyond(line)[1] = " " THEN Tail(Beyond(line)) ELSE Beyond(line)
Is(line, w)   == NameOf(line) = <<w>>
KindOf(line)  == IF Colon(line) = 1 THEN "comment"
                 ELSE IF Is(line, "event") THEN "event"
                 ELSE IF Is(line, "data") THEN "data"
                 ELSE IF Is(line, "id") THEN "id"
                 ELSE IF Is(line, "retry") /\ ValueOf(line) = <<"7">> THEN "retry"
                 ELSE "none"

\* Where the colon is, if there is one.
LEMMA ColonType ==
  ASSUME NEW line \in Seq(Tokens)
  PROVE  Colon(line) \in 0 .. Len(line)
<1>0. Len(line) \in Nat
  BY LenProperties
<1> DEFINE I == {i \in 1 .. Len(line) : line[i] = ":"}
<1>1. CASE I = {}
  <2>1. Colon(line) = 0
    BY <1>1 DEF Colon, SelectInSeq, IsColon
  <2> QED BY <1>0, <2>1
<1>2. CASE I # {}
  <2>1. \E x \in I : \A y \in I : x =< y
    <3>1. I \subseteq Nat
      OBVIOUS
    <3> QED BY <1>2, <3>1, LeastNat
  <2>2. Colon(line) = CHOOSE x \in I : \A y \in I : x =< y
    BY <1>2 DEF Colon, SelectInSeq, Min, IsColon
  <2>3. Colon(line) \in I
    BY <2>1, <2>2
  <2> QED BY <1>0, <2>3
<1> QED BY <1>1, <1>2

\* Its value is text.
LEMMA ValueType ==
  ASSUME NEW line \in Seq(Tokens)
  PROVE  ValueOf(line) \in Seq(Tokens)
<1>0. Len(line) \in Nat /\ Colon(line) \in Nat
  BY LenProperties, ColonType
<1>1. Beyond(line) \in Seq(Tokens)
  <2>1. \A i \in Colon(line) + 1 .. Len(line) : line[i] \in Tokens
    BY <1>0, ElementOfSeq
  <2>2. SubSeq(line, Colon(line) + 1, Len(line)) \in Seq(Tokens)
    BY <1>0, <2>1, SubSeqProperties
  <2>3. <<>> \in Seq(Tokens)
    OBVIOUS
  <2> QED BY <2>2, <2>3 DEF Beyond
<1>2. Beyond(line) # <<>> => Tail(Beyond(line)) \in Seq(Tokens)
  BY <1>1, HeadTailProperties
<1> QED BY <1>1, <1>2 DEF ValueOf

\* What the line is decides what it does.
LEMMA FieldIs ==
  ASSUME NEW d, NEW line
  PROVE  \/ KindOf(line) = "comment" /\ Field(d, line) = [d EXCEPT !.comment = {Ink(Beyond(line))}]
         \/ KindOf(line) = "event" /\ Field(d, line) = [d EXCEPT !.event = {ValueOf(line)}]
         \/ KindOf(line) = "data" /\ Field(d, line) = [d EXCEPT !.data = Append(@, ValueOf(line))]
         \/ KindOf(line) = "id" /\ Field(d, line) = [d EXCEPT !.id = {ValueOf(line)}]
         \/ KindOf(line) = "retry" /\ Field(d, line) = [d EXCEPT !.retry = {ValueOf(line)}]
         \/ KindOf(line) = "none" /\ Field(d, line) = d
<1>1. Field(d, line)
        = CASE Colon(line) = 1 -> [d EXCEPT !.comment = {Ink(Beyond(line))}]
            [] Is(line, "event") -> [d EXCEPT !.event = {ValueOf(line)}]
            [] Is(line, "data")  -> [d EXCEPT !.data = Append(@, ValueOf(line))]
            [] Is(line, "id")    -> [d EXCEPT !.id = {ValueOf(line)}]
            [] Is(line, "retry") -> IF ValueOf(line) = <<"7">> THEN [d EXCEPT !.retry = {ValueOf(line)}] ELSE d
            [] OTHER -> d
  BY Zenon DEF Field, Colon, NameOf, Beyond, ValueOf, Is
<1>2. PICK f, a, b, c, e, g, v7 :
         /\ f = Field(d, line)
         /\ a = [d EXCEPT !.comment = {Ink(Beyond(line))}]
         /\ b = [d EXCEPT !.event = {ValueOf(line)}]
         /\ c = [d EXCEPT !.data = Append(@, ValueOf(line))]
         /\ e = [d EXCEPT !.id = {ValueOf(line)}]
         /\ g = [d EXCEPT !.retry = {ValueOf(line)}]
         /\ v7 = (ValueOf(line) = <<"7">>)
  BY Zenon
<1>3. f = CASE Colon(line) = 1 -> a
            [] Is(line, "event") -> b
            [] Is(line, "data")  -> c
            [] Is(line, "id")    -> e
            [] Is(line, "retry") -> IF v7 THEN g ELSE d
            [] OTHER -> d
  BY <1>1, <1>2, Zenon
<1>4. /\ Colon(line) = 1 => ~Is(line, "event") /\ ~Is(line, "data") /\ ~Is(line, "id") /\ ~Is(line, "retry")
      /\ Is(line, "event") => ~Is(line, "data") /\ ~Is(line, "id") /\ ~Is(line, "retry")
      /\ Is(line, "data") => ~Is(line, "id") /\ ~Is(line, "retry")
      /\ Is(line, "id") => ~Is(line, "retry")
  <2>1. Colon(line) = 1 => NameOf(line) = <<>>
    <3>1. SubSeq(line, 1, 0) = <<>>
      BY SubSeqEmpty
    <3>2. Colon(line) = 1 => Colon(line) - 1 = 0 /\ Colon(line) # 0
      OBVIOUS
    <3> QED BY <3>1, <3>2 DEF NameOf
  <2>2. PICK n : n = NameOf(line)
    OBVIOUS
  <2>3. /\ n = <<>> => n # <<"event">> /\ n # <<"data">> /\ n # <<"id">> /\ n # <<"retry">>
        /\ n = <<"event">> => n # <<"data">> /\ n # <<"id">> /\ n # <<"retry">>
        /\ n = <<"data">> => n # <<"id">> /\ n # <<"retry">>
        /\ n = <<"id">> => n # <<"retry">>
    OBVIOUS
  <2> QED BY <2>1, <2>2, <2>3, Zenon DEF Is
<1>5. CASE Colon(line) = 1
  <2>1. f = a /\ KindOf(line) = "comment"
    BY <1>3, <1>4, <1>5 DEF KindOf
  <2> QED BY <1>2, <2>1, Zenon
<1>6. CASE Colon(line) # 1 /\ Is(line, "event")
  <2>1. f = b /\ KindOf(line) = "event"
    BY <1>3, <1>4, <1>6 DEF KindOf
  <2>2. KindOf(line) = "event" /\ Field(d, line) = [d EXCEPT !.event = {ValueOf(line)}]
    BY <1>2, <2>1, Zenon
  <2> QED BY <2>2, Zenon
<1>7. CASE Colon(line) # 1 /\ Is(line, "data")
  <2>1. f = c /\ KindOf(line) = "data"
    BY <1>3, <1>4, <1>7 DEF KindOf
  <2>2. KindOf(line) = "data" /\ Field(d, line) = [d EXCEPT !.data = Append(@, ValueOf(line))]
    BY <1>2, <2>1, Zenon
  <2> QED BY <2>2, Zenon
<1>8. CASE Colon(line) # 1 /\ Is(line, "id")
  <2>1. f = e /\ KindOf(line) = "id"
    BY <1>3, <1>4, <1>8 DEF KindOf
  <2>2. KindOf(line) = "id" /\ Field(d, line) = [d EXCEPT !.id = {ValueOf(line)}]
    BY <1>2, <2>1, Zenon
  <2> QED BY <2>2, Zenon
<1>9. CASE Colon(line) # 1 /\ Is(line, "retry")
  <2>1. f = IF v7 THEN g ELSE d
    BY <1>3, <1>4, <1>9
  <2>2. ~Is(line, "event") /\ ~Is(line, "data") /\ ~Is(line, "id")
    BY <1>4, <1>9, Zenon
  <2>3. CASE ValueOf(line) = <<"7">>
    <3>1. f = g
      BY <1>2, <2>1, <2>3, Zenon
    <3>2. KindOf(line) = "retry"
      BY <1>9, <2>2, <2>3, Zenon DEF KindOf
    <3>3. KindOf(line) = "retry" /\ Field(d, line) = [d EXCEPT !.retry = {ValueOf(line)}]
      BY <1>2, <3>1, <3>2, Zenon
    <3> QED BY <3>3, Zenon
  <2>4. CASE ValueOf(line) # <<"7">>
    <3>1. f = d
      BY <1>2, <2>1, <2>4, Zenon
    <3>2. KindOf(line) = "none"
      BY <1>9, <2>2, <2>4, Zenon DEF KindOf
    <3> QED BY <1>2, <3>1, <3>2, Zenon
  <2> QED BY <2>3, <2>4, Zenon
<1>10. CASE Colon(line) # 1 /\ ~Is(line, "event") /\ ~Is(line, "data") /\ ~Is(line, "id") /\ ~Is(line, "retry")
  <2>1. f = d
    BY <1>3, <1>10
  <2>2. KindOf(line) = "none"
    BY <1>10, Zenon DEF KindOf
  <2> QED BY <1>2, <2>1, <2>2, Zenon
<1> QED BY <1>5, <1>6, <1>7, <1>8, <1>9, <1>10

\* The fields of a decoder after a line.
LEMMA FieldParts ==
  ASSUME NEW d, IsDecoder(d), NEW line
  PROVE  /\ Field(d, line).event = IF KindOf(line) = "event" THEN {ValueOf(line)} ELSE d.event
         /\ Field(d, line).data = IF KindOf(line) = "data" THEN Append(d.data, ValueOf(line)) ELSE d.data
         /\ Field(d, line).id = IF KindOf(line) = "id" THEN {ValueOf(line)} ELSE d.id
         /\ Field(d, line).retry = IF KindOf(line) = "retry" THEN {ValueOf(line)} ELSE d.retry
         /\ \E a, b, c, e, f, g : Field(d, line) = [event |-> a, data |-> b, id |-> c, retry |-> e,
                                                    comment |-> f, lastId |-> g]
<1>1. PICK a, b, c, e, f, g :
         d = [event |-> a, data |-> b, id |-> c, retry |-> e, comment |-> f, lastId |-> g]
  BY Zenon DEF IsDecoder
<1>2. PICK r, k, v, w, x :
         /\ r = Field(d, line) /\ k = KindOf(line) /\ v = {ValueOf(line)} /\ w = Append(d.data, ValueOf(line))
         /\ x = {Ink(Beyond(line))}
  BY Zenon
<1>3. \/ k = "comment" /\ r = [d EXCEPT !.comment = x]
      \/ k = "event" /\ r = [d EXCEPT !.event = v]
      \/ k = "data" /\ r = [d EXCEPT !.data = w]
      \/ k = "id" /\ r = [d EXCEPT !.id = v]
      \/ k = "retry" /\ r = [d EXCEPT !.retry = v]
      \/ k = "none" /\ r = d
  BY <1>2, FieldIs, Zenon
<1>4. /\ r.event = IF k = "event" THEN v ELSE d.event
      /\ r.data = IF k = "data" THEN w ELSE d.data
      /\ r.id = IF k = "id" THEN v ELSE d.id
      /\ r.retry = IF k = "retry" THEN v ELSE d.retry
  BY <1>1, <1>3
<1>5. \E aa, bb, cc, ee, ff, gg : r = [event |-> aa, data |-> bb, id |-> cc, retry |-> ee, comment |-> ff, lastId |-> gg]
  <2>1. CASE k = "comment"
    <3>1. r = [event |-> a, data |-> b, id |-> c, retry |-> e, comment |-> x, lastId |-> g]
      BY <1>1, <1>3, <2>1
    <3> QED BY <3>1, Zenon
  <2>2. CASE k = "event"
    <3>1. r = [event |-> v, data |-> b, id |-> c, retry |-> e, comment |-> f, lastId |-> g]
      BY <1>1, <1>3, <2>2
    <3> QED BY <3>1, Zenon
  <2>3. CASE k = "data"
    <3>1. r = [event |-> a, data |-> w, id |-> c, retry |-> e, comment |-> f, lastId |-> g]
      BY <1>1, <1>3, <2>3
    <3> QED BY <3>1, Zenon
  <2>4. CASE k = "id"
    <3>1. r = [event |-> a, data |-> b, id |-> v, retry |-> e, comment |-> f, lastId |-> g]
      BY <1>1, <1>3, <2>4
    <3> QED BY <3>1, Zenon
  <2>5. CASE k = "retry"
    <3>1. r = [event |-> a, data |-> b, id |-> c, retry |-> v, comment |-> f, lastId |-> g]
      BY <1>1, <1>3, <2>5
    <3> QED BY <3>1, Zenon
  <2>6. CASE k = "none"
    BY <1>1, <1>3, <2>6, Zenon
  <2> QED BY <1>3, <2>1, <2>2, <2>3, <2>4, <2>5, <2>6, Zenon
<1> QED BY <1>2, <1>4, <1>5, Zenon

\* A line does the same to decoders that have the same.
LEMMA FieldAgrees ==
  ASSUME NEW d, NEW e, IsDecoder(d), IsDecoder(e), Agree(d, e), NEW line
  PROVE  Agree(Field(d, line), Field(e, line))
<1>1. d.event = e.event /\ d.data = e.data /\ d.id = e.id /\ d.retry = e.retry
  BY DEF Agree
<1>2. /\ Field(d, line).event = IF KindOf(line) = "event" THEN {ValueOf(line)} ELSE d.event
      /\ Field(d, line).data = IF KindOf(line) = "data" THEN Append(d.data, ValueOf(line)) ELSE d.data
      /\ Field(d, line).id = IF KindOf(line) = "id" THEN {ValueOf(line)} ELSE d.id
      /\ Field(d, line).retry = IF KindOf(line) = "retry" THEN {ValueOf(line)} ELSE d.retry
  BY FieldParts, Zenon
<1>3. /\ Field(e, line).event = IF KindOf(line) = "event" THEN {ValueOf(line)} ELSE e.event
      /\ Field(e, line).data = IF KindOf(line) = "data" THEN Append(e.data, ValueOf(line)) ELSE e.data
      /\ Field(e, line).id = IF KindOf(line) = "id" THEN {ValueOf(line)} ELSE e.id
      /\ Field(e, line).retry = IF KindOf(line) = "retry" THEN {ValueOf(line)} ELSE e.retry
  BY FieldParts, Zenon
<1> QED BY <1>1, <1>2, <1>3, Zenon DEF Agree

\* A decoder stays one.
LEMMA FieldType ==
  ASSUME NEW d, IsDecoder(d), NEW line \in Seq(Tokens)
  PROVE  IsDecoder(Field(d, line))
<1>1. PICK r, k : r = Field(d, line) /\ k = KindOf(line)
  BY Zenon
<1>2. r.data \in Seq(Seq(Tokens))
  <2>1. d.data \in Seq(Seq(Tokens))
    BY DEF IsDecoder
  <2>2. Append(d.data, ValueOf(line)) \in Seq(Seq(Tokens))
    BY <2>1, ValueType, AppendProperties
  <2>3. r.data = Append(d.data, ValueOf(line)) \/ r.data = d.data
    BY <1>1, FieldParts, Zenon
  <2> QED BY <2>1, <2>2, <2>3, Zenon
<1>3. PICK a, b, c, e, f, g : r = [event |-> a, data |-> b, id |-> c, retry |-> e, comment |-> f, lastId |-> g]
  <2>1. \E a, b, c, e, f, g : Field(d, line) = [event |-> a, data |-> b, id |-> c, retry |-> e,
                                                  comment |-> f, lastId |-> g]
    BY FieldParts, Zenon
  <2> QED BY <1>1, <2>1, Zenon
<1>4. r = [event |-> r.event, data |-> r.data, id |-> r.id, retry |-> r.retry,
           comment |-> r.comment, lastId |-> r.lastId]
  BY <1>3
<1>5. IsDecoder(r)
  BY <1>2, <1>4, Zenon DEF IsDecoder
<1> QED BY <1>1, <1>5, Zenon

\* What the decoder begins with.
LEMMA ClearType ==
  ASSUME NEW x, NEW y
  PROVE  IsDecoder(Clear(x, y)) /\ \A z, w : Agree(Clear(x, y), Clear(z, w))
<1>1. <<>> \in Seq(Seq(Tokens))
  OBVIOUS
<1>2. IsDecoder(Clear(x, y))
  <2>1. PICK c : c = Clear(x, y)
    OBVIOUS
  <2>2. c = [event |-> {}, data |-> <<>>, id |-> {}, retry |-> {}, comment |-> x, lastId |-> y]
    BY <2>1, Zenon DEF Clear
  <2>3. c.data = <<>> /\ c.event = {} /\ c.id = {} /\ c.retry = {} /\ c.comment = x /\ c.lastId = y
    BY <2>2
  <2>4. c.data \in Seq(Seq(Tokens))
    BY <1>1, <2>3, Zenon
  <2>5. c = [event |-> c.event, data |-> c.data, id |-> c.id, retry |-> c.retry, comment |-> c.comment, lastId |-> c.lastId]
    BY <2>2, <2>3, Zenon
  <2> QED BY <2>1, <2>4, <2>5, Zenon DEF IsDecoder
<1>3. \A z, w : Agree(Clear(x, y), Clear(z, w))
  BY DEF Clear, Agree
<1> QED BY <1>2, <1>3

-----------------------------------------------------------------------------
(* What an event says.                                                     *)

\* What a sequence of pieces flattens to is text, if the pieces are.
LEMMA FlattenTo ==
  ASSUME NEW n \in Nat, NEW f, f = [i \in 1 .. n |-> f[i]], \A i \in 1 .. n : f[i] \in Seq(Tokens)
  PROVE  FlattenSeq(f) \in Seq(Tokens)
<1>1. f \in Seq(Seq(Tokens))
  <2>1. [i \in 1 .. n |-> f[i]] \in Seq(Seq(Tokens))
    OBVIOUS
  <2> QED BY <2>1, Zenon
<1> QED BY <1>1, FlattenType

\* The text of the data of an event, and what is no blank of it.
LEMMA JoinedType ==
  ASSUME NEW pieces \in Seq(Seq(Tokens))
  PROVE  Joined(pieces) \in Seq(Tokens)
<1>1. /\ Len(pieces) \in Nat /\ DOMAIN pieces = 1 .. Len(pieces)
      /\ \A i \in 1 .. Len(pieces) : pieces[i] \in Seq(Tokens)
  BY LenProperties, ElementOfSeq
<1>2. <<"nl">> \in Seq(Tokens)
  BY BlockAssumption DEF BlockAssumption
<1>3. \A i \in 1 .. Len(pieces) : <<"nl">> \o pieces[i] \in Seq(Tokens)
  BY <1>1, <1>2, ConcatProperties
<1> DEFINE f == [i \in 1 .. Len(pieces) |-> IF i = 1 THEN pieces[i] ELSE <<"nl">> \o pieces[i]]
<1>4. f = [i \in 1 .. Len(pieces) |-> f[i]]
  OBVIOUS
<1>5. \A i \in 1 .. Len(pieces) : f[i] \in Seq(Tokens)
  BY <1>1, <1>3
<1>6. Joined(pieces) = FlattenSeq(f)
  BY <1>1, Zenon DEF Joined
<1> HIDE DEF f
<1> QED BY <1>1, <1>4, <1>5, <1>6, FlattenTo

\* What is no blank of it is text.
LEMMA InkType ==
  ASSUME NEW data \in Seq(Tokens)
  PROVE  Ink(data) \in Seq(Tokens)
<1>1. Len(data) \in Nat /\ DOMAIN data = 1 .. Len(data) /\ \A i \in 1 .. Len(data) : data[i] \in Tokens
  BY LenProperties, ElementOfSeq
<1> DEFINE f == [i \in 1 .. Len(data) |-> IF IsInk(data[i]) THEN <<data[i]>> ELSE <<>>]
<1>4. f = [i \in 1 .. Len(data) |-> f[i]]
  OBVIOUS
<1>5. \A i \in 1 .. Len(data) : f[i] \in Seq(Tokens)
  <2>1. \A x \in Tokens : <<x>> \in Seq(Tokens)
    OBVIOUS
  <2>2. <<>> \in Seq(Tokens)
    OBVIOUS
  <2>3. \A i \in 1 .. Len(data) : f[i] = <<data[i]>> \/ f[i] = <<>>
    OBVIOUS
  <2> HIDE DEF f
  <2> QED BY <1>1, <2>1, <2>2, <2>3
<1>6. Ink(data) = FlattenSeq(f)
  BY <1>1, Zenon DEF Ink
<1> HIDE DEF f
<1> QED BY <1>1, <1>4, <1>5, <1>6, FlattenTo

\* The text of an object is what its shape carries.
LEMMA ShapeText ==
  ASSUME NEW name \in Shapes, NEW t
  PROVE  (Shape(name, t).delta = t \/ Shape(name, t).delta = <<>>)
         /\ (Shape(name, t).text = t \/ Shape(name, t).text = <<>>)
BY DEF Shapes, Shape, Keys

\* The text of an event is that of its object.
LEMMA InterpretText ==
  ASSUME NEW c
  PROVE  Interpret(c).content = <<>> \/ Interpret(c).content = c.delta \/ Interpret(c).content = c.text
BY DEF Interpret, Reveal, ArenaEvent, Content

\* An error says nothing.
LEMMA InterpretError ==
  ASSUME NEW c
  PROVE  Interpret(c).kind = "error" => Interpret(c).content = <<>>
BY DEF Interpret, Reveal, ArenaEvent, Content

\* What an event says is text.
LEMMA ParseType ==
  ASSUME NEW data \in Seq(Tokens), Parse(data) # <<>>
  PROVE  /\ Parse(data)[1].content \in Seq(Tokens)
         /\ Parse(data)[1].kind = "error" => Parse(data)[1].content = <<>>
<1>1. PICK t \in Seq(Tokens) : t = Ink(data)
  BY InkType
<1>2. <<>> \in Seq(Tokens)
  OBVIOUS
<1>3. t # <<>>
  BY <1>1 DEF Parse
<1>4. CASE t = <<"[DONE]">>
  BY <1>1, <1>2, <1>3, <1>4 DEF Parse, ArenaEvent
<1>5. PICK u \in Seq(Tokens) : u = SubSeq(t, 2, Len(t) - 1)
  <2>1. \A i \in 2 .. Len(t) - 1 : t[i] \in Tokens
    BY LenProperties, ElementOfSeq
  <2>2. PICK n \in Int : n = Len(t) - 1
    BY LenProperties
  <2>3. SubSeq(t, 2, n) \in Seq(Tokens)
    <3>1. \A i \in 2 .. n : t[i] \in Tokens
      BY <2>1, <2>2
    <3> QED BY <3>1, SubSeqProperties
  <2> QED BY <2>2, <2>3, Zenon
<1>6. ~(Len(t) = 1 /\ Head(t) \in Scalars)
  <2>1. t # <<"[DONE]">> /\ Len(t) = 1 /\ Head(t) \in Scalars => Parse(data) = <<>>
    BY <1>1, <1>3, Zenon DEF Parse
  <2>2. t = <<"[DONE]">> => Head(t) \notin Scalars
    BY DEF Scalars
  <2> QED BY <2>1, <2>2, Zenon
<1>7. ASSUME NEW text \in Seq(Tokens), Parse(data) = <<[ArenaEvent EXCEPT !.content = text]>>
      PROVE  /\ Parse(data)[1].content \in Seq(Tokens)
             /\ Parse(data)[1].kind = "error" => Parse(data)[1].content = <<>>
  <2>1. PICK e : e = [ArenaEvent EXCEPT !.content = text]
    OBVIOUS
  <2>2. e.content = text /\ e.kind # "error"
    BY <2>1 DEF ArenaEvent
  <2>3. <<e>>[1] = e
    OBVIOUS
  <2> QED BY <1>7, <2>1, <2>2, <2>3, Zenon
<1>8. CASE t # <<"[DONE]">> /\ Enclosed(t, {"quote"}, "quote")
  <2>1. Parse(data) = IF u = <<>> THEN <<>> ELSE <<[ArenaEvent EXCEPT !.content = u]>>
    BY <1>1, <1>3, <1>5, <1>6, <1>8, Zenon DEF Parse
  <2>2. Parse(data) = <<[ArenaEvent EXCEPT !.content = u]>>
    BY <2>1, Zenon
  <2> QED BY <1>7, <2>2
<1>9. CASE t # <<"[DONE]">> /\ ~Enclosed(t, {"quote"}, "quote") /\ Enclosed(t, Shapes, "}")
  <2>1. PICK c : c = Shape(Head(t), u)
    OBVIOUS
  <2>2. Head(t) \in Shapes
    BY <1>9, Zenon DEF Enclosed
  <2>3. (c.delta = u \/ c.delta = <<>>) /\ (c.text = u \/ c.text = <<>>)
    BY <2>1, <2>2, ShapeText, Zenon
  <2>4. Interpret(c).content \in Seq(Tokens)
    BY <1>2, <1>5, <2>3, InterpretText
  <2>5. Interpret(c).kind = "error" => Interpret(c).content = <<>>
    BY InterpretError
  <2>6. Parse(data) = <<Interpret(c)>>
    BY <1>1, <1>3, <1>5, <1>6, <1>9, <2>1, Zenon DEF Parse
  <2>7. PICK e : e = Interpret(c)
    OBVIOUS
  <2>8. <<e>>[1] = e
    OBVIOUS
  <2> QED BY <2>4, <2>5, <2>6, <2>7, <2>8, Zenon
<1>10. CASE t # <<"[DONE]">> /\ ~Enclosed(t, {"quote"}, "quote") /\ ~Enclosed(t, Shapes, "}")
  <2>1. Parse(data) = <<[ArenaEvent EXCEPT !.content = data]>>
    BY <1>1, <1>3, <1>6, <1>10, Zenon DEF Parse
  <2> QED BY <1>7, <2>1
<1> QED BY <1>4, <1>8, <1>9, <1>10

-----------------------------------------------------------------------------
(* How an event is heard after what was heard before.                      *)


\* What is heard.
Ear(a, b, m, n, f) == [a |-> a, b |-> b, modelA |-> m, modelB |-> n, failed |-> f]
IsHeard(h) == /\ h = Ear(h.a, h.b, h.modelA, h.modelB, h.failed)
              /\ h.a \in Seq(Tokens) /\ h.b \in Seq(Tokens) /\ h.failed \in BOOLEAN

\* That it has failed, as a value.
Yes == TRUE

\* What is heard with what is said after it.
Ever(f, g) == f \/ g
Plus(h, s) == Ear(Cat(h.a, s.a), Cat(h.b, s.b), Either(s.modelA, h.modelA), Either(s.modelB, h.modelB),
                  Ever(h.failed, s.failed))

\* What has failed stays failed.
LEMMA EverIs == Yes \in BOOLEAN /\ \A f \in BOOLEAN : Ever(f, Yes) = Yes /\ Ever(f, FALSE) = f
BY DEF Ever, Yes

\* What is heard is text, on two sides.
LEMMA EarIs ==
  ASSUME NEW a \in Seq(Tokens), NEW b \in Seq(Tokens), NEW m, NEW n, NEW f \in BOOLEAN
  PROVE  IsHeard(Ear(a, b, m, n, f))
<1>1. PICK h : h = Ear(a, b, m, n, f)
  OBVIOUS
<1>2. h.a = a /\ h.b = b /\ h.modelA = m /\ h.modelB = n /\ h.failed = f
  BY <1>1 DEF Ear
<1> QED BY <1>1, <1>2, Zenon DEF IsHeard

\* Nothing, at first.
LEMMA UnheardIs == Unheard = Ear(<<>>, <<>>, Absent, Absent, FALSE) /\ IsHeard(Unheard)
<1>1. Unheard = Ear(<<>>, <<>>, Absent, Absent, FALSE)
  BY DEF Unheard, Ear
<1>2. <<>> \in Seq(Tokens)
  OBVIOUS
<1> QED BY <1>1, <1>2, EarIs

\* What is said is put behind what was heard; of the models the last that is named.
LEMMA PlusIs ==
  ASSUME NEW a, NEW b, NEW m, NEW n, NEW f, NEW c, NEW d, NEW o, NEW p, NEW g
  PROVE  Plus(Ear(a, b, m, n, f), Ear(c, d, o, p, g))
           = Ear(Cat(a, c), Cat(b, d), Either(o, m), Either(p, n), Ever(f, g))
<1>1. PICK h, s : h = Ear(a, b, m, n, f) /\ s = Ear(c, d, o, p, g)
  OBVIOUS
<1>2. h.a = a /\ h.b = b /\ h.modelA = m /\ h.modelB = n /\ h.failed = f
  BY <1>1 DEF Ear
<1>3. s.a = c /\ s.b = d /\ s.modelA = o /\ s.modelB = p /\ s.failed = g
  BY <1>1 DEF Ear
<1>4. Plus(h, s) = Ear(Cat(h.a, s.a), Cat(h.b, s.b), Either(s.modelA, h.modelA), Either(s.modelB, h.modelB),
                       Ever(h.failed, s.failed))
  BY Zenon DEF Plus
<1> QED BY <1>1, <1>2, <1>3, <1>4, Zenon

\* How an event is heard.  An error says nothing.
Proper(ev)  == ev.kind = "error" => ev.content = <<>>
Spoken(ev)  == ev.kind \notin {"done", "reveal"} /\ ev.content # <<>>
Fails(ev)   == ev.kind = "error" /\ ev.error # ""
Reveals(ev) == ev.kind = "reveal"
OnA(ev)     == Spoken(ev) /\ ev.index \in {Absent, "a"}
OnB(ev)     == Spoken(ev) /\ ev.index \notin {Absent, "a"}
Quiet(ev)   == ~Fails(ev) /\ ~Reveals(ev) /\ ~Spoken(ev)

\* Every event is of one of these kinds, and is heard as its kind is (battle.py:31-46).
LEMMA HearIs ==
  ASSUME NEW ev, NEW a, NEW b, NEW m, NEW n, NEW f, Proper(ev)
  PROVE  /\ Fails(ev) => Hear(Ear(a, b, m, n, f), ev) = Ear(a, b, m, n, Yes)
         /\ Reveals(ev) => Hear(Ear(a, b, m, n, f), ev) = Ear(a, b, Either(ev.modelA, m), Either(ev.modelB, n), f)
         /\ OnA(ev) => Hear(Ear(a, b, m, n, f), ev) = Ear(Cat(a, ev.content), b, m, n, f)
         /\ OnB(ev) => Hear(Ear(a, b, m, n, f), ev) = Ear(a, Cat(b, ev.content), m, n, f)
         /\ Quiet(ev) => Hear(Ear(a, b, m, n, f), ev) = Ear(a, b, m, n, f)
         /\ Fails(ev) \/ Reveals(ev) \/ OnA(ev) \/ OnB(ev) \/ Quiet(ev)
<1>1. PICK h : h = Ear(a, b, m, n, f)
  OBVIOUS
<1>2. /\ [h EXCEPT !.failed = TRUE] = Ear(a, b, m, n, Yes)
      /\ \A x, y : [h EXCEPT !.modelA = Either(x, @), !.modelB = Either(y, @)] = Ear(a, b, Either(x, m), Either(y, n), f)
  <2>0. [h EXCEPT !.failed = TRUE] = Ear(a, b, m, n, Yes)
    <3>1. \A x : [h EXCEPT !.failed = x] = Ear(a, b, m, n, x)
      BY <1>1 DEF Ear
    <3> QED BY <3>1, Zenon DEF Yes
  <2>1. ASSUME NEW x, NEW y
        PROVE  [h EXCEPT !.modelA = x, !.modelB = y] = Ear(a, b, x, y, f)
    <3>1. [h EXCEPT !.modelA = x] = Ear(a, b, x, n, f)
      BY <1>1 DEF Ear
    <3>2. [Ear(a, b, x, n, f) EXCEPT !.modelB = y] = Ear(a, b, x, y, f)
      BY DEF Ear
    <3>3. [h EXCEPT !.modelA = x, !.modelB = y] = [[h EXCEPT !.modelA = x] EXCEPT !.modelB = y]
      BY <1>1 DEF Ear
    <3> QED BY <3>1, <3>2, <3>3, Zenon
  <2>2. h.modelA = m /\ h.modelB = n
    BY <1>1 DEF Ear
  <2> QED BY <2>0, <2>1, <2>2, Zenon
<1>3. /\ [h EXCEPT !.a = @ \o ev.content] = Ear(Cat(a, ev.content), b, m, n, f)
      /\ [h EXCEPT !.b = @ \o ev.content] = Ear(a, Cat(b, ev.content), m, n, f)
  <2>1. \A x : [h EXCEPT !.a = x] = Ear(x, b, m, n, f) /\ [h EXCEPT !.b = x] = Ear(a, x, m, n, f)
    BY <1>1 DEF Ear
  <2>2. h.a = a /\ h.b = b
    BY <1>1 DEF Ear
  <2> QED BY <2>1, <2>2, Zenon DEF Cat
<1>4. PICK r, k, w1, w2, w3, w4, i1 :
         /\ r = Hear(h, ev) /\ k = ev.kind /\ w1 = [h EXCEPT !.failed = TRUE]
         /\ w2 = [h EXCEPT !.modelA = Either(ev.modelA, @), !.modelB = Either(ev.modelB, @)]
         /\ w3 = [h EXCEPT !.a = @ \o ev.content]
         /\ w4 = [h EXCEPT !.b = @ \o ev.content]
         /\ i1 = ev.index
  BY Zenon
<1>5. r = CASE Fails(ev) -> w1
            [] k = "reveal" -> w2
            [] Spoken(ev) -> IF i1 \in {Absent, "a"} THEN w3 ELSE w4
            [] OTHER -> h
  BY <1>4, Zenon DEF Hear, Fails, Spoken
<1>6. /\ ~(Fails(ev) /\ k = "reveal") /\ ~(Fails(ev) /\ Spoken(ev)) /\ ~(k = "reveal" /\ Spoken(ev))
  BY <1>4 DEF Fails, Spoken, Proper
<1>7. /\ Fails(ev) => r = w1
      /\ k = "reveal" => r = w2
      /\ Spoken(ev) /\ i1 \in {Absent, "a"} => r = w3
      /\ Spoken(ev) /\ i1 \notin {Absent, "a"} => r = w4
      /\ ~Fails(ev) /\ k # "reveal" /\ ~Spoken(ev) => r = h
  BY <1>5, <1>6
<1>8. w1 = Ear(a, b, m, n, Yes) /\ w2 = Ear(a, b, Either(ev.modelA, m), Either(ev.modelB, n), f)
  BY <1>2, <1>4, Zenon
<1>9. w3 = Ear(Cat(a, ev.content), b, m, n, f) /\ w4 = Ear(a, Cat(b, ev.content), m, n, f)
  BY <1>3, <1>4, Zenon
<1>10. /\ Reveals(ev) <=> k = "reveal"
       /\ OnA(ev) <=> Spoken(ev) /\ i1 \in {Absent, "a"}
       /\ OnB(ev) <=> Spoken(ev) /\ i1 \notin {Absent, "a"}
       /\ Quiet(ev) <=> ~Fails(ev) /\ ~Reveals(ev) /\ ~Spoken(ev)
  BY <1>4, Zenon DEF Reveals, OnA, OnB, Quiet
<1> QED BY <1>1, <1>4, <1>7, <1>8, <1>9, <1>10, Zenon

\* An event is heard as what it says alone, after what was heard before.
LEMMA HearPlus ==
  ASSUME NEW ev, ev.content \in Seq(Tokens), Proper(ev), NEW h, IsHeard(h)
  PROVE  Hear(h, ev) = Plus(h, Hear(Unheard, ev)) /\ IsHeard(Hear(h, ev))
<1>0. PICK no, never, ever : no = <<>> /\ never = FALSE /\ ever = Yes
  OBVIOUS
<1>1. PICK a, b, m, n, f :
         h = Ear(a, b, m, n, f) /\ a \in Seq(Tokens) /\ b \in Seq(Tokens) /\ f \in BOOLEAN
  BY Zenon DEF IsHeard
<1>2. PICK t, x, y, i :
         t \in Seq(Tokens) /\ t = ev.content /\ x = ev.modelA /\ y = ev.modelB /\ i = ev.index
  BY Zenon
<1>4. Unheard = Ear(no, no, Absent, Absent, never)
  BY <1>0, UnheardIs, Zenon
<1>5. \A z : Either(Absent, z) = z /\ \A w : Either(Either(w, Absent), z) = Either(w, z)
  BY DEF Either
<1>6. /\ Cat(a, no) = a /\ Cat(b, no) = b /\ Cat(no, t) = t
      /\ Cat(a, t) \in Seq(Tokens) /\ Cat(b, t) \in Seq(Tokens)
  BY <1>0, <1>1, <1>2, CatType
<1>7. Ever(f, ever) = ever /\ Ever(f, never) = f /\ ever \in BOOLEAN
  BY <1>0, <1>1, EverIs, Zenon
<1>8. CASE Fails(ev)
  <2>1. Hear(h, ev) = Ear(a, b, m, n, ever) /\ Hear(Unheard, ev) = Ear(no, no, Absent, Absent, ever)
    <3>1. Hear(Ear(a, b, m, n, f), ev) = Ear(a, b, m, n, Yes)
      BY <1>8, HearIs
    <3>2. Hear(Ear(no, no, Absent, Absent, never), ev) = Ear(no, no, Absent, Absent, Yes)
      BY <1>8, HearIs
    <3> QED BY <1>0, <1>1, <1>2, <1>4, <3>1, <3>2, Zenon
  <2>2. Plus(Ear(a, b, m, n, f), Ear(no, no, Absent, Absent, ever))
           = Ear(Cat(a, no), Cat(b, no), Either(Absent, m), Either(Absent, n), Ever(f, ever))
    BY PlusIs
  <2>3. IsHeard(Ear(a, b, m, n, ever))
    BY <1>1, <1>7, EarIs, Zenon
  <2> QED BY <1>1, <1>5, <1>6, <1>7, <2>1, <2>2, <2>3, Zenon
<1>9. CASE Reveals(ev)
  <2>1. /\ Hear(h, ev) = Ear(a, b, Either(x, m), Either(y, n), f)
        /\ Hear(Unheard, ev) = Ear(no, no, Either(x, Absent), Either(y, Absent), never)
    <3>1. Hear(Ear(a, b, m, n, f), ev) = Ear(a, b, Either(ev.modelA, m), Either(ev.modelB, n), f)
      BY <1>9, HearIs
    <3>2. Hear(Ear(no, no, Absent, Absent, never), ev) = Ear(no, no, Either(ev.modelA, Absent), Either(ev.modelB, Absent), never)
      BY <1>9, HearIs
    <3> QED BY <1>0, <1>1, <1>2, <1>4, <3>1, <3>2, Zenon
  <2>2. Plus(Ear(a, b, m, n, f), Ear(no, no, Either(x, Absent), Either(y, Absent), never))
           = Ear(Cat(a, no), Cat(b, no), Either(Either(x, Absent), m), Either(Either(y, Absent), n), Ever(f, never))
    BY PlusIs
  <2>3. IsHeard(Ear(a, b, Either(x, m), Either(y, n), f))
    BY <1>1, EarIs, Zenon
  <2> QED BY <1>1, <1>5, <1>6, <1>7, <2>1, <2>2, <2>3, Zenon
<1>10. CASE OnA(ev)
  <2>1. /\ Hear(h, ev) = Ear(Cat(a, t), b, m, n, f)
        /\ Hear(Unheard, ev) = Ear(Cat(no, t), no, Absent, Absent, never)
    <3>1. Hear(Ear(a, b, m, n, f), ev) = Ear(Cat(a, ev.content), b, m, n, f)
      BY <1>10, HearIs
    <3>2. Hear(Ear(no, no, Absent, Absent, never), ev) = Ear(Cat(no, ev.content), no, Absent, Absent, never)
      BY <1>10, HearIs
    <3> QED BY <1>0, <1>1, <1>2, <1>4, <3>1, <3>2, Zenon
  <2>2. Plus(Ear(a, b, m, n, f), Ear(t, no, Absent, Absent, never))
           = Ear(Cat(a, t), Cat(b, no), Either(Absent, m), Either(Absent, n), Ever(f, never))
    BY PlusIs
  <2>3. IsHeard(Ear(Cat(a, t), b, m, n, f))
    BY <1>1, <1>6, EarIs, Zenon
  <2> QED BY <1>1, <1>5, <1>6, <1>7, <2>1, <2>2, <2>3, Zenon
<1>11. CASE OnB(ev)
  <2>1. /\ Hear(h, ev) = Ear(a, Cat(b, t), m, n, f)
        /\ Hear(Unheard, ev) = Ear(no, Cat(no, t), Absent, Absent, never)
    <3>1. Hear(Ear(a, b, m, n, f), ev) = Ear(a, Cat(b, ev.content), m, n, f)
      BY <1>11, HearIs
    <3>2. Hear(Ear(no, no, Absent, Absent, never), ev) = Ear(no, Cat(no, ev.content), Absent, Absent, never)
      BY <1>11, HearIs
    <3> QED BY <1>0, <1>1, <1>2, <1>4, <3>1, <3>2, Zenon
  <2>2. Plus(Ear(a, b, m, n, f), Ear(no, t, Absent, Absent, never))
           = Ear(Cat(a, no), Cat(b, t), Either(Absent, m), Either(Absent, n), Ever(f, never))
    BY PlusIs
  <2>3. IsHeard(Ear(a, Cat(b, t), m, n, f))
    BY <1>1, <1>6, EarIs, Zenon
  <2> QED BY <1>1, <1>5, <1>6, <1>7, <2>1, <2>2, <2>3, Zenon
<1>12. CASE Quiet(ev)
  <2>1. Hear(h, ev) = Ear(a, b, m, n, f) /\ Hear(Unheard, ev) = Ear(no, no, Absent, Absent, never)
    <3>1. Hear(Ear(a, b, m, n, f), ev) = Ear(a, b, m, n, f)
      BY <1>12, HearIs
    <3>2. Hear(Ear(no, no, Absent, Absent, never), ev) = Ear(no, no, Absent, Absent, never)
      BY <1>12, HearIs
    <3> QED BY <1>0, <1>1, <1>2, <1>4, <3>1, <3>2, Zenon
  <2>2. Plus(Ear(a, b, m, n, f), Ear(no, no, Absent, Absent, never))
           = Ear(Cat(a, no), Cat(b, no), Either(Absent, m), Either(Absent, n), Ever(f, never))
    BY PlusIs
  <2>3. IsHeard(Ear(a, b, m, n, f))
    BY <1>1, EarIs, Zenon
  <2> QED BY <1>1, <1>5, <1>6, <1>7, <2>1, <2>2, <2>3, Zenon
<1>13. Fails(ev) \/ Reveals(ev) \/ OnA(ev) \/ OnB(ev) \/ Quiet(ev)
  BY HearIs
<1> QED BY <1>8, <1>9, <1>10, <1>11, <1>12, <1>13, Zenon

\* What is said after nothing, and nothing after what is said.
LEMMA PlusNothing ==
  ASSUME NEW h, IsHeard(h)
  PROVE  Plus(h, Unheard) = h
<1>0. PICK no, never : no = <<>> /\ never = FALSE
  OBVIOUS
<1>1. PICK a, b, m, n, f :
         h = Ear(a, b, m, n, f) /\ a \in Seq(Tokens) /\ b \in Seq(Tokens) /\ f \in BOOLEAN
  BY Zenon DEF IsHeard
<1>2. Unheard = Ear(no, no, Absent, Absent, never)
  BY <1>0, UnheardIs, Zenon
<1>3. Plus(Ear(a, b, m, n, f), Ear(no, no, Absent, Absent, never))
         = Ear(Cat(a, no), Cat(b, no), Either(Absent, m), Either(Absent, n), Ever(f, never))
  BY PlusIs
<1>4. Cat(a, no) = a /\ Cat(b, no) = b
  BY <1>0, <1>1, CatType
<1>5. Either(Absent, m) = m /\ Either(Absent, n) = n
  BY DEF Either
<1>6. Ever(f, never) = f
  BY <1>0, <1>1, EverIs, Zenon
<1> QED BY <1>1, <1>2, <1>3, <1>4, <1>5, <1>6, Zenon

\* What an event is heard as, after what has been heard.
LEMMA EventPlus ==
  ASSUME NEW known, IsHeard(known.heard), NEW d, d.data \in Seq(Seq(Tokens)), NEW none, none.heard = Unheard
  PROVE  /\ AfterEvent(known, d).heard = Plus(known.heard, AfterEvent(none, d).heard)
         /\ IsHeard(AfterEvent(known, d).heard)
<1>1. PICK data \in Seq(Tokens) : data = Joined(d.data)
  BY JoinedType
<1>2. PICK events : events = Parse(data)
  OBVIOUS
<1>3. \A k : AfterEvent(k, d).heard = IF events = <<>> THEN k.heard ELSE Hear(k.heard, events[1])
  BY <1>1, <1>2 DEF AfterEvent
<1>4. CASE events = <<>>
  <2>1. AfterEvent(known, d).heard = known.heard /\ AfterEvent(none, d).heard = Unheard
    BY <1>3, <1>4, Zenon
  <2> QED BY <2>1, PlusNothing, Zenon
<1>5. CASE events # <<>>
  <2>1. PICK ev : ev = events[1]
    OBVIOUS
  <2>2. AfterEvent(known, d).heard = Hear(known.heard, ev) /\ AfterEvent(none, d).heard = Hear(Unheard, ev)
    BY <1>3, <1>5, <2>1, Zenon
  <2>3. ev.content \in Seq(Tokens) /\ Proper(ev)
    BY <1>2, <1>5, <2>1, ParseType, Zenon DEF Proper
  <2> QED BY <2>2, <2>3, HearPlus, Zenon
<1> QED BY <1>4, <1>5, Zenon

-----------------------------------------------------------------------------
(* What blocks mean: alone, and one after the other.                       *)


\* What a block says on a side.
Side(block, cut, side) == IF block.side = side THEN Legible(block, cut) ELSE <<>>

\* A block says text.
LEMMA LegibleType ==
  ASSUME NEW block, WellFormed(block), NEW cut
  PROVE  Legible(block, cut) \in Seq(Tokens)
<1>1. PICK n : n \in Nat /\ DOMAIN block.text = 1 .. n /\ \A i \in 1 .. n : block.text[i] \in Tokens
  <2>1. block.text \in Seq(Tokens)
    BY DEF WellFormed
  <2>2. Len(block.text) \in Nat /\ DOMAIN block.text = 1 .. Len(block.text)
    BY <2>1, LenProperties
  <2>3. \A i \in 1 .. Len(block.text) : block.text[i] \in Tokens
    BY <2>1, ElementOfSeq
  <2> QED BY <2>2, <2>3
<1> DEFINE Damaged(i) == \E h \in cut : Cardinality({g \in Highs(block) : g <= h})
                                          = Cardinality({j \in 1 .. i : block.text[j] = "char"})
           f == [i \in 1 .. n |-> IF block.text[i] = "char" /\ Damaged(i) THEN <<"damage", "damage">>
                                  ELSE <<block.text[i]>>]
<1>2. Legible(block, cut) = FlattenSeq(f)
  BY <1>1, Zenon DEF Legible
<1>3. \A i \in 1 .. n : f[i] = <<"damage", "damage">> \/ f[i] = <<block.text[i]>>
  <2> HIDE DEF Damaged
  <2> QED OBVIOUS
<1>4. <<"damage", "damage">> \in Seq(Tokens) /\ \A x \in Tokens : <<x>> \in Seq(Tokens)
  BY BlockAssumption DEF BlockAssumption
<1>5. f = [i \in 1 .. n |-> f[i]]
  <2> HIDE DEF Damaged
  <2> QED OBVIOUS
<1> HIDE DEF f
<1>6. \A i \in 1 .. n : f[i] \in Seq(Tokens)
  BY <1>1, <1>3, <1>4, Zenon
<1> QED BY <1>1, <1>2, <1>5, <1>6, FlattenTo

\* What it says on a side is text.
LEMMA SideType ==
  ASSUME NEW block, WellFormed(block), NEW cut, NEW side
  PROVE  Side(block, cut, side) \in Seq(Tokens)
<1>1. <<>> \in Seq(Tokens)
  OBVIOUS
<1> QED BY <1>1, LegibleType, Zenon DEF Side

\* What a block says.
LEMMA SayingIs ==
  ASSUME NEW block, WellFormed(block), NEW cut
  PROVE  /\ IsHeard(Saying(block, cut))
         /\ block.fails => Saying(block, cut) = Ear(<<>>, <<>>, Absent, Absent, Yes)
         /\ ~block.fails => Saying(block, cut) = Ear(Side(block, cut, "a"), Side(block, cut, "b"),
                                                     block.modelA, block.modelB, FALSE)
<1>0. PICK no, never : no = <<>> /\ never = FALSE
  OBVIOUS
<1>1. PICK h : h = Ear(no, no, Absent, Absent, never) /\ h = Unheard
  BY <1>0, UnheardIs, Zenon
<1>2. [h EXCEPT !.failed = TRUE] = Ear(no, no, Absent, Absent, Yes)
  <2>1. \A x : [h EXCEPT !.failed = x] = Ear(no, no, Absent, Absent, x)
    BY <1>1 DEF Ear
  <2> QED BY <2>1, Zenon DEF Yes
<1>3. ASSUME NEW x, NEW y, NEW m, NEW n
      PROVE  [h EXCEPT !.a = x, !.b = y, !.modelA = m, !.modelB = n] = Ear(x, y, m, n, never)
  <2>1. [h EXCEPT !.a = x] = Ear(x, no, Absent, Absent, never)
    BY <1>1 DEF Ear
  <2>2. [Ear(x, no, Absent, Absent, never) EXCEPT !.b = y] = Ear(x, y, Absent, Absent, never)
    BY DEF Ear
  <2>3. [Ear(x, y, Absent, Absent, never) EXCEPT !.modelA = m] = Ear(x, y, m, Absent, never)
    BY DEF Ear
  <2>4. [Ear(x, y, m, Absent, never) EXCEPT !.modelB = n] = Ear(x, y, m, n, never)
    BY DEF Ear
  <2>5. [h EXCEPT !.a = x, !.b = y, !.modelA = m, !.modelB = n]
          = [[[[h EXCEPT !.a = x] EXCEPT !.b = y] EXCEPT !.modelA = m] EXCEPT !.modelB = n]
    BY <1>1 DEF Ear
  <2> QED BY <2>1, <2>2, <2>3, <2>4, <2>5, Zenon
<1>4. PICK x, y : x = Side(block, cut, "a") /\ y = Side(block, cut, "b")
  OBVIOUS
<1>5. Saying(block, cut) = IF block.fails THEN [h EXCEPT !.failed = TRUE]
                           ELSE [h EXCEPT !.a = x, !.b = y, !.modelA = block.modelA, !.modelB = block.modelB]
  BY <1>1, <1>4, Zenon DEF Saying, Side
<1>6. x \in Seq(Tokens) /\ y \in Seq(Tokens)
  BY <1>4, SideType, Zenon
<1>7. no \in Seq(Tokens) /\ Yes \in BOOLEAN /\ never \in BOOLEAN
  <2>1. <<>> \in Seq(Tokens)
    OBVIOUS
  <2>2. FALSE \in BOOLEAN
    OBVIOUS
  <2> QED BY <1>0, <2>1, <2>2, EverIs, Zenon
<1>8. CASE block.fails
  <2>1. Saying(block, cut) = Ear(no, no, Absent, Absent, Yes)
    BY <1>2, <1>5, <1>8, Zenon
  <2>2. IsHeard(Ear(no, no, Absent, Absent, Yes))
    BY <1>7, EarIs, Zenon
  <2> QED BY <1>0, <1>8, <2>1, <2>2, Zenon
<1>9. CASE ~block.fails
  <2>1. Saying(block, cut) = Ear(x, y, block.modelA, block.modelB, never)
    BY <1>3, <1>5, <1>9, Zenon
  <2>2. IsHeard(Ear(x, y, block.modelA, block.modelB, never))
    BY <1>6, <1>7, EarIs, Zenon
  <2> QED BY <1>0, <1>4, <1>9, <2>1, <2>2, Zenon
<1> QED BY <1>8, <1>9, Zenon

\* What has been said after k blocks, as what is heard.
LEMMA MeantIs ==
  ASSUME NEW k
  PROVE  Meant(k) = Ear(Said("a", k), Said("b", k), Named("modelA", k), Named("modelB", k), Failing(k))
<1>1. ASSUME NEW x, NEW y, NEW m, NEW n, NEW f
      PROVE  [a |-> x, b |-> y, failed |-> f, modelA |-> m, modelB |-> n] = Ear(x, y, m, n, f)
  BY DEF Ear
<1> QED BY <1>1, Zenon DEF Meant

\* After the next block there is an error if there was one, or if it fails.
LEMMA FailingStep ==
  ASSUME NEW k \in Nat
  PROVE  /\ Failing(0) = FALSE
         /\ Failing(k + 1) = (Failing(k) \/ blocks[k + 1].fails)
         /\ \A j \in 1 .. k : ~Failing(k) => ~Failing(j)
<1>1. ~Failing(0)
  BY DEF Failing
<1>2. Failing(k + 1) <=> Failing(k) \/ blocks[k + 1].fails
  <2>1. \A j : j \in 1 .. k + 1 <=> j \in 1 .. k \/ j = k + 1
    OBVIOUS
  <2> QED BY <2>1, Zenon DEF Failing
<1>3. \A j \in 1 .. k : ~Failing(k) => ~Failing(j)
  <2>1. \A j \in 1 .. k : \A i \in 1 .. j : i \in 1 .. k
    OBVIOUS
  <2> QED BY <2>1, Zenon DEF Failing
<1>4. Failing(0) \in BOOLEAN /\ Failing(k + 1) \in BOOLEAN
  BY Zenon DEF Failing
<1> QED BY <1>1, <1>2, <1>3, <1>4, Zenon

\* What the jth block adds to a side.
Turn(side, j) == IF blocks[j].side = side /\ ~Failing(j) THEN Legible(blocks[j], CutsIn(j)) ELSE <<>>

\* What is said on a side after the next block.
LEMMA SaidStep ==
  ASSUME blocks \in Streams, NEW side, NEW k \in Nat, k < Len(blocks)
  PROVE  /\ Said(side, 0) = <<>>
         /\ Said(side, k) \in Seq(Tokens)
         /\ Said(side, k + 1) = Cat(Said(side, k), Turn(side, k + 1))
         /\ Said(side, k + 1) \in Seq(Tokens)
<1>1. \A j \in 1 .. k + 1 : Turn(side, j) \in Seq(Tokens)
  <2>1. \A j \in 1 .. k + 1 : WellFormed(blocks[j])
    BY BlocksType
  <2>2. <<>> \in Seq(Tokens)
    OBVIOUS
  <2> QED BY <2>1, <2>2, LegibleType, Zenon DEF Turn
<1>2. PICK s : s = [j \in 1 .. k |-> Turn(side, j)]
  OBVIOUS
<1>3. PICK t : t = [j \in 1 .. k + 1 |-> Turn(side, j)]
  OBVIOUS
<1>4. PICK x : x = Turn(side, k + 1)
  OBVIOUS
<1>5. s \in Seq(Seq(Tokens)) /\ x \in Seq(Tokens)
  <2>1. x \in Seq(Tokens)
    BY <1>1, <1>4
  <2>2. \A j \in 1 .. k : Turn(side, j) \in Seq(Tokens)
    BY <1>1
  <2> QED BY <1>2, <2>1, <2>2
<1>6. t = Append(s, x)
  BY <1>2, <1>3, <1>4, <1>5
<1>7. FlattenSeq(s) \in Seq(Tokens)
  BY <1>5, FlattenType
<1>8. FlattenSeq(Append(s, x)) = FlattenSeq(s) \o x /\ FlattenSeq(Append(s, x)) \in Seq(Tokens)
  BY <1>5, <1>7, FlattenAppend
<1>9. Said(side, k) = FlattenSeq(s) /\ Said(side, k + 1) = FlattenSeq(t)
  BY <1>2, <1>3, Zenon DEF Said, Turn
<1>10. Said(side, 0) = <<>>
  <2>1. PICK u : u = [j \in 1 .. 0 |-> Turn(side, j)]
    OBVIOUS
  <2>2. Said(side, 0) = FlattenSeq(u)
    BY <2>1, Zenon DEF Said, Turn
  <2>3. u = <<>>
    BY <2>1
  <2>4. FlattenSeq(<<>>) = <<>>
    BY DEF FlattenSeq
  <2> QED BY <2>2, <2>3, <2>4, Zenon
<1> QED BY <1>4, <1>6, <1>7, <1>8, <1>9, <1>10, Zenon DEF Cat

\* The blocks that name a model, and the last of some numbers.
Naming(model, k) == {j \in 1 .. k : blocks[j][model] # Absent /\ ~Failing(j)}
Latest(S)        == CHOOSE j \in S : \A i \in S : i <= j

\* The model that is named after the next block.
LEMMA NamedStep ==
  ASSUME NEW model, NEW k \in Nat
  PROVE  /\ Named(model, 0) = Absent
         /\ Failing(k + 1) => Named(model, k + 1) = Named(model, k)
         /\ ~Failing(k + 1) => Named(model, k + 1) = Either(blocks[k + 1][model], Named(model, k))
<1>0. \A l : Named(model, l) = IF Naming(model, l) = {} THEN Absent
                               ELSE blocks[Latest(Naming(model, l))][model]
  BY Zenon DEF Named, Naming, Latest
<1>1. Named(model, 0) = Absent
  <2>1. Naming(model, 0) = {}
    BY DEF Naming
  <2> QED BY <1>0, <2>1, Zenon
<1>2. \A j : j \in 1 .. k + 1 <=> j \in 1 .. k \/ j = k + 1
  OBVIOUS
<1>3. CASE Failing(k + 1) \/ blocks[k + 1][model] = Absent
  <2>1. Naming(model, k + 1) = Naming(model, k)
    BY <1>2, <1>3 DEF Naming
  <2>2. Named(model, k + 1) = Named(model, k)
    BY <1>0, <2>1, Zenon
  <2> QED BY <1>1, <1>3, <2>2, Zenon DEF Either
<1>4. CASE ~Failing(k + 1) /\ blocks[k + 1][model] # Absent
  <2>1. k + 1 \in Naming(model, k + 1) /\ \A i \in Naming(model, k + 1) : i \in Nat /\ i <= k + 1
    BY <1>4 DEF Naming
  <2>2. PICK S : S = Naming(model, k + 1)
    OBVIOUS
  <2>3. Latest(S) = k + 1
    <3>1. PICK l : l = Latest(S)
      OBVIOUS
    <3>2. l \in S /\ \A i \in S : i <= l
      <4>1. \E j \in S : \A i \in S : i <= j
        BY <2>1, <2>2
      <4> QED BY <3>1, <4>1, Zenon DEF Latest
    <3>3. l = k + 1
      BY <2>1, <2>2, <3>2
    <3> QED BY <3>1, <3>3, Zenon
  <2>4. S # {}
    BY <2>1, <2>2
  <2> QED BY <1>0, <1>1, <1>4, <2>2, <2>3, <2>4, Zenon DEF Either
<1> QED BY <1>3, <1>4, Zenon

\* The next block says what it says, after what was said before.
LEMMA MeantStep ==
  ASSUME blocks \in Streams, NEW k \in Nat, k < Len(blocks)
  PROVE  /\ IsHeard(Meant(k))
         /\ ~Failing(k) => Meant(k + 1) = Plus(Meant(k), Saying(blocks[k + 1], CutsIn(k + 1)))
         /\ Failing(k) => Meant(k + 1) = Meant(k)
         /\ Meant(0) = Unheard
<1>1. /\ WellFormed(blocks[k + 1]) /\ blocks[k + 1].fails \in BOOLEAN
  BY BlocksType DEF WellFormed
<1>2. PICK block, cut : block = blocks[k + 1] /\ cut = CutsIn(k + 1)
  OBVIOUS
<1>3. PICK a, b, c, d, m, n, p, q, f :
         /\ a = Said("a", k) /\ b = Said("b", k) /\ c = Turn("a", k + 1) /\ d = Turn("b", k + 1)
         /\ m = Named("modelA", k) /\ n = Named("modelB", k) /\ f = Failing(k)
         /\ p = Named("modelA", k + 1) /\ q = Named("modelB", k + 1)
  BY Zenon
<1>4. Meant(k) = Ear(a, b, m, n, f) /\ a \in Seq(Tokens) /\ b \in Seq(Tokens) /\ f \in BOOLEAN
  <2>1. f \in BOOLEAN
    BY <1>3, Zenon DEF Failing
  <2> QED BY <1>3, <2>1, MeantIs, SaidStep, Zenon
<1>5. Meant(k + 1) = Ear(Cat(a, c), Cat(b, d), p, q, Failing(k + 1))
  <2>1. Said("a", k + 1) = Cat(a, c) /\ Said("b", k + 1) = Cat(b, d)
    BY <1>3, SaidStep, Zenon
  <2> QED BY <1>3, <2>1, MeantIs, Zenon
<1>6. IsHeard(Meant(k))
  BY <1>4, EarIs, Zenon
<1>7. PICK no, never : no = <<>> /\ never = FALSE
  OBVIOUS
<1>8. Cat(a, no) = a /\ Cat(b, no) = b
  BY <1>4, <1>7, CatType
<1>9. Failing(k + 1) = (f \/ block.fails)
  BY <1>2, <1>3, FailingStep, Zenon
<1>10. /\ Failing(k + 1) => p = m /\ q = n /\ c = no /\ d = no
       /\ ~Failing(k + 1) => /\ p = Either(block.modelA, m) /\ q = Either(block.modelB, n)
                             /\ c = Side(block, cut, "a") /\ d = Side(block, cut, "b")
  <2>1. /\ Failing(k + 1) => p = m /\ q = n
        /\ ~Failing(k + 1) => p = Either(block.modelA, m) /\ q = Either(block.modelB, n)
    BY <1>2, <1>3, NamedStep, Zenon
  <2> QED BY <1>2, <1>3, <1>7, <2>1, Zenon DEF Turn, Side
<1>11. Failing(k) => Meant(k + 1) = Meant(k)
  <2>1. SUFFICES ASSUME f PROVE Meant(k + 1) = Meant(k)
    BY <1>3, Zenon
  <2>2. Failing(k + 1) = f
    BY <1>4, <1>9, <2>1, Zenon
  <2> QED BY <1>4, <1>5, <1>8, <1>10, <2>1, <2>2, Zenon
<1>12. ~Failing(k) => Meant(k + 1) = Plus(Meant(k), Saying(block, cut))
  <2>1. SUFFICES ASSUME ~f PROVE Meant(k + 1) = Plus(Meant(k), Saying(block, cut))
    BY <1>3, Zenon
  <2>0. f = never
    BY <1>4, <1>7, <2>1, Zenon
  <2>2. CASE block.fails
    <3>1. Saying(block, cut) = Ear(no, no, Absent, Absent, Yes)
      BY <1>1, <1>2, <1>7, <2>2, SayingIs, Zenon
    <3>2. Plus(Ear(a, b, m, n, f), Ear(no, no, Absent, Absent, Yes))
             = Ear(Cat(a, no), Cat(b, no), Either(Absent, m), Either(Absent, n), Ever(f, Yes))
      BY PlusIs
    <3>3. Ever(f, Yes) = Yes /\ Either(Absent, m) = m /\ Either(Absent, n) = n
      BY <1>4, EverIs, Zenon DEF Either
    <3>4. Failing(k + 1) /\ Failing(k + 1) = Yes
      BY <1>9, <2>2, Zenon DEF Yes
    <3> QED BY <1>4, <1>5, <1>8, <1>10, <3>1, <3>2, <3>3, <3>4, Zenon
  <2>3. CASE ~block.fails
    <3>1. Saying(block, cut) = Ear(Side(block, cut, "a"), Side(block, cut, "b"), block.modelA, block.modelB, never)
      BY <1>1, <1>2, <1>7, <2>3, SayingIs, Zenon
    <3>2. ~Failing(k + 1) /\ Failing(k + 1) = never
      BY <1>1, <1>2, <1>7, <1>9, <2>1, <2>3, Zenon
    <3>3. Plus(Ear(a, b, m, n, f), Ear(c, d, block.modelA, block.modelB, never))
             = Ear(Cat(a, c), Cat(b, d), Either(block.modelA, m), Either(block.modelB, n), Ever(f, never))
      BY PlusIs
    <3>4. Ever(f, never) = f
      BY <1>4, <1>7, EverIs, Zenon
    <3> QED BY <1>4, <1>5, <1>10, <2>0, <3>1, <3>2, <3>3, <3>4, Zenon
  <2> QED BY <2>2, <2>3, Zenon
<1>13. Meant(0) = Unheard
  <2>1. Meant(0) = Ear(no, no, Absent, Absent, never)
    BY <1>7, MeantIs, SaidStep, NamedStep, FailingStep, Zenon
  <2> QED BY <1>7, <2>1, UnheardIs, Zenon
<1> QED BY <1>2, <1>6, <1>11, <1>12, <1>13, Zenon

-----------------------------------------------------------------------------
(* What a block that has been assembled is heard as.                       *)


\* The line of a block is text.
LEMMA LineTextType ==
  ASSUME NEW block, WellFormed(block), NEW cut, NEW j \in Nat, j < Len(block.lines)
  PROVE  LineText(block, cut, j + 1) \in Seq(Tokens)
<1>1. PICK b, p, q : b = Bytes(block) /\ p = RowsEnd(block, j) /\ q = p + WidthOf(block, j)
  OBVIOUS
<1>2. /\ p \in Nat /\ WidthOf(block, j) \in Nat /\ p + WidthOf(block, j) + 1 <= Len(b)
      /\ b \in Seq(Tokens) /\ Len(b) \in Nat
  <2>1. j <= Len(block.lines)
    BY LinesType
  <2> QED BY <1>1, <2>1, LineOf, RowsType
<1>3. q \in Nat /\ p <= q /\ q <= Len(b)
  BY <1>1, <1>2
<1>4. \A i \in p + 1 .. q : b[i] \in Tokens
  <2>1. \A i \in 1 .. Len(b) : b[i] \in Tokens
    BY <1>2, ElementOfSeq
  <2> QED BY <1>2, <1>3, <2>1
<1>5. Tokens \subseteq Tokens /\ {"char", "damage"} \subseteq Tokens
  BY BlockAssumption DEF BlockAssumption
<1>6. Text(b, cut, p, q) \in Seq(Tokens)
  BY <1>2, <1>3, <1>4, <1>5, TextType
<1> QED BY <1>1, <1>6, LineTextIs, Zenon

\* What the decoder has of a block.
LEMMA AssembledType ==
  ASSUME NEW block, WellFormed(block), NEW cut
  PROVE  \A j \in Nat : j <= Len(block.lines) => IsDecoder(Assembled(block, cut)[j])
<1>1. PICK n : n \in Nat /\ n = Len(block.lines)
  BY LinesType
<1> DEFINE A == {j \in Nat : j <= n => IsDecoder(Assembled(block, cut)[j])}
<1>2. 0 \in A
  BY AssembledSteps, ClearType
<1>3. ASSUME NEW j \in Nat, j \in A
      PROVE  j + 1 \in A
  <2>1. SUFFICES ASSUME j < n PROVE IsDecoder(Assembled(block, cut)[j + 1])
    BY <1>1
  <2>2. IsDecoder(Assembled(block, cut)[j])
    BY <1>1, <1>3, <2>1
  <2>3. LineText(block, cut, j + 1) \in Seq(Tokens)
    BY <1>1, <2>1, LineTextType
  <2>4. Assembled(block, cut)[j + 1] = Field(Assembled(block, cut)[j], LineText(block, cut, j + 1))
    BY <1>1, <2>1, AssembledSteps
  <2> QED BY <2>2, <2>3, <2>4, FieldType, Zenon
<1> HIDE DEF A
<1>4. Nat \subseteq A
  BY <1>2, <1>3, Induction
<1> QED BY <1>1, <1>4 DEF A

\* What an event is, of the fields.
LEMMA EventFields ==
  ASSUME NEW known, NEW d, IsDecoder(d)
  PROVE  /\ AfterEvent(known, d).sse.event = d.event
         /\ AfterEvent(known, d).sse.id = d.id
         /\ AfterEvent(known, d).sse.retry = d.retry
<1>1. PICK e : e = Identified(d)
  OBVIOUS
<1>2. /\ e.event = d.event /\ e.id = d.id /\ e.retry = d.retry
      /\ \E a, b, c, f, g, h : e = [event |-> a, data |-> b, id |-> c, retry |-> f, comment |-> g, lastId |-> h]
  <2>0. PICK a, b, c, f, g, h : d = [event |-> a, data |-> b, id |-> c, retry |-> f, comment |-> g, lastId |-> h]
    BY Zenon DEF IsDecoder
  <2>1. CASE e = d
    BY <2>0, <2>1, Zenon
  <2>2. CASE e = [d EXCEPT !.lastId = d.id]
    <3>1. \A x : LET r == [d EXCEPT !.lastId = x]
                 IN  /\ r = [event |-> a, data |-> b, id |-> c, retry |-> f, comment |-> g, lastId |-> x]
                     /\ r.event = d.event /\ r.id = d.id /\ r.retry = d.retry
      BY <2>0
    <3> QED BY <2>2, <3>1, Zenon
  <2> QED BY <1>1, <2>1, <2>2, Zenon DEF Identified
<1>3. \A x : LET r == [e EXCEPT !.data = x] IN r.event = e.event /\ r.id = e.id /\ r.retry = e.retry
  BY <1>2
<1>4. AfterEvent(known, d).sse = [e EXCEPT !.data = Joined(d.data)]
  BY <1>1 DEF AfterEvent
<1> QED BY <1>2, <1>3, <1>4, Zenon

\* What is heard of an event is of its data.
LEMMA EventHeard ==
  ASSUME NEW known, NEW d, NEW e, d.data = e.data
  PROVE  /\ AfterEvent(known, d).heard = AfterEvent(known, e).heard
         /\ AfterEvent(known, d).started = AfterEvent(known, e).started
<1>1. ASSUME NEW c
      PROVE  /\ AfterEvent(known, c).heard = (LET events == Parse(Joined(c.data))
                                              IN  IF events = <<>> THEN known.heard ELSE Hear(known.heard, events[1]))
             /\ AfterEvent(known, c).started = (known.started \/ Parse(Joined(c.data)) # <<>>)
  BY DEF AfterEvent
<1> QED BY <1>1, Zenon

\* No data is nothing said.
LEMMA SilentData ==
  ASSUME NEW known, NEW d, d.data = <<>>
  PROVE  AfterEvent(known, d).heard = known.heard
<1>1. FlattenSeq(<<>>) = <<>>
  BY DEF FlattenSeq
<1>2. ASSUME NEW f, f = <<>>
      PROVE  Joined(f) = <<>> /\ Ink(f) = <<>>
  <2>1. DOMAIN f = {} /\ \A g : g = [i \in {} |-> g[i]] => g = <<>>
    BY <1>2
  <2>2. PICK g : g = [i \in {} |-> IF i = 1 THEN f[i] ELSE <<"nl">> \o f[i]]
    OBVIOUS
  <2>3. PICK h : h = [i \in {} |-> IF IsInk(f[i]) THEN <<f[i]>> ELSE <<>>]
    OBVIOUS
  <2>4. g = <<>>
    BY <2>2
  <2>5. h = <<>>
    BY <2>3
  <2>6. Joined(f) = FlattenSeq(g)
    BY <2>1, <2>2, Zenon DEF Joined
  <2>7. Ink(f) = FlattenSeq(h)
    BY <2>1, <2>3, Zenon DEF Ink
  <2> QED BY <1>1, <2>4, <2>5, <2>6, <2>7, Zenon
<1>3. PICK data : data = Joined(d.data)
  OBVIOUS
<1>4. data = <<>> /\ Ink(data) = <<>>
  BY <1>2, <1>3, Zenon
<1>5. Parse(data) = <<>>
  BY <1>4, Zenon DEF Parse
<1>6. AfterEvent(known, d).heard = IF Parse(data) = <<>> THEN known.heard ELSE Hear(known.heard, Parse(data)[1])
  BY <1>3 DEF AfterEvent
<1> QED BY <1>5, <1>6, Zenon

\* A block that has been assembled is heard as what it says, after what was heard before.
LEMMA BlockHeard ==
  ASSUME NEW block, WellFormed(block), SaysWhatItSays(block), NEW cut \in SUBSET Highs(block),
         NEW d, IsDecoder(d), Agree(d, Assembled(block, cut)[Len(block.lines)]),
         NEW known, IsHeard(known.heard)
  PROVE  /\ IsEvent(d) <=> block.dispatched
         /\ IsEvent(d) => /\ AfterEvent(known, d).heard = Plus(known.heard, Saying(block, cut))
                          /\ AfterEvent(known, d).started <=> known.started \/ ~block.silent
                          /\ AfterEvent(known, d).sse.event = block.event
                          /\ AfterEvent(known, d).sse.id = block.id
                          /\ AfterEvent(known, d).sse.retry = block.retry
         /\ ~IsEvent(d) => Plus(known.heard, Saying(block, cut)) = known.heard /\ block.silent
         /\ IsLastEvent(d) => IsEvent(d)
         /\ IsEvent(d) /\ ~IsLastEvent(d) => Plus(known.heard, Saying(block, cut)) = known.heard
<1>1. PICK e : e = Assembled(block, cut)[Len(block.lines)]
  OBVIOUS
<1>2. IsDecoder(e) /\ d.event = e.event /\ d.data = e.data /\ d.id = e.id /\ d.retry = e.retry
  BY <1>1, AssembledType, LinesType DEF Agree
<1>3. /\ block.dispatched = IsEvent(e) /\ block.dispatched \in BOOLEAN /\ block.silent \in BOOLEAN
      /\ block.dispatched => /\ block.event = e.event /\ block.id = e.id /\ block.retry = e.retry
                             /\ Alone(block, cut).heard = Saying(block, cut)
                             /\ block.silent = ~Alone(block, cut).started
      /\ ~block.dispatched => block.silent /\ Saying(block, cut) = Unheard
  BY <1>1, Zenon DEF SaysWhatItSays, WellFormed
<1>4. /\ IsEvent(d) <=> IsEvent(e)
      /\ IsLastEvent(d) => IsEvent(d)
      /\ IsEvent(d) /\ ~IsLastEvent(d) => d.data = <<>>
  BY <1>2, Zenon DEF IsEvent, IsLastEvent, Truthy
<1>5. IsEvent(d) <=> block.dispatched
  BY <1>3, <1>4, Zenon
<1>6. PICK none : none = [heard |-> Unheard, started |-> FALSE]
  OBVIOUS
<1>7. none.heard = Unheard
  BY <1>6
<1>8. Alone(block, cut) = AfterEvent(none, e)
  BY <1>1, <1>6, Zenon DEF Alone
<1>9. /\ AfterEvent(none, d).heard = AfterEvent(none, e).heard
      /\ AfterEvent(none, d).started = AfterEvent(none, e).started
  BY <1>2, EventHeard
<1>10. ~none.started
  BY <1>6
<1>11. \A k : AfterEvent(k, d).started <=> k.started \/ Parse(Joined(d.data)) # <<>>
  <2>1. \A k : AfterEvent(k, d).started = (k.started \/ Parse(Joined(d.data)) # <<>>)
    BY DEF AfterEvent
  <2> QED BY <2>1, Zenon
<1>12. ASSUME IsEvent(d)
       PROVE  AfterEvent(known, d).heard = Plus(known.heard, Saying(block, cut))
  <2>1. d.data \in Seq(Seq(Tokens))
    BY Zenon DEF IsDecoder
  <2>2. AfterEvent(known, d).heard = Plus(known.heard, AfterEvent(none, d).heard)
    BY <1>7, <2>1, EventPlus
  <2> QED BY <1>3, <1>5, <1>8, <1>9, <1>12, <2>2, Zenon
<1>13. ASSUME IsEvent(d)
       PROVE  AfterEvent(known, d).started <=> known.started \/ ~block.silent
  <2>1. block.silent = ~AfterEvent(none, e).started
    BY <1>3, <1>5, <1>8, <1>13, Zenon
  <2>2. block.silent <=> ~AfterEvent(none, d).started
    BY <1>3, <1>9, <2>1, Zenon
  <2> QED BY <1>10, <1>11, <2>2, Zenon
<1>14. ASSUME IsEvent(d)
       PROVE  /\ AfterEvent(known, d).sse.event = block.event
              /\ AfterEvent(known, d).sse.id = block.id
              /\ AfterEvent(known, d).sse.retry = block.retry
  BY <1>2, <1>3, <1>5, <1>14, EventFields, Zenon
<1>15. ASSUME ~IsEvent(d)
       PROVE  Plus(known.heard, Saying(block, cut)) = known.heard /\ block.silent
  BY <1>3, <1>5, <1>15, PlusNothing, Zenon
<1>16. ASSUME IsEvent(d), ~IsLastEvent(d)
       PROVE  Plus(known.heard, Saying(block, cut)) = known.heard
  <2>1. AfterEvent(known, d).heard = known.heard
    BY <1>4, <1>16, SilentData
  <2> QED BY <1>12, <1>16, <2>1, Zenon
<1> QED BY <1>4, <1>5, <1>12, <1>13, <1>14, <1>15, <1>16, Zenon

-----------------------------------------------------------------------------
(* What stays the same while nothing of it changes.                        *)


\* The characters that are cut in a block are in the wire where the block is.
LEMMA CutsSame ==
  ASSUME blocks \in Streams, wire = AllBytes(blocks), blocks' = blocks,
         NEW j \in Nat, j # 0, j <= Len(blocks), \A i \in 0 .. EndOf(j) : i \in cuts <=> i \in cuts'
  PROVE  CutsIn(j)' = CutsIn(j)
<1>1. PICK k \in Nat : k + 1 = j /\ k = j - 1 /\ k < Len(blocks)
  <2>1. j - 1 \in Nat /\ (j - 1) + 1 = j /\ j - 1 < Len(blocks)
    BY BlocksType
  <2> QED BY <2>1
<1>2. PICK m, n : m = EndOf(k) /\ n = EndOf(j)
  OBVIOUS
<1>3. PICK b : b = Bytes(blocks[j])
  OBVIOUS
<1>4. /\ m \in Nat /\ n \in Nat /\ n = m + Len(b) /\ b \in Seq(Tokens) /\ Len(b) \in Nat
  BY <1>1, <1>2, <1>3, BlockIn, RowsType
<1>5. \A i \in Highs(blocks[j]) : m + i \in 0 .. n
  <2>1. \A i \in DOMAIN b : i \in 1 .. Len(b)
    BY <1>4
  <2>2. \A i \in Highs(blocks[j]) : i \in DOMAIN b
    BY <1>3 DEF Highs
  <2> QED BY <1>4, <2>1, <2>2
<1>6. \A i \in Highs(blocks[j]) : m + i \in cuts <=> m + i \in cuts'
  BY <1>2, <1>5
<1>7. CutsIn(j) = {i \in Highs(blocks[j]) : m + i \in cuts}
  BY <1>1, <1>2, Zenon DEF CutsIn
<1>8. CutsIn(j)' = {i \in Highs(blocks[j]) : m + i \in cuts'}
  BY <1>1, <1>2, Zenon DEF CutsIn, EndOf
<1> QED BY <1>6, <1>7, <1>8

\* What is meant stays, while what it is about stays.
LEMMA MeantSame ==
  ASSUME blocks \in Streams, wire = AllBytes(blocks), blocks' = blocks,
         NEW k \in Nat, k <= Len(blocks), \A i \in 0 .. EndOf(k) : i \in cuts <=> i \in cuts'
  PROVE  Meant(k)' = Meant(k)
<1>0. Len(blocks) \in Nat
  BY BlocksType
<1>1. \A j : Failing(j)' = Failing(j)
  BY Zenon DEF Failing
<1>2. \A j \in 1 .. k : CutsIn(j)' = CutsIn(j)
  <2> SUFFICES ASSUME NEW j \in 1 .. k PROVE CutsIn(j)' = CutsIn(j)
    OBVIOUS
  <2>1. EndOf(j) \in Nat /\ EndOf(k) \in Nat /\ EndOf(j) + (k - j) <= EndOf(k)
    BY BlocksGrow
  <2>2. \A i \in 0 .. EndOf(j) : i \in 0 .. EndOf(k)
    BY <2>1
  <2>3. j \in Nat /\ j # 0 /\ j <= Len(blocks)
    BY <1>0
  <2> QED BY <2>2, <2>3, CutsSame
<1>3. \A side : Said(side, k)' = Said(side, k)
  <2> SUFFICES ASSUME NEW side PROVE Said(side, k)' = Said(side, k)
    OBVIOUS
  <2>1. \A j \in 1 .. k : Turn(side, j)' = Turn(side, j)
    BY <1>1, <1>2, Zenon DEF Turn
  <2>2. Said(side, k) = FlattenSeq([j \in 1 .. k |-> Turn(side, j)])
    BY Zenon DEF Said, Turn
  <2>3. Said(side, k)' = FlattenSeq([j \in 1 .. k |-> Turn(side, j)'])
    BY Zenon DEF Said, Turn
  <2>4. [j \in 1 .. k |-> Turn(side, j)'] = [j \in 1 .. k |-> Turn(side, j)]
    BY <2>1
  <2> QED BY <2>2, <2>3, <2>4, Zenon
<1>4. \A model : Named(model, k)' = Named(model, k)
  <2> SUFFICES ASSUME NEW model PROVE Named(model, k)' = Named(model, k)
    OBVIOUS
  <2>1. Named(model, k) = IF Naming(model, k) = {} THEN Absent
                          ELSE blocks[Latest(Naming(model, k))][model]
    BY Zenon DEF Named, Naming, Latest
  <2>2. Named(model, k)' = IF Naming(model, k)' = {} THEN Absent
                           ELSE blocks[Latest(Naming(model, k)')][model]
    <3>1. PICK bs : bs = blocks /\ bs = blocks'
      OBVIOUS
    <3>2. Named(model, k)' = IF Naming(model, k)' = {} THEN Absent
                             ELSE blocks'[Latest(Naming(model, k)')][model]
      BY Zenon DEF Named, Naming, Latest
    <3> QED BY <3>1, <3>2, Zenon
  <2>3. \A j : j \in Naming(model, k)' <=> j \in Naming(model, k)
    BY <1>1, Zenon DEF Naming
  <2>4. Naming(model, k)' = Naming(model, k)
    <3>1. PICK S, T : S = Naming(model, k) /\ T = Naming(model, k)'
      OBVIOUS
    <3>2. \A j : j \in T <=> j \in S
      BY <2>3, <3>1, Zenon
    <3>3. T \subseteq S /\ S \subseteq T
      BY <3>2
    <3> QED BY <3>1, <3>3
  <2>5. PICK S, x : S = Naming(model, k) /\ x = IF S = {} THEN Absent ELSE blocks[Latest(S)][model]
    OBVIOUS
  <2>6. Named(model, k) = x
    BY <2>1, <2>5, Zenon
  <2>7. Named(model, k)' = x
    BY <2>2, <2>4, <2>5, Zenon
  <2> QED BY <2>6, <2>7, Zenon
<1> QED BY <1>1, <1>3, <1>4, Zenon DEF Meant

\* After an error nothing is said.
LEMMA MeantAfterError ==
  ASSUME blocks \in Streams, NEW k \in Nat, k <= Len(blocks), Failing(k)
  PROVE  \A l \in Nat : k <= l /\ l <= Len(blocks) => Failing(l) /\ Meant(l) = Meant(k)
<1>1. PICK n : n \in Nat /\ n = Len(blocks)
  BY BlocksType
<1> DEFINE A == {x \in Nat : k + x <= n => Failing(k + x) /\ Meant(k + x) = Meant(k)}
<1>2. 0 \in A
  OBVIOUS
<1>3. ASSUME NEW x \in Nat, x \in A
      PROVE  x + 1 \in A
  <2>1. SUFFICES ASSUME k + (x + 1) <= n PROVE Failing(k + (x + 1)) /\ Meant(k + (x + 1)) = Meant(k)
    OBVIOUS
  <2>2. PICK l \in Nat : l = k + x /\ l + 1 = k + (x + 1) /\ l < n
    BY <1>1, <2>1
  <2>3. Failing(l) /\ Meant(l) = Meant(k)
    <3>1. k + x <= n
      BY <1>1, <2>1
    <3> QED BY <1>3, <2>2, <3>1
  <2>4. Failing(l + 1) /\ Meant(l + 1) = Meant(l)
    BY <1>1, <2>2, <2>3, MeantStep, FailingStep
  <2> QED BY <2>2, <2>3, <2>4, Zenon
<1>4. Nat \subseteq A
  <2> HIDE DEF A
  <2> QED BY <1>2, <1>3, Induction
<1>5. ASSUME NEW l \in Nat, k <= l, l <= n
      PROVE  Failing(l) /\ Meant(l) = Meant(k)
  <2>1. PICK x \in Nat : l = k + x
    <3>1. l - k \in Nat /\ l = k + (l - k)
      BY <1>5
    <3> QED BY <3>1
  <2>2. x \in A
    BY <1>4
  <2>3. k + x <= n
    BY <1>5, <2>1
  <2> QED BY <2>1, <2>2, <2>3
<1> QED BY <1>1, <1>5

\* How many blocks have arrived.
LEMMA WholeIs ==
  ASSUME blocks \in Streams, NEW k \in Nat, k <= Len(blocks), arrived \in Nat,
         EndOf(k) <= arrived, k < Len(blocks) => arrived < EndOf(k + 1)
  PROVE  Whole = k
<1>1. PICK n : n \in Nat /\ n = Len(blocks)
  BY BlocksType
<1>2. \A j \in k + 1 .. n : EndOf(j) > arrived
  <2> SUFFICES ASSUME NEW j \in k + 1 .. n PROVE EndOf(j) > arrived
    OBVIOUS
  <2>1. k + 1 \in Nat /\ k + 1 <= j /\ j <= n /\ j \in Nat
    BY <1>1
  <2>2. EndOf(k + 1) \in Nat /\ EndOf(j) \in Nat /\ EndOf(k + 1) + (j - (k + 1)) <= EndOf(j)
    BY <1>1, <2>1, BlocksGrow
  <2> QED BY <1>1, <2>1, <2>2
<1>3. \A l \in 0 .. n : EndOf(l) <= arrived /\ (\A j \in l + 1 .. n : EndOf(j) > arrived) => l = k
  <2> SUFFICES ASSUME NEW l \in 0 .. n, EndOf(l) <= arrived, \A j \in l + 1 .. n : EndOf(j) > arrived
               PROVE  l = k
    OBVIOUS
  <2>0. EndOf(l) \in Nat /\ EndOf(k) \in Nat
    BY <1>1, BlocksGrow
  <2>1. ~(l > k)
    <3>1. SUFFICES ASSUME l > k PROVE FALSE
      OBVIOUS
    <3>2. l \in k + 1 .. n
      BY <1>1, <3>1
    <3> QED BY <1>2, <2>0, <3>2
  <2>2. ~(l < k)
    <3>1. SUFFICES ASSUME l < k PROVE FALSE
      OBVIOUS
    <3>2. k \in l + 1 .. n
      BY <1>1, <3>1
    <3> QED BY <2>0, <3>2
  <2> QED BY <2>1, <2>2
<1>4. k \in 0 .. n
  BY <1>1
<1>5. Whole = CHOOSE l \in 0 .. n : EndOf(l) <= arrived /\ \A j \in l + 1 .. n : EndOf(j) > arrived
  BY <1>1 DEF Whole
<1> DEFINE W(l) == EndOf(l) <= arrived /\ \A j \in l + 1 .. n : EndOf(j) > arrived
<1>6. W(k) /\ (\A l \in 0 .. n : W(l) => l = k) /\ Whole = CHOOSE l \in 0 .. n : W(l)
  BY <1>2, <1>3, <1>5
<1> HIDE DEF W
<1> QED BY <1>4, <1>6, Zenon

\* What is of the blocks alone.
LEMMA BlocksSame ==
  ASSUME blocks' = blocks
  PROVE  /\ \A k : EndOf(k)' = EndOf(k)
         /\ \A k : Failing(k)' = Failing(k)
         /\ \A k, j, h : At(k, j, h)' <=> At(k, j, h)
<1>1. \A k : EndOf(k)' = EndOf(k)
  BY Zenon DEF EndOf
<1>2. \A k : Failing(k)' = Failing(k)
  BY Zenon DEF Failing
<1>3. ASSUME NEW k, NEW j, NEW h PROVE At(k, j, h)' <=> At(k, j, h)
  BY <1>1, Zenon DEF At
<1> QED BY <1>1, <1>2, <1>3, Zenon

\* A line is text.
LEMMA LineType ==
  ASSUME StreamInv, HasLine
  PROVE  Line \in Seq(Tokens)
<1>1. PICK n : n = LineEnd - 1 /\ n \in Nat /\ 0 + n <= Len(buffer)
  BY UnreadType
<1>2. SubSeq(buffer, 0 + 1, 0 + n) \in Seq(Tokens)
  BY <1>1, Slice DEF StreamInv
<1>3. 0 + 1 = 1 /\ 0 + n = LineEnd - 1
  BY <1>1
<1> QED BY <1>2, <1>3 DEF Line

\* A chunk cuts nothing that had arrived.
LEMMA ArriveCuts ==
  ASSUME StreamInv, CutsInv, NEW n \in 1 .. MaxChunk, Arrive(n)
  PROVE  /\ n \in Nat /\ n # 0 /\ arrived \in Nat /\ arrived' = arrived + n
         /\ arrived + n <= Len(wire) /\ Len(wire) \in Nat
         /\ \A i \in 0 .. arrived : i \in cuts <=> i \in cuts'
         /\ UNCHANGED <<blocks, wire, reader, decoder, sse, heard, started, stage>>
<1>1. n \in Nat /\ n # 0
  BY StreamAssumption DEF StreamAssumption
<1>2. arrived \in Nat /\ Len(wire) \in Nat
  BY RestType
<1>3. arrived' = arrived + n /\ arrived + n <= Len(wire)
  BY DEF Arrive, Receive
<1>4. cuts' = cuts \/ cuts' = cuts \cup {arrived + n}
  BY DEF Arrive, Receive
<1>5. \A i \in 0 .. arrived : i \in cuts <=> i \in cuts'
  BY <1>1, <1>2, <1>4
<1>6. UNCHANGED <<blocks, wire, reader, decoder, sse, heard, started, stage>>
  BY DEF Arrive, Receive, sources, results
<1> QED BY <1>1, <1>2, <1>3, <1>5, <1>6

\* A chunk that ends inside a character cuts it, and no other.
LEMMA ArriveKeepsCuts ==
  ASSUME StreamInv, CutsInv, NEW n \in 1 .. MaxChunk, Arrive(n)
  PROVE  CutsInv'
<1>1. /\ n \in Nat /\ n # 0 /\ arrived \in Nat /\ arrived' = arrived + n
      /\ UNCHANGED <<blocks, wire, reader, decoder>>
  BY ArriveCuts
<1>2. cuts' = IF wire[arrived + n] = "hi" THEN cuts \cup {arrived + n} ELSE cuts
  BY DEF Arrive, Receive, CutsAt
<1>3. (blocks \in Streams /\ wire = AllBytes(blocks))'
  BY <1>1, Zenon DEF CutsInv, AllBytes, Parts
<1>4. cuts' \subseteq {i \in 1 .. arrived' : wire'[i] = "hi"}
  <2>1. \A i \in cuts : i \in 1 .. arrived /\ wire[i] = "hi"
    BY DEF CutsInv
  <2>2. \A i \in cuts' : i \in cuts \/ (i = arrived + n /\ wire[i] = "hi")
    BY <1>2
  <2>3. \A i \in cuts' : i \in 1 .. arrived + n /\ wire[i] = "hi"
    BY <1>1, <2>1, <2>2
  <2> QED BY <1>1, <2>3
<1>5. arrived' > 0 /\ wire'[arrived'] = "hi" => arrived' \in cuts'
  BY <1>1, <1>2
<1>6. reader' = "iterator" => cuts' = {}
  <2>1. reader = "iterator" => wire[arrived + n] # "hi" /\ cuts = {}
    BY DEF Arrive, Receive, CutsAt, CutsInv
  <2> QED BY <1>1, <1>2, <2>1
<1>7. IsDecoder(decoder)'
  BY <1>1, Zenon DEF CutsInv, IsDecoder
<1> QED BY <1>3, <1>4, <1>5, <1>6, <1>7, Zenon DEF CutsInv

\* The other steps cut nothing, and leave a decoder.
LEMMA DecoderKeepsCuts ==
  ASSUME CutsInv, UNCHANGED <<blocks, wire, reader, arrived, cuts>>, IsDecoder(decoder')
  PROVE  CutsInv'
<1>1. (blocks \in Streams /\ wire = AllBytes(blocks))'
  BY Zenon DEF CutsInv, AllBytes, Parts
<1>2. /\ cuts' \subseteq {i \in 1 .. arrived' : wire'[i] = "hi"}
      /\ arrived' > 0 /\ wire'[arrived'] = "hi" => arrived' \in cuts'
      /\ reader' = "iterator" => cuts' = {}
  BY DEF CutsInv
<1>3. IsDecoder(decoder)'
  BY Zenon DEF IsDecoder
<1> QED BY <1>1, <1>2, <1>3, Zenon DEF CutsInv

\* A decoder that is reset is one.
LEMMA ResetType ==
  ASSUME NEW d, NEW known
  PROVE  /\ IsDecoder(Reset(d)) /\ (\A z, w : Agree(Reset(d), Clear(z, w)))
         /\ IsDecoder(AfterEvent(known, d).decoder)
         /\ \A z, w : Agree(AfterEvent(known, d).decoder, Clear(z, w))
<1>1. \A e : IsDecoder(Reset(e)) /\ \A z, w : Agree(Reset(e), Clear(z, w))
  BY ClearType, Zenon DEF Reset
<1>2. AfterEvent(known, d).decoder = Reset(Identified(d))
  BY DEF AfterEvent
<1> QED BY <1>1, <1>2, Zenon

\* So no step does.
LEMMA NextKeepsCuts == StreamInv /\ CutsInv /\ [Next]_vars => CutsInv'
<1> SUFFICES ASSUME StreamInv, CutsInv, [Next]_vars PROVE CutsInv'
  OBVIOUS
<1>0. IsDecoder(decoder)
  BY DEF CutsInv
<1>1. ASSUME NEW n \in 1 .. MaxChunk, Arrive(n) PROVE CutsInv'
  BY <1>1, ArriveKeepsCuts
<1>2. CASE FieldLine
  <2>1. HasLine /\ decoder' = Field(decoder, Line) /\ UNCHANGED <<blocks, wire, reader, arrived, cuts>>
    BY <1>2 DEF FieldLine, sources
  <2>2. IsDecoder(decoder')
    BY <1>0, <2>1, LineType, FieldType
  <2> QED BY <2>1, <2>2, DecoderKeepsCuts
<1>3. CASE BlankLine
  <2>1. UNCHANGED <<blocks, wire, reader, arrived, cuts>>
    BY <1>3 DEF BlankLine, sources
  <2>2. decoder' = AfterEvent(Known, decoder).decoder \/ decoder' = Reset(decoder)
    BY <1>3, Zenon DEF BlankLine, Dispatch
  <2>3. IsDecoder(decoder')
    BY <2>2, ResetType, Zenon
  <2> QED BY <2>1, <2>3, DecoderKeepsCuts
<1>4. CASE ClientEnds
  <2>1. UNCHANGED <<blocks, wire, reader, arrived, cuts>> /\ decoder' = decoder
    BY <1>4 DEF ClientEnds, sources
  <2> QED BY <1>0, <2>1, DecoderKeepsCuts
<1>5. CASE IteratorEnds
  <2>1. UNCHANGED <<blocks, wire, reader, arrived, cuts>>
    BY <1>5 DEF IteratorEnds, sources
  <2>2. decoder' = AfterEvent(Known, Flushed).decoder \/ decoder' = Flushed
    BY <1>5, Zenon DEF IteratorEnds, Dispatch
  <2>3. buffer \in Seq(Tokens)
    BY DEF StreamInv
  <2>4. IsDecoder(Flushed)
    BY <1>0, <2>3, FieldType, Zenon DEF Flushed
  <2>5. IsDecoder(decoder')
    BY <2>2, <2>4, ResetType, Zenon
  <2> QED BY <2>1, <2>5, DecoderKeepsCuts
<1>6. CASE UNCHANGED vars
  <2>1. UNCHANGED <<blocks, wire, reader, arrived, cuts>> /\ decoder' = decoder
    BY <1>6 DEF vars, sources
  <2> QED BY <1>0, <2>1, DecoderKeepsCuts
<1> QED BY <1>1, <1>2, <1>3, <1>4, <1>5, <1>6 DEF Next

-----------------------------------------------------------------------------
(* The invariant holds at the beginning, and a chunk keeps it.             *)


\* At the beginning.
LEMMA MeaningInit == Init => MeaningInv
<1> SUFFICES ASSUME Init PROVE MeaningInv
  OBVIOUS
<1>1. StreamInv
  BY InvInit
<1>2. /\ blocks \in Streams /\ wire = AllBytes(blocks) /\ arrived = 0 /\ cuts = {} /\ buffer = <<>>
      /\ decoder = Clear({}, {}) /\ heard = Unheard /\ ~started /\ stage = "reading"
  BY DEF Init
<1>3. CutsInv
  <2>1. IsDecoder(decoder)
    BY <1>2, ClearType, Zenon
  <2> QED BY <1>2, <2>1 DEF CutsInv
<1>4. EndOf(0) = 0 /\ Len(blocks) \in Nat
  BY <1>2, BlocksBounds, BlocksType
<1>5. ASSUME Len(blocks) # 0
      PROVE  /\ WellFormed(blocks[1]) /\ RowsEnd(blocks[1], 0) = 0 /\ Len(blocks[1].lines) \in Nat
  <2>1. WellFormed(blocks[1])
    <3>1. 1 \in 1 .. Len(blocks)
      BY <1>4, <1>5
    <3> QED BY <1>2, <3>1, BlocksType
  <2> QED BY <2>1, BlankIn, LinesType
<1>6. At(0, 0, 0)
  BY <1>4, <1>5 DEF At
<1>7. buffer = Text(wire, cuts, 0, arrived)
  <2>1. PICK c, w, n : n \in Nat /\ n = arrived /\ c = cuts /\ w = wire
    BY <1>2
  <2>2. n = 0
    BY <1>2, <2>1, Zenon
  <2>3. Text(w, c, 0, n) = <<>>
    <3>1. {"char", "damage"} \subseteq Tokens /\ Tokens \subseteq Tokens
      BY BlockAssumption DEF BlockAssumption
    <3>2. \A i \in 0 + 1 .. n : w[i] \in Tokens
      BY <2>2
    <3>3. 0 \in Nat /\ 0 <= n
      BY <2>2
    <3> QED BY <2>1, <2>2, <3>1, <3>2, <3>3, TextType
  <2> QED BY <1>2, <2>1, <2>3, Zenon
<1>8. Agree(decoder, Assembling(0, 0))
  <2>1. CASE Len(blocks) = 0
    <3>1. Assembling(0, 0) = Clear({}, {})
      BY <2>1, Zenon DEF Assembling
    <3> QED BY <1>2, <3>1, ClearType, Zenon
  <2>2. CASE Len(blocks) # 0
    <3>1. Assembled(blocks[1], CutsIn(1))[0] = Clear({}, {})
      BY <1>5, <2>2, AssembledSteps
    <3>2. 0 + 1 = 1 /\ 0 # Len(blocks)
      BY <2>2
    <3>3. Assembling(0, 0) = Clear({}, {})
      BY <3>1, <3>2, Zenon DEF Assembling
    <3> QED BY <1>2, <3>3, ClearType, Zenon
  <2> QED BY <2>1, <2>2
<1>9. KnownAfter(0)
  <2>1. \A i : i \notin 1 .. 0
    OBVIOUS
  <2>2. Meant(0) = Unheard
    <3>1. [a |-> Said("a", 0), b |-> Said("b", 0), failed |-> Failing(0),
           modelA |-> Named("modelA", 0), modelB |-> Named("modelB", 0)] = Meant(0)
      BY Zenon DEF Meant
    <3>2. Said("a", 0) = <<>> /\ Said("b", 0) = <<>>
      <4>1. \A f : [j \in 1 .. 0 |-> f[j]] = <<>>
        OBVIOUS
      <4>2. \A side : [j \in 1 .. 0 |-> Turn(side, j)] = <<>>
        OBVIOUS
      <4>3. FlattenSeq(<<>>) = <<>>
        BY DEF FlattenSeq
      <4>4. \A side : Said(side, 0) = FlattenSeq([j \in 1 .. 0 |-> Turn(side, j)])
        BY Zenon DEF Said, Turn
      <4> QED BY <4>2, <4>3, <4>4, Zenon
    <3>3. Named("modelA", 0) = Absent /\ Named("modelB", 0) = Absent
      BY NamedStep
    <3>4. Failing(0) = FALSE
      BY FailingStep
    <3>5. Meant(0) = Ear(<<>>, <<>>, Absent, Absent, FALSE)
      BY <3>2, <3>3, <3>4, MeantIs, Zenon
    <3> QED BY <3>5, UnheardIs, Zenon
  <2> QED BY <1>2, <2>1, <2>2, Zenon DEF KnownAfter
<1>10. ~Failing(0)
  BY FailingStep
<1>11. ReadingAt(0, 0, 0)
  <2>1. 0 <= arrived
    BY <1>2
  <2> QED BY <1>6, <1>7, <1>8, <1>9, <1>10, <2>1, Zenon DEF ReadingAt
<1>12. 0 \in 0 .. Len(blocks) /\ 0 \in Nat
  BY <1>4
<1> QED BY <1>1, <1>2, <1>3, <1>11, <1>12, Zenon DEF MeaningInv

\* A chunk arrives, behind what is handled.
LEMMA ArriveReads ==
  ASSUME StreamInv, CutsInv, NEW n \in 1 .. MaxChunk, Arrive(n),
         NEW k \in 0 .. Len(blocks), NEW j \in Nat, NEW h \in Nat, ReadingAt(k, j, h)
  PROVE  ReadingAt(k, j, h)'
<1>1. /\ n \in Nat /\ n # 0 /\ arrived \in Nat /\ arrived' = arrived + n
      /\ \A i \in 0 .. arrived : i \in cuts <=> i \in cuts'
      /\ UNCHANGED <<blocks, wire, reader, decoder, sse, heard, started, stage>>
  BY ArriveCuts
<1>2. /\ At(k, j, h) /\ h <= arrived /\ buffer = Text(wire, cuts, h, arrived)
      /\ Agree(decoder, Assembling(k, j)) /\ KnownAfter(k) /\ ~Failing(k)
  BY Zenon DEF ReadingAt
<1>3. blocks \in Streams /\ wire = AllBytes(blocks) /\ Len(blocks) \in Nat /\ k \in Nat /\ k <= Len(blocks)
  BY BlocksType DEF CutsInv
<1>4. EndOf(k) \in Nat /\ EndOf(k) <= h
  <2>1. EndOf(k) \in Nat
    BY <1>3, BlocksGrow
  <2>2. CASE k = Len(blocks)
    BY <1>2, <2>1, <2>2 DEF At
  <2>3. CASE k # Len(blocks)
    <3>1. k < Len(blocks)
      BY <1>3, <2>3
    <3> QED BY <1>2, <1>3, <3>1, LineAt
  <2> QED BY <2>2, <2>3
<1>5. \A i \in 0 .. EndOf(k) : i \in cuts <=> i \in cuts'
  BY <1>1, <1>2, <1>4
<1>6. Meant(k)' = Meant(k)
  <2>1. blocks' = blocks
    BY <1>1
  <2> QED BY <1>3, <1>5, <2>1, MeantSame
<1>7. At(k, j, h)' /\ ~Failing(k)'
  BY <1>1, <1>2, BlocksSame
<1>8. (h <= arrived)'
  BY <1>1, <1>2
<1>9. (buffer = Text(wire, cuts, h, arrived))'
  <2>1. buffer' = Text(wire, cuts', h, arrived')
    BY <1>2, ArriveText
  <2>2. wire' = wire
    BY <1>1
  <2> QED BY <2>1, <2>2
<1>10. KnownAfter(k)'
  <2>1. heard' = Meant(k)'
    BY <1>1, <1>2, <1>6 DEF KnownAfter
  <2>2. blocks' = blocks /\ started' = started /\ sse' = sse
    BY <1>1
  <2>3. started' <=> \E i \in 1 .. k : ~blocks'[i].silent
    BY <1>2, <2>2 DEF KnownAfter
  <2>4. \A l \in 1 .. k : blocks'[l].dispatched /\ (\A i \in l + 1 .. k : ~blocks'[i].dispatched) =>
          sse'.event = blocks'[l].event /\ sse'.id = blocks'[l].id /\ sse'.retry = blocks'[l].retry
    BY <1>2, <2>2 DEF KnownAfter
  <2> QED BY <2>1, <2>3, <2>4, Zenon DEF KnownAfter
<1>11. Agree(decoder, Assembling(k, j))'
  <2>1. Assembling(k, j)' = Assembling(k, j)
    <3>1. CASE k = Len(blocks)
      <4>1. blocks' = blocks
        BY <1>1
      <4>2. k = Len(blocks')
        BY <3>1, <4>1
      <4> QED BY <3>1, <4>2, Zenon DEF Assembling
    <3>2. CASE k # Len(blocks)
      <4>1. k < Len(blocks)
        BY <1>3, <3>2
      <4>2. PICK b, c, d, m, e : /\ b = blocks[k + 1] /\ c = CutsIn(k + 1) /\ d = CutsIn(k + 1)'
                                 /\ m = EndOf(k) /\ e = RowsEnd(b, j)
        OBVIOUS
      <4>3. /\ WellFormed(b) /\ m \in Nat /\ e \in Nat /\ h = m + e /\ j <= Len(b.lines)
        BY <1>2, <1>3, <4>1, <4>2, LineAt
      <4>4. \A i \in 0 .. e : m + i \in cuts <=> m + i \in cuts'
        BY <1>1, <1>2, <4>3
      <4>5. c = {i \in Highs(b) : m + i \in cuts} /\ d = {i \in Highs(b) : m + i \in cuts'}
        <5>1. (k + 1) - 1 = k
          BY <1>3
        <5>2. blocks' = blocks
          BY <1>1
        <5> QED BY <4>2, <5>1, <5>2, Zenon DEF CutsIn, EndOf
      <4>6. \A i \in 0 .. e : i \in c <=> i \in d
        BY <4>4, <4>5
      <4>7. Assembled(b, c)[j] = Assembled(b, d)[j]
        <5>1. \A i \in 0 .. RowsEnd(b, j) : i \in c <=> i \in d
          BY <4>2, <4>6, Zenon
        <5>2. WellFormed(b) /\ j <= Len(b.lines)
          BY <4>3
        <5> QED BY <5>1, <5>2, AssembledBefore
      <4>8. Assembling(k, j) = Assembled(b, c)[j]
        BY <3>2, <4>2, Zenon DEF Assembling
      <4>9. Assembling(k, j)' = Assembled(b, d)[j]
        <5>1. blocks'[k + 1] = b /\ k # Len(blocks')
          BY <1>1, <3>2, <4>2
        <5> QED BY <4>2, <5>1, Zenon DEF Assembling
      <4> QED BY <4>7, <4>8, <4>9, Zenon
    <3> QED BY <3>1, <3>2
  <2>2. decoder' = decoder
    BY <1>1
  <2> QED BY <1>2, <2>1, <2>2, Zenon DEF Agree
<1> QED BY <1>7, <1>8, <1>9, <1>10, <1>11, Zenon DEF ReadingAt

-----------------------------------------------------------------------------
(* A line of a field keeps it.                                             *)


\* A line of a block begins after a newline, or at the begin.
LEMMA LineBegins ==
  ASSUME StreamInv, CutsInv, NEW k \in Nat, k < Len(blocks), NEW j \in Nat, NEW h \in Nat, At(k, j, h)
  PROVE  wire[h + 1] # "lo"
<1>1. /\ blocks \in Streams /\ wire = AllBytes(blocks) /\ Encoded(wire) /\ Len(wire) \in Nat
  BY RestType DEF StreamInv, CutsInv
<1>2. /\ EndOf(k) \in Nat /\ Width(k, j) \in Nat /\ EndOf(k + 1) \in Nat /\ EndOf(k + 1) <= Len(wire)
      /\ h + Width(k, j) + 1 <= EndOf(k + 1)
      /\ j <= Len(blocks[k + 1].lines) /\ h = EndOf(k) + RowsEnd(blocks[k + 1], j)
      /\ RowsEnd(blocks[k + 1], j) \in Nat
      /\ Len(blocks[k + 1].lines) \in Nat /\ WellFormed(blocks[k + 1])
  BY <1>1, LineAt
<1>a. PICK l \in Nat : l = Len(blocks[k + 1].lines) /\ j <= l
  BY <1>2, Zenon
<1>b. h + Width(k, j) + 1 <= Len(wire)
  <2>1. PICK e \in Nat, w \in Nat, n \in Nat : e = EndOf(k + 1) /\ w = Width(k, j) /\ n = Len(wire)
    BY <1>1, <1>2, Zenon
  <2>2. e <= n /\ h + w + 1 <= e
    BY <1>2, <2>1, Zenon
  <2>3. h + w + 1 <= n
    BY <2>2
  <2> QED BY <2>1, <2>3, Zenon
<1>3. h = 0 \/ wire[h] = "nl"
  <2>1. CASE j = 0
    <3>1. RowsEnd(blocks[k + 1], 0) = 0
      BY <1>2, BlankIn
    <3>2. h = EndOf(k)
      BY <1>2, <2>1, <3>1
    <3>3. CASE k = 0
      <4>1. EndOf(0) = 0
        BY <1>1, BlocksBounds
      <4> QED BY <3>2, <3>3, <4>1
    <3>4. CASE k # 0
      <4>1. k <= Len(blocks)
        BY <1>1, BlocksType
      <4>2. wire[EndOf(k)] = "nl"
        BY <1>1, <3>4, <4>1, EndsInNewline
      <4> QED BY <3>2, <4>2, Zenon
    <3> QED BY <3>3, <3>4
  <2>2. CASE j # 0
    <3>a. PICK i \in Nat : i + 1 = j /\ i < l /\ i + 1 \in 1 .. l
      <4>1. j - 1 \in Nat /\ (j - 1) + 1 = j /\ j - 1 < l /\ (j - 1) + 1 \in 1 .. l
        BY <1>a, <2>2
      <4> QED BY <4>1
    <3>1. i + 1 = j /\ i < Len(blocks[k + 1].lines)
      BY <1>a, <3>a, Zenon
    <3>2. /\ Bytes(blocks[k + 1])[RowsEnd(blocks[k + 1], i + 1)] = "nl"
          /\ RowsEnd(blocks[k + 1], i) \in Nat
          /\ RowsEnd(blocks[k + 1], i + 1) = RowsEnd(blocks[k + 1], i) + Len(blocks[k + 1].lines[i + 1]) + 1
          /\ RowsEnd(blocks[k + 1], i + 1) < Len(Bytes(blocks[k + 1]))
      BY <1>2, <3>1, LineIn
    <3>3. i + 1 \in 1 .. Len(blocks[k + 1].lines)
      BY <1>a, <3>a, Zenon
    <3>4. Len(blocks[k + 1].lines[i + 1]) \in Nat /\ Len(Bytes(blocks[k + 1])) \in Nat
      BY <1>2, <3>3, LinesType, BlankIn
    <3>5. RowsEnd(blocks[k + 1], i + 1) \in 1 .. Len(Bytes(blocks[k + 1]))
      <4>1. PICK o \in Nat, p \in Nat, e \in Nat :
               /\ o = RowsEnd(blocks[k + 1], i) /\ p = Len(blocks[k + 1].lines[i + 1])
               /\ e = Len(Bytes(blocks[k + 1]))
        BY <3>2, <3>4, Zenon
      <4>2. PICK q : q = RowsEnd(blocks[k + 1], i + 1)
        OBVIOUS
      <4>3. q = o + p + 1 /\ q < e
        BY <3>2, <4>1, <4>2, Zenon
      <4>4. q \in 1 .. e
        BY <4>3
      <4> QED BY <4>1, <4>2, <4>4, Zenon
    <3>6. wire[EndOf(k) + RowsEnd(blocks[k + 1], i + 1)] = Bytes(blocks[k + 1])[RowsEnd(blocks[k + 1], i + 1)]
      BY <1>1, <3>5, BlockIn
    <3>7. h = EndOf(k) + RowsEnd(blocks[k + 1], i + 1)
      BY <1>2, <3>1, Zenon
    <3> QED BY <3>2, <3>6, <3>7, Zenon
  <2> QED BY <2>1, <2>2
<1>4. h + 1 \in 1 .. Len(wire) /\ (h + 1) - 1 = h /\ (h = 0 => ~(h + 1 > 1))
  <2>1. Len(wire) \in Nat /\ Width(k, j) \in Nat
    BY <1>1, <1>2, Zenon
  <2> QED BY <1>b, <2>1
<1>5. \A i \in 1 .. Len(wire) : wire[i] = "lo" => i > 1 /\ wire[i - 1] = "hi"
  BY <1>1 DEF Encoded
<1>6. wire[h + 1] = "lo" => h + 1 > 1 /\ wire[h] = "hi"
  BY <1>4, <1>5
<1> QED BY <1>3, <1>4, <1>6

\* The blank line is the last.
LEMMA LineEmpty ==
  ASSUME StreamInv, CutsInv, NEW k \in Nat, k < Len(blocks), NEW j \in Nat, NEW h \in Nat, At(k, j, h)
  PROVE  /\ j = Len(blocks[k + 1].lines) => Text(wire, cuts, h, h + Width(k, j)) = <<>>
         /\ j < Len(blocks[k + 1].lines) => Text(wire, cuts, h, h + Width(k, j)) # <<>>
<1>1. /\ blocks \in Streams /\ wire = AllBytes(blocks) /\ wire \in Seq(Tokens) /\ Len(wire) \in Nat
  BY RestType DEF StreamInv, CutsInv, Encoded
<1>2. /\ Width(k, j) \in Nat /\ EndOf(k + 1) \in Nat /\ EndOf(k + 1) <= Len(wire)
      /\ h + Width(k, j) + 1 <= EndOf(k + 1)
      /\ j = Len(blocks[k + 1].lines) => Width(k, j) = 0
      /\ j < Len(blocks[k + 1].lines) => Width(k, j) # 0
  BY <1>1, LineAt
<1>3. PICK w \in Nat : w = Width(k, j)
  BY <1>2
<1>4. h + w <= Len(wire) /\ h + w \in Nat /\ h <= h + w
  BY <1>1, <1>2, <1>3, SMTT(30)
<1>5. CASE w = 0
  <2>1. {"char", "damage"} \subseteq Tokens /\ Tokens \subseteq Tokens
    BY BlockAssumption DEF BlockAssumption
  <2>2. h = h + w /\ \A i \in h + 1 .. h + w : wire[i] \in Tokens
    BY <1>5
  <2>3. Text(wire, cuts, h, h + w) = <<>>
    BY <1>4, <2>1, <2>2, TextType
  <2> QED BY <1>2, <1>3, <1>5, <2>3, Zenon
<1>6. CASE w # 0
  <2>1. h < h + w
    BY <1>6
  <2>2. wire[h + 1] # "lo"
    BY LineBegins
  <2>3. Text(wire, cuts, h, h + w) # <<>>
    BY <1>1, <1>4, <2>1, <2>2, TextBegins
  <2> QED BY <1>2, <1>3, <1>6, <2>3, Zenon
<1> QED BY <1>5, <1>6

\* A line is what the decoder is given of the block alone.
LEMMA LineIsText ==
  ASSUME StreamInv, CutsInv, NEW k \in Nat, k < Len(blocks), NEW j \in Nat, NEW h \in Nat, At(k, j, h),
         j < Len(blocks[k + 1].lines)
  PROVE  Text(wire, cuts, h, h + Width(k, j)) = LineText(blocks[k + 1], CutsIn(k + 1), j + 1)
<1>1. /\ blocks \in Streams /\ wire = AllBytes(blocks) /\ Encoded(wire)
  BY DEF StreamInv, CutsInv
<1>2. /\ EndOf(k) \in Nat /\ Width(k, j) \in Nat /\ WellFormed(blocks[k + 1])
      /\ j <= Len(blocks[k + 1].lines) /\ h = EndOf(k) + RowsEnd(blocks[k + 1], j)
  BY <1>1, LineAt
<1>3. PICK block, cut : block = blocks[k + 1] /\ cut = CutsIn(k + 1)
  OBVIOUS
<1>4. /\ RowsEnd(block, j) \in Nat /\ WidthOf(block, j) \in Nat /\ Len(Bytes(block)) \in Nat
      /\ RowsEnd(block, j) + WidthOf(block, j) + 1 <= Len(Bytes(block))
  BY <1>2, <1>3, LineOf
<1>5. PICK o \in Nat, r \in Nat, w \in Nat : o = EndOf(k) /\ r = RowsEnd(block, j) /\ w = WidthOf(block, j)
  BY <1>2, <1>4, Zenon
<1>6. r + w \in Nat /\ r <= r + w /\ r + w <= Len(Bytes(block)) /\ (o + r) + w = o + (r + w)
  <2>1. PICK e \in Nat : e = Len(Bytes(block))
    BY <1>4, Zenon
  <2>2. r + w + 1 <= e
    BY <1>4, <1>5, <2>1, Zenon
  <2>3. r + w \in Nat /\ r <= r + w /\ r + w <= e /\ (o + r) + w = o + (r + w)
    BY <2>2
  <2> QED BY <2>1, <2>3, Zenon
<1>7. Text(wire, cuts, EndOf(k) + r, EndOf(k) + (r + w)) = Text(Bytes(block), cut, r, r + w)
  <2>1. r + w <= Len(Bytes(blocks[k + 1]))
    BY <1>3, <1>6, Zenon
  <2>2. Text(wire, cuts, EndOf(k) + r, EndOf(k) + (r + w)) = Text(Bytes(blocks[k + 1]), CutsIn(k + 1), r, r + w)
    BY <1>1, <1>6, <2>1, TextIn
  <2> QED BY <1>3, <2>2, Zenon
<1>8. LineText(block, cut, j + 1) = Text(Bytes(block), cut, RowsEnd(block, j), RowsEnd(block, j) + WidthOf(block, j))
  BY <1>2, <1>3, LineTextIs
<1>9. h = o + r /\ Width(k, j) = w
  BY <1>2, <1>3, <1>5, Zenon DEF Width
<1>10. Text(wire, cuts, h, h + Width(k, j)) = Text(Bytes(block), cut, r, r + w)
  BY <1>5, <1>6, <1>7, <1>9, Zenon
<1> QED BY <1>3, <1>5, <1>8, <1>10, Zenon

\* The decoder goes on with the block.
LEMMA LineAgrees ==
  ASSUME StreamInv, CutsInv, NEW k \in Nat, k < Len(blocks), NEW j \in Nat, NEW h \in Nat, At(k, j, h),
         j < Len(blocks[k + 1].lines), Agree(decoder, Assembling(k, j))
  PROVE  Agree(Field(decoder, Text(wire, cuts, h, h + Width(k, j))), Assembled(blocks[k + 1], CutsIn(k + 1))[j + 1])
<1>0. blocks \in Streams /\ wire = AllBytes(blocks)
  BY DEF CutsInv
<1>1. WellFormed(blocks[k + 1]) /\ k # Len(blocks) /\ j <= Len(blocks[k + 1].lines)
  <2>1. k # Len(blocks)
    <3>1. Len(blocks) \in Nat
      BY <1>0, BlocksType
    <3> QED BY <3>1
  <2>2. WellFormed(blocks[k + 1]) /\ j <= Len(blocks[k + 1].lines)
    BY <1>0, LineAt
  <2> QED BY <2>1, <2>2
<1>2. PICK block, cut, line : block = blocks[k + 1] /\ cut = CutsIn(k + 1) /\ line = LineText(block, cut, j + 1)
  OBVIOUS
<1>3. Text(wire, cuts, h, h + Width(k, j)) = line
  BY <1>2, LineIsText
<1>4. Assembled(block, cut)[j + 1] = Field(Assembled(block, cut)[j], line)
  BY <1>1, <1>2, AssembledSteps
<1>5. Assembling(k, j) = Assembled(block, cut)[j]
  BY <1>1, <1>2, Zenon DEF Assembling
<1>6. IsDecoder(decoder) /\ IsDecoder(Assembled(block, cut)[j])
  <2>1. IsDecoder(decoder)
    BY DEF CutsInv
  <2> QED BY <1>1, <1>2, <2>1, AssembledType
<1>7. Agree(Field(decoder, line), Field(Assembled(block, cut)[j], line))
  BY <1>5, <1>6, FieldAgrees, Zenon
<1> QED BY <1>2, <1>3, <1>4, <1>7, Zenon

\* What has been cut in a block is one of its characters.
LEMMA CutsAreHighs == \A k : CutsIn(k) \in SUBSET Highs(blocks[k])
BY DEF CutsIn

\* What is known after a block, if d is what the decoder has of it.
LEMMA BlockKnown ==
  ASSUME blocks \in Streams, NEW k \in Nat, k < Len(blocks), ~Failing(k), KnownAfter(k),
         NEW d, IsDecoder(d), Agree(d, Assembled(blocks[k + 1], CutsIn(k + 1))[Len(blocks[k + 1].lines)])
  PROVE  /\ IsEvent(d) <=> blocks[k + 1].dispatched
         /\ IsEvent(d) => /\ AfterEvent(Known, d).heard = Meant(k + 1)
                          /\ AfterEvent(Known, d).started <=> \E i \in 1 .. k + 1 : ~blocks[i].silent
                          /\ AfterEvent(Known, d).sse.event = blocks[k + 1].event
                          /\ AfterEvent(Known, d).sse.id = blocks[k + 1].id
                          /\ AfterEvent(Known, d).sse.retry = blocks[k + 1].retry
         /\ ~IsEvent(d) => heard = Meant(k + 1) /\ (started <=> \E i \in 1 .. k + 1 : ~blocks[i].silent)
         /\ IsLastEvent(d) => IsEvent(d)
         /\ IsEvent(d) /\ ~IsLastEvent(d) => heard = Meant(k + 1)
<1>1. WellFormed(blocks[k + 1]) /\ SaysWhatItSays(blocks[k + 1])
  <2>1. k + 1 \in 1 .. Len(blocks)
    BY BlocksType
  <2> QED BY <2>1, BlocksType
<1>2. PICK block, cut : block = blocks[k + 1] /\ cut = CutsIn(k + 1)
  OBVIOUS
<1>3. PICK known : known = Known
  OBVIOUS
<1>4. known.heard = heard /\ known.started = started
  BY <1>3 DEF Known
<1>5. heard = Meant(k) /\ (started <=> \E i \in 1 .. k : ~blocks[i].silent)
  BY Zenon DEF KnownAfter
<1>6. IsHeard(Meant(k)) /\ Meant(k + 1) = Plus(Meant(k), Saying(block, cut))
  BY <1>2, MeantStep, Zenon
<1>7. cut \in SUBSET Highs(block)
  BY <1>2, CutsAreHighs, Zenon
<1>8. IsHeard(known.heard) /\ Meant(k + 1) = Plus(known.heard, Saying(block, cut))
  BY <1>4, <1>5, <1>6, Zenon
<1>9. WellFormed(block) /\ SaysWhatItSays(block) /\ Agree(d, Assembled(block, cut)[Len(block.lines)])
  BY <1>1, <1>2, Zenon
<1>10. /\ IsEvent(d) <=> block.dispatched
       /\ IsEvent(d) => /\ AfterEvent(known, d).heard = Plus(known.heard, Saying(block, cut))
                        /\ AfterEvent(known, d).started <=> known.started \/ ~block.silent
                        /\ AfterEvent(known, d).sse.event = block.event
                        /\ AfterEvent(known, d).sse.id = block.id
                        /\ AfterEvent(known, d).sse.retry = block.retry
       /\ ~IsEvent(d) => Plus(known.heard, Saying(block, cut)) = known.heard /\ block.silent
       /\ IsLastEvent(d) => IsEvent(d)
       /\ IsEvent(d) /\ ~IsLastEvent(d) => Plus(known.heard, Saying(block, cut)) = known.heard
  BY <1>7, <1>8, <1>9, BlockHeard
<1>11. (\E i \in 1 .. k + 1 : ~blocks[i].silent) <=> (\E i \in 1 .. k : ~blocks[i].silent) \/ ~block.silent
  <2>1. \A i : i \in 1 .. k + 1 <=> i \in 1 .. k \/ i = k + 1
    OBVIOUS
  <2> QED BY <1>2, <2>1, Zenon
<1> QED BY <1>2, <1>3, <1>4, <1>5, <1>8, <1>10, <1>11, Zenon

\* A line of a field is handled.
LEMMA FieldLineMeans ==
  ASSUME StreamInv, CutsInv, FieldLine, NEW k \in 0 .. Len(blocks), NEW j \in Nat,
         NEW h \in Nat, ReadingAt(k, j, h)
  PROVE  \E i, g \in Nat : ReadingAt(k, i, g)'
<1>1. /\ At(k, j, h) /\ h <= arrived /\ buffer = Text(wire, cuts, h, arrived)
      /\ Agree(decoder, Assembling(k, j)) /\ KnownAfter(k) /\ ~Failing(k)
  BY Zenon DEF ReadingAt
<1>2. blocks \in Streams /\ wire = AllBytes(blocks) /\ k \in Nat /\ arrived \in Nat
  BY BlocksType, RestType DEF CutsInv
<1>3. /\ HasLine /\ Line # <<>> /\ decoder' = Field(decoder, Line) /\ buffer' = Unread
      /\ UNCHANGED <<blocks, wire, arrived, cuts, heard, started, sse>>
  BY DEF FieldLine, sources, results
<1>4. /\ k < Len(blocks) /\ h + Width(k, j) + 1 <= arrived
      /\ Line = Text(wire, cuts, h, h + Width(k, j))
      /\ Unread = Text(wire, cuts, h + Width(k, j) + 1, arrived)
  BY <1>1, <1>3, NextLine
<1>5. /\ Width(k, j) \in Nat /\ j <= Len(blocks[k + 1].lines) /\ Len(blocks[k + 1].lines) \in Nat
      /\ j < Len(blocks[k + 1].lines) => h + Width(k, j) + 1 = EndOf(k) + RowsEnd(blocks[k + 1], j + 1)
  BY <1>1, <1>2, <1>4, LineAt
<1>6. PICK l \in Nat, g \in Nat : l = Len(blocks[k + 1].lines) /\ g = h + Width(k, j) + 1
  <2>1. h + Width(k, j) + 1 \in Nat
    BY <1>5
  <2> QED BY <1>5, <2>1, Zenon
<1>7. j < l
  <2>1. j # l
    BY <1>1, <1>2, <1>3, <1>4, <1>6, LineEmpty, Zenon
  <2>2. j <= l
    BY <1>5, <1>6, Zenon
  <2> QED BY <2>1, <2>2
<1>8. j < Len(blocks[k + 1].lines) /\ g = EndOf(k) + RowsEnd(blocks[k + 1], j + 1)
  BY <1>5, <1>6, <1>7, Zenon
<1>9. At(k, j + 1, g)
  <2>1. k # Len(blocks)
    <3>1. Len(blocks) \in Nat
      BY <1>2, BlocksType
    <3> QED BY <1>4, <3>1
  <2>2. j + 1 \in 0 .. l
    BY <1>7
  <2>3. j + 1 \in 0 .. Len(blocks[k + 1].lines)
    BY <1>6, <2>2, Zenon
  <2> QED BY <1>8, <2>1, <2>3, Zenon DEF At
<1>10. Agree(decoder', Assembled(blocks[k + 1], CutsIn(k + 1))[j + 1])
  BY <1>1, <1>2, <1>3, <1>4, <1>8, LineAgrees, Zenon
<1>11. At(k, j + 1, g)' /\ ~Failing(k)'
  BY <1>1, <1>3, <1>9, BlocksSame
<1>12. (g <= arrived)'
  <2>1. g <= arrived
    BY <1>4, <1>6, Zenon
  <2> QED BY <1>3, <2>1
<1>13. (buffer = Text(wire, cuts, g, arrived))'
  <2>1. buffer' = Text(wire, cuts, g, arrived)
    BY <1>3, <1>4, <1>6, Zenon
  <2> QED BY <1>3, <2>1
<1>14. KnownAfter(k)'
  <2>1. \A i \in 0 .. EndOf(k) : i \in cuts <=> i \in cuts'
    BY <1>3
  <2>2. blocks' = blocks /\ k <= Len(blocks)
    BY <1>2, <1>3, BlocksType
  <2>3. Meant(k)' = Meant(k)
    BY <1>2, <2>1, <2>2, MeantSame
  <2>4. heard' = Meant(k)'
    BY <1>1, <1>3, <2>3 DEF KnownAfter
  <2>5. started' = started /\ sse' = sse
    BY <1>3
  <2>6. started' <=> \E i \in 1 .. k : ~blocks'[i].silent
    BY <1>1, <2>2, <2>5 DEF KnownAfter
  <2>7. \A i \in 1 .. k : blocks'[i].dispatched /\ (\A m \in i + 1 .. k : ~blocks'[m].dispatched) =>
          sse'.event = blocks'[i].event /\ sse'.id = blocks'[i].id /\ sse'.retry = blocks'[i].retry
    BY <1>1, <2>2, <2>5 DEF KnownAfter
  <2> QED BY <2>4, <2>6, <2>7, Zenon DEF KnownAfter
<1>15. Agree(decoder, Assembling(k, j + 1))'
  <2>1. PICK bs : bs = blocks /\ bs = blocks'
    BY <1>3
  <2>2. CutsIn(k + 1)' = CutsIn(k + 1)
    <3>1. PICK c : c = cuts /\ c = cuts'
      BY <1>3
    <3>2. EndOf((k + 1) - 1)' = EndOf((k + 1) - 1)
      BY <1>3, BlocksSame
    <3>3. CutsIn(k + 1) = {i \in Highs(bs[k + 1]) : EndOf((k + 1) - 1) + i \in c}
      BY <2>1, <3>1, Zenon DEF CutsIn
    <3>4. CutsIn(k + 1)' = {i \in Highs(bs[k + 1]) : EndOf((k + 1) - 1)' + i \in c}
      BY <2>1, <3>1, Zenon DEF CutsIn
    <3> QED BY <3>2, <3>3, <3>4, Zenon
  <2>3. k # Len(bs)
    <3>1. Len(blocks) \in Nat
      BY <1>2, BlocksType
    <3>2. k # Len(blocks)
      BY <1>4, <3>1
    <3> QED BY <2>1, <3>2, Zenon
  <2>4. Assembling(k, j + 1)' = Assembled(bs[k + 1], CutsIn(k + 1)')[j + 1]
    BY <2>1, <2>3, Zenon DEF Assembling
  <2> QED BY <1>10, <2>1, <2>2, <2>4, Zenon DEF Agree
<1>16. ReadingAt(k, j + 1, g)'
  BY <1>11, <1>12, <1>13, <1>14, <1>15, Zenon DEF ReadingAt
<1>17. j + 1 \in Nat
  OBVIOUS
<1> QED BY <1>16, <1>17, Zenon

-----------------------------------------------------------------------------
(* A blank line keeps it.                                                  *)


\* What is known stays, while what it is about stays.
LEMMA KnownStays ==
  ASSUME blocks \in Streams, wire = AllBytes(blocks), NEW k \in Nat, k <= Len(blocks), KnownAfter(k),
         UNCHANGED <<blocks, cuts, heard, started, sse>>
  PROVE  KnownAfter(k)'
<1>1. \A i \in 0 .. EndOf(k) : i \in cuts <=> i \in cuts'
  OBVIOUS
<1>2. Meant(k)' = Meant(k)
  BY <1>1, MeantSame
<1>3. heard' = Meant(k)'
  BY <1>2 DEF KnownAfter
<1>4. started' <=> \E i \in 1 .. k : ~blocks'[i].silent
  BY DEF KnownAfter
<1>5. \A l \in 1 .. k : blocks'[l].dispatched /\ (\A i \in l + 1 .. k : ~blocks'[i].dispatched) =>
        sse'.event = blocks'[l].event /\ sse'.id = blocks'[l].id /\ sse'.retry = blocks'[l].retry
  BY DEF KnownAfter
<1> QED BY <1>3, <1>4, <1>5, Zenon DEF KnownAfter

\* Before the blank line the decoder has all of the block; after it, of the next nothing.
LEMMA BlankLineAt ==
  ASSUME StreamInv, CutsInv, BlankLine, NEW k \in 0 .. Len(blocks), NEW j \in Nat,
         NEW h \in Nat, ReadingAt(k, j, h)
  PROVE  /\ k \in Nat /\ k < Len(blocks) /\ WellFormed(blocks[k + 1])
         /\ Agree(decoder, Assembled(blocks[k + 1], CutsIn(k + 1))[Len(blocks[k + 1].lines)])
         /\ EndOf(k + 1) \in Nat /\ EndOf(k + 1) <= arrived
         /\ buffer' = Text(wire, cuts, EndOf(k + 1), arrived)
<1>1. /\ At(k, j, h) /\ h <= arrived /\ buffer = Text(wire, cuts, h, arrived)
      /\ Agree(decoder, Assembling(k, j))
  BY Zenon DEF ReadingAt
<1>2. blocks \in Streams /\ wire = AllBytes(blocks) /\ k \in Nat /\ Len(blocks) \in Nat
  BY BlocksType DEF CutsInv
<1>3. HasLine /\ Line = <<>> /\ buffer' = Unread
  BY DEF BlankLine
<1>4. /\ k < Len(blocks) /\ h + Width(k, j) + 1 <= arrived
      /\ Line = Text(wire, cuts, h, h + Width(k, j))
      /\ Unread = Text(wire, cuts, h + Width(k, j) + 1, arrived)
  BY <1>1, <1>3, NextLine
<1>5. /\ WellFormed(blocks[k + 1]) /\ EndOf(k + 1) \in Nat /\ j <= Len(blocks[k + 1].lines)
      /\ Len(blocks[k + 1].lines) \in Nat
      /\ j = Len(blocks[k + 1].lines) => Width(k, j) = 0 /\ h + 1 = EndOf(k + 1)
  BY <1>1, <1>2, <1>4, LineAt
<1>6. j = Len(blocks[k + 1].lines)
  <2>1. ~(j < Len(blocks[k + 1].lines))
    BY <1>1, <1>2, <1>3, <1>4, LineEmpty, Zenon
  <2> QED BY <1>5, <2>1
<1>7. h + Width(k, j) + 1 = EndOf(k + 1)
  BY <1>5, <1>6
<1>8. Assembling(k, j) = Assembled(blocks[k + 1], CutsIn(k + 1))[Len(blocks[k + 1].lines)]
  <2>1. k # Len(blocks)
    BY <1>2, <1>4
  <2> QED BY <1>6, <2>1, Zenon DEF Assembling
<1>9. EndOf(k + 1) <= arrived /\ buffer' = Text(wire, cuts, EndOf(k + 1), arrived)
  BY <1>3, <1>4, <1>7, Zenon
<1> QED BY <1>1, <1>2, <1>4, <1>5, <1>8, <1>9, Zenon

\* What is known after it.
LEMMA BlankLineKnown ==
  ASSUME StreamInv, CutsInv, BlankLine, NEW k \in 0 .. Len(blocks), NEW j \in Nat,
         NEW h \in Nat, ReadingAt(k, j, h)
  PROVE  KnownAfter(k + 1)'
<1>1. /\ k \in Nat /\ k < Len(blocks)
      /\ Agree(decoder, Assembled(blocks[k + 1], CutsIn(k + 1))[Len(blocks[k + 1].lines)])
  BY BlankLineAt
<1>2. blocks \in Streams /\ wire = AllBytes(blocks) /\ IsDecoder(decoder) /\ KnownAfter(k) /\ ~Failing(k)
  BY Zenon DEF CutsInv, ReadingAt
<1>3. /\ IsEvent(decoder) <=> blocks[k + 1].dispatched
      /\ IsEvent(decoder) => /\ AfterEvent(Known, decoder).heard = Meant(k + 1)
                             /\ AfterEvent(Known, decoder).started <=> \E i \in 1 .. k + 1 : ~blocks[i].silent
                             /\ AfterEvent(Known, decoder).sse.event = blocks[k + 1].event
                             /\ AfterEvent(Known, decoder).sse.id = blocks[k + 1].id
                             /\ AfterEvent(Known, decoder).sse.retry = blocks[k + 1].retry
      /\ ~IsEvent(decoder) => heard = Meant(k + 1) /\ (started <=> \E i \in 1 .. k + 1 : ~blocks[i].silent)
  BY <1>1, <1>2, BlockKnown
<1>4. UNCHANGED <<blocks, wire, cuts, arrived>>
  BY DEF BlankLine, sources
<1>5. /\ IsEvent(decoder) => /\ heard' = AfterEvent(Known, decoder).heard
                             /\ started' = AfterEvent(Known, decoder).started
                             /\ sse' = AfterEvent(Known, decoder).sse
      /\ ~IsEvent(decoder) => heard' = heard /\ started' = started /\ sse' = sse
  <2>1. \/ IsEvent(decoder) /\ Dispatch(decoder)
        \/ ~IsEvent(decoder) /\ UNCHANGED results
    BY Zenon DEF BlankLine
  <2>2. UNCHANGED results => heard' = heard /\ started' = started /\ sse' = sse
    BY DEF results
  <2>3. Dispatch(decoder) => /\ heard' = AfterEvent(Known, decoder).heard
                             /\ started' = AfterEvent(Known, decoder).started
                             /\ sse' = AfterEvent(Known, decoder).sse
    BY Zenon DEF Dispatch
  <2> QED BY <2>1, <2>2, <2>3, Zenon
<1>6. heard' = Meant(k + 1) /\ (started' <=> \E i \in 1 .. k + 1 : ~blocks[i].silent)
  <2>1. CASE IsEvent(decoder)
    BY <1>3, <1>5, <2>1
  <2>2. CASE ~IsEvent(decoder)
    BY <1>3, <1>5, <2>2
  <2> QED BY <2>1, <2>2
<1>7. Meant(k + 1)' = Meant(k + 1)
  <2>1. \A i \in 0 .. EndOf(k + 1) : i \in cuts <=> i \in cuts'
    BY <1>4
  <2>2. k + 1 \in Nat /\ k + 1 <= Len(blocks)
    BY <1>1, <1>2, BlocksType
  <2>3. blocks' = blocks
    BY <1>4
  <2> QED BY <1>2, <2>1, <2>2, <2>3, MeantSame
<1>8. PICK bs : bs = blocks /\ bs = blocks'
  BY <1>4
<1>9. ASSUME NEW l \in 1 .. k + 1, bs[l].dispatched, \A i \in l + 1 .. k + 1 : ~bs[i].dispatched
      PROVE  sse'.event = bs[l].event /\ sse'.id = bs[l].id /\ sse'.retry = bs[l].retry
  <2>1. CASE IsEvent(decoder)
    <3>1. bs[k + 1].dispatched
      BY <1>3, <1>8, <2>1, Zenon
    <3>2. l = k + 1
      BY <1>1, <1>9, <3>1
    <3> QED BY <1>3, <1>5, <1>8, <2>1, <3>2, Zenon
  <2>2. CASE ~IsEvent(decoder)
    <3>1. ~bs[k + 1].dispatched
      BY <1>3, <1>8, <2>2, Zenon
    <3>2. l # k + 1
      BY <1>9, <3>1, Zenon
    <3>3. l \in 1 .. k /\ \A i \in l + 1 .. k : i \in l + 1 .. k + 1
      BY <1>1, <3>2
    <3>4. \A i \in l + 1 .. k : ~bs[i].dispatched
      BY <1>9, <3>3
    <3>5. sse.event = bs[l].event /\ sse.id = bs[l].id /\ sse.retry = bs[l].retry
      BY <1>2, <1>8, <1>9, <3>3, <3>4, Zenon DEF KnownAfter
    <3> QED BY <1>5, <2>2, <3>5, Zenon
  <2> QED BY <2>1, <2>2
<1>10. started' <=> \E i \in 1 .. k + 1 : ~bs[i].silent
  BY <1>6, <1>8, Zenon
<1> QED BY <1>6, <1>7, <1>8, <1>9, <1>10, Zenon DEF KnownAfter

\* A blank line is handled.
LEMMA BlankLineMeans ==
  ASSUME StreamInv, StreamInv', CutsInv, BlankLine,
         NEW k \in 0 .. Len(blocks), NEW j \in Nat, NEW h \in Nat, ReadingAt(k, j, h)
  PROVE  /\ k + 1 \in 0 .. Len(blocks)
         /\ stage' = "reading" => \E e \in Nat : ReadingAt(k + 1, 0, e)'
         /\ stage' # "reading" => FailedAt(k + 1)'
<1>1. /\ k \in Nat /\ k < Len(blocks) /\ EndOf(k + 1) \in Nat /\ EndOf(k + 1) <= arrived
      /\ buffer' = Text(wire, cuts, EndOf(k + 1), arrived)
  BY BlankLineAt
<1>2. KnownAfter(k + 1)'
  BY BlankLineKnown
<1>3. blocks \in Streams /\ wire = AllBytes(blocks) /\ Len(blocks) \in Nat
  BY BlocksType DEF CutsInv
<1>4. UNCHANGED <<blocks, wire, cuts, arrived>> /\ stage = "reading"
  BY DEF BlankLine, sources
<1>5. k + 1 \in 0 .. Len(blocks) /\ k + 1 \in Nat /\ k + 1 <= Len(blocks)
  BY <1>1, <1>3
<1>6. EndOf(k + 1)' = EndOf(k + 1) /\ Failing(k + 1)' = Failing(k + 1)
  BY <1>4, BlocksSame
<1>e. PICK e \in Nat : e = EndOf(k + 1)
  BY <1>1
<1>7. heard'.failed <=> Failing(k + 1)'
  <2>1. heard' = Meant(k + 1)'
    BY <1>2, Zenon DEF KnownAfter
  <2>2. PICK f : f = Failing(k + 1)'
    BY Zenon
  <2>3. Meant(k + 1)' = [a |-> Said("a", k + 1)', b |-> Said("b", k + 1)', failed |-> f,
                         modelA |-> Named("modelA", k + 1)', modelB |-> Named("modelB", k + 1)']
    BY <2>2, Zenon DEF Meant
  <2>4. heard'.failed = f
    BY <2>1, <2>3
  <2> QED BY <2>2, <2>4, Zenon
<1>8. ASSUME stage' = "reading"
      PROVE  ReadingAt(k + 1, 0, e)'
  <2>1. ~Failing(k + 1)'
    BY <1>7, <1>8 DEF StreamInv
  <2>2. At(k + 1, 0, EndOf(k + 1))
    <3>1. CASE k + 1 = Len(blocks)
      BY <3>1, Zenon DEF At
    <3>2. CASE k + 1 # Len(blocks)
      <4>1. k + 1 < Len(blocks)
        BY <1>5, <3>2
      <4>2. (k + 1) + 1 \in 1 .. Len(blocks)
        BY <1>3, <1>5, <4>1
      <4>3. WellFormed(blocks[(k + 1) + 1])
        BY <1>3, <4>2, BlocksType
      <4>4. RowsEnd(blocks[(k + 1) + 1], 0) = 0 /\ Len(blocks[(k + 1) + 1].lines) \in Nat
        BY <4>3, BlankIn, LinesType
      <4>5. /\ 0 \in 0 .. Len(blocks[(k + 1) + 1].lines)
            /\ EndOf(k + 1) = EndOf(k + 1) + RowsEnd(blocks[(k + 1) + 1], 0)
        BY <1>1, <4>4
      <4> QED BY <3>2, <4>5, Zenon DEF At
    <3> QED BY <3>1, <3>2
  <2>3. At(k + 1, 0, e)'
    <3>1. At(k + 1, 0, e)
      BY <1>e, <2>2, Zenon
    <3> QED BY <1>4, <3>1, BlocksSame
  <2>4. (e <= arrived)' /\ (buffer = Text(wire, cuts, e, arrived))'
    <3>1. e <= arrived /\ buffer' = Text(wire, cuts, e, arrived)
      BY <1>1, <1>e, Zenon
    <3> QED BY <1>4, <3>1
  <2>5. Agree(decoder, Assembling(k + 1, 0))'
    <3>1. \A z, w : Agree(decoder', Clear(z, w))
      <4>1. decoder' = AfterEvent(Known, decoder).decoder \/ decoder' = Reset(decoder)
        BY Zenon DEF BlankLine, Dispatch
      <4> QED BY <4>1, ResetType, Zenon
    <3>2. Assembling(k + 1, 0)' = Clear({}, {})
      <4>0. PICK bs : bs = blocks /\ bs = blocks'
        BY <1>4
      <4>1. CASE k + 1 = Len(bs)
        BY <4>0, <4>1, Zenon DEF Assembling
      <4>2. CASE k + 1 # Len(bs)
        <5>1. (k + 1) + 1 \in 1 .. Len(blocks)
          <6>1. k + 1 # Len(blocks)
            BY <4>0, <4>2, Zenon
          <6> QED BY <1>3, <1>5, <6>1
        <5>2. WellFormed(blocks[(k + 1) + 1])
          BY <1>3, <5>1, BlocksType
        <5>3. \A c : Assembled(blocks[(k + 1) + 1], c)[0] = Clear({}, {})
          BY <5>2, AssembledSteps
        <5>4. Assembling(k + 1, 0)' = Assembled(bs[(k + 1) + 1], CutsIn((k + 1) + 1)')[0]
          BY <4>0, <4>2, Zenon DEF Assembling
        <5> QED BY <4>0, <5>3, <5>4, Zenon
      <4> QED BY <4>1, <4>2
    <3> QED BY <3>1, <3>2, Zenon DEF Agree
  <2> QED BY <1>2, <2>1, <2>3, <2>4, <2>5, Zenon DEF ReadingAt
<1>9. ASSUME stage' # "reading"
      PROVE  FailedAt(k + 1)'
  <2>1. stage' = "failed" /\ heard'.failed
    <3>1. \/ stage' = IF heard'.failed THEN "failed" ELSE stage
          \/ stage' = stage
      BY DEF BlankLine
    <3> QED BY <1>4, <1>9, <3>1
  <2>2. heard' = Meant(k + 1)'
    BY <1>2, Zenon DEF KnownAfter
  <2>3. (EndOf(k + 1) <= arrived)'
    <3>1. EndOf(k + 1)' <= arrived
      BY <1>1, <1>6, Zenon
    <3> QED BY <1>4, <3>1
  <2> QED BY <1>7, <2>1, <2>2, <2>3, Zenon DEF FailedAt
<1> QED BY <1>1, <1>5, <1>8, <1>9

-----------------------------------------------------------------------------
(* The ends keep it.                                                       *)


\* When no line is left, the blocks that have been handled are those that have arrived.
LEMMA NoLineLeft ==
  ASSUME StreamInv, CutsInv, ~HasLine, NEW k \in 0 .. Len(blocks), NEW j \in Nat,
         NEW h \in Nat, ReadingAt(k, j, h)
  PROVE  /\ k \in Nat /\ k <= Len(blocks) /\ EndOf(k) \in Nat /\ EndOf(k) <= h
         /\ k < Len(blocks) => arrived < h + Width(k, j) + 1 /\ arrived < EndOf(k + 1)
<1>1. At(k, j, h) /\ h <= arrived /\ buffer = Text(wire, cuts, h, arrived)
  BY Zenon DEF ReadingAt
<1>2. blocks \in Streams /\ wire = AllBytes(blocks) /\ k \in Nat /\ Len(blocks) \in Nat /\ arrived \in Nat
  BY BlocksType, RestType DEF CutsInv
<1>3. k <= Len(blocks)
  BY <1>2
<1>4. CASE k < Len(blocks)
  <2>1. /\ EndOf(k) \in Nat /\ EndOf(k + 1) \in Nat /\ Width(k, j) \in Nat
        /\ EndOf(k) <= h /\ h + Width(k, j) + 1 <= EndOf(k + 1)
    BY <1>1, <1>2, <1>4, LineAt
  <2>2. ~(h + Width(k, j) + 1 <= arrived)
    BY <1>1, <1>4, NextLine
  <2>3. arrived < h + Width(k, j) + 1 /\ arrived < EndOf(k + 1)
    BY <1>2, <2>1, <2>2
  <2> QED BY <1>2, <1>3, <2>1, <2>3
<1>5. CASE ~(k < Len(blocks))
  <2>1. k = Len(blocks)
    BY <1>2, <1>3, <1>5
  <2>2. EndOf(k) \in Nat
    BY <1>2, <1>3, BlocksGrow
  <2>3. EndOf(k) <= h
    BY <1>1, <2>1, <2>2 DEF At
  <2> QED BY <1>2, <1>3, <1>5, <2>2, <2>3
<1> QED BY <1>4, <1>5

\* The client ends.
LEMMA ClientEndsMeans ==
  ASSUME StreamInv, CutsInv, ClientEnds, NEW k \in 0 .. Len(blocks), NEW j \in Nat,
         NEW h \in Nat, ReadingAt(k, j, h)
  PROVE  EndedAt(k)'
<1>1. /\ reader = "client" /\ ~HasLine /\ stage' = IF started THEN "ended" ELSE "empty"
      /\ UNCHANGED <<blocks, wire, reader, arrived, cuts, heard, started, sse>>
  BY DEF ClientEnds, sources, results
<1>2. /\ k \in Nat /\ k <= Len(blocks) /\ EndOf(k) \in Nat /\ EndOf(k) <= h
      /\ k < Len(blocks) => arrived < EndOf(k + 1)
  BY <1>1, NoLineLeft
<1>3. h <= arrived /\ KnownAfter(k) /\ blocks \in Streams /\ wire = AllBytes(blocks) /\ arrived \in Nat
  BY RestType DEF ReadingAt, CutsInv
<1>4. KnownAfter(k)'
  BY <1>1, <1>2, <1>3, KnownStays
<1>5. PICK e, f : e = EndOf(k) /\ e = EndOf(k)' /\ f = EndOf(k + 1) /\ f = EndOf(k + 1)'
  BY <1>1, BlocksSame
<1>6. e <= arrived' /\ (k < Len(blocks') => arrived' < f)
  <2>1. e <= arrived
    <3>1. EndOf(k) <= arrived
      BY <1>2, <1>3
    <3> QED BY <1>5, <3>1, Zenon
  <2>2. k < Len(blocks) => arrived < f
    BY <1>2, <1>5, Zenon
  <2> QED BY <1>1, <2>1, <2>2
<1>7. reader' = "client" /\ stage' = IF started' THEN "ended" ELSE "empty"
  BY <1>1
<1> QED BY <1>4, <1>5, <1>6, <1>7, Zenon DEF EndedAt

\* If all but the end of the blank line has arrived, or of the last line, the decoder
\* has all of the block after it is flushed.
LEMMA FlushedIsBlock ==
  ASSUME StreamInv, CutsInv, ~HasLine, NEW k \in 0 .. Len(blocks), NEW j \in Nat,
         NEW h \in Nat, ReadingAt(k, j, h),
         k < Len(blocks), arrived = EndOf(k + 1) - 1 \/ arrived = EndOf(k + 1) - 2
  PROVE  Agree(Flushed, Assembled(blocks[k + 1], CutsIn(k + 1))[Len(blocks[k + 1].lines)])
<1>1. /\ At(k, j, h) /\ h <= arrived /\ buffer = Text(wire, cuts, h, arrived) /\ Agree(decoder, Assembling(k, j))
  BY Zenon DEF ReadingAt
<1>2. /\ blocks \in Streams /\ wire = AllBytes(blocks) /\ k \in Nat /\ Len(blocks) \in Nat /\ arrived \in Nat
  BY BlocksType, RestType DEF CutsInv
<1>3. arrived < h + Width(k, j) + 1
  BY NoLineLeft
<1>4. /\ EndOf(k) \in Nat /\ EndOf(k + 1) \in Nat /\ Width(k, j) \in Nat
      /\ WellFormed(blocks[k + 1]) /\ Len(blocks[k + 1].lines) \in Nat
      /\ h + Width(k, j) + 1 <= EndOf(k + 1) /\ j <= Len(blocks[k + 1].lines)
      /\ j = Len(blocks[k + 1].lines) => Width(k, j) = 0 /\ h + 1 = EndOf(k + 1)
      /\ j < Len(blocks[k + 1].lines) => h + Width(k, j) + 1 = EndOf(k) + RowsEnd(blocks[k + 1], j + 1)
  BY <1>1, <1>2, LineAt, SMTT(30)
<1>5. PICK n \in Nat, e \in Nat, w \in Nat : n = Len(blocks[k + 1].lines) /\ e = EndOf(k + 1) /\ w = Width(k, j)
  BY <1>4, Zenon
<1>6. /\ arrived = e - 1 \/ arrived = e - 2
      /\ arrived < h + w + 1 /\ h + w + 1 <= e /\ j <= n
      /\ j = n => w = 0 /\ h + 1 = e
  BY <1>3, <1>4, <1>5, Zenon
<1>7. k # Len(blocks)
  BY <1>2
<1>8. CASE j = n
  <2>1. arrived = h + w
    BY <1>1, <1>2, <1>6, <1>8
  <2>2. j = Len(blocks[k + 1].lines)
    BY <1>5, <1>8, Zenon
  <2>3. Text(wire, cuts, h, h + Width(k, j)) = <<>>
    BY <1>1, <1>2, <2>2, LineEmpty, Zenon
  <2>4. buffer = <<>>
    BY <1>1, <1>5, <2>1, <2>3, Zenon
  <2>5. Flushed = decoder
    BY <2>4, Zenon DEF Flushed
  <2>6. Assembling(k, j) = Assembled(blocks[k + 1], CutsIn(k + 1))[Len(blocks[k + 1].lines)]
    BY <1>7, <2>2, Zenon DEF Assembling
  <2> QED BY <1>1, <2>5, <2>6, Zenon
<1>9. CASE j < n
  <2>1. j < Len(blocks[k + 1].lines)
    BY <1>5, <1>9, Zenon
  <2>2. /\ RowsEnd(blocks[k + 1], j + 1) \in Nat /\ RowsEnd(blocks[k + 1], n) \in Nat
        /\ RowsEnd(blocks[k + 1], j + 1) + (n - (j + 1)) <= RowsEnd(blocks[k + 1], n)
    <3>1. j + 1 \in Nat /\ j + 1 <= n
      BY <1>9
    <3>2. n <= Len(blocks[k + 1].lines)
      BY <1>4, <1>5
    <3> QED BY <1>4, <3>1, <3>2, RowsGrow
  <2>3. /\ EndOf(k + 1) = EndOf(k) + Len(Bytes(blocks[k + 1])) /\ Len(Bytes(blocks[k + 1])) \in Nat
        /\ RowsEnd(blocks[k + 1], n) = Len(Bytes(blocks[k + 1])) - 1
    <3>1. EndOf(k + 1) = EndOf(k) + Len(Bytes(blocks[k + 1]))
      BY <1>2, BlockIn
    <3>2. /\ Len(Bytes(blocks[k + 1])) \in Nat
          /\ RowsEnd(blocks[k + 1], Len(blocks[k + 1].lines)) = Len(Bytes(blocks[k + 1])) - 1
      BY <1>4, BlankIn
    <3> QED BY <1>5, <3>1, <3>2, Zenon
  <2>4. PICK o \in Nat, r \in Nat, s \in Nat, l \in Nat :
           /\ o = EndOf(k) /\ r = RowsEnd(blocks[k + 1], j + 1) /\ s = RowsEnd(blocks[k + 1], n)
           /\ l = Len(Bytes(blocks[k + 1]))
    BY <1>4, <2>2, <2>3, Zenon
  <2>5. r + (n - (j + 1)) <= s /\ e = o + l /\ s = l - 1 /\ h + w + 1 = o + r
    BY <1>4, <1>5, <2>1, <2>2, <2>3, <2>4, Zenon
  <2>6. n = j + 1 /\ arrived = h + w
    BY <1>2, <1>6, <1>9, <2>5
  <2>7. buffer = Text(wire, cuts, h, h + Width(k, j)) /\ buffer # <<>>
    BY <1>1, <1>2, <1>5, <2>1, <2>6, LineEmpty, Zenon
  <2>8. Flushed = Field(decoder, Text(wire, cuts, h, h + Width(k, j)))
    BY <2>7, Zenon DEF Flushed
  <2>9. Agree(Field(decoder, Text(wire, cuts, h, h + Width(k, j))), Assembled(blocks[k + 1], CutsIn(k + 1))[j + 1])
    BY <1>1, <1>2, <2>1, LineAgrees, Zenon
  <2> QED BY <1>5, <2>6, <2>8, <2>9, Zenon
<1> QED BY <1>6, <1>8, <1>9

\* A block of one byte says nothing.
LEMMA BlankBlock ==
  ASSUME blocks \in Streams, wire = AllBytes(blocks),
         NEW k \in Nat, k < Len(blocks), EndOf(k + 1) = EndOf(k) + 1
  PROVE  Meant(k + 1) = Meant(k)
<1>1. /\ WellFormed(blocks[k + 1]) /\ SaysWhatItSays(blocks[k + 1])
      /\ EndOf(k) \in Nat /\ EndOf(k + 1) = EndOf(k) + Len(Bytes(blocks[k + 1]))
  BY BlockIn
<1>2. PICK block, cut : block = blocks[k + 1] /\ cut = CutsIn(k + 1)
  OBVIOUS
<1>3. PICK n \in Nat : n = Len(block.lines)
  BY <1>1, <1>2, LinesType
<1>4. n = 0
  <2>1. /\ Len(Bytes(block)) \in Nat /\ RowsEnd(block, n) = Len(Bytes(block)) - 1 /\ RowsEnd(block, 0) = 0
    BY <1>1, <1>2, <1>3, BlankIn, Zenon
  <2>2. RowsEnd(block, 0) + (n - 0) <= RowsEnd(block, n)
    <3>1. 0 \in Nat /\ 0 <= n
      OBVIOUS
    <3>2. n <= Len(block.lines)
      BY <1>3
    <3>3. WellFormed(block)
      BY <1>1, <1>2, Zenon
    <3> QED BY <3>1, <3>2, <3>3, RowsGrow
  <2>3. PICK o \in Nat, l \in Nat : o = EndOf(k) /\ l = Len(Bytes(block))
    BY <1>1, <2>1, Zenon
  <2>4. o + l = o + 1
    BY <1>1, <1>2, <2>3, Zenon
  <2>5. 0 + (n - 0) <= l - 1
    BY <2>1, <2>2, <2>3, Zenon
  <2> QED BY <2>4, <2>5
<1>5. Assembled(block, cut)[Len(block.lines)] = Clear({}, {})
  BY <1>1, <1>2, <1>3, <1>4, AssembledSteps, Zenon
<1>6. ~IsEvent(Clear({}, {}))
  BY DEF IsEvent, Clear
<1>7. cut \in SUBSET Highs(block)
  BY <1>2, CutsAreHighs, Zenon
<1>8. SaysWhatItSays(block) /\ WellFormed(block)
  BY <1>1, <1>2, Zenon
<1>9. block.dispatched = FALSE /\ Saying(block, cut) = Unheard
  <2>1. block.dispatched = IsEvent(Clear({}, {})) /\ (~block.dispatched => Saying(block, cut) = Unheard)
    BY <1>5, <1>7, <1>8, Zenon DEF SaysWhatItSays
  <2>2. block.dispatched \in BOOLEAN
    BY <1>8, Zenon DEF WellFormed
  <2> QED BY <1>6, <2>1, <2>2, Zenon
<1>10. IsHeard(Meant(k)) /\ (~Failing(k) => Meant(k + 1) = Plus(Meant(k), Saying(block, cut)))
       /\ (Failing(k) => Meant(k + 1) = Meant(k))
  BY <1>2, MeantStep, Zenon
<1>11. Plus(Meant(k), Unheard) = Meant(k)
  BY <1>10, PlusNothing
<1> QED BY <1>9, <1>10, <1>11, Zenon

\* The iterator has heard the block that it flushed.
LEMMA FlushedHeard ==
  ASSUME StreamInv, CutsInv, IteratorEnds, NEW k \in 0 .. Len(blocks), NEW j \in Nat,
         NEW h \in Nat, ReadingAt(k, j, h),
         k < Len(blocks), arrived = EndOf(k + 1) - 1 \/ arrived = EndOf(k + 1) - 2
  PROVE  heard' = Meant(k + 1)
<1>1. /\ ~HasLine
      /\ KnownAfter(k)
      /\ ~Failing(k)
      /\ blocks \in Streams
      /\ k \in Nat
      /\ IsDecoder(decoder)
      /\ buffer \in Seq(Tokens)
  BY DEF IteratorEnds, ReadingAt, CutsInv, StreamInv
<1>2. Agree(Flushed, Assembled(blocks[k + 1], CutsIn(k + 1))[Len(blocks[k + 1].lines)])
  BY <1>1, FlushedIsBlock
<1>3. IsDecoder(Flushed)
  BY <1>1, FieldType, Zenon DEF Flushed
<1>4. PICK d : d = Flushed
  OBVIOUS
<1>5. IsDecoder(d) /\ Agree(d, Assembled(blocks[k + 1], CutsIn(k + 1))[Len(blocks[k + 1].lines)])
  BY <1>2, <1>3, <1>4, Zenon
<1>6. /\ IsEvent(d) => AfterEvent(Known, d).heard = Meant(k + 1)
      /\ ~IsEvent(d) => heard = Meant(k + 1)
      /\ IsLastEvent(d) => IsEvent(d)
      /\ IsEvent(d) /\ ~IsLastEvent(d) => heard = Meant(k + 1)
  BY <1>1, <1>5, BlockKnown
<1>7. IF IsLastEvent(d) THEN heard' = AfterEvent(Known, d).heard ELSE heard' = heard
  <2>1. \/ IsLastEvent(d) /\ Dispatch(d)
        \/ ~IsLastEvent(d) /\ UNCHANGED results
    BY <1>4, Zenon DEF IteratorEnds
  <2>2. UNCHANGED results => heard' = heard
    BY DEF results
  <2>3. Dispatch(d) => heard' = AfterEvent(Known, d).heard
    BY Zenon DEF Dispatch
  <2> QED BY <2>1, <2>2, <2>3, Zenon
<1> QED BY <1>6, <1>7, Zenon

\* The iterator ends.
LEMMA IteratorEndsMeans ==
  ASSUME StreamInv, CutsInv, IteratorEnds, NEW k \in 0 .. Len(blocks), NEW j \in Nat,
         NEW h \in Nat, ReadingAt(k, j, h)
  PROVE  FlushedEnd'
<1>1. /\ reader = "iterator" /\ ~HasLine /\ UNCHANGED <<blocks, wire, reader, arrived, cuts>>
      /\ stage' = IF heard'.failed THEN "failed" ELSE "ended"
  BY DEF IteratorEnds, sources
<1>2. /\ k \in Nat /\ k <= Len(blocks) /\ EndOf(k) \in Nat /\ EndOf(k) <= h
      /\ k < Len(blocks) => arrived < EndOf(k + 1)
  BY <1>1, NoLineLeft
<1>3. /\ blocks \in Streams /\ wire = AllBytes(blocks) /\ Len(blocks) \in Nat /\ DOMAIN blocks = 1 .. Len(blocks)
      /\ arrived \in Nat /\ h <= arrived
  BY BlocksType, RestType DEF CutsInv, ReadingAt
<1>4. PICK n \in Nat, o \in Nat : n = Len(blocks) /\ o = EndOf(k) /\ o <= arrived /\ k <= n
  <2>1. EndOf(k) <= arrived
    BY <1>2, <1>3
  <2> QED BY <1>2, <1>3, <2>1, Zenon
<1>5. ASSUME NEW m \in DOMAIN blocks, arrived \in {EndOf(m) - 2, EndOf(m) - 1}
      PROVE  heard' = Meant(m)
  <2>1. m \in Nat /\ m <= Len(blocks) /\ m <= n
    BY <1>3, <1>4
  <2>2. PICK e \in Nat : e = EndOf(m) /\ arrived \in {e - 2, e - 1}
    <3>1. EndOf(m) \in Nat
      BY <1>3, <2>1, BlocksGrow
    <3> QED BY <1>5, <3>1
  <2>3. k < m
    <3>1. SUFFICES ASSUME m <= k PROVE FALSE
      BY <1>2, <2>1
    <3>2. EndOf(m) + (k - m) <= EndOf(k)
      BY <1>2, <1>3, <2>1, <3>1, BlocksGrow
    <3>3. e + (k - m) <= o
      BY <1>4, <2>2, <3>2, Zenon
    <3> QED BY <1>3, <1>4, <2>1, <2>2, <3>1, <3>3, SMTT(30)
  <2>4. k + 1 \in Nat /\ k + 1 <= m /\ k < n /\ k < Len(blocks)
    <3>1. k + 1 \in Nat /\ k + 1 <= m /\ k < n
      BY <1>2, <2>1, <2>3
    <3> QED BY <1>4, <3>1, Zenon
  <2>5. PICK f \in Nat : f = EndOf(k + 1) /\ f + (m - (k + 1)) <= e /\ arrived < f
    <3>1. EndOf(k + 1) \in Nat /\ EndOf(k + 1) + (m - (k + 1)) <= EndOf(m)
      BY <1>3, <2>1, <2>4, BlocksGrow
    <3> QED BY <1>2, <2>2, <2>4, <3>1, Zenon
  <2>6. CASE m = k + 1
    <3>1. arrived = f - 1 \/ arrived = f - 2
      <4>1. e = f
        BY <2>2, <2>5, <2>6, Zenon
      <4> QED BY <2>2, <4>1
    <3>2. arrived = EndOf(k + 1) - 1 \/ arrived = EndOf(k + 1) - 2
      BY <2>5, <3>1, Zenon
    <3> QED BY <2>4, <2>6, <3>2, FlushedHeard, Zenon
  <2>7. CASE m # k + 1
    <3>1. m = (k + 1) + 1 /\ arrived = f - 1 /\ e = f + 1
      <4>1. PICK a \in Nat : a = arrived
        BY <1>3
      <4>2. a \in {e - 2, e - 1} /\ a < f /\ f + (m - (k + 1)) <= e
        BY <2>2, <2>5, <4>1, Zenon
      <4>3. k \in Nat /\ m \in Nat /\ k + 1 <= m /\ m # k + 1
        BY <1>2, <2>1, <2>4, <2>7, Zenon
      <4>4. m = (k + 1) + 1 /\ a = f - 1 /\ e = f + 1
        BY <4>2, <4>3
      <4> QED BY <4>1, <4>4, Zenon
    <3>2. arrived = EndOf(k + 1) - 1 \/ arrived = EndOf(k + 1) - 2
      BY <2>5, <3>1, Zenon
    <3>3. heard' = Meant(k + 1)
      BY <2>4, <3>2, FlushedHeard, Zenon
    <3>4. k + 1 < Len(blocks)
      <4>1. k + 1 < n
        BY <1>2, <2>1, <2>4, <2>7
      <4> QED BY <1>4, <4>1, Zenon
    <3>5. EndOf((k + 1) + 1) = EndOf(k + 1) + 1
      BY <2>2, <2>5, <3>1, Zenon
    <3>6. Meant((k + 1) + 1) = Meant(k + 1)
      BY <1>3, <2>4, <3>4, <3>5, BlankBlock
    <3> QED BY <3>1, <3>3, <3>6, Zenon
  <2> QED BY <2>6, <2>7
<1>6. ASSUME NEW m \in DOMAIN blocks
      PROVE  Meant(m)' = Meant(m) /\ EndOf(m)' = EndOf(m)
  <2>1. m \in Nat /\ m <= Len(blocks)
    BY <1>3
  <2>2. \A i \in 0 .. EndOf(m) : i \in cuts <=> i \in cuts'
    BY <1>1
  <2>3. blocks' = blocks
    BY <1>1
  <2> QED BY <1>3, <2>1, <2>2, <2>3, MeantSame, BlocksSame
<1>7. ASSUME NEW m \in DOMAIN blocks', arrived' \in {EndOf(m)' - 2, EndOf(m)' - 1}
      PROVE  heard' = Meant(m)'
  <2>1. m \in DOMAIN blocks
    BY <1>1
  <2>2. arrived \in {EndOf(m) - 2, EndOf(m) - 1}
    <3>1. PICK x : x = EndOf(m) /\ x = EndOf(m)'
      BY <1>6, <2>1
    <3>2. arrived \in {x - 2, x - 1}
      <4>1. arrived' \in {x - 2, x - 1}
        BY <1>7, <3>1, Zenon
      <4> QED BY <1>1, <4>1
    <3> QED BY <3>1, <3>2, Zenon
  <2> QED BY <1>5, <1>6, <2>1, <2>2, Zenon
<1>8. reader' = "iterator" /\ stage' \in {"ended", "failed"}
  BY <1>1
<1> QED BY <1>7, <1>8, Zenon DEF FlushedEnd

-----------------------------------------------------------------------------
(* Every step keeps it.                                                    *)


\* Nothing happens.
LEMMA NothingHappens ==
  ASSUME MeaningInv, UNCHANGED vars, StreamInv', CutsInv'
  PROVE  MeaningInv'
<1>1. /\ blocks' = blocks /\ wire' = wire /\ reader' = reader /\ arrived' = arrived /\ buffer' = buffer
      /\ decoder' = decoder /\ sse' = sse /\ heard' = heard /\ started' = started /\ stage' = stage /\ cuts' = cuts
  BY DEF vars, sources, results
<1>2. /\ blocks \in Streams /\ wire = AllBytes(blocks)
      /\ Len(blocks) \in Nat /\ DOMAIN blocks = 1 .. Len(blocks)
  BY BlocksType DEF MeaningInv, CutsInv
<1>3. /\ \A k : EndOf(k)' = EndOf(k)
      /\ \A k : Failing(k)' = Failing(k)
      /\ \A k, j, h : At(k, j, h)' <=> At(k, j, h)
  BY <1>1, BlocksSame
<1>4. \A k \in 0 .. Len(blocks) : Meant(k)' = Meant(k)
  <2> SUFFICES ASSUME NEW k \in 0 .. Len(blocks) PROVE Meant(k)' = Meant(k)
    OBVIOUS
  <2>1. k \in Nat /\ k <= Len(blocks) /\ \A i \in 0 .. EndOf(k) : i \in cuts <=> i \in cuts'
    BY <1>1, <1>2
  <2>2. blocks' = blocks
    BY <1>1
  <2> QED BY <1>2, <2>1, <2>2, MeantSame
<1>5. \A k \in 0 .. Len(blocks) : KnownAfter(k) => KnownAfter(k)'
  <2> SUFFICES ASSUME NEW k \in 0 .. Len(blocks), KnownAfter(k) PROVE KnownAfter(k)'
    OBVIOUS
  <2>1. k \in Nat /\ k <= Len(blocks)
    BY <1>2
  <2>2. UNCHANGED <<blocks, cuts, heard, started, sse>>
    BY <1>1
  <2> QED BY <1>2, <2>1, <2>2, KnownStays
<1>6. CASE stage = "reading"
  <2>1. PICK k \in 0 .. Len(blocks), j \in Nat, h \in Nat : ReadingAt(k, j, h)
    BY <1>6, Zenon DEF MeaningInv
  <2>2. /\ At(k, j, h) /\ h <= arrived /\ buffer = Text(wire, cuts, h, arrived)
        /\ Agree(decoder, Assembling(k, j)) /\ KnownAfter(k) /\ ~Failing(k)
    BY <2>1, Zenon DEF ReadingAt
  <2>3. Assembling(k, j)' = Assembling(k, j)
    <3>1. PICK bs, c : bs = blocks /\ bs = blocks' /\ c = cuts /\ c = cuts'
      BY <1>1
    <3>2. CutsIn(k + 1) = {i \in Highs(bs[k + 1]) : EndOf((k + 1) - 1) + i \in c}
      BY <3>1, Zenon DEF CutsIn
    <3>3. CutsIn(k + 1)' = {i \in Highs(bs[k + 1]) : EndOf((k + 1) - 1)' + i \in c}
      BY <3>1, Zenon DEF CutsIn
    <3>4. CutsIn(k + 1)' = CutsIn(k + 1)
      BY <1>3, <3>2, <3>3, Zenon
    <3>5. PICK x : x = CutsIn(k + 1) /\ x = CutsIn(k + 1)'
      BY <3>4
    <3>6. Assembling(k, j) = IF k = Len(bs) THEN Clear({}, {}) ELSE Assembled(bs[k + 1], x)[j]
      BY <3>1, <3>5, Zenon DEF Assembling
    <3>7. Assembling(k, j)' = IF k = Len(bs) THEN Clear({}, {}) ELSE Assembled(bs[k + 1], x)[j]
      BY <3>1, <3>5, Zenon DEF Assembling
    <3> QED BY <3>6, <3>7, Zenon
  <2>4. Agree(decoder, Assembling(k, j))'
    BY <1>1, <2>2, <2>3, Zenon DEF Agree
  <2>5. KnownAfter(k)' /\ At(k, j, h)' /\ ~Failing(k)'
    BY <1>3, <1>5, <2>2, Zenon
  <2>6. (h <= arrived)' /\ (buffer = Text(wire, cuts, h, arrived))'
    BY <1>1, <2>2
  <2>7. ReadingAt(k, j, h)'
    BY <2>4, <2>5, <2>6, Zenon DEF ReadingAt
  <2>8. k \in 0 .. Len(blocks') /\ stage' = "reading"
    BY <1>1, <1>6
  <2> QED BY <2>7, <2>8, Zenon DEF MeaningInv
<1>7. CASE stage # "reading"
  <2>1. FlushedEnd => FlushedEnd'
    <3> SUFFICES ASSUME FlushedEnd PROVE FlushedEnd'
      OBVIOUS
    <3>1. reader' = "iterator" /\ stage' \in {"ended", "failed"}
      BY <1>1 DEF FlushedEnd
    <3>2. ASSUME NEW k \in DOMAIN blocks', arrived' \in {EndOf(k)' - 2, EndOf(k)' - 1}
          PROVE  heard' = Meant(k)'
      <4>1. k \in DOMAIN blocks /\ k \in 0 .. Len(blocks)
        BY <1>1, <1>2
      <4>2. PICK x : x = EndOf(k) /\ x = EndOf(k)'
        BY <1>3
      <4>3. arrived' \in {x - 2, x - 1}
        BY <3>2, <4>2, Zenon
      <4>4. arrived \in {x - 2, x - 1}
        BY <1>1, <4>3
      <4>5. arrived \in {EndOf(k) - 2, EndOf(k) - 1}
        BY <4>2, <4>4, Zenon
      <4>6. heard = Meant(k)
        BY <4>1, <4>5, Zenon DEF FlushedEnd
      <4> QED BY <1>1, <1>4, <4>1, <4>6, Zenon
    <3> QED BY <3>1, <3>2, Zenon DEF FlushedEnd
  <2>2. ASSUME NEW l \in 0 .. Len(blocks), FailedAt(l)
        PROVE  FailedAt(l)'
    <3>1. EndOf(l) <= arrived /\ heard = Meant(l) /\ Failing(l) /\ stage = "failed"
      BY <2>2, Zenon DEF FailedAt
    <3>2. Failing(l)' /\ stage' = "failed" /\ heard' = Meant(l)'
      BY <1>1, <1>3, <1>4, <3>1, Zenon
    <3>3. (EndOf(l) <= arrived)'
      <4>1. PICK x, a : x = EndOf(l) /\ x = EndOf(l)' /\ a = arrived /\ a = arrived'
        BY <1>1, <1>3
      <4> QED BY <3>1, <4>1, Zenon
    <3> QED BY <3>2, <3>3, Zenon DEF FailedAt
  <2>3. ASSUME NEW l \in 0 .. Len(blocks), EndedAt(l)
        PROVE  EndedAt(l)'
    <3>1. PICK x, y, a : /\ x = EndOf(l) /\ x = EndOf(l)' /\ y = EndOf(l + 1) /\ y = EndOf(l + 1)'
                         /\ a = arrived /\ a = arrived'
      BY <1>1, <1>3
    <3>2. x <= a /\ (l < Len(blocks) => a < y) /\ KnownAfter(l)
      BY <2>3, <3>1, Zenon DEF EndedAt
    <3>3. reader' = "client" /\ stage' = IF started' THEN "ended" ELSE "empty"
      BY <1>1, <2>3 DEF EndedAt
    <3>4. l < Len(blocks') => a < y
      BY <1>1, <3>2
    <3> QED BY <1>5, <3>1, <3>2, <3>3, <3>4, Zenon DEF EndedAt
  <2>4. FlushedEnd \/ \E l \in 0 .. Len(blocks) : FailedAt(l) \/ EndedAt(l)
    BY <1>7, Zenon DEF MeaningInv
  <2>5. FlushedEnd' \/ \E l \in 0 .. Len(blocks) : FailedAt(l)' \/ EndedAt(l)'
    BY <2>1, <2>2, <2>3, <2>4, Zenon
  <2>6. 0 .. Len(blocks') = 0 .. Len(blocks) /\ stage' # "reading"
    BY <1>1, <1>7
  <2> QED BY <2>5, <2>6, Zenon DEF MeaningInv
<1> QED BY <1>6, <1>7

\* Every step keeps what is heard what was meant.
LEMMA MeaningNext == MeaningInv /\ [Next]_vars => MeaningInv'
<1> SUFFICES ASSUME MeaningInv, [Next]_vars PROVE MeaningInv'
  OBVIOUS
<1>1. StreamInv /\ CutsInv
  BY Zenon DEF MeaningInv
<1>2. StreamInv' /\ CutsInv'
  BY <1>1, InvNext, NextKeepsCuts
<1>3. CASE UNCHANGED vars
  BY <1>2, <1>3, NothingHappens
<1>4. CASE Next
  <2>1. stage = "reading"
    BY <1>4 DEF Next, Arrive, Receive, FieldLine, BlankLine, ClientEnds, IteratorEnds
  <2>2. PICK k \in 0 .. Len(blocks), j \in Nat, h \in Nat : ReadingAt(k, j, h)
    BY <2>1, Zenon DEF MeaningInv
  <2>3. blocks' = blocks
    BY <1>4 DEF Next, Arrive, Receive, FieldLine, BlankLine, ClientEnds, IteratorEnds, sources
  <2>4. 0 .. Len(blocks') = 0 .. Len(blocks)
    BY <2>3
  <2>5. CASE \E n \in 1 .. MaxChunk : Arrive(n)
    <3>1. PICK n \in 1 .. MaxChunk : Arrive(n)
      BY <2>5
    <3>2. ReadingAt(k, j, h)'
      BY <1>1, <2>2, <3>1, ArriveReads
    <3>3. stage' = "reading"
      BY <2>1, <3>1 DEF Arrive, Receive
    <3> QED BY <1>2, <2>4, <3>2, <3>3, Zenon DEF MeaningInv
  <2>6. CASE FieldLine
    <3>1. \E i, g \in Nat : ReadingAt(k, i, g)'
      BY <1>1, <2>2, <2>6, FieldLineMeans
    <3>2. stage' = "reading"
      BY <2>1, <2>6 DEF FieldLine
    <3> QED BY <1>2, <2>4, <3>1, <3>2, Zenon DEF MeaningInv
  <2>7. CASE BlankLine
    <3>1. /\ k + 1 \in 0 .. Len(blocks)
          /\ stage' = "reading" => \E e \in Nat : ReadingAt(k + 1, 0, e)'
          /\ stage' # "reading" => FailedAt(k + 1)'
      BY <1>1, <1>2, <2>2, <2>7, BlankLineMeans
    <3>2. 0 \in Nat
      OBVIOUS
    <3>3. PICK l \in 0 .. Len(blocks) : l = k + 1
      BY <3>1
    <3>4. /\ stage' = "reading" => \E e \in Nat : ReadingAt(l, 0, e)'
          /\ stage' # "reading" => FailedAt(l)'
      BY <3>1, <3>3, Zenon
    <3> QED BY <1>2, <2>4, <3>2, <3>4, Zenon DEF MeaningInv
  <2>8. CASE ClientEnds
    <3>1. EndedAt(k)'
      BY <1>1, <2>2, <2>8, ClientEndsMeans
    <3>2. stage' # "reading"
      BY <2>8 DEF ClientEnds
    <3> QED BY <1>2, <2>4, <3>1, <3>2, Zenon DEF MeaningInv
  <2>9. CASE IteratorEnds
    <3>1. FlushedEnd'
      BY <1>1, <2>2, <2>9, IteratorEndsMeans
    <3>2. stage' # "reading"
      BY <2>9 DEF IteratorEnds
    <3> QED BY <1>2, <3>1, <3>2, Zenon DEF MeaningInv
  <2> QED BY <1>4, <2>5, <2>6, <2>7, <2>8, <2>9 DEF Next
<1> QED BY <1>3, <1>4

\* What the battle route has heard is, at every moment, what the blocks that have been
\* handled mean, and the decoder has of the next one what its lines give alone, however
\* client.py:280-293 is given the stream in chunks.
THEOREM MeaningInvariant == Spec => []MeaningInv
BY MeaningInit, MeaningNext, PTL DEF Spec

-----------------------------------------------------------------------------
(* What it says of the properties.                                         *)


\* Some number of whole blocks has arrived.
LEMMA WholeExists ==
  ASSUME StreamInv, CutsInv
  PROVE  \E k \in 0 .. Len(blocks) : Whole = k /\ k \in Nat /\ k <= Len(blocks) /\ EndOf(k) \in Nat
                                     /\ EndOf(k) <= arrived /\ (k < Len(blocks) => arrived < EndOf(k + 1))
<1>1. blocks \in Streams /\ wire = AllBytes(blocks) /\ arrived \in Nat /\ Len(blocks) \in Nat
  BY BlocksType, RestType DEF CutsInv
<1>2. PICK n \in Nat, a \in Nat : n = Len(blocks) /\ a = arrived
  BY <1>1, Zenon
<1>3. \A k \in Nat : k <= n => EndOf(k) \in Nat
  BY <1>1, <1>2, BlocksGrow
<1> DEFINE T == {i \in Nat : i \in 1 .. n /\ a < EndOf(i)}
<1>4. ASSUME NEW k \in Nat, k <= n, EndOf(k) <= a, k < n => a < EndOf(k + 1)
      PROVE  \E l \in 0 .. Len(blocks) : Whole = l /\ l \in Nat /\ l <= Len(blocks) /\ EndOf(l) \in Nat
                                         /\ EndOf(l) <= arrived /\ (l < Len(blocks) => arrived < EndOf(l + 1))
  <2>1. k <= Len(blocks) /\ EndOf(k) <= arrived /\ (k < Len(blocks) => arrived < EndOf(k + 1))
    BY <1>2, <1>4, Zenon
  <2>2. Whole = k
    BY <1>1, <2>1, WholeIs
  <2>3. k \in 0 .. n /\ EndOf(k) \in Nat
    BY <1>3, <1>4
  <2>4. k \in 0 .. Len(blocks)
    BY <1>2, <2>3, Zenon
  <2> QED BY <2>1, <2>2, <2>3, <2>4, Zenon
<1>5. CASE T = {}
  <2>1. EndOf(n) <= a
    <3>1. CASE n = 0
      <4>1. EndOf(0) = 0
        BY <1>1, BlocksBounds
      <4> QED BY <3>1, <4>1
    <3>2. CASE n # 0
      <4>1. n \in 1 .. n /\ EndOf(n) \in Nat
        BY <1>3, <3>2
      <4> QED BY <1>5, <4>1
    <3> QED BY <3>1, <3>2
  <2>2. n <= n /\ ~(n < n)
    OBVIOUS
  <2> HIDE DEF T
  <2> QED BY <1>4, <2>1, <2>2
<1>6. CASE T # {}
  <2>1. PICK x \in T : \A y \in T : x <= y
    <3>1. T \subseteq Nat
      OBVIOUS
    <3> HIDE DEF T
    <3> QED BY <1>6, <3>1, LeastNat
  <2>2. x \in 1 .. n /\ a < EndOf(x)
    BY <2>1
  <2>3. PICK k \in Nat : k + 1 = x /\ k < n /\ k <= n
    <3>1. x - 1 \in Nat /\ (x - 1) + 1 = x /\ x - 1 < n /\ x - 1 <= n
      BY <2>2
    <3> QED BY <3>1
  <2>4. EndOf(k) <= a
    <3>1. CASE k = 0
      <4>1. EndOf(0) = 0
        BY <1>1, BlocksBounds
      <4> QED BY <3>1, <4>1
    <3>2. CASE k # 0
      <4>1. k \notin T
        <5>1. ~(x <= k)
          BY <2>3
        <5> HIDE DEF T
        <5> QED BY <2>1, <5>1
      <4>2. k \in 1 .. n /\ EndOf(k) \in Nat
        BY <1>3, <2>3, <3>2
      <4> QED BY <4>1, <4>2
    <3> QED BY <3>1, <3>2
  <2>5. a < EndOf(k + 1)
    BY <2>2, <2>3, Zenon
  <2> HIDE DEF T
  <2> QED BY <1>4, <2>3, <2>4, <2>5
<1> QED BY <1>5, <1>6

\* What the invariant says while the stream is read, and no line is left.
LEMMA WholeRead ==
  ASSUME MeaningInv, stage = "reading", ~HasLine
  PROVE  \E k \in 0 .. Len(blocks) : Whole = k /\ k \in Nat /\ KnownAfter(k)
<1>1. StreamInv /\ CutsInv
  BY Zenon DEF MeaningInv
<1>2. PICK k \in 0 .. Len(blocks), j \in Nat, h \in Nat : ReadingAt(k, j, h)
  BY Zenon DEF MeaningInv
<1>3. /\ k \in Nat /\ k <= Len(blocks) /\ EndOf(k) \in Nat /\ EndOf(k) <= h
      /\ k < Len(blocks) => arrived < EndOf(k + 1)
  BY <1>1, <1>2, NoLineLeft
<1>4. h <= arrived /\ KnownAfter(k)
  BY <1>2, Zenon DEF ReadingAt
<1>5. blocks \in Streams /\ arrived \in Nat
  BY <1>1, RestType DEF CutsInv
<1>6. EndOf(k) <= arrived
  BY <1>3, <1>4, <1>5
<1>7. Whole = k
  BY <1>3, <1>5, <1>6, WholeIs
<1> QED BY <1>3, <1>4, <1>7

\* ... when the client has ended ...
LEMMA WholeEnded ==
  ASSUME StreamInv, CutsInv, NEW l \in 0 .. Len(blocks), EndedAt(l)
  PROVE  Whole = l
<1>1. EndOf(l) <= arrived /\ (l < Len(blocks) => arrived < EndOf(l + 1))
  BY Zenon DEF EndedAt
<1>2. blocks \in Streams /\ arrived \in Nat /\ l \in Nat /\ l <= Len(blocks)
  BY BlocksType, RestType DEF CutsInv
<1> QED BY <1>1, <1>2, WholeIs

\* ... and after an error, of what is sent later.
LEMMA MeantFailed ==
  ASSUME StreamInv, CutsInv, NEW l \in 0 .. Len(blocks), FailedAt(l),
         NEW k \in Nat, k <= Len(blocks), k < Len(blocks) => arrived < EndOf(k + 1)
  PROVE  heard = Meant(k)
<1>1. EndOf(l) <= arrived /\ heard = Meant(l) /\ Failing(l)
  BY Zenon DEF FailedAt
<1>2. blocks \in Streams /\ arrived \in Nat /\ l \in Nat /\ l <= Len(blocks) /\ Len(blocks) \in Nat
  BY BlocksType, RestType DEF CutsInv
<1>3. l <= k
  <2>1. SUFFICES ASSUME k < l PROVE FALSE
    BY <1>2
  <2>2. k + 1 \in Nat /\ k + 1 <= l /\ k < Len(blocks)
    BY <1>2, <2>1
  <2>3. EndOf(k + 1) \in Nat /\ EndOf(l) \in Nat /\ EndOf(k + 1) + (l - (k + 1)) <= EndOf(l)
    BY <1>2, <2>2, BlocksGrow
  <2> QED BY <1>1, <1>2, <2>2, <2>3
<1>4. Meant(k) = Meant(l)
  BY <1>1, <1>2, <1>3, MeantAfterError
<1> QED BY <1>1, <1>4

\* What the invariant says of what is heard is what HeardIsMeant asks.
LEMMA MeaningIsHeard == MeaningInv => HeardIsMeant
<1> SUFFICES ASSUME MeaningInv, Settled, reader = "client" \/ stage = "reading" PROVE heard = Meant(Whole)
  BY DEF HeardIsMeant
<1>1. StreamInv /\ CutsInv
  BY Zenon DEF MeaningInv
<1>2. CASE stage = "reading"
  <2>1. ~HasLine
    BY <1>2 DEF Settled
  <2>2. PICK k \in 0 .. Len(blocks) : Whole = k /\ KnownAfter(k)
    BY <1>2, <2>1, WholeRead
  <2> QED BY <2>2, Zenon DEF KnownAfter
<1>3. CASE stage # "reading"
  <2>1. ~FlushedEnd
    BY <1>3 DEF FlushedEnd
  <2>2. PICK l \in 0 .. Len(blocks) : FailedAt(l) \/ EndedAt(l)
    BY <1>3, <2>1, Zenon DEF MeaningInv
  <2>3. CASE FailedAt(l)
    <3>1. PICK k \in 0 .. Len(blocks) : /\ Whole = k /\ k \in Nat /\ k <= Len(blocks)
                                        /\ k < Len(blocks) => arrived < EndOf(k + 1)
      BY <1>1, WholeExists, Zenon
    <3>2. heard = Meant(k)
      BY <1>1, <2>3, <3>1, MeantFailed
    <3> QED BY <3>1, <3>2, Zenon
  <2>4. CASE EndedAt(l)
    <3>1. Whole = l
      BY <1>1, <2>4, WholeEnded
    <3>2. heard = Meant(l)
      BY <2>4, Zenon DEF EndedAt, KnownAfter
    <3> QED BY <3>1, <3>2, Zenon
  <2> QED BY <2>2, <2>3, <2>4
<1> QED BY <1>2, <1>3

\* What ends before a block has a newline left ends before the next.
LEMMA EarlierEnd ==
  ASSUME NEW x \in Nat, NEW y \in Nat, NEW a \in Nat, NEW k \in Nat,
         x + ((k + 1) - k) <= y, a = x - 2 \/ a = x - 1
  PROVE  a < y
<1>1. (k + 1) - k = 1
  OBVIOUS
<1>2. x + 1 <= y
  BY <1>1
<1> QED BY <1>2

\* ... and NothingLostAtEnd; the invariant says at which block the reading ended.
LEMMA MeaningIsKept == MeaningInv => NothingLostAtEnd
<1> SUFFICES ASSUME MeaningInv PROVE NothingLostAtEnd
  OBVIOUS
<1>1. StreamInv /\ CutsInv
  BY Zenon DEF MeaningInv
<1>2. CASE stage = "reading"
  BY <1>2 DEF NothingLostAtEnd
<1>3. CASE FlushedEnd
  BY <1>3 DEF NothingLostAtEnd, FlushedEnd
<1>4. ASSUME NEW l \in 0 .. Len(blocks), FailedAt(l)
      PROVE  NothingLostAtEnd
  <2>1. stage = "failed"
    BY <1>4 DEF FailedAt
  <2>2. ASSUME NEW k \in DOMAIN blocks, arrived \in {EndOf(k) - 2, EndOf(k) - 1}
        PROVE  heard = Meant(k)
    <3>1. blocks \in Streams /\ arrived \in Nat /\ Len(blocks) \in Nat /\ k \in 1 .. Len(blocks)
      BY <1>1, BlocksType, RestType DEF CutsInv
    <3>2. k \in Nat /\ k <= Len(blocks) /\ EndOf(k) \in Nat
      BY <3>1, BlocksGrow
    <3>3. k < Len(blocks) => arrived < EndOf(k + 1)
      <4>1. SUFFICES ASSUME k < Len(blocks) PROVE arrived < EndOf(k + 1)
        OBVIOUS
      <4>2. k + 1 \in Nat /\ k + 1 <= Len(blocks) /\ k <= k + 1
        BY <3>1, <4>1
      <4>3. EndOf(k + 1) \in Nat /\ EndOf(k) + ((k + 1) - k) <= EndOf(k + 1)
        BY <3>1, <3>2, <4>2, BlocksGrow
      <4>4. arrived = EndOf(k) - 2 \/ arrived = EndOf(k) - 1
        BY <2>2
      <4>5. PICK x \in Nat, y \in Nat, a \in Nat :
              x = EndOf(k) /\ y = EndOf(k + 1) /\ a = arrived
        BY <3>1, <3>2, <4>3, Zenon
      <4>6. x + ((k + 1) - k) <= y /\ (a = x - 2 \/ a = x - 1)
        BY <4>3, <4>4, <4>5, Zenon
      <4>7. a < y
        BY <3>2, <4>6, EarlierEnd, Zenon
      <4> QED BY <4>5, <4>7, Zenon
    <3> QED BY <1>1, <1>4, <3>2, <3>3, MeantFailed
  <2> QED BY <2>1, <2>2 DEF NothingLostAtEnd
<1>5. ASSUME NEW l \in 0 .. Len(blocks), EndedAt(l)
      PROVE  NothingLostAtEnd
  <2>1. Whole = l
    BY <1>1, <1>5, WholeEnded
  <2>2. /\ started <=> \E i \in 1 .. l : ~blocks[i].silent
        /\ reader = "client" /\ stage = IF started THEN "ended" ELSE "empty"
    BY <1>5, Zenon DEF EndedAt, KnownAfter
  <2>3. reader # "iterator" /\ (stage = "empty" => ~started) /\ (stage = "ended" => started)
    BY <2>2
  <2> QED BY <2>1, <2>2, <2>3, Zenon DEF NothingLostAtEnd
<1>6. CASE stage # "reading"
  <2>1. FlushedEnd \/ \E l \in 0 .. Len(blocks) : FailedAt(l) \/ EndedAt(l)
    BY <1>6, Zenon DEF MeaningInv
  <2> QED BY <1>3, <1>4, <1>5, <2>1, Zenon
<1> QED BY <1>2, <1>6

\* ... and FieldsAreTheirBlocks, of the last block that is an event.
LEMMA MeaningHasFields == MeaningInv => FieldsAreTheirBlocks
<1> DEFINE events == {k \in 1 .. Whole : blocks[k].dispatched}
           last   == CHOOSE k \in events : \A j \in events : j <= k
<1> SUFFICES ASSUME MeaningInv, ~HasLine, stage = "reading", events # {}
             PROVE  /\ sse.event = blocks[last].event
                    /\ sse.id = blocks[last].id
                    /\ sse.retry = blocks[last].retry
  BY Zenon DEF FieldsAreTheirBlocks
<1>1. PICK k \in 0 .. Len(blocks) : Whole = k /\ k \in Nat /\ KnownAfter(k)
  BY WholeRead
<1>2. events \subseteq 1 .. k /\ \A i \in 1 .. k : i \in events <=> blocks[i].dispatched
  BY <1>1
<1> HIDE DEF events
<1>3. \E l \in events : \A i \in events : i <= l
  <2> DEFINE T == {x \in Nat : x <= k /\ k - x \in events}
  <2>1. T \subseteq Nat /\ T # {}
    <3>1. PICK i \in events : TRUE
      OBVIOUS
    <3>2. k - i \in Nat /\ k - i <= k /\ k - (k - i) = i
      BY <1>1, <1>2, <3>1
    <3> QED BY <3>1, <3>2
  <2>2. PICK x \in T : \A y \in T : x <= y
    <3> HIDE DEF T
    <3> QED BY <2>1, LeastNat
  <2>3. k - x \in events
    BY <2>2
  <2>4. ASSUME NEW i \in events PROVE i <= k - x
    <3>1. k - i \in Nat /\ k - i <= k /\ k - (k - i) = i
      BY <1>1, <1>2
    <3>2. k - i \in T
      BY <3>1
    <3>3. x <= k - i
      BY <2>2, <3>2
    <3> QED BY <1>1, <1>2, <2>2, <3>1, <3>3
  <2> QED BY <2>3, <2>4
<1>4. last \in events /\ \A i \in events : i <= last
  BY <1>3, Zenon
<1> HIDE DEF last
<1>5. last \in 1 .. k /\ blocks[last].dispatched
  BY <1>2, <1>4
<1>6. \A i \in last + 1 .. k : ~blocks[i].dispatched
  <2> SUFFICES ASSUME NEW i \in last + 1 .. k, blocks[i].dispatched PROVE FALSE
    OBVIOUS
  <2>1. i \in 1 .. k /\ ~(i <= last)
    BY <1>5
  <2> QED BY <1>2, <1>4, <2>1
<1> QED BY <1>1, <1>5, <1>6, Zenon DEF KnownAfter

\* The text on both sides, the models and the error that a route has heard are those that
\* the blocks mean which have arrived whole (sse_parser.py:53-122, 151-275; battle.py:31-46).
THEOREM StreamIsHeardAsMeant == Spec => []HeardIsMeant
BY MeaningInvariant, MeaningIsHeard, PTL

\* When the stream has ended, what a last block without its blank line says was heard by
\* the iterator (sse_parser.py:65-71), and the client says "empty" only of a stream that
\* has said nothing (client.py:288-293).
THEOREM NothingIsLost == Spec => []NothingLostAtEnd
BY MeaningInvariant, MeaningIsKept, PTL

\* The event type, the id and the retry that the last event carries are its own block's,
\* not those of a block before it (sse_parser.py:99-121).
THEOREM FieldsBelong == Spec => []FieldsAreTheirBlocks
BY MeaningInvariant, MeaningHasFields, PTL
=============================================================================
