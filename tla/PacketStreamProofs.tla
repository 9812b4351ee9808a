------------------------- MODULE PacketStreamProofs -------------------------
(***************************************************************************)
(* Proofs about PacketStream: a packet of every class comes out of its     *)
(* bytes as it went in, receivers that follow the sizes stay in step with  *)
(* their senders, answers reach the calls they belong to, clients'         *)
(* packets are torn only by their length, and calls do not stand still.    *)
(*                                                                         *)
(* The invariant IInv relates the buffers of a connection to the packets   *)
(* under way (Streams), and the packets to what clients and Barista have   *)
(* noted about calls and requests (Logic).                                 *)
(***************************************************************************)
EXTENDS PacketStream, SequenceTheorems, FiniteSetTheorems, TLAPS

\* The loop that joins sequences, of which LoopTurns says that it exists.
JoinTurn(a, b, c, q, s) == q \o s

\* The induction of FoldInduction over that loop.
Join == INSTANCE FoldInduction WITH Op <- JoinTurn

-------------------------------------------------------------------------------
(* Numbers and their bytes *)

\* Dividing twice.
LEMMA DivDiv ==
    ASSUME NEW a \in Nat, NEW R \in Nat, R > 0, NEW S \in Nat, S > 0
    PROVE  a \div (R * S) = (a \div R) \div S
<1> DEFINE q == a \div R
           r == a % R
           q2 == q \div S
           r2 == q % S
<1>1. q \in Nat /\ r \in Nat /\ r < R /\ a = R * q + r
  OBVIOUS
<1> HIDE DEF q, r
<1>2. q2 \in Nat /\ r2 \in Nat /\ r2 < S /\ q = S * q2 + r2
  BY <1>1
<1> HIDE DEF q2, r2
<1> DEFINE T == R * S
           u == R * r2 + r
<1>3. a = T * q2 + u
  BY <1>1, <1>2
<1>4. u \in Nat /\ T \in Nat
  BY <1>1, <1>2
<1>5. u < T
  <2>1. r2 + 1 <= S
    BY <1>2
  <2>2. R * (r2 + 1) <= R * S
    BY <2>1, <1>2
  <2>3. R * (r2 + 1) = R * r2 + R
    BY <1>2
  <2>4. R * r2 \in Nat
    BY <1>2
  <2> QED BY <1>1, <2>2, <2>3, <2>4
<1> HIDE DEF u, T
<1>6. a \div T = q2
  BY <1>2, <1>3, <1>4, <1>5
<1> QED BY <1>6 DEF T, q2, q

\* Three sequences are joined in any order. The two facts about joined sequences
\* have names, so that a step that cites them is not about sequences any more.
AnyOrder(s, t, u) == (s \o t) \o u = s \o (t \o u)

LEMMA JoinedInAnyOrder ==
    ASSUME NEW S, NEW s \in Seq(S), NEW t \in Seq(S), NEW u \in Seq(S)
    PROVE  AnyOrder(s, t, u)
  BY ConcatAssociative, SMT DEF AnyOrder

\* The elements of one sequence come before those of the other.
Followed(S, s, t) ==
    /\ s \o t \in Seq(S) /\ Len(s \o t) = Len(s) + Len(t)
    /\ \A i \in 1 .. Len(s) + Len(t) :
          (s \o t)[i] = IF i <= Len(s) THEN s[i] ELSE t[i - Len(s)]

LEMMA JoinedFollowed ==
    ASSUME NEW S, NEW s \in Seq(S), NEW t \in Seq(S)
    PROVE  Followed(S, s, t)
  BY ConcatProperties, SMT DEF Followed

\* A word has at least 256 values, half of them negative when it is signed.
LEMMA ModulusBounds ==
    /\ Radix \in Nat /\ Radix > 3
    /\ Modulus \in Nat /\ Modulus >= 256
    /\ Modulus = 2 * (Modulus \div 2)
    /\ Modulus \div 2 \in Nat
<1>1. Radix \in Nat /\ Radix > 3 /\ Radix = 2 * (Radix \div 2) /\ Radix \div 2 \in Nat
  BY RadixAssumption
<1> DEFINE R == Radix
           h == Radix \div 2
           a == R * R
           b == a * R
<1>2. a \in Nat /\ a >= 16
  BY <1>1
<1>3. b \in Nat /\ b >= 64
  <2> HIDE DEF a
  <2> QED BY <1>1, <1>2
<1> HIDE DEF b
<1>4. b * R \in Nat /\ b * R >= 256 /\ b * R = 2 * (b * h)
  <2> HIDE DEF h
  <2>1. b * R = 2 * (b * h)
    BY <1>1, <1>3 DEF h
  <2> QED BY <1>1, <1>3, <2>1
<1>5. b * h \in Nat
  BY <1>1, <1>3
<1>6. Modulus = b * R
  BY <1>1 DEF Modulus, b
<1> QED BY <1>1, <1>4, <1>5, <1>6

\* The four bytes of a number make up the number, modulo the range of a word.
LEMMA BytesMakeWord ==
    ASSUME NEW v \in Int
    PROVE  /\ Bytes(v) \in Seq(Nat) /\ Len(Bytes(v)) = 4
           /\ Unsigned(v) \in Word32
           /\ Bytes(v)[1] + Radix * (Bytes(v)[2] + Radix * (Bytes(v)[3]
                + Radix * Bytes(v)[4])) = Unsigned(v)
<1> DEFINE w == Unsigned(v)
           R == Radix
           d1 == w \div R
           d2 == d1 \div R
           d3 == d2 \div R
<1>1. R \in Nat /\ R > 0 /\ w \in Word32 /\ w \in Nat
  BY ModulusBounds DEF Unsigned, Word32
<1> HIDE DEF w, R
<1>2. d1 \in Nat /\ w % R \in Nat /\ w = (w % R) + R * d1
  BY <1>1
<1> HIDE DEF d1
<1>3. d2 \in Nat /\ d1 % R \in Nat /\ d1 = (d1 % R) + R * d2
  BY <1>1, <1>2
<1> HIDE DEF d2
<1>4. d3 \in Nat /\ d2 % R \in Nat /\ d2 = (d2 % R) + R * d3
  BY <1>1, <1>3
<1> HIDE DEF d3
<1>5. R * R \in Nat /\ R * R > 0
  BY <1>1
<1>6. w \div (R * R) = d2
  BY <1>1, DivDiv DEF d1, d2
<1>7. w \div ((R * R) * R) = d3
  BY <1>1, <1>5, <1>6, DivDiv DEF d3
<1>8. Bytes(v) = <<w % R, d1 % R, d2 % R, d3>>
  BY <1>6, <1>7 DEF Bytes, w, R, d1
<1>9. (w % R) + R * ((d1 % R) + R * ((d2 % R) + R * d3)) = w
  BY <1>2, <1>3, <1>4
<1>10. Bytes(v) \in Seq(Nat) /\ Len(Bytes(v)) = 4
  BY <1>2, <1>3, <1>4, <1>8
<1>11. /\ Bytes(v)[1] = w % R /\ Bytes(v)[2] = d1 % R /\ Bytes(v)[3] = d2 % R
       /\ Bytes(v)[4] = d3
  BY <1>8
<1> QED BY <1>1, <1>9, <1>10, <1>11 DEF w, R

\* A number that fits comes back.
LEMMA WordsFit ==
    /\ \A v \in Word32 : v \in Int /\ Unsigned(v) = v
    /\ \A v \in Int32 : v \in Int /\ Signed(Unsigned(v)) = v
<1> DEFINE M == Modulus
           h == Modulus \div 2
<1>1. M \in Nat /\ M >= 256 /\ M = 2 * h /\ h \in Nat
  BY ModulusBounds
<1> HIDE DEF M, h
<1>2. ASSUME NEW v \in 0 .. M - 1 PROVE v % M = v
  BY <1>1
<1>3. ASSUME NEW v \in Int, v < 0, -h <= v PROVE v % M = v + M
  <2> DEFINE q == v \div M
             r == v % M
  <2>1. q \in Int /\ r \in Nat /\ r < M /\ v = M * q + r
    BY <1>1
  <2> HIDE DEF q, r
  <2>2. q < 0
    <3> SUFFICES ASSUME q >= 0 PROVE FALSE
      BY <2>1
    <3>1. M * q >= 0
      BY <1>1, <2>1
    <3> QED BY <1>1, <1>3, <2>1, <3>1
  <2>3. q > -2
    <3> SUFFICES ASSUME q <= -2 PROVE FALSE
      BY <2>1
    <3>1. M * q <= M * (-2)
      BY <1>1, <2>1
    <3> QED BY <1>1, <1>3, <2>1, <3>1
  <2>4. q = -1
    BY <2>1, <2>2, <2>3
  <2> QED BY <1>1, <2>1, <2>4 DEF r
<1>4. ASSUME NEW v \in Int32 PROVE v \in Int /\ Signed(Unsigned(v)) = v
  <2>1. v \in Int /\ -h <= v /\ v < h
    BY <1>1 DEF Int32, h
  <2>2. CASE v < 0
    <3>1. Unsigned(v) = v + M
      BY <1>3, <2>1, <2>2 DEF Unsigned, M
    <3>2. ~(v + M < h)
      BY <1>1, <2>1
    <3> QED BY <1>1, <2>1, <3>1, <3>2 DEF Signed, M, h
  <2>3. CASE v >= 0
    <3>1. v \in 0 .. M - 1
      BY <1>1, <2>1, <2>3
    <3>2. Unsigned(v) = v
      BY <1>2, <3>1 DEF Unsigned, M
    <3> QED BY <2>1, <3>2 DEF Signed, h
  <2> QED BY <2>1, <2>2, <2>3
<1>5. ASSUME NEW v \in Word32 PROVE v \in Int /\ Unsigned(v) = v
  <2>1. v \in 0 .. M - 1
    BY DEF Word32, M
  <2> QED BY <1>1, <1>2, <2>1 DEF Unsigned, M
<1> QED BY <1>4, <1>5

-------------------------------------------------------------------------------
(* Joining sequences *)

\* h[i] is the first i sequences of s joined.
Joins(h, s) == /\ h[0] = <<>>
               /\ \A i \in 1 .. Len(s) : h[i] = h[i - 1] \o s[i]

\* What FlattenSeq computes.
LEMMA FlattenJoins ==
    ASSUME NEW S, NEW s \in Seq(Seq(S))
    PROVE  \E h : /\ Joins(h, s) /\ h[Len(s)] = FlattenSeq(s)
                  /\ \A i \in 0 .. Len(s) : h[i] \in Seq(S)
<1> DEFINE n == Len(s)
           Eq(f) == f = [i \in 1 .. n |-> IF i = 1 THEN s[i] ELSE f[i - 1] \o s[i]]
<1>1. n \in Nat /\ DOMAIN s = 1 .. n /\ \A i \in 1 .. n : s[i] \in Seq(S)
  OBVIOUS
<1>2. CASE n = 0
  <2>1. FlattenSeq(s) = <<>>
    BY <1>2 DEF FlattenSeq
  <2> DEFINE h == [i \in {0} |-> <<>>]
  <2>2. h[0] = <<>> /\ <<>> \in Seq(S)
    OBVIOUS
  <2> HIDE DEF h
  <2>3. Joins(h, s) /\ h[Len(s)] = FlattenSeq(s) /\ \A i \in 0 .. Len(s) : h[i] \in Seq(S)
    <3>1. Joins(h, s)
      BY <1>2, <2>2 DEF Joins
    <3>2. \A i \in 0 .. Len(s) : i = 0
      BY <1>2
    <3> QED BY <1>2, <2>1, <2>2, <3>1, <3>2
  <2> QED BY <2>3
<1>3. CASE n # 0
  <2>1. PICK g : Join!Turns(g, 0, 0, 0, <<>>, n, s)
    BY <1>1, Join!LoopTurns
  <2>2. g[0] = <<>> /\ \A i \in 1 .. n : g[i] = g[i - 1] \o s[i]
    BY <2>1 DEF Join!Turns, JoinTurn
  <2> DEFINE e == [i \in 1 .. n |-> g[i]]
  <2>3. Eq(e)
    <3>1. ASSUME NEW i \in 1 .. n
          PROVE  e[i] = IF i = 1 THEN s[i] ELSE e[i - 1] \o s[i]
      <4>1. CASE i = 1
        <5>1. e[i] = g[0] \o s[i] /\ s[i] \in Seq(S)
          <6>1. g[i] = g[i - 1] \o s[i]
            BY <2>2
          <6>2. i - 1 = 0
            BY <4>1
          <6>3. e[i] = g[i]
            OBVIOUS
          <6> QED BY <1>1, <6>1, <6>2, <6>3
        <5> QED BY <2>2, <4>1, <5>1, ConcatEmptySeq
      <4>2. CASE i # 1
        <5>1. i - 1 \in 1 .. n
          BY <1>1, <4>2
        <5> QED BY <2>2, <4>2, <5>1
      <4> QED BY <4>1, <4>2
    <3>2. e = [i \in 1 .. n |-> e[i]]
      OBVIOUS
    <3> HIDE DEF e
    <3> QED BY <3>1, <3>2
  <2> DEFINE f == CHOOSE x : Eq(x)
  <2>4. Eq(f)
    <3> HIDE DEF e
    <3> QED BY <2>3
  <2>5. FlattenSeq(s) = f[n]
    BY <1>3 DEF FlattenSeq
  <2> DEFINE h == [i \in 0 .. n |-> IF i = 0 THEN <<>> ELSE f[i]]
  <2> HIDE DEF f
  <2>6. h[0] = <<>> /\ h[n] = f[n]
    BY <1>1, <1>3
  <2>7. ASSUME NEW i \in 1 .. n PROVE h[i] = h[i - 1] \o s[i]
    <3>1. f[i] = IF i = 1 THEN s[i] ELSE f[i - 1] \o s[i]
      BY <2>4
    <3>2. i \in 0 .. n /\ i - 1 \in 0 .. n /\ (i # 1 => i - 1 # 0) /\ i # 0
      BY <1>1
    <3>3. CASE i = 1
      <4>1. h[i] = s[i] /\ h[i - 1] = <<>>
        BY <3>1, <3>2, <3>3
      <4> QED BY <1>1, <4>1, ConcatEmptySeq
    <3>4. CASE i # 1
      BY <3>1, <3>2, <3>4
    <3> QED BY <3>3, <3>4
  <2> HIDE DEF h
  <2> DEFINE T == {i \in Nat : i <= n => h[i] \in Seq(S)}
  <2>8. 0 \in T
    <3>1. <<>> \in Seq(S)
      OBVIOUS
    <3> QED BY <2>6, <3>1
  <2>9. ASSUME NEW i \in Nat, i \in T PROVE i + 1 \in T
    <3> SUFFICES ASSUME i + 1 <= n PROVE h[i + 1] \in Seq(S)
      OBVIOUS
    <3>1. i + 1 \in 1 .. n /\ (i + 1) - 1 = i /\ i <= n
      BY <1>1
    <3>2. h[i] \in Seq(S)
      BY <2>9, <3>1
    <3>3. h[i + 1] = h[i] \o s[i + 1] /\ s[i + 1] \in Seq(S)
      BY <1>1, <2>7, <3>1
    <3> QED BY <3>2, <3>3, ConcatProperties
  <2> HIDE DEF T
  <2>10. Nat \subseteq T
    BY <2>8, <2>9, Join!NatSet
  <2>11. \A i \in 0 .. n : h[i] \in Seq(S)
    BY <1>1, <2>10 DEF T
  <2>12. Joins(h, s)
    BY <2>6, <2>7 DEF Joins
  <2> QED BY <2>5, <2>6, <2>11, <2>12
<1> QED BY <1>2, <1>3

\* The sequences s and t begin with the same n elements.
SamePrefix(n, s, t) ==
    /\ n \in Nat /\ Len(s) \in Nat /\ Len(t) \in Nat
    /\ n <= Len(s) /\ n <= Len(t)
    /\ \A i \in 1 .. n : s[i] = t[i]

\* It is the only one.
LEMMA JoinsUnique ==
    ASSUME NEW n, NEW s, NEW t, NEW g, NEW h,
           SamePrefix(n, s, t), Joins(g, s), Joins(h, t)
    PROVE  g[n] = h[n]
<1>0. /\ n \in Nat /\ Len(s) \in Nat /\ Len(t) \in Nat /\ n <= Len(s) /\ n <= Len(t)
      /\ \A i \in 1 .. n : s[i] = t[i]
  BY DEF SamePrefix
<1> DEFINE T == {i \in Nat : i <= n => g[i] = h[i]}
<1>1. 0 \in T
  BY DEF Joins
<1>2. ASSUME NEW i \in Nat, i \in T PROVE i + 1 \in T
  <2> SUFFICES ASSUME i + 1 <= n PROVE g[i + 1] = h[i + 1]
    OBVIOUS
  <2>1. i + 1 \in 1 .. n /\ i + 1 \in 1 .. Len(s) /\ i + 1 \in 1 .. Len(t)
        /\ (i + 1) - 1 = i /\ i <= n
    BY <1>0
  <2>2. g[i] = h[i] /\ s[i + 1] = t[i + 1]
    BY <1>0, <1>2, <2>1
  <2>3. g[i + 1] = g[i] \o s[i + 1] /\ h[i + 1] = h[i] \o t[i + 1]
    BY <2>1 DEF Joins
  <2> QED BY <2>2, <2>3
<1> HIDE DEF T
<1>3. Nat \subseteq T
  BY <1>1, <1>2, Join!NatSet
<1> QED BY <1>0, <1>3 DEF T

\* Joining nothing.
LEMMA FlattenEmpty == FlattenSeq(<<>>) = <<>>
  BY DEF FlattenSeq

\* Joined sequences are a sequence.
LEMMA FlattenType ==
    ASSUME NEW S, NEW s \in Seq(Seq(S)) PROVE FlattenSeq(s) \in Seq(S)
<1>1. Len(s) \in 0 .. Len(s)
  OBVIOUS
<1> QED BY <1>1, FlattenJoins

\* One more sequence at the end.
LEMMA FlattenAppend ==
    ASSUME NEW S, NEW s \in Seq(Seq(S)), NEW x \in Seq(S)
    PROVE  FlattenSeq(Append(s, x)) = FlattenSeq(s) \o x
<1> DEFINE t == Append(s, x)
           n == Len(s)
<1>1. /\ t \in Seq(Seq(S)) /\ Len(t) = n + 1 /\ n \in Nat /\ t[n + 1] = x
      /\ \A i \in 1 .. n : s[i] = t[i]
  BY AppendProperties
<1> HIDE DEF t
<1>2. PICK g : Joins(g, s) /\ g[n] = FlattenSeq(s)
  BY FlattenJoins
<1>3. PICK h : Joins(h, t) /\ h[n + 1] = FlattenSeq(t)
  BY <1>1, FlattenJoins
<1>4. g[n] = h[n]
  <2>1. Len(s) = n /\ Len(t) = n + 1 /\ n \in Nat /\ \A i \in 1 .. n : s[i] = t[i]
    BY <1>1
  <2> HIDE DEF n
  <2>2. SamePrefix(n, s, t)
    <3>1. Len(s) \in Nat /\ Len(t) \in Nat /\ n <= Len(s) /\ n <= Len(t)
      BY <2>1
    <3> QED BY <2>1, <3>1, Zenon DEF SamePrefix
  <2>3. Joins(g, s) /\ Joins(h, t)
    BY <1>2, <1>3, Zenon
  <2> QED BY <2>2, <2>3, JoinsUnique
<1>5. h[n + 1] = h[n] \o x
  <2>1. n + 1 \in 1 .. Len(t) /\ (n + 1) - 1 = n
    BY <1>1
  <2> QED BY <1>1, <1>3, <2>1 DEF Joins
<1> QED BY <1>2, <1>3, <1>4, <1>5 DEF t

\* Joining in two parts.
LEMMA FlattenConcat ==
    ASSUME NEW S, NEW s \in Seq(Seq(S)), NEW t \in Seq(Seq(S))
    PROVE  FlattenSeq(s \o t) = FlattenSeq(s) \o FlattenSeq(t)
<1> DEFINE T == {n \in Nat : \A u \in Seq(Seq(S)) : Len(u) = n =>
                    FlattenSeq(s \o u) = FlattenSeq(s) \o FlattenSeq(u)}
<1>0. FlattenSeq(s) \in Seq(S)
  BY FlattenType
<1>1. 0 \in T
  <2> SUFFICES ASSUME NEW u \in Seq(Seq(S)), Len(u) = 0
               PROVE  FlattenSeq(s \o u) = FlattenSeq(s) \o FlattenSeq(u)
    OBVIOUS
  <2>1. u = <<>>
    OBVIOUS
  <2>2. s \o u = s /\ FlattenSeq(u) = <<>>
    BY <2>1, ConcatEmptySeq, FlattenEmpty
  <2> QED BY <1>0, <2>2, ConcatEmptySeq
<1>2. ASSUME NEW n \in Nat, n \in T PROVE n + 1 \in T
  <2> SUFFICES ASSUME NEW u \in Seq(Seq(S)), Len(u) = n + 1
               PROVE  FlattenSeq(s \o u) = FlattenSeq(s) \o FlattenSeq(u)
    OBVIOUS
  <2>1. u # <<>>
    OBVIOUS
  <2>2. PICK v \in Seq(Seq(S)), x \in Seq(S) : u = Append(v, x)
    BY <2>1, SequenceEmptyOrAppend
  <2>3. Len(v) = n
    BY <2>2
  <2>4. FlattenSeq(s \o v) = FlattenSeq(s) \o FlattenSeq(v)
    BY <1>2, <2>3
  <2>5. s \o u = Append(s \o v, x) /\ s \o v \in Seq(Seq(S))
    <3>1. u = v \o <<x>> /\ <<x>> \in Seq(Seq(S))
      BY <2>2, AppendIsConcat
    <3>2. s \o (v \o <<x>>) = (s \o v) \o <<x>> /\ s \o v \in Seq(Seq(S))
      <4>1. s \o v \in Seq(Seq(S))
        BY ConcatProperties
      <4>2. s \o (v \o <<x>>) = (s \o v) \o <<x>>
        <5>1. AnyOrder(s, v, <<x>>)
          BY <3>1, JoinedInAnyOrder
        <5> QED BY <5>1 DEF AnyOrder
      <4> QED BY <4>1, <4>2
    <3> QED BY <3>1, <3>2, AppendIsConcat
  <2>6. FlattenSeq(s \o u) = (FlattenSeq(s) \o FlattenSeq(v)) \o x
    BY <2>4, <2>5, FlattenAppend
  <2>7. FlattenSeq(u) = FlattenSeq(v) \o x /\ FlattenSeq(v) \in Seq(S)
    BY <2>2, FlattenAppend, FlattenType
  <2> DEFINE a == FlattenSeq(s)
             b == FlattenSeq(v)
  <2>8. a \in Seq(S) /\ b \in Seq(S)
    BY <1>0, <2>7
  <2> HIDE DEF a, b
  <2>9. (a \o b) \o x = a \o (b \o x)
    <3> HIDE DEF T
    <3>1. AnyOrder(a, b, x)
      BY <2>2, <2>8, JoinedInAnyOrder
    <3> QED BY <3>1 DEF AnyOrder
  <2> QED BY <2>6, <2>7, <2>9 DEF a, b
<1> HIDE DEF T
<1>3. Nat \subseteq T
  BY <1>1, <1>2, Join!NatSet
<1>4. Len(t) \in Nat
  OBVIOUS
<1> QED BY <1>3, <1>4 DEF T

\* Joining one sequence.
LEMMA FlattenOne ==
    ASSUME NEW S, NEW x \in Seq(S) PROVE FlattenSeq(<<x>>) = x
<1>1. <<x>> = Append(<<>>, x) /\ <<>> \in Seq(Seq(S))
  OBVIOUS
<1>2. FlattenSeq(<<x>>) = FlattenSeq(<<>>) \o x
  BY <1>1, FlattenAppend
<1> QED BY <1>2, FlattenEmpty, ConcatEmptySeq

-------------------------------------------------------------------------------
(* Words in a buffer *)

\* The bytes of words: four for each.
LEMMA WordsLaid ==
    ASSUME NEW ws \in Seq(Int)
    PROVE  /\ Words(ws) \in Seq(Nat) /\ Len(Words(ws)) = 4 * Len(ws)
           /\ \A i \in 1 .. Len(ws) : \A j \in 1 .. 4 :
                 Words(ws)[4 * (i - 1) + j] = Bytes(ws[i])[j]
<1> DEFINE Laid(v) == /\ Words(v) \in Seq(Nat) /\ Len(Words(v)) = 4 * Len(v)
                      /\ \A i \in 1 .. Len(v) : \A j \in 1 .. 4 :
                            Words(v)[4 * (i - 1) + j] = Bytes(v[i])[j]
           T == {n \in Nat : \A v \in Seq(Int) : Len(v) = n => Laid(v)}
<1>1. 0 \in T
  <2>1. ASSUME NEW v \in Seq(Int), Len(v) = 0 PROVE Laid(v)
    <3>1. v = <<>>
      BY <2>1
    <3>2. [i \in DOMAIN v |-> Bytes(v[i])] = <<>>
      BY <3>1
    <3>3. Words(v) = <<>>
      BY <3>2, FlattenEmpty DEF Words
    <3> QED BY <2>1, <3>3
  <2> HIDE DEF Laid
  <2> QED BY <2>1
<1>2. ASSUME NEW n \in Nat, n \in T PROVE n + 1 \in T
  <2> HIDE DEF Laid
  <2> SUFFICES ASSUME NEW v \in Seq(Int), Len(v) = n + 1 PROVE Laid(v)
    OBVIOUS
  <2>1. v # <<>>
    OBVIOUS
  <2>2. PICK u \in Seq(Int), x \in Int : v = Append(u, x)
    BY <2>1, SequenceEmptyOrAppend
  <2>3. /\ Len(u) = n /\ v[n + 1] = x /\ \A i \in 1 .. n : v[i] = u[i]
        /\ DOMAIN v = 1 .. n + 1 /\ DOMAIN u = 1 .. n
    BY <2>2, AppendProperties
  <2>4. Laid(u)
    BY <1>2, <2>3
  <2> USE DEF Laid
  <2> DEFINE a == [i \in DOMAIN u |-> Bytes(u[i])]
             b == [i \in DOMAIN v |-> Bytes(v[i])]
             y == Bytes(x)
  <2>5. a \in Seq(Seq(Nat)) /\ y \in Seq(Nat) /\ Len(y) = 4 /\ Len(a) = n
    <3>1. \A i \in 1 .. n : Bytes(u[i]) \in Seq(Nat)
      BY <2>3, BytesMakeWord
    <3> QED BY <2>3, <3>1, BytesMakeWord
  <2>6. b = Append(a, y)
    <3>1. \A i \in 1 .. n + 1 : b[i] = Append(a, y)[i]
      <4>1. ASSUME NEW i \in 1 .. n PROVE b[i] = Append(a, y)[i]
        <5>1. Append(a, y)[i] = a[i]
          BY <2>5, AppendProperties
        <5> QED BY <2>3, <5>1
      <4>2. b[n + 1] = Append(a, y)[n + 1]
        <5>1. Append(a, y)[n + 1] = y
          BY <2>5, AppendProperties
        <5> QED BY <2>3, <5>1
      <4>3. \A i \in 1 .. n + 1 : i \in 1 .. n \/ i = n + 1
        OBVIOUS
      <4> QED BY <4>1, <4>2, <4>3
    <3>2. DOMAIN Append(a, y) = 1 .. n + 1 /\ DOMAIN b = 1 .. n + 1
      BY <2>3, <2>5, AppendProperties
    <3>3. Append(a, y) = [i \in 1 .. n + 1 |-> Append(a, y)[i]] /\ b = [i \in 1 .. n + 1 |-> b[i]]
      BY <2>5, <3>2, AppendProperties
    <3> HIDE DEF a, b, y
    <3> QED BY <3>1, <3>3
  <2>7. Words(v) = Words(u) \o y
    BY <2>5, <2>6, FlattenAppend DEF Words
  <2> HIDE DEF y
  <2>8. /\ Words(u) \in Seq(Nat) /\ Len(Words(u)) = 4 * n
        /\ \A i \in 1 .. n : \A j \in 1 .. 4 : Words(u)[4 * (i - 1) + j] = Bytes(u[i])[j]
    BY <2>3, <2>4
  <2>9. /\ Words(v) \in Seq(Nat) /\ Len(Words(v)) = 4 * n + 4
        /\ \A k \in 1 .. 4 * n + 4 :
              Words(v)[k] = IF k <= 4 * n THEN Words(u)[k] ELSE y[k - 4 * n]
    <3> DEFINE w == Words(u)
    <3>1. w \in Seq(Nat) /\ Len(w) = 4 * n /\ y \in Seq(Nat) /\ Len(y) = 4
      BY <2>5, <2>8
    <3> HIDE DEF w
    <3>2. /\ w \o y \in Seq(Nat) /\ Len(w \o y) = Len(w) + Len(y)
          /\ \A k \in 1 .. Len(w) + Len(y) :
                (w \o y)[k] = IF k <= Len(w) THEN w[k] ELSE y[k - Len(w)]
      BY <3>1, ConcatProperties
    <3> QED BY <2>7, <3>1, <3>2 DEF w
  <2>10. ASSUME NEW i \in 1 .. n + 1, NEW j \in 1 .. 4
         PROVE  Words(v)[4 * (i - 1) + j] = Bytes(v[i])[j]
    <3>1. CASE i = n + 1
      <4>1. 4 * (i - 1) + j \in 1 .. 4 * n + 4 /\ ~(4 * (i - 1) + j <= 4 * n)
            /\ 4 * (i - 1) + j - 4 * n = j
        BY <3>1
      <4>2. Words(v)[4 * (i - 1) + j] = y[j]
        <5> DEFINE k == 4 * (i - 1) + j
        <5>1. k \in 1 .. 4 * n + 4 /\ ~(k <= 4 * n) /\ k - 4 * n = j
          BY <4>1
        <5> HIDE DEF k
        <5>2. Words(v)[k] = y[k - 4 * n]
          BY <2>9, <5>1
        <5> QED BY <5>1, <5>2 DEF k
      <4> QED BY <2>3, <3>1, <4>2 DEF y
    <3>2. CASE i \in 1 .. n
      <4>1. 4 * (i - 1) + j \in 1 .. 4 * n + 4 /\ 4 * (i - 1) + j <= 4 * n
        BY <3>2
      <4>2. Words(v)[4 * (i - 1) + j] = Words(u)[4 * (i - 1) + j]
        BY <2>9, <4>1
      <4> QED BY <2>3, <2>8, <3>2, <4>2
    <3> QED BY <3>1, <3>2
  <2> QED BY <2>9, <2>10
<1> HIDE DEF T
<1>3. Nat \subseteq T
  BY <1>1, <1>2, Join!NatSet
<1>4. Len(ws) \in Nat
  OBVIOUS
<1> QED BY <1>3, <1>4 DEF T

\* A word read where it was laid out.
LEMMA WordReads ==
    ASSUME NEW ws \in Seq(Int), NEW at \in Nat, NEW buf, NEW i \in 0 .. Len(ws) - 1,
           \A k \in 1 .. 4 * Len(ws) : buf[at + k] = Words(ws)[k]
    PROVE  Word(buf, at, i) = Unsigned(ws[i + 1])
<1> DEFINE b == Bytes(ws[i + 1])
<1>1. i + 1 \in 1 .. Len(ws) /\ ws[i + 1] \in Int /\ i \in Nat /\ Len(ws) \in Nat
  OBVIOUS
<1>2. ASSUME NEW j \in 1 .. 4 PROVE buf[at + 4 * i + j] = b[j]
  <2> DEFINE n == Len(ws)
  <2>0. n \in Nat /\ i \in 0 .. n - 1 /\ i \in Nat
    BY <1>1
  <2> HIDE DEF n
  <2>1. 4 * i + j \in 1 .. 4 * n /\ at + (4 * i + j) = at + 4 * i + j
        /\ 4 * ((i + 1) - 1) + j = 4 * i + j
    BY <2>0
  <2>2. buf[at + 4 * i + j] = Words(ws)[4 * i + j]
    BY <2>1 DEF n
  <2>3. Words(ws)[4 * ((i + 1) - 1) + j] = b[j]
    BY <1>1, WordsLaid
  <2> QED BY <2>1, <2>2, <2>3
<1>3. b[1] + Radix * (b[2] + Radix * (b[3] + Radix * b[4])) = Unsigned(ws[i + 1])
  BY <1>1, BytesMakeWord
<1> HIDE DEF b
<1>4. Word(buf, at, i) = b[1] + Radix * (b[2] + Radix * (b[3] + Radix * b[4]))
  BY <1>2 DEF Word
<1> QED BY <1>3, <1>4

-------------------------------------------------------------------------------
(* The layout of a packet *)

\* The names of the enum packet_flags.
FlagNames == {packet_flags[i] : i \in 1 .. 32}

\* The number of a flag in the enum.
LEMMA FlagNumbers ==
    ASSUME NEW flag \in FlagNames
    PROVE  LET k == CHOOSE i \in 0 .. Len(packet_flags) - 1 :
                        packet_flags[i + 1] = flag
           IN  k \in Word32 /\ packet_flags[k + 1] = flag
<1> DEFINE n == Len(packet_flags)
<1>1. n = 32
  BY DEF packet_flags
<1> HIDE DEF n
<1>2. PICK j \in 1 .. 32 : packet_flags[j] = flag
  BY DEF FlagNames
<1>3. j - 1 \in 0 .. n - 1 /\ packet_flags[(j - 1) + 1] = flag
  BY <1>1, <1>2
<1> DEFINE k == CHOOSE i \in 0 .. n - 1 : packet_flags[i + 1] = flag
<1>4. k \in 0 .. n - 1 /\ packet_flags[k + 1] = flag
  BY <1>3
<1> HIDE DEF k
<1>5. k \in Word32
  BY <1>1, <1>4, ModulusBounds DEF Word32
<1> QED BY <1>4, <1>5 DEF k, n

\* The packets that are sent have flags of the enum.
LEMMA SentFlagNames ==
    {"ESPRESSO_INIT", "DECAFS_CLIENT_INIT", "OPEN", "READ", "WRITE", "CLOSE",
     "LSEEK", "REMOVE", "MKDIR", "OPENDIR", "FILE_STORAGE_STAT",
     "OPEN_RESPONSE", "READ_RESPONSE", "WRITE_RESPONSE", "CLOSE_RESPONSE",
     "LSEEK_RESPONSE", "REMOVE_RESPONSE", "FILE_STORAGE_STAT_RESPONSE",
     "READ_CHUNK", "WRITE_CHUNK", "DELETE_CHUNK", "READ_CHUNK_RESPONSE",
     "WRITE_CHUNK_RESPONSE", "DELETE_CHUNK_RESPONSE"} \subseteq FlagNames
<1>1. /\ packet_flags[1] = "ESPRESSO_INIT" /\ packet_flags[2] = "DECAFS_CLIENT_INIT"
      /\ packet_flags[3] = "OPEN" /\ packet_flags[4] = "READ"
      /\ packet_flags[5] = "WRITE" /\ packet_flags[6] = "CLOSE"
      /\ packet_flags[7] = "LSEEK" /\ packet_flags[8] = "REMOVE"
      /\ packet_flags[11] = "MKDIR" /\ packet_flags[12] = "OPENDIR"
      /\ packet_flags[14] = "FILE_STORAGE_STAT"
      /\ packet_flags[15] = "OPEN_RESPONSE" /\ packet_flags[16] = "READ_RESPONSE"
      /\ packet_flags[17] = "WRITE_RESPONSE" /\ packet_flags[18] = "CLOSE_RESPONSE"
      /\ packet_flags[19] = "LSEEK_RESPONSE" /\ packet_flags[20] = "REMOVE_RESPONSE"
      /\ packet_flags[26] = "FILE_STORAGE_STAT_RESPONSE"
      /\ packet_flags[27] = "READ_CHUNK" /\ packet_flags[28] = "WRITE_CHUNK"
      /\ packet_flags[29] = "DELETE_CHUNK"
      /\ packet_flags[30] = "READ_CHUNK_RESPONSE"
      /\ packet_flags[31] = "WRITE_CHUNK_RESPONSE"
      /\ packet_flags[32] = "DELETE_CHUNK_RESPONSE"
  BY DEF packet_flags
<1>2. \A i \in 1 .. 32 : packet_flags[i] \in FlagNames
  BY DEF FlagNames
<1>3. {1, 2, 3, 4, 5, 6, 7, 8, 11, 12, 14, 15, 16, 17, 18, 19, 20, 26, 27, 28, 29,
       30, 31, 32} \subseteq 1 .. 32
  OBVIOUS
<1> QED BY <1>1, <1>2, <1>3

\* What a receiver finds in the bytes of a packet with these words and this
\* rest behind its header.
Reads(buf, id, flag, ws, rest) ==
    /\ buf \in Seq(Nat)
    /\ Len(buf) = 12 + 4 * Len(ws) + Len(rest)
    /\ Len(buf) \in Int32 => SizeOfPacket(buf) = Len(buf)
    /\ IdOf(buf) = id
    /\ FlagOf(buf) = flag
    /\ \A i \in 0 .. Len(ws) - 1 : Word(buf, 12, i) = Unsigned(ws[i + 1])
    /\ \A k \in 1 .. Len(rest) : buf[12 + 4 * Len(ws) + k] = rest[k]
    /\ DataAt(buf, 12 + 4 * Len(ws), Len(rest)) = rest

\* A packet has its size, id and flag in the header and its words and the rest
\* behind it, where the receiver's constructor looks for them.
LEMMA PacketReads ==
    ASSUME NEW id \in Word32, NEW flag \in FlagNames, NEW ws \in Seq(Int),
           NEW rest \in Seq(Nat), NEW body, body = Words(ws) \o rest
    PROVE  Reads(Packet(id, flag, body), id, flag, ws, rest)
<1> DEFINE n == Len(ws)
           b == Words(ws)
           size == header_size + Len(body)
           k == CHOOSE i \in 0 .. Len(packet_flags) - 1 : packet_flags[i + 1] = flag
           hw == <<size, id, k>>
           head == Words(hw)
           buf == Packet(id, flag, body)
<1>1. n \in Nat /\ b \in Seq(Nat) /\ Len(b) = 4 * n /\ Len(rest) \in Nat
  BY WordsLaid
<1>2. k \in Word32 /\ packet_flags[k + 1] = flag
  BY FlagNumbers
<1>3. /\ body \in Seq(Nat) /\ Len(body) = 4 * n + Len(rest)
      /\ \A i \in 1 .. 4 * n + Len(rest) :
            body[i] = IF i <= 4 * n THEN b[i] ELSE rest[i - 4 * n]
  <2> HIDE DEF b
  <2>1. /\ b \o rest \in Seq(Nat) /\ Len(b \o rest) = Len(b) + Len(rest)
        /\ \A i \in 1 .. Len(b) + Len(rest) :
              (b \o rest)[i] = IF i <= Len(b) THEN b[i] ELSE rest[i - Len(b)]
    BY <1>1, ConcatProperties
  <2>2. body = b \o rest
    BY DEF b
  <2> QED BY <1>1, <2>1, <2>2
<1> HIDE DEF k, n, b
<1>4. size \in Nat /\ id \in Int /\ k \in Int /\ size = 12 + 4 * n + Len(rest)
  BY <1>1, <1>2, <1>3, WordsFit DEF header_size
<1> HIDE DEF size
<1>5. hw \in Seq(Int) /\ Len(hw) = 3 /\ hw[1] = size /\ hw[2] = id /\ hw[3] = k
  BY <1>4
<1> HIDE DEF hw
<1>6. head \in Seq(Nat) /\ Len(head) = 12
  <2>1. head \in Seq(Nat) /\ Len(head) = 4 * Len(hw)
    BY <1>5, WordsLaid
  <2> QED BY <1>5, <2>1
<1>7. buf = head \o body
  BY DEF Packet, Header, head, hw, size, k
<1> HIDE DEF buf
<1>8. /\ buf \in Seq(Nat) /\ Len(buf) = 12 + 4 * n + Len(rest)
      /\ \A i \in 1 .. 12 + 4 * n + Len(rest) :
            buf[i] = IF i <= 12 THEN head[i] ELSE body[i - 12]
  <2> HIDE DEF head
  <2>1. /\ head \o body \in Seq(Nat) /\ Len(head \o body) = Len(head) + Len(body)
        /\ \A i \in 1 .. Len(head) + Len(body) :
              (head \o body)[i] = IF i <= Len(head) THEN head[i] ELSE body[i - Len(head)]
    <3>1. Followed(Nat, head, body)
      BY <1>3, <1>6, JoinedFollowed
    <3> QED BY <3>1 DEF Followed
  <2>2. Len(head) + Len(body) = 12 + 4 * n + Len(rest)
    BY <1>1, <1>3, <1>6
  <2> QED BY <1>6, <1>7, <2>1, <2>2
<1>9. \A i \in 0 .. 2 : Word(buf, 0, i) = Unsigned(hw[i + 1])
  <2>1. \A j \in 1 .. 4 * Len(hw) : buf[0 + j] = Words(hw)[j]
    BY <1>1, <1>5, <1>8, SMTT(30) DEF head
  <2>2. /\ hw \in Seq(Int) /\ 0 \in Nat
        /\ \A i \in 0 .. 2 : i \in 0 .. Len(hw) - 1
    BY <1>5
  <2> HIDE DEF hw
  <2>3. \A i \in 0 .. Len(hw) - 1 : Word(buf, 0, i) = Unsigned(hw[i + 1])
    BY <2>1, <2>2, WordReads, Zenon
  <2> QED BY <2>2, <2>3
<1>10. Word(buf, 0, 0) = Unsigned(size) /\ Word(buf, 0, 1) = id /\ Word(buf, 0, 2) = k
  <2>1. 0 \in 0 .. 2 /\ 1 \in 0 .. 2 /\ 2 \in 0 .. 2
    OBVIOUS
  <2>2. /\ Word(buf, 0, 0) = Unsigned(hw[1]) /\ Word(buf, 0, 1) = Unsigned(hw[2])
        /\ Word(buf, 0, 2) = Unsigned(hw[3])
    BY <1>9, <2>1
  <2> QED BY <1>2, <1>5, <2>2, WordsFit
<1>11. Len(buf) \in Int32 => SizeOfPacket(buf) = Len(buf)
  BY <1>4, <1>8, <1>10, WordsFit DEF SizeOfPacket
<1>12. IdOf(buf) = id /\ FlagOf(buf) = flag
  BY <1>2, <1>10 DEF IdOf, FlagOf
<1>13. ASSUME NEW i \in 0 .. Len(ws) - 1 PROVE Word(buf, 12, i) = Unsigned(ws[i + 1])
  <2>1. ASSUME NEW j \in 1 .. 4 * n PROVE buf[12 + j] = b[j]
    <3> DEFINE x == 12 + j
    <3>1. x \in 1 .. 12 + 4 * n + Len(rest) /\ ~(x <= 12) /\ x - 12 = j
          /\ j \in 1 .. 4 * n + Len(rest) /\ j <= 4 * n
      BY <1>1
    <3> HIDE DEF x
    <3>2. buf[x] = body[j]
      BY <1>8, <3>1
    <3>3. body[j] = b[j]
      BY <1>3, <3>1
    <3> QED BY <3>2, <3>3 DEF x
  <2> QED BY <2>1, WordReads DEF n, b
<1>14. ASSUME NEW j \in 1 .. Len(rest) PROVE buf[12 + 4 * n + j] = rest[j]
  <2> DEFINE x == 12 + 4 * n + j
             y == 4 * n + j
  <2>1. /\ x \in 1 .. 12 + 4 * n + Len(rest) /\ ~(x <= 12) /\ x - 12 = y
        /\ y \in 1 .. 4 * n + Len(rest) /\ ~(y <= 4 * n) /\ y - 4 * n = j
    BY <1>1
  <2> HIDE DEF x, y
  <2>2. buf[x] = body[y]
    BY <1>8, <2>1
  <2>3. body[y] = rest[j]
    BY <1>3, <2>1
  <2> QED BY <2>2, <2>3 DEF x
<1>15. DataAt(buf, 12 + 4 * n, Len(rest)) = rest
  <2> DEFINE from == 12 + 4 * n + 1
             to == 12 + 4 * n + Len(rest)
             d == SubSeq(buf, from, to)
  <2>1. from \in Int /\ to \in Int /\ to - from + 1 = Len(rest)
    BY <1>1
  <2>2. \A i \in from .. to : buf[i] \in Nat
    BY <1>1, <1>8
  <2>3. /\ d \in Seq(Nat) /\ Len(d) = IF from <= to THEN to - from + 1 ELSE 0
        /\ \A i \in 1 .. to - from + 1 : d[i] = buf[from + i - 1]
    <3> HIDE DEF from, to
    <3> QED BY <2>1, <2>2, SubSeqProperties
  <2>4. Len(d) = Len(rest)
    BY <1>1, <2>1, <2>3
  <2>5. ASSUME NEW i \in 1 .. Len(rest) PROVE d[i] = rest[i]
    <3>1. from + i - 1 = 12 + 4 * n + i
      BY <1>1
    <3> QED BY <1>14, <2>1, <2>3, <3>1
  <2> HIDE DEF d
  <2>6. d = rest
    BY <2>3, <2>4, <2>5, SeqEqual
  <2> QED BY <2>6 DEF DataAt, d
<1> QED BY <1>8, <1>11, <1>12, <1>13, <1>14, <1>15 DEF Reads, n, buf

\* A string ends at its NUL.
LEMMA StringReads ==
    ASSUME NEW s \in Strings, NEW at \in Nat, NEW buf \in Seq(Nat),
           Len(buf) = at + Len(s) + 1,
           \A k \in 1 .. Len(s) + 1 : buf[at + k] = CString(s)[k]
    PROVE  CStringAt(buf, at) = s
<1> DEFINE n == Len(s)
           End(e) == /\ at + e = Len(buf) \/ buf[at + e + 1] = 0
                     /\ \A k \in 0 .. e - 1 : buf[at + k + 1] # 0
<1>1. /\ n \in Nat /\ Len(buf) = at + n + 1
      /\ \A k \in 1 .. n : s[k] \in Nat /\ s[k] # 0
      /\ s \in Seq(Nat)
  <2>1. s \in Seq(Nat)
    <3>1. 1 .. Radix - 1 \subseteq Nat
      BY ModulusBounds
    <3> DEFINE C == 1 .. Radix - 1
    <3>2. s \in Seq(C)
      BY DEF Strings
    <3> HIDE DEF C
    <3> QED BY <3>1, <3>2, SeqMonotonic DEF C
  <2>2. \A k \in 1 .. n : s[k] \in 1 .. Radix - 1
    <3> DEFINE C == 1 .. Radix - 1
    <3>1. s \in Seq(C)
      BY DEF Strings
    <3> HIDE DEF C
    <3>2. \A k \in 1 .. n : s[k] \in C
      BY <3>1
    <3> QED BY <3>2 DEF C
  <2> QED BY <2>1, <2>2, ModulusBounds
<1>2. buf[at + n + 1] = 0 /\ \A k \in 1 .. n : buf[at + k] = s[k]
  <2>1. CString(s)[n + 1] = 0 /\ \A k \in 1 .. n : CString(s)[k] = s[k]
    BY <1>1, AppendProperties DEF CString
  <2>2. n + 1 \in 1 .. n + 1 /\ at + (n + 1) = at + n + 1
        /\ \A k \in 1 .. n : k \in 1 .. n + 1
    BY <1>1
  <2> QED BY <2>1, <2>2
<1>3. n \in 0 .. Len(buf) - at /\ End(n)
  <2>1. ASSUME NEW k \in 0 .. n - 1 PROVE buf[at + k + 1] # 0
    <3>1. k + 1 \in 1 .. n /\ at + (k + 1) = at + k + 1
      BY <1>1
    <3>2. buf[at + (k + 1)] = s[k + 1] /\ s[k + 1] # 0
      BY <1>1, <1>2, <3>1
    <3> QED BY <3>1, <3>2
  <2>2. n \in 0 .. Len(buf) - at
    BY <1>1
  <2> QED BY <1>2, <2>1, <2>2
<1>4. ASSUME NEW e \in 0 .. Len(buf) - at, End(e) PROVE e = n
  <2>1. e \in Nat /\ e <= n + 1
    BY <1>1
  <2>2. ~(e < n)
    <3> SUFFICES ASSUME e < n PROVE FALSE
      OBVIOUS
    <3>1. e + 1 \in 1 .. n /\ at + (e + 1) = at + e + 1 /\ at + e # Len(buf)
      BY <1>1, <2>1
    <3>2. buf[at + (e + 1)] = s[e + 1] /\ s[e + 1] # 0
      BY <1>1, <1>2, <3>1
    <3> QED BY <1>4, <3>1, <3>2
  <2>3. ~(e > n)
    <3> SUFFICES ASSUME e > n PROVE FALSE
      OBVIOUS
    <3>1. n \in 0 .. e - 1
      BY <1>1, <2>1
    <3> QED BY <1>2, <1>4, <3>1
  <2> QED BY <1>1, <2>1, <2>2, <2>3
<1>5. (CHOOSE e \in 0 .. Len(buf) - at : End(e)) = n
  <2> DEFINE x == CHOOSE e \in 0 .. Len(buf) - at : End(e)
  <2>1. x \in 0 .. Len(buf) - at /\ End(x)
    BY <1>3
  <2> QED BY <1>4, <2>1
<1>6. CStringAt(buf, at) = SubSeq(buf, at + 1, at + n)
  <2> HIDE DEF n
  <2> QED BY <1>5 DEF CStringAt, DataAt
<1>7. SubSeq(buf, at + 1, at + n) = s
  <2> DEFINE from == at + 1
             to == at + n
             d == SubSeq(buf, from, to)
  <2>1. from \in Int /\ to \in Int /\ to - from + 1 = n
    BY <1>1
  <2>2. \A i \in from .. to : buf[i] \in Nat
    BY <1>1
  <2>3. /\ d \in Seq(Nat) /\ Len(d) = IF from <= to THEN to - from + 1 ELSE 0
        /\ \A i \in 1 .. to - from + 1 : d[i] = buf[from + i - 1]
    <3> HIDE DEF from, to
    <3> QED BY <2>1, <2>2, SubSeqProperties
  <2>4. Len(d) = n
    BY <1>1, <2>1, <2>3
  <2>5. ASSUME NEW i \in 1 .. n PROVE d[i] = s[i]
    <3>1. from + i - 1 = at + i
      BY <1>1
    <3> QED BY <1>2, <2>1, <2>3, <3>1
  <2> HIDE DEF d
  <2>6. d = s
    BY <1>1, <2>3, <2>4, <2>5, SeqEqual
  <2> QED BY <2>6 DEF d
<1> QED BY <1>6, <1>7

\* A packet of one word.
LEMMA OneWord ==
    ASSUME NEW flag \in FlagNames, NEW x \in Int
    PROVE  LET buf == Packet(0, flag, Words(<<x>>))
           IN  /\ Reads(buf, 0, flag, <<x>>, <<>>)
               /\ Len(buf) = 16
               /\ Word(buf, 12, 0) = Unsigned(x)
<1> DEFINE buf == Packet(0, flag, Words(<<x>>))
           ws == <<x>>
<1>1. 0 \in Word32 /\ <<>> \in Seq(Nat) /\ ws \in Seq(Int) /\ Len(ws) = 1 /\ ws[1] = x
  BY ModulusBounds DEF Word32
<1> HIDE DEF ws
<1>2. Words(ws) = Words(ws) \o <<>>
  BY <1>1, WordsLaid, ConcatEmptySeq
<1>3. Reads(Packet(0, flag, Words(ws)), 0, flag, ws, <<>>)
  BY <1>1, <1>2, PacketReads
<1>4. Reads(buf, 0, flag, ws, <<>>)
  BY <1>3 DEF ws
<1> HIDE DEF buf
<1>5. Len(buf) = 16 /\ Word(buf, 12, 0) = Unsigned(x)
  <2>1. 0 \in 0 .. Len(ws) - 1 /\ ws[0 + 1] = x
    BY <1>1
  <2> QED BY <1>1, <1>4, <2>1 DEF Reads
<1> QED BY <1>4, <1>5 DEF ws, buf

\* A string with its NUL.
LEMMA StringLaid ==
    ASSUME NEW s \in Strings
    PROVE  CString(s) \in Seq(Nat) /\ Len(CString(s)) = Len(s) + 1 /\ Len(s) \in Nat
<1>1. s \in Seq(Nat)
  <2>1. 1 .. Radix - 1 \subseteq Nat
    BY ModulusBounds
  <2> QED BY <2>1, SeqMonotonic DEF Strings
<1> QED BY <1>1, AppendProperties DEF CString

\* What a receiver finds in a packet of some words and a string.
ReadsString(buf, flag, ws, s) ==
    /\ Reads(buf, 0, flag, ws, CString(s))
    /\ Len(buf) = 13 + 4 * Len(ws) + Len(s)
    /\ CStringAt(buf, 12 + 4 * Len(ws)) = s

\* The same for the packets that end in a string: its length is not sent, the
\* receiver finds the 0 behind it.
LEMMA StringPacket ==
    ASSUME NEW flag \in FlagNames, NEW ws \in Seq(Int), NEW s \in Strings,
           NEW body, body = Words(ws) \o CString(s),
           NEW buf, buf = Packet(0, flag, body)
    PROVE  ReadsString(buf, flag, ws, s)
<1> DEFINE rest == CString(s)
           n == Len(ws)
<1>1. rest \in Seq(Nat) /\ Len(rest) = Len(s) + 1 /\ Len(s) \in Nat /\ n \in Nat
  BY StringLaid
<1> HIDE DEF rest
<1>2. 0 \in Word32 /\ body = Words(ws) \o rest
  BY ModulusBounds DEF Word32, rest
<1>3. Reads(buf, 0, flag, ws, rest)
  BY <1>1, <1>2, PacketReads
<1>4. /\ buf \in Seq(Nat) /\ Len(buf) = 12 + 4 * n + Len(rest)
      /\ \A k \in 1 .. Len(rest) : buf[12 + 4 * n + k] = rest[k]
  BY <1>3 DEF Reads
<1> DEFINE at == 12 + 4 * n
<1>5. at \in Nat /\ Len(buf) = at + Len(s) + 1
  BY <1>1, <1>4
<1>6. \A k \in 1 .. Len(s) + 1 : buf[at + k] = CString(s)[k]
  BY <1>1, <1>4 DEF rest
<1>7. CStringAt(buf, at) = s
  <2> HIDE DEF at
  <2> QED BY <1>4, <1>5, <1>6, StringReads
<1>8. Len(buf) = 13 + 4 * n + Len(s)
  BY <1>1, <1>5
<1> QED BY <1>3, <1>7, <1>8 DEF rest, ReadsString

\* The words of a read or write packet, and what becomes of them.
FileWords(p) == <<p.fd, p.file_id, p.stripe_id, p.chunk_num, p.offset, p.count>>

\* The same for the six words of FilePacket and the data behind them.
LEMMA FilePacketReads ==
    ASSUME NEW id \in Word32, NEW flag \in FlagNames, NEW p,
           {p.fd, p.file_id, p.stripe_id, p.chunk_num, p.offset, p.count}
               \subseteq Int,
           NEW data \in Seq(Nat)
    PROVE  LET buf == FilePacket(id, flag, p, data)
           IN  /\ Reads(buf, id, flag, FileWords(p), data)
               /\ Len(buf) = 36 + Len(data)
               /\ DataAt(buf, file_packet_size, Len(data)) = data
               /\ FilePacketOf(buf) =
                     [id |-> id, fd |-> Unsigned(p.fd),
                      file_id |-> Unsigned(p.file_id),
                      stripe_id |-> Unsigned(p.stripe_id),
                      chunk_num |-> Unsigned(p.chunk_num),
                      offset |-> Unsigned(p.offset),
                      count |-> Signed(Unsigned(p.count)), data |-> <<>>]
<1> DEFINE buf == FilePacket(id, flag, p, data)
           ws == FileWords(p)
<1>1. /\ ws \in Seq(Int) /\ Len(ws) = 6 /\ ws[1] = p.fd /\ ws[2] = p.file_id
      /\ ws[3] = p.stripe_id /\ ws[4] = p.chunk_num /\ ws[5] = p.offset
      /\ ws[6] = p.count
  BY DEF FileWords
<1>2. buf = Packet(id, flag, Words(ws) \o data)
  BY DEF FilePacket, FileWords
<1> HIDE DEF ws, buf
<1>3. Reads(buf, id, flag, ws, data)
  BY <1>1, <1>2, PacketReads
<1>4. Len(buf) = 36 + Len(data) /\ DataAt(buf, 36, Len(data)) = data
  BY <1>1, <1>3 DEF Reads
<1>5. \A i \in 0 .. 5 : Word(buf, 12, i) = Unsigned(ws[i + 1])
  <2>1. \A i \in 0 .. Len(ws) - 1 : Word(buf, 12, i) = Unsigned(ws[i + 1])
    BY <1>3 DEF Reads
  <2>2. Len(ws) - 1 = 5
    BY <1>1
  <2> QED BY <2>1, <2>2
<1>6. /\ Word(buf, 12, 0) = Unsigned(p.fd) /\ Word(buf, 12, 1) = Unsigned(p.file_id)
      /\ Word(buf, 12, 2) = Unsigned(p.stripe_id)
      /\ Word(buf, 12, 3) = Unsigned(p.chunk_num)
      /\ Word(buf, 12, 4) = Unsigned(p.offset)
      /\ Word(buf, 12, 5) = Unsigned(p.count)
  <2>1. {0, 1, 2, 3, 4, 5} \subseteq 0 .. 5
    OBVIOUS
  <2>2. /\ Word(buf, 12, 0) = Unsigned(ws[1]) /\ Word(buf, 12, 1) = Unsigned(ws[2])
        /\ Word(buf, 12, 2) = Unsigned(ws[3]) /\ Word(buf, 12, 3) = Unsigned(ws[4])
        /\ Word(buf, 12, 4) = Unsigned(ws[5]) /\ Word(buf, 12, 5) = Unsigned(ws[6])
    BY <1>5, <2>1
  <2> QED BY <1>1, <2>2
<1>7. IdOf(buf) = id
  BY <1>3 DEF Reads
<1>8. header_size = 12 /\ file_packet_size = 36
  BY DEF header_size, file_packet_size
<1>9. FilePacketOf(buf) =
         [id |-> id, fd |-> Unsigned(p.fd), file_id |-> Unsigned(p.file_id),
          stripe_id |-> Unsigned(p.stripe_id), chunk_num |-> Unsigned(p.chunk_num),
          offset |-> Unsigned(p.offset), count |-> Signed(Unsigned(p.count)),
          data |-> <<>>]
  BY <1>6, <1>7, <1>8 DEF FilePacketOf
<1> QED BY <1>3, <1>4, <1>8, <1>9 DEF ws, buf

\* The length of the data that a count announces.
DataLen(count) == IF count > 0 THEN count ELSE 0

\* The data goes with the packet and comes back.
LEMMA FileDataReads ==
    ASSUME NEW id \in Word32, NEW flag \in FlagNames, NEW p,
           {p.fd, p.file_id, p.stripe_id, p.chunk_num, p.offset} \subseteq Int,
           p.count \in Int32, p.data \in Seq(Nat), Len(p.data) = DataLen(p.count)
    PROVE  LET buf == FileDataPacket(id, flag, p)
           IN  /\ Reads(buf, id, flag, FileWords(p), p.data)
               /\ Len(buf) = 36 + Len(p.data)
               /\ FileDataPacketOf(buf) =
                     [id |-> id, fd |-> Unsigned(p.fd),
                      file_id |-> Unsigned(p.file_id),
                      stripe_id |-> Unsigned(p.stripe_id),
                      chunk_num |-> Unsigned(p.chunk_num),
                      offset |-> Unsigned(p.offset),
                      count |-> p.count, data |-> p.data]
<1> DEFINE data == IF p.count > 0 THEN SubSeq(p.data, 1, p.count) ELSE <<>>
           buf == FileDataPacket(id, flag, p)
           q == FilePacketOf(buf)
<1>1. p.count \in Int /\ Signed(Unsigned(p.count)) = p.count
  BY WordsFit
<1>2. data = p.data
  <2>1. CASE p.count > 0
    <3>1. Len(p.data) = p.count
      BY <2>1 DEF DataLen
    <3>2. SubSeq(p.data, 1, Len(p.data)) = p.data
      BY SubSeqFull
    <3> QED BY <2>1, <3>1, <3>2
  <2>2. CASE ~(p.count > 0)
    <3>1. Len(p.data) = 0
      BY <2>2 DEF DataLen
    <3> QED BY <2>2, <3>1
  <2> QED BY <2>1, <2>2
<1>3. buf = FilePacket(id, flag, p, p.data)
  BY <1>2 DEF FileDataPacket
<1> HIDE DEF buf
<1>4. /\ Reads(buf, id, flag, FileWords(p), p.data)
      /\ Len(buf) = 36 + Len(p.data)
      /\ DataAt(buf, file_packet_size, Len(p.data)) = p.data
      /\ q = [id |-> id, fd |-> Unsigned(p.fd), file_id |-> Unsigned(p.file_id),
              stripe_id |-> Unsigned(p.stripe_id),
              chunk_num |-> Unsigned(p.chunk_num), offset |-> Unsigned(p.offset),
              count |-> Signed(Unsigned(p.count)), data |-> <<>>]
  BY <1>1, <1>3, FilePacketReads
<1>5. FileDataPacketOf(buf) = IF q.count > 0
        THEN [q EXCEPT !.data = DataAt(buf, file_packet_size, q.count)] ELSE q
  BY DEF FileDataPacketOf
<1> HIDE DEF q
<1>6. q.count = p.count
  BY <1>1, <1>4
<1>7. CASE p.count > 0
  <2>1. Len(p.data) = p.count
    BY <1>7 DEF DataLen
  <2>2. FileDataPacketOf(buf) = [q EXCEPT !.data = p.data]
    BY <1>4, <1>5, <1>6, <1>7, <2>1
  <2> QED BY <1>1, <1>4, <2>2 DEF buf
<1>8. CASE ~(p.count > 0)
  <2>1. p.data = <<>>
    <3>1. Len(p.data) = 0
      BY <1>8 DEF DataLen
    <3> QED BY <3>1
  <2>2. FileDataPacketOf(buf) = q
    BY <1>5, <1>6, <1>8
  <2> QED BY <1>1, <1>4, <2>1, <2>2 DEF buf
<1> QED BY <1>7, <1>8

-------------------------------------------------------------------------------
(* Every class *)

\* The fields that the packets of a class carry.
ChunkFields == [id : Word32, fd : Word32, file_id : Word32, stripe_id : Word32,
                chunk_num : Word32, offset : Word32, count : Int32,
                data : Seq(Nat)]

\* What a packet of class flag with fields p is on the wire: it tells its own
\* size and class.
Framed(flag, p) == LET buf == Serialized(flag, p)
                   IN  /\ buf \in Seq(Nat) /\ Len(buf) >= 12
                       /\ Len(buf) \in Int32 => SizeOfPacket(buf) = Len(buf)
                       /\ FlagOf(buf) = flag

\* The fields come out as they went in.
Returns(flag, p) == Deserialized(flag, Serialized(flag, p)) = p

\* A packet that is laid out so tells its size and its class.
LEMMA ReadsFramed ==
    ASSUME NEW flag, NEW p, NEW buf, buf = Serialized(flag, p), NEW id,
           NEW ws \in Seq(Int), NEW rest \in Seq(Nat),
           Reads(buf, id, flag, ws, rest)
    PROVE  Framed(flag, p)
<1>1. Len(ws) \in Nat /\ Len(rest) \in Nat
  OBVIOUS
<1>2. Len(buf) >= 12
  BY <1>1 DEF Reads
<1> QED BY <1>2 DEF Framed, Reads

\* The classes of one word: registrations, close, and most answers.
LEMMA OneWordReturns ==
    /\ \A p \in [node_id : Word32] :
          Framed("ESPRESSO_INIT", p) /\ Returns("ESPRESSO_INIT", p)
    /\ \A p \in [user_id : Word32] :
          Framed("DECAFS_CLIENT_INIT", p) /\ Returns("DECAFS_CLIENT_INIT", p)
    /\ \A p \in [fd : Word32] : Framed("CLOSE", p) /\ Returns("CLOSE", p)
    /\ \A p \in [result : Int32] :
          /\ Framed("OPEN_RESPONSE", p) /\ Returns("OPEN_RESPONSE", p)
          /\ Framed("CLOSE_RESPONSE", p) /\ Returns("CLOSE_RESPONSE", p)
          /\ Framed("LSEEK_RESPONSE", p) /\ Returns("LSEEK_RESPONSE", p)
          /\ Framed("REMOVE_RESPONSE", p) /\ Returns("REMOVE_RESPONSE", p)
<1> DEFINE Wire(flag, x) == Packet(0, flag, Words(<<x>>))
<1>1. header_size = 12
  BY DEF header_size
<1>2. ASSUME NEW flag \in FlagNames, NEW p, NEW x \in Int, Serialized(flag, p) = Wire(flag, x)
      PROVE  Framed(flag, p) /\ Word(Serialized(flag, p), header_size, 0) = Unsigned(x)
  <2>1. Reads(Wire(flag, x), 0, flag, <<x>>, <<>>) /\ Word(Wire(flag, x), 12, 0) = Unsigned(x)
    BY OneWord
  <2>2. <<x>> \in Seq(Int) /\ <<>> \in Seq(Nat)
    OBVIOUS
  <2> HIDE DEF Wire
  <2> QED BY <1>1, <1>2, <2>1, <2>2, ReadsFramed
<1> HIDE DEF Wire
<1>3. ASSUME NEW p \in [node_id : Word32]
      PROVE  Framed("ESPRESSO_INIT", p) /\ Returns("ESPRESSO_INIT", p)
  <2>1. Serialized("ESPRESSO_INIT", p) = Wire("ESPRESSO_INIT", p.node_id)
    BY DEF Serialized, EspressoInit, Wire
  <2>2. p.node_id \in Int /\ Unsigned(p.node_id) = p.node_id
    BY WordsFit
  <2>3. /\ Framed("ESPRESSO_INIT", p)
        /\ Word(Serialized("ESPRESSO_INIT", p), header_size, 0) = p.node_id
    BY <1>2, <2>1, <2>2, SentFlagNames
  <2>4. Deserialized("ESPRESSO_INIT", Serialized("ESPRESSO_INIT", p)) = [node_id |-> p.node_id]
    BY <2>3 DEF Deserialized, EspressoInitOf
  <2> QED BY <2>3, <2>4 DEF Returns
<1>4. ASSUME NEW p \in [user_id : Word32]
      PROVE  Framed("DECAFS_CLIENT_INIT", p) /\ Returns("DECAFS_CLIENT_INIT", p)
  <2>1. Serialized("DECAFS_CLIENT_INIT", p) = Wire("DECAFS_CLIENT_INIT", p.user_id)
    BY DEF Serialized, DecafsClientInit, Wire
  <2>2. p.user_id \in Int /\ Unsigned(p.user_id) = p.user_id
    BY WordsFit
  <2>3. /\ Framed("DECAFS_CLIENT_INIT", p)
        /\ Word(Serialized("DECAFS_CLIENT_INIT", p), header_size, 0) = p.user_id
    BY <1>2, <2>1, <2>2, SentFlagNames
  <2>4. Deserialized("DECAFS_CLIENT_INIT", Serialized("DECAFS_CLIENT_INIT", p))
            = [user_id |-> p.user_id]
    BY <2>3 DEF Deserialized, DecafsClientInitOf
  <2> QED BY <2>3, <2>4 DEF Returns
<1>5. ASSUME NEW p \in [fd : Word32] PROVE Framed("CLOSE", p) /\ Returns("CLOSE", p)
  <2>1. Serialized("CLOSE", p) = Wire("CLOSE", p.fd)
    BY DEF Serialized, ClosePacket, Wire
  <2>2. p.fd \in Int /\ Unsigned(p.fd) = p.fd
    BY WordsFit
  <2>3. Framed("CLOSE", p) /\ Word(Serialized("CLOSE", p), header_size, 0) = p.fd
    BY <1>2, <2>1, <2>2, SentFlagNames
  <2>4. Deserialized("CLOSE", Serialized("CLOSE", p)) = [fd |-> p.fd]
    BY <2>3 DEF Deserialized, ClosePacketOf
  <2> QED BY <2>3, <2>4 DEF Returns
<1>6. ASSUME NEW flag \in {"OPEN_RESPONSE", "CLOSE_RESPONSE", "LSEEK_RESPONSE",
                           "REMOVE_RESPONSE"},
             NEW p \in [result : Int32]
      PROVE  Framed(flag, p) /\ Returns(flag, p)
  <2>1. Serialized(flag, p) = Wire(flag, p.result)
    BY DEF Serialized, OpenPacketResponse, CloseResponsePacket, LseekResponsePacket,
           RemoveResponsePacket, Wire
  <2>2. p.result \in Int /\ Signed(Unsigned(p.result)) = p.result
    BY WordsFit
  <2>3. /\ Framed(flag, p)
        /\ Word(Serialized(flag, p), header_size, 0) = Unsigned(p.result)
    <3>1. flag \in FlagNames
      BY SentFlagNames
    <3> QED BY <1>2, <2>1, <2>2, <3>1
  <2>4. Deserialized(flag, Serialized(flag, p)) = [result |-> p.result]
    BY <2>2, <2>3 DEF Deserialized, OpenPacketResponseOf, CloseResponsePacketOf,
                      LseekResponsePacketOf, RemoveResponsePacketOf
  <2> QED BY <2>3, <2>4 DEF Returns
<1> QED BY <1>3, <1>4, <1>5, <1>6

\* The classes with a string and nothing else.
LEMMA StringReturns ==
    /\ \A flag \in {"REMOVE", "OPENDIR", "FILE_STORAGE_STAT"} :
          \A p \in [filepath : Strings] :
             /\ Framed(flag, p) /\ Returns(flag, p)
             /\ Len(Serialized(flag, p)) = 13 + Len(p.filepath)
    /\ \A p \in [result : Strings] :
          /\ Framed("FILE_STORAGE_STAT_RESPONSE", p)
          /\ Returns("FILE_STORAGE_STAT_RESPONSE", p)
          /\ Len(Serialized("FILE_STORAGE_STAT_RESPONSE", p)) = 13 + Len(p.result)
<1> DEFINE Wire(flag, s) == Packet(0, flag, CString(s))
<1>1. ASSUME NEW flag \in FlagNames, NEW p, NEW s \in Strings,
             Serialized(flag, p) = Wire(flag, s)
      PROVE  /\ Framed(flag, p) /\ CStringAt(Serialized(flag, p), header_size) = s
             /\ Len(Serialized(flag, p)) = 13 + Len(s)
  <2> DEFINE ws == <<>>
  <2>1. ws \in Seq(Int) /\ Len(ws) = 0
    OBVIOUS
  <2>2. CString(s) = Words(ws) \o CString(s) /\ CString(s) \in Seq(Nat)
    <3>1. Words(ws) = <<>>
      <4> HIDE DEF ws
      <4>1. Words(ws) \in Seq(Nat) /\ Len(Words(ws)) = 4 * Len(ws)
        BY <2>1, WordsLaid
      <4>2. Len(Words(ws)) = 0
        BY <2>1, <4>1
      <4> HIDE DEF Words
      <4> QED BY <4>1, <4>2
    <3>2. CString(s) \in Seq(Nat)
      BY StringLaid
    <3> QED BY <3>1, <3>2, ConcatEmptySeq
  <2> HIDE DEF ws
  <2> DEFINE body == CString(s)
             buf == Wire(flag, s)
  <2>0. buf = Packet(0, flag, body) /\ body = Words(ws) \o CString(s)
    BY <2>2
  <2> HIDE DEF Wire, body, buf
  <2>3. /\ Reads(buf, 0, flag, ws, CString(s))
        /\ Len(buf) = 13 + 4 * Len(ws) + Len(s)
        /\ CStringAt(buf, 12 + 4 * Len(ws)) = s
    <3>1. ReadsString(buf, flag, ws, s)
      BY <2>0, <2>1, StringPacket
    <3> QED BY <3>1 DEF ReadsString
  <2> USE DEF buf
  <2>4. Framed(flag, p)
    BY <1>1, <2>1, <2>2, <2>3, ReadsFramed
  <2>5. 12 + 4 * Len(ws) = header_size /\ 13 + 4 * Len(ws) = 13
    BY <2>1 DEF header_size
  <2> QED BY <1>1, <2>3, <2>4, <2>5
<1> HIDE DEF Wire
<1>2. ASSUME NEW flag \in {"REMOVE", "OPENDIR", "FILE_STORAGE_STAT"},
             NEW p \in [filepath : Strings]
      PROVE  /\ Framed(flag, p) /\ Returns(flag, p)
             /\ Len(Serialized(flag, p)) = 13 + Len(p.filepath)
  <2>1. Serialized(flag, p) = Wire(flag, p.filepath)
    BY DEF Serialized, RemovePacket, OpendirPacket, FileStorageStatPacket, Wire
  <2>2. flag \in FlagNames
    BY SentFlagNames
  <2>3. /\ Framed(flag, p) /\ CStringAt(Serialized(flag, p), header_size) = p.filepath
        /\ Len(Serialized(flag, p)) = 13 + Len(p.filepath)
    BY <1>1, <2>1, <2>2
  <2>4. Deserialized(flag, Serialized(flag, p)) = [filepath |-> p.filepath]
    BY <2>3 DEF Deserialized, RemovePacketOf, OpendirPacketOf, FileStorageStatPacketOf
  <2> QED BY <2>3, <2>4 DEF Returns
<1>3. ASSUME NEW p \in [result : Strings]
      PROVE  /\ Framed("FILE_STORAGE_STAT_RESPONSE", p)
             /\ Returns("FILE_STORAGE_STAT_RESPONSE", p)
             /\ Len(Serialized("FILE_STORAGE_STAT_RESPONSE", p)) = 13 + Len(p.result)
  <2> DEFINE flag == "FILE_STORAGE_STAT_RESPONSE"
  <2>1. Serialized(flag, p) = Wire(flag, p.result)
    BY DEF Serialized, FileStorageStatResponsePacket, Wire
  <2>2. flag \in FlagNames
    BY SentFlagNames
  <2>3. /\ Framed(flag, p) /\ CStringAt(Serialized(flag, p), header_size) = p.result
        /\ Len(Serialized(flag, p)) = 13 + Len(p.result)
    BY <1>1, <2>1, <2>2
  <2>4. Deserialized(flag, Serialized(flag, p)) = [result |-> p.result]
    BY <2>3 DEF Deserialized, FileStorageStatResponsePacketOf
  <2> QED BY <2>3, <2>4 DEF Returns
<1> QED BY <1>2, <1>3

\* The classes with a word and a string.
LEMMA WordStringReturns ==
    /\ \A p \in [open_flags : Int32, filepath : Strings] :
          Framed("OPEN", p) /\ Returns("OPEN", p)
    /\ \A p \in [mode : Word32, filepath : Strings] :
          Framed("MKDIR", p) /\ Returns("MKDIR", p)
<1> DEFINE Wire(flag, x, s) == Packet(0, flag, Words(<<x>>) \o CString(s))
<1>1. ASSUME NEW flag \in FlagNames, NEW p, NEW x \in Int, NEW s \in Strings,
             Serialized(flag, p) = Wire(flag, x, s)
      PROVE  /\ Framed(flag, p)
             /\ CStringAt(Serialized(flag, p), header_size + 4) = s
             /\ Word(Serialized(flag, p), header_size, 0) = Unsigned(x)
  <2> DEFINE ws == <<x>>
             body == Words(ws) \o CString(s)
  <2>1. ws \in Seq(Int) /\ Len(ws) = 1 /\ ws[1] = x /\ CString(s) \in Seq(Nat)
    BY StringLaid
  <2>2. Wire(flag, x, s) = Packet(0, flag, body)
    OBVIOUS
  <2>0. body = Words(ws) \o CString(s)
    OBVIOUS
  <2> DEFINE buf == Wire(flag, x, s)
  <2> HIDE DEF ws, body, Wire, buf
  <2>3. /\ Reads(buf, 0, flag, ws, CString(s))
        /\ CStringAt(buf, 12 + 4 * Len(ws)) = s
    <3>1. ReadsString(buf, flag, ws, s)
      <4>1. buf = Packet(0, flag, body)
        BY <2>2 DEF buf
      <4> QED BY <2>0, <2>1, <4>1, StringPacket
    <3> QED BY <3>1 DEF ReadsString
  <2> USE DEF buf
  <2>4. Framed(flag, p)
    BY <1>1, <2>1, <2>3, ReadsFramed
  <2>5. 12 + 4 * Len(ws) = header_size + 4 /\ header_size = 12
    BY <2>1 DEF header_size
  <2>6. Word(Wire(flag, x, s), 12, 0) = Unsigned(x)
    <3>1. 0 \in 0 .. Len(ws) - 1 /\ ws[0 + 1] = x
      BY <2>1
    <3> QED BY <2>3, <3>1 DEF Reads
  <2> QED BY <1>1, <2>3, <2>4, <2>5, <2>6
<1> HIDE DEF Wire
<1>2. ASSUME NEW p \in [open_flags : Int32, filepath : Strings]
      PROVE  Framed("OPEN", p) /\ Returns("OPEN", p)
  <2>1. Serialized("OPEN", p) = Wire("OPEN", p.open_flags, p.filepath)
    BY DEF Serialized, OpenPacket, Wire
  <2>2. p.open_flags \in Int /\ Signed(Unsigned(p.open_flags)) = p.open_flags
    BY WordsFit
  <2>3. /\ Framed("OPEN", p)
        /\ CStringAt(Serialized("OPEN", p), header_size + 4) = p.filepath
        /\ Word(Serialized("OPEN", p), header_size, 0) = Unsigned(p.open_flags)
    BY <1>1, <2>1, <2>2, SentFlagNames
  <2>4. Deserialized("OPEN", Serialized("OPEN", p))
           = [open_flags |-> p.open_flags, filepath |-> p.filepath]
    BY <2>2, <2>3 DEF Deserialized, OpenPacketOf
  <2> QED BY <2>3, <2>4 DEF Returns
<1>3. ASSUME NEW p \in [mode : Word32, filepath : Strings]
      PROVE  Framed("MKDIR", p) /\ Returns("MKDIR", p)
  <2>1. Serialized("MKDIR", p) = Wire("MKDIR", p.mode, p.filepath)
    BY DEF Serialized, MkdirPacket, Wire
  <2>2. p.mode \in Int /\ Unsigned(p.mode) = p.mode
    BY WordsFit
  <2>3. /\ Framed("MKDIR", p)
        /\ CStringAt(Serialized("MKDIR", p), header_size + 4) = p.filepath
        /\ Word(Serialized("MKDIR", p), header_size, 0) = p.mode
    BY <1>1, <2>1, <2>2, SentFlagNames
  <2>4. Deserialized("MKDIR", Serialized("MKDIR", p))
           = [mode |-> p.mode, filepath |-> p.filepath]
    BY <2>3 DEF Deserialized, MkdirPacketOf
  <2> QED BY <2>3, <2>4 DEF Returns
<1> QED BY <1>2, <1>3

\* The three words of a seek; an offset that does not fit is cut.
LEMMA LseekReturns ==
    ASSUME NEW p \in [fd : Int32, offset : Int, whence : Int32]
    PROVE  Framed("LSEEK", p) /\ (p.offset \in Int32 => Returns("LSEEK", p))
<1> DEFINE ws == <<p.fd, p.offset, p.whence>>
           buf == Packet(0, "LSEEK", Words(ws))
<1>1. /\ p.fd \in Int /\ p.whence \in Int /\ Signed(Unsigned(p.fd)) = p.fd
      /\ Signed(Unsigned(p.whence)) = p.whence
      /\ p.offset \in Int32 => Signed(Unsigned(p.offset)) = p.offset
  BY WordsFit
<1>2. /\ ws \in Seq(Int) /\ Len(ws) = 3 /\ ws[1] = p.fd /\ ws[2] = p.offset
      /\ ws[3] = p.whence
  BY <1>1
<1>3. Serialized("LSEEK", p) = buf
  BY DEF Serialized, LseekPacket
<1> HIDE DEF ws
<1>4. 0 \in Word32 /\ <<>> \in Seq(Nat) /\ Words(ws) = Words(ws) \o <<>>
  BY <1>2, WordsLaid, ConcatEmptySeq, ModulusBounds DEF Word32
<1>5. Reads(buf, 0, "LSEEK", ws, <<>>)
  BY <1>2, <1>4, PacketReads, SentFlagNames
<1> HIDE DEF buf
<1>6. Framed("LSEEK", p)
  BY <1>2, <1>3, <1>4, <1>5, ReadsFramed
<1>7. /\ Word(buf, 12, 0) = Unsigned(p.fd) /\ Word(buf, 12, 1) = Unsigned(p.offset)
      /\ Word(buf, 12, 2) = Unsigned(p.whence)
  <2>1. \A i \in 0 .. 2 : Word(buf, 12, i) = Unsigned(ws[i + 1])
    <3>1. \A i \in 0 .. Len(ws) - 1 : Word(buf, 12, i) = Unsigned(ws[i + 1])
      BY <1>5 DEF Reads
    <3>2. Len(ws) - 1 = 2
      BY <1>2
    <3> QED BY <3>1, <3>2
  <2>2. {0, 1, 2} \subseteq 0 .. 2
    OBVIOUS
  <2>3. /\ Word(buf, 12, 0) = Unsigned(ws[1]) /\ Word(buf, 12, 1) = Unsigned(ws[2])
        /\ Word(buf, 12, 2) = Unsigned(ws[3])
    BY <2>1, <2>2
  <2> QED BY <1>2, <2>3
<1>8. header_size = 12
  BY DEF header_size
<1>9. Deserialized("LSEEK", buf) = [fd |-> p.fd, offset |-> Signed(Unsigned(p.offset)),
                                    whence |-> p.whence]
  BY <1>1, <1>7, <1>8 DEF Deserialized, LseekPacketOf
<1> QED BY <1>1, <1>3, <1>6, <1>9 DEF Returns

\* What a receiver finds in a packet without data, and in one with data, of the
\* classes built on FilePacket.
ReadsFile(buf, id, flag, p, data, q) ==
    /\ Reads(buf, id, flag, FileWords(p), data)
    /\ Len(buf) = 36 + Len(data)
    /\ q = [id |-> id, fd |-> Unsigned(p.fd), file_id |-> Unsigned(p.file_id),
            stripe_id |-> Unsigned(p.stripe_id),
            chunk_num |-> Unsigned(p.chunk_num), offset |-> Unsigned(p.offset),
            count |-> Signed(Unsigned(p.count)), data |-> data]

\* A FilePacket without data comes back.
LEMMA FileReads ==
    ASSUME NEW id \in Word32, NEW flag \in FlagNames, NEW p,
           {p.fd, p.file_id, p.stripe_id, p.chunk_num, p.offset, p.count}
               \subseteq Int
    PROVE  LET buf == FilePacket(id, flag, p, <<>>)
           IN  ReadsFile(buf, id, flag, p, <<>>, FilePacketOf(buf))
<1> DEFINE data == <<>>
           buf == FilePacket(id, flag, p, data)
<1>1. data \in Seq(Nat)
  OBVIOUS
<1> HIDE DEF data
<1>2. /\ Reads(buf, id, flag, FileWords(p), data)
      /\ Len(buf) = 36 + Len(data)
      /\ FilePacketOf(buf) =
            [id |-> id, fd |-> Unsigned(p.fd), file_id |-> Unsigned(p.file_id),
             stripe_id |-> Unsigned(p.stripe_id),
             chunk_num |-> Unsigned(p.chunk_num), offset |-> Unsigned(p.offset),
             count |-> Signed(Unsigned(p.count)), data |-> <<>>]
  BY <1>1, FilePacketReads
<1> QED BY <1>2 DEF data, buf, ReadsFile

\* A FileDataPacket comes back with its data, if count says how long it is.
LEMMA DataReads ==
    ASSUME NEW id \in Word32, NEW flag \in FlagNames, NEW p,
           {p.fd, p.file_id, p.stripe_id, p.chunk_num, p.offset} \subseteq Int,
           p.count \in Int32, p.data \in Seq(Nat), Len(p.data) = DataLen(p.count)
    PROVE  LET buf == FileDataPacket(id, flag, p)
           IN  ReadsFile(buf, id, flag, p, p.data, FileDataPacketOf(buf))
<1> DEFINE buf == FileDataPacket(id, flag, p)
<1>1. Signed(Unsigned(p.count)) = p.count
  BY WordsFit
<1>2. /\ Reads(buf, id, flag, FileWords(p), p.data)
      /\ Len(buf) = 36 + Len(p.data)
      /\ FileDataPacketOf(buf) =
            [id |-> id, fd |-> Unsigned(p.fd), file_id |-> Unsigned(p.file_id),
             stripe_id |-> Unsigned(p.stripe_id),
             chunk_num |-> Unsigned(p.chunk_num), offset |-> Unsigned(p.offset),
             count |-> p.count, data |-> p.data]
  BY FileDataReads
<1> HIDE DEF buf
<1> QED BY <1>1, <1>2 DEF buf, ReadsFile

\* The fields of a packet between Barista and a node come back.
LEMMA ChunkFieldsBack ==
    ASSUME NEW p \in ChunkFields
    PROVE  /\ {p.fd, p.file_id, p.stripe_id, p.chunk_num, p.offset, p.count}
                  \subseteq Int
           /\ p.id \in Word32 /\ p.count \in Int32 /\ p.data \in Seq(Nat)
           /\ Unsigned(p.fd) = p.fd /\ Unsigned(p.file_id) = p.file_id
           /\ Unsigned(p.stripe_id) = p.stripe_id
           /\ Unsigned(p.chunk_num) = p.chunk_num
           /\ Unsigned(p.offset) = p.offset
           /\ Signed(Unsigned(p.count)) = p.count
           /\ p = [id |-> p.id, fd |-> p.fd, file_id |-> p.file_id,
                   stripe_id |-> p.stripe_id, chunk_num |-> p.chunk_num,
                   offset |-> p.offset, count |-> p.count, data |-> p.data]
<1>1. /\ p.id \in Word32 /\ p.fd \in Word32 /\ p.file_id \in Word32
      /\ p.stripe_id \in Word32 /\ p.chunk_num \in Word32 /\ p.offset \in Word32
      /\ p.count \in Int32 /\ p.data \in Seq(Nat)
  BY DEF ChunkFields
<1>2. p = [id |-> p.id, fd |-> p.fd, file_id |-> p.file_id,
           stripe_id |-> p.stripe_id, chunk_num |-> p.chunk_num,
           offset |-> p.offset, count |-> p.count, data |-> p.data]
  BY DEF ChunkFields
<1> QED BY <1>1, <1>2, WordsFit

\* The size and the class of a packet of files.
LEMMA FileFramed ==
    ASSUME NEW flag, NEW f, NEW p, NEW id, NEW data \in Seq(Nat), NEW q,
           {p.fd, p.file_id, p.stripe_id, p.chunk_num, p.offset, p.count}
               \subseteq Int,
           ReadsFile(Serialized(flag, f), id, flag, p, data, q)
    PROVE  /\ Framed(flag, f)
           /\ Len(Serialized(flag, f)) = 36 + Len(data)
           /\ IdOf(Serialized(flag, f)) = id
<1> DEFINE ws == FileWords(p)
           buf == Serialized(flag, f)
<1>1. ws \in Seq(Int)
  BY DEF FileWords
<1> HIDE DEF ws, buf
<1>2. Reads(buf, id, flag, ws, data) /\ Len(buf) = 36 + Len(data)
  BY DEF ws, buf, ReadsFile
<1>3. Framed(flag, f)
  BY <1>1, <1>2, ReadsFramed DEF buf
<1>4. IdOf(buf) = id
  BY <1>2 DEF Reads
<1> QED BY <1>2, <1>3, <1>4 DEF buf

\* The classes between Barista and a node that carry no data.
LEMMA ChunkReturns ==
    ASSUME NEW flag \in {"READ_CHUNK", "WRITE_CHUNK_RESPONSE"},
           NEW p \in ChunkFields, p.data = <<>>
    PROVE  /\ Framed(flag, p) /\ Returns(flag, p)
           /\ Len(Serialized(flag, p)) = 36 + Len(p.data)
           /\ IdOf(Serialized(flag, p)) = p.id
<1> DEFINE buf == Serialized(flag, p)
           q == FilePacketOf(buf)
<1>1. buf = FilePacket(p.id, flag, p, <<>>)
  BY DEF Serialized, ReadChunkRequest, WriteChunkResponse
<1>2. Deserialized(flag, buf) = q
  BY DEF Deserialized, ReadChunkRequestOf, WriteChunkResponseOf
<1>3. flag \in FlagNames
  BY SentFlagNames
<1> HIDE DEF buf
<1>4. ReadsFile(buf, p.id, flag, p, <<>>, q)
  BY <1>1, <1>3, ChunkFieldsBack, FileReads
<1>5. ReadsFile(buf, p.id, flag, p, p.data, q)
  BY <1>4
<1>6. q = p
  BY <1>5, ChunkFieldsBack DEF ReadsFile
<1>7. /\ Framed(flag, p) /\ Len(buf) = 36 + Len(p.data)
      /\ IdOf(buf) = p.id
  <2> DEFINE data == <<>>
  <2>1. data \in Seq(Nat)
    OBVIOUS
  <2>2. {p.fd, p.file_id, p.stripe_id, p.chunk_num, p.offset, p.count} \subseteq Int
    BY ChunkFieldsBack
  <2>3. ReadsFile(Serialized(flag, p), p.id, flag, p, data, q)
    BY <1>4 DEF buf
  <2> HIDE DEF data, q
  <2>4. Framed(flag, p) /\ Len(Serialized(flag, p)) = 36 + Len(data)
        /\ IdOf(Serialized(flag, p)) = p.id
    BY <2>1, <2>2, <2>3, FileFramed
  <2> QED BY <2>4 DEF buf, data
<1> QED BY <1>2, <1>6, <1>7 DEF Returns, buf

\* The classes between Barista and a node that carry data.
LEMMA ChunkDataReturns ==
    ASSUME NEW flag \in {"WRITE_CHUNK", "READ_CHUNK_RESPONSE"},
           NEW p \in ChunkFields, Len(p.data) = DataLen(p.count)
    PROVE  /\ Framed(flag, p) /\ Returns(flag, p)
           /\ Len(Serialized(flag, p)) = 36 + Len(p.data)
           /\ IdOf(Serialized(flag, p)) = p.id
<1> DEFINE buf == Serialized(flag, p)
           q == FileDataPacketOf(buf)
<1>1. buf = FileDataPacket(p.id, flag, p)
  BY DEF Serialized, WriteChunkRequest, ReadChunkResponse
<1>2. Deserialized(flag, buf) = q
  BY DEF Deserialized, WriteChunkRequestOf, ReadChunkResponseOf
<1>3. flag \in FlagNames
  BY SentFlagNames
<1> HIDE DEF buf
<1>4. ReadsFile(buf, p.id, flag, p, p.data, q)
  BY <1>1, <1>3, ChunkFieldsBack, DataReads
<1>6. q = p
  BY <1>4, ChunkFieldsBack DEF ReadsFile
<1>7. /\ Framed(flag, p) /\ Len(buf) = 36 + Len(p.data)
      /\ IdOf(buf) = p.id
  <2>1. p.data \in Seq(Nat)
    BY ChunkFieldsBack
  <2> QED BY <1>4, <2>1, ChunkFieldsBack, FileFramed DEF buf
<1> QED BY <1>2, <1>6, <1>7 DEF Returns, buf

\* A delete comes back with the -1 of its constructor for offset and count.
DeletedFields(p) == [p EXCEPT !.offset = Modulus - 1, !.count = -1]

\* What becomes of a delete of a chunk and of its answer.
LEMMA DeleteReturns ==
    ASSUME NEW flag \in {"DELETE_CHUNK", "DELETE_CHUNK_RESPONSE"},
           NEW p \in ChunkFields, p.data = <<>>
    PROVE  /\ Framed(flag, p)
           /\ Deserialized(flag, Serialized(flag, p)) = DeletedFields(p)
           /\ Len(Serialized(flag, p)) = 36
           /\ IdOf(Serialized(flag, p)) = p.id
<1> DEFINE buf == Serialized(flag, p)
           q == FilePacketOf(buf)
           d == [p EXCEPT !.offset = -1, !.count = -1]
<1>1. buf = FilePacket(p.id, flag, d, <<>>)
  BY DEF Serialized, DeleteChunkRequest, DeleteChunkResponse
<1>2. Deserialized(flag, buf) = q
  BY DEF Deserialized, DeleteChunkRequestOf, DeleteChunkResponseOf
<1>3. flag \in FlagNames
  BY SentFlagNames
<1>4. /\ d.fd = p.fd /\ d.file_id = p.file_id /\ d.stripe_id = p.stripe_id
      /\ d.chunk_num = p.chunk_num /\ d.offset = -1 /\ d.count = -1
  BY DEF ChunkFields
<1> HIDE DEF buf, d
<1>5. {d.fd, d.file_id, d.stripe_id, d.chunk_num, d.offset, d.count} \subseteq Int
  BY <1>4, ChunkFieldsBack
<1>6. ReadsFile(buf, p.id, flag, d, <<>>, q)
  BY <1>1, <1>3, <1>5, ChunkFieldsBack, FileReads
<1>7. Unsigned(-1) = Modulus - 1 /\ Signed(Unsigned(-1)) = -1
  <2>1. -1 \in Int32
    BY ModulusBounds DEF Int32
  <2>2. Modulus \in Nat /\ Modulus > 1
    BY ModulusBounds
  <2> QED BY <2>1, <2>2, WordsFit DEF Unsigned
<1>8. q = DeletedFields(p)
  <2>1. q = [id |-> p.id, fd |-> p.fd, file_id |-> p.file_id,
             stripe_id |-> p.stripe_id, chunk_num |-> p.chunk_num,
             offset |-> Modulus - 1, count |-> -1, data |-> <<>>]
    BY <1>4, <1>6, <1>7, ChunkFieldsBack DEF ReadsFile
  <2>2. DeletedFields(p) =
            [id |-> p.id, fd |-> p.fd, file_id |-> p.file_id,
             stripe_id |-> p.stripe_id, chunk_num |-> p.chunk_num,
             offset |-> Modulus - 1, count |-> -1, data |-> <<>>]
    <3> DEFINE x == Modulus - 1
               y == -1
    <3>1. DeletedFields(p) = [p EXCEPT !.offset = x, !.count = y]
      BY DEF DeletedFields
    <3> HIDE DEF x, y
    <3>2. [p EXCEPT !.offset = x, !.count = y] =
             [id |-> p.id, fd |-> p.fd, file_id |-> p.file_id,
              stripe_id |-> p.stripe_id, chunk_num |-> p.chunk_num,
              offset |-> x, count |-> y, data |-> <<>>]
      <4> DEFINE e == [p EXCEPT !.offset = x, !.count = y]
      <4>1. e \in [id : Word32, fd : Word32, file_id : Word32, stripe_id : Word32,
                   chunk_num : Word32, offset : {x}, count : {y}, data : Seq(Nat)]
        BY DEF ChunkFields
      <4>2. /\ e.id = p.id /\ e.fd = p.fd /\ e.file_id = p.file_id
            /\ e.stripe_id = p.stripe_id /\ e.chunk_num = p.chunk_num
            /\ e.offset = x /\ e.count = y /\ e.data = <<>>
        BY DEF ChunkFields
      <4> HIDE DEF e
      <4>3. e = [id |-> p.id, fd |-> p.fd, file_id |-> p.file_id,
                 stripe_id |-> p.stripe_id, chunk_num |-> p.chunk_num,
                 offset |-> x, count |-> y, data |-> <<>>]
        BY <4>1, <4>2
      <4> QED BY <4>3 DEF e
    <3> QED BY <3>1, <3>2 DEF x, y
  <2> QED BY <2>1, <2>2
<1>9. /\ Framed(flag, p) /\ Len(buf) = 36 + Len(<<>>) /\ IdOf(buf) = p.id
  <2>1. <<>> \in Seq(Nat)
    OBVIOUS
  <2> QED BY <1>5, <1>6, <2>1, FileFramed DEF buf
<1> QED BY <1>2, <1>8, <1>9 DEF buf

\* A client's read and write, and their answers: the fields the packet has
\* beside these are 0.
LEMMA ClientFields ==
    ASSUME NEW fd \in Word32, NEW count \in Int32, NEW data \in Seq(Nat)
    PROVE  LET p == ClientFile(fd, count, data)
           IN  /\ p.fd = fd /\ p.count = count /\ p.data = data
               /\ {p.fd, p.file_id, p.stripe_id, p.chunk_num, p.offset, p.count}
                     \subseteq Int
               /\ Unsigned(p.fd) = fd /\ Signed(Unsigned(p.count)) = count
<1> DEFINE p == ClientFile(fd, count, data)
<1>1. /\ p.fd = fd /\ p.count = count /\ p.data = data
      /\ p.file_id = 0 /\ p.stripe_id = 0 /\ p.chunk_num = 0 /\ p.offset = 0
  BY DEF ClientFile
<1> HIDE DEF p
<1>2. fd \in Int /\ count \in Int /\ Unsigned(fd) = fd /\ Signed(Unsigned(count)) = count
  BY WordsFit
<1>3. {p.fd, p.file_id, p.stripe_id, p.chunk_num, p.offset, p.count} \subseteq Int
  BY <1>1, <1>2
<1> QED BY <1>1, <1>2, <1>3 DEF p

\* A read call and the answer to a write come back.
LEMMA ClientFileReturns ==
    /\ \A p \in [fd : Word32, count : Int32] :
          /\ Framed("READ", p) /\ Returns("READ", p)
          /\ Len(Serialized("READ", p)) = 36
    /\ \A p \in [fd : Word32, result : Int32] :
          /\ Framed("WRITE_RESPONSE", p) /\ Returns("WRITE_RESPONSE", p)
          /\ Len(Serialized("WRITE_RESPONSE", p)) = 36
<1> DEFINE none == <<>>
<1>1. none \in Seq(Nat) /\ 0 \in Word32 /\ Len(none) = 0
  BY ModulusBounds DEF Word32
<1>2. ASSUME NEW flag \in FlagNames, NEW f, NEW fd \in Word32, NEW count \in Int32,
             Serialized(flag, f) = FilePacket(0, flag, ClientFile(fd, count, <<>>), <<>>)
      PROVE  /\ Framed(flag, f) /\ Len(Serialized(flag, f)) = 36
             /\ FilePacketOf(Serialized(flag, f)).fd = fd
             /\ FilePacketOf(Serialized(flag, f)).count = count
  <2> DEFINE p == ClientFile(fd, count, none)
             buf == Serialized(flag, f)
             q == FilePacketOf(buf)
  <2>1. /\ {p.fd, p.file_id, p.stripe_id, p.chunk_num, p.offset, p.count}
              \subseteq Int
        /\ Unsigned(p.fd) = fd /\ Signed(Unsigned(p.count)) = count
    <3>1. none \in Seq(Nat)
      BY <1>1
    <3> HIDE DEF none
    <3> QED BY <3>1, ClientFields
  <2>2. buf = FilePacket(0, flag, p, <<>>)
    BY <1>2
  <2> HIDE DEF p, buf
  <2>3. ReadsFile(buf, 0, flag, p, <<>>, q)
    BY <1>1, <2>1, <2>2, FileReads
  <2>4. q.fd = fd /\ q.count = count
    BY <2>1, <2>3 DEF ReadsFile
  <2> HIDE DEF q
  <2>5. Framed(flag, f) /\ Len(Serialized(flag, f)) = 36 + Len(none)
    <3>1. ReadsFile(Serialized(flag, f), 0, flag, p, none, q)
      BY <2>3 DEF buf
    <3> HIDE DEF none
    <3> QED BY <1>1, <2>1, <3>1, FileFramed
  <2>6. Len(Serialized(flag, f)) = 36
    <3> HIDE DEF none
    <3> QED BY <1>1, <2>5
  <2> QED BY <2>4, <2>5, <2>6 DEF q, buf
<1>3. ASSUME NEW p \in [fd : Word32, count : Int32]
      PROVE  /\ Framed("READ", p) /\ Returns("READ", p)
             /\ Len(Serialized("READ", p)) = 36
  <2>1. Serialized("READ", p) = FilePacket(0, "READ", ClientFile(p.fd, p.count, <<>>), <<>>)
    BY DEF Serialized, ReadRequest
  <2>2. p.fd \in Word32 /\ p.count \in Int32 /\ "READ" \in FlagNames
    BY SentFlagNames
  <2>3. /\ Framed("READ", p) /\ Len(Serialized("READ", p)) = 36
        /\ FilePacketOf(Serialized("READ", p)).fd = p.fd
        /\ FilePacketOf(Serialized("READ", p)).count = p.count
    BY <1>2, <2>1, <2>2
  <2>4. Deserialized("READ", Serialized("READ", p)) = [fd |-> p.fd, count |-> p.count]
    BY <2>3 DEF Deserialized, ReadRequestOf
  <2> QED BY <2>3, <2>4 DEF Returns
<1>4. ASSUME NEW p \in [fd : Word32, result : Int32]
      PROVE  /\ Framed("WRITE_RESPONSE", p) /\ Returns("WRITE_RESPONSE", p)
             /\ Len(Serialized("WRITE_RESPONSE", p)) = 36
  <2> DEFINE flag == "WRITE_RESPONSE"
  <2>1. Serialized(flag, p) = FilePacket(0, flag, ClientFile(p.fd, p.result, <<>>), <<>>)
    BY DEF Serialized, WriteResponsePacket
  <2>2. p.fd \in Word32 /\ p.result \in Int32 /\ flag \in FlagNames
    BY SentFlagNames
  <2>3. /\ Framed(flag, p) /\ Len(Serialized(flag, p)) = 36
        /\ FilePacketOf(Serialized(flag, p)).fd = p.fd
        /\ FilePacketOf(Serialized(flag, p)).count = p.result
    BY <1>2, <2>1, <2>2
  <2>4. Deserialized(flag, Serialized(flag, p)) = [fd |-> p.fd, result |-> p.result]
    BY <2>3 DEF Deserialized, WriteResponsePacketOf
  <2> QED BY <2>3, <2>4 DEF Returns
<1> QED BY <1>3, <1>4

\* The data of a client's write and of the answer to a read is as long as the
\* count says.
WriteFields == {p \in [fd : Word32, count : Int32, data : Seq(Nat)] :
                    Len(p.data) = DataLen(p.count)}

\* The answer to a read has as many bytes as its result says, none for an error.
ReadAnswers == {p \in [fd : Word32, result : Int32, data : Seq(Nat)] :
                    Len(p.data) = DataLen(p.result)}

\* A write call and the answer to a read come back.
LEMMA ClientDataReturns ==
    /\ \A p \in WriteFields :
          /\ Framed("WRITE", p) /\ Returns("WRITE", p)
          /\ Len(Serialized("WRITE", p)) = 36 + Len(p.data)
    /\ \A p \in ReadAnswers :
          /\ Framed("READ_RESPONSE", p) /\ Returns("READ_RESPONSE", p)
          /\ Len(Serialized("READ_RESPONSE", p)) = 36 + Len(p.data)
<1>1. 0 \in Word32
  BY ModulusBounds DEF Word32
<1>2. ASSUME NEW flag \in FlagNames, NEW f, NEW fd \in Word32, NEW count \in Int32,
             NEW data \in Seq(Nat), Len(data) = DataLen(count),
             Serialized(flag, f) = FileDataPacket(0, flag, ClientFile(fd, count, data))
      PROVE  /\ Framed(flag, f) /\ Len(Serialized(flag, f)) = 36 + Len(data)
             /\ FileDataPacketOf(Serialized(flag, f)).fd = fd
             /\ FileDataPacketOf(Serialized(flag, f)).count = count
             /\ FileDataPacketOf(Serialized(flag, f)).data = data
  <2> DEFINE p == ClientFile(fd, count, data)
             buf == Serialized(flag, f)
             q == FileDataPacketOf(buf)
  <2>1. /\ p.data = data /\ p.count = count
        /\ {p.fd, p.file_id, p.stripe_id, p.chunk_num, p.offset, p.count}
              \subseteq Int
        /\ Unsigned(p.fd) = fd /\ Signed(Unsigned(p.count)) = count
    BY ClientFields
  <2>2. buf = FileDataPacket(0, flag, p)
    BY <1>2
  <2> HIDE DEF p, buf
  <2>3. ReadsFile(buf, 0, flag, p, p.data, q)
    <3>1. /\ {p.fd, p.file_id, p.stripe_id, p.chunk_num, p.offset} \subseteq Int
          /\ p.count \in Int32 /\ p.data \in Seq(Nat)
          /\ Len(p.data) = DataLen(p.count)
      BY <1>2, <2>1
    <3> QED BY <1>1, <2>2, <3>1, DataReads
  <2>4. q.fd = fd /\ q.count = count /\ q.data = data
    BY <2>1, <2>3 DEF ReadsFile
  <2> HIDE DEF q
  <2>5. Framed(flag, f) /\ Len(Serialized(flag, f)) = 36 + Len(data)
    <3>1. ReadsFile(Serialized(flag, f), 0, flag, p, data, q)
      BY <2>1, <2>3 DEF buf
    <3> QED BY <2>1, <3>1, FileFramed
  <2> QED BY <2>4, <2>5 DEF q, buf
<1>3. ASSUME NEW p \in WriteFields
      PROVE  /\ Framed("WRITE", p) /\ Returns("WRITE", p)
             /\ Len(Serialized("WRITE", p)) = 36 + Len(p.data)
  <2> DEFINE flag == "WRITE"
  <2>1. Serialized(flag, p) = FileDataPacket(0, flag, ClientFile(p.fd, p.count, p.data))
    BY DEF Serialized, WritePacket
  <2>2. /\ p.fd \in Word32 /\ p.count \in Int32 /\ p.data \in Seq(Nat)
        /\ Len(p.data) = DataLen(p.count) /\ flag \in FlagNames
        /\ p = [fd |-> p.fd, count |-> p.count, data |-> p.data]
    BY SentFlagNames DEF WriteFields
  <2>3. /\ Framed(flag, p) /\ Len(Serialized(flag, p)) = 36 + Len(p.data)
        /\ FileDataPacketOf(Serialized(flag, p)).fd = p.fd
        /\ FileDataPacketOf(Serialized(flag, p)).count = p.count
        /\ FileDataPacketOf(Serialized(flag, p)).data = p.data
    BY <1>2, <2>1, <2>2
  <2>4. Deserialized(flag, Serialized(flag, p))
           = [fd |-> p.fd, count |-> p.count, data |-> p.data]
    BY <2>3 DEF Deserialized, WritePacketOf
  <2> QED BY <2>2, <2>3, <2>4 DEF Returns
<1>4. ASSUME NEW p \in ReadAnswers
      PROVE  /\ Framed("READ_RESPONSE", p) /\ Returns("READ_RESPONSE", p)
             /\ Len(Serialized("READ_RESPONSE", p)) = 36 + Len(p.data)
  <2> DEFINE flag == "READ_RESPONSE"
  <2>1. Serialized(flag, p) = FileDataPacket(0, flag, ClientFile(p.fd, p.result, p.data))
    BY DEF Serialized, ReadResponsePacket
  <2>2. /\ p.fd \in Word32 /\ p.result \in Int32 /\ p.data \in Seq(Nat)
        /\ Len(p.data) = DataLen(p.result) /\ flag \in FlagNames
        /\ p = [fd |-> p.fd, result |-> p.result, data |-> p.data]
    BY SentFlagNames DEF ReadAnswers
  <2>3. /\ Framed(flag, p) /\ Len(Serialized(flag, p)) = 36 + Len(p.data)
        /\ FileDataPacketOf(Serialized(flag, p)).fd = p.fd
        /\ FileDataPacketOf(Serialized(flag, p)).count = p.result
        /\ FileDataPacketOf(Serialized(flag, p)).data = p.data
    BY <1>2, <2>1, <2>2
  <2>4. Deserialized(flag, Serialized(flag, p))
           = [fd |-> p.fd, result |-> p.result, data |-> p.data]
    BY <2>3 DEF Deserialized, ReadResponsePacketOf
  <2> QED BY <2>2, <2>3, <2>4 DEF Returns
<1> QED BY <1>3, <1>4

\* The flags of the packets that are sent.
RequestFlags == {"READ_CHUNK", "WRITE_CHUNK", "DELETE_CHUNK"}

AnswerFlags == {"READ_CHUNK_RESPONSE", "WRITE_CHUNK_RESPONSE",
                "DELETE_CHUNK_RESPONSE"}

CallFlags == {"OPEN", "READ", "WRITE", "CLOSE", "LSEEK", "REMOVE", "MKDIR",
              "OPENDIR", "FILE_STORAGE_STAT"}

\* All of them, with the answers to the calls.
SentFlags ==
    {"ESPRESSO_INIT", "DECAFS_CLIENT_INIT", "READ_CHUNK", "WRITE_CHUNK",
     "DELETE_CHUNK", "READ_CHUNK_RESPONSE", "WRITE_CHUNK_RESPONSE",
     "DELETE_CHUNK_RESPONSE", "OPEN", "READ", "WRITE", "CLOSE", "LSEEK",
     "REMOVE", "MKDIR", "OPENDIR", "FILE_STORAGE_STAT", "OPEN_RESPONSE",
     "READ_RESPONSE", "WRITE_RESPONSE", "CLOSE_RESPONSE", "LSEEK_RESPONSE",
     "REMOVE_RESPONSE", "FILE_STORAGE_STAT_RESPONSE"}

\* The fields a class has room for.  An offset is wider than its word.
Fields(flag) ==
    CASE flag = "ESPRESSO_INIT" -> [node_id : Word32]
      [] flag = "DECAFS_CLIENT_INIT" -> [user_id : Word32]
      [] flag \in {"READ_CHUNK", "WRITE_CHUNK_RESPONSE", "DELETE_CHUNK",
                   "DELETE_CHUNK_RESPONSE"} ->
            {p \in ChunkFields : p.data = <<>>}
      [] flag \in {"WRITE_CHUNK", "READ_CHUNK_RESPONSE"} ->
            {p \in ChunkFields : Len(p.data) = DataLen(p.count)}
      [] flag = "OPEN" -> [open_flags : Int32, filepath : Strings]
      [] flag = "READ" -> [fd : Word32, count : Int32]
      [] flag = "WRITE" -> WriteFields
      [] flag = "CLOSE" -> [fd : Word32]
      [] flag = "LSEEK" -> [fd : Int32, offset : Int, whence : Int32]
      [] flag = "MKDIR" -> [mode : Word32, filepath : Strings]
      [] flag \in {"REMOVE", "OPENDIR", "FILE_STORAGE_STAT"} -> [filepath : Strings]
      [] flag \in {"OPEN_RESPONSE", "CLOSE_RESPONSE", "LSEEK_RESPONSE",
                   "REMOVE_RESPONSE"} -> [result : Int32]
      [] flag = "READ_RESPONSE" -> ReadAnswers
      [] flag = "WRITE_RESPONSE" -> [fd : Word32, result : Int32]
      [] flag = "FILE_STORAGE_STAT_RESPONSE" -> [result : Strings]

\* A packet of any class tells its receiver its size and its class, and the
\* fields come out as they went in, as far as the class has room for them and
\* the receiver uses them.
THEOREM FieldsReturn ==
    ASSUME NEW flag \in SentFlags, NEW p \in Fields(flag)
    PROVE  /\ Framed(flag, p)
           /\ (flag = "LSEEK" => p.offset \in Int32) =>
                 Used(flag, Deserialized(flag, Serialized(flag, p))) = Used(flag, p)
<1> DEFINE Goal == /\ Framed(flag, p)
                   /\ (flag = "LSEEK" => p.offset \in Int32) =>
                        Used(flag, Deserialized(flag, Serialized(flag, p))) = Used(flag, p)
<1>1. ASSUME Framed(flag, p), Returns(flag, p) PROVE Goal
  BY <1>1 DEF Returns
<1>2. CASE flag \in {"ESPRESSO_INIT", "DECAFS_CLIENT_INIT", "CLOSE", "OPEN_RESPONSE",
                    "CLOSE_RESPONSE", "LSEEK_RESPONSE", "REMOVE_RESPONSE"}
  <2>1. Framed(flag, p) /\ Returns(flag, p)
    BY <1>2, OneWordReturns DEF Fields
  <2> QED BY <1>1, <2>1
<1>3. CASE flag \in {"REMOVE", "OPENDIR", "FILE_STORAGE_STAT", "FILE_STORAGE_STAT_RESPONSE"}
  <2>1. Framed(flag, p) /\ Returns(flag, p)
    BY <1>3, StringReturns DEF Fields
  <2> QED BY <1>1, <2>1
<1>4. CASE flag \in {"OPEN", "MKDIR"}
  <2>1. Framed(flag, p) /\ Returns(flag, p)
    BY <1>4, WordStringReturns DEF Fields
  <2> QED BY <1>1, <2>1
<1>5. CASE flag = "LSEEK"
  <2>1. p \in [fd : Int32, offset : Int, whence : Int32]
    BY <1>5 DEF Fields
  <2>2. Framed("LSEEK", p) /\ (p.offset \in Int32 => Returns("LSEEK", p))
    BY <2>1, LseekReturns
  <2> QED BY <1>5, <2>2 DEF Returns
<1>6. CASE flag \in {"READ_CHUNK", "WRITE_CHUNK_RESPONSE"}
  <2>1. p \in ChunkFields /\ p.data = <<>>
    BY <1>6 DEF Fields
  <2>2. Framed(flag, p) /\ Returns(flag, p)
    BY <1>6, <2>1, ChunkReturns
  <2> QED BY <1>1, <2>2
<1>7. CASE flag \in {"WRITE_CHUNK", "READ_CHUNK_RESPONSE"}
  <2>1. p \in ChunkFields /\ Len(p.data) = DataLen(p.count)
    BY <1>7 DEF Fields
  <2>2. Framed(flag, p) /\ Returns(flag, p)
    BY <1>7, <2>1, ChunkDataReturns
  <2> QED BY <1>1, <2>2
<1>8. CASE flag \in {"DELETE_CHUNK", "DELETE_CHUNK_RESPONSE"}
  <2>1. p \in ChunkFields /\ p.data = <<>>
    BY <1>8 DEF Fields
  <2>2. Framed(flag, p) /\ Deserialized(flag, Serialized(flag, p)) = DeletedFields(p)
    BY <1>8, <2>1, DeleteReturns
  <2>3. /\ DeletedFields(p).id = p.id /\ DeletedFields(p).file_id = p.file_id
        /\ DeletedFields(p).stripe_id = p.stripe_id
        /\ DeletedFields(p).chunk_num = p.chunk_num
    BY <2>1 DEF DeletedFields, ChunkFields
  <2>4. Used(flag, DeletedFields(p)) = Used(flag, p)
    BY <1>8, <2>3 DEF Used
  <2> QED BY <2>2, <2>4
<1>9. CASE flag \in {"READ", "WRITE_RESPONSE"}
  <2>1. Framed(flag, p) /\ Returns(flag, p)
    BY <1>9, ClientFileReturns DEF Fields
  <2> QED BY <1>1, <2>1
<1>10. CASE flag \in {"WRITE", "READ_RESPONSE"}
  <2>1. Framed(flag, p) /\ Returns(flag, p)
    BY <1>10, ClientDataReturns DEF Fields
  <2> QED BY <1>1, <2>1
<1> QED BY <1>2, <1>3, <1>4, <1>5, <1>6, <1>7, <1>8, <1>9, <1>10 DEF SentFlags

\* The messages that go over the connections: their size fits into its word.
Messages == {m \in [call : Nat, flag : SentFlags,
                    p : UNION {Fields(f) : f \in SentFlags}] :
                 /\ m.p \in Fields(m.flag)
                 /\ Len(Serialized(m.flag, m.p)) \in Int32}

\* The bytes of a message.
Ser(m) == Serialized(m.flag, m.p)

\* The bytes of every message of q.
Sers(q) == [i \in DOMAIN q |-> Ser(q[i])]

\* The bytes of packets that are sent one after the other.
Stream(q) == FlattenSeq(Sers(q))

-------------------------------------------------------------------------------
(* The inductive invariant *)

\* What lies in the buffers of a channel are the bytes of the packets that have
\* been sent and not handled yet, in their order.
StreamOK(ch) ==
    /\ pending[ch] \in Seq(Nat) /\ wire[ch] \in Seq(Nat)
    /\ arrived[ch] \in Seq(Nat) /\ flight[ch] \in Seq(Messages)
    /\ arrived[ch] \o (wire[ch] \o pending[ch]) = Stream(flight[ch])
    /\ Len(wire[ch]) <= capacity /\ Len(arrived[ch]) <= capacity

\* So it is on every channel, whatever the capacity of its buffers.
Streams == /\ pending = [ch \in Channels |-> pending[ch]]
           /\ wire = [ch \in Channels |-> wire[ch]]
           /\ arrived = [ch \in Channels |-> arrived[ch]]
           /\ flight = [ch \in Channels |-> flight[ch]]
           /\ capacity \in Capacities
           /\ \A ch \in Channels : StreamOK(ch)

\* The packets under way from and to an end.
Up(e) == flight[<<e, "up">>]

Down(e) == flight[<<e, "down">>]

\* The calls of a client.
CallsOf(c) == {Message(k, call.flag, call.p) : k \in 1 .. MaxCalls, call \in Calls[c]}

\* The requests of a client.
Mine(c) == {i \in DOMAIN active : active[i].client = c}

\* A client has at most one call under way: it is on its way to Barista, with
\* Barista, or answered.
Idle(c) ==
    /\ Up(c) \in {<<>>, <<Registration(c)>>}
    /\ Mine(c) = {} /\ Down(c) = <<>>
    /\ calling[c] # None => calling[c].flag \in {"MKDIR", "OPENDIR"}

\* The call, maybe behind the registration, is on its way to Barista.
Asked(c) ==
    /\ calling[c] # None
    /\ Up(c) \in {<<calling[c]>>, <<Registration(c), calling[c]>>}
    /\ Mine(c) = {} /\ Down(c) = <<>>

\* Barista has exactly one request of the client, that of its call.
Served(c) ==
    /\ calling[c] # None
    /\ Up(c) = <<>>
    /\ \E i \in DOMAIN active : /\ Mine(c) = {i}
                                /\ active[i].call = calling[c].call
                                /\ active[i].flag = calling[c].flag
    /\ Down(c) = <<>>

\* The answer of this very call is on its way back, and nothing else is.
Answered(c) ==
    /\ calling[c] # None
    /\ calling[c].flag \notin {"MKDIR", "OPENDIR"}
    /\ Up(c) = <<>> /\ Mine(c) = {}
    /\ \E m \in Messages : /\ Down(c) = <<m>>
                           /\ m.call = calling[c].call
                           /\ m.flag = ResponseFlag(calling[c].flag)

\* One of the four.
SessionOK(c) == /\ calling[c] \in CallsOf(c) \cup {None}
                /\ Idle(c) \/ Asked(c) \/ Served(c) \/ Answered(c)

\* Barista's requests.
Pieces == {<<>>} \cup {<<b>> : b \in Nat}

\* The sum of the answers and those that are left stay within the chunks, so
\* that result and error both fit into a word.
RequestOK(i) ==
    /\ active[i] \in [client : Clients, call : Nat,
                      flag : {"READ", "WRITE", "REMOVE"}, left : 1 .. MaxChunks,
                      sum : Int, data : [1 .. MaxChunks -> Pieces]]
    /\ active[i].sum + active[i].left <= MaxChunks
    /\ active[i].left - active[i].sum <= MaxChunks

\* The node's packets, the answers before the requests it has still to answer:
\* a chunk keeps its place when it is answered.
Queue == Up(Node) \o Down(Node)

\* The packets between Barista and the node: of one chunk, with a count of 1
\* or, of a failure or a delete, -1.
ChunkFlags == RequestFlags \cup AnswerFlags

ChunkMessage(m) ==
    /\ m \in Messages /\ m.flag \in ChunkFlags
    /\ m.p \in ChunkFields
    /\ m.p.chunk_num \in 1 .. MaxChunks
    /\ m.p.count \in {1, -1} /\ (m.flag \in RequestFlags => m.p.count = 1)
    /\ m.p.data \in Pieces

\* The chunks of request i that the packets q are about.
MissingOf(q, i) == {k \in 1 .. MaxChunks :
                       \E j \in 1 .. Len(q) : q[j].p.id = i /\ q[j].p.chunk_num = k}

\* Each packet belongs to one of the requests act, no two are about the same
\* chunk, and a request counts the chunks that have not been answered.
QueueOK(q, act) ==
    /\ \A j \in 1 .. Len(q) : /\ ChunkMessage(q[j])
                              /\ q[j].p.id \in DOMAIN act
                              /\ act[q[j].p.id].call = q[j].call
    /\ \A j, k \in 1 .. Len(q) :
          q[j].p.id = q[k].p.id /\ q[j].p.chunk_num = q[k].p.chunk_num => j = k
    /\ \A i \in DOMAIN act : act[i].left = Cardinality(MissingOf(q, i))

\* Before the node is registered no request has been sent to it.
NodeNew == /\ Up(Node) = <<Registration(Node)>>
           /\ Down(Node) = <<>>
           /\ DOMAIN active = {}

\* Afterwards requests go down and answers come up, as QueueOK says.
NodeRuns ==
    /\ \A j \in 1 .. Len(Up(Node)) : Up(Node)[j].flag \in AnswerFlags
    /\ \A j \in 1 .. Len(Down(Node)) : Down(Node)[j].flag \in RequestFlags
    /\ QueueOK(Queue, active)

\* Clients whose call has not reached Barista.
Asking == {c \in Clients : \E i \in DOMAIN Up(c) :
                              Up(c)[i].flag # "DECAFS_CLIENT_INIT"}

\* Request ids are not reused: there are as many left as calls that can ask.
CountOK == /\ request_id \in Nat /\ calls \in 0 .. MaxCalls
           /\ request_id + Cardinality(Asking) <= calls
           /\ DOMAIN active \subseteq 1 .. request_id

\* Every client is in a session.
Sessions == /\ calling = [c \in Clients |-> calling[c]]
            /\ \A c \in Clients : SessionOK(c)

\* Every request is well formed.
Requests == \A i \in DOMAIN active : RequestOK(i)

\* What clients, Barista and the node have noted fits the packets under way.
Logic == Sessions /\ Requests /\ (NodeNew \/ NodeRuns) /\ CountOK

\* The inductive invariant.
IInv == torn \in Channels \cup {None} /\ Streams /\ Logic

-------------------------------------------------------------------------------
(* Torn packets *)

\* The packets on a client's connection fit into one segment, together with the
\* registration packet.
Short(ch) ==
    /\ Lesser(MSS, capacity) >= 16
    /\ \A i \in DOMAIN flight[ch] :
          \/ flight[ch][i].flag = "DECAFS_CLIENT_INIT"
          \/ Len(Ser(flight[ch][i])) + 16 <= Lesser(MSS, capacity)

\* Where packets are that short, nothing waits for room, and what has arrived
\* is whole packets.
ShortOK(ch) ==
    Short(ch) => /\ pending[ch] = <<>>
                 /\ \E k \in 0 .. Len(flight[ch]) :
                       arrived[ch] = Stream(SubSeq(flight[ch], 1, k))

\* A client's packet was torn only where packets are not.
TornOK == torn # None /\ torn[1] \in Clients =>
              flight[torn] # <<>> /\ ~Short(torn)

\* The strengthening of ClientsTornOnlyByLength, inductive next to IInv.
TornInv == /\ \A ch \in Channels : ch[1] \in Clients => ShortOK(ch)
           /\ TornOK

-------------------------------------------------------------------------------
(* Streams of packets *)

\* A sequence is cut in two.
LEMMA SplitAt ==
    ASSUME NEW S, NEW s \in Seq(S), NEW n \in 0 .. Len(s)
    PROVE  /\ SubSeq(s, 1, n) \in Seq(S) /\ SubSeq(s, n + 1, Len(s)) \in Seq(S)
           /\ Len(SubSeq(s, 1, n)) = n /\ Len(SubSeq(s, n + 1, Len(s))) = Len(s) - n
           /\ SubSeq(s, 1, n) \o SubSeq(s, n + 1, Len(s)) = s
<1> DEFINE l == Len(s)
           m == n + 1
           a == SubSeq(s, 1, n)
           b == SubSeq(s, m, l)
<1>1. l \in Nat /\ n \in Nat /\ n <= l /\ \A i \in 1 .. l : s[i] \in S
  OBVIOUS
<1>2. a \in Seq(S) /\ Len(a) = n
  <2>1. 1 \in Int /\ n \in Int /\ \A i \in 1 .. n : s[i] \in S
    BY <1>1
  <2>2. a \in Seq(S) /\ Len(a) = IF 1 <= n THEN n - 1 + 1 ELSE 0
    BY <2>1, SubSeqProperties
  <2> HIDE DEF a
  <2> QED BY <1>1, <2>2
<1>3. b \in Seq(S) /\ Len(b) = l - n
  <2>1. m \in Int /\ l \in Int /\ \A i \in m .. l : s[i] \in S
    BY <1>1
  <2>2. b \in Seq(S) /\ Len(b) = IF m <= l THEN l - m + 1 ELSE 0
    <3> HIDE DEF m, l
    <3> QED BY <2>1, SubSeqProperties
  <2> HIDE DEF b
  <2> QED BY <1>1, <2>2
<1>4. a \o b = s
  <2>1. 1 \in 1 .. Len(s) + 1 /\ n \in 1 - 1 .. Len(s) /\ Len(s) \in n .. Len(s)
    BY <1>1
  <2>2. SubSeq(s, 1, n) \o SubSeq(s, n + 1, Len(s)) = SubSeq(s, 1, Len(s))
    BY <2>1, ConcatAdjacentSubSeq
  <2> QED BY <2>2, SubSeqFull
<1> QED BY <1>2, <1>3, <1>4

\* And joined again with what follows.
LEMMA SplitBefore ==
    ASSUME NEW S, NEW s \in Seq(S), NEW n \in 0 .. Len(s), NEW b \in Seq(S)
    PROVE  s \o b = SubSeq(s, 1, n) \o (SubSeq(s, n + 1, Len(s)) \o b)
<1> DEFINE c == SubSeq(s, 1, n)
           d == SubSeq(s, n + 1, Len(s))
<1>1. c \in Seq(S) /\ d \in Seq(S)
  BY SplitAt
<1>2. c \o d = s
  BY SplitAt
<1> HIDE DEF c, d
<1>3. (c \o d) \o b = c \o (d \o b)
  <2>1. AnyOrder(c, d, b)
    BY <1>1, JoinedInAnyOrder
  <2> QED BY <2>1 DEF AnyOrder
<1> QED BY <1>2, <1>3 DEF c, d

\* Two ways to cut a sequence in two.
LEMMA TwoCuts ==
    ASSUME NEW S, NEW a \in Seq(S), NEW b \in Seq(S), NEW x \in Seq(S), NEW y \in Seq(S),
           a \o b = x \o y
    PROVE  /\ \A i \in 1 .. Len(a) : i <= Len(x) => a[i] = x[i]
           /\ Len(x) <= Len(a) =>
                 /\ SubSeq(a, 1, Len(x)) = x
                 /\ SubSeq(a, Len(x) + 1, Len(a)) \o b = y
<1>1. Len(a) \in Nat /\ Len(b) \in Nat /\ Len(x) \in Nat /\ Len(y) \in Nat
  OBVIOUS
<1>2. /\ \A i \in 1 .. Len(a) + Len(b) :
            (a \o b)[i] = IF i <= Len(a) THEN a[i] ELSE b[i - Len(a)]
      /\ Len(a \o b) = Len(a) + Len(b)
  BY ConcatProperties
<1>3. /\ \A i \in 1 .. Len(x) + Len(y) :
            (x \o y)[i] = IF i <= Len(x) THEN x[i] ELSE y[i - Len(x)]
      /\ Len(x \o y) = Len(x) + Len(y)
  BY ConcatProperties
<1>4. ASSUME NEW i \in 1 .. Len(a), i <= Len(x) PROVE a[i] = x[i]
  <2>1. i \in 1 .. Len(a) + Len(b) /\ i \in 1 .. Len(x) + Len(y) /\ i <= Len(a)
    BY <1>1, <1>4
  <2> QED BY <1>2, <1>3, <1>4, <2>1
<1>5. ASSUME Len(x) <= Len(a)
      PROVE  SubSeq(a, 1, Len(x)) = x /\ SubSeq(a, Len(x) + 1, Len(a)) \o b = y
  <2> DEFINE n == Len(x)
             c == SubSeq(a, 1, n)
             d == SubSeq(a, n + 1, Len(a))
  <2>1. n \in 0 .. Len(a)
    BY <1>1, <1>5
  <2>2. c \in Seq(S) /\ d \in Seq(S) /\ Len(c) = n /\ c \o d = a
    <3> HIDE DEF n
    <3> QED BY <2>1, SplitAt
  <2>3. \A i \in 1 .. Len(c) : c[i] = x[i]
    <3> SUFFICES ASSUME NEW i \in 1 .. Len(c) PROVE c[i] = x[i]
      OBVIOUS
    <3>1. i \in 1 .. Len(a) /\ i <= Len(x)
      BY <1>1, <1>5, <2>2
    <3>2. a[i] = x[i]
      BY <1>4, <3>1
    <3>3. /\ 1 \in Int /\ n \in Int /\ i \in 1 .. n - 1 + 1 /\ 1 + i - 1 = i
          /\ \A j \in 1 .. n : a[j] \in S
      <4>1. Len(c) = n
        BY <2>2
      <4> HIDE DEF c
      <4>2. i \in Nat /\ i >= 1 /\ i <= n
        BY <1>1, <4>1
      <4>3. \A j \in 1 .. Len(a) : a[j] \in S
        OBVIOUS
      <4> QED BY <1>1, <1>5, <4>2, <4>3
    <3>4. c[i] = a[1 + i - 1]
      <4> HIDE DEF n
      <4> QED BY <3>3, SubSeqProperties
    <3> QED BY <3>2, <3>3, <3>4
  <2> HIDE DEF c, d
  <2>4. c = x
    BY <2>2, <2>3, SeqEqual
  <2>5. x \o (d \o b) = x \o y
    <3>1. a \o b = c \o (d \o b)
      <4>1. n \in 0 .. Len(a)
        BY <2>1
      <4> HIDE DEF n
      <4> QED BY <4>1, SplitBefore DEF c, d
    <3> QED BY <2>4, <3>1
  <2>6. d \o b \in Seq(S)
    BY <2>2, ConcatProperties
  <2> DEFINE e == d \o b
  <2> HIDE DEF e
  <2>7. e = y
    <3>1. e \in Seq(S) /\ x \o e = x \o y
      BY <2>5, <2>6 DEF e
    <3> QED BY <3>1, ConcatSimplifications
  <2> QED BY <2>4, <2>7 DEF c, d, e
<1> QED BY <1>4, <1>5

\* What is known of a message.
LEMMA MessageBytes ==
    ASSUME NEW m \in Messages
    PROVE  /\ m.flag \in SentFlags /\ m.p \in Fields(m.flag) /\ m.call \in Nat
           /\ Ser(m) \in Seq(Nat) /\ Len(Ser(m)) \in Nat /\ Len(Ser(m)) >= 12
           /\ Len(Ser(m)) \in Int32
           /\ SizeOfPacket(Ser(m)) = Len(Ser(m)) /\ FlagOf(Ser(m)) = m.flag
<1>1. m.flag \in SentFlags /\ m.p \in Fields(m.flag) /\ Len(Ser(m)) \in Int32 /\ m.call \in Nat
  BY DEF Messages, Ser
<1>2. Framed(m.flag, m.p)
  BY <1>1, FieldsReturn
<1> QED BY <1>1, <1>2 DEF Framed, Ser

\* The bytes of packets.
LEMMA SersType ==
    ASSUME NEW q \in Seq(Messages)
    PROVE  Sers(q) \in Seq(Seq(Nat)) /\ Len(Sers(q)) = Len(q) /\ Stream(q) \in Seq(Nat)
<1>1. \A i \in 1 .. Len(q) : Ser(q[i]) \in Seq(Nat)
  BY MessageBytes
<1>2. Sers(q) \in Seq(Seq(Nat)) /\ Len(Sers(q)) = Len(q)
  BY <1>1 DEF Sers
<1> QED BY <1>2, FlattenType DEF Stream

\* More packets add their bytes at the end.
LEMMA StreamConcat ==
    ASSUME NEW q \in Seq(Messages), NEW r \in Seq(Messages)
    PROVE  Stream(q \o r) = Stream(q) \o Stream(r)
<1> DEFINE a == Sers(q)
           b == Sers(r)
           u == q \o r
           c == Sers(u)
<1>1. /\ u \in Seq(Messages) /\ Len(u) = Len(q) + Len(r)
      /\ \A i \in 1 .. Len(q) + Len(r) :
            u[i] = IF i <= Len(q) THEN q[i] ELSE r[i - Len(q)]
  BY ConcatProperties
<1> HIDE DEF u
<1>2. /\ a \in Seq(Seq(Nat)) /\ Len(a) = Len(q) /\ b \in Seq(Seq(Nat)) /\ Len(b) = Len(r)
      /\ c \in Seq(Seq(Nat)) /\ Len(c) = Len(u)
  BY <1>1, SersType
<1>3. /\ \A i \in 1 .. Len(q) : a[i] = Ser(q[i])
      /\ \A i \in 1 .. Len(r) : b[i] = Ser(r[i])
      /\ \A i \in 1 .. Len(u) : c[i] = Ser(u[i])
  BY <1>1 DEF Sers
<1> HIDE DEF a, b, c
<1>4. c = a \o b
  <2>1. /\ a \o b \in Seq(Seq(Nat)) /\ Len(a \o b) = Len(a) + Len(b)
        /\ \A i \in 1 .. Len(a) + Len(b) :
              (a \o b)[i] = IF i <= Len(a) THEN a[i] ELSE b[i - Len(a)]
    BY <1>2, ConcatProperties
  <2>2. Len(q) \in Nat /\ Len(r) \in Nat
    OBVIOUS
  <2>3. Len(c) = Len(a \o b) /\ Len(c) = Len(q) + Len(r)
    BY <1>1, <1>2, <2>1
  <2>4. ASSUME NEW i \in 1 .. Len(c) PROVE c[i] = (a \o b)[i]
    <3>1. CASE i <= Len(q)
      <4>1. i \in 1 .. Len(q) /\ i \in 1 .. Len(a) + Len(b) /\ i <= Len(a) /\ i \in 1 .. Len(u)
            /\ i \in 1 .. Len(q) + Len(r)
        BY <1>1, <1>2, <2>2, <2>3, <3>1
      <4> QED BY <1>1, <1>3, <2>1, <4>1, <3>1
    <3>2. CASE ~(i <= Len(q))
      <4> DEFINE j == i - Len(q)
      <4>1. j \in 1 .. Len(r) /\ i \in 1 .. Len(a) + Len(b) /\ ~(i <= Len(a))
            /\ i \in 1 .. Len(u) /\ i - Len(a) = j /\ i \in 1 .. Len(q) + Len(r)
        BY <1>1, <1>2, <2>2, <2>3, <3>2
      <4>2. u[i] = r[j]
        BY <1>1, <3>2, <4>1
      <4>3. (a \o b)[i] = b[j]
        BY <2>1, <4>1
      <4> HIDE DEF j
      <4> QED BY <1>3, <4>1, <4>2, <4>3
    <3> QED BY <3>1, <3>2
  <2> DEFINE e == a \o b
  <2> HIDE DEF e
  <2>5. c = e
    <3>1. e \in Seq(Seq(Nat)) /\ Len(c) = Len(e) /\ \A i \in 1 .. Len(c) : c[i] = e[i]
      BY <2>1, <2>3, <2>4 DEF e
    <3> QED BY <1>2, <3>1, SeqEqual
  <2> QED BY <2>5 DEF e
<1>5. FlattenSeq(a \o b) = FlattenSeq(a) \o FlattenSeq(b)
  BY <1>2, FlattenConcat
<1> QED BY <1>4, <1>5 DEF Stream, a, b, c, u

\* The bytes of one packet.
LEMMA StreamOne ==
    ASSUME NEW m \in Messages PROVE Stream(<<m>>) = Ser(m) /\ <<m>> \in Seq(Messages)
<1>1. Sers(<<m>>) = <<Ser(m)>>
  BY DEF Sers
<1> QED BY <1>1, MessageBytes, FlattenOne DEF Stream

\* No packet has no bytes.
LEMMA StreamEmpty == Stream(<<>>) = <<>>
<1>1. Sers(<<>>) = <<>>
  BY DEF Sers
<1> QED BY <1>1, FlattenEmpty DEF Stream

\* The bytes of the first packet come first.
LEMMA StreamHead ==
    ASSUME NEW q \in Seq(Messages), q # <<>>
    PROVE  /\ Head(q) \in Messages /\ Tail(q) \in Seq(Messages)
           /\ Stream(q) = Ser(Head(q)) \o Stream(Tail(q))
<1> DEFINE m == Head(q)
           r == Tail(q)
<1>1. m \in Messages /\ r \in Seq(Messages) /\ q = <<m>> \o r
  OBVIOUS
<1> HIDE DEF m, r
<1>2. Stream(q) = Stream(<<m>>) \o Stream(r)
  BY <1>1, StreamOne, StreamConcat
<1> QED BY <1>1, <1>2, StreamOne DEF m, r

\* Bytes come only from packets.
LEMMA StreamNonEmpty ==
    ASSUME NEW q \in Seq(Messages), q # <<>>
    PROVE  Stream(q) # <<>>
<1>1. /\ Head(q) \in Messages /\ Tail(q) \in Seq(Messages)
      /\ Stream(q) = Ser(Head(q)) \o Stream(Tail(q))
  BY StreamHead
<1>2. Ser(Head(q)) \in Seq(Nat) /\ Len(Ser(Head(q))) >= 12 /\ Stream(Tail(q)) \in Seq(Nat)
  BY <1>1, MessageBytes, SersType
<1> DEFINE a == Ser(Head(q))
           b == Stream(Tail(q))
<1> HIDE DEF a, b
<1>3. Len(a \o b) = Len(a) + Len(b) /\ Len(b) \in Nat /\ Len(a) >= 12 /\ Len(a) \in Nat
  BY <1>2, ConcatProperties DEF a, b
<1>4. Stream(q) = a \o b
  BY <1>1 DEF a, b
<1>5. Len(a \o b) # 0 /\ Len(<<>>) = 0
  BY <1>3
<1> QED BY <1>4, <1>5

\* What a receiver peeks at: the next packet, once its size is there.
LEMMA Peeked ==
    ASSUME NEW a \in Seq(Nat), NEW b \in Seq(Nat), NEW q \in Seq(Messages),
           a \o b = Stream(q), a # <<>>
    PROVE  /\ q # <<>> /\ Head(q) \in Messages /\ Tail(q) \in Seq(Messages)
           /\ Len(a) >= 4 => SizeOfPacket(a) = Len(Ser(Head(q)))
           /\ Len(a) >= Len(Ser(Head(q))) =>
                 /\ SubSeq(a, 1, Len(Ser(Head(q)))) = Ser(Head(q))
                 /\ SubSeq(a, Len(Ser(Head(q))) + 1, Len(a)) \o b = Stream(Tail(q))
                 /\ FlagOf(a) = Head(q).flag /\ IdOf(a) = IdOf(Ser(Head(q)))
<1> DEFINE x == Ser(Head(q))
           y == Stream(Tail(q))
<1>1. q # <<>>
  <2> SUFFICES ASSUME q = <<>> PROVE FALSE
    OBVIOUS
  <2>1. a \o b = <<>>
    BY StreamEmpty
  <2> QED BY <2>1, ConcatEqualIffEmpty
<1>2. Head(q) \in Messages /\ Tail(q) \in Seq(Messages) /\ a \o b = x \o y
  BY <1>1, StreamHead
<1>3. /\ x \in Seq(Nat) /\ Len(x) \in Nat /\ Len(x) >= 12 /\ SizeOfPacket(x) = Len(x)
      /\ FlagOf(x) = Head(q).flag
  BY <1>2, MessageBytes
<1>4. y \in Seq(Nat)
  BY <1>2, SersType
<1>5. /\ \A i \in 1 .. Len(a) : i <= Len(x) => a[i] = x[i]
      /\ Len(x) <= Len(a) =>
            SubSeq(a, 1, Len(x)) = x /\ SubSeq(a, Len(x) + 1, Len(a)) \o b = y
  <2> HIDE DEF x, y
  <2> QED BY <1>2, <1>3, <1>4, TwoCuts
<1> HIDE DEF x, y
<1>6. Len(a) >= 4 => SizeOfPacket(a) = Len(x)
  <2> SUFFICES ASSUME Len(a) >= 4 PROVE SizeOfPacket(a) = Len(x)
    OBVIOUS
  <2>0. \A i \in 1 .. 4 : i \in 1 .. Len(a) /\ i <= Len(x)
    BY <1>3
  <2>1. \A i \in 1 .. 4 : a[i] = x[i]
    BY <1>5, <2>0
  <2>2. Word(a, 0, 0) = Word(x, 0, 0)
    <3>1. a[1] = x[1] /\ a[2] = x[2] /\ a[3] = x[3] /\ a[4] = x[4]
      BY <2>1
    <3> QED BY <3>1 DEF Word
  <2> QED BY <1>3, <2>2 DEF SizeOfPacket
<1>7. ASSUME Len(a) >= Len(x) PROVE FlagOf(a) = Head(q).flag /\ IdOf(a) = IdOf(x)
  <2>0. \A i \in 1 .. 12 : i \in 1 .. Len(a) /\ i <= Len(x)
    BY <1>3, <1>7
  <2>1. \A i \in 1 .. 12 : a[i] = x[i]
    BY <1>5, <2>0
  <2>2. /\ a[5] = x[5] /\ a[6] = x[6] /\ a[7] = x[7] /\ a[8] = x[8]
        /\ a[9] = x[9] /\ a[10] = x[10] /\ a[11] = x[11] /\ a[12] = x[12]
    BY <2>1
  <2>3. Word(a, 0, 1) = Word(x, 0, 1) /\ Word(a, 0, 2) = Word(x, 0, 2)
    <3>1. ASSUME NEW s
          PROVE  /\ Word(s, 0, 1) = s[5] + Radix * (s[6] + Radix * (s[7] + Radix * s[8]))
                 /\ Word(s, 0, 2) = s[9] + Radix * (s[10] + Radix * (s[11] + Radix * s[12]))
      BY DEF Word
    <3> QED BY <2>2, <3>1
  <2> QED BY <1>3, <2>3 DEF FlagOf, IdOf
<1>8. Len(a) >= Len(x) => Len(x) <= Len(a)
  BY <1>3
<1> QED BY <1>1, <1>2, <1>5, <1>6, <1>7, <1>8 DEF x, y

\* A send copies what its buffer takes and keeps the rest.
LEMMA Copied ==
    ASSUME NEW w \in Seq(Nat), NEW b \in Seq(Nat), capacity \in Nat, Len(w) <= capacity
    PROVE  LET n == Room(w, Len(b))
           IN  /\ n \in 0 .. Len(b)
               /\ w \o SubSeq(b, 1, n) \in Seq(Nat)
               /\ Len(w \o SubSeq(b, 1, n)) <= capacity
               /\ SubSeq(b, n + 1, Len(b)) \in Seq(Nat)
               /\ (w \o SubSeq(b, 1, n)) \o SubSeq(b, n + 1, Len(b)) = w \o b
<1> DEFINE n == Room(w, Len(b))
           c == SubSeq(b, 1, n)
           d == SubSeq(b, n + 1, Len(b))
<1>1. Len(w) \in Nat /\ Len(b) \in Nat
  OBVIOUS
<1>2. n \in 0 .. Len(b) /\ Len(w) + n <= capacity
  BY <1>1 DEF Room, Lesser
<1> HIDE DEF n
<1>3. c \in Seq(Nat) /\ d \in Seq(Nat) /\ Len(c) = n
  BY <1>2, SplitAt
<1>4. c \o d = b
  BY <1>2, SplitAt
<1> HIDE DEF c, d
<1>5. w \o c \in Seq(Nat) /\ Len(w \o c) = Len(w) + n
  BY <1>3, ConcatProperties
<1>6. (w \o c) \o d = w \o (c \o d)
  <2>1. AnyOrder(w, c, d)
    BY <1>3, JoinedInAnyOrder
  <2> QED BY <2>1 DEF AnyOrder
<1> QED BY <1>2, <1>3, <1>4, <1>5, <1>6 DEF n, c, d

\* Packets ms are sent after the packets q, part of whose bytes have arrived.
LEMMA Joined ==
    ASSUME NEW a \in Seq(Nat), NEW w \in Seq(Nat), NEW q \in Seq(Messages),
           NEW ms \in Seq(Messages), a \o (w \o <<>>) = Stream(q)
    PROVE  a \o (w \o Stream(ms)) = Stream(q \o ms)
<1> DEFINE b == Stream(ms)
<1>1. b \in Seq(Nat)
  BY SersType
<1>2. a \o w = Stream(q)
  BY ConcatEmptySeq
<1>3. Stream(q \o ms) = Stream(q) \o b
  BY StreamConcat
<1> HIDE DEF b
<1> DEFINE s == Stream(q)
           t == Stream(q \o ms)
<1>4. a \o w = s /\ t = s \o b
  BY <1>2, <1>3
<1> HIDE DEF s, t
<1>5. (a \o w) \o b = a \o (w \o b)
  <2>1. AnyOrder(a, w, b)
    BY <1>1, JoinedInAnyOrder
  <2> QED BY <2>1 DEF AnyOrder
<1> QED BY <1>4, <1>5 DEF b, t

-------------------------------------------------------------------------------
(* The bytes of a channel are those of its packets *)

\* What the assumptions say of the sizes.
LEMMA Constants ==
    /\ MSS \in Nat /\ MSS > 0 /\ MaxCalls \in Nat /\ MaxCalls > 0
    /\ MaxChunks \in Nat /\ MaxChunks >= 2
    /\ \A n \in Capacities : n \in Nat /\ n >= 16
  BY StreamAssumption DEF header_size

\* Every end has a channel up and one down, all different.
LEMMA ChannelShape ==
    /\ \A ch \in Channels : /\ ch = <<ch[1], ch[2]>>
                            /\ ch[1] \in Ends /\ ch[2] \in {"up", "down"}
    /\ \A e \in Ends : /\ <<e, "up">> \in Channels /\ <<e, "down">> \in Channels
                       /\ <<e, "up">> # <<e, "down">>
    /\ Node \in Ends /\ \A c \in Clients : c \in Ends /\ c # Node
    /\ \A e, f \in Ends : <<e, "up">> # <<f, "down">>
    /\ "up" # "down"
<1>1. \A e, f \in Ends : <<e, "up">> # <<f, "down">>
  OBVIOUS
<1> QED BY <1>1, StreamAssumption DEF Channels, Ends

\* The packet that a receiver finds.
Received(ch) ==
    LET m == Head(flight[ch])
        n == Len(Ser(m))
    IN  /\ flight[ch] # <<>> /\ m \in Messages /\ Tail(flight[ch]) \in Seq(Messages)
        /\ n \in Nat /\ Len(arrived[ch]) \in Nat
        /\ Whole(ch) <=> Len(arrived[ch]) >= n
        /\ Whole(ch) =>
              /\ SizeOfPacket(arrived[ch]) = n
              /\ Buffer(ch) = Ser(m)
              /\ FlagOf(arrived[ch]) = m.flag /\ IdOf(arrived[ch]) = IdOf(Ser(m))
              /\ SubSeq(arrived[ch], n + 1, Len(arrived[ch])) \o (wire[ch] \o pending[ch])
                    = Stream(Tail(flight[ch]))

\* What a receiver finds when it calls recv: the bytes of the oldest packet
\* under way, with its size in front.
LEMMA ReceivedNext ==
    ASSUME NEW ch \in Channels, StreamOK(ch), arrived[ch] # <<>>
    PROVE  Received(ch)
<1> DEFINE a == arrived[ch]
           b == wire[ch] \o pending[ch]
           q == flight[ch]
           m == Head(q)
           n == Len(Ser(m))
<1>1. a \in Seq(Nat) /\ b \in Seq(Nat) /\ q \in Seq(Messages) /\ a \o b = Stream(q)
  <2>1. wire[ch] \in Seq(Nat) /\ pending[ch] \in Seq(Nat)
    BY DEF StreamOK
  <2> QED BY <2>1, ConcatProperties DEF StreamOK
<1>2. a # <<>>
  OBVIOUS
<1> HIDE DEF a, b, q
<1>3. /\ q # <<>> /\ m \in Messages /\ Tail(q) \in Seq(Messages)
      /\ Len(a) >= 4 => SizeOfPacket(a) = n
      /\ Len(a) >= n =>
            /\ SubSeq(a, 1, n) = Ser(m)
            /\ SubSeq(a, n + 1, Len(a)) \o b = Stream(Tail(q))
            /\ FlagOf(a) = m.flag /\ IdOf(a) = IdOf(Ser(m))
  BY <1>1, <1>2, Peeked
<1> HIDE DEF m
<1>4. n \in Nat /\ n >= 12 /\ Len(a) \in Nat
  <2>1. Len(Ser(m)) \in Nat /\ Len(Ser(m)) >= 12
    BY <1>3, MessageBytes
  <2>2. Len(a) \in Nat
    BY <1>1
  <2> QED BY <2>1, <2>2
<1> HIDE DEF n
<1>5. Whole(ch) <=> Len(a) >= n
  <2>1. Whole(ch) <=> Len(a) >= 4 /\ SizeOfPacket(a) <= Len(a)
    BY DEF Whole, a
  <2> QED BY <1>3, <1>4, <2>1
<1>6. ASSUME Len(a) >= n
      PROVE  SizeOfPacket(a) = n /\ Buffer(ch) = Ser(m)
  <2>1. SizeOfPacket(a) = n
    BY <1>3, <1>4, <1>6
  <2> QED BY <1>3, <1>6, <2>1 DEF Buffer, a
<1> QED BY <1>3, <1>4, <1>5, <1>6 DEF Received, a, b, q, m, n

\* A packet is taken from ch and the packets ms are sent on out.
LEMMA HandleStream ==
    ASSUME Streams, NEW ch \in Channels, NEW out \in Channels, ch # out,
           arrived[ch] # <<>>, Whole(ch), pending[out] = <<>>,
           NEW ms \in Seq(Messages), Handle(ch, out, ms), capacity' = capacity
    PROVE  /\ Streams'
           /\ flight' = [flight EXCEPT ![ch] = Tail(@), ![out] = @ \o ms]
           /\ arrived'[out] = arrived[out]
           /\ \A x \in Channels : x # out => pending'[x] = pending[x]
<1> DEFINE n == Len(Ser(Head(flight[ch])))
           rest == SubSeq(arrived[ch], n + 1, Len(arrived[ch]))
           bytes == Stream(ms)
           k == Room(wire[out], Len(bytes))
           w == wire[out] \o SubSeq(bytes, 1, k)
           p == SubSeq(bytes, k + 1, Len(bytes))
<1>0. capacity \in Nat /\ StreamOK(ch) /\ StreamOK(out)
  BY Constants DEF Streams
<1>1. Received(ch)
  BY <1>0, ReceivedNext
<1>2. /\ flight[ch] # <<>> /\ Tail(flight[ch]) \in Seq(Messages)
      /\ n \in Nat /\ Len(arrived[ch]) \in Nat /\ n <= Len(arrived[ch])
      /\ SizeOfPacket(arrived[ch]) = n
      /\ rest \o (wire[ch] \o pending[ch]) = Stream(Tail(flight[ch]))
  BY <1>1 DEF Received
<1>3. rest \in Seq(Nat) /\ Len(rest) <= capacity
  <2>1. n \in 0 .. Len(arrived[ch]) /\ arrived[ch] \in Seq(Nat)
    BY <1>0, <1>2 DEF StreamOK
  <2>2. rest \in Seq(Nat) /\ Len(rest) = Len(arrived[ch]) - n
    <3> HIDE DEF n
    <3> QED BY <2>1, SplitAt
  <2> HIDE DEF n, rest
  <2> QED BY <1>0, <1>2, <2>2 DEF StreamOK
<1> HIDE DEF n, rest
<1>4. /\ wire[out] \in Seq(Nat) /\ arrived[out] \in Seq(Nat)
      /\ flight[out] \in Seq(Messages) /\ bytes \in Seq(Nat)
      /\ arrived[out] \o (wire[out] \o <<>>) = Stream(flight[out])
      /\ Len(wire[out]) <= capacity /\ Len(arrived[out]) <= capacity
  BY <1>0, SersType DEF StreamOK
<1>5. arrived[out] \o (wire[out] \o bytes) = Stream(flight[out] \o ms)
  BY <1>4, Joined
<1>6. Send(out, ms) => wire' = [wire EXCEPT ![out] = w]
                       /\ pending' = [pending EXCEPT ![out] = p]
  BY DEF Send, Stream, Sers, Ser
<1> HIDE DEF bytes
<1>7. w \in Seq(Nat) /\ p \in Seq(Nat) /\ Len(w) <= capacity /\ w \o p = wire[out] \o bytes
  BY <1>0, <1>4, Copied
<1> HIDE DEF k, w, p
<1>8. /\ arrived' = [arrived EXCEPT ![ch] = rest]
      /\ flight' = [flight EXCEPT ![ch] = Tail(@), ![out] = @ \o ms]
      /\ wire' = [wire EXCEPT ![out] = w] /\ pending' = [pending EXCEPT ![out] = p]
  BY <1>2, <1>6 DEF Handle, rest
<1>9. /\ pending = [x \in Channels |-> pending[x]] /\ wire = [x \in Channels |-> wire[x]]
      /\ arrived = [x \in Channels |-> arrived[x]] /\ flight = [x \in Channels |-> flight[x]]
  BY DEF Streams
<1>10. flight[out] \o ms \in Seq(Messages)
  BY <1>4, ConcatProperties
<1>11. StreamOK(ch)'
  <2>1. /\ arrived'[ch] = rest /\ flight'[ch] = Tail(flight[ch])
        /\ wire'[ch] = wire[ch] /\ pending'[ch] = pending[ch]
    BY <1>8, <1>9
  <2>2. /\ pending[ch] \in Seq(Nat) /\ wire[ch] \in Seq(Nat)
        /\ Len(wire[ch]) <= capacity
    BY <1>0 DEF StreamOK
  <2> QED BY <1>2, <1>3, <2>1, <2>2 DEF StreamOK
<1>12. StreamOK(out)'
  <2>1. /\ arrived'[out] = arrived[out] /\ flight'[out] = flight[out] \o ms
        /\ wire'[out] = w /\ pending'[out] = p
    BY <1>8, <1>9
  <2> QED BY <1>4, <1>5, <1>7, <1>10, <2>1 DEF StreamOK
<1>13. ASSUME NEW x \in Channels, x # ch, x # out PROVE StreamOK(x)'
  <2>1. /\ arrived'[x] = arrived[x] /\ flight'[x] = flight[x]
        /\ wire'[x] = wire[x] /\ pending'[x] = pending[x]
    BY <1>8, <1>9, <1>13
  <2>2. StreamOK(x)
    BY DEF Streams
  <2> QED BY <2>1, <2>2 DEF StreamOK
<1>14. /\ pending' = [x \in Channels |-> pending'[x]] /\ wire' = [x \in Channels |-> wire'[x]]
       /\ arrived' = [x \in Channels |-> arrived'[x]]
       /\ flight' = [x \in Channels |-> flight'[x]]
  BY <1>8, <1>9
<1>15. \A x \in Channels : StreamOK(x)'
  BY <1>11, <1>12, <1>13
<1>16. capacity' \in Capacities
  BY DEF Streams
<1>17. Streams'
  BY <1>14, <1>15, <1>16 DEF Streams
<1>18. arrived'[out] = arrived[out] /\ \A x \in Channels : x # out => pending'[x] = pending[x]
  BY <1>8, <1>9
<1> QED BY <1>8, <1>17, <1>18

\* A packet is sent on out.
LEMMA PostStream ==
    ASSUME Streams, NEW out \in Channels, pending[out] = <<>>,
           NEW m \in Messages, Send(out, <<m>>),
           flight' = [flight EXCEPT ![out] = Append(@, m)],
           UNCHANGED <<arrived, capacity>>
    PROVE  Streams'
<1> DEFINE ms == <<m>>
           bytes == Stream(ms)
           k == Room(wire[out], Len(bytes))
           w == wire[out] \o SubSeq(bytes, 1, k)
           p == SubSeq(bytes, k + 1, Len(bytes))
<1>0. capacity \in Nat /\ StreamOK(out) /\ ms \in Seq(Messages)
  BY Constants DEF Streams
<1>1. flight' = [flight EXCEPT ![out] = @ \o ms]
  BY <1>0, AppendIsConcat DEF StreamOK
<1> HIDE DEF ms
<1>4. /\ wire[out] \in Seq(Nat) /\ arrived[out] \in Seq(Nat)
      /\ flight[out] \in Seq(Messages) /\ bytes \in Seq(Nat)
      /\ arrived[out] \o (wire[out] \o <<>>) = Stream(flight[out])
      /\ Len(wire[out]) <= capacity /\ Len(arrived[out]) <= capacity
  BY <1>0, SersType DEF StreamOK
<1>5. arrived[out] \o (wire[out] \o bytes) = Stream(flight[out] \o ms)
  BY <1>0, <1>4, Joined
<1>6. wire' = [wire EXCEPT ![out] = w] /\ pending' = [pending EXCEPT ![out] = p]
  BY DEF Send, Stream, Sers, Ser, ms
<1> HIDE DEF bytes
<1>7. w \in Seq(Nat) /\ p \in Seq(Nat) /\ Len(w) <= capacity /\ w \o p = wire[out] \o bytes
  BY <1>0, <1>4, Copied
<1> HIDE DEF k, w, p
<1>9. /\ pending = [x \in Channels |-> pending[x]] /\ wire = [x \in Channels |-> wire[x]]
      /\ arrived = [x \in Channels |-> arrived[x]] /\ flight = [x \in Channels |-> flight[x]]
  BY DEF Streams
<1>10. flight[out] \o ms \in Seq(Messages)
  BY <1>0, <1>4, ConcatProperties
<1>12. StreamOK(out)'
  <2>1. /\ arrived'[out] = arrived[out] /\ flight'[out] = flight[out] \o ms
        /\ wire'[out] = w /\ pending'[out] = p
    BY <1>1, <1>6, <1>9
  <2> QED BY <1>4, <1>5, <1>7, <1>10, <2>1 DEF StreamOK
<1>13. ASSUME NEW x \in Channels, x # out PROVE StreamOK(x)'
  <2>1. /\ arrived'[x] = arrived[x] /\ flight'[x] = flight[x]
        /\ wire'[x] = wire[x] /\ pending'[x] = pending[x]
    BY <1>1, <1>6, <1>9, <1>13
  <2>2. StreamOK(x)
    BY DEF Streams
  <2> QED BY <2>1, <2>2 DEF StreamOK
<1>14. /\ pending' = [x \in Channels |-> pending'[x]] /\ wire' = [x \in Channels |-> wire'[x]]
       /\ arrived' = [x \in Channels |-> arrived'[x]]
       /\ flight' = [x \in Channels |-> flight'[x]]
  BY <1>1, <1>6, <1>9
<1>15. \A x \in Channels : StreamOK(x)'
  BY <1>12, <1>13
<1>16. capacity' \in Capacities
  BY DEF Streams
<1> QED BY <1>14, <1>15, <1>16 DEF Streams

\* A blocked send goes on.
LEMMA SendMoreStream ==
    ASSUME Streams, NEW ch \in Channels, SendMore(ch)
    PROVE  Streams'
<1> DEFINE b == pending[ch]
           k == Room(wire[ch], Len(b))
           w == wire[ch] \o SubSeq(b, 1, k)
           p == SubSeq(b, k + 1, Len(b))
<1>0. capacity \in Nat /\ StreamOK(ch)
  BY Constants DEF Streams
<1>1. /\ wire' = [wire EXCEPT ![ch] = w] /\ pending' = [pending EXCEPT ![ch] = p]
      /\ arrived' = arrived /\ flight' = flight /\ capacity' = capacity
  BY DEF SendMore
<1>2. b \in Seq(Nat) /\ wire[ch] \in Seq(Nat) /\ Len(wire[ch]) <= capacity
  BY <1>0 DEF StreamOK
<1> HIDE DEF b
<1>3. w \in Seq(Nat) /\ p \in Seq(Nat) /\ Len(w) <= capacity /\ w \o p = wire[ch] \o b
  BY <1>0, <1>2, Copied
<1> HIDE DEF k, w, p
<1>4. /\ pending = [x \in Channels |-> pending[x]] /\ wire = [x \in Channels |-> wire[x]]
      /\ arrived = [x \in Channels |-> arrived[x]] /\ flight = [x \in Channels |-> flight[x]]
      /\ capacity \in Capacities
  BY DEF Streams
<1>5. StreamOK(ch)'
  <2>1. wire'[ch] = w /\ pending'[ch] = p
    BY <1>1, <1>4
  <2> QED BY <1>0, <1>1, <1>3, <2>1 DEF StreamOK, b
<1>6. ASSUME NEW x \in Channels, x # ch PROVE StreamOK(x)'
  <2>1. wire'[x] = wire[x] /\ pending'[x] = pending[x]
    BY <1>1, <1>4, <1>6
  <2>2. StreamOK(x)
    BY DEF Streams
  <2> QED BY <1>1, <2>1, <2>2 DEF StreamOK
<1>7. pending' = [x \in Channels |-> pending'[x]] /\ wire' = [x \in Channels |-> wire'[x]]
  BY <1>1, <1>4
<1>8. \A x \in Channels : StreamOK(x)'
  BY <1>5, <1>6
<1> QED BY <1>1, <1>4, <1>7, <1>8 DEF Streams

\* A segment is delivered.
LEMMA DeliverStream ==
    ASSUME Streams, NEW ch \in Channels, Deliver(ch)
    PROVE  Streams'
<1> DEFINE w == wire[ch]
           a == arrived[ch]
           p == pending[ch]
           k == Room(a, Lesser(MSS, Len(w)))
           c == SubSeq(w, 1, k)
           d == SubSeq(w, k + 1, Len(w))
<1>0. capacity \in Nat /\ StreamOK(ch) /\ MSS \in Nat
  BY Constants DEF Streams
<1>1. /\ arrived' = [arrived EXCEPT ![ch] = a \o c] /\ wire' = [wire EXCEPT ![ch] = d]
      /\ pending' = pending /\ flight' = flight /\ capacity' = capacity
  BY DEF Deliver
<1>2. /\ w \in Seq(Nat) /\ a \in Seq(Nat) /\ p \in Seq(Nat)
      /\ Len(w) <= capacity /\ Len(a) <= capacity
      /\ a \o (w \o p) = Stream(flight[ch])
  BY <1>0 DEF StreamOK
<1> HIDE DEF w, a, p
<1>3. k \in 0 .. Len(w) /\ Len(a) + k <= capacity
  <2>1. Len(w) \in Nat /\ Len(a) \in Nat
    BY <1>2
  <2> QED BY <1>0, <1>2, <2>1 DEF Room, Lesser
<1> HIDE DEF k
<1>4. c \in Seq(Nat) /\ d \in Seq(Nat) /\ Len(c) = k /\ Len(d) = Len(w) - k
  BY <1>2, <1>3, SplitAt
<1>5. w \o p = c \o (d \o p)
  BY <1>2, <1>3, SplitBefore
<1> HIDE DEF c, d
<1>6. /\ a \o c \in Seq(Nat) /\ Len(a \o c) = Len(a) + k /\ d \o p \in Seq(Nat)
  BY <1>2, <1>4, ConcatProperties
<1>7. (a \o c) \o (d \o p) = a \o (c \o (d \o p))
  <2>1. a \in Seq(Nat) /\ c \in Seq(Nat)
    BY <1>2, <1>4
  <2> DEFINE e == d \o p
  <2>2. e \in Seq(Nat)
    BY <1>6
  <2> HIDE DEF e
  <2>3. AnyOrder(a, c, e)
    BY <2>1, <2>2, JoinedInAnyOrder
  <2> QED BY <2>3 DEF AnyOrder, e
<1>8. Len(d) <= capacity /\ Len(a \o c) <= capacity
  <2>1. Len(w) \in Nat /\ Len(a) \in Nat /\ k \in Nat
    BY <1>2, <1>3
  <2> QED BY <1>0, <1>2, <1>3, <1>4, <1>6, <2>1
<1>9. /\ pending = [x \in Channels |-> pending[x]] /\ wire = [x \in Channels |-> wire[x]]
      /\ arrived = [x \in Channels |-> arrived[x]] /\ flight = [x \in Channels |-> flight[x]]
      /\ capacity \in Capacities
  BY DEF Streams
<1>10. StreamOK(ch)'
  <2>1. wire'[ch] = d /\ arrived'[ch] = a \o c
    BY <1>1, <1>9
  <2>2. flight[ch] \in Seq(Messages)
    BY <1>0 DEF StreamOK
  <2>3. (a \o c) \o (d \o p) = Stream(flight[ch])
    BY <1>2, <1>5, <1>7
  <2>4. pending'[ch] = p
    BY <1>1 DEF p
  <2> QED BY <1>1, <1>2, <1>4, <1>6, <1>8, <2>1, <2>2, <2>3, <2>4 DEF StreamOK
<1>11. ASSUME NEW x \in Channels, x # ch PROVE StreamOK(x)'
  <2>1. wire'[x] = wire[x] /\ arrived'[x] = arrived[x]
    BY <1>1, <1>9, <1>11
  <2>2. StreamOK(x)
    BY DEF Streams
  <2> QED BY <1>1, <2>1, <2>2 DEF StreamOK
<1>12. arrived' = [x \in Channels |-> arrived'[x]] /\ wire' = [x \in Channels |-> wire'[x]]
  BY <1>1, <1>9
<1>13. \A x \in Channels : StreamOK(x)'
  BY <1>10, <1>11
<1> QED BY <1>1, <1>9, <1>12, <1>13 DEF Streams

\* The sender of a channel is not blocked when it sends.
LEMMA SenderFree ==
    /\ \A e \in Ends : ~Blocked(e) => pending[<<e, "up">>] = <<>>
    /\ ~Blocked(Barista) => \A e \in Ends : pending[<<e, "down">>] = <<>>
<1>1. ASSUME NEW e \in Ends
      PROVE  /\ Sender(<<e, "up">>) = e /\ Sender(<<e, "down">>) = Barista
             /\ <<e, "up">> \in Channels /\ <<e, "down">> \in Channels
  BY ChannelShape DEF Sender
<1> QED BY <1>1 DEF Blocked

-------------------------------------------------------------------------------
(* The packets that are sent *)

\* The numbers of the model fit into their words.
LEMMA Widths ==
    /\ 0 \in Word32 /\ 1 \in Word32 /\ MaxCalls \in Word32 /\ MaxChunks \in Word32
    /\ Modulus - 1 \in Word32 /\ 0 \in Int32 /\ 1 \in Int32 /\ -1 \in Int32
    /\ 16 \in Int32 /\ 36 \in Int32
    /\ \A n \in 0 .. MaxChunks : n \in Int32 /\ 36 + n \in Int32 /\ n \in Word32
    /\ \A x \in Int : -MaxChunks <= x /\ x <= MaxChunks => x \in Int32
    /\ Results \subseteq Int32
<1>1. Modulus \in Nat /\ Modulus >= 256 /\ Modulus % 2 = 0
  BY ModulusBounds
<1> DEFINE h == Modulus \div 2
<1>2. h \in Nat /\ h >= 128 /\ Modulus = 2 * h
  BY <1>1
<1>3. MaxChunks \in Nat /\ 36 + MaxChunks <= h - 1 /\ MaxCalls \in Word32 /\ Results \subseteq Int32
  BY <1>2, WidthAssumption, Constants DEF Int32, file_packet_size, header_size
<1> HIDE DEF h
<1>4. /\ \A x \in Int : x \in Int32 <=> -h <= x /\ x <= h - 1
      /\ \A x \in Int : x \in Word32 <=> 0 <= x /\ x <= Modulus - 1
  BY <1>1, <1>2 DEF Int32, Word32, h
<1> HIDE DEF Modulus
<1> QED BY <1>2, <1>3, <1>4

\* The packets of one word have 16 bytes.
LEMMA OneWordLen ==
    ASSUME NEW flag \in {"ESPRESSO_INIT", "DECAFS_CLIENT_INIT", "OPEN_RESPONSE",
                         "CLOSE_RESPONSE", "LSEEK_RESPONSE", "REMOVE_RESPONSE"},
           NEW p \in Fields(flag)
    PROVE  Len(Serialized(flag, p)) = 16
<1>1. ASSUME NEW x \in Int PROVE Len(Packet(0, flag, Words(<<x>>))) = 16
  <2>1. flag \in FlagNames
    BY SentFlagNames
  <2> QED BY <2>1, OneWord
<1>2. CASE flag = "ESPRESSO_INIT"
  <2>1. p.node_id \in Int
    BY <1>2, WordsFit DEF Fields
  <2> QED BY <1>1, <1>2, <2>1 DEF Serialized, EspressoInit
<1>3. CASE flag = "DECAFS_CLIENT_INIT"
  <2>1. p.user_id \in Int
    BY <1>3, WordsFit DEF Fields
  <2> QED BY <1>1, <1>3, <2>1 DEF Serialized, DecafsClientInit
<1>4. CASE flag \in {"OPEN_RESPONSE", "CLOSE_RESPONSE", "LSEEK_RESPONSE", "REMOVE_RESPONSE"}
  <2>1. p \in [result : Int32]
    BY <1>4 DEF Fields
  <2>2. p.result \in Int
    BY <2>1, WordsFit
  <2>3. Serialized(flag, p) = Packet(0, flag, Words(<<p.result>>))
    BY <1>4 DEF Serialized, OpenPacketResponse, CloseResponsePacket, LseekResponsePacket,
                RemoveResponsePacket
  <2> QED BY <1>1, <2>2, <2>3
<1> QED BY <1>2, <1>3, <1>4

\* What Message makes is a message.
LEMMA IsMessage ==
    ASSUME NEW call \in Nat, NEW flag \in SentFlags, NEW p \in Fields(flag),
           Len(Serialized(flag, p)) \in Int32
    PROVE  /\ Message(call, flag, p) \in Messages
           /\ Message(call, flag, p).call = call /\ Message(call, flag, p).flag = flag
           /\ Message(call, flag, p).p = p
  BY DEF Messages, Message

\* The packets by which a node and a client announce themselves.
LEMMA RegistrationSent ==
    ASSUME NEW e \in Ends
    PROVE  /\ Registration(e) \in Messages /\ Len(Ser(Registration(e))) = 16
           /\ Registration(e).flag = IF e = Node THEN "ESPRESSO_INIT"
                                     ELSE "DECAFS_CLIENT_INIT"
<1> DEFINE flag == IF e = Node THEN "ESPRESSO_INIT" ELSE "DECAFS_CLIENT_INIT"
           p == IF e = Node THEN [node_id |-> 1] ELSE [user_id |-> 1]
<1>1. flag \in {"ESPRESSO_INIT", "DECAFS_CLIENT_INIT"} /\ flag \in SentFlags
  BY DEF SentFlags
<1>2. p \in Fields(flag)
  BY Widths DEF Fields
<1>3. Registration(e) = Message(0, flag, p)
  BY DEF Registration
<1> HIDE DEF flag, p
<1>4. Len(Serialized(flag, p)) = 16
  BY <1>1, <1>2, OneWordLen
<1>5. Message(0, flag, p) \in Messages /\ Message(0, flag, p).flag = flag
      /\ Message(0, flag, p).p = p
  <2>1. Len(Serialized(flag, p)) \in Int32 /\ 0 \in Nat
    BY <1>4, Widths
  <2> QED BY <1>1, <1>2, <2>1, IsMessage
<1> QED BY <1>3, <1>4, <1>5 DEF Ser, flag

\* A call that a client makes.
LEMMA CallSent ==
    ASSUME NEW c \in Clients, NEW call \in Calls[c], NEW k \in 1 .. MaxCalls
    PROVE  LET m == Message(k, call.flag, call.p)
           IN  /\ m \in Messages /\ m # None /\ m.call = k
               /\ m.flag = call.flag /\ m.p = call.p
               /\ m.flag \in CallFlags /\ m.p \in CallFields(m.flag)
<1> DEFINE flag == call.flag
           p == call.p
<1>1. /\ flag \in CallFlags /\ p \in CallFields(flag)
      /\ Len(Serialized(flag, p)) \in Int32 /\ Message(k, flag, p) # None
  BY CallsAssumption DEF CallFlags
<1> HIDE DEF flag, p
<1>2. p \in Fields(flag)
  <2>1. CASE flag = "READ"
    <3>1. p \in [fd : Word32, count : 0 .. MaxChunks]
      BY <1>1, <2>1 DEF CallFields
    <3>2. 0 .. MaxChunks \subseteq Int32
      BY Widths, Constants
    <3>3. p \in [fd : Word32, count : Int32]
      BY <3>1, <3>2
    <3> QED BY <2>1, <3>3 DEF Fields
  <2>2. CASE flag = "WRITE"
    <3>1. p \in [fd : Word32, count : 0 .. MaxChunks, data : Seq(0 .. Radix - 1)]
          /\ Len(p.data) = p.count
      BY <1>1, <2>2 DEF CallFields
    <3>2. 0 .. MaxChunks \subseteq Int32
      BY Widths, Constants
    <3>3. p.data \in Seq(Nat)
      <4>1. 0 .. Radix - 1 \subseteq Nat /\ p.data \in Seq(0 .. Radix - 1)
        BY <3>1, ModulusBounds
      <4> QED BY <4>1, SeqMonotonic
    <3>4. p \in [fd : Word32, count : Int32, data : Seq(Nat)]
      BY <3>1, <3>2, <3>3
    <3>5. Len(p.data) = DataLen(p.count)
      BY <3>1, Constants DEF DataLen
    <3> QED BY <2>2, <3>4, <3>5 DEF Fields, WriteFields
  <2>3. CASE flag \in CallFlags \ {"READ", "WRITE"}
    BY <1>1, <2>3 DEF CallFields, Fields, CallFlags
  <2> QED BY <1>1, <2>1, <2>2, <2>3 DEF CallFlags
<1>3. flag \in SentFlags /\ k \in Nat
  BY <1>1 DEF CallFlags, SentFlags
<1>4. /\ Message(k, flag, p) \in Messages /\ Message(k, flag, p).call = k
      /\ Message(k, flag, p).flag = flag /\ Message(k, flag, p).p = p
  BY <1>1, <1>2, <1>3, IsMessage
<1> QED BY <1>1, <1>4 DEF flag, p

\* What Barista or a client reads from the packet of a call: the offset of a
\* seek may be cut, nothing else.
LEMMA CallRead ==
    ASSUME NEW flag \in CallFlags, NEW p \in CallFields(flag), NEW c \in Clients,
           NEW k \in Nat, Message(k, flag, p) \in Messages, flag # "LSEEK"
    PROVE  Deserialized(flag, Serialized(flag, p)) = p
<1> DEFINE m == Message(k, flag, p)
<1>1. m.flag = flag /\ m.p = p
  BY DEF Message
<1> HIDE DEF m
<1>2. flag \in SentFlags /\ p \in Fields(flag)
  BY <1>1, MessageBytes DEF m
<1>3. Used(flag, Deserialized(flag, Serialized(flag, p))) = Used(flag, p)
  BY <1>2, FieldsReturn
<1> QED BY <1>3 DEF Used, CallFlags

\* Barista's answer without the nodes.
LEMMA AtOnceSent ==
    ASSUME NEW flag \in CallFlags \ {"MKDIR", "OPENDIR"}, NEW p, NEW r \in Results,
           NEW call \in Nat,
           flag = "FILE_STORAGE_STAT" =>
              p \in [filepath : Strings] /\ Len(Serialized(flag, p)) \in Int32
    PROVE  LET m == Message(call, ResponseFlag(flag), AnswersAtOnce(flag, p, r))
           IN  /\ m \in Messages /\ m.call = call /\ m.flag = ResponseFlag(flag)
<1> DEFINE f == ResponseFlag(flag)
           a == AnswersAtOnce(flag, p, r)
<1>1. f \in SentFlags /\ a \in Fields(f) /\ Len(Serialized(f, a)) \in Int32
  <2>0. r \in Int32 /\ r \in Int
    BY Widths, WordsFit
  <2>1. CASE flag \in {"OPEN", "CLOSE", "LSEEK", "REMOVE"}
    <3>1. f \in {"OPEN_RESPONSE", "CLOSE_RESPONSE", "LSEEK_RESPONSE", "REMOVE_RESPONSE"}
          /\ f \in SentFlags
      BY <2>1 DEF ResponseFlag, SentFlags
    <3>2. a = [result |-> r]
      BY <2>1 DEF AnswersAtOnce
    <3> HIDE DEF f, a
    <3>3. a \in Fields(f)
      <4>1. a \in [result : Int32]
        BY <2>0, <3>2
      <4> QED BY <3>1, <4>1 DEF Fields
    <3>4. Len(Serialized(f, a)) = 16
      BY <3>1, <3>3, OneWordLen
    <3> QED BY <3>1, <3>3, <3>4, Widths
  <2>2. CASE flag = "READ"
    <3> DEFINE n == Lesser(r, 0)
    <3>1. f = "READ_RESPONSE" /\ f \in SentFlags
      BY <2>2 DEF ResponseFlag, SentFlags
    <3>2. a = [fd |-> 0, result |-> n, data |-> <<>>]
      BY <2>2 DEF AnswersAtOnce
    <3>3. n \in Int32 /\ DataLen(n) = 0 /\ 0 \in Word32
      BY <2>0, Widths DEF Lesser, DataLen
    <3> HIDE DEF f, a, n
    <3>4. a \in ReadAnswers /\ a.data = <<>>
      BY <3>2, <3>3 DEF ReadAnswers
    <3>5. Len(Serialized("READ_RESPONSE", a)) = 36 + Len(a.data)
      BY <3>4, ClientDataReturns
    <3>6. Len(a.data) = 0 /\ 36 + 0 \in Int32
      BY <3>4, Widths, Constants
    <3>7. Len(Serialized(f, a)) \in Int32
      BY <3>1, <3>5, <3>6
    <3>8. a \in Fields(f)
      BY <3>1, <3>4 DEF Fields
    <3> QED BY <3>1, <3>7, <3>8
  <2>3. CASE flag = "WRITE"
    <3> DEFINE n == Lesser(r, 0)
    <3>1. f = "WRITE_RESPONSE" /\ f \in SentFlags
      BY <2>3 DEF ResponseFlag, SentFlags
    <3>2. a = [fd |-> 0, result |-> n]
      BY <2>3 DEF AnswersAtOnce
    <3>3. n \in Int32 /\ 0 \in Word32
      BY <2>0, Widths DEF Lesser
    <3> HIDE DEF f, a, n
    <3>4. a \in [fd : Word32, result : Int32]
      BY <3>2, <3>3
    <3>5. Len(Serialized("WRITE_RESPONSE", a)) = 36 /\ 36 \in Int32
      BY <3>4, ClientFileReturns, Widths
    <3>7. Len(Serialized(f, a)) \in Int32
      BY <3>1, <3>5
    <3>8. a \in Fields(f)
      BY <3>1, <3>4 DEF Fields
    <3> QED BY <3>1, <3>7, <3>8
  <2>4. CASE flag = "FILE_STORAGE_STAT"
    <3>1. f = "FILE_STORAGE_STAT_RESPONSE" /\ f \in SentFlags
      BY <2>4 DEF ResponseFlag, SentFlags
    <3>2. a = [result |-> p.filepath]
      BY <2>4 DEF AnswersAtOnce
    <3>3. p \in [filepath : Strings] /\ Len(Serialized("FILE_STORAGE_STAT", p)) \in Int32
      BY <2>4
    <3> HIDE DEF f, a
    <3>4. a \in [result : Strings] /\ a.result = p.filepath
      BY <3>2, <3>3
    <3>5. Len(Serialized("FILE_STORAGE_STAT_RESPONSE", a)) = 13 + Len(a.result)
      BY <3>4, StringReturns
    <3>6. Len(Serialized("FILE_STORAGE_STAT", p)) = 13 + Len(p.filepath)
      BY <3>3, StringReturns
    <3>7. Len(Serialized(f, a)) \in Int32
      BY <3>1, <3>3, <3>4, <3>5, <3>6
    <3>8. a \in Fields(f)
      BY <3>1, <3>4 DEF Fields
    <3> QED BY <3>1, <3>7, <3>8
  <2> QED BY <2>1, <2>2, <2>3, <2>4 DEF CallFlags
<1> HIDE DEF f, a
<1>2. /\ Message(call, f, a) \in Messages /\ Message(call, f, a).call = call
      /\ Message(call, f, a).flag = f
  BY <1>1, IsMessage
<1> QED BY <1>2 DEF f, a

\* What a packet about a chunk is on the other side.
LEMMA ChunkRead ==
    ASSUME NEW m, ChunkMessage(m)
    PROVE  LET p == Deserialized(m.flag, Ser(m))
           IN  /\ IdOf(Ser(m)) = m.p.id
               /\ p \in ChunkFields /\ p.id = m.p.id /\ p.chunk_num = m.p.chunk_num
               /\ p.data = m.p.data /\ p.count \in {1, -1}
               /\ m.flag \in {"READ_CHUNK", "WRITE_CHUNK"} => p.count = 1
               /\ m.flag \in {"READ_CHUNK", "DELETE_CHUNK"} => p.data = <<>>
               /\ Len(Ser(m)) <= 37
<1> DEFINE flag == m.flag
           p == m.p
           q == Deserialized(flag, Serialized(flag, p))
<1>1. /\ flag \in ChunkFlags /\ flag \in SentFlags /\ p \in Fields(flag) /\ p \in ChunkFields
      /\ p.count \in {1, -1} /\ (flag \in RequestFlags => p.count = 1) /\ p.data \in Pieces
  BY MessageBytes DEF ChunkMessage
<1> HIDE DEF flag, p
<1>2. Len(p.data) \in 0 .. 1
  BY <1>1 DEF Pieces
<1>3. CASE flag \in {"READ_CHUNK", "WRITE_CHUNK_RESPONSE"}
  <2>1. p.data = <<>>
    BY <1>1, <1>3 DEF Fields
  <2>2. q = p /\ IdOf(Serialized(flag, p)) = p.id /\ Len(Serialized(flag, p)) = 36 + Len(p.data)
    BY <1>1, <1>3, <2>1, ChunkReturns DEF Returns
  <2> HIDE DEF q
  <2>3. Len(Serialized(flag, p)) <= 37
    <3> DEFINE n == Len(p.data)
               l == Len(Serialized(flag, p))
    <3>1. l = 36 + n /\ n \in 0 .. 1
      BY <1>2, <2>2
    <3> HIDE DEF n, l
    <3>2. l <= 37
      BY <3>1
    <3> QED BY <3>2 DEF l
  <2> QED BY <1>1, <1>3, <2>1, <2>2, <2>3 DEF Ser, flag, p, q, RequestFlags
<1>4. CASE flag \in {"WRITE_CHUNK", "READ_CHUNK_RESPONSE"}
  <2>1. Len(p.data) = DataLen(p.count)
    BY <1>1, <1>4 DEF Fields
  <2>2. q = p /\ IdOf(Serialized(flag, p)) = p.id /\ Len(Serialized(flag, p)) = 36 + Len(p.data)
    BY <1>1, <1>4, <2>1, ChunkDataReturns DEF Returns
  <2> HIDE DEF q
  <2>3. Len(Serialized(flag, p)) <= 37
    <3> DEFINE n == Len(p.data)
               l == Len(Serialized(flag, p))
    <3>1. l = 36 + n /\ n \in 0 .. 1
      BY <1>2, <2>2
    <3> HIDE DEF n, l
    <3>2. l <= 37
      BY <3>1
    <3> QED BY <3>2 DEF l
  <2> QED BY <1>1, <1>4, <2>1, <2>2, <2>3 DEF Ser, flag, p, q, RequestFlags
<1>5. CASE flag \in {"DELETE_CHUNK", "DELETE_CHUNK_RESPONSE"}
  <2>1. p.data = <<>>
    BY <1>1, <1>5 DEF Fields
  <2>2. q = DeletedFields(p) /\ IdOf(Serialized(flag, p)) = p.id /\ Len(Serialized(flag, p)) = 36
    BY <1>1, <1>5, <2>1, DeleteReturns
  <2>3. /\ DeletedFields(p).id = p.id /\ DeletedFields(p).chunk_num = p.chunk_num
        /\ DeletedFields(p).data = p.data /\ DeletedFields(p).count = -1
    BY <1>1 DEF DeletedFields, ChunkFields
  <2>4. DeletedFields(p) \in ChunkFields
    BY <1>1, Widths DEF DeletedFields, ChunkFields
  <2> HIDE DEF q
  <2> QED BY <1>1, <1>5, <2>1, <2>2, <2>3, <2>4 DEF Ser, flag, p, q
<1> QED BY <1>1, <1>3, <1>4, <1>5 DEF ChunkFlags, RequestFlags, AnswerFlags

\* A chunk's data is one byte or none.
LEMMA PieceLen ==
    ASSUME NEW x \in Pieces
    PROVE  x \in Seq(Nat) /\ Len(x) \in 0 .. 1
<1>1. CASE x = <<>>
  <2>1. x \in Seq(Nat) /\ Len(x) = 0
    BY <1>1
  <2> QED BY <2>1
<1>2. ASSUME NEW b \in Nat, x = <<b>> PROVE x \in Seq(Nat) /\ Len(x) \in 0 .. 1
  <2>1. x \in Seq(Nat) /\ Len(x) = 1
    BY <1>2
  <2> QED BY <2>1
<1> QED BY <1>1, <1>2 DEF Pieces

\* The pieces that the chunks have read, joined.
LEMMA FlattenPieces ==
    ASSUME NEW n \in Nat, NEW s \in [1 .. n -> Pieces]
    PROVE  FlattenSeq(s) \in Seq(Nat) /\ Len(FlattenSeq(s)) \in 0 .. n
<1>1. s \in Seq(Seq(Nat)) /\ Len(s) = n /\ \A i \in 1 .. n : s[i] \in Seq(Nat) /\ Len(s[i]) \in 0 .. 1
  <2>1. \A x \in Pieces : x \in Seq(Nat) /\ Len(x) \in 0 .. 1
    BY PieceLen
  <2> QED BY <2>1
<1>2. PICK h : /\ Joins(h, s) /\ h[Len(s)] = FlattenSeq(s)
               /\ \A i \in 0 .. Len(s) : h[i] \in Seq(Nat)
  BY <1>1, FlattenJoins
<1> DEFINE T == {k \in Nat : k <= n => Len(h[k]) \in 0 .. k}
<1>3. 0 \in T
  BY <1>2 DEF Joins
<1>4. ASSUME NEW k \in Nat, k \in T PROVE k + 1 \in T
  <2> SUFFICES ASSUME k + 1 <= n PROVE Len(h[k + 1]) \in 0 .. k + 1
    OBVIOUS
  <2> DEFINE j == k + 1
  <2>1. j \in 1 .. n /\ k \in 0 .. n /\ j - 1 = k /\ k <= n
    OBVIOUS
  <2>2. Len(h[k]) \in 0 .. k
    BY <1>4, <2>1
  <2> HIDE DEF T
  <2>3. h[k] \in Seq(Nat) /\ s[j] \in Seq(Nat) /\ Len(s[j]) \in 0 .. 1
    BY <1>1, <1>2, <2>1
  <2>4. h[j] = h[k] \o s[j]
    <3>1. h[j] = h[j - 1] \o s[j]
      BY <1>1, <1>2, <2>1 DEF Joins
    <3> QED BY <2>1, <3>1
  <2> DEFINE a == h[k]
             b == s[j]
  <2> HIDE DEF a, b
  <2>5. Len(a \o b) = Len(a) + Len(b)
    BY <2>3, ConcatProperties DEF a, b
  <2>6. Len(a) \in 0 .. k /\ Len(b) \in 0 .. 1
    BY <2>2, <2>3 DEF a, b
  <2>7. Len(a \o b) \in 0 .. k + 1
    <3> DEFINE l == Len(a \o b)
               x == Len(a)
               y == Len(b)
    <3>1. l = x + y /\ x \in 0 .. k /\ y \in 0 .. 1
      BY <2>5, <2>6
    <3> HIDE DEF l, x, y
    <3>2. l \in 0 .. k + 1
      BY <3>1
    <3> QED BY <3>2 DEF l
  <2> QED BY <2>4, <2>7 DEF a, b, j
<1> HIDE DEF T
<1>5. Nat \subseteq T
  BY <1>3, <1>4, Join!NatSet
<1>6. Len(h[n]) \in 0 .. n
  BY <1>5 DEF T
<1>7. n \in 0 .. n
  OBVIOUS
<1> QED BY <1>1, <1>2, <1>6, <1>7

\* Barista's answer when all chunks have answered.
LEMMA AnswerSent ==
    ASSUME NEW r, r.call \in Nat, r.flag \in {"READ", "WRITE", "REMOVE"},
           r.sum \in Int, -MaxChunks <= r.sum, r.sum <= MaxChunks,
           r.data \in [1 .. MaxChunks -> Pieces]
    PROVE  /\ Answer(r) \in Messages /\ Answer(r).call = r.call
           /\ Answer(r).flag = ResponseFlag(r.flag)
<1> DEFINE f == ResponseFlag(r.flag)
           data == FlattenSeq(r.data)
           a == CASE r.flag = "READ"   -> [fd |-> 1, result |-> Len(data), data |-> data]
                  [] r.flag = "WRITE"  -> [fd |-> 1, result |-> r.sum]
                  [] r.flag = "REMOVE" -> [result |-> 0]
<1>1. Answer(r) = Message(r.call, f, a)
  BY DEF Answer
<1>2. data \in Seq(Nat) /\ Len(data) \in 0 .. MaxChunks
  BY FlattenPieces, Constants
<1> HIDE DEF data
<1>3. f \in SentFlags /\ a \in Fields(f) /\ Len(Serialized(f, a)) \in Int32
  <2>1. CASE r.flag = "READ"
    <3>1. f = "READ_RESPONSE" /\ f \in SentFlags
      BY <2>1 DEF ResponseFlag, SentFlags
    <3>2. a = [fd |-> 1, result |-> Len(data), data |-> data]
      BY <2>1
    <3> HIDE DEF a, f
    <3>3. Len(data) \in Int32 /\ DataLen(Len(data)) = Len(data) /\ 1 \in Word32
          /\ 36 + Len(data) \in Int32
      BY <1>2, Widths, Constants DEF DataLen
    <3>4. a \in ReadAnswers /\ a.data = data
      BY <1>2, <3>2, <3>3 DEF ReadAnswers
    <3>5. Len(Serialized("READ_RESPONSE", a)) = 36 + Len(a.data)
      BY <3>4, ClientDataReturns
    <3>6. Len(Serialized(f, a)) \in Int32
      BY <3>1, <3>3, <3>4, <3>5
    <3>7. a \in Fields(f)
      BY <3>1, <3>4 DEF Fields
    <3> QED BY <3>1, <3>6, <3>7
  <2>2. CASE r.flag = "WRITE"
    <3>1. f = "WRITE_RESPONSE" /\ f \in SentFlags
      BY <2>2 DEF ResponseFlag, SentFlags
    <3>2. a = [fd |-> 1, result |-> r.sum]
      BY <2>2
    <3> HIDE DEF a, f
    <3>3. r.sum \in Int32 /\ 1 \in Word32
      BY Widths
    <3>4. a \in [fd : Word32, result : Int32]
      BY <3>2, <3>3
    <3>5. Len(Serialized("WRITE_RESPONSE", a)) = 36 /\ 36 \in Int32
      BY <3>4, ClientFileReturns, Widths
    <3>6. Len(Serialized(f, a)) \in Int32
      BY <3>1, <3>5
    <3>7. a \in Fields(f)
      BY <3>1, <3>4 DEF Fields
    <3> QED BY <3>1, <3>6, <3>7
  <2>3. CASE r.flag = "REMOVE"
    <3>1. f = "REMOVE_RESPONSE" /\ f \in SentFlags
      BY <2>3 DEF ResponseFlag, SentFlags
    <3>2. a = [result |-> 0]
      BY <2>3
    <3> HIDE DEF a, f
    <3>3. a \in [result : Int32]
      BY <3>2, Widths
    <3>4. a \in Fields(f)
      BY <3>1, <3>3 DEF Fields
    <3>5. Len(Serialized(f, a)) = 16 /\ 16 \in Int32
      BY <3>1, <3>4, OneWordLen, Widths
    <3> QED BY <3>1, <3>4, <3>5
  <2> QED BY <2>1, <2>2, <2>3
<1> HIDE DEF f, a
<1>4. /\ Message(r.call, f, a) \in Messages /\ Message(r.call, f, a).call = r.call
      /\ Message(r.call, f, a).flag = f
  BY <1>3, IsMessage
<1> QED BY <1>1, <1>4 DEF f

\* The length of a packet of the classes between Barista and the node.
LEMMA ChunkSent ==
    ASSUME NEW call \in Nat, NEW flag \in ChunkFlags, NEW p \in ChunkFields,
           p.chunk_num \in 1 .. MaxChunks, p.count \in {1, -1}, p.data \in Pieces,
           flag \in RequestFlags => p.count = 1,
           flag \in {"READ_CHUNK", "WRITE_CHUNK_RESPONSE", "DELETE_CHUNK",
                     "DELETE_CHUNK_RESPONSE"} => p.data = <<>>,
           flag \in {"WRITE_CHUNK", "READ_CHUNK_RESPONSE"} =>
              Len(p.data) = DataLen(p.count)
    PROVE  /\ ChunkMessage(Message(call, flag, p))
           /\ Message(call, flag, p).call = call /\ Message(call, flag, p).flag = flag
           /\ Message(call, flag, p).p = p
<1>1. flag \in SentFlags
  BY DEF ChunkFlags, RequestFlags, AnswerFlags, SentFlags
<1>2. Len(p.data) \in 0 .. MaxChunks
  <2> DEFINE n == Len(p.data)
  <2>1. n \in 0 .. 1
    BY PieceLen
  <2> HIDE DEF n
  <2>2. n \in 0 .. MaxChunks
    BY <2>1, Constants
  <2> QED BY <2>2 DEF n
<1>3. 36 + Len(p.data) \in Int32 /\ 36 \in Int32
  BY <1>2, Widths
<1>4. p \in Fields(flag) /\ Len(Serialized(flag, p)) \in Int32
  <2>1. CASE flag \in {"READ_CHUNK", "WRITE_CHUNK_RESPONSE"}
    <3>1. p.data = <<>>
      BY <2>1
    <3>2. Len(Serialized(flag, p)) = 36 + Len(p.data)
      BY <2>1, <3>1, ChunkReturns
    <3>3. p \in Fields(flag)
      BY <2>1, <3>1 DEF Fields
    <3> QED BY <1>3, <3>2, <3>3
  <2>2. CASE flag \in {"DELETE_CHUNK", "DELETE_CHUNK_RESPONSE"}
    <3>1. p.data = <<>>
      BY <2>2
    <3>2. Len(Serialized(flag, p)) = 36
      BY <2>2, <3>1, DeleteReturns
    <3>3. p \in Fields(flag)
      BY <2>2, <3>1 DEF Fields
    <3> QED BY <1>3, <3>2, <3>3
  <2>3. CASE flag \in {"WRITE_CHUNK", "READ_CHUNK_RESPONSE"}
    <3>1. Len(p.data) = DataLen(p.count)
      BY <2>3
    <3>2. Len(Serialized(flag, p)) = 36 + Len(p.data)
      BY <2>3, <3>1, ChunkDataReturns
    <3>3. p \in Fields(flag)
      BY <2>3, <3>1 DEF Fields
    <3> QED BY <1>3, <3>2, <3>3
  <2> QED BY <2>1, <2>2, <2>3 DEF ChunkFlags, RequestFlags, AnswerFlags
<1> DEFINE m == Message(call, flag, p)
<1>5. m \in Messages /\ m.call = call /\ m.flag = flag /\ m.p = p
  BY <1>1, <1>4, IsMessage
<1> HIDE DEF m
<1> QED BY <1>5 DEF ChunkMessage, m

\* The chunk requests of a call.
RequestsOf(call, flag, p, id, junk) ==
    LET ms == ChunkRequests(call, flag, p, id, junk)
        n == IF flag = "REMOVE" THEN 2 ELSE p.count
    IN  /\ n \in 1 .. MaxChunks
        /\ ms \in Seq(Messages) /\ Len(ms) = n
        /\ \A j \in 1 .. n :
              /\ ChunkMessage(ms[j]) /\ ms[j].flag \in RequestFlags
              /\ ms[j].call = call /\ ms[j].p.id = id /\ ms[j].p.chunk_num = j

\* network_read_chunk, network_write_chunk and network_delete_chunk send one
\* request for each chunk of the call.
LEMMA RequestsSent ==
    ASSUME NEW call \in Nat, NEW flag \in {"READ", "WRITE", "REMOVE"},
           NEW p \in CallFields(flag), flag = "REMOVE" \/ p.count > 0,
           NEW id \in Word32, NEW junk \in {0, Modulus - 1}
    PROVE  RequestsOf(call, flag, p, id, junk)
<1> DEFINE Chunk(i, fd, data) == [id |-> id, fd |-> fd, file_id |-> 1,
                                  stripe_id |-> 1, chunk_num |-> i, offset |-> 0,
                                  count |-> 1, data |-> data]
           Msg(f, i, fd, data) == Message(call, f, Chunk(i, fd, data))
           Good(m, i) == /\ ChunkMessage(m) /\ m.flag \in RequestFlags
                         /\ m.call = call /\ m.p.id = id /\ m.p.chunk_num = i
           ms == ChunkRequests(call, flag, p, id, junk)
           n == IF flag = "REMOVE" THEN 2 ELSE p.count
<1>1. ASSUME NEW f \in RequestFlags, NEW i \in 1 .. MaxChunks, NEW fd \in Word32,
             NEW data \in Pieces, f \in {"READ_CHUNK", "DELETE_CHUNK"} => data = <<>>,
             f = "WRITE_CHUNK" => Len(data) = 1
      PROVE  Good(Msg(f, i, fd, data), i)
  <2> DEFINE q == Chunk(i, fd, data)
  <2>1. i \in 0 .. MaxChunks /\ MaxChunks \in Nat
    BY Constants
  <2>2. data \in Seq(Nat) /\ i \in Word32 /\ 1 \in Word32 /\ 0 \in Word32 /\ 1 \in Int32
    BY <2>1, PieceLen, Widths
  <2>3. q \in ChunkFields
    BY <2>2 DEF ChunkFields
  <2>4. q.id = id /\ q.chunk_num = i /\ q.count = 1 /\ q.data = data
    OBVIOUS
  <2> HIDE DEF q
  <2>5. f \in ChunkFlags /\ DataLen(q.count) = 1
    BY <2>4 DEF ChunkFlags, DataLen
  <2>6. /\ ChunkMessage(Message(call, f, q))
        /\ Message(call, f, q).call = call /\ Message(call, f, q).flag = f
        /\ Message(call, f, q).p = q
    <3>1. /\ q.chunk_num \in 1 .. MaxChunks /\ q.count \in {1, -1} /\ q.data \in Pieces
          /\ f \in RequestFlags => q.count = 1
      BY <2>4
    <3>2. f \in {"READ_CHUNK", "WRITE_CHUNK_RESPONSE", "DELETE_CHUNK",
                 "DELETE_CHUNK_RESPONSE"} => q.data = <<>>
      BY <1>1, <2>4 DEF RequestFlags
    <3>3. f \in {"WRITE_CHUNK", "READ_CHUNK_RESPONSE"} => Len(q.data) = DataLen(q.count)
      BY <1>1, <2>4, <2>5 DEF RequestFlags
    <3>4. q \in ChunkFields /\ f \in ChunkFlags
      BY <2>3, <2>5
    <3> HIDE DEF Good, Msg, Chunk, ms, n
    <3> QED BY <3>1, <3>2, <3>3, <3>4, ChunkSent
  <2> QED BY <2>4, <2>6 DEF q
<1>2. n \in 1 .. MaxChunks
  BY Constants DEF CallFields
<1>3. ASSUME NEW g, ms = [i \in 1 .. n |-> g[i]],
             \A i \in 1 .. n : Good(g[i], i)
      PROVE  ms \in Seq(Messages) /\ Len(ms) = n /\ \A j \in 1 .. n : Good(ms[j], j)
  <2> HIDE DEF ms, n, Good
  <2>1. \A j \in 1 .. n : ms[j] = g[j]
    BY <1>3
  <2>2. \A j \in 1 .. n : Good(ms[j], j)
    BY <1>3, <2>1
  <2>3. \A j \in 1 .. n : g[j] \in Messages
    BY <1>3 DEF Good, ChunkMessage
  <2>4. n \in Nat
    BY <1>2
  <2>5. ms \in Seq(Messages) /\ Len(ms) = n
    BY <1>3, <2>3, <2>4
  <2> QED BY <2>2, <2>5
<1>4. CASE flag = "READ"
  <2> DEFINE g == [i \in 1 .. n |-> Msg("READ_CHUNK", i, p.fd, <<>>)]
  <2>1. p.fd \in Word32 /\ n = p.count
    BY <1>4 DEF CallFields
  <2>2. ms = g
    BY <1>4, <2>1 DEF ChunkRequests
  <2>3. \A i \in 1 .. n : Good(g[i], i)
    <3> SUFFICES ASSUME NEW i \in 1 .. n PROVE Good(g[i], i)
      OBVIOUS
    <3>1. i \in 1 .. MaxChunks /\ "READ_CHUNK" \in RequestFlags /\ <<>> \in Pieces
      BY <1>2, Constants DEF RequestFlags, Pieces
    <3> HIDE DEF Good, n
    <3>2. Good(Msg("READ_CHUNK", i, p.fd, <<>>), i)
      BY <1>1, <2>1, <3>1
    <3> HIDE DEF Msg
    <3> QED BY <3>2
  <2> HIDE DEF ms, n, Good, Msg
  <2>4. ms = [i \in 1 .. n |-> g[i]]
    BY <2>2
  <2> HIDE DEF g
  <2>5. ms \in Seq(Messages) /\ Len(ms) = n /\ \A j \in 1 .. n : Good(ms[j], j)
    BY <1>3, <2>3, <2>4
  <2> QED BY <1>2, <2>5 DEF ms, n, Good, RequestsOf
<1>5. CASE flag = "WRITE"
  <2> DEFINE g == [i \in 1 .. n |-> Msg("WRITE_CHUNK", i, p.fd, <<p.data[i]>>)]
  <2>1. p.fd \in Word32 /\ n = p.count /\ Len(p.data) = n /\ p.data \in Seq(0 .. Radix - 1)
    BY <1>5 DEF CallFields
  <2>2. ms = g
    BY <1>5, <2>1 DEF ChunkRequests
  <2>3. \A i \in 1 .. n : Good(g[i], i)
    <3> SUFFICES ASSUME NEW i \in 1 .. n PROVE Good(g[i], i)
      OBVIOUS
    <3> DEFINE d == <<p.data[i]>>
    <3>1. i \in 1 .. MaxChunks /\ "WRITE_CHUNK" \in RequestFlags
          /\ "WRITE_CHUNK" \notin {"READ_CHUNK", "DELETE_CHUNK"}
      BY <1>2, Constants DEF RequestFlags
    <3>2. p.data[i] \in Nat
      <4>1. i \in 1 .. Len(p.data)
        BY <2>1
      <4>2. p.data[i] \in 0 .. Radix - 1
        <5> HIDE DEF n
        <5>1. p.data \in Seq(0 .. Radix - 1)
          BY <2>1
        <5> QED BY <4>1, <5>1, ElementOfSeq
      <4> QED BY <4>2, ModulusBounds
    <3>3. d \in Pieces /\ Len(d) = 1
      BY <3>2 DEF Pieces
    <3>4. g[i] = Msg("WRITE_CHUNK", i, p.fd, d)
      OBVIOUS
    <3> HIDE DEF Good, n, d, g
    <3>5. Good(Msg("WRITE_CHUNK", i, p.fd, d), i)
      BY <1>1, <2>1, <3>1, <3>3
    <3> HIDE DEF Msg
    <3> QED BY <3>4, <3>5
  <2> HIDE DEF ms, n, Good, Msg
  <2>4. ms = [i \in 1 .. n |-> g[i]]
    BY <2>2
  <2> HIDE DEF g
  <2>5. ms \in Seq(Messages) /\ Len(ms) = n /\ \A j \in 1 .. n : Good(ms[j], j)
    BY <1>3, <2>3, <2>4
  <2> QED BY <1>2, <2>5 DEF ms, n, Good, RequestsOf
<1>6. CASE flag = "REMOVE"
  <2> DEFINE g == [i \in 1 .. n |-> Msg("DELETE_CHUNK", i, junk, <<>>)]
  <2>1. junk \in Word32 /\ n = 2
    BY <1>6, Widths
  <2>2. ms = g
    BY <1>6, <2>1 DEF ChunkRequests
  <2>3. \A i \in 1 .. n : Good(g[i], i)
    <3> SUFFICES ASSUME NEW i \in 1 .. n PROVE Good(g[i], i)
      OBVIOUS
    <3>1. i \in 1 .. MaxChunks /\ "DELETE_CHUNK" \in RequestFlags /\ <<>> \in Pieces
      BY <1>2, Constants DEF RequestFlags, Pieces
    <3> HIDE DEF Good, n
    <3>2. Good(Msg("DELETE_CHUNK", i, junk, <<>>), i)
      BY <1>1, <2>1, <3>1
    <3> HIDE DEF Msg
    <3> QED BY <3>2
  <2> HIDE DEF ms, n, Good, Msg
  <2>4. ms = [i \in 1 .. n |-> g[i]]
    BY <2>2
  <2> HIDE DEF g
  <2>5. ms \in Seq(Messages) /\ Len(ms) = n /\ \A j \in 1 .. n : Good(ms[j], j)
    BY <1>3, <2>3, <2>4
  <2> QED BY <1>2, <2>5 DEF ms, n, Good, RequestsOf
<1> QED BY <1>4, <1>5, <1>6

\* The node's answer to a chunk request.
LEMMA ProcessedSent ==
    ASSUME NEW m, ChunkMessage(m), m.flag \in RequestFlags, NEW call \in Nat,
           NEW a \in Processed(m.flag, Deserialized(m.flag, Ser(m)))
    PROVE  LET x == Message(call, a[1], a[2])
           IN  /\ ChunkMessage(x) /\ x.flag \in AnswerFlags /\ x.call = call
               /\ x.p.id = m.p.id /\ x.p.chunk_num = m.p.chunk_num
<1> DEFINE p == Deserialized(m.flag, Ser(m))
<1>1. /\ p \in ChunkFields /\ p.id = m.p.id /\ p.chunk_num = m.p.chunk_num
      /\ p.data = m.p.data /\ p.count \in {1, -1}
      /\ m.flag \in {"READ_CHUNK", "WRITE_CHUNK"} => p.count = 1
      /\ m.flag \in {"READ_CHUNK", "DELETE_CHUNK"} => p.data = <<>>
  BY ChunkRead
<1>2. a \in Processed(m.flag, p)
  OBVIOUS
<1>3. p.chunk_num \in 1 .. MaxChunks
  BY <1>1 DEF ChunkMessage
<1> HIDE DEF p
<1>4. ASSUME NEW f \in AnswerFlags, NEW q \in ChunkFields,
             q.id = p.id, q.chunk_num = p.chunk_num, q.count \in {1, -1},
             q.data \in Pieces,
             f \in {"WRITE_CHUNK_RESPONSE", "DELETE_CHUNK_RESPONSE"} => q.data = <<>>,
             f = "READ_CHUNK_RESPONSE" => Len(q.data) = DataLen(q.count),
             a = <<f, q>>
      PROVE  LET x == Message(call, a[1], a[2])
             IN  /\ ChunkMessage(x) /\ x.flag \in AnswerFlags /\ x.call = call
                 /\ x.p.id = m.p.id /\ x.p.chunk_num = m.p.chunk_num
  <2>1. a[1] = f /\ a[2] = q /\ f \in ChunkFlags /\ f \notin RequestFlags
        /\ f \notin {"READ_CHUNK", "WRITE_CHUNK", "DELETE_CHUNK"}
    BY <1>4 DEF ChunkFlags, AnswerFlags, RequestFlags
  <2>2. /\ ChunkMessage(Message(call, f, q))
        /\ Message(call, f, q).call = call /\ Message(call, f, q).flag = f
        /\ Message(call, f, q).p = q
    BY <1>3, <1>4, <2>1, ChunkSent
  <2> QED BY <1>1, <1>4, <2>1, <2>2
<1> DEFINE bad == [p EXCEPT !.data = <<>>, !.count = -1]
           none == [p EXCEPT !.data = <<>>]
           read == [p EXCEPT !.data = <<p.chunk_num>>]
<1>5. <<>> \in Pieces /\ <<p.chunk_num>> \in Pieces /\ Len(<<p.chunk_num>>) = 1
      /\ <<>> \in Seq(Nat) /\ <<p.chunk_num>> \in Seq(Nat) /\ Len(<<>>) = 0
  BY <1>3 DEF Pieces
<1>6. /\ bad \in ChunkFields /\ bad.id = p.id /\ bad.chunk_num = p.chunk_num
      /\ bad.count = -1 /\ bad.data = <<>>
  BY <1>1, <1>5, Widths DEF ChunkFields
<1>7. /\ none \in ChunkFields /\ none.id = p.id /\ none.chunk_num = p.chunk_num
      /\ none.count = p.count /\ none.data = <<>>
  BY <1>1, <1>5 DEF ChunkFields
<1>8. /\ read \in ChunkFields /\ read.id = p.id /\ read.chunk_num = p.chunk_num
      /\ read.count = p.count /\ read.data = <<p.chunk_num>>
  BY <1>1, <1>5 DEF ChunkFields
<1>9. DataLen(1) = 1 /\ DataLen(-1) = 0
  BY DEF DataLen
<1>10. CASE m.flag = "READ_CHUNK"
  <2>1. a = <<"READ_CHUNK_RESPONSE", read>> \/ a = <<"READ_CHUNK_RESPONSE", bad>>
    BY <1>2, <1>10 DEF Processed
  <2>2. p.count = 1 /\ "READ_CHUNK_RESPONSE" \in AnswerFlags
        /\ "READ_CHUNK_RESPONSE" \notin {"WRITE_CHUNK_RESPONSE", "DELETE_CHUNK_RESPONSE"}
    BY <1>1, <1>10 DEF AnswerFlags
  <2> HIDE DEF bad, none, read
  <2>3. CASE a = <<"READ_CHUNK_RESPONSE", read>>
    <3>1. read.count \in {1, -1} /\ read.data \in Pieces /\ Len(read.data) = DataLen(read.count)
      BY <1>5, <1>8, <1>9, <2>2
    <3> QED BY <1>4, <1>8, <2>2, <2>3, <3>1
  <2>4. CASE a = <<"READ_CHUNK_RESPONSE", bad>>
    <3>1. bad.count \in {1, -1} /\ bad.data \in Pieces /\ Len(bad.data) = DataLen(bad.count)
      BY <1>5, <1>6, <1>9
    <3> QED BY <1>4, <1>6, <2>2, <2>4, <3>1
  <2> QED BY <2>1, <2>3, <2>4
<1>11. CASE m.flag = "WRITE_CHUNK"
  <2>1. a = <<"WRITE_CHUNK_RESPONSE", none>> \/ a = <<"WRITE_CHUNK_RESPONSE", bad>>
    BY <1>2, <1>11 DEF Processed
  <2>2. p.count = 1 /\ "WRITE_CHUNK_RESPONSE" \in AnswerFlags
        /\ "WRITE_CHUNK_RESPONSE" # "READ_CHUNK_RESPONSE"
    BY <1>1, <1>11 DEF AnswerFlags
  <2> HIDE DEF bad, none, read
  <2>3. CASE a = <<"WRITE_CHUNK_RESPONSE", none>>
    <3>1. none.count \in {1, -1} /\ none.data \in Pieces
      BY <1>5, <1>7, <2>2
    <3> QED BY <1>4, <1>7, <2>2, <2>3, <3>1
  <2>4. CASE a = <<"WRITE_CHUNK_RESPONSE", bad>>
    <3>1. bad.count \in {1, -1} /\ bad.data \in Pieces
      BY <1>5, <1>6
    <3> QED BY <1>4, <1>6, <2>2, <2>4, <3>1
  <2> QED BY <2>1, <2>3, <2>4
<1>12. CASE m.flag = "DELETE_CHUNK"
  <2>1. a = <<"DELETE_CHUNK_RESPONSE", p>>
    BY <1>2, <1>12 DEF Processed
  <2>2. p.data = <<>> /\ p.data \in Pieces /\ "DELETE_CHUNK_RESPONSE" \in AnswerFlags
        /\ "DELETE_CHUNK_RESPONSE" # "READ_CHUNK_RESPONSE"
    BY <1>1, <1>5, <1>12 DEF AnswerFlags
  <2> QED BY <1>1, <1>4, <2>1, <2>2
<1> QED BY <1>10, <1>11, <1>12 DEF RequestFlags

-------------------------------------------------------------------------------
(* The node's queue *)

\* The chunks that are missing can be counted.
LEMMA MissingFinite ==
    ASSUME NEW q, NEW i
    PROVE  /\ MissingOf(q, i) \subseteq 1 .. MaxChunks
           /\ IsFiniteSet(MissingOf(q, i))
           /\ Cardinality(MissingOf(q, i)) \in Nat
<1>1. MissingOf(q, i) \subseteq 1 .. MaxChunks
  BY DEF MissingOf
<1>2. IsFiniteSet(1 .. MaxChunks)
  BY Constants, FS_Interval
<1> QED BY <1>1, <1>2, FS_Subset, FS_CardinalityType

\* A chunk that is answered keeps its place.
LEMMA QueueSwap ==
    ASSUME NEW q, NEW r, NEW act, QueueOK(q, act), Len(r) = Len(q),
           \A j \in 1 .. Len(q) :
              /\ ChunkMessage(r[j]) /\ r[j].call = q[j].call
              /\ r[j].p.id = q[j].p.id /\ r[j].p.chunk_num = q[j].p.chunk_num
    PROVE  QueueOK(r, act)
<1>1. \A i : MissingOf(r, i) = MissingOf(q, i)
  BY DEF MissingOf
<1>2. \A j \in 1 .. Len(r) : /\ ChunkMessage(r[j])
                             /\ r[j].p.id \in DOMAIN act
                             /\ act[r[j].p.id].call = r[j].call
  BY DEF QueueOK
<1>3. \A j, k \in 1 .. Len(r) :
         r[j].p.id = r[k].p.id /\ r[j].p.chunk_num = r[k].p.chunk_num => j = k
  BY DEF QueueOK
<1>4. \A i \in DOMAIN act : act[i].left = Cardinality(MissingOf(r, i))
  BY <1>1 DEF QueueOK
<1> QED BY <1>2, <1>3, <1>4 DEF QueueOK

\* The first answer is counted; the request goes with its last chunk.
Counts(q, act, new) ==
    /\ QueueOK(q, act) /\ act[q[1].p.id].left \in Nat
    /\ \/ /\ act[q[1].p.id].left # 1
          /\ DOMAIN new = DOMAIN act
          /\ new[q[1].p.id].left = act[q[1].p.id].left - 1
          /\ new[q[1].p.id].call = act[q[1].p.id].call
       \/ /\ act[q[1].p.id].left = 1
          /\ DOMAIN new = DOMAIN act \ {q[1].p.id}
    /\ \A i \in DOMAIN new : i # q[1].p.id => new[i] = act[i]

\* An answer is taken: its request counts one chunk less.
LEMMA QueueTake ==
    ASSUME NEW q \in Seq(Messages), q # <<>>, NEW act, NEW new, Counts(q, act, new)
    PROVE  QueueOK(Tail(q), new)
<1> USE DEF Counts
<1> DEFINE id == q[1].p.id
           num == q[1].p.chunk_num
           r == Tail(q)
<1>0. Len(q) \in Nat /\ Len(q) >= 1 /\ 1 \in 1 .. Len(q)
  OBVIOUS
<1>1. Len(r) = Len(q) - 1 /\ \A j \in 1 .. Len(r) : j + 1 \in 1 .. Len(q) /\ r[j] = q[j + 1]
  BY <1>0, HeadTailProperties
<1>2. /\ ChunkMessage(q[1]) /\ id \in DOMAIN act /\ num \in 1 .. MaxChunks
  BY <1>0 DEF QueueOK, ChunkMessage
<1> HIDE DEF r
<1>3. MissingOf(r, id) = MissingOf(q, id) \ {num}
  <2>1. ASSUME NEW k \in MissingOf(r, id) PROVE k \in MissingOf(q, id) \ {num}
    <3>1. k \in 1 .. MaxChunks
      BY DEF MissingOf
    <3>2. PICK j \in 1 .. Len(r) : r[j].p.id = id /\ r[j].p.chunk_num = k
      BY DEF MissingOf
    <3>3. j + 1 \in 1 .. Len(q) /\ q[j + 1].p.id = id /\ q[j + 1].p.chunk_num = k /\ j + 1 # 1
      BY <1>0, <1>1, <3>2
    <3>4. k # num
      BY <1>0, <3>3 DEF QueueOK
    <3> QED BY <3>1, <3>3, <3>4 DEF MissingOf
  <2>2. ASSUME NEW k \in MissingOf(q, id), k # num PROVE k \in MissingOf(r, id)
    <3>1. k \in 1 .. MaxChunks
      BY DEF MissingOf
    <3>2. PICK j \in 1 .. Len(q) : q[j].p.id = id /\ q[j].p.chunk_num = k
      BY DEF MissingOf
    <3>3. j # 1
      BY <2>2, <3>2
    <3> DEFINE l == j - 1
    <3>4. l \in 1 .. Len(r) /\ l + 1 = j
      BY <1>0, <1>1, <3>3
    <3>5. r[l] = q[j]
      BY <1>1, <3>4
    <3> HIDE DEF l
    <3> QED BY <3>1, <3>2, <3>4, <3>5 DEF MissingOf
  <2> QED BY <2>1, <2>2
<1>4. num \in MissingOf(q, id)
  BY <1>0, <1>2 DEF MissingOf
<1>5. /\ Cardinality(MissingOf(r, id)) = Cardinality(MissingOf(q, id)) - 1
      /\ Cardinality(MissingOf(q, id)) \in Nat
  <2> DEFINE M == MissingOf(q, id)
  <2>1. IsFiniteSet(M) /\ Cardinality(M) \in Nat
    BY MissingFinite
  <2>2. num \in M /\ MissingOf(r, id) = M \ {num}
    BY <1>3, <1>4
  <2> HIDE DEF M, num, id
  <2>3. Cardinality(M \ {num}) = Cardinality(M) - 1
    BY <2>1, <2>2, FS_RemoveElement
  <2> QED BY <2>1, <2>2, <2>3 DEF M
<1>6. act[id].left = Cardinality(MissingOf(q, id))
  BY <1>2 DEF QueueOK
<1>7. ASSUME NEW i, i # id PROVE MissingOf(r, i) = MissingOf(q, i)
  <2>1. ASSUME NEW k \in MissingOf(r, i) PROVE k \in MissingOf(q, i)
    <3>1. k \in 1 .. MaxChunks
      BY DEF MissingOf
    <3>2. PICK j \in 1 .. Len(r) : r[j].p.id = i /\ r[j].p.chunk_num = k
      BY DEF MissingOf
    <3>3. j + 1 \in 1 .. Len(q) /\ q[j + 1].p.id = i /\ q[j + 1].p.chunk_num = k
      BY <1>1, <3>2
    <3> QED BY <3>1, <3>3 DEF MissingOf
  <2>2. ASSUME NEW k \in MissingOf(q, i) PROVE k \in MissingOf(r, i)
    <3>1. k \in 1 .. MaxChunks
      BY DEF MissingOf
    <3>2. PICK j \in 1 .. Len(q) : q[j].p.id = i /\ q[j].p.chunk_num = k
      BY DEF MissingOf
    <3>3. j # 1
      BY <1>7, <3>2
    <3> DEFINE l == j - 1
    <3>4. l \in 1 .. Len(r) /\ l + 1 = j
      BY <1>0, <1>1, <3>3
    <3>5. r[l] = q[j]
      BY <1>1, <3>4
    <3> HIDE DEF l
    <3> QED BY <3>1, <3>2, <3>4, <3>5 DEF MissingOf
  <2> QED BY <2>1, <2>2
<1>8. ASSUME act[id].left = 1, NEW j \in 1 .. Len(r) PROVE r[j].p.id # id
  <2>1. Cardinality(MissingOf(r, id)) = 0
    BY <1>5, <1>6, <1>8
  <2>2. MissingOf(r, id) = {}
    BY <2>1, MissingFinite, FS_EmptySet
  <2>3. j + 1 \in 1 .. Len(q) /\ r[j] = q[j + 1]
    BY <1>1
  <2>4. r[j].p.chunk_num \in 1 .. MaxChunks
    BY <2>3 DEF QueueOK, ChunkMessage
  <2> QED BY <2>2, <2>4 DEF MissingOf
<1>9. ASSUME NEW j \in 1 .. Len(r)
      PROVE  /\ ChunkMessage(r[j]) /\ r[j].p.id \in DOMAIN new
             /\ new[r[j].p.id].call = r[j].call
  <2>1. j + 1 \in 1 .. Len(q) /\ r[j] = q[j + 1]
    BY <1>1
  <2>2. /\ ChunkMessage(r[j]) /\ r[j].p.id \in DOMAIN act
        /\ act[r[j].p.id].call = r[j].call
    BY <2>1 DEF QueueOK
  <2> QED BY <1>8, <2>2
<1>10. ASSUME NEW j \in 1 .. Len(r), NEW k \in 1 .. Len(r),
              r[j].p.id = r[k].p.id, r[j].p.chunk_num = r[k].p.chunk_num
       PROVE  j = k
  <2>1. /\ j + 1 \in 1 .. Len(q) /\ r[j] = q[j + 1]
        /\ k + 1 \in 1 .. Len(q) /\ r[k] = q[k + 1]
    BY <1>1
  <2>2. j + 1 = k + 1
    BY <1>10, <2>1 DEF QueueOK
  <2> QED BY <2>2
<1>11. ASSUME NEW i \in DOMAIN new PROVE new[i].left = Cardinality(MissingOf(r, i))
  <2>1. CASE i = id
    BY <1>5, <1>6, <2>1
  <2>2. CASE i # id
    <3>1. new[i] = act[i] /\ i \in DOMAIN act /\ MissingOf(r, i) = MissingOf(q, i)
      BY <1>7, <2>2
    <3> QED BY <3>1 DEF QueueOK
  <2> QED BY <2>1, <2>2
<1>12. QueueOK(r, new)
  BY <1>9, <1>10, <1>11 DEF QueueOK
<1> QED BY <1>12 DEF r

\* The requests of a new call come behind the others.
Added(q, ms, act, id, new, n) ==
    /\ QueueOK(q, act) /\ id \notin DOMAIN act /\ DOMAIN new = DOMAIN act \cup {id}
    /\ \A i \in DOMAIN act : new[i] = act[i]
    /\ Len(ms) = n /\ new[id].left = n
    /\ \A j \in 1 .. n : /\ ChunkMessage(ms[j]) /\ ms[j].call = new[id].call
                       /\ ms[j].p.id = id /\ ms[j].p.chunk_num = j

\* A new request: its chunks follow the packets that are there.
LEMMA QueueAdd ==
    ASSUME NEW q \in Seq(Messages), NEW ms \in Seq(Messages), NEW act, NEW id, NEW new,
           NEW n \in 1 .. MaxChunks, Added(q, ms, act, id, new, n)
    PROVE  QueueOK(q \o ms, new)
<1> USE DEF Added
<1> DEFINE r == q \o ms
           l == Len(q)
<1>1. l \in Nat /\ n \in Nat /\ MaxChunks \in Nat
  BY Constants
<1>2. /\ Len(r) = l + n
      /\ \A j \in 1 .. l + n : r[j] = IF j <= l THEN q[j] ELSE ms[j - l]
  <2>1. /\ Len(q \o ms) = Len(q) + Len(ms)
        /\ \A j \in 1 .. Len(q) + Len(ms) :
              (q \o ms)[j] = IF j <= Len(q) THEN q[j] ELSE ms[j - Len(q)]
    <3>1. Followed(Messages, q, ms)
      BY JoinedFollowed
    <3> QED BY <3>1 DEF Followed
  <2> QED BY <2>1
<1> HIDE DEF r, l
<1>3. /\ \A j \in 1 .. l : j \in 1 .. Len(r) /\ r[j] = q[j] /\ q[j].p.id \in DOMAIN act
      /\ \A j \in 1 .. n : l + j \in 1 .. Len(r) /\ r[l + j] = ms[j]
      /\ \A j \in 1 .. Len(r) : j \in 1 .. l \/ (j - l \in 1 .. n /\ r[j] = ms[j - l] /\ ~(j <= l))
  <2>1. ASSUME NEW j \in 1 .. l
        PROVE  j \in 1 .. Len(r) /\ r[j] = q[j] /\ q[j].p.id \in DOMAIN act
    <3>1. j \in 1 .. l + n /\ j <= l
      BY <1>1
    <3>2. q[j].p.id \in DOMAIN act
      BY DEF QueueOK, l
    <3> QED BY <1>2, <3>1, <3>2
  <2>2. ASSUME NEW j \in 1 .. n PROVE l + j \in 1 .. Len(r) /\ r[l + j] = ms[j]
    <3> DEFINE x == l + j
    <3>1. x \in 1 .. l + n /\ ~(x <= l) /\ x - l = j
      BY <1>1
    <3> HIDE DEF x
    <3>2. r[x] = ms[j]
      BY <1>2, <3>1
    <3> QED BY <1>2, <3>1, <3>2 DEF x
  <2>3. ASSUME NEW j \in 1 .. Len(r)
        PROVE  j \in 1 .. l \/ (j - l \in 1 .. n /\ r[j] = ms[j - l] /\ ~(j <= l))
    BY <1>1, <1>2
  <2> QED BY <2>1, <2>2, <2>3
<1>4. ASSUME NEW j \in 1 .. Len(r)
      PROVE  /\ ChunkMessage(r[j]) /\ r[j].p.id \in DOMAIN new
             /\ new[r[j].p.id].call = r[j].call
  <2>1. CASE j \in 1 .. l
    <3>1. /\ ChunkMessage(q[j]) /\ q[j].p.id \in DOMAIN act
          /\ act[q[j].p.id].call = q[j].call
      BY <2>1 DEF QueueOK, l
    <3> QED BY <1>3, <2>1, <3>1
  <2>2. CASE ~(j \in 1 .. l)
    <3> DEFINE x == j - l
    <3>1. x \in 1 .. n /\ r[j] = ms[x]
      BY <1>3, <2>2
    <3> HIDE DEF x
    <3> QED BY <3>1
  <2> QED BY <2>1, <2>2
<1>5. ASSUME NEW j \in 1 .. Len(r), NEW k \in 1 .. Len(r),
             r[j].p.id = r[k].p.id, r[j].p.chunk_num = r[k].p.chunk_num
      PROVE  j = k
  <2>1. CASE j \in 1 .. l /\ k \in 1 .. l
    <3>1. q[j].p.id = q[k].p.id /\ q[j].p.chunk_num = q[k].p.chunk_num
      BY <1>3, <1>5, <2>1
    <3> QED BY <2>1, <3>1 DEF QueueOK, l
  <2>2. CASE j \notin 1 .. l /\ k \notin 1 .. l
    <3> DEFINE x == j - l
               y == k - l
    <3>1. x \in 1 .. n /\ r[j] = ms[x] /\ y \in 1 .. n /\ r[k] = ms[y]
      BY <1>3, <2>2
    <3>2. ms[x].p.chunk_num = x /\ ms[y].p.chunk_num = y
      <4> HIDE DEF x, y
      <4> QED BY <3>1
    <3>3. x = y
      BY <1>5, <3>1, <3>2
    <3> QED BY <1>1, <1>2, <3>3
  <2>3. CASE j \in 1 .. l /\ k \notin 1 .. l
    <3> DEFINE y == k - l
    <3>1. y \in 1 .. n /\ r[k] = ms[y]
      BY <1>3, <2>3
    <3> HIDE DEF y
    <3>2. r[k].p.id = id /\ r[j].p.id \in DOMAIN act
      BY <1>3, <2>3, <3>1
    <3> QED BY <1>5, <3>2
  <2>4. CASE j \notin 1 .. l /\ k \in 1 .. l
    <3> DEFINE y == j - l
    <3>1. y \in 1 .. n /\ r[j] = ms[y]
      BY <1>3, <2>4
    <3> HIDE DEF y
    <3>2. r[j].p.id = id /\ r[k].p.id \in DOMAIN act
      BY <1>3, <2>4, <3>1
    <3> QED BY <1>5, <3>2
  <2> QED BY <2>1, <2>2, <2>3, <2>4
<1>6. ASSUME NEW i \in DOMAIN act PROVE MissingOf(r, i) = MissingOf(q, i)
  <2>1. i # id
    OBVIOUS
  <2>2. ASSUME NEW k, NEW j \in 1 .. Len(r), r[j].p.id = i, r[j].p.chunk_num = k
        PROVE  j \in 1 .. Len(q) /\ q[j].p.id = i /\ q[j].p.chunk_num = k
    <3>1. j \in 1 .. l
      <4> SUFFICES ASSUME j \notin 1 .. l PROVE FALSE
        OBVIOUS
      <4> DEFINE x == j - l
      <4>1. x \in 1 .. n /\ r[j] = ms[x]
        BY <1>3
      <4> HIDE DEF x
      <4> QED BY <2>1, <2>2, <4>1
    <3> QED BY <1>3, <2>2, <3>1 DEF l
  <2>3. ASSUME NEW k, NEW j \in 1 .. Len(q), q[j].p.id = i, q[j].p.chunk_num = k
        PROVE  j \in 1 .. Len(r) /\ r[j].p.id = i /\ r[j].p.chunk_num = k
    BY <1>3, <2>3 DEF l
  <2> QED BY <2>2, <2>3 DEF MissingOf
<1>7. MissingOf(r, id) = 1 .. n
  <2>1. ASSUME NEW k \in 1 .. n PROVE k \in MissingOf(r, id)
    <3>1. k \in 1 .. MaxChunks
      BY <1>1
    <3> DEFINE x == l + k
    <3>2. x \in 1 .. Len(r) /\ r[x] = ms[k]
      BY <1>3
    <3> HIDE DEF x
    <3> QED BY <3>1, <3>2 DEF MissingOf
  <2>2. ASSUME NEW k \in MissingOf(r, id) PROVE k \in 1 .. n
    <3>1. PICK j \in 1 .. Len(r) : r[j].p.id = id /\ r[j].p.chunk_num = k
      BY DEF MissingOf
    <3>2. j \notin 1 .. l
      BY <1>3, <3>1
    <3> DEFINE x == j - l
    <3>3. x \in 1 .. n /\ r[j] = ms[x]
      BY <1>3, <3>2
    <3> HIDE DEF x
    <3> QED BY <3>1, <3>3
  <2> QED BY <2>1, <2>2
<1>8. Cardinality(1 .. n) = n
  BY <1>1, FS_Interval
<1>9. ASSUME NEW i \in DOMAIN new PROVE new[i].left = Cardinality(MissingOf(r, i))
  <2>1. CASE i = id
    BY <1>7, <1>8, <2>1
  <2>2. CASE i # id
    <3>1. i \in DOMAIN act /\ new[i] = act[i] /\ MissingOf(r, i) = MissingOf(q, i)
      BY <1>6, <2>2
    <3> QED BY <3>1 DEF QueueOK
  <2> QED BY <2>1, <2>2
<1>10. QueueOK(r, new)
  BY <1>4, <1>5, <1>9 DEF QueueOK
<1> QED BY <1>10 DEF r

-------------------------------------------------------------------------------
(* Sessions *)

\* The packet of a call.
LEMMA CallShape ==
    ASSUME NEW c \in Clients, NEW m \in CallsOf(c)
    PROVE  /\ m \in Messages /\ m # None /\ m.call \in 1 .. MaxCalls /\ m.flag \in CallFlags
           /\ m.p \in CallFields(m.flag) /\ m = Message(m.call, m.flag, m.p)
           /\ m.flag # "DECAFS_CLIENT_INIT" /\ m # Registration(c)
<1>1. PICK k \in 1 .. MaxCalls, call \in Calls[c] : m = Message(k, call.flag, call.p)
  BY DEF CallsOf
<1>2. /\ m \in Messages /\ m # None /\ m.call = k /\ m.flag = call.flag /\ m.p = call.p
      /\ m.flag \in CallFlags /\ m.p \in CallFields(m.flag)
  BY <1>1, CallSent
<1>3. m.flag # "DECAFS_CLIENT_INIT"
  BY <1>2 DEF CallFlags
<1>4. Registration(c).flag = "DECAFS_CLIENT_INIT"
  BY RegistrationSent, ChannelShape
<1> QED BY <1>1, <1>2, <1>3, <1>4

\* The packets of a client in front of Barista.
LEMMA UpHead ==
    ASSUME NEW c \in Clients, SessionOK(c), Up(c) # <<>>
    PROVE  /\ Mine(c) = {} /\ Down(c) = <<>>
           /\ \/ /\ Head(Up(c)) = Registration(c) /\ Tail(Up(c)) = <<>> /\ Idle(c)
              \/ /\ Head(Up(c)) = Registration(c) /\ Tail(Up(c)) = <<calling[c]>>
                 /\ calling[c] \in CallsOf(c)
              \/ /\ Head(Up(c)) = calling[c] /\ Tail(Up(c)) = <<>>
                 /\ calling[c] \in CallsOf(c)
<1>1. Idle(c) \/ Asked(c)
  BY DEF SessionOK, Served, Answered
<1>2. CASE Idle(c)
  <2>1. Up(c) = <<Registration(c)>> /\ Mine(c) = {} /\ Down(c) = <<>>
    BY <1>2 DEF Idle
  <2>2. Head(Up(c)) = Registration(c) /\ Tail(Up(c)) = <<>>
    BY <2>1
  <2> QED BY <1>2, <2>1, <2>2
<1>3. CASE Asked(c)
  <2>1. calling[c] \in CallsOf(c) /\ Mine(c) = {} /\ Down(c) = <<>>
    BY <1>3 DEF Asked, SessionOK
  <2>2. CASE Up(c) = <<calling[c]>>
    BY <2>1, <2>2
  <2>3. CASE Up(c) = <<Registration(c), calling[c]>>
    BY <2>1, <2>3
  <2> QED BY <1>3, <2>2, <2>3 DEF Asked
<1> QED BY <1>1, <1>2, <1>3

\* A step that does not touch a client's packets and requests.
LEMMA SessionSame ==
    ASSUME NEW c \in Clients, SessionOK(c), calling'[c] = calling[c],
           Up(c)' = Up(c), Down(c)' = Down(c), Mine(c)' = Mine(c),
           \A i \in Mine(c) : /\ active'[i].call = active[i].call
                              /\ active'[i].flag = active[i].flag
    PROVE  SessionOK(c)'
<1>1. CASE Idle(c)
  <2>1. Idle(c)'
    BY <1>1 DEF Idle
  <2> QED BY <2>1 DEF SessionOK, CallsOf
<1>2. CASE Asked(c)
  <2>1. Asked(c)'
    BY <1>2 DEF Asked
  <2> QED BY <2>1 DEF SessionOK, CallsOf
<1>3. CASE Served(c)
  <2>1. PICK i \in DOMAIN active : /\ Mine(c) = {i} /\ active[i].call = calling[c].call
                                   /\ active[i].flag = calling[c].flag
    BY <1>3 DEF Served
  <2>2. i \in DOMAIN active' /\ Mine(c)' = {i}
    BY <2>1 DEF Mine
  <2>3. active'[i].call = calling'[c].call /\ active'[i].flag = calling'[c].flag
    BY <2>1
  <2>4. Served(c)'
    BY <1>3, <2>2, <2>3 DEF Served
  <2> QED BY <2>4 DEF SessionOK, CallsOf
<1>4. CASE Answered(c)
  <2>1. Answered(c)'
    BY <1>4 DEF Answered, ResponseFlag
  <2> QED BY <2>1 DEF SessionOK, CallsOf
<1> QED BY <1>1, <1>2, <1>3, <1>4 DEF SessionOK

-------------------------------------------------------------------------------
(* Calls that have not reached Barista *)

\* There is a packet of a call among q.
Asks(q) == \E i \in DOMAIN q : q[i].flag # "DECAFS_CLIENT_INIT"

\* A registration asks for nothing, a call does.
LEMMA AsksShape ==
    ASSUME NEW c \in Clients
    PROVE  /\ ~Asks(<<>>) /\ ~Asks(<<Registration(c)>>)
           /\ \A m \in CallsOf(c) : Asks(<<m>>) /\ Asks(<<Registration(c), m>>)
<1>1. Registration(c).flag = "DECAFS_CLIENT_INIT"
  BY RegistrationSent, ChannelShape
<1>2. \A m \in CallsOf(c) : m.flag # "DECAFS_CLIENT_INIT"
  BY CallShape
<1>3. ~Asks(<<>>) /\ ~Asks(<<Registration(c)>>)
  BY <1>1 DEF Asks
<1>4. ASSUME NEW m \in CallsOf(c) PROVE Asks(<<m>>) /\ Asks(<<Registration(c), m>>)
  <2>1. m.flag # "DECAFS_CLIENT_INIT"
    BY <1>2
  <2>2. 1 \in DOMAIN <<m>> /\ <<m>>[1] = m
    OBVIOUS
  <2>3. 2 \in DOMAIN <<Registration(c), m>> /\ <<Registration(c), m>>[2] = m
    OBVIOUS
  <2> QED BY <2>1, <2>2, <2>3 DEF Asks
<1> QED BY <1>3, <1>4

\* The clients can be counted.
LEMMA AskingFinite ==
    /\ IsFiniteSet(Clients) /\ IsFiniteSet(Asking) /\ Cardinality(Asking) \in Nat
    /\ \A S \in SUBSET Asking : Cardinality(S) <= Cardinality(Asking)
<1>1. Asking \subseteq Clients /\ IsFiniteSet(Clients)
  BY StreamAssumption DEF Asking
<1> QED BY <1>1, FS_Subset, FS_CardinalityType

\* Asking, before and after a step, in terms of the packets.
LEMMA AskingMember ==
    /\ \A c : c \in Asking <=> c \in Clients /\ Asks(Up(c))
    /\ \A c : c \in Asking' <=> c \in Clients /\ Asks(flight'[<<c, "up">>])
  BY DEF Asking, Asks, Up

\* A step that gives out no request id.
LEMMA CountLess ==
    ASSUME CountOK, Asking' \subseteq Asking, request_id' = request_id, calls' = calls,
           DOMAIN active' \subseteq DOMAIN active
    PROVE  CountOK'
<1> DEFINE k == Cardinality(Asking)
           l == Cardinality(Asking')
<1>1. k \in Nat /\ l <= k /\ l \in Nat
  BY AskingFinite, FS_Subset, FS_CardinalityType
<1>2. request_id + k <= calls /\ request_id \in Nat /\ calls \in 0 .. MaxCalls
  BY DEF CountOK
<1> HIDE DEF k, l
<1>3. request_id + l <= calls
  BY <1>1, <1>2, Constants
<1>4. request_id' + Cardinality(Asking)' <= calls'
  BY <1>3 DEF l
<1> QED BY <1>2, <1>4 DEF CountOK

-------------------------------------------------------------------------------
(* Steps *)

\* A step that only moves bytes.
LEMMA LogicSame ==
    ASSUME Logic, UNCHANGED <<flight, calling, active, request_id, calls>>
    PROVE  Logic'
<1>1. \A e : Up(e)' = Up(e) /\ Down(e)' = Down(e) /\ Mine(e)' = Mine(e)
  BY DEF Up, Down, Mine
<1>2. Sessions'
  <2>1. ASSUME NEW c \in Clients PROVE SessionOK(c)'
    <3>1. SessionOK(c)
      BY DEF Logic, Sessions
    <3> QED BY <1>1, <3>1, SessionSame
  <2> QED BY <2>1 DEF Logic, Sessions
<1>3. Requests'
  BY DEF Logic, Requests, RequestOK
<1>4. NodeNew => NodeNew'
  BY <1>1 DEF NodeNew
<1>5. NodeRuns => NodeRuns'
  BY <1>1 DEF NodeRuns, Queue
<1>6. Asking' = Asking
  BY <1>1 DEF Asking
<1>7. CountOK'
  BY <1>6, CountLess DEF Logic
<1> QED BY <1>2, <1>3, <1>4, <1>5, <1>7 DEF Logic

\* What a step does to the packets under way.
LEMMA FlightAfter ==
    ASSUME Streams, NEW a \in Channels, NEW b \in Channels, a # b, NEW ms,
           flight' = [flight EXCEPT ![a] = Tail(@), ![b] = @ \o ms]
    PROVE  /\ flight'[a] = Tail(flight[a]) /\ flight'[b] = flight[b] \o ms
           /\ \A x \in Channels : x # a /\ x # b => flight'[x] = flight[x]
<1>1. flight = [x \in Channels |-> flight[x]]
  BY DEF Streams
<1> QED BY <1>1

\* A packet is taken from channel a, and the packets ms are sent on b.
Moved(a, b, ms) ==
    /\ Streams'
    /\ flight' = [flight EXCEPT ![a] = Tail(@), ![b] = @ \o ms]
    /\ flight'[a] = Tail(flight[a]) /\ flight'[b] = flight[b] \o ms
    /\ \A x \in Channels : x # a /\ x # b => flight'[x] = flight[x]

\* A whole packet is taken and its answers are sent.
LEMMA HandleMoves ==
    ASSUME Streams, NEW ch \in Channels, NEW out \in Channels, ch # out,
           arrived[ch] # <<>>, Whole(ch), pending[out] = <<>>,
           NEW ms \in Seq(Messages), Handle(ch, out, ms), capacity' = capacity
    PROVE  Moved(ch, out, ms)
<1>1. Streams' /\ flight' = [flight EXCEPT ![ch] = Tail(@), ![out] = @ \o ms]
  BY HandleStream
<1>2. /\ flight'[ch] = Tail(flight[ch]) /\ flight'[out] = flight[out] \o ms
      /\ \A x \in Channels : x # ch /\ x # out => flight'[x] = flight[x]
  BY <1>1, FlightAfter
<1> QED BY <1>1, <1>2 DEF Moved

\* Taking the first of two joined sequences.
LEMMA TailConcat ==
    ASSUME NEW S, NEW u \in Seq(S), NEW d \in Seq(S), u # <<>>
    PROVE  /\ u \o d \in Seq(S) /\ u \o d # <<>> /\ (u \o d)[1] = u[1]
           /\ Tail(u \o d) = Tail(u) \o d
<1> DEFINE h == <<u[1]>>
           t == Tail(u)
<1>1. h \in Seq(S) /\ t \in Seq(S) /\ u = h \o t
  OBVIOUS
<1>2. u \o d \in Seq(S) /\ u \o d # <<>> /\ (u \o d)[1] = u[1]
  <2>1. Len(u) \in Nat /\ Len(d) \in Nat /\ Len(u) >= 1
    OBVIOUS
  <2>2. Len(u \o d) = Len(u) + Len(d) /\ (u \o d)[1] = u[1] /\ u \o d \in Seq(S)
    BY <2>1, ConcatProperties
  <2>3. Len(u \o d) # 0
    BY <2>1, <2>2
  <2> QED BY <2>2, <2>3
<1>3. Tail(u \o d) = t \o d
  <2> DEFINE v == u \o d
             w == t \o d
  <2>1. /\ v \in Seq(S) /\ v # <<>> /\ Len(u) \in Nat /\ Len(d) \in Nat /\ Len(u) >= 1
        /\ Len(v) = Len(u) + Len(d)
        /\ \A i \in 1 .. Len(u) + Len(d) : v[i] = IF i <= Len(u) THEN u[i] ELSE d[i - Len(u)]
    BY <1>2, ConcatProperties
  <2>2. /\ t \in Seq(S) /\ Len(t) = Len(u) - 1 /\ \A i \in 1 .. Len(t) : t[i] = u[i + 1]
    BY <1>1, HeadTailProperties
  <2>3. /\ w \in Seq(S) /\ Len(w) = Len(t) + Len(d)
        /\ \A i \in 1 .. Len(t) + Len(d) : w[i] = IF i <= Len(t) THEN t[i] ELSE d[i - Len(t)]
    BY <2>2, ConcatProperties
  <2>4. /\ Tail(v) \in Seq(S) /\ Len(Tail(v)) = Len(v) - 1
        /\ \A i \in 1 .. Len(Tail(v)) : Tail(v)[i] = v[i + 1]
    <3> HIDE DEF v
    <3> QED BY <2>1, HeadTailProperties
  <2> DEFINE z == Tail(v)
  <2> HIDE DEF v, w, t, z
  <2>5. Len(z) = Len(w)
    BY <2>1, <2>2, <2>3, <2>4 DEF z
  <2>6. ASSUME NEW i \in 1 .. Len(z) PROVE z[i] = w[i]
    <3>1. i + 1 \in 1 .. Len(u) + Len(d) /\ i \in 1 .. Len(t) + Len(d) /\ z[i] = v[i + 1]
      BY <2>1, <2>2, <2>3, <2>4, <2>5 DEF z
    <3>2. CASE i <= Len(t)
      <4>1. i + 1 <= Len(u) /\ i \in 1 .. Len(t)
        BY <2>1, <2>2, <3>2
      <4> QED BY <2>1, <2>2, <2>3, <3>1, <3>2, <4>1
    <3>3. CASE ~(i <= Len(t))
      <4> DEFINE j == i + 1
      <4>1. j \in 1 .. Len(u) + Len(d) /\ ~(j <= Len(u)) /\ j - Len(u) = i - Len(t)
        BY <2>1, <2>2, <3>1, <3>3
      <4>2. z[i] = v[j]
        BY <3>1
      <4> HIDE DEF j
      <4>3. v[j] = d[i - Len(t)]
        BY <2>1, <4>1
      <4>4. w[i] = d[i - Len(t)]
        BY <2>3, <3>1, <3>3
      <4> QED BY <4>2, <4>3, <4>4
    <3> QED BY <3>2, <3>3
  <2>7. z = w
    BY <2>3, <2>4, <2>5, <2>6, SeqEqual DEF z
  <2> QED BY <2>7 DEF z, v, w
<1> QED BY <1>2, <1>3

\* One more packet behind none or one.
LEMMA AppendShape ==
    ASSUME NEW a, NEW b
    PROVE  Append(<<>>, b) = <<b>> /\ Append(<<a>>, b) = <<a, b>>
<1> DEFINE S == {a, b}
           s == Append(<<a>>, b)
           t == <<a, b>>
<1>1. <<a>> \in Seq(S) /\ b \in S /\ Len(<<a>>) = 1 /\ <<a>>[1] = a
  OBVIOUS
<1>2. s \in Seq(S) /\ Len(s) = 2 /\ s[1] = a /\ s[2] = b
  BY <1>1, AppendProperties
<1>3. t \in Seq(S) /\ Len(t) = 2 /\ t[1] = a /\ t[2] = b
  OBVIOUS
<1> HIDE DEF s, t
<1>4. s = t
  <2>1. \A i \in 1 .. Len(s) : s[i] = t[i]
    BY <1>2, <1>3
  <2> QED BY <1>2, <1>3, <2>1, SeqEqual
<1>5. Append(<<>>, b) = <<b>>
  OBVIOUS
<1> QED BY <1>4, <1>5 DEF s, t

\* A client makes a call.
LEMMA CallStep ==
    ASSUME IInv, NEW c \in Clients, NEW call \in Calls[c], Call(c, call)
    PROVE  IInv'
<1> DEFINE up == <<c, "up">>
           m == Message(calls + 1, call.flag, call.p)
<1>1. /\ calling[c] = None /\ ~Blocked(c) /\ calls < MaxCalls /\ calls' = calls + 1
      /\ calling' = [calling EXCEPT ![c] = m]
      /\ flight' = [flight EXCEPT ![up] = Append(@, calling'[c])]
      /\ Send(up, <<calling'[c]>>)
      /\ UNCHANGED <<arrived, capacity, active, request_id, torn>>
  BY DEF Call
<1>2. /\ calling = [x \in Clients |-> calling[x]] /\ \A x \in Clients : SessionOK(x)
      /\ CountOK
  BY DEF IInv, Logic, Sessions
<1>3. calls + 1 \in 1 .. MaxCalls /\ calls \in Nat /\ request_id \in Nat
  BY <1>1, <1>2, Constants DEF CountOK
<1>4. m \in CallsOf(c) /\ m \in Messages /\ m # None
  <2>1. m \in CallsOf(c)
    BY <1>3 DEF CallsOf
  <2> QED BY <2>1, CallShape
<1>5. calling'[c] = m /\ \A x \in Clients : x # c => calling'[x] = calling[x]
  BY <1>1, <1>2
<1> HIDE DEF m
<1>6. up \in Channels /\ pending[up] = <<>>
  BY <1>1, SenderFree, ChannelShape
<1>7. Streams'
  <2>1. Streams
    BY DEF IInv
  <2> QED BY <1>1, <1>4, <1>5, <1>6, <2>1, PostStream
<1>8. flight = [x \in Channels |-> flight[x]]
  BY DEF IInv, Streams
<1>9. /\ flight'[up] = Append(flight[up], m)
      /\ \A x \in Channels : x # up => flight'[x] = flight[x]
  BY <1>1, <1>5, <1>6, <1>8
<1>10. Idle(c)
  <2>1. SessionOK(c) /\ ~Asked(c) /\ ~Served(c) /\ ~Answered(c)
    BY <1>1, <1>2 DEF Asked, Served, Answered
  <2> QED BY <2>1 DEF SessionOK
<1>11. Mine(c) = {} /\ Down(c) = <<>> /\ Up(c) \in {<<>>, <<Registration(c)>>}
  BY <1>10 DEF Idle
<1>12. Up(c)' \in {<<m>>, <<Registration(c), m>>} /\ Down(c)' = <<>> /\ Mine(c)' = {}
  <2>1. Up(c)' = Append(Up(c), m)
    BY <1>9 DEF Up
  <2>2. Append(<<>>, m) = <<m>> /\ Append(<<Registration(c)>>, m) = <<Registration(c), m>>
    BY AppendShape
  <2>3. Down(c)' = Down(c)
    BY <1>9, ChannelShape DEF Down
  <2>4. Mine(c)' = Mine(c)
    BY <1>1 DEF Mine
  <2> QED BY <1>11, <2>1, <2>2, <2>3, <2>4
<1>13. SessionOK(c)'
  <2>1. Asked(c)'
    BY <1>4, <1>5, <1>12 DEF Asked
  <2> QED BY <1>4, <1>5, <2>1 DEF SessionOK, CallsOf
<1>14. ASSUME NEW x \in Clients, x # c PROVE SessionOK(x)' /\ Up(x)' = Up(x)
  <2>1. <<x, "up">> \in Channels /\ <<x, "down">> \in Channels /\ <<x, "up">> # up
        /\ <<x, "down">> # up
    BY <1>14, ChannelShape
  <2>2. Up(x)' = Up(x) /\ Down(x)' = Down(x) /\ Mine(x)' = Mine(x)
    BY <1>1, <1>9, <2>1 DEF Up, Down, Mine
  <2>3. \A i \in Mine(x) : active'[i].call = active[i].call /\ active'[i].flag = active[i].flag
    BY <1>1
  <2> QED BY <1>2, <1>5, <1>14, <2>2, <2>3, SessionSame
<1>15. Sessions'
  <2>1. calling' = [x \in Clients |-> calling'[x]]
    BY <1>1, <1>2
  <2> QED BY <1>13, <1>14, <2>1 DEF Sessions
<1>16. Requests'
  BY <1>1 DEF IInv, Logic, Requests, RequestOK
<1>17. NodeNew' \/ NodeRuns'
  <2>1. Up(Node)' = Up(Node) /\ Down(Node)' = Down(Node)
    BY <1>9, ChannelShape DEF Up, Down
  <2>2. NodeNew => NodeNew'
    BY <1>1, <2>1 DEF NodeNew
  <2>3. NodeRuns => NodeRuns'
    BY <1>1, <2>1 DEF NodeRuns, Queue
  <2> QED BY <2>2, <2>3 DEF IInv, Logic
<1>18. CountOK'
  <2>1. c \notin Asking /\ Asking' = Asking \cup {c}
    <3>1. ~Asks(Up(c)) /\ Asks(Up(c)')
      BY <1>4, <1>11, <1>12, AsksShape
    <3>2. Up(c)' = flight'[up]
      BY DEF Up
    <3>3. \A x \in Clients : x # c => (Asks(Up(x)) <=> Asks(flight'[<<x, "up">>]))
      <4>1. ASSUME NEW x \in Clients, x # c PROVE Up(x) = flight'[<<x, "up">>]
        BY <1>14, <4>1 DEF Up
      <4> QED BY <4>1
    <3> QED BY <3>1, <3>2, <3>3, AskingMember
  <2> DEFINE k == Cardinality(Asking)
  <2>2. Cardinality(Asking') = k + 1 /\ k \in Nat
    BY <2>1, AskingFinite, FS_AddElement
  <2>3. request_id + k <= calls
    BY <1>2 DEF CountOK
  <2> HIDE DEF k
  <2>4. request_id' + Cardinality(Asking') <= calls'
    BY <1>1, <1>3, <2>2, <2>3
  <2>5. Cardinality(Asking)' = Cardinality(Asking')
    OBVIOUS
  <2> QED BY <1>1, <1>2, <1>3, <2>4, <2>5 DEF CountOK
<1>19. torn' \in Channels \cup {None}
  BY <1>1 DEF IInv
<1> QED BY <1>7, <1>15, <1>16, <1>17, <1>18, <1>19 DEF IInv, Logic

\* A packet of a client is taken and the packets ms are sent to it: requests do
\* not change.
LEMMA ClientTaken ==
    ASSUME Streams, Logic, NEW c \in Clients, NEW ms,
           flight' = [flight EXCEPT ![<<c, "up">>] = Tail(@), ![<<c, "down">>] = @ \o ms],
           UNCHANGED <<calling, active, request_id, calls>>,
           SessionOK(c)', Asks(Up(c)') => Asks(Up(c))
    PROVE  Logic'
<1> DEFINE up == <<c, "up">>
           down == <<c, "down">>
<1>1. up \in Channels /\ down \in Channels /\ up # down
  BY ChannelShape
<1>2. \A x \in Channels : x # up /\ x # down => flight'[x] = flight[x]
  BY <1>1, FlightAfter
<1>3. ASSUME NEW x \in Clients, x # c PROVE SessionOK(x)' /\ Up(x)' = Up(x)
  <2>1. /\ <<x, "up">> \in Channels /\ <<x, "down">> \in Channels
        /\ <<x, "up">> # up /\ <<x, "up">> # down /\ <<x, "down">> # up /\ <<x, "down">> # down
    BY <1>3, ChannelShape
  <2>2. Up(x)' = Up(x) /\ Down(x)' = Down(x) /\ Mine(x)' = Mine(x)
    BY <1>2, <2>1 DEF Up, Down, Mine
  <2>3. SessionOK(x)
    BY DEF Logic, Sessions
  <2> QED BY <2>2, <2>3, SessionSame
<1>4. Sessions'
  BY <1>3 DEF Logic, Sessions
<1>5. Requests'
  BY DEF Logic, Requests, RequestOK
<1>6. NodeNew' \/ NodeRuns'
  <2>1. Up(Node)' = Up(Node) /\ Down(Node)' = Down(Node)
    BY <1>2, ChannelShape DEF Up, Down
  <2>2. NodeNew => NodeNew'
    BY <2>1 DEF NodeNew
  <2>3. NodeRuns => NodeRuns'
    BY <2>1 DEF NodeRuns, Queue
  <2> QED BY <2>2, <2>3 DEF Logic
<1>7. Asking' \subseteq Asking
  <2>1. ASSUME NEW x \in Asking' PROVE x \in Asking
    <3>1. x \in Clients /\ Asks(flight'[<<x, "up">>])
      BY AskingMember
    <3>2. Up(x)' = flight'[<<x, "up">>]
      BY DEF Up
    <3>3. Asks(Up(x))
      BY <1>3, <3>1, <3>2
    <3> QED BY <3>1, <3>3, AskingMember
  <2> QED BY <2>1
<1>8. CountOK'
  BY <1>7, CountLess DEF Logic
<1> QED BY <1>4, <1>5, <1>6, <1>8 DEF Logic

\* A packet that nobody takes is torn.
LEMMA TearStep ==
    ASSUME IInv, NEW ch \in Channels, Tear(ch)
    PROVE  IInv'
<1>1. UNCHANGED <<flight, calling, active, request_id, calls>> /\ torn' = ch
  BY DEF Tear
<1>2. Streams'
  BY DEF IInv, Tear, Streams, StreamOK
<1>3. Logic'
  BY <1>1, LogicSame DEF IInv
<1> QED BY <1>1, <1>2, <1>3 DEF IInv

\* A call returns.
LEMMA ReturnStep ==
    ASSUME IInv, NEW c \in Clients, Return(c)
    PROVE  IInv'
<1> DEFINE up == <<c, "up">>
           down == <<c, "down">>
<1>1. up \in Channels /\ down \in Channels /\ up # down
  BY ChannelShape
<1>2. CASE Tear(down)
  BY <1>1, <1>2, TearStep
<1>3. CASE ~Tear(down)
  <2>1. /\ arrived[down] # <<>> /\ ~Blocked(c) /\ Whole(down) /\ Handle(down, up, <<>>)
        /\ calling' = [calling EXCEPT ![c] = None]
        /\ UNCHANGED <<capacity, active, request_id, calls, torn>>
    BY <1>3 DEF Return, Readable
  <2>2. Streams /\ Logic /\ <<>> \in Seq(Messages) /\ pending[up] = <<>>
    BY <2>1, SenderFree, ChannelShape DEF IInv
  <2>3. Moved(down, up, <<>>)
    <3> HIDE DEF up, down
    <3> QED BY <1>1, <2>1, <2>2, HandleMoves
  <2>4. /\ Streams'
        /\ flight'[down] = Tail(flight[down]) /\ flight'[up] = flight[up] \o <<>>
        /\ \A x \in Channels : x # up /\ x # down => flight'[x] = flight[x]
    BY <2>3 DEF Moved
  <2>5. flight[down] # <<>>
    <3>1. StreamOK(down)
      BY <1>1, <2>2 DEF Streams
    <3>2. Received(down)
      BY <1>1, <2>1, <3>1, ReceivedNext
    <3> QED BY <3>2 DEF Received
  <2>6. calling = [x \in Clients |-> calling[x]] /\ \A x \in Clients : SessionOK(x)
    BY <2>2 DEF Logic, Sessions
  <2>7. Answered(c)
    <3>1. ~Idle(c) /\ ~Asked(c) /\ ~Served(c)
      BY <2>5 DEF Idle, Asked, Served, Down
    <3> QED BY <2>6, <3>1 DEF SessionOK
  <2>8. Up(c) = <<>> /\ Mine(c) = {} /\ \E m \in Messages : Down(c) = <<m>>
    BY <2>7 DEF Answered
  <2>9. Up(c)' = <<>> /\ Down(c)' = <<>> /\ Mine(c)' = {}
    <3>1. PICK m \in Messages : Down(c) = <<m>>
      BY <2>8
    <3>2. flight[down] = <<m>> /\ flight[up] = <<>>
      BY <2>8, <3>1 DEF Up, Down
    <3>3. Tail(<<m>>) = <<>> /\ <<>> \o <<>> = <<>>
      OBVIOUS
    <3>4. Mine(c)' = Mine(c)
      BY <2>1 DEF Mine
    <3> QED BY <2>4, <2>8, <3>2, <3>3, <3>4 DEF Up, Down
  <2>10. calling'[c] = None /\ (\A x \in Clients : x # c => calling'[x] = calling[x])
         /\ calling' = [x \in Clients |-> calling'[x]]
    BY <2>1, <2>6
  <2>11. SessionOK(c)'
    <3>1. Idle(c)'
      BY <2>9, <2>10 DEF Idle
    <3> QED BY <2>10, <3>1 DEF SessionOK
  <2>12. ASSUME NEW x \in Clients, x # c PROVE SessionOK(x)' /\ Up(x)' = Up(x)
    <3>1. /\ <<x, "up">> \in Channels /\ <<x, "down">> \in Channels
          /\ <<x, "up">> # up /\ <<x, "up">> # down /\ <<x, "down">> # up /\ <<x, "down">> # down
      BY <2>12, ChannelShape
    <3>2. Up(x)' = Up(x) /\ Down(x)' = Down(x) /\ Mine(x)' = Mine(x)
      BY <2>1, <2>4, <3>1 DEF Up, Down, Mine
    <3>3. \A i \in Mine(x) : active'[i].call = active[i].call /\ active'[i].flag = active[i].flag
      BY <2>1
    <3> QED BY <2>6, <2>10, <2>12, <3>2, <3>3, SessionSame
  <2>13. Sessions'
    BY <2>10, <2>11, <2>12 DEF Sessions
  <2>14. Requests'
    BY <2>1, <2>2 DEF Logic, Requests, RequestOK
  <2>15. NodeNew' \/ NodeRuns'
    <3>1. Up(Node)' = Up(Node) /\ Down(Node)' = Down(Node)
      BY <2>4, ChannelShape DEF Up, Down
    <3>2. NodeNew => NodeNew'
      BY <2>1, <3>1 DEF NodeNew
    <3>3. NodeRuns => NodeRuns'
      BY <2>1, <3>1 DEF NodeRuns, Queue
    <3> QED BY <2>2, <3>2, <3>3 DEF Logic
  <2>16. CountOK'
    <3>1. \A x \in Clients : Up(x)' = Up(x)
      BY <2>8, <2>9, <2>12
    <3>2. Asking' = Asking
      BY <3>1 DEF Asking
    <3> QED BY <2>1, <2>2, <3>2, CountLess DEF Logic
  <2>17. torn' \in Channels \cup {None}
    BY <2>1 DEF IInv
  <2> QED BY <2>4, <2>13, <2>14, <2>15, <2>16, <2>17 DEF IInv, Logic
<1> QED BY <1>2, <1>3

\* What Barista finds on a client's connection.
LEMMA CallFound ==
    ASSUME IInv, NEW c \in Clients, arrived[<<c, "up">>] # <<>>, Whole(<<c, "up">>)
    PROVE  LET m == Head(flight[<<c, "up">>])
           IN  /\ Up(c) # <<>> /\ m = Head(Up(c)) /\ m \in Messages
               /\ FlagOf(arrived[<<c, "up">>]) = m.flag /\ Buffer(<<c, "up">>) = Ser(m)
               /\ \/ m = Registration(c) /\ m.flag = "DECAFS_CLIENT_INIT"
                  \/ /\ m = calling[c] /\ m \in CallsOf(c) /\ m.flag # "DECAFS_CLIENT_INIT"
                     /\ m.flag \in CallFlags /\ Tail(Up(c)) = <<>>
<1> DEFINE ch == <<c, "up">>
<1>1. ch \in Channels
  BY ChannelShape
<1>2. StreamOK(ch) /\ SessionOK(c)
  BY <1>1 DEF IInv, Streams, Logic, Sessions
<1>3. Received(ch)
  BY <1>1, <1>2, ReceivedNext
<1>4. /\ Up(c) # <<>> /\ Head(flight[ch]) = Head(Up(c)) /\ Head(flight[ch]) \in Messages
      /\ FlagOf(arrived[ch]) = Head(flight[ch]).flag /\ Buffer(ch) = Ser(Head(flight[ch]))
  BY <1>3 DEF Received, Up
<1>5. Registration(c).flag = "DECAFS_CLIENT_INIT"
  BY RegistrationSent, ChannelShape
<1>6. CASE Head(Up(c)) = Registration(c)
  BY <1>4, <1>5, <1>6
<1>7. CASE Head(Up(c)) # Registration(c)
  <2>1. Head(Up(c)) = calling[c] /\ calling[c] \in CallsOf(c) /\ Tail(Up(c)) = <<>>
    BY <1>2, <1>4, <1>7, UpHead
  <2>2. calling[c].flag # "DECAFS_CLIENT_INIT" /\ calling[c].flag \in CallFlags
    BY <2>1, CallShape
  <2> QED BY <1>4, <2>1, <2>2
<1> QED BY <1>6, <1>7

\* A registration, or a call that Barista does not answer.
LEMMA SilentStep ==
    ASSUME IInv, NEW c \in Clients, arrived[<<c, "up">>] # <<>>, Whole(<<c, "up">>),
           ~Blocked(Barista),
           FlagOf(arrived[<<c, "up">>]) \in {"DECAFS_CLIENT_INIT", "MKDIR", "OPENDIR"},
           Handle(<<c, "up">>, <<c, "down">>, <<>>),
           UNCHANGED <<capacity, calling, active, request_id, calls, torn>>
    PROVE  IInv'
<1> DEFINE up == <<c, "up">>
           down == <<c, "down">>
           m == Head(Up(c))
<1>1. up \in Channels /\ down \in Channels /\ up # down
  BY ChannelShape
<1>2. Streams /\ Logic /\ <<>> \in Seq(Messages) /\ pending[down] = <<>> /\ SessionOK(c)
  BY SenderFree, ChannelShape DEF IInv, Logic, Sessions
<1>3. /\ Streams' /\ flight' = [flight EXCEPT ![up] = Tail(@), ![down] = @ \o <<>>]
      /\ flight'[up] = Tail(flight[up]) /\ flight'[down] = flight[down] \o <<>>
  <2>1. /\ arrived[up] # <<>> /\ Whole(up) /\ Handle(up, down, <<>>) /\ capacity' = capacity
    OBVIOUS
  <2>2. Moved(up, down, <<>>)
    <3> HIDE DEF up, down
    <3> QED BY <1>1, <1>2, <2>1, HandleMoves
  <2> QED BY <2>2 DEF Moved
<1>4. flight'[up] = Tail(flight[up]) /\ flight'[down] = flight[down] \o <<>>
  BY <1>3
<1>5. /\ Up(c) # <<>> /\ FlagOf(arrived[up]) = m.flag
      /\ \/ m = Registration(c)
         \/ m = calling[c] /\ m \in CallsOf(c) /\ m.flag # "DECAFS_CLIENT_INIT"
            /\ Tail(Up(c)) = <<>>
  BY CallFound
<1>6. Mine(c) = {} /\ Down(c) = <<>>
  BY <1>2, <1>5, UpHead
<1>7. Up(c)' = Tail(Up(c)) /\ Down(c)' = <<>> /\ Mine(c)' = {}
  <2>1. Up(c)' = Tail(Up(c)) /\ Down(c)' = Down(c) \o <<>>
    BY <1>4 DEF Up, Down
  <2>2. <<>> \o <<>> = <<>>
    OBVIOUS
  <2>3. Mine(c)' = Mine(c)
    BY DEF Mine
  <2> QED BY <1>6, <2>1, <2>2, <2>3
<1>8. calling'[c] = calling[c] /\ calling[c] \in CallsOf(c) \cup {None}
  BY <1>2 DEF SessionOK
<1>9. CASE /\ m = Registration(c) /\ Tail(Up(c)) = <<>> /\ Idle(c)
  <2>1. SessionOK(c)'
    <3>1. Idle(c)'
      BY <1>7, <1>8, <1>9 DEF Idle
    <3> QED BY <1>8, <3>1 DEF SessionOK, CallsOf
  <2>2. ~Asks(Up(c)')
    BY <1>7, <1>9, AsksShape
  <2>3. Logic'
    BY <1>2, <1>3, <2>1, <2>2, ClientTaken
  <2> QED BY <1>3, <2>3 DEF IInv
<1>10. CASE /\ m = Registration(c) /\ Tail(Up(c)) = <<calling[c]>> /\ calling[c] \in CallsOf(c)
  <2>1. SessionOK(c)'
    <3>1. calling[c] # None
      BY <1>10, CallShape
    <3>2. Asked(c)'
      BY <1>7, <1>8, <1>10, <3>1 DEF Asked
    <3> QED BY <1>8, <3>2 DEF SessionOK, CallsOf
  <2>2. Asks(Up(c))
    <3>1. Asked(c)
      <4>1. ~Served(c) /\ ~Answered(c)
        BY <1>5 DEF Served, Answered
      <4>2. ~Idle(c)
        <5>1. Tail(<<Registration(c)>>) = <<>> /\ <<calling[c]>> # <<>>
          OBVIOUS
        <5> QED BY <1>5, <1>10, <5>1 DEF Idle
      <4> QED BY <1>2, <4>1, <4>2 DEF SessionOK
    <3> QED BY <1>10, <3>1, AsksShape DEF Asked
  <2>3. Logic'
    BY <1>2, <1>3, <2>1, <2>2, ClientTaken
  <2> QED BY <1>3, <2>3 DEF IInv
<1>11. CASE m # Registration(c)
  <2>1. /\ m = calling[c] /\ Tail(Up(c)) = <<>> /\ m.flag \in {"MKDIR", "OPENDIR"}
    BY <1>5, <1>11
  <2>2. SessionOK(c)'
    <3>1. Idle(c)'
      BY <1>7, <1>8, <2>1 DEF Idle
    <3> QED BY <1>8, <3>1 DEF SessionOK, CallsOf
  <2>3. ~Asks(Up(c)')
    BY <1>7, <2>1, AsksShape
  <2>4. Logic'
    BY <1>2, <1>3, <2>2, <2>3, ClientTaken
  <2> QED BY <1>3, <2>4 DEF IInv
<1>12. \/ m # Registration(c)
       \/ m = Registration(c) /\ Tail(Up(c)) = <<>> /\ Idle(c)
       \/ m = Registration(c) /\ Tail(Up(c)) = <<calling[c]>> /\ calling[c] \in CallsOf(c)
  <2>1. \A x \in CallsOf(c) : x # Registration(c)
    BY CallShape
  <2> QED BY <1>2, <1>5, <2>1, UpHead
<1> QED BY <1>9, <1>10, <1>11, <1>12

\* A call that Barista answers at once.
LEMMA AtOnceStep ==
    ASSUME IInv, NEW c \in Clients, arrived[<<c, "up">>] # <<>>, Whole(<<c, "up">>),
           ~Blocked(Barista), NEW flag, flag = FlagOf(arrived[<<c, "up">>]),
           flag \notin {"DECAFS_CLIENT_INIT", "MKDIR", "OPENDIR"},
           NEW r \in Results, NEW ans,
           ans = Message(IF flight[<<c, "up">>] = <<>> THEN 0 ELSE Head(flight[<<c, "up">>]).call,
                         ResponseFlag(flag),
                         AnswersAtOnce(flag, Deserialized(flag, Buffer(<<c, "up">>)), r)),
           Handle(<<c, "up">>, <<c, "down">>, <<ans>>),
           UNCHANGED <<capacity, calling, active, request_id, calls, torn>>
    PROVE  IInv'
<1> DEFINE up == <<c, "up">>
           down == <<c, "down">>
           m == Head(flight[up])
           p == Deserialized(flag, Buffer(up))
<1>1. up \in Channels /\ down \in Channels /\ up # down
  BY ChannelShape
<1>2. Streams /\ Logic /\ pending[down] = <<>> /\ SessionOK(c)
  BY SenderFree, ChannelShape DEF IInv, Logic, Sessions
<1>3. /\ Up(c) # <<>> /\ m = Head(Up(c)) /\ m \in Messages /\ flag = m.flag /\ Buffer(up) = Ser(m)
      /\ m = calling[c] /\ m \in CallsOf(c) /\ flag \in CallFlags /\ Tail(Up(c)) = <<>>
  BY CallFound
<1>4. /\ m # None /\ m.call \in Nat /\ m.p \in CallFields(flag) /\ m = Message(m.call, flag, m.p)
  BY <1>3, CallShape, Constants
<1>5. ans \in Messages /\ ans.call = m.call /\ ans.flag = ResponseFlag(flag)
  <2>1. flag \in CallFlags \ {"MKDIR", "OPENDIR"}
    BY <1>3
  <2>2. ans = Message(m.call, ResponseFlag(flag), AnswersAtOnce(flag, p, r))
    BY <1>3 DEF Up
  <2>3. ASSUME flag = "FILE_STORAGE_STAT"
        PROVE  p \in [filepath : Strings] /\ Len(Serialized(flag, p)) \in Int32
    <3>1. p = m.p
      BY <1>3, <1>4, <2>3, CallRead DEF Ser
    <3>2. m.p \in [filepath : Strings]
      BY <1>4, <2>3 DEF CallFields
    <3>3. Len(Serialized(flag, m.p)) \in Int32
      BY <1>3 DEF Messages
    <3> QED BY <3>1, <3>2, <3>3
  <2> HIDE DEF m, p
  <2> QED BY <1>4, <2>1, <2>2, <2>3, AtOnceSent
<1>6. <<ans>> \in Seq(Messages)
  BY <1>5, StreamOne
<1>7. /\ Streams' /\ flight' = [flight EXCEPT ![up] = Tail(@), ![down] = @ \o <<ans>>]
      /\ flight'[up] = Tail(flight[up]) /\ flight'[down] = flight[down] \o <<ans>>
  <2>1. /\ arrived[up] # <<>> /\ Whole(up) /\ Handle(up, down, <<ans>>) /\ capacity' = capacity
    OBVIOUS
  <2>2. Moved(up, down, <<ans>>)
    <3> DEFINE ms == <<ans>>
    <3>1. ms \in Seq(Messages) /\ Handle(up, down, ms)
      BY <1>6, <2>1
    <3> HIDE DEF up, down, ms
    <3>2. Moved(up, down, ms)
      BY <1>1, <1>2, <2>1, <3>1, HandleMoves
    <3> QED BY <3>2 DEF ms
  <2> QED BY <2>2 DEF Moved
<1>8. flight'[up] = Tail(flight[up]) /\ flight'[down] = flight[down] \o <<ans>>
  BY <1>7
<1>9. Mine(c) = {} /\ Down(c) = <<>>
  BY <1>2, <1>3, UpHead
<1>10. Up(c)' = <<>> /\ Down(c)' = <<ans>> /\ Mine(c)' = {}
  <2>1. Up(c)' = Tail(Up(c)) /\ Down(c)' = Down(c) \o <<ans>>
    BY <1>8 DEF Up, Down
  <2>2. <<>> \o <<ans>> = <<ans>>
    OBVIOUS
  <2>3. Mine(c)' = Mine(c)
    BY DEF Mine
  <2> QED BY <1>3, <1>9, <2>1, <2>2, <2>3
<1>11. SessionOK(c)'
  <2>1. calling'[c] = m /\ m.flag = flag /\ m \in CallsOf(c)
    BY <1>3
  <2>2. Answered(c)'
    BY <1>4, <1>5, <1>10, <2>1 DEF Answered
  <2> QED BY <2>1, <2>2 DEF SessionOK, CallsOf
<1>12. ~Asks(Up(c)')
  BY <1>10, AsksShape
<1>13. Logic'
  BY <1>2, <1>7, <1>11, <1>12, ClientTaken
<1> QED BY <1>7, <1>13 DEF IInv

\* A call that Barista passes on to the node.
Passed(c, flag, p, call, junk, id) ==
    /\ arrived[<<c, "up">>] # <<>> /\ Whole(<<c, "up">>) /\ ~Blocked(Barista)
    /\ flag = FlagOf(arrived[<<c, "up">>]) /\ flag \in {"READ", "WRITE", "REMOVE"} /\ NodeUp
    /\ flag = "REMOVE" \/ p.count > 0
    /\ p = Deserialized(flag, Buffer(<<c, "up">>))
    /\ call = IF flight[<<c, "up">>] = <<>> THEN 0 ELSE Head(flight[<<c, "up">>]).call
    /\ junk \in {0, Modulus - 1} /\ id = request_id + 1 /\ request_id' = id
    /\ Handle(<<c, "up">>, <<Node, "down">>, ChunkRequests(call, flag, p, id, junk))
    /\ active' = [i \in DOMAIN active \cup {id} |->
                    IF i # id THEN active[i]
                    ELSE [client |-> c, call |-> call, flag |-> flag,
                          left |-> IF flag = "REMOVE" THEN 2 ELSE p.count,
                          sum |-> 0,
                          data |-> [k \in 1 .. MaxChunks |-> <<>>]]]
    /\ UNCHANGED <<capacity, calling, calls, torn>>

\* A call that needs the node becomes a request.
LEMMA RemoteStep ==
    ASSUME IInv, NEW c \in Clients, NEW flag, NEW p, NEW call, NEW junk, NEW id,
           Passed(c, flag, p, call, junk, id)
    PROVE  IInv'
<1> USE DEF Passed
<1> DEFINE up == <<c, "up">>
           out == <<Node, "down">>
           m == Head(flight[up])
           ms == ChunkRequests(call, flag, p, id, junk)
           n == IF flag = "REMOVE" THEN 2 ELSE p.count
           new == [client |-> c, call |-> call, flag |-> flag, left |-> n, sum |-> 0,
                   data |-> [k \in 1 .. MaxChunks |-> <<>>]]
<1>1. up \in Channels /\ out \in Channels /\ up # out
  BY ChannelShape
<1>2. Streams /\ Logic /\ pending[out] = <<>> /\ SessionOK(c)
  BY SenderFree, ChannelShape DEF IInv, Logic, Sessions
<1>3. /\ Up(c) # <<>> /\ m = Head(Up(c)) /\ m \in Messages /\ flag = m.flag /\ Buffer(up) = Ser(m)
      /\ m = calling[c] /\ m \in CallsOf(c) /\ flag \in CallFlags /\ Tail(Up(c)) = <<>>
  BY CallFound
<1>4. /\ m # None /\ m.call \in Nat /\ m.p \in CallFields(flag) /\ m = Message(m.call, flag, m.p)
  BY <1>3, CallShape, Constants
<1>5. p = m.p /\ call = m.call
  <2>1. p = m.p
    BY <1>3, <1>4, CallRead DEF Ser
  <2> QED BY <1>3, <2>1 DEF Up
<1>6. Mine(c) = {} /\ Down(c) = <<>>
  BY <1>2, <1>3, UpHead
<1>7. c \in Asking
  <2>1. Up(c) = <<m>> \/ Up(c) = <<Registration(c), m>>
    <3>1. ~Idle(c)
      <4>1. Head(<<Registration(c)>>) = Registration(c) /\ m # Registration(c)
        BY <1>3, CallShape
      <4> QED BY <1>3, <4>1 DEF Idle
    <3>2. ~Served(c) /\ ~Answered(c)
      BY <1>3 DEF Served, Answered
    <3>3. Asked(c)
      BY <1>2, <3>1, <3>2 DEF SessionOK
    <3> QED BY <1>3, <3>3 DEF Asked
  <2>2. Asks(Up(c))
    BY <1>3, <2>1, AsksShape
  <2> QED BY <2>2, AskingMember
<1>8. /\ request_id \in Nat /\ calls \in 0 .. MaxCalls
      /\ request_id + Cardinality(Asking) <= calls
      /\ DOMAIN active \subseteq 1 .. request_id
  BY <1>2 DEF Logic, CountOK
<1>9. /\ Cardinality(Asking) \in Nat /\ Cardinality(Asking \ {c}) \in Nat
      /\ Cardinality(Asking \ {c}) = Cardinality(Asking) - 1
  <2>1. IsFiniteSet(Asking) /\ IsFiniteSet(Asking \ {c})
    BY AskingFinite, FS_Subset
  <2> QED BY <1>7, <2>1, FS_RemoveElement, FS_CardinalityType
<1>10. id \in 1 .. MaxCalls /\ id \in Word32 /\ id \in Nat /\ id \notin DOMAIN active
  <2> DEFINE k == Cardinality(Asking)
             l == Cardinality(Asking \ {c})
  <2>1. k \in Nat /\ l \in Nat /\ l = k - 1 /\ request_id + k <= calls
    BY <1>8, <1>9
  <2> HIDE DEF k, l
  <2>2. id \in 1 .. MaxCalls /\ id \in Nat
    BY <1>8, <2>1, Constants
  <2>3. id \in Word32
    BY <2>2, Widths, RadixAssumption DEF Word32
  <2>4. id \notin 1 .. request_id
    BY <1>8
  <2> QED BY <1>8, <2>2, <2>3, <2>4
<1>11. /\ n \in 1 .. MaxChunks /\ ms \in Seq(Messages) /\ Len(ms) = n
       /\ \A j \in 1 .. n :
             /\ ChunkMessage(ms[j]) /\ ms[j].flag \in RequestFlags
             /\ ms[j].call = call /\ ms[j].p.id = id /\ ms[j].p.chunk_num = j
  <2>1. call \in Nat /\ p \in CallFields(flag)
    BY <1>4, <1>5
  <2>2. /\ flag \in {"READ", "WRITE", "REMOVE"} /\ junk \in {0, Modulus - 1} /\ id \in Word32
        /\ flag = "REMOVE" \/ p.count > 0
    BY <1>10
  <2>3. RequestsOf(call, flag, p, id, junk)
    <3> HIDE DEF Passed
    <3> QED BY <2>1, <2>2, RequestsSent
  <2> QED BY <2>3 DEF RequestsOf
<1>12. Moved(up, out, ms)
  <2>1. arrived[up] # <<>> /\ Whole(up) /\ Handle(up, out, ms) /\ capacity' = capacity
    OBVIOUS
  <2>2. ms \in Seq(Messages)
    BY <1>11
  <2> HIDE DEF up, out, ms
  <2> QED BY <1>1, <1>2, <2>1, <2>2, HandleMoves
<1>13. /\ Streams'
       /\ flight'[up] = Tail(flight[up]) /\ flight'[out] = flight[out] \o ms
       /\ \A x \in Channels : x # up /\ x # out => flight'[x] = flight[x]
  BY <1>12 DEF Moved
<1>14. /\ DOMAIN active' = DOMAIN active \cup {id} /\ active'[id] = new
       /\ \A i \in DOMAIN active : active'[i] = active[i]
  BY <1>10
<1>15. /\ new.client = c /\ new.call = call /\ new.flag = flag /\ new.left = n
       /\ new.sum = 0 /\ new.data = [k \in 1 .. MaxChunks |-> <<>>]
  OBVIOUS
<1>16. new \in [client : Clients, call : Nat, flag : {"READ", "WRITE", "REMOVE"},
                left : 1 .. MaxChunks, sum : Int, data : [1 .. MaxChunks -> Pieces]]
  <2>1. n \in 1 .. MaxChunks /\ call \in Nat
    BY <1>4, <1>5, <1>11
  <2>2. [k \in 1 .. MaxChunks |-> <<>>] \in [1 .. MaxChunks -> Pieces]
    BY DEF Pieces
  <2> HIDE DEF n
  <2> QED BY <2>1, <2>2
<1> HIDE DEF m, ms, n, new
\* the sessions
<1>17. /\ Up(c)' = <<>> /\ Down(c)' = <<>> /\ Mine(c)' = {id}
  <2>1. Up(c)' = Tail(Up(c))
    BY <1>13 DEF Up
  <2>2. Down(c)' = Down(c)
    BY <1>13, ChannelShape DEF Down
  <2>3. Mine(c)' = {id}
    <3>1. \A i \in DOMAIN active : active'[i].client # c
      BY <1>6, <1>14 DEF Mine
    <3> QED BY <1>14, <1>15, <3>1 DEF Mine
  <2> QED BY <1>3, <1>6, <2>1, <2>2, <2>3
<1>18. SessionOK(c)'
  <2>1. calling'[c] = m /\ m # None /\ m \in CallsOf(c) /\ active'[id].call = m.call
        /\ active'[id].flag = m.flag /\ id \in DOMAIN active'
    BY <1>3, <1>4, <1>5, <1>14, <1>15
  <2>2. Served(c)'
    BY <1>17, <2>1 DEF Served
  <2> QED BY <2>1, <2>2 DEF SessionOK, CallsOf
<1>19. ASSUME NEW x \in Clients, x # c PROVE SessionOK(x)' /\ Up(x)' = Up(x)
  <2>1. /\ <<x, "up">> \in Channels /\ <<x, "down">> \in Channels
        /\ <<x, "up">> # up /\ <<x, "up">> # out /\ <<x, "down">> # up /\ <<x, "down">> # out
    BY <1>19, ChannelShape
  <2>2. Up(x)' = Up(x) /\ Down(x)' = Down(x)
    BY <1>13, <2>1 DEF Up, Down
  <2>3. Mine(x)' = Mine(x)
    BY <1>10, <1>14, <1>15, <1>19 DEF Mine
  <2>4. \A i \in Mine(x) : active'[i].call = active[i].call /\ active'[i].flag = active[i].flag
    BY <1>14 DEF Mine
  <2>5. SessionOK(x)
    BY <1>2 DEF Logic, Sessions
  <2> QED BY <2>2, <2>3, <2>4, <2>5, SessionSame
<1>20. Sessions'
  BY <1>2, <1>18, <1>19 DEF Logic, Sessions
<1>21. Requests'
  <2>1. RequestOK(id)'
    <3>1. new.sum + new.left <= MaxChunks /\ new.left - new.sum <= MaxChunks
      BY <1>11, <1>15, Constants
    <3> QED BY <1>14, <1>16, <3>1 DEF RequestOK
  <2>2. ASSUME NEW i \in DOMAIN active PROVE RequestOK(i)'
    <3>1. RequestOK(i) /\ active'[i] = active[i]
      BY <1>2, <1>14 DEF Logic, Requests
    <3> QED BY <3>1 DEF RequestOK
  <2> QED BY <1>14, <2>1, <2>2 DEF Requests
<1>22. NodeRuns'
  <2>1. NodeRuns
    <3>1. ASSUME NodeNew PROVE FALSE
      <4>1. flight[<<Node, "up">>] = <<Registration(Node)>>
            /\ Registration(Node).flag = "ESPRESSO_INIT"
        BY <3>1, RegistrationSent, ChannelShape DEF NodeNew, Up
      <4>2. 1 \in DOMAIN <<Registration(Node)>> /\ <<Registration(Node)>>[1] = Registration(Node)
        OBVIOUS
      <4> QED BY <4>1, <4>2 DEF NodeUp
    <3> QED BY <1>2, <3>1 DEF Logic
  <2>2. Up(Node)' = Up(Node) /\ Down(Node)' = Down(Node) \o ms
    BY <1>13, ChannelShape DEF Up, Down
  <2>3. Up(Node) \in Seq(Messages) /\ Down(Node) \in Seq(Messages)
    BY <1>2, ChannelShape DEF Streams, StreamOK, Up, Down
  <2>4. Queue' = Queue \o ms /\ Queue \in Seq(Messages)
    <3>1. Queue' = Up(Node) \o (Down(Node) \o ms)
      BY <2>2 DEF Queue
    <3>2. (Up(Node) \o Down(Node)) \o ms = Up(Node) \o (Down(Node) \o ms)
      <4>1. AnyOrder(Up(Node), Down(Node), ms)
        BY <1>11, <2>3, JoinedInAnyOrder
      <4> QED BY <4>1 DEF AnyOrder
    <3>3. Up(Node) \o Down(Node) \in Seq(Messages)
      BY <2>3, ConcatProperties
    <3> QED BY <3>1, <3>2, <3>3 DEF Queue
  <2>5. QueueOK(Queue \o ms, active')
    <3> DEFINE q == Queue
               act == active
               nw == active'
    <3>1. /\ q \in Seq(Messages) /\ QueueOK(q, act) /\ id \notin DOMAIN act
          /\ DOMAIN nw = DOMAIN act \cup {id} /\ \A i \in DOMAIN act : nw[i] = act[i]
          /\ nw[id].left = n /\ nw[id].call = call
      BY <1>10, <1>14, <1>15, <2>1, <2>4 DEF NodeRuns
    <3>2. /\ ms \in Seq(Messages) /\ n \in 1 .. MaxChunks /\ Len(ms) = n
          /\ \A j \in 1 .. n : /\ ChunkMessage(ms[j]) /\ ms[j].call = nw[id].call
                             /\ ms[j].p.id = id /\ ms[j].p.chunk_num = j
      BY <1>11, <3>1
    <3> HIDE DEF q, act, nw, Passed
    <3>3. Added(q, ms, act, id, nw, n)
      BY <3>1, <3>2 DEF Added
    <3>4. QueueOK(q \o ms, nw)
      BY <3>1, <3>2, <3>3, QueueAdd
    <3> QED BY <3>4 DEF q, nw
  <2>6. \A j \in 1 .. Len(Down(Node)') : Down(Node)'[j].flag \in RequestFlags
    <3> DEFINE d == Down(Node)
    <3>1. d \in Seq(Messages) /\ \A j \in 1 .. Len(d) : d[j].flag \in RequestFlags
      BY <2>1, <2>3 DEF NodeRuns
    <3>2. ms \in Seq(Messages) /\ \A j \in 1 .. Len(ms) : ms[j].flag \in RequestFlags
      BY <1>11
    <3> HIDE DEF d
    <3>3. \A j \in 1 .. Len(d \o ms) : (d \o ms)[j].flag \in RequestFlags
      <4>1. /\ Len(d \o ms) = Len(d) + Len(ms) /\ Len(d) \in Nat /\ Len(ms) \in Nat
            /\ \A j \in 1 .. Len(d) + Len(ms) :
                  (d \o ms)[j] = IF j <= Len(d) THEN d[j] ELSE ms[j - Len(d)]
        BY <3>1, <3>2, ConcatProperties
      <4>2. ASSUME NEW j \in 1 .. Len(d) + Len(ms)
            PROVE  j \in 1 .. Len(d) \/ (~(j <= Len(d)) /\ j - Len(d) \in 1 .. Len(ms))
        BY <4>1
      <4> QED BY <3>1, <3>2, <4>1, <4>2
    <3> QED BY <2>2, <3>3 DEF d
  <2>7. \A j \in 1 .. Len(Up(Node)') : Up(Node)'[j].flag \in AnswerFlags
    BY <2>1, <2>2 DEF NodeRuns
  <2> QED BY <2>4, <2>5, <2>6, <2>7 DEF NodeRuns
<1>23. CountOK'
  <2>1. Asking' = Asking \ {c}
    <3>1. ~Asks(flight'[up])
      BY <1>17, AsksShape DEF Up
    <3>2. \A x \in Clients : x # c => (Asks(Up(x)) <=> Asks(flight'[<<x, "up">>]))
      <4>1. ASSUME NEW x \in Clients, x # c PROVE Up(x) = flight'[<<x, "up">>]
        BY <1>19, <4>1 DEF Up
      <4> QED BY <4>1
    <3> QED BY <3>1, <3>2, AskingMember
  <2> DEFINE k == Cardinality(Asking)
             l == Cardinality(Asking \ {c})
  <2>2. k \in Nat /\ l \in Nat /\ l = k - 1 /\ request_id + k <= calls
    BY <1>8, <1>9
  <2>3. Cardinality(Asking)' = l
    BY <2>1
  <2> HIDE DEF k, l
  <2>4. request_id' + l <= calls
    BY <1>8, <2>2
  <2>5. DOMAIN active' \subseteq 1 .. request_id'
    <3>1. \A i \in 1 .. request_id : i \in 1 .. id
      BY <1>8
    <3> QED BY <1>8, <1>10, <1>14, <3>1
  <2> QED BY <1>8, <1>10, <2>3, <2>4, <2>5 DEF CountOK
<1> QED BY <1>13, <1>20, <1>21, <1>22, <1>23 DEF IInv, Logic

\* Barista takes a packet of a client, of any class.
LEMMA TakeCallStep ==
    ASSUME IInv, NEW c \in Clients, TakeCall(c)
    PROVE  IInv'
<1> DEFINE ch == <<c, "up">>
           flag == FlagOf(arrived[ch])
           p == Deserialized(flag, Buffer(ch))
           call == IF flight[ch] = <<>> THEN 0 ELSE Head(flight[ch]).call
<1>1. ch \in Channels
  BY ChannelShape
<1>2. arrived[ch] # <<>> /\ ~Blocked(Barista)
  BY DEF TakeCall, Readable
<1>3. CASE Tear(ch)
  BY <1>1, <1>3, TearStep
<1>4. CASE /\ Whole(ch)
           /\ flag \in {"DECAFS_CLIENT_INIT", "MKDIR", "OPENDIR"}
           /\ Handle(ch, <<c, "down">>, <<>>)
           /\ UNCHANGED <<capacity, calling, active, request_id, calls, torn>>
  BY <1>2, <1>4, SilentStep
<1>5. CASE /\ Whole(ch)
           /\ flag \notin {"DECAFS_CLIENT_INIT", "MKDIR", "OPENDIR"}
           /\ \E r \in Results :
                 Handle(ch, <<c, "down">>,
                        <<Message(call, ResponseFlag(flag), AnswersAtOnce(flag, p, r))>>)
           /\ UNCHANGED <<capacity, calling, active, request_id, calls, torn>>
  <2>1. PICK r \in Results :
                 Handle(ch, <<c, "down">>,
                        <<Message(call, ResponseFlag(flag), AnswersAtOnce(flag, p, r))>>)
    BY <1>5
  <2> QED BY <1>2, <1>5, <2>1, AtOnceStep
<1>6. CASE /\ Whole(ch)
           /\ flag = "REMOVE" \/ (flag \in {"READ", "WRITE"} /\ p.count > 0)
           /\ NodeUp
           /\ request_id' = get_new_request_id
           /\ \E junk \in {0, Modulus - 1} :
                 Handle(ch, <<Node, "down">>, ChunkRequests(call, flag, p, request_id', junk))
           /\ active' = [i \in DOMAIN active \cup {request_id'} |->
                           IF i # request_id' THEN active[i]
                           ELSE [client |-> c, call |-> call, flag |-> flag,
                                 left |-> IF flag = "REMOVE" THEN 2 ELSE p.count,
                                 sum |-> 0,
                                 data |-> [k \in 1 .. MaxChunks |-> <<>>]]]
           /\ UNCHANGED <<capacity, calling, calls, torn>>
  <2>1. PICK junk \in {0, Modulus - 1} :
                 Handle(ch, <<Node, "down">>, ChunkRequests(call, flag, p, request_id', junk))
    BY <1>6
  <2>2. request_id' = request_id + 1
    BY <1>6 DEF get_new_request_id
  <2>3. Passed(c, flag, p, call, junk, request_id')
    BY <1>2, <1>6, <2>1, <2>2 DEF Passed
  <2> HIDE DEF flag, p, call
  <2> QED BY <2>3, RemoteStep
<1> QED BY <1>3, <1>4, <1>5, <1>6 DEF TakeCall

\* The node registers.
LEMMA NodeInitStep ==
    ASSUME IInv, arrived[<<Node, "up">>] # <<>>, Whole(<<Node, "up">>), ~Blocked(Barista),
           FlagOf(arrived[<<Node, "up">>]) = "ESPRESSO_INIT",
           Handle(<<Node, "up">>, <<Node, "down">>, <<>>),
           UNCHANGED <<capacity, calling, active, request_id, calls, torn>>
    PROVE  IInv'
<1> DEFINE up == <<Node, "up">>
           down == <<Node, "down">>
<1>1. up \in Channels /\ down \in Channels /\ up # down
  BY ChannelShape
<1>2. Streams /\ Logic /\ pending[down] = <<>> /\ <<>> \in Seq(Messages) /\ StreamOK(up)
  <2>1. Streams /\ Logic /\ StreamOK(up)
    BY <1>1 DEF IInv, Streams
  <2> QED BY <2>1, SenderFree, ChannelShape
<1>3. Received(up)
  BY <1>1, <1>2, ReceivedNext
<1>4. Up(Node) # <<>> /\ Head(Up(Node)).flag = "ESPRESSO_INIT" /\ Up(Node) \in Seq(Messages)
  BY <1>2, <1>3 DEF Received, Up, StreamOK
<1>5. NodeNew
  <2>1. ASSUME NodeRuns PROVE FALSE
    <3>1. 1 \in 1 .. Len(Up(Node)) /\ Head(Up(Node)) = Up(Node)[1]
      BY <1>4
    <3>2. "ESPRESSO_INIT" \in AnswerFlags
      BY <1>4, <2>1, <3>1 DEF NodeRuns
    <3> QED BY <3>2 DEF AnswerFlags
  <2> QED BY <1>2, <2>1 DEF Logic
<1>6. Moved(up, down, <<>>)
  <2>1. arrived[up] # <<>> /\ Whole(up) /\ Handle(up, down, <<>>) /\ capacity' = capacity
    OBVIOUS
  <2> HIDE DEF up, down
  <2> QED BY <1>1, <1>2, <2>1, HandleMoves
<1>7. /\ Streams' /\ flight'[up] = Tail(flight[up]) /\ flight'[down] = flight[down] \o <<>>
      /\ \A x \in Channels : x # up /\ x # down => flight'[x] = flight[x]
  BY <1>6 DEF Moved
<1>8. Up(Node)' = <<>> /\ Down(Node)' = <<>>
  <2>1. flight[up] = <<Registration(Node)>> /\ flight[down] = <<>>
    BY <1>5 DEF NodeNew, Up, Down
  <2>2. Tail(<<Registration(Node)>>) = <<>> /\ <<>> \o <<>> = <<>>
    OBVIOUS
  <2> QED BY <1>7, <2>1, <2>2 DEF Up, Down
<1>9. NodeRuns'
  <2>1. Queue' = <<>>
    BY <1>8 DEF Queue
  <2>2. QueueOK(<<>>, active)
    BY <1>5 DEF QueueOK, NodeNew
  <2> QED BY <1>8, <2>1, <2>2 DEF NodeRuns
<1>10. ASSUME NEW x \in Clients PROVE SessionOK(x)' /\ Up(x)' = Up(x)
  <2>1. /\ <<x, "up">> \in Channels /\ <<x, "down">> \in Channels
        /\ <<x, "up">> # up /\ <<x, "up">> # down /\ <<x, "down">> # up /\ <<x, "down">> # down
    BY ChannelShape
  <2>2. Up(x)' = Up(x) /\ Down(x)' = Down(x) /\ Mine(x)' = Mine(x)
    BY <1>7, <2>1 DEF Up, Down, Mine
  <2>3. SessionOK(x)
    BY <1>2 DEF Logic, Sessions
  <2> QED BY <2>2, <2>3, SessionSame
<1>11. Sessions'
  BY <1>2, <1>10 DEF Logic, Sessions
<1>12. Requests'
  BY <1>2 DEF Logic, Requests, RequestOK
<1>13. CountOK'
  <2>1. Asking' = Asking
    BY <1>10 DEF Asking
  <2> QED BY <1>2, <2>1, CountLess DEF Logic
<1> QED BY <1>7, <1>9, <1>11, <1>12, <1>13 DEF IInv, Logic

\* What Barista finds on the node's connection, and the request it counts for.
LEMMA AnswerFound ==
    ASSUME IInv, arrived[<<Node, "up">>] # <<>>, Whole(<<Node, "up">>),
           FlagOf(arrived[<<Node, "up">>]) # "ESPRESSO_INIT"
    PROVE  LET m == Head(Up(Node))
           IN  /\ NodeRuns /\ Up(Node) # <<>> /\ Up(Node) \in Seq(Messages)
               /\ Down(Node) \in Seq(Messages) /\ Up(Node)[1] = m
               /\ FlagOf(arrived[<<Node, "up">>]) = m.flag /\ m.flag \in AnswerFlags
               /\ Buffer(<<Node, "up">>) = Ser(m) /\ ChunkMessage(m)
               /\ IdOf(arrived[<<Node, "up">>]) = m.p.id
               /\ m.p.id \in DOMAIN active /\ active[m.p.id].call = m.call
               /\ RequestOK(m.p.id)
<1> DEFINE up == <<Node, "up">>
           m == Head(Up(Node))
<1>1. up \in Channels /\ <<Node, "down">> \in Channels
  BY ChannelShape
<1>2. Streams /\ Logic /\ StreamOK(up) /\ StreamOK(<<Node, "down">>)
  BY <1>1 DEF IInv, Streams
<1>3. Received(up)
  BY <1>1, <1>2, ReceivedNext
<1>4. /\ Up(Node) # <<>> /\ FlagOf(arrived[up]) = m.flag /\ Buffer(up) = Ser(m)
      /\ IdOf(arrived[up]) = IdOf(Ser(m))
      /\ Up(Node) \in Seq(Messages) /\ Down(Node) \in Seq(Messages)
  BY <1>2, <1>3 DEF Received, Up, Down, StreamOK
<1>5. NodeRuns
  <2>1. Registration(Node).flag = "ESPRESSO_INIT" /\ Head(<<Registration(Node)>>) = Registration(Node)
    BY RegistrationSent, ChannelShape
  <2>2. ~NodeNew
    BY <1>4, <2>1 DEF NodeNew
  <2> QED BY <1>2, <2>2 DEF Logic
<1>6. 1 \in 1 .. Len(Up(Node)) /\ m = Up(Node)[1]
  BY <1>4
<1>7. 1 \in 1 .. Len(Queue) /\ Queue[1] = m
  <2> DEFINE u == Up(Node)
             d == Down(Node)
  <2>1. u \in Seq(Messages) /\ d \in Seq(Messages) /\ u # <<>>
    BY <1>4
  <2> HIDE DEF u, d
  <2>2. Len(u) \in Nat /\ Len(d) \in Nat /\ Len(u) >= 1
    BY <2>1
  <2>3. Len(u \o d) = Len(u) + Len(d) /\ 1 \in 1 .. Len(u) + Len(d) /\ (u \o d)[1] = u[1]
    BY <2>1, <2>2, ConcatProperties
  <2> QED BY <1>6, <2>3 DEF u, d, Queue
<1> HIDE DEF m
<1>8. /\ m.flag \in AnswerFlags /\ ChunkMessage(m) /\ m.p.id \in DOMAIN active
      /\ active[m.p.id].call = m.call
  BY <1>5, <1>6, <1>7 DEF NodeRuns, QueueOK
<1>9. IdOf(Ser(m)) = m.p.id
  BY <1>8, ChunkRead
<1>10. RequestOK(m.p.id)
  BY <1>2, <1>8 DEF Logic, Requests
<1> QED BY <1>4, <1>5, <1>6, <1>8, <1>9, <1>10 DEF m

\* A request after an answer.
RequestRecord == [client : Clients, call : Nat,
                  flag : {"READ", "WRITE", "REMOVE"}, left : 1 .. MaxChunks,
                  sum : Int, data : [1 .. MaxChunks -> Pieces]]

\* A request and the answer to one of its chunks.
Countable(r, p) ==
    /\ p.count \in {1, -1} /\ p.data \in Pieces /\ p.chunk_num \in 1 .. MaxChunks
    /\ r \in RequestRecord
    /\ r.sum + r.left <= MaxChunks /\ r.left - r.sum <= MaxChunks

\* The request has counted the answer.
CountedOK(r, p, n) ==
    /\ n.client = r.client /\ n.call = r.call /\ n.flag = r.flag
    /\ n.left = r.left - 1 /\ n.sum = r.sum + p.count
    /\ n.left \in Nat /\ n.sum \in Int
    /\ n.sum + n.left <= MaxChunks /\ n.left - n.sum <= MaxChunks
    /\ n.data \in [1 .. MaxChunks -> Pieces]
    /\ n.left # 0 => n \in RequestRecord

\* read_response_handler and the handlers of the other answers count so.
LEMMA CountedRequest ==
    ASSUME NEW r, NEW p, Countable(r, p)
    PROVE  CountedOK(r, p, Counted(r, p))
<1> USE DEF Countable, RequestRecord
<1> DEFINE n == Counted(r, p)
           d == IF p.data = <<>> THEN r.data ELSE [r.data EXCEPT ![p.chunk_num] = p.data]
<1>1. /\ r.client \in Clients /\ r.call \in Nat /\ r.flag \in {"READ", "WRITE", "REMOVE"}
      /\ r.left \in 1 .. MaxChunks /\ r.sum \in Int /\ r.data \in [1 .. MaxChunks -> Pieces]
  OBVIOUS
<1>2. d \in [1 .. MaxChunks -> Pieces]
  BY <1>1
<1>3. /\ n.client = r.client /\ n.call = r.call /\ n.flag = r.flag
      /\ n.left = r.left - 1 /\ n.sum = r.sum + p.count /\ n.data = d
  BY DEF Counted
<1>4. /\ n.left \in Nat /\ n.sum \in Int
      /\ n.sum + n.left <= MaxChunks /\ n.left - n.sum <= MaxChunks
      /\ n.left # 0 => n.left \in 1 .. MaxChunks
  <2> HIDE DEF n
  <2> QED BY <1>1, <1>3, Constants, SMTT(30)
<1>5. n \in [client : Clients, call : Nat, flag : {"READ", "WRITE", "REMOVE"}, left : Int,
             sum : Int, data : [1 .. MaxChunks -> Pieces]]
  <2> DEFINE a == r.left - 1
             b == r.sum + p.count
  <2>1. a \in Int /\ b \in Int
    BY <1>1, Constants
  <2>2. n = [r EXCEPT !.left = a, !.sum = b, !.data = d]
    BY DEF Counted
  <2> HIDE DEF a, b, d, n
  <2> QED BY <1>1, <1>2, <2>1, <2>2
<1> HIDE DEF n, d
<1>6. n.left # 0 =>
         n \in [client : Clients, call : Nat,
                flag : {"READ", "WRITE", "REMOVE"}, left : 1 .. MaxChunks,
                sum : Int, data : [1 .. MaxChunks -> Pieces]]
  BY <1>1, <1>2, <1>3, <1>4, <1>5
<1> QED BY <1>2, <1>3, <1>4, <1>6 DEF n, CountedOK

\* Barista counts the answer of a chunk.
LEMMA AnswerStep ==
    ASSUME IInv, arrived[<<Node, "up">>] # <<>>, Whole(<<Node, "up">>), ~Blocked(Barista),
           FlagOf(arrived[<<Node, "up">>]) # "ESPRESSO_INIT",
           NEW p, p = Deserialized(FlagOf(arrived[<<Node, "up">>]), Buffer(<<Node, "up">>)),
           NEW r, r = Counted(active[p.id], p),
           Handle(<<Node, "up">>, <<r.client, "down">>, AnswerIfDone(r)),
           active' = IF r.left = 0 THEN [i \in DOMAIN active \ {p.id} |-> active[i]]
                     ELSE [active EXCEPT ![p.id] = r],
           UNCHANGED <<capacity, calling, request_id, calls, torn>>
    PROVE  IInv'
<1>a. PICK m : m = Head(Up(Node))
  OBVIOUS
<1>b. PICK id : id = m.p.id
  OBVIOUS
<1>c. PICK old : old = active[id]
  OBVIOUS
<1>d. PICK c : c = old.client
  OBVIOUS
<1> DEFINE up == <<Node, "up">>
           out == <<c, "down">>
           ms == AnswerIfDone(r)
<1>1. /\ NodeRuns /\ Up(Node) # <<>> /\ Up(Node) \in Seq(Messages)
      /\ Down(Node) \in Seq(Messages) /\ Up(Node)[1] = m
      /\ FlagOf(arrived[up]) = m.flag /\ m.flag \in AnswerFlags
      /\ Buffer(up) = Ser(m) /\ ChunkMessage(m)
      /\ id \in DOMAIN active /\ old.call = m.call /\ RequestOK(id)
  BY <1>a, <1>b, <1>c, AnswerFound
<1>2. /\ p.id = id /\ p.chunk_num \in 1 .. MaxChunks /\ p.data \in Pieces /\ p.count \in {1, -1}
  <2>1. p = Deserialized(m.flag, Ser(m))
    BY <1>1
  <2>2. /\ p.id = m.p.id /\ p.chunk_num = m.p.chunk_num
        /\ p.data = m.p.data /\ p.count \in {1, -1}
    BY <1>1, <2>1, ChunkRead
  <2> QED BY <1>1, <1>b, <2>2 DEF ChunkMessage
<1>3. /\ old \in [client : Clients, call : Nat,
                  flag : {"READ", "WRITE", "REMOVE"}, left : 1 .. MaxChunks,
                  sum : Int, data : [1 .. MaxChunks -> Pieces]]
      /\ old.sum + old.left <= MaxChunks /\ old.left - old.sum <= MaxChunks
  BY <1>1, <1>c DEF RequestOK
<1>4. r = Counted(old, p)
  BY <1>2, <1>c
<1>5. /\ r.client = c /\ r.call = old.call /\ r.flag = old.flag
      /\ r.left = old.left - 1 /\ r.left \in Nat /\ r.sum \in Int
      /\ r.sum + r.left <= MaxChunks /\ r.left - r.sum <= MaxChunks
      /\ r.data \in [1 .. MaxChunks -> Pieces]
      /\ r.left # 0 =>
            r \in [client : Clients, call : Nat,
                   flag : {"READ", "WRITE", "REMOVE"}, left : 1 .. MaxChunks,
                   sum : Int, data : [1 .. MaxChunks -> Pieces]]
  <2>1. Countable(old, p)
    BY <1>2, <1>3 DEF Countable, RequestRecord
  <2>2. CountedOK(old, p, r)
    BY <1>4, <2>1, CountedRequest
  <2> QED BY <1>d, <2>2 DEF CountedOK, RequestRecord
<1>6. /\ c \in Clients /\ old.call \in Nat /\ old.flag \in {"READ", "WRITE", "REMOVE"}
      /\ old.left \in 1 .. MaxChunks
  BY <1>3, <1>d
<1>7. /\ Answer(r) \in Messages /\ Answer(r).call = old.call
      /\ Answer(r).flag = ResponseFlag(old.flag)
  <2>1. -MaxChunks <= r.sum /\ r.sum <= MaxChunks
    BY <1>5, Constants, SMTT(30)
  <2>2. /\ r.call = old.call /\ r.flag = old.flag /\ r.sum \in Int
        /\ r.data \in [1 .. MaxChunks -> Pieces]
    BY <1>5
  <2>3. r.call \in Nat /\ r.flag \in {"READ", "WRITE", "REMOVE"}
    BY <1>6, <2>2
  <2> QED BY <2>1, <2>2, <2>3, AnswerSent
<1>8. ms \in Seq(Messages) /\ ms = IF r.left = 0 THEN <<Answer(r)>> ELSE <<>>
  <2>1. <<>> \in Seq(Messages) /\ <<Answer(r)>> \in Seq(Messages)
    BY <1>7
  <2> QED BY <2>1 DEF AnswerIfDone
<1> HIDE DEF ms
<1>9. up \in Channels /\ out \in Channels /\ up # out /\ c # Node
  BY <1>6, ChannelShape
<1>10. Streams /\ Logic /\ pending[out] = <<>>
  <2>1. Streams /\ Logic
    BY DEF IInv
  <2> QED BY <1>6, <2>1, SenderFree, ChannelShape
<1>11. Moved(up, out, ms)
  <2>1. arrived[up] # <<>> /\ Whole(up) /\ Handle(up, out, ms) /\ capacity' = capacity
    BY <1>5 DEF ms
  <2> HIDE DEF up, out
  <2> QED BY <1>8, <1>9, <1>10, <2>1, HandleMoves
<1>12. /\ Streams' /\ flight'[up] = Tail(flight[up]) /\ flight'[out] = flight[out] \o ms
       /\ \A x \in Channels : x # up /\ x # out => flight'[x] = flight[x]
  BY <1>11 DEF Moved
<1>13. /\ \A i \in DOMAIN active' : i \in DOMAIN active /\ (i # id => active'[i] = active[i])
       /\ r.left = 0 => DOMAIN active' = DOMAIN active \ {id}
       /\ r.left # 0 => DOMAIN active' = DOMAIN active /\ active'[id] = r
       /\ \A i \in DOMAIN active : i # id => i \in DOMAIN active' /\ active'[i] = active[i]
  BY <1>1, <1>2
\* the sessions
<1>14. /\ Up(c)' = Up(c) /\ Down(c)' = Down(c) \o ms
       /\ Up(Node)' = Tail(Up(Node)) /\ Down(Node)' = Down(Node)
  <2>1. /\ <<c, "up">> \in Channels /\ <<c, "up">> # up /\ <<c, "up">> # out
        /\ <<Node, "down">> \in Channels /\ <<Node, "down">> # up /\ <<Node, "down">> # out
    BY <1>6, <1>9, ChannelShape
  <2> QED BY <1>12, <2>1 DEF Up, Down
<1>15. /\ SessionOK(c) /\ Served(c) /\ Mine(c) = {id} /\ Up(c) = <<>> /\ Down(c) = <<>>
       /\ calling[c] # None /\ old.call = calling[c].call /\ old.flag = calling[c].flag
  <2>1. SessionOK(c) /\ id \in Mine(c)
    BY <1>1, <1>6, <1>10, <1>c, <1>d DEF Logic, Sessions, Mine
  <2>2. Served(c)
    BY <2>1 DEF SessionOK, Idle, Asked, Answered
  <2>3. PICK i \in DOMAIN active : /\ Mine(c) = {i} /\ active[i].call = calling[c].call
                                   /\ active[i].flag = calling[c].flag
    BY <2>2 DEF Served
  <2>4. i = id
    BY <2>1, <2>3
  <2> QED BY <1>c, <2>1, <2>2, <2>3, <2>4 DEF Served
<1>16. SessionOK(c)'
  <2>1. CASE r.left = 0
    <3>1. Down(c)' = <<Answer(r)>>
      <4>1. <<>> \o <<Answer(r)>> = <<Answer(r)>>
        OBVIOUS
      <4> QED BY <1>8, <1>14, <1>15, <2>1, <4>1
    <3>2. Mine(c)' = {}
      <4>1. \A i \in DOMAIN active : active[i].client = c => i = id
        BY <1>15 DEF Mine
      <4> QED BY <1>13, <2>1, <4>1 DEF Mine
    <3>3. Answered(c)'
      <4>1. calling'[c] = calling[c] /\ calling[c].flag \notin {"MKDIR", "OPENDIR"}
        BY <1>6, <1>15
      <4> QED BY <1>7, <1>14, <1>15, <3>1, <3>2, <4>1 DEF Answered
    <3> QED BY <1>15, <3>3 DEF SessionOK, CallsOf
  <2>2. CASE r.left # 0
    <3>1. Down(c)' = Down(c)
      <4>1. <<>> \o <<>> = <<>>
        OBVIOUS
      <4> QED BY <1>8, <1>14, <1>15, <2>2, <4>1
    <3>2. Mine(c)' = Mine(c)
      <4>1. \A i \in DOMAIN active : active'[i].client = active[i].client
        BY <1>5, <1>13, <1>c, <1>d, <2>2
      <4> QED BY <1>13, <2>2, <4>1 DEF Mine
    <3>3. \A i \in Mine(c) : active'[i].call = active[i].call /\ active'[i].flag = active[i].flag
      <4>1. Mine(c) = {id} /\ id \in DOMAIN active /\ r.call = old.call /\ r.flag = old.flag
            /\ active'[id] = r
        BY <1>1, <1>5, <1>13, <1>15, <2>2
      <4> QED BY <4>1, <1>c
    <3> QED BY <1>6, <1>14, <1>15, <3>1, <3>2, <3>3, SessionSame
  <2> QED BY <2>1, <2>2
<1>17. ASSUME NEW x \in Clients, x # c PROVE SessionOK(x)' /\ Up(x)' = Up(x)
  <2>1. /\ <<x, "up">> \in Channels /\ <<x, "down">> \in Channels
        /\ <<x, "up">> # up /\ <<x, "up">> # out /\ <<x, "down">> # up /\ <<x, "down">> # out
    BY <1>6, <1>17, ChannelShape
  <2>2. Up(x)' = Up(x) /\ Down(x)' = Down(x)
    BY <1>12, <2>1 DEF Up, Down
  <2>3. id \notin Mine(x) /\ id \notin Mine(x)'
    <3>1. id \notin Mine(x)
      BY <1>17, <1>c, <1>d DEF Mine
    <3>2. id \in DOMAIN active' => active'[id].client = c
      BY <1>5, <1>13
    <3> QED BY <1>17, <3>1, <3>2 DEF Mine
  <2>4. Mine(x)' = Mine(x)
    BY <1>13, <2>3 DEF Mine
  <2>5. \A i \in Mine(x) : active'[i].call = active[i].call /\ active'[i].flag = active[i].flag
    BY <1>13, <2>3 DEF Mine
  <2>6. SessionOK(x)
    BY <1>10 DEF Logic, Sessions
  <2> QED BY <2>2, <2>4, <2>5, <2>6, SessionSame
<1>18. Sessions'
  BY <1>10, <1>16, <1>17 DEF Logic, Sessions
<1>19. Requests'
  <2>1. ASSUME NEW i \in DOMAIN active', i # id PROVE RequestOK(i)'
    <3>1. RequestOK(i) /\ active'[i] = active[i]
      BY <1>10, <1>13, <2>1 DEF Logic, Requests
    <3> QED BY <3>1 DEF RequestOK
  <2>2. ASSUME id \in DOMAIN active' PROVE RequestOK(id)'
    <3>1. r.left # 0 /\ active'[id] = r
      BY <1>13, <2>2
    <3> QED BY <1>5, <3>1 DEF RequestOK
  <2> QED BY <2>1, <2>2 DEF Requests
<1>20. NodeRuns'
  <2> DEFINE u == Up(Node)
             d == Down(Node)
             act == active
             new == active'
  <2>1. u \in Seq(Messages) /\ d \in Seq(Messages) /\ u # <<>> /\ u[1] = m
    BY <1>1
  <2>2. /\ u \o d \in Seq(Messages) /\ u \o d # <<>> /\ (u \o d)[1] = m
        /\ Tail(u \o d) = Tail(u) \o d
    <3> HIDE DEF u, d
    <3> QED BY <2>1, TailConcat
  <2>3. QueueOK(u \o d, act)
    BY <1>1 DEF NodeRuns, Queue
  <2>4. Counts(u \o d, act, new)
    <3>1. /\ act[id].left \in Nat /\ act[id].left = old.left
          /\ (r.left = 0 <=> act[id].left = 1)
      <4>1. act[id] = old
        BY <1>c
      <4> DEFINE x == old.left
                 y == r.left
      <4>2. y = x - 1 /\ x \in 1 .. MaxChunks
        BY <1>5, <1>6
      <4> HIDE DEF act, x, y
      <4>3. x \in Nat /\ (y = 0 <=> x = 1)
        BY <4>2, Constants
      <4> QED BY <4>1, <4>3 DEF x, y
    <3>2. CASE r.left = 0
      <4>1. act[id].left = 1 /\ DOMAIN new = DOMAIN act \ {id}
            /\ \A i \in DOMAIN new : i # id => new[i] = act[i]
        BY <1>13, <3>1, <3>2
      <4> HIDE DEF act, new, u, d
      <4> QED BY <1>b, <2>2, <2>3, <3>1, <4>1 DEF Counts
    <3>3. CASE r.left # 0
      <4>1. /\ act[id].left # 1 /\ DOMAIN new = DOMAIN act
            /\ new[id].left = act[id].left - 1 /\ new[id].call = act[id].call
            /\ \A i \in DOMAIN new : i # id => new[i] = act[i]
        BY <1>5, <1>13, <1>c, <3>1, <3>3
      <4> HIDE DEF act, new, u, d
      <4> QED BY <1>b, <2>2, <2>3, <3>1, <4>1 DEF Counts
    <3> QED BY <3>2, <3>3
  <2>5. QueueOK(Tail(u) \o d, new)
    <3> DEFINE q == u \o d
    <3>1. q \in Seq(Messages) /\ q # <<>> /\ Counts(q, act, new)
      BY <2>2, <2>4
    <3> HIDE DEF q, act, new
    <3>2. QueueOK(Tail(q), new)
      BY <3>1, QueueTake
    <3> QED BY <2>2, <3>2 DEF q
  <2>6. Queue' = Tail(u) \o d
    BY <1>14 DEF Queue
  <2>7. \A j \in 1 .. Len(Tail(u)) : Tail(u)[j].flag \in AnswerFlags
    <3>1. \A j \in 1 .. Len(u) : u[j].flag \in AnswerFlags
      BY <1>1 DEF NodeRuns
    <3> HIDE DEF u
    <3>2. /\ Len(u) \in Nat /\ Len(Tail(u)) = Len(u) - 1
          /\ \A j \in 1 .. Len(Tail(u)) : Tail(u)[j] = u[j + 1]
      BY <2>1, HeadTailProperties
    <3>3. ASSUME NEW j \in 1 .. Len(Tail(u)) PROVE Tail(u)[j].flag \in AnswerFlags
      <4>1. j + 1 \in 1 .. Len(u) /\ Tail(u)[j] = u[j + 1]
        BY <3>2
      <4> QED BY <3>1, <4>1
    <3> QED BY <3>3
  <2> HIDE DEF act
  <2> QED BY <1>1, <1>14, <2>5, <2>6, <2>7 DEF NodeRuns
<1>21. CountOK'
  <2>1. \A x \in Clients : Up(x)' = Up(x)
    BY <1>14, <1>17
  <2>2. Asking' = Asking
    BY <2>1 DEF Asking
  <2> QED BY <1>10, <1>13, <2>2, CountLess DEF Logic
<1> QED BY <1>12, <1>18, <1>19, <1>20, <1>21 DEF IInv, Logic

\* Barista takes what has come from the node: a registration or an answer.
LEMMA TakeAnswerStep ==
    ASSUME IInv, TakeAnswer
    PROVE  IInv'
<1> DEFINE ch == <<Node, "up">>
           flag == FlagOf(arrived[ch])
           p == Deserialized(flag, Buffer(ch))
           r == Counted(active[p.id], p)
<1>1. ch \in Channels
  BY ChannelShape
<1>2. arrived[ch] # <<>> /\ ~Blocked(Barista)
  BY DEF TakeAnswer, Readable
<1>3. CASE Tear(ch)
  BY <1>1, <1>3, TearStep
<1>4. CASE /\ Whole(ch)
           /\ flag = "ESPRESSO_INIT"
           /\ Handle(ch, <<Node, "down">>, <<>>)
           /\ UNCHANGED <<capacity, calling, active, request_id, calls, torn>>
  BY <1>2, <1>4, NodeInitStep
<1>5. CASE /\ Whole(ch)
           /\ flag # "ESPRESSO_INIT"
           /\ Handle(ch, <<r.client, "down">>, AnswerIfDone(r))
           /\ active' = IF r.left = 0 THEN [i \in DOMAIN active \ {p.id} |-> active[i]]
                        ELSE [active EXCEPT ![p.id] = r]
           /\ UNCHANGED <<capacity, calling, request_id, calls, torn>>
  BY <1>2, <1>5, AnswerStep
<1> QED BY <1>3, <1>4, <1>5 DEF TakeAnswer

\* The node answers a chunk request: the chunk keeps its place in the queue.
LEMMA NodeHandles ==
    ASSUME IInv, NodeStep
    PROVE  IInv'
<1> DEFINE up == <<Node, "up">>
           down == <<Node, "down">>
<1>1. up \in Channels /\ down \in Channels /\ up # down
  BY ChannelShape
<1>2. CASE Tear(down)
  BY <1>1, <1>2, TearStep
<1>3. CASE ~Tear(down)
  <2>1. /\ arrived[down] # <<>> /\ ~Blocked(Node) /\ Whole(down)
        /\ UNCHANGED <<capacity, calling, active, request_id, calls, torn>>
    BY <1>3 DEF NodeStep, Readable
  <2>2. Streams /\ Logic /\ pending[up] = <<>> /\ StreamOK(up) /\ StreamOK(down)
    <3>1. Streams /\ Logic /\ StreamOK(up) /\ StreamOK(down)
      BY <1>1 DEF IInv, Streams
    <3> QED BY <2>1, <3>1, SenderFree, ChannelShape
  <2>3. Received(down)
    BY <1>1, <2>1, <2>2, ReceivedNext
  <2>4. PICK m : m = Head(flight[down])
    OBVIOUS
  <2>5. /\ flight[down] # <<>> /\ m \in Messages /\ Tail(flight[down]) \in Seq(Messages)
        /\ FlagOf(arrived[down]) = m.flag /\ Buffer(down) = Ser(m)
    BY <2>1, <2>3, <2>4 DEF Received
  <2>6. NodeRuns
    BY <2>2, <2>5 DEF Logic, NodeNew, Down
  <2>7. /\ Up(Node) \in Seq(Messages) /\ Down(Node) \in Seq(Messages)
        /\ Down(Node) # <<>> /\ Down(Node)[1] = m /\ m.call \in Nat
    BY <2>2, <2>4, <2>5 DEF Up, Down, StreamOK, Messages
  <2> DEFINE u == Up(Node)
             d == Down(Node)
             k == Len(u) + 1
  <2>8. /\ Len(u) \in Nat /\ Len(d) \in Nat /\ Len(d) >= 1
        /\ Len(Queue) = Len(u) + Len(d)
        /\ \A j \in 1 .. Len(u) + Len(d) :
              Queue[j] = IF j <= Len(u) THEN u[j] ELSE d[j - Len(u)]
    <3>1. u \in Seq(Messages) /\ d \in Seq(Messages) /\ d # <<>>
      BY <2>7
    <3> HIDE DEF u, d
    <3>2. Len(u) \in Nat /\ Len(d) \in Nat /\ Len(d) >= 1
      BY <3>1
    <3>3. /\ Len(u \o d) = Len(u) + Len(d)
          /\ \A j \in 1 .. Len(u) + Len(d) :
                (u \o d)[j] = IF j <= Len(u) THEN u[j] ELSE d[j - Len(u)]
      BY <3>1, ConcatProperties
    <3> QED BY <3>2, <3>3 DEF Queue, u, d
  <2>9. k \in 1 .. Len(Queue) /\ Queue[k] = m
    <3>1. k \in 1 .. Len(u) + Len(d) /\ ~(k <= Len(u)) /\ k - Len(u) = 1
      BY <2>8
    <3>2. d[1] = m
      BY <2>7
    <3> HIDE DEF k, u, d
    <3> QED BY <2>8, <3>1, <3>2
  <2>10. ChunkMessage(m) /\ m.flag \in RequestFlags
    <3>1. 1 \in 1 .. Len(d)
      BY <2>8
    <3> QED BY <2>6, <2>7, <2>9, <3>1 DEF NodeRuns, QueueOK
  <2>11. PICK a \in Processed(m.flag, Deserialized(m.flag, Ser(m))) :
            Handle(down, up, <<Message(m.call, a[1], a[2])>>)
    <3>1. (IF flight[down] = <<>> THEN 0 ELSE Head(flight[down]).call) = m.call
      BY <2>4, <2>5
    <3>2. \E a \in Processed(FlagOf(arrived[down]),
                             Deserialized(FlagOf(arrived[down]), Buffer(down))) :
             Handle(down, up, <<Message(IF flight[down] = <<>> THEN 0
                                        ELSE Head(flight[down]).call, a[1], a[2])>>)
      BY <1>3 DEF NodeStep
    <3> QED BY <2>5, <3>1, <3>2
  <2>12. PICK x : x = Message(m.call, a[1], a[2])
    OBVIOUS
  <2>13. /\ ChunkMessage(x) /\ x.flag \in AnswerFlags /\ x.call = m.call
         /\ x.p.id = m.p.id /\ x.p.chunk_num = m.p.chunk_num
    BY <2>7, <2>10, <2>12, ProcessedSent
  <2>14. <<x>> \in Seq(Messages)
    BY <2>13, StreamOne DEF ChunkMessage
  <2>15. Moved(down, up, <<x>>)
    <3> DEFINE ms == <<x>>
    <3>1. /\ ms \in Seq(Messages) /\ Handle(down, up, ms) /\ arrived[down] # <<>>
          /\ Whole(down) /\ capacity' = capacity
      BY <2>1, <2>11, <2>12, <2>14
    <3> HIDE DEF up, down, ms
    <3>2. Moved(down, up, ms)
      BY <1>1, <2>2, <3>1, HandleMoves
    <3> QED BY <3>2 DEF ms
  <2>16. /\ Streams' /\ flight'[down] = Tail(flight[down]) /\ flight'[up] = flight[up] \o <<x>>
         /\ \A y \in Channels : y # down /\ y # up => flight'[y] = flight[y]
    BY <2>15 DEF Moved
  <2>17. Up(Node)' = u \o <<x>> /\ Down(Node)' = Tail(d)
    BY <2>16 DEF Up, Down
  <2>18. ASSUME NEW y \in Clients PROVE SessionOK(y)' /\ Up(y)' = Up(y)
    <3>1. /\ <<y, "up">> \in Channels /\ <<y, "down">> \in Channels
          /\ <<y, "up">> # up /\ <<y, "up">> # down /\ <<y, "down">> # up /\ <<y, "down">> # down
      BY ChannelShape
    <3>2. Up(y)' = Up(y) /\ Down(y)' = Down(y) /\ Mine(y)' = Mine(y)
      BY <2>1, <2>16, <3>1 DEF Up, Down, Mine
    <3>3. \A i \in Mine(y) : active'[i].call = active[i].call /\ active'[i].flag = active[i].flag
      BY <2>1
    <3>4. SessionOK(y) /\ calling'[y] = calling[y]
      BY <2>1, <2>2 DEF Logic, Sessions
    <3> QED BY <3>2, <3>3, <3>4, SessionSame
  <2>19. Sessions'
    BY <2>1, <2>2, <2>18 DEF Logic, Sessions
  <2>20. Requests'
    BY <2>1, <2>2 DEF Logic, Requests, RequestOK
  <2>21. CountOK'
    <3>1. Asking' = Asking
      BY <2>18 DEF Asking
    <3> QED BY <2>1, <2>2, <3>1, CountLess DEF Logic
  <2>22. NodeRuns'
    <3> DEFINE v == u \o <<x>>
               t == Tail(d)
               w == v \o t
               q == Queue
    <3>1. /\ v \in Seq(Messages) /\ Len(v) = k
          /\ \A j \in 1 .. k : v[j] = IF j <= Len(u) THEN u[j] ELSE x
      <4>1. u \in Seq(Messages) /\ <<x>> \in Seq(Messages) /\ Len(<<x>>) = 1 /\ <<x>>[1] = x
        BY <2>7, <2>14
      <4>2. /\ v \in Seq(Messages) /\ Len(v) = Len(u) + 1
            /\ \A j \in 1 .. Len(u) + 1 : v[j] = IF j <= Len(u) THEN u[j] ELSE <<x>>[j - Len(u)]
        BY <4>1, ConcatProperties
      <4>3. ASSUME NEW j \in 1 .. Len(u) + 1, ~(j <= Len(u)) PROVE <<x>>[j - Len(u)] = x
        <5>1. j - Len(u) = 1
          BY <2>8, <4>3
        <5> QED BY <5>1
      <4> HIDE DEF v, u
      <4> QED BY <4>2, <4>3
    <3>2. /\ t \in Seq(Messages) /\ Len(t) = Len(d) - 1
          /\ \A j \in 1 .. Len(t) : t[j] = d[j + 1]
      <4>1. d \in Seq(Messages) /\ d # <<>>
        BY <2>7
      <4> HIDE DEF d
      <4> QED BY <4>1, HeadTailProperties
    <3>3. /\ Len(w) = k + Len(t)
          /\ \A j \in 1 .. k + Len(t) : w[j] = IF j <= k THEN v[j] ELSE t[j - k]
      <4> HIDE DEF v, t, k
      <4> QED BY <3>1, <3>2, ConcatProperties
    <3> HIDE DEF v, t, w
    <3>4. Len(w) = Len(q)
      BY <2>8, <3>2, <3>3
    <3>5. ASSUME NEW j \in 1 .. Len(q) PROVE w[j] = IF j = k THEN x ELSE q[j]
      <4>1. j \in 1 .. Len(u) + Len(d) /\ q[j] = IF j <= Len(u) THEN u[j] ELSE d[j - Len(u)]
        BY <2>8
      <4>2. j \in 1 .. k + Len(t)
        BY <2>8, <3>3, <3>4
      <4>3. CASE j <= Len(u)
        <5>1. j \in 1 .. k /\ j <= k /\ j # k
          BY <2>8, <4>1, <4>3
        <5> HIDE DEF k
        <5> QED BY <3>1, <3>3, <4>1, <4>2, <4>3, <5>1
      <4>4. CASE j = k
        <5>1. j \in 1 .. k /\ j <= k /\ ~(j <= Len(u))
          BY <2>8, <4>1, <4>4
        <5> HIDE DEF k
        <5> QED BY <3>1, <3>3, <4>2, <4>4, <5>1
      <4>5. CASE ~(j <= Len(u)) /\ j # k
        <5> DEFINE n == j - k
        <5>1. ~(j <= k) /\ n \in 1 .. Len(t) /\ n + 1 = j - Len(u)
          BY <2>8, <3>2, <4>1, <4>2, <4>5
        <5>2. w[j] = t[n]
          BY <3>3, <4>2, <5>1
        <5> HIDE DEF n, k
        <5>3. t[n] = d[n + 1]
          BY <3>2, <5>1
        <5> QED BY <4>1, <4>5, <5>1, <5>2, <5>3
      <4> QED BY <4>3, <4>4, <4>5
    <3>6. QueueOK(w, active)
      <4>1. QueueOK(q, active)
        BY <2>6 DEF NodeRuns
      <4>2. ASSUME NEW j \in 1 .. Len(q)
            PROVE  /\ ChunkMessage(w[j]) /\ w[j].call = q[j].call
                   /\ w[j].p.id = q[j].p.id /\ w[j].p.chunk_num = q[j].p.chunk_num
        <5>1. CASE j = k
          BY <2>9, <2>13, <3>5, <5>1
        <5>2. CASE j # k
          <6>1. ChunkMessage(q[j])
            BY <4>1 DEF QueueOK
          <6> QED BY <3>5, <5>2, <6>1
        <5> QED BY <5>1, <5>2
      <4> HIDE DEF q
      <4> QED BY <3>4, <4>1, <4>2, QueueSwap
    <3>7. Queue' = w
      BY <2>17 DEF Queue, w, v, t
    <3>8. \A j \in 1 .. Len(v) : v[j].flag \in AnswerFlags
      <4>1. \A j \in 1 .. Len(u) : u[j].flag \in AnswerFlags
        BY <2>6 DEF NodeRuns
      <4>2. ASSUME NEW j \in 1 .. Len(v) PROVE v[j].flag \in AnswerFlags
        <5>1. CASE j <= Len(u)
          <6>1. j \in 1 .. Len(u)
            BY <2>8, <5>1
          <6> QED BY <3>1, <4>1, <5>1, <6>1
        <5>2. CASE ~(j <= Len(u))
          BY <2>13, <3>1, <5>2
        <5> QED BY <5>1, <5>2
      <4> QED BY <4>2
    <3>9. \A j \in 1 .. Len(t) : t[j].flag \in RequestFlags
      <4>1. \A j \in 1 .. Len(d) : d[j].flag \in RequestFlags
        BY <2>6 DEF NodeRuns
      <4>2. ASSUME NEW j \in 1 .. Len(t) PROVE t[j].flag \in RequestFlags
        <5>1. j + 1 \in 1 .. Len(d) /\ t[j] = d[j + 1]
          BY <2>8, <3>2
        <5> QED BY <4>1, <5>1
      <4> QED BY <4>2
    <3>10. Up(Node)' = v /\ Down(Node)' = t
      BY <2>17 DEF v, t
    <3> HIDE DEF u, d, k, q
    <3> QED BY <2>1, <3>6, <3>7, <3>8, <3>9, <3>10 DEF NodeRuns
  <2>23. torn' \in Channels \cup {None}
    BY <2>1 DEF IInv
  <2> QED BY <2>16, <2>19, <2>20, <2>21, <2>22, <2>23 DEF IInv, Logic
<1> QED BY <1>2, <1>3

-------------------------------------------------------------------------------
(* The invariant *)

\* When the connections have been made only the registrations are under way.
LEMMA InitInv == Init => IInv
<1> SUFFICES ASSUME Init PROVE IInv
  OBVIOUS
<1>1. /\ \A e \in Ends : /\ pending[<<e, "up">>] = <<>> /\ arrived[<<e, "up">>] = <<>>
                         /\ wire[<<e, "up">>] = Ser(Registration(e))
                         /\ flight[<<e, "up">>] = <<Registration(e)>>
                         /\ pending[<<e, "down">>] = <<>> /\ arrived[<<e, "down">>] = <<>>
                         /\ wire[<<e, "down">>] = <<>> /\ flight[<<e, "down">>] = <<>>
  <2> SUFFICES ASSUME NEW e \in Ends
               PROVE  /\ pending[<<e, "up">>] = <<>> /\ arrived[<<e, "up">>] = <<>>
                      /\ wire[<<e, "up">>] = Ser(Registration(e))
                      /\ flight[<<e, "up">>] = <<Registration(e)>>
                      /\ pending[<<e, "down">>] = <<>> /\ arrived[<<e, "down">>] = <<>>
                      /\ wire[<<e, "down">>] = <<>> /\ flight[<<e, "down">>] = <<>>
    OBVIOUS
  <2> DEFINE up == <<e, "up">>
             down == <<e, "down">>
  <2>1. up \in Channels /\ down \in Channels /\ up[1] = e /\ up[2] = "up" /\ down[2] # "up"
    BY ChannelShape
  <2> HIDE DEF up, down
  <2>2. /\ pending[up] = <<>> /\ arrived[up] = <<>>
        /\ wire[up] = Ser(Registration(e))
        /\ flight[up] = <<Registration(e)>>
        /\ pending[down] = <<>> /\ arrived[down] = <<>>
        /\ wire[down] = <<>> /\ flight[down] = <<>>
    BY <2>1 DEF Init, Ser
  <2> QED BY <2>2 DEF up, down
<1>2. Streams
  <2>1. capacity \in Capacities /\ capacity \in Nat /\ capacity >= 16
    BY Constants DEF Init
  <2>2. ASSUME NEW e \in Ends PROVE StreamOK(<<e, "up">>) /\ StreamOK(<<e, "down">>)
    <3> DEFINE m == Registration(e)
               b == Ser(m)
    <3>1. m \in Messages /\ Len(b) = 16
      BY RegistrationSent
    <3> HIDE DEF m
    <3>2. Stream(<<m>>) = b /\ <<m>> \in Seq(Messages) /\ b \in Seq(Nat)
      <4>1. Stream(<<m>>) = Ser(m) /\ <<m>> \in Seq(Messages)
        BY <3>1, StreamOne
      <4>2. Ser(m) \in Seq(Nat)
        BY <4>1, SersType
      <4> QED BY <4>1, <4>2
    <3> HIDE DEF b
    <3>3. <<>> \o (b \o <<>>) = b /\ <<>> \o (<<>> \o <<>>) = <<>>
          /\ <<>> \in Seq(Nat) /\ <<>> \in Seq(Messages) /\ Len(<<>>) = 0
      BY <3>2, ConcatEmptySeq
    <3>4. StreamOK(<<e, "up">>)
      <4> DEFINE ch == <<e, "up">>
      <4>1. /\ pending[ch] = <<>> /\ arrived[ch] = <<>> /\ wire[ch] = b /\ flight[ch] = <<m>>
        BY <1>1 DEF b, m
      <4> HIDE DEF ch
      <4>2. arrived[ch] \o (wire[ch] \o pending[ch]) = Stream(flight[ch])
        BY <3>2, <3>3, <4>1
      <4>3. Len(wire[ch]) <= capacity /\ Len(arrived[ch]) <= capacity
        <5>1. Len(wire[ch]) = 16 /\ Len(arrived[ch]) = 0
          BY <3>1, <3>3, <4>1
        <5> QED BY <2>1, <5>1
      <4>4. StreamOK(ch)
        BY <3>2, <3>3, <4>1, <4>2, <4>3 DEF StreamOK
      <4> QED BY <4>4 DEF ch
    <3>5. StreamOK(<<e, "down">>)
      <4> DEFINE ch == <<e, "down">>
      <4>1. /\ pending[ch] = <<>> /\ arrived[ch] = <<>> /\ wire[ch] = <<>> /\ flight[ch] = <<>>
        BY <1>1
      <4> HIDE DEF ch
      <4>2. arrived[ch] \o (wire[ch] \o pending[ch]) = Stream(flight[ch])
        BY <3>3, <4>1, StreamEmpty
      <4>3. Len(wire[ch]) <= capacity /\ Len(arrived[ch]) <= capacity
        BY <2>1, <3>3, <4>1
      <4>4. StreamOK(ch)
        BY <3>3, <4>1, <4>2, <4>3 DEF StreamOK
      <4> QED BY <4>4 DEF ch
    <3> QED BY <3>4, <3>5
  <2>3. \A ch \in Channels : StreamOK(ch)
    <3>1. \A ch \in Channels : \E e \in Ends : ch = <<e, "up">> \/ ch = <<e, "down">>
      BY ChannelShape
    <3> QED BY <2>2, <3>1
  <2>4. /\ pending = [ch \in Channels |-> pending[ch]]
        /\ wire = [ch \in Channels |-> wire[ch]]
        /\ arrived = [ch \in Channels |-> arrived[ch]]
        /\ flight = [ch \in Channels |-> flight[ch]]
    BY DEF Init
  <2> QED BY <2>1, <2>3, <2>4 DEF Streams
<1>3. DOMAIN active = {} /\ request_id = 0 /\ calls = 0 /\ torn = None
  BY DEF Init, Nothing
<1>4. calling = [c \in Clients |-> calling[c]] /\ \A c \in Clients : calling[c] = None
  BY DEF Init
<1>5. Sessions
  <2>1. ASSUME NEW c \in Clients PROVE SessionOK(c)
    <3>1. Up(c) = <<Registration(c)>> /\ Down(c) = <<>> /\ Mine(c) = {}
      BY <1>1, <1>3, ChannelShape DEF Up, Down, Mine
    <3>2. Idle(c)
      BY <1>4, <3>1 DEF Idle
    <3> QED BY <1>4, <3>2 DEF SessionOK
  <2> QED BY <1>4, <2>1 DEF Sessions
<1>6. Requests
  BY <1>3 DEF Requests
<1>7. NodeNew
  BY <1>1, <1>3, ChannelShape DEF NodeNew, Up, Down
<1>8. CountOK
  <2>1. Asking = {}
    <3>1. \A c \in Clients : Up(c) = <<Registration(c)>>
      BY <1>1, ChannelShape DEF Up
    <3>2. \A c \in Clients : ~Asks(Up(c))
      BY <3>1, AsksShape
    <3> QED BY <3>2, AskingMember
  <2>2. Cardinality(Asking) = 0
    BY <2>1, FS_EmptySet
  <2> QED BY <1>3, <2>2, Constants DEF CountOK
<1> QED BY <1>2, <1>3, <1>5, <1>6, <1>7, <1>8 DEF IInv, Logic

\* Every step keeps the invariant.
LEMMA NextInv == IInv /\ [Next]_vars => IInv'
<1> SUFFICES ASSUME IInv, [Next]_vars PROVE IInv'
  OBVIOUS
<1>1. ASSUME NEW ch \in Channels, SendMore(ch) PROVE IInv'
  <2>1. Streams'
    BY <1>1, SendMoreStream DEF IInv
  <2>2. UNCHANGED <<flight, calling, active, request_id, calls, torn>>
    BY <1>1 DEF SendMore
  <2>3. Logic'
    BY <2>2, LogicSame DEF IInv
  <2> QED BY <2>1, <2>2, <2>3 DEF IInv
<1>2. ASSUME NEW ch \in Channels, Deliver(ch) PROVE IInv'
  <2>1. Streams'
    BY <1>2, DeliverStream DEF IInv
  <2>2. UNCHANGED <<flight, calling, active, request_id, calls, torn>>
    BY <1>2 DEF Deliver
  <2>3. Logic'
    BY <2>2, LogicSame DEF IInv
  <2> QED BY <2>1, <2>2, <2>3 DEF IInv
<1>3. ASSUME NEW c \in Clients, NEW call \in Calls[c], Call(c, call) PROVE IInv'
  BY <1>3, CallStep
<1>4. ASSUME NEW c \in Clients, TakeCall(c) PROVE IInv'
  BY <1>4, TakeCallStep
<1>5. ASSUME NEW c \in Clients, Return(c) PROVE IInv'
  BY <1>5, ReturnStep
<1>6. ASSUME TakeAnswer PROVE IInv'
  BY <1>6, TakeAnswerStep
<1>7. ASSUME NodeStep PROVE IInv'
  BY <1>7, NodeHandles
<1>8. CASE UNCHANGED vars
  <2>1. Streams'
    BY <1>8 DEF vars, IInv, Streams, StreamOK
  <2>2. UNCHANGED <<flight, calling, active, request_id, calls, torn>>
    BY <1>8 DEF vars
  <2>3. Logic'
    BY <2>2, LogicSame DEF IInv
  <2> QED BY <2>1, <2>2, <2>3 DEF IInv
<1> QED BY <1>1, <1>2, <1>3, <1>4, <1>5, <1>6, <1>7, <1>8 DEF Next

\* For any clients, calls, word sizes and buffers, and however send, the network
\* and recv cut the bytes: what lies in the buffers of a connection are the
\* packets under way, which fit what clients, Barista and the node have noted.
THEOREM StreamInvariant == Spec => []IInv
  BY InitInv, NextInv, PTL DEF Spec

-------------------------------------------------------------------------------
(* What follows from the invariant *)

\* No buffer ever holds more than its capacity; requests and calls keep their
\* types.
THEOREM StreamTypeCorrect == Spec => []TypeOK
<1>1. IInv => TypeOK
  <2> SUFFICES ASSUME IInv PROVE TypeOK
    OBVIOUS
  <2>1. \A ch \in Channels : Len(wire[ch]) <= capacity /\ Len(arrived[ch]) <= capacity
    BY DEF IInv, Streams, StreamOK
  <2>2. \A i \in DOMAIN active : active[i].left \in 1 .. MaxChunks
    BY DEF IInv, Logic, Requests, RequestOK
  <2>3. calls \in 0 .. MaxCalls /\ request_id \in 0 .. calls
    <3> DEFINE k == Cardinality(Asking)
    <3>1. k \in Nat
      BY AskingFinite
    <3>2. request_id \in Nat /\ calls \in 0 .. MaxCalls /\ request_id + k <= calls
      BY DEF IInv, Logic, CountOK
    <3> HIDE DEF k
    <3> QED BY <3>1, <3>2
  <2>4. torn \in Channels \cup {None}
    BY DEF IInv
  <2> QED BY <2>1, <2>2, <2>3, <2>4 DEF TypeOK
<1> QED BY <1>1, StreamInvariant, PTL

\* What is true of a channel on which a whole packet has arrived.
LEMMA ReadyPacket ==
    ASSUME IInv, NEW ch \in Ready
    PROVE  LET m == Head(flight[ch])
           IN  /\ ch \in Channels /\ arrived[ch] # <<>> /\ Whole(ch)
               /\ flight[ch] # <<>> /\ m \in Messages /\ FlagOf(arrived[ch]) = m.flag
               /\ Buffer(ch) = Ser(m) /\ IdOf(arrived[ch]) = IdOf(Ser(m))
               /\ ch[2] = "down" /\ ch[1] \in Clients =>
                     /\ calling[ch[1]] # None /\ calling[ch[1]].call = m.call
                     /\ ResponseFlag(calling[ch[1]].flag) = m.flag
<1>1. ch \in Channels /\ Whole(ch)
  BY DEF Ready
<1>2. StreamOK(ch)
  BY <1>1 DEF IInv, Streams
<1>3. arrived[ch] # <<>>
  <2>1. Len(arrived[ch]) >= 4
    BY <1>1 DEF Whole
  <2>2. Len(<<>>) = 0
    OBVIOUS
  <2> QED BY <2>1, <2>2
<1>4. Received(ch)
  BY <1>1, <1>2, <1>3, ReceivedNext
<1> DEFINE m == Head(flight[ch])
<1>5. /\ flight[ch] # <<>> /\ m \in Messages /\ FlagOf(arrived[ch]) = m.flag
      /\ Buffer(ch) = Ser(m) /\ IdOf(arrived[ch]) = IdOf(Ser(m))
  BY <1>1, <1>4 DEF Received
<1>6. ASSUME ch[2] = "down", ch[1] \in Clients
      PROVE  /\ calling[ch[1]] # None /\ calling[ch[1]].call = m.call
             /\ ResponseFlag(calling[ch[1]].flag) = m.flag
  <2> DEFINE c == ch[1]
  <2>1. ch = <<c, "down">>
    BY <1>1, <1>6, ChannelShape
  <2>2. Down(c) = flight[ch] /\ Down(c) # <<>> /\ SessionOK(c)
    BY <1>5, <1>6, <2>1 DEF Down, IInv, Logic, Sessions
  <2>3. Answered(c)
    BY <2>2 DEF SessionOK, Idle, Asked, Served
  <2>4. PICK x \in Messages : /\ Down(c) = <<x>> /\ x.call = calling[c].call
                              /\ x.flag = ResponseFlag(calling[c].flag)
    BY <2>3 DEF Answered
  <2>5. m = x
    BY <2>2, <2>4
  <2> QED BY <2>3, <2>4, <2>5 DEF Answered
<1> QED BY <1>1, <1>3, <1>5, <1>6

\* handleMessageFromClient and handleMessageFromServer build, from bytes that
\* are a whole packet, the packet that was sent: of its class, with its fields.
THEOREM PacketsHandledAsSent == Spec => []HandledAsSent
<1>1. IInv => HandledAsSent
  <2> SUFFICES ASSUME IInv, NEW ch \in Ready
               PROVE  /\ flight[ch] # <<>>
                      /\ LET m == Head(flight[ch])
                         IN  /\ TakenFor(ch) = m.flag
                             /\ Representable(m) =>
                                   Used(m.flag, Deserialized(m.flag, Buffer(ch)))
                                      = Used(m.flag, m.p)
    BY DEF HandledAsSent
  <2> DEFINE m == Head(flight[ch])
  <2>1. /\ flight[ch] # <<>> /\ m \in Messages /\ FlagOf(arrived[ch]) = m.flag
        /\ Buffer(ch) = Ser(m)
        /\ ch[2] = "down" /\ ch[1] \in Clients => ResponseFlag(calling[ch[1]].flag) = m.flag
    BY ReadyPacket
  <2> HIDE DEF m
  <2>2. TakenFor(ch) = m.flag
    BY <2>1 DEF TakenFor
  <2>3. m.flag \in SentFlags /\ m.p \in Fields(m.flag)
    BY <2>1 DEF Messages
  <2>4. Representable(m) => Used(m.flag, Deserialized(m.flag, Buffer(ch))) = Used(m.flag, m.p)
    BY <2>1, <2>3, FieldsReturn DEF Representable, Ser
  <2> QED BY <2>1, <2>2, <2>4 DEF m
<1> QED BY <1>1, StreamInvariant, PTL

\* A client that reads an answer reads the one of its own call, although packets
\* to clients carry the id 0, and an answer of the node carries the id of the
\* request of the call that it was sent for.
THEOREM AnswersToOwnCalls == Spec => []AnswersOwnCall
<1>1. IInv => AnswersOwnCall
  <2> SUFFICES ASSUME IInv, NEW ch \in Ready
               PROVE  LET m == Head(flight[ch])
                      IN  /\ ch[2] = "down" /\ ch[1] \in Clients =>
                                calling[ch[1]] # None /\ calling[ch[1]].call = m.call
                          /\ ch = <<Node, "up">> /\ m.flag # "ESPRESSO_INIT" =>
                                IdOf(arrived[ch]) \in DOMAIN active
                                /\ active[IdOf(arrived[ch])].call = m.call
    BY DEF AnswersOwnCall
  <2> DEFINE m == Head(flight[ch])
  <2>1. /\ ch \in Channels /\ arrived[ch] # <<>> /\ Whole(ch) /\ FlagOf(arrived[ch]) = m.flag
        /\ ch[2] = "down" /\ ch[1] \in Clients =>
              calling[ch[1]] # None /\ calling[ch[1]].call = m.call
    BY ReadyPacket
  <2>2. ASSUME ch = <<Node, "up">>, m.flag # "ESPRESSO_INIT"
        PROVE  /\ IdOf(arrived[ch]) \in DOMAIN active
               /\ active[IdOf(arrived[ch])].call = m.call
    <3>1. m = Head(Up(Node))
      BY <2>2 DEF Up
    <3> HIDE DEF m
    <3>2. /\ IdOf(arrived[<<Node, "up">>]) = Head(Up(Node)).p.id
          /\ Head(Up(Node)).p.id \in DOMAIN active
          /\ active[Head(Up(Node)).p.id].call = Head(Up(Node)).call
      BY <2>1, <2>2, AnswerFound
    <3> QED BY <2>2, <3>1, <3>2
  <2> QED BY <2>1, <2>2
<1> QED BY <1>1, StreamInvariant, PTL

-------------------------------------------------------------------------------
(* Torn packets *)

\* What can be on a client's channel.
Shape(c, q) == \E x : \/ q = <<>> \/ q = <<x>>
                      \/ q = <<Registration(c), x>> /\ x.flag # "DECAFS_CLIENT_INIT"

\* So it is on the channels of every client.
Shapes == \A c \in Clients : Shape(c, Up(c)) /\ Shape(c, Down(c))

\* The session of a client says what is on its channels.
LEMMA InvShapes == IInv => Shapes
<1> SUFFICES ASSUME IInv, NEW c \in Clients PROVE Shape(c, Up(c)) /\ Shape(c, Down(c))
  BY DEF Shapes
<1>1. SessionOK(c)
  BY DEF IInv, Logic, Sessions
<1>2. CASE Idle(c)
  BY <1>2 DEF Idle, Shape
<1>3. CASE Asked(c)
  <2>1. calling[c] \in CallsOf(c)
    BY <1>1, <1>3 DEF SessionOK, Asked
  <2>2. calling[c].flag # "DECAFS_CLIENT_INIT"
    BY <2>1, CallShape
  <2> QED BY <1>3, <2>2 DEF Asked, Shape
<1>4. CASE Served(c)
  BY <1>4 DEF Served, Shape
<1>5. CASE Answered(c)
  BY <1>5 DEF Answered, Shape
<1> QED BY <1>1, <1>2, <1>3, <1>4, <1>5 DEF SessionOK

\* The same after a step.
LEMMA InvShapesNext == IInv' => Shapes'
  BY InvShapes, PTL

\* Short packets fit into one segment and into a buffer, all of them.
LEMMA ShortTotal ==
    ASSUME NEW q \in Seq(Messages), NEW c \in Clients, Shape(c, q), NEW l \in Nat, l >= 16,
           \A i \in DOMAIN q : q[i].flag = "DECAFS_CLIENT_INIT" \/ Len(Ser(q[i])) + 16 <= l
    PROVE  Len(Stream(q)) <= l
<1>1. PICK x : \/ q = <<>> \/ q = <<x>>
               \/ q = <<Registration(c), x>> /\ x.flag # "DECAFS_CLIENT_INIT"
  BY DEF Shape
<1>2. ASSUME x \in Messages,
             x.flag = "DECAFS_CLIENT_INIT" \/ Len(Ser(x)) + 16 <= l
      PROVE  Len(Ser(x)) \in Nat /\ Len(Ser(x)) <= l
  <2>1. Ser(x) \in Seq(Nat)
    BY <1>2, StreamOne, SersType
  <2>2. CASE x.flag = "DECAFS_CLIENT_INIT"
    <3>1. x.p \in Fields("DECAFS_CLIENT_INIT")
      BY <1>2, <2>2 DEF Messages
    <3>2. Len(Serialized("DECAFS_CLIENT_INIT", x.p)) = 16
      BY <3>1, OneWordLen
    <3>3. Len(Ser(x)) = 16
      BY <2>2, <3>2 DEF Ser
    <3> QED BY <3>3
  <2>3. CASE Len(Ser(x)) + 16 <= l
    BY <2>1, <2>3
  <2> QED BY <1>2, <2>2, <2>3
<1>3. CASE q = <<>>
  BY <1>3, StreamEmpty
<1>4. CASE q = <<x>>
  <2>1. 1 \in DOMAIN <<x>> /\ <<x>>[1] = x /\ x \in Messages
    BY <1>4
  <2>2. Len(Ser(x)) <= l
    BY <1>2, <1>4, <2>1
  <2> QED BY <1>4, <2>1, <2>2, StreamOne
<1>5. CASE q = <<Registration(c), x>> /\ x.flag # "DECAFS_CLIENT_INIT"
  <2> DEFINE r == Registration(c)
  <2>1. 2 \in DOMAIN q /\ q[2] = x /\ x \in Messages /\ q # <<>> /\ Head(q) = r /\ Tail(q) = <<x>>
    BY <1>5
  <2>2. r \in Messages /\ Len(Ser(r)) = 16
    BY RegistrationSent, ChannelShape
  <2> HIDE DEF r
  <2>3. Stream(q) = Ser(r) \o Ser(x)
    BY <2>1, StreamHead, StreamOne
  <2>4. Ser(r) \in Seq(Nat) /\ Ser(x) \in Seq(Nat)
    BY <2>1, <2>2, StreamOne, SersType
  <2>5. Len(Stream(q)) = 16 + Len(Ser(x))
    <3> DEFINE a == Ser(r)
               b == Ser(x)
    <3>1. a \in Seq(Nat) /\ b \in Seq(Nat) /\ Len(a) = 16
      BY <2>2, <2>4
    <3> HIDE DEF a, b
    <3>2. Len(a \o b) = Len(a) + Len(b)
      BY <3>1, ConcatProperties
    <3>3. Len(a \o b) = 16 + Len(b)
      BY <3>1, <3>2
    <3> QED BY <2>3, <3>3 DEF a, b
  <2>6. Len(Ser(x)) + 16 <= l /\ Len(Ser(x)) \in Nat
    BY <1>5, <2>1, <2>4
  <2> QED BY <2>5, <2>6
<1> QED BY <1>1, <1>3, <1>4, <1>5

\* The lesser of segment and buffer.
LEMMA LesserType ==
    ASSUME IInv
    PROVE  /\ capacity \in Nat /\ Lesser(MSS, capacity) \in Nat
           /\ Lesser(MSS, capacity) <= MSS /\ Lesser(MSS, capacity) <= capacity
  BY Constants DEF IInv, Streams, Lesser

\* A step that leaves the channel alone.
LEMMA ShortSame ==
    ASSUME NEW x, ShortOK(x), flight'[x] = flight[x], arrived'[x] = arrived[x],
           pending'[x] = pending[x], capacity' = capacity
    PROVE  ShortOK(x)'
<1>1. Short(x)' <=> Short(x)
  BY DEF Short
<1> QED BY <1>1 DEF ShortOK

\* Packets are sent to or by a client.
LEMMA ShortSend ==
    ASSUME IInv, IInv', NEW out \in Channels, NEW c \in Clients, out[1] = c,
           ShortOK(out), NEW ms \in Seq(Messages), Send(out, ms), pending[out] = <<>>,
           flight'[out] = flight[out] \o ms, arrived'[out] = arrived[out],
           capacity' = capacity
    PROVE  ShortOK(out)'
<1> SUFFICES ASSUME Short(out)'
             PROVE  /\ pending'[out] = <<>>
                    /\ \E k \in 0 .. Len(flight'[out]) :
                          arrived'[out] = Stream(SubSeq(flight'[out], 1, k))
  BY DEF ShortOK
<1> DEFINE q == flight[out]
           r == q \o ms
           a == arrived[out]
           w == wire[out]
           bytes == Stream(ms)
           l == Lesser(MSS, capacity)
<1>1. /\ q \in Seq(Messages) /\ a \in Seq(Nat) /\ w \in Seq(Nat)
      /\ a \o (w \o <<>>) = Stream(q) /\ bytes \in Seq(Nat)
      /\ capacity \in Nat /\ l \in Nat /\ l <= capacity /\ Len(w) <= capacity
  <2>1. StreamOK(out)
    BY DEF IInv, Streams
  <2>2. bytes \in Seq(Nat)
    BY SersType
  <2> QED BY <2>1, <2>2, LesserType DEF StreamOK
<1>2. r \in Seq(Messages) /\ Len(r) = Len(q) + Len(ms)
      /\ \A i \in 1 .. Len(q) : r[i] = q[i] /\ i \in DOMAIN r
  <2> HIDE DEF q
  <2>1. r \in Seq(Messages) /\ Len(r) = Len(q) + Len(ms)
        /\ \A i \in 1 .. Len(q) + Len(ms) : r[i] = IF i <= Len(q) THEN q[i] ELSE ms[i - Len(q)]
    BY <1>1, ConcatProperties
  <2>2. ASSUME NEW i \in 1 .. Len(q) PROVE r[i] = q[i] /\ i \in DOMAIN r
    <3>1. i \in 1 .. Len(q) + Len(ms) /\ i <= Len(q)
      BY <1>1
    <3> QED BY <2>1, <3>1
  <2> QED BY <2>1, <2>2
<1>3. l >= 16 /\ \A i \in DOMAIN r : r[i].flag = "DECAFS_CLIENT_INIT" \/ Len(Ser(r[i])) + 16 <= l
  BY DEF Short
<1>4. Short(out)
  <2>1. DOMAIN q = 1 .. Len(q)
    BY <1>1
  <2> QED BY <1>2, <1>3, <2>1 DEF Short
<1>5. Shape(c, r)
  <2>1. Shapes'
    BY InvShapesNext
  <2>2. out = <<c, "up">> \/ out = <<c, "down">>
    BY ChannelShape
  <2> QED BY <2>1, <2>2 DEF Shapes, Up, Down
<1>6. Len(Stream(r)) <= l
  <2> HIDE DEF r, l
  <2> QED BY <1>1, <1>2, <1>3, <1>5, ShortTotal
<1>7. Len(w) + Len(bytes) <= capacity
  <2> HIDE DEF a, w, q, bytes
  <2>1. Stream(r) = a \o (w \o bytes)
    <3>1. a \o (w \o Stream(ms)) = Stream(q \o ms)
      BY <1>1, Joined
    <3> QED BY <3>1 DEF bytes
  <2>2. w \o bytes \in Seq(Nat) /\ Len(w \o bytes) = Len(w) + Len(bytes)
    BY <1>1, ConcatProperties
  <2> DEFINE v == w \o bytes
  <2>3. v \in Seq(Nat) /\ Len(v) = Len(w) + Len(bytes) /\ Stream(r) = a \o v
    BY <2>1, <2>2
  <2> HIDE DEF v, r, l
  <2>4. Len(a \o v) = Len(a) + Len(v) /\ Len(a) \in Nat /\ Len(v) \in Nat
    <3>1. a \in Seq(Nat) /\ v \in Seq(Nat)
      BY <1>1, <2>3
    <3> QED BY <3>1, ConcatProperties
  <2> QED BY <1>1, <1>6, <2>3, <2>4
<1>8. pending'[out] = <<>>
  <2> DEFINE n == Room(w, Len(bytes))
             m == Len(bytes)
  <2>1. pending' = [pending EXCEPT ![out] = SubSeq(bytes, n + 1, Len(bytes))]
    BY DEF Send, Stream, Sers, Ser
  <2>2. pending = [x \in Channels |-> pending[x]]
    BY DEF IInv, Streams
  <2>3. pending'[out] = SubSeq(bytes, n + 1, Len(bytes))
    BY <2>1, <2>2
  <2>4. n = m /\ m \in Nat
    <3>1. Len(w) \in Nat /\ m \in Nat
      BY <1>1
    <3> QED BY <1>1, <1>7, <3>1 DEF Room, Lesser
  <2>5. SubSeq(bytes, m + 1, m) = <<>>
    <3> HIDE DEF bytes
    <3>1. m \in 0 .. Len(bytes)
      BY <2>4
    <3>2. SubSeq(bytes, m + 1, Len(bytes)) \in Seq(Nat)
          /\ Len(SubSeq(bytes, m + 1, Len(bytes))) = Len(bytes) - m
      BY <1>1, <3>1, SplitAt
    <3>3. Len(SubSeq(bytes, m + 1, m)) = 0
      BY <2>4, <3>2
    <3> QED BY <3>2, <3>3
  <2> QED BY <2>3, <2>4, <2>5
<1>9. PICK k \in 0 .. Len(q) : a = Stream(SubSeq(q, 1, k))
  BY <1>4 DEF ShortOK
<1>10. SubSeq(r, 1, k) = SubSeq(q, 1, k) /\ k \in 0 .. Len(r)
  <2> HIDE DEF q, r
  <2> DEFINE s == SubSeq(r, 1, k)
             t == SubSeq(q, 1, k)
  <2>1. Len(q) \in Nat /\ Len(ms) \in Nat /\ k \in Nat /\ k <= Len(q) /\ k \in 0 .. Len(r)
    BY <1>1, <1>2
  <2>2. s \in Seq(Messages) /\ Len(s) = k /\ \A i \in 1 .. k : s[i] = r[i]
    <3>1. 1 \in Int /\ k \in Int /\ \A i \in 1 .. k : r[i] \in Messages
      BY <1>2, <2>1
    <3>2. \A i \in 1 .. k : 1 + i - 1 = i
      BY <2>1
    <3> QED BY <1>2, <2>1, <3>1, <3>2, SubSeqProperties
  <2>3. t \in Seq(Messages) /\ Len(t) = k /\ \A i \in 1 .. k : t[i] = q[i]
    <3>1. 1 \in Int /\ k \in Int /\ \A i \in 1 .. k : q[i] \in Messages
      BY <1>1, <2>1
    <3>2. \A i \in 1 .. k : 1 + i - 1 = i
      BY <2>1
    <3> QED BY <1>1, <2>1, <3>1, <3>2, SubSeqProperties
  <2> HIDE DEF s, t
  <2>4. \A i \in 1 .. Len(s) : s[i] = t[i]
    BY <1>2, <2>1, <2>2, <2>3
  <2>5. s = t
    BY <2>2, <2>3, <2>4, SeqEqual
  <2> QED BY <2>1, <2>5 DEF s, t
<1> QED BY <1>8, <1>9, <1>10

\* What was sent last is a message.
LEMMA LastMessage ==
    ASSUME NEW q \in Seq(Messages), NEW x, q \o <<x>> \in Seq(Messages)
    PROVE  x \in Messages
<1> DEFINE S == Messages \cup {x}
           s == <<x>>
           r == q \o s
           n == Len(q) + 1
<1>1. q \in Seq(S) /\ s \in Seq(S) /\ Len(s) = 1 /\ s[1] = x /\ Len(q) \in Nat
  OBVIOUS
<1>2. r \in Seq(Messages)
  OBVIOUS
<1> HIDE DEF s
<1>3. /\ Len(r) = Len(q) + Len(s)
      /\ \A i \in 1 .. Len(q) + Len(s) : r[i] = IF i <= Len(q) THEN q[i] ELSE s[i - Len(q)]
  <2> HIDE DEF S
  <2> QED BY <1>1, ConcatProperties
<1>4. n \in 1 .. Len(q) + Len(s) /\ ~(n <= Len(q)) /\ n - Len(q) = 1
  BY <1>1
<1> HIDE DEF r, n
<1>5. r[n] = x
  BY <1>1, <1>3, <1>4
<1>6. r[n] \in Messages
  BY <1>2, <1>3, <1>4
<1> QED BY <1>5, <1>6

\* The first none, the first one and the first of two.
LEMMA PrefixEmpty == ASSUME NEW s PROVE SubSeq(s, 1, 0) = <<>>
<1>1. \A i \in 1 .. 0 : s[i] \in {}
  OBVIOUS
<1>2. SubSeq(s, 1, 0) \in Seq({}) /\ Len(SubSeq(s, 1, 0)) = 0
  BY <1>1, SubSeqProperties
<1> QED BY <1>2

\* No bytes are the bytes of the first none.
LEMMA PrefixStream ==
    ASSUME NEW s \in Seq(Messages)
    PROVE  0 \in 0 .. Len(s) /\ Stream(SubSeq(s, 1, 0)) = <<>>
<1> DEFINE e == SubSeq(s, 1, 0)
<1>1. e = <<>>
  BY PrefixEmpty
<1> HIDE DEF e
<1>2. Stream(e) = <<>>
  BY <1>1, StreamEmpty
<1>3. 0 \in 0 .. Len(s)
  OBVIOUS
<1> QED BY <1>2, <1>3 DEF e

\* The whole of a sequence of one.
LEMMA PrefixOne == ASSUME NEW a PROVE SubSeq(<<a>>, 1, 1) = <<a>>
<1> DEFINE s == <<a>>
<1>1. s \in Seq({a}) /\ Len(s) = 1
  OBVIOUS
<1> HIDE DEF s
<1>2. SubSeq(s, 1, Len(s)) = s
  BY <1>1, SubSeqFull
<1> QED BY <1>1, <1>2 DEF s

\* The first of a sequence of two.
LEMMA PrefixTwo == ASSUME NEW a, NEW b PROVE SubSeq(<<a, b>>, 1, 1) = <<a>>
<1> DEFINE s == <<a, b>>
           r == <<a>>
           t == SubSeq(s, 1, 1)
<1>1. s[1] = a /\ \A i \in 1 .. 1 : s[i] \in {a}
  OBVIOUS
<1>2. r \in Seq({a}) /\ Len(r) = 1 /\ r[1] = a
  OBVIOUS
<1> HIDE DEF s, r
<1>3. t \in Seq({a}) /\ Len(t) = 1 /\ \A i \in 1 .. 1 : t[i] = s[1 + i - 1]
  BY <1>1, SubSeqProperties
<1>4. t[1] = a
  BY <1>1, <1>3
<1> HIDE DEF t
<1>5. \A i \in 1 .. Len(t) : t[i] = r[i]
  BY <1>2, <1>3, <1>4
<1>6. t = r
  BY <1>2, <1>3, <1>5, SeqEqual
<1> QED BY <1>6 DEF t, s, r

\* A packet of a client is taken.
LEMMA ShortTaken ==
    ASSUME IInv, NEW ch \in Channels, NEW c \in Clients, ch[1] = c, ShortOK(ch),
           arrived[ch] # <<>>, Whole(ch),
           flight'[ch] = Tail(flight[ch]), pending'[ch] = pending[ch],
           arrived'[ch] = SubSeq(arrived[ch], SizeOfPacket(arrived[ch]) + 1, Len(arrived[ch])),
           capacity' = capacity, StreamOK(ch)'
    PROVE  ShortOK(ch)'
<1> SUFFICES ASSUME Short(ch)'
             PROVE  /\ pending'[ch] = <<>>
                    /\ \E k \in 0 .. Len(flight'[ch]) :
                          arrived'[ch] = Stream(SubSeq(flight'[ch], 1, k))
  BY DEF ShortOK
<1> DEFINE q == flight[ch]
           t == Tail(q)
           a == arrived[ch]
           b == wire[ch] \o pending[ch]
           n == Len(Ser(Head(q)))
           rest == SubSeq(a, n + 1, Len(a))
<1>1. StreamOK(ch)
  BY DEF IInv, Streams
<1>2. Received(ch)
  BY <1>1, ReceivedNext
<1>3. /\ q \in Seq(Messages) /\ q # <<>> /\ t \in Seq(Messages) /\ a \in Seq(Nat)
      /\ wire[ch] \in Seq(Nat) /\ pending[ch] \in Seq(Nat)
      /\ a \o b = Stream(q) /\ n \in Nat /\ n <= Len(a) /\ Head(q) \in Messages
      /\ arrived'[ch] = rest /\ rest \o b = Stream(t)
  BY <1>1, <1>2 DEF StreamOK, Received
<1>4. rest \in Seq(Nat) /\ Len(rest) = Len(a) - n /\ b \in Seq(Nat)
  <2>1. n \in 0 .. Len(a)
    BY <1>3
  <2>2. b \in Seq(Nat)
    BY <1>3, ConcatProperties
  <2> HIDE DEF n, a
  <2> QED BY <1>3, <2>1, <2>2, SplitAt
<1>5. CASE t = <<>>
  <2>1. Stream(t) = <<>>
    BY <1>5, StreamEmpty
  <2>2. rest = <<>> /\ b = <<>>
    <3> HIDE DEF rest, b, t
    <3>1. Len(rest \o b) = 0 /\ rest \o b = <<>>
      BY <1>3, <2>1
    <3>2. rest \in Seq(Nat) /\ b \in Seq(Nat)
      BY <1>4
    <3>3. Len(rest) + Len(b) = Len(rest \o b) /\ Len(rest) \in Nat /\ Len(b) \in Nat
      BY <3>2, ConcatProperties
    <3>4. Len(rest) = 0 /\ Len(b) = 0
      BY <3>1, <3>3
    <3> QED BY <3>2, <3>4
  <2>3. pending[ch] = <<>>
    <3> DEFINE w == wire[ch]
               p == pending[ch]
    <3>1. w \in Seq(Nat) /\ p \in Seq(Nat)
      BY <1>3
    <3>2. w \o p = <<>>
      BY <2>2
    <3> HIDE DEF w, p
    <3>3. Len(w \o p) = Len(w) + Len(p) /\ Len(w) \in Nat /\ Len(p) \in Nat
      BY <3>1, ConcatProperties
    <3>4. Len(p) = 0
      BY <3>2, <3>3
    <3>5. p = <<>>
      BY <3>1, <3>4
    <3> QED BY <3>5 DEF p
  <2>4. 0 \in 0 .. Len(flight'[ch]) /\ Stream(SubSeq(flight'[ch], 1, 0)) = <<>>
    <3>1. flight'[ch] \in Seq(Messages)
      BY <1>3
    <3> QED BY <3>1, PrefixStream
  <2> QED BY <1>3, <2>2, <2>3, <2>4
<1>6. CASE t # <<>>
  <2>1. PICK x : q = <<Registration(c), x>>
    <3>1. Shape(c, q)
      <4>1. ch = <<c, "up">> \/ ch = <<c, "down">>
        BY ChannelShape
      <4> QED BY <4>1, InvShapes DEF Shapes, Up, Down
    <3>2. \A x : Tail(<<x>>) = <<>>
      OBVIOUS
    <3> QED BY <1>3, <1>6, <3>1, <3>2 DEF Shape
  <2>2. Len(q) = 2 /\ q[1] = Registration(c) /\ q[2] = x /\ t = <<x>> /\ Head(q) = Registration(c)
        /\ DOMAIN q = 1 .. 2 /\ DOMAIN t = 1 .. 1 /\ t[1] = x /\ Len(t) = 1
    BY <2>1
  <2>3. Registration(c).flag = "DECAFS_CLIENT_INIT"
    BY RegistrationSent, ChannelShape
  <2>4. Short(ch)
    <3>1. flight'[ch] = t
      OBVIOUS
    <3>2. Lesser(MSS, capacity) >= 16 /\ \A i \in DOMAIN t : t[i].flag = "DECAFS_CLIENT_INIT"
                                           \/ Len(Ser(t[i])) + 16 <= Lesser(MSS, capacity)
      BY <3>1 DEF Short
    <3>3. \A i \in 1 .. 2 : i = 1 \/ i = 2
      OBVIOUS
    <3> HIDE DEF t
    <3> QED BY <2>2, <2>3, <3>2, <3>3 DEF Short
  <2>5. pending[ch] = <<>> /\ \E k \in 0 .. Len(q) : a = Stream(SubSeq(q, 1, k))
    BY <2>4 DEF ShortOK
  <2>6. PICK k \in 0 .. 2 : a = Stream(SubSeq(q, 1, k))
    BY <2>2, <2>5
  <2>7. k # 0
    <3>1. SubSeq(q, 1, 0) = <<>>
      BY <1>3
    <3> QED BY <2>6, <3>1, StreamEmpty
  <2>8. CASE k = 1
    <3>1. SubSeq(q, 1, 1) = <<Registration(c)>>
      BY <2>1, PrefixTwo
    <3>2. a = Ser(Registration(c))
      BY <1>3, <2>2, <2>6, <2>8, <3>1, StreamOne
    <3>3. Len(rest) = 0
      <4> HIDE DEF rest, a, q
      <4> QED BY <1>3, <1>4, <2>2, <3>2
    <3>4. rest = <<>>
      <4> HIDE DEF rest
      <4> QED BY <1>4, <3>3
    <3>5. 0 \in 0 .. Len(flight'[ch]) /\ Stream(SubSeq(flight'[ch], 1, 0)) = <<>>
      <4>1. flight'[ch] \in Seq(Messages)
        BY <1>3
      <4> QED BY <4>1, PrefixStream
    <3> QED BY <1>3, <2>5, <3>4, <3>5
  <2>9. CASE k = 2
    <3>1. a = Stream(q)
      <4>1. SubSeq(q, 1, 2) = q
        BY <1>3, <2>2, SubSeqFull
      <4> QED BY <2>6, <2>9, <4>1
    <3>2. b = <<>>
      <4> HIDE DEF a, b
      <4>1. a \in Seq(Nat) /\ b \in Seq(Nat) /\ a \o b = a
        BY <1>3, <1>4, <3>1
      <4>2. Len(a \o b) = Len(a) + Len(b) /\ Len(a) \in Nat /\ Len(b) \in Nat
        <5>1. a \in Seq(Nat) /\ b \in Seq(Nat)
          BY <4>1
        <5> HIDE <4>1
        <5> QED BY <5>1, ConcatProperties
      <4>3. Len(b) = 0
        BY <4>1, <4>2
      <4> QED BY <4>1, <4>3
    <3>3. rest = Stream(t)
      <4> HIDE DEF rest, t
      <4>1. rest \o <<>> = rest
        BY <1>4, ConcatEmptySeq
      <4> QED BY <1>3, <3>2, <4>1
    <3>4. 1 \in 0 .. Len(flight'[ch]) /\ SubSeq(flight'[ch], 1, 1) = t
      <4>1. flight'[ch] = <<x>> /\ SubSeq(<<x>>, 1, 1) = <<x>> /\ Len(<<x>>) = 1
        BY <2>2, PrefixOne
      <4> QED BY <2>2, <4>1
    <3> QED BY <1>3, <2>5, <3>3, <3>4
  <2> QED BY <2>6, <2>7, <2>8, <2>9
<1> QED BY <1>5, <1>6

\* A packet is taken and others are sent.
LEMMA ShortHandle ==
    ASSUME IInv, IInv', TornInv, NEW ch \in Channels, NEW out \in Channels, ch # out,
           arrived[ch] # <<>>, Whole(ch), pending[out] = <<>>, NEW ms, Handle(ch, out, ms),
           out[1] \in Clients => ms = <<>> \/ \E x : ms = <<x>>, capacity' = capacity
    PROVE  \A x \in Channels : x[1] \in Clients => ShortOK(x)'
<1>1. Streams /\ StreamOK(ch) /\ StreamOK(out) /\ StreamOK(ch)' /\ StreamOK(out)'
  BY DEF IInv, Streams
<1>2. flight[ch] # <<>>
  <2>1. Received(ch)
    BY <1>1, ReceivedNext
  <2> QED BY <2>1 DEF Received
<1>3. /\ flight = [x \in Channels |-> flight[x]] /\ arrived = [x \in Channels |-> arrived[x]]
      /\ pending = [x \in Channels |-> pending[x]]
  BY <1>1 DEF Streams
<1>4. /\ arrived' = [arrived EXCEPT ![ch] = SubSeq(@, SizeOfPacket(@) + 1, Len(@))]
      /\ flight' = [flight EXCEPT ![ch] = IF @ = <<>> THEN @ ELSE Tail(@), ![out] = @ \o ms]
      /\ Send(out, ms)
  BY DEF Handle
<1>5. PICK p : pending' = [pending EXCEPT ![out] = p]
  BY <1>4 DEF Send
<1>6. /\ flight'[ch] = Tail(flight[ch]) /\ flight'[out] = flight[out] \o ms
      /\ arrived'[ch] = SubSeq(arrived[ch], SizeOfPacket(arrived[ch]) + 1, Len(arrived[ch]))
      /\ arrived'[out] = arrived[out] /\ pending'[ch] = pending[ch]
      /\ \A x \in Channels : x # ch /\ x # out =>
            flight'[x] = flight[x] /\ arrived'[x] = arrived[x] /\ pending'[x] = pending[x]
  BY <1>2, <1>3, <1>4, <1>5
<1> SUFFICES ASSUME NEW x \in Channels, x[1] \in Clients PROVE ShortOK(x)'
  OBVIOUS
<1>7. ShortOK(x)
  BY DEF TornInv
<1>8. CASE x = ch
  BY <1>1, <1>6, <1>7, <1>8, ShortTaken
<1>9. CASE x = out
  <2>1. ms \in Seq(Messages)
    <3>1. CASE ms = <<>>
      BY <3>1
    <3>2. CASE \E y : ms = <<y>>
      <4>1. PICK y : ms = <<y>>
        BY <3>2
      <4>2. flight[out] \in Seq(Messages) /\ flight[out] \o <<y>> \in Seq(Messages)
        BY <1>1, <1>6, <4>1 DEF StreamOK
      <4>3. y \in Messages
        <5> DEFINE q == flight[out]
        <5>1. q \in Seq(Messages) /\ q \o <<y>> \in Seq(Messages)
          BY <4>2
        <5> HIDE DEF q
        <5> QED BY <5>1, LastMessage
      <4> QED BY <4>1, <4>3
    <3> QED BY <1>9, <3>1, <3>2
  <2> QED BY <1>4, <1>6, <1>7, <1>9, <2>1, ShortSend
<1>10. CASE x # ch /\ x # out
  BY <1>6, <1>7, <1>10, ShortSame
<1> QED BY <1>8, <1>9, <1>10

\* A client calls.
LEMMA ShortCall ==
    ASSUME IInv, IInv', TornInv, NEW c \in Clients, NEW call \in Calls[c], Call(c, call)
    PROVE  \A x \in Channels : x[1] \in Clients => ShortOK(x)'
<1> DEFINE up == <<c, "up">>
           m == calling'[c]
<1>1. /\ ~Blocked(c) /\ flight' = [flight EXCEPT ![up] = Append(@, m)]
      /\ Send(up, <<m>>) /\ UNCHANGED <<arrived, capacity>>
  BY DEF Call
<1>2. PICK y : y = m
  OBVIOUS
<1>3. up \in Channels /\ pending[up] = <<>> /\ up[1] = c
  BY <1>1, SenderFree, ChannelShape
<1>4. Streams /\ StreamOK(up) /\ StreamOK(up)'
  BY <1>3 DEF IInv, Streams
<1>5. PICK p : pending' = [pending EXCEPT ![up] = p]
  BY <1>1 DEF Send
<1>6. /\ flight = [x \in Channels |-> flight[x]] /\ pending = [x \in Channels |-> pending[x]]
  BY <1>4 DEF Streams
<1>7. /\ flight'[up] = Append(flight[up], y)
      /\ \A x \in Channels : x # up =>
            flight'[x] = flight[x] /\ arrived'[x] = arrived[x] /\ pending'[x] = pending[x]
  BY <1>1, <1>2, <1>3, <1>5, <1>6
<1>8. flight[up] \in Seq(Messages) /\ flight'[up] \in Seq(Messages)
  BY <1>4 DEF StreamOK
<1>9. y \in Messages /\ flight'[up] = flight[up] \o <<y>>
  <2> DEFINE q == flight[up]
             S == Messages \cup {y}
  <2>1. q \in Seq(S) /\ y \in S /\ q \in Seq(Messages)
    BY <1>8
  <2> HIDE DEF q, S
  <2>2. Append(q, y) = q \o <<y>>
    BY <2>1, AppendIsConcat
  <2>3. q \o <<y>> \in Seq(Messages)
    BY <1>7, <1>8, <2>2 DEF q
  <2>4. y \in Messages
    BY <2>1, <2>3, LastMessage
  <2> QED BY <1>7, <2>2, <2>4 DEF q
<1> SUFFICES ASSUME NEW x \in Channels, x[1] \in Clients PROVE ShortOK(x)'
  OBVIOUS
<1>10. ShortOK(x)
  BY DEF TornInv
<1>11. CASE x = up
  <2> DEFINE ms == <<y>>
  <2>1. ms \in Seq(Messages) /\ Send(up, ms) /\ flight'[up] = flight[up] \o ms
        /\ arrived'[up] = arrived[up] /\ capacity' = capacity
    <3>1. ms \in Seq(Messages) /\ flight'[up] = flight[up] \o ms
      BY <1>9
    <3>2. Send(up, ms)
      BY <1>1, <1>2
    <3> QED BY <1>1, <3>1, <3>2
  <2> HIDE DEF ms, up, m
  <2> QED BY <1>3, <1>10, <1>11, <2>1, ShortSend
<1>12. CASE x # up
  BY <1>1, <1>7, <1>10, <1>12, ShortSame
<1> QED BY <1>11, <1>12

\* The network and a blocked send.
LEMMA ShortNetwork ==
    ASSUME IInv, TornInv, NEW ch \in Channels, SendMore(ch) \/ Deliver(ch)
    PROVE  \A x \in Channels : x[1] \in Clients => ShortOK(x)'
<1> SUFFICES ASSUME NEW x \in Channels, x[1] \in Clients PROVE ShortOK(x)'
  OBVIOUS
<1>1. ShortOK(x) /\ Streams
  BY DEF TornInv, IInv
<1>2. flight' = flight /\ capacity' = capacity
  BY DEF SendMore, Deliver
<1>3. CASE x # ch
  <2>1. pending = [y \in Channels |-> pending[y]] /\ arrived = [y \in Channels |-> arrived[y]]
    BY <1>1 DEF Streams
  <2>2. arrived'[x] = arrived[x] /\ pending'[x] = pending[x]
    BY <1>3, <2>1 DEF SendMore, Deliver
  <2> QED BY <1>1, <1>2, <2>2, ShortSame
<1>4. CASE x = ch
  <2> SUFFICES ASSUME Short(ch)'
               PROVE  /\ pending'[ch] = <<>>
                      /\ \E k \in 0 .. Len(flight'[ch]) :
                            arrived'[ch] = Stream(SubSeq(flight'[ch], 1, k))
    BY <1>4 DEF ShortOK
  <2>1. Short(ch)
    BY <1>2 DEF Short
  <2>2. pending[ch] = <<>>
    BY <1>1, <1>4, <2>1 DEF ShortOK
  <2>3. Deliver(ch)
    BY <2>2 DEF SendMore
  <2> DEFINE a == arrived[ch]
             w == wire[ch]
             q == flight[ch]
             l == Lesser(MSS, capacity)
             n == Room(a, Lesser(MSS, Len(w)))
  <2>4. /\ q \in Seq(Messages) /\ a \in Seq(Nat) /\ w \in Seq(Nat)
        /\ a \o (w \o <<>>) = Stream(q)
        /\ capacity \in Nat /\ l \in Nat /\ l <= capacity /\ l <= MSS
    <3>1. StreamOK(ch)
      BY <1>1 DEF Streams
    <3> QED BY <2>2, <3>1, LesserType DEF StreamOK
  <2>5. Len(Stream(q)) <= l
    <3> DEFINE c == ch[1]
    <3>1. Shape(c, q)
      <4>1. ch = <<c, "up">> \/ ch = <<c, "down">>
        BY ChannelShape
      <4>2. Shapes
        BY InvShapes
      <4> QED BY <1>4, <4>1, <4>2 DEF Shapes, Up, Down
    <3>2. l >= 16 /\ \A i \in DOMAIN q : q[i].flag = "DECAFS_CLIENT_INIT" \/ Len(Ser(q[i])) + 16 <= l
      BY <2>1 DEF Short
    <3>3. c \in Clients
      BY <1>4
    <3> HIDE DEF q, c, l
    <3> QED BY <2>4, <3>1, <3>2, <3>3, ShortTotal
  <2>6. a \o w = Stream(q) /\ Len(a) + Len(w) <= l /\ Len(a) \in Nat /\ Len(w) \in Nat
    <3>1. w \o <<>> = w
      BY <2>4, ConcatEmptySeq
    <3>2. a \o w = Stream(q)
      BY <2>4, <3>1
    <3>3. Len(a \o w) = Len(a) + Len(w) /\ Len(a) \in Nat /\ Len(w) \in Nat
      <4>1. a \in Seq(Nat) /\ w \in Seq(Nat)
        BY <2>4
      <4> HIDE DEF a, w
      <4> QED BY <4>1, ConcatProperties
    <3> HIDE DEF a, w, q, l
    <3> QED BY <2>5, <3>2, <3>3
  <2>7. n = Len(w)
    <3> HIDE DEF a, w
    <3>1. MSS \in Nat
      BY Constants
    <3>2. Lesser(MSS, Len(w)) = Len(w)
      BY <2>4, <2>6, <3>1 DEF Lesser
    <3>3. Len(w) <= capacity - Len(a)
      BY <2>4, <2>6
    <3> QED BY <2>4, <2>6, <3>2, <3>3 DEF Room, Lesser
  <2>8. arrived'[ch] = Stream(q) /\ pending'[ch] = <<>> /\ flight'[ch] = q
    <3>1. arrived = [y \in Channels |-> arrived[y]]
      BY <1>1 DEF Streams
    <3>2. arrived' = [arrived EXCEPT ![ch] = @ \o SubSeq(w, 1, n)] /\ pending' = pending
      BY <2>3 DEF Deliver
    <3>3. arrived'[ch] = a \o SubSeq(w, 1, n)
      BY <3>1, <3>2
    <3>4. SubSeq(w, 1, n) = w
      BY <2>4, <2>7, SubSeqFull
    <3> QED BY <1>2, <2>2, <2>6, <3>2, <3>3, <3>4
  <2>9. SubSeq(q, 1, Len(q)) = q /\ Len(q) \in 0 .. Len(q)
    BY <2>4, SubSeqFull
  <2> QED BY <2>8, <2>9
<1> QED BY <1>3, <1>4

\* A packet is torn only if it is not short.
LEMMA TornLong ==
    ASSUME IInv, TornInv, NEW ch \in Channels, ch[1] \in Clients, arrived[ch] # <<>>, ~Whole(ch)
    PROVE  flight[ch] # <<>> /\ ~Short(ch)
<1>1. StreamOK(ch) /\ ShortOK(ch)
  BY DEF IInv, Streams, TornInv
<1>2. Received(ch)
  BY <1>1, ReceivedNext
<1> DEFINE q == flight[ch]
           a == arrived[ch]
<1>3. q # <<>> /\ q \in Seq(Messages) /\ a \in Seq(Nat) /\ ~(Len(a) >= Len(Ser(Head(q))))
  BY <1>1, <1>2 DEF Received, StreamOK
<1>4. ASSUME Short(ch) PROVE FALSE
  <2>1. PICK k \in 0 .. Len(q) : a = Stream(SubSeq(q, 1, k))
    BY <1>1, <1>4 DEF ShortOK
  <2> DEFINE s == SubSeq(q, 1, k)
  <2>2. a # <<>>
    OBVIOUS
  <2> HIDE DEF q, a
  <2>3. s \in Seq(Messages) /\ Len(s) = k
    BY <1>3, SplitAt
  <2>4. k # 0
    <3>1. k = 0 => s = <<>>
      BY <2>3
    <3> QED BY <2>1, <2>2, <3>1, StreamEmpty
  <2>5. s # <<>> /\ Head(s) = Head(q)
    <3>1. 1 \in Int /\ k \in Int /\ 1 \in 1 .. k - 1 + 1 /\ Len(q) \in Nat /\ \A i \in 1 .. k : q[i] \in Messages
      BY <1>3, <2>4
    <3>2. s[1] = q[1 + 1 - 1]
      BY <3>1, SubSeqProperties
    <3> HIDE DEF s
    <3> QED BY <1>3, <2>3, <2>4, <3>2
  <2> HIDE DEF s
  <2>6. Stream(s) = Ser(Head(s)) \o Stream(Tail(s)) /\ Head(s) \in Messages /\ Tail(s) \in Seq(Messages)
    BY <2>3, <2>5, StreamHead
  <2>7. Ser(Head(s)) \in Seq(Nat) /\ Stream(Tail(s)) \in Seq(Nat)
    BY <2>6, StreamOne, SersType
  <2> DEFINE x == Ser(Head(s))
             y == Stream(Tail(s))
  <2>8. Len(x \o y) >= Len(x)
    <3>1. x \in Seq(Nat) /\ y \in Seq(Nat)
      BY <2>7
    <3> HIDE DEF x, y
    <3>2. Len(x \o y) = Len(x) + Len(y) /\ Len(x) \in Nat /\ Len(y) \in Nat
      BY <3>1, ConcatProperties
    <3> QED BY <3>2
  <2>9. Len(a) >= Len(Ser(Head(q)))
    BY <2>1, <2>5, <2>6, <2>8 DEF s
  <2> QED BY <1>3, <2>9
<1> QED BY <1>3, <1>4

\* While nothing is torn, the second half has nothing to say.
LEMMA NothingTorn ==
    ASSUME torn' = None, \A x \in Channels : x[1] \in Clients => ShortOK(x)'
    PROVE  TornInv'
<1>1. TornOK'
  BY DEF TornOK
<1> QED BY <1>1 DEF TornInv

\* A packet is torn.
LEMMA TornTear ==
    ASSUME IInv, TornInv, NEW ch \in Channels, arrived[ch] # <<>>, Tear(ch)
    PROVE  TornInv'
<1>1. /\ ~Whole(ch) /\ torn' = ch
      /\ UNCHANGED <<pending, wire, arrived, flight, capacity>>
  BY DEF Tear
<1>2. ASSUME NEW x \in Channels, x[1] \in Clients PROVE ShortOK(x)'
  <2>1. ShortOK(x)
    BY <1>2 DEF TornInv
  <2> QED BY <1>1, <2>1, ShortSame
<1>3. ASSUME ch[1] \in Clients PROVE flight'[ch] # <<>> /\ ~(Short(ch)')
  <2>1. flight[ch] # <<>> /\ ~Short(ch)
    BY <1>1, <1>3, TornLong
  <2>2. Short(ch)' <=> Short(ch)
    BY <1>1 DEF Short
  <2> QED BY <1>1, <2>1, <2>2
<1>4. TornOK'
  BY <1>1, <1>3 DEF TornOK, Short
<1> QED BY <1>2, <1>4 DEF TornInv

\* Whose request the node's answer is counted for.
LEMMA AnswerClient ==
    ASSUME IInv, arrived[<<Node, "up">>] # <<>>, Whole(<<Node, "up">>),
           FlagOf(arrived[<<Node, "up">>]) # "ESPRESSO_INIT",
           NEW p, p = Deserialized(FlagOf(arrived[<<Node, "up">>]), Buffer(<<Node, "up">>))
    PROVE  Counted(active[p.id], p).client \in Clients
<1>1. PICK m : m = Head(Up(Node))
  OBVIOUS
<1>2. /\ FlagOf(arrived[<<Node, "up">>]) = m.flag /\ m.flag \in AnswerFlags
      /\ Buffer(<<Node, "up">>) = Ser(m) /\ ChunkMessage(m) /\ RequestOK(m.p.id)
  BY <1>1, AnswerFound
<1>3. p = Deserialized(m.flag, Ser(m))
  BY <1>2
<1>4. p.id = m.p.id
  BY <1>2, <1>3, ChunkRead
<1>5. PICK old : old = active[p.id]
  OBVIOUS
<1>6. old \in [client : Clients, call : Nat,
               flag : {"READ", "WRITE", "REMOVE"}, left : 1 .. MaxChunks,
               sum : Int, data : [1 .. MaxChunks -> Pieces]]
  BY <1>2, <1>4, <1>5 DEF RequestOK
<1>7. Counted(old, p).client = old.client /\ old.client \in Clients
  BY <1>6 DEF Counted
<1> QED BY <1>5, <1>7

\* Barista takes a client's packet, or tears it.
LEMMA TornTakeCall ==
    ASSUME IInv, IInv', TornInv, NEW c \in Clients, TakeCall(c)
    PROVE  TornInv'
<1> DEFINE up == <<c, "up">>
           down == <<c, "down">>
           node == <<Node, "down">>
<1>1. /\ up \in Channels /\ down \in Channels /\ node \in Channels
      /\ up # down /\ up # node /\ Node \notin Clients
  BY ChannelShape, StreamAssumption
<1>2. arrived[up] # <<>> /\ ~Blocked(Barista) /\ torn = None
  BY DEF TakeCall, Readable
<1>3. pending[down] = <<>> /\ pending[node] = <<>>
  BY <1>2, SenderFree, ChannelShape
<1>4. CASE Tear(up)
  BY <1>1, <1>2, <1>4, TornTear
<1>5. CASE /\ Whole(up) /\ capacity' = capacity /\ torn' = torn
           /\ \E ms : Handle(up, down, ms) /\ (ms = <<>> \/ \E x : ms = <<x>>)
  <2>1. PICK ms : Handle(up, down, ms) /\ (ms = <<>> \/ \E x : ms = <<x>>)
    BY <1>5
  <2>2. \A x \in Channels : x[1] \in Clients => ShortOK(x)'
    <3> HIDE DEF up, down, node
    <3> QED BY <1>1, <1>2, <1>3, <1>5, <2>1, ShortHandle
  <2> QED BY <1>2, <1>5, <2>2, NothingTorn
<1>6. CASE /\ Whole(up) /\ capacity' = capacity /\ torn' = torn
           /\ \E ms : Handle(up, node, ms)
  <2>1. PICK ms : Handle(up, node, ms)
    BY <1>6
  <2>2. node[1] \notin Clients
    BY <1>1
  <2>3. \A x \in Channels : x[1] \in Clients => ShortOK(x)'
    <3> HIDE DEF up, down, node
    <3> QED BY <1>1, <1>2, <1>3, <1>6, <2>1, <2>2, ShortHandle
  <2> QED BY <1>2, <1>6, <2>3, NothingTorn
<1> QED BY <1>4, <1>5, <1>6 DEF TakeCall

\* A client takes its answer, or tears it.
LEMMA TornReturn ==
    ASSUME IInv, IInv', TornInv, NEW c \in Clients, Return(c)
    PROVE  TornInv'
<1> DEFINE up == <<c, "up">>
           down == <<c, "down">>
<1>1. up \in Channels /\ down \in Channels /\ up # down
  BY ChannelShape
<1>2. arrived[down] # <<>> /\ ~Blocked(c) /\ torn = None
  BY DEF Return, Readable
<1>3. pending[up] = <<>>
  BY <1>2, SenderFree, ChannelShape
<1>4. CASE Tear(down)
  BY <1>1, <1>2, <1>4, TornTear
<1>5. CASE ~Tear(down)
  <2>1. Whole(down) /\ Handle(down, up, <<>>) /\ capacity' = capacity /\ torn' = torn
    BY <1>5 DEF Return
  <2>2. PICK ms : ms = <<>>
    OBVIOUS
  <2>3. Handle(down, up, ms)
    BY <2>1, <2>2
  <2>4. \A x \in Channels : x[1] \in Clients => ShortOK(x)'
    <3> HIDE DEF up, down
    <3> QED BY <1>1, <1>2, <1>3, <2>1, <2>2, <2>3, ShortHandle
  <2> QED BY <1>2, <2>1, <2>4, NothingTorn
<1> QED BY <1>4, <1>5

\* Barista takes an answer of the node, or tears it, and may answer a client.
LEMMA TornTakeAnswer ==
    ASSUME IInv, IInv', TornInv, TakeAnswer
    PROVE  TornInv'
<1> DEFINE up == <<Node, "up">>
           down == <<Node, "down">>
           flag == FlagOf(arrived[up])
           p == Deserialized(flag, Buffer(up))
           r == Counted(active[p.id], p)
           out == <<r.client, "down">>
           ms == AnswerIfDone(r)
<1>1. /\ up \in Channels /\ down \in Channels /\ up # down /\ down[1] \notin Clients
  BY ChannelShape, StreamAssumption
<1>2. arrived[up] # <<>> /\ ~Blocked(Barista) /\ torn = None
  BY DEF TakeAnswer, Readable
<1>3. pending[down] = <<>>
  BY <1>2, SenderFree, ChannelShape
<1>4. CASE Tear(up)
  BY <1>1, <1>2, <1>4, TornTear
<1>5. CASE /\ Whole(up) /\ Handle(up, down, <<>>) /\ capacity' = capacity /\ torn' = torn
  <2>1. PICK q : q = <<>> /\ Handle(up, down, q)
    BY <1>5
  <2>2. \A x \in Channels : x[1] \in Clients => ShortOK(x)'
    <3> HIDE DEF up, down
    <3> QED BY <1>1, <1>2, <1>3, <1>5, <2>1, ShortHandle
  <2> QED BY <1>2, <1>5, <2>2, NothingTorn
<1>6. CASE /\ Whole(up) /\ flag # "ESPRESSO_INIT" /\ Handle(up, out, ms)
           /\ capacity' = capacity /\ torn' = torn
  <2>1. r.client \in Clients
    BY <1>2, <1>6, AnswerClient
  <2>2. out \in Channels /\ up # out /\ pending[out] = <<>>
    BY <1>2, <2>1, SenderFree, ChannelShape
  <2>3. ms = <<>> \/ \E x : ms = <<x>>
    BY DEF AnswerIfDone
  <2>4. \A x \in Channels : x[1] \in Clients => ShortOK(x)'
    <3> HIDE DEF up, out, ms
    <3> QED BY <1>1, <1>2, <1>6, <2>2, <2>3, ShortHandle
  <2> QED BY <1>2, <1>6, <2>4, NothingTorn
<1> QED BY <1>4, <1>5, <1>6 DEF TakeAnswer

\* The node answers a request, or tears it.
LEMMA TornNodeStep ==
    ASSUME IInv, IInv', TornInv, NodeStep
    PROVE  TornInv'
<1> DEFINE up == <<Node, "up">>
           down == <<Node, "down">>
<1>1. /\ up \in Channels /\ down \in Channels /\ up # down /\ up[1] \notin Clients
  BY ChannelShape, StreamAssumption
<1>2. arrived[down] # <<>> /\ ~Blocked(Node) /\ torn = None
  BY DEF NodeStep, Readable
<1>3. pending[up] = <<>>
  BY <1>2, SenderFree, ChannelShape
<1>4. CASE Tear(down)
  BY <1>1, <1>2, <1>4, TornTear
<1>5. CASE ~Tear(down)
  <2>1. Whole(down) /\ (\E ms : Handle(down, up, ms)) /\ capacity' = capacity /\ torn' = torn
    BY <1>5 DEF NodeStep
  <2>2. PICK ms : Handle(down, up, ms)
    BY <2>1
  <2>3. \A x \in Channels : x[1] \in Clients => ShortOK(x)'
    <3> HIDE DEF up, down
    <3> QED BY <1>1, <1>2, <1>3, <2>1, <2>2, ShortHandle
  <2> QED BY <1>2, <2>1, <2>3, NothingTorn
<1> QED BY <1>4, <1>5

\* Nothing has been torn.
LEMMA TornInit == Init => TornInv
<1> SUFFICES ASSUME Init PROVE TornInv
  OBVIOUS
<1>1. ASSUME NEW x \in Channels PROVE ShortOK(x)
  <2>1. pending[x] = <<>> /\ arrived[x] = <<>>
    BY <1>1 DEF Init
  <2>2. flight[x] \in Seq(Messages)
    <3>1. IInv
      BY InitInv
    <3> QED BY <3>1 DEF IInv, Streams, StreamOK
  <2> QED BY <2>1, <2>2, PrefixStream DEF ShortOK
<1>2. TornOK
  BY DEF Init, TornOK
<1> QED BY <1>1, <1>2 DEF TornInv

\* Every step keeps TornInv.
LEMMA TornNext == IInv /\ IInv' /\ TornInv /\ [Next]_vars => TornInv'
<1> SUFFICES ASSUME IInv, IInv', TornInv, [Next]_vars PROVE TornInv'
  OBVIOUS
<1>1. ASSUME NEW ch \in Channels, SendMore(ch) \/ Deliver(ch) PROVE TornInv'
  <2>1. torn' = None
    BY <1>1 DEF SendMore, Deliver
  <2> QED BY <1>1, <2>1, ShortNetwork, NothingTorn
<1>2. ASSUME NEW c \in Clients, NEW call \in Calls[c], Call(c, call) PROVE TornInv'
  <2>1. torn' = None
    BY <1>2 DEF Call
  <2> QED BY <1>2, <2>1, ShortCall, NothingTorn
<1>3. CASE UNCHANGED vars
  <2>1. UNCHANGED <<pending, wire, arrived, flight, capacity, torn>>
    BY <1>3 DEF vars
  <2>2. ASSUME NEW x \in Channels, x[1] \in Clients PROVE ShortOK(x)'
    <3>1. ShortOK(x)
      BY <2>2 DEF TornInv
    <3> QED BY <2>1, <3>1, ShortSame
  <2>3. TornOK'
    BY <2>1 DEF TornInv, TornOK, Short
  <2> QED BY <2>2, <2>3 DEF TornInv
<1> QED BY <1>1, <1>2, <1>3, TornTakeCall, TornReturn, TornTakeAnswer, TornNodeStep DEF Next

\* The one recv that handleMessageFromClient expects a whole packet from fails on
\* a client's connection only when a packet there, together with a registration,
\* is longer than a segment or than the buffer.
THEOREM TornOnlyByLength == Spec => []ClientsTornOnlyByLength
<1>1. IInv /\ TornInv => ClientsTornOnlyByLength
  <2> SUFFICES ASSUME IInv, TornInv, torn # None, torn[1] \in Clients
               PROVE  \E i \in DOMAIN flight[torn] :
                         Len(Ser(flight[torn][i])) + 16 > Lesser(MSS, capacity)
    BY DEF ClientsTornOnlyByLength, Ser
  <2>1. torn \in Channels /\ flight[torn] # <<>> /\ ~Short(torn)
    BY DEF IInv, TornInv, TornOK
  <2>2. flight[torn] \in Seq(Messages)
    BY <2>1 DEF IInv, Streams, StreamOK
  <2>3. ASSUME NEW i \in DOMAIN flight[torn] PROVE Len(Ser(flight[torn][i])) \in Nat
    <3>1. flight[torn][i] \in Messages
      BY <2>2
    <3>2. Ser(flight[torn][i]) \in Seq(Nat)
      BY <3>1, StreamOne, SersType
    <3> QED BY <3>2
  <2>4. Lesser(MSS, capacity) \in Nat
    BY LesserType
  <2>5. CASE Lesser(MSS, capacity) >= 16
    <3>1. PICK i \in DOMAIN flight[torn] :
             ~(Len(Ser(flight[torn][i])) + 16 <= Lesser(MSS, capacity))
      BY <2>1, <2>5 DEF Short
    <3>2. Len(Ser(flight[torn][i])) \in Nat
      BY <2>3
    <3> QED BY <2>4, <3>1, <3>2
  <2>6. CASE ~(Lesser(MSS, capacity) >= 16)
    <3>1. 1 \in DOMAIN flight[torn]
      BY <2>1, <2>2
    <3>2. Len(Ser(flight[torn][1])) \in Nat
      BY <2>3, <3>1
    <3> QED BY <2>4, <2>6, <3>1, <3>2
  <2> QED BY <2>5, <2>6
<1>2. Spec => [](IInv /\ TornInv)
  <2>1. Init => IInv /\ TornInv
    BY InitInv, TornInit
  <2>2. (IInv /\ TornInv) /\ [Next]_vars => (IInv /\ TornInv)'
    BY NextInv, TornNext
  <2> QED BY <2>1, <2>2, PTL DEF Spec
<1> QED BY <1>1, <1>2, PTL

-------------------------------------------------------------------------------
(* Standstill *)

\* The bytes of packets about single chunks.
LEMMA ChunksLen ==
    ASSUME NEW q \in Seq(Messages), \A j \in 1 .. Len(q) : ChunkMessage(q[j])
    PROVE  Len(Stream(q)) <= Len(q) * 37
<1> DEFINE T == {n \in Nat : \A s \in Seq(Messages) :
                    Len(s) = n /\ (\A j \in 1 .. Len(s) : ChunkMessage(s[j])) =>
                       Len(Stream(s)) <= n * 37}
<1>1. 0 \in T
  <2> SUFFICES ASSUME NEW s \in Seq(Messages), Len(s) = 0 PROVE Len(Stream(s)) <= 0 * 37
    OBVIOUS
  <2>1. s = <<>>
    OBVIOUS
  <2>2. Stream(s) = <<>>
    BY <2>1, StreamEmpty
  <2>3. Len(Stream(s)) = 0
    BY <2>2
  <2> QED BY <2>3
<1>2. ASSUME NEW n \in Nat, n \in T PROVE n + 1 \in T
  <2> SUFFICES ASSUME NEW s \in Seq(Messages), Len(s) = n + 1,
                      \A j \in 1 .. Len(s) : ChunkMessage(s[j])
               PROVE  Len(Stream(s)) <= (n + 1) * 37
    OBVIOUS
  <2> DEFINE h == Head(s)
             t == Tail(s)
  <2>1. s # <<>> /\ 1 \in 1 .. Len(s) /\ h = s[1]
    OBVIOUS
  <2>2. t \in Seq(Messages) /\ Len(t) = n /\ \A j \in 1 .. Len(t) : t[j] = s[j + 1]
    BY <2>1, HeadTailProperties
  <2> HIDE DEF h, t
  <2>3. \A j \in 1 .. Len(t) : j + 1 \in 1 .. Len(s)
    BY <2>2
  <2>4. \A j \in 1 .. Len(t) : ChunkMessage(t[j])
    BY <2>2, <2>3
  <2>5. Len(Stream(t)) <= n * 37
    BY <1>2, <2>2, <2>4
  <2>6. ChunkMessage(h)
    BY <2>1
  <2>7. Len(Ser(h)) <= 37
    BY <2>6, ChunkRead
  <2>8. h \in Messages /\ Stream(s) = Ser(h) \o Stream(t)
    BY <2>1, StreamHead DEF h, t
  <2> DEFINE a == Ser(h)
             b == Stream(t)
  <2>9. a \in Seq(Nat) /\ b \in Seq(Nat)
    BY <2>2, <2>8, MessageBytes, SersType
  <2>10. Len(a \o b) = Len(a) + Len(b) /\ Len(a) \in Nat /\ Len(b) \in Nat
    <3> HIDE DEF a, b
    <3> QED BY <2>9, ConcatProperties
  <2>11. Len(Stream(s)) = Len(a) + Len(b)
    BY <2>8, <2>10
  <2>12. Len(a) <= 37 /\ Len(b) <= n * 37
    BY <2>5, <2>7
  <2> HIDE DEF a, b, T
  <2> QED BY <2>10, <2>11, <2>12
<1> HIDE DEF T
<1>3. Nat \subseteq T
  BY <1>1, <1>2, Join!NatSet
<1>4. Len(q) \in Nat
  OBVIOUS
<1> QED BY <1>3, <1>4 DEF T

\* The requests and answers that can be outstanding: one of each chunk of each
\* client.
LEMMA QueueShort ==
    ASSUME IInv, NodeRuns
    PROVE  /\ Len(Queue) \in Nat /\ Cardinality(Clients) \in Nat
           /\ Len(Queue) <= Cardinality(Clients) * MaxChunks
<1> DEFINE q == Queue
           n == Len(Queue)
           S == 1 .. n
           T == Clients \X (1 .. MaxChunks)
           f == [j \in S |-> <<active[q[j].p.id].client, q[j].p.chunk_num>>]
<1>1. n \in Nat /\ IsFiniteSet(S) /\ Cardinality(S) = n
  <2>1. Up(Node) \in Seq(Messages) /\ Down(Node) \in Seq(Messages)
    BY ChannelShape DEF IInv, Streams, StreamOK, Up, Down
  <2>2. n \in Nat
    <3> DEFINE u == Up(Node)
               d == Down(Node)
    <3>1. u \in Seq(Messages) /\ d \in Seq(Messages)
      BY <2>1
    <3> HIDE DEF u, d
    <3>2. Len(u \o d) = Len(u) + Len(d) /\ Len(u) \in Nat /\ Len(d) \in Nat
      BY <3>1, ConcatProperties
    <3> QED BY <3>2 DEF Queue, u, d
  <2> HIDE DEF n
  <2>3. Cardinality(1 .. n) = n /\ IsFiniteSet(1 .. n)
    BY <2>2, FS_Interval
  <2> QED BY <2>2, <2>3
<1>2. /\ IsFiniteSet(T) /\ Cardinality(T) = Cardinality(Clients) * MaxChunks
      /\ Cardinality(Clients) \in Nat
  <2> DEFINE C == 1 .. MaxChunks
  <2>1. IsFiniteSet(Clients) /\ Cardinality(Clients) \in Nat
    BY AskingFinite, FS_CardinalityType
  <2>2. IsFiniteSet(C) /\ Cardinality(C) = MaxChunks
    BY Constants, FS_Interval
  <2> HIDE DEF C
  <2>3. IsFiniteSet(Clients \X C) /\ Cardinality(Clients \X C) = Cardinality(Clients) * Cardinality(C)
    BY <2>1, <2>2, FS_Product
  <2> QED BY <2>1, <2>2, <2>3 DEF C
<1>3. ASSUME NEW j \in S
      PROVE  /\ q[j].p.id \in DOMAIN active /\ active[q[j].p.id].client \in Clients
             /\ q[j].p.chunk_num \in 1 .. MaxChunks
  <2>1. q[j].p.id \in DOMAIN active /\ ChunkMessage(q[j])
    BY DEF NodeRuns, QueueOK
  <2>2. RequestOK(q[j].p.id)
    BY <2>1 DEF IInv, Logic, Requests
  <2>3. active[q[j].p.id].client \in Clients
    BY <2>2 DEF RequestOK
  <2> QED BY <2>1, <2>3 DEF ChunkMessage
<1>4. f \in [S -> T]
  BY <1>3
<1>5. ASSUME NEW j \in S, NEW k \in S, f[j] = f[k] PROVE j = k
  <2> DEFINE a == q[j].p.id
             b == q[k].p.id
  <2>1. /\ a \in DOMAIN active /\ b \in DOMAIN active /\ active[a].client = active[b].client
        /\ active[a].client \in Clients /\ q[j].p.chunk_num = q[k].p.chunk_num
    BY <1>3, <1>5
  <2> HIDE DEF a, b
  <2>2. PICK c \in Clients : c = active[a].client
    BY <2>1
  <2>3. SessionOK(c) /\ a \in Mine(c) /\ b \in Mine(c)
    BY <2>1, <2>2 DEF IInv, Logic, Sessions, Mine
  <2>4. a = b
    BY <2>3 DEF SessionOK, Idle, Asked, Served, Answered
  <2> QED BY <2>1, <2>4 DEF NodeRuns, QueueOK, a, b
<1> HIDE DEF S, T, f
<1>6. ~(Cardinality(T) < Cardinality(S))
  <2> SUFFICES ASSUME Cardinality(T) < Cardinality(S) PROVE FALSE
    OBVIOUS
  <2>1. \E x, y \in S : x # y /\ f[x] = f[y]
    BY <1>1, <1>2, <1>4, FS_PigeonHole
  <2> QED BY <1>5, <2>1
<1> DEFINE K == Cardinality(Clients) * MaxChunks
<1>7. K \in Nat
  <2>1. Cardinality(Clients) \in Nat /\ MaxChunks \in Nat
    BY <1>2, Constants
  <2> QED BY <2>1
<1> HIDE DEF n, K
<1>8. n <= K
  BY <1>1, <1>2, <1>6, <1>7 DEF K
<1> QED BY <1>1, <1>2, <1>8 DEF n, K

\* Where nothing is carried on, a full buffer is behind what waits.
Still(ch) == /\ ~(Room(wire[ch], Len(pending[ch])) > 0)
             /\ ~(Room(arrived[ch], Len(wire[ch])) > 0)
             /\ arrived[ch] # <<>> => Blocked(IF ch[2] = "up" THEN Barista ELSE ch[1])

\* Where nothing moves on a channel, what has been sent has arrived, and a
\* blocked send means that twice the capacity is under way.
LEMMA StillChannel ==
    ASSUME IInv, NEW ch \in Channels, Still(ch)
    PROVE  /\ flight[ch] # <<>> => arrived[ch] # <<>>
           /\ pending[ch] # <<>> => /\ flight[ch] # <<>>
                                    /\ Len(Stream(flight[ch])) > 2 * capacity
<1>1. StreamOK(ch) /\ capacity \in Nat /\ capacity >= 16
  BY Constants DEF IInv, Streams
<1> DEFINE p == pending[ch]
           w == wire[ch]
           a == arrived[ch]
           q == flight[ch]
<1>2. /\ p \in Seq(Nat) /\ w \in Seq(Nat) /\ a \in Seq(Nat) /\ q \in Seq(Messages)
      /\ a \o (w \o p) = Stream(q) /\ Len(w) <= capacity /\ Len(a) <= capacity
  BY <1>1 DEF StreamOK
<1>3. ~(Room(w, Len(p)) > 0) /\ ~(Room(a, Len(w)) > 0)
  BY DEF Still
<1> HIDE DEF p, w, a, q
<1>4. Len(p) \in Nat /\ Len(w) \in Nat /\ Len(a) \in Nat
  BY <1>2
<1>5. Len(Stream(q)) = Len(a) + (Len(w) + Len(p))
  <2> DEFINE v == w \o p
  <2>1. v \in Seq(Nat) /\ Len(v) = Len(w) + Len(p)
    BY <1>2, ConcatProperties
  <2>2. a \o v = Stream(q)
    BY <1>2
  <2> HIDE DEF v
  <2>3. Len(a \o v) = Len(a) + Len(v)
    BY <1>2, <2>1, ConcatProperties
  <2> QED BY <2>1, <2>2, <2>3
<1>6. /\ Len(p) = 0 \/ Len(w) = capacity
      /\ Len(w) = 0 \/ Len(a) = capacity
  BY <1>1, <1>2, <1>3, <1>4, SMTT(30) DEF Room, Lesser
<1>7. (p = <<>> <=> Len(p) = 0) /\ (a = <<>> <=> Len(a) = 0)
  BY <1>2
<1>8. q # <<>> => Len(Stream(q)) # 0
  <2> SUFFICES ASSUME q # <<>> PROVE Len(Stream(q)) # 0
    OBVIOUS
  <2>1. Stream(q) # <<>> /\ Stream(q) \in Seq(Nat)
    BY <1>2, StreamNonEmpty, SersType
  <2> QED BY <2>1
<1>9. q = <<>> => Len(Stream(q)) = 0
  <2>1. q = <<>> => Stream(q) = <<>>
    BY StreamEmpty
  <2>2. Len(<<>>) = 0
    OBVIOUS
  <2> QED BY <2>1, <2>2
<1> DEFINE s == Len(Stream(q))
<1>10. s = Len(a) + (Len(w) + Len(p)) /\ (q # <<>> => s # 0) /\ (q = <<>> => s = 0)
  BY <1>5, <1>8, <1>9
<1> HIDE DEF s
<1>11. q # <<>> => Len(a) # 0
  BY <1>1, <1>4, <1>6, <1>10
<1>12. Len(p) # 0 => s > 2 * capacity /\ s # 0
  BY <1>1, <1>4, <1>6, <1>10
<1>13. (q # <<>> => a # <<>>) /\ (p # <<>> => q # <<>> /\ s > 2 * capacity)
  BY <1>7, <1>10, <1>11, <1>12
<1> QED BY <1>13 DEF p, w, a, q, s

\* Packets on a channel that stands still wait for a blocked receiver.
LEMMA StillBlocked ==
    ASSUME IInv, \A ch \in Channels : Still(ch)
    PROVE  /\ \A e \in Ends : Up(e) # <<>> => Blocked(Barista)
           /\ \A e \in Ends : Down(e) # <<>> => Blocked(e)
           /\ \A e \in Ends : Blocked(e) =>
                 Up(e) # <<>> /\ Len(Stream(Up(e))) > 2 * capacity
           /\ Blocked(Barista) => \E e \in Ends : Down(e) # <<>>
<1>1. ASSUME NEW e \in Ends
      PROVE  /\ Up(e) # <<>> => Blocked(Barista)
             /\ Down(e) # <<>> => Blocked(e)
  <2> DEFINE up == <<e, "up">>
             down == <<e, "down">>
  <2>1. up \in Channels /\ down \in Channels /\ up[2] = "up" /\ down[2] # "up" /\ down[1] = e
    BY ChannelShape
  <2> HIDE DEF up, down
  <2>2. Still(up) /\ Still(down)
    BY <2>1
  <2>3. /\ flight[up] # <<>> => arrived[up] # <<>>
        /\ flight[down] # <<>> => arrived[down] # <<>>
    BY <2>1, <2>2, StillChannel
  <2>4. /\ flight[up] # <<>> => Blocked(Barista)
        /\ flight[down] # <<>> => Blocked(e)
    BY <2>1, <2>2, <2>3 DEF Still
  <2> QED BY <2>4 DEF up, down, Up, Down
<1>2. ASSUME NEW e \in Ends, Blocked(e)
      PROVE  Up(e) # <<>> /\ Len(Stream(Up(e))) > 2 * capacity
  <2>1. PICK ch \in Channels : Sender(ch) = e /\ pending[ch] # <<>>
    BY <1>2 DEF Blocked
  <2>2. ch = <<e, "up">>
    <3>1. Barista \notin Ends
      BY StreamAssumption DEF Ends
    <3> QED BY <2>1, <3>1, ChannelShape DEF Sender
  <2>3. flight[ch] # <<>> /\ Len(Stream(flight[ch])) > 2 * capacity
    BY <2>1, StillChannel
  <2> QED BY <2>2, <2>3 DEF Up
<1>3. ASSUME Blocked(Barista) PROVE \E e \in Ends : Down(e) # <<>>
  <2>1. PICK ch \in Channels : Sender(ch) = Barista /\ pending[ch] # <<>>
    BY <1>3 DEF Blocked
  <2>2. PICK e \in Ends : ch = <<e, "down">>
    <3>1. Barista \notin Ends
      BY StreamAssumption DEF Ends
    <3> QED BY <2>1, <3>1, ChannelShape DEF Sender
  <2>3. flight[ch] # <<>>
    BY <2>1, StillChannel
  <2> QED BY <2>2, <2>3 DEF Down
<1> QED BY <1>1, <1>2, <1>3

\* The node's answers fit, so that Barista and the node do not block each other.
LEMMA NobodyBlocked ==
    ASSUME IInv, \A ch \in Channels : Still(ch), AnswersFit
    PROVE  ~Blocked(Barista) /\ \A e \in Ends : ~Blocked(e)
<1>1. ~Blocked(Barista)
  <2> SUFFICES ASSUME Blocked(Barista) PROVE FALSE
    OBVIOUS
  <2>1. PICK e \in Ends : Down(e) # <<>>
    BY StillBlocked
  <2>2. /\ Blocked(e) /\ Up(e) # <<>> /\ Len(Stream(Up(e))) > 2 * capacity
    BY <2>1, StillBlocked
  <2>3. CASE e \in Clients
    <3>1. SessionOK(e)
      BY <2>3 DEF IInv, Logic, Sessions
    <3> QED BY <2>1, <2>2, <3>1 DEF SessionOK, Idle, Asked, Served, Answered
  <2>4. CASE e = Node
    <3>1. NodeRuns
      BY <2>1, <2>4 DEF IInv, Logic, NodeNew
    <3> DEFINE u == Up(Node)
               d == Down(Node)
    <3>2. u \in Seq(Messages) /\ d \in Seq(Messages)
      BY ChannelShape DEF IInv, Streams, StreamOK, Up, Down
    <3>3. \A j \in 1 .. Len(u) + Len(d) : j \in 1 .. Len(Queue) /\ (j <= Len(u) => Queue[j] = u[j])
      <4>1. Queue = u \o d
        BY DEF Queue
      <4> HIDE DEF u, d
      <4>2. /\ Len(u \o d) = Len(u) + Len(d)
            /\ \A j \in 1 .. Len(u) + Len(d) :
                  (u \o d)[j] = IF j <= Len(u) THEN u[j] ELSE d[j - Len(u)]
        BY <3>2, ConcatProperties
      <4> QED BY <4>1, <4>2
    <3>4. \A j \in 1 .. Len(u) : ChunkMessage(u[j])
      <4> SUFFICES ASSUME NEW j \in 1 .. Len(u) PROVE ChunkMessage(u[j])
        OBVIOUS
      <4>1. Len(u) \in Nat /\ Len(d) \in Nat
        BY <3>2
      <4> HIDE DEF u, d
      <4>2. j \in 1 .. Len(u) + Len(d) /\ j <= Len(u)
        BY <4>1
      <4>3. j \in 1 .. Len(Queue) /\ Queue[j] = u[j]
        BY <3>3, <4>2
      <4>4. ChunkMessage(Queue[j])
        BY <3>1, <4>3 DEF NodeRuns, QueueOK
      <4> QED BY <4>3, <4>4
    <3>5. Len(Stream(u)) <= Len(u) * 37
      <4> HIDE DEF u
      <4> QED BY <3>2, <3>4, ChunksLen
    <3> DEFINE K == Cardinality(Clients) * MaxChunks
    <3>6. Len(Queue) <= K /\ Cardinality(Clients) \in Nat
      BY <3>1, QueueShort
    <3>7. Len(Queue) = Len(u) + Len(d) /\ Len(u) \in Nat /\ Len(d) \in Nat
      <4>1. Queue = u \o d
        BY DEF Queue
      <4> HIDE DEF u, d
      <4> QED BY <3>2, <4>1, ConcatProperties
    <3>8. K \in Nat
      <4>1. Cardinality(Clients) \in Nat /\ MaxChunks \in Nat
        BY <3>6, Constants
      <4> QED BY <4>1
    <3>9. 2 * capacity >= K * 37
      <4>1. 2 * capacity >= K * (file_packet_size + 1)
        BY DEF AnswersFit
      <4>2. file_packet_size + 1 = 37
        BY DEF file_packet_size, header_size
      <4> HIDE DEF K
      <4> QED BY <4>1, <4>2
    <3>10. Len(Stream(u)) > 2 * capacity
      BY <2>2, <2>4
    <3>11. capacity \in Nat /\ Len(Stream(u)) \in Nat
      <4>1. Stream(u) \in Seq(Nat)
        BY <3>2, SersType
      <4> QED BY <4>1, LesserType
    <3> DEFINE s == Len(Stream(u))
               l == Len(u)
    <3>12. s <= l * 37 /\ s > 2 * capacity /\ s \in Nat /\ l \in Nat /\ l <= K
      <4>1. l <= K
        <5> HIDE DEF K, u, d
        <5> QED BY <3>6, <3>7, <3>8
      <4> QED BY <3>5, <3>7, <3>10, <3>11, <4>1
    <3> HIDE DEF K, s, l
    <3> QED BY <3>8, <3>9, <3>11, <3>12
  <2> QED BY <2>3, <2>4 DEF Ends
<1>2. ASSUME NEW e \in Ends, Blocked(e) PROVE FALSE
  <2>1. Up(e) # <<>>
    BY <1>2, StillBlocked
  <2> QED BY <1>1, <2>1, StillBlocked
<1> QED BY <1>1, <1>2

\* Blocking sends in every process do not lock the system up: while no packet is
\* torn and a client waits in recv for an answer, some process has something to
\* do, if the buffers of the node's connection hold the answers of all requests.
THEOREM CallsDoNotStandStill == Spec => []NoStandstill
<1>1. IInv => NoStandstill
  <2> SUFFICES ASSUME IInv, torn = None, NEW c \in Clients, AwaitsAnswer(c), ~Busy
               PROVE  FALSE
    BY DEF NoStandstill
  <2>1. ASSUME NEW ch \in Channels PROVE Still(ch)
    <3>1. /\ ~(Room(wire[ch], Len(pending[ch])) > 0)
          /\ ~(Room(arrived[ch], Len(wire[ch])) > 0)
          /\ ~Readable(ch, IF ch[2] = "up" THEN Barista ELSE ch[1])
      BY DEF Busy
    <3> QED BY <3>1 DEF Still, Readable
  <2>2. AnswersFit /\ calling[c] # None /\ calling[c].flag \notin {"MKDIR", "OPENDIR"}
    BY DEF AwaitsAnswer
  <2>3. ~Blocked(Barista) /\ \A e \in Ends : ~Blocked(e)
    BY <2>1, <2>2, NobodyBlocked
  <2>4. \A e \in Ends : Up(e) = <<>> /\ Down(e) = <<>>
    BY <2>1, <2>3, StillBlocked
  <2>5. c \in Ends /\ Node \in Ends
    BY ChannelShape
  <2>6. SessionOK(c)
    BY DEF IInv, Logic, Sessions
  <2>7. Served(c)
    BY <2>2, <2>4, <2>5, <2>6 DEF SessionOK, Idle, Asked, Answered
  <2>8. PICK i \in DOMAIN active : Mine(c) = {i}
    BY <2>7 DEF Served
  <2>9. NodeRuns
    BY <2>8 DEF IInv, Logic, NodeNew
  <2>10. active[i].left \in 1 .. MaxChunks
    BY <2>8 DEF IInv, Logic, Requests, RequestOK
  <2>11. Queue = <<>>
    BY <2>4, <2>5 DEF Queue
  <2>12. MissingOf(Queue, i) = {}
    <3>1. Len(Queue) = 0
      BY <2>11
    <3>2. \A j : j \notin 1 .. 0
      OBVIOUS
    <3> QED BY <3>1, <3>2 DEF MissingOf
  <2>13. active[i].left = Cardinality(MissingOf(Queue, i))
    BY <2>8, <2>9 DEF NodeRuns, QueueOK
  <2>14. Cardinality(MissingOf(Queue, i)) = 0
    BY <2>12, FS_EmptySet
  <2> QED BY <2>10, <2>13, <2>14
<1> QED BY <1>1, StreamInvariant, PTL
================================================================================
