---------------------------- MODULE FoldInduction ----------------------------
(***************************************************************************)
(* Loops over sequences, as the handlers of Barista are modelled: what     *)
(* FoldLeft computes is what the loop leaves after its last turn.          *)
(***************************************************************************)
EXTENDS Integers, SequencesExt, NaturalsInduction, WellFoundedInduction, TLAPS

CONSTANT Op(_, _, _, _, _)      \* a turn: three parameters, the state, an element

Loop(a, b, c, base, seq) ==
    FoldLeft(LAMBDA h, s : Op(a, b, c, h, s), base, seq)

\* Induction, for a property given as a set.
LEMMA NatSet ==
    ASSUME NEW S, 0 \in S, \A n \in Nat : n \in S => n + 1 \in S
    PROVE  Nat \subseteq S
<1> DEFINE Bad == Nat \ S
<1> SUFFICES ASSUME Bad # {} PROVE FALSE
  OBVIOUS
<1>1. PICK x \in Bad : \A y \in Bad : ~(<<y, x>> \in OpToRel(<, Nat))
  BY NatLessThanWellFounded, WFMin
<1>2. x \in Nat /\ x # 0 /\ x - 1 \in Nat
  OBVIOUS
<1>3. x - 1 \notin Bad
  <2>1. x - 1 < x
    BY <1>2
  <2>2. <<x - 1, x>> \in OpToRel(<, Nat)
    BY <1>2, <2>1 DEF OpToRel
  <2> QED BY <1>1, <2>2
<1>4. x = (x - 1) + 1
  BY <1>2
<1> QED BY <1>2, <1>3, <1>4

\* The largest element.
LEMMA MaxOf ==
    ASSUME NEW k \in Nat, NEW S \in SUBSET (1 .. k), S # {}
    PROVE  Max(S) \in S /\ \A y \in S : Max(S) >= y
<1> DEFINE T == {n \in Nat : \A U \in SUBSET (1 .. n) :
                    U # {} => \E x \in U : \A y \in U : x >= y}
<1>1. 0 \in T
  <2>1. \A U \in SUBSET (1 .. 0) : U = {}
    OBVIOUS
  <2> QED BY <2>1
<1>2. ASSUME NEW n \in Nat, n \in T PROVE n + 1 \in T
  <2>1. ASSUME NEW U \in SUBSET (1 .. n + 1), U # {}
        PROVE  \E x \in U : \A y \in U : x >= y
    <3>1. CASE n + 1 \in U
      BY <3>1
    <3>2. CASE n + 1 \notin U
      <4>1. U \in SUBSET (1 .. n)
        BY <3>2
      <4> QED BY <1>2, <2>1, <4>1
    <3> QED BY <3>1, <3>2
  <2> QED BY <2>1
<1>3. k \in T
  BY <1>1, <1>2, NatSet
<1> QED BY <1>3 DEF Max

LEMMA MaxOfInterval ==
    ASSUME NEW i \in Nat, i # 0 PROVE Max(1 .. i) = i
<1>1. 1 .. i # {} /\ i \in 1 .. i
  OBVIOUS
<1> DEFINE m == Max(1 .. i)
<1>2. m \in 1 .. i /\ \A y \in 1 .. i : m >= y
  BY <1>1, MaxOf
<1> HIDE DEF m
<1>3. m = i
  BY <1>1, <1>2
<1> QED BY <1>3 DEF m

\* h[i] is what the loop has after i of n elements.
Turns(h, a, b, c, base, n, seq) ==
    /\ h[0] = base
    /\ \A i \in 1 .. n : h[i] = Op(a, b, c, h[i - 1], seq[i])
    /\ h[n] = Loop(a, b, c, base, seq)

\* One turn after another.
THEOREM LoopTurns ==
    ASSUME NEW a, NEW b, NEW c, NEW base, NEW n \in Nat, NEW seq,
           DOMAIN seq = 1 .. n
    PROVE  \E h : Turns(h, a, b, c, base, n, seq)
<1> DEFINE Turn(h, i) == Op(a, b, c, h, seq[i])
           Fits(f, k) == f = [s \in SUBSET (1 .. k) |->
                                IF s = {} THEN base
                                ELSE Turn(f[s \ {Max(s)}], Max(s))]
           T == {k \in Nat : \E f : Fits(f, k)}
<1>1. 0 \in T
  <2> DEFINE f == [s \in SUBSET (1 .. 0) |-> base]
  <2>1. Fits(f, 0)
    OBVIOUS
  <2> QED BY <2>1
<1> HIDE DEF Turn
<1>2. ASSUME NEW k \in Nat, k \in T PROVE k + 1 \in T
  <2>1. PICK f : Fits(f, k)
    BY <1>2
  <2> DEFINE g == [s \in SUBSET (1 .. k + 1) |->
                     IF k + 1 \in s THEN Turn(f[s \ {k + 1}], k + 1) ELSE f[s]]
  <2>2. ASSUME NEW s \in SUBSET (1 .. k + 1)
        PROVE  g[s] = IF s = {} THEN base
                      ELSE Turn(g[s \ {Max(s)}], Max(s))
    <3>1. CASE k + 1 \in s
      <4>1. Max(s) = k + 1
        <5>1. k + 1 \in Nat /\ s # {}
          BY <3>1
        <5>2. Max(s) \in s /\ \A y \in s : Max(s) >= y
          BY <5>1, MaxOf
        <5>3. Max(s) \in 1 .. k + 1 /\ Max(s) >= k + 1
          BY <3>1, <5>2
        <5> QED BY <5>3
      <4>2. s \ {k + 1} \in SUBSET (1 .. k) /\ s \ {k + 1} \in SUBSET (1 .. k + 1)
        OBVIOUS
      <4>3. g[s \ {k + 1}] = f[s \ {k + 1}]
        BY <4>2
      <4>4. g[s] = Turn(f[s \ {k + 1}], k + 1)
        BY <3>1
      <4> QED BY <3>1, <4>1, <4>3, <4>4
    <3>2. CASE k + 1 \notin s
      <4>1. s \in SUBSET (1 .. k)
        BY <3>2
      <4> DEFINE rest == s \ {Max(s)}
      <4>0. rest \in SUBSET (1 .. k + 1) /\ k + 1 \notin rest
        BY <3>2
      <4> HIDE DEF rest
      <4>2. g[s] = f[s] /\ g[rest] = f[rest]
        BY <3>2, <4>0
      <4>3. f[s] = IF s = {} THEN base ELSE Turn(f[s \ {Max(s)}], Max(s))
        BY <2>1, <4>1
      <4> QED BY <4>2, <4>3 DEF rest
    <3> QED BY <3>1, <3>2
  <2>3. g = [s \in SUBSET (1 .. k + 1) |-> g[s]]
    OBVIOUS
  <2> HIDE DEF g
  <2>4. Fits(g, k + 1)
    BY <2>2, <2>3
  <2> HIDE DEF Fits
  <2> QED BY <2>4
<1>3. n \in T
  BY <1>1, <1>2, NatSet
<1> DEFINE it == CHOOSE f : Fits(f, n)
<1>4. Fits(it, n)
  BY <1>3
<1>5. Loop(a, b, c, base, seq) = it[1 .. n]
  BY DEF Loop, FoldLeft, MapThenFoldSet, Turn
<1> DEFINE h == [i \in 0 .. n |-> it[1 .. i]]
<1>6. h[0] = base
  <2>1. 1 .. 0 = {} /\ {} \in SUBSET (1 .. n)
    OBVIOUS
  <2>2. it[{}] = base
    BY <1>4, <2>1
  <2> QED BY <2>1, <2>2
<1>7. ASSUME NEW i \in 1 .. n PROVE h[i] = Turn(h[i - 1], i)
  <2>1. 1 .. i \in SUBSET (1 .. n) /\ 1 .. i # {}
    OBVIOUS
  <2>2. Max(1 .. i) = i
    BY MaxOfInterval
  <2>3. (1 .. i) \ {i} = 1 .. i - 1
    OBVIOUS
  <2>4. it[1 .. i] = Turn(it[(1 .. i) \ {Max(1 .. i)}], Max(1 .. i))
    BY <1>4, <2>1
  <2>5. it[1 .. i] = Turn(it[1 .. i - 1], i)
    BY <2>2, <2>3, <2>4
  <2> HIDE DEF it
  <2>6. i - 1 \in 0 .. n /\ i \in 0 .. n
    OBVIOUS
  <2>7. h[i] = it[1 .. i] /\ h[i - 1] = it[1 .. i - 1]
    BY <2>6
  <2> QED BY <2>5, <2>7
<1>8. h[n] = it[1 .. n]
  OBVIOUS
<1> HIDE DEF h, it
<1>9. Turns(h, a, b, c, base, n, seq)
  BY <1>5, <1>6, <1>7, <1>8 DEF Turn, Turns
<1> QED BY <1>9
===============================================================================
