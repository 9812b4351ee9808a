---------------------------- MODULE OperatorProofs ----------------------------
(***************************************************************************)
(* Lemmas about the operators that several modules are built from: what    *)
(* the operations of locking_strategy.cc keep of a lock record, and what   *)
(* the loops of Striping compute, for all sizes and ranges: they cut the   *)
(* range into pieces that lie where division puts them, and what is cut    *)
(* out of a sequence for the pieces is, joined, the range.                 *)
(***************************************************************************)
EXTENDS FileLock, Striping, Integers, SequenceTheorems, TLAPS

-------------------------------------------------------------------------------
(* Lock records *)

\* What every lock record satisfies between calls: its holders are of its
\* owner, and it is owned exactly when somebody can release it.
GoodLock(l) ==
    /\ l \in LockRecords
    /\ l.ex_proc # NoProc => UserOf[l.ex_proc] = l.owner
    /\ \A p \in l.sh_procs : UserOf[p] = l.owner
    /\ l.owner # NoUser => l.ex_proc # NoProc \/ l.sh_procs # {}

\* Default construction of a file_lock gives a good lock.
LEMMA NoLockGood == GoodLock(NoLock)
  BY UsersAssumption DEF GoodLock, NoLock, LockRecords

\* get_exclusive_lock, get_shared_lock and release_lock keep a lock good.
LEMMA OperationsGood ==
    ASSUME NEW p \in Procs, NEW l, GoodLock(l)
    PROVE  /\ CanGetExclusive(l, p) => GoodLock(GetExclusive(l, p))
           /\ CanGetShared(l, p) => GoodLock(GetShared(l, p))
           /\ CanRelease(l, p) => GoodLock(Release(l, p))
<1>1. /\ UserOf[p] \in Users /\ p # NoProc /\ UserOf[p] # NoUser
      /\ l \in LockRecords
  BY UsersAssumption DEF GoodLock
<1>2. ASSUME CanGetExclusive(l, p) PROVE GoodLock(GetExclusive(l, p))
  <2>1. l.sh_procs = {}
    BY <1>1, <1>2, UsersAssumption DEF GoodLock, CanGetExclusive, LockRecords
  <2> QED BY <1>1, <1>2, <2>1 DEF GoodLock, GetExclusive, LockRecords
<1>3. ASSUME CanGetShared(l, p) PROVE GoodLock(GetShared(l, p))
  <2>1. l.owner = NoUser => l.ex_proc = NoProc /\ l.sh_procs = {}
    BY <1>1, UsersAssumption DEF GoodLock, LockRecords
  <2> QED BY <1>1, <1>3, <2>1
          DEF GoodLock, GetShared, CanGetShared, LockRecords
<1>4. ASSUME CanRelease(l, p) PROVE GoodLock(Release(l, p))
  <2>1. CASE l.ex_proc = p \/ l.sh_procs = {p}
    BY <2>1, NoLockGood DEF Release
  <2>2. CASE ~(l.ex_proc = p \/ l.sh_procs = {p})
    <3>1. Release(l, p) = [l EXCEPT !.sh_procs = @ \ {p}]
      BY <2>2 DEF Release
    <3>2. p \in l.sh_procs /\ l.sh_procs \ {p} # {}
      BY <1>4, <2>2 DEF CanRelease
    <3> QED BY <1>1, <3>1, <3>2 DEF GoodLock, LockRecords
  <2> QED BY <2>1, <2>2
<1> QED BY <1>2, <1>3, <1>4

\* A file call of p leaves the locks that processes of other users have.
LEMMA StrangersKeep ==
    ASSUME NEW p \in Procs, NEW q \in Procs, NEW l, GoodLock(l),
           HasLock(l, q), UserOf[q] # UserOf[p]
    PROVE  ~CanGetExclusive(l, p) /\ ~CanGetShared(l, p) /\ ~CanRelease(l, p)
  BY UsersAssumption
  DEF HasLock, HasExclusive, HasShared, CanGetExclusive, CanGetShared,
      CanRelease

-------------------------------------------------------------------------------
(* The loop over the stripes of a request, of which LoopTurns says what it *)
(* computes.                                                               *)

StripeTurn(chunk, b, c, q, s) == q \o StripeSpans(chunk, s)

StripeLoop == INSTANCE FoldInduction WITH Op <- StripeTurn

-------------------------------------------------------------------------------
(* The unit a range begins in *)

\* u is the unit of w bytes that holds offset: a unit that ends there is
\* taken before the one that begins there.
Holds(u, w, offset) ==
    /\ u \in [id : Nat \ {0}, offset : 0 .. w]
    /\ (u.id - 1) * w + u.offset = offset
    /\ u.offset = 0 => offset = 0

LEMMA HoldsUnique ==
    ASSUME NEW w \in Nat, w # 0, NEW offset \in Nat, NEW u, NEW v,
           Holds(u, w, offset), Holds(v, w, offset)
    PROVE  u = v
<1> DEFINE i == u.id
           j == v.id
           r == u.offset
           s == v.offset
<1>1. /\ i \in Nat \ {0} /\ j \in Nat \ {0} /\ r \in 0 .. w /\ s \in 0 .. w
      /\ (i - 1) * w + r = offset /\ (j - 1) * w + s = offset
      /\ r = 0 => offset = 0
      /\ s = 0 => offset = 0
      /\ u = [id |-> i, offset |-> r] /\ v = [id |-> j, offset |-> s]
  BY DEF Holds
<1> HIDE DEF i, j, r, s
<1>2. ASSUME NEW a \in Nat \ {0}, NEW b \in Nat \ {0}, a < b,
             NEW x \in 0 .. w, NEW y \in 0 .. w,
             (a - 1) * w + x = offset, (b - 1) * w + y = offset,
             y = 0 => offset = 0
      PROVE  FALSE
  <2>1. (b - 1) * w >= a * w
    BY <1>2
  <2>2. a * w = (a - 1) * w + w
    BY <1>2
  <2>3. y = 0
    BY <1>2, <2>1, <2>2
  <2>4. a * w >= w
    BY <1>2
  <2> QED BY <1>2, <2>1, <2>3, <2>4
<1>3. ~(i < j) /\ ~(j < i)
  BY <1>1, <1>2
<1>4. i = j
  BY <1>1, <1>3
<1>5. r = s
  BY <1>1, <1>4
<1> QED BY <1>1, <1>4, <1>5

LEMMA HoldsExists ==
    ASSUME NEW w \in Nat, w # 0, NEW offset \in Nat
    PROVE  \E u : Holds(u, w, offset)
<1> DEFINE T == {n \in Nat : \E u : Holds(u, w, n)}
<1>1. 0 \in T
  <2>1. Holds([id |-> 1, offset |-> 0], w, 0)
    BY DEF Holds
  <2> QED BY <2>1
<1>2. ASSUME NEW n \in Nat, n \in T PROVE n + 1 \in T
  <2>1. PICK u : Holds(u, w, n)
    BY <1>2
  <2>2. CASE u.offset < w
    <3>1. Holds([id |-> u.id, offset |-> u.offset + 1], w, n + 1)
      BY <2>1, <2>2 DEF Holds
    <3> QED BY <3>1
  <2>3. CASE u.offset = w
    <3>1. u.id \in Nat \ {0} /\ (u.id - 1) * w + w = n
      BY <2>1, <2>3 DEF Holds
    <3>2. u.id * w + 1 = n + 1
      BY <3>1
    <3>3. Holds([id |-> u.id + 1, offset |-> 1], w, n + 1)
      BY <3>1, <3>2 DEF Holds
    <3> QED BY <3>3
  <2> QED BY <2>1, <2>2, <2>3 DEF Holds
<1> HIDE DEF T
<1>3. offset \in T
  BY <1>1, <1>2, StripeLoop!NatSet
<1> QED BY <1>3 DEF T

LEMMA NextHolds ==
    ASSUME NEW w \in Nat, w # 0, NEW o \in Nat, o > w, NEW u, Holds(u, w, o - w)
    PROVE  (u.id + 1 - 1) * w + u.offset = o /\ u.offset # 0
<1> DEFINE i == u.id
           r == u.offset
           before == (i - 1) * w
<1>1. i \in Nat \ {0} /\ r \in Nat /\ before + r = o - w /\ (r = 0 => o - w = 0)
  BY DEF Holds
<1>2. before \in Int /\ (i + 1 - 1) * w = before + w
  BY <1>1
<1> HIDE DEF i, r, before
<1>3. r # 0 /\ before + w + r = o
  BY <1>1, <1>2
<1> QED BY <1>2, <1>3 DEF i, r

\* The loop of get_first_stripe and get_first_chunk finds that unit.
LEMMA FirstUnitHolds ==
    ASSUME NEW w \in Nat, w # 0, NEW offset \in Nat
    PROVE  Holds(FirstUnit(w, offset), w, offset)
<1> DEFINE Turn(at, o) == IF o > w THEN [at[o - w] EXCEPT !.id = @ + 1]
                          ELSE [id |-> 1, offset |-> o]
           Fits(at) == at = [o \in Nat |-> Turn(at, o)]
           found == [o \in Nat |-> CHOOSE u : Holds(u, w, o)]
<1>1. ASSUME NEW o \in Nat PROVE Holds(found[o], w, o)
  BY HoldsExists
<1>2. Fits(found)
  <2> SUFFICES ASSUME NEW o \in Nat PROVE found[o] = Turn(found, o)
    <3> HIDE DEF Turn
    <3>1. found = [o \in Nat |-> found[o]]
      OBVIOUS
    <3> HIDE DEF found
    <3> QED BY <3>1
  <2>1. CASE o <= w
    <3>1. Holds([id |-> 1, offset |-> o], w, o)
      BY <2>1 DEF Holds
    <3> QED BY <1>1, <2>1, <3>1, HoldsUnique
  <2>2. CASE o > w
    <3> DEFINE u == found[o - w]
    <3>1. o - w \in Nat /\ Holds(u, w, o - w)
      BY <1>1, <2>2
    <3> HIDE DEF u
    <3>2. (u.id + 1 - 1) * w + u.offset = o /\ u.offset # 0
      BY <2>2, <3>1, NextHolds
    <3>3. Holds([u EXCEPT !.id = @ + 1], w, o)
      BY <3>1, <3>2 DEF Holds
    <3>4. found[o] = [u EXCEPT !.id = @ + 1]
      BY <1>1, <3>3, HoldsUnique
    <3> QED BY <2>2, <3>4 DEF u
  <2> QED BY <2>1, <2>2
<1> DEFINE at == CHOOSE f : Fits(f)
<1>3. Fits(at)
  BY <1>2
<1>4. FirstUnit(w, offset) = at[offset]
  BY DEF FirstUnit
<1> HIDE DEF at
<1> DEFINE T == {n \in Nat : \A o \in 0 .. n : Holds(at[o], w, o)}
<1>5. ASSUME NEW o \in Nat, o <= w PROVE Holds(at[o], w, o)
  <2>1. at[o] = [id |-> 1, offset |-> o]
    BY <1>3, <1>5
  <2> QED BY <1>5, <2>1 DEF Holds
<1>6. ASSUME NEW o \in Nat, o > w, Holds(at[o - w], w, o - w)
      PROVE  Holds(at[o], w, o)
  <2> DEFINE u == at[o - w]
  <2>1. at[o] = [u EXCEPT !.id = @ + 1]
    BY <1>3, <1>6
  <2> HIDE DEF u
  <2>2. o - w \in Nat /\ Holds(u, w, o - w)
    BY <1>6 DEF u
  <2>3. (u.id + 1 - 1) * w + u.offset = o /\ u.offset # 0
    BY <1>6, <2>2, NextHolds
  <2> QED BY <2>1, <2>2, <2>3 DEF Holds
<1> HIDE DEF Fits
<1>7. 0 \in T
  BY <1>5
<1>8. ASSUME NEW n \in Nat, n \in T PROVE n + 1 \in T
  <2>1. Holds(at[n + 1], w, n + 1)
    <3>1. CASE n + 1 <= w
      BY <1>5, <3>1
    <3>2. CASE n + 1 > w
      <4>1. n + 1 - w \in 0 .. n
        BY <3>2
      <4>2. Holds(at[n + 1 - w], w, n + 1 - w)
        BY <1>8, <4>1
      <4> QED BY <1>6, <3>2, <4>2
    <3> QED BY <3>1, <3>2
  <2> QED BY <1>8, <2>1
<1>9. offset \in T
  BY <1>7, <1>8, StripeLoop!NatSet
<1> QED BY <1>4, <1>9

-------------------------------------------------------------------------------
(* The pieces of a range *)

\* The pieces q cover the positions of a request from `from' to `to', one
\* after the other.
Tiles(q, from, to) ==
    /\ q = <<>> => from = to
    /\ q # <<>> => q[1].from = from /\ q[Len(q)].from + q[Len(q)].count = to
    /\ \A i \in 1 .. Len(q) - 1 : q[i + 1].from = q[i].from + q[i].count

LEMMA TilesConcat ==
    ASSUME NEW S, NEW q \in Seq(S), NEW r \in Seq(S), NEW a, NEW b, NEW c,
           Tiles(q, a, b), Tiles(r, b, c)
    PROVE  Tiles(q \o r, a, c)
<1>1. CASE q = <<>>
  <2>1. q \o r = r /\ a = b
    BY <1>1 DEF Tiles
  <2> QED BY <2>1
<1>2. CASE r = <<>>
  <2>1. q \o r = q /\ b = c
    BY <1>2 DEF Tiles
  <2> QED BY <2>1
<1>3. CASE q # <<>> /\ r # <<>>
  <2> DEFINE m == Len(q)
             n == Len(r)
             t == q \o r
  <2>1. m \in Nat \ {0} /\ n \in Nat \ {0}
    BY <1>3
  <2>2. /\ Len(t) = m + n
        /\ \A i \in 1 .. m : t[i] = q[i]
        /\ \A i \in m + 1 .. m + n : t[i] = r[i - m]
    OBVIOUS
  <2>3. /\ q[1].from = a /\ q[m].from + q[m].count = b
        /\ r[1].from = b /\ r[n].from + r[n].count = c
        /\ \A i \in 1 .. m - 1 : q[i + 1].from = q[i].from + q[i].count
        /\ \A i \in 1 .. n - 1 : r[i + 1].from = r[i].from + r[i].count
    BY <1>3 DEF Tiles
  <2>4. t # <<>>
    BY <1>3
  <2> HIDE DEF m, n, t
  <2>5. t[1] = q[1] /\ t[m] = q[m] /\ t[m + 1] = r[1] /\ t[m + n] = r[n]
    BY <2>1, <2>2
  <2>6. ASSUME NEW i \in 1 .. m + n - 1
        PROVE  t[i + 1].from = t[i].from + t[i].count
    <3>1. CASE i < m
      <4>1. i \in 1 .. m - 1 /\ t[i] = q[i] /\ t[i + 1] = q[i + 1]
        BY <2>1, <2>2, <3>1
      <4> QED BY <2>3, <4>1
    <3>2. CASE i = m
      BY <2>3, <2>5, <3>2
    <3>3. CASE i > m
      <4>1. i - m \in 1 .. n - 1 /\ t[i] = r[i - m] /\ t[i + 1] = r[i + 1 - m]
            /\ i + 1 - m = (i - m) + 1
        BY <2>1, <2>2, <3>3
      <4> QED BY <2>3, <4>1
    <3> QED BY <2>1, <3>1, <3>2, <3>3
  <2>7. t[1].from = a /\ t[Len(t)].from + t[Len(t)].count = c
    BY <2>2, <2>3, <2>5
  <2>8. \A i \in 1 .. Len(t) - 1 : t[i + 1].from = t[i].from + t[i].count
    <3>1. 1 .. Len(t) - 1 = 1 .. m + n - 1
      BY <2>1, <2>2
    <3> QED BY <2>6, <3>1
  <2>9. Tiles(t, a, c)
    BY <2>4, <2>7, <2>8 DEF Tiles
  <2> QED BY <2>9 DEF t
<1> QED BY <1>1, <1>2, <1>3

\* A piece of a range at o: it lies in its unit, at its position.
GoodPieces(w, o, total) ==
    {x \in [id : Nat \ {0}, offset : Nat, count : Nat, from : Nat] :
        /\ (x.id - 1) * w + x.offset = o + x.from
        /\ x.offset + x.count \in 1 .. w
        /\ x.from + x.count <= total}

\* A run of such pieces, from unit `first' and position `from' to the end.
Run(q, w, o, total, first, from) ==
    /\ q \in Seq({x \in GoodPieces(w, o, total) : x.id >= first})
    /\ Tiles(q, from, total)
    /\ \A i, j \in DOMAIN q : i < j => q[i].id < q[j].id

LEMMA RunExtends ==
    ASSUME NEW w, NEW o, NEW total, NEW x \in GoodPieces(w, o, total),
           NEW r, Run(r, w, o, total, x.id + 1, x.from + x.count)
    PROVE  Run(<<x>> \o r, w, o, total, x.id, x.from)
<1> DEFINE S == {y \in GoodPieces(w, o, total) : y.id >= x.id}
           R == {y \in GoodPieces(w, o, total) : y.id >= x.id + 1}
           t == <<x>> \o r
<1>1. x.id \in Nat /\ \A y \in R : y.id \in Nat
  BY DEF GoodPieces
<1>2. R \subseteq S /\ x \in S /\ r \in Seq(R)
  BY <1>1 DEF Run, GoodPieces
<1> HIDE DEF S, R
<1>3. r \in Seq(S) /\ <<x>> \in Seq(S)
  BY <1>2
<1>4. Tiles(<<x>>, x.from, x.from + x.count)
  BY DEF Tiles
<1>5. Tiles(t, x.from, total)
  BY <1>3, <1>4, TilesConcat DEF Run
<1>6. t \in Seq(S) /\ Len(t) = Len(r) + 1 /\ t[1] = x
      /\ \A i \in 2 .. Len(r) + 1 : t[i] = r[i - 1] /\ i - 1 \in DOMAIN r
  BY <1>3
<1> HIDE DEF t
<1>7. ASSUME NEW i \in DOMAIN t, NEW j \in DOMAIN t, i < j
      PROVE  t[i].id < t[j].id
  <2>0. Len(r) \in Nat /\ i \in 1 .. Len(r) + 1 /\ j \in 2 .. Len(r) + 1
    BY <1>2, <1>6, <1>7
  <2>1. t[j] = r[j - 1] /\ j - 1 \in DOMAIN r /\ t[j] \in R
    BY <1>2, <1>6, <2>0
  <2>2. CASE i = 1
    BY <1>1, <1>6, <2>1, <2>2 DEF R
  <2>3. CASE i # 1
    <3>1. t[i] = r[i - 1] /\ i - 1 \in DOMAIN r /\ i - 1 < j - 1
      BY <1>6, <1>7, <2>0, <2>3
    <3> QED BY <2>1, <3>1 DEF Run
  <2> QED BY <2>2, <2>3
<1> QED BY <1>5, <1>6, <1>7 DEF Run, S, t

\* The states of the loop that cuts a range into pieces: unit, offset in it,
\* bytes done.
States(w, total) == Nat \X (0 .. w) \X (0 .. total)

\* The bytes a turn takes, and the state it leaves.
TakenBy(w, total, p) == LET left == w - p[2]
                      IN  IF total - p[3] > left THEN left ELSE total - p[3]

After(w, total, p) == <<p[1] + 1, 0, p[3] + TakenBy(w, total, p)>>

\* What a turn brings nearer to its end, an empty turn included.
ToGo(w, total, p) == 2 * (total - p[3]) + IF p[2] = w THEN 1 ELSE 0

LEMMA TurnsEnd ==
    ASSUME NEW w \in Nat, w # 0, NEW total \in Nat,
           NEW p \in States(w, total), p[3] < total
    PROVE  /\ TakenBy(w, total, p) \in Nat
           /\ p[2] + TakenBy(w, total, p) <= w
           /\ After(w, total, p) \in States(w, total)
           /\ ToGo(w, total, After(w, total, p)) < ToGo(w, total, p)
           /\ ToGo(w, total, After(w, total, p)) \in Nat
<1> DEFINE n == TakenBy(w, total, p)
<1>1. p[1] \in Nat /\ p[2] \in 0 .. w /\ p[3] \in 0 .. total
  BY DEF States
<1>2. /\ n \in Nat /\ p[2] + n <= w /\ p[3] + n <= total
      /\ p[2] # w => n > 0
  BY <1>1 DEF TakenBy
<1> HIDE DEF n
<1>3. <<p[1] + 1, 0, p[3] + n>> \in States(w, total)
  BY <1>1, <1>2 DEF States
<1>4. ToGo(w, total, <<p[1] + 1, 0, p[3] + n>>) = 2 * (total - (p[3] + n))
  BY <1>1, <1>2 DEF ToGo
<1>5. 2 * (total - (p[3] + n)) < ToGo(w, total, p) /\ 2 * (total - (p[3] + n)) \in Nat
  <2>1. CASE p[2] = w
    BY <1>1, <1>2, <2>1 DEF ToGo
  <2>2. CASE p[2] # w
    BY <1>1, <1>2, <2>2 DEF ToGo
  <2> QED BY <2>1, <2>2
<1> QED BY <1>2, <1>3, <1>4, <1>5 DEF After, n

\* A turn, given what the following turns bring.
Turn(w, total, f, p) ==
    IF p[3] >= total THEN <<>>
    ELSE <<[id |-> p[1], offset |-> p[2], count |-> TakenBy(w, total, p),
            from |-> p[3]]>> \o f[After(w, total, p)]

\* There is a function that does all turns.
LEMMA WalkExists ==
    ASSUME NEW w \in Nat, w # 0, NEW total \in Nat
    PROVE  \E f : f = [p \in States(w, total) |-> Turn(w, total, f, p)]
<1> DEFINE D(k) == {p \in States(w, total) : ToGo(w, total, p) <= k}
           Fits(f, k) == f = [p \in D(k) |-> Turn(w, total, f, p)]
           T == {k \in Nat : \E f : Fits(f, k)}
<1>1. ASSUME NEW p \in States(w, total)
      PROVE  ToGo(w, total, p) \in Nat /\ ToGo(w, total, p) <= 2 * total + 1
             /\ p[3] \in Nat /\ (ToGo(w, total, p) = 0 => p[3] >= total)
  BY DEF States, ToGo
<1>2. ASSUME NEW f, NEW g, NEW p \in States(w, total),
             p[3] < total => f[After(w, total, p)] = g[After(w, total, p)]
      PROVE  Turn(w, total, f, p) = Turn(w, total, g, p)
  BY <1>1, <1>2 DEF Turn
<1>3. 0 \in T
  <2> DEFINE f == [p \in D(0) |-> <<>>]
  <2>1. ASSUME NEW p \in D(0) PROVE f[p] = Turn(w, total, f, p)
    BY <1>1 DEF Turn
  <2>2. f = [p \in D(0) |-> f[p]]
    OBVIOUS
  <2> HIDE DEF f
  <2>3. Fits(f, 0)
    BY <2>1, <2>2
  <2> QED BY <2>3
<1>4. ASSUME NEW k \in Nat, k \in T PROVE k + 1 \in T
  <2>1. PICK f : Fits(f, k)
    BY <1>4
  <2> DEFINE g == [p \in D(k + 1) |-> IF p \in D(k) THEN f[p] ELSE Turn(w, total, f, p)]
  <2>2. ASSUME NEW p \in D(k + 1) PROVE g[p] = Turn(w, total, g, p)
    <3>1. g[p] = Turn(w, total, f, p)
      BY <2>1
    <3>2. ASSUME p[3] < total
          PROVE  f[After(w, total, p)] = g[After(w, total, p)]
      <4>1. /\ After(w, total, p) \in States(w, total)
            /\ ToGo(w, total, After(w, total, p)) \in Nat
            /\ ToGo(w, total, After(w, total, p)) < ToGo(w, total, p)
        BY <3>2, TurnsEnd
      <4>2. After(w, total, p) \in D(k) /\ After(w, total, p) \in D(k + 1)
        BY <1>1, <4>1
      <4> QED BY <4>2
    <3> HIDE DEF g
    <3> QED BY <1>2, <3>1, <3>2
  <2>3. g = [p \in D(k + 1) |-> g[p]]
    OBVIOUS
  <2> HIDE DEF g, D
  <2>4. Fits(g, k + 1)
    BY <2>2, <2>3
  <2> QED BY <2>4
<1>5. 2 * total + 1 \in T
  <2> HIDE DEF T
  <2> QED BY <1>3, <1>4, StripeLoop!NatSet
<1>6. D(2 * total + 1) = States(w, total)
  BY <1>1
<1> HIDE DEF D
<1> QED BY <1>5, <1>6

\* The loop cuts a range into a run of pieces.
LEMMA PiecesRun ==
    ASSUME NEW w \in Nat, w # 0, NEW o \in Nat, NEW total \in Nat
    PROVE  \E first \in Nat : Run(Pieces(w, o, total), w, o, total, first, 0)
<1> DEFINE Fits(f) == f = [p \in States(w, total) |-> Turn(w, total, f, p)]
           walk == CHOOSE f : Fits(f)
           unit == FirstUnit(w, o)
           start == <<unit.id, unit.offset, 0>>
<1>1. Pieces(w, o, total) = walk[start]
  BY DEF Pieces, States, Turn, TakenBy, After
<1>2. Fits(walk)
  <2>1. \E f : Fits(f)
    BY WalkExists
  <2> HIDE DEF Fits
  <2> QED BY <2>1
<1> HIDE DEF walk
<1>3. ASSUME NEW p \in States(w, total) PROVE walk[p] = Turn(w, total, walk, p)
  BY <1>2
<1> HIDE DEF Fits
\* Where the loop is when bytes are left.
<1> DEFINE At(p) == p[1] \in Nat \ {0} /\ (p[3] < total => (p[1] - 1) * w + p[2] = o + p[3])
           Good(p) == At(p) => Run(walk[p], w, o, total, p[1], p[3])
           T == {k \in Nat : \A p \in States(w, total) : ToGo(w, total, p) < k => Good(p)}
<1>4. ASSUME NEW p \in States(w, total), p[3] >= total PROVE Good(p)
  <2>1. walk[p] = <<>> /\ p[3] = total
    <3>1. walk[p] = Turn(w, total, walk, p)
      BY <1>3
    <3>2. p[3] = total
      BY <1>4 DEF States
    <3> QED BY <1>4, <3>1, <3>2 DEF Turn
  <2> QED BY <2>1 DEF Run, Tiles
<1>5. ASSUME NEW p \in States(w, total), p[3] < total, Good(After(w, total, p))
      PROVE  Good(p)
  <2> SUFFICES ASSUME At(p) PROVE Run(walk[p], w, o, total, p[1], p[3])
    OBVIOUS
  <2> DEFINE n == TakenBy(w, total, p)
             x == [id |-> p[1], offset |-> p[2], count |-> n, from |-> p[3]]
             q == After(w, total, p)
  <2>1. p[1] \in Nat \ {0} /\ p[2] \in 0 .. w /\ p[3] \in 0 .. total
    BY DEF States
  <2>2. n \in Nat /\ p[2] + n \in 1 .. w /\ p[3] + n <= total
        /\ (p[3] + n < total => p[2] + n = w)
    BY <1>5, <2>1 DEF TakenBy
  <2>3. q[1] = p[1] + 1 /\ q[2] = 0 /\ q[3] = p[3] + n
    BY DEF After
  <2>4. walk[p] = <<x>> \o walk[q]
    <3>1. walk[p] = Turn(w, total, walk, p) /\ ~(p[3] >= total)
      BY <1>3, <1>5, <2>1
    <3> QED BY <3>1 DEF Turn
  <2> HIDE DEF n, q
  <2>5. x \in GoodPieces(w, o, total)
    BY <1>5, <2>1, <2>2 DEF GoodPieces
  <2>6. At(q)
    <3>1. (p[1] + 1 - 1) * w = (p[1] - 1) * w + w
      BY <2>1
    <3>2. ASSUME p[3] + n < total PROVE (p[1] + 1 - 1) * w + 0 = o + (p[3] + n)
      <4>1. (p[1] - 1) * w \in Int /\ (p[1] - 1) * w + p[2] = o + p[3]
        BY <1>5, <2>1
      <4> QED BY <2>1, <2>2, <3>1, <3>2, <4>1
    <3> QED BY <2>1, <2>3, <3>2
  <2>7. Run(walk[q], w, o, total, x.id + 1, x.from + x.count)
    BY <1>5, <2>3, <2>6 DEF q
  <2> QED BY <2>4, <2>5, <2>7, RunExtends
<1> HIDE DEF Good
<1>6. 0 \in T
  BY DEF States, ToGo
<1>7. ASSUME NEW k \in Nat, k \in T PROVE k + 1 \in T
  <2>1. ASSUME NEW p \in States(w, total), ToGo(w, total, p) < k + 1 PROVE Good(p)
    <3>1. CASE p[3] >= total
      BY <1>4, <3>1
    <3>2. CASE p[3] < total
      <4>1. /\ After(w, total, p) \in States(w, total)
            /\ ToGo(w, total, After(w, total, p)) \in Nat
            /\ ToGo(w, total, After(w, total, p)) < ToGo(w, total, p)
        BY <3>2, TurnsEnd
      <4>2. ToGo(w, total, p) \in Int
        BY DEF States, ToGo
      <4>3. ToGo(w, total, After(w, total, p)) < k
        BY <2>1, <4>1, <4>2
      <4> QED BY <1>5, <1>7, <3>2, <4>1, <4>3
    <3> QED BY <3>1, <3>2 DEF States
  <2> QED BY <2>1
<1> DEFINE u == unit.id
           v == unit.offset
<1>8. u \in Nat \ {0} /\ v \in 0 .. w /\ (u - 1) * w + v = o
  BY FirstUnitHolds DEF Holds
<1> HIDE DEF T, unit
<1>9. start \in States(w, total) /\ At(start)
  <2> HIDE DEF u, v
  <2>1. <<u, v, 0>> \in States(w, total) /\ At(<<u, v, 0>>)
    BY <1>8 DEF States
  <2> QED BY <2>1 DEF u, v
<1>10. Good(start)
  <2>1. ToGo(w, total, start) \in Nat
    BY <1>9 DEF States, ToGo
  <2>2. ToGo(w, total, start) + 1 \in T
    BY <1>6, <1>7, <2>1, StripeLoop!NatSet
  <2> QED BY <1>9, <2>1, <2>2 DEF T
<1>11. Run(walk[start], w, o, total, u, 0)
  BY <1>9, <1>10 DEF Good
<1> QED BY <1>1, <1>8, <1>11

-------------------------------------------------------------------------------
(* The pieces of the chunks *)

\* A piece of a chunk of a stripe, of a range at o: it lies in its chunk and in
\* its stripe, at its position.
GoodSpans(S, C, o, total) ==
    {x \in [stripe : Nat \ {0}, chunk : Nat \ {0}, offset : Nat, count : Nat,
            from : Nat] :
        /\ (x.stripe - 1) * S + (x.chunk - 1) * C + x.offset = o + x.from
        /\ x.offset + x.count \in 1 .. C
        /\ (x.chunk - 1) * C + x.offset + x.count <= S
        /\ x.from + x.count <= total}

SpansOf(id, S, C, o, total) == {x \in GoodSpans(S, C, o, total) : x.stripe = id}

KeysRise(q) ==
    \A i, j \in DOMAIN q : i < j =>
        \/ q[i].stripe < q[j].stripe
        \/ q[i].stripe = q[j].stripe /\ q[i].chunk < q[j].chunk

LEMMA StripeSpansRun ==
    ASSUME NEW S \in Nat, NEW C \in Nat, C # 0, NEW o \in Nat, NEW total \in Nat,
           NEW s \in GoodPieces(S, o, total)
    PROVE  /\ StripeSpans(C, s) \in Seq(SpansOf(s.id, S, C, o, total))
           /\ Tiles(StripeSpans(C, s), s.from, s.from + s.count)
           /\ KeysRise(StripeSpans(C, s))
<1> DEFINE chunks == Pieces(C, s.offset, s.count)
           n == Len(chunks)
           Piece(i) == [stripe |-> s.id, chunk |-> chunks[i].id,
                        offset |-> chunks[i].offset, count |-> chunks[i].count,
                        from |-> s.from + chunks[i].from]
           q == [i \in 1 .. n |-> Piece(i)]
           P == GoodPieces(C, s.offset, s.count)
           G == SpansOf(s.id, S, C, o, total)
<1>1. s.id \in Nat \ {0} /\ s.offset \in Nat /\ s.count \in Nat /\ s.from \in Nat
  BY DEF GoodPieces
<1> DEFINE a == (s.id - 1) * S
<1>0. a \in Int /\ a + s.offset = o + s.from /\ s.offset + s.count <= S
      /\ s.from + s.count <= total
  <2>1. a \in Int
    BY <1>1
  <2> QED BY <2>1 DEF GoodPieces
<1> HIDE DEF a
<1>2. PICK first \in Nat : Run(chunks, C, s.offset, s.count, first, 0)
  BY <1>1, PiecesRun
<1>3. /\ chunks \in Seq(P)
      /\ Tiles(chunks, 0, s.count)
      /\ \A i, j \in DOMAIN chunks : i < j => chunks[i].id < chunks[j].id
  <2>1. chunks \in Seq({x \in P : x.id >= first})
    BY <1>2 DEF Run
  <2> HIDE DEF P, chunks
  <2>2. chunks \in Seq(P)
    BY <2>1
  <2> QED BY <1>2, <2>2 DEF Run
<1> HIDE DEF chunks, P
<1>4. n \in Nat /\ DOMAIN chunks = 1 .. n
  BY <1>3
<1>5. StripeSpans(C, s) = q
  BY <1>4 DEF StripeSpans, chunks
<1>6. ASSUME NEW i \in 1 .. n PROVE Piece(i) \in G
  <2> DEFINE x == chunks[i]
  <2>1. x \in P
    BY <1>3, <1>4
  <2> HIDE DEF x
  <2>2. x.id \in Nat \ {0} /\ x.offset \in Nat /\ x.count \in Nat /\ x.from \in Nat
    BY <2>1 DEF P, GoodPieces
  <2> DEFINE b == (x.id - 1) * C
  <2>3. b \in Int
    BY <2>2
  <2>4. b + x.offset = s.offset + x.from /\ x.offset + x.count \in 1 .. C
        /\ x.from + x.count <= s.count
    BY <2>1 DEF P, GoodPieces
  <2> HIDE DEF b
  <2>5. a + b + x.offset = o + (s.from + x.from) /\ b + x.offset + x.count <= S
        /\ (s.from + x.from) + x.count <= total
    <3> DEFINE so == s.offset
               sf == s.from
               sc == s.count
               xo == x.offset
               xf == x.from
               xc == x.count
    <3>1. /\ so \in Nat /\ sf \in Nat /\ sc \in Nat
          /\ xo \in Nat /\ xf \in Nat /\ xc \in Nat
          /\ a + so = o + sf /\ so + sc <= S /\ sf + sc <= total
          /\ b + xo = so + xf /\ xf + xc <= sc
      BY <1>1, <1>0, <2>2, <2>4
    <3> HIDE DEF so, sf, sc, xo, xf, xc
    <3>2. a + b + xo = o + (sf + xf) /\ b + xo + xc <= S /\ (sf + xf) + xc <= total
      BY <1>0, <2>3, <3>1
    <3> QED BY <3>2 DEF so, sf, sc, xo, xf, xc
  <2>6. Piece(i) = [stripe |-> s.id, chunk |-> x.id, offset |-> x.offset,
                    count |-> x.count, from |-> s.from + x.from]
    BY DEF x
  <2> DEFINE y == Piece(i)
  <2>7. y = [y EXCEPT !.stripe = s.id] /\ y.stripe = s.id /\ y.chunk = x.id
        /\ y.offset = x.offset /\ y.count = x.count /\ y.from = s.from + x.from
    BY <2>6
  <2>8. y \in [stripe : Nat \ {0}, chunk : Nat \ {0}, offset : Nat, count : Nat,
               from : Nat]
    <3> DEFINE f == s.from + x.from
    <3>1. f \in Nat /\ s.id \in Nat \ {0}
      BY <1>1, <2>2
    <3>2. y = [stripe |-> s.id, chunk |-> x.id, offset |-> x.offset,
               count |-> x.count, from |-> f]
      BY <2>6
    <3> HIDE DEF y, f
    <3> QED BY <2>2, <3>1, <3>2
  <2> HIDE DEF y
  <2>9. y \in G
    BY <2>4, <2>5, <2>7, <2>8 DEF GoodSpans, SpansOf, a, b
  <2> QED BY <2>9 DEF y
<1>7. q \in Seq(G) /\ Len(q) = n /\ DOMAIN q = 1 .. n
  <2> HIDE DEF Piece, G, n
  <2>1. q \in [1 .. n -> G]
    BY <1>6
  <2> QED BY <1>4, <2>1
<1>8. Tiles(q, s.from, s.from + s.count)
  <2>1. ASSUME NEW i \in 1 .. n
        PROVE  /\ q[i].from = s.from + chunks[i].from /\ q[i].count = chunks[i].count
               /\ chunks[i].from \in Nat /\ chunks[i].count \in Nat
    <3>1. chunks[i] \in P
      BY <1>3, <1>4
    <3> QED BY <3>1 DEF P, GoodPieces
  <2>2. (q = <<>>) = (n = 0) /\ (chunks = <<>>) = (n = 0)
    BY <1>3, <1>7
  <2> HIDE DEF q
  <2>3. CASE n = 0
    <3>1. s.count = 0
      BY <1>3, <2>2, <2>3 DEF Tiles
    <3>2. s.from = s.from + s.count
      BY <1>1, <3>1
    <3> QED BY <1>7, <2>2, <2>3, <3>2 DEF Tiles
  <2>4. CASE n # 0
    <3>1. /\ chunks[1].from = 0 /\ chunks[n].from + chunks[n].count = s.count
          /\ \A i \in 1 .. n - 1 : chunks[i + 1].from = chunks[i].from + chunks[i].count
      BY <1>3, <2>2, <2>4 DEF Tiles
    <3> HIDE DEF n
    <3>2. q[1].from = s.from
      BY <1>1, <1>4, <2>1, <2>4, <3>1
    <3>3. q[n].from + q[n].count = s.from + s.count
      <4>1. n \in 1 .. n
        BY <1>4, <2>4
      <4> QED BY <1>1, <2>1, <3>1, <4>1
    <3>4. ASSUME NEW i \in 1 .. n - 1 PROVE q[i + 1].from = q[i].from + q[i].count
      <4>1. i \in 1 .. n /\ i + 1 \in 1 .. n
        BY <1>4
      <4> QED BY <1>1, <2>1, <3>1, <4>1
    <3> QED BY <1>7, <2>2, <2>4, <3>2, <3>3, <3>4 DEF Tiles
  <2> QED BY <2>3, <2>4
<1>9. KeysRise(q)
  <2>1. ASSUME NEW i \in 1 .. n, NEW j \in 1 .. n, i < j
        PROVE  q[i].stripe = q[j].stripe /\ q[i].chunk < q[j].chunk
    BY <1>3, <1>4, <2>1
  <2> QED BY <1>7, <2>1 DEF KeysRise
<1> QED BY <1>5, <1>7, <1>8, <1>9

LEMMA KeysRiseConcat ==
    ASSUME NEW A, NEW B, NEW q \in Seq(A), NEW r \in Seq(B), KeysRise(q), KeysRise(r),
           \A x \in A, y \in B : x.stripe < y.stripe
    PROVE  KeysRise(q \o r)
<1> DEFINE t == q \o r
           m == Len(q)
           n == Len(r)
<1>1. /\ m \in Nat /\ n \in Nat /\ DOMAIN q = 1 .. m /\ DOMAIN r = 1 .. n
      /\ DOMAIN t = 1 .. m + n
      /\ \A i \in 1 .. m : t[i] = q[i] /\ q[i] \in A
      /\ \A i \in m + 1 .. m + n : t[i] = r[i - m] /\ r[i - m] \in B /\ i - m \in 1 .. n
  OBVIOUS
<1> HIDE DEF t, m, n
<1>2. ASSUME NEW i \in 1 .. m + n, NEW j \in 1 .. m + n, i < j
      PROVE  \/ t[i].stripe < t[j].stripe
             \/ t[i].stripe = t[j].stripe /\ t[i].chunk < t[j].chunk
  <2>1. CASE j <= m
    <3>1. i \in 1 .. m /\ j \in 1 .. m
      BY <1>1, <1>2, <2>1
    <3> QED BY <1>1, <1>2, <3>1 DEF KeysRise
  <2>2. CASE i <= m /\ j > m
    <3>1. i \in 1 .. m /\ j \in m + 1 .. m + n
      BY <1>1, <2>2
    <3> QED BY <1>1, <3>1
  <2>3. CASE i > m
    <3>1. i \in m + 1 .. m + n /\ j \in m + 1 .. m + n /\ i - m < j - m
      BY <1>1, <1>2, <2>3
    <3> QED BY <1>1, <3>1 DEF KeysRise
  <2> QED BY <1>1, <2>1, <2>2, <2>3
<1>3. KeysRise(t)
  BY <1>1, <1>2 DEF KeysRise
<1> QED BY <1>3 DEF t

\* What read_file and write_file send for a range.
LEMMA SpansRun ==
    ASSUME NEW S \in Nat, S # 0, NEW C \in Nat, C # 0, NEW o \in Nat, NEW total \in Nat
    PROVE  /\ Spans(S, C, o, total) \in Seq(GoodSpans(S, C, o, total))
           /\ Tiles(Spans(S, C, o, total), 0, total)
           /\ KeysRise(Spans(S, C, o, total))
<1> DEFINE stripes == Pieces(S, o, total)
           P == GoodPieces(S, o, total)
           G == GoodSpans(S, C, o, total)
           n == Len(stripes)
<1>1. /\ stripes \in Seq(P)
      /\ Tiles(stripes, 0, total)
      /\ \A i, j \in DOMAIN stripes : i < j => stripes[i].id < stripes[j].id
  <2>1. PICK first \in Nat : Run(stripes, S, o, total, first, 0)
    BY PiecesRun
  <2>2. stripes \in Seq({x \in P : x.id >= first})
    BY <2>1 DEF Run
  <2> HIDE DEF P, stripes
  <2>3. stripes \in Seq(P)
    BY <2>2
  <2> QED BY <2>1, <2>3 DEF Run
<1>2. Spans(S, C, o, total) = StripeLoop!Loop(C, 0, 0, <<>>, stripes)
  BY DEF Spans, StripeLoop!Loop, StripeTurn, FoldLeft, StripeLoop!FoldLeft,
     MapThenFoldSet, StripeLoop!MapThenFoldSet, Max, StripeLoop!Max
<1> HIDE DEF stripes, P, G
<1>3. n \in Nat /\ DOMAIN stripes = 1 .. n
  BY <1>1
<1> HIDE DEF n
<1>4. PICK h : StripeLoop!Turns(h, C, 0, 0, <<>>, n, stripes)
  BY <1>3, StripeLoop!LoopTurns
<1>5. /\ h[0] = <<>>
      /\ \A i \in 1 .. n : h[i] = StripeTurn(C, 0, 0, h[i - 1], stripes[i])
      /\ h[n] = Spans(S, C, o, total)
  BY <1>2, <1>4 DEF StripeLoop!Turns
<1> DEFINE UpTo(k) == {x \in G : \E i \in 1 .. k : x.stripe = stripes[i].id}
           To(k) == IF k = 0 THEN 0 ELSE stripes[k].from + stripes[k].count
           Done(k) == h[k] \in Seq(UpTo(k)) /\ Tiles(h[k], 0, To(k)) /\ KeysRise(h[k])
           T == {k \in Nat : k <= n => Done(k)}
<1>6. 0 \in T
  <2>1. Tiles(<<>>, 0, 0) /\ KeysRise(<<>>)
    BY DEF Tiles, KeysRise
  <2>2. h[0] \in Seq(UpTo(0)) /\ To(0) = 0
    <3> HIDE DEF UpTo
    <3> QED BY <1>5
  <2> HIDE DEF UpTo, To
  <2> QED BY <1>5, <2>1, <2>2
<1>7. ASSUME NEW k \in Nat, k \in T PROVE k + 1 \in T
  <2> SUFFICES ASSUME k + 1 <= n PROVE Done(k + 1)
    OBVIOUS
  <2> DEFINE s == stripes[k + 1]
             r == StripeSpans(C, s)
             R == SpansOf(s.id, S, C, o, total)
  <2>1. Done(k) /\ k + 1 \in 1 .. n
    BY <1>3, <1>7
  <2>2. h[k + 1] = h[k] \o r
    <3>1. k + 1 \in 1 .. n /\ k + 1 - 1 = k
      BY <1>3, <2>1
    <3>2. h[k + 1] = StripeTurn(C, 0, 0, h[k], s)
      BY <1>5, <3>1
    <3> QED BY <3>2 DEF StripeTurn
  <2>3. s \in P
    BY <1>1, <1>3, <2>1
  <2> HIDE DEF s
  <2>4. r \in Seq(R) /\ Tiles(r, s.from, s.from + s.count) /\ KeysRise(r)
    BY <2>3, StripeSpansRun DEF P
  <2>5. To(k) = s.from /\ To(k + 1) = s.from + s.count
    <3>1. To(k + 1) = s.from + s.count
      BY DEF s
    <3>2. CASE k = 0
      <4>1. stripes # <<>>
        BY <1>3, <2>1
      <4> QED BY <1>1, <3>1, <3>2, <4>1 DEF Tiles, s
    <3>3. CASE k # 0
      <4>1. k \in 1 .. Len(stripes) - 1
        BY <1>3, <2>1, <3>3 DEF n
      <4>2. s.from = stripes[k].from + stripes[k].count
        BY <1>1, <4>1 DEF Tiles, s
      <4> QED BY <3>1, <3>3, <4>2
    <3> QED BY <3>2, <3>3
  <2>6. \A x \in UpTo(k), y \in R : x.stripe < y.stripe
    <3>1. ASSUME NEW i \in 1 .. k PROVE stripes[i].id < s.id
      BY <1>1, <1>3, <2>1 DEF s
    <3> QED BY <3>1 DEF SpansOf
  <2>7. UpTo(k) \subseteq UpTo(k + 1) /\ R \subseteq UpTo(k + 1)
    BY DEF s, G, SpansOf
  <2> HIDE DEF UpTo, R, r, To
  <2>8. h[k] \in Seq(UpTo(k + 1)) /\ r \in Seq(UpTo(k + 1))
    BY <2>1, <2>4, <2>7
  <2>9. h[k] \o r \in Seq(UpTo(k + 1)) /\ Tiles(h[k] \o r, 0, To(k + 1))
    BY <2>1, <2>4, <2>5, <2>8, TilesConcat
  <2>10. KeysRise(h[k] \o r)
    BY <2>1, <2>4, <2>6, KeysRiseConcat
  <2> QED BY <2>2, <2>9, <2>10
<1>8. Done(n)
  <2> HIDE DEF Done
  <2>1. n \in T
    <3> HIDE DEF T
    <3> QED BY <1>3, <1>6, <1>7, StripeLoop!NatSet
  <2> QED BY <1>3, <2>1
<1>9. h[n] \in Seq(G)
  <2>1. UpTo(n) \subseteq G
    OBVIOUS
  <2> HIDE DEF UpTo
  <2> QED BY <1>8, <2>1
<1>10. To(n) = total
  <2>1. CASE n = 0
    BY <1>1, <1>3, <2>1 DEF Tiles, n
  <2>2. CASE n # 0
    BY <1>1, <1>3, <2>2 DEF Tiles, n
  <2> QED BY <2>1, <2>2
<1> QED BY <1>5, <1>8, <1>9, <1>10 DEF G

\* The pieces of a range lie in the units that hold the file, if it does.
LEMMA SpanWithin ==
    ASSUME NEW S \in Nat, S # 0, NEW C \in Nat, C # 0, NEW o \in Nat,
           NEW total \in Nat, NEW size \in Nat, o + total <= size,
           NEW x \in GoodSpans(S, C, o, total)
    PROVE  /\ x.stripe \in 1 .. (size \div S) + 1
           /\ x.chunk \in 1 .. (S + C - 1) \div C
<1> DEFINE i == x.stripe - 1
           j == x.chunk - 1
           xo == x.offset
           xc == x.count
           xf == x.from
<1>1. i \in Nat /\ j \in Nat /\ xo \in Nat /\ xc \in Nat /\ xf \in Nat
      /\ x.stripe = i + 1 /\ x.chunk = j + 1
  <2>1. /\ x.stripe \in Nat \ {0} /\ x.chunk \in Nat \ {0}
        /\ x.offset \in Nat /\ x.count \in Nat /\ x.from \in Nat
    BY DEF GoodSpans
  <2> QED BY <2>1
<1>2. i * S + j * C + xo = o + xf /\ j * C + xo + xc <= S /\ xf + xc <= total
      /\ xo + xc >= 1
  BY DEF GoodSpans
<1> HIDE DEF i, j, xo, xc, xf
<1>3. i * S \in Nat /\ j * C \in Nat
  BY <1>1
<1>4. i * S <= size /\ j * C + 1 <= S
  <2> DEFINE a == i * S
             b == j * C
  <2> HIDE DEF a, b
  <2>1. a \in Nat /\ b \in Nat /\ a + b + xo = o + xf /\ b + xo + xc <= S
    BY <1>2, <1>3 DEF a, b
  <2>2. a <= size /\ b + 1 <= S
    BY <1>1, <1>2, <2>1
  <2> QED BY <2>2 DEF a, b
<1>5. i <= size \div S
  <2> DEFINE d == size \div S
             m == size % S
  <2>1. d \in Nat /\ m \in 0 .. S - 1 /\ size = d * S + m
    OBVIOUS
  <2> HIDE DEF d, m
  <2>2. ASSUME i >= d + 1 PROVE FALSE
    <3>1. i * S >= (d + 1) * S
      BY <1>1, <2>1, <2>2
    <3>2. (d + 1) * S = d * S + S /\ d * S \in Nat
      BY <2>1
    <3> QED BY <1>3, <1>4, <2>1, <3>1, <3>2
  <2>3. i <= d
    BY <1>1, <2>1, <2>2
  <2> QED BY <2>3 DEF d
<1>6. j + 1 <= (S + C - 1) \div C
  <2> DEFINE N == S + C - 1
             d == N \div C
             m == N % C
  <2>0. N \in Nat
    OBVIOUS
  <2>1. d \in Nat /\ m \in 0 .. C - 1 /\ N = d * C + m
    <3> HIDE DEF N
    <3> QED BY <2>0
  <2>a. N = S + C - 1
    OBVIOUS
  <2> HIDE DEF d, m, N
  <2>2. ASSUME j >= d PROVE FALSE
    <3>1. j * C >= d * C /\ d * C \in Nat
      BY <1>1, <2>1, <2>2
    <3> QED BY <1>3, <1>4, <2>1, <2>a, <3>1
  <2>3. j + 1 <= d
    BY <1>1, <2>1, <2>2
  <2> QED BY <2>3 DEF d, N
<1>7. size \div S \in Nat /\ (S + C - 1) \div C \in Nat
  OBVIOUS
<1> QED BY <1>1, <1>5, <1>6, <1>7

\* Stripe, chunk and offset of byte k by plain division.
Place(S, C, k) ==
    <<k \div S + 1, (k % S) \div C + 1, (k % S) % C>>

\* Division, from the quotient and the remainder.
LEMMA Quotient ==
    ASSUME NEW S \in Nat, S # 0, NEW m \in Nat, NEW r \in Nat, r < S
    PROVE  (m * S + r) \div S = m /\ (m * S + r) % S = r
<1> DEFINE p == m * S + r
           d == p \div S
           e == p % S
<1>1. m * S \in Nat /\ p \in Nat
  OBVIOUS
<1>2. d \in Nat /\ e \in 0 .. S - 1 /\ p = d * S + e
  <2> HIDE DEF p
  <2> QED BY <1>1
<1>3. p = m * S + r
  OBVIOUS
<1> HIDE DEF p, d, e
<1>4. ASSUME d >= m + 1 PROVE FALSE
  <2>1. d * S >= (m + 1) * S /\ (m + 1) * S = m * S + S
    BY <1>2, <1>4
  <2> QED BY <1>1, <1>2, <1>3, <2>1
<1>5. ASSUME m >= d + 1 PROVE FALSE
  <2>1. m * S >= (d + 1) * S /\ (d + 1) * S = d * S + S
    BY <1>2, <1>5
  <2>2. d * S \in Nat
    BY <1>2
  <2> QED BY <1>1, <1>2, <1>3, <2>1, <2>2
<1>6. d = m
  BY <1>2, <1>4, <1>5
<1>7. e = r
  BY <1>1, <1>2, <1>3, <1>6
<1> QED BY <1>6, <1>7 DEF p, d, e

\* The byte at position d of a piece is where division puts it.
LEMMA SpanByte ==
    ASSUME NEW S \in Nat, S # 0, NEW C \in Nat, C # 0, NEW o \in Nat,
           NEW total, NEW x \in GoodSpans(S, C, o, total), NEW d \in 0 .. x.count - 1
    PROVE  Place(S, C, o + x.from + d) = <<x.stripe, x.chunk, x.offset + d>>
<1> DEFINE i == x.stripe - 1
           j == x.chunk - 1
           e == x.offset + d
           r == j * C + e
           p == o + x.from + d
<1>1. /\ x.stripe \in Nat \ {0} /\ x.chunk \in Nat \ {0} /\ x.offset \in Nat
      /\ x.count \in Nat /\ x.from \in Nat
      /\ i * S + j * C + x.offset = o + x.from
      /\ x.offset + x.count <= C /\ j * C + x.offset + x.count <= S
  BY DEF GoodSpans
<1>2. i \in Nat /\ j \in Nat /\ x.stripe = i + 1 /\ x.chunk = j + 1
  <2>1. x.stripe \in Nat \ {0} /\ x.chunk \in Nat \ {0}
    BY DEF GoodSpans
  <2> QED BY <2>1
<1> HIDE DEF i, j
<1>3. i * S \in Nat /\ j * C \in Nat
  BY <1>2
<1>4. e \in Nat /\ e < C
  BY <1>1
<1>5. r \in Nat /\ r < S /\ p = i * S + r
  <2> DEFINE a == i * S
             b == j * C
  <2>1. a \in Nat /\ b \in Nat /\ a + b + x.offset = o + x.from
        /\ b + x.offset + x.count <= S /\ r = b + (x.offset + d)
    BY <1>1, <1>3
  <2> HIDE DEF a, b, r
  <2>2. r \in Nat /\ r < S /\ p = a + r
    BY <1>1, <2>1
  <2> QED BY <2>2 DEF a
<1>6. p \div S = i /\ p % S = r
  <2> HIDE DEF p, r
  <2> QED BY <1>2, <1>5, Quotient
<1>7. r \div C = j /\ r % C = e
  <2>1. r = j * C + e
    OBVIOUS
  <2> HIDE DEF r, e
  <2> QED BY <1>2, <1>4, <2>1, Quotient
<1> HIDE DEF p, r
<1>8. Place(S, C, p) = <<i + 1, j + 1, e>>
  BY <1>6, <1>7 DEF Place
<1> QED BY <1>2, <1>8 DEF p, e

\* The chunk of a piece holds a byte that does not lie behind the piece's begin,
\* also if the piece is empty.
LEMMA PieceTouched ==
    ASSUME NEW S \in Nat, S # 0, NEW C \in Nat, C # 0, NEW o \in Nat,
           NEW total, NEW x \in GoodSpans(S, C, o, total)
    PROVE  \E k \in Nat : /\ k <= o + x.from
                          /\ k \div S + 1 = x.stripe /\ (k % S) \div C + 1 = x.chunk
<1>1. /\ x.stripe \in Nat \ {0} /\ x.chunk \in Nat \ {0} /\ x.offset \in Nat
      /\ x.count \in Nat /\ x.from \in Nat
      /\ (x.stripe - 1) * S + (x.chunk - 1) * C + x.offset = o + x.from
      /\ x.offset + x.count \in 1 .. C
      /\ (x.chunk - 1) * C + x.offset + x.count <= S
  BY DEF GoodSpans
<1>2. CASE x.count # 0
  <2>1. 0 \in 0 .. x.count - 1
    BY <1>1, <1>2
  <2>2. Place(S, C, o + x.from + 0) = <<x.stripe, x.chunk, x.offset + 0>>
    BY <2>1, SpanByte
  <2> DEFINE k == o + x.from + 0
  <2>3. k \in Nat /\ k <= o + x.from
    BY <1>1
  <2>4. k \div S + 1 = x.stripe /\ (k % S) \div C + 1 = x.chunk
    BY <2>2 DEF Place
  <2> HIDE DEF k
  <2> QED BY <2>3, <2>4
<1>3. CASE x.count = 0
  <2> DEFINE p == o + x.from - 1
             y == [stripe |-> x.stripe, chunk |-> x.chunk, offset |-> x.offset - 1,
                   count |-> 1, from |-> 0]
             a == (x.stripe - 1) * S
             b == (x.chunk - 1) * C
  <2>1. /\ a \in Nat /\ b \in Nat /\ a + b + x.offset = o + x.from
        /\ x.offset \in 1 .. C /\ b + x.offset <= S
    <3>1. x.stripe - 1 \in Nat /\ x.chunk - 1 \in Nat
      <4>1. x.stripe \in Nat \ {0} /\ x.chunk \in Nat \ {0}
        BY DEF GoodSpans
      <4> QED BY <4>1
    <3>2. a \in Nat /\ b \in Nat
      BY <3>1
    <3>3. a + b + x.offset = o + x.from /\ x.offset + 0 \in 1 .. C
          /\ b + x.offset + 0 <= S
      BY <1>1, <1>3
    <3> HIDE DEF a, b
    <3> QED BY <1>1, <3>2, <3>3
  <2>2. /\ y.stripe = x.stripe /\ y.chunk = x.chunk /\ y.offset = x.offset - 1
        /\ y.count = 1 /\ y.from = 0
        /\ x.offset - 1 \in Nat /\ p \in Nat
    <3> HIDE DEF a, b
    <3> QED BY <1>1, <2>1
  <2>3. y \in [stripe : Nat \ {0}, chunk : Nat \ {0}, offset : Nat, count : Nat,
              from : Nat]
    BY <1>1, <2>2
  <2>4. /\ a + b + y.offset = p + y.from /\ y.offset + y.count \in 1 .. C
        /\ b + y.offset + y.count <= S /\ y.from + y.count <= 1
    <3> HIDE DEF a, b, y
    <3> QED BY <1>1, <2>1, <2>2
  <2>5. y \in GoodSpans(S, C, p, 1)
    BY <2>2, <2>3, <2>4 DEF GoodSpans
  <2> HIDE DEF p, y, a, b
  <2>6. Place(S, C, p + y.from + 0) = <<y.stripe, y.chunk, y.offset + 0>>
    <3>1. 0 \in 0 .. y.count - 1
      BY <2>2
    <3> QED BY <2>2, <2>5, <3>1, SpanByte
  <2>7. p + y.from + 0 = p
    BY <2>2
  <2>8. p \div S + 1 = x.stripe /\ (p % S) \div C + 1 = x.chunk
    BY <2>2, <2>6, <2>7 DEF Place
  <2>9. p <= o + x.from
    BY <1>1, <2>2 DEF p
  <2> QED BY <2>2, <2>8, <2>9
<1> QED BY <1>2, <1>3

\* A byte whose place is in a piece is at its position in the range.
LEMMA PlaceInSpan ==
    ASSUME NEW S \in Nat, S # 0, NEW C \in Nat, C # 0, NEW o \in Nat,
           NEW total, NEW x \in GoodSpans(S, C, o, total), NEW k \in Nat,
           k \div S + 1 = x.stripe, (k % S) \div C + 1 = x.chunk
    PROVE  k = o + x.from + (((k % S) % C) - x.offset)
<1> DEFINE i == k \div S
           r == k % S
           j == r \div C
           e == r % C
<1>1. i \in Nat /\ r \in Nat /\ k = i * S + r
  OBVIOUS
<1>2. j \in Nat /\ e \in Nat /\ r = j * C + e
  <2> HIDE DEF r
  <2> QED BY <1>1
<1>3. i + 1 = x.stripe /\ j + 1 = x.chunk
  OBVIOUS
<1>4. (x.stripe - 1) * S + (x.chunk - 1) * C + x.offset = o + x.from
      /\ x.offset \in Nat /\ x.from \in Nat
  BY DEF GoodSpans
<1>0. e = (k % S) % C
  OBVIOUS
<1> HIDE DEF i, r, j, e
<1>5. x.stripe - 1 = i /\ x.chunk - 1 = j
  BY <1>1, <1>2, <1>3
<1>6. i * S \in Nat /\ j * C \in Nat
  BY <1>1, <1>2
<1>7. k = o + x.from + (e - x.offset)
  <2> DEFINE a == i * S
             b == j * C
  <2>1. a \in Nat /\ b \in Nat /\ k = a + r /\ r = b + e /\ a + b + x.offset = o + x.from
    BY <1>1, <1>2, <1>4, <1>5, <1>6
  <2> HIDE DEF a, b
  <2> QED BY <1>2, <1>4, <2>1
<1> QED BY <1>0, <1>7

\* Every position of the range is in a piece.
LEMMA TilesCover ==
    ASSUME NEW T, NEW q \in Seq(T), NEW n \in Nat, Tiles(q, 0, n),
           \A x \in T : x.from \in Nat /\ x.count \in Nat,
           NEW p \in 0 .. n - 1
    PROVE  \E i \in DOMAIN q : q[i].from <= p /\ p < q[i].from + q[i].count
<1> SUFFICES ASSUME \A i \in DOMAIN q : ~(q[i].from <= p /\ p < q[i].from + q[i].count)
             PROVE  FALSE
  OBVIOUS
<1> DEFINE len == Len(q)
           Before(i) == i \in DOMAIN q => q[i].from <= p
           B == {i \in Nat : Before(i + 1)}
<1>1. len \in Nat /\ DOMAIN q = 1 .. len
      /\ \A i \in 1 .. len : q[i].from \in Nat /\ q[i].count \in Nat
  OBVIOUS
<1>2. q # <<>> /\ len # 0
  BY DEF Tiles
<1>3. 0 \in B
  BY <1>1, <1>2 DEF Tiles
<1>4. ASSUME NEW i \in Nat, i \in B PROVE i + 1 \in B
  <2> SUFFICES ASSUME i + 2 \in 1 .. len PROVE q[i + 2].from <= p
    BY <1>1
  <2>1. i + 1 \in 1 .. len - 1 /\ i + 1 \in 1 .. len /\ (i + 1) + 1 = i + 2
    BY <1>1
  <2>2. q[i + 2].from = q[i + 1].from + q[i + 1].count
    BY <2>1 DEF Tiles
  <2>3. q[i + 1].from <= p
    BY <1>1, <1>4, <2>1
  <2> DEFINE a == q[i + 1].from
             b == q[i + 1].count
  <2>4. ~(a <= p /\ p < a + b) /\ a \in Nat /\ b \in Nat /\ q[i + 2].from = a + b
        /\ a <= p
    BY <1>1, <2>1, <2>2, <2>3
  <2> HIDE DEF a, b
  <2> QED BY <2>4
<1>5. len - 1 \in B
  <2>1. len - 1 \in Nat
    BY <1>1, <1>2
  <2> HIDE DEF B, len
  <2> QED BY <1>3, <1>4, <2>1, StripeLoop!NatSet
<1>6. q[len].from <= p /\ q[len].from + q[len].count = n /\ len \in 1 .. len
  BY <1>1, <1>2, <1>5 DEF Tiles
<1> DEFINE a == q[len].from
           b == q[len].count
<1>7. ~(a <= p /\ p < a + b) /\ a \in Nat /\ b \in Nat /\ a + b = n /\ a <= p
  BY <1>1, <1>6
<1> HIDE DEF a, b
<1> QED BY <1>7

-------------------------------------------------------------------------------
(* Joining what lies in the pieces *)

\* The loop that joins sequences.
JoinTurn(a, b, c, q, s) == q \o s

JoinLoop == INSTANCE FoldInduction WITH Op <- JoinTurn

\* h[i] is the first i sequences of s joined.
Joins(h, s) == /\ h[0] = <<>>
               /\ \A i \in 1 .. Len(s) : h[i] = h[i - 1] \o s[i]

\* What FlattenSeq computes.
LEMMA FlattenJoins ==
    ASSUME NEW S, NEW s \in Seq(Seq(S))
    PROVE  \E h : /\ Joins(h, s) /\ h[Len(s)] = FlattenSeq(s)
                  /\ \A i \in 0 .. Len(s) : h[i] \in Seq(S)
<1> DEFINE n == Len(s)
           Eq(f) == f = [i \in 1 .. n |-> IF i = 1 THEN s[i] ELSE f[i - 1] \o s[i]]
<1>1. n \in Nat /\ DOMAIN s = 1 .. n /\ \A i \in 1 .. n : s[i] \in Seq(S)
  OBVIOUS
<1>2. CASE n = 0
  <2>1. FlattenSeq(s) = <<>>
    BY <1>2 DEF FlattenSeq
  <2> DEFINE h == [i \in {0} |-> <<>>]
  <2>2. h[0] = <<>> /\ <<>> \in Seq(S)
    OBVIOUS
  <2> HIDE DEF h
  <2>3. Joins(h, s) /\ h[Len(s)] = FlattenSeq(s) /\ \A i \in 0 .. Len(s) : h[i] \in Seq(S)
    <3>1. Joins(h, s)
      BY <1>2, <2>2 DEF Joins
    <3>2. \A i \in 0 .. Len(s) : i = 0
      BY <1>2
    <3> QED BY <1>2, <2>1, <2>2, <3>1, <3>2
  <2> QED BY <2>3
<1>3. CASE n # 0
  <2>1. PICK g : JoinLoop!Turns(g, 0, 0, 0, <<>>, n, s)
    BY <1>1, JoinLoop!LoopTurns
  <2>2. g[0] = <<>> /\ \A i \in 1 .. n : g[i] = g[i - 1] \o s[i]
    BY <2>1 DEF JoinLoop!Turns, JoinTurn
  <2> DEFINE e == [i \in 1 .. n |-> g[i]]
  <2>3. Eq(e)
    <3>1. ASSUME NEW i \in 1 .. n
          PROVE  e[i] = IF i = 1 THEN s[i] ELSE e[i - 1] \o s[i]
      <4>1. CASE i = 1
        <5>1. e[i] = g[0] \o s[i] /\ s[i] \in Seq(S)
          <6>1. g[i] = g[i - 1] \o s[i]
            BY <2>2
          <6>2. i - 1 = 0
            BY <4>1
          <6>3. e[i] = g[i]
            OBVIOUS
          <6> QED BY <1>1, <6>1, <6>2, <6>3
        <5> QED BY <2>2, <4>1, <5>1, ConcatEmptySeq
      <4>2. CASE i # 1
        <5>1. i - 1 \in 1 .. n
          BY <1>1, <4>2
        <5> QED BY <2>2, <4>2, <5>1
      <4> QED BY <4>1, <4>2
    <3>2. e = [i \in 1 .. n |-> e[i]]
      OBVIOUS
    <3> HIDE DEF e
    <3> QED BY <3>1, <3>2
  <2> DEFINE f == CHOOSE x : Eq(x)
  <2>4. Eq(f)
    <3> HIDE DEF e
    <3> QED BY <2>3
  <2>5. FlattenSeq(s) = f[n]
    BY <1>3 DEF FlattenSeq
  <2> DEFINE h == [i \in 0 .. n |-> IF i = 0 THEN <<>> ELSE f[i]]
  <2> HIDE DEF f
  <2>6. h[0] = <<>> /\ h[n] = f[n]
    BY <1>1, <1>3
  <2>7. ASSUME NEW i \in 1 .. n PROVE h[i] = h[i - 1] \o s[i]
    <3>1. f[i] = IF i = 1 THEN s[i] ELSE f[i - 1] \o s[i]
      BY <2>4
    <3>2. i \in 0 .. n /\ i - 1 \in 0 .. n /\ (i # 1 => i - 1 # 0) /\ i # 0
      BY <1>1
    <3>3. CASE i = 1
      <4>1. h[i] = s[i] /\ h[i - 1] = <<>>
        BY <3>1, <3>2, <3>3
      <4> QED BY <1>1, <4>1, ConcatEmptySeq
    <3>4. CASE i # 1
      BY <3>1, <3>2, <3>4
    <3> QED BY <3>3, <3>4
  <2> HIDE DEF h
  <2> DEFINE T == {i \in Nat : i <= n => h[i] \in Seq(S)}
  <2>8. 0 \in T
    <3>1. <<>> \in Seq(S)
      OBVIOUS
    <3> QED BY <2>6, <3>1
  <2>9. ASSUME NEW i \in Nat, i \in T PROVE i + 1 \in T
    <3> SUFFICES ASSUME i + 1 <= n PROVE h[i + 1] \in Seq(S)
      OBVIOUS
    <3>1. i + 1 \in 1 .. n /\ (i + 1) - 1 = i /\ i <= n
      BY <1>1
    <3>2. h[i] \in Seq(S)
      BY <2>9, <3>1
    <3>3. h[i + 1] = h[i] \o s[i + 1] /\ s[i + 1] \in Seq(S)
      BY <1>1, <2>7, <3>1
    <3> QED BY <3>2, <3>3, ConcatProperties
  <2> HIDE DEF T
  <2>10. Nat \subseteq T
    BY <2>8, <2>9, JoinLoop!NatSet
  <2>11. \A i \in 0 .. n : h[i] \in Seq(S)
    BY <1>1, <2>10 DEF T
  <2>12. Joins(h, s)
    BY <2>6, <2>7 DEF Joins
  <2> QED BY <2>5, <2>6, <2>11, <2>12
<1> QED BY <1>2, <1>3

\* At most n elements of s from position o.
Cut(s, o, n) == SubSeq(s, o + 1, IF o + n < Len(s) THEN o + n ELSE Len(s))

\* How many there are.
CutLen(s, o, n) == IF o + n < Len(s) THEN n ELSE IF o < Len(s) THEN Len(s) - o ELSE 0

LEMMA CutIs ==
    ASSUME NEW B, NEW s \in Seq(B), NEW o \in Nat, NEW n \in Nat
    PROVE  /\ Cut(s, o, n) \in Seq(B)
           /\ CutLen(s, o, n) \in Nat /\ Len(Cut(s, o, n)) = CutLen(s, o, n)
           /\ \A i \in 1 .. CutLen(s, o, n) : Cut(s, o, n)[i] = s[o + i]
<1> DEFINE e == IF o + n < Len(s) THEN o + n ELSE Len(s)
           len == CutLen(s, o, n)
<1>1. /\ Len(s) \in Nat /\ e \in Nat /\ e <= Len(s) /\ len \in Nat
      /\ len = IF o + 1 <= e THEN e - (o + 1) + 1 ELSE 0
  BY DEF CutLen
<1>2. \A i \in (o + 1) .. e : s[i] \in B
  BY <1>1
<1>3. Cut(s, o, n) = SubSeq(s, o + 1, e)
  BY DEF Cut
<1> HIDE DEF e, len
<1>4. /\ SubSeq(s, o + 1, e) \in Seq(B)
      /\ Len(SubSeq(s, o + 1, e)) = IF o + 1 <= e THEN e - (o + 1) + 1 ELSE 0
      /\ \A i \in 1 .. e - (o + 1) + 1 : SubSeq(s, o + 1, e)[i] = s[(o + 1) + i - 1]
  BY <1>1, <1>2, SubSeqProperties
<1>5. ASSUME NEW i \in 1 .. len PROVE SubSeq(s, o + 1, e)[i] = s[o + i]
  <2>1. i \in 1 .. e - (o + 1) + 1 /\ (o + 1) + i - 1 = o + i
    BY <1>1
  <2> QED BY <1>4, <2>1
<1> QED BY <1>1, <1>3, <1>4, <1>5 DEF len

LEMMA SameElements ==
    ASSUME NEW B, NEW s \in Seq(B), NEW t \in Seq(B), Len(s) = Len(t),
           \A i \in 1 .. Len(s) : s[i] = t[i]
    PROVE  s = t
  OBVIOUS

\* What is cut off one after the other, or behind the end.
LEMMA CutsJoin ==
    ASSUME NEW B, NEW s \in Seq(B), NEW o \in Nat
    PROVE  \A a, b, d \in Nat : a = b \/ (Len(s) <= o + a /\ Len(s) <= o + b)
              => Cut(s, o, a) \o Cut(s, o + b, d) = Cut(s, o, b + d)
<1> SUFFICES ASSUME NEW a \in Nat, NEW b \in Nat, NEW d \in Nat,
                    a = b \/ (Len(s) <= o + a /\ Len(s) <= o + b)
             PROVE  Cut(s, o, a) \o Cut(s, o + b, d) = Cut(s, o, b + d)
  OBVIOUS
<1> DEFINE u == Cut(s, o, a)
           v == Cut(s, o + b, d)
           w == Cut(s, o, b + d)
           lu == CutLen(s, o, a)
           lv == CutLen(s, o + b, d)
           lw == CutLen(s, o, b + d)
<1>0. Len(s) \in Nat /\ o + b \in Nat /\ b + d \in Nat
  OBVIOUS
<1>1. /\ u \in Seq(B) /\ lu \in Nat /\ Len(u) = lu
      /\ \A i \in 1 .. lu : u[i] = s[o + i]
  BY CutIs
<1>2. /\ v \in Seq(B) /\ lv \in Nat /\ Len(v) = lv
      /\ \A i \in 1 .. lv : v[i] = s[o + b + i]
  BY <1>0, CutIs
<1>3. /\ w \in Seq(B) /\ lw \in Nat /\ Len(w) = lw
      /\ \A i \in 1 .. lw : w[i] = s[o + i]
  BY <1>0, CutIs
<1>4. /\ lw = lu + lv
      /\ lv # 0 => lu = b /\ a = b
  <2> DEFINE L == Len(s)
  <2>1. L \in Nat /\ (a = b \/ (L <= o + a /\ L <= o + b))
    OBVIOUS
  <2>2. /\ lu = IF o + a < L THEN a ELSE IF o < L THEN L - o ELSE 0
        /\ lv = IF (o + b) + d < L THEN d ELSE IF o + b < L THEN L - (o + b) ELSE 0
        /\ lw = IF o + (b + d) < L THEN b + d ELSE IF o < L THEN L - o ELSE 0
    BY DEF CutLen
  <2> HIDE DEF L, lu, lv, lw
  <2>3. CASE o + b < L
    <3>1. a = b /\ lu = b /\ o < L
      BY <2>1, <2>2, <2>3
    <3> QED BY <2>1, <2>2, <2>3, <3>1
  <2>4. CASE ~(o + b < L)
    <3>1. lv = 0 /\ lu = (IF o < L THEN L - o ELSE 0) /\ lw = lu
      BY <2>1, <2>2, <2>4
    <3> QED BY <1>1, <3>1
  <2> QED BY <2>3, <2>4
<1> HIDE DEF u, v, w, lu, lv, lw
<1>5. /\ u \o v \in Seq(B) /\ Len(u \o v) = lu + lv
      /\ \A i \in 1 .. lu + lv : (u \o v)[i] = IF i <= lu THEN u[i] ELSE v[i - lu]
  BY <1>1, <1>2, ConcatProperties
<1>6. ASSUME NEW i \in 1 .. lw PROVE (u \o v)[i] = w[i]
  <2>1. CASE i <= lu
    <3>1. i \in 1 .. lu
      BY <1>1, <2>1
    <3> QED BY <1>1, <1>3, <1>4, <1>5, <2>1, <3>1
  <2>2. CASE ~(i <= lu)
    <3>1. i - lu \in 1 .. lv /\ lv # 0
      BY <1>1, <1>2, <1>4, <2>2
    <3>2. o + b + (i - lu) = o + i
      BY <1>1, <1>4, <3>1
    <3>3. v[i - lu] = s[o + i]
      BY <1>2, <3>1, <3>2
    <3> QED BY <1>3, <1>4, <1>5, <2>2, <3>3
  <2> QED BY <2>1, <2>2
<1>7. u \o v = w
  BY <1>3, <1>4, <1>5, <1>6, SameElements
<1> QED BY <1>7 DEF u, v, w

\* Nothing is cut off behind the end.
LEMMA CutAtEnd ==
    ASSUME NEW B, NEW s \in Seq(B), NEW o \in Nat, NEW a \in Nat, NEW b \in Nat,
           Len(s) <= o + a, Len(s) <= o + b
    PROVE  Cut(s, o, a) = Cut(s, o, b)
<1>1. Len(s) \in Nat
  OBVIOUS
<1> DEFINE u == Cut(s, o, a)
           v == Cut(s, o, b)
           len == CutLen(s, o, a)
<1>2. len = CutLen(s, o, b)
  BY <1>1 DEF CutLen
<1>3. u \in Seq(B) /\ Len(u) = len /\ \A i \in 1 .. len : u[i] = s[o + i]
  BY CutIs
<1>4. v \in Seq(B) /\ Len(v) = len /\ \A i \in 1 .. len : v[i] = s[o + i]
  BY <1>2, CutIs
<1> HIDE DEF u, v, len
<1>5. u = v
  BY <1>3, <1>4, SameElements
<1> QED BY <1>5 DEF u, v

LEMMA CutNothing ==
    ASSUME NEW B, NEW s \in Seq(B), NEW o \in Nat
    PROVE  Cut(s, o, 0) = <<>>
<1>1. CutLen(s, o, 0) = 0
  BY DEF CutLen
<1> QED BY <1>1, CutIs

\* Nor is there anything behind the end.
LEMMA CutBeyond ==
    ASSUME NEW B, NEW s \in Seq(B), NEW o \in Nat, NEW n \in Nat, Len(s) <= o
    PROVE  Cut(s, o, n) = <<>>
<1>1. CutLen(s, o, n) = 0
  BY DEF CutLen
<1> QED BY <1>1, CutIs

\* From a on, s holds what t does from b on, for n elements and as far as t goes.
HoldsSame(s, a, t, b, n) ==
    /\ Len(s) - a <= Len(t) - b
    /\ \A d \in 0 .. n - 1 :
          b + d < Len(t) => a + d < Len(s) /\ s[a + d + 1] = t[b + d + 1]

\* Cuts of two sequences that do.
LEMMA CutsAgree ==
    ASSUME NEW B, NEW s \in Seq(B), NEW D, NEW t \in Seq(D),
           NEW a \in Nat, NEW b \in Nat, NEW n \in Nat, HoldsSame(s, a, t, b, n)
    PROVE  Cut(s, a, n) = Cut(t, b, n)
<1> USE DEF HoldsSame
<1> DEFINE U == B \cup D
           u == Cut(s, a, n)
           v == Cut(t, b, n)
           ls == CutLen(s, a, n)
           lt == CutLen(t, b, n)
<1>0. s \in Seq(U) /\ t \in Seq(U)
  OBVIOUS
<1> HIDE DEF U
<1>1. /\ u \in Seq(U) /\ ls \in Nat /\ Len(u) = ls
      /\ \A i \in 1 .. ls : u[i] = s[a + i]
  BY <1>0, CutIs
<1>2. /\ v \in Seq(U) /\ lt \in Nat /\ Len(v) = lt
      /\ \A i \in 1 .. lt : v[i] = t[b + i]
  BY <1>0, CutIs
<1>3. Len(s) \in Nat /\ Len(t) \in Nat
  OBVIOUS
<1>4. lt <= n /\ (lt # 0 => b + lt <= Len(t))
  BY <1>3 DEF CutLen
<1>5. lt # 0 => a + lt <= Len(s)
  <2> SUFFICES ASSUME lt # 0 PROVE a + lt <= Len(s)
    OBVIOUS
  <2> HIDE DEF lt
  <2>1. lt - 1 \in 0 .. n - 1 /\ b + (lt - 1) < Len(t)
    BY <1>2, <1>3, <1>4
  <2>2. a + (lt - 1) < Len(s)
    BY <2>1
  <2> QED BY <1>2, <1>3, <2>2
<1>6. ls = lt
  BY <1>3, <1>5 DEF CutLen
<1> HIDE DEF u, v, ls, lt
<1>7. ASSUME NEW i \in 1 .. lt PROVE u[i] = v[i]
  <2>1. i - 1 \in 0 .. n - 1 /\ b + (i - 1) < Len(t)
    BY <1>2, <1>3, <1>4
  <2>2. s[a + (i - 1) + 1] = t[b + (i - 1) + 1]
    BY <2>1
  <2>3. a + (i - 1) + 1 = a + i /\ b + (i - 1) + 1 = b + i
    OBVIOUS
  <2> QED BY <1>1, <1>2, <1>6, <2>2, <2>3
<1>8. u = v
  BY <1>1, <1>2, <1>6, <1>7, SameElements
<1> QED BY <1>8 DEF u, v

\* Later pieces lie behind earlier ones.
LEMMA TilesRise ==
    ASSUME NEW T, NEW q \in Seq(T), NEW n, Tiles(q, 0, n),
           \A x \in T : x.from \in Nat /\ x.count \in Nat,
           NEW i \in DOMAIN q, NEW j \in DOMAIN q, i < j
    PROVE  q[i].from + q[i].count <= q[j].from
<1> DEFINE len == Len(q)
           e == q[i].from + q[i].count
           S == {k \in Nat : (i + 1) + k <= len => e <= q[(i + 1) + k].from}
<1>1. len \in Nat /\ DOMAIN q = 1 .. len
      /\ \A k \in 1 .. len : q[k].from \in Nat /\ q[k].count \in Nat
  OBVIOUS
<1>2. \A k \in 1 .. len - 1 : q[k + 1].from = q[k].from + q[k].count
  BY DEF Tiles
<1>3. 0 \in S
  <2> SUFFICES ASSUME i + 1 <= len PROVE e <= q[(i + 1) + 0].from
    OBVIOUS
  <2>1. i \in 1 .. len - 1 /\ (i + 1) + 0 = i + 1
    BY <1>1
  <2> QED BY <1>1, <1>2, <2>1
<1>4. ASSUME NEW k \in Nat, k \in S PROVE k + 1 \in S
  <2> SUFFICES ASSUME (i + 1) + (k + 1) <= len PROVE e <= q[(i + 1) + (k + 1)].from
    OBVIOUS
  <2> DEFINE m == (i + 1) + k
  <2>1. m \in 1 .. len - 1 /\ m \in 1 .. len /\ m <= len /\ (i + 1) + (k + 1) = m + 1
    BY <1>1
  <2>2. e <= q[m].from
    BY <1>4, <2>1
  <2> HIDE DEF m
  <2>3. q[m + 1].from = q[m].from + q[m].count /\ q[m].from \in Nat /\ q[m].count \in Nat
    BY <1>1, <1>2, <2>1
  <2>4. e \in Nat
    BY <1>1
  <2> HIDE DEF e
  <2> QED BY <2>1, <2>2, <2>3, <2>4
<1>5. j - (i + 1) \in S
  <2>1. j - (i + 1) \in Nat
    BY <1>1
  <2> HIDE DEF S
  <2> QED BY <1>3, <1>4, <2>1, JoinLoop!NatSet
<1> QED BY <1>1, <1>5

\* The n parts are what is cut out of s at o for some of the pieces q, in their
\* order, and the other pieces lie behind the end of s.
PartsOf(parts, n, s, o, q) ==
    \E p \in [1 .. n -> DOMAIN q] :
        /\ \A a, b \in 1 .. n : a < b => p[a] < p[b]
        /\ \A i \in DOMAIN q : (\E a \in 1 .. n : p[a] = i) \/ Len(s) <= o + q[i].from
        /\ parts = [a \in 1 .. n |-> Cut(s, o + q[p[a]].from, q[p[a]].count)]

\* What is cut out for some pieces, in their order, is what is cut out for all
\* of them, if those that are missing lie behind the end.
LEMMA PiecesJoined ==
    ASSUME NEW T, NEW q \in Seq(T), NEW total \in Nat, Tiles(q, 0, total),
           \A x \in T : x.from \in Nat /\ x.count \in Nat,
           NEW B, NEW s \in Seq(B), NEW o \in Nat,
           NEW n \in Nat, NEW parts, PartsOf(parts, n, s, o, q)
    PROVE  FlattenSeq(parts) = Cut(s, o, total)
<1>0. PICK p \in [1 .. n -> DOMAIN q] :
          /\ \A a, b \in 1 .. n : a < b => p[a] < p[b]
          /\ \A i \in DOMAIN q : (\E a \in 1 .. n : p[a] = i) \/ Len(s) <= o + q[i].from
          /\ parts = [a \in 1 .. n |-> Cut(s, o + q[p[a]].from, q[p[a]].count)]
  BY DEF PartsOf
<1> USE <1>0
<1> DEFINE len == Len(q)
<1>1. /\ len \in Nat /\ DOMAIN q = 1 .. len /\ Len(s) \in Nat
      /\ \A i \in 1 .. len : q[i].from \in Nat /\ q[i].count \in Nat
  OBVIOUS
<1>2. \A a \in 1 .. n : p[a] \in 1 .. len
  BY <1>1
<1>3. /\ \A i \in 1 .. len - 1 : q[i + 1].from = q[i].from + q[i].count
      /\ len # 0 => q[1].from = 0 /\ q[len].from + q[len].count = total
      /\ len = 0 => total = 0
  BY <1>1 DEF Tiles
<1> HIDE DEF len
<1>4. /\ parts \in Seq(Seq(B)) /\ Len(parts) = n
      /\ \A a \in 1 .. n : parts[a] = Cut(s, o + q[p[a]].from, q[p[a]].count)
  <2>1. ASSUME NEW a \in 1 .. n
        PROVE  Cut(s, o + q[p[a]].from, q[p[a]].count) \in Seq(B)
    <3>1. o + q[p[a]].from \in Nat /\ q[p[a]].count \in Nat
      BY <1>1, <1>2
    <3> QED BY <3>1, CutIs
  <2>2. parts = [a \in 1 .. n |-> Cut(s, o + q[p[a]].from, q[p[a]].count)]
    OBVIOUS
  <2>3. parts \in [1 .. n -> Seq(B)]
    BY <2>1, <2>2
  <2> QED BY <2>2, <2>3
<1>5. PICK h : /\ Joins(h, parts) /\ h[Len(parts)] = FlattenSeq(parts)
  BY <1>4, FlattenJoins
<1>6. h[0] = <<>> /\ \A a \in 1 .. n : h[a] = h[a - 1] \o parts[a]
  BY <1>4, <1>5 DEF Joins
<1>14. PICK At, E :
          /\ At = [a \in 0 .. n |-> IF a = 0 THEN 0 ELSE p[a]]
          /\ E = [a \in 0 .. n |-> IF a = 0 THEN 0 ELSE q[p[a]].from + q[p[a]].count]
  OBVIOUS
<1>13. /\ At[0] = 0 /\ E[0] = 0
       /\ \A a \in 1 .. n : At[a] = p[a] /\ E[a] = q[p[a]].from + q[p[a]].count
  BY <1>14
<1>7. ASSUME NEW a \in 0 .. n
      PROVE  /\ At[a] \in 0 .. len /\ E[a] \in Nat
             /\ At[a] + 1 <= len => q[At[a] + 1].from = E[a]
             /\ \A i \in 1 .. len : At[a] < i => E[a] <= q[i].from
  <2>1. CASE a = 0
    BY <1>13, <1>1, <1>3, <2>1
  <2>2. CASE a # 0
    <3>1. a \in 1 .. n
      BY <1>13, <2>2
    <3>2. At[a] = p[a] /\ p[a] \in 1 .. len /\ E[a] = q[p[a]].from + q[p[a]].count
      BY <1>13, <1>2, <2>2, <3>1
    <3>3. \A i \in 1 .. len : p[a] < i => E[a] <= q[i].from
      BY <1>13, <1>1, <3>2, TilesRise
    <3>4. p[a] + 1 <= len => p[a] \in 1 .. len - 1
      BY <1>13, <1>1, <3>2
    <3>5. E[a] \in Nat
      BY <1>13, <1>1, <3>2
    <3>6. ASSUME At[a] + 1 <= len PROVE q[At[a] + 1].from = E[a]
      <4>1. p[a] \in 1 .. len - 1
        BY <3>2, <3>4, <3>6
      <4> QED BY <1>3, <3>2, <4>1
    <3> QED BY <1>1, <3>2, <3>3, <3>5, <3>6
  <2> QED BY <1>13, <2>1, <2>2
<1>8. ASSUME NEW a \in 0 .. n, NEW i \in 1 .. len, At[a] + 1 < i \/ n = a, At[a] < i,
             \A b \in 1 .. n : a < b => i <= p[b]
      PROVE  Len(s) <= o + E[a]
  <2> DEFINE k == At[a] + 1
  <2>1. k \in 1 .. len /\ k <= i /\ At[a] \in Nat
    BY <1>13, <1>1, <1>7, <1>8
  <2>2. q[k].from = E[a]
    BY <1>13, <1>7, <2>1
  <2>3. ASSUME NEW b \in 1 .. n PROVE p[b] # k
    <3>1. CASE b <= a
      <4>1. a # 0 /\ a \in 1 .. n /\ At[a] = p[a]
        BY <1>13, <3>1
      <4>2. p[b] <= p[a]
        <5>1. CASE b = a
          BY <1>13, <1>2, <4>1, <5>1
        <5>2. CASE b < a
          BY <1>13, <1>2, <4>1, <5>2
        <5> QED BY <1>13, <3>1, <5>1, <5>2
      <4> QED BY <1>13, <1>2, <2>1, <4>1, <4>2
    <3>2. CASE a < b
      <4>1. i <= p[b] /\ a # n
        BY <1>13, <1>8, <3>2
      <4> QED BY <1>13, <1>2, <1>8, <2>1, <4>1
    <3> QED BY <1>13, <3>1, <3>2
  <2> HIDE DEF k
  <2>4. Len(s) <= o + q[k].from
    BY <1>13, <1>1, <2>1, <2>3
  <2> QED BY <1>13, <2>2, <2>4
<1> DEFINE S == {a \in Nat : a <= n => h[a] = Cut(s, o, E[a])}
<1>9. 0 \in S
  BY <1>13, <1>6, CutNothing
<1>10. ASSUME NEW a \in Nat, a \in S PROVE a + 1 \in S
  <2> SUFFICES ASSUME a + 1 <= n PROVE h[a + 1] = Cut(s, o, E[a + 1])
    OBVIOUS
  <2>1. a + 1 \in 1 .. n /\ (a + 1) - 1 = a /\ a \in 0 .. n /\ a + 1 # 0 /\ n # a
    OBVIOUS
  <2> DEFINE i == p[a + 1]
             f == q[i].from
             d == q[i].count
  <2>2. i \in 1 .. len /\ f \in Nat /\ d \in Nat /\ E[a + 1] = f + d
    BY <1>13, <1>1, <1>2, <2>1
  <2>3. h[a + 1] = Cut(s, o, E[a]) \o Cut(s, o + f, d)
    <3>1. h[a + 1] = h[(a + 1) - 1] \o parts[a + 1]
      BY <1>6, <2>1
    <3>2. parts[a + 1] = Cut(s, o + f, d)
      BY <1>4, <2>1
    <3>3. h[a] = Cut(s, o, E[a])
      BY <1>10, <2>1
    <3> HIDE DEF f, d
    <3> QED BY <2>1, <3>1, <3>2, <3>3
  <2>4. At[a] < i
    <3>1. CASE a = 0
      BY <1>13, <2>2, <3>1
    <3>2. CASE a # 0
      <4>1. a \in 1 .. n /\ a < a + 1
        BY <1>13, <2>1, <3>2
      <4> QED BY <1>13, <2>1, <3>2, <4>1
    <3> QED BY <1>13, <3>1, <3>2
  <2>5. \A b \in 1 .. n : a < b => i <= p[b]
    <3> SUFFICES ASSUME NEW b \in 1 .. n, a < b PROVE i <= p[b]
      OBVIOUS
    <3>1. CASE b = a + 1
      BY <1>13, <2>2, <3>1
    <3>2. CASE b # a + 1
      <4>1. a + 1 < b
        BY <1>13, <3>2
      <4> QED BY <1>13, <1>2, <2>1, <2>2, <4>1
    <3> QED BY <1>13, <3>1, <3>2
  <2>6. E[a] \in Nat /\ At[a] \in 0 .. len
    BY <1>13, <1>7, <2>1
  <2>7. E[a] = f \/ (Len(s) <= o + E[a] /\ Len(s) <= o + f)
    <3>1. CASE At[a] + 1 = i
      BY <1>13, <1>7, <2>1, <2>2, <3>1
    <3>2. CASE At[a] + 1 # i
      <4>1. At[a] + 1 < i
        <5> HIDE DEF i
        <5> QED BY <1>13, <2>2, <2>4, <2>6, <3>2
      <4>2. Len(s) <= o + E[a]
        <5> HIDE DEF i
        <5> QED BY <1>13, <1>8, <2>1, <2>2, <2>4, <2>5, <4>1
      <4>3. E[a] <= f
        <5> QED BY <1>13, <1>7, <2>1, <2>2, <2>4
      <4> HIDE DEF f
      <4> QED BY <1>13, <1>1, <2>2, <2>6, <4>2, <4>3
    <3> QED BY <1>13, <3>1, <3>2
  <2> HIDE DEF f, d
  <2>8. Cut(s, o, E[a]) \o Cut(s, o + f, d) = Cut(s, o, f + d)
    <3>1. \A x, y, z \in Nat : x = y \/ (Len(s) <= o + x /\ Len(s) <= o + y)
             => Cut(s, o, x) \o Cut(s, o + y, z) = Cut(s, o, y + z)
      BY CutsJoin
    <3> HIDE DEF f, d
    <3> QED BY <2>2, <2>6, <2>7, <3>1
  <2> QED BY <1>13, <2>2, <2>3, <2>8
<1>11. h[n] = Cut(s, o, E[n])
  <2>1. n \in S
    <3> HIDE DEF S
    <3> QED BY <1>13, <1>9, <1>10, JoinLoop!NatSet
  <2> QED BY <1>13, <2>1
<1>12. Cut(s, o, E[n]) = Cut(s, o, total)
  <2>1. n \in 0 .. n /\ At[n] \in 0 .. len /\ E[n] \in Nat
    BY <1>13, <1>7
  <2>2. CASE At[n] = len
    <3>1. E[n] = total
      BY <1>13, <1>1, <1>3, <2>2
    <3> QED BY <1>13, <3>1
  <2>3. CASE At[n] # len
    <3>1. len \in 1 .. len /\ At[n] < len
      BY <1>13, <1>1, <2>1, <2>3
    <3>2. Len(s) <= o + E[n]
      <4> QED BY <1>13, <1>8, <2>1, <3>1
    <3>3. E[n] <= q[len].from
      <4> QED BY <1>13, <1>7, <2>1, <3>1
    <3>4. E[n] <= total
      <4> QED BY <1>13, <1>1, <1>3, <2>1, <3>1, <3>3
    <3>5. Len(s) <= o + total
      <4> QED BY <1>13, <1>1, <2>1, <3>2, <3>4
    <3> QED BY <1>13, <2>1, <3>2, <3>5, CutAtEnd
  <2> QED BY <1>13, <2>2, <2>3
<1> QED BY <1>13, <1>4, <1>5, <1>11, <1>12
===============================================================================
