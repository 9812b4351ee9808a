------------------------- MODULE BaristaPartsProofs -------------------------
(***************************************************************************)
(* The properties of the parts that Barista is built from: the locks of    *)
(* LockingStrategy, for any set of processes, users and files; the layout  *)
(* of a file of FileLayout, for all stripe and chunk sizes and all         *)
(* sequences of appends; and the mapped file of PersistentMap, for all     *)
(* keys, values, sizes of growth and of slots, and any number of openings. *)
(***************************************************************************)
EXTENDS LockingStrategy, FileLayout, PersistentMap, OperatorProofs,
        NaturalsInduction, WellFoundedInduction, TLAPS

-------------------------------------------------------------------------------
(* The locks *)

\* The inductive invariant: all locks good, the rest typed.
Inv == /\ \A f \in Files : GoodLock(file_locks[f])
       /\ TypeOK

\* Good locks imply what the runs check.
LEMMA InvImplies == Inv => OneUserPerFile /\ NoOrphanLock
<1> SUFFICES ASSUME Inv PROVE OneUserPerFile /\ NoOrphanLock
  OBVIOUS
<1>1. OneUserPerFile
  BY DEF Inv, OneUserPerFile, GoodLock
<1>2. ASSUME NEW f \in Files, file_locks[f].owner # NoUser
      PROVE  \E p \in Procs : CanRelease(file_locks[f], p)
  <2>1. GoodLock(file_locks[f])
    BY DEF Inv
  <2>2. CASE file_locks[f].ex_proc # NoProc
    BY <2>1, <2>2 DEF GoodLock, LockRecords, CanRelease
  <2>3. CASE file_locks[f].sh_procs # {}
    BY <2>1, <2>3 DEF GoodLock, LockRecords, CanRelease
  <2> QED BY <1>2, <2>1, <2>2, <2>3 DEF GoodLock
<1> QED BY <1>1, <1>2 DEF NoOrphanLock

\* The invariant holds when no call has been made.
LEMMA InitInv == Init => Inv
  BY NoLockGood, UsersAssumption
  DEF Init, Inv, TypeOK, GoodLock, MetaLocks, Calls, LOCK_SUCCESS, LOCK_ERROR

\* A call on a file, granted or refused, keeps the invariant.
LEMMA FileCallInv ==
    ASSUME Inv, NEW p \in Procs, NEW f \in Files, FileCall(p, f)
    PROVE  Inv'
<1>1. GoodLock(file_locks[f]) /\ TypeOK
  BY DEF Inv
<1>2. last' \in Calls /\ meta_lock' \in MetaLocks
  BY <1>1 DEF TypeOK, FileCall, get_exclusive_lock, get_shared_lock,
              release_lock, Reply, Calls, LOCK_SUCCESS, LOCK_ERROR
<1>3. \/ UNCHANGED file_locks
      \/ \E l : GoodLock(l) /\ file_locks' = [file_locks EXCEPT ![f] = l]
  BY <1>1, OperationsGood DEF FileCall, get_exclusive_lock, get_shared_lock,
                              release_lock
<1>4. \A g \in Files : GoodLock(file_locks'[g])
  BY <1>1, <1>3 DEF Inv, TypeOK
<1>5. file_locks' \in [Files -> LockRecords]
  BY <1>1, <1>3 DEF TypeOK, GoodLock
<1>6. \A g \in Files : file_locks'[g].owner = NoUser => file_locks'[g] = NoLock
  <2> SUFFICES ASSUME NEW g \in Files, file_locks'[g].owner = NoUser
               PROVE  file_locks'[g] = NoLock
    OBVIOUS
  <2> DEFINE l == file_locks'[g]
  <2>1. GoodLock(l) /\ l.owner = NoUser
    BY <1>4
  <2> HIDE DEF l
  <2>2. l \in LockRecords /\ l.ex_proc = NoProc /\ l.sh_procs = {}
    BY <2>1, UsersAssumption DEF GoodLock, LockRecords
  <2> QED BY <2>1, <2>2 DEF LockRecords, NoLock, l
<1> QED BY <1>2, <1>4, <1>5, <1>6 DEF Inv, TypeOK

\* Every call, on a file or on the metadata lock, keeps the invariant.
LEMMA NextInv == Inv /\ [Next]_vars => Inv'
<1> SUFFICES ASSUME Inv, [Next]_vars PROVE Inv'
  OBVIOUS
<1>1. ASSUME NEW p \in Procs, get_metadata_lock(p) PROVE Inv'
  BY <1>1, UsersAssumption
  DEF Inv, TypeOK, get_metadata_lock, Reply, Calls, MetaLocks,
      LOCK_SUCCESS, LOCK_ERROR
<1>2. ASSUME NEW p \in Procs, release_metadata_lock(p) PROVE Inv'
  BY <1>2, UsersAssumption
  DEF Inv, TypeOK, release_metadata_lock, Reply, Calls, MetaLocks,
      LOCK_SUCCESS, LOCK_ERROR
<1>3. CASE UNCHANGED vars
  BY <1>3 DEF vars, Inv, TypeOK
<1> QED BY <1>1, <1>2, <1>3, FileCallInv DEF Next

\* The invariant holds in every state the lock calls can reach.
LEMMA LockInvariance == Spec => []Inv
  BY InitInv, NextInv, PTL DEF Spec

\* Records, metadata lock and replies stay well formed.
THEOREM LockTypes == Spec => []TypeOK
<1>1. Inv => TypeOK
  BY DEF Inv
<1> QED BY <1>1, LockInvariance, PTL

\* The processes that hold a file are of the user the record names.
THEOREM LocksOfOneUser == Spec => []OneUserPerFile
  BY LockInvariance, InvImplies, PTL

\* No file stays owned by a user none of whose processes can give it back.
THEOREM LocksReleasable == Spec => []NoOrphanLock
  BY LockInvariance, InvImplies, PTL

-------------------------------------------------------------------------------
(* The refinement of UserLock *)

\* What each operation does to the processes that have the lock: a grant adds
\* the caller to holders of its own user, a release removes the caller or
\* empties the lock.
LEMMA HoldersStep ==
    ASSUME NEW p \in Procs, NEW l, GoodLock(l)
    PROVE  /\ CanGetExclusive(l, p) =>
                Holders(l) = {} /\ Holders(GetExclusive(l, p)) = {p}
           /\ CanGetShared(l, p) =>
                /\ \A q \in Holders(l) : UserOf[q] = UserOf[p]
                /\ Holders(GetShared(l, p)) = Holders(l) \cup {p}
           /\ CanRelease(l, p) =>
                /\ p \in Holders(l)
                /\ Holders(Release(l, p)) \in {{}, Holders(l) \ {p}}
<1> USE UsersAssumption DEF HasLock, HasExclusive, HasShared, Holders
<1>1. l \in LockRecords /\ p # NoProc /\ UserOf[p] # NoUser
      /\ \A q \in Procs : UserOf[q] # NoUser
  BY DEF GoodLock
<1>2. ASSUME CanGetExclusive(l, p)
      PROVE  Holders(l) = {} /\ Holders(GetExclusive(l, p)) = {p}
  <2>1. l.sh_procs = {} /\ Holders(l) = {}
    BY <1>1, <1>2 DEF GoodLock, CanGetExclusive, LockRecords
  <2>2. Holders(GetExclusive(l, p)) = {p}
    BY <1>1, <2>1 DEF GetExclusive, LockRecords
  <2> QED BY <2>1, <2>2
<1>3. ASSUME CanGetShared(l, p)
      PROVE  /\ \A q \in Holders(l) : UserOf[q] = UserOf[p]
             /\ Holders(GetShared(l, p)) = Holders(l) \cup {p}
  <2>1. \A q \in Holders(l) : UserOf[q] = UserOf[p]
    BY <1>1, <1>3 DEF GoodLock, CanGetShared, LockRecords
  <2>2. l.owner = NoUser => l.ex_proc = NoProc /\ l.sh_procs = {}
    BY <1>1 DEF GoodLock, LockRecords
  <2>3. Holders(GetShared(l, p)) = Holders(l) \cup {p}
    BY <1>1, <1>3, <2>2 DEF GetShared, CanGetShared, LockRecords
  <2> QED BY <2>1, <2>3
<1>4. ASSUME CanRelease(l, p)
      PROVE  /\ p \in Holders(l)
             /\ Holders(Release(l, p)) \in {{}, Holders(l) \ {p}}
  <2>1. p \in Holders(l)
    BY <1>4 DEF CanRelease
  <2>2. CASE l.ex_proc = p \/ l.sh_procs = {p}
    <3>1. Release(l, p) = NoLock
      BY <2>2 DEF Release
    <3>2. Holders(NoLock) = {}
      BY <1>1 DEF NoLock
    <3> QED BY <2>1, <3>1, <3>2
  <2>3. CASE ~(l.ex_proc = p \/ l.sh_procs = {p})
    <3>1. Release(l, p) = [l EXCEPT !.sh_procs = @ \ {p}]
      BY <2>3 DEF Release
    <3>2. Holders(Release(l, p)) = Holders(l) \ {p}
      BY <1>1, <2>3, <3>1 DEF LockRecords
    <3> QED BY <2>1, <3>2
  <2> QED BY <2>2, <2>3
<1> QED BY <1>2, <1>3, <1>4

\* A call on a file is a step of UserLock or leaves the holders as they are.
LEMMA FileCallRefines ==
    ASSUME Inv, NEW p \in Procs, NEW f \in Files, FileCall(p, f)
    PROVE  [Abstract!Next]_FileHolders
<1> DEFINE l == file_locks[f]
<1>1. GoodLock(l) /\ file_locks \in [Files -> LockRecords]
  BY DEF Inv, TypeOK
<1>2. CASE UNCHANGED file_locks
  BY <1>2 DEF FileHolders
<1>3. ASSUME NEW m, file_locks' = [file_locks EXCEPT ![f] = m]
      PROVE  FileHolders' = [FileHolders EXCEPT ![f] = Holders(m)]
  BY <1>1, <1>3 DEF FileHolders
<1>4. ASSUME CanGetExclusive(l, p),
             file_locks' = [file_locks EXCEPT ![f] = GetExclusive(l, p)]
      PROVE  Abstract!Join(p, f)
  <2>1. FileHolders' = [FileHolders EXCEPT ![f] = Holders(GetExclusive(l, p))]
    BY <1>3, <1>4
  <2>2. FileHolders[f] = Holders(l)
    BY DEF FileHolders
  <2>3. /\ \A q \in Holders(l) : UserOf[q] = UserOf[p]
        /\ Holders(GetExclusive(l, p)) = Holders(l) \cup {p}
    BY <1>1, <1>4, HoldersStep
  <2> QED BY <2>1, <2>2, <2>3 DEF Abstract!Join
<1>5. ASSUME CanGetShared(l, p),
             file_locks' = [file_locks EXCEPT ![f] = GetShared(l, p)]
      PROVE  Abstract!Join(p, f)
  BY <1>1, <1>3, <1>5, HoldersStep DEF FileHolders, Abstract!Join
<1>6. ASSUME CanRelease(l, p),
             file_locks' = [file_locks EXCEPT ![f] = Release(l, p)]
      PROVE  Abstract!Leave(p, f) \/ Abstract!EndHold(p, f)
  BY <1>1, <1>3, <1>6, HoldersStep DEF FileHolders, Abstract!Leave, Abstract!EndHold
<1> QED BY <1>2, <1>4, <1>5, <1>6
        DEF FileCall, get_exclusive_lock, get_shared_lock, release_lock,
            Abstract!Next

\* The code's lock records implement the abstract lock of UserLock: a file
\* changes user only through a moment when no process holds it.
THEOREM LocksImplementUserLock == Spec => ImplementsUserLock
<1>1. Init => Abstract!Init
  <2> SUFFICES ASSUME Init PROVE Abstract!Init
    OBVIOUS
  <2>1. Holders(NoLock) = {}
    BY UsersAssumption DEF Holders, HasLock, HasExclusive, HasShared, NoLock
  <2> QED BY <2>1 DEF Init, FileHolders, Abstract!Init
<1>2. Inv /\ [Next]_vars
        => [Abstract!Next]_FileHolders
  <2> SUFFICES ASSUME Inv, [Next]_vars
               PROVE  [Abstract!Next]_FileHolders
    OBVIOUS
  <2>1. CASE UNCHANGED file_locks
    BY <2>1 DEF FileHolders
  <2> QED BY <2>1, FileCallRefines
          DEF Next, vars, get_metadata_lock, release_metadata_lock
<1> QED BY <1>1, <1>2, InitInv, NextInv, PTL
        DEF Spec, ImplementsUserLock, Abstract!Spec

-------------------------------------------------------------------------------
(* Users do not disturb one another *)

\* No call takes a lock away from a process of another user, nor the metadata
\* lock from another process.
THEOREM UsersAreIsolated == Spec => StrangersCannotDisturb
<1> DEFINE Kept(q) ==
        /\ \A f \in Files : /\ HasLock(file_locks[f], q)
                             /\ UserOf[q] # UserOf[last'.proc]
                             => HasLock(file_locks'[f], q)
        /\ HasMetadata(meta_lock, q) /\ q # last'.proc
             => HasMetadata(meta_lock', q)
<1>1. ASSUME Inv, [Next]_vars PROVE [\A q \in Procs : Kept(q)]_vars
  <2>1. SUFFICES ASSUME Next, NEW q \in Procs PROVE Kept(q)
    BY <1>1
  <2>2. ASSUME NEW p \in Procs, NEW f \in Files, FileCall(p, f)
        PROVE  Kept(q)
    <3>1. last'.proc = p /\ UNCHANGED meta_lock
      BY <2>2 DEF FileCall, get_exclusive_lock, get_shared_lock,
                  release_lock, Reply
    <3>2. \A g \in Files : g # f => file_locks'[g] = file_locks[g]
      BY <1>1, <2>2 DEF FileCall, get_exclusive_lock, get_shared_lock,
                        release_lock, Inv, TypeOK
    <3>3. HasLock(file_locks[f], q) /\ UserOf[q] # UserOf[p]
            => UNCHANGED file_locks
      BY <1>1, <2>2, StrangersKeep
      DEF Inv, FileCall, get_exclusive_lock, get_shared_lock, release_lock
    <3> QED BY <3>1, <3>2, <3>3 DEF HasMetadata
  <2>3. ASSUME NEW p \in Procs,
               get_metadata_lock(p) \/ release_metadata_lock(p)
        PROVE  Kept(q)
    <3>1. last'.proc = p /\ UNCHANGED file_locks
      BY <2>3 DEF get_metadata_lock, release_metadata_lock, Reply
    <3>2. HasMetadata(meta_lock, q) /\ q # p => UNCHANGED meta_lock
      BY <2>3, UsersAssumption
      DEF get_metadata_lock, release_metadata_lock, HasMetadata
    <3> QED BY <3>1, <3>2 DEF HasMetadata
  <2> QED BY <2>1, <2>2, <2>3 DEF Next
<1> QED BY <1>1, InitInv, NextInv, PTL DEF Spec, StrangersCannotDisturb

-------------------------------------------------------------------------------
(* The layout of a file *)

\* The loop over the pieces of a range that lists their bytes, of which
\* LoopTurns says what it computes.
ByteTurn(a, b, c, q, s) == q \o BytesOf(s)

ByteLoop == INSTANCE FoldInduction WITH Op <- ByteTurn

-------------------------------------------------------------------------------
(* The places of the bytes *)

LEMMA SpanPlaces ==
    ASSUME NEW S \in Nat, S # 0, NEW C \in Nat, C # 0, NEW o \in Nat,
           NEW total, NEW x \in GoodSpans(S, C, o, total), NEW k \in 1 .. x.count
    PROVE  BytesOf(x)[k] = Place(S, C, o + x.from + k - 1)
<1>1. x.count \in Nat /\ x.offset \in Nat /\ x.from \in Nat
  BY DEF GoodSpans
<1> DEFINE d == k - 1
           p == o + x.from + d
<1>2. d \in 0 .. x.count - 1 /\ p = o + x.from + k - 1 /\ x.offset + d = x.offset + k - 1
  BY <1>1
<1>3. BytesOf(x)[k] = <<x.stripe, x.chunk, x.offset + k - 1>>
  BY DEF BytesOf
<1> HIDE DEF d
<1>4. Place(S, C, p) = <<x.stripe, x.chunk, x.offset + d>>
  BY <1>2, SpanByte
<1> HIDE DEF p
<1> QED BY <1>2, <1>3, <1>4

\* The places of a range, for all sizes, offsets and counts.
LEMMA PlacesRange ==
    ASSUME stripe_size \in Nat, stripe_size # 0, chunk_size \in Nat, chunk_size # 0,
           NEW o \in Nat, NEW total \in Nat
    PROVE  Places(o, total) =
               [k \in 1 .. total |-> Place(stripe_size, chunk_size, o + k - 1)]
<1> DEFINE spans == Spans(stripe_size, chunk_size, o, total)
           G == GoodSpans(stripe_size, chunk_size, o, total)
           n == Len(spans)
           W(k) == Place(stripe_size, chunk_size, o + k - 1)
<1>1. spans \in Seq(G) /\ Tiles(spans, 0, total)
  BY SpansRun
<1>2. Places(o, total) = ByteLoop!Loop(0, 0, 0, <<>>, spans)
  BY DEF Places, ByteLoop!Loop, ByteTurn, FoldLeft, ByteLoop!FoldLeft,
     MapThenFoldSet, ByteLoop!MapThenFoldSet, Max, ByteLoop!Max
<1>3. ASSUME NEW x \in G
      PROVE  /\ x.from \in Nat /\ x.count \in Nat
             /\ BytesOf(x) = [k \in 1 .. x.count |-> W(x.from + k)]
  <2>1. x.from \in Nat /\ x.count \in Nat
    BY DEF GoodSpans
  <2>2. ASSUME NEW k \in 1 .. x.count PROVE BytesOf(x)[k] = W(x.from + k)
    <3>1. o + x.from + k - 1 = o + (x.from + k) - 1
      BY <2>1
    <3> QED BY <3>1, SpanPlaces
  <2>3. BytesOf(x) = [k \in 1 .. x.count |-> BytesOf(x)[k]]
    BY DEF BytesOf
  <2> HIDE DEF W
  <2> QED BY <2>1, <2>2, <2>3
<1> HIDE DEF spans, G
<1>4. n \in Nat /\ DOMAIN spans = 1 .. n
  BY <1>1
<1> HIDE DEF n
<1>5. PICK h : ByteLoop!Turns(h, 0, 0, 0, <<>>, n, spans)
  BY <1>4, ByteLoop!LoopTurns
<1>6. /\ h[0] = <<>>
      /\ \A i \in 1 .. n : h[i] = ByteTurn(0, 0, 0, h[i - 1], spans[i])
      /\ h[n] = Places(o, total)
  BY <1>2, <1>5 DEF ByteLoop!Turns
<1> HIDE DEF W
<1> DEFINE To(k) == IF k = 0 THEN 0 ELSE spans[k].from + spans[k].count
           Done(k) == h[k] = [i \in 1 .. To(k) |-> W(i)]
           T == {k \in Nat : k <= n => Done(k)}
<1>7. 0 \in T
  <2>1. [i \in 1 .. 0 |-> W(i)] = <<>>
    OBVIOUS
  <2> QED BY <1>6, <2>1
<1>8. ASSUME NEW k \in Nat, k \in T PROVE k + 1 \in T
  <2> SUFFICES ASSUME k + 1 <= n PROVE Done(k + 1)
    OBVIOUS
  <2> DEFINE x == spans[k + 1]
             b == x.from
             c == x.count
  <2>1. Done(k) /\ k + 1 \in 1 .. n
    BY <1>4, <1>8
  <2>2. h[k + 1] = h[k] \o BytesOf(x)
    <3>1. k + 1 \in 1 .. n /\ k + 1 - 1 = k
      BY <1>4, <2>1
    <3>2. h[k + 1] = ByteTurn(0, 0, 0, h[k], x)
      BY <1>6, <3>1
    <3> QED BY <3>2 DEF ByteTurn
  <2>3. x \in G
    BY <1>1, <1>4, <2>1
  <2>4. b \in Nat /\ c \in Nat /\ BytesOf(x) = [i \in 1 .. c |-> W(b + i)]
    BY <1>3, <2>3
  <2>5. To(k) = b /\ To(k + 1) = b + c
    <3>1. To(k + 1) = b + c
      OBVIOUS
    <3>2. CASE k = 0
      <4>1. spans # <<>>
        BY <1>4, <2>1
      <4> QED BY <1>1, <3>1, <3>2, <4>1 DEF Tiles
    <3>3. CASE k # 0
      <4>1. k \in 1 .. Len(spans) - 1
        BY <1>4, <2>1, <3>3 DEF n
      <4>2. b = spans[k].from + spans[k].count
        BY <1>1, <4>1 DEF Tiles
      <4> QED BY <3>1, <3>3, <4>2
    <3> QED BY <3>2, <3>3
  <2>0. b \in Nat /\ c \in Nat
    BY <2>4
  <2> HIDE DEF b, c, To
  <2>6. [i \in 1 .. b |-> W(i)] \o [i \in 1 .. c |-> W(b + i)] =
          [i \in 1 .. b + c |-> W(i)]
    <3> DEFINE V == {W(i) : i \in 1 .. b + c}
               q == [i \in 1 .. b |-> W(i)]
               r == [i \in 1 .. c |-> W(b + i)]
               t == [i \in 1 .. b + c |-> W(i)]
    <3>1. q \in Seq(V) /\ Len(q) = b
      BY <2>0
    <3>2. r \in Seq(V) /\ Len(r) = c
      BY <2>0
    <3>3. \A i \in 1 .. b : q[i] = W(i)
      OBVIOUS
    <3>4. \A i \in 1 .. c : r[i] = W(b + i)
      OBVIOUS
    <3> HIDE DEF V, q, r
    <3> DEFINE u == q \o r
    <3>5. u \in Seq(V) /\ Len(u) = Len(q) + Len(r)
      BY <3>1, <3>2
    <3>6. ASSUME NEW i \in 1 .. b + c, i <= b PROVE u[i] = W(i)
      BY <2>0, <3>1, <3>2, <3>3, <3>6
    <3>7. ASSUME NEW i \in 1 .. b + c, i > b PROVE u[i] = W(i)
      <4>1. i - b \in 1 .. c /\ b + (i - b) = i
        BY <2>0, <3>7
      <4>2. u[i] = r[i - b]
        BY <2>0, <3>1, <3>2, <3>7
      <4> QED BY <3>4, <4>1, <4>2
    <3> HIDE DEF u
    <3>8. ASSUME NEW i \in 1 .. b + c PROVE u[i] = W(i)
      BY <2>0, <3>6, <3>7
    <3>9. u = [i \in 1 .. b + c |-> u[i]]
      <4>1. Len(u) = b + c
        BY <3>1, <3>2, <3>5
      <4> QED BY <3>5, <4>1
    <3> QED BY <3>8, <3>9 DEF q, r, u
  <2> QED BY <2>1, <2>2, <2>4, <2>5, <2>6
<1>9. Done(n)
  <2> HIDE DEF Done
  <2>1. n \in T
    <3> HIDE DEF T
    <3> QED BY <1>4, <1>7, <1>8, ByteLoop!NatSet
  <2> QED BY <1>4, <2>1
<1>10. To(n) = total
  <2>1. CASE n = 0
    BY <1>1, <1>4, <2>1 DEF Tiles, n
  <2>2. CASE n # 0
    BY <1>1, <1>4, <2>2 DEF Tiles, n
  <2> QED BY <2>1, <2>2
<1> QED BY <1>6, <1>9, <1>10 DEF W

-------------------------------------------------------------------------------
(* Files *)

\* The inductive invariant: the whole of `where', in one formula.
Layout == /\ stripe_size \in Nat /\ stripe_size # 0
          /\ chunk_size \in Nat /\ chunk_size # 0
          /\ size \in Nat
          /\ where = [k \in 1 .. size |-> Place(stripe_size, chunk_size, k - 1)]

LEMMA AppendLayout ==
    ASSUME Layout, NEW count \in Counts, AppendBytes(count)
    PROVE  Layout'
<1>1. count \in Nat /\ size \in Nat /\ size' = size + count
  BY SizesAssumption DEF Layout, AppendBytes
<1>2. stripe_size' = stripe_size /\ chunk_size' = chunk_size
  BY DEF AppendBytes
<1> DEFINE W(k) == Place(stripe_size, chunk_size, k - 1)
           q == [k \in 1 .. size |-> W(k)]
           r == [k \in 1 .. count |-> Place(stripe_size, chunk_size, size + k - 1)]
           u == q \o r
           V == {W(k) : k \in 1 .. size + count}
<1>3. where' = u
  <2>1. where = q /\ Places(size, count) = r
    BY <1>1, PlacesRange DEF Layout
  <2> HIDE DEF q, r
  <2> QED BY <2>1 DEF AppendBytes
<1>4. \A k \in 1 .. count : r[k] = W(size + k)
  BY <1>1
<1>5. \A k \in 1 .. size : q[k] = W(k)
  OBVIOUS
<1>6. q \in Seq(V) /\ Len(q) = size
  <2> HIDE DEF W
  <2> QED BY <1>1
<1>7. r \in Seq(V) /\ Len(r) = count
  <2>1. r = [k \in 1 .. count |-> W(size + k)]
    BY <1>1
  <2> HIDE DEF W, r
  <2> QED BY <1>1, <2>1
<1> HIDE DEF W, q, r, V
<1>8. u \in Seq(V) /\ Len(u) = Len(q) + Len(r)
  BY <1>6, <1>7
<1>9. ASSUME NEW k \in 1 .. size + count, k <= size PROVE u[k] = W(k)
  BY <1>1, <1>5, <1>6, <1>7, <1>9
<1>10. ASSUME NEW k \in 1 .. size + count, k > size PROVE u[k] = W(k)
  <2>1. k - size \in 1 .. count /\ size + (k - size) = k
    BY <1>1, <1>10
  <2>2. u[k] = r[k - size]
    BY <1>1, <1>6, <1>7, <1>10
  <2> QED BY <1>4, <2>1, <2>2
<1> HIDE DEF u
<1>11. ASSUME NEW k \in 1 .. size + count PROVE u[k] = W(k)
  BY <1>1, <1>9, <1>10
<1>12. u = [k \in 1 .. size + count |-> u[k]]
  <2>1. Len(u) = size + count
    BY <1>6, <1>7, <1>8
  <2> QED BY <1>8, <2>1
<1>13. u = [k \in 1 .. size + count |-> W(k)]
  BY <1>11, <1>12
<1> QED BY <1>1, <1>2, <1>3, <1>13 DEF Layout, W

LEMMA LayoutInvariance == FileSpec => []Layout
<1>1. FileInit => Layout
  <2> SUFFICES ASSUME FileInit PROVE Layout
    OBVIOUS
  <2>1. stripe_size \in Nat \ {0} /\ chunk_size \in Nat \ {0} /\ size = 0 /\ where = <<>>
    BY SizesAssumption DEF FileInit
  <2>2. <<>> = [k \in 1 .. 0 |-> Place(stripe_size, chunk_size, k - 1)]
    OBVIOUS
  <2> QED BY <2>1, <2>2 DEF Layout
<1>2. Layout /\ [FileNext]_layout_vars => Layout'
  <2> SUFFICES ASSUME Layout, [FileNext]_layout_vars PROVE Layout'
    OBVIOUS
  <2>1. CASE UNCHANGED layout_vars
    BY <2>1 DEF layout_vars, Layout
  <2>2. CASE FileNext
    BY <2>2, AppendLayout DEF FileNext
  <2> QED BY <2>1, <2>2
<1> QED BY <1>1, <1>2, PTL DEF FileSpec

\* For all stripe and chunk sizes and all sequences of appends, the loops of
\* write_file put each byte where division puts it.
THEOREM BytesPlaced == FileSpec => []BytesWhereDivisionPutsThem
<1>1. Layout => BytesWhereDivisionPutsThem
  <2> SUFFICES ASSUME Layout PROVE BytesWhereDivisionPutsThem
    OBVIOUS
  <2>1. size \in Nat /\ where = [k \in 1 .. size |-> Place(stripe_size, chunk_size, k - 1)]
    BY DEF Layout
  <2>2. Len(where) = size
    BY <2>1
  <2>3. ASSUME NEW k \in 0 .. size - 1
        PROVE  where[k + 1] = Place(stripe_size, chunk_size, k)
    <3>1. k + 1 \in 1 .. size /\ k + 1 - 1 = k
      BY <2>1
    <3> QED BY <2>1, <3>1
  <2> QED BY <2>2, <2>3 DEF BytesWhereDivisionPutsThem, Place
<1> QED BY <1>1, LayoutInvariance, PTL

\* A read of any range of any file asks for the bytes of that range, in order.
THEOREM ReadsRight == FileSpec => []ReadsAskForTheRange
<1>1. Layout => ReadsAskForTheRange
  <2> SUFFICES ASSUME Layout, NEW offset \in 0 .. size, NEW count \in 1 .. size - offset
               PROVE  Places(offset, count) = SubSeq(where, offset + 1, offset + count)
    BY DEF ReadsAskForTheRange
  <2> DEFINE W(k) == Place(stripe_size, chunk_size, k - 1)
  <2>1. /\ size \in Nat /\ offset \in Nat /\ count \in Nat /\ offset + count <= size
        /\ where = [k \in 1 .. size |-> W(k)]
    BY DEF Layout
  <2>2. Places(offset, count) = [k \in 1 .. count |-> W(offset + k)]
    <3>1. Places(offset, count) =
            [k \in 1 .. count |-> Place(stripe_size, chunk_size, offset + k - 1)]
      BY <2>1, PlacesRange DEF Layout
    <3>2. [k \in 1 .. count |-> Place(stripe_size, chunk_size, offset + k - 1)] =
            [k \in 1 .. count |-> W(offset + k)]
      BY <2>1
    <3> QED BY <3>1, <3>2
  <2> HIDE DEF W
  <2>3. SubSeq(where, offset + 1, offset + count) =
          [k \in 1 .. count |-> where[offset + k]]
    BY <2>1
  <2>4. ASSUME NEW k \in 1 .. count PROVE where[offset + k] = W(offset + k)
    BY <2>1
  <2> QED BY <2>2, <2>3, <2>4
<1> QED BY <1>1, LayoutInvariance, PTL

\* The keys of a read that stays in a stripe, or goes from stripe f of file f
\* to the next, are joined in the order of the file, each key once.
THEOREM PiecesOrdered == FileSpec => []PiecesInKeyOrder
<1>1. Layout => PiecesInKeyOrder
  <2> SUFFICES ASSUME Layout, NEW offset \in 0 .. size, NEW count \in 1 .. size - offset,
                      NEW f \in FileIds,
                      KeysAgree(f, Spans(stripe_size, chunk_size, offset, count)),
                      NEW i \in DOMAIN Spans(stripe_size, chunk_size, offset, count),
                      NEW j \in DOMAIN Spans(stripe_size, chunk_size, offset, count),
                      i < j
               PROVE  LET s == Spans(stripe_size, chunk_size, offset, count)
                          a == <<f, s[i].stripe, s[i].chunk>>
                          b == <<f, s[j].stripe, s[j].chunk>>
                      IN  ChunkOrder!ChunkLess(a, b) /\ ~ChunkOrder!ChunkLess(b, a)
    BY DEF PiecesInKeyOrder
  <2> DEFINE s == Spans(stripe_size, chunk_size, offset, count)
  <2>1. offset \in Nat /\ count \in Nat /\ f \in Nat
    BY SizesAssumption DEF Layout
  <2>2. KeysRise(s) /\ s \in Seq(GoodSpans(stripe_size, chunk_size, offset, count))
    BY <2>1, SpansRun DEF Layout
  <2> HIDE DEF s
  <2>3. \A k \in DOMAIN s : s[k].stripe \in Nat /\ s[k].chunk \in Nat
    BY <2>2 DEF GoodSpans
  <2>4. \/ s[i].stripe < s[j].stripe
        \/ s[i].stripe = s[j].stripe /\ s[i].chunk < s[j].chunk
    BY <2>2 DEF KeysRise, s
  <2>5. \/ s[i].stripe = s[j].stripe
        \/ s[i].stripe \in {f, f + 1} /\ s[j].stripe \in {f, f + 1}
    BY DEF KeysAgree, s
  <2>6. i \in DOMAIN s /\ j \in DOMAIN s
    BY DEF s
  <2>7. PICK p \in Nat : p = s[i].stripe
    BY <2>3, <2>6
  <2>8. PICK q \in Nat : q = s[j].stripe
    BY <2>3, <2>6
  <2>9. PICK c \in Nat : c = s[i].chunk
    BY <2>3, <2>6
  <2>10. PICK d \in Nat : d = s[j].chunk
    BY <2>3, <2>6
  <2>11. /\ ChunkOrder!ChunkLess(<<f, p, c>>, <<f, q, d>>)
         /\ ~ChunkOrder!ChunkLess(<<f, q, d>>, <<f, p, c>>)
    <3>1. /\ p < q \/ (p = q /\ c < d)
          /\ p = q \/ (p \in {f, f + 1} /\ q \in {f, f + 1})
      BY <2>4, <2>5, <2>7, <2>8, <2>9, <2>10
    <3> QED BY <2>1, <3>1 DEF ChunkOrder!ChunkLess
  <2> QED BY <2>7, <2>8, <2>9, <2>10, <2>11 DEF s
<1> QED BY <1>1, LayoutInvariance, PTL

-------------------------------------------------------------------------------
(* The mapped file of PersistentMap *)

\* The loop of open, of which LoopTurns says what it computes.
ScanTurn(s, b, c, U, i) == Scan(s, U, i)

Scanning == INSTANCE FoldInduction WITH Op <- ScanTurn

-------------------------------------------------------------------------------
(* The inductive invariant *)

Pairs == [key : Keys \cup {Free}, value : Values]

Ranges(n) == {e \in Nat \X Nat : e[1] < e[2] /\ e[2] <= n}

Types == /\ slots \in Seq(Pairs)
         /\ entries \in [DOMAIN entries -> 0 .. Len(slots) - 1]
         /\ DOMAIN entries \subseteq Keys
         /\ unallocated_extents \subseteq Ranges(Len(slots))
         /\ dangling \subseteq DOMAIN entries
         /\ scanned \in 0 .. Len(slots)

\* A pointer in the index is to a slot with its key.
PointersRight == \A k \in DOMAIN entries : Slot(entries[k]).key = k

\* The free slots are those an opening found, or what is left of the last
\* growth, in which nothing is written.
FreeIsFree ==
    \A e \in unallocated_extents :
        \/ e[1] < scanned
        \/ /\ unallocated_extents = {e}
           /\ \A i \in e[1] .. e[2] - 1 : Slot(i).key = Free

\* While nothing is erased a written slot is in the index.
WrittenIsKnown ==
    \A i \in DOMAIN slots :
        slots[i].key # Free => /\ slots[i].key \in DOMAIN entries
                               /\ entries[slots[i].key] = i - 1

IInv == /\ Types
        /\ ~reused => PointersRight /\ FreeIsFree
        /\ ~reused /\ ~erased => WrittenIsKnown

-------------------------------------------------------------------------------
(* Extents *)

LEMMA LeastNat ==
    ASSUME NEW T \in SUBSET Nat, T # {}
    PROVE  \E x \in T : \A y \in T : x <= y
<1>1. PICK x \in T : \A y \in T : ~(<<y, x>> \in OpToRel(<, Nat))
  BY NatLessThanWellFounded, WFMin
<1>2. ASSUME NEW y \in T PROVE x <= y
  <2>1. ~(y < x)
    BY <1>1 DEF OpToRel
  <2> QED BY <2>1
<1> QED BY <1>2

\* std::set::begin of extents that are there.
LEMMA FirstIn ==
    ASSUME NEW n \in Nat, NEW U, U \subseteq Ranges(n), U # {}
    PROVE  First(U) \in U
<1> DEFINE A == {e[1] : e \in U}
<1>1. A \in SUBSET Nat /\ A # {}
  BY DEF Ranges
<1>2. PICK a \in A : \A y \in A : a <= y
  BY <1>1, LeastNat
<1> DEFINE B == {e[2] : e \in {g \in U : g[1] = a}}
<1>3. B \in SUBSET Nat /\ B # {}
  BY <1>2 DEF Ranges
<1>4. PICK b \in B : \A y \in B : b <= y
  BY <1>3, LeastNat
<1>5. PICK e \in U : e[1] = a /\ e[2] = b
  BY <1>4
<1>6. ASSUME NEW g \in U PROVE g = e \/ Less(e, g)
  <2>1. /\ g \in Nat \X Nat /\ e \in Nat \X Nat
        /\ g = <<g[1], g[2]>> /\ e = <<e[1], e[2]>>
    BY DEF Ranges
  <2>2. a <= g[1]
    BY <1>2
  <2>3. g[1] = a => b <= g[2]
    BY <1>4
  <2> QED BY <1>5, <2>1, <2>2, <2>3 DEF Less
<1> HIDE DEF A, B
<1> QED BY <1>6 DEF First

\* deallocate, with its second division, stays within the file.
LEMMA DeallocateRanges ==
    ASSUME NEW n \in Nat, NEW U, U \subseteq Ranges(n), NEW index \in 0 .. n - 1
    PROVE  deallocate(U, index) \subseteq Ranges(n)
<1> DEFINE start  == index \div PairSize
           one    == <<start, start + 1>>
           before == {e \in Preceding(U, one) : e[2] = start}
           after  == {e \in Following(U, one) : e[1] = start + 1}
           joined == <<IF before = {} THEN start ELSE First(before)[1],
                       IF after = {} THEN start + 1 ELSE First(after)[2]>>
<1>1. start \in Nat /\ start <= index
  BY MapAssumption
<1>2. before \subseteq Ranges(n) /\ after \subseteq Ranges(n)
  BY DEF Preceding, Following
<1>3. before # {} => First(before) \in before
  BY <1>2, FirstIn
<1>4. after # {} => First(after) \in after
  BY <1>2, FirstIn
<1>5. before # {} => First(before)[1] \in Nat /\ First(before)[1] < start
  BY <1>2, <1>3 DEF Ranges
<1>6. after # {} => First(after)[2] \in Nat /\ start + 1 < First(after)[2]
                    /\ First(after)[2] <= n
  BY <1>1, <1>2, <1>4 DEF Ranges
<1>7. deallocate(U, index) = (U \ (before \cup after)) \cup {joined}
  BY DEF deallocate
<1> HIDE DEF start, before, after
<1>8. joined \in Ranges(n)
  BY <1>1, <1>5, <1>6 DEF Ranges
<1> QED BY <1>7, <1>8

\* open's scan: whatever it finds free is within the file.
LEMMA ScanRanges ==
    ASSUME NEW s \in Seq(Pairs)
    PROVE  FoldLeft(LAMBDA U, i : Scan(s, U, i), {}, [i \in DOMAIN s |-> i])
              \subseteq Ranges(Len(s))
<1> DEFINE n == Len(s)
           seq == [i \in DOMAIN s |-> i]
<1>1. n \in Nat /\ DOMAIN seq = 1 .. n /\ DOMAIN s = 1 .. n
  OBVIOUS
<1>2. Scanning!Loop(s, 0, 0, {}, seq) =
        FoldLeft(LAMBDA U, i : Scan(s, U, i), {}, seq)
  BY DEF Scanning!Loop, ScanTurn, FoldLeft, Scanning!FoldLeft,
     MapThenFoldSet, Scanning!MapThenFoldSet, Max, Scanning!Max
<1> DEFINE total == FoldLeft(LAMBDA U, i : Scan(s, U, i), {}, seq)
<1> SUFFICES total \subseteq Ranges(n)
  OBVIOUS
<1>3. Scanning!Loop(s, 0, 0, {}, seq) = total
  BY <1>2
<1>4. \A i \in 1 .. n : seq[i] = i
  BY <1>1
<1> HIDE DEF total, seq, n
<1>5. PICK h : Scanning!Turns(h, s, 0, 0, {}, n, seq)
  BY <1>1, Scanning!LoopTurns
<1>6. /\ h[0] = {}
      /\ \A i \in 1 .. n : h[i] = ScanTurn(s, 0, 0, h[i - 1], seq[i])
      /\ h[n] = Scanning!Loop(s, 0, 0, {}, seq)
  BY <1>5 DEF Scanning!Turns
<1> DEFINE T == {k \in Nat : k <= n => h[k] \subseteq Ranges(n)}
<1>7. 0 \in T
  BY <1>6
<1>8. ASSUME NEW k \in Nat, k \in T PROVE k + 1 \in T
  <2> SUFFICES ASSUME k + 1 <= n PROVE h[k + 1] \subseteq Ranges(n)
    OBVIOUS
  <2>1. k + 1 \in 1 .. n /\ k + 1 - 1 = k
    BY <1>1
  <2>2. h[k + 1] = Scan(s, h[k], k + 1)
    BY <1>1, <1>4, <1>6, <2>1 DEF ScanTurn
  <2>3. h[k] \subseteq Ranges(n)
    BY <1>1, <1>8
  <2>4. deallocate(h[k], k) \subseteq Ranges(n)
    BY <1>1, <2>1, <2>3, DeallocateRanges
  <2> QED BY <2>1, <2>2, <2>3, <2>4 DEF Scan
<1> HIDE DEF T
<1>9. n \in T
  BY <1>1, <1>7, <1>8, Scanning!NatSet
<1> QED BY <1>1, <1>6, <1>3, <1>9 DEF T

-------------------------------------------------------------------------------
(* The operations *)

LEMMA ShrunkRanges ==
    ASSUME NEW n \in Nat, NEW U, U \subseteq Ranges(n), U # {}
    PROVE  Shrunk(U) \subseteq Ranges(n)
<1> DEFINE begin == First(U)
<1>1. begin \in U /\ begin \in Ranges(n)
  BY FirstIn
<1> HIDE DEF begin
<1>2. begin[1] + 1 # begin[2] => <<begin[1] + 1, begin[2]>> \in Ranges(n)
  BY <1>1 DEF Ranges
<1> QED BY <1>2 DEF Shrunk, begin

\* A new entry in a slot known to be free.
LEMMA AddFree ==
    ASSUME IInv, NEW k \in Keys, NEW v \in Values, k \notin DOMAIN entries,
           unallocated_extents # {}, AddEntry(k, v), UNCHANGED <<scanned, erased>>
    PROVE  IInv'
<1> DEFINE U == unallocated_extents
           b == First(U)
           pair == [key |-> k, value |-> v]
           n == Len(slots)
<1>1. /\ Types /\ n \in Nat /\ DOMAIN slots = 1 .. n /\ pair \in Pairs
      /\ slots \in [1 .. n -> Pairs]
  <2>1. pair \in Pairs
    BY DEF Pairs
  <2> QED BY <2>1 DEF IInv, Types
<1>2. b \in U /\ b \in Nat \X Nat /\ b[1] < b[2] /\ b[2] <= n
  BY <1>1, FirstIn DEF Types, Ranges
<1>3. AllocatedSlot = b[1]
  BY DEF AllocatedSlot
<1> HIDE DEF b, pair
<1>4. /\ slots' = [slots EXCEPT ![b[1] + 1] = pair]
      /\ entries' = [x \in DOMAIN entries \cup {k} |->
                        IF x = k THEN b[1] ELSE entries[x]]
      /\ U' = Shrunk(U)
      /\ reused' = (reused \/ b[1] < scanned)
      /\ dangling' = dangling
  BY <1>3 DEF AddEntry, pair
<1>5. b[1] + 1 \in 1 .. n /\ b[1] \in 0 .. n - 1
  BY <1>1, <1>2
<1>6. slots' \in [1 .. n -> Pairs] /\ slots' \in Seq(Pairs) /\ Len(slots') = n
  BY <1>1, <1>4, <1>5
<1>7. Types'
  <2>1. U' \subseteq Ranges(n)
    BY <1>1, <1>4, ShrunkRanges DEF Types
  <2>2. entries' \in [DOMAIN entries' -> 0 .. n - 1] /\ DOMAIN entries' \subseteq Keys
    BY <1>1, <1>4, <1>5 DEF Types
  <2> QED BY <1>1, <1>4, <1>6, <2>1, <2>2 DEF Types
<1>8. ASSUME ~reused'
      PROVE  PointersRight' /\ FreeIsFree' /\ (~erased => WrittenIsKnown')
  <2>1. ~reused /\ ~(b[1] < scanned)
    BY <1>4, <1>8
  <2>2. /\ PointersRight /\ U = {b}
        /\ \A i \in b[1] .. b[2] - 1 : slots[i + 1].key = Free
    BY <1>2, <2>1 DEF IInv, FreeIsFree, Slot
  <2>3. slots[b[1] + 1].key = Free /\ Free \notin Keys
    BY <1>2, <2>2, MapAssumption
  <2>4. ASSUME NEW x \in DOMAIN entries
        PROVE  /\ x \in Keys /\ entries[x] + 1 \in 1 .. n /\ slots[entries[x] + 1].key = x
               /\ entries[x] # b[1]
    BY <1>1, <2>2, <2>3 DEF Types, PointersRight, Slot
  <2>5. PointersRight'
    <3>1. ASSUME NEW x \in DOMAIN entries' PROVE slots'[entries'[x] + 1].key = x
      <4>1. CASE x = k
        BY <1>1, <1>4, <1>5, <4>1 DEF pair
      <4>2. CASE x # k
        <5>1. x \in DOMAIN entries /\ entries'[x] = entries[x]
          BY <1>4, <4>2
        <5>2. entries[x] + 1 \in 1 .. n /\ entries[x] + 1 # b[1] + 1
          BY <1>1, <1>2, <2>4, <5>1 DEF Types
        <5> QED BY <1>1, <1>4, <2>4, <5>1, <5>2
      <4> QED BY <4>1, <4>2
    <3> QED BY <3>1 DEF PointersRight, Slot
  <2>6. FreeIsFree'
    <3>1. First({b}) = b
      BY DEF First
    <3>2. U' = IF b[1] + 1 = b[2] THEN {} ELSE {<<b[1] + 1, b[2]>>}
      BY <1>4, <2>2, <3>1 DEF Shrunk
    <3>3. ASSUME NEW i \in b[1] + 1 .. b[2] - 1 PROVE slots'[i + 1].key = Free
      BY <1>1, <1>2, <1>4, <2>2
    <3>4. ASSUME NEW e \in U'
          PROVE  U' = {e} /\ \A i \in e[1] .. e[2] - 1 : slots'[i + 1].key = Free
      <4>1. e = <<b[1] + 1, b[2]>> /\ U' = {e}
        BY <3>2
      <4> QED BY <3>3, <4>1
    <3> QED BY <3>4 DEF FreeIsFree, Slot
  <2>7. ASSUME ~erased PROVE WrittenIsKnown'
    <3>1. WrittenIsKnown
      BY <2>1, <2>7 DEF IInv
    <3>2. ASSUME NEW i \in 1 .. n, slots'[i].key # Free
          PROVE  slots'[i].key \in DOMAIN entries' /\ entries'[slots'[i].key] = i - 1
      <4>1. CASE i = b[1] + 1
        <5>1. slots'[i].key = k
          BY <1>1, <1>4, <4>1 DEF pair
        <5> QED BY <1>2, <1>4, <4>1, <5>1
      <4>2. CASE i # b[1] + 1
        <5>1. slots'[i] = slots[i]
          BY <1>1, <1>4, <4>2
        <5>2. slots[i].key \in DOMAIN entries /\ entries[slots[i].key] = i - 1
          BY <1>1, <3>1, <3>2, <5>1 DEF WrittenIsKnown
        <5> QED BY <1>4, <5>1, <5>2
      <4> QED BY <4>1, <4>2
    <3> QED BY <1>6, <3>2 DEF WrittenIsKnown
  <2> QED BY <2>5, <2>6, <2>7
<1> QED BY <1>7, <1>8 DEF IInv

\* A new entry in the first slot of a growth.
LEMMA AddGrown ==
    ASSUME IInv, NEW k \in Keys, NEW v \in Values, k \notin DOMAIN entries,
           unallocated_extents = {}, AddEntry(k, v), UNCHANGED <<scanned, erased>>
    PROVE  IInv'
<1> DEFINE n == Len(slots)
           pair == [key |-> k, value |-> v]
           new == [i \in 1 .. GrowBy |-> IF i = 1 THEN pair
                                         ELSE [key |-> Free, value |-> T0]]
<1>1. /\ Types /\ n \in Nat /\ GrowBy \in Nat /\ GrowBy > 1
      /\ DOMAIN slots = 1 .. n /\ pair \in Pairs /\ slots \in Seq(Pairs)
  BY MapAssumption DEF IInv, Types, Pairs
<1>2. new \in Seq(Pairs) /\ Len(new) = GrowBy
  <2>1. new \in [1 .. GrowBy -> Pairs]
    BY <1>1, MapAssumption DEF Pairs
  <2> QED BY <1>1, <2>1
<1>3. /\ slots' = slots \o new
      /\ entries' = [x \in DOMAIN entries \cup {k} |-> IF x = k THEN n ELSE entries[x]]
      /\ unallocated_extents' = {<<n + 1, n + GrowBy>>}
      /\ reused' = reused
      /\ dangling' \in {dangling, DOMAIN entries}
  BY DEF AddEntry, AllocatedSlot, NewExtent
<1>4. /\ slots' \in Seq(Pairs) /\ Len(slots') = n + GrowBy
      /\ DOMAIN slots' = 1 .. n + GrowBy
      /\ \A i \in 1 .. n : slots'[i] = slots[i]
      /\ slots'[n + 1] = pair
      /\ \A i \in n + 2 .. n + GrowBy : slots'[i].key = Free
  <2>1. new[1] = pair
    BY <1>1
  <2>2. \A j \in 2 .. GrowBy : new[j].key = Free
    BY <1>1
  <2> HIDE DEF new, pair
  <2>3. slots' \in Seq(Pairs) /\ Len(slots') = n + GrowBy
    <3>1. slots \o new \in Seq(Pairs) /\ Len(slots \o new) = Len(slots) + Len(new)
      BY <1>1, <1>2
    <3> QED BY <1>2, <1>3, <3>1
  <2>4. \A i \in 1 .. n + GrowBy : slots'[i] = IF i <= n THEN slots[i] ELSE new[i - n]
    BY <1>1, <1>2, <1>3
  <2>5. slots'[n + 1] = pair
    BY <1>1, <2>1, <2>4
  <2>6. ASSUME NEW i \in n + 2 .. n + GrowBy PROVE slots'[i].key = Free
    BY <1>1, <2>2, <2>4
  <2> QED BY <1>1, <2>3, <2>4, <2>5, <2>6
<1> HIDE DEF new
<1>5. Types'
  <2>1. unallocated_extents' \subseteq Ranges(n + GrowBy)
    BY <1>1, <1>3 DEF Ranges
  <2>2. entries' \in [DOMAIN entries' -> 0 .. n + GrowBy - 1]
        /\ DOMAIN entries' \subseteq Keys
    BY <1>1, <1>3 DEF Types
  <2> QED BY <1>1, <1>3, <1>4, <2>1, <2>2 DEF Types
<1>6. ASSUME ~reused
      PROVE  PointersRight' /\ FreeIsFree' /\ (~erased => WrittenIsKnown')
  <2>1. PointersRight
    BY <1>6 DEF IInv
  <2>2. PointersRight'
    <3>1. ASSUME NEW x \in DOMAIN entries' PROVE slots'[entries'[x] + 1].key = x
      <4>1. CASE x = k
        <5>1. entries'[x] = n
          BY <1>3, <4>1
        <5> QED BY <1>4, <4>1, <5>1
      <4>2. CASE x # k
        <5>1. x \in DOMAIN entries /\ entries'[x] = entries[x]
          BY <1>3, <4>2
        <5>2. entries[x] + 1 \in 1 .. n
          BY <1>1, <5>1 DEF Types
        <5> QED BY <1>4, <2>1, <5>1, <5>2 DEF PointersRight, Slot
      <4> QED BY <4>1, <4>2
    <3> QED BY <3>1 DEF PointersRight, Slot
  <2>3. FreeIsFree'
    <3>1. ASSUME NEW i \in n + 1 .. n + GrowBy - 1 PROVE slots'[i + 1].key = Free
      BY <1>1, <1>4
    <3>2. ASSUME NEW e \in unallocated_extents'
          PROVE  /\ unallocated_extents' = {e}
                 /\ \A i \in e[1] .. e[2] - 1 : slots'[i + 1].key = Free
      <4>1. e = <<n + 1, n + GrowBy>> /\ unallocated_extents' = {e}
        BY <1>3
      <4>2. e[1] = n + 1 /\ e[2] = n + GrowBy
        BY <4>1
      <4>3. \A i \in e[1] .. e[2] - 1 : i \in n + 1 .. n + GrowBy - 1
        BY <1>1, <4>2
      <4> QED BY <3>1, <4>1, <4>3
    <3> QED BY <3>2 DEF FreeIsFree, Slot
  <2>4. ASSUME ~erased PROVE WrittenIsKnown'
    <3>1. ASSUME NEW i \in 1 .. n + GrowBy, slots'[i].key # Free
          PROVE  slots'[i].key \in DOMAIN entries' /\ entries'[slots'[i].key] = i - 1
      <4>1. CASE i <= n
        <5>1. slots[i].key \in DOMAIN entries /\ entries[slots[i].key] = i - 1
          BY <1>1, <1>4, <1>6, <2>4, <3>1, <4>1 DEF IInv, WrittenIsKnown
        <5> QED BY <1>3, <1>4, <4>1, <5>1
      <4>2. CASE i = n + 1
        BY <1>1, <1>3, <1>4, <4>2
      <4> QED BY <1>1, <1>4, <3>1, <4>1, <4>2
    <3> QED BY <1>4, <3>1 DEF WrittenIsKnown
  <2> QED BY <2>2, <2>3, <2>4
<1> QED BY <1>3, <1>5, <1>6 DEF IInv

\* An assignment to an entry's value leaves its key.
LEMMA AssignIInv ==
    ASSUME IInv, NEW k \in DOMAIN entries, NEW v \in Values,
           slots' = [slots EXCEPT ![entries[k] + 1].value = v],
           UNCHANGED <<entries, unallocated_extents, dangling, reused, scanned, erased>>
    PROVE  IInv'
<1> DEFINE n == Len(slots)
<1>1. /\ Types /\ n \in Nat /\ slots \in [1 .. n -> Pairs]
  BY DEF IInv, Types
<1>2. slots' \in [1 .. n -> Pairs] /\ \A i \in 1 .. n : slots'[i].key = slots[i].key
  <2>1. entries[k] + 1 \in 1 .. n
    BY <1>1 DEF Types
  <2>2. ASSUME NEW i \in 1 .. n
        PROVE  slots'[i] \in Pairs /\ slots'[i].key = slots[i].key
    <3>1. slots[i] \in Pairs /\ [slots[i] EXCEPT !.value = v] \in Pairs
      BY <1>1 DEF Pairs
    <3>2. slots'[i] = slots[i] \/ slots'[i] = [slots[i] EXCEPT !.value = v]
      BY <1>1, <2>1
    <3> QED BY <3>1, <3>2 DEF Pairs
  <2>3. slots' = [i \in 1 .. n |-> slots'[i]]
    BY <1>1
  <2> QED BY <2>2, <2>3
<1>3. slots' \in Seq(Pairs) /\ Len(slots') = n /\ DOMAIN slots' = 1 .. n
      /\ DOMAIN slots = 1 .. n
  BY <1>1, <1>2
<1>4. Types'
  BY <1>1, <1>3 DEF Types
<1>5. PointersRight => PointersRight'
  BY <1>1, <1>2 DEF PointersRight, Slot, Types
<1>6. FreeIsFree => FreeIsFree'
  <2>1. ASSUME NEW e \in unallocated_extents, NEW i \in e[1] .. e[2] - 1
        PROVE  i + 1 \in 1 .. n
    BY <1>1 DEF Types, Ranges
  <2> QED BY <1>2, <2>1 DEF FreeIsFree, Slot
<1>7. WrittenIsKnown => WrittenIsKnown'
  BY <1>2, <1>3 DEF WrittenIsKnown
<1> QED BY <1>4, <1>5, <1>6, <1>7 DEF IInv

LEMMA EraseIInv ==
    ASSUME IInv, NEW k \in Keys, erase(k)
    PROVE  IInv'
<1>1. /\ UNCHANGED <<unallocated_extents, slots, scanned, reused>>
      /\ entries' = [x \in DOMAIN entries \ {k} |-> entries[x]]
      /\ erased' = TRUE
      /\ dangling' = dangling \ {k}
  BY DEF erase
<1>2. Types'
  BY <1>1 DEF IInv, Types
<1>3. PointersRight => PointersRight'
  BY <1>1 DEF PointersRight, Slot
<1>4. FreeIsFree => FreeIsFree'
  BY <1>1 DEF FreeIsFree, Slot
<1> QED BY <1>1, <1>2, <1>3, <1>4 DEF IInv

\* A key that some slot has is found at the first such slot.
LEMMA FirstWithFinds ==
    ASSUME Types, NEW k \in Found
    PROVE  /\ FirstWith(k) \in DOMAIN slots
           /\ slots[FirstWith(k)].key = k
<1> DEFINE T == {i \in DOMAIN slots : slots[i].key = k}
<1>1. T \in SUBSET Nat /\ T # {}
  BY DEF Found, Types
<1>2. PICK i \in T : \A j \in T : i <= j
  BY <1>1, LeastNat
<1>3. i \in DOMAIN slots /\ slots[i].key = k /\ \A j \in 1 .. i - 1 : slots[j].key # k
  <2>1. ASSUME NEW j \in 1 .. i - 1, slots[j].key = k PROVE FALSE
    <3>1. DOMAIN slots = 1 .. Len(slots) /\ Len(slots) \in Nat /\ i \in 1 .. Len(slots)
      BY <1>2 DEF Types
    <3>2. j \in DOMAIN slots
      BY <3>1
    <3> QED BY <1>2, <2>1, <3>1, <3>2
  <2> QED BY <1>2, <2>1
<1> QED BY <1>3 DEF FirstWith

LEMMA OpenIInv ==
    ASSUME IInv, open
    PROVE  IInv'
<1> DEFINE n == Len(slots)
<1>1. /\ UNCHANGED <<slots, erased, reused>>
      /\ scanned' = n
      /\ dangling' = {}
      /\ entries' = [k \in Found |-> FirstWith(k) - 1]
  BY DEF open
<1>2. Types /\ slots \in Seq(Pairs) /\ n \in Nat /\ DOMAIN slots = 1 .. n
  BY DEF IInv, Types
<1>3. unallocated_extents' \subseteq Ranges(n)
  BY <1>2, ScanRanges DEF open
<1>4. Found \subseteq Keys
  <2>1. ASSUME NEW i \in DOMAIN slots PROVE slots[i].key \in Keys \cup {Free}
    <3>1. slots[i] \in Pairs
      BY <1>2
    <3> QED BY <3>1 DEF Pairs
  <2> QED BY <2>1 DEF Found
<1>5. Types'
  <2>1. entries' \in [Found -> 0 .. n - 1]
    BY <1>1, <1>2, FirstWithFinds
  <2> QED BY <1>1, <1>2, <1>3, <1>4, <2>1 DEF Types
<1>6. PointersRight'
  <2>1. ASSUME NEW k \in Found PROVE slots[FirstWith(k) - 1 + 1].key = k
    BY <1>2, FirstWithFinds
  <2> QED BY <1>1, <2>1 DEF PointersRight, Slot
<1>7. FreeIsFree'
  BY <1>1, <1>2, <1>3 DEF FreeIsFree, Ranges
<1>8. ASSUME ~reused, ~erased PROVE WrittenIsKnown'
  <2>1. ASSUME NEW i \in 1 .. n, slots[i].key # Free
        PROVE  slots[i].key \in Found /\ FirstWith(slots[i].key) = i
    <3> DEFINE k == slots[i].key
    <3>1. k \in Found
      BY <1>2, <2>1 DEF Found
    <3>2. FirstWith(k) \in 1 .. n /\ slots[FirstWith(k)].key = k
      BY <1>2, <3>1, FirstWithFinds
    <3>3. entries[k] = i - 1 /\ entries[k] = FirstWith(k) - 1
      BY <1>2, <1>8, <2>1, <3>2 DEF IInv, WrittenIsKnown
    <3> QED BY <3>1, <3>2, <3>3
  <2> QED BY <1>1, <1>2, <2>1 DEF WrittenIsKnown
<1> QED BY <1>1, <1>5, <1>6, <1>7, <1>8 DEF IInv

LEMMA NextIInv == IInv /\ [MapNext]_mapVars => IInv'
<1> SUFFICES ASSUME IInv, [MapNext]_mapVars PROVE IInv'
  OBVIOUS
<1>1. ASSUME UNCHANGED <<entries, unallocated_extents, slots, dangling, scanned,
                         erased, reused>>
      PROVE  IInv'
  BY <1>1 DEF IInv, Types, PointersRight, FreeIsFree, WrittenIsKnown, Slot
<1>2. ASSUME NEW k \in Keys, NEW v \in Values, k \notin DOMAIN entries,
             AddEntry(k, v), UNCHANGED <<scanned, erased>>
      PROVE  IInv'
  BY <1>2, AddFree, AddGrown
<1>3. ASSUME NEW k \in Keys, NEW v \in Values, insert(k, v) PROVE IInv'
  BY <1>2, <1>3 DEF insert
<1>4. ASSUME NEW k \in Keys, NEW v \in Values, assign(k, v) PROVE IInv'
  BY <1>2, <1>4, AssignIInv DEF assign
<1>5. ASSUME NEW k \in Keys, UseDangling(k) PROVE IInv'
  BY <1>1, <1>5 DEF UseDangling
<1>6. CASE close
  BY <1>1, <1>6 DEF close
<1>7. CASE UNCHANGED mapVars
  BY <1>1, <1>7 DEF mapVars
<1> QED BY <1>3, <1>4, <1>5, <1>6, <1>7, EraseIInv, OpenIInv DEF MapNext

LEMMA InitIInv == MapInit => IInv
<1> SUFFICES ASSUME MapInit PROVE IInv
  OBVIOUS
<1>1. DOMAIN Nothing = {} /\ Nothing \in [{} -> 0 .. Len(slots) - 1]
  BY DEF Nothing
<1>2. slots = <<>> /\ Len(slots) = 0 /\ DOMAIN slots = {} /\ slots \in Seq(Pairs)
  BY DEF MapInit
<1>3. Types
  BY <1>1, <1>2 DEF MapInit, Types
<1> QED BY <1>1, <1>2, <1>3 DEF MapInit, IInv, PointersRight, FreeIsFree, WrittenIsKnown

LEMMA Invariance == MapSpec => []IInv
  BY InitIInv, NextIInv, PTL DEF MapSpec

-------------------------------------------------------------------------------
(* Theorems *)

\* The index and the free extents never point beyond the mapping, although
\* deallocate computes wrong positions.
THEOREM MapTypes == MapSpec => []MapTypeOK
<1>1. IInv => MapTypeOK
  <2> SUFFICES ASSUME Types PROVE MapTypeOK
    BY DEF IInv
  <2>1. \A e \in unallocated_extents : /\ 0 <= e[1] /\ e[1] < e[2]
                                         /\ e[2] <= Len(slots)
    BY DEF Types, Ranges
  <2>2. \A i \in DOMAIN slots : slots[i] \in Pairs
    BY DEF Types
  <2> QED BY <2>1, <2>2 DEF Types, MapTypeOK, Pairs
<1> QED BY <1>1, Invariance, PTL

\* Until a slot found free on opening is given out, no two entries share a slot.
THEOREM EntriesApart == MapSpec => []SlotsApart
<1>1. IInv => SlotsApart
  BY DEF IInv, PointersRight, SlotsApart
<1> QED BY <1>1, Invariance, PTL

\* An opening gives back what the map held, if nothing was erased.
THEOREM OpeningRecovers == MapSpec => ReopenRecovers
<1> DEFINE Kept == opens' # opens /\ ~erased /\ ~reused =>
        [k \in DOMAIN entries' |-> slots'[entries'[k] + 1].value] = Contents
<1>1. ASSUME IInv, open, ~erased, ~reused
      PROVE  [k \in DOMAIN entries' |-> slots'[entries'[k] + 1].value] = Contents
  <2>1. Types /\ PointersRight /\ WrittenIsKnown
    BY <1>1 DEF IInv
  <2>2. entries' = [k \in Found |-> FirstWith(k) - 1] /\ slots' = slots
    BY <1>1 DEF open
  <2>3. DOMAIN entries = Found
    <3>1. ASSUME NEW k \in DOMAIN entries PROVE k \in Found
      BY <2>1, MapAssumption DEF Types, PointersRight, Slot, Found
    <3>2. ASSUME NEW k \in Found PROVE k \in DOMAIN entries
      BY <2>1 DEF Found, WrittenIsKnown
    <3> QED BY <3>1, <3>2
  <2>4. ASSUME NEW k \in Found PROVE FirstWith(k) - 1 = entries[k]
    BY <2>1, FirstWithFinds DEF Found, WrittenIsKnown
  <2> QED BY <2>2, <2>3, <2>4 DEF Contents, Slot
<1>2. IInv /\ [MapNext]_mapVars => Kept
  <2> SUFFICES ASSUME IInv, [MapNext]_mapVars, opens' # opens, ~erased, ~reused
               PROVE  [k \in DOMAIN entries' |-> slots'[entries'[k] + 1].value] = Contents
    OBVIOUS
  <2>1. open
    BY DEF MapNext, mapVars, insert, assign, erase, UseDangling, close
  <2> QED BY <1>1, <2>1
<1>3. MapSpec => [][Kept]_mapVars
  BY <1>2, Invariance, PTL DEF MapSpec
<1> QED BY <1>3, PTL DEF ReopenRecovers

\* Whatever was erased, an opening loses no key.
THEOREM OpeningLosesNothing == MapSpec => ReopenLosesNothing
<1> DEFINE Kept == opens' # opens /\ ~reused => DOMAIN entries \subseteq DOMAIN entries'
<1>1. IInv /\ [MapNext]_mapVars => Kept
  <2> SUFFICES ASSUME IInv, [MapNext]_mapVars, opens' # opens, ~reused,
                      NEW k \in DOMAIN entries
               PROVE  k \in DOMAIN entries'
    OBVIOUS
  <2>1. open
    BY DEF MapNext, mapVars, insert, assign, erase, UseDangling, close
  <2>2. DOMAIN entries' = Found
    BY <2>1 DEF open
  <2>3. k \in Found
    BY MapAssumption DEF IInv, Types, PointersRight, Slot, Found
  <2> QED BY <2>2, <2>3
<1>2. MapSpec => [][Kept]_mapVars
  BY <1>1, Invariance, PTL DEF MapSpec
<1> QED BY <1>2 DEF ReopenLosesNothing
===============================================================================
