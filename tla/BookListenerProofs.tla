------------------------- MODULE BookListenerProofs -------------------------
(***************************************************************************)
(* The lock, the memory and the deltas of an order book listener, for any     *)
(* prices, entries, sizes and recaps, with or without conflation.            *)
(***************************************************************************)
EXTENDS BookListener, SelectionProofs

-----------------------------------------------------------------------------
(* The lock. *)

(* The lock is kept only for a timer, and is the reader's while it reads. *)
LockInv ==
    /\ LockedForTimer
    /\ lock = "reader" <=> reader = "reading"

(* handleUpdate's three ends. *)
LEMMA UpdateLock ==
    ASSUME LockInv, NEW new, NEW gap, HandleUpdate(new, gap)
    PROVE  LockInv' /\ reader # "reading"
  BY DEF HandleUpdate, LockInv, LockedForTimer, AcquireLock, ReleaseLock

(* Every update of the book is one of handleUpdate. *)
LEMMA UpdateHandles ==
    ASSUME Update
    PROVE  \E new, gap : HandleUpdate(new, gap)
  BY DEF Update

(* Every recap is one of handleRecap. *)
LEMMA RecapHandles ==
    ASSUME Recap
    PROVE  \E book, bare : HandleRecap(book, bare)
  BY DEF Recap

(* Every step keeps the lock for the timer or gives it back. *)
LEMMA LockStep == LockInv /\ [Next]_vars => LockInv'
<1> SUFFICES ASSUME LockInv, [Next]_vars PROVE LockInv'
  OBVIOUS
<1> USE DEF LockInv, LockedForTimer, AcquireLock, ReleaseLock
<1>1. CASE UNCHANGED vars
  BY <1>1 DEF vars
<1>2. CASE Update
  BY <1>2, UpdateHandles, UpdateLock
<1>3. ASSUME NEW book, NEW bare, HandleRecap(book, bare) PROVE LockInv'
  BY <1>3 DEF HandleRecap
<1>4. CASE IgnoreUpdate \/ HandleClear \/ LoseQuality \/ RegainQuality
  BY <1>4 DEF IgnoreUpdate, HandleClear, LoseQuality, RegainQuality
<1>5. CASE OnTimer \/ ForceInvokeDeltaHandlers \/ ClearConflatedDeltas
  BY <1>5 DEF OnTimer, ForceInvokeDeltaHandlers, ClearConflatedDeltas
<1>6. CASE AskForSnapshot \/ StartReading \/ StopReading
  BY <1>6 DEF AskForSnapshot, StartReading, StopReading
<1> QED
  BY <1>1, <1>2, <1>3, <1>4, <1>5, <1>6, RecapHandles DEF Next

(* The lock is free at the start. *)
LEMMA LockInit == Init => LockInv
  BY DEF Init, LockInv, LockedForTimer

(* handleUpdate, which returns without releasing the write lock when the        *)
(* conflation timer runs already, leaves it only for that timer's callback to   *)
(* release: there is no end of an interval, recap, clear or loss of quality     *)
(* after which the lock stays with the queue and no timer is to come.         *)
THEOREM LockIsReleased == Spec => []LockedForTimer
<1>1. LockInv => LockedForTimer
  BY DEF LockInv
<1> QED
  BY <1>1, LockInit, LockStep, PTL DEF Spec

(* While a thread reads the book under the read lock, no message, timer or      *)
(* call of the application changes it (getBookSnapShot copies one book).      *)
BookStaysForReader == [][reader = "reading" /\ reader' = "reading" => shown' = shown]_vars

(* The read lock keeps every writer out, although the queue's thread goes on    *)
(* when the lock it asks for is already its own.                             *)
THEOREM SnapshotIsOneBook == Spec => BookStaysForReader
<1>1. LockInv /\ [Next]_vars => [reader = "reading" /\ reader' = "reading" => shown' = shown]_vars
  <2> SUFFICES ASSUME LockInv, Next, reader = "reading" PROVE shown' = shown
    BY DEF vars
  <2>1. lock = "reader"
    BY DEF LockInv
  <2>2. ~Update
    BY UpdateHandles, UpdateLock
  <2>3. ~Recap
    BY <2>1, RecapHandles DEF HandleRecap, AcquireLock
  <2> QED
    BY <2>1, <2>2, <2>3
    DEF Next, IgnoreUpdate, HandleClear, LoseQuality, RegainQuality, OnTimer, ForceInvokeDeltaHandlers,
        ClearConflatedDeltas, AskForSnapshot, StartReading, StopReading, AcquireLock
<1> QED
  BY <1>1, LockInit, LockStep, PTL DEF Spec, BookStaysForReader

-----------------------------------------------------------------------------
(* The deltas at one price and the handler's copy. *)

(* An entry is in the handler's copy t. *)
Had(t, p, id) == \E s : <<p, id, s>> \in t

(* A handler's copy of a book. *)
Copy(t) == \A e \in t : \E p \in Prices, id \in Ids : \E s : e = <<p, id, s>>

(* There is a delta of an entry that is still in the book. *)
Live(ds, id) == \E i \in DOMAIN ds : ds[i].id = id /\ ~ds[i].dead

(* The deltas at price p. *)
Listed(ds, p) == ds \in Seq(DeltaType) /\ \A i \in DOMAIN ds : ds[i].price = p

(* A delta of an entry that is in the book comes after the end of its level and is *)
(* the last one about it; a delta that ends an entry points to a detached one. *)
Ordered(ds) ==
    /\ \A i \in DOMAIN ds : ds[i].pl = "DELETE" \/ ds[i].act = "DELETE" =>
          ds[i].dead \/ ds[i].id = NoEntry
    /\ \A i, j \in DOMAIN ds : i < j /\ About(ds[j], ds[i].id) => ds[i].dead \/ ds[i].id = NoEntry

(* What the deltas at p say of an entry: one that no delta mentions is in the copy *)
(* as it is in the level, one that is mentioned is in the level if a delta is live. *)
FaithfulAt(ds, t, p, level, id) ==
    /\ Untold(ds, id) => \A s : <<p, id, s>> \in t <=> (id \in DOMAIN level /\ level[id] = s)
    /\ ~Untold(ds, id) => (id \in DOMAIN level <=> Live(ds, id))

(* They say so of every entry. *)
Faithful(ds, t, p, level) == \A id \in Ids : FaithfulAt(ds, t, p, level, id)

(* Conflation: the end of a level is the first delta, a level is made by the first one *)
(* or after such an end. *)
Placed(ds) ==
    /\ \A i \in DOMAIN ds : ds[i].pl = "DELETE" => i = 1
    /\ \A i \in DOMAIN ds : ds[i].pl = "ADD" => i = 1 \/ (i = 2 /\ ds[1].pl = "DELETE")

(* Where nothing is added twice, an entry that was first added was not in the copy, and *)
(* if the level was first added, nothing of it was. *)
Named(ds, t, p) ==
    /\ \A i \in DOMAIN ds :
          (/\ ~ds[i].dead /\ ds[i].act = "ADD"
           /\ \A j \in DOMAIN ds : j < i => ~About(ds[j], ds[i].id)) => ~Had(t, p, ds[i].id)
    /\ ds # <<>> /\ ds[1].pl = "ADD" => \A id \in Ids : ~Had(t, p, id)

(* w is the doubt at p: "none" says that nothing is added twice. *)
Shaped(ds, t, p, w) == Placed(ds) /\ (w = "none" => Named(ds, t, p))

(* The deltas at p as conflateEntryDeltas leaves them, for a copy t and a level; a *)
(* level that is not there has left at most its end. *)
Conflated(ds, t, p, there, level, w) ==
    /\ Listed(ds, p) /\ Ordered(ds) /\ Faithful(ds, t, p, level) /\ Shaped(ds, t, p, w)
    /\ ~there /\ ds # <<>> => Len(ds) = 1 /\ ds[1].pl = "DELETE"

(* ... but for the entry id, of which no delta is left. *)
ConflatedBut(ds, t, p, level, id, w) ==
    /\ Listed(ds, p) /\ Ordered(ds) /\ Shaped(ds, t, p, w)
    /\ \A x \in Ids \ {id} : FaithfulAt(ds, t, p, level, x)
    /\ ~Live(ds, id)

(* Without a live delta there is none to leave out. *)
LEMMA NothingToDrop ==
    ASSUME NEW t, NEW p, NEW there, NEW level, NEW id, NEW ds, NEW w,
           Conflated(ds, t, p, there, level, w), ~Live(ds, id)
    PROVE  ConflatedBut(ds, t, p, level, id, w)
  BY DEF Conflated, ConflatedBut, Faithful

(* RemoveAt leaves the others in their order. *)
LEMMA Removed ==
    ASSUME NEW S, NEW s \in Seq(S), NEW i \in 1 .. Len(s)
    PROVE  /\ RemoveAt(s, i) \in Seq(S) /\ Len(RemoveAt(s, i)) = Len(s) - 1
           /\ \A k \in 1 .. Len(s) - 1 : RemoveAt(s, i)[k] = s[IF k < i THEN k ELSE k + 1]
<1> DEFINE a == SubSeq(s, 1, i - 1)
           c == SubSeq(s, i + 1, Len(s))
<1>1. a \in Seq(S) /\ Len(a) = i - 1 /\ \A k \in 1 .. i - 1 : a[k] = s[k]
  OBVIOUS
<1>2. c \in Seq(S) /\ Len(c) = Len(s) - i /\ \A k \in 1 .. Len(s) - i : c[k] = s[k + i]
  OBVIOUS
<1>3. RemoveAt(s, i) = a \o c
  BY DEF RemoveAt
<1>4. Len(s) \in Nat /\ i \in Int /\ 1 <= i /\ i <= Len(s)
  OBVIOUS
<1> HIDE DEF a, c
<1>5. RemoveAt(s, i) \in Seq(S) /\ Len(RemoveAt(s, i)) = Len(s) - 1
  BY <1>1, <1>2, <1>3, <1>4
<1>6. ASSUME NEW k \in 1 .. Len(s) - 1, k < i PROVE RemoveAt(s, i)[k] = s[k]
  BY <1>1, <1>2, <1>3, <1>4, <1>6
<1>7. ASSUME NEW k \in 1 .. Len(s) - 1, ~(k < i) PROVE RemoveAt(s, i)[k] = s[k + 1]
  <2>1. k - (i - 1) \in 1 .. Len(s) - i /\ k > Len(a) /\ k - Len(a) = k - (i - 1)
    BY <1>1, <1>4, <1>7
  <2>2. (a \o c)[k] = c[k - (i - 1)]
    BY <1>1, <1>2, <1>4, <2>1
  <2>3. c[k - (i - 1)] = s[k - (i - 1) + i]
    BY <1>2, <2>1
  <2>4. k - (i - 1) + i = k + 1
    BY <1>4
  <2> QED
    BY <1>3, <2>2, <2>3, <2>4
<1> QED
  BY <1>5, <1>6, <1>7

(* The live delta of an entry is left out. *)
LEMMA Dropping ==
    ASSUME NEW t, NEW p, NEW there, NEW level, NEW id \in Ids, NEW ds, NEW w,
           Conflated(ds, t, p, there, level, w),
           NEW i \in DOMAIN ds, ds[i].id = id, ~ds[i].dead
    PROVE  /\ ConflatedBut(RemoveAt(ds, i), t, p, level, id, w)
           /\ Untold(RemoveAt(ds, i), id) => \A j \in DOMAIN ds : j < i => ~About(ds[j], id)
<1> DEFINE n == Len(ds)
           es == RemoveAt(ds, i)
           at(k) == IF k < i THEN k ELSE k + 1
<1>0. NoEntry \notin Ids
  BY BookDeltaAssumption
<1>1. ds \in Seq(DeltaType) /\ n \in Nat /\ DOMAIN ds = 1 .. n /\ i \in 1 .. n
  BY DEF Conflated, Listed
<1>2. es \in Seq(DeltaType) /\ Len(es) = n - 1 /\ \A k \in 1 .. n - 1 : es[k] = ds[at(k)]
  BY <1>1, Removed
<1>3. DOMAIN es = 1 .. n - 1
  BY <1>2
<1>4. \A k \in 1 .. n - 1 : at(k) \in 1 .. n /\ at(k) # i /\ k <= at(k)
  BY <1>1
<1>5. \A k, l \in 1 .. n - 1 : k < l => at(k) < at(l)
  BY <1>1
<1>6. \A j \in 1 .. n : j = i \/ \E k \in 1 .. n - 1 : at(k) = j
  <2> TAKE j \in 1 .. n
  <2>1. CASE j < i
    <3>1. j \in 1 .. n - 1 /\ at(j) = j
      BY <1>1, <2>1
    <3> QED
      BY <3>1
  <2>2. CASE j > i
    <3>1. j - 1 \in 1 .. n - 1 /\ at(j - 1) = j
      BY <1>1, <2>2
    <3> QED
      BY <3>1
  <2> QED
    BY <1>1, <2>1, <2>2
<1>7. ds[i].pl # "DELETE" /\ ds[i].act # "DELETE"
  BY <1>0 DEF Conflated, Ordered
<1> HIDE DEF at, n, es
<1>10. \A j \in 1 .. n : j # i /\ ds[j].id = id => ds[j].dead
  <2> SUFFICES ASSUME NEW j \in 1 .. n, j # i, ds[j].id = id PROVE ds[j].dead
    OBVIOUS
  <2>1. j < i \/ i < j
    BY <1>1
  <2>2. About(ds[i], id) /\ About(ds[j], id)
    BY DEF About
  <2> QED
    BY <1>0, <1>1, <2>1, <2>2 DEF Conflated, Ordered
<1>11. ~Live(es, id)
  BY <1>2, <1>3, <1>4, <1>10 DEF Live
<1>12. Listed(es, p)
  BY <1>1, <1>2, <1>3, <1>4 DEF Conflated, Listed
<1>13. Ordered(es)
  BY <1>1, <1>2, <1>3, <1>4, <1>5 DEF Conflated, Ordered
<1>14. ASSUME NEW x \in Ids \ {id} PROVE FaithfulAt(es, t, p, level, x)
  <2>0. ~About(ds[i], x)
    BY <1>7 DEF About
  <2>1. Untold(es, x) <=> Untold(ds, x)
    <3>1. ASSUME Untold(ds, x) PROVE Untold(es, x)
      BY <1>1, <1>2, <1>3, <1>4, <3>1 DEF Untold
    <3>2. ASSUME Untold(es, x), NEW j \in 1 .. n PROVE ~About(ds[j], x)
      BY <1>2, <1>3, <1>6, <2>0, <3>2 DEF Untold
    <3> QED
      BY <1>1, <3>1, <3>2 DEF Untold
  <2>2. Live(es, x) <=> Live(ds, x)
    BY <1>1, <1>2, <1>3, <1>4, <1>6, <1>7 DEF Live
  <2> QED
    BY <2>1, <2>2 DEF Conflated, Faithful, FaithfulAt
<1>15. Shaped(es, t, p, w)
  <2>0. Placed(ds) /\ (w = "none" => Named(ds, t, p)) /\ Ordered(ds)
    BY DEF Conflated, Shaped
  <2>1. \A k \in DOMAIN es : es[k].pl = "DELETE" => k = 1
    BY <1>1, <1>2, <1>3, <1>4, <2>0 DEF Placed
  <2>2. \A k \in DOMAIN es : es[k].pl = "ADD" => k = 1 \/ (k = 2 /\ es[1].pl = "DELETE")
    <3> SUFFICES ASSUME NEW k \in 1 .. n - 1, es[k].pl = "ADD", k # 1
                 PROVE  k = 2 /\ es[1].pl = "DELETE"
      BY <1>3
    <3>1. ds[at(k)].pl = "ADD" /\ at(k) \in 1 .. n /\ k <= at(k)
      BY <1>2, <1>4
    <3>2. at(k) = 2 /\ ds[1].pl = "DELETE"
      BY <1>1, <3>1, <2>0 DEF Placed
    <3>3. k = 2 /\ 2 < i /\ 1 \in 1 .. n - 1
      BY <1>1, <1>4, <1>7, <3>1, <3>2 DEF at
    <3>4. at(1) = 1
      BY <3>3, <1>1 DEF at
    <3> QED
      BY <1>2, <3>2, <3>3, <3>4
  <2>3. ASSUME w = "none", NEW k \in 1 .. n - 1, ~es[k].dead, es[k].act = "ADD",
               \A j \in 1 .. n - 1 : j < k => ~About(es[j], es[k].id)
        PROVE  ~Had(t, p, es[k].id)
    <3>1. at(k) \in 1 .. n /\ es[k] = ds[at(k)] /\ ds[at(k)].id # id
      BY <1>2, <1>4, <1>10, <2>3
    <3>2. ASSUME NEW j \in 1 .. n, j < at(k) PROVE ~About(ds[j], ds[at(k)].id)
      <4>1. CASE j = i
        BY <1>7, <3>1, <4>1 DEF About
      <4>2. ASSUME NEW l \in 1 .. n - 1, at(l) = j PROVE ~About(ds[j], ds[at(k)].id)
        <5>1. l < k
          <6>1. ~(k < l) /\ k # l
            BY <1>1, <1>4, <1>5, <3>2, <4>2
          <6> QED
            BY <1>1, <6>1
        <5> QED
          BY <1>2, <2>3, <3>1, <4>2, <5>1
      <4> QED
        BY <1>6, <4>1, <4>2
    <3> QED
      BY <1>1, <2>0, <2>3, <3>1, <3>2 DEF Named
  <2>4. ASSUME w = "none", es # <<>>, es[1].pl = "ADD" PROVE \A x \in Ids : ~Had(t, p, x)
    <3>1. n - 1 >= 1 /\ 1 \in 1 .. n - 1 /\ 1 \in 1 .. n
      BY <1>1, <1>2, <2>4
    <3>2. CASE i = 1
      <4>1. ds[2].pl = "ADD" /\ 2 \in 1 .. n
        BY <1>1, <1>2, <2>4, <3>1, <3>2 DEF at
      <4> QED
        BY <1>1, <1>7, <2>0, <3>2, <4>1 DEF Placed
    <3>3. CASE i # 1
      <4>1. es[1] = ds[1] /\ ds # <<>>
        BY <1>1, <1>2, <3>1, <3>3 DEF at, n
      <4> QED
        BY <2>0, <2>4, <4>1 DEF Named
    <3> QED
      BY <3>2, <3>3
  <2>5. Placed(es)
    BY <2>1, <2>2 DEF Placed
  <2>6. ASSUME w = "none" PROVE Named(es, t, p)
    BY <1>3, <2>3, <2>4, <2>6 DEF Named
  <2> QED
    BY <2>5, <2>6 DEF Shaped
<1>16. ASSUME Untold(es, id) PROVE \A j \in DOMAIN ds : j < i => ~About(ds[j], id)
  <2> SUFFICES ASSUME NEW j \in 1 .. n, j < i PROVE ~About(ds[j], id)
    BY <1>1
  <2>1. j \in 1 .. n - 1 /\ at(j) = j
    BY <1>1 DEF at
  <2> QED
    BY <1>2, <1>3, <1>16, <2>1 DEF Untold
<1> QED
  BY <1>11, <1>12, <1>13, <1>14, <1>15, <1>16 DEF ConflatedBut, es

(* A delta of the entry is appended in its place. *)
LEMMA Appending ==
    ASSUME NEW t, NEW p, NEW level, NEW next, NEW id \in Ids, NEW ds, NEW e \in DeltaType,
           NEW w, ConflatedBut(ds, t, p, level, id, w),
           e.price = p, e.id = id, e.pl # "DELETE", e.act = "DELETE" => e.dead,
           e.pl = "ADD" => ds = <<>> \/ (Len(ds) = 1 /\ ds[1].pl = "DELETE"),
           w = "none" /\ e.pl = "ADD" /\ ds = <<>> => \A x \in Ids : ~Had(t, p, x),
           w = "none" /\ ~e.dead /\ e.act = "ADD" /\ Untold(ds, id) => ~Had(t, p, id),
           id \in DOMAIN next <=> ~e.dead,
           \A x \in Ids \ {id} : /\ x \in DOMAIN next <=> x \in DOMAIN level
                                 /\ x \in DOMAIN level => next[x] = level[x]
    PROVE  Conflated(Append(ds, e), t, p, TRUE, next, w)
<1> DEFINE n == Len(ds)
           es == Append(ds, e)
<1>0. NoEntry \notin Ids
  BY BookDeltaAssumption
<1>1. ds \in Seq(DeltaType) /\ n \in Nat /\ DOMAIN ds = 1 .. n
  BY DEF ConflatedBut, Listed
<1>2. /\ es \in Seq(DeltaType) /\ DOMAIN es = 1 .. n + 1 /\ es[n + 1] = e
      /\ \A k \in 1 .. n : es[k] = ds[k]
  BY <1>1
<1>3. \A k \in 1 .. n + 1 : k \in 1 .. n \/ k = n + 1
  BY <1>1
<1>4. \A k \in 1 .. n : k \in 1 .. n + 1 /\ k < n + 1 /\ k # n + 1
  BY <1>1
<1>5. n + 1 \in 1 .. n + 1 /\ (ds = <<>> => n = 0)
  BY <1>1
<1> HIDE DEF n, es
<1>6. Listed(es, p)
  BY <1>1, <1>2, <1>3 DEF ConflatedBut, Listed
<1>7. Ordered(es)
  <2>1. ASSUME NEW i \in 1 .. n PROVE About(e, ds[i].id) => ds[i].dead \/ ds[i].id = NoEntry
    BY <1>1 DEF About, ConflatedBut, Live
  <2>2. Ordered(ds)
    BY DEF ConflatedBut
  <2>3. ASSUME NEW i \in 1 .. n + 1, NEW j \in 1 .. n + 1, i < j, About(es[j], es[i].id)
        PROVE  es[i].dead \/ es[i].id = NoEntry
    <3>1. i \in 1 .. n
      BY <1>1, <2>3
    <3>2. CASE j = n + 1
      BY <1>2, <2>1, <2>3, <3>1, <3>2
    <3>3. CASE j \in 1 .. n
      BY <1>1, <1>2, <2>2, <2>3, <3>1, <3>3 DEF Ordered
    <3> QED
      BY <1>3, <3>2, <3>3
  <2> QED
    BY <1>0, <1>1, <1>2, <1>3, <2>2, <2>3 DEF Ordered
<1>8. ASSUME NEW x \in Ids \ {id} PROVE FaithfulAt(es, t, p, next, x)
  <2>1. Untold(es, x) <=> Untold(ds, x)
    BY <1>1, <1>2, <1>3, <1>4 DEF Untold, About
  <2>2. Live(es, x) <=> Live(ds, x)
    BY <1>1, <1>2, <1>3, <1>4 DEF Live
  <2>3. FaithfulAt(ds, t, p, level, x)
    BY DEF ConflatedBut
  <2> QED
    BY <2>1, <2>2, <2>3 DEF FaithfulAt
<1>9. FaithfulAt(es, t, p, next, id)
  <2>1. ~Untold(es, id)
    BY <1>2, <1>5 DEF Untold, About
  <2>2. Live(es, id) <=> ~e.dead
    <3>1. \A k \in 1 .. n : ds[k].id = id => ds[k].dead
      BY <1>1 DEF ConflatedBut, Live
    <3> QED
      BY <1>2, <1>3, <1>5, <3>1 DEF Live
  <2> QED
    BY <2>1, <2>2 DEF FaithfulAt
<1>10. Shaped(es, t, p, w)
  <2>0. Placed(ds) /\ (w = "none" => Named(ds, t, p))
    BY DEF ConflatedBut, Shaped
  <2>1. \A k \in 1 .. n + 1 : es[k].pl = "DELETE" => k = 1
    BY <1>1, <1>2, <1>3, <2>0 DEF Placed
  <2>2. ASSUME NEW k \in 1 .. n + 1, es[k].pl = "ADD"
        PROVE  k = 1 \/ (k = 2 /\ es[1].pl = "DELETE")
    <3>1. CASE k = n + 1
      <4>1. CASE ds = <<>>
        BY <1>5, <3>1, <4>1
      <4>2. CASE n = 1 /\ ds[1].pl = "DELETE"
        BY <1>2, <3>1, <4>2
      <4> QED
        BY <1>2, <2>2, <3>1, <4>1, <4>2 DEF n
    <3>2. CASE k \in 1 .. n
      <4>1. k = 1 \/ (k = 2 /\ ds[1].pl = "DELETE")
        BY <1>1, <1>2, <2>0, <2>2, <3>2 DEF Placed
      <4>2. 1 \in 1 .. n
        BY <1>1, <3>2
      <4> QED
        BY <1>2, <4>1, <4>2
    <3> QED
      BY <1>3, <3>1, <3>2
  <2>3. ASSUME w = "none", NEW k \in 1 .. n + 1, ~es[k].dead, es[k].act = "ADD",
               \A j \in 1 .. n + 1 : j < k => ~About(es[j], es[k].id)
        PROVE  ~Had(t, p, es[k].id)
    <3>1. CASE k = n + 1
      <4>1. Untold(ds, id)
        BY <1>1, <1>2, <1>4, <2>3, <3>1 DEF Untold
      <4> QED
        BY <1>2, <2>3, <3>1, <4>1
    <3>2. CASE k \in 1 .. n
      <4>1. \A j \in 1 .. n : j < k => ~About(ds[j], ds[k].id)
        BY <1>2, <1>4, <2>3, <3>2
      <4> QED
        BY <1>1, <1>2, <2>0, <2>3, <3>2, <4>1 DEF Named
    <3> QED
      BY <1>3, <3>1, <3>2
  <2>4. ASSUME w = "none", es[1].pl = "ADD" PROVE \A x \in Ids : ~Had(t, p, x)
    <3>1. CASE ds = <<>>
      BY <1>2, <1>5, <2>4, <3>1
    <3>2. CASE ds # <<>>
      <4>1. 1 \in 1 .. n
        BY <1>1, <3>2 DEF n
      <4> QED
        BY <1>2, <2>0, <2>4, <3>2, <4>1 DEF Named
    <3> QED
      BY <3>1, <3>2
  <2>5. Placed(es)
    BY <1>2, <2>1, <2>2 DEF Placed
  <2>6. ASSUME w = "none" PROVE Named(es, t, p)
    BY <1>2, <2>3, <2>4, <2>6 DEF Named
  <2> QED
    BY <2>5, <2>6 DEF Shaped
<1> QED
  BY <1>6, <1>7, <1>8, <1>9, <1>10 DEF Conflated, Faithful, es

(* An entry that came and went is not mentioned. *)
LEMMA LeavingOut ==
    ASSUME NEW t, NEW p, NEW level, NEW next, NEW id \in Ids, NEW ds, NEW w,
           ConflatedBut(ds, t, p, level, id, w),
           Untold(ds, id) => ~Had(t, p, id),
           id \notin DOMAIN next,
           \A x \in Ids \ {id} : /\ x \in DOMAIN next <=> x \in DOMAIN level
                                 /\ x \in DOMAIN level => next[x] = level[x]
    PROVE  Conflated(ds, t, p, TRUE, next, w)
<1>1. FaithfulAt(ds, t, p, next, id)
  BY DEF FaithfulAt, ConflatedBut, Had
<1>2. ASSUME NEW x \in Ids \ {id} PROVE FaithfulAt(ds, t, p, next, x)
  <2>1. FaithfulAt(ds, t, p, level, x)
    BY DEF ConflatedBut
  <2> QED
    BY <2>1 DEF FaithfulAt
<1> QED
  BY <1>1, <1>2 DEF Conflated, ConflatedBut, Faithful

(* The first delta about the same entry. *)
LEMMA FirstOfSame ==
    ASSUME NEW ds \in Seq(DeltaType), NEW d
    PROVE  LET same == {i \in DOMAIN ds : SameEntry(ds[i], d)}
           IN  same # {} => Min(same) \in same
<1> DEFINE same == {i \in DOMAIN ds : SameEntry(ds[i], d)}
<1>1. same \in SUBSET Nat
  OBVIOUS
<1> HIDE DEF same
<1>2. ASSUME same # {} PROVE Min(same) \in same
  <2>1. PICK x \in same : \A y \in same : x <= y
    BY <1>1, <1>2, Smallest
  <2> QED
    BY <2>1 DEF Min
<1> QED
  BY <1>2 DEF same

(* A level becomes next when its entry id is set, by a delta that calls it pl and act: *)
(* only what is new is called so, unless there is doubt. *)
SetsEntry(ds, there, level, next, id, pl, act, w) ==
    /\ w = "none" /\ act = "ADD" => id \notin DOMAIN level
    /\ pl = "ADD" => ~there \/ ds = <<>>
    /\ w = "none" /\ pl = "ADD" => DOMAIN level = {}
    /\ id \in DOMAIN next
    /\ \A x \in Ids \ {id} : /\ x \in DOMAIN next <=> x \in DOMAIN level
                             /\ x \in DOMAIN level => next[x] = level[x]

(* conflateEntryDeltas of an entry that stays. *)
LEMMA SetConflated ==
    ASSUME NEW t, NEW p \in Prices, NEW there \in BOOLEAN, NEW level, NEW next, NEW id \in Ids, NEW ds,
           NEW act \in {"ADD", "UPDATE"}, NEW pl \in {"ADD", "UPDATE"},
           NEW w, Conflated(ds, t, p, there, level, w),
           SetsEntry(ds, there, level, next, id, pl, act, w)
    PROVE  Conflated(ConflateEntryDeltas(ds, Delta(p, id, pl, act)), t, p, TRUE, next, w)
<1> USE DEF SetsEntry
<1> DEFINE d == Delta(p, id, pl, act)
           es == ConflateEntryDeltas(ds, d)
           same == {i \in DOMAIN ds : SameEntry(ds[i], d)}
<1>1. /\ d \in DeltaType /\ d.price = p /\ d.id = id /\ d.pl = pl /\ d.act = act /\ d.dead = FALSE
  BY DEF Delta, DeltaType
<1>2. ds \in Seq(DeltaType) /\ id # NoEntry
  BY BookDeltaAssumption DEF Conflated, Listed
<1>3. \A i \in DOMAIN ds : i \in same <=> ds[i].id = id /\ ~ds[i].dead
  BY <1>1 DEF SameEntry
<1>4. same # {} => Min(same) \in same
  BY <1>2, FirstOfSame
<1> HIDE DEF d, same
<1>5. ASSUME w = "none", Untold(ds, id), act = "ADD" PROVE ~Had(t, p, id)
  BY <1>5 DEF Conflated, Faithful, FaithfulAt, Had
<1>6. ASSUME w = "none", pl = "ADD", ds = <<>> PROVE \A x \in Ids : ~Had(t, p, x)
  <2>1. \A x \in Ids : Untold(ds, x)
    BY <1>6 DEF Untold
  <2> QED
    BY <1>6, <2>1 DEF Conflated, Faithful, FaithfulAt, Had
<1>7. pl = "ADD" => ds = <<>> \/ (Len(ds) = 1 /\ ds[1].pl = "DELETE")
  BY DEF Conflated
<1>8. ASSUME ~Live(ds, id) PROVE Conflated(Append(ds, d), t, p, TRUE, next, w)
  <2>1. ConflatedBut(ds, t, p, level, id, w)
    BY <1>8, NothingToDrop
  <2>2. /\ d.pl # "DELETE" /\ d.act # "DELETE"
        /\ d.pl = "ADD" => ds = <<>> \/ (Len(ds) = 1 /\ ds[1].pl = "DELETE")
    BY <1>1, <1>7
  <2>3. w = "none" /\ d.pl = "ADD" /\ ds = <<>> => \A x \in Ids : ~Had(t, p, x)
    BY <1>1, <1>6
  <2>4. w = "none" /\ ~d.dead /\ d.act = "ADD" /\ Untold(ds, id) => ~Had(t, p, id)
    BY <1>1, <1>5
  <2>5. id \in DOMAIN next <=> ~d.dead
    BY <1>1
  <2>6. d \in DeltaType /\ d.price = p /\ d.id = id
    BY <1>1
  <2> QED
    BY <2>1, <2>2, <2>3, <2>4, <2>5, <2>6, Appending
<1>9. CASE ds = <<>>
  <2>1. es = Append(ds, d)
    BY <1>9 DEF ConflateEntryDeltas
  <2>2. ~Live(ds, id)
    BY <1>9 DEF Live
  <2> QED
    BY <1>8, <2>1, <2>2 DEF es, d
<1>10. CASE ds # <<>> /\ pl = "ADD"
  <2>1. es = Append(ds, d)
    BY <1>1, <1>10 DEF ConflateEntryDeltas
  <2>2. ~Live(ds, id)
    <3>1. DOMAIN ds = {1} /\ ds[1].pl = "DELETE"
      BY <1>2, <1>7, <1>10
    <3> QED
      BY <1>2, <3>1 DEF Conflated, Ordered, Live
  <2> QED
    BY <1>8, <2>1, <2>2 DEF es, d
<1>11. CASE ds # <<>> /\ pl = "UPDATE"
  <2>0. es = ApplyEntryDelta(ds, d)
    BY <1>1, <1>11 DEF ConflateEntryDeltas
  <2>1. CASE same = {}
    <3>1. es = Append(ds, d)
      BY <2>0, <2>1 DEF ApplyEntryDelta, same
    <3>2. ~Live(ds, id)
      BY <1>3, <2>1 DEF Live
    <3> QED
      BY <1>8, <3>1, <3>2 DEF es, d
  <2>2. CASE same # {}
    <3> DEFINE i == Min(same)
    <3>1. i \in DOMAIN ds /\ ds[i].id = id /\ ~ds[i].dead
      BY <1>3, <1>4, <2>2 DEF same
    <3>2. es = Append(RemoveAt(ds, i), d)
      BY <1>1, <2>0, <2>2 DEF ApplyEntryDelta, same
    <3> HIDE DEF i
    <3>3. ConflatedBut(RemoveAt(ds, i), t, p, level, id, w)
      BY <3>1, Dropping
    <3>4. ASSUME w = "none" PROVE act # "ADD"
      <4>1. ~Untold(ds, id) /\ Live(ds, id)
        BY <3>1 DEF Untold, About, Live
      <4> QED
        BY <3>4, <4>1 DEF Conflated, Faithful, FaithfulAt
    <3>5. Conflated(Append(RemoveAt(ds, i), d), t, p, TRUE, next, w)
      <4>1. d.pl # "DELETE" /\ d.act # "DELETE" /\ d.pl # "ADD"
        BY <1>1, <1>11
      <4>2. ~(w = "none" /\ d.act = "ADD")
        BY <1>1, <3>4
      <4>3. id \in DOMAIN next <=> ~d.dead
        BY <1>1
      <4>4. d \in DeltaType /\ d.price = p /\ d.id = id
        BY <1>1
      <4> DEFINE rs == RemoveAt(ds, i)
      <4> HIDE DEF rs
      <4>5. ConflatedBut(rs, t, p, level, id, w)
        BY <3>3 DEF rs
      <4>6. Conflated(Append(rs, d), t, p, TRUE, next, w)
        BY <4>1, <4>2, <4>3, <4>4, <4>5, Appending
      <4> QED
        BY <4>6 DEF rs
    <3> QED
      BY <3>2, <3>5 DEF es, d
  <2> QED
    BY <2>1, <2>2
<1> QED
  BY <1>9, <1>10, <1>11

(* conflateEntryDeltas of a level without entries: its delta is appended. *)
LEMMA ShowConflated ==
    ASSUME NEW t, NEW p \in Prices, NEW there \in BOOLEAN, NEW level, NEW ds, NEW w,
           NEW pl \in {"ADD", "UPDATE"}, Conflated(ds, t, p, there, level, w),
           pl = "ADD" => ~there, w = "none" /\ pl = "ADD" => DOMAIN level = {}
    PROVE  Conflated(ConflateEntryDeltas(ds, Delta(p, NoEntry, pl, "UNKNOWN")), t, p, TRUE, level, w)
<1> DEFINE n == Len(ds)
           d == Delta(p, NoEntry, pl, "UNKNOWN")
           es == Append(ds, d)
<1>0. NoEntry \notin Ids
  BY BookDeltaAssumption
<1>1. d \in DeltaType /\ d.price = p /\ d.id = NoEntry /\ d.pl = pl /\ d.act = "UNKNOWN"
  BY DEF Delta, DeltaType
<1>2. ds \in Seq(DeltaType) /\ n \in Nat /\ DOMAIN ds = 1 .. n /\ (ds = <<>> => n = 0)
  BY DEF Conflated, Listed
<1> HIDE DEF d
<1>3. ConflateEntryDeltas(ds, d) = es
  <2>1. CASE ds = <<>>
    BY <2>1 DEF ConflateEntryDeltas
  <2>2. CASE ds # <<>>
    BY <1>1, <2>2 DEF ConflateEntryDeltas, ApplyEntryDelta
  <2> QED
    BY <2>1, <2>2
<1>4. /\ es \in Seq(DeltaType) /\ DOMAIN es = 1 .. n + 1 /\ es[n + 1] = d
      /\ \A k \in 1 .. n : es[k] = ds[k]
  BY <1>1, <1>2
<1>5. \A k \in 1 .. n + 1 : k \in 1 .. n \/ k = n + 1
  BY <1>2
<1>6. \A k \in 1 .. n : k \in 1 .. n + 1 /\ k < n + 1 /\ k # n + 1
  BY <1>2
<1>7. Placed(ds) /\ (w = "none" => Named(ds, t, p)) /\ Ordered(ds) /\ Faithful(ds, t, p, level)
  BY DEF Conflated, Shaped
<1>8. pl = "ADD" => ds = <<>> \/ (n = 1 /\ ds[1].pl = "DELETE")
  BY DEF Conflated
<1> HIDE DEF n, es
<1>9. Listed(es, p)
  BY <1>1, <1>2, <1>4, <1>5 DEF Conflated, Listed
<1>10. Ordered(es)
  <2>1. ASSUME NEW i \in 1 .. n + 1, NEW j \in 1 .. n + 1, i < j, About(es[j], es[i].id)
        PROVE  es[i].dead \/ es[i].id = NoEntry
    <3>1. i \in 1 .. n
      BY <1>2, <2>1
    <3>2. CASE j = n + 1
      BY <1>1, <1>4, <2>1, <3>1, <3>2 DEF About
    <3>3. CASE j \in 1 .. n
      BY <1>2, <1>4, <1>7, <2>1, <3>1, <3>3 DEF Ordered
    <3> QED
      BY <1>5, <3>2, <3>3
  <2> QED
    BY <1>1, <1>2, <1>4, <1>5, <1>7, <2>1 DEF Ordered
<1>11. ASSUME NEW x \in Ids PROVE FaithfulAt(es, t, p, level, x)
  <2>1. ~About(d, x) /\ d.id # x
    BY <1>0, <1>1 DEF About
  <2>2. Untold(es, x) <=> Untold(ds, x)
    BY <1>2, <1>4, <1>5, <1>6, <2>1 DEF Untold
  <2>3. Live(es, x) <=> Live(ds, x)
    BY <1>2, <1>4, <1>5, <1>6, <2>1 DEF Live
  <2> QED
    BY <1>7, <2>2, <2>3 DEF Faithful, FaithfulAt
<1>12. Placed(es)
  <2>1. \A k \in 1 .. n + 1 : es[k].pl = "DELETE" => k = 1
    BY <1>1, <1>2, <1>4, <1>5, <1>7 DEF Placed
  <2>2. ASSUME NEW k \in 1 .. n + 1, es[k].pl = "ADD"
        PROVE  k = 1 \/ (k = 2 /\ es[1].pl = "DELETE")
    <3>1. CASE k = n + 1
      <4>1. CASE ds = <<>>
        BY <1>2, <3>1, <4>1
      <4>2. CASE n = 1 /\ ds[1].pl = "DELETE"
        BY <1>4, <3>1, <4>2
      <4> QED
        BY <1>1, <1>4, <1>8, <2>2, <3>1, <4>1, <4>2
    <3>2. CASE k \in 1 .. n
      <4>1. k = 1 \/ (k = 2 /\ ds[1].pl = "DELETE")
        BY <1>2, <1>4, <1>7, <2>2, <3>2 DEF Placed
      <4>2. 1 \in 1 .. n
        BY <1>2, <3>2
      <4> QED
        BY <1>4, <4>1, <4>2
    <3> QED
      BY <1>5, <3>1, <3>2
  <2> QED
    BY <1>4, <2>1, <2>2 DEF Placed
<1>13. ASSUME w = "none" PROVE Named(es, t, p)
  <2>1. ASSUME NEW k \in 1 .. n + 1, ~es[k].dead, es[k].act = "ADD",
               \A j \in 1 .. n + 1 : j < k => ~About(es[j], es[k].id)
        PROVE  ~Had(t, p, es[k].id)
    <3>1. k \in 1 .. n
      BY <1>1, <1>4, <1>5, <2>1
    <3>2. \A j \in 1 .. n : j < k => ~About(ds[j], ds[k].id)
      BY <1>4, <1>6, <2>1, <3>1
    <3> QED
      BY <1>2, <1>4, <1>7, <1>13, <2>1, <3>1, <3>2 DEF Named
  <2>2. ASSUME es[1].pl = "ADD" PROVE \A x \in Ids : ~Had(t, p, x)
    <3>1. CASE ds = <<>>
      <4>1. pl = "ADD"
        BY <1>1, <1>2, <1>4, <2>2, <3>1
      <4>2. \A x \in Ids : Untold(ds, x)
        BY <3>1 DEF Untold
      <4> QED
        BY <1>7, <1>13, <4>1, <4>2 DEF Faithful, FaithfulAt, Had
    <3>2. CASE ds # <<>>
      <4>1. 1 \in 1 .. n
        BY <1>2, <3>2 DEF n
      <4> QED
        BY <1>4, <1>7, <1>13, <2>2, <3>2, <4>1 DEF Named
    <3> QED
      BY <3>1, <3>2
  <2> QED
    BY <1>4, <2>1, <2>2 DEF Named
<1>14. Conflated(es, t, p, TRUE, level, w)
  BY <1>9, <1>10, <1>11, <1>12, <1>13 DEF Conflated, Faithful, Shaped
<1> QED
  BY <1>3, <1>14 DEF d

(* An entry is detached: its deltas are dead. *)
Mark(ds, p, id) == [i \in DOMAIN ds |-> PastEntry(ds[i], p, id)]

(* A list without live deltas of the entry is left as it is. *)
LEMMA NothingToMark ==
    ASSUME NEW ds, NEW p, NEW id, Listed(ds, p), ~Live(ds, id)
    PROVE  /\ Mark(ds, p, id) = ds
           /\ \A i \in DOMAIN ds : PastEntry(ds[i], p, id) = ds[i]
<1>1. ds \in Seq(DeltaType) /\ DOMAIN ds = 1 .. Len(ds) /\ Len(ds) \in Nat
  BY DEF Listed
<1>2. ASSUME NEW i \in DOMAIN ds PROVE PastEntry(ds[i], p, id) = ds[i]
  <2>1. ds[i] \in DeltaType
    BY <1>1
  <2>2. ds[i].id # id \/ ds[i].dead = TRUE
    BY <2>1 DEF Live, DeltaType
  <2> QED
    BY <2>1, <2>2 DEF PastEntry, DeltaType
<1> QED
  BY <1>1, <1>2 DEF Mark

(* The new delta is marked. *)
LEMMA NewIsMarked ==
    ASSUME NEW ds, NEW p, NEW id, Listed(ds, p), ~Live(ds, id),
           NEW d \in DeltaType, d.price = p, d.id = id
    PROVE  Mark(Append(ds, d), p, id) = Append(ds, [d EXCEPT !.dead = TRUE])
<1> DEFINE e == [d EXCEPT !.dead = TRUE]
           a == Append(ds, d)
           b == Append(ds, e)
<1>0. ds \in Seq(DeltaType) /\ DOMAIN ds = 1 .. Len(ds) /\ Len(ds) \in Nat
  BY DEF Listed
<1>1. d # NoDelta
  BY BookDeltaAssumption
<1>2. PastEntry(d, p, id) = e
  BY <1>1 DEF PastEntry
<1>3. DOMAIN a = 1 .. Len(ds) + 1 /\ a[Len(ds) + 1] = d /\ \A i \in 1 .. Len(ds) : a[i] = ds[i]
  BY <1>0
<1>4. e \in DeltaType
  BY DEF DeltaType
<1>5. /\ b \in Seq(DeltaType) /\ DOMAIN b = 1 .. Len(ds) + 1 /\ b[Len(ds) + 1] = e
      /\ \A i \in 1 .. Len(ds) : b[i] = ds[i]
  BY <1>0, <1>4
<1> HIDE DEF a, b, e
<1>6. ASSUME NEW i \in 1 .. Len(ds) + 1 PROVE PastEntry(a[i], p, id) = b[i]
  <2>1. i \in 1 .. Len(ds) \/ i = Len(ds) + 1
    BY <1>0
  <2>2. \A j \in DOMAIN ds : PastEntry(ds[j], p, id) = ds[j]
    BY NothingToMark
  <2> QED
    BY <1>0, <1>2, <1>3, <1>5, <2>1, <2>2
<1>7. Mark(a, p, id) = [i \in 1 .. Len(ds) + 1 |-> b[i]]
  BY <1>3, <1>6 DEF Mark
<1>8. b = [i \in 1 .. Len(ds) + 1 |-> b[i]]
  BY <1>5
<1> QED
  BY <1>7, <1>8 DEF a, b, e

(* conflateEntryDeltas of an entry that ends. *)
LEMMA EndConflated ==
    ASSUME NEW t, NEW p \in Prices, NEW level, NEW next, NEW id \in Ids, NEW ds,
           Conflated(ds, t, p, TRUE, level, "none"),
           id \in DOMAIN level, id \notin DOMAIN next,
           \A x \in Ids \ {id} : /\ x \in DOMAIN next <=> x \in DOMAIN level
                                 /\ x \in DOMAIN level => next[x] = level[x]
    PROVE  Conflated(Mark(ConflateEntryDeltas(ds, Delta(p, id, "UPDATE", "DELETE")), p, id),
                     t, p, TRUE, next, "none")
<1> DEFINE d == Delta(p, id, "UPDATE", "DELETE")
           e == [d EXCEPT !.dead = TRUE]
           es == ConflateEntryDeltas(ds, d)
           same == {i \in DOMAIN ds : SameEntry(ds[i], d)}
<1>1. /\ d \in DeltaType /\ d.price = p /\ d.id = id /\ d.pl = "UPDATE" /\ d.act = "DELETE"
      /\ d.dead = FALSE
  BY DEF Delta, DeltaType
<1>2. ds \in Seq(DeltaType) /\ id # NoEntry
  BY BookDeltaAssumption DEF Conflated, Listed
<1>3. \A i \in DOMAIN ds : i \in same <=> ds[i].id = id /\ ~ds[i].dead
  BY <1>1 DEF SameEntry
<1>4. same # {} => Min(same) \in same
  BY <1>2, FirstOfSame
<1>5. /\ e \in DeltaType /\ e.price = p /\ e.id = id /\ e.pl = "UPDATE" /\ e.act = "DELETE" /\ e.dead
  BY <1>1 DEF DeltaType
<1> HIDE DEF d, same, e
<1>6. ASSUME NEW rs, ConflatedBut(rs, t, p, level, id, "none")
      PROVE  Conflated(Mark(Append(rs, d), p, id), t, p, TRUE, next, "none")
  <2>1. Listed(rs, p) /\ ~Live(rs, id)
    BY <1>6 DEF ConflatedBut
  <2>2. Mark(Append(rs, d), p, id) = Append(rs, e)
    BY <1>1, <2>1, NewIsMarked DEF e
  <2>3. e.pl # "DELETE" /\ e.pl # "ADD" /\ e.act # "ADD" /\ (id \in DOMAIN next <=> ~e.dead)
    BY <1>5
  <2>4. Conflated(Append(rs, e), t, p, TRUE, next, "none")
    BY <1>5, <1>6, <2>3, Appending
  <2> QED
    BY <2>2, <2>4
<1>7. es = IF same = {} THEN Append(ds, d)
           ELSE IF ds[Min(same)].act = "ADD" THEN RemoveAt(ds, Min(same))
           ELSE Append(RemoveAt(ds, Min(same)), d)
  <2>1. CASE ds = <<>>
    BY <2>1 DEF ConflateEntryDeltas, same
  <2>2. CASE ds # <<>>
    BY <1>1, <2>2 DEF ConflateEntryDeltas, ApplyEntryDelta, same
  <2> QED
    BY <2>1, <2>2
<1>8. CASE same = {}
  <2>1. ~Live(ds, id)
    BY <1>3, <1>8 DEF Live
  <2>2. ConflatedBut(ds, t, p, level, id, "none")
    BY <2>1, NothingToDrop
  <2> QED
    BY <1>6, <1>7, <1>8, <2>2 DEF es, d
<1>9. CASE same # {}
  <2> DEFINE i == Min(same)
             rs == RemoveAt(ds, i)
  <2>1. i \in DOMAIN ds /\ ds[i].id = id /\ ~ds[i].dead
    BY <1>3, <1>4, <1>9 DEF same
  <2>2. /\ ConflatedBut(rs, t, p, level, id, "none")
        /\ Untold(rs, id) => \A j \in DOMAIN ds : j < i => ~About(ds[j], id)
    BY <2>1, Dropping
  <2>3. CASE ds[i].act # "ADD"
    <3>1. es = Append(rs, d)
      BY <1>7, <1>9, <2>3
    <3> QED
      BY <1>6, <2>2, <3>1 DEF es, d
  <2>4. CASE ds[i].act = "ADD"
    <3>1. es = rs
      BY <1>7, <1>9, <2>4
    <3> HIDE DEF i, rs
    <3>2. Untold(rs, id) => ~Had(t, p, id)
      BY <2>1, <2>2, <2>4 DEF Conflated, Shaped, Named
    <3>3. Mark(rs, p, id) = rs
      BY <2>2, NothingToMark DEF ConflatedBut
    <3>4. Conflated(rs, t, p, TRUE, next, "none")
      BY <2>2, <3>2, LeavingOut
    <3> QED
      BY <3>1, <3>3, <3>4 DEF es, d
  <2> QED
    BY <2>3, <2>4
<1> QED
  BY <1>8, <1>9

-----------------------------------------------------------------------------
(* addDelta, for all prices. *)

(* What addDelta keeps. *)
PendType ==
    [count : 0 .. 2, simple : DeltaType \cup {NoDelta}, list : [Prices -> Seq(DeltaType)],
     now : BOOLEAN]

(* A count of 1 has its delta, and only a count of 2 uses the list. *)
PendOK(pend) ==
    /\ pend \in PendType
    /\ pend.count = 1 => pend.simple \in DeltaType
    /\ pend.count # 2 => \A p \in Prices : pend.list[p] = <<>>

(* Conflation makes deltas of deltas. *)
LEMMA JoinType ==
    ASSUME NEW c, NEW ds \in Seq(DeltaType), NEW d \in DeltaType
    PROVE  Join(c, ds, d) \in Seq(DeltaType)
<1>1. Append(ds, d) \in Seq(DeltaType) /\ <<d>> \in Seq(DeltaType)
  OBVIOUS
<1>2. [d EXCEPT !.id = NoEntry] \in DeltaType
  BY DEF DeltaType
<1>3. <<[d EXCEPT !.id = NoEntry]>> \in Seq(DeltaType) /\ <<>> \in Seq(DeltaType)
  BY <1>2
<1>4. ApplyEntryDelta(ds, d) \in Seq(DeltaType)
  <2> DEFINE same == {i \in DOMAIN ds : SameEntry(ds[i], d)}
  <2>1. CASE same = {}
    BY <1>1, <2>1 DEF ApplyEntryDelta
  <2>2. CASE same # {}
    <3> DEFINE i == Min(same)
    <3>1. i \in same
      BY <2>2, FirstOfSame
    <3>2. i \in 1 .. Len(ds)
      BY <3>1
    <3> HIDE DEF i
    <3>3. RemoveAt(ds, i) \in Seq(DeltaType)
      BY <3>2, Removed
    <3>4. Append(RemoveAt(ds, i), d) \in Seq(DeltaType)
      BY <3>3
    <3>5. ApplyEntryDelta(ds, d) \in {Append(ds, d), RemoveAt(ds, i), Append(RemoveAt(ds, i), d)}
      BY <2>2 DEF ApplyEntryDelta, i
    <3> QED
      BY <1>1, <3>3, <3>4, <3>5
  <2> QED
    BY <2>1, <2>2
<1>5. d.pl \in {"ADD", "UPDATE", "DELETE"}
  BY DEF DeltaType
<1>6. ConflateEntryDeltas(ds, d) \in Seq(DeltaType)
  <2>1. CASE ds = <<>>
    BY <1>1, <2>1 DEF ConflateEntryDeltas
  <2>2. CASE ds # <<>> /\ d.pl = "ADD"
    BY <1>1, <2>2 DEF ConflateEntryDeltas
  <2>3. CASE ds # <<>> /\ d.pl = "UPDATE"
    BY <1>4, <2>3 DEF ConflateEntryDeltas
  <2>4. CASE ds # <<>> /\ d.pl = "DELETE"
    BY <1>3, <2>4 DEF ConflateEntryDeltas
  <2> QED
    BY <1>5, <2>1, <2>2, <2>3, <2>4
<1> QED
  BY <1>1, <1>6 DEF Join

(* The first delta is not conflated. *)
LEMMA JoinFirst ==
    ASSUME NEW c \in BOOLEAN, NEW d
    PROVE  Join(c, <<>>, d) = <<d>>
  BY DEF Join, ConflateEntryDeltas

(* A delta stays one when what it points to is detached. *)
LEMMA PastType ==
    ASSUME NEW d \in DeltaType, NEW p, NEW id
    PROVE  PastEntry(d, p, id) \in DeltaType /\ PastLevel(d, p) \in DeltaType
<1>1. PastEntry(d, p, id) \in DeltaType
  BY DEF PastEntry, DeltaType
<1>2. ASSUME NEW b \in BOOLEAN PROVE [d EXCEPT !.gen = d.gen + 1, !.dead = b] \in DeltaType
  <2>1. d.gen \in Nat /\ d.gen + 1 \in Nat
    BY DEF DeltaType
  <2> DEFINE n == d.gen + 1
             e == [d EXCEPT !.gen = n]
  <2> HIDE DEF n
  <2>2. e \in DeltaType
    BY <2>1 DEF DeltaType, n
  <2> HIDE DEF e
  <2>3. [e EXCEPT !.dead = b] \in DeltaType
    BY <2>2 DEF DeltaType
  <2> QED
    BY <2>3 DEF e, n
<1>4. PastLevel(d, p) \in {d, [d EXCEPT !.gen = d.gen + 1, !.dead = TRUE],
                             [d EXCEPT !.gen = d.gen + 1, !.dead = FALSE]}
  <2>1. CASE d.id = NoEntry
    <3>1. (d.id # NoEntry) = FALSE
      BY <2>1
    <3> QED
      BY <3>1 DEF PastLevel
  <2>2. CASE d.id # NoEntry
    <3>1. (d.id # NoEntry) = TRUE
      BY <2>2
    <3> QED
      BY <3>1 DEF PastLevel
  <2> QED
    BY <2>1, <2>2
<1> QED
  BY <1>1, <1>2, <1>4

(* addDelta, of one delta or many, joins the delta to those at its price. *)
LEMMA AddDeltaJoins ==
    ASSUME NEW c \in BOOLEAN, NEW pend, PendOK(pend), NEW d \in DeltaType
    PROVE  /\ PendOK(AddDelta(c, pend, d)) /\ AddDelta(c, pend, d).count # 0
           /\ \A q \in Prices :
                Deltas(AddDelta(c, pend, d), q) =
                  IF q = d.price THEN Join(c, Deltas(pend, q), d) ELSE Deltas(pend, q)
<1> DEFINE new == AddDelta(c, pend, d)
           Joined(list, e) == [list EXCEPT ![e.price] = Join(c, @, e)]
           first == Joined(NoPending.list, pend.simple)
<1>0. /\ pend.count \in 0 .. 2 /\ pend.list \in [Prices -> Seq(DeltaType)] /\ pend.now \in BOOLEAN
      /\ pend \in PendType
  BY DEF PendOK, PendType
<1>1. /\ d.price \in Prices /\ pend.count \in {0, 1, 2}
  BY <1>0 DEF DeltaType
<1>2. ASSUME NEW ds, NEW e PROVE EndsOldLevel(ds, e) \in BOOLEAN
  BY DEF EndsOldLevel
<1>3. ASSUME NEW list \in [Prices -> Seq(DeltaType)], NEW e \in DeltaType
      PROVE  /\ Joined(list, e) \in [Prices -> Seq(DeltaType)]
             /\ \A q \in Prices : Joined(list, e)[q] = IF q = e.price THEN Join(c, list[q], e) ELSE list[q]
  <2>1. e.price \in Prices
    BY DEF DeltaType
  <2>2. list[e.price] \in Seq(DeltaType)
    BY <2>1
  <2>3. Join(c, list[e.price], e) \in Seq(DeltaType)
    BY <2>2, JoinType
  <2> QED
    BY <2>1, <2>3
<1>4. NoPending.list \in [Prices -> Seq(DeltaType)] /\ \A q \in Prices : NoPending.list[q] = <<>>
  BY DEF NoPending
<1>5. CASE pend.count = 0
  <2>1. new = [pend EXCEPT !.count = 1, !.simple = d]
    BY <1>5 DEF AddDelta
  <2>2. new.count = 1 /\ new.simple = d /\ new.list = pend.list /\ new \in PendType
    <3> DEFINE mid == [pend EXCEPT !.count = 1]
    <3>1. mid \in PendType /\ mid.list = pend.list /\ mid.count = 1
      BY <1>0 DEF PendType
    <3>2. new = [mid EXCEPT !.simple = d]
      BY <2>1
    <3> HIDE DEF mid, new
    <3> QED
      BY <3>1, <3>2 DEF PendType
  <2>3. PendOK(new)
    BY <1>5, <2>2 DEF PendOK
  <2> HIDE DEF new
  <2>4. ASSUME NEW q \in Prices
        PROVE  Deltas(new, q) = IF q = d.price THEN Join(c, Deltas(pend, q), d) ELSE Deltas(pend, q)
    <3>1. Deltas(pend, q) = <<>>
      BY <1>5 DEF PendOK, Deltas
    <3>2. Deltas(new, q) = IF q = d.price THEN <<d>> ELSE <<>>
      BY <2>2 DEF Deltas
    <3>3. Join(c, <<>>, d) = <<d>>
      BY JoinFirst
    <3> QED
      BY <3>1, <3>2, <3>3
  <2> QED
    BY <2>2, <2>3, <2>4 DEF new
<1>6. CASE pend.count = 1
  <2>0. pend.simple \in DeltaType
    BY <1>6 DEF PendOK
  <2>1. new = [count |-> 2, simple |-> NoDelta, list |-> Joined(first, d),
               now |-> EndsOldLevel(first[d.price], d)]
    BY <1>6 DEF AddDelta
  <2>2. /\ first \in [Prices -> Seq(DeltaType)]
        /\ \A q \in Prices : first[q] = IF q = pend.simple.price THEN Join(c, <<>>, pend.simple) ELSE <<>>
    BY <1>3, <1>4, <2>0
  <2>3. Join(c, <<>>, pend.simple) = <<pend.simple>>
    BY JoinFirst
  <2>4. \A q \in Prices : first[q] = Deltas(pend, q)
    BY <1>6, <2>2, <2>3 DEF Deltas
  <2> HIDE DEF first
  <2>5. /\ Joined(first, d) \in [Prices -> Seq(DeltaType)]
        /\ \A q \in Prices : Joined(first, d)[q] = IF q = d.price THEN Join(c, first[q], d) ELSE first[q]
    BY <1>3, <2>2
  <2> HIDE DEF Joined
  <2>6. new.count = 2 /\ new.list = Joined(first, d) /\ new \in PendType
    BY <1>2, <2>1, <2>5 DEF PendType
  <2>7. PendOK(new)
    BY <2>6 DEF PendOK
  <2> HIDE DEF new
  <2>8. ASSUME NEW q \in Prices
        PROVE  Deltas(new, q) = IF q = d.price THEN Join(c, Deltas(pend, q), d) ELSE Deltas(pend, q)
    BY <2>4, <2>5, <2>6 DEF Deltas
  <2> QED
    BY <2>6, <2>7, <2>8 DEF new
<1>7. CASE pend.count = 2
  <2>1. new = [pend EXCEPT !.list = Joined(pend.list, d),
                           !.now = @ \/ EndsOldLevel(pend.list[d.price], d)]
    BY <1>7 DEF AddDelta
  <2>5. /\ Joined(pend.list, d) \in [Prices -> Seq(DeltaType)]
        /\ \A q \in Prices : Joined(pend.list, d)[q] =
                               IF q = d.price THEN Join(c, pend.list[q], d) ELSE pend.list[q]
    BY <1>0, <1>3
  <2> HIDE DEF Joined
  <2>6. new.count = 2 /\ new.list = Joined(pend.list, d) /\ new \in PendType
    BY <1>0, <1>2, <1>7, <2>1, <2>5 DEF PendType
  <2>7. PendOK(new)
    BY <2>6 DEF PendOK
  <2> HIDE DEF new
  <2>8. ASSUME NEW q \in Prices
        PROVE  Deltas(new, q) = IF q = d.price THEN Join(c, Deltas(pend, q), d) ELSE Deltas(pend, q)
    BY <1>7, <2>5, <2>6 DEF Deltas
  <2> QED
    BY <2>6, <2>7, <2>8 DEF new
<1> QED
  BY <1>1, <1>5, <1>6, <1>7

(* A level is detached: the deltas of its entries are dead. *)
MarkLevel(ds, p) == [i \in DOMAIN ds |-> PastLevel(ds[i], p)]

(* Marked deltas are deltas. *)
LEMMA MarkType ==
    ASSUME NEW ds \in Seq(DeltaType), NEW p, NEW id
    PROVE  Mark(ds, p, id) \in Seq(DeltaType) /\ MarkLevel(ds, p) \in Seq(DeltaType)
<1>1. ASSUME NEW d \in DeltaType PROVE PastEntry(d, p, id) \in DeltaType /\ PastLevel(d, p) \in DeltaType
  BY PastType
<1>2. DOMAIN ds = 1 .. Len(ds) /\ Len(ds) \in Nat /\ \A i \in DOMAIN ds : ds[i] \in DeltaType
  OBVIOUS
<1>3. /\ Mark(ds, p, id) \in [1 .. Len(ds) -> DeltaType]
      /\ MarkLevel(ds, p) \in [1 .. Len(ds) -> DeltaType]
  BY <1>1, <1>2 DEF Mark, MarkLevel
<1> HIDE DEF Mark, MarkLevel
<1> QED
  BY <1>2, <1>3

(* Detaching an entry marks its deltas wherever they are kept. *)
LEMMA EntryDetachedMarks ==
    ASSUME NEW pend, PendOK(pend), NEW p \in Prices, NEW id
    PROVE  /\ PendOK(EntryDetached(pend, p, id))
           /\ EntryDetached(pend, p, id).count = pend.count
           /\ \A q \in Prices : Deltas(EntryDetached(pend, p, id), q) =
                                  IF q = p THEN Mark(Deltas(pend, q), p, id) ELSE Deltas(pend, q)
<1> DEFINE new == EntryDetached(pend, p, id)
           list == [pend.list EXCEPT ![p] = Mark(@, p, id)]
           simple == PastEntry(pend.simple, p, id)
<1>1. /\ pend.count \in 0 .. 2 /\ pend.list \in [Prices -> Seq(DeltaType)] /\ pend \in PendType
      /\ pend.simple \in DeltaType \cup {NoDelta}
  BY DEF PendOK, PendType
<1>2. Mark(pend.list[p], p, id) \in Seq(DeltaType)
  BY <1>1, MarkType
<1>3. list \in [Prices -> Seq(DeltaType)]
  BY <1>1, <1>2
<1>4. simple \in DeltaType \cup {NoDelta} /\ (pend.simple \in DeltaType => simple \in DeltaType)
  BY <1>1, PastType DEF PastEntry
<1>5. new = [pend EXCEPT !.simple = simple, !.list = list]
  BY <1>1 DEF EntryDetached, Mark, PendType
<1> HIDE DEF simple, list, new
<1>6. new \in PendType /\ new.count = pend.count /\ new.simple = simple /\ new.list = list
  BY <1>1, <1>3, <1>4, <1>5 DEF PendType
<1>7. \A q \in Prices : list[q] = IF q = p THEN Mark(pend.list[q], p, id) ELSE pend.list[q]
  BY <1>1 DEF list
<1>8. Mark(<<>>, p, id) = <<>>
  BY DEF Mark
<1>9. PendOK(new)
  BY <1>4, <1>6, <1>7, <1>8 DEF PendOK
<1>10. ASSUME NEW q \in Prices
       PROVE  Deltas(new, q) = IF q = p THEN Mark(Deltas(pend, q), p, id) ELSE Deltas(pend, q)
  <2>1. CASE pend.count # 1
    BY <1>6, <1>7, <2>1 DEF Deltas
  <2>2. CASE pend.count = 1
    <3>1. pend.simple \in DeltaType /\ pend.simple # NoDelta
      BY <2>2, BookDeltaAssumption DEF PendOK
    <3>2. simple.price = pend.simple.price
      BY <3>1 DEF simple, PastEntry, DeltaType
    <3>3. q # p /\ pend.simple.price = q => simple = pend.simple
      BY <3>1 DEF simple, PastEntry
    <3>4. Mark(<<pend.simple>>, p, id) = <<simple>>
      BY <3>1 DEF Mark, simple
    <3> QED
      BY <1>6, <1>8, <2>2, <3>2, <3>3, <3>4 DEF Deltas
  <2> QED
    BY <2>1, <2>2
<1> QED
  BY <1>6, <1>9, <1>10 DEF new

(* Detaching a level marks the deltas at its price wherever they are kept. *)
LEMMA LevelDetachedMarks ==
    ASSUME NEW pend, PendOK(pend), NEW p \in Prices
    PROVE  /\ PendOK(LevelDetached(pend, p))
           /\ LevelDetached(pend, p).count = pend.count
           /\ \A q \in Prices : Deltas(LevelDetached(pend, p), q) =
                                  IF q = p THEN MarkLevel(Deltas(pend, q), p) ELSE Deltas(pend, q)
<1> DEFINE new == LevelDetached(pend, p)
           list == [pend.list EXCEPT ![p] = MarkLevel(@, p)]
           simple == PastLevel(pend.simple, p)
<1>1. /\ pend.count \in 0 .. 2 /\ pend.list \in [Prices -> Seq(DeltaType)] /\ pend \in PendType
      /\ pend.simple \in DeltaType \cup {NoDelta}
  BY DEF PendOK, PendType
<1>2. MarkLevel(pend.list[p], p) \in Seq(DeltaType)
  BY <1>1, MarkType
<1>3. list \in [Prices -> Seq(DeltaType)]
  BY <1>1, <1>2
<1>4. simple \in DeltaType \cup {NoDelta} /\ (pend.simple \in DeltaType => simple \in DeltaType)
  BY <1>1, PastType DEF PastLevel
<1>5. new = [pend EXCEPT !.simple = simple, !.list = list]
  BY <1>1 DEF LevelDetached, MarkLevel, PendType
<1> HIDE DEF simple, list, new
<1>6. new \in PendType /\ new.count = pend.count /\ new.simple = simple /\ new.list = list
  BY <1>1, <1>3, <1>4, <1>5 DEF PendType
<1>7. \A q \in Prices : list[q] = IF q = p THEN MarkLevel(pend.list[q], p) ELSE pend.list[q]
  BY <1>1 DEF list
<1>8. MarkLevel(<<>>, p) = <<>>
  BY DEF MarkLevel
<1>9. PendOK(new)
  BY <1>4, <1>6, <1>7, <1>8 DEF PendOK
<1>10. ASSUME NEW q \in Prices
       PROVE  Deltas(new, q) = IF q = p THEN MarkLevel(Deltas(pend, q), p) ELSE Deltas(pend, q)
  <2>1. CASE pend.count # 1
    BY <1>6, <1>7, <2>1 DEF Deltas
  <2>2. CASE pend.count = 1
    <3>1. pend.simple \in DeltaType /\ pend.simple # NoDelta
      BY <2>2, BookDeltaAssumption DEF PendOK
    <3>2. simple.price = pend.simple.price
      BY <3>1 DEF simple, PastLevel, DeltaType
    <3>3. q # p /\ pend.simple.price = q => simple = pend.simple
      BY <3>1 DEF simple, PastLevel
    <3>4. MarkLevel(<<pend.simple>>, p) = <<simple>>
      BY <3>1 DEF MarkLevel, simple
    <3> QED
      BY <1>6, <1>8, <2>2, <3>2, <3>3, <3>4 DEF Deltas
  <2> QED
    BY <2>1, <2>2
<1> QED
  BY <1>6, <1>9, <1>10 DEF new

(* The loop over the deltas has a state after each of them. *)
LEMMA AddDeltasRuns ==
    ASSUME NEW c \in BOOLEAN, NEW pend, PendOK(pend), NEW ds \in Seq(DeltaType)
    PROVE  \E f : /\ f[0] = pend
                  /\ \A k \in 1 .. Len(ds) : f[k] = AddDelta(c, f[k - 1], ds[k])
                  /\ AddDeltas(c, pend, ds) = f[Len(ds)]
<1> DEFINE n == Len(ds)
           X == {x \in PendType : PendOK(x)}
           step == [k \in 1 .. n |-> [x \in X |-> AddDelta(c, x, ds[k])]]
           Body(f) == [k \in 0 .. n |-> IF k = 0 THEN pend ELSE AddDelta(c, f[k - 1], ds[k])]
           g == CHOOSE f : f = Body(f)
<1>1. n \in Nat /\ \A k \in 1 .. n : ds[k] \in DeltaType
  OBVIOUS
<1>2. pend \in X
  BY DEF PendOK
<1>3. \A k \in 1 .. n : \A x \in X : AddDelta(c, x, ds[k]) \in X
  <2> SUFFICES ASSUME NEW k \in 1 .. n, NEW x \in X PROVE AddDelta(c, x, ds[k]) \in X
    OBVIOUS
  <2>1. PendOK(AddDelta(c, x, ds[k]))
    BY <1>1, AddDeltaJoins
  <2> QED
    BY <2>1 DEF PendOK
<1> HIDE DEF X
<1>4. step \in [1 .. n -> [X -> X]]
  BY <1>3
<1> HIDE DEF n, step
<1>a. n \in Nat
  BY <1>1
<1>b. PICK f : LoopStates(n, X, pend, step, f)
  BY <1>a, <1>2, <1>4, LoopRuns
<1>5. f \in [0 .. n -> X] /\ f[0] = pend /\ \A i \in 1 .. n : f[i] = step[i][f[i - 1]]
  BY <1>b DEF LoopStates
<1>6. \A i \in 1 .. n : f[i] = AddDelta(c, f[i - 1], ds[i])
  <2> SUFFICES ASSUME NEW i \in 1 .. n PROVE f[i] = AddDelta(c, f[i - 1], ds[i])
    OBVIOUS
  <2>1. i - 1 \in 0 .. n
    BY <1>1
  <2>2. f[i - 1] \in X
    BY <1>5, <2>1
  <2> QED
    BY <1>5, <2>2 DEF step
<1>7. f = Body(f)
  <2>1. \A k \in 0 .. n : f[k] = IF k = 0 THEN pend ELSE AddDelta(c, f[k - 1], ds[k])
    <3> SUFFICES ASSUME NEW k \in 0 .. n PROVE f[k] = IF k = 0 THEN pend ELSE AddDelta(c, f[k - 1], ds[k])
      OBVIOUS
    <3>1. k = 0 \/ k \in 1 .. n
      BY <1>1
    <3> QED
      BY <1>5, <1>6, <3>1
  <2> QED
    BY <1>5, <2>1
<1>8. g = Body(g)
  BY <1>7
<1>9. AddDeltas(c, pend, ds) = g[n]
  BY DEF AddDeltas, n
<1> HIDE DEF g
<1>10. g[0] = pend
  BY <1>1, <1>8
<1>11. \A k \in 1 .. n : g[k] = AddDelta(c, g[k - 1], ds[k])
  <2> SUFFICES ASSUME NEW k \in 1 .. n PROVE g[k] = AddDelta(c, g[k - 1], ds[k])
    OBVIOUS
  <2>1. k \in 0 .. n /\ k # 0
    BY <1>1
  <2>2. Body(g)[k] = AddDelta(c, g[k - 1], ds[k])
    BY <2>1
  <2> QED
    BY <1>8, <2>2
<1> QED
  BY <1>9, <1>10, <1>11 DEF n

(* What the end of a level leaves of the deltas old at its price. *)
OnlyEnds(c, old, ds, p) ==
    /\ ds \in Seq(DeltaType)
    /\ \A i \in DOMAIN ds : ds[i].pl = "DELETE" /\ ds[i].price = p
    /\ ds = <<>> => old # <<>> /\ old[1].pl = "ADD"
    /\ c => Len(ds) <= 1

(* One more delta of the end of a level. *)
LEMMA OneEnd ==
    ASSUME NEW c \in BOOLEAN, NEW p, NEW old \in Seq(DeltaType), NEW ds \in Seq(DeltaType),
           NEW d \in DeltaType, d.pl = "DELETE", d.price = p,
           c \/ old = <<>>, ds = old \/ OnlyEnds(c, old, ds, p)
    PROVE  OnlyEnds(c, old, Join(c, ds, d), p)
<1> DEFINE e == [d EXCEPT !.id = NoEntry]
<1>0. e \in DeltaType /\ e.pl = "DELETE" /\ e.price = p
  BY DEF DeltaType
<1>1. ASSUME NEW x \in DeltaType, x.pl = "DELETE", x.price = p PROVE OnlyEnds(c, old, <<x>>, p)
  BY <1>1 DEF OnlyEnds
<1>2. CASE ds = <<>>
  <2>1. Join(c, ds, d) = <<d>>
    BY <1>2, JoinFirst
  <2> QED
    BY <1>1, <2>1
<1>3. CASE ds # <<>> /\ ~c
  <2>1. Join(c, ds, d) = Append(ds, d)
    BY <1>3 DEF Join
  <2>2. OnlyEnds(c, old, ds, p)
    BY <1>3
  <2>3. /\ Append(ds, d) \in Seq(DeltaType) /\ Append(ds, d) # <<>> /\ Len(ds) \in Nat
        /\ DOMAIN Append(ds, d) = 1 .. Len(ds) + 1 /\ DOMAIN ds = 1 .. Len(ds)
        /\ Append(ds, d)[Len(ds) + 1] = d /\ \A i \in 1 .. Len(ds) : Append(ds, d)[i] = ds[i]
    OBVIOUS
  <2>4. \A i \in 1 .. Len(ds) + 1 : i \in 1 .. Len(ds) \/ i = Len(ds) + 1
    BY <2>3
  <2>5. \A i \in DOMAIN Append(ds, d) : Append(ds, d)[i].pl = "DELETE" /\ Append(ds, d)[i].price = p
    BY <2>2, <2>3, <2>4 DEF OnlyEnds
  <2>6. OnlyEnds(c, old, Append(ds, d), p)
    BY <1>3, <2>3, <2>5 DEF OnlyEnds
  <2> QED
    BY <2>1, <2>6
<1>4. CASE ds # <<>> /\ c
  <2>0. 1 \in DOMAIN ds /\ Head(ds) = ds[1]
    BY <1>4
  <2>1. Join(c, ds, d) = IF ds[1].pl # "ADD" THEN <<e>> ELSE <<>>
    BY <1>4, <2>0 DEF Join, ConflateEntryDeltas, EndsOldLevel
  <2>2. ASSUME ds[1].pl = "ADD" PROVE OnlyEnds(c, old, <<>>, p)
    <3>1. ds = old
      BY <2>0, <2>2 DEF OnlyEnds
    <3> QED
      BY <1>4, <2>2, <3>1 DEF OnlyEnds
  <2> HIDE DEF e
  <2> QED
    BY <1>0, <1>1, <2>1, <2>2
<1> QED
  BY <1>2, <1>3, <1>4

(* The deltas of the end of a level replace those at its price. *)
LEMMA AllEnds ==
    ASSUME NEW c \in BOOLEAN, NEW pend, PendOK(pend), NEW p \in Prices, NEW ds \in Seq(DeltaType), ds # <<>>,
           \A k \in DOMAIN ds : ds[k].pl = "DELETE" /\ ds[k].price = p
    PROVE  LET new == AddDeltas(c, pend, ds) IN
           /\ PendOK(new) /\ new.count # 0
           /\ \A q \in Prices \ {p} : Deltas(new, q) = Deltas(pend, q)
           /\ c \/ Deltas(pend, p) = <<>> => OnlyEnds(c, Deltas(pend, p), Deltas(new, p), p)
<1> DEFINE n == Len(ds)
           old == Deltas(pend, p)
           Fine(x, k) == /\ PendOK(x) /\ (k # 0 => x.count # 0)
                         /\ \A q \in Prices \ {p} : Deltas(x, q) = Deltas(pend, q)
                         /\ c \/ old = <<>> => IF k = 0 THEN Deltas(x, p) = old
                                               ELSE OnlyEnds(c, old, Deltas(x, p), p)
<1>0. n \in Nat /\ n # 0 /\ DOMAIN ds = 1 .. n /\ \A k \in 1 .. n : ds[k] \in DeltaType
  OBVIOUS
<1>1. PICK f : /\ f[0] = pend
               /\ \A k \in 1 .. n : f[k] = AddDelta(c, f[k - 1], ds[k])
               /\ AddDeltas(c, pend, ds) = f[n]
  BY AddDeltasRuns
<1> HIDE DEF n
<1>2. Fine(f[0], 0)
  BY <1>1
<1>3. ASSUME NEW k \in 1 .. n, Fine(f[k - 1], k - 1) PROVE Fine(f[k], k)
  <2> DEFINE x == f[k - 1]
             d == ds[k]
  <2>1. d \in DeltaType /\ d.pl = "DELETE" /\ d.price = p /\ f[k] = AddDelta(c, x, d)
    BY <1>0, <1>1
  <2>2. PendOK(x)
    BY <1>3
  <2> HIDE DEF x, d
  <2>a. d \in DeltaType
    BY <2>1
  <2>b. /\ PendOK(AddDelta(c, x, d)) /\ AddDelta(c, x, d).count # 0
        /\ \A q \in Prices : Deltas(AddDelta(c, x, d), q) =
                               IF q = d.price THEN Join(c, Deltas(x, q), d) ELSE Deltas(x, q)
    BY <2>a, <2>2, AddDeltaJoins
  <2>3. /\ PendOK(f[k]) /\ f[k].count # 0
        /\ \A q \in Prices : Deltas(f[k], q) =
                               IF q = d.price THEN Join(c, Deltas(x, q), d) ELSE Deltas(x, q)
    BY <2>1, <2>b
  <2>4. \A q \in Prices \ {p} : Deltas(f[k], q) = Deltas(pend, q)
    BY <1>3, <2>1, <2>3 DEF x
  <2>5. ASSUME c \/ old = <<>> PROVE OnlyEnds(c, old, Deltas(f[k], p), p)
    <3>1. Deltas(f[k], p) = Join(c, Deltas(x, p), d)
      BY <2>1, <2>3
    <3>2. Deltas(x, p) = old \/ OnlyEnds(c, old, Deltas(x, p), p)
      BY <1>3, <2>5 DEF x
    <3>3. old \in Seq(DeltaType) /\ Deltas(x, p) \in Seq(DeltaType)
      BY <2>2 DEF PendOK, PendType, Deltas
    <3> HIDE DEF old
    <3> QED
      BY <2>1, <2>5, <3>1, <3>2, <3>3, OneEnd
  <2>6. k # 0
    BY <1>0
  <2> QED
    BY <2>3, <2>4, <2>5, <2>6
<1> HIDE DEF Fine, old
<1>4. Fine(f[n], n)
  <2> DEFINE S == {k \in 0 .. n : ~Fine(f[k], k)}
  <2> SUFFICES ASSUME S # {} PROVE FALSE
    BY <1>0
  <2>1. S \in SUBSET Nat
    BY <1>0
  <2>2. PICK k \in S : \A j \in S : k <= j
    BY <2>1, Smallest
  <2>3. k \in 0 .. n /\ ~Fine(f[k], k)
    OBVIOUS
  <2>4. k # 0
    BY <1>2, <2>3
  <2>5. k \in 1 .. n /\ k - 1 \in 0 .. n /\ ~(k <= k - 1)
    BY <1>0, <2>3, <2>4
  <2>6. Fine(f[k - 1], k - 1)
    BY <2>2, <2>5
  <2> QED
    BY <1>3, <2>3, <2>5, <2>6
<1>5. AddDeltas(c, pend, ds) = f[n]
  BY <1>1
<1> QED
  BY <1>0, <1>4, <1>5 DEF Fine, old

(* Listed, ordered and faithful: what the handler needs. *)
Tells(ds, t, p, level) == Listed(ds, p) /\ Ordered(ds) /\ Faithful(ds, t, p, level)

(* The end of a level. *)
LEMMA LevelEnds ==
    ASSUME NEW c \in BOOLEAN, NEW t, Copy(t), NEW p \in Prices,
           NEW old, NEW ds, NEW level, NEW there, Conflated(old, t, p, there, level, "none"),
           OnlyEnds(c, old, ds, p)
    PROVE  /\ Tells(MarkLevel(ds, p), t, p, <<>>)
           /\ c => Conflated(MarkLevel(ds, p), t, p, FALSE, <<>>, "none")
<1> DEFINE es == MarkLevel(ds, p)
<1>0. ds \in Seq(DeltaType) /\ DOMAIN ds = 1 .. Len(ds) /\ Len(ds) \in Nat
  BY DEF OnlyEnds
<1>1. es \in Seq(DeltaType) /\ DOMAIN es = DOMAIN ds
  BY <1>0, MarkType DEF MarkLevel
<1>2. ASSUME NEW i \in DOMAIN es
      PROVE  es[i].pl = "DELETE" /\ es[i].price = p /\ (es[i].dead \/ es[i].id = NoEntry)
  <2>1. ds[i] \in DeltaType /\ ds[i] # NoDelta /\ ds[i].pl = "DELETE" /\ ds[i].price = p
    BY <1>0, <1>1, BookDeltaAssumption DEF OnlyEnds
  <2>2. es[i] = [ds[i] EXCEPT !.gen = ds[i].gen + 1, !.dead = (ds[i].id # NoEntry)]
    BY <1>1, <2>1 DEF MarkLevel, PastLevel
  <2>3. CASE ds[i].id = NoEntry
    BY <2>1, <2>2, <2>3 DEF DeltaType
  <2>4. CASE ds[i].id # NoEntry
    <3>1. (ds[i].id # NoEntry) = TRUE
      BY <2>4
    <3>2. es[i] = [ds[i] EXCEPT !.gen = ds[i].gen + 1, !.dead = TRUE]
      BY <2>2, <3>1
    <3> QED
      BY <2>1, <3>2 DEF DeltaType
  <2> QED
    BY <2>3, <2>4
<1> HIDE DEF es
<1>3. Listed(es, p) /\ Ordered(es)
  BY <1>1, <1>2 DEF Listed, Ordered
<1>4. ASSUME NEW id \in Ids PROVE FaithfulAt(es, t, p, <<>>, id)
  <2>0. id \notin DOMAIN <<>> /\ id # NoEntry
    BY BookDeltaAssumption
  <2>1. CASE ds = <<>>
    <3>1. \A s : <<p, id, s>> \notin t
      BY <2>1 DEF OnlyEnds, Conflated, Shaped, Named, Had
    <3>2. Untold(es, id)
      BY <1>0, <1>1, <2>1 DEF Untold
    <3> QED
      BY <2>0, <3>1, <3>2 DEF FaithfulAt
  <2>2. CASE ds # <<>>
    <3>1. 1 \in DOMAIN es
      BY <1>0, <1>1, <2>2
    <3>2. ~Untold(es, id) /\ ~Live(es, id)
      BY <1>2, <2>0, <3>1 DEF Untold, About, Live
    <3> QED
      BY <2>0, <3>2 DEF FaithfulAt
  <2> QED
    BY <2>1, <2>2
<1>5. ASSUME c PROVE Conflated(es, t, p, FALSE, <<>>, "none")
  <2>1. Len(es) <= 1 /\ Len(es) \in Nat /\ \A i \in DOMAIN es : i = 1
    BY <1>0, <1>1, <1>5 DEF OnlyEnds
  <2>2. Shaped(es, t, p, "none")
    <3>1. \A i \in DOMAIN es : es[i].pl = "DELETE" /\ i = 1
      BY <1>2, <2>1
    <3>2. \A i \in DOMAIN es : ~es[i].dead => es[i].id = NoEntry
      BY <1>2
    <3>3. ~Had(t, p, NoEntry)
      BY BookDeltaAssumption DEF Had, Copy
    <3>4. \A i \in DOMAIN es : ~es[i].dead => ~Had(t, p, es[i].id)
      BY <3>2, <3>3
    <3>5. es # <<>> => es[1].pl # "ADD"
      BY <1>1, <3>1
    <3> QED
      BY <3>1, <3>4, <3>5 DEF Shaped, Placed, Named
  <2>3. es # <<>> => 1 \in DOMAIN es /\ Len(es) = 1
    <3>1. es \in Seq(DeltaType)
      BY <1>1
    <3>2. es # <<>> => Len(es) # 0 /\ DOMAIN es = 1 .. Len(es)
      BY <3>1
    <3> QED
      BY <2>1, <3>2
  <2>4. es # <<>> => Len(es) = 1 /\ es[1].pl = "DELETE"
    BY <1>2, <2>3
  <2> QED
    BY <1>3, <1>4, <2>2, <2>4 DEF Conflated, Faithful
<1> QED
  BY <1>3, <1>4, <1>5 DEF Tells, Faithful, es

-----------------------------------------------------------------------------
(* What the handler makes of the deltas. *)

(* The entries of a book, and those that a level has. *)
LEMMA EntriesOf ==
    ASSUME NEW b, BookType(b), NEW p, NEW id, NEW s
    PROVE  <<p, id, s>> \in Entries(b) <=>
             id \in DOMAIN LevelOf(b, p) /\ s = LevelOf(b, p)[id]
<1>0. DOMAIN <<>> = {}
  OBVIOUS
<1>1. ASSUME NEW q, NEW i PROVE <<q, i>> \in Places(b) <=> q \in DOMAIN b /\ i \in DOMAIN b[q]
  BY DEF Places
<1>2. <<p, id, s>> \in Entries(b) <=> \E x \in Places(b) : <<p, id, s>> = <<x[1], x[2], b[x[1]][x[2]]>>
  BY DEF Entries
<1>3. ASSUME NEW x \in Places(b) PROVE \E q \in DOMAIN b : \E i \in DOMAIN b[q] : x = <<q, i>>
  BY DEF Places
<1>4. ASSUME <<p, id, s>> \in Entries(b)
      PROVE  p \in DOMAIN b /\ id \in DOMAIN b[p] /\ s = b[p][id]
  BY <1>2, <1>3, <1>4
<1>5. ASSUME p \in DOMAIN b, id \in DOMAIN b[p], s = b[p][id]
      PROVE  <<p, id, s>> \in Entries(b)
  <2>1. <<p, id>> \in Places(b)
    BY <1>1, <1>5
  <2>2. <<p, id, s>> = <<<<p, id>>[1], <<p, id>>[2], b[<<p, id>>[1]][<<p, id>>[2]]>>
    BY <1>5
  <2> QED
    BY <1>2, <2>1, <2>2
<1> QED
  BY <1>0, <1>4, <1>5 DEF LevelOf

(* The entries of a book have their types. *)
LEMMA EntriesType ==
    ASSUME NEW b, BookType(b)
    PROVE  Entries(b) \in SUBSET (Prices \X Ids \X Sizes)
  BY DEF Entries, Places, BookType, LevelType

(* What the handler takes for an entry is what the book has. *)
LEMMA StaysIsLive ==
    ASSUME NEW ds, NEW p, Listed(ds, p), Ordered(ds), NEW id \in Ids
    PROVE  Stays(ds, id) <=> Live(ds, id)
<1>0. id # NoEntry
  BY BookDeltaAssumption
<1>1. DOMAIN ds = 1 .. Len(ds) /\ Len(ds) \in Nat
  BY DEF Listed
<1>2. ASSUME Stays(ds, id) PROVE Live(ds, id)
  BY <1>2 DEF Stays, Live, About, Ends
<1>3. ASSUME Live(ds, id) PROVE Stays(ds, id)
  <2>1. PICK i \in DOMAIN ds : ds[i].id = id /\ ~ds[i].dead
    BY <1>3 DEF Live
  <2>2. About(ds[i], id) /\ ~Ends(ds[i])
    BY <1>0, <2>1 DEF About, Ends, Ordered
  <2>3. ASSUME NEW j \in DOMAIN ds, j > i, About(ds[j], id) PROVE FALSE
    BY <1>0, <1>1, <2>1, <2>3 DEF Ordered
  <2> QED
    BY <2>2, <2>3 DEF Stays
<1> QED
  BY <1>2, <1>3

(* A copy that agrees with a level, as no deltas say. *)
Agrees(t, b, p) == Faithful(<<>>, t, p, LevelOf(b, p))

(* What agreement is. *)
LEMMA AgreesIs ==
    ASSUME NEW t, NEW b, NEW p
    PROVE  Agrees(t, b, p) <=>
             \A id \in Ids : \A s : <<p, id, s>> \in t <=>
                                   (id \in DOMAIN LevelOf(b, p) /\ LevelOf(b, p)[id] = s)
<1>1. DOMAIN <<>> = {}
  OBVIOUS
<1>2. ASSUME NEW id PROVE Untold(<<>>, id)
  BY <1>1 DEF Untold
<1> QED
  BY <1>2 DEF Agrees, Faithful, FaithfulAt

(* The entries of a book are a copy of it. *)
LEMMA EntriesCopy ==
    ASSUME NEW b, BookType(b)
    PROVE  Copy(Entries(b)) /\ \A p \in Prices : Agrees(Entries(b), b, p)
<1>1. Copy(Entries(b))
  BY EntriesType DEF Copy
<1>2. ASSUME NEW p \in Prices PROVE Agrees(Entries(b), b, p)
  BY EntriesOf, AgreesIs
<1> QED
  BY <1>1, <1>2

(* Where a copy agrees with a book, it does not differ from it. *)
LEMMA AgreesNotDiffers ==
    ASSUME NEW t, Copy(t), NEW b, BookType(b), NEW L,
           \A p \in Prices : p \notin L => Agrees(t, b, p)
    PROVE  Differ(t, Entries(b)) \subseteq L
<1> DEFINE E == Entries(b)
<1>1. Copy(E)
  BY EntriesCopy
<1>2. ASSUME NEW p \in Prices, NEW id \in Ids, NEW s, p \notin L
      PROVE  <<p, id, s>> \in t <=> <<p, id, s>> \in E
  BY <1>2, AgreesIs, EntriesOf
<1> HIDE DEF E
<1>3. ASSUME NEW e \in (t \ E) \cup (E \ t) PROVE e[1] \in L
  <2>1. PICK p \in Prices, id \in Ids : \E s : e = <<p, id, s>>
    BY <1>1 DEF Copy
  <2>2. PICK s : e = <<p, id, s>>
    BY <2>1
  <2> QED
    BY <1>2, <2>2
<1> QED
  BY <1>3 DEF Differ, E

(* What the handler makes of the deltas is a copy. *)
LEMMA GivenCopy ==
    ASSUME NEW t, Copy(t), NEW b, NEW pend
    PROVE  Copy(Given(t, b, pend))
<1> DEFINE old == {e \in t : Untold(Deltas(pend, e[1]), e[2])}
           places == {y \in Prices \X Ids : Stays(Deltas(pend, y[1]), y[2])}
           new == {<<x[1], x[2], LevelOf(b, x[1])[x[2]]>> : x \in places}
<1>1. Given(t, b, pend) = old \cup new
  BY DEF Given
<1>2. \A e \in new : \E p \in Prices, id \in Ids : \E s : e = <<p, id, s>>
  OBVIOUS
<1> QED
  BY <1>1, <1>2 DEF Copy

(* Where the deltas tell the level, the handler has it. *)
LEMMA TellsAll ==
    ASSUME NEW t, NEW b, NEW pend, NEW p \in Prices,
           Tells(Deltas(pend, p), t, p, LevelOf(b, p))
    PROVE  Agrees(Given(t, b, pend), b, p)
<1> DEFINE G == Given(t, b, pend)
           old == {e \in t : Untold(Deltas(pend, e[1]), e[2])}
           places == {y \in Prices \X Ids : Stays(Deltas(pend, y[1]), y[2])}
           new == {<<x[1], x[2], LevelOf(b, x[1])[x[2]]>> : x \in places}
<1>1. G = old \cup new
  BY DEF Given
<1>2. ASSUME NEW id \in Ids
      PROVE  /\ FaithfulAt(Deltas(pend, p), t, p, LevelOf(b, p), id)
             /\ Stays(Deltas(pend, p), id) <=> Live(Deltas(pend, p), id)
             /\ Live(Deltas(pend, p), id) => ~Untold(Deltas(pend, p), id)
  <2>1. Tells(Deltas(pend, p), t, p, LevelOf(b, p))
    OBVIOUS
  <2>2. FaithfulAt(Deltas(pend, p), t, p, LevelOf(b, p), id)
    BY <2>1 DEF Tells, Faithful
  <2>3. Stays(Deltas(pend, p), id) <=> Live(Deltas(pend, p), id)
    BY <2>1, StaysIsLive DEF Tells
  <2>4. Live(Deltas(pend, p), id) => ~Untold(Deltas(pend, p), id)
    BY DEF Live, Untold, About
  <2> QED
    BY <2>2, <2>3, <2>4
<1>3. ASSUME NEW id \in Ids, NEW s
      PROVE  (id \in DOMAIN LevelOf(b, p) /\ LevelOf(b, p)[id] = s) <=>
               \/ Untold(Deltas(pend, p), id) /\ <<p, id, s>> \in t
               \/ Stays(Deltas(pend, p), id) /\ s = LevelOf(b, p)[id]
  BY <1>2 DEF FaithfulAt
<1>4. ASSUME NEW id \in Ids, NEW s
      PROVE  <<p, id, s>> \in old <=> Untold(Deltas(pend, p), id) /\ <<p, id, s>> \in t
  OBVIOUS
<1>5. ASSUME NEW id \in Ids, NEW s
      PROVE  <<p, id, s>> \in new <=> Stays(Deltas(pend, p), id) /\ s = LevelOf(b, p)[id]
  <2>1. <<p, id>> \in places <=> Stays(Deltas(pend, p), id)
    OBVIOUS
  <2>2. ASSUME <<p, id, s>> \in new PROVE <<p, id>> \in places /\ s = LevelOf(b, p)[id]
    <3>1. PICK x \in places : <<p, id, s>> = <<x[1], x[2], LevelOf(b, x[1])[x[2]]>>
      BY <2>2
    <3>2. x = <<p, id>> /\ s = LevelOf(b, p)[id]
      BY <3>1
    <3> QED
      BY <3>2
  <2>3. ASSUME <<p, id>> \in places, s = LevelOf(b, p)[id] PROVE <<p, id, s>> \in new
    <3> DEFINE x == <<p, id>>
    <3>1. <<p, id, s>> = <<x[1], x[2], LevelOf(b, x[1])[x[2]]>>
      BY <2>3
    <3> QED
      BY <2>3, <3>1
  <2> QED
    BY <2>1, <2>2, <2>3
<1> HIDE DEF G, old, new, places
<1>6. ASSUME NEW id \in Ids, NEW s
      PROVE  <<p, id, s>> \in G <=> (id \in DOMAIN LevelOf(b, p) /\ LevelOf(b, p)[id] = s)
  BY <1>1, <1>3, <1>4, <1>5
<1>7. Agrees(G, b, p)
  BY <1>6, AgreesIs
<1> QED
  BY <1>7 DEF G

(* A handler that has the level, with no deltas. *)
LEMMA NoDeltas ==
    ASSUME NEW t, NEW b, NEW p, NEW there, NEW w, Agrees(t, b, p)
    PROVE  Conflated(<<>>, t, p, there, LevelOf(b, p), w)
<1>1. DOMAIN <<>> = {} /\ <<>> \in Seq(DeltaType)
  OBVIOUS
<1>2. Listed(<<>>, p) /\ Ordered(<<>>) /\ Shaped(<<>>, t, p, w)
  BY <1>1 DEF Listed, Ordered, Shaped, Placed, Named
<1> QED
  BY <1>2 DEF Conflated, Agrees

-----------------------------------------------------------------------------
(* createDelta. *)

(* What createDelta works on. *)
Sound(s) ==
    /\ PendOK(s.pend) /\ BookType(s.book)
    /\ s.doubt \in [Prices -> {"none", "twice", "lost"}]

(* The deltas turn t into the book, but for what is lost. *)
Follows(s, t) ==
    \A p \in Prices :
        s.doubt[p] # "lost" => Tells(Deltas(s.pend, p), t, p, LevelOf(s.book, p))

(* At a price they do, and are conflated. *)
KeptAt(s, t, p) ==
    s.doubt[p] # "lost" =>
        Conflated(Deltas(s.pend, p), t, p, p \in DOMAIN s.book, LevelOf(s.book, p), s.doubt[p])

(* At every price. *)
Kept(s, t) == \A p \in Prices : KeptAt(s, t, p)

(* A price at which nothing changes. *)
LEMMA KeptElsewhere ==
    ASSUME NEW s, NEW new, NEW t, NEW p, KeptAt(s, t, p),
           Deltas(new.pend, p) = Deltas(s.pend, p), LevelOf(new.book, p) = LevelOf(s.book, p),
           p \in DOMAIN new.book <=> p \in DOMAIN s.book, new.doubt[p] = s.doubt[p]
    PROVE  KeptAt(new, t, p)
<1>1. (p \in DOMAIN new.book) = (p \in DOMAIN s.book)
  OBVIOUS
<1> QED
  BY <1>1 DEF KeptAt

(* Where there is nothing to conflate with, or deltas are conflated. *)
LEMMA JoinConflates ==
    ASSUME NEW c \in BOOLEAN, NEW ds, NEW d, c \/ ds = <<>>
    PROVE  Join(c, ds, d) = ConflateEntryDeltas(ds, d)
<1>1. CASE c
  BY <1>1 DEF Join
<1>2. CASE ds = <<>>
  BY <1>2, JoinFirst DEF ConflateEntryDeltas
<1> QED
  BY <1>1, <1>2

(* Conflated deltas turn the copy into the book. *)
LEMMA KeptFollows ==
    ASSUME NEW s, NEW t, Kept(s, t)
    PROVE  Follows(s, t)
  BY DEF Kept, KeptAt, Follows, Conflated, Tells

(* Put and Without, of the level at one price. *)
LEMMA PutLevel ==
    ASSUME NEW b, NEW p, NEW level
    PROVE  /\ LevelOf(Put(b, p, level), p) = level
           /\ DOMAIN Put(b, p, level) = DOMAIN b \cup {p}
  BY DEF LevelOf, Put

(* The other levels stay. *)
LEMMA PutElsewhere ==
    ASSUME NEW b, NEW p, NEW level, NEW q, q # p
    PROVE  LevelOf(Put(b, p, level), q) = LevelOf(b, q)
  BY DEF LevelOf, Put

(* A book with a new level is a book. *)
LEMMA PutType ==
    ASSUME NEW b, BookType(b), NEW p \in Prices, NEW level, LevelType(level)
    PROVE  BookType(Put(b, p, level))
  BY DEF BookType, Put

(* A level of a book, or none, is a level. *)
LEMMA LevelOfType ==
    ASSUME NEW b, BookType(b), NEW p
    PROVE  LevelType(LevelOf(b, p))
  BY DEF BookType, LevelType, LevelOf

(* Without leaves the rest. *)
LEMMA WithoutIs ==
    ASSUME NEW f, NEW x
    PROVE  /\ DOMAIN Without(f, x) = DOMAIN f \ {x}
           /\ \A y \in DOMAIN f \ {x} : Without(f, x)[y] = f[y]
  BY DEF Without, Restrict

(* What is conflated with less doubt is conflated with more. *)
LEMMA Weaken ==
    ASSUME NEW ds, NEW t, NEW p, NEW there, NEW level, NEW w, NEW v,
           Conflated(ds, t, p, there, level, w), v = "none" => w = "none" \/ ds = <<>>
    PROVE  Conflated(ds, t, p, there, level, v)
<1>1. ds = <<>> => Named(ds, t, p)
  <2>1. DOMAIN <<>> = {}
    OBVIOUS
  <2> QED
    BY <2>1 DEF Named
<1>2. Shaped(ds, t, p, v)
  BY <1>1 DEF Conflated, Shaped
<1> QED
  BY <1>2 DEF Conflated

(* Nothing changes at the other prices. *)
SameElsewhere(s, new, p) ==
    \A q \in Prices \ {p} : Deltas(new.pend, q) = Deltas(s.pend, q) /\ new.doubt[q] = s.doubt[q]

(* A change of the level at one price. *)
LEMMA KeptPut ==
    ASSUME NEW s, NEW new, NEW t, Kept(s, t), NEW p \in Prices, NEW next,
           new.book = Put(s.book, p, next), SameElsewhere(s, new, p),
           new.doubt[p] # "lost" =>
               Conflated(Deltas(new.pend, p), t, p, TRUE, next, new.doubt[p])
    PROVE  Kept(new, t)
<1>1. LevelOf(new.book, p) = next /\ DOMAIN new.book = DOMAIN s.book \cup {p}
  <2> DEFINE b == Put(s.book, p, next)
  <2>1. LevelOf(b, p) = next /\ DOMAIN b = DOMAIN s.book \cup {p}
    BY PutLevel
  <2> HIDE DEF b
  <2> QED
    BY <2>1 DEF b
<1>2. KeptAt(new, t, p)
  <2>1. (p \in DOMAIN new.book) = TRUE
    BY <1>1
  <2> QED
    BY <1>1, <2>1 DEF KeptAt
<1>3. ASSUME NEW q \in Prices \ {p} PROVE KeptAt(new, t, q)
  <2>1. LevelOf(new.book, q) = LevelOf(s.book, q)
    BY PutElsewhere
  <2>2. KeptAt(s, t, q)
    BY DEF Kept
  <2> QED
    BY <1>1, <2>1, <2>2, KeptElsewhere DEF SameElsewhere
<1> QED
  BY <1>2, <1>3 DEF Kept

-----------------------------------------------------------------------------
(* An entry that is set. *)

(* A book and its deltas remain so. *)
LEMMA SetSound ==
    ASSUME conflate \in BOOLEAN, NEW s, Sound(s), NEW p \in Prices, NEW id \in Ids,
           NEW size \in Sizes, NEW act \in {"ADD", "UPDATE"}
    PROVE  Sound(SetEntry(s, p, id, size, act))
<1> DEFINE new == SetEntry(s, p, id, size, act)
           level == LevelOf(s.book, p)
           pl == LevelAction(s.book, p)
           did == IF id \in DOMAIN level THEN act ELSE "ADD"
           next == [i \in DOMAIN level \cup {id} |-> IF i = id THEN size ELSE level[i]]
           d == Delta(p, id, pl, did)
<1>1. /\ new.book = Put(s.book, p, next) /\ new.pend = AddDelta(conflate, s.pend, d)
      /\ new.doubt = s.doubt \/ new.doubt = [s.doubt EXCEPT ![p] = "twice"]
  BY DEF SetEntry, Noted
<1>2. LevelType(level)
  BY LevelOfType DEF Sound
<1>3. d \in DeltaType
  BY DEF Delta, DeltaType, LevelAction
<1> HIDE DEF new, level, pl, did, d
<1>4. LevelType(next)
  BY <1>2 DEF LevelType
<1> HIDE DEF next
<1>5. BookType(new.book)
  BY <1>1, <1>4, PutType DEF Sound
<1>6. PendOK(AddDelta(conflate, s.pend, d))
  BY <1>3, AddDeltaJoins DEF Sound
<1>7. PendOK(new.pend)
  BY <1>1, <1>6
<1>8. new.doubt \in [Prices -> {"none", "twice", "lost"}]
  BY <1>1 DEF Sound
<1> QED
  BY <1>5, <1>7, <1>8 DEF Sound, new

(* The delta of the entry joins the others. *)
LEMMA SetKept ==
    ASSUME conflate \in BOOLEAN, NEW s, Sound(s), NEW t, Kept(s, t),
           conflate \/ \A q \in Prices : Deltas(s.pend, q) = <<>>,
           NEW p \in Prices, NEW id \in Ids,
           NEW size \in Sizes, NEW act \in {"ADD", "UPDATE"}
    PROVE  Kept(SetEntry(s, p, id, size, act), t)
<1> DEFINE new == SetEntry(s, p, id, size, act)
           level == LevelOf(s.book, p)
           there == p \in DOMAIN s.book
           pl == LevelAction(s.book, p)
           did == IF id \in DOMAIN level THEN act ELSE "ADD"
           next == [i \in DOMAIN level \cup {id} |-> IF i = id THEN size ELSE level[i]]
           d == Delta(p, id, pl, did)
           ds == Deltas(s.pend, p)
           w == new.doubt[p]
<1>1. new.book = Put(s.book, p, next) /\ new.pend = AddDelta(conflate, s.pend, d)
  BY DEF SetEntry, Noted
<1>2. /\ \A q \in Prices \ {p} : new.doubt[q] = s.doubt[q]
      /\ w = "none" => s.doubt[p] = "none" /\ (did = "ADD" => id \notin DOMAIN level)
      /\ w # "lost" => s.doubt[p] # "lost"
  <2>1. new.doubt = IF id \in DOMAIN level /\ did = "ADD" /\ s.doubt[p] = "none"
                    THEN [s.doubt EXCEPT ![p] = "twice"] ELSE s.doubt
    BY DEF SetEntry
  <2>2. s.doubt \in [Prices -> {"none", "twice", "lost"}]
    BY DEF Sound
  <2> HIDE DEF new, level, did
  <2> QED
    BY <2>1, <2>2
<1>3. d \in DeltaType /\ d.price = p
  BY DEF Delta, DeltaType, LevelAction
<1>4. there \in BOOLEAN /\ pl \in {"ADD", "UPDATE"} /\ did \in {"ADD", "UPDATE"}
  BY DEF LevelAction
<1>5. (pl = "ADD" => ~there) /\ (pl = "ADD" => DOMAIN level = {})
  BY DEF LevelAction, LevelOf
<1> HIDE DEF level, w, new
<1>6. /\ id \in DOMAIN next
      /\ \A x \in Ids \ {id} : /\ x \in DOMAIN next <=> x \in DOMAIN level
                               /\ x \in DOMAIN level => next[x] = level[x]
  OBVIOUS
<1> HIDE DEF pl, did, next, there, ds
<1>7. ASSUME w # "lost"
      PROVE  Conflated(ConflateEntryDeltas(ds, d), t, p, TRUE, next, w)
  <2>1. Conflated(ds, t, p, there, level, s.doubt[p])
    BY <1>2, <1>7 DEF Kept, KeptAt, there, ds, level
  <2>2. Conflated(ds, t, p, there, level, w)
    BY <1>2, <2>1, Weaken
  <2>3. Conflated(ConflateEntryDeltas(ds, Delta(p, id, pl, did)), t, p, TRUE, next, w)
    <3>1. SetsEntry(ds, there, level, next, id, pl, did, w)
      BY <1>2, <1>5, <1>6 DEF SetsEntry
    <3> QED
      BY <1>4, <2>2, <3>1, SetConflated
  <2> QED
    BY <2>3
<1>8. Join(conflate, ds, d) = ConflateEntryDeltas(ds, d)
  <2>1. conflate \/ ds = <<>>
    BY DEF ds
  <2> QED
    BY <2>1, JoinConflates
<1> HIDE DEF d
<1>9. \A q \in Prices : Deltas(AddDelta(conflate, s.pend, d), q) =
                           IF q = d.price THEN Join(conflate, Deltas(s.pend, q), d)
                           ELSE Deltas(s.pend, q)
  BY <1>3, AddDeltaJoins DEF Sound
<1>10. Deltas(new.pend, p) = ConflateEntryDeltas(ds, d)
  BY <1>1, <1>3, <1>8, <1>9 DEF ds
<1>11. SameElsewhere(s, new, p)
  BY <1>1, <1>2, <1>3, <1>9 DEF SameElsewhere
<1>12. new.doubt[p] # "lost" =>
          Conflated(Deltas(new.pend, p), t, p, TRUE, next, new.doubt[p])
  BY <1>7, <1>10 DEF w
<1>13. Kept(new, t)
  BY <1>1, <1>11, <1>12, KeptPut
<1> QED
  BY <1>13 DEF new

-----------------------------------------------------------------------------
(* The end of an entry. *)

(* The doubt at the other prices stays, and a doubt is never cleared. *)
LEMMA EndDoubt ==
    ASSUME NEW b \in [Prices -> {"none", "twice", "lost"}], NEW p \in Prices
    PROVE  /\ EndInDoubt(b, p) \in [Prices -> {"none", "twice", "lost"}]
           /\ \A q \in Prices \ {p} : EndInDoubt(b, p)[q] = b[q]
           /\ EndInDoubt(b, p)[p] # "lost" =>
                EndInDoubt(b, p)[p] = b[p] /\ b[p] # "lost" /\ (conflate => b[p] = "none")
  BY DEF EndInDoubt

(* A book and its deltas remain so. *)
LEMMA EndSound ==
    ASSUME conflate \in BOOLEAN, NEW s, Sound(s), NEW p \in Prices, NEW id \in Ids
    PROVE  Sound(EndEntry(s, p, id))
<1> DEFINE new == EndEntry(s, p, id)
           level == LevelOf(s.book, p)
           pl == LevelAction(s.book, p)
           next == Without(level, id)
           d == Delta(p, id, pl, "DELETE")
           mid == AddDelta(conflate, s.pend, d)
<1>1. /\ new.book = Put(s.book, p, next)
      /\ new.pend = IF id \notin DOMAIN level THEN s.pend ELSE EntryDetached(mid, p, id)
      /\ new.doubt = s.doubt \/ new.doubt = EndInDoubt(s.doubt, p)
  BY DEF EndEntry, Noted
<1>2. LevelType(level)
  BY LevelOfType DEF Sound
<1>3. d \in DeltaType
  BY DEF Delta, DeltaType, LevelAction
<1> HIDE DEF new, level, d
<1>4. LevelType(next)
  <2>1. DOMAIN next = DOMAIN level \ {id} /\ \A y \in DOMAIN level \ {id} : next[y] = level[y]
    BY WithoutIs
  <2> HIDE DEF next
  <2> QED
    BY <1>2, <2>1 DEF LevelType
<1> HIDE DEF next
<1>5. BookType(new.book)
  BY <1>1, <1>4, PutType DEF Sound
<1>6. PendOK(mid)
  BY <1>3, AddDeltaJoins DEF Sound
<1> HIDE DEF mid
<1>7. PendOK(EntryDetached(mid, p, id))
  BY <1>6, EntryDetachedMarks
<1>8. PendOK(new.pend)
  BY <1>1, <1>7 DEF Sound
<1>9. new.doubt \in [Prices -> {"none", "twice", "lost"}]
  BY <1>1, EndDoubt DEF Sound
<1> QED
  BY <1>5, <1>8, <1>9 DEF Sound, new

(* The end of an entry that is known joins the others; of one that is not, none does. *)
LEMMA EndKept ==
    ASSUME conflate \in BOOLEAN, NEW s, Sound(s), NEW t, Kept(s, t),
           conflate \/ \A q \in Prices : Deltas(s.pend, q) = <<>>,
           NEW p \in Prices, NEW id \in Ids
    PROVE  Kept(EndEntry(s, p, id), t)
<1> DEFINE new == EndEntry(s, p, id)
           level == LevelOf(s.book, p)
           next == Without(level, id)
           d == Delta(p, id, "UPDATE", "DELETE")
           mid == AddDelta(conflate, s.pend, d)
           ds == Deltas(s.pend, p)
<1>1. /\ new.book = Put(s.book, p, next)
      /\ id \notin DOMAIN level => new.pend = s.pend /\ new.doubt = s.doubt
      /\ id \in DOMAIN level => p \in DOMAIN s.book
      /\ id \in DOMAIN level => new.pend = EntryDetached(mid, p, id)
      /\ id \in DOMAIN level => new.doubt = EndInDoubt(s.doubt, p)
  <2>1. /\ new.book = Put(s.book, p, next)
        /\ id \notin DOMAIN level => new.pend = s.pend /\ new.doubt = s.doubt
        /\ id \in DOMAIN level => new.doubt = EndInDoubt(s.doubt, p)
    BY DEF EndEntry
  <2>2. id \in DOMAIN level => p \in DOMAIN s.book
    BY DEF LevelOf
  <2>3. id \in DOMAIN level => new.pend = EntryDetached(mid, p, id)
    BY <2>2 DEF EndEntry, Noted, LevelAction
  <2> QED
    BY <2>1, <2>2, <2>3
<1>2. s.doubt[p] # "lost" => Conflated(ds, t, p, p \in DOMAIN s.book, level, s.doubt[p])
  BY DEF Kept, KeptAt
<1>3. d \in DeltaType /\ d.price = p
  BY DEF Delta, DeltaType
<1> HIDE DEF level, new
<1>4. /\ id \notin DOMAIN next
      /\ \A x \in Ids \ {id} : /\ x \in DOMAIN next <=> x \in DOMAIN level
                               /\ x \in DOMAIN level => next[x] = level[x]
  <2>1. DOMAIN next = DOMAIN level \ {id} /\ \A y \in DOMAIN level \ {id} : next[y] = level[y]
    BY WithoutIs
  <2> HIDE DEF next
  <2> QED
    BY <2>1
<1> HIDE DEF next, ds
<1>5. CASE id \notin DOMAIN level
  <2>1. new.pend = s.pend /\ new.doubt = s.doubt
    BY <1>1, <1>5
  <2>2. \A x \in Ids : /\ x \in DOMAIN next <=> x \in DOMAIN level
                       /\ x \in DOMAIN level => next[x] = level[x]
    BY <1>4, <1>5
  <2>3. ASSUME s.doubt[p] # "lost" PROVE Conflated(ds, t, p, TRUE, next, s.doubt[p])
    <3>1. Conflated(ds, t, p, p \in DOMAIN s.book, level, s.doubt[p])
      BY <1>2, <2>3
    <3>2. Faithful(ds, t, p, next)
      BY <2>2, <3>1 DEF Conflated, Faithful, FaithfulAt
    <3> QED
      BY <3>1, <3>2 DEF Conflated
  <2>4. SameElsewhere(s, new, p)
    BY <2>1 DEF SameElsewhere
  <2>5. new.doubt[p] # "lost" => Conflated(Deltas(new.pend, p), t, p, TRUE, next, new.doubt[p])
    BY <2>1, <2>3 DEF ds
  <2>6. Kept(new, t)
    BY <1>1, <2>4, <2>5, KeptPut
  <2> QED
    BY <2>6 DEF new
<1>6. CASE id \in DOMAIN level
  <2>1. /\ new.pend = EntryDetached(mid, p, id) /\ (p \in DOMAIN s.book) = TRUE
        /\ new.doubt = EndInDoubt(s.doubt, p)
    BY <1>1, <1>6
  <2>2. /\ \A q \in Prices \ {p} : new.doubt[q] = s.doubt[q]
        /\ new.doubt[p] # "lost" => s.doubt[p] # "lost" /\ (conflate => s.doubt[p] = "none")
    BY <2>1, EndDoubt DEF Sound
  <2>3. ASSUME new.doubt[p] # "lost"
        PROVE  Conflated(Mark(ConflateEntryDeltas(ds, d), p, id), t, p, TRUE, next, new.doubt[p])
    <3>1. Conflated(ds, t, p, TRUE, level, s.doubt[p])
      BY <1>2, <2>1, <2>2, <2>3
    <3>2. conflate \/ ds = <<>>
      BY DEF ds
    <3>3. Conflated(ds, t, p, TRUE, level, "none")
      BY <2>2, <2>3, <3>1, <3>2, Weaken
    <3>4. Conflated(Mark(ConflateEntryDeltas(ds, d), p, id), t, p, TRUE, next, "none")
      BY <1>4, <1>6, <3>3, EndConflated
    <3> QED
      BY <3>4, Weaken
  <2>4. Join(conflate, ds, d) = ConflateEntryDeltas(ds, d)
    <3>1. conflate \/ ds = <<>>
      BY DEF ds
    <3> QED
      BY <3>1, JoinConflates
  <2> HIDE DEF d
  <2>5. d \in DeltaType /\ PendOK(s.pend)
    BY <1>3 DEF Sound
  <2>6. PendOK(mid) /\ \A q \in Prices : Deltas(mid, q) =
                           IF q = d.price THEN Join(conflate, Deltas(s.pend, q), d)
                           ELSE Deltas(s.pend, q)
    BY <2>5, AddDeltaJoins
  <2> HIDE DEF mid
  <2>7. \A q \in Prices : Deltas(EntryDetached(mid, p, id), q) =
                            IF q = p THEN Mark(Deltas(mid, q), p, id) ELSE Deltas(mid, q)
    BY <2>6, EntryDetachedMarks
  <2>8. Deltas(new.pend, p) = Mark(ConflateEntryDeltas(ds, d), p, id)
    BY <1>3, <2>1, <2>4, <2>6, <2>7 DEF ds
  <2>9. SameElsewhere(s, new, p)
    BY <1>3, <2>1, <2>2, <2>6, <2>7 DEF SameElsewhere
  <2>10. new.doubt[p] # "lost" => Conflated(Deltas(new.pend, p), t, p, TRUE, next, new.doubt[p])
    BY <2>3, <2>8
  <2>11. Kept(new, t)
    BY <1>1, <2>9, <2>10, KeptPut
  <2> QED
    BY <2>11 DEF new
<1> QED
  BY <1>5, <1>6

-----------------------------------------------------------------------------
(* A level without entries in the message. *)

(* A book and its deltas remain so, and are as conflated as they were. *)
LEMMA ShowKept ==
    ASSUME conflate \in BOOLEAN, NEW s, Sound(s), NEW p \in Prices, NEW attach,
           s = [book |-> s.book, pend |-> s.pend, doubt |-> s.doubt],
           conflate \/ \A q \in Prices : Deltas(s.pend, q) = <<>>
    PROVE  /\ Sound(ShowLevel(s, p, attach))
           /\ \A t : Kept(s, t) => Kept(ShowLevel(s, p, attach), t)
<1> DEFINE new == ShowLevel(s, p, attach)
           level == LevelOf(s.book, p)
           there == p \in DOMAIN s.book
           pl == LevelAction(s.book, p)
           d == Delta(p, NoEntry, pl, "UNKNOWN")
           ds == Deltas(s.pend, p)
<1>1. /\ new.book = Put(s.book, p, level) /\ new.doubt = s.doubt
      /\ new.pend = IF attach # 0 THEN s.pend ELSE AddDelta(conflate, s.pend, d)
  BY DEF ShowLevel, Noted
<1>2. LevelType(level) /\ PendOK(s.pend)
  BY LevelOfType DEF Sound
<1>3. d \in DeltaType /\ d.price = p
  BY DEF Delta, DeltaType, LevelAction
<1>4. there \in BOOLEAN /\ pl \in {"ADD", "UPDATE"}
  BY DEF LevelAction
<1>5. (pl = "ADD" => ~there) /\ (pl = "ADD" => DOMAIN level = {})
  BY DEF LevelAction, LevelOf
<1> HIDE DEF new, level, pl, there, ds
<1>6. BookType(new.book)
  BY <1>1, <1>2, PutType DEF Sound
<1>7. ASSUME NEW t, s.doubt[p] # "lost", Kept(s, t)
      PROVE  /\ Conflated(ds, t, p, TRUE, level, s.doubt[p])
             /\ Conflated(ConflateEntryDeltas(ds, d), t, p, TRUE, level, s.doubt[p])
  <2>1. Conflated(ds, t, p, there, level, s.doubt[p])
    BY <1>7 DEF Kept, KeptAt, ds, there, level
  <2>2. s.doubt[p] = "none" /\ pl = "ADD" => DOMAIN level = {}
    BY <1>5
  <2>3. Conflated(ds, t, p, TRUE, level, s.doubt[p])
    BY <2>1 DEF Conflated
  <2> DEFINE w == s.doubt[p]
  <2>4. Conflated(ConflateEntryDeltas(ds, Delta(p, NoEntry, pl, "UNKNOWN")), t, p, TRUE, level, w)
    <3> HIDE DEF w
    <3>1. Conflated(ds, t, p, there, level, w) /\ (w = "none" /\ pl = "ADD" => DOMAIN level = {})
      BY <2>1, <2>2 DEF w
    <3> QED
      BY <1>4, <1>5, <3>1, ShowConflated
  <2> QED
    BY <2>3, <2>4
<1> HIDE DEF d
<1>8. /\ PendOK(AddDelta(conflate, s.pend, d))
      /\ \A q \in Prices : Deltas(AddDelta(conflate, s.pend, d), q) =
                           IF q = d.price THEN Join(conflate, Deltas(s.pend, q), d)
                           ELSE Deltas(s.pend, q)
  BY <1>2, <1>3, AddDeltaJoins
<1>9. PendOK(new.pend)
  BY <1>1, <1>2, <1>8
<1>10. Sound(new)
  BY <1>1, <1>6, <1>9 DEF Sound
<1>11. SameElsewhere(s, new, p)
  BY <1>1, <1>3, <1>8 DEF SameElsewhere
<1>12. Deltas(new.pend, p) = ds \/ Deltas(new.pend, p) = ConflateEntryDeltas(ds, d)
  <2>1. conflate \/ ds = <<>>
    BY DEF ds
  <2>2. Join(conflate, ds, d) = ConflateEntryDeltas(ds, d)
    BY <2>1, JoinConflates
  <2> QED
    BY <1>1, <1>3, <1>8, <2>2 DEF ds
<1>13. ASSUME NEW t, Kept(s, t) PROVE Kept(new, t)
  <2>1. new.doubt[p] # "lost" => Conflated(Deltas(new.pend, p), t, p, TRUE, level, new.doubt[p])
    BY <1>1, <1>7, <1>12, <1>13
  <2> QED
    BY <1>1, <1>11, <1>13, <2>1, KeptPut
<1> QED
  BY <1>10, <1>13 DEF new

-----------------------------------------------------------------------------
(* The end of a level. *)

(* SetToSeq lists a finite set. *)
LEMMA Listing ==
    ASSUME NEW S, IsFiniteSet(S)
    PROVE  SetToSeq(S) \in Seq(S)
<1> DEFINE n == Cardinality(S)
<1>1. n \in Nat /\ ExistsBijection(1 .. n, S)
  BY FS_CardinalityType
<1> HIDE DEF n
<1>2. PICK f \in [1 .. n -> S] : IsInjective(f)
  BY <1>1 DEF ExistsBijection, Bijection, Injection
<1>3. SetToSeq(S) = CHOOSE g \in [1 .. n -> S] : IsInjective(g)
  BY DEF SetToSeq, n
<1>4. SetToSeq(S) \in [1 .. n -> S]
  BY <1>2, <1>3
<1> QED
  BY <1>1, <1>4

(* The deltas that end a level, one for each of its entries. *)
LEMMA EndsOfLevel ==
    ASSUME NEW p \in Prices, NEW gone \in Seq(Ids)
    PROVE  LET ends == IF gone = <<>> THEN <<Delta(p, NoEntry, "DELETE", "UNKNOWN")>>
                       ELSE [k \in DOMAIN gone |-> Delta(p, gone[k], "DELETE", "DELETE")]
           IN  /\ ends \in Seq(DeltaType) /\ ends # <<>>
               /\ \A k \in DOMAIN ends : ends[k].pl = "DELETE" /\ ends[k].price = p
<1> DEFINE ends == IF gone = <<>> THEN <<Delta(p, NoEntry, "DELETE", "UNKNOWN")>>
                   ELSE [k \in DOMAIN gone |-> Delta(p, gone[k], "DELETE", "DELETE")]
<1>1. CASE gone = <<>>
  <2> DEFINE d == Delta(p, NoEntry, "DELETE", "UNKNOWN")
  <2>1. d \in DeltaType /\ d.pl = "DELETE" /\ d.price = p
    BY DEF Delta, DeltaType
  <2> HIDE DEF d
  <2>2. ends = <<d>>
    BY <1>1 DEF d
  <2>3. /\ <<d>> \in Seq(DeltaType) /\ <<d>> # <<>>
        /\ \A k \in DOMAIN <<d>> : <<d>>[k].pl = "DELETE" /\ <<d>>[k].price = p
    BY <2>1
  <2> QED
    BY <2>2, <2>3
<1>2. CASE gone # <<>>
  <2> DEFINE es == [k \in 1 .. Len(gone) |-> Delta(p, gone[k], "DELETE", "DELETE")]
  <2>0. Len(gone) \in Nat /\ Len(gone) # 0 /\ DOMAIN gone = 1 .. Len(gone)
        /\ \A k \in 1 .. Len(gone) : gone[k] \in Ids
    BY <1>2
  <2>1. \A k \in 1 .. Len(gone) : LET d == Delta(p, gone[k], "DELETE", "DELETE") IN
                                  d \in DeltaType /\ d.pl = "DELETE" /\ d.price = p
    BY <2>0 DEF Delta, DeltaType
  <2>2. ends = es
    BY <1>2, <2>0
  <2>3. es \in Seq(DeltaType) /\ DOMAIN es = 1 .. Len(gone) /\ Len(es) = Len(gone)
    BY <2>0, <2>1
  <2>4. \A k \in DOMAIN es : es[k].pl = "DELETE" /\ es[k].price = p
    BY <2>1, <2>3
  <2> HIDE DEF es
  <2>5. es # <<>>
    BY <2>0, <2>3
  <2> QED
    BY <2>2, <2>3, <2>4, <2>5
<1> QED
  BY <1>1, <1>2

(* Only the deltas of the end of a level. *)
EndsOnly(ends, p) ==
    ends \in Seq(DeltaType) /\ \A k \in DOMAIN ends : ends[k].pl = "DELETE" /\ ends[k].price = p

(* No deltas to add. *)
LEMMA NoneAdded ==
    ASSUME NEW c \in BOOLEAN, NEW pend, PendOK(pend), NEW ds \in Seq(DeltaType)
    PROVE  Len(ds) = 0 => AddDeltas(c, pend, ds) = pend
<1>1. PICK f : /\ f[0] = pend
               /\ \A k \in 1 .. Len(ds) : f[k] = AddDelta(c, f[k - 1], ds[k])
               /\ AddDeltas(c, pend, ds) = f[Len(ds)]
  BY AddDeltasRuns
<1> QED
  BY <1>1

(* What the end of a level leaves. *)
LEMMA DetachSound ==
    ASSUME conflate \in BOOLEAN, NEW s, Sound(s), NEW p \in Prices, NEW ends, EndsOnly(ends, p)
    PROVE  LET new == Detach(s, p, ends) IN
           /\ Sound(new) /\ new.book = Without(s.book, p) /\ SameElsewhere(s, new, p)
           /\ new.doubt[p] # "lost" =>
                /\ s.doubt[p] # "lost" /\ (conflate => s.doubt[p] = "none")
                /\ conflate => new.doubt[p] = s.doubt[p]
                /\ conflate \/ Deltas(s.pend, p) = <<>> =>
                     \E ds : /\ OnlyEnds(conflate, Deltas(s.pend, p), ds, p)
                             /\ Deltas(new.pend, p) = MarkLevel(ds, p)
<1> DEFINE new == Detach(s, p, ends)
           mid == AddDeltas(conflate, s.pend, ends)
<1>1. /\ new.book = Without(s.book, p) /\ new.pend = LevelDetached(mid, p)
      /\ ends = <<>> => new.doubt = [s.doubt EXCEPT ![p] = "lost"]
      /\ ends # <<>> => new.doubt = EndInDoubt(s.doubt, p)
  BY DEF Detach
<1> HIDE DEF new
<1>2. PendOK(s.pend) /\ BookType(s.book) /\ s.doubt \in [Prices -> {"none", "twice", "lost"}]
  BY DEF Sound
<1>3. /\ PendOK(mid)
      /\ \A q \in Prices \ {p} : Deltas(mid, q) = Deltas(s.pend, q)
      /\ ends # <<>> /\ (conflate \/ Deltas(s.pend, p) = <<>>) =>
           OnlyEnds(conflate, Deltas(s.pend, p), Deltas(mid, p), p)
  <2>1. CASE ends = <<>>
    <3>0. Len(ends) = 0 /\ ends \in Seq(DeltaType)
      BY <2>1
    <3>1. mid = s.pend
      BY <1>2, <3>0, NoneAdded
    <3> QED
      BY <1>2, <2>1, <3>1
  <2>2. CASE ends # <<>>
    <3>1. ends \in Seq(DeltaType) /\ \A k \in DOMAIN ends : ends[k].pl = "DELETE" /\ ends[k].price = p
      BY DEF EndsOnly
    <3>2. /\ PendOK(mid)
          /\ \A q \in Prices \ {p} : Deltas(mid, q) = Deltas(s.pend, q)
          /\ conflate \/ Deltas(s.pend, p) = <<>> =>
               OnlyEnds(conflate, Deltas(s.pend, p), Deltas(mid, p), p)
      BY <1>2, <2>2, <3>1, AllEnds
    <3> QED
      BY <3>2
  <2> QED
    BY <2>1, <2>2
<1> HIDE DEF mid
<1>4. /\ PendOK(LevelDetached(mid, p))
      /\ \A q \in Prices : Deltas(LevelDetached(mid, p), q) =
                             IF q = p THEN MarkLevel(Deltas(mid, q), p) ELSE Deltas(mid, q)
  BY <1>3, LevelDetachedMarks
<1>5. BookType(Without(s.book, p))
  <2> DEFINE b == Without(s.book, p)
  <2>1. DOMAIN b = DOMAIN s.book \ {p} /\ \A q \in DOMAIN s.book \ {p} : b[q] = s.book[q]
    BY WithoutIs
  <2> HIDE DEF b
  <2>2. BookType(b)
    BY <1>2, <2>1 DEF BookType
  <2> QED
    BY <2>2 DEF b
<1>6. /\ new.doubt \in [Prices -> {"none", "twice", "lost"}]
      /\ \A q \in Prices \ {p} : new.doubt[q] = s.doubt[q]
      /\ new.doubt[p] # "lost" =>
           /\ ends # <<>> /\ s.doubt[p] # "lost" /\ (conflate => s.doubt[p] = "none")
           /\ new.doubt[p] = s.doubt[p]
  <2>1. CASE ends = <<>>
    BY <1>1, <1>2, <2>1
  <2>2. CASE ends # <<>>
    BY <1>1, <1>2, <2>2, EndDoubt
  <2> QED
    BY <2>1, <2>2
<1>7. Sound(new)
  BY <1>1, <1>4, <1>5, <1>6 DEF Sound
<1>8. SameElsewhere(s, new, p)
  BY <1>1, <1>3, <1>4, <1>6 DEF SameElsewhere
<1>9. Deltas(new.pend, p) = MarkLevel(Deltas(mid, p), p)
  BY <1>1, <1>4
<1>10. ASSUME new.doubt[p] # "lost", conflate \/ Deltas(s.pend, p) = <<>>
       PROVE  \E ds : /\ OnlyEnds(conflate, Deltas(s.pend, p), ds, p)
                      /\ Deltas(new.pend, p) = MarkLevel(ds, p)
  <2>1. OnlyEnds(conflate, Deltas(s.pend, p), Deltas(mid, p), p)
    BY <1>3, <1>6, <1>10
  <2> QED
    BY <1>9, <2>1
<1>11. /\ Sound(new) /\ new.book = Without(s.book, p) /\ SameElsewhere(s, new, p)
       /\ new.doubt[p] # "lost" =>
            /\ s.doubt[p] # "lost" /\ (conflate => s.doubt[p] = "none")
            /\ conflate => new.doubt[p] = s.doubt[p]
  BY <1>1, <1>6, <1>7, <1>8
<1> QED
  BY <1>10, <1>11 DEF new

(* The end of a level turns the copy into the book without it, unless nobody is told. *)
LEMMA DetachKept ==
    ASSUME conflate \in BOOLEAN, NEW s, Sound(s), NEW t, Copy(t), Kept(s, t),
           conflate \/ \A q \in Prices : Deltas(s.pend, q) = <<>>,
           NEW p \in Prices, NEW ends, EndsOnly(ends, p)
    PROVE  /\ Follows(Detach(s, p, ends), t)
           /\ conflate => Kept(Detach(s, p, ends), t)
<1> DEFINE new == Detach(s, p, ends)
           old == Deltas(s.pend, p)
           now == Deltas(new.pend, p)
<1>1. /\ Sound(new) /\ new.book = Without(s.book, p) /\ SameElsewhere(s, new, p)
      /\ new.doubt[p] # "lost" =>
           /\ s.doubt[p] # "lost" /\ (conflate => s.doubt[p] = "none")
           /\ conflate => new.doubt[p] = s.doubt[p]
           /\ conflate \/ old = <<>> =>
                \E ds : OnlyEnds(conflate, old, ds, p) /\ now = MarkLevel(ds, p)
  BY DetachSound
<1> HIDE DEF new, now
<1>2. conflate \/ old = <<>>
  OBVIOUS
<1>3. ASSUME new.doubt[p] # "lost"
      PROVE  /\ Tells(now, t, p, <<>>)
             /\ conflate => Conflated(now, t, p, FALSE, <<>>, new.doubt[p])
  <2>1. PICK ds : OnlyEnds(conflate, old, ds, p) /\ now = MarkLevel(ds, p)
    BY <1>1, <1>2, <1>3
  <2>2. Conflated(old, t, p, p \in DOMAIN s.book, LevelOf(s.book, p), s.doubt[p])
    BY <1>1, <1>3 DEF Kept, KeptAt
  <2> DEFINE level == LevelOf(s.book, p)
             there == p \in DOMAIN s.book
             w == s.doubt[p]
  <2>3. Conflated(old, t, p, there, level, w) /\ (w = "none" \/ old = <<>>)
    BY <1>1, <1>2, <1>3, <2>2
  <2> HIDE DEF old, level, there, w
  <2>4. Conflated(old, t, p, there, level, "none")
    BY <2>3, Weaken
  <2>5. /\ Tells(MarkLevel(ds, p), t, p, <<>>)
        /\ conflate => Conflated(MarkLevel(ds, p), t, p, FALSE, <<>>, "none")
    BY <2>1, <2>4, LevelEnds
  <2>6. conflate => new.doubt[p] = "none"
    BY <1>1, <1>3
  <2> QED
    BY <2>1, <2>5, <2>6
<1> HIDE DEF old
<1>4. /\ (p \in DOMAIN new.book) = FALSE /\ LevelOf(new.book, p) = <<>>
      /\ \A q \in Prices \ {p} : /\ q \in DOMAIN new.book <=> q \in DOMAIN s.book
                                 /\ LevelOf(new.book, q) = LevelOf(s.book, q)
  <2> DEFINE b == Without(s.book, p)
  <2>1. DOMAIN b = DOMAIN s.book \ {p} /\ \A q \in DOMAIN s.book \ {p} : b[q] = s.book[q]
    BY WithoutIs
  <2>2. new.book = b
    BY <1>1
  <2> HIDE DEF b
  <2> QED
    BY <2>1, <2>2 DEF LevelOf
<1>5. /\ new.doubt[p] # "lost" => Tells(now, t, p, LevelOf(new.book, p))
      /\ conflate => KeptAt(new, t, p)
  BY <1>3, <1>4 DEF KeptAt, now
<1>6. ASSUME NEW q \in Prices \ {p} PROVE KeptAt(new, t, q)
  <2>1. KeptAt(s, t, q)
    BY DEF Kept
  <2> QED
    BY <1>1, <1>4, <2>1, KeptElsewhere DEF SameElsewhere
<1>7. ASSUME NEW q \in Prices, new.doubt[q] # "lost"
      PROVE  Tells(Deltas(new.pend, q), t, q, LevelOf(new.book, q))
  BY <1>5, <1>6, <1>7 DEF KeptAt, Conflated, Tells, now
<1>8. Follows(new, t)
  BY <1>7 DEF Follows
<1>9. conflate => Kept(new, t)
  BY <1>5, <1>6 DEF Kept
<1> QED
  BY <1>8, <1>9 DEF new

(* A level ends by a DELETE, or by a flat one. *)
LEMMA LevelIsDetached ==
    ASSUME NEW s, Sound(s), NEW p \in Prices
    PROVE  /\ EndLevel(s, p) = s \/ \E ends : EndsOnly(ends, p) /\ EndLevel(s, p) = Detach(s, p, ends)
           /\ \A id \in Ids \cup {NoEntry} :
                \/ EndLevelFlat(s, p, id) = s
                \/ \E ends : EndsOnly(ends, p) /\ EndLevelFlat(s, p, id) = Detach(s, p, ends)
<1>1. CASE p \notin DOMAIN s.book
  BY <1>1 DEF EndLevel, EndLevelFlat
<1>2. CASE p \in DOMAIN s.book
  <2> DEFINE gone == SetToSeq(DOMAIN s.book[p])
             ends == IF gone = <<>> THEN <<Delta(p, NoEntry, "DELETE", "UNKNOWN")>>
                     ELSE [k \in DOMAIN gone |-> Delta(p, gone[k], "DELETE", "DELETE")]
  <2>1. EndLevel(s, p) = Detach(s, p, ends)
    BY <1>2 DEF EndLevel
  <2>2. gone \in Seq(Ids)
    <3>1. DOMAIN s.book[p] \in SUBSET Ids
      BY <1>2 DEF Sound, BookType, LevelType
    <3>2. IsFiniteSet(DOMAIN s.book[p])
      BY <3>1, BookListenerAssumption, FS_Subset
    <3> DEFINE S == DOMAIN s.book[p]
    <3> HIDE DEF S
    <3>3. SetToSeq(S) \in Seq(S)
      BY <3>2, Listing DEF S
    <3>4. SetToSeq(S) \in Seq(Ids)
      BY <3>1, <3>3 DEF S
    <3> QED
      BY <3>4 DEF S
  <2> HIDE DEF gone
  <2>3. EndsOnly(ends, p)
    BY <2>2, EndsOfLevel DEF EndsOnly
  <2> HIDE DEF ends
  <2>4. ASSUME NEW id \in Ids \cup {NoEntry}
        PROVE  \E es : EndsOnly(es, p) /\ EndLevelFlat(s, p, id) = Detach(s, p, es)
    <3> DEFINE d == Delta(p, id, "DELETE", "DELETE")
    <3>1. d \in DeltaType /\ d.pl = "DELETE" /\ d.price = p
      BY DEF Delta, DeltaType
    <3>2. EndLevelFlat(s, p, id) = Detach(s, p, <<d>>) \/ EndLevelFlat(s, p, id) = Detach(s, p, <<>>)
      BY <1>2 DEF EndLevelFlat
    <3> HIDE DEF d
    <3>3. EndsOnly(<<d>>, p) /\ EndsOnly(<<>>, p)
      BY <3>1 DEF EndsOnly
    <3> QED
      BY <3>2, <3>3
  <2> QED
    BY <2>1, <2>3, <2>4
<1> QED
  BY <1>1, <1>2

-----------------------------------------------------------------------------
(* Nothing is pending, whatever the count says. *)
Quiet(pend) == \A p \in Prices : Deltas(pend, p) = <<>>

(* The handler has the book, but for what is lost. *)
HasBook(t, b, w) == Copy(t) /\ \A p \in Prices : w[p] # "lost" => Agrees(t, b, p)

(* Deltas of which none is left turn nothing into something else. *)
LEMMA QuietIsTold ==
    ASSUME NEW s, NEW t, Copy(t), Follows(s, t), Quiet(s.pend)
    PROVE  HasBook(t, s.book, s.doubt)
  BY DEF HasBook, Follows, Tells, Quiet, Agrees

(* A handler that has the book. *)
LEMMA QuietKept ==
    ASSUME NEW s, NEW t, HasBook(t, s.book, s.doubt), Quiet(s.pend)
    PROVE  Kept(s, t)
<1>1. ASSUME NEW p \in Prices, s.doubt[p] # "lost"
      PROVE  Conflated(<<>>, t, p, p \in DOMAIN s.book, LevelOf(s.book, p), s.doubt[p])
  <2> DEFINE b == s.book
             there == p \in DOMAIN b
             w == s.doubt[p]
  <2>1. Agrees(t, b, p)
    BY <1>1 DEF HasBook
  <2> HIDE DEF b, there, w
  <2>2. Conflated(<<>>, t, p, there, LevelOf(b, p), w)
    BY <2>1, NoDeltas
  <2> QED
    BY <2>2 DEF b, there, w
<1> QED
  BY <1>1 DEF Kept, KeptAt, Quiet

(* A copy of the entries of a book. *)
LEMMA EntriesHaveBook ==
    ASSUME NEW b, BookType(b), NEW w
    PROVE  HasBook(Entries(b), b, w)
  BY EntriesCopy DEF HasBook

(* No deltas, with or without a number left over. *)
LEMMA Emptied ==
    ASSUME NEW n \in {0, 2}, NEW now \in BOOLEAN, NEW simple \in DeltaType \cup {NoDelta}
    PROVE  LET pend == [count |-> n, simple |-> simple, list |-> [p \in Prices |-> <<>>],
                        now |-> now]
           IN  PendOK(pend) /\ Quiet(pend)
  BY DEF PendOK, PendType, Quiet, Deltas

(* A count of 0 says that there are none. *)
LEMMA NoneCounted ==
    ASSUME NEW pend, PendOK(pend), pend.count = 0
    PROVE  Quiet(pend)
  BY DEF PendOK, Quiet, Deltas

(* A book that was cleared. *)
LEMMA EmptyBook == BookType(NoBook) /\ Entries(NoBook) = {}
  BY DEF BookType, NoBook, Entries, Places

(* No doubt is a doubt. *)
LEMMA NoDoubtType == NoDoubt \in [Prices -> {"none", "twice", "lost"}]
  BY DEF NoDoubt

(* Deltas that were cleared. *)
LEMMA NothingPending == PendOK(NoPending) /\ Quiet(NoPending)
  BY DEF PendOK, PendType, Quiet, Deltas, NoPending

(* ... while the flag to send at once stays. *)
LEMMA NothingPendingNow ==
    ASSUME NEW now \in BOOLEAN
    PROVE  PendOK([NoPending EXCEPT !.now = now]) /\ Quiet([NoPending EXCEPT !.now = now])
<1>1. [NoPending EXCEPT !.now = now] =
        [count |-> 0, simple |-> NoDelta, list |-> [p \in Prices |-> <<>>], now |-> now]
  BY DEF NoPending
<1> QED
  BY <1>1, Emptied

-----------------------------------------------------------------------------
(* The handler's copy and the deltas that are pending.  Only a book that goes   *)
(* on by deltas is followed; deltas that dangle wait for a recap; between       *)
(* intervals, and so without conflation, the handler has the book.            *)
CopyInv ==
    /\ conflate \in BOOLEAN /\ Sound(Now)
    /\ dangling => ~started
    /\ ~conflate => ~timer
    /\ Forwarding =>
         /\ Copy(told)
         /\ dangling \/ ~timer => HasBook(told, shown, doubt)
         /\ ~dangling => Kept(Now, told)

(* What Now is made of. *)
LEMMA NowIs ==
    /\ Now = [book |-> shown, pend |-> pending, doubt |-> doubt]
    /\ Now.book = shown /\ Now.pend = pending /\ Now.doubt = doubt
  BY DEF Now

(* ... and what it will be made of. *)
LEMMA NextIs ==
    /\ Now' = [book |-> shown', pend |-> pending', doubt |-> doubt']
    /\ Now'.book = shown' /\ Now'.pend = pending' /\ Now'.doubt = doubt'
  BY DEF Now

(* A step after which the handler has the book and nothing is pending. *)
LEMMA FreshCopy ==
    ASSUME conflate' \in BOOLEAN, BookType(shown'), PendOK(pending'), Quiet(pending'),
           doubt' \in [Prices -> {"none", "twice", "lost"}],
           HasBook(told', shown', doubt'), dangling' => ~started', ~conflate' => ~timer'
    PROVE  CopyInv'
<1>1. Sound(Now')
  BY NextIs DEF Sound
<1> DEFINE s == Now'
<1>2. s.book = shown' /\ s.pend = pending' /\ s.doubt = doubt'
  BY NextIs
<1> HIDE DEF s
<1>3. Kept(s, told')
  BY <1>2, QuietKept
<1>4. Copy(told')
  BY DEF HasBook
<1> QED
  BY <1>1, <1>3, <1>4 DEF CopyInv, s

(* A step after which updates are not forwarded. *)
LEMMA UnheardCopy ==
    ASSUME conflate' \in BOOLEAN, BookType(shown'), PendOK(pending'), ~Forwarding',
           doubt' \in [Prices -> {"none", "twice", "lost"}],
           dangling' => ~started', ~conflate' => ~timer'
    PROVE  CopyInv'
<1>1. Sound(Now')
  BY NextIs DEF Sound
<1> QED
  BY <1>1 DEF CopyInv

(* A step that leaves all of it alone. *)
LEMMA SameCopy ==
    ASSUME CopyInv,
           UNCHANGED <<conflate, shown, pending, dangling, timer, started, valid, told, doubt>>
    PROVE  CopyInv'
<1>1. Now' = Now
  BY NowIs, NextIs
<1> QED
  BY <1>1 DEF CopyInv, Forwarding

(* invokeDeltaHandlers brings the handler's copy up to the book. *)
LEMMA Invoked ==
    ASSUME NEW s, Sound(s), InvokeDeltaHandlers(s)
    PROVE  /\ PendOK(pending') /\ Quiet(pending')
           /\ doubt' \in [Prices -> {"none", "twice", "lost"}]
           /\ dangling' => dangling
           /\ (/\ Copy(told)
               /\ dangling => HasBook(told, s.book, s.doubt)
               /\ ~dangling => Follows(s, told)) => HasBook(told', s.book, doubt')
<1>0. /\ PendOK(s.pend) /\ s.pend.now \in BOOLEAN
      /\ s.doubt \in [Prices -> {"none", "twice", "lost"}]
  BY DEF Sound, PendOK, PendType
<1>1. CASE s.pend.count = 0
  <2>1. pending' = s.pend /\ doubt' = s.doubt /\ told' = told /\ dangling' = dangling
    BY <1>1 DEF InvokeDeltaHandlers
  <2>2. Quiet(s.pend)
    BY <1>0, <1>1, NoneCounted
  <2>3. Copy(told) /\ Follows(s, told) => HasBook(told, s.book, s.doubt)
    BY <2>2, QuietIsTold
  <2> QED
    BY <1>0, <2>1, <2>2, <2>3
<1>2. CASE s.pend.count # 0
  <2>1. /\ told' = IF dangling THEN told ELSE Given(told, s.book, s.pend)
        /\ pending' = NoPending \/ pending' = [NoPending EXCEPT !.now = s.pend.now]
        /\ doubt' = [p \in Prices |-> IF dangling THEN "lost"
                                      ELSE IF s.doubt[p] = "twice" THEN "none" ELSE s.doubt[p]]
        /\ dangling' = FALSE
    BY <1>2 DEF InvokeDeltaHandlers
  <2>2. PendOK(pending') /\ Quiet(pending')
    BY <1>0, <2>1, NothingPending, NothingPendingNow
  <2>3. /\ doubt' \in [Prices -> {"none", "twice", "lost"}]
        /\ \A p \in Prices : doubt'[p] # "lost" => ~dangling /\ s.doubt[p] # "lost"
    BY <1>0, <2>1
  <2>4. ASSUME Copy(told), ~dangling => Follows(s, told) PROVE HasBook(told', s.book, doubt')
    <3>1. CASE dangling
      <4>1. told' = told
        BY <2>1, <3>1
      <4> QED
        BY <2>3, <2>4, <3>1, <4>1 DEF HasBook
    <3>2. CASE ~dangling
      <4>1. told' = Given(told, s.book, s.pend)
        BY <2>1, <3>2
      <4>2. Copy(Given(told, s.book, s.pend))
        BY <2>4, GivenCopy
      <4>3. ASSUME NEW p \in Prices, s.doubt[p] # "lost"
            PROVE  Agrees(Given(told, s.book, s.pend), s.book, p)
        <5>1. Tells(Deltas(s.pend, p), told, p, LevelOf(s.book, p))
          BY <2>4, <3>2, <4>3 DEF Follows
        <5> QED
          BY <5>1, TellsAll
      <4> QED
        BY <2>3, <4>1, <4>2, <4>3 DEF HasBook
    <3> QED
      BY <3>1, <3>2
  <2> QED
    BY <2>1, <2>2, <2>3, <2>4
<1> QED
  BY <1>1, <1>2

(* What a change starts from. *)
LEMMA BeforeCopy ==
    ASSUME CopyInv, ~dangling
    PROVE  /\ Before = [book |-> Before.book, pend |-> Before.pend, doubt |-> Before.doubt]
           /\ Before.book = shown /\ Before.doubt = doubt
           /\ conflate => Before.pend = pending
           /\ Sound(Before)
           /\ conflate \/ Quiet(Before.pend)
           /\ Forwarding => Copy(told) /\ Kept(Before, told)
<1>1. /\ conflate \in BOOLEAN /\ PendOK(pending) /\ BookType(shown) /\ pending.now \in BOOLEAN
      /\ doubt \in [Prices -> {"none", "twice", "lost"}]
  BY NowIs DEF CopyInv, Sound, PendOK, PendType
<1>2. /\ Before = [book |-> Before.book, pend |-> Before.pend, doubt |-> Before.doubt]
      /\ Before.book = shown /\ Before.doubt = doubt
      /\ Before.pend = IF conflate THEN pending ELSE [NoPending EXCEPT !.now = pending.now]
  BY NowIs DEF Before
<1>3. CASE conflate
  <2>1. Before = Now
    BY <1>2, <1>3, NowIs
  <2> QED
    BY <1>2, <1>3, <2>1 DEF CopyInv
<1>4. CASE ~conflate
  <2>1. PendOK(Before.pend) /\ Quiet(Before.pend)
    BY <1>1, <1>2, <1>4, NothingPendingNow
  <2>2. Sound(Before)
    BY <1>1, <1>2, <2>1 DEF Sound
  <2>3. ASSUME Forwarding PROVE Copy(told) /\ Kept(Before, told)
    <3> DEFINE s == Before
    <3>1. HasBook(told, s.book, s.doubt) /\ Copy(told)
      BY <1>2, <1>4, <2>3 DEF CopyInv
    <3>2. Quiet(s.pend)
      BY <2>1
    <3> HIDE DEF s
    <3>3. Kept(s, told)
      BY <3>1, <3>2, QuietKept
    <3> QED
      BY <3>1, <3>3 DEF s
  <2> QED
    BY <1>2, <1>4, <2>1, <2>2, <2>3
<1> QED
  BY <1>1, <1>3, <1>4

-----------------------------------------------------------------------------
(* handleUpdate. *)

(* A change of the book and of the deltas that is right for the handler's copy. *)
Right(new) ==
    /\ Sound(new)
    /\ Forwarding => Follows(new, told) /\ (conflate => Kept(new, told))

(* handleUpdate's three ends, for a change that is right. *)
LEMMA UpdateCopy ==
    ASSUME CopyInv, NEW new, NEW gap \in BOOLEAN, HandleUpdate(new, gap), Right(new)
    PROVE  CopyInv'
<1>1. /\ started /\ ~dangling /\ started' = started /\ conflate' = conflate
      /\ shown' = new.book /\ valid' = (valid /\ ~gap)
  BY DEF HandleUpdate, CopyInv
<1>2. /\ PendOK(new.pend) /\ BookType(new.book) /\ conflate \in BOOLEAN
      /\ new.doubt \in [Prices -> {"none", "twice", "lost"}] /\ (~conflate => ~timer)
  BY DEF Right, Sound, CopyInv
<1>3. Forwarding' => Forwarding
  BY <1>1 DEF Forwarding
<1>4. CASE /\ ~UpdateGapped /\ ~valid' /\ pending' = new.pend /\ doubt' = new.doubt
           /\ UNCHANGED <<timer, told, dangling>>
  <2>1. ~Forwarding'
    BY <1>4 DEF Forwarding
  <2> QED
    BY <1>1, <1>2, <1>4, <2>1, UnheardCopy
<1>5. CASE /\ conflate /\ pending' = new.pend /\ doubt' = new.doubt /\ timer' = TRUE
           /\ UNCHANGED <<told, dangling>>
  <2>1. Sound(Now')
    BY <1>1, <1>2, <1>5, NextIs DEF Sound
  <2>2. ASSUME Forwarding' PROVE Copy(told') /\ Kept(Now', told')
    <3>1. Copy(told) /\ Kept(new, told)
      BY <1>3, <1>5, <2>2 DEF CopyInv, Right
    <3>2. Now'.book = new.book /\ Now'.pend = new.pend /\ Now'.doubt = new.doubt
      BY <1>1, <1>5, NextIs
    <3>3. Kept(Now', told)
      BY <3>1, <3>2 DEF Kept, KeptAt
    <3> QED
      BY <1>5, <3>1, <3>3
  <2> QED
    BY <1>1, <1>2, <1>5, <2>1, <2>2 DEF CopyInv
<1>6. CASE (UpdateGapped \/ valid') /\ InvokeDeltaHandlers(new) /\ timer' = timer
  <2>1. Forwarding
    BY <1>3, <1>6 DEF Forwarding
  <2>2. Copy(told) /\ Follows(new, told) /\ Sound(new)
    BY <2>1 DEF CopyInv, Right
  <2>3. /\ PendOK(pending') /\ Quiet(pending') /\ (dangling' => dangling)
        /\ doubt' \in [Prices -> {"none", "twice", "lost"}]
        /\ HasBook(told', new.book, doubt')
    BY <1>1, <1>6, <2>2, Invoked
  <2> QED
    BY <1>1, <1>2, <1>6, <2>3, FreshCopy
<1> QED
  BY <1>4, <1>5, <1>6 DEF HandleUpdate

(* The five kinds of change. *)
LEMMA ChangesCopy ==
    ASSUME CopyInv, Update
    PROVE  CopyInv'
<1> DEFINE s == Before
<1>1. ASSUME NEW new, NEW gap, HandleUpdate(new, gap) PROVE ~dangling
  BY <1>1 DEF HandleUpdate, CopyInv
<1>2. ~dangling
  BY <1>1 DEF Update
<1>3. /\ conflate \in BOOLEAN /\ Sound(s)
      /\ s = [book |-> s.book, pend |-> s.pend, doubt |-> s.doubt]
      /\ conflate \/ \A q \in Prices : Deltas(s.pend, q) = <<>>
      /\ Forwarding => Copy(told) /\ Kept(s, told)
  BY <1>2, BeforeCopy DEF CopyInv, Quiet
<1>4. PICK p \in Prices, gap \in BOOLEAN :
        \/ \E id \in Ids, size \in Sizes, act \in {"ADD", "UPDATE"} :
              HandleUpdate(SetEntry(s, p, id, size, act), gap)
        \/ \E id \in Ids : HandleUpdate(EndEntry(s, p, id), gap)
        \/ \E attach \in {0, 1} : HandleUpdate(ShowLevel(s, p, attach), gap)
        \/ HandleUpdate(EndLevel(s, p), gap)
        \/ \E id \in Ids \cup {NoEntry} : HandleUpdate(EndLevelFlat(s, p, id), gap)
  BY DEF Update
<1> HIDE DEF s
<1>5. ASSUME NEW new, HandleUpdate(new, gap), Sound(new), Forwarding => Kept(new, told)
      PROVE  CopyInv'
  <2>1. Right(new)
    BY <1>5, KeptFollows DEF Right
  <2> QED
    BY <1>5, <2>1, UpdateCopy
<1>6. ASSUME NEW new, HandleUpdate(new, gap), NEW ends, EndsOnly(ends, p), new = Detach(s, p, ends)
      PROVE  CopyInv'
  <2>1. Sound(Detach(s, p, ends))
    BY <1>3, <1>6, DetachSound
  <2>2. Forwarding => /\ Follows(Detach(s, p, ends), told)
                      /\ conflate => Kept(Detach(s, p, ends), told)
    BY <1>3, <1>6, DetachKept
  <2>3. Right(new)
    BY <1>6, <2>1, <2>2 DEF Right
  <2> QED
    BY <1>6, <2>3, UpdateCopy
<1>7. ASSUME NEW id \in Ids, NEW size \in Sizes, NEW act \in {"ADD", "UPDATE"},
             HandleUpdate(SetEntry(s, p, id, size, act), gap)
      PROVE  CopyInv'
  <2>1. Sound(SetEntry(s, p, id, size, act))
    BY <1>3, SetSound
  <2>2. Forwarding => Kept(SetEntry(s, p, id, size, act), told)
    BY <1>3, SetKept
  <2> QED
    BY <1>5, <1>7, <2>1, <2>2
<1>8. ASSUME NEW id \in Ids, HandleUpdate(EndEntry(s, p, id), gap) PROVE CopyInv'
  <2>1. Sound(EndEntry(s, p, id))
    BY <1>3, EndSound
  <2>2. Forwarding => Kept(EndEntry(s, p, id), told)
    BY <1>3, EndKept
  <2> QED
    BY <1>5, <1>8, <2>1, <2>2
<1>9. ASSUME NEW attach \in {0, 1}, HandleUpdate(ShowLevel(s, p, attach), gap) PROVE CopyInv'
  <2>1. /\ Sound(ShowLevel(s, p, attach))
        /\ \A t : Kept(s, t) => Kept(ShowLevel(s, p, attach), t)
    BY <1>3, ShowKept
  <2> QED
    BY <1>3, <1>5, <1>9, <2>1
<1>10. CASE HandleUpdate(EndLevel(s, p), gap)
  <2>1. EndLevel(s, p) = s \/ \E ends : EndsOnly(ends, p) /\ EndLevel(s, p) = Detach(s, p, ends)
    BY <1>3, LevelIsDetached
  <2> QED
    BY <1>3, <1>5, <1>6, <1>10, <2>1
<1>11. ASSUME NEW id \in Ids \cup {NoEntry}, HandleUpdate(EndLevelFlat(s, p, id), gap)
       PROVE  CopyInv'
  <2>1. \/ EndLevelFlat(s, p, id) = s
        \/ \E ends : EndsOnly(ends, p) /\ EndLevelFlat(s, p, id) = Detach(s, p, ends)
    BY <1>3, LevelIsDetached
  <2> QED
    BY <1>3, <1>5, <1>6, <1>11, <2>1
<1> QED
  BY <1>4, <1>7, <1>8, <1>9, <1>10, <1>11

(* An update that is ignored drops only what the next one would drop. *)
LEMMA IgnoredCopy ==
    ASSUME CopyInv, IgnoreUpdate
    PROVE  CopyInv'
<1>1. /\ ~dangling /\ pending' = Before.pend
      /\ UNCHANGED <<conflate, shown, dangling, timer, started, valid, told, doubt>>
  BY DEF IgnoreUpdate, CopyInv
<1>2. /\ Before = [book |-> Before.book, pend |-> Before.pend, doubt |-> Before.doubt]
      /\ Before.book = shown /\ Before.doubt = doubt /\ Sound(Before)
      /\ Forwarding => Copy(told) /\ Kept(Before, told)
  BY <1>1, BeforeCopy
<1>3. Now' = Before
  BY <1>1, <1>2, NextIs
<1> QED
  BY <1>1, <1>2, <1>3 DEF CopyInv, Forwarding

-----------------------------------------------------------------------------
(* Recaps. *)

(* The delta that a recap of one entry, or of one level without any, leaves. *)
LEMMA LeftOver ==
    ASSUME NEW b, BookType(b), NEW p \in Prices, p \in DOMAIN b, NEW id, NEW w, NEW t, Agrees(t, b, p),
           (id \in DOMAIN b[p] /\ w = "twice") \/ (id = NoEntry /\ DOMAIN b[p] = {})
    PROVE  LET d == Delta(p, id, "ADD", IF id = NoEntry THEN "UNKNOWN" ELSE "ADD") IN
           d \in DeltaType /\ Conflated(<<d>>, t, p, TRUE, LevelOf(b, p), w)
<1> DEFINE level == LevelOf(b, p)
<1>1. level = b[p] /\ DOMAIN b[p] \subseteq Ids
  BY DEF LevelOf, BookType, LevelType
<1>2. NoEntry \notin Ids
  BY BookDeltaAssumption
<1>3. Conflated(<<>>, t, p, TRUE, level, w) /\ Conflated(<<>>, t, p, FALSE, level, w)
  BY NoDeltas
<1> HIDE DEF level
<1>4. ASSUME NEW d PROVE ConflateEntryDeltas(<<>>, d) = <<d>>
  BY DEF ConflateEntryDeltas
<1>5. CASE id \in DOMAIN b[p] /\ w = "twice"
  <2> DEFINE d == Delta(p, id, "ADD", "ADD")
  <2>1. id \in Ids /\ id # NoEntry
    BY <1>1, <1>2, <1>5
  <2>2. SetsEntry(<<>>, TRUE, level, level, id, "ADD", "ADD", w)
    BY <1>1, <1>5 DEF SetsEntry
  <2>3. Conflated(ConflateEntryDeltas(<<>>, d), t, p, TRUE, level, w)
    BY <1>3, <2>1, <2>2, SetConflated
  <2>4. d \in DeltaType
    BY <2>1 DEF Delta, DeltaType
  <2>5. Conflated(<<d>>, t, p, TRUE, level, w)
    BY <1>4, <2>3
  <2> QED
    BY <2>1, <2>4, <2>5 DEF level
<1>6. CASE id = NoEntry /\ DOMAIN b[p] = {}
  <2> DEFINE d == Delta(p, NoEntry, "ADD", "UNKNOWN")
  <2>1. Conflated(ConflateEntryDeltas(<<>>, d), t, p, TRUE, level, w)
    BY <1>1, <1>3, <1>6, ShowConflated
  <2>2. d \in DeltaType
    BY DEF Delta, DeltaType
  <2>3. Conflated(<<d>>, t, p, TRUE, level, w)
    BY <1>4, <2>1
  <2> QED
    BY <1>6, <2>2, <2>3 DEF level
<1> QED
  BY <1>5, <1>6

(* handleRecap clears the list and leaves the count. *)
LEMMA NothingListed ==
    ASSUME NEW pend, PendOK(pend), pend.count = 0, NEW k \in {0, 2}
    PROVE  PendOK([pend EXCEPT !.count = k]) /\ Quiet([pend EXCEPT !.count = k])
  BY DEF PendOK, PendType, Quiet, Deltas

(* A recap. *)
LEMMA RecapCopy ==
    ASSUME CopyInv, NEW book \in Recaps,
           NEW bare \in SUBSET {p \in DOMAIN book : DOMAIN book[p] = {}}, HandleRecap(book, bare)
    PROVE  CopyInv'
<1> DEFINE all == Places(book) \cup (bare \X {NoEntry})
           n == Cardinality(all)
           x == CHOOSE y \in all : TRUE
           d == Delta(x[1], x[2], "ADD", IF x[2] = NoEntry THEN "UNKNOWN" ELSE "ADD")
<1>1. /\ shown' = book /\ told' = Entries(book) /\ dangling' = FALSE
      /\ conflate' = conflate /\ timer' = timer
      /\ n = 1 => pending' = [NoPending EXCEPT !.count = 1, !.simple = d]
      /\ n # 1 => pending' = [NoPending EXCEPT !.count = IF n = 0 THEN 0 ELSE 2]
      /\ doubt' = [p \in Prices |-> IF n = 1 /\ \E y \in Places(book) : y[1] = p
                                    THEN "twice" ELSE "none"]
  BY DEF HandleRecap
<1>2. BookType(book) /\ conflate \in BOOLEAN /\ (~conflate => ~timer)
  BY BookListenerAssumption DEF CopyInv
<1>3. doubt' \in [Prices -> {"none", "twice", "lost"}]
  BY <1>1
<1>4. HasBook(told', shown', doubt')
  BY <1>1, <1>2, EntriesHaveBook
<1>5. CASE n # 1
  <2>1. PendOK(pending') /\ Quiet(pending')
    <3> DEFINE k == IF n = 0 THEN 0 ELSE 2
    <3>1. k \in {0, 2} /\ pending' = [NoPending EXCEPT !.count = k]
      BY <1>1, <1>5
    <3>2. PendOK(NoPending) /\ NoPending.count = 0
      BY NothingPending DEF NoPending
    <3> HIDE DEF k
    <3> QED
      BY <3>1, <3>2, NothingListed
  <2> QED
    BY <1>1, <1>2, <1>3, <1>4, <2>1, FreshCopy
<1>6. CASE n = 1
  <2>1. x \in all
    <3>1. all # {}
      BY <1>6, FS_EmptySet
    <3> QED
      BY <3>1
  <2> HIDE DEF x
  <2>a. \A y \in all : \E p \in DOMAIN book : \E id :
                         /\ y = <<p, id>>
                         /\ \/ id \in DOMAIN book[p] /\ y \in Places(book)
                            \/ id = NoEntry /\ DOMAIN book[p] = {}
    <3>1. ASSUME NEW y \in Places(book)
          PROVE  \E p \in DOMAIN book : \E id \in DOMAIN book[p] : y = <<p, id>>
      BY DEF Places
    <3>2. ASSUME NEW y \in bare \X {NoEntry}
          PROVE  \E p \in DOMAIN book : y = <<p, NoEntry>> /\ DOMAIN book[p] = {}
      OBVIOUS
    <3>3. ASSUME NEW y \in Places(book)
          PROVE  \E p \in DOMAIN book : \E id :
                   y = <<p, id>> /\ id \in DOMAIN book[p] /\ y \in Places(book)
      BY <3>1
    <3> QED
      BY <3>2, <3>3, Zenon
  <2> HIDE DEF all
  <2>2. PICK p \in DOMAIN book : \E id : /\ x = <<p, id>>
                                         /\ \/ id \in DOMAIN book[p] /\ x \in Places(book)
                                            \/ id = NoEntry /\ DOMAIN book[p] = {}
    BY <2>1, <2>a
  <2>3. PICK id : /\ x = <<p, id>>
                  /\ \/ id \in DOMAIN book[p] /\ x \in Places(book)
                     \/ id = NoEntry /\ DOMAIN book[p] = {}
    BY <2>2
  <2>4. p \in Prices
    BY <1>2 DEF BookType
  <2>5. x[1] = p /\ x[2] = id
    BY <2>3
  <2>6. x \in Places(book) => doubt'[p] = "twice"
    BY <1>1, <1>6, <2>4, <2>5
  <2> DEFINE e == Delta(p, id, "ADD", IF id = NoEntry THEN "UNKNOWN" ELSE "ADD")
  <2>7. d = e /\ pending' = [NoPending EXCEPT !.count = 1, !.simple = e]
    BY <1>1, <1>6, <2>5
  <2>8. Agrees(told', book, p)
    BY <1>1, <1>2, <2>4, EntriesCopy
  <2> DEFINE w == doubt'[p]
  <2>9. (id \in DOMAIN book[p] /\ w = "twice") \/ (id = NoEntry /\ DOMAIN book[p] = {})
    BY <2>3, <2>6
  <2> HIDE DEF w
  <2>10. e \in DeltaType /\ Conflated(<<e>>, told', p, TRUE, LevelOf(book, p), w)
    BY <1>2, <2>4, <2>8, <2>9, LeftOver
  <2>11. e.price = p
    BY DEF Delta
  <2> HIDE DEF e
  <2>12. /\ PendOK(pending') /\ Deltas(pending', p) = <<e>>
         /\ \A q \in Prices \ {p} : Deltas(pending', q) = <<>>
    <3>1. pending' = [count |-> 1, simple |-> e, list |-> [q \in Prices |-> <<>>], now |-> FALSE]
      BY <2>7 DEF NoPending
    <3> QED
      BY <2>10, <2>11, <3>1 DEF PendOK, PendType, Deltas
  <2> DEFINE s == Now'
  <2>13. s.book = book /\ s.pend = pending' /\ s.doubt = doubt'
    BY <1>1, NextIs
  <2>14. Sound(s)
    BY <1>2, <1>3, <2>12, <2>13 DEF Sound
  <2> HIDE DEF s
  <2>15. KeptAt(s, told', p)
    <3>1. (p \in DOMAIN s.book) = TRUE
      BY <2>13
    <3> QED
      BY <2>10, <2>12, <2>13, <3>1 DEF KeptAt, w
  <2>16. ASSUME NEW q \in Prices \ {p} PROVE KeptAt(s, told', q)
    <3> DEFINE there == q \in DOMAIN s.book
               v == doubt'[q]
    <3>1. Agrees(told', book, q)
      BY <1>1, <1>2, EntriesCopy
    <3> HIDE DEF there, v
    <3>2. Conflated(<<>>, told', q, there, LevelOf(book, q), v)
      BY <3>1, NoDeltas
    <3> QED
      BY <2>12, <2>13, <3>2 DEF KeptAt, there, v
  <2>17. Kept(s, told')
    BY <2>15, <2>16 DEF Kept
  <2>18. Copy(told')
    BY <1>4 DEF HasBook
  <2> QED
    BY <1>1, <1>2, <1>4, <2>14, <2>17, <2>18 DEF CopyInv, s
<1> QED
  BY <1>5, <1>6

-----------------------------------------------------------------------------
(* Timers and calls of the application. *)

(* Of the deltas that are pending none is for the handler. *)
LEMMA NothingToTell ==
    ASSUME PendOK(pending), pending.count = 0 \/ ~SomethingToTell
    PROVE  Quiet(pending)
  BY DEF PendOK, SomethingToTell, Quiet, Deltas

(* The handler is given what is pending, of the book as it is. *)
LEMMA TellCopy ==
    ASSUME CopyInv, InvokeDeltaHandlers(Now),
           UNCHANGED <<conflate, shown, started, valid>>, ~conflate' => ~timer'
    PROVE  CopyInv'
<1> DEFINE s == Now
<1>1. /\ Sound(s) /\ s.book = shown /\ s.pend = pending /\ s.doubt = doubt
      /\ BookType(shown) /\ conflate' \in BOOLEAN
  BY NowIs DEF CopyInv, Sound
<1>2. /\ Forwarding /\ ~dangling => Follows(s, told)
      /\ Forwarding => Copy(told) /\ (dangling => HasBook(told, s.book, s.doubt))
  BY NowIs, KeptFollows DEF CopyInv
<1> HIDE DEF s
<1>3. /\ PendOK(pending') /\ Quiet(pending')
      /\ doubt' \in [Prices -> {"none", "twice", "lost"}]
      /\ dangling' => dangling
      /\ (/\ Copy(told)
          /\ dangling => HasBook(told, s.book, s.doubt)
          /\ ~dangling => Follows(s, told)) => HasBook(told', s.book, doubt')
  <2>1. InvokeDeltaHandlers(s)
    BY DEF s
  <2> QED
    BY <1>1, <2>1, Invoked
<1>4. dangling' => ~started'
  BY <1>3 DEF CopyInv
<1>5. CASE Forwarding
  <2>1. HasBook(told', shown', doubt')
    BY <1>1, <1>2, <1>3, <1>5
  <2> QED
    BY <1>1, <1>3, <1>4, <2>1, FreshCopy
<1>6. CASE ~Forwarding
  <2>1. ~Forwarding'
    BY <1>6 DEF Forwarding
  <2> QED
    BY <1>1, <1>3, <1>4, <2>1, UnheardCopy
<1> QED
  BY <1>5, <1>6

(* Nothing to give to the handler: what was pending may be forgotten. *)
LEMMA SilentCopy ==
    ASSUME CopyInv, Quiet(pending), PendOK(pending'), Quiet(pending'),
           UNCHANGED <<conflate, shown, started, valid, told, dangling, doubt>>,
           ~conflate' => ~timer'
    PROVE  CopyInv'
<1> DEFINE s == Now
<1>1. /\ Sound(s) /\ s.book = shown /\ s.pend = pending /\ s.doubt = doubt
      /\ BookType(shown') /\ conflate' \in BOOLEAN /\ (dangling' => ~started')
      /\ doubt' \in [Prices -> {"none", "twice", "lost"}]
  BY NowIs DEF CopyInv, Sound
<1>2. /\ Forwarding /\ ~dangling => Follows(s, told)
      /\ Forwarding => Copy(told) /\ (dangling => HasBook(told, s.book, s.doubt))
  BY NowIs, KeptFollows DEF CopyInv
<1> HIDE DEF s
<1>3. CASE Forwarding
  <2>1. HasBook(told, s.book, s.doubt)
    BY <1>1, <1>2, <1>3, QuietIsTold
  <2>2. HasBook(told', shown', doubt')
    BY <1>1, <2>1
  <2> QED
    BY <1>1, <2>2, FreshCopy
<1>4. CASE ~Forwarding
  <2>1. ~Forwarding'
    BY <1>4 DEF Forwarding
  <2> QED
    BY <1>1, <2>1, UnheardCopy
<1> QED
  BY <1>3, <1>4

(* A loss of quality. *)
LEMMA LossCopy ==
    ASSUME CopyInv, LoseQuality
    PROVE  CopyInv'
<1>0. PendOK(pending) /\ conflate \in BOOLEAN /\ (~conflate => ~timer)
  BY NowIs DEF CopyInv, Sound
<1>1. CASE ClearStale
  <2>1. /\ shown' = NoBook /\ told' = {} /\ started' = FALSE /\ doubt' = NoDoubt
        /\ dangling' = (pending.count # 0) /\ pending' = pending
        /\ conflate' = conflate /\ timer' = timer
    BY <1>1 DEF LoseQuality
  <2>2. /\ BookType(shown') /\ PendOK(pending') /\ conflate' \in BOOLEAN
        /\ told' = Entries(shown') /\ doubt' \in [Prices -> {"none", "twice", "lost"}]
    BY <1>0, <2>1, EmptyBook, NoDoubtType
  <2>3. HasBook(told', shown', doubt')
    BY <2>2, EntriesHaveBook
  <2>4. CASE pending.count = 0
    <3>1. Quiet(pending')
      BY <1>0, <2>1, <2>4, NoneCounted
    <3> QED
      BY <1>0, <2>1, <2>2, <2>3, <3>1, FreshCopy
  <2>5. CASE pending.count # 0
    <3>1. dangling' /\ ~started' /\ (~conflate' => ~timer')
      BY <1>0, <2>1, <2>5
    <3>2. Sound(Now')
      BY <2>2, NextIs DEF Sound
    <3>3. Copy(told')
      BY <2>3 DEF HasBook
    <3> QED
      BY <2>2, <2>3, <3>1, <3>2, <3>3 DEF CopyInv
  <2> QED
    BY <2>4, <2>5
<1>2. CASE ~ClearStale
  BY <1>2, SameCopy DEF LoseQuality
<1> QED
  BY <1>1, <1>2

(* The timer. *)
LEMMA TimerCopy ==
    ASSUME CopyInv, OnTimer
    PROVE  CopyInv'
<1>0. PendOK(pending) /\ timer' = FALSE
  BY NowIs DEF CopyInv, Sound, OnTimer
<1>1. CASE pending.count # 0 /\ SomethingToTell
  <2>1. InvokeDeltaHandlers(Now) /\ UNCHANGED <<conflate, shown, started, valid>>
    BY <1>1 DEF OnTimer
  <2> QED
    BY <1>0, <2>1, TellCopy
<1>2. CASE ~(pending.count # 0 /\ SomethingToTell)
  <2>1. UNCHANGED <<conflate, shown, started, valid, told, dangling, doubt, pending>>
    BY <1>2 DEF OnTimer
  <2>2. Quiet(pending)
    BY <1>0, <1>2, NothingToTell
  <2> QED
    BY <1>0, <2>1, <2>2, SilentCopy
<1> QED
  BY <1>1, <1>2

(* forceInvokeDeltaHandlers. *)
LEMMA ForceCopy ==
    ASSUME CopyInv, ForceInvokeDeltaHandlers
    PROVE  CopyInv'
<1>0. PendOK(pending) /\ (~conflate' => ~timer')
  BY NowIs DEF CopyInv, Sound, ForceInvokeDeltaHandlers
<1>1. CASE SomethingToTell
  <2>1. InvokeDeltaHandlers(Now) /\ UNCHANGED <<conflate, shown, started, valid>>
    BY <1>1 DEF ForceInvokeDeltaHandlers
  <2> QED
    BY <1>0, <2>1, TellCopy
<1>2. CASE ~SomethingToTell
  <2>1. /\ UNCHANGED <<conflate, shown, started, valid, told, dangling, doubt>>
        /\ pending' = [pending EXCEPT !.count = 0]
    BY <1>2 DEF ForceInvokeDeltaHandlers
  <2>2. Quiet(pending)
    BY <1>0, <1>2, NothingToTell
  <2>3. \A p \in Prices : pending.list[p] = <<>>
    BY <1>2 DEF SomethingToTell
  <2>4. PendOK([pending EXCEPT !.count = 0])
    BY <1>0, <2>3 DEF PendOK, PendType
  <2>5. Quiet([pending EXCEPT !.count = 0])
    BY <1>0, <2>4, NoneCounted DEF PendOK, PendType
  <2> QED
    BY <1>0, <2>1, <2>2, <2>4, <2>5, SilentCopy
<1> QED
  BY <1>1, <1>2

(* Every step of the listener keeps the copy and the deltas right. *)
LEMMA CopyStep == CopyInv /\ [Next]_vars => CopyInv'
<1> SUFFICES ASSUME CopyInv, [Next]_vars PROVE CopyInv'
  OBVIOUS
<1>0. /\ BookType(shown) /\ conflate \in BOOLEAN /\ pending.now \in BOOLEAN
      /\ ~conflate => ~timer
  BY NowIs DEF CopyInv, Sound, PendOK, PendType
<1>1. CASE UNCHANGED vars
  BY <1>1, SameCopy DEF vars
<1>2. CASE Update
  BY <1>2, ChangesCopy
<1>3. CASE IgnoreUpdate
  BY <1>3, IgnoredCopy
<1>4. CASE Recap
  BY <1>4, RecapCopy DEF Recap
<1>5. CASE HandleClear
  <2>1. /\ shown' = NoBook /\ told' = {} /\ pending' = NoPending /\ dangling' = FALSE
        /\ doubt' = NoDoubt /\ conflate' = conflate /\ timer' = timer
    BY <1>5 DEF HandleClear
  <2>2. HasBook(told', shown', doubt')
    BY <2>1, EmptyBook, EntriesHaveBook
  <2> QED
    BY <1>0, <2>1, <2>2, EmptyBook, NoDoubtType, NothingPending, FreshCopy
<1>6. CASE LoseQuality
  BY <1>6, LossCopy
<1>7. CASE OnTimer
  BY <1>7, TimerCopy
<1>8. CASE ForceInvokeDeltaHandlers
  BY <1>8, ForceCopy
<1>9. CASE ClearConflatedDeltas
  <2>1. /\ pending' = [NoPending EXCEPT !.now = pending.now] /\ dangling' = FALSE
        /\ told' = Entries(shown) /\ shown' = shown /\ doubt' = NoDoubt
        /\ conflate' = conflate /\ timer' = timer
    BY <1>9 DEF ClearConflatedDeltas
  <2>2. HasBook(told', shown', doubt')
    BY <1>0, <2>1, EntriesHaveBook
  <2> QED
    BY <1>0, <2>1, <2>2, NoDoubtType, NothingPendingNow, FreshCopy
<1>10. CASE RegainQuality \/ AskForSnapshot \/ StartReading \/ StopReading
  BY <1>10, SameCopy DEF RegainQuality, AskForSnapshot, StartReading, StopReading
<1> QED
  BY <1>1, <1>2, <1>3, <1>4, <1>5, <1>6, <1>7, <1>8, <1>9, <1>10 DEF Next

(* They are right at the start. *)
LEMMA CopyInit == Init => CopyInv
<1> SUFFICES ASSUME Init PROVE CopyInv
  OBVIOUS
<1>1. /\ conflate \in BOOLEAN /\ shown = NoBook /\ told = {} /\ pending = NoPending
      /\ dangling = FALSE /\ timer = FALSE /\ doubt = NoDoubt
  BY DEF Init
<1>2. Sound(Now)
  BY <1>1, NowIs, EmptyBook, NoDoubtType, NothingPending DEF Sound
<1>3. HasBook(told, shown, doubt)
  BY <1>1, EmptyBook, EntriesHaveBook
<1> DEFINE s == Now
<1>4. s.book = shown /\ s.pend = pending /\ s.doubt = doubt
  BY NowIs
<1> HIDE DEF s
<1>5. Kept(s, told)
  BY <1>1, <1>3, <1>4, NothingPending, QuietKept
<1> QED
  BY <1>1, <1>2, <1>3, <1>5 DEF CopyInv, HasBook, s

(* What it means for the handler. *)
LEMMA CopyTells == CopyInv => NothingLost /\ InStep /\ FreedBeforeUpdates
<1> SUFFICES ASSUME CopyInv PROVE NothingLost /\ InStep /\ FreedBeforeUpdates
  OBVIOUS
<1>0. BookType(shown)
  BY NowIs DEF CopyInv, Sound
<1>1. ASSUME NEW t, HasBook(t, shown, doubt) PROVE Differ(t, Entries(shown)) \subseteq Lost
  <2>1. Copy(t) /\ \A p \in Prices : p \notin Lost => Agrees(t, shown, p)
    BY <1>1 DEF HasBook, Lost
  <2> QED
    BY <1>0, <2>1, AgreesNotDiffers
<1>2. InStep
  BY <1>1 DEF CopyInv, InStep
<1>3. ASSUME Forwarding, ~dangling PROVE HasBook(Given(told, shown, pending), shown, doubt)
  <2>1. Copy(told) /\ Follows(Now, told)
    BY <1>3, KeptFollows DEF CopyInv
  <2>2. ASSUME NEW p \in Prices, doubt[p] # "lost" PROVE Agrees(Given(told, shown, pending), shown, p)
    <3>1. Tells(Deltas(pending, p), told, p, LevelOf(shown, p))
      BY <2>1, <2>2, NowIs DEF Follows
    <3> QED
      BY <3>1, TellsAll
  <2>3. Copy(Given(told, shown, pending))
    BY <2>1, GivenCopy
  <2> QED
    BY <2>2, <2>3 DEF HasBook
<1>4. NothingLost
  BY <1>1, <1>3 DEF NothingLost
<1> QED
  BY <1>2, <1>4 DEF CopyInv, FreedBeforeUpdates

(* However updates are conflated, detached and interleaved with timers, recaps, clears *)
(* and losses of quality, the deltas that are pending turn the handler's copy into the *)
(* full book, at every price but those at which a level ended with no delta, an entry   *)
(* that a pending delta adds once more ended, or freed memory was read; for any number  *)
(* of prices, entries and pending deltas (addDelta, conflateEntryDeltas, processEntry). *)
THEOREM DeltasRebuildTheBook == Spec => []NothingLost
  BY CopyInit, CopyStep, CopyTells, PTL DEF Spec

(* Whenever no conflation timer runs, the handler of a book that is forwarded has been *)
(* told of every change, with the same exceptions (handleUpdate, onTimer and            *)
(* forceInvokeDeltaHandlers leave none behind).                                        *)
THEOREM HandlerIsInStep == Spec => []InStep
  BY CopyInit, CopyStep, CopyTells, PTL DEF Spec

(* While deltas point to a level or an entry that setQuality freed, updates are refused: *)
(* handleRecap and handleClear, which let updates in again, drop these deltas first.     *)
THEOREM UpdatesMeetNoFreed == Spec => []FreedBeforeUpdates
  BY CopyInit, CopyStep, CopyTells, PTL DEF Spec

=============================================================================
