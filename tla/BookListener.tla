----------------------------- MODULE BookListener -----------------------------
(***************************************************************************)
(* A MamdaOrderBookListener between its messages and its handler            *)
(* (mamda/c_cpp/src/cpp/orderbooks/MamdaOrderBookListener.cpp): the deltas   *)
(* it creates, their conflation until a timer fires, the write lock on the   *)
(* full book, which an early return leaves locked, the loss of quality, and  *)
(* a thread that takes snapshots of the book.                               *)
(*                                                                         *)
(* Messages, the timer and the application's calls run on the thread of the  *)
(* subscription's queue, one after the other.  The handler (external) keeps a *)
(* copy of the book: from the book itself at a recap, then from the deltas.  *)
(* One change per message; recaps have one part.  A book maps prices to      *)
(* levels, a level maps identifiers to sizes (OrderBook has the totals).     *)
(***************************************************************************)
EXTENDS BookDelta, FiniteSets, Functions

CONSTANTS
    Sizes,
    Recaps,           \* the books that recaps may carry
    ClearStale,       \* mClearStaleBook
    UpdateStale,      \* mUpdateStaleBook
    UpdateGapped,     \* mUpdateInconsistentBook
    MaxDeltas,        \* bound: pending deltas at one price
    MaxEnds           \* bound: ends of levels that a delta outlives

LevelType(level) == DOMAIN level \subseteq Ids /\ \A id \in DOMAIN level : level[id] \in Sizes

BookType(book) == DOMAIN book \subseteq Prices /\ \A p \in DOMAIN book : LevelType(book[p])

ASSUME BookListenerAssumption ==
    /\ IsFiniteSet(Ids)
    /\ \A b \in Recaps : BookType(b)
    /\ {ClearStale, UpdateStale, UpdateGapped} \subseteq BOOLEAN
    /\ MaxDeltas \in Nat \ {0} /\ MaxEnds \in Nat \ {0}

VARIABLES
    conflate,  \* mConflateDeltas
    shown,     \* mFullBook
    pending,   \* the deltas that the handler has not been given
    dangling,  \* they point to levels and entries that were freed
    timer,     \* mConflationTimer exists
    started,   \* mGotInitial
    valid,     \* mIsConsistent
    fresh,     \* the book's quality is MAMA_QUALITY_OK
    lock,      \* who has mFullBookLock between two steps: "free", "queue", "reader"
    reader,    \* the other thread: "idle", "waiting", "reading"
    told,      \* the handler's copy of the book: price, identifier and size of entries
    doubt      \* history: what misleads the handler at a price, since it had the book

vars == <<conflate, shown, pending, dangling, timer, started, valid, fresh,
          lock, reader, told, doubt>>

NoBook == [p \in {} |-> {}]

(* "twice": a delta that is pending adds what the handler has already.         *)
(* "lost": a level ended with no delta, or what was added twice ended while    *)
(* that delta was pending, which cancels the two.                            *)
NoDoubt == [p \in Prices |-> "none"]

Init ==
    /\ conflate \in BOOLEAN
    /\ shown = NoBook /\ told = {}
    /\ pending = NoPending /\ dangling = FALSE
    /\ timer = FALSE
    /\ started = FALSE /\ valid = TRUE /\ fresh = TRUE
    /\ lock = "free" /\ reader = "idle"
    /\ doubt = NoDoubt

-----------------------------------------------------------------------------
(* Books. *)

LevelOf(book, p) == IF p \in DOMAIN book THEN book[p] ELSE <<>>
Put(book, p, level) == [q \in DOMAIN book \cup {p} |-> IF q = p THEN level ELSE book[q]]
Without(f, x) == Restrict(f, DOMAIN f \ {x})

Places(book) == UNION {{p} \X DOMAIN book[p] : p \in DOMAIN book}
Entries(book) == {<<x[1], x[2], book[x[1]][x[2]]>> : x \in Places(book)}

-----------------------------------------------------------------------------
(* createDelta, for one change, as a step of [book, pend, doubt]. *)

Noted(pend, d) == AddDelta(conflate, pend, d)

(* What processLevelPart1 makes of the action on a level that stays. *)
LevelAction(book, p) == IF p \in DOMAIN book THEN "UPDATE" ELSE "ADD"

(* processLevelPart1 and processEntry for an entry that stays: a level and an *)
(* entry that are not known are made, whatever the message calls it.         *)
SetEntry(s, p, id, size, act) ==
    LET level == LevelOf(s.book, p)
        known == id \in DOMAIN level
        did == IF known THEN act ELSE "ADD"
    IN  [book |-> Put(s.book, p, [i \in DOMAIN level \cup {id} |->
                                    IF i = id THEN size ELSE level[i]]),
         pend |-> Noted(s.pend, Delta(p, id, LevelAction(s.book, p), did)),
         doubt |-> IF known /\ did = "ADD" /\ s.doubt[p] = "none"
                   THEN [s.doubt EXCEPT ![p] = "twice"] ELSE s.doubt]

(* The end of something that is told as added twice. *)
EndInDoubt(doubt0, p) ==
    IF conflate /\ doubt0[p] = "twice" THEN [doubt0 EXCEPT ![p] = "lost"] ELSE doubt0

(* The end of an entry; of one that is not known only the level remains. *)
EndEntry(s, p, id) ==
    LET level == LevelOf(s.book, p)
        d == Delta(p, id, LevelAction(s.book, p), "DELETE")
    IN  [book |-> Put(s.book, p, Without(level, id)),
         pend |-> IF id \notin DOMAIN level THEN s.pend
                  ELSE EntryDetached(Noted(s.pend, d), p, id),
         doubt |-> IF id \in DOMAIN level THEN EndInDoubt(s.doubt, p) ELSE s.doubt]

(* A level without entries in the message.  Its delta is made only if the      *)
(* message says that there are none (attach is mPlNumAttach, which is 1 where  *)
(* the message is silent).                                                   *)
ShowLevel(s, p, attach) ==
    [s EXCEPT !.book = Put(@, p, LevelOf(@, p)),
              !.pend = IF attach # 0 THEN @
                       ELSE Noted(@, Delta(p, NoEntry, LevelAction(s.book, p), "UNKNOWN"))]

(* A DELETE of a level, told by the deltas ends. *)
Detach(s, p, ends) ==
    [book |-> Without(s.book, p),
     pend |-> LevelDetached(AddDeltas(conflate, s.pend, ends), p),
     doubt |-> IF ends = <<>> THEN [s.doubt EXCEPT ![p] = "lost"] ELSE EndInDoubt(s.doubt, p)]

(* With no entries in the message it ends all that the level has. *)
EndLevel(s, p) ==
    LET gone == SetToSeq(DOMAIN s.book[p])
        ends == IF gone = <<>> THEN <<Delta(p, NoEntry, "DELETE", "UNKNOWN")>>
                ELSE [k \in DOMAIN gone |-> Delta(p, gone[k], "DELETE", "DELETE")]
    IN  IF p \notin DOMAIN s.book THEN s ELSE Detach(s, p, ends)

(* A flat DELETE: only the entry in the message is told, if there is one and it *)
(* is known.                                                                 *)
EndLevelFlat(s, p, id) ==
    LET ends == IF id \in DOMAIN s.book[p] THEN <<Delta(p, id, "DELETE", "DELETE")>> ELSE <<>>
    IN  IF p \notin DOMAIN s.book THEN s ELSE Detach(s, p, ends)

-----------------------------------------------------------------------------
(* The handler (external). *)

(* It goes through the deltas in order and takes what they point to: the last  *)
(* one about an entry, or the end of its level, decides.  An entry that is no   *)
(* longer in the book is gone.                                              *)
About(d, id) == d.pl = "DELETE" \/ d.id = id
Ends(d) == d.pl = "DELETE" \/ d.act = "DELETE" \/ d.dead

Untold(ds, id) == \A i \in DOMAIN ds : ~About(ds[i], id)
Stays(ds, id) ==
    \E i \in DOMAIN ds : /\ About(ds[i], id) /\ ~Ends(ds[i])
                         /\ \A j \in DOMAIN ds : j > i => ~About(ds[j], id)

(* onBookDelta or onBookComplexDelta. *)
Given(copy, book, pend) ==
    {e \in copy : Untold(Deltas(pend, e[1]), e[2])} \cup
    {<<x[1], x[2], LevelOf(book, x[1])[x[2]]>> :
        x \in {y \in Prices \X Ids : Stays(Deltas(pend, y[1]), y[2])}}

(* invokeDeltaHandlers and cleanupDetached.  What the handler makes of freed   *)
(* memory is left open.  The list is cleared only if it was used.            *)
InvokeDeltaHandlers(s) ==
    IF s.pend.count = 0
    THEN pending' = s.pend /\ doubt' = s.doubt /\ UNCHANGED <<told, dangling>>
    ELSE /\ told' = IF dangling THEN told ELSE Given(told, s.book, s.pend)
         /\ pending' = IF s.pend.count = 1 THEN [NoPending EXCEPT !.now = s.pend.now]
                       ELSE NoPending
         /\ doubt' = [p \in Prices |-> IF dangling THEN "lost"
                                       ELSE IF s.doubt[p] = "twice" THEN "none" ELSE s.doubt[p]]
         /\ dangling' = FALSE

-----------------------------------------------------------------------------
(* The lock.  The queue's thread that asks for a lock it already has is       *)
(* refused and goes on; whoever releases it then releases it for good.       *)

AcquireLock == lock # "reader"
ReleaseLock == lock' = "free"

-----------------------------------------------------------------------------
(* The book, what is pending, and what a change starts from: without          *)
(* conflation, no deltas.                                                    *)
Now == [book |-> shown, pend |-> pending, doubt |-> doubt]
Before ==
    [Now EXCEPT !.pend = IF conflate THEN @ ELSE [NoPending EXCEPT !.now = pending.now]]

(* handleUpdate.  new is what createDelta makes of Before; gap: the message    *)
(* does not follow the last one from the same sender.                        *)
HandleUpdate(new, gap) ==
    /\ started
    /\ fresh \/ UpdateStale
    /\ AcquireLock
    /\ \A p \in Prices : LET ds == Deltas(new.pend, p) IN
          Len(ds) <= MaxDeltas /\ \A i \in DOMAIN ds : ds[i].gen <= MaxEnds
    /\ shown' = new.book
    /\ valid' = (valid /\ ~gap)
    /\ \/ /\ ~UpdateGapped /\ ~valid'
          /\ pending' = new.pend /\ doubt' = new.doubt
          /\ ReleaseLock
          /\ UNCHANGED <<timer, told, dangling>>
       \/ /\ UpdateGapped \/ valid'
          /\ conflate /\ ~new.pend.now
          /\ pending' = new.pend /\ doubt' = new.doubt
          /\ timer' = TRUE
          /\ lock' = IF timer THEN "queue" ELSE "free"  \* returns with the lock
          /\ UNCHANGED <<told, dangling>>
       \/ /\ UpdateGapped \/ valid'
          /\ ~conflate \/ new.pend.now
          /\ InvokeDeltaHandlers(new)
          /\ ReleaseLock
          /\ UNCHANGED timer
    /\ UNCHANGED <<conflate, started, fresh, reader>>

Update ==
    \E p \in Prices, gap \in BOOLEAN :
        \/ \E id \in Ids, size \in Sizes, act \in {"ADD", "UPDATE"} :
              HandleUpdate(SetEntry(Before, p, id, size, act), gap)
        \/ \E id \in Ids : HandleUpdate(EndEntry(Before, p, id), gap)
        \/ \E attach \in {0, 1} : HandleUpdate(ShowLevel(Before, p, attach), gap)
        \/ HandleUpdate(EndLevel(Before, p), gap)
        \/ \E id \in Ids \cup {NoEntry} : HandleUpdate(EndLevelFlat(Before, p, id), gap)

(* handleUpdate of a message that came before: it is ignored, and a lock that   *)
(* was left is released.                                                     *)
IgnoreUpdate ==
    /\ started
    /\ fresh \/ UpdateStale
    /\ AcquireLock
    /\ pending' = Before.pend
    /\ ReleaseLock
    /\ UNCHANGED <<conflate, shown, dangling, timer, started, valid, fresh, reader, told,
                   doubt>>

(* handleRecap: the book is made anew, with deltas that are not used: the     *)
(* list is cleared, their number and the first one stay.  bare are the levels  *)
(* that the message says have no entries, each of which makes a delta.        *)
HandleRecap(book, bare) ==
    LET all == Places(book) \cup (bare \X {NoEntry})
        n == Cardinality(all)
    IN  /\ AcquireLock
        /\ shown' = book /\ told' = Entries(book)
        /\ pending' = IF n = 1
                      THEN LET x == CHOOSE x \in all : TRUE IN
                             [NoPending EXCEPT !.count = 1,
                                !.simple = Delta(x[1], x[2], "ADD",
                                                 IF x[2] = NoEntry THEN "UNKNOWN" ELSE "ADD")]
                      ELSE [NoPending EXCEPT !.count = IF n = 0 THEN 0 ELSE 2]
        /\ doubt' = [p \in Prices |-> IF n = 1 /\ \E x \in Places(book) : x[1] = p
                                      THEN "twice" ELSE "none"]
        /\ dangling' = FALSE
        /\ started' = TRUE /\ valid' = TRUE /\ fresh' = TRUE
        /\ ReleaseLock
        /\ UNCHANGED <<conflate, timer, reader>>

Recap ==
    \E book \in Recaps : \E bare \in SUBSET {p \in DOMAIN book : DOMAIN book[p] = {}} :
        HandleRecap(book, bare)

(* Mutant: the deltas of the book that was cleared stay. *)
HandleClearKeeps ==
    /\ AcquireLock
    /\ shown' = NoBook /\ told' = {}
    /\ dangling' = (pending.count # 0) /\ doubt' = NoDoubt
    /\ started' = TRUE /\ valid' = TRUE
    /\ ReleaseLock
    /\ UNCHANGED <<pending, conflate, timer, fresh, reader>>

HandleClear ==
    /\ AcquireLock
    /\ shown' = NoBook /\ told' = {}
    /\ pending' = NoPending /\ dangling' = FALSE /\ doubt' = NoDoubt
    /\ started' = TRUE /\ valid' = TRUE
    /\ ReleaseLock
    /\ UNCHANGED <<conflate, timer, fresh, reader>>

(* setQuality: a stale book is cleared, the deltas that point into it are not. *)
LoseQuality ==
    /\ fresh /\ fresh' = FALSE
    /\ IF ClearStale
       THEN /\ AcquireLock /\ ReleaseLock
            /\ shown' = NoBook /\ told' = {}
            /\ started' = FALSE /\ valid' = TRUE
            /\ dangling' = (pending.count # 0) /\ doubt' = NoDoubt
       ELSE UNCHANGED <<shown, told, started, valid, dangling, doubt, lock>>
    /\ UNCHANGED <<conflate, pending, timer, reader>>

RegainQuality ==
    /\ ~fresh /\ fresh' = TRUE
    /\ UNCHANGED <<conflate, shown, pending, dangling, timer, started, valid,
                   lock, reader, told, doubt>>

-----------------------------------------------------------------------------
(* onTimer and forceInvokeDeltaHandlers: an empty list is not told. *)

(* Mutant: a single delta is not in the list, and is not told. *)
SomethingInList == \E p \in Prices : pending.list[p] # <<>>

SomethingToTell == pending.count = 1 \/ \E p \in Prices : pending.list[p] # <<>>

(* Mutant: the lock that handleUpdate left is not released. *)
OnTimerKeepsLock ==
    /\ timer /\ timer' = FALSE
    /\ AcquireLock
    /\ IF pending.count # 0 /\ SomethingToTell THEN InvokeDeltaHandlers(Now)
       ELSE UNCHANGED <<pending, doubt, told, dangling>>
    /\ UNCHANGED <<lock, conflate, shown, started, valid, fresh, reader>>

OnTimer ==
    /\ timer /\ timer' = FALSE
    /\ AcquireLock
    /\ IF pending.count # 0 /\ SomethingToTell THEN InvokeDeltaHandlers(Now)
       ELSE UNCHANGED <<pending, doubt, told, dangling>>
    /\ ReleaseLock
    /\ UNCHANGED <<conflate, shown, started, valid, fresh, reader>>

ForceInvokeDeltaHandlers ==
    /\ pending.count # 0
    /\ IF SomethingToTell THEN InvokeDeltaHandlers(Now)
       ELSE /\ pending' = [pending EXCEPT !.count = 0]
            /\ UNCHANGED <<doubt, told, dangling>>
    /\ UNCHANGED <<conflate, shown, timer, started, valid, fresh, lock, reader>>

(* clearConflatedDeltas, by an application that reads the book instead. *)
ClearConflatedDeltas ==
    /\ pending.count # 0
    /\ pending' = [NoPending EXCEPT !.now = pending.now]
    /\ dangling' = FALSE /\ doubt' = NoDoubt
    /\ told' = Entries(shown)
    /\ UNCHANGED <<conflate, shown, timer, started, valid, fresh, lock, reader>>

-----------------------------------------------------------------------------
(* getBookSnapShot, or acquireReadLock and releaseReadLock. *)

AskForSnapshot ==
    /\ reader = "idle" /\ reader' = "waiting"
    /\ UNCHANGED <<conflate, shown, pending, dangling, timer, started, valid, fresh,
                   lock, told, doubt>>

StartReading ==
    /\ reader = "waiting" /\ lock = "free"
    /\ reader' = "reading" /\ lock' = "reader"
    /\ UNCHANGED <<conflate, shown, pending, dangling, timer, started, valid, fresh,
                   told, doubt>>

StopReading ==
    /\ reader = "reading"
    /\ reader' = "idle" /\ lock' = "free"
    /\ UNCHANGED <<conflate, shown, pending, dangling, timer, started, valid, fresh,
                   told, doubt>>

-----------------------------------------------------------------------------
Next ==
    \/ Update \/ IgnoreUpdate
    \/ Recap \/ HandleClear
    \/ LoseQuality \/ RegainQuality
    \/ OnTimer \/ ForceInvokeDeltaHandlers \/ ClearConflatedDeltas
    \/ AskForSnapshot \/ StartReading \/ StopReading

(* The timer fires and the reader finishes.  The lock is given to who waits   *)
(* for it when it is released, to the readers after a writer and to the       *)
(* writer after the last reader: neither thread starves the other.           *)
Fairness == SF_vars(OnTimer) /\ WF_vars(StopReading) /\ SF_vars(StartReading)

Spec == Init /\ [][Next]_vars /\ Fairness

-----------------------------------------------------------------------------
(* Books are books; a delta waits alone or in the list; only the reader's     *)
(* lock is the reader's.                                                    *)
TypeOK ==
    /\ {conflate, dangling, timer, started, valid, fresh} \subseteq BOOLEAN
    /\ BookType(shown) /\ told \subseteq Prices \X Ids \X Sizes
    /\ pending.count \in 0 .. 2
    /\ pending.count = 1 <=> pending.simple # NoDelta
    /\ lock \in {"free", "queue", "reader"}
    /\ lock = "reader" <=> reader = "reading"

Forwarding == valid \/ UpdateGapped

(* The prices at which two copies of a book differ, and those at which what   *)
(* the handler was told misled it.                                           *)
Differ(a, b) == {e[1] : e \in (a \ b) \cup (b \ a)}
Lost == {p \in Prices : doubt[p] = "lost"}

(* The deltas that are pending, however they were conflated, turn the          *)
(* handler's copy into the book, except where a level ended with no delta or   *)
(* an entry that was added twice ended.                                      *)
NothingLost ==
    Forwarding /\ ~dangling =>
        Differ(Given(told, shown, pending), Entries(shown)) \subseteq Lost

(* Between conflation intervals the handler has the book, with the same        *)
(* exceptions.                                                               *)
InStep == Forwarding /\ ~timer => Differ(told, Entries(shown)) \subseteq Lost

(* What a handler would expect: no exceptions. *)
AlwaysInStep == Forwarding /\ ~timer => told = Entries(shown)

(* handleUpdate returns with the lock only while a timer will release it. *)
LockedForTimer == lock = "queue" => timer

(* No update meets deltas whose levels and entries were freed: from the loss   *)
(* of quality that clears the book under them updates are refused, until a     *)
(* recap or a clear, and both drop these deltas (setQuality, handleUpdate,     *)
(* handleRecap, handleClear).                                                *)
FreedBeforeUpdates == dangling => ~started

(* No handler is given a delta whose level or entry was freed. *)
NoMisread ==
    [][dangling /\ (OnTimer \/ ForceInvokeDeltaHandlers) => pending' = pending]_vars

(* What setUpdateInconsistentBook's comment says of the default: an           *)
(* inconsistent book is not updated, it waits for a recap.                   *)
GappedBookWaits ==
    [][~UpdateGapped /\ ~valid /\ ~valid' => shown' = shown]_vars

(* A thread that asks for a snapshot gets it, though handleUpdate may return   *)
(* with the lock.                                                            *)
SnapshotIsServed == reader = "waiting" ~> reader = "reading"
=============================================================================
