------------------------------ MODULE EventQueue ------------------------------
(***************************************************************************)
(* An event queue and the threads that dispatch it: mamaQueue and            *)
(* mamaDispatcher (mama/c_cpp/src/c/queue.c) over the Qpid bridge's queue     *)
(* (bridge/qpid/queue.c) and the common wombatQueue, a list with a mutex and  *)
(* a semaphore that counts its items (common/c_cpp/src/c/queue.c).           *)
(*                                                                         *)
(* The dispatcher's thread and application threads dispatch; the main thread *)
(* makes and destroys the dispatcher and the queue.  Objects (timers, as in   *)
(* bridge/qpid/timer.c) put events on the queue, the last one of which gives  *)
(* back the object's reference to the queue.  An event is numbered in the     *)
(* order in which it was put on the queue.                                  *)
(***************************************************************************)
EXTENDS Integers, Sequences, FiniteSets

CONSTANTS
    Objects,
    Helpers,       \* application threads that call mamaQueue_dispatch
    MaxSize,       \* mMaxSize
    ChunkSize,     \* mChunkSize, and the initial size
    Low, High,     \* the bridge's watermarks
    Careful,       \* the queue is destroyed after its dispatcher, with no other
                   \* thread on its way into it
    CloseFits,     \* objects are destroyed when the queue has room
    MaxEvents,     \* bound: events beside the objects' last ones
    MaxRounds      \* the timeout of mamaQueue_destroyTimedWait, in dispatches

ASSUME EventQueueAssumption ==
    /\ MaxSize \in Nat /\ ChunkSize \in Nat \ {0} /\ ChunkSize <= MaxSize
    /\ Low \in Nat /\ High \in Nat /\ Low <= High
    /\ {Careful, CloseFits} \subseteq BOOLEAN
    /\ MaxEvents \in Nat /\ MaxRounds \in Nat \ {0}
    /\ Helpers \cap {"main", "dispatcher", "free"} = {}

Threads == Helpers \cup {"main", "dispatcher"}

VARIABLES
    items,    \* the list of events
    sem,      \* the value of mSem
    alloc,    \* list items allocated, free ones included
    sent,     \* number of events put on the queue
    begun,    \* number of the event whose callback began last
    hand,     \* the event that a thread has taken, 0 if none
    high,     \* mHighWaterFired
    running,  \* the bridge's mIsDispatching
    dlock,    \* who has mDispatchLock, "free" if nobody
    stopped,  \* history: mamaQueue_stopDispatch was called under this dispatcher
    pc,       \* where each thread is
    obj,      \* each object: "none", "open", "closing", "gone"
    last,     \* the number of an object's last event, 0 before
    queue,    \* "live", "dying" (the bridge's part is freed), "freed"
    disp,     \* the dispatcher
    ask,      \* the call that destroys the queue
    rounds,   \* dispatches made by mamaQueue_destroyTimedWait
    answer    \* what the last such call returned

list == <<items, sem, alloc, sent>>
flags == <<high, running, dlock, stopped>>
objects == <<obj, last>>
life == <<queue, disp, ask, rounds, answer>>
vars == <<list, begun, hand, flags, pc, objects, life>>

(* live: mamaDispatcher exists; on: mIsDispatching; ending: mDestroy; queue:   *)
(* mQueue is not NULL; known: the queue's mDispatcher is not NULL.            *)
NoDispatcher ==
    [live |-> FALSE, on |-> FALSE, ending |-> FALSE, queue |-> FALSE, known |-> FALSE]

Init ==
    /\ items = <<>> /\ sem = 0 /\ alloc = ChunkSize
    /\ sent = 0 /\ begun = 0
    /\ hand = [t \in Threads |-> 0]
    /\ high = FALSE /\ running = FALSE /\ dlock = "free" /\ stopped = FALSE
    /\ pc = [t \in Threads |-> "idle"]
    /\ obj = [o \in Objects |-> "none"] /\ last = [o \in Objects |-> 0]
    /\ queue = "live" /\ disp = NoDispatcher
    /\ ask = "none" /\ rounds = 0 /\ answer = "none"

Goto(t, place) == pc' = [pc EXCEPT ![t] = place]

-----------------------------------------------------------------------------
(* wombatQueue. *)

(* Mutant: the list grows whatever its size. *)
GrownUnbounded == IF alloc = Len(items) THEN alloc + ChunkSize ELSE alloc

(* wombatQueueImpl_allocChunk, when the free list is empty: the bound is on   *)
(* the semaphore, which a dispatching thread lowers before it takes an item.  *)
Grown ==
    IF alloc = Len(items) /\ sem + ChunkSize <= MaxSize THEN alloc + ChunkSize ELSE alloc
Fits == Grown > Len(items)

(* Mutant: the semaphore is posted before a full queue is noticed. *)
EnqueuePostsAnyway ==
    /\ sem' = sem + 1
    /\ alloc' = Grown
    /\ IF Fits THEN items' = Append(items, sent + 1) /\ sent' = sent + 1
               ELSE UNCHANGED <<items, sent>>

(* Mutant: a dispatcher is only woken for the first event of an empty list. *)
EnqueueWakesOnce ==
    IF Fits
    THEN /\ items' = Append(items, sent + 1)
         /\ sem' = IF items = <<>> THEN sem + 1 ELSE sem
         /\ alloc' = Grown
         /\ sent' = sent + 1
    ELSE UNCHANGED list

(* wombatQueue_enqueue of the next event; WOMBAT_QUEUE_FULL changes nothing. *)
Enqueue ==
    IF Fits
    THEN /\ items' = Append(items, sent + 1)
         /\ sem' = sem + 1
         /\ alloc' = Grown
         /\ sent' = sent + 1
    ELSE UNCHANGED list

-----------------------------------------------------------------------------
(* Objects on the queue (mamaQueue_incrementObjectCount and decrement...).   *)

OpenObjects == Cardinality({o \in Objects : obj[o] \in {"open", "closing"}})

Open(o) ==
    /\ obj[o] = "none" /\ queue = "live" /\ ask = "none"
    /\ obj' = [obj EXCEPT ![o] = "open"]
    /\ UNCHANGED <<list, begun, hand, flags, pc, last, life>>

(* A timer fires: qpidBridgeMamaTimerImpl_timerCallback. *)
Fire(o) ==
    /\ obj[o] = "open"
    /\ sent < MaxEvents
    /\ Enqueue
    /\ UNCHANGED <<begun, hand, flags, pc, objects, life>>

(* qpidBridgeMamaTimer_destroy: the result of the enqueue is not looked at. *)
Close(o) ==
    /\ obj[o] = "open"
    /\ CloseFits => Fits
    /\ obj' = [obj EXCEPT ![o] = "closing"]
    /\ last' = [last EXCEPT ![o] = IF Fits THEN sent + 1 ELSE 0]
    /\ Enqueue
    /\ UNCHANGED <<begun, hand, flags, pc, life>>

-----------------------------------------------------------------------------
(* Dispatching, by thread t. *)

(* Mutant: mIsDispatching is set before the lock is had. *)
EnterFlagFirst(t) ==
    /\ \/ /\ pc[t] = "enter" /\ running' = TRUE
          /\ Goto(t, "lock") /\ UNCHANGED dlock
       \/ /\ pc[t] = "lock" /\ dlock = "free" /\ dlock' = t
          /\ Goto(t, "check") /\ UNCHANGED running
    /\ UNCHANGED <<list, begun, hand, high, stopped, objects, life>>

(* Mutant: dispatching without a lock. *)
EnterUnlocked(t) ==
    /\ pc[t] = "enter"
    /\ running' = TRUE /\ dlock' = t
    /\ Goto(t, "check")
    /\ UNCHANGED <<list, begun, hand, high, stopped, objects, life>>

(* qpidBridgeMamaQueue_dispatch: the lock, then mIsDispatching. *)
Enter(t) ==
    /\ pc[t] = "enter"
    /\ dlock = "free"
    /\ dlock' = t
    /\ running' = TRUE
    /\ Goto(t, "check")
    /\ UNCHANGED <<list, begun, hand, high, stopped, objects, life>>

(* qpidBridgeMamaQueueImpl_checkWatermarks: the size is the semaphore's value. *)
CheckWatermarks(t) ==
    /\ pc[t] = "check"
    /\ high' = IF high THEN sem # Low ELSE sem >= High
    /\ Goto(t, "wait")
    /\ UNCHANGED <<list, begun, hand, running, dlock, stopped, objects, life>>

(* wombatQueue_timedDispatch: the wait for an item, ... *)
Wait(t) ==
    /\ pc[t] = "wait"
    /\ IF sem > 0 THEN sem' = sem - 1 /\ Goto(t, "take")
                  ELSE sem' = sem /\ Goto(t, "again")
    /\ UNCHANGED <<items, alloc, sent, begun, hand, flags, objects, life>>

(* ... the item, under the list's own mutex, which is released again, ... *)
Take(t) ==
    /\ pc[t] = "take"
    /\ IF items = <<>>
       THEN Goto(t, "again") /\ UNCHANGED <<items, hand>>
       ELSE /\ hand' = [hand EXCEPT ![t] = Head(items)]
            /\ items' = Tail(items)
            /\ Goto(t, "call")
    /\ UNCHANGED <<sem, alloc, sent, begun, flags, objects, life>>

(* ... and its callback. *)
Begin(t) ==
    /\ pc[t] = "call"
    /\ begun' = hand[t]
    /\ Goto(t, "callback")
    /\ UNCHANGED <<list, hand, flags, objects, life>>

(* An object's last event gives back its reference to the queue. *)
End(t) ==
    /\ pc[t] = "callback"
    /\ obj' = [o \in Objects |-> IF last[o] = hand[t] THEN "gone" ELSE obj[o]]
    /\ hand' = [hand EXCEPT ![t] = 0]
    /\ Goto(t, "again")
    /\ UNCHANGED <<list, begun, flags, last, life>>

(* Where a thread that returns from dispatching goes on. *)
Back(t) == IF t = "dispatcher" THEN "test" ELSE IF t = "main" THEN "destroy" ELSE "idle"

(* The end of qpidBridgeMamaQueue_dispatch's loop; a thread without the lock  *)
(* is in qpidBridgeMamaQueue_timedDispatch.                                 *)
Again(t) ==
    /\ pc[t] = "again"
    /\ IF dlock = t /\ running
       THEN Goto(t, "check") /\ UNCHANGED dlock
       ELSE Goto(t, Back(t)) /\ dlock' = IF dlock = t THEN "free" ELSE dlock
    /\ UNCHANGED <<list, begun, hand, high, running, stopped, objects, life>>

Dispatch(t) ==
    \/ Enter(t) \/ CheckWatermarks(t) \/ Wait(t) \/ Take(t) \/ Begin(t) \/ End(t) \/ Again(t)

(* Calls of an application's thread. *)
CallDispatch(t) ==
    /\ pc[t] = "idle" /\ queue = "live"
    /\ Careful => ask = "none"
    /\ Goto(t, "enter")
    /\ UNCHANGED <<list, begun, hand, flags, objects, life>>

(* mamaQueue_stopDispatch, from any thread or callback. *)
StopDispatch ==
    /\ queue = "live"
    /\ running' = FALSE
    /\ stopped' = disp.live
    /\ UNCHANGED <<list, begun, hand, high, dlock, pc, objects, life>>

-----------------------------------------------------------------------------
(* The dispatcher's thread: dispatchThreadProc. *)

ThreadStart ==
    /\ pc["dispatcher"] = "start"
    /\ disp' = [disp EXCEPT !.on = TRUE]
    /\ Goto("dispatcher", "test")
    /\ UNCHANGED <<list, begun, hand, flags, objects, queue, ask, rounds, answer>>

(* The loop's condition; mamaQueue_dispatch refuses a queue that is NULL. *)
ThreadTest ==
    /\ pc["dispatcher"] = "test"
    /\ Goto("dispatcher", IF disp.on /\ ~disp.ending /\ disp.queue THEN "enter" ELSE "exit")
    /\ UNCHANGED <<list, begun, hand, flags, objects, life>>

ThreadExit ==
    /\ pc["dispatcher"] = "exit"
    /\ disp' = [disp EXCEPT !.on = FALSE, !.known = IF disp.queue THEN FALSE ELSE @]
    /\ Goto("dispatcher", "done")
    /\ UNCHANGED <<list, begun, hand, flags, objects, queue, ask, rounds, answer>>

-----------------------------------------------------------------------------
(* The main thread: mamaDispatcher_create and _destroy, ... *)

CreateDispatcher ==
    /\ pc["main"] = "idle" /\ queue = "live" /\ ~disp.live
    /\ ~disp.known
    /\ disp' = [live |-> TRUE, on |-> FALSE, ending |-> FALSE, queue |-> TRUE, known |-> TRUE]
    /\ Goto("dispatcher", "start")
    /\ UNCHANGED <<list, begun, hand, flags, objects, queue, ask, rounds, answer>>

DestroyDispatcher ==
    /\ pc["main"] = "idle" /\ disp.live
    /\ IF disp.queue /\ disp.on
       THEN disp' = [disp EXCEPT !.on = FALSE] /\ Goto("main", "stop")
       ELSE disp' = disp /\ Goto("main", "mark")
    /\ UNCHANGED <<list, begun, hand, flags, objects, queue, ask, rounds, answer>>

DestroyStops ==
    /\ pc["main"] = "stop"
    /\ running' = FALSE
    /\ Goto("main", "mark")
    /\ UNCHANGED <<list, begun, hand, high, dlock, stopped, objects, life>>

DestroyMarks ==
    /\ pc["main"] = "mark"
    /\ disp' = [disp EXCEPT !.ending = TRUE]
    /\ Goto("main", "join")
    /\ UNCHANGED <<list, begun, hand, flags, objects, queue, ask, rounds, answer>>

(* wthread_join; then the queue, through the dispatcher's pointer, forgets it. *)
DestroyJoins ==
    /\ pc["main"] = "join"
    /\ pc["dispatcher"] = "done"
    /\ disp' = NoDispatcher
    /\ pc' = [pc EXCEPT !["main"] = "idle", !["dispatcher"] = "idle"]
    /\ stopped' = FALSE
    /\ UNCHANGED <<list, begun, hand, high, running, dlock, objects, queue, ask, rounds, answer>>

-----------------------------------------------------------------------------
(* ... and mamaQueue_destroy ("once"), _destroyWait and _destroyTimedWait.    *)

(* With care the dispatcher is gone, no thread is on its way to the lock, and  *)
(* none dispatches beside a call that dispatches too.                        *)
Ready(how) ==
    /\ ~disp.live
    /\ \A t \in Helpers : pc[t] = "idle" \/ (how = "once" /\ pc[t] # "enter")

AskDestroy(how) ==
    /\ pc["main"] = "idle" /\ queue = "live"
    /\ Careful => Ready(how)
    /\ ask' = how /\ rounds' = 0 /\ answer' = "none"
    /\ Goto("main", "destroy")
    /\ UNCHANGED <<list, begun, hand, flags, objects, queue, disp>>

Answer(status) ==
    /\ answer' = status
    /\ ask' = "none"
    /\ Goto("main", "idle")

(* Mutant: the waiting calls try again without dispatching. *)
DestroyRetriesOnly ==
    /\ pc["main"] = "destroy"
    /\ IF OpenObjects = 0
       THEN Goto("main", "lock") /\ UNCHANGED <<rounds, answer, ask>>
       ELSE IF ask = "once" THEN Answer("open") /\ UNCHANGED rounds
       ELSE IF ask = "timed" /\ rounds = MaxRounds THEN Answer("ok") /\ UNCHANGED rounds
       ELSE /\ rounds' = IF ask = "timed" THEN rounds + 1 ELSE rounds
            /\ UNCHANGED <<pc, answer, ask>>
    /\ UNCHANGED <<list, begun, hand, flags, objects, queue, disp>>

(* mamaQueue_destroy counts the open objects: with some, it returns, and the   *)
(* waiting calls dispatch once and try again until the time has run out.      *)
Destroy ==
    /\ pc["main"] = "destroy"
    /\ IF OpenObjects = 0
       THEN Goto("main", "lock") /\ UNCHANGED <<rounds, answer, ask>>
       ELSE IF ask = "once" THEN Answer("open") /\ UNCHANGED rounds
       ELSE IF ask = "timed" /\ rounds = MaxRounds THEN Answer("ok") /\ UNCHANGED rounds
       ELSE /\ rounds' = IF ask = "timed" THEN rounds + 1 ELSE rounds
            /\ Goto("main", "check")
            /\ UNCHANGED <<answer, ask>>
    /\ UNCHANGED <<list, begun, hand, flags, objects, queue, disp>>

(* Mutant: the queue is destroyed without the dispatch lock. *)
DestroyBridgeUnlocked ==
    /\ pc["main"] = "lock"
    /\ queue' = "dying"
    /\ Goto("main", "free")
    /\ UNCHANGED <<list, begun, hand, flags, objects, disp, ask, rounds, answer>>

(* qpidBridgeMamaQueue_destroy waits for the thread that dispatches. *)
DestroyBridge ==
    /\ pc["main"] = "lock"
    /\ dlock = "free"
    /\ queue' = "dying"
    /\ Goto("main", "free")
    /\ UNCHANGED <<list, begun, hand, flags, objects, disp, ask, rounds, answer>>

Free ==
    /\ pc["main"] = "free"
    /\ disp' = IF disp.known THEN [disp EXCEPT !.on = FALSE, !.queue = FALSE] ELSE disp
    /\ queue' = "freed"
    /\ Answer("ok")
    /\ UNCHANGED <<list, begun, hand, flags, objects, rounds>>

-----------------------------------------------------------------------------
MainSteps ==
    \/ DestroyStops \/ DestroyMarks \/ DestroyJoins
    \/ Destroy \/ DestroyBridge \/ Free
    \/ Dispatch("main")

DispatcherSteps ==
    \/ ThreadStart \/ ThreadTest \/ ThreadExit
    \/ Dispatch("dispatcher")

Next ==
    \/ \E o \in Objects : Open(o) \/ Fire(o) \/ Close(o)
    \/ \E t \in Helpers : CallDispatch(t) \/ Dispatch(t)
    \/ StopDispatch
    \/ CreateDispatcher \/ DestroyDispatcher
    \/ \E how \in {"once", "wait", "timed"} : AskDestroy(how)
    \/ MainSteps
    \/ DispatcherSteps

(* A thread goes on with a call it has made, and callbacks return.  Nothing is *)
(* assumed of who gets mDispatchLock, or that anybody calls anything.        *)
Fairness ==
    /\ WF_vars(MainSteps)
    /\ WF_vars(DispatcherSteps)
    /\ \A t \in Helpers : WF_vars(Dispatch(t))

Spec == Init /\ [][Next]_vars /\ Fairness

-----------------------------------------------------------------------------
(* Properties. *)

Places == {"idle", "enter", "check", "wait", "take", "call", "callback", "again",
           "start", "test", "exit", "done", "stop", "mark", "join", "destroy", "lock", "free"}

(* Types; a thread holds an event exactly between taking it and the end of its *)
(* callback, and mDispatchLock is held by a thread that dispatches.          *)
TypeOK ==
    /\ items \in Seq(1 .. sent) /\ sem \in Nat /\ alloc \in Nat /\ sent \in Nat
    /\ begun \in 0 .. sent
    /\ hand \in [Threads -> 0 .. sent]
    /\ high \in BOOLEAN /\ running \in BOOLEAN /\ stopped \in BOOLEAN /\ dlock \in Threads \cup {"free"}
    /\ pc \in [Threads -> Places]
    /\ obj \in [Objects -> {"none", "open", "closing", "gone"}]
    /\ last \in [Objects -> 0 .. sent]
    /\ queue \in {"live", "dying", "freed"}
    /\ disp \in [live : BOOLEAN, on : BOOLEAN, ending : BOOLEAN, queue : BOOLEAN,
                  known : BOOLEAN]
    /\ ask \in {"none", "once", "wait", "timed"}
    /\ rounds \in 0 .. MaxRounds /\ answer \in {"none", "ok", "open"}
    /\ \A t \in Threads : hand[t] # 0 <=> pc[t] \in {"call", "callback"}
    /\ dlock # "free" => pc[dlock] \in {"check", "wait", "take", "call", "callback", "again"}

Takers == {t \in Threads : pc[t] = "take"}

(* The semaphore never promises an event that the list does not have, nor does  *)
(* the list hold one without a token, on which a dispatcher would sleep: the    *)
(* two are changed in different critical sections (wombatQueue_dispatchInt).  *)
TokensMatch == Len(items) = sem + Cardinality(Takers)

(* The list's memory is bounded (wombatQueueImpl_allocChunk), although the      *)
(* bound is compared with the semaphore: the thread that has a token and not    *)
(* yet its item lets it grow past mMaxSize by one, and by no more.           *)
MemoryBounded == alloc <= MaxSize + 1

(* mMaxSize "bounds the queue to the specified size" (common/queue.h). *)
SizeBounded == Len(items) <= MaxSize

(* Callbacks run one at a time and in the order of their events, whichever     *)
(* threads call mamaQueue_dispatch: mDispatchLock is held over the callback.  *)
InOrder ==
    [][\A t \in Threads : begun' # begun =>
         /\ begun' = begun + 1
         /\ \A u \in Threads : pc[u] # "callback"]_vars

(* While the high watermark is reported the queue has not passed below the low *)
(* one, so that reaching it is still to come: the low watermark is reported     *)
(* only when the size is exactly that (qpidBridgeMamaQueueImpl_checkWatermarks). *)
LowIsAhead == high => sem >= Low

(* Places where a thread uses the queue, the bridge's part of it or the list. *)
Using(t) ==
    \/ pc[t] \in {"enter", "check", "wait", "take", "again"}
    \/ t = "dispatcher" /\ pc[t] = "exit" /\ disp.queue

(* No thread is inside a queue that was freed, no object refers to it, no      *)
(* dispatcher's thread outlives its dispatcher, and mamaDispatcher_destroy      *)
(* finds the dispatcher's queue when it has joined the thread.               *)
NoUseAfterFree ==
    /\ queue # "live" => /\ \A t \in Threads : ~Using(t)
                         /\ OpenObjects = 0
    /\ ~disp.live => pc["dispatcher"] = "idle"
    /\ pc["main"] = "join" => disp.queue

(* mamaQueue_destroyTimedWait: "MAMA_STATUS_TIMEOUT if the time elapsed". *)
OkIsDestroyed == answer = "ok" => queue = "freed"

(* A stop reaches the thread that dispatches, though other threads may be about *)
(* to dispatch and to set the flag again: it leaves qpidBridgeMamaQueue_dispatch. *)
StopIsHeard == \A t \in Threads : (dlock = t /\ ~running) ~> (dlock # t)

(* mamaQueue_stopDispatch "will cause mamaDispatchers to exit" (mama/queue.h). *)
StopEndsDispatcher ==
    (dlock = "dispatcher" /\ ~running) ~> (pc["dispatcher"] \in {"done", "idle"})

(* mamaDispatcher_destroy returns: mama/queue.h says of it "Destroy the         *)
(* dispatcher and stop dispatching events".  The thread it waits for may have   *)
(* passed its test and set the flag again that was cleared to stop it.        *)
DispatcherStops == (pc["main"] = "join") ~> (pc["main"] # "join")

(* A dispatcher "will continue to dispatch events until it is destroyed or      *)
(* mamaQueue_stopDispatch is called" (mama/queue.h): an event that was put on    *)
(* the queue is dispatched, whoever else dispatches and whatever thread sleeps   *)
(* on the semaphore when it comes.                                          *)
EventsAreDispatched ==
    \A n \in 1 .. MaxEvents + Cardinality(Objects) :
        (sent >= n) ~> (begun >= n \/ stopped \/ ~disp.live \/ pc["main"] # "idle")

(* mamaQueue_destroyWait dispatches the last events of the objects itself, and  *)
(* returns when the application has destroyed them all.                      *)
WaitEnds ==
    (ask = "wait" /\ \A o \in Objects : obj[o] # "open") ~> (queue = "freed")
=============================================================================
