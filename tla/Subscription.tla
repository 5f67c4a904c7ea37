---------------------------- MODULE Subscription ----------------------------
(***************************************************************************)
(* The life of one mamaSubscription (mama/c_cpp/src/c/subscription.c).      *)
(*                                                                         *)
(* A subscription is a state machine (mState) that several threads drive:   *)
(*   App     application threads calling the public functions;             *)
(*   Timer   the thread of the default throttle's timer, which pops the     *)
(*           queued creation of the subscription and runs createAction;    *)
(*   Bridge  the middleware thread, which delivers messages and, for a      *)
(*           middleware with asynchronous destruction, the bridge's         *)
(*           onDestroy callback.                                           *)
(*                                                                         *)
(* Two recursive locks order them.  cdl is mCreateDestroyLock of the        *)
(* subscription; tl is the lock of the throttle's message list, which the   *)
(* timer holds while it runs an action.  A step of the model is the code    *)
(* between two lock acquisitions, so every place where a thread can wait    *)
(* for a lock, or has dropped one and still uses the object, is a value of  *)
(* pc.  Calls that only return an error change nothing and are left out.    *)
(***************************************************************************)
EXTENDS Naturals

CONSTANTS
    App, Timer, Bridge, NoThread,
    Configs,            \* the subscriptions, transports and bridges considered
    MaxOpen             \* bound: activations stop at this many open objects

Threads == App \cup {Timer, Bridge}

ASSUME SubscriptionAssumption ==
    /\ Timer # Bridge
    /\ Timer \notin App /\ Bridge \notin App
    /\ NoThread \notin Threads
    /\ Configs \subseteq [kind : {"market", "snapshot", "basic"},
                          throttled : BOOLEAN, sync : BOOLEAN, mayFail : BOOLEAN]
    /\ MaxOpen \in Nat

States == {"ALLOCATED", "SETUP", "ACTIVATING", "ACTIVATED", "DEACTIVATING",
           "DEACTIVATED", "REACTIVATING", "DESTROYING", "DESTROYED",
           "DEALLOCATING", "DEALLOCATED"}

Labels == {"idle",          \* outside the library
           "dispatch",      \* in activate, holds cdl, waits for tl
           "deactLock",     \* in deactivate, waits for tl
           "deactBody",     \* in deactivate, waits for cdl
           "destroyBody",   \* in destroy after deactivate, waits for cdl
           "createBody",    \* popped action, waits for cdl
           "onCreate",      \* cdl released, about to call the user's onCreate
           "onDestroy",     \* cdl released, about to call the user's onDestroy
           "onDestroyFree", \* as onDestroy, and frees the object afterwards
           "cbLock",        \* in onSubscriptionDestroyed, waits for cdl
           "callback"}      \* inside a user callback, holding a lock or on Bridge

VARIABLES
    config,     \* what is being subscribed to, and through what; never changes
    state,      \* mState
    transport,  \* mTransport is not NULL; from setup to cleanup
    queued,     \* mAction is an element of the throttle's list
    bridge,     \* mSubscBridge is not NULL
    listener,   \* mSubscHandle is in the transport's list of listeners
    pending,    \* destroyed bridges whose onDestroy is still to be delivered
    open,       \* what the subscription holds of its queue's mNumberOpenObjects
    cdl, tl,    \* owner of each lock, or NoThread
    pc,         \* where each thread is
    call,       \* the function a thread in deactivate was called from
    created,    \* onCreate was invoked for the current activation
    delivered,  \* onMsg was invoked for the current activation
    notified    \* onDestroy was invoked since the last setup

vars == <<config, state, transport, queued, bridge, listener, pending, open,
          cdl, tl, pc, call, created, delivered, notified>>

locks == <<cdl, tl>>
resources == <<transport, queued, bridge, listener, pending, open>>
userView == <<created, delivered, notified>>

Kind == config.kind              \* "market", "snapshot" (dictionaries too), "basic"
Throttled == config.throttled    \* the default throttle has a rate above 0
SyncBridge == config.sync        \* the bridge's destroy function calls onDestroy
BridgeMayFail == config.mayFail  \* bridgeMamaSubscriptionCreate may fail

TypeOK ==
    /\ config \in Configs
    /\ state \in States
    /\ transport \in BOOLEAN
    /\ queued \in BOOLEAN
    /\ bridge \in BOOLEAN
    /\ listener \in BOOLEAN
    /\ pending \in Nat
    /\ open \in Nat
    /\ cdl \in Threads \cup {NoThread}
    /\ tl \in Threads \cup {NoThread}
    /\ pc \in [Threads -> Labels]
    /\ call \in [Threads -> {"deactivate", "destroy"}]
    /\ created \in BOOLEAN
    /\ delivered \in BOOLEAN
    /\ notified \in BOOLEAN

(* mamaSubscription_allocate. *)
Init ==
    /\ config \in Configs
    /\ state = "ALLOCATED"
    /\ transport = FALSE
    /\ queued = FALSE
    /\ bridge = FALSE
    /\ listener = FALSE
    /\ pending = 0
    /\ open = 0
    /\ cdl = NoThread
    /\ tl = NoThread
    /\ pc = [t \in Threads |-> "idle"]
    /\ call = [t \in Threads |-> "deactivate"]
    /\ created = FALSE
    /\ delivered = FALSE
    /\ notified = FALSE

-----------------------------------------------------------------------------
(* Threads, locks and callbacks. *)

FreeFor(lock, t) == lock \in {NoThread, t}

Alive == state # "DEALLOCATED"

GoTo(t, label) == pc' = [pc EXCEPT ![t] = label]

(* A public function is called by an application thread or by a user      *)
(* callback that the library is running, until deallocate succeeds: from   *)
(* then on the application has given its handle up.                       *)
MayCall(t) ==
    /\ state \notin {"DEALLOCATING", "DEALLOCATED"}
    /\ \/ t \in App /\ pc[t] = "idle"
       \/ pc[t] = "callback"

(* Where a thread goes when a function it called returns. *)
ReturnPoint(t) == IF t \in App /\ cdl # t THEN "idle" ELSE "callback"

(* The application sets up an object that no other thread is using. *)
OthersOut(t) == \A u \in Threads \ {t} : pc[u] \in {"idle", "callback"}

(* It frees one when no other call of its own is running, in its threads or in  *)
(* its callbacks.  What the library's threads are doing it cannot know.        *)
OtherCallsDone(t) ==
    /\ \A u \in App \ {t} : pc[u] \in {"idle", "callback"}
    /\ \A u \in {Timer, Bridge} \ {t} : pc[u] \notin {"deactLock", "deactBody", "destroyBody"}

-----------------------------------------------------------------------------
(* mamaSubscription_setup, mamaSubscription_setup2: setupBasic either       *)
(* completes or fails part way, leaving mTransport set but mState as it was. *)
Setup(t) ==
    /\ MayCall(t)
    /\ Kind # "basic"
    /\ OthersOut(t)
    /\ FreeFor(cdl, t)
    /\ state \in {"ALLOCATED", "DESTROYED"}
    /\ \/ /\ state' = "SETUP"
          /\ transport' = TRUE
          /\ notified' = FALSE
       \/ /\ transport' \in {transport, TRUE}
          /\ UNCHANGED <<state, notified>>
    /\ UNCHANGED <<config, queued, bridge, listener, pending, open, locks, pc, call,
                   created, delivered>>

(* What completeMarketDataInitialisation and mamaSubscription_initialize do *)
(* to a subscription that is ACTIVATING.  The status of the bridge's create  *)
(* function is not looked at.                                              *)
Initialise ==
    /\ state' = "ACTIVATED"
    /\ open' = open + 1
    /\ created' = FALSE
    /\ delivered' = FALSE
    /\ IF Kind = "market"
       THEN /\ listener' = TRUE
            /\ bridge' \in BOOLEAN
            /\ bridge' \/ BridgeMayFail
       ELSE UNCHANGED <<listener, bridge>>

(* mamaSubscription_activate_internal, called with cdl held by t: with a    *)
(* throttle, wombatThrottle_dispatch next waits for the list's lock;        *)
(* without one, createAction and onCreate run here, under cdl.              *)
ActivateInternal(t) ==
    /\ open < MaxOpen
    /\ cdl' = t
    /\ \/ /\ Throttled
          /\ state' = "ACTIVATING"
          /\ GoTo(t, "dispatch")
          /\ UNCHANGED <<open, created, delivered, listener, bridge>>
       \/ /\ ~Throttled
          /\ Initialise
          /\ GoTo(t, "onCreate")

(* mamaSubscription_activate. *)
Activate(t) ==
    /\ MayCall(t)
    /\ Kind # "basic"
    /\ FreeFor(cdl, t)
    /\ \/ /\ state \in {"SETUP", "DEACTIVATED"}
          /\ ActivateInternal(t)
       \/ /\ state = "DEACTIVATING"
          /\ state' = "REACTIVATING"
          /\ UNCHANGED <<cdl, pc, open, created, delivered, listener, bridge>>
    /\ UNCHANGED <<config, transport, queued, pending, tl, call, notified>>

(* Mutant: activate returns without releasing cdl. *)
DispatchKeepsLock(t) ==
    /\ pc[t] = "dispatch"
    /\ FreeFor(tl, t)
    /\ queued' = TRUE
    /\ GoTo(t, IF t = Timer THEN "callback" ELSE "idle")
    /\ UNCHANGED <<config, state, transport, bridge, listener, pending, open, locks,
                   call, userView>>

(* The throttled branch of wombatThrottle_dispatch, then the return from    *)
(* activate.                                                               *)
Dispatch(t) ==
    /\ pc[t] = "dispatch"
    /\ FreeFor(tl, t)
    /\ queued' = TRUE
    /\ cdl' = NoThread
    /\ GoTo(t, IF t = Timer THEN "callback" ELSE "idle")
    /\ UNCHANGED <<config, state, transport, bridge, listener, pending, open, tl, call,
                   userView>>

(* mamaSubscriptionImpl_createBasic and completeBasicInitialisation: not    *)
(* throttled; when the bridge fails the state stays ACTIVATING.             *)
CreateBasic(t) ==
    /\ MayCall(t)
    /\ Kind = "basic"
    /\ OthersOut(t)
    /\ FreeFor(cdl, t)
    /\ state \in {"ALLOCATED", "DESTROYED"}
    /\ open < MaxOpen
    /\ transport' = TRUE
    /\ notified' = FALSE
    /\ created' = FALSE
    /\ delivered' = FALSE
    /\ \/ /\ state' = "ACTIVATED"
          /\ bridge' = TRUE
          /\ open' = open + 1
          /\ GoTo(t, "onCreate")
       \/ /\ BridgeMayFail
          /\ state' = "ACTIVATING"
          /\ UNCHANGED <<bridge, open, pc>>
    /\ UNCHANGED <<config, queued, listener, pending, locks, call>>

-----------------------------------------------------------------------------
(* The throttle's timer thread. *)

(* wombatThrottle_sendQueuedMessage: locks the list and pops the action. *)
TimerPop ==
    /\ pc[Timer] = "idle"
    /\ tl = NoThread
    /\ queued
    /\ queued' = FALSE
    /\ tl' = Timer
    /\ GoTo(Timer, "createBody")
    /\ UNCHANGED <<config, state, transport, bridge, listener, pending, open, cdl, call,
                   userView>>

(* mamaSubscriptionImpl_completeMarketDataInitialisation up to the unlock. *)
CompleteInitialisation ==
    /\ pc[Timer] = "createBody"
    /\ FreeFor(cdl, Timer)
    /\ Alive
    /\ IF state = "ACTIVATING"
       THEN Initialise
       ELSE UNCHANGED <<state, open, created, delivered, listener, bridge>>
    /\ GoTo(Timer, "onCreate")
    /\ UNCHANGED <<config, transport, queued, pending, locks, call, notified>>

(* The call of mUserCallbacks.onCreate that ends every creation. *)
OnCreate(t) ==
    /\ pc[t] = "onCreate"
    /\ Alive
    /\ created' = TRUE
    /\ GoTo(t, IF t = Timer \/ cdl = t THEN "callback" ELSE "idle")
    /\ UNCHANGED <<config, state, resources, locks, call, delivered, notified>>

(* A user callback returns: the timer leaves sendQueuedMessage and drops    *)
(* the list's lock, an unthrottled activate drops cdl.                     *)
CallbackReturn(t) ==
    /\ pc[t] = "callback"
    /\ GoTo(t, "idle")
    /\ tl' = IF tl = t THEN NoThread ELSE tl
    /\ cdl' = IF cdl = t THEN NoThread ELSE cdl
    /\ UNCHANGED <<config, state, resources, call, userView>>

-----------------------------------------------------------------------------
(* Deactivation and destruction. *)

(* Mutant: deactivate takes cdl without the throttle's lock. *)
DeactivateCallWithoutThrottle(t, from) ==
    /\ MayCall(t)
    /\ call' = [call EXCEPT ![t] = from]
    /\ GoTo(t, "deactBody")
    /\ UNCHANGED <<config, state, resources, locks, userView>>

(* Entry of mamaSubscription_deactivate, or of mamaSubscription_destroy,    *)
(* which starts with it.  mTransport is read without a lock.               *)
DeactivateCall(t, from) ==
    /\ MayCall(t)
    /\ call' = [call EXCEPT ![t] = from]
    /\ GoTo(t, IF Kind # "basic" /\ transport THEN "deactLock" ELSE "deactBody")
    /\ UNCHANGED <<config, state, resources, locks, userView>>

Deactivate(t) == DeactivateCall(t, "deactivate")
Destroy(t) == DeactivateCall(t, "destroy")

(* wombatThrottle_lock. *)
DeactivateLock(t) ==
    /\ pc[t] = "deactLock"
    /\ FreeFor(tl, t)
    /\ tl' = t
    /\ GoTo(t, "deactBody")
    /\ UNCHANGED <<config, state, resources, cdl, call, userView>>

(* Mutant: the object count is released here and in the callback. *)
DeactivateInternalReleasesTwice ==
    /\ listener' = FALSE
    /\ bridge' = FALSE
    /\ open' = open - 1
    /\ pending' = pending + (IF bridge THEN 1 ELSE 0)
    /\ state' = "DEACTIVATING"

(* Mutant: the listener is left in the transport's list. *)
DeactivateInternalKeepsListener ==
    /\ bridge' = FALSE
    /\ pending' = pending + (IF bridge THEN 1 ELSE 0)
    /\ state' = "DEACTIVATING"
    /\ UNCHANGED <<listener, open>>

(* Mutant: the bridge is destroyed but its callback is never requested. *)
DeactivateInternalNoCallback ==
    /\ listener' = FALSE
    /\ bridge' = FALSE
    /\ state' = "DEACTIVATING"
    /\ UNCHANGED <<pending, open>>

(* mamaSubscription_deactivate_internal of an ACTIVATED subscription.  The  *)
(* bridge's destroy function calls onSubscriptionDestroyed at once or later; *)
(* without a bridge nobody calls it, and only snapshots are completed here. *)
DeactivateInternal ==
    /\ listener' = FALSE
    /\ bridge' = FALSE
    /\ IF bridge /\ SyncBridge
       THEN open' = open - 1 /\ UNCHANGED pending
       ELSE pending' = pending + (IF bridge THEN 1 ELSE 0) /\ UNCHANGED open
    /\ state' = IF Kind = "snapshot" \/ (bridge /\ SyncBridge)
                THEN "DEACTIVATED" ELSE "DEACTIVATING"

(* The switch of mamaSubscription_deactivate, and its unlocks. *)
DeactivateBody(t) ==
    /\ pc[t] = "deactBody"
    /\ FreeFor(cdl, t)
    /\ Alive
    /\ \/ /\ state = "ACTIVATING" /\ Kind # "basic"
          /\ queued' = FALSE
          /\ state' = "DEACTIVATED"
          /\ UNCHANGED <<listener, bridge, open, pending>>
       \/ /\ state = "REACTIVATING"
          /\ state' = "DEACTIVATING"
          /\ UNCHANGED <<queued, listener, bridge, open, pending>>
       \/ /\ state = "ACTIVATED"
          /\ DeactivateInternal
          /\ UNCHANGED queued
       \/ /\ \/ state \notin {"ACTIVATING", "REACTIVATING", "ACTIVATED"}
             \/ state = "ACTIVATING" /\ Kind = "basic"
          /\ UNCHANGED <<state, queued, listener, bridge, open, pending>>
    /\ tl' = IF tl = t /\ t # Timer THEN NoThread ELSE tl
    /\ GoTo(t, IF call[t] = "destroy" THEN "destroyBody" ELSE ReturnPoint(t))
    /\ UNCHANGED <<config, transport, cdl, call, userView>>

(* Mutant: the subscription is destroyed without a clean-up. *)
CleanupSkipped == UNCHANGED transport

(* mamaSubscription_cleanup frees what setup created. *)
Cleanup == transport' = FALSE

(* The switch of mamaSubscription_destroy. *)
DestroyBody(t) ==
    /\ pc[t] = "destroyBody"
    /\ FreeFor(cdl, t)
    /\ Alive
    /\ \/ /\ state \in {"SETUP", "DEACTIVATED"}
          /\ Cleanup
          /\ state' = "DESTROYED"
          /\ GoTo(t, "onDestroy")
       \/ /\ state = "DEACTIVATING"
          /\ state' = "DESTROYING"
          /\ GoTo(t, ReturnPoint(t))
          /\ UNCHANGED transport
       \/ /\ state \notin {"SETUP", "DEACTIVATED", "DEACTIVATING"}
          /\ GoTo(t, ReturnPoint(t))
          /\ UNCHANGED <<state, transport>>
    /\ UNCHANGED <<config, queued, bridge, listener, pending, open, locks, call, userView>>

(* mamaSubscriptionImpl_invokeDestroyedCallback, after cdl was released. *)
OnDestroy(t) ==
    /\ pc[t] = "onDestroy"
    /\ Alive
    /\ notified' = TRUE
    /\ GoTo(t, ReturnPoint(t))
    /\ UNCHANGED <<config, state, resources, locks, call, created, delivered>>

(* Mutant: a subscription that is being destroyed is freed at once. *)
DeallocateAtOnce(t) ==
    /\ MayCall(t)
    /\ OtherCallsDone(t)
    /\ FreeFor(cdl, t)
    /\ state \in {"ALLOCATED", "DESTROYING", "DESTROYED"}
    /\ state' = "DEALLOCATED"
    /\ UNCHANGED <<config, resources, locks, pc, call, userView>>

(* mamaSubscription_deallocate and mamaSubscriptionImpl_deallocate. *)
Deallocate(t) ==
    /\ MayCall(t)
    /\ OtherCallsDone(t)
    /\ FreeFor(cdl, t)
    /\ \/ /\ state = "DESTROYING"
          /\ state' = "DEALLOCATING"
       \/ /\ state \in {"ALLOCATED", "DESTROYED"}
          /\ state' = "DEALLOCATED"
    /\ UNCHANGED <<config, resources, locks, pc, call, userView>>

-----------------------------------------------------------------------------
(* The middleware thread. *)

(* A message for the subscription is dispatched to the user's onMsg. *)
Message ==
    /\ pc[Bridge] = "idle"
    /\ state = "ACTIVATED"
    /\ bridge \/ Kind = "snapshot"
    /\ delivered' = TRUE
    /\ UNCHANGED <<config, state, resources, locks, pc, call, created, notified>>

(* Mutant: the queue's object count is not decremented. *)
OnSubscriptionDestroyedKeepsCount ==
    /\ pc[Bridge] = "idle"
    /\ Alive
    /\ pending > 0
    /\ pending' = pending - 1
    /\ GoTo(Bridge, "cbLock")
    /\ UNCHANGED <<config, state, transport, queued, bridge, listener, open, locks,
                   call, userView>>

(* Entry of mamaSubscriptionImpl_onSubscriptionDestroyed: the queue's       *)
(* object count is decremented before the lock is taken.                   *)
OnSubscriptionDestroyed ==
    /\ pc[Bridge] = "idle"
    /\ Alive
    /\ pending > 0
    /\ pending' = pending - 1
    /\ open' = open - 1
    /\ GoTo(Bridge, "cbLock")
    /\ UNCHANGED <<config, state, transport, queued, bridge, listener, locks, call,
                   userView>>

(* The switch of mamaSubscriptionImpl_onSubscriptionDestroyed; its default  *)
(* branch only logs an error.                                              *)
SubscriptionDestroyedBody ==
    /\ pc[Bridge] = "cbLock"
    /\ FreeFor(cdl, Bridge)
    /\ Alive
    /\ \/ /\ state \notin {"DEALLOCATING", "DESTROYING", "REACTIVATING"}
          /\ state' = IF state = "DEACTIVATING" THEN "DEACTIVATED" ELSE state
          /\ GoTo(Bridge, "idle")
          /\ UNCHANGED <<transport, cdl, open, created, delivered, listener, bridge>>
       \/ /\ state = "DEALLOCATING"
          /\ Cleanup
          /\ GoTo(Bridge, "onDestroyFree")
          /\ UNCHANGED <<state, cdl, open, created, delivered, listener, bridge>>
       \/ /\ state = "DESTROYING"
          /\ Cleanup
          /\ state' = "DESTROYED"
          /\ GoTo(Bridge, "onDestroy")
          /\ UNCHANGED <<cdl, open, created, delivered, listener, bridge>>
       \/ /\ state = "REACTIVATING"
          /\ ActivateInternal(Bridge)
          /\ UNCHANGED transport
    /\ UNCHANGED <<config, queued, pending, tl, call, notified>>

(* The DEALLOCATING branch after the unlock: onDestroy, then free. *)
OnDestroyFree ==
    /\ pc[Bridge] = "onDestroyFree"
    /\ Alive
    /\ notified' = TRUE
    /\ state' = "DEALLOCATED"
    /\ GoTo(Bridge, "idle")
    /\ UNCHANGED <<config, resources, locks, call, created, delivered>>

-----------------------------------------------------------------------------
(* Calls a thread starts, and steps that carry a started call on. *)
Start(t) ==
    \/ Setup(t) \/ Activate(t) \/ CreateBasic(t)
    \/ Deactivate(t) \/ Destroy(t) \/ Deallocate(t)

Continue(t) ==
    \/ Dispatch(t) \/ DeactivateLock(t) \/ DeactivateBody(t)
    \/ DestroyBody(t) \/ OnCreate(t) \/ OnDestroy(t) \/ CallbackReturn(t)

TimerStep == TimerPop \/ CompleteInitialisation

BridgeStep == OnSubscriptionDestroyed \/ SubscriptionDestroyedBody \/ OnDestroyFree

Next ==
    \/ \E t \in Threads : Start(t) \/ Continue(t)
    \/ TimerStep \/ BridgeStep \/ Message

(* A thread inside the library keeps running and gets a lock that is        *)
(* released again and again, user callbacks return, the throttle's timer    *)
(* fires and the middleware delivers its callback.  Nobody has to call      *)
(* anything.                                                               *)
Fairness ==
    /\ \A t \in Threads : SF_vars(Continue(t)) /\ SF_vars(CallbackReturn(t))
    /\ SF_vars(TimerStep)
    /\ SF_vars(BridgeStep)

Spec == Init /\ [][Next]_vars /\ Fairness

-----------------------------------------------------------------------------
(* Safety. *)

Quiet == {"ALLOCATED", "SETUP", "DEACTIVATED", "DESTROYED"}

(* A subscription whose state says that it is not active has nothing left   *)
(* behind: no creation on the throttle or in a thread's hands, no bridge,   *)
(* no callback to come, no entry in the transport's list of listeners.      *)
(* destroy and deallocate rely on it when they free the object at once.     *)
QuietMeansNothingOutstanding ==
    state \in Quiet =>
        /\ ~queued /\ ~bridge /\ ~listener /\ pending = 0
        /\ \A t \in Threads : pc[t] \notin {"dispatch", "createBody", "cbLock"}

(* mamaSubscription_deactivate hands mAction to wombatThrottle_removeAction *)
(* when the state is ACTIVATING: by then mAction is an element of the list  *)
(* and the caller holds the list's lock.                                   *)
ActionCanBeRemoved ==
    \A t \in Threads :
        (/\ pc[t] = "deactBody" /\ FreeFor(cdl, t)
         /\ state = "ACTIVATING" /\ Kind # "basic") => queued /\ tl = t

(* Once the object is freed nobody comes for it any more: its creation is not  *)
(* on the throttle nor in the timer's hands, no listener or bridge refers to    *)
(* it, no bridge is going to call onSubscriptionDestroyed, no thread of the      *)
(* library waits for its lock, and none is going to free it again.            *)
NoUseAfterFree ==
    ~Alive => /\ ~queued /\ ~listener /\ ~bridge /\ pending = 0
              /\ \A t \in Threads :
                    pc[t] \notin {"dispatch", "createBody", "cbLock", "onDestroyFree"}

(* Nor does anybody still use it who had released its lock to call onCreate or  *)
(* onDestroy, or has yet to release it.                                      *)
NobodyInsideAfterFree ==
    ~Alive => cdl = NoThread /\ \A t \in Threads : pc[t] \in {"idle", "callback"}

(* onDestroy is invoked once per setup, by one thread, and only after the   *)
(* resources of the subscription were cleaned up.                          *)
OneDestroyNotification ==
    \A t \in Threads :
        pc[t] \in {"onDestroy", "onDestroyFree"} =>
            /\ ~notified
            /\ ~transport
            /\ \A u \in Threads \ {t} : pc[u] \notin {"onDestroy", "onDestroyFree"}

(* The queue's count of open objects: a subscription that is not active     *)
(* holds none, so that the queue can be destroyed (mamaQueue_canDestroy).   *)
(* A snapshot, which no bridge reports as destroyed, keeps what it took.    *)
QueueCanBeDestroyed ==
    Kind # "snapshot" /\ state \in Quiet \cup {"DEALLOCATED"} => open = 0

(* "Function invoked when subscription creation is complete, and before any *)
(* calls to wombat_subscriptionOnMsgCB" (mama/subscription.h).              *)
OnCreateBeforeOnMsg == delivered => created

(* "The subscription is now on the throttle queue waiting to be fully       *)
(* activated" (MAMA_SUBSCRIPTION_ACTIVATING, mama/subscription.h).          *)
ActivatingIsOnThrottle ==
    state = "ACTIVATING" =>
        queued \/ \E t \in Threads : pc[t] \in {"dispatch", "createBody"}

(* The two locks in opposite orders: activate waits for the throttle under  *)
(* cdl while deactivate, or the timer, waits for cdl under the throttle.    *)
LockCycle ==
    \E t, u \in Threads :
        /\ t # u
        /\ cdl = t /\ pc[t] \in {"dispatch", "deactLock"}
        /\ tl = u /\ pc[u] \in {"deactBody", "destroyBody", "createBody"}

-----------------------------------------------------------------------------
(* Liveness. *)

(* destroy of an active subscription, which only marks it DESTROYING, is    *)
(* completed by the middleware's callback, unless the threads have locked    *)
(* each other out.                                                         *)
DestroyCompletes ==
    state = "DESTROYING" ~> state \in {"DESTROYED", "DEALLOCATED"} \/ LockCycle

(* An activation is completed or undone, as are a reactivation and a         *)
(* deactivation, unless the threads have locked each other out.             *)
TransitionsEndUnlessLockCycle ==
    \A s \in {"ACTIVATING", "DEACTIVATING", "REACTIVATING"} :
        state = s ~> state # s \/ LockCycle

(* "We are currently de-activating, re-activate as soon as this process is  *)
(* complete" (mamaSubscription_activate): the activation that follows ends. *)
ReactivationCompletes == state = "ACTIVATING" ~> state # "ACTIVATING"

(* "the subscription will not be fully deactivated until the onDestroy      *)
(* callback is received" (mamaSubscription_deactivate, mama/subscription.h). *)
DeactivationNotifies == state = "DEACTIVATED" ~> notified \/ state # "DEACTIVATED"
=============================================================================
