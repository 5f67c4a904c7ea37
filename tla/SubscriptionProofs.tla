------------------------- MODULE SubscriptionProofs -------------------------
(***************************************************************************)
(* The safety of the subscription's lifecycle for any number of application *)
(* threads, any kind of subscription, bridge and throttle.                 *)
(*                                                                         *)
(* LifecycleInv says who is where in each state: which thread owns a lock,  *)
(* which states have a creation under way (on the throttle's list, in       *)
(* activate or in the timer's hands), which have a bridge or wait for the    *)
(* bridge's callback, and who is to report that the object is destroyed.        *)
(***************************************************************************)
EXTENDS Subscription, TLAPS

(* Only the thread in charge of a step can be at its label. *)
Roles ==
    \A t \in Threads :
        /\ pc[t] = "createBody" => t = Timer
        /\ pc[t] \in {"cbLock", "onDestroyFree"} => t = Bridge

(* cdl is kept across steps by activate alone, or by the user callback of   *)
(* an activation without a throttle; the timer owns the list from the pop   *)
(* of the action to the end of its callback, any other thread only while it *)
(* is in deactivate.                                                       *)
LockOwners ==
    /\ \A t \in Threads :
          /\ pc[t] = "dispatch" => cdl = t
          /\ t # Timer /\ tl = t => pc[t] = "deactBody"
    /\ pc[Timer] # "idle" => tl = Timer

(* A creation under way is what ACTIVATING means, and there is one only. *)
OneCreation ==
    /\ queued => state = "ACTIVATING"
    /\ \A t \in Threads :
          pc[t] = "dispatch" =>
              state = "ACTIVATING" /\ ~queued /\ pc[Timer] # "createBody"
    /\ pc[Timer] = "createBody" => state = "ACTIVATING" /\ ~queued
    /\ state = "ACTIVATING" /\ Kind # "basic" =>
          \/ queued
          \/ pc[Timer] = "createBody"
          \/ \E t \in Threads : pc[t] = "dispatch"

(* A thread that found no transport, and so holds no throttle, is looking   *)
(* at a subscription that is not set up.                                   *)
NoThrottleHeld ==
    /\ ~transport => state \in {"ALLOCATED", "DESTROYED", "DEALLOCATING", "DEALLOCATED"}
    /\ Kind # "basic" =>
          \A t \in Threads :
              pc[t] = "deactBody" /\ tl # t =>
                  state \in {"ALLOCATED", "DESTROYED", "DEALLOCATING", "DEALLOCATED"}

(* States in which the middleware still owes a callback. *)
Owing == {"DEACTIVATING", "REACTIVATING", "DESTROYING", "DEALLOCATING"}

(* The bridge lives while the subscription is ACTIVATED, and its callback   *)
(* is owed, once, from then to the end of the callback.                    *)
BridgeLife ==
    /\ bridge \/ listener => state = "ACTIVATED"
    /\ pending \in {0, 1}
    /\ pending = 1 => state \in Owing /\ pc[Bridge] # "cbLock"
    /\ pc[Bridge] = "cbLock" => state \in Owing
    /\ pc[Bridge] = "onDestroyFree" =>
          state = "DEALLOCATING" /\ pending = 0 /\ ~transport
    /\ Kind = "snapshot" => ~bridge /\ pending = 0 /\ pc[Bridge] # "cbLock"

(* What the subscription holds of its queue's count of open objects. *)
OpenObjects ==
    Kind # "snapshot" =>
        /\ state \in Quiet \cup {"ACTIVATING", "DEALLOCATED"} => open = 0
        /\ pc[Bridge] \in {"cbLock", "onDestroyFree"} => open = 0
        /\ state = "ACTIVATED" \/ pending = 1 => open = 1

(* onDestroy comes after the clean-up, and the object is left alone since.  *)
DestroyedOnce ==
    /\ notified => state \in {"DESTROYED", "DEALLOCATED"}
    /\ \A t \in Threads :
          pc[t] = "onDestroy" =>
              /\ state \in {"DESTROYED", "DEALLOCATED"}
              /\ ~transport /\ ~notified
              /\ \A u \in Threads \ {t} : pc[u] # "onDestroy"

LifecycleInv ==
    /\ TypeOK
    /\ Roles
    /\ LockOwners
    /\ OneCreation
    /\ NoThrottleHeld
    /\ BridgeLife
    /\ OpenObjects
    /\ DestroyedOnce

-----------------------------------------------------------------------------
(* The throttle's timer and the bridge have threads of their own. *)
LEMMA ThreadFacts == Timer \in Threads /\ Bridge \in Threads /\ Timer # Bridge
BY SubscriptionAssumption DEF Threads

(* The invariant holds initially. *)
LEMMA InitInv == Init => LifecycleInv
<1> SUFFICES ASSUME Init PROVE LifecycleInv
    OBVIOUS
<1> USE SubscriptionAssumption, ThreadFacts DEF Init
<1>1. TypeOK BY DEF TypeOK, States, Labels
<1>2. Roles BY DEF Roles
<1>3. LockOwners BY DEF LockOwners, Threads
<1>4. OneCreation BY DEF OneCreation
<1>5. NoThrottleHeld BY DEF NoThrottleHeld
<1>6. BridgeLife BY DEF BridgeLife
<1>7. OpenObjects BY DEF OpenObjects
<1>8. DestroyedOnce BY DEF DestroyedOnce
<1> QED BY <1>1, <1>2, <1>3, <1>4, <1>5, <1>6, <1>7, <1>8 DEF LifecycleInv

(* Every step keeps the invariant, one step of the proof for each action.   *)
LEMMA StepInv == LifecycleInv /\ [Next]_vars => LifecycleInv'
<1> SUFFICES ASSUME LifecycleInv, [Next]_vars PROVE LifecycleInv'
    OBVIOUS
<1> USE SubscriptionAssumption, ThreadFacts
        DEF LifecycleInv, GoTo, locks, resources, userView,
            Kind, Throttled, SyncBridge, BridgeMayFail
<1>1. ASSUME NEW t \in Threads, Setup(t) PROVE LifecycleInv'
  <2> USE <1>1 DEF Setup
  <2>1. TypeOK' BY DEF TypeOK, States, Labels, OpenObjects, BridgeLife
  <2>2. Roles' BY DEF Roles, TypeOK, MayCall, OthersOut
  <2>3. LockOwners' BY DEF LockOwners, Roles, TypeOK, MayCall, OthersOut
  <2>4. OneCreation' BY DEF OneCreation, LockOwners, NoThrottleHeld, Roles, TypeOK, MayCall, OthersOut
  <2>5. NoThrottleHeld' BY DEF NoThrottleHeld, LockOwners, BridgeLife, TypeOK, MayCall, OthersOut
  <2>6. BridgeLife' BY DEF BridgeLife, Roles, Owing, TypeOK, MayCall, OthersOut
  <2>7. OpenObjects' BY DEF OpenObjects, BridgeLife, Owing, Quiet, TypeOK, MayCall, OthersOut
  <2>8. DestroyedOnce'
    <3>1. \A u \in Threads : pc'[u] # "onDestroy" BY DEF MayCall, OthersOut
    <3>2. notified' => state' \in {"DESTROYED", "DEALLOCATED"} BY DEF DestroyedOnce
    <3> QED BY <3>1, <3>2 DEF DestroyedOnce
  <2> QED BY <2>1, <2>2, <2>3, <2>4, <2>5, <2>6, <2>7, <2>8
<1>2. ASSUME NEW t \in Threads, Activate(t) PROVE LifecycleInv'
  <2> USE <1>2 DEF Activate, ActivateInternal, Initialise
  <2>1. TypeOK'
    <3> USE DEF TypeOK
    <3>1. pc' \in [Threads -> Labels] BY DEF Labels
    <3>2. open' \in Nat /\ pending' \in Nat BY DEF OpenObjects, BridgeLife
    <3>3. state' \in States BY DEF States
    <3>4. bridge' \in BOOLEAN /\ listener' \in BOOLEAN OBVIOUS
    <3>5. queued' \in BOOLEAN /\ transport' \in BOOLEAN OBVIOUS
    <3>6. created' \in BOOLEAN /\ delivered' \in BOOLEAN /\ notified' \in BOOLEAN
      OBVIOUS
    <3>7. {cdl', tl'} \subseteq Threads \cup {NoThread} OBVIOUS
    <3>8. call' \in [Threads -> {"deactivate", "destroy"}] /\ config' \in Configs
      OBVIOUS
    <3> QED BY <3>1, <3>2, <3>3, <3>4, <3>5, <3>6, <3>7, <3>8
  <2>2. Roles' BY DEF Roles, TypeOK, MayCall, FreeFor
  <2>3. LockOwners' BY DEF LockOwners, Roles, TypeOK, MayCall, FreeFor
  <2>4. OneCreation' BY DEF OneCreation, LockOwners, NoThrottleHeld, Roles, TypeOK, MayCall, FreeFor
  <2>5. NoThrottleHeld' BY DEF NoThrottleHeld, LockOwners, BridgeLife, TypeOK, MayCall, FreeFor
  <2>6. BridgeLife' BY DEF BridgeLife, Roles, Owing, TypeOK, MayCall, FreeFor
  <2>7. OpenObjects'
    <3>1. CASE state = "DEACTIVATING"
      BY <3>1 DEF OpenObjects, Quiet
    <3>2. CASE state \in {"SETUP", "DEACTIVATED"}
      <4>1. pc'[Bridge] \notin {"cbLock", "onDestroyFree"}
        BY <3>2 DEF BridgeLife, Owing, TypeOK
      <4>2. Kind # "snapshot" => open = 0 /\ pending = 0
        BY <3>2 DEF OpenObjects, BridgeLife, Owing, Quiet
      <4> QED BY <3>2, <4>1, <4>2 DEF OpenObjects, Quiet
    <3> QED BY <3>1, <3>2
  <2>8. DestroyedOnce' BY DEF DestroyedOnce, BridgeLife, TypeOK, MayCall, FreeFor
  <2> QED BY <2>1, <2>2, <2>3, <2>4, <2>5, <2>6, <2>7, <2>8
<1>3. ASSUME NEW t \in Threads, CreateBasic(t) PROVE LifecycleInv'
  <2> USE <1>3 DEF CreateBasic
  <2>1. TypeOK'
    <3> USE DEF TypeOK
    <3>1. pc' \in [Threads -> Labels] BY DEF Labels
    <3>2. open' \in Nat /\ pending' \in Nat BY DEF OpenObjects, BridgeLife
    <3>3. state' \in States BY DEF States
    <3>4. bridge' \in BOOLEAN /\ listener' \in BOOLEAN OBVIOUS
    <3>5. queued' \in BOOLEAN /\ transport' \in BOOLEAN OBVIOUS
    <3>6. created' \in BOOLEAN /\ delivered' \in BOOLEAN /\ notified' \in BOOLEAN
      OBVIOUS
    <3>7. {cdl', tl'} \subseteq Threads \cup {NoThread} OBVIOUS
    <3>8. call' \in [Threads -> {"deactivate", "destroy"}] /\ config' \in Configs
      OBVIOUS
    <3> QED BY <3>1, <3>2, <3>3, <3>4, <3>5, <3>6, <3>7, <3>8
  <2>2. Roles' BY DEF Roles, TypeOK, MayCall, OthersOut
  <2>3. LockOwners' BY DEF LockOwners, Roles, TypeOK, MayCall, OthersOut
  <2>4. OneCreation' BY DEF OneCreation, LockOwners, NoThrottleHeld, Roles, TypeOK, MayCall, OthersOut
  <2>5. NoThrottleHeld' BY DEF NoThrottleHeld, LockOwners, BridgeLife, TypeOK, MayCall, OthersOut
  <2>6. BridgeLife' BY DEF BridgeLife, Roles, Owing, TypeOK, MayCall, OthersOut
  <2>7. OpenObjects'
    <3>1. pc'[Bridge] \notin {"cbLock", "onDestroyFree"} BY DEF TypeOK, MayCall, OthersOut
    <3>2. open = 0 /\ pending = 0 BY DEF OpenObjects, BridgeLife, Owing, Quiet
    <3> QED BY <3>1, <3>2 DEF OpenObjects, Quiet
  <2>8. DestroyedOnce' BY DEF DestroyedOnce, BridgeLife, TypeOK, MayCall, OthersOut
  <2> QED BY <2>1, <2>2, <2>3, <2>4, <2>5, <2>6, <2>7, <2>8
<1>4. ASSUME NEW t \in Threads, NEW from \in {"deactivate", "destroy"}, DeactivateCall(t, from) PROVE LifecycleInv'
  <2> USE <1>4 DEF DeactivateCall
  <2>1. TypeOK' BY DEF TypeOK, States, Labels, OpenObjects, BridgeLife
  <2>2. Roles' BY DEF Roles, TypeOK, MayCall
  <2>3. LockOwners' BY DEF LockOwners, Roles, TypeOK, MayCall
  <2>4. OneCreation' BY DEF OneCreation, LockOwners, NoThrottleHeld, Roles, TypeOK, MayCall
  <2>5. NoThrottleHeld' BY DEF NoThrottleHeld, LockOwners, BridgeLife, TypeOK, MayCall
  <2>6. BridgeLife' BY DEF BridgeLife, Roles, Owing, TypeOK, MayCall
  <2>7. OpenObjects' BY DEF OpenObjects, BridgeLife, Owing, Quiet, TypeOK, MayCall
  <2>8. DestroyedOnce' BY DEF DestroyedOnce, BridgeLife, TypeOK, MayCall
  <2> QED BY <2>1, <2>2, <2>3, <2>4, <2>5, <2>6, <2>7, <2>8
<1>5. ASSUME NEW t \in Threads, Deallocate(t) PROVE LifecycleInv'
  <2> USE <1>5 DEF Deallocate
  <2>1. TypeOK' BY DEF TypeOK, States, Labels, OpenObjects, BridgeLife
  <2>2. Roles' BY DEF Roles, TypeOK, MayCall, OtherCallsDone, FreeFor
  <2>3. LockOwners' BY DEF LockOwners, Roles, TypeOK, MayCall, OtherCallsDone, FreeFor
  <2>4. OneCreation' BY DEF OneCreation, LockOwners, NoThrottleHeld, Roles, TypeOK, MayCall, OtherCallsDone, FreeFor
  <2>5. NoThrottleHeld' BY DEF NoThrottleHeld, LockOwners, BridgeLife, TypeOK, MayCall, OtherCallsDone, FreeFor
  <2>6. BridgeLife' BY DEF BridgeLife, Roles, Owing, TypeOK, MayCall, OtherCallsDone, FreeFor
  <2>7. OpenObjects' BY DEF OpenObjects, BridgeLife, Owing, Quiet, TypeOK, MayCall, OtherCallsDone, FreeFor
  <2>8. DestroyedOnce' BY DEF DestroyedOnce, BridgeLife, TypeOK, MayCall, OtherCallsDone, FreeFor
  <2> QED BY <2>1, <2>2, <2>3, <2>4, <2>5, <2>6, <2>7, <2>8
<1>6. ASSUME NEW t \in Threads, Dispatch(t) PROVE LifecycleInv'
  <2> USE <1>6 DEF Dispatch
  <2>1. TypeOK' BY DEF TypeOK, States, Labels, OpenObjects, BridgeLife
  <2>2. Roles' BY DEF Roles, TypeOK, FreeFor
  <2>3. LockOwners' BY DEF LockOwners, Roles, TypeOK, FreeFor
  <2>4. OneCreation' BY DEF OneCreation, LockOwners, NoThrottleHeld, Roles, TypeOK, FreeFor
  <2>5. NoThrottleHeld' BY DEF NoThrottleHeld, LockOwners, BridgeLife, TypeOK, FreeFor
  <2>6. BridgeLife' BY DEF BridgeLife, Roles, Owing, TypeOK, FreeFor
  <2>7. OpenObjects' BY DEF OpenObjects, BridgeLife, Owing, Quiet, TypeOK, FreeFor
  <2>8. DestroyedOnce' BY DEF DestroyedOnce, BridgeLife, TypeOK, FreeFor
  <2> QED BY <2>1, <2>2, <2>3, <2>4, <2>5, <2>6, <2>7, <2>8
<1>7. ASSUME NEW t \in Threads, DeactivateLock(t) PROVE LifecycleInv'
  <2> USE <1>7 DEF DeactivateLock
  <2>1. TypeOK' BY DEF TypeOK, States, Labels, OpenObjects, BridgeLife
  <2>2. Roles' BY DEF Roles, TypeOK, FreeFor
  <2>3. LockOwners' BY DEF LockOwners, Roles, TypeOK, FreeFor
  <2>4. OneCreation' BY DEF OneCreation, LockOwners, NoThrottleHeld, Roles, TypeOK, FreeFor
  <2>5. NoThrottleHeld' BY DEF NoThrottleHeld, LockOwners, BridgeLife, TypeOK, FreeFor
  <2>6. BridgeLife' BY DEF BridgeLife, Roles, Owing, TypeOK, FreeFor
  <2>7. OpenObjects' BY DEF OpenObjects, BridgeLife, Owing, Quiet, TypeOK, FreeFor
  <2>8. DestroyedOnce' BY DEF DestroyedOnce, BridgeLife, TypeOK, FreeFor
  <2> QED BY <2>1, <2>2, <2>3, <2>4, <2>5, <2>6, <2>7, <2>8
<1>8. ASSUME NEW t \in Threads, DeactivateBody(t) PROVE LifecycleInv'
  <2> USE <1>8 DEF DeactivateBody, DeactivateInternal, ReturnPoint
  <2>1. TypeOK'
    <3> USE DEF TypeOK
    <3>1. pc' \in [Threads -> Labels] BY DEF Labels
    <3>2. open' \in Nat /\ pending' \in Nat BY DEF OpenObjects, BridgeLife
    <3>3. state' \in States BY DEF States
    <3>4. bridge' \in BOOLEAN /\ listener' \in BOOLEAN OBVIOUS
    <3>5. queued' \in BOOLEAN /\ transport' \in BOOLEAN OBVIOUS
    <3>6. created' \in BOOLEAN /\ delivered' \in BOOLEAN /\ notified' \in BOOLEAN
      OBVIOUS
    <3>7. {cdl', tl'} \subseteq Threads \cup {NoThread} OBVIOUS
    <3>8. call' \in [Threads -> {"deactivate", "destroy"}] /\ config' \in Configs
      OBVIOUS
    <3> QED BY <3>1, <3>2, <3>3, <3>4, <3>5, <3>6, <3>7, <3>8
  <2>2. Roles' BY DEF Roles, TypeOK, FreeFor, Alive
  <2>3. LockOwners' BY DEF LockOwners, Roles, TypeOK, FreeFor, Alive
  <2>4. OneCreation' BY DEF OneCreation, LockOwners, NoThrottleHeld, Roles, TypeOK, FreeFor, Alive
  <2>5. NoThrottleHeld' BY DEF NoThrottleHeld, LockOwners, BridgeLife, TypeOK, FreeFor, Alive
  <2>6. BridgeLife' BY DEF BridgeLife, Roles, Owing, TypeOK, FreeFor, Alive
  <2>7. OpenObjects' BY DEF OpenObjects, BridgeLife, Owing, Quiet, TypeOK, FreeFor, Alive
  <2>8. DestroyedOnce' BY DEF DestroyedOnce, BridgeLife, TypeOK, FreeFor, Alive
  <2> QED BY <2>1, <2>2, <2>3, <2>4, <2>5, <2>6, <2>7, <2>8
<1>9. ASSUME NEW t \in Threads, DestroyBody(t) PROVE LifecycleInv'
  <2> USE <1>9 DEF DestroyBody, Cleanup, ReturnPoint
  <2>1. TypeOK' BY DEF TypeOK, States, Labels, OpenObjects, BridgeLife
  <2>2. Roles' BY DEF Roles, TypeOK, FreeFor, Alive
  <2>3. LockOwners' BY DEF LockOwners, Roles, TypeOK, FreeFor, Alive
  <2>4. OneCreation' BY DEF OneCreation, LockOwners, NoThrottleHeld, Roles, TypeOK, FreeFor, Alive
  <2>5. NoThrottleHeld' BY DEF NoThrottleHeld, LockOwners, BridgeLife, TypeOK, FreeFor, Alive
  <2>6. BridgeLife' BY DEF BridgeLife, Roles, Owing, TypeOK, FreeFor, Alive
  <2>7. OpenObjects' BY DEF OpenObjects, BridgeLife, Owing, Quiet, TypeOK, FreeFor, Alive
  <2>8. DestroyedOnce' BY DEF DestroyedOnce, BridgeLife, TypeOK, FreeFor, Alive
  <2> QED BY <2>1, <2>2, <2>3, <2>4, <2>5, <2>6, <2>7, <2>8
<1>10. ASSUME NEW t \in Threads, OnCreate(t) PROVE LifecycleInv'
  <2> USE <1>10 DEF OnCreate
  <2>1. TypeOK' BY DEF TypeOK, States, Labels, OpenObjects, BridgeLife
  <2>2. Roles' BY DEF Roles, TypeOK, Alive
  <2>3. LockOwners' BY DEF LockOwners, Roles, TypeOK, Alive
  <2>4. OneCreation' BY DEF OneCreation, LockOwners, NoThrottleHeld, Roles, TypeOK, Alive
  <2>5. NoThrottleHeld' BY DEF NoThrottleHeld, LockOwners, BridgeLife, TypeOK, Alive
  <2>6. BridgeLife' BY DEF BridgeLife, Roles, Owing, TypeOK, Alive
  <2>7. OpenObjects' BY DEF OpenObjects, BridgeLife, Owing, Quiet, TypeOK, Alive
  <2>8. DestroyedOnce' BY DEF DestroyedOnce, BridgeLife, TypeOK, Alive
  <2> QED BY <2>1, <2>2, <2>3, <2>4, <2>5, <2>6, <2>7, <2>8
<1>11. ASSUME NEW t \in Threads, OnDestroy(t) PROVE LifecycleInv'
  <2> USE <1>11 DEF OnDestroy, ReturnPoint
  <2>1. TypeOK' BY DEF TypeOK, States, Labels, OpenObjects, BridgeLife
  <2>2. Roles' BY DEF Roles, TypeOK, Alive
  <2>3. LockOwners' BY DEF LockOwners, Roles, TypeOK, Alive
  <2>4. OneCreation' BY DEF OneCreation, LockOwners, NoThrottleHeld, Roles, TypeOK, Alive
  <2>5. NoThrottleHeld' BY DEF NoThrottleHeld, LockOwners, BridgeLife, TypeOK, Alive
  <2>6. BridgeLife' BY DEF BridgeLife, Roles, Owing, TypeOK, Alive
  <2>7. OpenObjects' BY DEF OpenObjects, BridgeLife, Owing, Quiet, TypeOK, Alive
  <2>8. DestroyedOnce' BY DEF DestroyedOnce, BridgeLife, TypeOK, Alive
  <2> QED BY <2>1, <2>2, <2>3, <2>4, <2>5, <2>6, <2>7, <2>8
<1>12. ASSUME NEW t \in Threads, CallbackReturn(t) PROVE LifecycleInv'
  <2> USE <1>12 DEF CallbackReturn
  <2>1. TypeOK' BY DEF TypeOK, States, Labels, OpenObjects, BridgeLife
  <2>2. Roles' BY DEF Roles, TypeOK
  <2>3. LockOwners' BY DEF LockOwners, Roles, TypeOK
  <2>4. OneCreation' BY DEF OneCreation, LockOwners, NoThrottleHeld, Roles, TypeOK
  <2>5. NoThrottleHeld' BY DEF NoThrottleHeld, LockOwners, BridgeLife, TypeOK
  <2>6. BridgeLife' BY DEF BridgeLife, Roles, Owing, TypeOK
  <2>7. OpenObjects' BY DEF OpenObjects, BridgeLife, Owing, Quiet, TypeOK
  <2>8. DestroyedOnce' BY DEF DestroyedOnce, BridgeLife, TypeOK
  <2> QED BY <2>1, <2>2, <2>3, <2>4, <2>5, <2>6, <2>7, <2>8
<1>13. ASSUME TimerPop PROVE LifecycleInv'
  <2> USE <1>13 DEF TimerPop
  <2>1. TypeOK' BY DEF TypeOK, States, Labels, OpenObjects, BridgeLife
  <2>2. Roles' BY DEF Roles, TypeOK
  <2>3. LockOwners' BY DEF LockOwners, Roles, TypeOK
  <2>4. OneCreation' BY DEF OneCreation, LockOwners, NoThrottleHeld, Roles, TypeOK
  <2>5. NoThrottleHeld' BY DEF NoThrottleHeld, LockOwners, BridgeLife, TypeOK
  <2>6. BridgeLife' BY DEF BridgeLife, Roles, Owing, TypeOK
  <2>7. OpenObjects' BY DEF OpenObjects, BridgeLife, Owing, Quiet, TypeOK
  <2>8. DestroyedOnce' BY DEF DestroyedOnce, BridgeLife, TypeOK
  <2> QED BY <2>1, <2>2, <2>3, <2>4, <2>5, <2>6, <2>7, <2>8
<1>14. ASSUME CompleteInitialisation PROVE LifecycleInv'
  <2> USE <1>14 DEF CompleteInitialisation, Initialise
  <2>1. TypeOK'
    <3> USE DEF TypeOK
    <3>1. pc' \in [Threads -> Labels] BY DEF Labels
    <3>2. open' \in Nat /\ pending' \in Nat BY DEF OpenObjects, BridgeLife
    <3>3. state' \in States BY DEF States
    <3>4. bridge' \in BOOLEAN /\ listener' \in BOOLEAN OBVIOUS
    <3>5. queued' \in BOOLEAN /\ transport' \in BOOLEAN OBVIOUS
    <3>6. created' \in BOOLEAN /\ delivered' \in BOOLEAN /\ notified' \in BOOLEAN
      OBVIOUS
    <3>7. {cdl', tl'} \subseteq Threads \cup {NoThread} OBVIOUS
    <3>8. call' \in [Threads -> {"deactivate", "destroy"}] /\ config' \in Configs
      OBVIOUS
    <3> QED BY <3>1, <3>2, <3>3, <3>4, <3>5, <3>6, <3>7, <3>8
  <2>2. Roles' BY DEF Roles, TypeOK, FreeFor, Alive
  <2>3. LockOwners' BY DEF LockOwners, Roles, TypeOK, FreeFor, Alive
  <2>4. OneCreation' BY DEF OneCreation, LockOwners, NoThrottleHeld, Roles, TypeOK, FreeFor, Alive
  <2>5. NoThrottleHeld' BY DEF NoThrottleHeld, LockOwners, BridgeLife, TypeOK, FreeFor, Alive
  <2>6. BridgeLife' BY DEF BridgeLife, Roles, Owing, TypeOK, FreeFor, Alive
  <2>7. OpenObjects'
    <3>1. state = "ACTIVATING" BY DEF OneCreation
    <3>2. pc'[Bridge] = pc[Bridge] BY DEF TypeOK
    <3> QED BY <3>1, <3>2 DEF OpenObjects, BridgeLife, Owing, Quiet, TypeOK
  <2>8. DestroyedOnce' BY DEF DestroyedOnce, BridgeLife, TypeOK, FreeFor, Alive
  <2> QED BY <2>1, <2>2, <2>3, <2>4, <2>5, <2>6, <2>7, <2>8
<1>15. ASSUME Message PROVE LifecycleInv'
  <2> USE <1>15 DEF Message
  <2>1. TypeOK' BY DEF TypeOK, States, Labels, OpenObjects, BridgeLife
  <2>2. Roles' BY DEF Roles, TypeOK
  <2>3. LockOwners' BY DEF LockOwners, Roles, TypeOK
  <2>4. OneCreation' BY DEF OneCreation, LockOwners, NoThrottleHeld, Roles, TypeOK
  <2>5. NoThrottleHeld' BY DEF NoThrottleHeld, LockOwners, BridgeLife, TypeOK
  <2>6. BridgeLife' BY DEF BridgeLife, Roles, Owing, TypeOK
  <2>7. OpenObjects' BY DEF OpenObjects, BridgeLife, Owing, Quiet, TypeOK
  <2>8. DestroyedOnce' BY DEF DestroyedOnce, BridgeLife, TypeOK
  <2> QED BY <2>1, <2>2, <2>3, <2>4, <2>5, <2>6, <2>7, <2>8
<1>16. ASSUME OnSubscriptionDestroyed PROVE LifecycleInv'
  <2> USE <1>16 DEF OnSubscriptionDestroyed
  <2>1. TypeOK' BY DEF TypeOK, States, Labels, OpenObjects, BridgeLife
  <2>2. Roles' BY DEF Roles, TypeOK, Alive
  <2>3. LockOwners' BY DEF LockOwners, Roles, TypeOK, Alive
  <2>4. OneCreation' BY DEF OneCreation, LockOwners, NoThrottleHeld, Roles, TypeOK, Alive
  <2>5. NoThrottleHeld' BY DEF NoThrottleHeld, LockOwners, BridgeLife, TypeOK, Alive
  <2>6. BridgeLife' BY DEF BridgeLife, Roles, Owing, TypeOK, Alive
  <2>7. OpenObjects' BY DEF OpenObjects, BridgeLife, Owing, Quiet, TypeOK, Alive
  <2>8. DestroyedOnce' BY DEF DestroyedOnce, BridgeLife, TypeOK, Alive
  <2> QED BY <2>1, <2>2, <2>3, <2>4, <2>5, <2>6, <2>7, <2>8
<1>17. ASSUME SubscriptionDestroyedBody PROVE LifecycleInv'
  <2> USE <1>17 DEF SubscriptionDestroyedBody, ActivateInternal, Initialise, Cleanup
  <2>1. TypeOK'
    <3> USE DEF TypeOK
    <3>1. pc' \in [Threads -> Labels] BY DEF Labels
    <3>2. open' \in Nat /\ pending' \in Nat BY DEF OpenObjects, BridgeLife
    <3>3. state' \in States BY DEF States
    <3>4. bridge' \in BOOLEAN /\ listener' \in BOOLEAN OBVIOUS
    <3>5. queued' \in BOOLEAN /\ transport' \in BOOLEAN OBVIOUS
    <3>6. created' \in BOOLEAN /\ delivered' \in BOOLEAN /\ notified' \in BOOLEAN
      OBVIOUS
    <3>7. {cdl', tl'} \subseteq Threads \cup {NoThread} OBVIOUS
    <3>8. call' \in [Threads -> {"deactivate", "destroy"}] /\ config' \in Configs
      OBVIOUS
    <3> QED BY <3>1, <3>2, <3>3, <3>4, <3>5, <3>6, <3>7, <3>8
  <2>2. Roles' BY DEF Roles, TypeOK, FreeFor, Alive
  <2>3. LockOwners' BY DEF LockOwners, Roles, TypeOK, FreeFor, Alive
  <2>4. OneCreation' BY DEF OneCreation, LockOwners, NoThrottleHeld, Roles, TypeOK, FreeFor, Alive
  <2>5. NoThrottleHeld' BY DEF NoThrottleHeld, LockOwners, BridgeLife, TypeOK, FreeFor, Alive
  <2>6. BridgeLife' BY DEF BridgeLife, Roles, Owing, TypeOK, FreeFor, Alive
  <2>7. OpenObjects' BY DEF OpenObjects, BridgeLife, Owing, Quiet, TypeOK, FreeFor, Alive
  <2>8. DestroyedOnce' BY DEF DestroyedOnce, BridgeLife, TypeOK, FreeFor, Alive
  <2> QED BY <2>1, <2>2, <2>3, <2>4, <2>5, <2>6, <2>7, <2>8
<1>18. ASSUME OnDestroyFree PROVE LifecycleInv'
  <2> USE <1>18 DEF OnDestroyFree
  <2>1. TypeOK' BY DEF TypeOK, States, Labels, OpenObjects, BridgeLife
  <2>2. Roles' BY DEF Roles, TypeOK, Alive
  <2>3. LockOwners' BY DEF LockOwners, Roles, TypeOK, Alive
  <2>4. OneCreation' BY DEF OneCreation, BridgeLife, TypeOK
  <2>5. NoThrottleHeld' BY DEF NoThrottleHeld, LockOwners, BridgeLife, TypeOK, Alive
  <2>6. BridgeLife' BY DEF BridgeLife, Roles, Owing, TypeOK, Alive
  <2>7. OpenObjects' BY DEF OpenObjects, BridgeLife, Owing, Quiet, TypeOK, Alive
  <2>8. DestroyedOnce' BY DEF DestroyedOnce, BridgeLife, TypeOK, Alive
  <2> QED BY <2>1, <2>2, <2>3, <2>4, <2>5, <2>6, <2>7, <2>8
<1>19. CASE UNCHANGED vars
  <2> USE <1>19 DEF vars
  <2>1. TypeOK' BY DEF TypeOK, States, Labels, OpenObjects, BridgeLife
  <2>2. Roles' BY DEF Roles, TypeOK
  <2>3. LockOwners' BY DEF LockOwners, Roles, TypeOK
  <2>4. OneCreation' BY DEF OneCreation, LockOwners, NoThrottleHeld, Roles, TypeOK
  <2>5. NoThrottleHeld' BY DEF NoThrottleHeld, LockOwners, BridgeLife, TypeOK
  <2>6. BridgeLife' BY DEF BridgeLife, Roles, Owing, TypeOK
  <2>7. OpenObjects' BY DEF OpenObjects, BridgeLife, Owing, Quiet, TypeOK
  <2>8. DestroyedOnce' BY DEF DestroyedOnce, BridgeLife, TypeOK
  <2> QED BY <2>1, <2>2, <2>3, <2>4, <2>5, <2>6, <2>7, <2>8
<1> QED BY <1>1, <1>2, <1>3, <1>4, <1>5, <1>6, <1>7, <1>8, <1>9, <1>10, <1>11, <1>12, <1>13, <1>14, <1>15, <1>16, <1>17, <1>18, <1>19
   DEF Next, Start, Continue, TimerStep, BridgeStep, Deactivate, Destroy
(* The lifecycle invariant holds in every reachable state. *)
THEOREM LifecycleInvariant == Spec => []LifecycleInv
BY InitInv, StepInv, PTL DEF Spec

(* Type correctness; the part that is not obvious is that the counts of     *)
(* open objects and of callbacks to come never become negative.             *)
THEOREM TypeCorrectness == Spec => []TypeOK
<1>1. LifecycleInv => TypeOK BY DEF LifecycleInv
<1> QED BY <1>1, LifecycleInvariant, PTL

(* mamaSubscription_destroy and mamaSubscription_deallocate free at once an *)
(* object whose state says that it is not active: nothing refers to it.     *)
THEOREM QuietSubscriptions == Spec => []QuietMeansNothingOutstanding
<1>1. LifecycleInv => QuietMeansNothingOutstanding
  <2> SUFFICES ASSUME LifecycleInv, state \in Quiet
               PROVE  /\ ~queued /\ ~bridge /\ ~listener /\ pending = 0
                      /\ \A t \in Threads : pc[t] \notin {"dispatch", "createBody", "cbLock"}
      BY DEF QuietMeansNothingOutstanding
  <2>1. ~queued /\ ~bridge /\ ~listener /\ pending = 0
    BY DEF LifecycleInv, OneCreation, BridgeLife, Owing, Quiet
  <2>2. \A t \in Threads : pc[t] \notin {"dispatch", "createBody", "cbLock"}
    BY DEF LifecycleInv, Roles, OneCreation, BridgeLife, Owing, Quiet
  <2> QED BY <2>1, <2>2
<1> QED BY <1>1, LifecycleInvariant, PTL

(* The action that mamaSubscription_deactivate removes from the throttle is *)
(* on its list, and the list is locked by the caller.                      *)
THEOREM RemovableAction == Spec => []ActionCanBeRemoved
<1>1. LifecycleInv => ActionCanBeRemoved
  <2> SUFFICES ASSUME LifecycleInv, NEW t \in Threads, pc[t] = "deactBody",
                      FreeFor(cdl, t), state = "ACTIVATING", Kind # "basic"
               PROVE  queued /\ tl = t
      BY DEF ActionCanBeRemoved
  <2>1. tl = t BY DEF LifecycleInv, NoThrottleHeld
  <2>2. pc[Timer] # "createBody" BY <2>1 DEF LifecycleInv, LockOwners
  <2>3. \A u \in Threads : pc[u] # "dispatch"
    BY SubscriptionAssumption DEF LifecycleInv, LockOwners, FreeFor
  <2> QED BY <2>1, <2>2, <2>3 DEF LifecycleInv, OneCreation
<1> QED BY <1>1, LifecycleInvariant, PTL

(* mamaSubscriptionImpl_deallocate, called by the application or by the       *)
(* bridge's callback, whatever the library's threads are doing: nobody comes     *)
(* for the object afterwards, or frees it again.                             *)
THEOREM UseAfterFree == Spec => []NoUseAfterFree
<1>1. LifecycleInv => NoUseAfterFree
  BY ThreadFacts DEF LifecycleInv, NoUseAfterFree, Alive, Roles, OneCreation, BridgeLife, Owing
<1> QED BY <1>1, LifecycleInvariant, PTL

(* mamaSubscriptionImpl_invokeDestroyedCallback runs once per setup, on one *)
(* thread, after mamaSubscription_cleanup.                                 *)
THEOREM SingleNotification == Spec => []OneDestroyNotification
<1>1. LifecycleInv => OneDestroyNotification
  BY ThreadFacts DEF LifecycleInv, OneDestroyNotification, DestroyedOnce,
         BridgeLife, Roles
<1> QED BY <1>1, LifecycleInvariant, PTL

(* A subscription that is not active and is not a snapshot keeps no queue   *)
(* from being destroyed.                                                   *)
THEOREM ReleasedQueue == Spec => []QueueCanBeDestroyed
<1>1. LifecycleInv => QueueCanBeDestroyed
  BY DEF LifecycleInv, QueueCanBeDestroyed, OpenObjects
<1> QED BY <1>1, LifecycleInvariant, PTL
=============================================================================
