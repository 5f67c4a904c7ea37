------------------------------ MODULE Throttle ------------------------------
(***************************************************************************)
(* wombatThrottle (mama/c_cpp/src/c/throttle.c): a list of actions that a   *)
(* timer runs at a limited rate.                                           *)
(*                                                                         *)
(* Application threads dispatch and remove actions and change the rate.     *)
(* The timer lives on the default event queue, so its callback runs on one  *)
(* thread, Timer; it is created by the first dispatch and destroyed by the  *)
(* callback that finds the list empty.  The list's lock is held while an    *)
(* action runs.  What happens under mTimerLock is a single step, since      *)
(* nothing else is acquired under it; mRate, mInterval, the quota and the   *)
(* list's size are read and written without a lock, each in a step of its   *)
(* own.                                                                    *)
(*                                                                         *)
(* Rates are in tenths of a message per second and intervals in tenths of   *)
(* a second, so that rate * interval \div 100 messages are due per interval. *)
(***************************************************************************)
EXTENDS Selection, SequencesExt, FiniteSetsExt

CONSTANTS
    App, Timer, NoThread, NoMsg,
    Msgs,           \* the actions, each dispatched at most once
    Immediate,      \* those dispatched with the immediate flag
    Rates,          \* what setRate is called with
    InitialRate,    \* the rate set by mamaTransport_allocate
    DestroyOverlap  \* destroy may overlap a timer callback or a dispatch

Threads == App \cup {Timer}

ASSUME ThrottleAssumption ==
    /\ Timer \notin App /\ NoThread \notin Threads
    /\ IsFiniteSet(Msgs) /\ NoMsg \notin Msgs /\ Immediate \subseteq Msgs
    /\ Rates \subseteq Nat /\ InitialRate \in Rates \ {0}
    /\ DestroyOverlap \in BOOLEAN

Labels == {"idle",
           "setQuota",                                        \* in setRate
           "dispatchLock", "dispatchTimer", "dispatchPush",   \* in dispatch
           "drain", "drainPop", "size", "killTimer", "quota", "pop",   \* in timerCB
           "runDrain", "runQuota"}                            \* in an action

VARIABLES
    queue,      \* mMsgQueue
    rate,       \* mRate, 0 when the throttle is off
    interval,   \* mInterval
    quota,      \* mMessagesPerInterval
    sent,       \* mMsgsSentThisInterval
    timer,      \* 0 when mTimer is NULL, else the interval it was created with
    lock,       \* owner of the list's lock
    pc, arg,    \* where each thread is, and the action it dispatches
    fate,       \* what became of each action
    pushed,     \* the actions in the order they were pushed to the back
    burst,      \* actions run by the quota loop in this callback
    allow,      \* the largest quota since this callback began
    freed       \* destroy has freed the throttle

vars == <<queue, rate, interval, quota, sent, timer, lock, pc, arg, fate,
          pushed, burst, allow, freed>>
config == <<rate, interval, quota>>
cycle == <<sent, burst>>

Larger(m, n) == IF m < n THEN n ELSE m

(* mMessagesPerInterval for rate r, as computed by wombatThrottle_setRate. *)
Quota(r, i) == IF r < 100 THEN r \div 10 ELSE Larger(1, (r * i) \div 100)

(* Rates below 10 messages per second make the interval a whole second. *)
Interval(r, i) == IF r < 100 THEN 10 ELSE i

MaxQuota == Max({Quota(r, i) : r \in Rates, i \in {1, 10}})

Init ==
    /\ queue = <<>>
    /\ rate = InitialRate
    /\ interval = Interval(InitialRate, 1)
    /\ quota = Quota(InitialRate, 1)
    /\ sent = 0
    /\ timer = 0
    /\ lock = NoThread
    /\ pc = [t \in Threads |-> "idle"]
    /\ arg = [t \in Threads |-> NoMsg]
    /\ fate = [m \in Msgs |-> "new"]
    /\ pushed = <<>>
    /\ burst = 0
    /\ allow = quota
    /\ freed = FALSE

GoTo(t, label) == pc' = [pc EXCEPT ![t] = label]

Running == pc[Timer] \in {"runDrain", "runQuota"}

Queued == {m \in Msgs : fate[m] = "queued"}

-----------------------------------------------------------------------------
(* wombatThrottle_setRate: mRate first, the quota computed from it later.   *)
SetRate(t, r) ==
    /\ ~freed
    /\ pc[t] = "idle"
    /\ rate' = r
    /\ GoTo(t, IF r = 0 THEN "idle" ELSE "setQuota")
    /\ UNCHANGED <<queue, interval, quota, sent, timer, lock, arg, fate, pushed,
                   burst, allow, freed>>

SetQuota(t) ==
    /\ pc[t] = "setQuota"
    /\ interval' = IF rate = 0 THEN interval ELSE Interval(rate, interval)
    /\ quota' = IF rate = 0 THEN quota ELSE Quota(rate, interval')
    /\ allow' = Larger(allow, quota')
    /\ GoTo(t, "idle")
    /\ UNCHANGED <<queue, rate, sent, timer, lock, arg, fate, pushed, burst, freed>>

(* mamaTransport_create passes mama.throttle.interval to setInterval, which *)
(* does not compute the quota again; no action was dispatched before.       *)
SetInterval ==
    /\ \A m \in Msgs : fate[m] = "new"
    /\ interval' = 10
    /\ UNCHANGED <<queue, rate, quota, sent, timer, lock, pc, arg, fate, pushed,
                   burst, allow, freed>>

-----------------------------------------------------------------------------
(* wombatThrottle_dispatch. *)

(* list_push_front or list_push_back. *)
Push(m) ==
    /\ queue' = IF m \in Immediate THEN <<m>> \o queue ELSE Append(queue, m)
    /\ pushed' = IF m \in Immediate THEN pushed ELSE Append(pushed, m)
    /\ fate' = [fate EXCEPT ![m] = "queued"]

(* mRate is read without a lock; a throttle that is off runs the action in  *)
(* the caller's thread.                                                    *)
DispatchCall(t, m) ==
    /\ ~freed
    /\ t \in App /\ pc[t] = "idle"
    /\ fate[m] = "new"
    /\ IF rate = 0
       THEN fate' = [fate EXCEPT ![m] = "ran"] /\ UNCHANGED <<pc, arg>>
       ELSE /\ GoTo(t, "dispatchLock")
            /\ arg' = [arg EXCEPT ![t] = m]
            /\ fate' = [fate EXCEPT ![m] = "calling"]
    /\ UNCHANGED <<queue, config, cycle, timer, lock, pushed, allow, freed>>

DispatchLock(t) ==
    /\ pc[t] = "dispatchLock"
    /\ lock = NoThread
    /\ lock' = t
    /\ GoTo(t, "dispatchTimer")
    /\ UNCHANGED <<queue, config, cycle, timer, arg, fate, pushed, allow, freed>>

(* The timer is created under mTimerLock if there is none. *)
DispatchTimer(t) ==
    /\ pc[t] = "dispatchTimer"
    /\ timer' = IF timer = 0 THEN interval ELSE timer
    /\ GoTo(t, "dispatchPush")
    /\ UNCHANGED <<queue, config, cycle, lock, arg, fate, pushed, allow, freed>>

(* Mutant: the lock is kept when the action could not be allocated. *)
DispatchPushKeepsLock(t) ==
    /\ pc[t] = "dispatchPush"
    /\ \/ Push(arg[t]) /\ lock' = NoThread
       \/ fate' = [fate EXCEPT ![arg[t]] = "failed"] /\ UNCHANGED <<queue, pushed, lock>>
    /\ arg' = [arg EXCEPT ![t] = NoMsg]
    /\ GoTo(t, "idle")
    /\ UNCHANGED <<config, cycle, timer, allow, freed>>

(* The action is pushed, unless it could not be allocated. *)
DispatchPush(t) ==
    /\ pc[t] = "dispatchPush"
    /\ \/ Push(arg[t])
       \/ fate' = [fate EXCEPT ![arg[t]] = "failed"] /\ UNCHANGED <<queue, pushed>>
    /\ lock' = NoThread
    /\ arg' = [arg EXCEPT ![t] = NoMsg]
    /\ GoTo(t, "idle")
    /\ UNCHANGED <<config, cycle, timer, allow, freed>>

(* A running action dispatches another one.  The list's lock is recursive   *)
(* and already held, so the whole call is one step.                        *)
NestedDispatch(m) ==
    /\ Running
    /\ fate[m] = "new"
    /\ IF rate = 0
       THEN fate' = [fate EXCEPT ![m] = "ran"] /\ UNCHANGED <<queue, pushed, timer>>
       ELSE Push(m) /\ timer' = IF timer = 0 THEN interval ELSE timer
    /\ UNCHANGED <<config, cycle, lock, pc, arg, allow, freed>>

(* removeAction, removeMessagesForOwner and removeMessagesFromList remove   *)
(* queued actions S under the list's lock.                                 *)
RemoveMessages(t, S) ==
    /\ ~freed
    /\ \/ t \in App /\ pc[t] = "idle" /\ lock = NoThread
       \/ t = Timer /\ Running
    /\ S # {} /\ S \subseteq Queued
    /\ queue' = At(queue, {i \in DOMAIN queue : queue[i] \notin S})
    /\ fate' = [m \in Msgs |-> IF m \in S THEN "removed" ELSE fate[m]]
    /\ UNCHANGED <<config, cycle, timer, lock, pc, arg, pushed, allow, freed>>

-----------------------------------------------------------------------------
(* wombatThrottle_timerCB. *)

Fire ==
    /\ timer # 0
    /\ pc[Timer] = "idle"
    /\ GoTo(Timer, "drain")
    /\ burst' = 0
    /\ allow' = quota
    /\ UNCHANGED <<queue, config, sent, timer, lock, arg, fate, pushed, freed>>

(* Mutant: the newest action is taken. *)
PopNewest(label) ==
    /\ fate' = [fate EXCEPT ![Last(queue)] = "ran"]
    /\ queue' = Front(queue)
    /\ lock' = Timer
    /\ GoTo(Timer, label)

(* wombatThrottle_sendQueuedMessage of a list that is not empty: the lock   *)
(* is kept while the action runs.                                          *)
Pop(label) ==
    /\ fate' = [fate EXCEPT ![Head(queue)] = "ran"]
    /\ queue' = Tail(queue)
    /\ lock' = Timer
    /\ GoTo(Timer, label)

(* While the throttle is off everything on the list is run: mRate is read   *)
(* before the list's lock is taken, so one action more runs after it is set. *)
Drain ==
    /\ pc[Timer] = "drain"
    /\ GoTo(Timer, IF rate = 0 THEN "drainPop" ELSE "size")
    /\ UNCHANGED <<queue, config, cycle, timer, lock, arg, fate, pushed, allow, freed>>

DrainPop ==
    /\ pc[Timer] = "drainPop"
    /\ lock = NoThread
    /\ IF queue = <<>>
       THEN GoTo(Timer, "size") /\ UNCHANGED <<queue, lock, fate>>
       ELSE Pop("runDrain")
    /\ UNCHANGED <<config, cycle, timer, arg, pushed, allow, freed>>

(* A new interval begins; list_size is read without the lock. *)
Size ==
    /\ pc[Timer] = "size"
    /\ sent' = 0
    /\ GoTo(Timer, IF queue = <<>> THEN "killTimer" ELSE "quota")
    /\ UNCHANGED <<queue, config, burst, timer, lock, arg, fate, pushed, allow, freed>>

(* Mutant: the callback returns after it destroyed the timer. *)
KillTimerReturns ==
    /\ pc[Timer] = "killTimer"
    /\ timer' = 0
    /\ GoTo(Timer, "idle")
    /\ UNCHANGED <<queue, config, cycle, lock, arg, fate, pushed, allow, freed>>

KillTimer ==
    /\ pc[Timer] = "killTimer"
    /\ timer' = 0
    /\ GoTo(Timer, "quota")
    /\ UNCHANGED <<queue, config, cycle, lock, arg, fate, pushed, allow, freed>>

(* Mutant: one action too many. *)
CheckQuotaOffByOne ==
    /\ pc[Timer] = "quota"
    /\ sent' = sent + 1
    /\ GoTo(Timer, IF sent <= quota THEN "pop" ELSE "idle")
    /\ UNCHANGED <<queue, config, burst, timer, lock, arg, fate, pushed, allow, freed>>

(* wombatThrottle_dispatchMessagesUntilQuota: the condition of the loop. *)
CheckQuota ==
    /\ pc[Timer] = "quota"
    /\ sent' = sent + 1
    /\ GoTo(Timer, IF sent < quota THEN "pop" ELSE "idle")
    /\ UNCHANGED <<queue, config, burst, timer, lock, arg, fate, pushed, allow, freed>>

(* Its body: an empty list ends the callback. *)
SendQueuedMessage ==
    /\ pc[Timer] = "pop"
    /\ lock = NoThread
    /\ IF queue = <<>>
       THEN GoTo(Timer, "idle") /\ UNCHANGED <<queue, lock, fate, burst>>
       ELSE Pop("runQuota") /\ burst' = burst + 1
    /\ UNCHANGED <<config, sent, timer, arg, pushed, allow, freed>>

(* The action returns. *)
RunEnd ==
    /\ Running
    /\ lock' = NoThread
    /\ GoTo(Timer, IF pc[Timer] = "runDrain" THEN "drain" ELSE "quota")
    /\ UNCHANGED <<queue, config, cycle, timer, arg, fate, pushed, allow, freed>>

(* wombatThrottle_destroy, called by mamaTransport_destroy. *)
Destroy(t) ==
    /\ ~freed
    /\ t \in App /\ pc[t] = "idle"
    /\ DestroyOverlap \/ \A u \in Threads : pc[u] = "idle"
    /\ timer' = 0
    /\ queue' = <<>>
    /\ fate' = [m \in Msgs |-> IF fate[m] = "queued" THEN "removed" ELSE fate[m]]
    /\ freed' = TRUE
    /\ UNCHANGED <<config, cycle, lock, pc, arg, pushed, allow>>

-----------------------------------------------------------------------------
Call(t) ==
    \/ \E r \in Rates : SetRate(t, r)
    \/ \E m \in Msgs : DispatchCall(t, m)
    \/ \E S \in SUBSET Msgs : RemoveMessages(t, S)
    \/ Destroy(t)

Continue(t) ==
    SetQuota(t) \/ DispatchLock(t) \/ DispatchTimer(t) \/ DispatchPush(t)

Callback ==
    \/ Fire \/ Drain \/ DrainPop \/ Size \/ KillTimer
    \/ CheckQuota \/ SendQueuedMessage \/ RunEnd

Next ==
    \/ \E t \in App : Call(t) \/ Continue(t)
    \/ \E S \in SUBSET Msgs : RemoveMessages(Timer, S)
    \/ \E m \in Msgs : NestedDispatch(m)
    \/ Callback
    \/ SetInterval

(* Threads in the library keep running and get the list's lock, which is    *)
(* released again and again; a timer that exists fires.                    *)
Fairness ==
    /\ \A t \in App : SF_vars(Continue(t))
    /\ SF_vars(Callback)

Spec == Init /\ [][Next]_vars /\ Fairness

-----------------------------------------------------------------------------
TypeOK ==
    /\ queue \in Seq(Msgs)
    /\ rate \in Rates
    /\ interval \in {1, 10}
    /\ quota \in 0 .. MaxQuota
    /\ sent \in 0 .. MaxQuota + 1
    /\ timer \in {0, 1, 10}
    /\ lock \in Threads \cup {NoThread}
    /\ pc \in [Threads -> Labels]
    /\ arg \in [Threads -> Msgs \cup {NoMsg}]
    /\ fate \in [Msgs -> {"new", "calling", "queued", "ran", "removed", "failed"}]
    /\ pushed \in Seq(Msgs)
    /\ burst \in Nat
    /\ allow \in 0 .. MaxQuota
    /\ freed \in BOOLEAN

(* Actions that were not dispatched as immediate run in the order in which  *)
(* they were put on the list: none runs while an earlier one still waits.   *)
FifoOrder ==
    \A i, j \in DOMAIN pushed :
        i < j /\ fate[pushed[j]] = "ran" => fate[pushed[i]] \in {"ran", "removed"}

(* One timer callback runs no more throttled actions than the quota allows, *)
(* whatever rates are set meanwhile and however many timers come and go.    *)
BurstWithinQuota == burst <= allow

MinQuota == Min({Quota(r, i) : r \in Rates \ {0}, i \in {1, 10}})

Stranded == queue # <<>> /\ timer = 0 /\ pc[Timer] = "idle"

(* The callback that destroys the timer races with dispatch, which creates   *)
(* it.  Actions are left on the list without a timer only if that callback   *)
(* itself ran a whole quota of actions that were dispatched meanwhile.       *)
StrandedOnlyPastQuota == Stranded => burst >= MinQuota

(* Every action put on the list is run or removed, if it is not stranded. *)
RunsUnlessStranded ==
    \A m \in Msgs : fate[m] = "queued" ~> fate[m] # "queued" \/ Stranded

(* Every action put on the list is run or removed. *)
QueuedMessageRuns == \A m \in Msgs : fate[m] = "queued" ~> fate[m] # "queued"

(* "processes messages at a specified rate (msgs/sec)" (throttle.h): with   *)
(* the timer's interval and the quota, the pace is the rate, to within one  *)
(* message per interval.                                                   *)
PaceMatchesRate ==
    (rate # 0 /\ timer # 0 /\ \A t \in App : pc[t] # "setQuota") =>
        quota * 100 - rate * timer \in -100 .. 100

(* "destroy () waits for the dispatchThread to complete its current cycle   *)
(* before killing it" (throttle.h): no thread is inside a freed throttle.   *)
NoUseAfterDestroy == freed => \A t \in Threads : pc[t] = "idle"
=============================================================================
