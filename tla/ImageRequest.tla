---------------------------- MODULE ImageRequest ----------------------------
(***************************************************************************)
(* Requests for images (mama/c_cpp/src/c/imagerequest.c) and the destroy    *)
(* handle (common/c_cpp/src/c/destroyHandle.c) that their callbacks hold.   *)
(*                                                                         *)
(* The image requests of several subscriptions share a throttle.  A request *)
(* is sent, by the throttle or at once, with a reply timer; it is answered   *)
(* in Parts messages, sent again when the timer ticks, and given up after   *)
(* the last retry.  Three threads meet:                                     *)
(*   the queue's thread runs the callbacks, the check that asks for a recap  *)
(*   and destroy (mama/subscription.h asks for that); pc is where it is;     *)
(*   the throttle's timer runs queued actions;                              *)
(*   an application thread deactivates, if DeactivateAnywhere.              *)
(* Everything else is done under the throttle's lock and is one step.       *)
(***************************************************************************)
EXTENDS Selection, SequencesExt

CONSTANTS
    Requests, NoRequest,
    Retries,             \* mRetries
    Parts,               \* messages that make up one image
    DeactivateAnywhere,  \* deactivate may be called from any thread
    MaxSends             \* bound: calls of sendRequest

ASSUME ImageRequestAssumption ==
    /\ NoRequest \notin Requests
    /\ DeactivateAnywhere \in BOOLEAN
    /\ Retries \in Nat /\ Parts \in Nat \ {0} /\ MaxSends \in Nat

VARIABLES
    req,     \* the requests, see Request
    queue,   \* the throttle's queue: list element and owner, first to go first
    free,    \* free elements of that list, last freed first
    fresh,   \* elements allocated so far
    pc,      \* where the queue's thread is, and in which request
    sends,
    stolen,    \* history: requests without a timer whose action another took back
    overdrawn  \* history: requests that took a message of an image before the last

vars == <<req, queue, free, fresh, pc, sends, stolen, overdrawn>>

Labels == {"idle", "send", "timeout", "retry", "giveUp"}

Request ==
    [live    : BOOLEAN,                  \* the request has not been freed
     active  : BOOLEAN,                  \* its subscription is ACTIVATED
     waiting : BOOLEAN,                  \* mWaitingForResponse; mMsg is set
     inbox   : BOOLEAN,                  \* mP2PListener
     answers : Nat,                      \* messages on their way to the inbox
     image   : BOOLEAN,                  \* mImageCount > 0
     count   : Nat,                      \* mReqCount
     timer   : {"none", "young", "old"}, \* old: its event may be on the queue
     acts    : Seq(Nat \ {0}),           \* mPendingActions
     refs    : Int,                      \* m_numberReferences of the handle
     gone    : BOOLEAN,                  \* m_destroyed
     freed   : BOOLEAN]                  \* the handle has been freed

Idle == [at |-> "idle", of |-> NoRequest]

(* imageRequest_create. *)
Init ==
    /\ req = [r \in Requests |->
                [live |-> TRUE, active |-> TRUE, waiting |-> FALSE, inbox |-> TRUE,
                 answers |-> 0, image |-> FALSE, count |-> 0, timer |-> "none",
                 acts |-> <<>>, refs |-> 0, gone |-> FALSE, freed |-> FALSE]]
    /\ queue = <<>> /\ free = <<>> /\ fresh = 0
    /\ pc = Idle
    /\ sends = 0
    /\ stolen = {} /\ overdrawn = {}

-----------------------------------------------------------------------------
(* The handle: destroyHandle_incrementRefCount, _removeReference and         *)
(* _destroyOwner.                                                          *)

IncrementRefCount(q) == [q EXCEPT !.refs = @ + 1]

RemoveReference(q) == [q EXCEPT !.refs = @ - 1, !.freed = q.gone /\ q.refs = 1]

DestroyOwner(q) == [q EXCEPT !.gone = q.refs # 0, !.freed = q.refs = 0]

-----------------------------------------------------------------------------
(* The reply timer: one at a time. *)

StartReplyTimer(q) ==
    IF q.timer = "none" THEN IncrementRefCount([q EXCEPT !.timer = "young"]) ELSE q

(* imageRequestImpl_checkDestroyReplyTimer: a timer that may have ticked is  *)
(* left alone.                                                             *)
CheckDestroyReplyTimer(q) ==
    IF q.timer = "young" THEN RemoveReference([q EXCEPT !.timer = "none"]) ELSE q

(* Mutant: a request is sent without a timer. *)
SentWithoutTimer(q) == IF q.waiting THEN [q EXCEPT !.answers = @ + Parts] ELSE q

(* requestAction, without its element of mPendingActions. *)
Sent(q) == IF q.waiting THEN [StartReplyTimer(q) EXCEPT !.answers = @ + Parts] ELSE q

(* imageRequest_stopWaitForResponse, but for the throttle's queue.  The bridge *)
(* drops what comes for an inbox that was destroyed (qpid/transport.c).       *)
Stopped(q) ==
    [CheckDestroyReplyTimer(q) EXCEPT !.waiting = FALSE, !.inbox = FALSE, !.answers = 0]

-----------------------------------------------------------------------------
(* The throttle's queue. *)

Mine(r) == ToSet(req[r].acts)

(* Where those elements are on the throttle's list. *)
Held(r) == {i \in DOMAIN queue : queue[i].slot \in Mine(r)}

Slots(s) == [i \in DOMAIN s |-> s[i].slot]

(* Slot a comes before slot b in mPendingActions of r. *)
Earlier(r, a, b) ==
    \E k \in DOMAIN req[r].acts :
        req[r].acts[k] = a /\ \A l \in 1 .. k : req[r].acts[l] # b

(* The elements on the list in the order they are on the free list once      *)
(* list_free_element has put one after the other in front of it.            *)
Freed(r) ==
    {s \in SetToSeqs({queue[i].slot : i \in Held(r)}) :
        \A i, j \in DOMAIN s : i < j => Earlier(r, s[j], s[i])}

(* The requests that taking back the actions of r leaves without theirs. *)
Robbed(r) == {o \in Requests \ {r} :
                req[o].timer = "none" /\ \E i \in Held(r) : queue[i].owner = o}

(* Mutant: elements are freed while they are on the list. *)
TakeBackFreesOnly(r) ==
    /\ queue' = queue
    /\ \E s \in Freed(r) : free' = s \o free
    /\ stolen' = stolen

(* wombatThrottle_removeMessagesFromList: the elements that mPendingActions  *)
(* points to, whatever they are now.  mPendingActions keeps the pointers.   *)
TakeBack(r) ==
    /\ queue' = At(queue, DOMAIN queue \ Held(r))
    /\ \E s \in Freed(r) : free' = s \o free
    /\ stolen' = stolen \cup Robbed(r)

(* Mutant: stopping leaves the queued action to the throttle. *)
StopKeepsAction(r, q) ==
    /\ UNCHANGED <<queue, free, fresh, stolen>>
    /\ req' = [req EXCEPT ![r] = Stopped(q)]

(* The whole of imageRequest_stopWaitForResponse, for request r made q. *)
Stop(r, q) ==
    /\ TakeBack(r)
    /\ UNCHANGED fresh
    /\ req' = [req EXCEPT ![r] = Stopped(q)]

(* requestAction runs at once, for an initial request or while the throttle  *)
(* has no rate; wombatThrottle_dispatch puts it at the front of the queue    *)
(* otherwise.                                                              *)
Dispatch(r, q) ==
    \/ /\ req' = [req EXCEPT ![r] = Sent(q)]
       /\ UNCHANGED <<queue, free, fresh>>
    \/ /\ LET slot == IF free = <<>> THEN fresh + 1 ELSE Head(free)
          IN  /\ queue' = <<[slot |-> slot, owner |-> r]>> \o queue
              /\ req' = [req EXCEPT ![r] = [q EXCEPT !.acts = Append(@, slot)]]
       /\ free' = IF free = <<>> THEN free ELSE Tail(free)
       /\ fresh' = IF free = <<>> THEN fresh + 1 ELSE fresh

(* The throttle runs the first action of its queue. *)
RunAction ==
    /\ queue # <<>>
    /\ LET e == Head(queue)
           q == req[e.owner]
       IN  /\ q.live
           /\ req' = [req EXCEPT ![e.owner] =
                        Sent([q EXCEPT !.acts = RemoveFirst(@, e.slot)])]
           /\ free' = <<e.slot>> \o free
    /\ queue' = Tail(queue)
    /\ UNCHANGED <<fresh, pc, sends, stolen, overdrawn>>

-----------------------------------------------------------------------------
(* The queue's thread. *)

(* Mutant: the reference of the response is not counted. *)
SendUncounted(r) ==
    /\ pc = Idle /\ sends < MaxSends
    /\ req[r].active
    /\ req' = [req EXCEPT ![r].waiting = TRUE, ![r].count = 0, ![r].image = FALSE,
                          ![r].inbox = TRUE]
    /\ pc' = [at |-> "send", of |-> r]
    /\ sends' = sends + 1
    /\ stolen' = stolen \ {r}
    /\ UNCHANGED <<queue, free, fresh, overdrawn>>

(* imageRequest_sendRequest up to the locks. *)
Send(r) ==
    /\ pc = Idle /\ sends < MaxSends
    /\ req[r].active
    /\ req' = [req EXCEPT ![r] =
                 IncrementRefCount([@ EXCEPT !.waiting = TRUE, !.count = 0, !.image = FALSE,
                                             !.inbox = TRUE])]
    /\ pc' = [at |-> "send", of |-> r]
    /\ sends' = sends + 1
    /\ stolen' = stolen \ {r}
    /\ UNCHANGED <<queue, free, fresh, overdrawn>>

SendDispatch(r) ==
    /\ pc = [at |-> "send", of |-> r]
    /\ Dispatch(r, req[r])
    /\ pc' = Idle
    /\ UNCHANGED <<sends, stolen, overdrawn>>

(* imageRequestImpl_onInitialMessage: the last message of an image ends the  *)
(* wait (mamaSubscription_stopWaitForResponse).                            *)
Reply(r) ==
    /\ pc = Idle
    /\ req[r].inbox /\ req[r].answers > 0
    /\ LET q == [RemoveReference(req[r]) EXCEPT !.answers = @ - 1]
           last == q.answers % Parts = 0
       IN  /\ \/ /\ q.active /\ last
                 /\ Stop(r, [q EXCEPT !.image = TRUE])
              \/ /\ ~(q.active /\ last)
                 /\ req' = [req EXCEPT ![r] = q]
                 /\ UNCHANGED <<queue, free, fresh, stolen>>
           /\ overdrawn' = IF last THEN overdrawn ELSE overdrawn \cup {r}
    /\ UNCHANGED <<pc, sends>>

(* An image of the subscription that was not requested here ends the wait   *)
(* all the same.                                                           *)
OtherImage(r) ==
    /\ pc = Idle
    /\ req[r].live /\ req[r].active
    /\ Stop(r, [req[r] EXCEPT !.image = TRUE])
    /\ UNCHANGED <<pc, sends, overdrawn>>

(* The timeout is near, or over. *)
Age(r) ==
    /\ req[r].timer = "young"
    /\ req' = [req EXCEPT ![r].timer = "old"]
    /\ UNCHANGED <<queue, free, fresh, pc, sends, stolen, overdrawn>>

(* imageRequestImpl_onReplyTimeout. *)
OnReplyTimeout(r) ==
    /\ pc = Idle
    /\ req[r].timer = "old" /\ ~req[r].freed
    /\ req' = [req EXCEPT ![r] = RemoveReference([@ EXCEPT !.timer = "none"])]
    /\ pc' = IF req[r].gone THEN pc ELSE [at |-> "timeout", of |-> r]
    /\ UNCHANGED <<queue, free, fresh, sends, stolen, overdrawn>>

(* imageRequestImpl_processTimeout up to the locks. *)
ProcessTimeout(r) ==
    /\ pc = [at |-> "timeout", of |-> r]
    /\ \/ /\ ~req[r].inbox
          /\ pc' = Idle
          /\ UNCHANGED <<req, queue, free, fresh, stolen>>
       \/ /\ req[r].inbox /\ req[r].image
          /\ Stop(r, req[r])
          /\ pc' = Idle
       \/ /\ req[r].inbox /\ ~req[r].image
          /\ req' = [req EXCEPT ![r].count = @ + 1]
          /\ pc' = IF req[r].count >= Retries THEN [at |-> "giveUp", of |-> r]
                   ELSE IF req[r].waiting THEN [at |-> "retry", of |-> r] ELSE Idle
          /\ UNCHANGED <<queue, free, fresh, stolen>>
    /\ UNCHANGED <<sends, overdrawn>>

(* Another request is dispatched and the timer restarted. *)
Retry(r) ==
    /\ pc = [at |-> "retry", of |-> r]
    /\ Dispatch(r, StartReplyTimer(req[r]))
    /\ pc' = Idle
    /\ UNCHANGED <<sends, stolen, overdrawn>>

(* The last timeout: onError is called. *)
GiveUp(r) ==
    /\ pc = [at |-> "giveUp", of |-> r]
    /\ Stop(r, RemoveReference(req[r]))
    /\ pc' = Idle
    /\ UNCHANGED <<sends, overdrawn>>

-----------------------------------------------------------------------------
(* The subscription. *)

(* mamaSubscription_deactivate_internal cancels a request that is waiting. *)
Deactivate(r) ==
    /\ req[r].active
    /\ DeactivateAnywhere \/ pc = Idle
    /\ LET q == [req[r] EXCEPT !.active = FALSE]
       IN  \/ /\ q.waiting
              /\ Stop(r, q)
           \/ /\ ~q.waiting
              /\ req' = [req EXCEPT ![r] = q]
              /\ UNCHANGED <<queue, free, fresh, stolen>>
    /\ UNCHANGED <<pc, sends, overdrawn>>

Activate(r) ==
    /\ req[r].live /\ ~req[r].active
    /\ req' = [req EXCEPT ![r].active = TRUE]
    /\ UNCHANGED <<queue, free, fresh, pc, sends, stolen, overdrawn>>

(* mamaSubscription_cleanup and imageRequest_destroy: the transport is gone, *)
(* so nothing is taken back.                                               *)
Destroy(r) ==
    /\ pc = Idle
    /\ req[r].live /\ ~req[r].active
    /\ req' = [req EXCEPT ![r] = [DestroyOwner(@) EXCEPT !.live = FALSE, !.inbox = FALSE,
                                                         !.answers = 0, !.acts = <<>>]]
    /\ UNCHANGED <<queue, free, fresh, pc, sends, stolen, overdrawn>>

QueueThread(r) ==
    SendDispatch(r) \/ OnReplyTimeout(r) \/ ProcessTimeout(r) \/ Retry(r) \/ GiveUp(r)

Next ==
    \/ RunAction
    \/ \E r \in Requests :
         \/ QueueThread(r) \/ Age(r) \/ Reply(r)
         \/ Send(r) \/ OtherImage(r) \/ Deactivate(r) \/ Activate(r) \/ Destroy(r)

(* Timers tick, the queue is dispatched and the throttle goes on; an answer   *)
(* may never come.                                                         *)
Fairness ==
    /\ WF_vars(RunAction)
    /\ \A r \in Requests : WF_vars(Age(r)) /\ WF_vars(QueueThread(r))

Spec == Init /\ [][Next]_vars /\ Fairness

-----------------------------------------------------------------------------
TypeOK ==
    /\ req \in [Requests -> Request]
    /\ queue \in Seq([slot : Nat \ {0}, owner : Requests])
    /\ free \in Seq(Nat \ {0})
    /\ fresh \in Nat
    /\ pc \in [at : Labels \ {"idle"}, of : Requests] \cup {Idle}
    /\ sends \in 0 .. MaxSends
    /\ stolen \subseteq Requests /\ overdrawn \subseteq Requests

(* "This is to ensure that the onMsg callback always has memory to access if *)
(* this structure has been destroyed" (imagerequest.c): when the handle is   *)
(* freed neither the inbox nor a timer, which hold a pointer to it, is left. *)
(* One reference is counted for a response and one is removed for each of its *)
(* messages, so a request that took an image of several is excused.          *)
HandleOutlivesCallbacks ==
    \A r \in Requests \ overdrawn : req[r].freed => req[r].timer = "none" /\ ~req[r].inbox

(* The same of every request: the word of the comment.  It fails when images  *)
(* have several messages.                                                  *)
HandleOutlivesAll ==
    \A r \in Requests : req[r].freed => req[r].timer = "none" /\ ~req[r].inbox

(* "This has already been done during de-activation" (subscription.c), of    *)
(* the removal of pending requests: no action of a freed request is left to  *)
(* the throttle.                                                           *)
NoActionAfterFree ==
    \A i \in DOMAIN queue : req[queue[i].owner].live

(* The throttle's list is a list: no element is in it twice, or in it and    *)
(* free.                                                                   *)
ElementsOnce ==
    LET all == Slots(queue) \o free
    IN  \A i, j \in DOMAIN all : all[i] = all[j] => i = j

(* A request that waits for a response is queued, or has a timer that will   *)
(* see to it, unless the queue's thread is working on it.                   *)
SomebodyRemembers ==
    \A r \in Requests :
      req[r].waiting => \/ req[r].timer # "none" \/ pc.of = r
                        \/ \E i \in DOMAIN queue : queue[i].owner = r

(* A request that waits ends, with an image, an error or a cancellation, unless *)
(* the action that would have sent it, and started its timer, was taken from    *)
(* the throttle's list by another request that is stopped: mPendingActions of   *)
(* that one still pointed to an element since reused (SomebodyRemembers).      *)
WaitEnds == \A r \in Requests : req[r].waiting ~> (~req[r].waiting \/ r \in stolen)

(* "the memory will then be deleted the final time that removeReference is   *)
(* called" (destroyHandle.c): once the request and its timer are gone so is  *)
(* the handle.                                                             *)
HandleIsFreed ==
    \A r \in Requests : ~req[r].live /\ req[r].timer = "none" => req[r].freed
=============================================================================
