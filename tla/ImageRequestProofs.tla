------------------------- MODULE ImageRequestProofs -------------------------
(***************************************************************************)
(* For any number of requests, retries and messages per image, throttled or  *)
(* not: the handle of a request outlives the callbacks that hold it until the *)
(* request takes an image of several messages; the throttle's list stays a   *)
(* list; and no action of a freed request is on it if the queue's thread     *)
(* deactivates.                                                            *)
(***************************************************************************)
EXTENDS ImageRequest, SelectionProofs

(* The reference that is the timer's. *)
TimerRef(q) == IF q.timer = "none" THEN 0 ELSE 1

(* What is counted for one request: its timer and, while it waits, the       *)
(* response that an answer or the last timeout takes away.  An open inbox    *)
(* that nothing was sent from is the one that create made.                  *)
Counted(q) ==
    /\ q.refs >= TimerRef(q)
    /\ q.waiting => q.active /\ q.inbox /\ q.refs >= TimerRef(q) + 1
    /\ q.inbox /\ ~q.waiting => q.timer = "none" /\ q.answers = 0
    /\ ~q.inbox => q.answers = 0
    /\ q.active \/ q.inbox => q.live
    /\ q.freed \/ q.gone => ~q.live
    /\ q.live \/ q.gone \/ q.freed
    /\ q.freed => q.timer = "none"

(* The fields of a request that the argument is about. *)
Shaped(q) ==
    /\ DOMAIN q = {"live", "active", "waiting", "inbox", "answers", "image", "count",
                   "timer", "acts", "refs", "gone", "freed"}
    /\ q.live \in BOOLEAN /\ q.active \in BOOLEAN /\ q.waiting \in BOOLEAN
    /\ q.inbox \in BOOLEAN /\ q.gone \in BOOLEAN /\ q.freed \in BOOLEAN
    /\ q.answers \in Nat /\ q.refs \in Int
    /\ q.timer \in {"none", "young", "old"}

(* While the queue's thread handles a timeout the request is still there,    *)
(* and the reference that GiveUp removes is still counted.                  *)
Handled(p, q) ==
    /\ q.live
    /\ p.at \in {"timeout", "retry"} => (q.inbox => q.waiting)
    /\ p.at = "giveUp" => q.refs >= TimerRef(q) + 1

IInv ==
    /\ req = [r \in Requests |-> req[r]]
    /\ pc \in [at : Labels \ {"idle"}, of : Requests] \cup {Idle}
    /\ \A r \in Requests \ overdrawn : Shaped(req[r]) /\ Counted(req[r])
    /\ \A r \in Requests \ overdrawn : pc.of = r => Handled(pc, req[r])

-----------------------------------------------------------------------------
(* StartReplyTimer counts the timer it starts. *)
LEMMA TimerCounted ==
    ASSUME NEW q, Shaped(q), Counted(q), q.live, q.inbox => q.waiting
    PROVE  LET s == StartReplyTimer(q)
           IN  /\ Shaped(s) /\ Counted(s) /\ s.live
               /\ s.waiting = q.waiting /\ s.inbox = q.inbox
               /\ s.refs - TimerRef(s) = q.refs - TimerRef(q)
<1>1. CASE q.timer = "none"
  <2> DEFINE s == StartReplyTimer(q)
  <2>1. /\ DOMAIN s = DOMAIN q
        /\ s.live = q.live /\ s.active = q.active /\ s.waiting = q.waiting
        /\ s.inbox = q.inbox /\ s.gone = q.gone /\ s.freed = q.freed
        /\ s.answers = q.answers /\ s.refs = q.refs + 1 /\ s.timer = "young"
    BY <1>1 DEF StartReplyTimer, IncrementRefCount, Shaped
  <2> HIDE DEF s
  <2>2. TimerRef(q) = 0 /\ TimerRef(s) = 1
    BY <1>1, <2>1 DEF TimerRef
  <2>3. Shaped(s)
    BY <2>1 DEF Shaped
  <2>4. Counted(s)
    BY <1>1, <2>1, <2>2 DEF Shaped, Counted
  <2>5. s.refs - TimerRef(s) = q.refs - TimerRef(q)
    BY <2>1, <2>2 DEF Shaped
  <2> QED
    BY <2>1, <2>3, <2>4, <2>5 DEF s
<1>2. CASE q.timer # "none"
  BY <1>2 DEF StartReplyTimer, Shaped, Counted, TimerRef
<1> QED BY <1>1, <1>2

(* What requestAction does to a request keeps its count right. *)
LEMMA SentCounted ==
    ASSUME NEW q, Shaped(q), Counted(q)
    PROVE  LET s == Sent(q)
           IN  /\ Shaped(s) /\ Counted(s) /\ s.live = q.live
               /\ s.waiting = q.waiting /\ s.inbox = q.inbox
               /\ s.refs - TimerRef(s) = q.refs - TimerRef(q)
<1>1. CASE ~q.waiting
  BY <1>1 DEF Sent, Shaped
<1>2. CASE q.waiting
  <2> DEFINE t == StartReplyTimer(q)
  <2>1. q.live
    BY <1>2 DEF Counted
  <2>2. /\ Shaped(t) /\ Counted(t) /\ t.live
        /\ t.waiting = q.waiting /\ t.inbox = q.inbox
        /\ t.refs - TimerRef(t) = q.refs - TimerRef(q)
    BY <1>2, <2>1, TimerCounted
  <2>3. Parts \in Nat
    BY ImageRequestAssumption
  <2> HIDE DEF t
  <2>4. Sent(q) = [t EXCEPT !.answers = @ + Parts]
    BY <1>2 DEF Sent, t
  <2>5. q.live \in BOOLEAN /\ q.live = t.live
    BY <2>1, <2>2 DEF Shaped
  <2> DEFINE s == Sent(q)
  <2>6. /\ DOMAIN s = DOMAIN t
        /\ s.live = t.live /\ s.active = t.active /\ s.waiting = t.waiting
        /\ s.inbox = t.inbox /\ s.gone = t.gone /\ s.freed = t.freed
        /\ s.answers = t.answers + Parts /\ s.refs = t.refs /\ s.timer = t.timer
    BY <2>2, <2>4 DEF Shaped
  <2> HIDE DEF s
  <2>7. TimerRef(s) = TimerRef(t)
    BY <2>6 DEF TimerRef
  <2>8. Shaped(s)
    BY <2>2, <2>3, <2>6 DEF Shaped
  <2>9. Counted(s)
    BY <1>2, <2>2, <2>3, <2>6, <2>7 DEF Shaped, Counted
  <2> QED
    BY <2>2, <2>5, <2>6, <2>7, <2>8, <2>9 DEF s
<1> QED BY <1>1, <1>2

(* Stopping a request takes away the timer's reference and nothing else, so  *)
(* it is enough that one reference more than the timer's is left, or none.   *)
LEMMA StoppedCounted ==
    ASSUME NEW q, Shaped(q), q.refs >= TimerRef(q), q.active => q.live,
           q.freed \/ q.gone => ~q.live, q.live \/ q.gone \/ q.freed, q.freed => q.timer = "none"
    PROVE  LET s == Stopped(q)
           IN  /\ Shaped(s) /\ Counted(s)
               /\ s.live = q.live /\ ~s.waiting /\ ~s.inbox
               /\ s.refs - TimerRef(s) = q.refs - TimerRef(q)
<1>1. CASE q.timer = "young"
  BY <1>1 DEF Stopped, CheckDestroyReplyTimer, RemoveReference, Shaped, Counted, TimerRef
<1>2. CASE q.timer # "young"
  BY <1>2 DEF Stopped, CheckDestroyReplyTimer, Shaped, Counted, TimerRef
<1> QED BY <1>1, <1>2

-----------------------------------------------------------------------------
(* A step that gives request r the fields n, and may move the queue's        *)
(* thread, keeps the invariant if n and the thread's request fit.           *)
LEMMA OneChanges ==
    ASSUME IInv, NEW r \in Requests, NEW n, overdrawn' = overdrawn,
           req' = [req EXCEPT ![r] = n], Shaped(n), Counted(n),
           pc' \in [at : Labels \ {"idle"}, of : Requests] \cup {Idle},
           pc'.of = r => Handled(pc', n),
           \A x \in (Requests \ overdrawn) \ {r} : pc'.of = x => Handled(pc', req[x])
    PROVE  IInv'
<1>1. req' = [x \in Requests |-> IF x = r THEN n ELSE req[x]]
  BY DEF IInv
<1>2. \A x \in Requests : req'[x] = IF x = r THEN n ELSE req[x]
  BY <1>1
<1>3. req' = [x \in Requests |-> req'[x]]
  BY <1>1
<1>4. \A x \in Requests \ overdrawn' : Shaped(req'[x]) /\ Counted(req'[x])
  BY <1>2 DEF IInv
<1>5. \A x \in Requests \ overdrawn' : pc'.of = x => Handled(pc', req'[x])
  BY <1>2
<1> QED BY <1>3, <1>4, <1>5 DEF IInv

(* The queue's thread is in no request when it is idle. *)
LEMMA IdleFacts == Idle.at = "idle" /\ \A r \in Requests : Idle.of # r
BY ImageRequestAssumption DEF Idle

(* Nothing is asked of a request that is overdrawn, and a step of one request  *)
(* leaves the others alone.                                                 *)
LEMMA OverdrawnChanges ==
    ASSUME IInv, NEW r \in Requests, NEW n, req' = [req EXCEPT ![r] = n],
           overdrawn \subseteq overdrawn', r \in overdrawn',
           \/ pc' = pc \/ pc' = Idle
           \/ pc' \in [at : Labels \ {"idle"}, of : {r}]
    PROVE  IInv'
<1>1. req' = [x \in Requests |-> IF x = r THEN n ELSE req[x]]
  BY DEF IInv
<1>2. \A x \in Requests \ {r} : req'[x] = req[x]
  BY <1>1
<1>3. req' = [x \in Requests |-> req'[x]]
  BY <1>1
<1>4. \A x \in Requests \ overdrawn' : x \in Requests \ overdrawn /\ x # r
  OBVIOUS
<1>5. \A x \in Requests \ overdrawn' : Shaped(req'[x]) /\ Counted(req'[x])
  BY <1>2, <1>4 DEF IInv
<1>6. \A x \in Requests \ overdrawn' : pc'.of = x => pc' = pc
  BY <1>4, IdleFacts
<1>7. \A x \in Requests \ overdrawn' : pc'.of = x => Handled(pc', req'[x])
  BY <1>2, <1>4, <1>6 DEF IInv
<1>8. pc' \in [at : Labels \ {"idle"}, of : Requests] \cup {Idle}
  BY DEF IInv
<1> QED
  BY <1>3, <1>5, <1>7, <1>8 DEF IInv

(* A step for request r changes no other request, and moves the queue's thread *)
(* only into r or out of it.                                                *)
LEMMA OneAtATime ==
    ASSUME IInv, NEW r \in Requests,
           \/ QueueThread(r) \/ Age(r) \/ Reply(r)
           \/ Send(r) \/ OtherImage(r) \/ Deactivate(r) \/ Activate(r) \/ Destroy(r)
    PROVE  /\ \E n : req' = [req EXCEPT ![r] = n]
           /\ \/ pc' = pc \/ pc' = Idle
              \/ pc' \in [at : Labels \ {"idle"}, of : {r}]
           /\ overdrawn \subseteq overdrawn'
           /\ Reply(r) \/ overdrawn' = overdrawn
<1>1. req = [req EXCEPT ![r] = req[r]]
  BY DEF IInv
<1>2. ASSUME NEW q, Stop(r, q) PROVE \E n : req' = [req EXCEPT ![r] = n]
  BY <1>2 DEF Stop
<1>3. ASSUME NEW q, Dispatch(r, q) PROVE \E n : req' = [req EXCEPT ![r] = n]
  BY <1>3, Zenon DEF Dispatch
<1>4. CASE Age(r)
  BY <1>4 DEF Age
<1>5. CASE Activate(r)
  BY <1>5 DEF Activate
<1>6. CASE Destroy(r)
  BY <1>6, Zenon DEF Destroy
<1>7. CASE OtherImage(r)
  BY <1>2, <1>7, Zenon DEF OtherImage
<1>8. CASE Deactivate(r)
  BY <1>2, <1>8, Zenon DEF Deactivate
<1>9. CASE Send(r)
  BY <1>9 DEF Send, Labels
<1>10. CASE Reply(r)
  <2>1. \E n : req' = [req EXCEPT ![r] = n]
    BY <1>2, <1>10, Zenon DEF Reply
  <2>2. pc' = pc /\ (overdrawn' = overdrawn \/ overdrawn' = overdrawn \cup {r})
    BY <1>10, Zenon DEF Reply
  <2> QED
    BY <1>10, <2>1, <2>2
<1>11. CASE SendDispatch(r)
  BY <1>3, <1>11, Zenon DEF SendDispatch
<1>12. CASE Retry(r)
  BY <1>3, <1>12, Zenon DEF Retry
<1>13. CASE GiveUp(r)
  BY <1>2, <1>13, Zenon DEF GiveUp
<1>14. CASE OnReplyTimeout(r)
  BY <1>14 DEF OnReplyTimeout, Labels
<1>15. CASE ProcessTimeout(r)
  <2>1. \E n : req' = [req EXCEPT ![r] = n]
    <3>1. CASE UNCHANGED <<req, queue, free, fresh, stolen>>
      BY <1>1, <3>1
    <3>2. CASE req' = [req EXCEPT ![r].count = @ + 1]
      BY <3>2
    <3> QED
      BY <1>2, <1>15, <3>1, <3>2 DEF ProcessTimeout
  <2>2. pc' = Idle \/ pc' \in [at : Labels \ {"idle"}, of : {r}]
    BY <1>15 DEF ProcessTimeout, Labels
  <2> QED
    BY <1>15, <2>1, <2>2 DEF ProcessTimeout
<1> QED
  BY <1>4, <1>5, <1>6, <1>7, <1>8, <1>9, <1>10, <1>11, <1>12, <1>13, <1>14, <1>15 DEF QueueThread

(* Stopping request r, whose fields before that are q. *)
LEMMA StopKeeps ==
    ASSUME IInv, NEW r \in Requests, NEW q, Stop(r, q), overdrawn' = overdrawn,
           r \notin overdrawn,
           Shaped(q), q.refs >= TimerRef(q), q.active => q.live,
           q.freed \/ q.gone => ~q.live, q.live \/ q.gone \/ q.freed, q.freed => q.timer = "none",
           \/ pc' = Idle
           \/ /\ pc' = pc
              /\ pc.of = r => q.live /\ (pc.at = "giveUp" => q.refs >= TimerRef(q) + 1)
    PROVE  IInv'
<1> DEFINE n == Stopped(q)
<1>1. req' = [req EXCEPT ![r] = n]
  BY DEF Stop
<1>2. /\ Shaped(n) /\ Counted(n)
      /\ n.live = q.live /\ ~n.waiting /\ ~n.inbox
      /\ n.refs - TimerRef(n) = q.refs - TimerRef(q)
  BY StoppedCounted
<1> HIDE DEF n
<1>3. TimerRef(n) \in Int /\ TimerRef(q) \in Int /\ n.refs \in Int /\ q.refs \in Int
  BY <1>2 DEF TimerRef, Shaped
<1>4. CASE pc' = Idle
  BY <1>1, <1>2, <1>4, IdleFacts, OneChanges
<1>5. CASE /\ pc' = pc
           /\ pc.of = r => q.live /\ (pc.at = "giveUp" => q.refs >= TimerRef(q) + 1)
  <2>1. pc'.of = r => Handled(pc', n)
    BY <1>2, <1>3, <1>5 DEF Handled
  <2>2. \A x \in (Requests \ overdrawn) \ {r} : pc'.of = x => Handled(pc', req[x])
    BY <1>5 DEF IInv
  <2>3. pc' \in [at : Labels \ {"idle"}, of : Requests] \cup {Idle}
    BY <1>5 DEF IInv
  <2> QED BY <1>1, <1>2, <2>1, <2>2, <2>3, OneChanges
<1> QED BY <1>4, <1>5

(* Dispatching the action of request r, whose fields before that are q; the   *)
(* queue's thread is done with it.                                         *)
LEMMA DispatchKeeps ==
    ASSUME IInv, NEW r \in Requests, NEW q, Dispatch(r, q), Shaped(q), Counted(q), pc' = Idle,
           overdrawn' = overdrawn
    PROVE  IInv'
<1>1. CASE req' = [req EXCEPT ![r] = Sent(q)]
  <2>1. Shaped(Sent(q)) /\ Counted(Sent(q))
    BY SentCounted
  <2> QED BY <1>1, <2>1, IdleFacts, OneChanges
<1>2. CASE \E a : req' = [req EXCEPT ![r] = [q EXCEPT !.acts = a]]
  <2>1. PICK a : req' = [req EXCEPT ![r] = [q EXCEPT !.acts = a]]
    BY <1>2
  <2> DEFINE n == [q EXCEPT !.acts = a]
  <2>2. /\ DOMAIN n = DOMAIN q
        /\ n.live = q.live /\ n.active = q.active /\ n.waiting = q.waiting
        /\ n.inbox = q.inbox /\ n.gone = q.gone /\ n.freed = q.freed
        /\ n.answers = q.answers /\ n.refs = q.refs /\ n.timer = q.timer
    BY DEF Shaped
  <2>3. req' = [req EXCEPT ![r] = n]
    BY <2>1
  <2> HIDE DEF n
  <2>4. Shaped(n) /\ Counted(n)
    BY <2>2 DEF Shaped, Counted, TimerRef
  <2> QED BY <2>3, <2>4, IdleFacts, OneChanges
<1>3. \/ req' = [req EXCEPT ![r] = Sent(q)]
      \/ \E a : req' = [req EXCEPT ![r] = [q EXCEPT !.acts = a]]
  BY DEF Dispatch
<1> QED BY <1>1, <1>2, <1>3

-----------------------------------------------------------------------------
(* The invariant holds initially. *)
LEMMA InitCounted == Init => IInv
<1> SUFFICES ASSUME Init PROVE IInv
  OBVIOUS
<1>1. \A r \in Requests : Shaped(req[r]) /\ Counted(req[r])
  <2> TAKE r \in Requests
  <2>1. req[r] = [live |-> TRUE, active |-> TRUE, waiting |-> FALSE, inbox |-> TRUE,
                  answers |-> 0, image |-> FALSE, count |-> 0, timer |-> "none",
                  acts |-> <<>>, refs |-> 0, gone |-> FALSE, freed |-> FALSE]
    BY DEF Init
  <2>2. Shaped(req[r]) /\ TimerRef(req[r]) = 0
    BY <2>1 DEF Shaped, TimerRef
  <2>3. Counted(req[r])
    BY <2>1, <2>2 DEF Counted
  <2> QED BY <2>2, <2>3
<1>2. req = [r \in Requests |-> req[r]]
  BY DEF Init
<1> QED BY <1>1, <1>2, IdleFacts DEF Init, IInv

(* The steps of the throttle and of the timers. *)
LEMMA OthersCounted ==
    ASSUME IInv, RunAction \/ \E r \in Requests \ overdrawn : Age(r)
    PROVE  IInv'
<1>1. CASE RunAction
  <2> DEFINE r == Head(queue).owner
             q == [req[r] EXCEPT !.acts = RemoveFirst(@, Head(queue).slot)]
             n == Sent(q)
  <2>1. req' = [req EXCEPT ![r] = n] /\ pc' = pc /\ overdrawn' = overdrawn
    BY <1>1 DEF RunAction
  <2>2. CASE r \notin Requests
    <3>1. req' = req
      BY <2>1, <2>2 DEF IInv
    <3> QED BY <2>1, <3>1 DEF IInv
  <2>4. CASE r \in Requests /\ r \in overdrawn
    <3> HIDE DEF n, r
    <3> QED BY <2>1, <2>4, OverdrawnChanges
  <2>3. CASE r \in Requests /\ r \notin overdrawn
    <3>1. Shaped(req[r]) /\ Counted(req[r])
      BY <2>3 DEF IInv
    <3>2. PICK a : q = [req[r] EXCEPT !.acts = a]
      BY DEF q
    <3> HIDE DEF q, r
    <3>3. /\ DOMAIN q = DOMAIN req[r]
          /\ q.live = req[r].live /\ q.active = req[r].active /\ q.waiting = req[r].waiting
          /\ q.inbox = req[r].inbox /\ q.gone = req[r].gone /\ q.freed = req[r].freed
          /\ q.answers = req[r].answers /\ q.refs = req[r].refs /\ q.timer = req[r].timer
      BY <3>1, <3>2 DEF Shaped
    <3>4. Shaped(q) /\ Counted(q) /\ TimerRef(q) = TimerRef(req[r])
      BY <3>1, <3>3 DEF Shaped, Counted, TimerRef
    <3>5. /\ Shaped(n) /\ Counted(n) /\ n.live = q.live
          /\ n.waiting = q.waiting /\ n.inbox = q.inbox
          /\ n.refs - TimerRef(n) = q.refs - TimerRef(q)
      BY <3>4, SentCounted
    <3> HIDE DEF n
    <3>6. TimerRef(n) \in Int /\ TimerRef(q) \in Int /\ n.refs \in Int /\ q.refs \in Int
      BY <3>4, <3>5 DEF TimerRef, Shaped
    <3>7. pc'.of = r => Handled(pc', n)
      BY <2>1, <2>3, <3>3, <3>4, <3>5, <3>6 DEF IInv, Handled
    <3>8. \A x \in (Requests \ overdrawn) \ {r} : pc'.of = x => Handled(pc', req[x])
      BY <2>1 DEF IInv
    <3>9. pc' \in [at : Labels \ {"idle"}, of : Requests] \cup {Idle}
      BY <2>1 DEF IInv
    <3> QED BY <2>1, <2>3, <3>5, <3>7, <3>8, <3>9, OneChanges
  <2> QED BY <2>2, <2>3, <2>4
<1>2. ASSUME NEW r \in Requests, r \notin overdrawn, Age(r) PROVE IInv'
  <2> DEFINE n == [req[r] EXCEPT !.timer = "old"]
  <2>1. Shaped(req[r]) /\ Counted(req[r]) /\ req[r].timer = "young"
    BY <1>2 DEF IInv, Age
  <2>2. req' = [req EXCEPT ![r] = n] /\ pc' = pc /\ overdrawn' = overdrawn
    BY <1>2 DEF Age
  <2>3. /\ DOMAIN n = DOMAIN req[r]
        /\ n.live = req[r].live /\ n.active = req[r].active /\ n.waiting = req[r].waiting
        /\ n.inbox = req[r].inbox /\ n.gone = req[r].gone /\ n.freed = req[r].freed
        /\ n.answers = req[r].answers /\ n.refs = req[r].refs /\ n.timer = "old"
    BY <2>1 DEF Shaped
  <2> HIDE DEF n
  <2>4. Shaped(n) /\ Counted(n) /\ TimerRef(n) = TimerRef(req[r])
    BY <2>1, <2>3 DEF Shaped, Counted, TimerRef
  <2>5. pc'.of = r => Handled(pc', n)
    BY <1>2, <2>2, <2>3, <2>4 DEF IInv, Handled
  <2>6. \A x \in (Requests \ overdrawn) \ {r} : pc'.of = x => Handled(pc', req[x])
    BY <2>2 DEF IInv
  <2>7. pc' \in [at : Labels \ {"idle"}, of : Requests] \cup {Idle}
    BY <2>2 DEF IInv
  <2> QED BY <2>2, <2>4, <2>5, <2>6, <2>7, OneChanges
<1> QED BY <1>1, <1>2

(* The calls of the subscription. *)
LEMMA SubscriptionCounted ==
    ASSUME IInv, NEW r \in Requests, r \notin overdrawn, overdrawn' = overdrawn,
           OtherImage(r) \/ Deactivate(r) \/ Activate(r) \/ Destroy(r)
    PROVE  IInv'
<1>1. /\ Shaped(req[r]) /\ Counted(req[r]) /\ (pc.of = r => Handled(pc, req[r]))
      /\ pc \in [at : Labels \ {"idle"}, of : Requests] \cup {Idle}
      /\ \A x \in (Requests \ overdrawn) \ {r} : pc.of = x => Handled(pc, req[x])
  BY DEF IInv
<1>2. CASE OtherImage(r)
  <2> DEFINE q == [req[r] EXCEPT !.image = TRUE]
  <2>1. Stop(r, q) /\ pc = Idle /\ pc' = pc
    BY <1>2 DEF OtherImage
  <2>2. /\ DOMAIN q = DOMAIN req[r]
        /\ q.live = req[r].live /\ q.active = req[r].active /\ q.waiting = req[r].waiting
        /\ q.inbox = req[r].inbox /\ q.gone = req[r].gone /\ q.freed = req[r].freed
        /\ q.answers = req[r].answers /\ q.refs = req[r].refs /\ q.timer = req[r].timer
    BY <1>1 DEF Shaped
  <2> HIDE DEF q
  <2>3. Shaped(q) /\ Counted(q)
    BY <1>1, <2>2 DEF Shaped, Counted, TimerRef
  <2> QED BY <2>1, <2>3, StopKeeps DEF Counted
<1>3. CASE Deactivate(r)
  <2> DEFINE q == [req[r] EXCEPT !.active = FALSE]
  <2>1. pc' = pc
    BY <1>3 DEF Deactivate
  <2>0. (q.waiting /\ Stop(r, q)) \/ (~q.waiting /\ req' = [req EXCEPT ![r] = q])
    BY <1>3, Zenon DEF Deactivate
  <2>2. /\ DOMAIN q = DOMAIN req[r]
        /\ q.live = req[r].live /\ ~q.active /\ q.active \in BOOLEAN
        /\ q.waiting = req[r].waiting
        /\ q.inbox = req[r].inbox /\ q.gone = req[r].gone /\ q.freed = req[r].freed
        /\ q.answers = req[r].answers /\ q.refs = req[r].refs /\ q.timer = req[r].timer
    BY <1>1 DEF Shaped
  <2> HIDE DEF q
  <2>3. Shaped(q) /\ TimerRef(q) = TimerRef(req[r])
    BY <1>1, <2>2 DEF Shaped, TimerRef
  <2>4. /\ q.refs >= TimerRef(q) /\ (q.active => q.live)
        /\ (q.freed \/ q.gone => ~q.live) /\ (q.freed => q.timer = "none")
        /\ (q.live \/ q.gone \/ q.freed)
    BY <1>1, <2>2, <2>3 DEF Counted
  <2>5. pc.of = r => q.live /\ (pc.at = "giveUp" => q.refs >= TimerRef(q) + 1)
    BY <1>1, <2>2, <2>3 DEF Handled
  <2>6. CASE q.waiting /\ Stop(r, q)
    BY <2>1, <2>3, <2>4, <2>5, <2>6, StopKeeps
  <2>7. CASE ~q.waiting /\ req' = [req EXCEPT ![r] = q]
    <3>1. Counted(q)
      BY <1>1, <2>2, <2>3, <2>4, <2>7 DEF Counted
    <3>2. pc.of = r => Handled(pc, q)
      BY <1>1, <2>2, <2>3 DEF Handled
    <3>3. \A x \in (Requests \ overdrawn) \ {r} : pc'.of = x => Handled(pc', req[x])
      BY <1>1, <2>1
    <3>4. pc' \in [at : Labels \ {"idle"}, of : Requests] \cup {Idle}
      BY <1>1, <2>1
    <3>5. pc'.of = r => Handled(pc', q)
      BY <2>1, <3>2
    <3> QED BY <2>3, <2>7, <3>1, <3>3, <3>4, <3>5, OneChanges
  <2> QED BY <2>0, <2>6, <2>7
<1>4. CASE Activate(r)
  <2> DEFINE n == [req[r] EXCEPT !.active = TRUE]
  <2>1. req' = [req EXCEPT ![r] = n] /\ pc' = pc /\ req[r].live
    BY <1>4 DEF Activate
  <2>2. /\ DOMAIN n = DOMAIN req[r]
        /\ n.live = req[r].live /\ n.active = TRUE /\ n.waiting = req[r].waiting
        /\ n.inbox = req[r].inbox /\ n.gone = req[r].gone /\ n.freed = req[r].freed
        /\ n.answers = req[r].answers /\ n.refs = req[r].refs /\ n.timer = req[r].timer
    BY <1>1 DEF Shaped
  <2> HIDE DEF n
  <2>3. Shaped(n) /\ TimerRef(n) = TimerRef(req[r])
    BY <1>1, <2>2 DEF Shaped, TimerRef
  <2>4. Counted(n)
    BY <1>1, <2>1, <2>2, <2>3 DEF Counted
  <2>5. pc.of = r => Handled(pc, n)
    BY <1>1, <2>2, <2>3 DEF Handled
  <2> QED BY <1>1, <2>1, <2>3, <2>4, <2>5, OneChanges
<1>5. CASE Destroy(r)
  <2> DEFINE d == DestroyOwner(req[r])
             n == [d EXCEPT !.live = FALSE, !.inbox = FALSE, !.answers = 0, !.acts = <<>>]
  <2>1. req' = [req EXCEPT ![r] = n] /\ pc' = Idle /\ ~req[r].active
    BY <1>5 DEF Destroy
  <2>2. /\ DOMAIN d = DOMAIN req[r]
        /\ d.active = req[r].active /\ d.waiting = req[r].waiting
        /\ d.refs = req[r].refs /\ d.timer = req[r].timer
    BY <1>1 DEF Shaped, DestroyOwner
  <2>f. d.gone = (req[r].refs # 0) /\ d.freed = (req[r].refs = 0)
    BY <1>1 DEF Shaped, DestroyOwner
  <2>3. DOMAIN d = {"live", "active", "waiting", "inbox", "answers", "image", "count",
                    "timer", "acts", "refs", "gone", "freed"}
    BY <1>1, <2>2 DEF Shaped
  <2> HIDE DEF d
  <2>4. /\ DOMAIN n = DOMAIN d
        /\ n.live = FALSE /\ n.active = d.active /\ n.waiting = d.waiting
        /\ n.inbox = FALSE /\ n.gone = d.gone /\ n.freed = d.freed
        /\ n.answers = 0 /\ n.refs = d.refs /\ n.timer = d.timer
    BY <2>3
  <2> HIDE DEF n
  <2>0. n.gone \in BOOLEAN /\ n.freed \in BOOLEAN
    BY <2>f, <2>4, Zenon
  <2>5. Shaped(n) /\ TimerRef(n) = TimerRef(req[r])
    <3>1. TimerRef(n) = TimerRef(req[r])
      BY <2>2, <2>4 DEF TimerRef
    <3>2. /\ n.live \in BOOLEAN /\ n.inbox \in BOOLEAN
          /\ n.active \in BOOLEAN /\ n.waiting \in BOOLEAN
      BY <1>1, <2>2, <2>4, Zenon DEF Shaped
    <3>3. n.answers \in Nat /\ n.refs \in Int /\ n.timer \in {"none", "young", "old"}
      BY <1>1, <2>2, <2>4 DEF Shaped
    <3> QED BY <2>0, <2>3, <2>4, <3>1, <3>2, <3>3, Zenon DEF Shaped
  <2>6. ~req[r].waiting
    BY <1>1, <2>1 DEF Counted
  <2>7. req[r].refs = 0 => req[r].timer = "none"
    BY <1>1 DEF Counted, TimerRef
  <2>8. Counted(n)
    BY <1>1, <2>1, <2>2, <2>f, <2>4, <2>5, <2>6, <2>7 DEF Counted
  <2> QED BY <2>1, <2>5, <2>8, IdleFacts, OneChanges
<1> QED BY <1>2, <1>3, <1>4, <1>5

(* Sending a request, its answer and the handling of its timeouts. *)
LEMMA QueueCounted ==
    ASSUME IInv, NEW r \in Requests, r \notin overdrawn, overdrawn' = overdrawn,
           Send(r) \/ Reply(r) \/ QueueThread(r)
    PROVE  IInv'
<1>1. /\ Shaped(req[r]) /\ Counted(req[r]) /\ (pc.of = r => Handled(pc, req[r]))
      /\ pc \in [at : Labels \ {"idle"}, of : Requests] \cup {Idle}
      /\ \A x \in (Requests \ overdrawn) \ {r} : pc.of = x => Handled(pc, req[x])
  BY DEF IInv
<1>2. CASE Send(r)
  <2> DEFINE q == [req[r] EXCEPT !.waiting = TRUE, !.count = 0, !.image = FALSE, !.inbox = TRUE]
             n == IncrementRefCount(q)
  <2>1. /\ req' = [req EXCEPT ![r] = n] /\ req[r].active
        /\ pc' = [at |-> "send", of |-> r]
    BY <1>2 DEF Send
  <2>2. /\ DOMAIN n = DOMAIN req[r]
        /\ n.live = req[r].live /\ n.active = req[r].active /\ n.waiting = TRUE
        /\ n.inbox = TRUE /\ n.gone = req[r].gone /\ n.freed = req[r].freed
        /\ n.answers = req[r].answers /\ n.refs = req[r].refs + 1
        /\ n.timer = req[r].timer
    BY <1>1 DEF Shaped, IncrementRefCount
  <2> HIDE DEF n
  <2>3. Shaped(n) /\ TimerRef(n) = TimerRef(req[r])
    <3>1. TimerRef(n) = TimerRef(req[r])
      BY <2>2 DEF TimerRef
    <3>2. n.answers \in Nat /\ n.refs \in Int /\ n.timer \in {"none", "young", "old"}
      BY <1>1, <2>2 DEF Shaped
    <3>3. /\ n.live \in BOOLEAN /\ n.inbox \in BOOLEAN /\ n.gone \in BOOLEAN
          /\ n.active \in BOOLEAN /\ n.waiting \in BOOLEAN /\ n.freed \in BOOLEAN
      BY <1>1, <2>2, Zenon DEF Shaped
    <3> QED BY <1>1, <2>2, <3>1, <3>2, <3>3, Zenon DEF Shaped
  <2>4. Counted(n)
    BY <1>1, <2>1, <2>2, <2>3 DEF Shaped, Counted, TimerRef
  <2>5. Handled(pc', n)
    BY <1>1, <2>1, <2>2 DEF Handled, Counted
  <2>6. pc' \in [at : Labels \ {"idle"}, of : Requests] \cup {Idle}
    BY <2>1 DEF Labels
  <2>7. \A x \in Requests \ {r} : pc'.of # x
    BY <2>1
  <2> QED BY <2>1, <2>3, <2>4, <2>5, <2>6, <2>7, OneChanges
<1>3. CASE SendDispatch(r)
  <2>1. Dispatch(r, req[r]) /\ pc' = Idle
    BY <1>3 DEF SendDispatch
  <2> QED BY <1>1, <2>1, DispatchKeeps
<1>4. CASE Reply(r)
  <2> DEFINE p == RemoveReference(req[r])
             q == [p EXCEPT !.answers = @ - 1]
             n == [q EXCEPT !.image = TRUE]
  <2>1. req[r].inbox /\ req[r].answers > 0 /\ pc = Idle /\ pc' = pc
    BY <1>4 DEF Reply
  <2>2. /\ DOMAIN p = DOMAIN req[r]
        /\ p.live = req[r].live /\ p.active = req[r].active /\ p.waiting = req[r].waiting
        /\ p.inbox = req[r].inbox /\ p.gone = req[r].gone
        /\ p.answers = req[r].answers /\ p.refs = req[r].refs - 1
        /\ p.timer = req[r].timer
    BY <1>1 DEF Shaped, RemoveReference
  <2>3. p.freed = FALSE
    BY <1>1, <2>1 DEF Shaped, Counted, RemoveReference
  <2> HIDE DEF p
  <2>4. /\ DOMAIN n = DOMAIN p
        /\ n.live = p.live /\ n.active = p.active /\ n.waiting = p.waiting
        /\ n.inbox = p.inbox /\ n.gone = p.gone /\ n.freed = p.freed
        /\ n.answers = p.answers - 1 /\ n.refs = p.refs /\ n.timer = p.timer
    BY <1>1, <2>2 DEF Shaped
  <2>5. q.active = req[r].active /\ q.answers = req[r].answers - 1
    BY <1>1, <2>2 DEF Shaped
  <2>6. q.active /\ q.answers % Parts = 0
    <3>1. req[r].active
      BY <1>1, <2>1 DEF Counted, Shaped
    <3>2. overdrawn' = IF q.answers % Parts = 0 THEN overdrawn ELSE overdrawn \cup {r}
      BY <1>4, Zenon DEF Reply, p
    <3>3. q.answers % Parts = 0
      BY <3>2
    <3> QED BY <2>5, <3>1, <3>3, Zenon
  <2>7. Stop(r, n)
    BY <1>4, <2>6, Zenon DEF Reply, p
  <2> HIDE DEF n
  <2>8. Shaped(n) /\ TimerRef(n) = TimerRef(req[r])
    <3>1. TimerRef(n) = TimerRef(req[r])
      BY <2>2, <2>4 DEF TimerRef
    <3>2. n.answers \in Nat /\ n.refs \in Int /\ n.timer \in {"none", "young", "old"}
      BY <1>1, <2>1, <2>2, <2>4 DEF Shaped
    <3>3. /\ n.live \in BOOLEAN /\ n.inbox \in BOOLEAN /\ n.gone \in BOOLEAN
          /\ n.active \in BOOLEAN /\ n.waiting \in BOOLEAN /\ n.freed \in BOOLEAN
      BY <1>1, <2>2, <2>3, <2>4, Zenon DEF Shaped
    <3>4. DOMAIN n = DOMAIN req[r]
      BY <2>2, <2>4
    <3> QED BY <1>1, <3>1, <3>2, <3>3, <3>4, Zenon DEF Shaped
  <2>9. /\ n.refs >= TimerRef(n) /\ (n.active => n.live)
        /\ (n.freed \/ n.gone => ~n.live) /\ (n.freed => n.timer = "none")
        /\ (n.live \/ n.gone \/ n.freed)
    BY <1>1, <2>1, <2>2, <2>3, <2>4, <2>8 DEF Shaped, Counted, TimerRef
  <2> QED BY <2>1, <2>7, <2>8, <2>9, StopKeeps
<1>5. CASE OnReplyTimeout(r)
  <2> DEFINE q == [req[r] EXCEPT !.timer = "none"]
             n == RemoveReference(q)
  <2>1. /\ req[r].timer = "old" /\ req' = [req EXCEPT ![r] = n]
        /\ pc = Idle /\ pc' = IF req[r].gone THEN pc ELSE [at |-> "timeout", of |-> r]
    BY <1>5 DEF OnReplyTimeout
  <2>2. /\ DOMAIN n = DOMAIN req[r]
        /\ n.live = req[r].live /\ n.active = req[r].active /\ n.waiting = req[r].waiting
        /\ n.inbox = req[r].inbox /\ n.gone = req[r].gone
        /\ n.answers = req[r].answers /\ n.refs = req[r].refs - 1 /\ n.timer = "none"
    BY <1>1 DEF Shaped, RemoveReference
  <2>3. n.freed \in BOOLEAN /\ (n.freed => req[r].gone)
    BY <1>1 DEF Shaped, RemoveReference
  <2> HIDE DEF n
  <2>4. Shaped(n) /\ TimerRef(n) = 0 /\ TimerRef(req[r]) = 1
    BY <1>1, <2>1, <2>2, <2>3 DEF Shaped, TimerRef
  <2>5. Counted(n)
    BY <1>1, <2>1, <2>2, <2>3, <2>4 DEF Shaped, Counted
  <2>6. CASE req[r].gone
    BY <2>1, <2>4, <2>5, <2>6, IdleFacts, OneChanges
  <2>7. CASE ~req[r].gone
    <3>1. pc' = [at |-> "timeout", of |-> r]
      BY <2>1, <2>7
    <3>2. n.live
      <4>1. ~req[r].freed
        BY <1>1, <2>1 DEF Counted
      <4> QED BY <1>1, <2>2, <2>7, <4>1, Zenon DEF Counted
    <3>a. n.inbox => n.waiting
      <4>1. req[r].inbox => req[r].waiting
        BY <1>1, <2>1 DEF Counted
      <4> QED BY <2>2, <4>1, Zenon
    <3>3. Handled(pc', n)
      BY <3>1, <3>2, <3>a DEF Handled
    <3>4. pc' \in [at : Labels \ {"idle"}, of : Requests] \cup {Idle}
      BY <3>1 DEF Labels
    <3>5. \A x \in Requests \ {r} : pc'.of # x
      BY <3>1
    <3> QED BY <2>1, <2>4, <2>5, <3>3, <3>4, <3>5, OneChanges
  <2> QED BY <2>6, <2>7
<1>6. CASE ProcessTimeout(r)
  <2>1. pc = [at |-> "timeout", of |-> r] /\ Handled(pc, req[r])
    BY <1>1, <1>6 DEF ProcessTimeout
  <2>2. CASE pc' = Idle /\ req' = req
    BY <2>2, IdleFacts DEF IInv
  <2>3. CASE pc' = Idle /\ Stop(r, req[r])
    BY <1>1, <2>3, StopKeeps DEF Counted
  <2>4. CASE /\ req[r].inbox
             /\ req' = [req EXCEPT ![r].count = @ + 1]
             /\ pc' = IF req[r].count >= Retries THEN [at |-> "giveUp", of |-> r]
                      ELSE IF req[r].waiting THEN [at |-> "retry", of |-> r] ELSE Idle
    <3> DEFINE n == [req[r] EXCEPT !.count = @ + 1]
    <3>1. req' = [req EXCEPT ![r] = n]
      BY <2>4
    <3>2. /\ DOMAIN n = DOMAIN req[r]
          /\ n.live = req[r].live /\ n.active = req[r].active /\ n.waiting = req[r].waiting
          /\ n.inbox = req[r].inbox /\ n.gone = req[r].gone /\ n.freed = req[r].freed
          /\ n.answers = req[r].answers /\ n.refs = req[r].refs /\ n.timer = req[r].timer
      BY <1>1 DEF Shaped
    <3> HIDE DEF n
    <3>3. Shaped(n) /\ Counted(n)
      BY <1>1, <3>2 DEF Shaped, Counted, TimerRef
    <3>4. n.live /\ n.waiting /\ n.refs >= TimerRef(n) + 1
      BY <2>1, <2>4, <3>2, <3>3 DEF Handled, Counted
    <3>5. pc' = Idle \/ pc' \in {[at |-> a, of |-> r] : a \in {"giveUp", "retry"}}
      BY <2>4
    <3>6. pc' \in [at : Labels \ {"idle"}, of : Requests] \cup {Idle}
      BY <3>5 DEF Labels
    <3>7. Handled(pc', n)
      BY <3>4 DEF Handled
    <3>8. \A x \in Requests \ {r} : pc'.of # x
      BY <3>5, IdleFacts
    <3> QED BY <3>1, <3>3, <3>6, <3>7, <3>8, OneChanges
  <2> QED BY <1>6, <2>2, <2>3, <2>4 DEF ProcessTimeout
<1>7. CASE Retry(r)
  <2>1. Dispatch(r, StartReplyTimer(req[r])) /\ pc' = Idle /\ pc = [at |-> "retry", of |-> r]
    BY <1>7 DEF Retry
  <2>2. req[r].live /\ (req[r].inbox => req[r].waiting)
    BY <1>1, <2>1 DEF Handled
  <2>3. Shaped(StartReplyTimer(req[r])) /\ Counted(StartReplyTimer(req[r]))
    BY <1>1, <2>2, TimerCounted
  <2> QED BY <2>1, <2>3, DispatchKeeps
<1>8. CASE GiveUp(r)
  <2> DEFINE n == RemoveReference(req[r])
  <2>1. Stop(r, n) /\ pc' = Idle /\ pc = [at |-> "giveUp", of |-> r]
    BY <1>8 DEF GiveUp
  <2>2. req[r].live /\ req[r].refs >= TimerRef(req[r]) + 1
    BY <1>1, <2>1 DEF Handled
  <2>3. /\ DOMAIN n = DOMAIN req[r]
        /\ n.live = req[r].live /\ n.active = req[r].active /\ n.waiting = req[r].waiting
        /\ n.inbox = req[r].inbox /\ n.gone = req[r].gone
        /\ n.answers = req[r].answers /\ n.refs = req[r].refs - 1 /\ n.timer = req[r].timer
    BY <1>1 DEF Shaped, RemoveReference
  <2>4. n.freed = FALSE
    BY <1>1, <2>2 DEF Shaped, Counted, RemoveReference
  <2> HIDE DEF n
  <2>5. Shaped(n) /\ TimerRef(n) = TimerRef(req[r]) /\ TimerRef(n) \in Int
    <3>1. TimerRef(n) = TimerRef(req[r]) /\ TimerRef(n) \in Int
      BY <2>3 DEF TimerRef
    <3>2. n.answers \in Nat /\ n.refs \in Int /\ n.timer \in {"none", "young", "old"}
      BY <1>1, <2>3 DEF Shaped
    <3>3. /\ n.live \in BOOLEAN /\ n.inbox \in BOOLEAN /\ n.gone \in BOOLEAN
          /\ n.active \in BOOLEAN /\ n.waiting \in BOOLEAN /\ n.freed \in BOOLEAN
      BY <1>1, <2>3, <2>4, Zenon DEF Shaped
    <3> QED BY <1>1, <2>3, <3>1, <3>2, <3>3, Zenon DEF Shaped
  <2>6. /\ n.refs >= TimerRef(n) /\ (n.active => n.live)
        /\ (n.freed \/ n.gone => ~n.live) /\ (n.freed => n.timer = "none")
        /\ (n.live \/ n.gone \/ n.freed)
    BY <1>1, <2>2, <2>3, <2>4, <2>5 DEF Shaped, Counted
  <2> QED BY <2>1, <2>5, <2>6, StopKeeps
<1> QED BY <1>2, <1>3, <1>4, <1>5, <1>6, <1>7, <1>8 DEF QueueThread

-----------------------------------------------------------------------------
(* imageRequest.c: the destroy handle of a request is not freed before the   *)
(* inbox and the reply timer that point to it are gone, for any requests,     *)
(* retries, throttle and size of images, wherever deactivate is called, until  *)
(* the request takes a message of an image that is not the last.             *)
THEOREM HandleSafety == Spec => []HandleOutlivesCallbacks
<1>1. Init => IInv
  BY InitCounted
<1>2. IInv /\ [Next]_vars => IInv'
  <2> SUFFICES ASSUME IInv, [Next]_vars PROVE IInv'
    OBVIOUS
  <2>1. CASE UNCHANGED vars
    BY <2>1 DEF IInv, vars
  <2>2. CASE RunAction
    BY <2>2, OthersCounted
  <2>3. ASSUME NEW r \in Requests,
               \/ QueueThread(r) \/ Age(r) \/ Reply(r)
               \/ Send(r) \/ OtherImage(r) \/ Deactivate(r) \/ Activate(r) \/ Destroy(r)
        PROVE  IInv'
    <3>1. /\ \E n : req' = [req EXCEPT ![r] = n]
          /\ \/ pc' = pc \/ pc' = Idle
             \/ pc' \in [at : Labels \ {"idle"}, of : {r}]
          /\ overdrawn \subseteq overdrawn'
          /\ Reply(r) \/ overdrawn' = overdrawn
      BY <2>3, OneAtATime
    <3>2. CASE r \in overdrawn'
      BY <3>1, <3>2, OverdrawnChanges
    <3>3. CASE r \notin overdrawn'
      <4>1. overdrawn' = overdrawn /\ r \notin overdrawn
        <5>1. ASSUME Reply(r) PROVE overdrawn' = overdrawn
          <6>1. overdrawn' = overdrawn \/ overdrawn' = overdrawn \cup {r}
            BY <5>1, Zenon DEF Reply
          <6> QED
            BY <3>3, <6>1
        <5> QED
          BY <3>1, <3>3, <5>1
      <4>2. CASE Age(r)
        BY <4>1, <4>2, OthersCounted
      <4>3. CASE OtherImage(r) \/ Deactivate(r) \/ Activate(r) \/ Destroy(r)
        BY <4>1, <4>3, SubscriptionCounted
      <4>4. CASE Send(r) \/ Reply(r) \/ QueueThread(r)
        BY <4>1, <4>4, QueueCounted
      <4> QED
        BY <2>3, <4>2, <4>3, <4>4
    <3> QED
      BY <3>2, <3>3
  <2> QED
    BY <2>1, <2>2, <2>3 DEF Next
<1>3. IInv => HandleOutlivesCallbacks
  BY DEF IInv, Counted, HandleOutlivesCallbacks
<1> QED
  BY <1>1, <1>2, <1>3, PTL DEF Spec

-----------------------------------------------------------------------------
(* The elements of the throttle's list. *)

Elements == [slot : Nat \ {0}, owner : Requests]

(* Elements in use and free elements are apart, each is there once, and all   *)
(* have been allocated.                                                     *)
Apart(q, f, n) ==
    /\ q \in Seq(Elements) /\ f \in Seq(Nat \ {0}) /\ n \in Nat
    /\ \A i \in DOMAIN q : q[i].slot <= n
    /\ \A i \in DOMAIN f : f[i] <= n
    /\ \A i, j \in DOMAIN q : q[i].slot = q[j].slot => i = j
    /\ \A i, j \in DOMAIN f : f[i] = f[j] => i = j
    /\ \A i \in DOMAIN q : \A j \in DOMAIN f : q[i].slot # f[j]

(* list_remove_element and list_free_element, for each of some elements, in   *)
(* any order.                                                               *)
LEMMA TakenApart ==
    ASSUME NEW q, NEW f, NEW n, Apart(q, f, n), NEW H \in SUBSET (DOMAIN q),
           NEW s \in SetToSeqs({q[i].slot : i \in H})
    PROVE  Apart(At(q, DOMAIN q \ H), s \o f, n)
<1> DEFINE D == DOMAIN q
           K == D \ H
           a == At(q, K)
           g == Origin(K)
           T == {q[i].slot : i \in H}
           c == s \o f
<1>0. q \in Seq(Elements) /\ Len(q) \in Nat /\ D = 1 .. Len(q) /\ f \in Seq(Nat \ {0})
  BY DEF Apart
<1>1. K \in SUBSET (1 .. Len(q)) /\ H \in SUBSET D
  BY <1>0
<1>2. \A i \in K : i \in D /\ i \notin H
  OBVIOUS
<1> HIDE DEF K
<1>3. a \in Seq(Elements) /\ Len(a) = Cardinality(K) /\ Cardinality(K) \in Nat
  BY <1>0, <1>1, AtKeeps
<1>4. /\ \A k \in 1 .. Cardinality(K) : g[k] \in K /\ a[k] = q[g[k]]
      /\ \A k, l \in 1 .. Cardinality(K) : k < l => g[k] < g[l]
  BY <1>0, <1>1, AtKeeps
<1> HIDE DEF a, g
<1>7. DOMAIN a = 1 .. Cardinality(K)
  BY <1>3
<1>8. /\ \A k \in DOMAIN a : k \in Int /\ g[k] \in D /\ g[k] \notin H /\ a[k] = q[g[k]]
      /\ \A k, l \in DOMAIN a : g[k] = g[l] => k = l
  <2>0. \A k \in DOMAIN a : g[k] \in K /\ a[k] = q[g[k]]
    BY <1>4, <1>7
  <2>1. \A k \in DOMAIN a : k \in Int /\ g[k] \in K /\ a[k] = q[g[k]] /\ g[k] \in Int
    <3>1. \A i \in K : i \in Int
      BY <1>0, <1>1
    <3>2. \A k \in DOMAIN a : k \in Int
      BY <1>3, <1>7
    <3> QED
      BY <2>0, <3>1, <3>2
  <2>2. \A k, l \in DOMAIN a : k < l => g[k] < g[l]
    BY <1>4, <1>7
  <2> QED
    BY <1>2, <2>1, <2>2
<1>9. T \in SUBSET (Nat \ {0}) /\ Cardinality(T) \in Nat
  <2>0. \A i \in D : q[i] \in Elements /\ q[i].slot <= n /\ n \in Nat
    BY DEF Apart
  <2>1. \A i \in D : q[i].slot \in 1 .. n /\ n \in Nat
    BY <2>0 DEF Elements
  <2>2. T \in SUBSET (1 .. n) /\ n \in Nat
    BY <1>1, <2>1 DEF Apart
  <2>3. IsFiniteSet(T)
    <3>1. IsFiniteSet(1 .. n)
      BY <2>2, FS_Interval
    <3> HIDE DEF T
    <3> QED
      BY <2>2, <3>1, FS_Subset
  <2> HIDE DEF T
  <2> QED
    BY <2>2, <2>3, FS_CardinalityType
<1>10. /\ s \in Seq(Nat \ {0}) /\ DOMAIN s = 1 .. Cardinality(T)
       /\ \A k \in DOMAIN s : s[k] \in T
       /\ \A k, l \in DOMAIN s : s[k] = s[l] => k = l
  <2>1. /\ s \in [1 .. Cardinality(T) -> T]
        /\ \A k, l \in 1 .. Cardinality(T) : k # l => s[k] # s[l]
    BY DEF SetToSeqs
  <2> HIDE DEF T
  <2>2. DOMAIN s = 1 .. Cardinality(T) /\ \A k \in DOMAIN s : s[k] \in T
    BY <2>1
  <2>3. \A k, l \in DOMAIN s : s[k] = s[l] => k = l
    BY <2>1, <2>2
  <2>4. s \in [1 .. Cardinality(T) -> Nat \ {0}]
    BY <1>9, <2>1
  <2>5. s \in Seq(Nat \ {0})
    BY <1>9, <2>4
  <2> QED
    BY <2>2, <2>3, <2>5
<1>b. \A k \in DOMAIN s : \E x \in H : s[k] = q[x].slot
  BY <1>10
<1> HIDE DEF T
<1> HIDE DEF D
<1> DEFINE L == Len(s)
<1>11. /\ L \in Nat /\ Len(f) \in Nat /\ DOMAIN s = 1 .. L /\ DOMAIN f = 1 .. Len(f)
       /\ c \in Seq(Nat \ {0}) /\ DOMAIN c = 1 .. L + Len(f)
  BY <1>0, <1>10
<1>12. ASSUME NEW i \in DOMAIN c
       PROVE  \/ i \in DOMAIN s /\ c[i] = s[i]
              \/ i - L \in DOMAIN f /\ c[i] = f[i - L]
  <2>1. c[i] = IF i <= L THEN s[i] ELSE f[i - L]
    BY <1>0, <1>10, <1>11
  <2> QED
    BY <1>11, <2>1
<1> HIDE DEF c, L
<1>a. /\ \A i \in D : q[i].slot <= n
      /\ \A i \in DOMAIN f : f[i] <= n
      /\ \A i, j \in D : q[i].slot = q[j].slot => i = j
      /\ \A i, j \in DOMAIN f : f[i] = f[j] => i = j
      /\ \A i \in D : \A j \in DOMAIN f : q[i].slot # f[j]
  BY DEF Apart, D
<1>c. \A k \in DOMAIN s : s[k] <= n /\ \A j \in DOMAIN f : s[k] # f[j]
  BY <1>1, <1>a, <1>b
<1>13. ASSUME NEW i \in DOMAIN a PROVE a[i].slot <= n
  BY <1>8, <1>a
<1>14. ASSUME NEW i \in DOMAIN c PROVE c[i] <= n
  BY <1>12, <1>a, <1>c
<1>15. ASSUME NEW i \in DOMAIN a, NEW j \in DOMAIN a, a[i].slot = a[j].slot PROVE i = j
  BY <1>8, <1>15, <1>a
<1>16. ASSUME NEW i \in DOMAIN c, NEW j \in DOMAIN c, c[i] = c[j] PROVE i = j
  <2>0. i \in Int /\ j \in Int /\ L \in Int
    BY <1>11
  <2>1. CASE i \in DOMAIN s /\ c[i] = s[i] /\ j \in DOMAIN s /\ c[j] = s[j]
    BY <1>10, <1>16, <2>1
  <2>2. CASE i - L \in DOMAIN f /\ c[i] = f[i - L] /\ j - L \in DOMAIN f /\ c[j] = f[j - L]
    <3>1. i - L = j - L
      BY <1>16, <1>a, <2>2
    <3> QED
      BY <2>0, <3>1
  <2>3. CASE i \in DOMAIN s /\ c[i] = s[i] /\ j - L \in DOMAIN f /\ c[j] = f[j - L]
    BY <1>16, <1>c, <2>3
  <2>4. CASE i - L \in DOMAIN f /\ c[i] = f[i - L] /\ j \in DOMAIN s /\ c[j] = s[j]
    BY <1>16, <1>c, <2>4
  <2> QED
    BY <1>12, <2>1, <2>2, <2>3, <2>4
<1>17. ASSUME NEW i \in DOMAIN a, NEW j \in DOMAIN c PROVE a[i].slot # c[j]
  <2>1. CASE j \in DOMAIN s /\ c[j] = s[j]
    <3>1. PICK x \in H : s[j] = q[x].slot
      BY <1>b, <2>1
    <3>2. x \in D /\ x # g[i] /\ g[i] \in D
      BY <1>1, <1>8
    <3> QED
      BY <1>8, <1>a, <2>1, <3>1, <3>2
  <2>2. CASE j - L \in DOMAIN f /\ c[j] = f[j - L]
    BY <1>8, <1>a, <2>2
  <2> QED
    BY <1>12, <2>1, <2>2
<1>18. n \in Nat
  BY DEF Apart
<1> QED
  BY <1>3, <1>11, <1>13, <1>14, <1>15, <1>16, <1>17, <1>18 DEF Apart, a, c, K, D

(* list_allocate_element, which takes a free element or a new one, and        *)
(* list_push_front.                                                         *)
LEMMA PushedApart ==
    ASSUME NEW q, NEW f, NEW n, Apart(q, f, n), NEW r \in Requests
    PROVE  LET e == [slot |-> IF f = <<>> THEN n + 1 ELSE Head(f), owner |-> r]
           IN  Apart(<<e>> \o q, IF f = <<>> THEN f ELSE Tail(f), IF f = <<>> THEN n + 1 ELSE n)
<1> DEFINE k == IF f = <<>> THEN n + 1 ELSE Head(f)
           e == [slot |-> k, owner |-> r]
           qq == <<e>> \o q
           ff == IF f = <<>> THEN f ELSE Tail(f)
           nn == IF f = <<>> THEN n + 1 ELSE n
<1>0. /\ q \in Seq(Elements) /\ f \in Seq(Nat \ {0}) /\ n \in Nat /\ nn \in Nat /\ n <= nn
      /\ \A i \in DOMAIN q : q[i].slot \in Nat /\ q[i].slot <= n
      /\ \A i \in DOMAIN f : f[i] \in Nat /\ f[i] <= n
      /\ \A i, j \in DOMAIN q : q[i].slot = q[j].slot => i = j
      /\ \A i, j \in DOMAIN f : f[i] = f[j] => i = j
      /\ \A i \in DOMAIN q : \A j \in DOMAIN f : q[i].slot # f[j]
  <2>1. q \in Seq(Elements) /\ f \in Seq(Nat \ {0}) /\ n \in Nat
    BY DEF Apart
  <2>2. \A i \in DOMAIN q : q[i] \in Elements
    BY <2>1
  <2>3. \A i \in DOMAIN q : q[i].slot \in Nat
    BY <2>2 DEF Elements
  <2>4. \A i \in DOMAIN f : f[i] \in Nat
    BY <2>1
  <2> QED
    BY <2>1, <2>3, <2>4 DEF Apart
<1>1. /\ k \in Nat \ {0} /\ k <= nn
      /\ \A i \in DOMAIN q : q[i].slot # k
  <2>1. CASE f = <<>>
    BY <1>0, <2>1
  <2>2. CASE f # <<>>
    <3>1. 1 \in DOMAIN f /\ Head(f) = f[1] /\ Head(f) \in Nat \ {0}
      BY <1>0, <2>2
    <3> QED
      BY <1>0, <2>2, <3>1
  <2> QED
    BY <2>1, <2>2
<1>2. /\ ff \in Seq(Nat \ {0})
      /\ \A i \in DOMAIN ff : ff[i] # k /\ ff[i] <= nn
      /\ \A i, j \in DOMAIN ff : ff[i] = ff[j] => i = j
      /\ \A i \in DOMAIN q : \A j \in DOMAIN ff : q[i].slot # ff[j]
  <2>1. CASE f = <<>>
    BY <1>0, <2>1
  <2>2. CASE f # <<>>
    <3>1. /\ 1 \in DOMAIN f /\ k = f[1] /\ ff = Tail(f) /\ ff \in Seq(Nat \ {0}) /\ nn = n
          /\ \A i \in DOMAIN ff : i \in Nat \ {0} /\ i + 1 \in DOMAIN f /\ ff[i] = f[i + 1]
      BY <1>0, <2>2
    <3> HIDE DEF ff, k, nn
    <3>2. \A i \in DOMAIN ff : ff[i] # k /\ ff[i] <= nn
      BY <1>0, <3>1
    <3>3. ASSUME NEW i \in DOMAIN ff, NEW j \in DOMAIN ff, ff[i] = ff[j] PROVE i = j
      <4>1. i + 1 = j + 1
        BY <1>0, <3>1, <3>3
      <4> QED
        BY <3>1, <4>1
    <3>4. \A i \in DOMAIN q : \A j \in DOMAIN ff : q[i].slot # ff[j]
      BY <1>0, <3>1
    <3> QED
      BY <3>1, <3>2, <3>3, <3>4
  <2> QED
    BY <2>1, <2>2
<1> HIDE DEF k, ff, nn
<1>3. e \in Elements /\ e.slot = k
  BY <1>1 DEF Elements
<1> HIDE DEF e
<1>4. /\ Len(q) \in Nat /\ qq \in Seq(Elements) /\ DOMAIN qq = 1 .. Len(q) + 1 /\ qq[1] = e
      /\ \A i \in DOMAIN qq : i # 1 => i - 1 \in DOMAIN q /\ qq[i] = q[i - 1]
  BY <1>0, <1>3
<1> HIDE DEF qq
<1>5. ASSUME NEW i \in DOMAIN qq
      PROVE  i \in Int /\ qq[i].slot <= nn /\ \A j \in DOMAIN ff : qq[i].slot # ff[j]
  <2>1. CASE i = 1
    BY <1>1, <1>2, <1>3, <1>4, <2>1
  <2>2. CASE i # 1
    <3>1. i - 1 \in DOMAIN q /\ qq[i].slot = q[i - 1].slot
      BY <1>4, <2>2
    <3> QED
      BY <1>0, <1>2, <1>4, <3>1
  <2> QED
    BY <2>1, <2>2
<1>6. ASSUME NEW i \in DOMAIN qq, NEW j \in DOMAIN qq, qq[i].slot = qq[j].slot PROVE i = j
  <2>1. \A x \in DOMAIN qq : qq[x].slot = k => x = 1
    BY <1>1, <1>4
  <2>2. CASE i = 1 \/ j = 1
    BY <1>3, <1>4, <1>6, <2>1, <2>2
  <2>3. CASE i # 1 /\ j # 1
    <3>1. i - 1 \in DOMAIN q /\ j - 1 \in DOMAIN q /\ q[i - 1].slot = q[j - 1].slot
      BY <1>4, <1>6, <2>3
    <3>2. i - 1 = j - 1
      BY <1>0, <3>1
    <3> QED
      BY <1>5, <3>2
  <2> QED
    BY <2>2, <2>3
<1>7. Apart(qq, ff, nn)
  BY <1>0, <1>2, <1>4, <1>5, <1>6 DEF Apart
<1> QED
  BY <1>7 DEF qq, ff, nn, e, k

(* list_pop_front and list_free_element. *)
LEMMA PoppedApart ==
    ASSUME NEW q, NEW f, NEW n, Apart(q, f, n), q # <<>>
    PROVE  Apart(Tail(q), <<Head(q).slot>> \o f, n)
<1> DEFINE e == Head(q)
           qq == Tail(q)
           ff == <<e.slot>> \o f
<1>0. /\ q \in Seq(Elements) /\ f \in Seq(Nat \ {0}) /\ n \in Nat
      /\ \A i \in DOMAIN q : q[i].slot <= n
      /\ \A i \in DOMAIN f : f[i] <= n
      /\ \A i, j \in DOMAIN q : q[i].slot = q[j].slot => i = j
      /\ \A i, j \in DOMAIN f : f[i] = f[j] => i = j
      /\ \A i \in DOMAIN q : \A j \in DOMAIN f : q[i].slot # f[j]
  BY DEF Apart
<1>1. /\ 1 \in DOMAIN q /\ e = q[1] /\ qq \in Seq(Elements)
      /\ \A i \in DOMAIN qq : i \in Nat \ {0} /\ i + 1 \in DOMAIN q /\ qq[i] = q[i + 1]
  BY <1>0
<1>2. e \in Elements
  BY <1>0, <1>1
<1>3. e.slot \in Nat \ {0}
  BY <1>2 DEF Elements
<1> HIDE DEF e, qq
<1>4. /\ Len(f) \in Nat /\ ff \in Seq(Nat \ {0}) /\ DOMAIN ff = 1 .. Len(f) + 1 /\ ff[1] = e.slot
      /\ \A i \in DOMAIN ff : i # 1 => i - 1 \in DOMAIN f /\ ff[i] = f[i - 1]
  BY <1>0, <1>3
<1> HIDE DEF ff
<1>5. \A i \in DOMAIN qq : qq[i].slot <= n /\ qq[i].slot # e.slot
  BY <1>0, <1>1
<1>6. \A i \in DOMAIN ff : ff[i] <= n
  BY <1>0, <1>1, <1>4
<1>7. ASSUME NEW i \in DOMAIN qq, NEW j \in DOMAIN qq, qq[i].slot = qq[j].slot PROVE i = j
  <2>1. i + 1 = j + 1
    BY <1>0, <1>1, <1>7
  <2> QED
    BY <1>1, <2>1
<1>8. ASSUME NEW i \in DOMAIN ff, NEW j \in DOMAIN ff, ff[i] = ff[j] PROVE i = j
  <2>1. \A x \in DOMAIN ff : ff[x] = e.slot => x = 1
    BY <1>0, <1>1, <1>4
  <2>2. CASE i = 1 \/ j = 1
    BY <1>4, <1>8, <2>1, <2>2
  <2>3. CASE i # 1 /\ j # 1
    <3>1. i - 1 \in DOMAIN f /\ j - 1 \in DOMAIN f /\ f[i - 1] = f[j - 1]
      BY <1>4, <1>8, <2>3
    <3>2. i - 1 = j - 1
      BY <1>0, <3>1
    <3> QED
      BY <1>4, <3>2
  <2> QED
    BY <2>2, <2>3
<1>9. ASSUME NEW i \in DOMAIN qq, NEW j \in DOMAIN ff PROVE qq[i].slot # ff[j]
  <2>1. CASE j = 1
    BY <1>4, <1>5, <2>1
  <2>2. CASE j # 1
    BY <1>0, <1>1, <1>4, <2>2
  <2> QED
    BY <2>1, <2>2
<1>10. Apart(qq, ff, n)
  BY <1>0, <1>1, <1>4, <1>5, <1>6, <1>7, <1>8, <1>9 DEF Apart
<1> QED
  BY <1>10 DEF qq, ff, e

OnceInv == Apart(queue, free, fresh)

(* imageRequest_stopWaitForResponse frees the elements it takes back. *)
LEMMA StopApart ==
    ASSUME OnceInv, NEW r \in Requests, NEW q, Stop(r, q)
    PROVE  OnceInv'
<1>1. Held(r) \in SUBSET (DOMAIN queue)
  BY DEF Held
<1>2. PICK s \in Freed(r) : free' = s \o free
  BY DEF Stop, TakeBack
<1>3. s \in SetToSeqs({queue[i].slot : i \in Held(r)})
  BY DEF Freed
<1>4. Apart(At(queue, DOMAIN queue \ Held(r)), s \o free, fresh)
  BY <1>1, <1>3, TakenApart DEF OnceInv
<1> QED
  BY <1>2, <1>4 DEF OnceInv, Stop, TakeBack

(* A request is sent at once or put on the list. *)
LEMMA DispatchApart ==
    ASSUME OnceInv, NEW r \in Requests, NEW q, Dispatch(r, q)
    PROVE  OnceInv'
<1>1. CASE UNCHANGED <<queue, free, fresh>>
  BY <1>1 DEF OnceInv
<1>2. CASE /\ queue' = <<[slot |-> IF free = <<>> THEN fresh + 1 ELSE Head(free), owner |-> r]>> \o queue
           /\ free' = IF free = <<>> THEN free ELSE Tail(free)
           /\ fresh' = IF free = <<>> THEN fresh + 1 ELSE fresh
  BY <1>2, PushedApart DEF OnceInv
<1> QED
  BY <1>1, <1>2 DEF Dispatch

(* Every step keeps the elements apart. *)
LEMMA OnceStep == OnceInv /\ [Next]_vars => OnceInv'
<1> SUFFICES ASSUME OnceInv, [Next]_vars PROVE OnceInv'
  OBVIOUS
<1>1. CASE UNCHANGED <<queue, free, fresh>>
  BY <1>1 DEF OnceInv
<1>2. CASE RunAction
  BY <1>2, PoppedApart DEF RunAction, OnceInv
<1>3. ASSUME NEW r \in Requests, QueueThread(r) PROVE OnceInv'
  BY <1>1, <1>3, StopApart, DispatchApart
  DEF QueueThread, SendDispatch, OnReplyTimeout, ProcessTimeout, Retry, GiveUp
<1>4. ASSUME NEW r \in Requests, Reply(r) \/ OtherImage(r) \/ Deactivate(r) PROVE OnceInv'
  BY <1>1, <1>4, StopApart DEF Reply, OtherImage, Deactivate
<1>5. ASSUME NEW r \in Requests, Age(r) \/ Send(r) \/ Activate(r) \/ Destroy(r) PROVE OnceInv'
  BY <1>1, <1>5 DEF Age, Send, Activate, Destroy
<1> QED
  BY <1>1, <1>2, <1>3, <1>4, <1>5 DEF Next, vars

(* The throttle's list under wombatThrottle_dispatch, timerCB and             *)
(* removeMessagesFromList: no element is on it twice or both on it and free,   *)
(* although mPendingActions keeps pointers to elements that were reused.      *)
THEOREM ListStaysAList == Spec => []ElementsOnce
<1>1. Init => OnceInv
  <2> SUFFICES ASSUME Init PROVE OnceInv
    OBVIOUS
  <2>1. queue = <<>> /\ free = <<>> /\ fresh = 0
    BY DEF Init
  <2>2. <<>> \in Seq(Elements) /\ <<>> \in Seq(Nat \ {0}) /\ DOMAIN <<>> = {}
    OBVIOUS
  <2> QED
    BY <2>1, <2>2 DEF OnceInv, Apart
<1>2. OnceInv => ElementsOnce
  <2> SUFFICES ASSUME OnceInv PROVE ElementsOnce
    OBVIOUS
  <2> DEFINE s == Slots(queue)
             all == s \o free
             L == Len(s)
  <2>0. queue \in Seq(Elements) /\ free \in Seq(Nat \ {0})
    BY DEF OnceInv, Apart
  <2>1. /\ s \in Seq(Nat \ {0}) /\ DOMAIN s = DOMAIN queue
        /\ \A i \in DOMAIN queue : s[i] = queue[i].slot
    <3>1. \A i \in DOMAIN queue : queue[i] \in Elements
      BY <2>0
    <3>2. \A i \in DOMAIN queue : queue[i].slot \in Nat \ {0}
      BY <3>1 DEF Elements
    <3>3. s \in [1 .. Len(queue) -> Nat \ {0}] /\ Len(queue) \in Nat /\ DOMAIN s = DOMAIN queue
      BY <2>0, <3>2 DEF Slots
    <3>4. \A i \in DOMAIN queue : s[i] = queue[i].slot
      BY DEF Slots
    <3> HIDE DEF s
    <3> QED
      BY <3>3, <3>4
  <2> HIDE DEF s
  <2>2. /\ L \in Nat /\ DOMAIN s = 1 .. L /\ Len(free) \in Nat /\ DOMAIN free = 1 .. Len(free)
        /\ DOMAIN all = 1 .. L + Len(free)
        /\ \A i \in DOMAIN all : all[i] = IF i <= L THEN s[i] ELSE free[i - L]
    BY <2>0, <2>1
  <2> HIDE DEF all, L
  <2>3. ASSUME NEW i \in DOMAIN all
        PROVE  \/ i \in DOMAIN queue /\ all[i] = queue[i].slot
               \/ i - L \in DOMAIN free /\ all[i] = free[i - L]
    BY <2>1, <2>2
  <2>4. ASSUME NEW i \in DOMAIN all, NEW j \in DOMAIN all, all[i] = all[j] PROVE i = j
    <3>0. i \in Int /\ j \in Int /\ L \in Int
      BY <2>2
    <3>1. CASE i \in DOMAIN queue /\ j \in DOMAIN queue /\ queue[i].slot = queue[j].slot
      BY <3>1 DEF OnceInv, Apart
    <3>2. CASE i - L \in DOMAIN free /\ j - L \in DOMAIN free /\ free[i - L] = free[j - L]
      <4>1. i - L = j - L
        BY <3>2 DEF OnceInv, Apart
      <4> QED
        BY <3>0, <4>1
    <3>3. ~(\E x \in DOMAIN queue : \E y \in DOMAIN free : queue[x].slot = free[y])
      BY DEF OnceInv, Apart
    <3> QED
      BY <2>3, <2>4, <3>1, <3>2, <3>3
  <2> QED
    BY <2>4 DEF ElementsOnce, all, s
<1> QED
  BY <1>1, <1>2, OnceStep, PTL DEF Spec

-----------------------------------------------------------------------------
(* Whose actions are on the list. *)

(* The fields of a request that this argument is about. *)
Formed(q) ==
    /\ DOMAIN q = {"live", "active", "waiting", "inbox", "answers", "image", "count",
                   "timer", "acts", "refs", "gone", "freed"}
    /\ q.live \in BOOLEAN /\ q.active \in BOOLEAN /\ q.waiting \in BOOLEAN
    /\ q.acts \in Seq(Nat \ {0})
    /\ q.active => q.live

(* A request that waits belongs to an active subscription. *)
Fields(q) == Formed(q) /\ (q.waiting => q.active)

Pointed(q) == ToSet(q.acts)

(* Every action on the list is one that its request points to and waits for, *)
(* and one that the queue's thread is about to dispatch is waited for.       *)
HoldInv ==
    /\ req = [r \in Requests |-> req[r]]
    /\ \A r \in Requests : Fields(req[r])
    /\ pc \in [at : Labels \ {"idle"}, of : Requests] \cup {Idle}
    /\ pc.at \in {"send", "retry"} => req[pc.of].waiting
    /\ \A i \in DOMAIN queue :
         /\ queue[i].slot \in Pointed(req[queue[i].owner])
         /\ req[queue[i].owner].waiting

(* list_remove_element of mPendingActions takes one pointer and leaves the    *)
(* others.                                                                 *)
LEMMA OthersStay ==
    ASSUME NEW s \in Seq(Nat \ {0}), NEW e
    PROVE  /\ RemoveFirst(s, e) \in Seq(Nat \ {0})
           /\ \A x \in ToSet(s) : x # e => x \in ToSet(RemoveFirst(s, e))
<1> DEFINE I == {i \in 1 .. Len(s) : s[i] = e}
<1>1. CASE I = {}
  <2>1. RemoveFirst(s, e) = s
    BY <1>1 DEF RemoveFirst
  <2> QED
    BY <2>1
<1>2. CASE I # {}
  <2> DEFINE p == Min(I)
             a == SubSeq(s, 1, p - 1)
             b == SubSeq(s, p + 1, Len(s))
  <2>1. p \in I
    <3>0. I \in SUBSET Nat
      OBVIOUS
    <3>1. \E x \in I : \A y \in I : x <= y
      BY <1>2, <3>0, Smallest
    <3> HIDE DEF I
    <3> QED
      BY <3>1 DEF Min
  <2>2. RemoveFirst(s, e) = a \o b
    BY <1>2 DEF RemoveFirst, RemoveAt, SelectInSeq
  <2>3. p \in 1 .. Len(s) /\ s[p] = e /\ Len(s) \in Nat
    BY <2>1
  <2> HIDE DEF p, I
  <2>4. /\ a \in Seq(Nat \ {0}) /\ Len(a) = p - 1 /\ \A i \in 1 .. p - 1 : a[i] = s[i]
    BY <2>3
  <2>5. /\ b \in Seq(Nat \ {0}) /\ Len(b) = Len(s) - p
        /\ \A i \in 1 .. Len(s) - p : b[i] = s[i + p]
    BY <2>3
  <2> DEFINE c == a \o b
  <2> HIDE DEF a, b
  <2>6. /\ c \in Seq(Nat \ {0}) /\ DOMAIN c = 1 .. Len(s) - 1
        /\ \A i \in DOMAIN c : c[i] = IF i <= p - 1 THEN a[i] ELSE b[i - (p - 1)]
    BY <2>3, <2>4, <2>5
  <2> HIDE DEF c
  <2>7. ASSUME NEW i \in DOMAIN s, s[i] # e PROVE \E j \in DOMAIN c : c[j] = s[i]
    <3>0. i \in 1 .. Len(s) /\ i # p
      BY <2>3, <2>7
    <3>1. CASE i < p
      <4>0. i \in DOMAIN c /\ i <= p - 1 /\ i \in 1 .. p - 1
        BY <2>3, <2>6, <3>0, <3>1
      <4>1. i \in DOMAIN c /\ c[i] = s[i]
        BY <2>4, <2>6, <4>0
      <4> QED
        BY <4>1
    <3>2. CASE i > p
      <4>0. i \in Int /\ p \in Int /\ i <= Len(s) /\ 1 <= p /\ Len(s) \in Int
        BY <2>3, <3>0
      <4>a. i - 1 \in 1 .. Len(s) - 1 /\ ~(i - 1 <= p - 1) /\ (i - 1) - (p - 1) = i - p
        BY <3>2, <4>0
      <4>1. i - 1 \in DOMAIN c /\ ~(i - 1 <= p - 1) /\ (i - 1) - (p - 1) = i - p
        BY <2>6, <4>a
      <4>2. i - p \in 1 .. Len(s) - p /\ (i - p) + p = i
        BY <2>3, <3>0, <3>2
      <4>3. c[i - 1] = b[i - p] /\ b[i - p] = s[i]
        BY <2>5, <2>6, <4>1, <4>2
      <4> QED
        BY <4>1, <4>3
    <3> QED
      BY <2>3, <3>0, <3>1, <3>2
  <2>8. \A x \in ToSet(s) : x # e => x \in ToSet(c)
    BY <2>7 DEF ToSet
  <2> QED
    BY <2>2, <2>6, <2>8 DEF c
<1> QED
  BY <1>1, <1>2

(* The fields that HoldInv is about are those of q. *)
Same(n, q) ==
    /\ DOMAIN n = DOMAIN q /\ n.live = q.live /\ n.active = q.active
    /\ n.waiting = q.waiting /\ n.acts = q.acts

(* The timer and the reference count are apart from them. *)
LEMMA SameFields ==
    ASSUME NEW q, Formed(q)
    PROVE  /\ Same(IncrementRefCount(q), q) /\ Same(RemoveReference(q), q)
           /\ Same(StartReplyTimer(q), q) /\ Same(CheckDestroyReplyTimer(q), q)
           /\ Same(Sent(q), q)
<1>1. Same(IncrementRefCount(q), q)
  BY DEF Same, Fields, Formed, IncrementRefCount
<1>2. Same(RemoveReference(q), q)
  BY DEF Same, Fields, Formed, RemoveReference
<1>3. Same(StartReplyTimer(q), q)
  BY DEF Same, Fields, Formed, StartReplyTimer, IncrementRefCount
<1>4. Same(CheckDestroyReplyTimer(q), q)
  BY DEF Same, Fields, Formed, CheckDestroyReplyTimer, RemoveReference
<1>5. Same(Sent(q), q)
  <2> DEFINE s == StartReplyTimer(q)
  <2>1. Same(s, q)
    BY <1>3
  <2> HIDE DEF s
  <2>2. Same([s EXCEPT !.answers = @ + Parts], q)
    BY <2>1 DEF Same, Fields, Formed
  <2>3. Sent(q) = IF q.waiting THEN [s EXCEPT !.answers = @ + Parts] ELSE q
    BY DEF Sent, s
  <2> QED
    BY <2>2, <2>3 DEF Same
<1> QED
  BY <1>1, <1>2, <1>3, <1>4, <1>5

(* A step that gives request r the fields n. *)
LEMMA HoldKeeps ==
    ASSUME HoldInv, NEW r \in Requests, NEW n, req' = [req EXCEPT ![r] = n], Fields(n),
           pc' \in [at : Labels \ {"idle"}, of : Requests] \cup {Idle},
           pc'.at \in {"send", "retry"} =>
             IF pc'.of = r THEN n.waiting ELSE req[pc'.of].waiting,
           \A i \in DOMAIN queue' : queue'[i].owner \in Requests,
           \A i \in DOMAIN queue' :
             LET q == IF queue'[i].owner = r THEN n ELSE req[queue'[i].owner]
             IN  queue'[i].slot \in Pointed(q) /\ q.waiting
    PROVE  HoldInv'
<1>1. req' = [x \in Requests |-> IF x = r THEN n ELSE req[x]]
  BY DEF HoldInv
<1>2. \A x \in Requests : req'[x] = IF x = r THEN n ELSE req[x]
  BY <1>1
<1>3. req' = [x \in Requests |-> req'[x]]
  BY <1>1
<1>4. \A x \in Requests : Fields(req'[x])
  BY <1>2 DEF HoldInv
<1>5. pc'.at \in {"send", "retry"} => pc'.of \in Requests
  BY DEF Idle
<1>6. pc'.at \in {"send", "retry"} => req'[pc'.of].waiting
  BY <1>2, <1>5
<1>7. \A i \in DOMAIN queue' :
        /\ queue'[i].slot \in Pointed(req'[queue'[i].owner])
        /\ req'[queue'[i].owner].waiting
  BY <1>2
<1> QED
  BY <1>3, <1>4, <1>6, <1>7 DEF HoldInv

(* The same with the list as it is, for a request that goes on waiting if it  *)
(* did.                                                                    *)
LEMMA HoldSame ==
    ASSUME OnceInv, HoldInv, NEW r \in Requests, NEW n, req' = [req EXCEPT ![r] = n], Fields(n),
           UNCHANGED queue, n.acts = req[r].acts, req[r].waiting => n.waiting,
           \/ pc' = pc
           \/ pc' = Idle
           \/ /\ pc' \in [at : Labels \ {"idle"}, of : {r}]
              /\ pc'.at \in {"send", "retry"} => n.waiting
    PROVE  HoldInv'
<1>1. \A i \in DOMAIN queue : queue[i] \in Elements
  BY DEF OnceInv, Apart
<1>2. \A i \in DOMAIN queue' : queue'[i].owner \in Requests
  BY <1>1 DEF Elements
<1>3. ASSUME NEW i \in DOMAIN queue'
      PROVE  LET q == IF queue'[i].owner = r THEN n ELSE req[queue'[i].owner]
             IN  queue'[i].slot \in Pointed(q) /\ q.waiting
  BY DEF HoldInv, Pointed
<1>4. pc' \in [at : Labels \ {"idle"}, of : Requests] \cup {Idle}
  BY DEF HoldInv
<1>5. pc'.at \in {"send", "retry"} => IF pc'.of = r THEN n.waiting ELSE req[pc'.of].waiting
  BY DEF HoldInv, Idle
<1> QED
  BY <1>2, <1>3, <1>4, <1>5, HoldKeeps

(* imageRequest_stopWaitForResponse takes back all that the request has on the *)
(* list, since the request points to it.                                     *)
LEMMA HoldStop ==
    ASSUME OnceInv, HoldInv, NEW r \in Requests, NEW q, Stop(r, q), Formed(q),
           q.acts = req[r].acts, pc' = Idle
    PROVE  HoldInv'
<1> DEFINE n == Stopped(q)
           K == DOMAIN queue \ Held(r)
<1>0. queue \in Seq(Elements) /\ \A i \in DOMAIN queue : queue[i] \in Elements
  BY DEF OnceInv, Apart
<1>1. K \in SUBSET (1 .. Len(queue)) /\ Len(queue) \in Nat
  BY <1>0
<1>2. queue' = At(queue, K) /\ req' = [req EXCEPT ![r] = n]
  BY DEF Stop, TakeBack
<1>3. Fields(n)
  <2> DEFINE s == CheckDestroyReplyTimer(q)
  <2>1. Same(s, q)
    BY SameFields DEF Fields
  <2>2. n = [s EXCEPT !.waiting = FALSE, !.inbox = FALSE, !.answers = 0]
    BY DEF Stopped
  <2> HIDE DEF s, n
  <2> QED
    BY <2>1, <2>2 DEF Same, Fields, Formed
<1>4. \A i \in K : i \in DOMAIN queue /\ queue[i].slot \notin Mine(r)
  BY DEF Held
<1> HIDE DEF n, K
<1>5. /\ queue' \in Seq(Elements) /\ DOMAIN queue' = 1 .. Cardinality(K)
      /\ \A k \in 1 .. Cardinality(K) : Origin(K)[k] \in K /\ queue'[k] = queue[Origin(K)[k]]
  <2> DEFINE a == At(queue, K)
  <2>1. /\ a \in Seq(Elements) /\ Len(a) = Cardinality(K) /\ Cardinality(K) \in Nat
        /\ \A k \in 1 .. Cardinality(K) : Origin(K)[k] \in K /\ a[k] = queue[Origin(K)[k]]
    BY <1>0, <1>1, AtKeeps
  <2>2. queue' = a
    BY <1>2
  <2> HIDE DEF a
  <2> QED
    BY <2>1, <2>2
<1>6. \A k \in DOMAIN queue' : \E i \in DOMAIN queue : queue'[k] = queue[i] /\ queue[i].slot \notin Mine(r)
  BY <1>4, <1>5
<1>7. \A k \in DOMAIN queue' : queue'[k].owner \in Requests
  BY <1>0, <1>6 DEF Elements
<1>8. ASSUME NEW k \in DOMAIN queue'
      PROVE  LET x == IF queue'[k].owner = r THEN n ELSE req[queue'[k].owner]
             IN  queue'[k].slot \in Pointed(x) /\ x.waiting
  <2>1. PICK i \in DOMAIN queue : queue'[k] = queue[i] /\ queue[i].slot \notin Mine(r)
    BY <1>6
  <2>2. queue[i].slot \in Pointed(req[queue[i].owner]) /\ req[queue[i].owner].waiting
    BY DEF HoldInv
  <2>3. queue[i].owner # r
    BY <2>1, <2>2 DEF Pointed, Mine
  <2> QED
    BY <2>1, <2>2, <2>3
<1>9. pc' \in [at : Labels \ {"idle"}, of : Requests] \cup {Idle} /\ pc'.at \notin {"send", "retry"}
  BY DEF Idle
<1> QED
  BY <1>2, <1>3, <1>7, <1>8, <1>9, HoldKeeps

(* wombatThrottle_dispatch for a request that waits. *)
LEMMA HoldDispatch ==
    ASSUME OnceInv, HoldInv, NEW r \in Requests, NEW q, Dispatch(r, q), Fields(q),
           q.acts = req[r].acts, q.waiting, pc' = Idle
    PROVE  HoldInv'
<1>1. CASE req' = [req EXCEPT ![r] = Sent(q)] /\ UNCHANGED queue
  <2> DEFINE n == Sent(q)
  <2>1. Same(n, q)
    BY SameFields DEF Fields
  <2>2. req' = [req EXCEPT ![r] = n]
    BY <1>1
  <2> HIDE DEF n
  <2>3. Fields(n) /\ n.acts = req[r].acts /\ n.waiting
    BY <2>1 DEF Same, Fields, Formed
  <2> QED
    BY <1>1, <2>2, <2>3, HoldSame
<1>2. ASSUME NEW k, k = (IF free = <<>> THEN fresh + 1 ELSE Head(free)),
             queue' = <<[slot |-> k, owner |-> r]>> \o queue,
             req' = [req EXCEPT ![r] = [q EXCEPT !.acts = Append(@, k)]]
      PROVE  HoldInv'
  <2> DEFINE n == [q EXCEPT !.acts = Append(@, k)]
             e == [slot |-> k, owner |-> r]
  <2>0. queue \in Seq(Elements) /\ \A i \in DOMAIN queue : queue[i] \in Elements
    BY DEF OnceInv, Apart
  <2>1. k \in Nat \ {0}
    BY <1>2 DEF OnceInv, Apart
  <2>2. /\ DOMAIN n = DOMAIN q /\ n.live = q.live /\ n.active = q.active
        /\ n.waiting = q.waiting /\ n.acts = Append(q.acts, k)
    BY DEF Fields, Formed
  <2>3. req' = [req EXCEPT ![r] = n]
    BY <1>2
  <2>4. e \in Elements /\ e.slot = k /\ e.owner = r
    BY <2>1 DEF Elements
  <2>5. queue' = <<e>> \o queue
    BY <1>2
  <2> HIDE DEF n, e
  <2>6. n.acts \in Seq(Nat \ {0})
    BY <2>1, <2>2 DEF Fields, Formed
  <2>7. Fields(n)
    BY <2>2, <2>6 DEF Fields, Formed
  <2>8. Pointed(q) \subseteq Pointed(n) /\ k \in Pointed(n)
    <3> DEFINE s == q.acts
    <3>1. s \in Seq(Nat \ {0}) /\ n.acts = Append(s, k)
      BY <2>2 DEF Fields, Formed
    <3> HIDE DEF s
    <3>a. /\ Len(s) \in Nat /\ DOMAIN s = 1 .. Len(s) /\ DOMAIN Append(s, k) = 1 .. Len(s) + 1
          /\ Append(s, k)[Len(s) + 1] = k
          /\ \A i \in 1 .. Len(s) : Append(s, k)[i] = s[i]
      BY <2>1, <3>1
    <3>b. Len(s) + 1 \in 1 .. Len(s) + 1 /\ \A i \in 1 .. Len(s) : i \in 1 .. Len(s) + 1
      BY <3>a
    <3>2. ToSet(s) \subseteq ToSet(Append(s, k)) /\ k \in ToSet(Append(s, k))
      <4>1. k \in ToSet(Append(s, k))
        BY <3>a, <3>b DEF ToSet
      <4>2. ToSet(s) \subseteq ToSet(Append(s, k))
        BY <3>a, <3>b DEF ToSet
      <4> QED
        BY <4>1, <4>2
    <3> QED
      BY <3>1, <3>2 DEF Pointed, s
  <2>9. \A i \in DOMAIN queue' : queue'[i] = e \/ \E j \in DOMAIN queue : queue'[i] = queue[j]
    BY <2>0, <2>4, <2>5
  <2>10. \A i \in DOMAIN queue' : queue'[i].owner \in Requests
    BY <2>0, <2>4, <2>9 DEF Elements
  <2>11. ASSUME NEW i \in DOMAIN queue'
         PROVE  LET x == IF queue'[i].owner = r THEN n ELSE req[queue'[i].owner]
                IN  queue'[i].slot \in Pointed(x) /\ x.waiting
    <3>1. CASE queue'[i] = e
      BY <2>2, <2>4, <2>8, <3>1
    <3>2. ASSUME NEW j \in DOMAIN queue, queue'[i] = queue[j]
          PROVE  LET x == IF queue'[i].owner = r THEN n ELSE req[queue'[i].owner]
                 IN  queue'[i].slot \in Pointed(x) /\ x.waiting
      <4>1. queue[j].slot \in Pointed(req[queue[j].owner]) /\ req[queue[j].owner].waiting
        BY DEF HoldInv
      <4>2. Pointed(req[r]) = Pointed(q)
        BY DEF Pointed
      <4>3. CASE queue[j].owner = r
        BY <2>2, <2>8, <3>2, <4>1, <4>2, <4>3
      <4>4. CASE queue[j].owner # r
        BY <3>2, <4>1, <4>4
      <4> QED
        BY <4>3, <4>4
    <3> QED
      BY <2>9, <3>1, <3>2
  <2>12. pc' \in [at : Labels \ {"idle"}, of : Requests] \cup {Idle} /\ pc'.at \notin {"send", "retry"}
    BY DEF Idle
  <2> QED
    BY <2>3, <2>7, <2>10, <2>11, <2>12, HoldKeeps
<1> QED
  BY <1>1, <1>2 DEF Dispatch

(* The throttle runs the first action; what else the request has on the list  *)
(* it still points to.                                                      *)
LEMMA HoldRun == OnceInv /\ HoldInv /\ RunAction => HoldInv'
<1> SUFFICES ASSUME OnceInv, HoldInv, RunAction PROVE HoldInv'
  OBVIOUS
<1> DEFINE e == Head(queue)
           r == e.owner
           q == req[r]
           m == [q EXCEPT !.acts = RemoveFirst(@, e.slot)]
           n == Sent(m)
<1>0. /\ queue \in Seq(Elements) /\ \A i \in DOMAIN queue : queue[i] \in Elements
      /\ \A i, j \in DOMAIN queue : queue[i].slot = queue[j].slot => i = j
  BY DEF OnceInv, Apart
<1>1. /\ queue # <<>> /\ queue' = Tail(queue) /\ req' = [req EXCEPT ![r] = n] /\ pc' = pc
  BY DEF RunAction
<1>2. /\ 1 \in DOMAIN queue /\ e = queue[1]
      /\ \A i \in DOMAIN queue' : i \in Nat \ {0} /\ i + 1 \in DOMAIN queue /\ queue'[i] = queue[i + 1]
  BY <1>0, <1>1
<1>3. e \in Elements
  BY <1>0, <1>2
<1>4. r \in Requests
  BY <1>3 DEF Elements
<1>5. Fields(q) /\ q.waiting
  BY <1>2, <1>4 DEF HoldInv
<1>6. /\ RemoveFirst(q.acts, e.slot) \in Seq(Nat \ {0})
      /\ \A x \in Pointed(q) : x # e.slot => x \in ToSet(RemoveFirst(q.acts, e.slot))
  BY <1>5, OthersStay DEF Fields, Formed, Pointed
<1>7. /\ DOMAIN m = DOMAIN q /\ m.live = q.live /\ m.active = q.active
      /\ m.waiting = q.waiting /\ m.acts = RemoveFirst(q.acts, e.slot)
  BY <1>5 DEF Fields, Formed
<1> HIDE DEF m
<1>8. Fields(m)
  BY <1>5, <1>6, <1>7 DEF Fields, Formed
<1>9. Same(n, m)
  BY <1>8, SameFields DEF Fields
<1> HIDE DEF n
<1>10. Fields(n) /\ n.waiting /\ \A x \in Pointed(q) : x # e.slot => x \in Pointed(n)
  <2>1. Fields(n) /\ n.waiting
    BY <1>5, <1>7, <1>8, <1>9 DEF Same, Fields, Formed
  <2>2. n.acts = RemoveFirst(q.acts, e.slot)
    BY <1>7, <1>9 DEF Same
  <2> QED
    BY <1>6, <2>1, <2>2 DEF Pointed
<1> HIDE DEF e, r, q
<1>11. \A i \in DOMAIN queue' : queue'[i].owner \in Requests
  BY <1>0, <1>2 DEF Elements
<1>12. ASSUME NEW i \in DOMAIN queue'
       PROVE  LET x == IF queue'[i].owner = r THEN n ELSE req[queue'[i].owner]
              IN  queue'[i].slot \in Pointed(x) /\ x.waiting
  <2>1. i + 1 \in DOMAIN queue /\ queue'[i] = queue[i + 1] /\ i + 1 # 1
    BY <1>2
  <2>2. queue'[i].slot # e.slot
    BY <1>0, <1>2, <2>1
  <2>3. /\ queue'[i].slot \in Pointed(req[queue'[i].owner])
        /\ req[queue'[i].owner].waiting
    BY <2>1 DEF HoldInv
  <2> QED
    BY <1>10, <2>2, <2>3 DEF q
<1>13. pc' \in [at : Labels \ {"idle"}, of : Requests] \cup {Idle}
  BY <1>1 DEF HoldInv
<1>14. pc'.at \in {"send", "retry"} => IF pc'.of = r THEN n.waiting ELSE req[pc'.of].waiting
  BY <1>1, <1>10 DEF HoldInv
<1> QED
  BY <1>1, <1>4, <1>10, <1>11, <1>12, <1>13, <1>14, HoldKeeps

(* The steps of the queue's thread for request r. *)
LEMMA HoldThread ==
    ASSUME OnceInv, HoldInv, NEW r \in Requests, QueueThread(r)
    PROVE  HoldInv'
<1>0. Fields(req[r])
  BY DEF HoldInv
<1>a. \A l : [at |-> l, of |-> r].at = l /\ [at |-> l, of |-> r].of = r
  OBVIOUS
<1>1. CASE SendDispatch(r)
  <2>1. req[r].waiting
    BY <1>1 DEF SendDispatch, HoldInv
  <2> QED
    BY <1>0, <1>1, <2>1, HoldDispatch DEF SendDispatch
<1>2. CASE Retry(r)
  <2> DEFINE q == StartReplyTimer(req[r])
  <2>1. req[r].waiting
    BY <1>2 DEF Retry, HoldInv
  <2>2. Same(q, req[r])
    BY <1>0, SameFields DEF Fields
  <2>3. Dispatch(r, q) /\ pc' = Idle
    BY <1>2 DEF Retry
  <2> HIDE DEF q
  <2>4. Fields(q) /\ q.acts = req[r].acts /\ q.waiting
    BY <1>0, <2>1, <2>2 DEF Same, Fields, Formed
  <2> QED
    BY <2>3, <2>4, HoldDispatch
<1>3. CASE GiveUp(r)
  <2> DEFINE q == RemoveReference(req[r])
  <2>1. Same(q, req[r])
    BY <1>0, SameFields DEF Fields
  <2>2. Stop(r, q) /\ pc' = Idle
    BY <1>3 DEF GiveUp
  <2> HIDE DEF q
  <2>3. Fields(q) /\ q.acts = req[r].acts
    BY <1>0, <2>1 DEF Same, Fields, Formed
  <2> QED
    BY <2>2, <2>3, HoldStop DEF Fields
<1>4. CASE OnReplyTimeout(r)
  <2> DEFINE q == [req[r] EXCEPT !.timer = "none"]
             n == RemoveReference(q)
  <2>1. Same(q, req[r])
    BY <1>0 DEF Same, Fields, Formed
  <2>2. req' = [req EXCEPT ![r] = n]
    BY <1>4 DEF OnReplyTimeout
  <2> HIDE DEF q
  <2>3. Fields(q)
    BY <1>0, <2>1 DEF Same, Fields, Formed
  <2>4. Same(n, q)
    BY <2>3, SameFields DEF Fields
  <2> HIDE DEF n
  <2>5. Fields(n) /\ n.acts = req[r].acts /\ n.waiting = req[r].waiting
    BY <1>0, <2>1, <2>4 DEF Same, Fields, Formed
  <2>6. \/ pc' = pc
        \/ /\ pc' \in [at : Labels \ {"idle"}, of : {r}]
           /\ pc'.at \in {"send", "retry"} => n.waiting
    BY <1>4 DEF OnReplyTimeout, Labels
  <2>7. UNCHANGED queue
    BY <1>4 DEF OnReplyTimeout
  <2> QED
    BY <2>2, <2>5, <2>6, <2>7, HoldSame
<1>5. CASE ProcessTimeout(r)
  <2>1. CASE pc' = Idle /\ UNCHANGED <<req, queue, free, fresh>>
    BY <2>1 DEF HoldInv, Idle
  <2>2. CASE Stop(r, req[r]) /\ pc' = Idle
    BY <1>0, <2>2, HoldStop DEF Fields
  <2>3. CASE /\ req' = [req EXCEPT ![r].count = @ + 1]
             /\ pc' = IF req[r].count >= Retries THEN [at |-> "giveUp", of |-> r]
                      ELSE IF req[r].waiting THEN [at |-> "retry", of |-> r] ELSE Idle
             /\ UNCHANGED <<queue, free, fresh>>
    <3> DEFINE n == [req[r] EXCEPT !.count = @ + 1]
    <3>1. Same(n, req[r])
      BY <1>0 DEF Same, Fields, Formed
    <3>2. req' = [req EXCEPT ![r] = n]
      BY <2>3
    <3> HIDE DEF n
    <3>3. Fields(n) /\ n.acts = req[r].acts /\ n.waiting = req[r].waiting
      BY <1>0, <3>1 DEF Same, Fields, Formed
    <3>4. \/ pc' = Idle
          \/ /\ pc' \in [at : Labels \ {"idle"}, of : {r}]
             /\ pc'.at \in {"send", "retry"} => n.waiting
      BY <2>3, <3>3 DEF Labels
    <3> QED
      BY <2>3, <3>2, <3>3, <3>4, HoldSame
  <2> QED
    BY <1>5, <2>1, <2>2, <2>3 DEF ProcessTimeout
<1> QED
  BY <1>1, <1>2, <1>3, <1>4, <1>5 DEF QueueThread

(* The other steps for request r, if the queue's thread is the one that       *)
(* deactivates.                                                            *)
LEMMA HoldOthers ==
    ASSUME ~DeactivateAnywhere, OnceInv, HoldInv, NEW r \in Requests,
           \/ Age(r) \/ Reply(r) \/ Send(r)
           \/ OtherImage(r) \/ Deactivate(r) \/ Activate(r) \/ Destroy(r)
    PROVE  HoldInv'
<1>0. Fields(req[r])
  BY DEF HoldInv
<1>1. CASE Age(r)
  <2> DEFINE n == [req[r] EXCEPT !.timer = "old"]
  <2>1. Same(n, req[r])
    BY <1>0 DEF Same, Fields, Formed
  <2>2. req' = [req EXCEPT ![r] = n] /\ UNCHANGED <<queue, pc>>
    BY <1>1 DEF Age
  <2> HIDE DEF n
  <2>3. Fields(n) /\ n.acts = req[r].acts /\ n.waiting = req[r].waiting
    BY <1>0, <2>1 DEF Same, Fields, Formed
  <2> QED
    BY <2>2, <2>3, HoldSame
<1>2. CASE Reply(r)
  <2> DEFINE m == RemoveReference(req[r])
             q == [m EXCEPT !.answers = @ - 1]
             x == [q EXCEPT !.image = TRUE]
  <2>1. Same(m, req[r])
    BY <1>0, SameFields DEF Fields
  <2>2. \/ Stop(r, x)
        \/ req' = [req EXCEPT ![r] = q] /\ UNCHANGED queue
    BY <1>2 DEF Reply
  <2>3. pc' = Idle
    BY <1>2 DEF Reply
  <2> HIDE DEF m
  <2>4. Same(q, req[r]) /\ Same(x, req[r])
    BY <1>0, <2>1 DEF Same, Fields, Formed
  <2> HIDE DEF q, x
  <2>5. /\ Fields(q) /\ q.acts = req[r].acts /\ q.waiting = req[r].waiting
        /\ Fields(x) /\ x.acts = req[r].acts
    BY <1>0, <2>4 DEF Same, Fields, Formed
  <2> QED
    BY <2>2, <2>3, <2>5, HoldStop, HoldSame DEF Fields
<1>3. CASE Send(r)
  <2> DEFINE q == [req[r] EXCEPT !.waiting = TRUE, !.count = 0, !.image = FALSE, !.inbox = TRUE]
             n == IncrementRefCount(q)
  <2>1. /\ DOMAIN q = DOMAIN req[r] /\ q.live = req[r].live /\ q.active = req[r].active
        /\ q.waiting = TRUE /\ q.acts = req[r].acts
    BY <1>0 DEF Fields, Formed
  <2>2. req' = [req EXCEPT ![r] = n]
    BY <1>3 DEF Send
  <2>3. req[r].active
    BY <1>3 DEF Send
  <2> HIDE DEF q
  <2>4. Fields(q)
    BY <1>0, <2>1, <2>3 DEF Fields, Formed
  <2>5. Same(n, q)
    BY <2>4, SameFields DEF Fields
  <2> HIDE DEF n
  <2>6. Fields(n) /\ n.acts = req[r].acts /\ n.waiting
    BY <2>1, <2>4, <2>5 DEF Same, Fields, Formed
  <2>7. pc' \in [at : Labels \ {"idle"}, of : {r}] /\ UNCHANGED queue
    BY <1>3 DEF Send, Labels
  <2> QED
    BY <2>2, <2>6, <2>7, HoldSame
<1>4. CASE OtherImage(r)
  <2> DEFINE q == [req[r] EXCEPT !.image = TRUE]
  <2>1. Same(q, req[r])
    BY <1>0 DEF Same, Fields, Formed
  <2>2. Stop(r, q) /\ pc' = Idle
    BY <1>4 DEF OtherImage
  <2> HIDE DEF q
  <2>3. Fields(q) /\ q.acts = req[r].acts
    BY <1>0, <2>1 DEF Same, Fields, Formed
  <2> QED
    BY <2>2, <2>3, HoldStop DEF Fields
<1>5. CASE Deactivate(r)
  <2> DEFINE q == [req[r] EXCEPT !.active = FALSE]
  <2>1. /\ DOMAIN q = DOMAIN req[r] /\ q.live = req[r].live /\ q.active = FALSE
        /\ q.waiting = req[r].waiting /\ q.acts = req[r].acts
    BY <1>0 DEF Fields, Formed
  <2>2. pc' = Idle
    BY <1>5 DEF Deactivate
  <2>3. \/ Stop(r, q)
        \/ ~q.waiting /\ req' = [req EXCEPT ![r] = q] /\ UNCHANGED queue
    BY <1>5 DEF Deactivate
  <2> HIDE DEF q
  <2>4. CASE ~q.waiting /\ req' = [req EXCEPT ![r] = q] /\ UNCHANGED queue
    <3>1. Fields(q)
      BY <1>0, <2>1, <2>4 DEF Fields, Formed
    <3> QED
      BY <2>1, <2>2, <2>4, <3>1, HoldSame
  <2>5. CASE Stop(r, q)
    BY <1>0, <2>1, <2>2, <2>5, HoldStop DEF Fields, Formed
  <2> QED
    BY <2>3, <2>4, <2>5
<1>6. CASE Activate(r)
  <2> DEFINE n == [req[r] EXCEPT !.active = TRUE]
  <2>1. /\ DOMAIN n = DOMAIN req[r] /\ n.live = req[r].live /\ n.active = TRUE
        /\ n.waiting = req[r].waiting /\ n.acts = req[r].acts
    BY <1>0 DEF Fields, Formed
  <2>2. req' = [req EXCEPT ![r] = n] /\ UNCHANGED <<queue, pc>> /\ req[r].live
    BY <1>6 DEF Activate
  <2> HIDE DEF n
  <2>3. Fields(n)
    BY <1>0, <2>1, <2>2 DEF Fields, Formed
  <2> QED
    BY <2>1, <2>2, <2>3, HoldSame
<1>7. CASE Destroy(r)
  <2> DEFINE d == DestroyOwner(req[r])
             n == [d EXCEPT !.live = FALSE, !.inbox = FALSE, !.answers = 0, !.acts = <<>>]
  <2>1. Same(d, req[r])
    BY <1>0 DEF Same, Fields, Formed, DestroyOwner
  <2>2. req' = [req EXCEPT ![r] = n] /\ UNCHANGED <<queue, pc>> /\ ~req[r].active /\ pc' = Idle
    BY <1>7 DEF Destroy
  <2> HIDE DEF d
  <2>3. /\ DOMAIN n = DOMAIN req[r] /\ n.live = FALSE /\ n.active = req[r].active
        /\ n.waiting = req[r].waiting /\ n.acts = <<>>
    BY <1>0, <2>1 DEF Same, Fields, Formed
  <2> HIDE DEF n
  <2>a. <<>> \in Seq(Nat \ {0})
    OBVIOUS
  <2>4. Fields(n) /\ ~req[r].waiting
    BY <1>0, <2>2, <2>3, <2>a DEF Fields, Formed
  <2>5. \A i \in DOMAIN queue : queue[i] \in Elements
    BY DEF OnceInv, Apart
  <2>6. \A i \in DOMAIN queue' : queue'[i].owner \in Requests
    BY <2>2, <2>5 DEF Elements
  <2>7. ASSUME NEW i \in DOMAIN queue'
        PROVE  LET q == IF queue'[i].owner = r THEN n ELSE req[queue'[i].owner]
               IN  queue'[i].slot \in Pointed(q) /\ q.waiting
    <3>1. queue[i].slot \in Pointed(req[queue[i].owner]) /\ req[queue[i].owner].waiting
      BY <2>2 DEF HoldInv
    <3> QED
      BY <2>2, <2>4, <3>1
  <2>8. pc' \in [at : Labels \ {"idle"}, of : Requests] \cup {Idle} /\ pc'.at \notin {"send", "retry"}
    BY <2>2 DEF Idle
  <2> QED
    BY <2>2, <2>4, <2>6, <2>7, <2>8, HoldKeeps
<1> QED
  BY <1>1, <1>2, <1>3, <1>4, <1>5, <1>6, <1>7

(* imageRequest.c and throttle.c: when requests are deactivated on the queue's *)
(* thread, the throttle never runs an action of a request that has been freed, *)
(* although imageRequest_destroy takes nothing back.                         *)
THEOREM ActionsOfTheLiving ==
    ASSUME ~DeactivateAnywhere
    PROVE  Spec => []NoActionAfterFree
<1>1. Init => OnceInv /\ HoldInv
  <2> SUFFICES ASSUME Init PROVE OnceInv /\ HoldInv
    OBVIOUS
  <2>1. <<>> \in Seq(Elements) /\ <<>> \in Seq(Nat \ {0}) /\ DOMAIN <<>> = {}
    OBVIOUS
  <2>2. OnceInv
    BY <2>1 DEF Init, OnceInv, Apart
  <2>3. ASSUME NEW r \in Requests PROVE Fields(req[r])
    BY <2>1 DEF Init, Fields, Formed
  <2>4. HoldInv
    BY <2>1, <2>3 DEF Init, HoldInv, Idle
  <2> QED
    BY <2>2, <2>4
<1>2. OnceInv /\ HoldInv /\ [Next]_vars => HoldInv'
  <2> SUFFICES ASSUME OnceInv, HoldInv, [Next]_vars PROVE HoldInv'
    OBVIOUS
  <2>1. CASE UNCHANGED vars
    BY <2>1 DEF vars, HoldInv
  <2>2. CASE RunAction
    BY <2>2, HoldRun
  <2>3. ASSUME NEW r \in Requests, QueueThread(r) PROVE HoldInv'
    BY <2>3, HoldThread
  <2>4. ASSUME NEW r \in Requests,
               \/ Age(r) \/ Reply(r) \/ Send(r)
               \/ OtherImage(r) \/ Deactivate(r) \/ Activate(r) \/ Destroy(r)
        PROVE  HoldInv'
    BY <2>4, HoldOthers
  <2> QED
    BY <2>1, <2>2, <2>3, <2>4 DEF Next
<1>3. OnceInv /\ HoldInv => NoActionAfterFree
  <2> SUFFICES ASSUME OnceInv, HoldInv, NEW i \in DOMAIN queue PROVE req[queue[i].owner].live
    BY DEF NoActionAfterFree
  <2>1. queue[i] \in Elements
    BY DEF OnceInv, Apart
  <2>2. queue[i].owner \in Requests
    BY <2>1 DEF Elements
  <2> QED
    BY <2>2 DEF HoldInv, Fields, Formed
<1> QED
  BY <1>1, <1>2, <1>3, OnceStep, PTL DEF Spec
=============================================================================
